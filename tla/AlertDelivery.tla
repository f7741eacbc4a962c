--------------------------- MODULE AlertDelivery ---------------------------
(***************************************************************************)
(* Alerts: the worker asks for a trip's reassessment, the API's consumer   *)
(* starts it and watches it, and the recommendation service evaluates its  *)
(* result against the recommendation the trip had and delivers what the    *)
(* change means to each subscription                                       *)
(* (services/recommendation/app/workers/main.py,                           *)
(* services/api/app/application/alerts_consumer.py,                        *)
(* services/recommendation/app/domain/alert_service.py).                   *)
(*                                                                         *)
(* A watch task of the API and the evaluation it calls for are one         *)
(* sequential process here; watches interleave at every await.             *)
(*                                                                         *)
(* Abstractions.  One trip.  A recommendation is its content (AlertChange) *)
(* and a run of the agent ends with any of Recs.  A subscription has one   *)
(* channel.  messages is what left through the channels, a history.        *)
(***************************************************************************)
EXTENDS AlertChange, Sequences, FiniteSets

CONSTANTS
  Subs,        \* subscriptions of the trip
  Watches,     \* concurrent watches
  Recs,        \* recommendations the agent may arrive at
  Threshold,   \* Threshold[s]: severity_threshold
  Outcomes,    \* what a channel may answer
  Faults,      \* "crash": processes stop; "agent": reassessments fail
  MaxRefresh,  \* bound: refreshes of the worker
  MaxClock     \* bound: half hours that pass

ASSUME AlertDeliveryAssumption ==
  /\ Recs \subseteq Recommendation
  /\ None \notin Recommendation /\ None \notin Subs
  /\ None \notin {"PENDING", "DELIVERED", "FAILED", "SKIPPED"}
  /\ Threshold \in [Subs -> Severities]
  /\ Outcomes \subseteq {"DELIVERED", "FAILED", "SKIPPED"}
  /\ Faults \subseteq {"crash", "agent"}
  /\ MaxRefresh \in Nat /\ MaxClock \in Nat

Opt(S) == S \cup {None}
Events == {EventHash(r) : r \in Recs}

VARIABLES
  clock,
  refreshed,  \* refreshes so far
  entries,    \* entries of the Redis stream not read yet
  latest,     \* the trip's latest recommendation
  sub,        \* sub[s]: status and cooldown_until
  record,     \* record[s][e]: the delivery log
  messages,   \* messages[s]: the events s was told of
  watch       \* watch[w]: the await where w is parked, and its locals

vars == <<clock, refreshed, entries, latest, sub, record, messages, watch>>

-----------------------------------------------------------------------------
\* Mutant: a new subscription's cooldown_until is missing.
NewSubscriptionWithoutCooldown == [status |-> "ACTIVE", until |-> None]

NewSubscription == [status |-> "ACTIVE", until |-> 0]

Idle == [pc |-> "idle", prev |-> None, new |-> None, todo |-> {}, sub |-> None,
         now |-> 0, result |-> None]

Init ==
  /\ clock = 0 /\ refreshed = 0 /\ entries = 0
  /\ latest = None
  /\ sub = [s \in Subs |-> [status |-> "absent", until |-> 0]]
  /\ record = [s \in Subs |-> [e \in Events |-> None]]
  /\ messages = [s \in Subs |-> <<>>]
  /\ watch = [w \in Watches |-> Idle]

At(w, pc) == watch[w].pc = pc

-----------------------------------------------------------------------------
(* Subscriptions.                                                          *)

Subscribe(s) ==
  /\ sub[s].status = "absent"
  /\ sub' = [sub EXCEPT ![s] = NewSubscription]
  /\ UNCHANGED <<clock, refreshed, entries, latest, record, messages, watch>>

\* By the subscriber, or with the consent it rests on.
Revoke(s) ==
  /\ sub[s].status = "ACTIVE"
  /\ sub' = [sub EXCEPT ![s].status = "REVOKED"]
  /\ UNCHANGED <<clock, refreshed, entries, latest, record, messages, watch>>

-----------------------------------------------------------------------------
(* Reassessments.                                                          *)

\* refresh_subscriptions: one entry per trip with an active subscription.
Refresh ==
  /\ refreshed < MaxRefresh
  /\ \E s \in Subs : sub[s].status = "ACTIVE"
  /\ refreshed' = refreshed + 1
  /\ entries' = entries + 1
  /\ UNCHANGED <<clock, latest, sub, record, messages, watch>>

\* The consumer reads an entry, notes the trip's recommendation and starts a run.
Handle(w) ==
  /\ At(w, "idle") /\ entries > 0
  /\ entries' = entries - 1
  /\ watch' = [watch EXCEPT ![w] = [Idle EXCEPT !.pc = "watching", !.prev = latest]]
  /\ UNCHANGED <<clock, refreshed, latest, sub, record, messages>>

\* handle() raised, or the process stopped before it was done: the entry is gone.
LoseEntry ==
  /\ "agent" \in Faults \/ "crash" \in Faults
  /\ entries > 0
  /\ entries' = entries - 1
  /\ UNCHANGED <<clock, refreshed, latest, sub, record, messages, watch>>

\* The run's result is stored on the trip; the watch learns of it and asks to evaluate.
RunEnds(w) ==
  /\ At(w, "watching")
  /\ \E r \in Recs :
       /\ latest' = r
       /\ watch' = [watch EXCEPT ![w].pc = "evaluate", ![w].new = r]
  /\ UNCHANGED <<clock, refreshed, entries, sub, record, messages>>

\* The run failed or took too long, or evaluating could not be asked for: no retry.
WatchEnds(w) ==
  /\ "agent" \in Faults
  /\ watch[w].pc \in {"watching", "evaluate"}
  /\ watch' = [watch EXCEPT ![w] = Idle]
  /\ UNCHANGED <<clock, refreshed, entries, latest, sub, record, messages>>

\* The traveller's own runs change the trip's recommendation too.
OtherRun ==
  /\ latest' \in Recs
  /\ UNCHANGED <<clock, refreshed, entries, sub, record, messages, watch>>

-----------------------------------------------------------------------------
(* AlertService.evaluate.                                                  *)

\* Mutant: revoked subscriptions are not filtered out.
AnySubscription(s) == sub[s].status # "absent"

\* active_subscriptions_for_trip
Active(s) == sub[s].status = "ACTIVE"

\* Meaningful, above the threshold and out of the cooldown, or an escalation.
Wanted(s, prev, new, now) ==
  LET severity == ChangeSeverity(prev, new)  escalation == Escalation(prev, new) IN
  /\ Meaningful(prev, new)
  /\ escalation \/ SEVERITY_RANK[severity] >= SEVERITY_RANK[Threshold[s]]
  /\ CooldownAllows(severity, escalation, sub[s].until, now)

Continue(w, todo) ==
  watch' = [watch EXCEPT ![w] =
    IF todo = {} THEN Idle ELSE [@ EXCEPT !.pc = "claim", !.todo = todo]]

\* Subscriptions, their cooldowns and the time are read once for the whole evaluation.
Evaluate(w) ==
  /\ At(w, "evaluate")
  /\ LET todo == {s \in Subs : Active(s) /\ Wanted(s, watch[w].prev, watch[w].new, clock)} IN
     watch' = [watch EXCEPT ![w] =
       IF todo = {} THEN Idle ELSE [@ EXCEPT !.pc = "claim", !.todo = todo, !.now = clock]]
  /\ UNCHANGED <<clock, refreshed, entries, latest, sub, record, messages>>

Event(w) == EventHash(watch[w].new)

\* Mutant: the claim is inserted without looking for an earlier one.
ClaimAnyway(w, s) ==
  /\ At(w, "claim") /\ s \in watch[w].todo
  /\ record' = [record EXCEPT ![s][Event(w)] = "PENDING"]
  /\ watch' = [watch EXCEPT ![w].pc = "send", ![w].sub = s]
  /\ UNCHANGED <<clock, refreshed, entries, latest, sub, messages>>

\* claim_delivery: INSERT ... ON CONFLICT DO NOTHING inserted a row.
Claim(w, s) ==
  /\ At(w, "claim") /\ s \in watch[w].todo
  /\ record[s][Event(w)] = None
  /\ record' = [record EXCEPT ![s][Event(w)] = "PENDING"]
  /\ watch' = [watch EXCEPT ![w].pc = "send", ![w].sub = s]
  /\ UNCHANGED <<clock, refreshed, entries, latest, sub, messages>>

\* SUPPRESSED_DUPLICATE: the event has a row, whatever became of it.
ClaimTaken(w, s) ==
  /\ At(w, "claim") /\ s \in watch[w].todo
  /\ record[s][Event(w)] # None
  /\ Continue(w, watch[w].todo \ {s})
  /\ UNCHANGED <<clock, refreshed, entries, latest, sub, record, messages>>

\* channel.deliver; a channel that answers FAILED may have sent the message.
Send(w) ==
  /\ At(w, "send")
  /\ \E result \in Outcomes, leaves \in BOOLEAN :
       /\ result = "DELIVERED" => leaves
       /\ result = "SKIPPED" => ~leaves
       /\ messages' = IF leaves THEN [messages EXCEPT ![watch[w].sub] = Append(@, Event(w))]
                                ELSE messages
       /\ watch' = [watch EXCEPT ![w].pc = "finish", ![w].result = result]
  /\ UNCHANGED <<clock, refreshed, entries, latest, sub, record>>

\* Mutant: only a delivered message is finished.
FinishDelivered(w) ==
  /\ At(w, "finish")
  /\ record' = IF watch[w].result = "DELIVERED"
                 THEN [record EXCEPT ![watch[w].sub][Event(w)] = "DELIVERED"] ELSE record
  /\ IF watch[w].result = "DELIVERED"
       THEN watch' = [watch EXCEPT ![w].pc = "mark"]
       ELSE Continue(w, watch[w].todo \ {watch[w].sub})
  /\ UNCHANGED <<clock, refreshed, entries, latest, sub, messages>>

\* finish_delivery
Finish(w) ==
  /\ At(w, "finish")
  /\ record' = [record EXCEPT ![watch[w].sub][Event(w)] = watch[w].result]
  /\ IF watch[w].result = "DELIVERED"
       THEN watch' = [watch EXCEPT ![w].pc = "mark"]
       ELSE Continue(w, watch[w].todo \ {watch[w].sub})
  /\ UNCHANGED <<clock, refreshed, entries, latest, sub, messages>>

\* mark_subscription: the cooldown counts from the time the evaluation began.
Mark(w) ==
  /\ At(w, "mark")
  /\ sub' = [sub EXCEPT ![watch[w].sub].until =
               NextCooldown(ChangeSeverity(watch[w].prev, watch[w].new), watch[w].now)]
  /\ Continue(w, watch[w].todo \ {watch[w].sub})
  /\ UNCHANGED <<clock, refreshed, entries, latest, record, messages>>

-----------------------------------------------------------------------------
\* The process of w stops.  Bound: w stays lost, so at most one crash per watch.
Crash(w) ==
  /\ "crash" \in Faults /\ watch[w].pc \notin {"idle", "lost"}
  /\ watch' = [watch EXCEPT ![w].pc = "lost"]
  /\ UNCHANGED <<clock, refreshed, entries, latest, sub, record, messages>>

Tick ==
  /\ clock < MaxClock
  /\ clock' = clock + 1
  /\ UNCHANGED <<refreshed, entries, latest, sub, record, messages, watch>>

EvaluateStep(w) ==
  \/ Evaluate(w) \/ Send(w) \/ Finish(w) \/ Mark(w)
  \/ \E s \in Subs : Claim(w, s) \/ ClaimTaken(w, s)

Next ==
  \/ \E s \in Subs : Subscribe(s) \/ Revoke(s)
  \/ \E w \in Watches : Handle(w) \/ RunEnds(w) \/ WatchEnds(w) \/ EvaluateStep(w) \/ Crash(w)
  \/ Refresh \/ LoseEntry \/ OtherRun \/ Tick

Spec == Init /\ [][Next]_vars

\* An evaluation that was asked for goes on: each of its awaits returns.
FairSpec == Spec /\ \A w \in Watches : WF_vars(EvaluateStep(w))

-----------------------------------------------------------------------------
(* Properties.                                                             *)

Statuses == {"PENDING", "DELIVERED", "FAILED", "SKIPPED"}
PCs == {"idle", "watching", "evaluate", "claim", "send", "finish", "mark", "lost"}

TypeOK ==
  /\ clock \in Nat /\ refreshed \in Nat /\ entries \in Nat
  /\ latest \in Opt(Recs)
  /\ sub \in [Subs -> [status : {"absent", "ACTIVE", "REVOKED"}, until : Nat]]
  /\ record \in [Subs -> [Events -> Opt(Statuses)]]
  /\ messages \in [Subs -> Seq(Events)]
  /\ watch \in [Watches -> [pc : PCs, prev : Opt(Recs), new : Opt(Recs), todo : SUBSET Subs,
                            sub : Opt(Subs), now : Nat, result : Opt(Outcomes)]]

Count(told, e) == Cardinality({i \in DOMAIN told : told[i] = e})
Sent(s, e) == Count(messages[s], e)

Delivery == INSTANCE DeliveryOnce WITH sent <- [s \in Subs |-> [e \in Events |-> Sent(s, e)]]

\* However many evaluations of the trip run at once, crash or fail half way, a
\* subscriber gets one message at most about an event, and its outcome is decided once.
ImplementsDeliveryOnce == Delivery!Spec

Silenced(s) ==
  /\ sub[s].status = "REVOKED"
  /\ \A w \in Watches : s \in watch[w].todo => At(w, "lost")

\* A revoked subscription hears no more, except from an evaluation that had read it
\* before: whatever is evaluated later leaves it alone.
RevokedStaysSilent ==
  [][\A s \in Subs : Silenced(s) => Silenced(s)' /\ messages'[s] = messages[s]]_vars

LostHolding(s, e) ==
  \E w \in Watches : watch[w].pc = "lost" /\ watch[w].sub = s /\ Event(w) = e

\* A claim, which keeps everybody else from sending, is resolved: only the crash of the
\* evaluation that holds it leaves it pending.
PendingIsResolved ==
  \A s \in Subs, e \in Events :
    record[s][e] = "PENDING" ~> record[s][e] # "PENDING" \/ LostHolding(s, e)

-----------------------------------------------------------------------------
(* What the repository's documents say and the code does not keep.         *)

LastTold(s) == IF messages[s] = <<>> THEN None ELSE messages[s][Len(messages[s])]

\* services/recommendation/app/domain/alerts.py:1: an escalation is never suppressed, so
\* it is claimed unless it is what the subscriber was told last.
EscalationIsDelivered ==
  [][\A w \in Watches, s \in Subs :
       ClaimTaken(w, s) /\ Escalation(watch[w].prev, watch[w].new) => LastTold(s) = Event(w)]_vars
=============================================================================
