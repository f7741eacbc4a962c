---------------------------- MODULE Assessments ----------------------------
(***************************************************************************)
(* The API's assessments (services/api/app/application/assessments.py):    *)
(* submission with an Idempotency-Key, polling that mirrors the agent's    *)
(* status onto the row of travel.requests, cancellation, and the watcher   *)
(* that gives up on a reassessment.                                        *)
(*                                                                         *)
(* Every handler is a coroutine of some API process, interleaving with all *)
(* others at each await, that is at each database statement, Redis command *)
(* or call of the agent.  The agent is what RunRow promises, and AgentRun  *)
(* implements RunRow.                                                      *)
(*                                                                         *)
(* Abstractions.  One user with one trip and one conversation.  A key hash *)
(* is a key, a fingerprint its payload.  Validation of the trip is left    *)
(* out: it precedes every effect.                                          *)
(***************************************************************************)
EXTENDS Naturals, FiniteSets

CONSTANTS
  Requests,    \* request ids
  Handlers,    \* concurrent handlers
  Keys,        \* idempotency keys
  SystemKeys,  \* those of the alerts consumer, "reassess:{event_id}"
  Payloads,    \* what fingerprints tell apart
  Offers,      \* the <<key, payload>> pairs callers may submit
  Calls,       \* the endpoints callers use: "start", "poll", "cancel", "watch"
  Faults,      \* "crash": handlers die; "agent": calls of the agent fail
  None

ASSUME AssessmentsAssumption ==
  /\ SystemKeys \subseteq Keys
  /\ Offers \subseteq (Keys \cup {None}) \X Payloads
  /\ Calls \subseteq {"start", "poll", "cancel", "watch"}
  /\ Faults \subseteq {"crash", "agent"}
  /\ None \notin Keys \cup Requests \cup Payloads

Opt(S) == S \cup {None}

AgentStatuses == {"QUEUED", "RUNNING", "NEEDS_INPUT", "COMPLETED", "PARTIAL",
                  "FAILED", "CANCELLED"}
Statuses == {"CREATED"} \cup AgentStatuses
TERMINAL == {"COMPLETED", "PARTIAL", "FAILED", "CANCELLED"}

ASSUME StatusAssumption == None \notin Statuses

REQUEST_TRANSITIONS ==
  [s \in Statuses |->
    CASE s = "CREATED"     -> {"QUEUED", "FAILED"}
      [] s = "QUEUED"      -> AgentStatuses \ {"QUEUED"}
      [] s = "RUNNING"     -> AgentStatuses \ {"QUEUED", "RUNNING"}
      [] s = "NEEDS_INPUT" -> {"CANCELLED"}
      [] s \in TERMINAL    -> {}]

\* Mutant: a queued run can only start running.
LegalStepwise(current, new) ==
  \/ new = current
  \/ current # "QUEUED" /\ new \in REQUEST_TRANSITIONS[current]
  \/ current = "QUEUED" /\ new = "RUNNING"

\* assert_transition
Legal(current, new) == new = current \/ new \in REQUEST_TRANSITIONS[current]

Row == [status : Opt(Statuses), rec : BOOLEAN, key : Opt(Keys), payload : Opt(Payloads)]

\* Mutant: the recommendation of a new row is undefined.
NoRowWithoutRec == [status |-> None, rec |-> None, key |-> None, payload |-> None]

NoRow == [status |-> None, rec |-> FALSE, key |-> None, payload |-> None]

Roles == {"user", "assistant"}
PCs == {"idle", "lookup", "table", "replay", "insert", "remember", "submit", "submitted",
        "mark_failed", "mark_queued", "point_request", "ask", "sync",
        "point_rec", "say", "read_count", "write_count", "forward",
        "forwarded", "mark_cancelled", "give_up", "answered"}
Codes == {"none", "ok", "idempotency_conflict", "duplicate_key", "dependency",
          "conflict", "not_found"}
Reply == [status : Opt(AgentStatuses), rec : BOOLEAN]
Handler == [pc : PCs, key : Opt(Keys), payload : Opt(Payloads), req : Opt(Requests),
            seen : Opt(Statuses), reply : Reply, role : Roles, count : Nat, code : Codes]

VARIABLES
  row,       \* row[r]: travel.requests
  idem,      \* idem[k]: the Redis idempotency key, naming a request
  handler,   \* handler[h]: the handler's locals and the await it is parked at
  posted,    \* posted[r]: POST /internal/v1/runs was sent and may still arrive
  agent,     \* agent[r]: the agent's stored state of r (RunRow's row)
  asked,     \* asked[r]: the agent was asked to cancel r
  trip,      \* the trip's latest_request_id and latest_recommendation_id
  messages,  \* messages[r]: conversation messages about r, by role
  count      \* the conversation's message_count

vars == <<row, idem, handler, posted, agent, asked, trip, messages, count>>
agentVars == <<posted, agent, asked>>
talk == <<messages, count>>

Agent == INSTANCE RunRow WITH Runs <- Requests, row <- agent, asked <- asked

-----------------------------------------------------------------------------
Idle == [pc |-> "idle", key |-> None, payload |-> None, req |-> None, seen |-> None,
         reply |-> [status |-> None, rec |-> FALSE], role |-> "user", count |-> 0,
         code |-> "none"]

Init ==
  /\ row = [r \in Requests |-> NoRow]
  /\ idem = [k \in Keys |-> None]
  /\ handler = [h \in Handlers |-> Idle]
  /\ posted = [r \in Requests |-> FALSE]
  /\ Agent!Init
  /\ trip = [request |-> None, rec |-> None]
  /\ messages = [r \in Requests |-> [role \in Roles |-> 0]]
  /\ count = 0

At(h, p)   == handler[h].pc = p
Goto(h, p) == handler' = [handler EXCEPT ![h].pc = p]
\* The handler returns, or raises, to the caller.
Answer(h, code) == handler' = [handler EXCEPT ![h].pc = "answered", ![h].code = code]
HasConversation(h) == row[handler[h].req].key \notin SystemKeys

\* Requests.set_status: UPDATE ... WHERE id = r, whatever the row holds by now.
SetStatus(r, status) == row' = [row EXCEPT ![r].status = status]

-----------------------------------------------------------------------------
(* AssessmentService.start.                                                *)

Unused   == {r \in Requests : row[r].status = None}
Starting == {h \in Handlers : handler[h].pc \in {"lookup", "table", "replay", "insert"}}

\* Bound: a start begins only while an unused request id is left for it.
BeginStart(h) ==
  /\ "start" \in Calls /\ At(h, "idle")
  /\ Cardinality(Starting) < Cardinality(Unused)
  /\ \E offer \in Offers :
       handler' = [handler EXCEPT ![h] =
         [Idle EXCEPT !.pc = IF offer[1] = None THEN "insert" ELSE "lookup",
                      !.key = offer[1], !.payload = offer[2]]]
  /\ UNCHANGED <<row, idem, agentVars, trip, talk>>

\* _idem_get: first Redis, then the table.
Lookup(h) ==
  /\ At(h, "lookup")
  /\ LET r == idem[handler[h].key] IN
     handler' = [handler EXCEPT ![h].pc = IF r = None THEN "table" ELSE "replay",
                                ![h].req = r]
  /\ UNCHANGED <<row, idem, agentVars, trip, talk>>

RowsOf(key) == {r \in Requests : row[r].key = key /\ key # None}

LookupTable(h) ==
  /\ At(h, "table")
  /\ \/ /\ RowsOf(handler[h].key) = {}
        /\ Goto(h, "insert")
     \/ \E r \in RowsOf(handler[h].key) :
          handler' = [handler EXCEPT ![h].pc = "replay", ![h].req = r]
  /\ UNCHANGED <<row, idem, agentVars, trip, talk>>

Replay(h) ==
  /\ At(h, "replay")
  /\ IF row[handler[h].req].payload = handler[h].payload
       THEN Answer(h, "ok")
       ELSE Answer(h, "idempotency_conflict")
  /\ UNCHANGED <<row, idem, agentVars, trip, talk>>

\* Mutant: no unique index on (user_id, idempotency_key_hash).
InsertDuplicate(h) ==
  /\ At(h, "insert")
  /\ \E r \in Unused :
       /\ row' = [row EXCEPT ![r] = [status |-> "CREATED", rec |-> FALSE,
                                     key |-> handler[h].key, payload |-> handler[h].payload]]
       /\ handler' = [handler EXCEPT ![h].req = r,
            ![h].pc = IF handler[h].key = None THEN "submit" ELSE "remember"]
  /\ UNCHANGED <<idem, agentVars, trip, talk>>

\* Requests.create: the unique index rejects a second row for the key.
Insert(h) ==
  /\ At(h, "insert")
  /\ RowsOf(handler[h].key) = {}
  /\ \E r \in Unused :
       /\ row' = [row EXCEPT ![r] = [status |-> "CREATED", rec |-> FALSE,
                                     key |-> handler[h].key, payload |-> handler[h].payload]]
       /\ handler' = [handler EXCEPT ![h].req = r,
            ![h].pc = IF handler[h].key = None THEN "submit" ELSE "remember"]
  /\ UNCHANGED <<idem, agentVars, trip, talk>>

InsertRejected(h) ==
  /\ At(h, "insert")
  /\ RowsOf(handler[h].key) # {}
  /\ Answer(h, "duplicate_key")
  /\ UNCHANGED <<row, idem, agentVars, trip, talk>>

\* _idem_put: SET NX.
Remember(h) ==
  /\ At(h, "remember")
  /\ Goto(h, "submit")
  /\ idem' = [idem EXCEPT ![handler[h].key] = IF @ = None THEN handler[h].req ELSE @]
  /\ UNCHANGED <<row, agentVars, trip, talk>>

\* AgentClient.start: one POST, no retry.
Submit(h) ==
  /\ At(h, "submit")
  /\ Goto(h, "submitted")
  /\ posted' = [posted EXCEPT ![handler[h].req] = TRUE]
  /\ UNCHANGED <<row, idem, agent, asked, trip, talk>>

SubmitAccepted(h) ==
  /\ At(h, "submitted")
  /\ agent[handler[h].req].status # None
  /\ Goto(h, "mark_queued")
  /\ UNCHANGED <<row, idem, agentVars, trip, talk>>

\* The agent is down, or its answer misses the deadline: it may have started the run.
SubmitFails(h) ==
  /\ "agent" \in Faults /\ At(h, "submitted")
  /\ Goto(h, "mark_failed")
  /\ UNCHANGED <<row, idem, agentVars, trip, talk>>

MarkFailed(h) ==
  /\ At(h, "mark_failed")
  /\ SetStatus(handler[h].req, "FAILED")
  /\ Answer(h, "dependency")
  /\ UNCHANGED <<idem, agentVars, trip, talk>>

\* Checked against the literal "CREATED", not against the row.
MarkQueued(h) ==
  /\ At(h, "mark_queued")
  /\ SetStatus(handler[h].req, "QUEUED")
  /\ Goto(h, "point_request")
  /\ UNCHANGED <<idem, agentVars, trip, talk>>

\* latest_request_id; then create_assessment adds the user's question, if there is one.
PointRequest(h) ==
  /\ At(h, "point_request")
  /\ trip' = [trip EXCEPT !.request = handler[h].req]
  /\ \/ /\ HasConversation(h)
        /\ handler' = [handler EXCEPT ![h].pc = "say", ![h].role = "user"]
     \/ Answer(h, "ok")
  /\ UNCHANGED <<row, idem, agentVars, talk>>

-----------------------------------------------------------------------------
(* AssessmentService.state and _sync.                                      *)

BeginPoll(h, r) ==
  /\ "poll" \in Calls /\ At(h, "idle")
  /\ row[r].status # None
  /\ handler' = [handler EXCEPT ![h] =
       [Idle EXCEPT !.pc = IF row[r].status \in TERMINAL THEN "answered" ELSE "ask",
                    !.code = IF row[r].status \in TERMINAL THEN "ok" ELSE "none",
                    !.req = r, !.seen = row[r].status]]
  /\ UNCHANGED <<row, idem, agentVars, trip, talk>>

AskAgent(h) ==
  /\ At(h, "ask")
  /\ agent[handler[h].req].status # None
  /\ handler' = [handler EXCEPT ![h].pc = "sync", ![h].reply = agent[handler[h].req]]
  /\ UNCHANGED <<row, idem, agentVars, trip, talk>>

\* 404, or the agent does not answer: the persisted row is shown.  An error that is not
\* worth a retry, or an answer outside the contract, is the caller's.
AskUnanswered(h) ==
  /\ At(h, "ask")
  /\ \/ /\ agent[handler[h].req].status = None \/ "agent" \in Faults
        /\ Answer(h, "ok")
     \/ "agent" \in Faults /\ Answer(h, "dependency")
  /\ UNCHANGED <<row, idem, agentVars, trip, talk>>

NewStatus(h) == LET l == handler[h] IN
  l.reply.status # l.seen /\ Legal(l.seen, l.reply.status)

\* Unchanged, or a regression, which is ignored.
SyncNothing(h) ==
  /\ At(h, "sync") /\ ~NewStatus(h)
  /\ Answer(h, "ok")
  /\ UNCHANGED <<row, idem, agentVars, trip, talk>>

\* Mutant: the recommendation id is not passed to set_status.
SyncStatusOnly(h) ==
  /\ At(h, "sync") /\ NewStatus(h)
  /\ LET l == handler[h] IN
     /\ SetStatus(l.req, l.reply.status)
     /\ IF l.reply.rec THEN Goto(h, "point_rec") ELSE Answer(h, "ok")
  /\ UNCHANGED <<idem, agentVars, trip, talk>>

\* The transition was checked against the row read before the agent was asked.
Sync(h) ==
  /\ At(h, "sync") /\ NewStatus(h)
  /\ LET l == handler[h] IN
     /\ row' = [row EXCEPT ![l.req].status = l.reply.status, ![l.req].rec = l.reply.rec]
     /\ IF l.reply.rec THEN Goto(h, "point_rec") ELSE Answer(h, "ok")
  /\ UNCHANGED <<idem, agentVars, trip, talk>>

\* Mutant: the assistant's message is forgotten.
PointRecOnly(h) ==
  /\ At(h, "point_rec")
  /\ trip' = [trip EXCEPT !.rec = handler[h].req]
  /\ Answer(h, "ok")
  /\ UNCHANGED <<row, idem, agentVars, talk>>

\* latest_recommendation_id; then the assistant's message in the conversation.
PointRec(h) ==
  /\ At(h, "point_rec")
  /\ trip' = [trip EXCEPT !.rec = handler[h].req]
  /\ IF HasConversation(h)
       THEN handler' = [handler EXCEPT ![h].pc = "say", ![h].role = "assistant"]
       ELSE Answer(h, "ok")
  /\ UNCHANGED <<row, idem, agentVars, talk>>

\* Conversations.add_message: insert; read the conversation; write its count.
Say(h) ==
  /\ At(h, "say")
  /\ Goto(h, "read_count")
  /\ messages' = [messages EXCEPT ![handler[h].req][handler[h].role] = @ + 1]
  /\ UNCHANGED <<row, idem, agentVars, trip, count>>

ReadCount(h) ==
  /\ At(h, "read_count")
  /\ handler' = [handler EXCEPT ![h].pc = "write_count", ![h].count = count]
  /\ UNCHANGED <<row, idem, agentVars, trip, talk>>

WriteCount(h) ==
  /\ At(h, "write_count")
  /\ count' = handler[h].count + 1
  /\ Answer(h, "ok")
  /\ UNCHANGED <<row, idem, agentVars, trip, messages>>

-----------------------------------------------------------------------------
(* AssessmentService.cancel, mark_failed_if_stale.                         *)

BeginCancel(h, r) ==
  /\ "cancel" \in Calls /\ At(h, "idle")
  /\ row[r].status # None
  /\ handler' = [handler EXCEPT ![h] =
       [Idle EXCEPT !.pc = IF row[r].status \in TERMINAL THEN "answered" ELSE "forward",
                    !.code = IF row[r].status \in TERMINAL THEN "ok" ELSE "none",
                    !.req = r, !.seen = row[r].status]]
  /\ UNCHANGED <<row, idem, agentVars, trip, talk>>

Forward(h) ==
  /\ At(h, "forward")
  /\ Agent!AskCancel(handler[h].req)
  /\ Goto(h, "forwarded")
  /\ UNCHANGED <<row, idem, posted, trip, talk>>

\* The call or its answer is lost.
ForwardFails(h) ==
  /\ "agent" \in Faults /\ handler[h].pc \in {"forward", "forwarded"}
  /\ Answer(h, "dependency")
  /\ UNCHANGED <<row, idem, agentVars, trip, talk>>

\* The status in the agent's answer is not used, only that it knows the run.
Forwarded(h) ==
  /\ At(h, "forwarded")
  /\ \/ /\ agent[handler[h].req].status = None
        /\ Answer(h, "not_found")
     \/ /\ agent[handler[h].req].status # None
        /\ ~Legal(handler[h].seen, "CANCELLED")
        /\ Answer(h, "conflict")
     \/ /\ agent[handler[h].req].status # None
        /\ Legal(handler[h].seen, "CANCELLED")
        /\ Goto(h, "mark_cancelled")
  /\ UNCHANGED <<row, idem, agentVars, trip, talk>>

MarkCancelled(h) ==
  /\ At(h, "mark_cancelled")
  /\ SetStatus(handler[h].req, "CANCELLED")
  /\ Answer(h, "ok")
  /\ UNCHANGED <<idem, agentVars, trip, talk>>

\* Mutant: the watcher does not look whether the row is terminal.
BeginWatchUnchecked(h, r) ==
  /\ "watch" \in Calls /\ At(h, "idle")
  /\ row[r].key \in SystemKeys
  /\ handler' = [handler EXCEPT ![h] =
       [Idle EXCEPT !.pc = "give_up", !.req = r, !.seen = row[r].status]]
  /\ UNCHANGED <<row, idem, agentVars, trip, talk>>

\* ReassessmentConsumer._watch after its last poll: the row is read once more.
BeginWatch(h, r) ==
  /\ "watch" \in Calls /\ At(h, "idle")
  /\ row[r].key \in SystemKeys /\ row[r].status \notin TERMINAL
  /\ handler' = [handler EXCEPT ![h] =
       [Idle EXCEPT !.pc = "give_up", !.req = r, !.seen = row[r].status]]
  /\ UNCHANGED <<row, idem, agentVars, trip, talk>>

GiveUp(h) ==
  /\ At(h, "give_up")
  /\ SetStatus(handler[h].req, "FAILED")
  /\ Answer(h, "ok")
  /\ UNCHANGED <<idem, agentVars, trip, talk>>

-----------------------------------------------------------------------------
Return(h) ==
  /\ At(h, "answered")
  /\ handler' = [handler EXCEPT ![h] = Idle]
  /\ UNCHANGED <<row, idem, agentVars, trip, talk>>

\* The process stops, or a store raises: whatever was not yet written is not written.
Die(h) ==
  /\ "crash" \in Faults /\ handler[h].pc \notin {"idle", "answered"}
  /\ handler' = [handler EXCEPT ![h] = Idle]
  /\ UNCHANGED <<row, idem, agentVars, trip, talk>>

\* idempotency_ttl_seconds after Remember.
ExpireKey(k) ==
  /\ idem[k] # None
  /\ idem' = [idem EXCEPT ![k] = None]
  /\ UNCHANGED <<row, handler, agentVars, trip, talk>>

LosePost(r) ==
  /\ "agent" \in Faults /\ posted[r] /\ agent[r].status = None
  /\ posted' = [posted EXCEPT ![r] = FALSE]
  /\ UNCHANGED <<row, idem, handler, agent, asked, trip, talk>>

AgentWorks(r) ==
  /\ posted[r]
  /\ Agent!Accept(r) \/ Agent!Work(r) \/ Agent!Settle(r)
  /\ UNCHANGED <<row, idem, handler, posted, trip, talk>>

AgentStops(r) ==
  /\ posted[r] /\ Agent!Stop(r)
  /\ UNCHANGED <<row, idem, handler, posted, trip, talk>>

StartStep(h) ==
  \/ Lookup(h) \/ LookupTable(h) \/ Replay(h) \/ Insert(h) \/ InsertRejected(h)
  \/ Remember(h) \/ Submit(h) \/ SubmitAccepted(h) \/ SubmitFails(h)
  \/ MarkFailed(h) \/ MarkQueued(h) \/ PointRequest(h)
PollStep(h) ==
  \/ AskAgent(h) \/ AskUnanswered(h) \/ SyncNothing(h) \/ Sync(h)
  \/ PointRec(h) \/ Say(h) \/ ReadCount(h) \/ WriteCount(h)
CancelStep(h) ==
  Forward(h) \/ ForwardFails(h) \/ Forwarded(h) \/ MarkCancelled(h) \/ GiveUp(h)
HandlerStep(h) == StartStep(h) \/ PollStep(h) \/ CancelStep(h) \/ Return(h)

Next ==
  \/ \E h \in Handlers : BeginStart(h) \/ HandlerStep(h) \/ Die(h)
  \/ \E h \in Handlers, r \in Requests :
       BeginPoll(h, r) \/ BeginCancel(h, r) \/ BeginWatch(h, r)
  \/ \E k \in Keys : ExpireKey(k)
  \/ \E r \in Requests : LosePost(r) \/ AgentWorks(r) \/ AgentStops(r)

Spec == Init /\ [][Next]_vars

\* Every await returns; the agent works; and the web client polls a run every two
\* seconds while it is CREATED, QUEUED or RUNNING, whatever else the API serves.
Fairness ==
  /\ \A h \in Handlers : WF_vars(HandlerStep(h))
  /\ \A r \in Requests : /\ WF_vars(AgentWorks(r))
                         /\ SF_vars(\E h \in Handlers : BeginPoll(h, r))
FairSpec == Spec /\ Fairness

-----------------------------------------------------------------------------
(* Properties.                                                             *)

TypeOK ==
  /\ row \in [Requests -> Row]
  /\ idem \in [Keys -> Opt(Requests)]
  /\ handler \in [Handlers -> Handler]
  /\ posted \in [Requests -> BOOLEAN]
  /\ agent \in [Requests -> Reply]
  /\ asked \in [Requests -> BOOLEAN]
  /\ trip \in [request : Opt(Requests), rec : Opt(Requests)]
  /\ messages \in [Requests -> [Roles -> Nat]]
  /\ count \in Nat

Answered(h) == At(h, "answered") /\ handler[h].key # None /\ handler[h].code = "ok"

\* A key names one run and one payload: two successful submissions with the same key,
\* however they interleave, and whether Redis still knows the key or not, answer with
\* the same request and were asked for the same thing.
ReplaysAgree ==
  \A g, h \in Handlers :
    Answered(g) /\ Answered(h) /\ handler[g].key = handler[h].key =>
      handler[g].req = handler[h].req /\ handler[g].payload = handler[h].payload

\* The row invents nothing, whatever stale answers are written late: a success nobody
\* cancelled is the agent's, with its recommendation; a cancellation was asked for; a
\* trip points at the recommendation of a run that had one.
RowReflectsAgent ==
  \A r \in Requests :
    /\ row[r].status \in {"COMPLETED", "PARTIAL"} /\ ~asked[r] =>
         agent[r] = [status |-> row[r].status, rec |-> row[r].rec]
    /\ row[r].status = "CANCELLED" => asked[r]
    /\ trip.rec = r /\ ~asked[r] => agent[r].rec

\* Handlers that have read the row, or made it, and may still write it.
WriterPCs == {"remember", "submit", "submitted", "mark_failed", "mark_queued", "ask", "sync",
              "forward", "forwarded", "mark_cancelled", "give_up"}
InFlight(h, r) == handler[h].req = r /\ handler[h].pc \in WriterPCs
Settled(r) == row[r].status \in TERMINAL /\ \A h \in Handlers : ~InFlight(h, r)

\* A terminal row changes only by a late write of a handler that was already at work:
\* once none is, no submission, poll, cancel or watcher that begins later touches it.
SettledStays ==
  [][\A r \in Requests : Settled(r) =>
       /\ row'[r] = row[r]
       /\ \A h \in Handlers : ~InFlight(h, r)']_vars

\* A run that is polled leaves CREATED, QUEUED and RUNNING for good.
PollSettles ==
  \A r \in Requests : row[r].status # None ~>
    [](row[r].status \in TERMINAL \cup {"NEEDS_INPUT"})

\* A stored recommendation reaches the trip's conversation.
ResultReachesConversation ==
  \A r \in Requests : row[r].rec /\ row[r].key \notin SystemKeys ~> messages[r]["assistant"] > 0

-----------------------------------------------------------------------------
(* What the repository's documents say and the code does not keep.         *)

\* docs/handoffs/M02-api-backend.md:98: terminal states never change.
TerminalIsFinal ==
  [][\A r \in Requests : row[r].status \in TERMINAL => row'[r].status = row[r].status]_vars
=============================================================================
