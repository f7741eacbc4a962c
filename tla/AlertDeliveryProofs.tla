------------------------ MODULE AlertDeliveryProofs ------------------------
(***************************************************************************)
(* Proofs about AlertDelivery, for any subscriptions, watches, outcomes of *)
(* channels and faults.                                                    *)
(***************************************************************************)
EXTENDS AlertDelivery, TLAPS, FiniteSetTheorems

-----------------------------------------------------------------------------
(* Severities and the history of messages.                                 *)

LEMMA SeverityNames ==
  /\ Severities = {"UNKNOWN", "INFO", "MINOR", "MODERATE", "SEVERE", "EXTREME"}
  /\ \A s \in Severities : SEVERITY_RANK[s] \in Nat /\ COOLDOWN[s] \in Nat
BY DEF Severities, SEVERITY_RANK, COOLDOWN

\* A set of severities that has INFO has a most severe one.
LEMMA MostSevere ==
  ASSUME NEW G \in SUBSET Severities, "INFO" \in G
  PROVE  \E s \in G : \A t \in G : SEVERITY_RANK[t] <= SEVERITY_RANK[s]
<1>1. CASE "EXTREME" \in G
  BY <1>1, SeverityNames DEF SEVERITY_RANK
<1>2. CASE "EXTREME" \notin G /\ "SEVERE" \in G
  BY <1>2, SeverityNames DEF SEVERITY_RANK
<1>3. CASE "EXTREME" \notin G /\ "SEVERE" \notin G /\ "MODERATE" \in G
  BY <1>3, SeverityNames DEF SEVERITY_RANK
<1>4. CASE "EXTREME" \notin G /\ "SEVERE" \notin G /\ "MODERATE" \notin G /\ "MINOR" \in G
  BY <1>4, SeverityNames DEF SEVERITY_RANK
<1>5. CASE /\ "EXTREME" \notin G /\ "SEVERE" \notin G
           /\ "MODERATE" \notin G /\ "MINOR" \notin G
  BY <1>5, SeverityNames DEF SEVERITY_RANK
<1> QED BY <1>1, <1>2, <1>3, <1>4, <1>5

LEMMA ChangeSeverityType ==
  ASSUME NEW prev, NEW new
  PROVE  ChangeSeverity(prev, new) \in Severities
<1> DEFINE G == Grounds(prev, new) \cup {"INFO"}
<1>1. \A a \in AlertIds : AlertSeverity[a] \in Severities
  BY AlertChangeAssumption
<1>2. NewOfficial(prev, new) \subseteq AlertIds
  BY AlertChangeAssumption DEF NewOfficial
<1>3. Grounds(prev, new) \subseteq Severities
  BY <1>1, <1>2, SeverityNames DEF Grounds
<1>4. G \in SUBSET Severities /\ "INFO" \in G
  BY <1>3, SeverityNames
<1>5. \E s \in G : \A t \in G : SEVERITY_RANK[t] <= SEVERITY_RANK[s]
  BY <1>4, MostSevere
<1>6. ChangeSeverity(prev, new) \in G
  BY <1>5 DEF ChangeSeverity
<1> QED BY <1>4, <1>6

\* One more message counts once for its event, and for no other.
LEMMA CountAppend ==
  ASSUME NEW told \in Seq(Events), NEW x \in Events, NEW e \in Events
  PROVE  /\ Count(told, e) \in Nat
         /\ Count(Append(told, x), e) = IF x = e THEN Count(told, e) + 1 ELSE Count(told, e)
<1> DEFINE I == {i \in DOMAIN told : told[i] = e}
           J == {i \in DOMAIN Append(told, x) : Append(told, x)[i] = e}
           n == Len(told) + 1
<1>1. IsFiniteSet(1 .. Len(told))
  BY FS_Interval
<1>2. IsFiniteSet(I) /\ Cardinality(I) \in Nat
  <2>1. I \in SUBSET (1 .. Len(told))
    OBVIOUS
  <2> QED BY <1>1, <2>1, FS_Subset, FS_CardinalityType
<1>3. CASE x = e
  <2>1. J = I \cup {n} /\ n \notin I
    BY <1>3
  <2>2. Cardinality(J) = Cardinality(I) + 1
    BY <1>2, <2>1, FS_AddElement
  <2> QED BY <1>2, <1>3, <2>2 DEF Count
<1>4. CASE x # e
  <2>1. J = I
    BY <1>4
  <2> QED BY <1>2, <1>4, <2>1 DEF Count
<1> QED BY <1>3, <1>4

LEMMA CountEmpty == \A e \in Events : Count(<< >>, e) = 0
<1> TAKE e \in Events
<1>1. {i \in DOMAIN << >> : << >>[i] = e} = {}
  OBVIOUS
<1> QED BY <1>1, FS_EmptySet DEF Count

-----------------------------------------------------------------------------
(* Types.                                                                  *)

WatchType == [pc : PCs, prev : Opt(Recs), new : Opt(Recs), todo : SUBSET Subs,
              sub : Opt(Subs), now : Nat, result : Opt(Outcomes)]

\* A watch that is at work has a result to evaluate, and from the claim on a subscription.
Working(w) ==
  /\ watch[w].pc \in {"evaluate", "claim", "send", "finish", "mark"} => watch[w].new \in Recs
  /\ watch[w].pc \in {"send", "finish", "mark"} => watch[w].sub \in Subs
  /\ watch[w].pc = "finish" => watch[w].result \in Outcomes

Typed == TypeOK /\ \A w \in Watches : Working(w)

LEMMA IdleType == Idle \in WatchType /\ Idle.pc = "idle"
BY DEF Idle, WatchType, PCs, Opt

LEMMA InitTyped == Init => Typed
<1> SUFFICES ASSUME Init PROVE Typed
  OBVIOUS
<1>1. watch \in [Watches -> WatchType]
  BY IdleType DEF Init
<1>2. \A w \in Watches : Working(w)
  BY IdleType DEF Init, Working
<1>3. messages \in [Subs -> Seq(Events)]
  BY DEF Init
<1>4. record \in [Subs -> [Events -> Opt(Statuses)]]
  BY DEF Init, Opt
<1>5. sub \in [Subs -> [status : {"absent", "ACTIVE", "REVOKED"}, until : Nat]]
  BY DEF Init
<1> QED BY <1>1, <1>2, <1>3, <1>4, <1>5 DEF Init, TypeOK, Typed, WatchType, Opt

\* Replacing one watch by a typed one that is entitled to its program counter.
LEMMA WatchStep ==
  ASSUME Typed, NEW w \in Watches, NEW l \in WatchType,
         watch' = [watch EXCEPT ![w] = l],
         l.pc \in {"evaluate", "claim", "send", "finish", "mark"} => l.new \in Recs,
         l.pc \in {"send", "finish", "mark"} => l.sub \in Subs,
         l.pc = "finish" => l.result \in Outcomes
  PROVE  watch' \in [Watches -> WatchType] /\ \A v \in Watches : Working(v)'
<1>1. watch \in [Watches -> WatchType]
  BY DEF Typed, TypeOK, WatchType
<1>2. watch' \in [Watches -> WatchType]
  BY <1>1
<1>3. ASSUME NEW v \in Watches PROVE Working(v)'
  <2>1. CASE v = w
    BY <1>1, <2>1 DEF Working
  <2>2. CASE v # w
    BY <1>1, <2>2 DEF Working, Typed
  <2> QED BY <2>1, <2>2
<1> QED BY <1>2, <1>3

LEMMA ContinueWatch ==
  ASSUME TypeOK, NEW w \in Watches, NEW todo \in SUBSET Subs, Continue(w, todo)
  PROVE  \E l \in WatchType :
           /\ watch' = [watch EXCEPT ![w] = l]
           /\ l = Idle \/ (l.pc = "claim" /\ l.new = watch[w].new)
           /\ l.pc \in {"idle", "claim"}
<1>1. PICK k \in WatchType : k = watch[w]
  BY DEF TypeOK, WatchType
<1>2. CASE todo = {}
  <2>1. watch' = [watch EXCEPT ![w] = Idle]
    BY <1>2 DEF Continue, TypeOK
  <2> QED BY <2>1, IdleType
<1>3. CASE todo # {}
  <2> DEFINE l == [k EXCEPT !.pc = "claim", !.todo = todo]
  <2>1. l \in WatchType /\ l.pc = "claim" /\ l.new = k.new
    BY DEF WatchType, PCs
  <2>2. watch' = [watch EXCEPT ![w] = l]
    BY <1>1, <1>3 DEF Continue, TypeOK
  <2> HIDE DEF l
  <2> QED BY <1>1, <2>1, <2>2
<1> QED BY <1>2, <1>3

LEMMA ContinueType ==
  ASSUME Typed, NEW w \in Watches, NEW todo \in SUBSET Subs, Continue(w, todo),
         watch[w].new \in Recs
  PROVE  watch' \in [Watches -> WatchType] /\ \A v \in Watches : Working(v)'
<1>1. PICK l \in WatchType : /\ watch' = [watch EXCEPT ![w] = l]
                             /\ l = Idle \/ (l.pc = "claim" /\ l.new = watch[w].new)
  BY ContinueWatch DEF Typed
<1>2. CASE l = Idle
  BY <1>1, <1>2, IdleType, WatchStep
<1>3. CASE l.pc = "claim" /\ l.new = watch[w].new
  BY <1>1, <1>3, WatchStep
<1> QED BY <1>1, <1>2, <1>3

LEMMA EventType ==
  ASSUME NEW w \in Watches, watch[w].new \in Recs
  PROVE  Event(w) \in Events
BY DEF Event, Events

LEMMA NextTyped == Typed /\ [Next]_vars => Typed'
<1> SUFFICES ASSUME Typed, [Next]_vars PROVE Typed'
  OBVIOUS
<1> USE DEF Typed
<1>1. ASSUME NEW s \in Subs, Subscribe(s) \/ Revoke(s) PROVE Typed'
  <2>1. sub' \in [Subs -> [status : {"absent", "ACTIVE", "REVOKED"}, until : Nat]]
    <3> DEFINE S == [status : {"absent", "ACTIVE", "REVOKED"}, until : Nat]
    <3>1. PICK o \in S : o = sub[s]
      BY DEF TypeOK
    <3>2. CASE Subscribe(s)
      <4>1. NewSubscription \in S
        BY DEF NewSubscription
      <4> QED BY <3>2, <4>1 DEF Subscribe, TypeOK
    <3>3. CASE Revoke(s)
      <4>1. [o EXCEPT !.status = "REVOKED"] \in S
        OBVIOUS
      <4>2. sub' = [sub EXCEPT ![s] = [o EXCEPT !.status = "REVOKED"]]
        BY <3>1, <3>3 DEF Revoke, TypeOK
      <4> QED BY <4>1, <4>2 DEF TypeOK
    <3> QED BY <1>1, <3>2, <3>3
  <2> QED BY <1>1, <2>1 DEF Subscribe, Revoke, TypeOK, Working
<1>2. CASE Refresh \/ LoseEntry \/ OtherRun \/ Tick
  BY <1>2 DEF Refresh, LoseEntry, OtherRun, Tick, TypeOK, Working, Opt
<1>3. ASSUME NEW w \in Watches, Handle(w) PROVE Typed'
  <2> DEFINE l == [Idle EXCEPT !.pc = "watching", !.prev = latest]
  <2>1. l \in WatchType /\ l.pc = "watching"
    BY DEF Idle, WatchType, PCs, Opt, TypeOK
  <2>2. watch' \in [Watches -> WatchType] /\ \A v \in Watches : Working(v)'
    BY <1>3, <2>1, WatchStep DEF Handle
  <2> QED BY <1>3, <2>2 DEF Handle, TypeOK, WatchType
<1>4. ASSUME NEW w \in Watches, RunEnds(w) PROVE Typed'
  <2>1. PICK k \in WatchType : k = watch[w]
    BY DEF TypeOK, WatchType
  <2>2. PICK r \in Recs : latest' = r /\ watch' = [watch EXCEPT ![w].pc = "evaluate", ![w].new = r]
    BY <1>4 DEF RunEnds
  <2> DEFINE l == [k EXCEPT !.pc = "evaluate", !.new = r]
  <2>3. l \in WatchType /\ l.pc = "evaluate" /\ l.new = r
    BY DEF WatchType, PCs, Opt
  <2>4. watch' = [watch EXCEPT ![w] = l]
    BY <2>1, <2>2 DEF TypeOK
  <2>5. watch' \in [Watches -> WatchType] /\ \A v \in Watches : Working(v)'
    BY <2>3, <2>4, WatchStep
  <2> QED BY <1>4, <2>2, <2>5 DEF RunEnds, TypeOK, WatchType, Opt
<1>5. ASSUME NEW w \in Watches, WatchEnds(w) PROVE Typed'
  <2>1. watch' \in [Watches -> WatchType] /\ \A v \in Watches : Working(v)'
    BY <1>5, IdleType, WatchStep DEF WatchEnds
  <2> QED BY <1>5, <2>1 DEF WatchEnds, TypeOK, WatchType
<1>6. ASSUME NEW w \in Watches, Evaluate(w) PROVE Typed'
  <2>1. PICK k \in WatchType : k = watch[w]
    BY DEF TypeOK, WatchType
  <2>2. k.new \in Recs
    BY <1>6, <2>1 DEF Evaluate, At, Working
  <2> DEFINE todo == {s \in Subs : Active(s) /\ Wanted(s, watch[w].prev, watch[w].new, clock)}
             l == [k EXCEPT !.pc = "claim", !.todo = todo, !.now = clock]
  <2>3. l \in WatchType /\ l.pc = "claim" /\ l.new = k.new
    BY DEF WatchType, PCs, TypeOK
  <2>4. watch' = [watch EXCEPT ![w] = Idle] \/ watch' = [watch EXCEPT ![w] = l]
    BY <1>6, <2>1 DEF Evaluate, TypeOK
  <2>5. watch' \in [Watches -> WatchType] /\ \A v \in Watches : Working(v)'
    <3>1. CASE watch' = [watch EXCEPT ![w] = Idle]
      BY <3>1, IdleType, WatchStep
    <3>2. CASE watch' = [watch EXCEPT ![w] = l]
      BY <2>2, <2>3, <3>2, WatchStep
    <3> QED BY <2>4, <3>1, <3>2
  <2> QED BY <1>6, <2>5 DEF Evaluate, TypeOK, WatchType
<1>7. ASSUME NEW w \in Watches, NEW s \in Subs, Claim(w, s) PROVE Typed'
  <2>1. PICK k \in WatchType : k = watch[w]
    BY DEF TypeOK, WatchType
  <2>2. k.new \in Recs
    BY <1>7, <2>1 DEF Claim, At, Working
  <2> DEFINE l == [k EXCEPT !.pc = "send", !.sub = s]
  <2>3. l \in WatchType /\ l.pc = "send" /\ l.new = k.new /\ l.sub = s
    BY DEF WatchType, PCs, Opt
  <2>4. watch' = [watch EXCEPT ![w] = l]
    BY <1>7, <2>1 DEF Claim, TypeOK
  <2>5. watch' \in [Watches -> WatchType] /\ \A v \in Watches : Working(v)'
    BY <2>2, <2>3, <2>4, WatchStep
  <2>6. record' \in [Subs -> [Events -> Opt(Statuses)]]
    BY <1>7, <2>1, <2>2, EventType DEF Claim, TypeOK, Statuses, Opt
  <2> QED BY <1>7, <2>5, <2>6 DEF Claim, TypeOK, WatchType
<1>8. ASSUME NEW w \in Watches, NEW s \in Subs, ClaimTaken(w, s) PROVE Typed'
  <2>1. watch[w].new \in Recs /\ watch[w].todo \ {s} \in SUBSET Subs
    BY <1>8 DEF ClaimTaken, At, Working, TypeOK
  <2>2. watch' \in [Watches -> WatchType] /\ \A v \in Watches : Working(v)'
    BY <1>8, <2>1, ContinueType DEF ClaimTaken
  <2> QED BY <1>8, <2>2 DEF ClaimTaken, TypeOK, WatchType
<1>9. ASSUME NEW w \in Watches, Send(w) PROVE Typed'
  <2>1. PICK k \in WatchType : k = watch[w]
    BY DEF TypeOK, WatchType
  <2>2. k.new \in Recs /\ k.sub \in Subs
    BY <1>9, <2>1 DEF Send, At, Working
  <2>3. PICK result \in Outcomes, leaves \in BOOLEAN :
          /\ messages' = IF leaves THEN [messages EXCEPT ![watch[w].sub] = Append(@, Event(w))]
                                   ELSE messages
          /\ watch' = [watch EXCEPT ![w].pc = "finish", ![w].result = result]
    BY <1>9 DEF Send
  <2> DEFINE l == [k EXCEPT !.pc = "finish", !.result = result]
  <2>4. l \in WatchType /\ l.pc = "finish" /\ l.new = k.new /\ l.sub = k.sub /\ l.result = result
    BY DEF WatchType, PCs, Opt
  <2>5. watch' = [watch EXCEPT ![w] = l]
    BY <2>1, <2>3 DEF TypeOK
  <2>6. watch' \in [Watches -> WatchType] /\ \A v \in Watches : Working(v)'
    BY <2>2, <2>4, <2>5, WatchStep
  <2>7. messages' \in [Subs -> Seq(Events)]
    BY <2>1, <2>2, <2>3, EventType DEF TypeOK
  <2> QED BY <1>9, <2>6, <2>7 DEF Send, TypeOK, WatchType
<1>10. ASSUME NEW w \in Watches, Finish(w) PROVE Typed'
  <2>1. PICK k \in WatchType : k = watch[w]
    BY DEF TypeOK, WatchType
  <2>2. k.new \in Recs /\ k.sub \in Subs /\ k.result \in Outcomes
    BY <1>10, <2>1 DEF Finish, At, Working
  <2>3. watch' \in [Watches -> WatchType] /\ \A v \in Watches : Working(v)'
    <3>1. CASE watch[w].result = "DELIVERED"
      <4> DEFINE l == [k EXCEPT !.pc = "mark"]
      <4>1. l \in WatchType /\ l.pc = "mark" /\ l.new = k.new /\ l.sub = k.sub
        BY DEF WatchType, PCs
      <4>2. watch' = [watch EXCEPT ![w] = l]
        BY <1>10, <2>1, <3>1 DEF Finish, TypeOK
      <4> QED BY <2>2, <4>1, <4>2, WatchStep
    <3>2. CASE watch[w].result # "DELIVERED"
      <4>1. watch[w].todo \ {watch[w].sub} \in SUBSET Subs
        BY DEF TypeOK
      <4> QED BY <1>10, <2>1, <2>2, <3>2, <4>1, ContinueType DEF Finish
    <3> QED BY <3>1, <3>2
  <2>4. k.result \in Opt(Statuses)
    BY <2>2, AlertDeliveryAssumption DEF Opt, Statuses
  <2>5. record' \in [Subs -> [Events -> Opt(Statuses)]]
    BY <1>10, <2>1, <2>2, <2>4, EventType DEF Finish, TypeOK
  <2> QED BY <1>10, <2>3, <2>5 DEF Finish, TypeOK, WatchType
<1>11. ASSUME NEW w \in Watches, Mark(w) PROVE Typed'
  <2>1. watch[w].new \in Recs /\ watch[w].now \in Nat
        /\ watch[w].todo \ {watch[w].sub} \in SUBSET Subs
    BY <1>11 DEF Mark, At, Working, TypeOK
  <2>2. watch' \in [Watches -> WatchType] /\ \A v \in Watches : Working(v)'
    BY <1>11, <2>1, ContinueType DEF Mark
  <2>3. NextCooldown(ChangeSeverity(watch[w].prev, watch[w].new), watch[w].now) \in Nat
    BY <2>1, ChangeSeverityType, SeverityNames DEF NextCooldown
  <2>4. sub' \in [Subs -> [status : {"absent", "ACTIVE", "REVOKED"}, until : Nat]]
    BY <1>11, <2>3 DEF Mark, TypeOK
  <2> QED BY <1>11, <2>2, <2>4 DEF Mark, TypeOK, WatchType
<1>12. ASSUME NEW w \in Watches, Crash(w) PROVE Typed'
  <2>1. PICK k \in WatchType : k = watch[w]
    BY DEF TypeOK, WatchType
  <2> DEFINE l == [k EXCEPT !.pc = "lost"]
  <2>2. l \in WatchType /\ l.pc = "lost"
    BY DEF WatchType, PCs
  <2>3. watch' = [watch EXCEPT ![w] = l]
    BY <1>12, <2>1 DEF Crash, TypeOK
  <2>4. watch' \in [Watches -> WatchType] /\ \A v \in Watches : Working(v)'
    BY <2>2, <2>3, WatchStep
  <2> QED BY <1>12, <2>4 DEF Crash, TypeOK, WatchType
<1>13. CASE UNCHANGED vars
  BY <1>13 DEF vars, TypeOK, Working
<1> QED
  BY <1>1, <1>2, <1>3, <1>4, <1>5, <1>6, <1>7, <1>8, <1>9, <1>10, <1>11, <1>12, <1>13
  DEF Next, EvaluateStep

LEMMA AlwaysTyped == Spec => []Typed
BY InitTyped, NextTyped, PTL DEF Spec

\* Every reachable state is well typed, cooldowns and the history of messages included.
THEOREM TypeCorrect == Spec => []TypeOK
BY AlwaysTyped, PTL DEF Typed

-----------------------------------------------------------------------------
(* At most one message per event.                                          *)

\* A watch between its claim and the outcome it writes, and what it knows there.
Holding(w) == watch[w].pc \in {"send", "finish"}

ClaimHeld(w) ==
  Holding(w) =>
    /\ record[watch[w].sub][Event(w)] = "PENDING"
    /\ watch[w].pc = "send" => Sent(watch[w].sub, Event(w)) = 0
    /\ watch[w].pc = "finish" /\ watch[w].result = "DELIVERED" => Sent(watch[w].sub, Event(w)) = 1
    /\ watch[w].pc = "finish" /\ watch[w].result = "SKIPPED" => Sent(watch[w].sub, Event(w)) = 0

OneHolder ==
  \A v, w \in Watches :
    Holding(v) /\ Holding(w) /\ watch[v].sub = watch[w].sub /\ Event(v) = Event(w) => v = w

UnclaimedUnsent == \A s \in Subs, e \in Events : record[s][e] = None => Sent(s, e) = 0

ClaimInv == OneHolder /\ UnclaimedUnsent /\ \A w \in Watches : ClaimHeld(w)

LEMMA InitClaimInv == Init => ClaimInv
<1> SUFFICES ASSUME Init PROVE ClaimInv
  OBVIOUS
<1>1. \A w \in Watches : ~Holding(w)
  BY IdleType DEF Init, Holding
<1>2. UnclaimedUnsent
  BY CountEmpty DEF Init, UnclaimedUnsent, Sent
<1> QED BY <1>1, <1>2 DEF ClaimInv, OneHolder, ClaimHeld

\* A step that starts no claim and writes neither the log nor a message.
Aside ==
  /\ UNCHANGED <<record, messages>>
  /\ \A v \in Watches : Holding(v)' => watch'[v] = watch[v]

LEMMA AsideClaimInv == ClaimInv /\ Aside => ClaimInv'
BY DEF ClaimInv, Aside, OneHolder, UnclaimedUnsent, ClaimHeld, Holding, Event, Sent

LEMMA AsideSteps ==
  ASSUME Typed, NEW w \in Watches,
         \/ Handle(w) \/ RunEnds(w) \/ WatchEnds(w) \/ Evaluate(w) \/ Mark(w) \/ Crash(w)
         \/ \E s \in Subs : ClaimTaken(w, s)
  PROVE  Aside
<1> USE DEF Typed
<1>1. watch \in [Watches -> WatchType]
  BY DEF TypeOK, WatchType
<1>2. CASE Handle(w)
  BY <1>1, <1>2 DEF Handle, Aside, Holding, Idle
<1>3. CASE RunEnds(w)
  BY <1>1, <1>3 DEF RunEnds, Aside, Holding, WatchType
<1>4. CASE WatchEnds(w)
  BY <1>1, <1>4 DEF WatchEnds, Aside, Holding, Idle
<1>5. CASE Evaluate(w)
  BY <1>1, <1>5 DEF Evaluate, Aside, Holding, Idle, WatchType
<1>6. CASE Mark(w)
  BY <1>1, <1>6, ContinueWatch DEF Mark, Aside, Holding, TypeOK
<1>7. CASE Crash(w)
  BY <1>1, <1>7 DEF Crash, Aside, Holding, WatchType
<1>8. CASE \E s \in Subs : ClaimTaken(w, s)
  BY <1>1, <1>8, ContinueWatch DEF ClaimTaken, Aside, Holding, TypeOK
<1> QED BY <1>2, <1>3, <1>4, <1>5, <1>6, <1>7, <1>8

\* A step of w's that leaves the other watches alone, and a claim nobody else holds.
LEMMA OneHolderStep ==
  ASSUME OneHolder, NEW w \in Watches,
         \A v \in Watches \ {w} : watch'[v] = watch[v],
         Holding(w)' => \A v \in Watches \ {w} :
           Holding(v) => ~(watch[v].sub = watch'[w].sub /\ Event(v) = Event(w)')
  PROVE  OneHolder'
BY DEF OneHolder, Holding, Event

\* What a watch that the step leaves alone holds.
LEMMA OtherWatch ==
  ASSUME Typed, NEW v \in Watches, watch'[v] = watch[v]
  PROVE  /\ Holding(v)' <=> Holding(v)
         /\ Event(v)' = Event(v)
         /\ Holding(v) => watch[v].sub \in Subs /\ Event(v) \in Events
<1>1. (Holding(v)' <=> Holding(v)) /\ Event(v)' = Event(v)
  BY DEF Holding, Event
<1>2. Holding(v) => watch[v].sub \in Subs /\ watch[v].new \in Recs
  BY DEF Typed, Working, Holding
<1> QED BY <1>1, <1>2, EventType

DeliveryNext == [Delivery!Next]_(Delivery!vars)

LEMMA AsideStutters == Aside => DeliveryNext
BY DEF Aside, DeliveryNext, Delivery!vars, Sent

\* The claim is free: nobody holds it and nothing was sent.
LEMMA ClaimStep ==
  ASSUME Typed, ClaimInv, NEW w \in Watches, NEW s \in Subs, Claim(w, s)
  PROVE  ClaimInv' /\ DeliveryNext
<1> USE DEF Typed
<1>1. watch \in [Watches -> WatchType] /\ watch[w].new \in Recs
  BY DEF TypeOK, WatchType, Claim, At, Working
<1> DEFINE e == Event(w)
<1>2. e \in Events
  BY <1>1, EventType
<1>3. record' = [record EXCEPT ![s][e] = "PENDING"] /\ messages' = messages
  BY DEF Claim
<1>4. /\ Holding(w)' /\ watch'[w].pc = "send" /\ watch'[w].sub = s /\ Event(w)' = e
      /\ \A v \in Watches \ {w} : watch'[v] = watch[v]
  BY <1>1 DEF Claim, Holding, WatchType, Event
<1>5. record[s][e] = None /\ Sent(s, e) = 0
  BY <1>2 DEF Claim, ClaimInv, UnclaimedUnsent
<1>6. ASSUME NEW v \in Watches \ {w}, Holding(v)
      PROVE  ~(watch[v].sub = s /\ Event(v) = e)
  BY <1>5, <1>6, AlertDeliveryAssumption DEF ClaimInv, ClaimHeld
<1>7. \A v \in Watches \ {w} : Holding(v) => ~(watch[v].sub = s /\ Event(v) = e)
  BY <1>6
<1>8. OneHolder'
  BY <1>4, <1>6, OneHolderStep DEF ClaimInv
<1>9. \A t \in Subs, f \in Events :
        /\ Sent(t, f)' = Sent(t, f)
        /\ record'[t][f] = IF t = s /\ f = e THEN "PENDING" ELSE record[t][f]
  BY <1>2, <1>3 DEF Sent, TypeOK
<1>10. UnclaimedUnsent'
  BY <1>9, AlertDeliveryAssumption DEF ClaimInv, UnclaimedUnsent
<1>11. ASSUME NEW v \in Watches PROVE ClaimHeld(v)'
  <2>1. CASE v = w
    BY <1>2, <1>4, <1>5, <1>9, <2>1 DEF ClaimHeld
  <2>2. CASE v # w
    <3> SUFFICES ASSUME Holding(v)' PROVE ClaimHeld(v)'
      BY DEF ClaimHeld
    <3>1. /\ watch'[v] = watch[v] /\ Event(v)' = Event(v) /\ Holding(v) /\ watch[v].sub \in Subs
          /\ Event(v) \in Events /\ ~(watch[v].sub = s /\ Event(v) = e)
      <4>1. watch'[v] = watch[v] /\ (Holding(v) => ~(watch[v].sub = s /\ Event(v) = e))
        BY <1>4, <1>7, <2>2
      <4> QED BY <4>1, OtherWatch
    <3>2. ClaimHeld(v)
      BY DEF ClaimInv
    <3>3. /\ record'[watch[v].sub][Event(v)] = record[watch[v].sub][Event(v)]
          /\ Count(messages'[watch[v].sub], Event(v)) = Sent(watch[v].sub, Event(v))
      BY <1>9, <3>1 DEF Sent
    <3> QED BY <3>1, <3>2, <3>3 DEF ClaimHeld, Sent
  <2> QED BY <2>1, <2>2
<1>12. DeliveryNext
  <2>1. Delivery!Claim(s, e)
    BY <1>3, <1>5 DEF Delivery!Claim, Sent
  <2> QED BY <1>2, <2>1 DEF DeliveryNext, Delivery!Next
<1> QED BY <1>8, <1>10, <1>11, <1>12 DEF ClaimInv

LEMMA SendStep ==
  ASSUME Typed, ClaimInv, NEW w \in Watches, Send(w)
  PROVE  ClaimInv' /\ DeliveryNext
<1> USE DEF Typed
<1>1. /\ watch \in [Watches -> WatchType] /\ watch[w].new \in Recs /\ watch[w].sub \in Subs
      /\ watch[w].pc = "send"
  BY DEF TypeOK, WatchType, Send, At, Working
<1> DEFINE e == Event(w)
           s == watch[w].sub
<1>2. e \in Events
  BY <1>1, EventType
<1>3. PICK result \in Outcomes, leaves \in BOOLEAN :
        /\ result = "DELIVERED" => leaves
        /\ result = "SKIPPED" => ~leaves
        /\ messages' = IF leaves THEN [messages EXCEPT ![s] = Append(@, e)] ELSE messages
        /\ watch' = [watch EXCEPT ![w].pc = "finish", ![w].result = result]
  BY DEF Send
<1>4. record' = record
  BY DEF Send
<1>5. /\ watch'[w].pc = "finish" /\ watch'[w].result = result /\ watch'[w].sub = s
      /\ Event(w)' = e /\ Holding(w)' /\ Holding(w)
      /\ \A v \in Watches \ {w} : watch'[v] = watch[v]
  BY <1>1, <1>3 DEF Holding, WatchType, Event
<1>6. record[s][e] = "PENDING" /\ Sent(s, e) = 0
  BY <1>1, <1>5 DEF ClaimInv, ClaimHeld
<1>7. \A v \in Watches \ {w} : Holding(v) => ~(watch[v].sub = s /\ Event(v) = e)
  BY <1>1, <1>5 DEF ClaimInv, OneHolder
<1>8. \A t \in Subs, f \in Events :
        Sent(t, f)' = IF leaves /\ t = s /\ f = e THEN 1 ELSE Sent(t, f)
  <2> TAKE t \in Subs, f \in Events
  <2>1. messages \in [Subs -> Seq(Events)]
    BY DEF TypeOK
  <2>2. CASE leaves /\ t = s
    <3>1. messages'[t] = Append(messages[t], e)
      BY <1>3, <2>1, <2>2
    <3>2. messages[t] \in Seq(Events)
      BY <2>1
    <3> QED BY <1>2, <1>6, <2>2, <3>1, <3>2, CountAppend DEF Sent
  <2>3. CASE ~(leaves /\ t = s)
    <3>1. messages'[t] = messages[t]
      BY <1>3, <2>1, <2>3
    <3> QED BY <2>3, <3>1 DEF Sent
  <2> QED BY <2>2, <2>3
<1>9. OneHolder'
  BY <1>5, <1>7, OneHolderStep DEF ClaimInv
<1>10. UnclaimedUnsent'
  BY <1>4, <1>6, <1>8, AlertDeliveryAssumption DEF ClaimInv, UnclaimedUnsent
<1>11. ASSUME NEW v \in Watches PROVE ClaimHeld(v)'
  <2>1. CASE v = w
    BY <1>1, <1>2, <1>3, <1>4, <1>5, <1>6, <1>8, <2>1 DEF ClaimHeld
  <2>2. CASE v # w
    <3> SUFFICES ASSUME Holding(v)' PROVE ClaimHeld(v)'
      BY DEF ClaimHeld
    <3>1. /\ watch'[v] = watch[v] /\ Event(v)' = Event(v) /\ Holding(v) /\ watch[v].sub \in Subs
          /\ Event(v) \in Events /\ ~(watch[v].sub = s /\ Event(v) = e)
      <4>1. watch'[v] = watch[v] /\ (Holding(v) => ~(watch[v].sub = s /\ Event(v) = e))
        BY <1>5, <1>7, <2>2
      <4> QED BY <4>1, OtherWatch
    <3>2. ClaimHeld(v)
      BY DEF ClaimInv
    <3>3. /\ record'[watch[v].sub][Event(v)] = record[watch[v].sub][Event(v)]
          /\ Count(messages'[watch[v].sub], Event(v)) = Sent(watch[v].sub, Event(v))
      BY <1>4, <1>8, <3>1 DEF Sent
    <3> QED BY <3>1, <3>2, <3>3 DEF ClaimHeld, Sent
  <2> QED BY <2>1, <2>2
<1>12. DeliveryNext
  <2> DEFINE sent == [t \in Subs |-> [f \in Events |-> Sent(t, f)]]
             next == [t \in Subs |-> [f \in Events |-> Sent(t, f)']]
  <2>1. CASE leaves
    <3>1. next = [sent EXCEPT ![s][e] = 1]
      <4>1. ASSUME NEW t \in Subs, t # s PROVE next[t] = sent[t]
        <5>1. \A f \in Events : Sent(t, f)' = Sent(t, f)
          BY <1>8, <4>1
        <5>2. [f \in Events |-> Sent(t, f)'] = [f \in Events |-> Sent(t, f)]
          BY <5>1
        <5> QED BY <5>2
      <4>2. ASSUME NEW t \in Subs, t = s PROVE next[t] = [sent[t] EXCEPT ![e] = 1]
        <5>1. \A f \in Events : Sent(t, f)' = IF f = e THEN 1 ELSE Sent(t, f)
          BY <1>8, <2>1, <4>2
        <5>2. [f \in Events |-> Sent(t, f)']
                = [f \in Events |-> IF f = e THEN 1 ELSE Sent(t, f)]
          BY <5>1
        <5>3. next[t] = [f \in Events |-> Sent(t, f)'] /\ sent[t] = [f \in Events |-> Sent(t, f)]
          OBVIOUS
        <5> HIDE DEF sent, next
        <5> QED BY <5>2, <5>3
      <4>3. next = [t \in Subs |-> next[t]] /\ sent = [t \in Subs |-> sent[t]]
        OBVIOUS
      <4> HIDE DEF sent, next
      <4> QED BY <1>1, <4>1, <4>2, <4>3
    <3>2. Delivery!Send(s, e)
      BY <1>1, <1>2, <1>4, <1>6, <3>1 DEF Delivery!Send
    <3> QED BY <1>1, <1>2, <3>2 DEF DeliveryNext, Delivery!Next
  <2>2. CASE ~leaves
    <3>1. next = sent
      BY <1>8, <2>2
    <3> QED BY <1>4, <3>1 DEF DeliveryNext, Delivery!vars
  <2> QED BY <2>1, <2>2
<1> QED BY <1>9, <1>10, <1>11, <1>12 DEF ClaimInv

LEMMA FinishStep ==
  ASSUME Typed, ClaimInv, NEW w \in Watches, Finish(w)
  PROVE  ClaimInv' /\ DeliveryNext
<1> USE DEF Typed
<1>1. /\ watch \in [Watches -> WatchType] /\ watch[w].new \in Recs /\ watch[w].sub \in Subs
      /\ watch[w].pc = "finish" /\ watch[w].result \in Outcomes /\ Holding(w)
  BY DEF TypeOK, WatchType, Finish, At, Working, Holding
<1> DEFINE e == Event(w)
           s == watch[w].sub
           result == watch[w].result
<1>2. e \in Events
  BY <1>1, EventType
<1>3. record' = [record EXCEPT ![s][e] = result] /\ messages' = messages
  BY DEF Finish
<1>4. ~Holding(w)' /\ \A v \in Watches \ {w} : watch'[v] = watch[v]
  <2>1. PICK l \in WatchType : watch' = [watch EXCEPT ![w] = l] /\ l.pc \in {"idle", "claim", "mark"}
    <3>1. PICK k \in WatchType : k = watch[w]
      BY <1>1
    <3>2. CASE result = "DELIVERED"
      <4>1. [k EXCEPT !.pc = "mark"] \in WatchType
        BY DEF WatchType, PCs
      <4>2. [k EXCEPT !.pc = "mark"].pc = "mark"
        BY DEF WatchType
      <4>3. watch' = [watch EXCEPT ![w] = [k EXCEPT !.pc = "mark"]]
        BY <1>1, <3>1, <3>2 DEF Finish
      <4> QED BY <4>1, <4>2, <4>3
    <3>3. CASE result # "DELIVERED"
      BY <1>1, <3>3, ContinueWatch DEF Finish, TypeOK
    <3> QED BY <3>2, <3>3
  <2> QED BY <1>1, <2>1 DEF Holding
<1>5. /\ record[s][e] = "PENDING"
      /\ result = "DELIVERED" => Sent(s, e) = 1
      /\ result = "SKIPPED" => Sent(s, e) = 0
  BY <1>1 DEF ClaimInv, ClaimHeld
<1>6. result \in {"DELIVERED", "FAILED", "SKIPPED"}
  BY <1>1, AlertDeliveryAssumption
<1>7. \A v \in Watches \ {w} : Holding(v) => ~(watch[v].sub = s /\ Event(v) = e)
  BY <1>1 DEF ClaimInv, OneHolder
<1>8. \A t \in Subs, f \in Events :
        /\ Sent(t, f)' = Sent(t, f)
        /\ record'[t][f] = IF t = s /\ f = e THEN result ELSE record[t][f]
  BY <1>1, <1>2, <1>3 DEF Sent, TypeOK
<1>9. OneHolder'
  BY <1>4, OneHolderStep DEF ClaimInv
<1>10. UnclaimedUnsent'
  BY <1>6, <1>8, AlertDeliveryAssumption DEF ClaimInv, UnclaimedUnsent
<1>11. ASSUME NEW v \in Watches PROVE ClaimHeld(v)'
  <2>1. CASE v = w
    BY <1>4, <2>1 DEF ClaimHeld
  <2>2. CASE v # w
    <3> SUFFICES ASSUME Holding(v)' PROVE ClaimHeld(v)'
      BY DEF ClaimHeld
    <3>1. /\ watch'[v] = watch[v] /\ Event(v)' = Event(v) /\ Holding(v) /\ watch[v].sub \in Subs
          /\ Event(v) \in Events /\ ~(watch[v].sub = s /\ Event(v) = e)
      <4>1. watch'[v] = watch[v] /\ (Holding(v) => ~(watch[v].sub = s /\ Event(v) = e))
        BY <1>4, <1>7, <2>2
      <4> QED BY <4>1, OtherWatch
    <3>2. ClaimHeld(v)
      BY DEF ClaimInv
    <3>3. /\ record'[watch[v].sub][Event(v)] = record[watch[v].sub][Event(v)]
          /\ Count(messages'[watch[v].sub], Event(v)) = Sent(watch[v].sub, Event(v))
      BY <1>4, <1>8, <3>1 DEF Sent
    <3> QED BY <3>1, <3>2, <3>3 DEF ClaimHeld, Sent
  <2> QED BY <2>1, <2>2
<1>12. DeliveryNext
  <2> DEFINE sent == [t \in Subs |-> [f \in Events |-> Sent(t, f)]]
             next == [t \in Subs |-> [f \in Events |-> Sent(t, f)']]
  <2>1. next = sent
    BY <1>8
  <2>2. sent[s][e] = Sent(s, e)
    BY <1>1, <1>2
  <2>3. Delivery!Resolve(s, e)
    BY <1>3, <1>5, <1>6, <2>1, <2>2 DEF Delivery!Resolve
  <2> QED BY <1>1, <1>2, <2>3 DEF DeliveryNext, Delivery!Next
<1> QED BY <1>9, <1>10, <1>11, <1>12 DEF ClaimInv

LEMMA NextClaimInv == Typed /\ ClaimInv /\ [Next]_vars => ClaimInv' /\ DeliveryNext
<1> SUFFICES ASSUME Typed, ClaimInv, [Next]_vars PROVE ClaimInv' /\ DeliveryNext
  OBVIOUS
<1>1. ASSUME NEW w \in Watches, NEW s \in Subs, Claim(w, s) PROVE ClaimInv' /\ DeliveryNext
  BY <1>1, ClaimStep
<1>2. ASSUME NEW w \in Watches, Send(w) PROVE ClaimInv' /\ DeliveryNext
  BY <1>2, SendStep
<1>3. ASSUME NEW w \in Watches, Finish(w) PROVE ClaimInv' /\ DeliveryNext
  BY <1>3, FinishStep
<1>4. ASSUME NEW w \in Watches,
             \/ Handle(w) \/ RunEnds(w) \/ WatchEnds(w) \/ Evaluate(w) \/ Mark(w) \/ Crash(w)
             \/ \E s \in Subs : ClaimTaken(w, s)
      PROVE  ClaimInv' /\ DeliveryNext
  BY <1>4, AsideSteps, AsideClaimInv, AsideStutters
<1>5. CASE \/ \E s \in Subs : Subscribe(s) \/ Revoke(s)
           \/ Refresh \/ LoseEntry \/ OtherRun \/ Tick \/ UNCHANGED vars
  <2>1. Aside
    BY <1>5 DEF Subscribe, Revoke, Refresh, LoseEntry, OtherRun, Tick, vars, Aside
  <2> QED BY <2>1, AsideClaimInv, AsideStutters
<1> QED BY <1>1, <1>2, <1>3, <1>4, <1>5 DEF Next, EvaluateStep

\* The delivery log keeps DeliveryOnce: at most one message per subscription and event,
\* sent under a pending claim, its outcome decided once, for any number of overlapping
\* evaluations, crashes and channel failures.
THEOREM DeliveredOnce == Spec => ImplementsDeliveryOnce
<1>1. Init => Delivery!Init
  <2> SUFFICES ASSUME Init PROVE Delivery!Init
    OBVIOUS
  <2>1. \A s \in Subs, e \in Events : Sent(s, e) = 0
    BY CountEmpty DEF Init, Sent
  <2> QED BY <2>1 DEF Init, Delivery!Init
<1>2. Typed /\ ClaimInv /\ [Next]_vars => [Delivery!Next]_(Delivery!vars)
  BY NextClaimInv DEF DeliveryNext
<1>3. Spec => []ClaimInv
  BY AlwaysTyped, InitClaimInv, NextClaimInv, PTL DEF Spec
<1> QED BY <1>1, <1>2, <1>3, AlwaysTyped, PTL DEF Spec, ImplementsDeliveryOnce, Delivery!Spec

-----------------------------------------------------------------------------
(* Revoked subscriptions.                                                  *)

\* Only an evaluation has subscriptions left to do, and the one it is at is among them.
Doing(w) ==
  /\ watch[w].pc \in {"idle", "watching", "evaluate"} => watch[w].todo = {}
  /\ watch[w].pc \in {"send", "finish", "mark"} => watch[w].sub \in watch[w].todo

DoingInv == \A w \in Watches : Doing(w)

\* A watch's step takes nothing on but active subscriptions; a lost watch stays lost.
Takes(w) ==
  /\ \A s \in watch'[w].todo : s \in watch[w].todo \/ Active(s)
  /\ watch[w].pc = "lost" => watch'[w].pc = "lost"

LEMMA InitDoing == Init => DoingInv
BY DEF Init, DoingInv, Doing, Idle

LEMMA OneWatchTakes ==
  ASSUME Typed, DoingInv, NEW w \in Watches, NEW l \in WatchType,
         watch' = [watch EXCEPT ![w] = l], watch[w].pc # "lost",
         \A s \in l.todo : s \in watch[w].todo \/ Active(s),
         l.pc \in {"idle", "watching", "evaluate"} => l.todo = {},
         l.pc \in {"send", "finish", "mark"} => l.sub \in l.todo
  PROVE  DoingInv' /\ \A v \in Watches : Takes(v)
<1>1. watch'[w] = l /\ \A v \in Watches \ {w} : watch'[v] = watch[v]
  BY DEF Typed, TypeOK
<1> SUFFICES ASSUME NEW v \in Watches PROVE Doing(v)' /\ Takes(v)
  BY DEF DoingInv
<1>2. CASE v = w
  BY <1>1, <1>2 DEF Doing, Takes
<1>3. CASE v # w
  BY <1>1, <1>3 DEF DoingInv, Doing, Takes
<1> QED BY <1>2, <1>3

LEMMA ContinueTakes ==
  ASSUME Typed, DoingInv, NEW w \in Watches, NEW todo \in SUBSET watch[w].todo, Continue(w, todo),
         watch[w].pc # "lost"
  PROVE  DoingInv' /\ \A v \in Watches : Takes(v)
<1>1. PICK k \in WatchType : k = watch[w]
  BY DEF Typed, TypeOK, WatchType
<1>2. CASE todo = {}
  <2>1. watch' = [watch EXCEPT ![w] = Idle] /\ Idle.todo = {}
    BY <1>2 DEF Continue, Idle
  <2> QED BY <2>1, IdleType, OneWatchTakes
<1>3. CASE todo # {}
  <2> DEFINE l == [k EXCEPT !.pc = "claim", !.todo = todo]
  <2>1. l \in WatchType /\ l.pc = "claim" /\ l.todo = todo
    BY <1>1 DEF WatchType, PCs
  <2>2. watch' = [watch EXCEPT ![w] = l]
    BY <1>1, <1>3 DEF Continue, Typed, TypeOK
  <2> HIDE DEF l
  <2> QED BY <1>1, <2>1, <2>2, OneWatchTakes
<1> QED BY <1>2, <1>3

LEMMA NextTakes == Typed /\ DoingInv /\ [Next]_vars => DoingInv' /\ \A w \in Watches : Takes(w)
<1> SUFFICES ASSUME Typed, DoingInv, [Next]_vars PROVE DoingInv' /\ \A w \in Watches : Takes(w)
  OBVIOUS
<1>0. watch \in [Watches -> WatchType]
  BY DEF Typed, TypeOK, WatchType
<1>1. CASE watch' = watch
  BY <1>1 DEF DoingInv, Doing, Takes
<1>2. ASSUME NEW w \in Watches,
             \/ Handle(w) \/ RunEnds(w) \/ WatchEnds(w) \/ EvaluateStep(w) \/ Crash(w)
      PROVE  DoingInv' /\ \A v \in Watches : Takes(v)
  <2>1. PICK k \in WatchType : k = watch[w]
    BY <1>0
  <2>2. Doing(w)
    BY DEF DoingInv
  <2>3. CASE Handle(w)
    <3> DEFINE l == [Idle EXCEPT !.pc = "watching", !.prev = latest]
    <3>1. l \in WatchType /\ l.pc = "watching" /\ l.todo = {}
      BY DEF Typed, TypeOK, Idle, WatchType, PCs, Opt
    <3>2. watch' = [watch EXCEPT ![w] = l] /\ watch[w].pc # "lost"
      BY <2>3 DEF Handle, At
    <3> HIDE DEF l
    <3> QED BY <3>1, <3>2, OneWatchTakes
  <2>4. CASE RunEnds(w)
    <3>1. PICK r \in Recs : watch' = [watch EXCEPT ![w].pc = "evaluate", ![w].new = r]
      BY <2>4 DEF RunEnds
    <3> DEFINE l == [k EXCEPT !.pc = "evaluate", !.new = r]
    <3>2. l \in WatchType /\ l.pc = "evaluate" /\ l.todo = k.todo
      BY DEF WatchType, PCs, Opt
    <3>3. watch' = [watch EXCEPT ![w] = l]
      BY <1>0, <2>1, <3>1
    <3>4. watch[w].pc = "watching"
      BY <2>4 DEF RunEnds, At
    <3> HIDE DEF l
    <3> QED BY <2>1, <2>2, <3>2, <3>3, <3>4, OneWatchTakes DEF Doing
  <2>5. CASE WatchEnds(w)
    <3>1. watch' = [watch EXCEPT ![w] = Idle] /\ watch[w].pc # "lost" /\ Idle.todo = {}
      BY <2>5 DEF WatchEnds, Idle
    <3> QED BY <3>1, IdleType, OneWatchTakes
  <2>6. CASE Evaluate(w)
    <3>1. PICK todo \in SUBSET Subs :
            /\ \A s \in todo : Active(s)
            /\ watch' = [watch EXCEPT ![w] =
                 IF todo = {} THEN Idle ELSE [@ EXCEPT !.pc = "claim", !.todo = todo, !.now = clock]]
      BY <2>6 DEF Evaluate
    <3>2. watch[w].pc # "lost"
      BY <2>6 DEF Evaluate, At
    <3>3. CASE todo = {}
      <4>1. watch' = [watch EXCEPT ![w] = Idle] /\ Idle.todo = {}
        BY <3>1, <3>3 DEF Idle
      <4> QED BY <3>2, <4>1, IdleType, OneWatchTakes
    <3>4. CASE todo # {}
      <4> DEFINE l == [k EXCEPT !.pc = "claim", !.todo = todo, !.now = clock]
      <4>1. l \in WatchType /\ l.pc = "claim" /\ l.todo = todo
        BY DEF WatchType, PCs, Typed, TypeOK
      <4>2. watch' = [watch EXCEPT ![w] = l]
        BY <1>0, <2>1, <3>1, <3>4
      <4> HIDE DEF l
      <4> QED BY <3>1, <3>2, <4>1, <4>2, OneWatchTakes
    <3> QED BY <3>3, <3>4
  <2>7. ASSUME NEW s \in Subs, Claim(w, s)
        PROVE  DoingInv' /\ \A v \in Watches : Takes(v)
    <3> DEFINE l == [k EXCEPT !.pc = "send", !.sub = s]
    <3>1. l \in WatchType /\ l.pc = "send" /\ l.todo = k.todo /\ l.sub = s
      BY DEF WatchType, PCs, Opt
    <3>2. watch' = [watch EXCEPT ![w] = l]
      BY <1>0, <2>1, <2>7 DEF Claim
    <3>3. watch[w].pc # "lost" /\ s \in watch[w].todo
      BY <2>7 DEF Claim, At
    <3> HIDE DEF l
    <3> QED BY <2>1, <3>1, <3>2, <3>3, OneWatchTakes
  <2>8. ASSUME NEW s \in Subs, ClaimTaken(w, s)
        PROVE  DoingInv' /\ \A v \in Watches : Takes(v)
    <3>1. Continue(w, watch[w].todo \ {s}) /\ watch[w].pc # "lost"
      BY <2>8 DEF ClaimTaken, At
    <3> QED BY <3>1, ContinueTakes
  <2>9. CASE Send(w)
    <3>1. PICK result \in Outcomes :
            watch' = [watch EXCEPT ![w].pc = "finish", ![w].result = result]
      BY <2>9 DEF Send
    <3> DEFINE l == [k EXCEPT !.pc = "finish", !.result = result]
    <3>2. l \in WatchType /\ l.pc = "finish" /\ l.todo = k.todo /\ l.sub = k.sub
      BY DEF WatchType, PCs, Opt
    <3>3. watch' = [watch EXCEPT ![w] = l]
      BY <1>0, <2>1, <3>1
    <3>4. watch[w].pc = "send"
      BY <2>9 DEF Send, At
    <3> HIDE DEF l
    <3> QED BY <2>1, <2>2, <3>2, <3>3, <3>4, OneWatchTakes DEF Doing
  <2>10. CASE Finish(w)
    <3>1. watch[w].pc = "finish"
      BY <2>10 DEF Finish, At
    <3>2. CASE watch' = [watch EXCEPT ![w].pc = "mark"]
      <4> DEFINE l == [k EXCEPT !.pc = "mark"]
      <4>1. l \in WatchType /\ l.pc = "mark" /\ l.todo = k.todo /\ l.sub = k.sub
        BY DEF WatchType, PCs
      <4>2. watch' = [watch EXCEPT ![w] = l]
        BY <1>0, <2>1, <3>2
      <4> HIDE DEF l
      <4> QED BY <2>1, <2>2, <3>1, <4>1, <4>2, OneWatchTakes DEF Doing
    <3>3. CASE Continue(w, watch[w].todo \ {watch[w].sub})
      BY <3>1, <3>3, ContinueTakes
    <3> QED BY <2>10, <3>2, <3>3 DEF Finish
  <2>11. CASE Mark(w)
    <3>1. Continue(w, watch[w].todo \ {watch[w].sub}) /\ watch[w].pc # "lost"
      BY <2>11 DEF Mark, At
    <3> QED BY <3>1, ContinueTakes
  <2>12. CASE Crash(w)
    <3> DEFINE l == [k EXCEPT !.pc = "lost"]
    <3>1. l \in WatchType /\ l.pc = "lost" /\ l.todo = k.todo
      BY DEF WatchType, PCs
    <3>2. watch' = [watch EXCEPT ![w] = l] /\ watch[w].pc # "lost"
      BY <1>0, <2>1, <2>12 DEF Crash
    <3> HIDE DEF l
    <3> QED BY <2>1, <3>1, <3>2, OneWatchTakes
  <2> QED
    BY <1>2, <2>3, <2>4, <2>5, <2>6, <2>7, <2>8, <2>9, <2>10, <2>11, <2>12 DEF EvaluateStep
<1> QED
  BY <1>1, <1>2 DEF Next, vars, Subscribe, Revoke, Refresh, LoseEntry, OtherRun, Tick

\* What a subscriber hears, it hears from an evaluation that has it to do.
LEMMA OnlyTheOneServedHears ==
  ASSUME Typed, DoingInv, [Next]_vars, NEW s \in Subs, messages'[s] # messages[s]
  PROVE  \E w \in Watches : watch[w].pc = "send" /\ s \in watch[w].todo
<1>1. \A w \in Watches : Doing(w)
  BY DEF DoingInv
<1>2. ASSUME NEW w \in Watches, Send(w) PROVE watch[w].pc = "send" /\ s \in watch[w].todo
  <2>1. watch[w].pc = "send" /\ watch[w].sub \in watch[w].todo
    BY <1>1, <1>2 DEF Send, At, Doing
  <2>2. watch[w].sub = s
    BY <1>2 DEF Send, Typed, TypeOK
  <2> QED BY <2>1, <2>2
<1>3. PICK w \in Watches : Send(w)
  BY DEF Next, vars, Subscribe, Revoke, Handle, RunEnds, WatchEnds, EvaluateStep, Evaluate, Finish,
         Mark, Claim, ClaimTaken, Crash, Refresh, LoseEntry, OtherRun, Tick
<1> QED BY <1>2, <1>3

LEMMA RevokedForGood ==
  ASSUME Typed, [Next]_vars, NEW s \in Subs, sub[s].status = "REVOKED"
  PROVE  sub'[s].status = "REVOKED"
<1>1. sub \in [Subs -> [status : {"absent", "ACTIVE", "REVOKED"}, until : Nat]]
  BY DEF Typed, TypeOK
<1>2. ASSUME NEW q \in Subs, Subscribe(q) \/ Revoke(q) PROVE sub'[s].status = "REVOKED"
  BY <1>1, <1>2 DEF Subscribe, Revoke
<1>3. ASSUME NEW w \in Watches, Mark(w) PROVE sub'[s].status = "REVOKED"
  <2>1. PICK t, q : sub' = [sub EXCEPT ![q].until = t]
    BY <1>3 DEF Mark
  <2> QED BY <1>1, <2>1
<1>4. CASE sub' = sub
  BY <1>4
<1> QED
  BY <1>2, <1>3, <1>4
     DEF Next, vars, Handle, RunEnds, WatchEnds, EvaluateStep, Evaluate, Send, Finish, Claim,
         ClaimTaken, Crash, Refresh, LoseEntry, OtherRun, Tick

\* A revoked subscription hears nothing more, for any subscriptions and any overlapping,
\* crashing or failing evaluations, once those that had read it are over (alert_service.py,
\* active_subscriptions_for_trip).
THEOREM RevokedIsSilent == Spec => RevokedStaysSilent
<1>1. ASSUME Typed, DoingInv, [Next]_vars, NEW s \in Subs, Silenced(s)
      PROVE  Silenced(s)' /\ messages'[s] = messages[s]
  <2>1. sub[s].status = "REVOKED" /\ \A w \in Watches : s \in watch[w].todo => watch[w].pc = "lost"
    BY <1>1 DEF Silenced, At
  <2>2. sub'[s].status = "REVOKED"
    BY <1>1, <2>1, RevokedForGood
  <2>3. \A w \in Watches : Takes(w)
    BY <1>1, NextTakes
  <2>4. Silenced(s)'
    BY <2>1, <2>2, <2>3 DEF Silenced, At, Takes, Active
  <2>5. messages'[s] = messages[s]
    BY <1>1, <2>1, OnlyTheOneServedHears
  <2> QED BY <2>4, <2>5
<1>2. Typed /\ DoingInv /\ [Next]_vars
        => DoingInv' /\ [\A s \in Subs : Silenced(s) => Silenced(s)' /\ messages'[s] = messages[s]]_vars
  BY <1>1, NextTakes
<1> QED
  BY <1>2, InitTyped, NextTyped, InitDoing, PTL DEF Spec, RevokedStaysSilent
=============================================================================
