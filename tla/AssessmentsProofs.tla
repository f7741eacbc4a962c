-------------------------- MODULE AssessmentsProofs --------------------------
(***************************************************************************)
(* Proofs about Assessments: every state is well typed, an idempotency key *)
(* names one run and one payload, a settled row stays as it is, and a row  *)
(* invents nothing the agent did not say, for any number of requests,      *)
(* handlers, keys and payloads and with any faults.                        *)
(***************************************************************************)
EXTENDS Assessments, TLAPS

\* Where a submission is once its row exists.
StartedPCs == {"remember", "submit", "submitted", "mark_failed", "mark_queued",
               "point_request", "say", "read_count", "write_count"}

\* What the locals l of a handler know of the rows.
Sound(l, rows) ==
  /\ l.pc = "lookup" => l.key \in Keys
  /\ l.pc = "ask" => l.req \in Requests
  /\ l.pc \in {"ask", "sync"} => l.seen \in Statuses
  /\ l.key # None =>
       /\ l.pc \in {"lookup", "table", "insert", "replay", "answered"} \cup StartedPCs
       /\ l.pc = "replay" => l.req \in Requests /\ rows[l.req].key = l.key
       /\ l.pc \in StartedPCs \/ (l.pc = "answered" /\ l.code = "ok") =>
            /\ l.req \in Requests
            /\ rows[l.req].key = l.key /\ rows[l.req].payload = l.payload

KeyIsUnique ==
  \A q, r \in Requests : row[q].key = row[r].key /\ row[q].key # None => q = r

Inv ==
  /\ TypeOK
  /\ \A r \in Requests : row[r].status = None => row[r].key = None
  /\ KeyIsUnique
  /\ \A k \in Keys : idem[k] # None => row[idem[k]].key = k
  /\ \A h \in Handlers : Sound(handler[h], row)

LEMMA IdleSound ==
  ASSUME NEW rows PROVE Idle \in Handler /\ Sound(Idle, rows) /\ Idle.pc = "idle"
BY AssessmentsAssumption DEF Idle, Handler, Sound, Opt, PCs, Codes, Roles, Reply, StartedPCs

LEMMA InitInv == Init => Inv
<1> SUFFICES ASSUME Init PROVE Inv
  OBVIOUS
<1>1. NoRow \in Row /\ NoRow.key = None
  BY DEF NoRow, Row, Opt
<1>2. row \in [Requests -> Row] /\ \A r \in Requests : row[r].key = None
  BY <1>1 DEF Init
<1>3. handler \in [Handlers -> Handler] /\ \A h \in Handlers : Sound(handler[h], row)
  BY IdleSound DEF Init
<1>4. agent \in [Requests -> Reply] /\ asked \in [Requests -> BOOLEAN]
  BY DEF Init, Agent!Init, Reply, Opt
<1>5. TypeOK
  BY <1>2, <1>3, <1>4 DEF Init, TypeOK, Opt, Roles
<1> QED BY <1>2, <1>3, <1>5 DEF Inv, KeyIsUnique, Init, Opt

\* A step that writes no key and no payload, and makes no row.
RowsKept ==
  /\ row' \in [Requests -> Row]
  /\ \A r \in Requests : /\ row'[r].key = row[r].key /\ row'[r].payload = row[r].payload
                         /\ row'[r].status = None => row[r].status = None

LEMMA SoundKept ==
  ASSUME RowsKept, NEW l, Sound(l, row) PROVE Sound(l, row')
BY DEF RowsKept, Sound

\* The part of the invariant that such a step of h leaves to be shown.
LEMMA HandlerInv ==
  ASSUME Inv, RowsKept, NEW h \in Handlers, NEW l \in Handler,
         handler' = [handler EXCEPT ![h] = l], Sound(l, row)
  PROVE  /\ handler' \in [Handlers -> Handler]
         /\ \A g \in Handlers : Sound(handler'[g], row')
         /\ \A r \in Requests : row'[r].status = None => row'[r].key = None
         /\ KeyIsUnique'
<1>1. handler \in [Handlers -> Handler]
  BY DEF Inv, TypeOK
<1>2. ASSUME NEW g \in Handlers PROVE Sound(handler'[g], row')
  <2>1. Sound(handler'[g], row)
    BY <1>1 DEF Inv
  <2> QED BY <2>1, SoundKept
<1> QED BY <1>1, <1>2 DEF Inv, RowsKept, KeyIsUnique

LEMMA StatusKept ==
  ASSUME Inv, NEW r, NEW s \in Statuses, SetStatus(r, s)
  PROVE  RowsKept
<1>1. row \in [Requests -> Row]
  BY DEF Inv, TypeOK
<1>2. row' \in [Requests -> Row]
  BY <1>1 DEF SetStatus, Row, Opt
<1>3. ASSUME NEW q \in Requests
      PROVE  /\ row'[q].key = row[q].key /\ row'[q].payload = row[q].payload
             /\ row'[q].status = None => row[q].status = None
  <2>1. PICK o \in Row : o = row[q]
    BY <1>1
  <2>2. row'[q] = o \/ row'[q] = [o EXCEPT !.status = s]
    BY <1>1, <2>1 DEF SetStatus
  <2> QED BY <2>1, <2>2, StatusAssumption DEF Row
<1> QED BY <1>2, <1>3 DEF RowsKept

LEMMA RowUnchanged == Inv /\ row' = row => RowsKept
BY DEF Inv, TypeOK, RowsKept

LEMMA Transitions ==
  ASSUME NEW s \in Statuses PROVE REQUEST_TRANSITIONS[s] \subseteq AgentStatuses
BY DEF REQUEST_TRANSITIONS, Statuses, AgentStatuses, TERMINAL

-----------------------------------------------------------------------------
(* One step of one handler.                                                *)

\* The handler h writes, or was about to write, what its new locals l write about, or
\* it has just read that row and found it open.
Continues(h, l) ==
  l.pc \in WriterPCs => \/ handler[h].pc \in WriterPCs /\ l.req = handler[h].req
                        \/ l.req \in Requests /\ row[l.req].status \notin TERMINAL

Moves(h, l) ==
  /\ handler' = [handler EXCEPT ![h] = l]
  /\ Sound(l, row)
  /\ Continues(h, l)

\* Moving on, or answering, with the same request.
LEMMA GotoMoves ==
  ASSUME Inv, NEW h \in Handlers, NEW p \in PCs, Goto(h, p),
         p \notin {"lookup", "ask", "sync", "replay"},
         p \in WriterPCs => handler[h].pc \in WriterPCs,
         handler[h].key # None => handler[h].pc \in StartedPCs /\ p \in StartedPCs
  PROVE  \E l \in Handler : Moves(h, l)
<1>1. PICK k \in Handler : k = handler[h]
  BY DEF Inv, TypeOK
<1> DEFINE l == [k EXCEPT !.pc = p]
<1>2. l \in Handler /\ l.pc = p /\ l.key = k.key /\ l.payload = k.payload /\ l.req = k.req
  BY DEF Handler
<1>3. handler' = [handler EXCEPT ![h] = l]
  BY <1>1 DEF Goto, Inv, TypeOK
<1>4. Sound(k, row)
  BY <1>1 DEF Inv
<1> HIDE DEF l
<1>5. Sound(l, row)
  BY <1>1, <1>2, <1>4 DEF Sound
<1> QED BY <1>1, <1>2, <1>3, <1>5 DEF Moves, Continues

LEMMA AnswerMoves ==
  ASSUME Inv, NEW h \in Handlers, NEW code \in Codes, Answer(h, code),
         handler[h].key # None /\ code = "ok" =>
           \/ handler[h].pc \in StartedPCs
           \/ handler[h].pc = "replay" /\ row[handler[h].req].payload = handler[h].payload
  PROVE  \E l \in Handler : Moves(h, l)
<1>1. PICK k \in Handler : k = handler[h]
  BY DEF Inv, TypeOK
<1> DEFINE l == [k EXCEPT !.pc = "answered", !.code = code]
<1>2. /\ l \in Handler /\ l.pc = "answered" /\ l.code = code
      /\ l.key = k.key /\ l.payload = k.payload /\ l.req = k.req
  BY DEF Handler, PCs
<1>3. handler' = [handler EXCEPT ![h] = l]
  BY <1>1 DEF Answer, Inv, TypeOK
<1>4. Sound(k, row)
  BY <1>1 DEF Inv
<1> HIDE DEF l
<1>5. Sound(l, row)
  BY <1>1, <1>2, <1>4 DEF Sound, StartedPCs
<1> QED BY <1>1, <1>2, <1>3, <1>5 DEF Moves, Continues, WriterPCs

LEMMA IdleMoves ==
  ASSUME NEW h \in Handlers, handler' = [handler EXCEPT ![h] = Idle]
  PROVE  \E l \in Handler : Moves(h, l)
BY IdleSound DEF Moves, Continues, WriterPCs

LEMMA BeginMoves ==
  ASSUME Inv, NEW h \in Handlers, NEW r \in Requests, NEW code \in Codes,
         NEW p \in {"answered", "ask", "forward", "give_up"},
         p = "ask" => row[r].status # None,
         p # "answered" => row[r].status \notin TERMINAL,
         handler' = [handler EXCEPT ![h] =
           [Idle EXCEPT !.pc = p, !.code = code, !.req = r, !.seen = row[r].status]]
  PROVE  \E l \in Handler : Moves(h, l)
<1> DEFINE l == [Idle EXCEPT !.pc = p, !.code = code, !.req = r, !.seen = row[r].status]
<1>1. row[r].status \in Opt(Statuses)
  BY DEF Inv, TypeOK, Row
<1>2. l \in Handler
  BY <1>1, IdleSound DEF Handler, PCs, Opt
<1>3. l.pc = p /\ l.req = r /\ l.key = None /\ l.seen = row[r].status
  BY DEF Idle
<1>4. handler' = [handler EXCEPT ![h] = l]
  OBVIOUS
<1> HIDE DEF l
<1>5. Sound(l, row)
  BY <1>1, <1>3 DEF Sound, Opt
<1>6. Moves(h, l)
  BY <1>3, <1>4, <1>5 DEF Moves, Continues, WriterPCs
<1> QED BY <1>2, <1>6

\* Handler steps that leave the rows alone.
QuietStep(h) ==
  \/ BeginStart(h) \/ Lookup(h) \/ LookupTable(h) \/ Replay(h) \/ InsertRejected(h)
  \/ Remember(h) \/ Submit(h) \/ SubmitAccepted(h) \/ SubmitFails(h) \/ PointRequest(h)
  \/ AskAgent(h) \/ AskUnanswered(h) \/ SyncNothing(h)
  \/ PointRec(h) \/ Say(h) \/ ReadCount(h) \/ WriteCount(h)
  \/ Forward(h) \/ ForwardFails(h) \/ Forwarded(h) \/ Return(h) \/ Die(h)
  \/ \E r \in Requests : BeginPoll(h, r) \/ BeginCancel(h, r) \/ BeginWatch(h, r)

LEMMA QuietMoves ==
  ASSUME Inv, NEW h \in Handlers, QuietStep(h)
  PROVE  row' = row /\ \E l \in Handler : Moves(h, l)
<1>1. PICK k \in Handler : k = handler[h]
  BY DEF Inv, TypeOK
<1>2. Sound(k, row) /\ handler \in [Handlers -> Handler]
  BY <1>1 DEF Inv, TypeOK
<1>3. row' = row
  BY DEF QuietStep, BeginStart, Lookup, LookupTable, Replay, InsertRejected, Remember, Submit,
         SubmitAccepted, SubmitFails, PointRequest, AskAgent, AskUnanswered, SyncNothing,
         PointRec, Say, ReadCount, WriteCount, Forward, ForwardFails, Forwarded, Return, Die,
         BeginPoll, BeginCancel, BeginWatch
<1>4. CASE BeginStart(h)
  <2>1. PICK offer \in Offers :
          handler' = [handler EXCEPT ![h] =
            [Idle EXCEPT !.pc = IF offer[1] = None THEN "insert" ELSE "lookup",
                         !.key = offer[1], !.payload = offer[2]]]
    BY <1>4 DEF BeginStart
  <2>2. offer[1] \in Keys \cup {None} /\ offer[2] \in Payloads
    BY AssessmentsAssumption
  <2> DEFINE l == [Idle EXCEPT !.pc = IF offer[1] = None THEN "insert" ELSE "lookup",
                               !.key = offer[1], !.payload = offer[2]]
  <2>3. /\ l \in Handler /\ l.key = offer[1] /\ l.pc \in {"insert", "lookup"}
        /\ l.pc = "lookup" => l.key # None
    <3>1. l.key = offer[1] /\ l.pc = IF offer[1] = None THEN "insert" ELSE "lookup"
      BY DEF Idle
    <3>2. l \in Handler
      BY <2>2, IdleSound DEF Handler, PCs, Opt
    <3> QED BY <3>1, <3>2
  <2>4. handler' = [handler EXCEPT ![h] = l]
    BY <2>1
  <2> HIDE DEF l
  <2>5. Moves(h, l)
    BY <2>2, <2>3, <2>4 DEF Moves, Continues, Sound, WriterPCs, StartedPCs
  <2> QED BY <1>3, <2>3, <2>5
<1>5. CASE Lookup(h)
  <2> DEFINE r == idem[k.key]
             l == [k EXCEPT !.pc = IF r = None THEN "table" ELSE "replay", !.req = r]
  <2>1. k.pc = "lookup" /\ k.key \in Keys
    BY <1>1, <1>2, <1>5 DEF Lookup, At, Sound
  <2>2. r \in Opt(Requests) /\ (r # None => r \in Requests /\ row[r].key = k.key)
    BY <2>1 DEF Inv, TypeOK, Opt
  <2>3. /\ l \in Handler /\ l.key = k.key /\ l.req = r /\ l.pc \in {"table", "replay"}
        /\ l.pc = "replay" => r # None
    BY <2>2 DEF Handler, PCs
  <2>4. handler' = [handler EXCEPT ![h] = l]
    BY <1>1, <1>2, <1>5 DEF Lookup
  <2> HIDE DEF l, r
  <2>5. Moves(h, l)
    BY <2>2, <2>3, <2>4 DEF Moves, Continues, Sound, WriterPCs, StartedPCs
  <2> QED BY <1>3, <2>3, <2>5
<1>6. CASE LookupTable(h)
  <2>1. CASE Goto(h, "insert")
    <3> DEFINE l == [k EXCEPT !.pc = "insert"]
    <3>1. l \in Handler /\ l.pc = "insert"
      BY DEF Handler, PCs
    <3>2. handler' = [handler EXCEPT ![h] = l]
      BY <1>1, <1>2, <2>1 DEF Goto
    <3> HIDE DEF l
    <3>3. Moves(h, l)
      BY <3>1, <3>2 DEF Moves, Continues, Sound, WriterPCs, StartedPCs
    <3> QED BY <1>3, <3>1, <3>3
  <2>2. CASE \E r \in RowsOf(k.key) :
               handler' = [handler EXCEPT ![h].pc = "replay", ![h].req = r]
    <3>1. PICK r \in RowsOf(k.key) :
            handler' = [handler EXCEPT ![h].pc = "replay", ![h].req = r]
      BY <2>2
    <3> DEFINE l == [k EXCEPT !.pc = "replay", !.req = r]
    <3>2. r \in Requests /\ row[r].key = k.key
      BY DEF RowsOf
    <3>3. l \in Handler /\ l.pc = "replay" /\ l.req = r /\ l.key = k.key
      BY <3>2 DEF Handler, PCs, Opt
    <3>4. handler' = [handler EXCEPT ![h] = l]
      BY <1>1, <1>2, <3>1
    <3> HIDE DEF l
    <3>5. Moves(h, l)
      BY <3>2, <3>3, <3>4 DEF Moves, Continues, Sound, WriterPCs, StartedPCs
    <3> QED BY <1>3, <3>3, <3>5
  <2> QED BY <1>1, <1>6, <2>1, <2>2 DEF LookupTable
<1>7. CASE Replay(h)
  <2>1. k.pc = "replay"
    BY <1>1, <1>7 DEF Replay, At
  <2>2. CASE row[k.req].payload = k.payload
    BY <1>1, <1>3, <1>7, <2>1, <2>2, AnswerMoves DEF Replay, Codes
  <2>3. CASE row[k.req].payload # k.payload
    BY <1>1, <1>3, <1>7, <2>3, AnswerMoves DEF Replay, Codes
  <2> QED BY <2>2, <2>3
<1>8. CASE InsertRejected(h) \/ ForwardFails(h)
  BY <1>3, <1>8, AnswerMoves DEF InsertRejected, ForwardFails, Codes
<1>9. CASE Remember(h) \/ Submit(h) \/ SubmitAccepted(h) \/ SubmitFails(h)
  BY <1>3, <1>9, GotoMoves
  DEF Remember, Submit, SubmitAccepted, SubmitFails, At, PCs, WriterPCs, StartedPCs
<1>10. CASE PointRequest(h)
  <2>1. CASE Answer(h, "ok")
    BY <1>3, <1>10, <2>1, AnswerMoves DEF PointRequest, At, Codes, StartedPCs
  <2>2. CASE handler' = [handler EXCEPT ![h].pc = "say", ![h].role = "user"]
    <3> DEFINE l == [k EXCEPT !.pc = "say", !.role = "user"]
    <3>1. /\ l \in Handler /\ l.pc = "say" /\ l.req = k.req
          /\ l.key = k.key /\ l.payload = k.payload
      BY DEF Handler, PCs, Roles
    <3>2. handler' = [handler EXCEPT ![h] = l] /\ k.pc = "point_request"
      BY <1>1, <1>2, <1>10, <2>2 DEF PointRequest, At
    <3> HIDE DEF l
    <3>3. Moves(h, l)
      BY <1>2, <3>1, <3>2 DEF Moves, Continues, Sound, WriterPCs, StartedPCs
    <3> QED BY <1>3, <3>1, <3>3
  <2> QED BY <1>10, <2>1, <2>2 DEF PointRequest
<1>11. CASE AskAgent(h)
  <2> DEFINE l == [k EXCEPT !.pc = "sync", !.reply = agent[k.req]]
  <2>1. k.pc = "ask" /\ k.key = None /\ k.req \in Requests /\ k.seen \in Statuses
    BY <1>1, <1>2, <1>11 DEF AskAgent, At, Sound, StartedPCs
  <2>2. agent[k.req] \in Reply
    BY <2>1 DEF Inv, TypeOK
  <2>3. l \in Handler /\ l.pc = "sync" /\ l.req = k.req /\ l.key = None /\ l.seen = k.seen
    BY <2>1, <2>2 DEF Handler, PCs
  <2>4. handler' = [handler EXCEPT ![h] = l]
    BY <1>1, <1>2, <1>11 DEF AskAgent
  <2> HIDE DEF l
  <2>5. Moves(h, l)
    BY <1>1, <2>1, <2>3, <2>4 DEF Moves, Continues, Sound, WriterPCs
  <2> QED BY <1>3, <2>3, <2>5
<1>12. CASE AskUnanswered(h) \/ SyncNothing(h)
  <2>1. k.pc \in {"ask", "sync"} /\ k.key = None
    BY <1>1, <1>2, <1>12 DEF AskUnanswered, SyncNothing, At, Sound, StartedPCs
  <2> QED BY <1>1, <1>3, <1>12, <2>1, AnswerMoves DEF AskUnanswered, SyncNothing, Codes
<1>13. CASE PointRec(h)
  <2>1. k.pc = "point_rec" /\ k.key = None
    BY <1>1, <1>2, <1>13 DEF PointRec, At, Sound, StartedPCs
  <2>2. CASE HasConversation(h)
    <3> DEFINE l == [k EXCEPT !.pc = "say", !.role = "assistant"]
    <3>1. l \in Handler /\ l.pc = "say" /\ l.key = None
      BY <2>1 DEF Handler, PCs, Roles
    <3>2. handler' = [handler EXCEPT ![h] = l]
      BY <1>1, <1>2, <1>13, <2>2 DEF PointRec
    <3> HIDE DEF l
    <3>3. Moves(h, l)
      BY <3>1, <3>2 DEF Moves, Continues, Sound, WriterPCs
    <3> QED BY <1>3, <3>1, <3>3
  <2>3. CASE ~HasConversation(h)
    BY <1>1, <1>3, <1>13, <2>1, <2>3, AnswerMoves DEF PointRec, Codes
  <2> QED BY <2>2, <2>3
<1>14. CASE Say(h)
  BY <1>3, <1>14, GotoMoves DEF Say, At, PCs, WriterPCs, StartedPCs
<1>15. CASE ReadCount(h)
  <2> DEFINE l == [k EXCEPT !.pc = "write_count", !.count = count]
  <2>1. /\ l \in Handler /\ l.pc = "write_count" /\ l.req = k.req
        /\ l.key = k.key /\ l.payload = k.payload
    BY DEF Handler, PCs, Inv, TypeOK
  <2>2. handler' = [handler EXCEPT ![h] = l] /\ k.pc = "read_count"
    BY <1>1, <1>2, <1>15 DEF ReadCount, At
  <2> HIDE DEF l
  <2>3. Moves(h, l)
    BY <1>2, <2>1, <2>2 DEF Moves, Continues, Sound, WriterPCs, StartedPCs
  <2> QED BY <1>3, <2>1, <2>3
<1>16. CASE WriteCount(h)
  BY <1>3, <1>16, AnswerMoves DEF WriteCount, At, Codes, StartedPCs
<1>17. CASE Forward(h)
  <2>1. k.pc = "forward" /\ k.key = None
    BY <1>1, <1>2, <1>17 DEF Forward, At, Sound, StartedPCs
  <2> QED BY <1>1, <1>3, <1>17, <2>1, GotoMoves DEF Forward, PCs, WriterPCs
<1>18. CASE Forwarded(h)
  <2>1. k.pc = "forwarded" /\ k.key = None
    BY <1>1, <1>2, <1>18 DEF Forwarded, At, Sound, StartedPCs
  <2>2. CASE Goto(h, "mark_cancelled")
    BY <1>1, <1>3, <2>1, <2>2, GotoMoves DEF PCs, WriterPCs
  <2>3. CASE Answer(h, "not_found") \/ Answer(h, "conflict")
    BY <1>3, <2>3, AnswerMoves DEF Codes
  <2> QED BY <1>18, <2>2, <2>3 DEF Forwarded
<1>19. CASE Return(h) \/ Die(h)
  BY <1>3, <1>19, IdleMoves DEF Return, Die
<1>20. ASSUME NEW r \in Requests, BeginPoll(h, r) \/ BeginCancel(h, r) \/ BeginWatch(h, r)
       PROVE  \E l \in Handler : Moves(h, l)
  <2> DEFINE open == row[r].status \notin TERMINAL
  <2>1. CASE BeginPoll(h, r)
    <3>1. CASE open
      BY <2>1, <3>1, BeginMoves DEF BeginPoll, Codes
    <3>2. CASE ~open
      BY <2>1, <3>2, BeginMoves DEF BeginPoll, Codes
    <3> QED BY <3>1, <3>2
  <2>2. CASE BeginCancel(h, r)
    <3>1. CASE open
      BY <2>2, <3>1, BeginMoves DEF BeginCancel, Codes
    <3>2. CASE ~open
      BY <2>2, <3>2, BeginMoves DEF BeginCancel, Codes
    <3> QED BY <3>1, <3>2
  <2>3. CASE BeginWatch(h, r)
    <3> DEFINE l == [Idle EXCEPT !.pc = "give_up", !.req = r, !.seen = row[r].status]
    <3>1. row[r].status \in Opt(Statuses)
      BY DEF Inv, TypeOK, Row
    <3>2. l \in Handler
      BY <3>1, IdleSound DEF Handler, PCs, Opt
    <3>3. l.pc = "give_up" /\ l.req = r /\ l.key = None
      BY DEF Idle
    <3>4. handler' = [handler EXCEPT ![h] = l] /\ row[r].status \notin TERMINAL
      BY <2>3 DEF BeginWatch
    <3> HIDE DEF l
    <3>5. Moves(h, l)
      BY <3>3, <3>4 DEF Moves, Continues, Sound
    <3> QED BY <3>2, <3>5
  <2> QED BY <1>20, <2>1, <2>2, <2>3
<1> QED
  BY <1>3, <1>4, <1>5, <1>6, <1>7, <1>8, <1>9, <1>10, <1>11, <1>12, <1>13, <1>14, <1>15, <1>16,
     <1>17, <1>18, <1>19, <1>20 DEF QuietStep

\* Handler steps that write a status, each to the row of its request.
WriteStep(h) == MarkFailed(h) \/ MarkQueued(h) \/ Sync(h) \/ MarkCancelled(h) \/ GiveUp(h)

LEMMA WriteMoves ==
  ASSUME Inv, NEW h \in Handlers, WriteStep(h)
  PROVE  /\ RowsKept /\ \E l \in Handler : Moves(h, l)
         /\ handler[h].pc \in WriterPCs
         /\ \A r \in Requests : r # handler[h].req => row'[r] = row[r]
<1>1. PICK k \in Handler : k = handler[h]
  BY DEF Inv, TypeOK
<1>2. Sound(k, row) /\ row \in [Requests -> Row]
  BY <1>1 DEF Inv, TypeOK
<1>3. CASE MarkFailed(h) \/ GiveUp(h)
  <2>1. SetStatus(k.req, "FAILED") /\ k.pc \in {"mark_failed", "give_up"}
    BY <1>1, <1>3 DEF MarkFailed, GiveUp, At
  <2>2. RowsKept /\ \A r \in Requests : r # k.req => row'[r] = row[r]
    BY <1>2, <2>1, StatusKept DEF SetStatus, Statuses, AgentStatuses
  <2>3. k.pc = "give_up" => k.key = None
    BY <1>2 DEF Sound, StartedPCs
  <2>4. \E l \in Handler : Moves(h, l)
    <3>1. CASE MarkFailed(h)
      BY <1>1, <3>1, AnswerMoves DEF MarkFailed, Codes
    <3>2. CASE GiveUp(h)
      BY <1>1, <2>3, <3>2, AnswerMoves DEF GiveUp, At, Codes
    <3> QED BY <1>3, <3>1, <3>2
  <2> QED BY <1>1, <2>1, <2>2, <2>4 DEF WriterPCs
<1>4. CASE MarkQueued(h)
  <2>1. SetStatus(k.req, "QUEUED") /\ k.pc = "mark_queued"
    BY <1>1, <1>4 DEF MarkQueued, At
  <2>2. RowsKept /\ \A r \in Requests : r # k.req => row'[r] = row[r]
    BY <1>2, <2>1, StatusKept DEF SetStatus, Statuses, AgentStatuses
  <2>3. \E l \in Handler : Moves(h, l)
    BY <1>1, <1>4, <2>1, GotoMoves DEF MarkQueued, PCs, WriterPCs, StartedPCs
  <2> QED BY <1>1, <2>1, <2>2, <2>3 DEF WriterPCs
<1>5. CASE MarkCancelled(h)
  <2>1. SetStatus(k.req, "CANCELLED") /\ k.pc = "mark_cancelled" /\ k.key = None
    BY <1>1, <1>2, <1>5 DEF MarkCancelled, At, Sound, StartedPCs
  <2>2. RowsKept /\ \A r \in Requests : r # k.req => row'[r] = row[r]
    BY <1>2, <2>1, StatusKept DEF SetStatus, Statuses, AgentStatuses
  <2>3. \E l \in Handler : Moves(h, l)
    BY <1>1, <1>5, <2>1, AnswerMoves DEF MarkCancelled, Codes
  <2> QED BY <1>1, <2>1, <2>2, <2>3 DEF WriterPCs
<1>6. CASE Sync(h)
  <2>1. k.pc = "sync" /\ k.key = None /\ k.seen \in Statuses
    BY <1>1, <1>2, <1>6 DEF Sync, At, Sound, StartedPCs
  <2>2. k.reply.status \in AgentStatuses /\ k.reply.rec \in BOOLEAN
    <3>1. k.reply.status # k.seen /\ Legal(k.seen, k.reply.status)
      BY <1>1, <1>6 DEF Sync, NewStatus
    <3> QED BY <2>1, <3>1, Transitions DEF Legal, Handler, Reply
  <2> DEFINE status == k.reply.status
  <2>3. row' = [row EXCEPT ![k.req].status = status, ![k.req].rec = k.reply.rec]
    BY <1>1, <1>6 DEF Sync
  <2> HIDE DEF status
  <2>4. ASSUME NEW q \in Requests
        PROVE  /\ row'[q] \in Row
               /\ row'[q].key = row[q].key /\ row'[q].payload = row[q].payload
               /\ row'[q].status = None => row[q].status = None
    <3>1. PICK o \in Row : o = row[q]
      BY <1>2
    <3>2. row'[q] = IF q = k.req THEN [o EXCEPT !.status = status, !.rec = k.reply.rec] ELSE o
      BY <1>2, <2>3, <3>1
    <3>3. status \in Statuses /\ status # None
      BY <2>2, StatusAssumption DEF status, Statuses
    <3> QED BY <2>2, <3>1, <3>2, <3>3 DEF Row, Opt
  <2>5. row' \in [Requests -> Row]
    BY <1>2, <2>3, <2>4
  <2>6. RowsKept /\ \A r \in Requests : r # k.req => row'[r] = row[r]
    BY <1>2, <2>3, <2>4, <2>5 DEF RowsKept
  <2>7. CASE Goto(h, "point_rec")
    BY <1>1, <2>1, <2>6, <2>7, GotoMoves DEF PCs, WriterPCs
  <2>8. CASE Answer(h, "ok")
    BY <1>1, <2>1, <2>6, <2>8, AnswerMoves DEF Codes, WriterPCs
  <2> QED BY <1>6, <2>7, <2>8 DEF Sync
<1> QED BY <1>3, <1>4, <1>5, <1>6 DEF WriteStep

\* The types of everything but the rows and the handlers.
OthersTyped ==
  /\ idem \in [Keys -> Opt(Requests)]
  /\ posted \in [Requests -> BOOLEAN]
  /\ agent \in [Requests -> Reply]
  /\ asked \in [Requests -> BOOLEAN]
  /\ trip \in [request : Opt(Requests), rec : Opt(Requests)]
  /\ messages \in [Requests -> [Roles -> Nat]]
  /\ count \in Nat

LEMMA AgentTyped ==
  ASSUME agent \in [Requests -> Reply], NEW r \in Requests,
         Agent!Accept(r) \/ Agent!Work(r) \/ Agent!Settle(r) \/ Agent!Stop(r)
  PROVE  agent' \in [Requests -> Reply] /\ asked' = asked
<1>1. Agent!Verdicts \subseteq Reply
  BY DEF Agent!Verdicts, Reply, Opt, AgentStatuses
<1>2. \E v \in Reply : agent' = [agent EXCEPT ![r] = v]
  BY <1>1 DEF Agent!Accept, Agent!Work, Agent!Settle, Agent!Stop, Agent!Set, Reply, Opt, AgentStatuses
<1>3. asked' = asked
  BY DEF Agent!Accept, Agent!Work, Agent!Settle, Agent!Stop
<1> QED BY <1>2, <1>3

LEMMA NextOthersTyped == Inv /\ [Next]_vars => OthersTyped'
<1> SUFFICES ASSUME Inv, [Next]_vars PROVE OthersTyped'
  OBVIOUS
<1>1. OthersTyped /\ \A h \in Handlers : handler[h] \in Handler
  BY DEF Inv, TypeOK, OthersTyped
<1>2. ASSUME NEW h \in Handlers,
             \/ BeginStart(h) \/ Lookup(h) \/ LookupTable(h) \/ Replay(h) \/ Insert(h)
             \/ InsertRejected(h) \/ SubmitAccepted(h) \/ SubmitFails(h) \/ MarkFailed(h)
             \/ MarkQueued(h) \/ AskAgent(h) \/ AskUnanswered(h) \/ SyncNothing(h) \/ Sync(h)
             \/ ReadCount(h) \/ ForwardFails(h) \/ Forwarded(h) \/ MarkCancelled(h)
             \/ GiveUp(h) \/ Return(h) \/ Die(h)
             \/ \E r \in Requests : BeginPoll(h, r) \/ BeginCancel(h, r) \/ BeginWatch(h, r)
      PROVE  OthersTyped'
  <2>1. UNCHANGED <<idem, posted, agent, asked, trip, messages, count>>
    BY <1>2 DEF BeginStart, Lookup, LookupTable, Replay, Insert, InsertRejected, SubmitAccepted,
         SubmitFails, MarkFailed, MarkQueued, AskAgent, AskUnanswered, SyncNothing, Sync,
         ReadCount, ForwardFails, Forwarded, MarkCancelled, GiveUp, Return, Die, BeginPoll,
         BeginCancel, BeginWatch, agentVars, talk
  <2> QED BY <1>1, <2>1 DEF OthersTyped
<1>3. ASSUME NEW h \in Handlers, Remember(h) \/ Submit(h) PROVE OthersTyped'
  BY <1>1, <1>3 DEF Remember, Submit, OthersTyped, Handler, Opt, agentVars, talk
<1>4. ASSUME NEW h \in Handlers, PointRequest(h) \/ PointRec(h) PROVE OthersTyped'
  BY <1>1, <1>4 DEF PointRequest, PointRec, OthersTyped, Handler, agentVars, talk
<1>5. ASSUME NEW h \in Handlers, Say(h) PROVE OthersTyped'
  <2> DEFINE q == handler[h].req
             role == handler[h].role
  <2>1. messages' = [messages EXCEPT ![q][role] = @ + 1]
    BY <1>5 DEF Say
  <2>2. messages \in [Requests -> [Roles -> Nat]] /\ role \in Roles
    BY <1>1 DEF OthersTyped, Handler
  <2> HIDE DEF q, role
  <2>3. ASSUME NEW r \in Requests PROVE messages'[r] \in [Roles -> Nat]
    <3>1. PICK m \in [Roles -> Nat] : m = messages[r]
      BY <2>2
    <3>2. messages'[r] = m \/ messages'[r] = [m EXCEPT ![role] = m[role] + 1]
      BY <2>1, <2>2, <3>1
    <3>3. m[role] + 1 \in Nat
      BY <2>2
    <3> QED BY <3>2, <3>3
  <2>4. messages' \in [Requests -> [Roles -> Nat]]
    BY <2>1, <2>2, <2>3
  <2> QED BY <1>1, <1>5, <2>4 DEF Say, OthersTyped, agentVars
<1>6. ASSUME NEW h \in Handlers, WriteCount(h) PROVE OthersTyped'
  BY <1>1, <1>6 DEF WriteCount, OthersTyped, Handler, agentVars
<1>7. ASSUME NEW h \in Handlers, Forward(h) PROVE OthersTyped'
  BY <1>1, <1>7 DEF Forward, Agent!AskCancel, OthersTyped, talk
<1>8. ASSUME NEW r \in Requests, LosePost(r) PROVE OthersTyped'
  BY <1>1, <1>8 DEF LosePost, OthersTyped, talk
<1>9. ASSUME NEW r \in Requests, AgentWorks(r) \/ AgentStops(r) PROVE OthersTyped'
  BY <1>1, <1>9, AgentTyped DEF AgentWorks, AgentStops, OthersTyped, talk
<1>10. ASSUME NEW k \in Keys, ExpireKey(k) PROVE OthersTyped'
  BY <1>1, <1>10 DEF ExpireKey, OthersTyped, Opt, agentVars, talk
<1>11. CASE UNCHANGED vars
  BY <1>1, <1>11 DEF vars, OthersTyped, agentVars, talk
<1> QED BY <1>2, <1>3, <1>4, <1>5, <1>6, <1>7, <1>8, <1>9, <1>10, <1>11
        DEF Next, HandlerStep, StartStep, PollStep, CancelStep

-----------------------------------------------------------------------------
(* The invariant.                                                          *)

IdemNamesKey == \A k \in Keys : idem[k] # None => row[idem[k]].key = k

\* Redis learns of a key only from the handler that made its row.
LEMMA NextIdem ==
  ASSUME Inv, RowsKept,
         \/ idem' = idem
         \/ \E h \in Handlers : Remember(h)
         \/ \E k \in Keys : ExpireKey(k)
  PROVE  IdemNamesKey'
<1> SUFFICES ASSUME NEW k \in Keys, idem'[k] # None PROVE row'[idem'[k]].key = k
  BY DEF IdemNamesKey
<1>1. idem \in [Keys -> Opt(Requests)] /\ (idem[k] # None => row[idem[k]].key = k)
  BY DEF Inv, TypeOK
<1>2. idem'[k] \in Requests /\ row[idem'[k]].key = k
  <2>1. CASE idem' = idem \/ \E j \in Keys : ExpireKey(j)
    BY <1>1, <2>1 DEF ExpireKey, Opt
  <2>2. ASSUME NEW h \in Handlers, Remember(h) PROVE idem'[k] \in Requests /\ row[idem'[k]].key = k
    <3>1. /\ idem' = [idem EXCEPT ![handler[h].key] = IF @ = None THEN handler[h].req ELSE @]
          /\ handler[h].pc = "remember"
      BY <2>2 DEF Remember, At
    <3>2. CASE idem'[k] = idem[k]
      BY <1>1, <3>2 DEF Opt
    <3>3. CASE idem'[k] # idem[k]
      <4>1. k = handler[h].key /\ idem'[k] = handler[h].req
        BY <1>1, <3>1, <3>3
      <4>2. k # None
        BY AssessmentsAssumption
      <4>3. Sound(handler[h], row)
        BY DEF Inv
      <4> QED BY <3>1, <4>1, <4>2, <4>3 DEF Sound, StartedPCs
    <3> QED BY <3>2, <3>3
  <2> QED BY <2>1, <2>2
<1> QED BY <1>2 DEF RowsKept

\* A new row takes an unused request and a key that no row has.
LEMMA InsertStep ==
  ASSUME Inv, NEW h \in Handlers, Insert(h)
  PROVE  \E r \in Unused, l \in Handler :
           /\ row' = [row EXCEPT ![r] = [status |-> "CREATED", rec |-> FALSE,
                                         key |-> handler[h].key, payload |-> handler[h].payload]]
           /\ row' \in [Requests -> Row]
           /\ handler' = [handler EXCEPT ![h] = l]
           /\ l.req = r /\ l.key = handler[h].key /\ l.payload = handler[h].payload
           /\ l.pc \in {"submit", "remember"}
<1>1. PICK k \in Handler : k = handler[h]
  BY DEF Inv, TypeOK
<1>2. PICK r \in Unused :
        /\ row' = [row EXCEPT ![r] = [status |-> "CREATED", rec |-> FALSE,
                                      key |-> k.key, payload |-> k.payload]]
        /\ handler' = [handler EXCEPT ![h].req = r,
                         ![h].pc = IF k.key = None THEN "submit" ELSE "remember"]
  BY <1>1 DEF Insert
<1> DEFINE l == [k EXCEPT !.req = r, !.pc = IF k.key = None THEN "submit" ELSE "remember"]
<1>3. /\ l \in Handler /\ l.req = r /\ l.key = k.key /\ l.payload = k.payload
      /\ l.pc \in {"submit", "remember"}
  BY DEF Handler, PCs, Opt, Unused
<1>4. handler' = [handler EXCEPT ![h] = l]
  BY <1>1, <1>2 DEF Inv, TypeOK
<1>5. row' \in [Requests -> Row]
  BY <1>2 DEF Inv, TypeOK, Row, Handler, Opt, Statuses
<1> QED BY <1>1, <1>2, <1>3, <1>4, <1>5

LEMMA InsertInv ==
  ASSUME Inv, NEW h \in Handlers, Insert(h)
  PROVE  Inv'
<1>1. PICK r \in Unused, l \in Handler :
        /\ row' = [row EXCEPT ![r] = [status |-> "CREATED", rec |-> FALSE,
                                      key |-> handler[h].key, payload |-> handler[h].payload]]
        /\ row' \in [Requests -> Row]
        /\ handler' = [handler EXCEPT ![h] = l]
        /\ l.req = r /\ l.key = handler[h].key /\ l.payload = handler[h].payload
        /\ l.pc \in {"submit", "remember"}
  BY InsertStep
<1>2. r \in Requests /\ row[r].status = None /\ row[r].key = None
  BY DEF Unused, Inv
<1>3. row \in [Requests -> Row] /\ handler \in [Handlers -> Handler]
  BY DEF Inv, TypeOK
<1>4. /\ row'[r].status = "CREATED" /\ row'[r].key = l.key /\ row'[r].payload = l.payload
      /\ \A q \in Requests \ {r} : row'[q] = row[q]
  BY <1>1, <1>2, <1>3
<1>5. \A q \in Requests : l.key # None => row[q].key # l.key
  BY <1>1 DEF Insert, RowsOf
<1>6. KeyIsUnique'
  BY <1>4, <1>5 DEF KeyIsUnique, Inv
<1>7. \A q \in Requests : row'[q].status = None => row'[q].key = None
  BY <1>4, StatusAssumption DEF Inv, Statuses
<1>8. IdemNamesKey'
  <2>1. idem' = idem /\ \A k \in Keys : k # None /\ idem[k] \in Opt(Requests)
    BY AssessmentsAssumption DEF Insert, Inv, TypeOK
  <2> QED BY <1>2, <1>4, <2>1 DEF IdemNamesKey, Inv, Opt
<1>9. ASSUME NEW g \in Handlers PROVE Sound(handler'[g], row')
  <2>1. CASE g = h
    <3>1. handler'[g] = l
      BY <1>1, <1>3, <2>1
    <3>2. Sound(l, row')
      BY <1>1, <1>2, <1>4 DEF Sound, StartedPCs
    <3> QED BY <3>1, <3>2
  <2>2. CASE g # h
    <3>1. PICK k \in Handler : k = handler[g]
      BY <1>3
    <3>2. handler'[g] = k /\ Sound(k, row)
      BY <1>1, <1>3, <2>2, <3>1 DEF Inv
    <3>3. k.req = r => row[k.req].key = None
      BY <1>2
    <3>4. Sound(k, row')
      BY <1>2, <1>4, <3>2 DEF Sound
    <3> QED BY <3>2, <3>4
  <2> QED BY <2>1, <2>2
<1>10. OthersTyped'
  BY NextOthersTyped DEF Next, HandlerStep, StartStep
<1>11. handler' \in [Handlers -> Handler]
  BY <1>1, <1>3
<1> QED BY <1>1, <1>6, <1>7, <1>8, <1>9, <1>10, <1>11 DEF Inv, TypeOK, OthersTyped, IdemNamesKey

\* Every step is one of these.
LEMMA NextCases ==
  ASSUME [Next]_vars
  PROVE  \/ \E h \in Handlers : QuietStep(h) \/ WriteStep(h) \/ Insert(h)
         \/ row' = row /\ handler' = handler /\ (idem' = idem \/ \E k \in Keys : ExpireKey(k))
<1>1. CASE UNCHANGED vars
  BY <1>1 DEF vars
<1>2. CASE \/ \E k \in Keys : ExpireKey(k)
           \/ \E r \in Requests : LosePost(r) \/ AgentWorks(r) \/ AgentStops(r)
  BY <1>2 DEF ExpireKey, LosePost, AgentWorks, AgentStops
<1>3. ASSUME NEW h \in Handlers, BeginStart(h) \/ HandlerStep(h) \/ Die(h)
      PROVE  QuietStep(h) \/ WriteStep(h) \/ Insert(h)
  BY <1>3 DEF QuietStep, WriteStep, HandlerStep, StartStep, PollStep, CancelStep
<1>4. ASSUME NEW h \in Handlers, NEW r \in Requests,
             BeginPoll(h, r) \/ BeginCancel(h, r) \/ BeginWatch(h, r)
      PROVE  QuietStep(h)
  BY <1>4 DEF QuietStep
<1> QED BY <1>1, <1>2, <1>3, <1>4 DEF Next

LEMMA NextInv == Inv /\ [Next]_vars => Inv'
<1> SUFFICES ASSUME Inv, [Next]_vars PROVE Inv'
  OBVIOUS
<1>1. OthersTyped'
  BY NextOthersTyped
<1>2. ASSUME NEW h \in Handlers, Insert(h) PROVE Inv'
  BY <1>2, InsertInv
<1>3. ASSUME NEW h \in Handlers, QuietStep(h) \/ WriteStep(h) PROVE Inv'
  <2>1. RowsKept /\ \E l \in Handler : Moves(h, l)
    BY <1>3, QuietMoves, WriteMoves, RowUnchanged
  <2>2. PICK l \in Handler : Moves(h, l)
    BY <2>1
  <2>3. idem' = idem \/ Remember(h)
    BY <1>3 DEF QuietStep, WriteStep, BeginStart, Lookup, LookupTable, Replay, InsertRejected,
         Submit, SubmitAccepted, SubmitFails, PointRequest, AskAgent, AskUnanswered,
         SyncNothing, PointRec, Say, ReadCount, WriteCount, Forward, ForwardFails, Forwarded,
         Return, Die, BeginPoll, BeginCancel, BeginWatch, MarkFailed, MarkQueued, Sync,
         MarkCancelled, GiveUp
  <2>4. IdemNamesKey'
    BY <2>1, <2>3, NextIdem
  <2>5. /\ handler' \in [Handlers -> Handler]
        /\ \A g \in Handlers : Sound(handler'[g], row')
        /\ \A r \in Requests : row'[r].status = None => row'[r].key = None
        /\ KeyIsUnique'
    BY <2>1, <2>2, HandlerInv DEF Moves
  <2> QED BY <1>1, <2>1, <2>4, <2>5 DEF Inv, TypeOK, OthersTyped, IdemNamesKey, RowsKept
<1>4. CASE row' = row /\ handler' = handler /\ (idem' = idem \/ \E k \in Keys : ExpireKey(k))
  <2>1. IdemNamesKey'
    BY <1>4, NextIdem, RowUnchanged
  <2> QED BY <1>1, <1>4, <2>1 DEF Inv, TypeOK, OthersTyped, IdemNamesKey, KeyIsUnique
<1> QED BY <1>2, <1>3, <1>4, NextCases

LEMMA AlwaysInv == Spec => []Inv
BY InitInv, NextInv, PTL DEF Spec

\* Every reachable state of rows, handlers, agent and conversation is well typed.
THEOREM TypeCorrect == Spec => []TypeOK
<1>1. Inv => TypeOK
  BY DEF Inv
<1> QED BY <1>1, AlwaysInv, PTL

\* Two successful submissions with one Idempotency-Key answer with one request and were
\* asked for one payload, however they interleave and even when Redis forgets the key:
\* the unique index of the table decides.
THEOREM ReplaysCorrect == Spec => []ReplaysAgree
<1>1. Inv => ReplaysAgree
  <2> SUFFICES ASSUME Inv, NEW g \in Handlers, NEW h \in Handlers, Answered(g), Answered(h),
                      handler[g].key = handler[h].key
               PROVE  handler[g].req = handler[h].req /\ handler[g].payload = handler[h].payload
    BY DEF ReplaysAgree
  <2>1. ASSUME NEW f \in Handlers, Answered(f)
        PROVE  /\ handler[f].req \in Requests /\ handler[f].key # None
               /\ row[handler[f].req].key = handler[f].key
               /\ row[handler[f].req].payload = handler[f].payload
    BY <2>1 DEF Inv, Sound, Answered, At
  <2>2. handler[g].req = handler[h].req
    BY <2>1 DEF Inv, KeyIsUnique
  <2> QED BY <2>1, <2>2
<1> QED BY <1>1, AlwaysInv, PTL

-----------------------------------------------------------------------------
(* Settled rows.                                                           *)

LEMMA SettledStep ==
  ASSUME Inv, [Next]_vars, NEW r \in Requests, Settled(r)
  PROVE  row'[r] = row[r] /\ \A h \in Handlers : ~InFlight(h, r)'
<1>1. row[r].status \in TERMINAL /\ row[r].status # None
  BY StatusAssumption DEF Settled, TERMINAL, Statuses, AgentStatuses
<1>2. handler \in [Handlers -> Handler] /\ row \in [Requests -> Row]
  BY DEF Inv, TypeOK
<1>3. \A h \in Handlers : ~(handler[h].req = r /\ handler[h].pc \in WriterPCs)
  BY DEF Settled, InFlight
<1>4. ASSUME NEW h \in Handlers, QuietStep(h) \/ WriteStep(h)
      PROVE  row'[r] = row[r] /\ \A g \in Handlers : ~InFlight(g, r)'
  <2>1. row'[r] = row[r]
    BY <1>3, <1>4, QuietMoves, WriteMoves
  <2>2. PICK l \in Handler : Moves(h, l)
    BY <1>4, QuietMoves, WriteMoves
  <2>3. ~(l.req = r /\ l.pc \in WriterPCs)
    BY <1>1, <1>3, <2>2 DEF Moves, Continues
  <2>4. ASSUME NEW g \in Handlers PROVE ~(handler'[g].req = r /\ handler'[g].pc \in WriterPCs)
    BY <1>2, <1>3, <2>2, <2>3 DEF Moves
  <2> QED BY <2>1, <2>4 DEF InFlight
<1>5. ASSUME NEW h \in Handlers, Insert(h)
      PROVE  row'[r] = row[r] /\ \A g \in Handlers : ~InFlight(g, r)'
  <2>1. PICK q \in Unused, l \in Handler :
          /\ row' = [row EXCEPT ![q] = [status |-> "CREATED", rec |-> FALSE,
                                        key |-> handler[h].key, payload |-> handler[h].payload]]
          /\ handler' = [handler EXCEPT ![h] = l] /\ l.req = q
    BY <1>5, InsertStep
  <2>2. q # r
    BY <1>1 DEF Unused
  <2>3. row'[r] = row[r]
    BY <1>2, <2>1, <2>2
  <2>4. ASSUME NEW g \in Handlers PROVE ~(handler'[g].req = r /\ handler'[g].pc \in WriterPCs)
    BY <1>2, <1>3, <2>1, <2>2
  <2> QED BY <2>3, <2>4 DEF InFlight
<1>6. CASE row' = row /\ handler' = handler
  BY <1>3, <1>6 DEF InFlight
<1> QED BY <1>4, <1>5, <1>6, NextCases

\* A terminal row that no handler is at work on is never written again: not by a
\* submission, a poll, a cancellation or a watcher that begins later.
THEOREM SettledCorrect == Spec => SettledStays
<1>1. Inv /\ [Next]_vars =>
        [\A r \in Requests : Settled(r) =>
           /\ row'[r] = row[r]
           /\ \A h \in Handlers : ~InFlight(h, r)']_vars
  BY SettledStep
<1> QED BY <1>1, AlwaysInv, PTL DEF Spec, SettledStays
-----------------------------------------------------------------------------
(* What rows, trips and parked handlers know of the agent.                 *)

Successes == {"COMPLETED", "PARTIAL"}

\* A status s with or without a recommendation, of a run that the agent holds as a and
\* that was cancelled or not.
Reflects(s, rec, a, cancelled) ==
  /\ s \in Successes /\ ~cancelled => a = [status |-> s, rec |-> rec]
  /\ s = "CANCELLED" => cancelled

\* Where a handler knows something of its run.
KnowingPCs == {"sync", "point_rec", "forward", "forwarded", "mark_cancelled"}

Knows(l, ag, cancelled) ==
  /\ l.pc \in KnowingPCs => l.req \in Requests
  /\ l.pc = "sync" =>
       /\ l.reply \in Agent!Rows
       /\ Reflects(l.reply.status, l.reply.rec, ag[l.req], cancelled[l.req])
  /\ l.pc = "point_rec" => cancelled[l.req] \/ ag[l.req].rec
  /\ l.pc \in {"forwarded", "mark_cancelled"} => cancelled[l.req]

AgentIsLawful(ag, cancelled) ==
  /\ ag \in [Requests -> Agent!Rows]
  /\ cancelled \in [Requests -> BOOLEAN]
  /\ \A r \in Requests : ag[r].status = "CANCELLED" => cancelled[r]

RowsReflect(rows, ag, cancelled) ==
  \A r \in Requests : Reflects(rows[r].status, rows[r].rec, ag[r], cancelled[r])

TripReflects(t, ag, cancelled) ==
  \A r \in Requests : t.rec = r => cancelled[r] \/ ag[r].rec

ReflectInv ==
  /\ AgentIsLawful(agent, asked)
  /\ RowsReflect(row, agent, asked)
  /\ TripReflects(trip, agent, asked)
  /\ \A h \in Handlers : Knows(handler[h], agent, asked)

LEMMA RowsOfAgent ==
  ASSUME NEW a \in Agent!Rows
  PROVE  /\ a = [status |-> a.status, rec |-> a.rec]
         /\ a.rec => a.status \in Successes
         /\ a \in Reply
BY DEF Agent!Rows, Agent!Verdicts, Successes, Reply, Opt, AgentStatuses

LEMMA InitReflects == Init => ReflectInv
<1> SUFFICES ASSUME Init PROVE ReflectInv
  OBVIOUS
<1>1. agent = [r \in Requests |-> [status |-> None, rec |-> FALSE]]
      /\ asked = [r \in Requests |-> FALSE]
  BY DEF Init, Agent!Init
<1>2. None \notin Successes \cup {"CANCELLED"}
  BY StatusAssumption DEF Statuses, AgentStatuses, Successes
<1>3. AgentIsLawful(agent, asked)
  BY <1>1, <1>2 DEF AgentIsLawful, Agent!Rows
<1>4. RowsReflect(row, agent, asked)
  BY <1>2 DEF Init, NoRow, RowsReflect, Reflects
<1>5. TripReflects(trip, agent, asked)
  BY AssessmentsAssumption DEF Init, TripReflects
<1>6. \A h \in Handlers : Knows(handler[h], agent, asked)
  BY DEF Init, Idle, Knows, KnowingPCs
<1> QED BY <1>3, <1>4, <1>5, <1>6 DEF ReflectInv

-----------------------------------------------------------------------------
(* The agent's steps.                                                      *)

\* A success that nobody cancels stays, and a cancellation is not taken back.
Grows(ag, cancelled, ag2, cancelled2) ==
  /\ AgentIsLawful(ag2, cancelled2)
  /\ \A r \in Requests : cancelled[r] => cancelled2[r]
  /\ \A r \in Requests : ag[r].status \in Successes /\ ~cancelled2[r] => ag2[r] = ag[r]

LEMMA ReflectsGrows ==
  ASSUME NEW ag, NEW c, NEW ag2, NEW c2, Grows(ag, c, ag2, c2), NEW r \in Requests,
         NEW s, NEW rec, Reflects(s, rec, ag[r], c[r])
  PROVE  Reflects(s, rec, ag2[r], c2[r])
<1>1. CASE s \in Successes /\ ~c2[r]
  <2>1. ag[r] = [status |-> s, rec |-> rec]
    BY <1>1 DEF Grows, Reflects
  <2>2. ag2[r] = ag[r]
    BY <1>1, <2>1 DEF Grows
  <2> QED BY <1>1, <2>1, <2>2 DEF Reflects, Successes
<1>2. CASE ~(s \in Successes /\ ~c2[r])
  BY <1>2 DEF Grows, Reflects
<1> QED BY <1>1, <1>2

LEMMA RecGrows ==
  ASSUME NEW ag, NEW c, NEW ag2, NEW c2, AgentIsLawful(ag, c), Grows(ag, c, ag2, c2),
         NEW r \in Requests, c[r] \/ ag[r].rec
  PROVE  c2[r] \/ ag2[r].rec
<1>1. ag[r] \in Agent!Rows
  BY DEF AgentIsLawful
<1>2. ag[r].rec => ag[r].status \in Successes
  BY <1>1, RowsOfAgent
<1> QED BY <1>2 DEF Grows

LEMMA KnowsGrows ==
  ASSUME NEW ag, NEW c, NEW ag2, NEW c2, AgentIsLawful(ag, c), Grows(ag, c, ag2, c2),
         NEW l, Knows(l, ag, c)
  PROVE  Knows(l, ag2, c2)
<1>1. l.pc = "sync" => /\ l.reply \in Agent!Rows
                       /\ Reflects(l.reply.status, l.reply.rec, ag2[l.req], c2[l.req])
  BY ReflectsGrows DEF Knows, KnowingPCs
<1>2. l.pc = "point_rec" => c2[l.req] \/ ag2[l.req].rec
  BY RecGrows DEF Knows, KnowingPCs
<1>3. l.pc \in {"forwarded", "mark_cancelled"} => c2[l.req]
  BY DEF Knows, KnowingPCs, Grows
<1> QED BY <1>1, <1>2, <1>3 DEF Knows

LEMMA GrowKeeps ==
  ASSUME ReflectInv, Grows(agent, asked, agent', asked'), UNCHANGED <<row, trip, handler>>
  PROVE  ReflectInv'
<1>1. AgentIsLawful(agent, asked)
  BY DEF ReflectInv
<1>2. RowsReflect(row', agent', asked')
  <2>1. ASSUME NEW r \in Requests
        PROVE  Reflects(row[r].status, row[r].rec, agent'[r], asked'[r])
    BY ReflectsGrows DEF ReflectInv, RowsReflect
  <2> QED BY <2>1 DEF RowsReflect
<1>3. TripReflects(trip', agent', asked')
  BY <1>1, RecGrows DEF ReflectInv, TripReflects
<1>4. \A h \in Handlers : Knows(handler[h], agent', asked')
  BY <1>1, KnowsGrows DEF ReflectInv
<1> QED BY <1>2, <1>3, <1>4 DEF ReflectInv, Grows

LEMMA AgentGrows ==
  ASSUME ReflectInv, NEW r \in Requests,
         Agent!Accept(r) \/ Agent!Work(r) \/ Agent!Settle(r) \/ Agent!Stop(r)
  PROVE  Grows(agent, asked, agent', asked')
<1>1. asked' = asked /\ AgentIsLawful(agent, asked)
  BY DEF Agent!Accept, Agent!Work, Agent!Settle, Agent!Stop, ReflectInv
<1>2. agent[r].status \in Successes => Agent!Stop(r)
  BY StatusAssumption DEF Agent!Accept, Agent!Work, Agent!Settle, Successes, Statuses,
       AgentStatuses
<1>3. PICK v \in Agent!Rows : /\ agent' = [agent EXCEPT ![r] = v]
                              /\ v.status = "CANCELLED" => asked[r]
  <2>1. CASE Agent!Settle(r)
    <3>1. PICK v \in Agent!Verdicts : agent' = [agent EXCEPT ![r] = v]
      BY <2>1 DEF Agent!Settle
    <3>2. v \in Agent!Rows /\ v.status # "CANCELLED"
      BY DEF Agent!Rows, Agent!Verdicts
    <3> QED BY <3>1, <3>2
  <2>2. CASE ~Agent!Settle(r)
    <3>1. PICK s \in {"QUEUED", "RUNNING", "CANCELLED"} :
            /\ Agent!Set(r, s, FALSE)
            /\ s = "CANCELLED" => asked[r]
      BY <2>2 DEF Agent!Accept, Agent!Work, Agent!Stop
    <3> DEFINE v == [status |-> s, rec |-> FALSE]
    <3>2. v \in Agent!Rows /\ v.status = s
      BY DEF Agent!Rows
    <3>3. agent' = [agent EXCEPT ![r] = v]
      BY <3>1 DEF Agent!Set
    <3> QED BY <3>1, <3>2, <3>3
  <2> QED BY <2>1, <2>2
<1>4. AgentIsLawful(agent', asked')
  BY <1>1, <1>3 DEF AgentIsLawful
<1>5. ASSUME NEW q \in Requests, agent[q].status \in Successes, ~asked'[q]
      PROVE  agent'[q] = agent[q]
  <2>1. q # r
    BY <1>1, <1>2, <1>5 DEF Agent!Stop
  <2> QED BY <1>1, <1>3, <2>1 DEF AgentIsLawful
<1> QED BY <1>1, <1>4, <1>5 DEF Grows

-----------------------------------------------------------------------------
(* The handlers' steps.                                                    *)

\* h goes where it need not know of the agent, and no row and no trip changes.
Forgets(h) ==
  /\ handler' \in [Handlers -> Handler]
  /\ \A g \in Handlers \ {h} : handler'[g] = handler[g]
  /\ handler'[h].pc \notin KnowingPCs
  /\ UNCHANGED <<agent, asked>>

LEMMA HandlerKnows ==
  ASSUME ReflectInv, NEW h \in Handlers, UNCHANGED <<agent, asked>>,
         \A g \in Handlers \ {h} : handler'[g] = handler[g],
         Knows(handler'[h], agent, asked)
  PROVE  /\ AgentIsLawful(agent', asked')
         /\ \A g \in Handlers : Knows(handler'[g], agent', asked')
BY DEF ReflectInv

LEMMA ForgetsKnows ==
  ASSUME NEW h \in Handlers, Forgets(h) PROVE Knows(handler'[h], agent, asked)
BY DEF Forgets, Knows, KnowingPCs

LEMMA Forgetting ==
  ASSUME Inv, Inv', NEW h \in Handlers,
         \/ BeginStart(h) \/ Lookup(h) \/ LookupTable(h) \/ Replay(h) \/ Insert(h)
         \/ InsertRejected(h) \/ Remember(h) \/ Submit(h) \/ SubmitAccepted(h) \/ SubmitFails(h)
         \/ MarkFailed(h) \/ MarkQueued(h) \/ PointRequest(h) \/ AskUnanswered(h)
         \/ SyncNothing(h) \/ PointRec(h) \/ Say(h) \/ ReadCount(h) \/ WriteCount(h)
         \/ ForwardFails(h) \/ MarkCancelled(h) \/ GiveUp(h) \/ Return(h) \/ Die(h)
         \/ \E r \in Requests : BeginPoll(h, r) \/ BeginWatch(h, r)
  PROVE  Forgets(h)
<1>1. handler \in [Handlers -> Handler] /\ handler' \in [Handlers -> Handler]
  BY DEF Inv, TypeOK
<1>2. UNCHANGED <<agent, asked>>
  BY DEF BeginStart, Lookup, LookupTable, Replay, Insert, InsertRejected, Remember, Submit,
       SubmitAccepted, SubmitFails, MarkFailed, MarkQueued, PointRequest, AskUnanswered,
       SyncNothing, PointRec, Say, ReadCount, WriteCount, ForwardFails, MarkCancelled, GiveUp,
       Return, Die, BeginPoll, BeginWatch, agentVars
<1>3. PICK k \in Handler : k = handler[h]
  BY <1>1
<1>4. CASE \E p \in PCs \ KnowingPCs : Goto(h, p)
  BY <1>1, <1>2, <1>4 DEF Goto, Forgets, Handler
<1>5. CASE \E code \in Codes : Answer(h, code)
  BY <1>1, <1>2, <1>5 DEF Answer, Forgets, Handler, KnowingPCs
<1>6. ASSUME NEW l, handler' = [handler EXCEPT ![h] = l], l.pc \notin KnowingPCs
      PROVE  Forgets(h)
  BY <1>1, <1>2, <1>6 DEF Forgets
<1>7. CASE Return(h) \/ Die(h)
  BY <1>6, <1>7 DEF Return, Die, KnowingPCs, Idle
<1>8. CASE BeginStart(h)
  <2>1. PICK offer \in Offers :
          handler' = [handler EXCEPT ![h] =
            [Idle EXCEPT !.pc = IF offer[1] = None THEN "insert" ELSE "lookup",
                         !.key = offer[1], !.payload = offer[2]]]
    BY <1>8 DEF BeginStart
  <2> DEFINE l == [Idle EXCEPT !.pc = IF offer[1] = None THEN "insert" ELSE "lookup",
                               !.key = offer[1], !.payload = offer[2]]
  <2>2. handler' = [handler EXCEPT ![h] = l]
    BY <2>1
  <2>3. l.pc \notin KnowingPCs
    BY DEF KnowingPCs, Idle
  <2> HIDE DEF l
  <2> QED BY <1>6, <2>2, <2>3
<1>9. ASSUME NEW r \in Requests, BeginPoll(h, r) \/ BeginWatch(h, r) PROVE Forgets(h)
  BY <1>6, <1>9 DEF BeginPoll, BeginWatch, KnowingPCs, Idle
<1>10. CASE Lookup(h) \/ ReadCount(h)
  BY <1>1, <1>2, <1>10 DEF Lookup, ReadCount, Forgets, Handler, KnowingPCs
<1>11. CASE LookupTable(h)
  <2>1. CASE Goto(h, "insert")
    BY <1>4, <2>1 DEF PCs, KnowingPCs
  <2>2. CASE \E r \in Requests :
               handler' = [handler EXCEPT ![h].pc = "replay", ![h].req = r]
    BY <1>1, <1>2, <2>2 DEF Forgets, Handler, KnowingPCs
  <2> QED BY <1>11, <2>1, <2>2 DEF LookupTable, RowsOf
<1>12. CASE Insert(h)
  <2>1. PICK l \in Handler : handler' = [handler EXCEPT ![h] = l] /\ l.pc \in {"submit", "remember"}
    BY <1>12, InsertStep
  <2> QED BY <1>6, <2>1 DEF KnowingPCs
<1>13. CASE PointRequest(h) \/ PointRec(h)
  <2>1. CASE \E role \in Roles :
               handler' = [handler EXCEPT ![h].pc = "say", ![h].role = role]
    BY <1>1, <1>2, <2>1 DEF Forgets, Handler, KnowingPCs
  <2> QED BY <1>5, <1>13, <2>1 DEF PointRequest, PointRec, Roles, Codes
<1>14. CASE \/ Replay(h) \/ InsertRejected(h) \/ Remember(h) \/ Submit(h) \/ SubmitAccepted(h)
           \/ SubmitFails(h) \/ MarkFailed(h) \/ MarkQueued(h) \/ AskUnanswered(h)
           \/ SyncNothing(h) \/ Say(h) \/ WriteCount(h) \/ ForwardFails(h) \/ MarkCancelled(h)
           \/ GiveUp(h)
  BY <1>4, <1>5, <1>14 DEF Replay, InsertRejected, Remember, Submit, SubmitAccepted, SubmitFails,
       MarkFailed, MarkQueued, AskUnanswered, SyncNothing, Say, WriteCount, ForwardFails,
       MarkCancelled, GiveUp, KnowingPCs, PCs, Codes
<1> QED BY <1>7, <1>8, <1>9, <1>10, <1>11, <1>12, <1>13, <1>14

\* What a step leaves to be shown that only moves h, beside what it does to rows and trip.
LEMMA StepKnows ==
  ASSUME Inv, Inv', ReflectInv, NEW h \in Handlers,
         \/ QuietStep(h) \/ WriteStep(h) \/ Insert(h), ~Forward(h)
  PROVE  /\ UNCHANGED <<agent, asked>>
         /\ AgentIsLawful(agent', asked')
         /\ \A g \in Handlers : Knows(handler'[g], agent', asked')
<1>1. handler \in [Handlers -> Handler] /\ Sound(handler[h], row) /\ Knows(handler[h], agent, asked)
  BY DEF Inv, TypeOK, ReflectInv
<1>2. PICK k \in Handler : k = handler[h]
  BY <1>1
<1>3. AgentIsLawful(agent, asked)
  BY DEF ReflectInv
<1>4. SUFFICES /\ UNCHANGED <<agent, asked>>
               /\ \A g \in Handlers \ {h} : handler'[g] = handler[g]
               /\ Knows(handler'[h], agent, asked)
  BY HandlerKnows
<1>5. CASE Forgets(h)
  BY <1>5, ForgetsKnows DEF Forgets
<1>6. CASE AskAgent(h)
  <2> DEFINE l == [k EXCEPT !.pc = "sync", !.reply = agent[k.req]]
  <2>1. k.req \in Requests
    BY <1>1, <1>2, <1>6 DEF AskAgent, At, Sound
  <2>2. agent[k.req] \in Agent!Rows
    BY <1>3, <2>1 DEF AgentIsLawful
  <2>3. l.pc = "sync" /\ l.reply = agent[k.req] /\ l.req = k.req
    BY DEF Handler
  <2>4. handler' = [handler EXCEPT ![h] = l]
    BY <1>1, <1>2, <1>6 DEF AskAgent
  <2> HIDE DEF l
  <2>5. Reflects(l.reply.status, l.reply.rec, agent[l.req], asked[l.req])
    BY <1>3, <2>1, <2>2, <2>3, RowsOfAgent DEF Reflects, AgentIsLawful
  <2>6. Knows(l, agent, asked)
    BY <2>1, <2>2, <2>3, <2>5 DEF Knows
  <2> QED BY <1>1, <1>6, <2>4, <2>6 DEF AskAgent, agentVars
<1>7. CASE Sync(h)
  <2>1. k.pc = "sync" /\ UNCHANGED <<agent, asked>>
    BY <1>2, <1>7 DEF Sync, At, agentVars
  <2>2. k.req \in Requests /\ k.reply \in Agent!Rows
        /\ Reflects(k.reply.status, k.reply.rec, agent[k.req], asked[k.req])
    BY <1>1, <1>2, <2>1 DEF Knows, KnowingPCs
  <2>3. CASE k.reply.rec
    <3> DEFINE l == [k EXCEPT !.pc = "point_rec"]
    <3>1. handler' = [handler EXCEPT ![h] = l]
      BY <1>1, <1>2, <1>7, <2>3 DEF Sync, Goto
    <3>2. l.pc = "point_rec" /\ l.req = k.req
      BY DEF Handler
    <3> HIDE DEF l
    <3>3. asked[k.req] \/ agent[k.req].rec
      BY <2>2, <2>3, RowsOfAgent DEF Reflects
    <3>4. Knows(l, agent, asked)
      BY <2>2, <3>2, <3>3 DEF Knows
    <3> QED BY <1>1, <2>1, <3>1, <3>4
  <2>4. CASE ~k.reply.rec
    <3>1. Answer(h, "ok")
      BY <1>2, <1>7, <2>4 DEF Sync
    <3>2. handler'[h].pc = "answered" /\ \A g \in Handlers \ {h} : handler'[g] = handler[g]
      BY <1>1, <3>1 DEF Answer, Handler
    <3> QED BY <2>1, <3>2 DEF Knows, KnowingPCs
  <2> QED BY <2>3, <2>4
<1>8. CASE \E r \in Requests : BeginCancel(h, r)
  <2>1. PICK r \in Requests : BeginCancel(h, r)
    BY <1>8
  <2>2. handler'[h].pc \in {"answered", "forward"} /\ handler'[h].req = r
        /\ \A g \in Handlers \ {h} : handler'[g] = handler[g]
    BY <1>1, <2>1 DEF BeginCancel, Idle
  <2> QED BY <2>1, <2>2 DEF Knows, KnowingPCs, BeginCancel, agentVars
<1>9. CASE Forwarded(h)
  <2>1. k.req \in Requests /\ asked[k.req]
    BY <1>1, <1>2, <1>9 DEF Forwarded, At, Knows, KnowingPCs
  <2>2. handler'[h].pc \in {"answered", "mark_cancelled"} /\ handler'[h].req = k.req
        /\ \A g \in Handlers \ {h} : handler'[g] = handler[g]
    BY <1>1, <1>2, <1>9 DEF Forwarded, Answer, Goto, Handler
  <2> QED BY <1>9, <2>1, <2>2 DEF Knows, KnowingPCs, Forwarded, agentVars
<1> QED BY <1>5, <1>6, <1>7, <1>8, <1>9, Forgetting DEF QuietStep, WriteStep

\* A row takes a success or a cancellation only from an answer or a request of its own.
LEMMA StepRows ==
  ASSUME Inv, ReflectInv, NEW h \in Handlers, WriteStep(h) \/ Insert(h)
  PROVE  RowsReflect(row', agent, asked)
<1>1. handler \in [Handlers -> Handler] /\ Knows(handler[h], agent, asked)
      /\ row \in [Requests -> Row]
  BY DEF Inv, TypeOK, ReflectInv
<1>2. PICK k \in Handler : k = handler[h]
  BY <1>1
<1>3. ASSUME NEW r \in Requests
      PROVE  Reflects(row[r].status, row[r].rec, agent[r], asked[r])
  BY DEF ReflectInv, RowsReflect
<1> SUFFICES ASSUME NEW r \in Requests
             PROVE  Reflects(row'[r].status, row'[r].rec, agent[r], asked[r])
  BY DEF RowsReflect
<1>4. PICK o \in Row : o = row[r]
  BY <1>1
<1>5. CASE row'[r] = row[r]
  BY <1>3, <1>5
<1>6. ASSUME NEW s \in {"FAILED", "QUEUED", "CANCELLED"}, SetStatus(k.req, s),
             s = "CANCELLED" /\ k.req \in Requests => asked[k.req]
      PROVE  Reflects(row'[r].status, row'[r].rec, agent[r], asked[r])
  <2>1. CASE r # k.req
    BY <1>1, <1>5, <1>6, <2>1 DEF SetStatus
  <2>2. CASE r = k.req
    <3>1. row'[r] = [o EXCEPT !.status = s]
      BY <1>1, <1>4, <1>6, <2>2 DEF SetStatus
    <3>2. row'[r].status = s
      BY <3>1 DEF Row
    <3> QED BY <1>6, <2>2, <3>2 DEF Reflects, Successes
  <2> QED BY <2>1, <2>2
<1>7. CASE MarkFailed(h) \/ MarkQueued(h) \/ GiveUp(h)
  BY <1>2, <1>6, <1>7 DEF MarkFailed, MarkQueued, GiveUp
<1>8. CASE MarkCancelled(h)
  <2>1. k.pc = "mark_cancelled" /\ SetStatus(k.req, "CANCELLED")
    BY <1>2, <1>8 DEF MarkCancelled, At
  <2>2. asked[k.req]
    BY <1>1, <1>2, <2>1 DEF Knows
  <2> QED BY <1>6, <2>1, <2>2
<1>9. CASE Sync(h)
  <2>1. k.pc = "sync" /\ row' = [row EXCEPT ![k.req].status = k.reply.status,
                                           ![k.req].rec = k.reply.rec]
    BY <1>2, <1>9 DEF Sync, At
  <2>2. Reflects(k.reply.status, k.reply.rec, agent[k.req], asked[k.req])
    BY <1>1, <1>2, <2>1 DEF Knows
  <2>3. CASE r # k.req
    BY <1>1, <1>5, <2>1, <2>3
  <2>4. CASE r = k.req
    <3>1. row'[r] = [o EXCEPT !.status = k.reply.status, !.rec = k.reply.rec]
      BY <1>1, <1>4, <2>1, <2>4
    <3>2. row'[r].status = k.reply.status /\ row'[r].rec = k.reply.rec
      BY <3>1 DEF Row
    <3> QED BY <2>2, <2>4, <3>2
  <2> QED BY <2>3, <2>4
<1>10. CASE Insert(h)
  <2>1. PICK q \in Unused :
          row' = [row EXCEPT ![q] = [status |-> "CREATED", rec |-> FALSE,
                                     key |-> handler[h].key, payload |-> handler[h].payload]]
    BY <1>10, InsertStep
  <2>2. row'[r] = row[r] \/ row'[r].status = "CREATED"
    BY <1>1, <2>1
  <2> QED BY <1>5, <2>2 DEF Reflects, Successes
<1> QED BY <1>7, <1>8, <1>9, <1>10 DEF WriteStep

LEMMA StepTrip ==
  ASSUME Inv, ReflectInv, NEW h \in Handlers,
         QuietStep(h) \/ WriteStep(h) \/ Insert(h)
  PROVE  TripReflects(trip', agent, asked)
<1>1. trip \in [request : Opt(Requests), rec : Opt(Requests)]
  BY DEF Inv, TypeOK
<1>2. TripReflects(trip, agent, asked) /\ Knows(handler[h], agent, asked)
  BY DEF ReflectInv
<1>3. CASE PointRec(h)
  <2>1. trip'.rec = handler[h].req /\ handler[h].pc = "point_rec"
    BY <1>1, <1>3 DEF PointRec, At
  <2> QED BY <1>2, <2>1 DEF Knows, TripReflects
<1>4. CASE PointRequest(h)
  BY <1>1, <1>2, <1>4 DEF PointRequest, TripReflects
<1>5. CASE ~PointRec(h) /\ ~PointRequest(h)
  <2>1. trip' = trip
    BY <1>5 DEF QuietStep, WriteStep, BeginStart, Lookup, LookupTable, Replay, Insert,
         InsertRejected, Remember, Submit, SubmitAccepted, SubmitFails, AskAgent, AskUnanswered,
         SyncNothing, Say, ReadCount, WriteCount, Forward, ForwardFails, Forwarded, Return, Die,
         BeginPoll, BeginCancel, BeginWatch, MarkFailed, MarkQueued, Sync, MarkCancelled, GiveUp
  <2> QED BY <1>2, <2>1
<1> QED BY <1>3, <1>4, <1>5

\* The request to cancel is recorded before its handler relies on it.
LEMMA ForwardReflects ==
  ASSUME Inv, ReflectInv, NEW h \in Handlers, Forward(h)
  PROVE  ReflectInv'
<1>1. handler \in [Handlers -> Handler] /\ Knows(handler[h], agent, asked)
      /\ AgentIsLawful(agent, asked)
  BY DEF Inv, TypeOK, ReflectInv
<1>2. PICK k \in Handler : k = handler[h]
  BY <1>1
<1>3. k.req \in Requests /\ agent' = agent /\ asked' = [asked EXCEPT ![k.req] = TRUE]
      /\ row' = row /\ trip' = trip
  BY <1>1, <1>2 DEF Forward, At, Knows, KnowingPCs, Agent!AskCancel
<1>4. Grows(agent, asked, agent', asked')
  BY <1>1, <1>3 DEF Grows, AgentIsLawful
<1>5. RowsReflect(row', agent', asked')
  <2>1. ASSUME NEW r \in Requests
        PROVE  Reflects(row[r].status, row[r].rec, agent'[r], asked'[r])
    BY <1>4, ReflectsGrows DEF ReflectInv, RowsReflect
  <2> QED BY <1>3, <2>1 DEF RowsReflect
<1>6. TripReflects(trip', agent', asked')
  BY <1>1, <1>3, <1>4, RecGrows DEF ReflectInv, TripReflects
<1>7. ASSUME NEW g \in Handlers PROVE Knows(handler'[g], agent', asked')
  <2>1. CASE g = h
    <3>1. handler'[g].pc = "forwarded" /\ handler'[g].req = k.req
      BY <1>1, <1>2, <2>1 DEF Forward, Goto, Handler
    <3>2. asked'[k.req]
      BY <1>1, <1>3 DEF AgentIsLawful
    <3> QED BY <1>3, <3>1, <3>2 DEF Knows
  <2>2. CASE g # h
    <3>1. handler'[g] = handler[g]
      BY <1>1, <2>2 DEF Forward, Goto
    <3>2. Knows(handler[g], agent, asked)
      BY DEF ReflectInv
    <3> QED BY <1>1, <1>4, <3>1, <3>2, KnowsGrows
  <2> QED BY <2>1, <2>2
<1> QED BY <1>4, <1>5, <1>6, <1>7 DEF ReflectInv, Grows

LEMMA NextReflects == Inv /\ ReflectInv /\ [Next]_vars => ReflectInv'
<1> SUFFICES ASSUME Inv, ReflectInv, [Next]_vars PROVE ReflectInv'
  OBVIOUS
<1>1. Inv'
  BY NextInv
<1>2. ASSUME NEW h \in Handlers, QuietStep(h) \/ WriteStep(h) \/ Insert(h), ~Forward(h)
      PROVE  ReflectInv'
  <2>1. /\ UNCHANGED <<agent, asked>>
        /\ AgentIsLawful(agent', asked')
        /\ \A g \in Handlers : Knows(handler'[g], agent', asked')
    BY <1>1, <1>2, StepKnows
  <2>2. RowsReflect(row', agent, asked)
    <3>1. CASE QuietStep(h)
      BY <3>1, QuietMoves DEF ReflectInv
    <3>2. CASE WriteStep(h) \/ Insert(h)
      BY <3>2, StepRows
    <3> QED BY <1>2, <3>1, <3>2
  <2>3. TripReflects(trip', agent, asked)
    BY <1>2, StepTrip
  <2> QED BY <2>1, <2>2, <2>3 DEF ReflectInv
<1>3. ASSUME NEW h \in Handlers, Forward(h) PROVE ReflectInv'
  BY <1>3, ForwardReflects
<1>4. ASSUME NEW r \in Requests, AgentWorks(r) \/ AgentStops(r) PROVE ReflectInv'
  BY <1>4, AgentGrows, GrowKeeps DEF AgentWorks, AgentStops
<1>5. CASE UNCHANGED <<row, trip, handler, agent, asked>>
  BY <1>5 DEF ReflectInv
<1>6. CASE \/ \E k \in Keys : ExpireKey(k)
           \/ \E r \in Requests : LosePost(r)
           \/ UNCHANGED vars
  BY <1>5, <1>6 DEF ExpireKey, LosePost, agentVars, vars
<1>7. \/ \E h \in Handlers : QuietStep(h) \/ WriteStep(h) \/ Insert(h)
      \/ \E r \in Requests : AgentWorks(r) \/ AgentStops(r)
      \/ \E k \in Keys : ExpireKey(k)
      \/ \E r \in Requests : LosePost(r)
      \/ UNCHANGED vars
  BY DEF Next, QuietStep, WriteStep, HandlerStep, StartStep, PollStep, CancelStep
<1> QED BY <1>2, <1>3, <1>4, <1>6, <1>7

\* The row of a request invents nothing: a success that nobody cancelled is the agent's,
\* with its recommendation; a cancellation was asked for; a trip points at the
\* recommendation of a run that had one.  However late a handler writes what it read.
THEOREM ReflectsCorrect == Spec => []RowReflectsAgent
<1>1. ReflectInv => RowReflectsAgent
  BY DEF ReflectInv, RowsReflect, TripReflects, Reflects, Successes, RowReflectsAgent
<1>2. Init => ReflectInv
  BY InitReflects
<1>3. Inv /\ ReflectInv /\ [Next]_vars => ReflectInv'
  BY NextReflects
<1> QED BY <1>1, <1>2, <1>3, AlwaysInv, PTL DEF Spec
=============================================================================
