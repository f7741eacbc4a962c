--------------------------- MODULE AgentRunProofs ---------------------------
(***************************************************************************)
(* Proofs about AgentRun, for any runs, cancel handlers, requests, budgets *)
(* and faults.                                                             *)
(***************************************************************************)
EXTENDS AgentRun, TLAPS

LEMMA InitTypeOK == Init => TypeOK
<1> SUFFICES ASSUME Init PROVE TypeOK
  OBVIOUS
<1>1. InitialState \in RunDict /\ InitialGraph \in GraphDict /\ NoRow \in Row
  BY DEF InitialState, InitialGraph, NoRow, RunDict, GraphDict, Row, Opt, Statuses
<1>2. events \in [Runs -> Seq(Event)]
  BY DEF Init
<1> QED BY <1>1, <1>2 DEF Init, TypeOK, Opt, PCs

\* Publishing an event of the right type keeps the stream and the counter typed.
LEMMA PublishType ==
  ASSUME TypeOK, NEW r \in Runs, NEW type \in EventTypes, NEW status \in Statuses,
         NEW rec \in Opt(Recommendation), Publish(r, type, status, rec)
  PROVE  events' \in [Runs -> Seq(Event)] /\ counter' \in [Runs -> Nat]
<1>1. counter' \in [Runs -> Nat]
  BY DEF TypeOK, Publish
<1> DEFINE e == [id |-> counter[r] + 1, type |-> type, status |-> status, rec |-> rec]
<1>2. e \in Event
  BY DEF TypeOK, Event
<1>3. Append(events[r], e) \in Seq(Event)
  BY <1>2 DEF TypeOK
<1>4. events' \in [Runs -> Seq(Event)]
  BY <1>3 DEF TypeOK, Publish
<1> QED BY <1>1, <1>4

\* Saving a typed row keeps the store typed, whether or not the write is lost.
LEMMA SaveType ==
  ASSUME TypeOK, NEW r \in Runs, NEW status \in Statuses, NEW snap \in Opt(Snapshot),
         NEW rec \in Opt(Recommendation), Save(r, status, snap, rec)
  PROVE  stored' \in [Runs -> Row] /\ latest' \in Opt(Runs)
<1> DEFINE row == [status |-> status, snap |-> snap, rec |-> rec]
<1>1. row \in Row /\ r \in Opt(Runs)
  BY DEF Row, Opt
<1>2. CASE SaveRun(r, row)
  BY <1>1, <1>2 DEF TypeOK, SaveRun
<1>3. CASE UNCHANGED <<stored, latest>>
  BY <1>3 DEF TypeOK
<1> QED BY <1>2, <1>3 DEF Save

LEMMA PCNames ==
  PCs = {"absent", "done", "lost", "accepted", "registered", "launched", "marked_running",
         "failing", "closing", "announced", "saving", "validate_input", "classify_intent",
         "check_required_fields", "fetch_external_data", "integrate_data", "build_evidence",
         "make_decision", "format_recommendation", "returned"}
BY DEF PCs, StartPCs, TaskPCs, TryPCs, OutsidePCs, GraphPCs, Nodes, ToolNodes

LEMMA NoneIsOptional == None \in Opt(Recommendation) /\ None \in Opt(Snapshot)
BY DEF Opt

\* A status of the right type keeps the dicts typed.
LEMMA SetStatus ==
  ASSUME TypeOK, NEW r \in Runs, NEW s \in Statuses
  PROVE  [state EXCEPT ![r].status = s] \in [Runs -> RunDict]
<1>1. state[r] \in RunDict /\ state \in [Runs -> RunDict]
  BY DEF TypeOK
<1>2. [state[r] EXCEPT !.status = s] \in RunDict
  BY <1>1 DEF RunDict
<1> QED BY <1>1, <1>2

\* The two ways a run's coroutine fails keep the state typed but for graph.
LEMMA FailType ==
  ASSUME TypeOK, NEW r \in Runs, graph' \in [Runs -> GraphDict], Fail(r)
  PROVE  TypeOK'
<1>1. events' \in [Runs -> Seq(Event)] /\ counter' \in [Runs -> Nat]
  BY PublishType, NoneIsOptional DEF Fail, EventTypes, TerminalEvents, Statuses
<1>2. state' \in [Runs -> RunDict]
  BY SetStatus DEF Fail, Statuses
<1> QED BY <1>1, <1>2, PCNames DEF Fail, Goto, TypeOK

LEMMA StopCancelledType ==
  ASSUME TypeOK, NEW r \in Runs, graph' \in [Runs -> GraphDict], StopCancelled(r)
  PROVE  TypeOK'
<1>1. stored' \in [Runs -> Row] /\ latest' \in Opt(Runs)
  BY SaveType, NoneIsOptional DEF StopCancelled, TypeOK, RunDict, Statuses
<1>2. state' \in [Runs -> RunDict]
  BY SetStatus DEF StopCancelled, Statuses
<1> QED BY <1>1, <1>2, PCNames DEF StopCancelled, Goto, TypeOK

\* Replacing r's graph dict by a typed one, counting a step or a tool call.
LEMMA GraphType ==
  ASSUME TypeOK, NEW r \in Runs, NEW g \in GraphDict, graph' = [graph EXCEPT ![r] = g]
  PROVE  graph' \in [Runs -> GraphDict]
BY DEF TypeOK

\* What every run has collected in its graph dict stays.
KeepsEvidence ==
  \A q \in Runs : /\ graph'[q].snap = graph[q].snap
                  /\ graph'[q].pkg = graph[q].pkg
                  /\ graph'[q].decision = graph[q].decision
                  /\ graph'[q].rec = graph[q].rec

LEMMA EvidenceKept ==
  ASSUME TypeOK, NEW r \in Runs, NEW h, graph' = [graph EXCEPT ![r] = h],
         h.snap = graph[r].snap, h.pkg = graph[r].pkg, h.decision = graph[r].decision,
         h.rec = graph[r].rec
  PROVE  KeepsEvidence
BY DEF TypeOK, KeepsEvidence

LEMMA StepCounted ==
  ASSUME TypeOK, NEW r \in Runs, graph' = [graph EXCEPT ![r].steps = @ + 1]
  PROVE  graph' \in [Runs -> GraphDict] /\ KeepsEvidence
<1>1. PICK g \in GraphDict : g = graph[r]
  BY DEF TypeOK
<1> DEFINE h == [g EXCEPT !.steps = @ + 1]
<1>2. h \in GraphDict
  BY DEF GraphDict
<1>3. h.snap = g.snap /\ h.pkg = g.pkg /\ h.decision = g.decision /\ h.rec = g.rec
  BY DEF GraphDict
<1>4. graph' = [graph EXCEPT ![r] = h]
  BY <1>1 DEF TypeOK
<1> QED BY <1>1, <1>2, <1>3, <1>4, GraphType, EvidenceKept

LEMMA CallCounted ==
  ASSUME TypeOK, NEW r \in Runs, graph' = [graph EXCEPT ![r].tools = @ + 1]
  PROVE  graph' \in [Runs -> GraphDict] /\ KeepsEvidence
<1>1. PICK g \in GraphDict : g = graph[r]
  BY DEF TypeOK
<1> DEFINE h == [g EXCEPT !.tools = @ + 1]
<1>2. h \in GraphDict
  BY DEF GraphDict
<1>3. h.snap = g.snap /\ h.pkg = g.pkg /\ h.decision = g.decision /\ h.rec = g.rec
  BY DEF GraphDict
<1>4. graph' = [graph EXCEPT ![r] = h]
  BY <1>1 DEF TypeOK
<1> QED BY <1>1, <1>2, <1>3, <1>4, GraphType, EvidenceKept

LEMMA EnteredSet ==
  ASSUME TypeOK, NEW r \in Runs, NEW b \in BOOLEAN, graph' = [graph EXCEPT ![r].entered = b]
  PROVE  graph' \in [Runs -> GraphDict] /\ KeepsEvidence
<1>1. PICK g \in GraphDict : g = graph[r]
  BY DEF TypeOK
<1> DEFINE h == [g EXCEPT !.entered = b]
<1>2. h \in GraphDict
  BY DEF GraphDict
<1>3. h.snap = g.snap /\ h.pkg = g.pkg /\ h.decision = g.decision /\ h.rec = g.rec
  BY DEF GraphDict
<1>4. graph' = [graph EXCEPT ![r] = h]
  BY <1>1 DEF TypeOK
<1> QED BY <1>1, <1>2, <1>3, <1>4, GraphType, EvidenceKept

LEMMA ReuseSet ==
  ASSUME TypeOK, NEW r \in Runs, NEW b \in BOOLEAN, graph' = [graph EXCEPT ![r].reuse = b]
  PROVE  graph' \in [Runs -> GraphDict] /\ KeepsEvidence
<1>1. PICK g \in GraphDict : g = graph[r]
  BY DEF TypeOK
<1> DEFINE h == [g EXCEPT !.reuse = b]
<1>2. h \in GraphDict
  BY DEF GraphDict
<1>3. h.snap = g.snap /\ h.pkg = g.pkg /\ h.decision = g.decision /\ h.rec = g.rec
  BY DEF GraphDict
<1>4. graph' = [graph EXCEPT ![r] = h]
  BY <1>1 DEF TypeOK
<1> QED BY <1>1, <1>2, <1>3, <1>4, GraphType, EvidenceKept

LEMMA StatusSet ==
  ASSUME TypeOK, NEW r \in Runs, NEW s \in Statuses, graph' = [graph EXCEPT ![r].status = s]
  PROVE  graph' \in [Runs -> GraphDict] /\ KeepsEvidence
<1>1. PICK g \in GraphDict : g = graph[r]
  BY DEF TypeOK
<1> DEFINE h == [g EXCEPT !.status = s]
<1>2. h \in GraphDict
  BY DEF GraphDict
<1>3. h.snap = g.snap /\ h.pkg = g.pkg /\ h.decision = g.decision /\ h.rec = g.rec
  BY DEF GraphDict
<1>4. graph' = [graph EXCEPT ![r] = h]
  BY <1>1 DEF TypeOK
<1> QED BY <1>1, <1>2, <1>3, <1>4, GraphType, EvidenceKept

\* An accepted answer keeps the state typed, whatever typed results g it brings.
LEMMA AcceptType ==
  ASSUME TypeOK, NEW r \in Runs, NEW next \in PCs, NEW g \in GraphDict,
         NEW degraded \in BOOLEAN, Accept(r, next, g, degraded)
  PROVE  TypeOK'
<1>1. events' \in [Runs -> Seq(Event)] /\ counter' \in [Runs -> Nat]
  <2>1. CASE Publish(r, "degraded", "RUNNING", None)
    BY <2>1, PublishType, NoneIsOptional DEF EventTypes, Statuses
  <2>2. CASE UNCHANGED <<events, counter>>
    BY <2>2 DEF TypeOK
  <2> QED BY <2>1, <2>2 DEF Accept
<1>2. graph' \in [Runs -> GraphDict]
  <2>1. PICK n \in Nat : n = g.tools + 1
    BY DEF GraphDict
  <2>2. [g EXCEPT !.entered = FALSE, !.tools = n, !.degraded = @ \/ degraded] \in GraphDict
    BY DEF GraphDict
  <2> QED BY <2>1, <2>2, GraphType DEF Accept
<1> QED BY <1>1, <1>2 DEF Accept, Goto, TypeOK

LEMMA RejectType ==
  ASSUME TypeOK, NEW r \in Runs, Reject(r)
  PROVE  TypeOK'
BY CallCounted, FailType DEF Reject

\* Each step of a run keeps the state typed.
LEMMA RunStepType ==
  ASSUME TypeOK, NEW r \in Runs, RunStep(r)
  PROVE  TypeOK'
<1> USE PCNames, NoneIsOptional
<1>1. CASE Start(r)
  <2>1. Carried(r) \in Opt(Snapshot)
    BY <1>1 DEF Carried, TypeOK, Row, Opt
  <2>2. state' \in [Runs -> RunDict]
    BY <1>1, <2>1 DEF Start, TypeOK, RunDict
  <2>3. events' \in [Runs -> Seq(Event)] /\ counter' \in [Runs -> Nat]
    BY <1>1, PublishType DEF Start, EventTypes, Statuses
  <2> QED BY <1>1, <2>2, <2>3 DEF Start, Goto, TypeOK
<1>2. CASE Register(r)
  <2>1. stored' \in [Runs -> Row] /\ latest' \in Opt(Runs)
    BY <1>2, SaveType DEF Register, TypeOK, RunDict
  <2> QED BY <1>2, <2>1 DEF Register, Goto, TypeOK
<1>3. CASE Launch(r)
  BY <1>3 DEF Launch, Goto, TypeOK
<1>4. CASE MarkRunning(r)
  <2>1. stored' \in [Runs -> Row] /\ latest' \in Opt(Runs)
    BY <1>4, SaveType DEF MarkRunning, TypeOK, RunDict, Statuses
  <2>2. state' \in [Runs -> RunDict]
    BY <1>4, SetStatus DEF MarkRunning, Statuses
  <2> QED BY <1>4, <2>1, <2>2 DEF MarkRunning, Goto, TypeOK
<1>5. CASE Invoke(r)
  <2>1. graph' \in [Runs -> GraphDict]
    <3> DEFINE g == [graph[r] EXCEPT !.snap = state[r].snap, !.status = state[r].status]
    <3>1. state[r] \in RunDict /\ graph[r] \in GraphDict
      BY DEF TypeOK
    <3>2. g \in GraphDict
      BY <3>1 DEF GraphDict, RunDict
    <3>3. graph' = [graph EXCEPT ![r] = g]
      BY <1>5 DEF Invoke, TypeOK
    <3> QED BY <3>2, <3>3, GraphType
  <2> QED BY <1>5, <2>1 DEF Invoke, Goto, TypeOK
<1>6. CASE EnterNode(r)
  <2>1. graph' \in [Runs -> GraphDict]
    <3>1. PICK g \in GraphDict : g = graph[r]
      BY DEF TypeOK
    <3>2. PICK n \in Nat : n = g.steps + 1
      BY DEF GraphDict
    <3>3. [g EXCEPT !.steps = n, !.entered = TRUE] \in GraphDict
      BY DEF GraphDict
    <3>4. graph' = [graph EXCEPT ![r] = [g EXCEPT !.steps = n, !.entered = TRUE]]
      BY <1>6, <3>1, <3>2 DEF EnterNode, TypeOK
    <3> QED BY <3>3, <3>4, GraphType
  <2>2. events' \in [Runs -> Seq(Event)] /\ counter' \in [Runs -> Nat]
    BY <1>6, PublishType DEF EnterNode, EventTypes, Statuses
  <2> QED BY <1>6, <2>1, <2>2 DEF EnterNode, TypeOK
<1>7. CASE EnterCancelled(r)
  BY <1>7, StepCounted, StopCancelledType DEF EnterCancelled
<1>8. CASE EnterFails(r)
  BY <1>8, StepCounted, FailType DEF EnterFails
<1>9. CASE Validated(r)
  BY <1>9, EnteredSet DEF Validated, Goto, TypeOK
<1>10. CASE ClassifyIntent(r)
  <2>1. graph' \in [Runs -> GraphDict]
    BY <1>10, ReuseSet DEF ClassifyIntent
  <2> QED BY <1>10, <2>1 DEF ClassifyIntent, Goto, TypeOK
<1>11. CASE CheckRequiredFields(r)
  <2>1. graph' \in [Runs -> GraphDict]
    <3>1. graph' = graph \/ \E s \in Statuses : graph' = [graph EXCEPT ![r].status = s]
      BY <1>11 DEF CheckRequiredFields, Statuses
    <3> QED BY <3>1, StatusSet DEF TypeOK
  <2>2. events' \in [Runs -> Seq(Event)] /\ counter' \in [Runs -> Nat]
    <3>1. CASE Publish(r, "needs_input", "NEEDS_INPUT", None)
      BY <3>1, PublishType DEF EventTypes, Statuses
    <3>2. CASE UNCHANGED <<events, counter>>
      BY <3>2 DEF TypeOK
    <3> QED BY <1>11, <3>1, <3>2 DEF CheckRequiredFields
  <2>3. pc' \in [Runs -> PCs]
    <3>1. \E p \in PCs : pc' = [pc EXCEPT ![r] = p]
      BY <1>11, PCNames DEF CheckRequiredFields, Goto
    <3> QED BY <3>1 DEF TypeOK
  <2> QED BY <1>11, <2>1, <2>2, <2>3 DEF CheckRequiredFields, TypeOK
<1>12. CASE FetchExternalData(r)
  <2>1. graph[r] \in GraphDict
    BY DEF TypeOK
  <2> QED BY <1>12, <2>1, AcceptType DEF FetchExternalData
<1>13. CASE IntegrateData(r)
  <2>1. PICK g \in GraphDict : g = graph[r]
    BY DEF TypeOK
  <2>2. ASSUME NEW snap \in Snapshot PROVE [g EXCEPT !.snap = snap] \in GraphDict
    BY DEF GraphDict, Opt
  <2> QED BY <1>13, <2>1, <2>2, AcceptType, RejectType DEF IntegrateData
<1>14. CASE BuildEvidence(r)
  <2>1. PICK g \in GraphDict : g = graph[r]
    BY DEF TypeOK
  <2>2. ASSUME NEW pkg \in Package PROVE [g EXCEPT !.pkg = pkg] \in GraphDict
    BY DEF GraphDict, Opt
  <2> QED BY <1>14, <2>1, <2>2, AcceptType, RejectType DEF BuildEvidence
<1>15. CASE MakeDecision(r)
  <2>1. PICK g \in GraphDict : g = graph[r]
    BY DEF TypeOK
  <2>2. ASSUME NEW d \in Decision PROVE [g EXCEPT !.decision = d] \in GraphDict
    BY DEF GraphDict, Opt
  <2> QED BY <1>15, <2>1, <2>2, AcceptType, RejectType DEF MakeDecision
<1>16. CASE FormatRecommendation(r)
  <2>1. PICK g \in GraphDict : g = graph[r]
    BY DEF TypeOK
  <2>2. ASSUME NEW rec \in Recommendation, NEW s \in Statuses
        PROVE  [g EXCEPT !.rec = rec, !.status = s] \in GraphDict
    BY DEF GraphDict, Opt
  <2>3. \A partial : (IF partial \/ graph[r].degraded THEN "PARTIAL" ELSE "COMPLETED") \in Statuses
    BY DEF Statuses
  <2> QED BY <1>16, <2>1, <2>2, <2>3, AcceptType, RejectType DEF FormatRecommendation
<1>17. CASE ToolFails(r)
  <2>1. graph' \in [Runs -> GraphDict]
    <3>1. CASE graph[r].tools < MaxToolCalls
      BY <1>17, <3>1, CallCounted DEF ToolFails
    <3>2. CASE ~(graph[r].tools < MaxToolCalls)
      BY <1>17, <3>2 DEF ToolFails, TypeOK
    <3> QED BY <3>1, <3>2
  <2> QED BY <1>17, <2>1, FailType DEF ToolFails
<1>18. CASE Timeout(r)
  BY <1>18, FailType DEF Timeout, TypeOK
<1>19. CASE AnnounceResult(r)
  <2>1. graph[r].status \in Statuses /\ graph[r].rec \in Opt(Recommendation)
    BY DEF TypeOK, GraphDict
  <2>2. events' \in [Runs -> Seq(Event)] /\ counter' \in [Runs -> Nat]
    BY <1>19, <2>1, PublishType DEF AnnounceResult, EventTypes, TerminalEvents
  <2> QED BY <1>19, <2>2 DEF AnnounceResult, Goto, TypeOK
<1>20. CASE AnnounceEmergency(r)
  <2>1. graph' \in [Runs -> GraphDict]
    BY <1>20, StatusSet DEF AnnounceEmergency, Statuses
  <2>2. events' \in [Runs -> Seq(Event)]
    <3>1. ASSUME NEW id \in EmergencyIds
          PROVE  [id |-> id, type |-> "completed", status |-> "COMPLETED", rec |-> None] \in Event
      BY AgentRunAssumption DEF Event, EventTypes, TerminalEvents, Statuses
    <3>2. ASSUME NEW e \in Event PROVE Append(events[r], e) \in Seq(Event)
      BY DEF TypeOK
    <3>3. CASE UNCHANGED events
      BY <3>3 DEF TypeOK
    <3>4. ASSUME NEW id \in EmergencyIds,
                 events' = [events EXCEPT ![r] = Append(@,
                   [id |-> id, type |-> "completed", status |-> "COMPLETED", rec |-> None])]
          PROVE  events' \in [Runs -> Seq(Event)]
      <4> DEFINE e == [id |-> id, type |-> "completed", status |-> "COMPLETED", rec |-> None]
      <4>1. Append(events[r], e) \in Seq(Event)
        BY <3>1, <3>2
      <4> QED BY <3>4, <4>1 DEF TypeOK
    <3> QED BY <1>20, <3>3, <3>4 DEF AnnounceEmergency
  <2> QED BY <1>20, <2>1, <2>2 DEF AnnounceEmergency, Goto, TypeOK
<1>21. CASE SaveNeedsInput(r) \/ SaveFinal(r)
  <2>1. graph[r].status \in Statuses /\ graph[r].snap \in Opt(Snapshot)
          /\ graph[r].rec \in Opt(Recommendation)
    BY DEF TypeOK, GraphDict
  <2>2. stored' \in [Runs -> Row] /\ latest' \in Opt(Runs)
    BY <1>21, <2>1, SaveType DEF SaveNeedsInput, SaveFinal
  <2> QED BY <1>21, <2>2 DEF SaveNeedsInput, SaveFinal, Goto, TypeOK
<1>22. CASE SaveFailure(r)
  <2>1. stored' \in [Runs -> Row] /\ latest' \in Opt(Runs)
    BY <1>22, SaveType DEF SaveFailure, TypeOK, RunDict
  <2> QED BY <1>22, <2>1 DEF SaveFailure, Goto, TypeOK
<1>23. CASE Close(r)
  BY <1>23 DEF Close, Goto, TypeOK
<1>24. CASE CancelledInTry(r)
  <2>1. stored' \in [Runs -> Row] /\ latest' \in Opt(Runs)
    BY <1>24, SaveType DEF CancelledInTry, TypeOK, RunDict, Statuses
  <2>2. state' \in [Runs -> RunDict]
    BY <1>24, SetStatus DEF CancelledInTry, Statuses
  <2> QED BY <1>24, <2>1, <2>2 DEF CancelledInTry, Goto, TypeOK
<1>25. CASE CancelledOutsideTry(r)
  BY <1>25 DEF CancelledOutsideTry, Goto, TypeOK
<1> QED
  BY <1>1, <1>2, <1>3, <1>4, <1>5, <1>6, <1>7, <1>8, <1>9, <1>10, <1>11, <1>12, <1>13,
     <1>14, <1>15, <1>16, <1>17, <1>18, <1>19, <1>20, <1>21, <1>22, <1>23, <1>24, <1>25
     DEF RunStep

\* Each step of a cancel handler keeps the state typed.
LEMMA CancellerStepType ==
  ASSUME TypeOK, NEW c \in Cancellers, NEW r \in Runs, RequestCancel(c, r) \/ CancelStep(c, r)
  PROVE  TypeOK'
<1> DEFINE Handler == [pc : {"idle", "flagged", "published"}, run : Opt(Runs)]
<1>1. r \in Opt(Runs) /\ None \in Opt(Runs)
  BY DEF Opt
<1>2. CASE RequestCancel(c, r)
  <2>1. canceller' \in [Cancellers -> Handler]
    BY <1>1, <1>2 DEF RequestCancel, TypeOK
  <2> QED BY <1>2, <2>1 DEF RequestCancel, TypeOK
<1>3. CASE CancelLive(c, r)
  <2>1. canceller' \in [Cancellers -> Handler]
    BY <1>3 DEF CancelLive, TypeOK
  <2>2. events' \in [Runs -> Seq(Event)] /\ counter' \in [Runs -> Nat]
    BY <1>3, PublishType, NoneIsOptional
       DEF CancelLive, EventTypes, TerminalEvents, Statuses
  <2>3. cancelReq' \in [Runs -> BOOLEAN]
    BY <1>3 DEF CancelLive, InterruptTask, TypeOK
  <2>4. state' \in [Runs -> RunDict]
    <3>1. CASE state' = [state EXCEPT ![r].status = "CANCELLED"]
      BY <3>1, SetStatus DEF Statuses
    <3>2. CASE UNCHANGED state
      BY <3>2 DEF TypeOK
    <3> QED BY <1>3, <3>1, <3>2 DEF CancelLive
  <2>5. graph' \in [Runs -> GraphDict]
    <3>1. graph' = graph \/ graph' = [graph EXCEPT ![r].status = "CANCELLED"]
      BY <1>3 DEF CancelLive
    <3> QED BY <3>1, StatusSet DEF TypeOK, Statuses
  <2> QED BY <1>3, <2>1, <2>2, <2>3, <2>4, <2>5 DEF CancelLive, TypeOK
<1>4. CASE CancelSettled(c, r)
  <2>1. canceller' \in [Cancellers -> Handler]
    BY <1>1, <1>4 DEF CancelSettled, TypeOK
  <2>2. cancelReq' \in [Runs -> BOOLEAN]
    BY <1>4 DEF CancelSettled, InterruptTask, TypeOK
  <2> QED BY <1>4, <2>1, <2>2 DEF CancelSettled, TypeOK
<1>5. CASE SaveCancel(c, r)
  <2>1. canceller' \in [Cancellers -> Handler]
    BY <1>1, <1>5 DEF SaveCancel, TypeOK
  <2>2. /\ state[r].status \in Statuses /\ state[r].snap \in Opt(Snapshot)
        /\ graph[r].status \in Statuses /\ graph[r].snap \in Opt(Snapshot)
        /\ graph[r].rec \in Opt(Recommendation)
    BY DEF TypeOK, RunDict, GraphDict
  <2>3. stored' \in [Runs -> Row] /\ latest' \in Opt(Runs)
    BY <1>5, <2>2, SaveType, NoneIsOptional DEF SaveCancel
  <2> QED BY <1>5, <2>1, <2>3 DEF SaveCancel, TypeOK
<1> QED BY <1>2, <1>3, <1>4, <1>5 DEF CancelStep

LEMMA NextTypeOK == TypeOK /\ [Next]_vars => TypeOK'
<1> SUFFICES ASSUME TypeOK, [Next]_vars PROVE TypeOK'
  OBVIOUS
<1>1. CASE \E r \in Runs : RunStep(r)
  BY <1>1, RunStepType
<1>2. CASE \E c \in Cancellers, r \in Runs : RequestCancel(c, r) \/ CancelStep(c, r)
  BY <1>2, CancellerStepType
<1>3. CASE Crash
  BY <1>3, PCNames DEF Crash, TypeOK, Opt
<1>4. CASE UNCHANGED vars
  BY <1>4 DEF vars, TypeOK
<1> QED BY <1>1, <1>2, <1>3, <1>4 DEF Next

\* Every state a run manager can reach is typed.
THEOREM TypeCorrect == Spec => []TypeOK
BY InitTypeOK, NextTypeOK, PTL DEF Spec

-----------------------------------------------------------------------------
(***************************************************************************)
(* RecommendationIsGrounded.  The events alone are not inductive: the      *)
(* recommendation a run publishes last is bound to its trip revision by    *)
(* the evidence it collected on the way, whose every piece names the run   *)
(* or the piece before it.                                                 *)
(***************************************************************************)
OfRevision(r, snap) == snap.rev = request[r].rev

GroundedDecision(r, d) == d.req = r /\ OfRevision(r, d.snap)

GroundedRec(r, rec) ==
  /\ rec.req = r
  /\ rec.action = rec.decision.action
  /\ GroundedDecision(r, rec.decision)

EvidenceIsGrounded(r) ==
  /\ state[r].snap # None => OfRevision(r, state[r].snap)
  /\ graph[r].snap # None => OfRevision(r, graph[r].snap)
  /\ graph[r].pkg # None => OfRevision(r, graph[r].pkg.snap)
  /\ graph[r].decision # None => GroundedDecision(r, graph[r].decision)
  /\ graph[r].rec # None => GroundedRec(r, graph[r].rec)
  /\ pc[r] = "make_decision" => graph[r].pkg # None
  /\ pc[r] = "format_recommendation" => graph[r].decision # None

EventsAreGrounded(r) ==
  \A i \in DOMAIN events[r] : events[r][i].rec # None => GroundedRec(r, events[r][i].rec)

GroundedInv == \A r \in Runs : EvidenceIsGrounded(r) /\ EventsAreGrounded(r)

\* Run q's stream stays, or grows by an event that carries no recommendation.
PublishesNone(q) ==
  \/ events'[q] = events[q]
  \/ \E e \in Event : e.rec = None /\ events'[q] = Append(events[q], e)

\* What most steps leave alone in run q: its evidence; they publish no recommendation.
Harmless(q) ==
  /\ request'[q] = request[q]
  /\ state'[q].snap = state[q].snap
  /\ graph'[q].snap = graph[q].snap
  /\ graph'[q].pkg = graph[q].pkg
  /\ graph'[q].decision = graph[q].decision
  /\ graph'[q].rec = graph[q].rec
  /\ PublishesNone(q)
  /\ pc'[q] \in {"make_decision", "format_recommendation"} => pc'[q] = pc[q]

LEMMA HarmlessKeepsEvidence ==
  ASSUME NEW q \in Runs, Harmless(q), EvidenceIsGrounded(q)
  PROVE  EvidenceIsGrounded(q)'
BY DEF Harmless, EvidenceIsGrounded, OfRevision, GroundedDecision, GroundedRec

LEMMA EventsStayGrounded ==
  ASSUME TypeOK, NEW q \in Runs, request'[q] = request[q], PublishesNone(q),
         EventsAreGrounded(q)
  PROVE  EventsAreGrounded(q)'
<1>1. CASE events'[q] = events[q]
  BY <1>1 DEF EventsAreGrounded, OfRevision, GroundedDecision, GroundedRec
<1>2. CASE \E e \in Event : e.rec = None /\ events'[q] = Append(events[q], e)
  <2>1. PICK e \in Event : e.rec = None /\ events'[q] = Append(events[q], e)
    BY <1>2
  <2>2. events[q] \in Seq(Event)
    BY DEF TypeOK
  <2>3. \A i \in DOMAIN events'[q] :
          (i \in DOMAIN events[q] /\ events'[q][i] = events[q][i]) \/ events'[q][i].rec = None
    BY <2>1, <2>2
  <2> QED BY <2>3 DEF EventsAreGrounded, OfRevision, GroundedDecision, GroundedRec
<1> QED BY <1>1, <1>2 DEF PublishesNone

LEMMA HarmlessStep ==
  ASSUME TypeOK, GroundedInv, \A q \in Runs : Harmless(q)
  PROVE  GroundedInv'
BY HarmlessKeepsEvidence, EventsStayGrounded DEF GroundedInv, Harmless

\* A published event that carries no recommendation.
LEMMA PublishNone ==
  ASSUME TypeOK, NEW r \in Runs, NEW type \in EventTypes, NEW status \in Statuses,
         Publish(r, type, status, None)
  PROVE  \A q \in Runs : PublishesNone(q)
<1> DEFINE e == [id |-> counter[r] + 1, type |-> type, status |-> status, rec |-> None]
<1>1. e \in Event /\ e.rec = None
  BY NoneIsOptional DEF TypeOK, Event
<1> QED BY <1>1 DEF Publish, PublishesNone, TypeOK

\* The steps of a run that neither collect evidence nor publish a recommendation.
PlainRunStep(r) ==
  \/ Register(r) \/ Launch(r) \/ MarkRunning(r)
  \/ EnterNode(r) \/ EnterCancelled(r) \/ EnterFails(r)
  \/ Validated(r) \/ ClassifyIntent(r) \/ CheckRequiredFields(r)
  \/ ToolFails(r) \/ Timeout(r)
  \/ AnnounceEmergency(r) \/ SaveNeedsInput(r) \/ SaveFinal(r) \/ SaveFailure(r) \/ Close(r)
  \/ CancelledInTry(r) \/ CancelledOutsideTry(r)

\* Only the status and the budget of r's dicts change.
SameEvidence(r) ==
  /\ request' = request
  /\ \/ state' = state
     \/ \E s \in Statuses : state' = [state EXCEPT ![r].status = s]
  /\ KeepsEvidence

LEMMA SameEvidenceIsHarmless ==
  ASSUME TypeOK, NEW r \in Runs, SameEvidence(r),
         \/ events' = events
         \/ \E type \in EventTypes, status \in Statuses : Publish(r, type, status, None),
         \/ pc' = pc
         \/ \E p \in PCs \ {"make_decision", "format_recommendation"} : Goto(r, p)
  PROVE  \A q \in Runs : Harmless(q)
<1> SUFFICES ASSUME NEW q \in Runs PROVE Harmless(q)
  OBVIOUS
<1>1. PublishesNone(q)
  BY PublishNone DEF PublishesNone
<1>2. pc'[q] \in {"make_decision", "format_recommendation"} => pc'[q] = pc[q]
  BY DEF Goto, TypeOK
<1>3. state'[q].snap = state[q].snap
  <2>1. ASSUME NEW s \in Statuses, state' = [state EXCEPT ![r].status = s]
        PROVE  state'[q].snap = state[q].snap
    BY <2>1 DEF TypeOK, RunDict
  <2> QED BY <2>1 DEF SameEvidence
<1> QED BY <1>1, <1>2, <1>3 DEF Harmless, SameEvidence, KeepsEvidence

LEMMA FailIsHarmless ==
  ASSUME TypeOK, NEW r \in Runs, Fail(r), KeepsEvidence
  PROVE  \A q \in Runs : Harmless(q)
<1>1. SameEvidence(r)
  BY DEF Fail, SameEvidence, Statuses
<1>2. \E type \in EventTypes, status \in Statuses : Publish(r, type, status, None)
  BY DEF Fail, EventTypes, TerminalEvents, Statuses
<1>3. \E p \in PCs \ {"make_decision", "format_recommendation"} : Goto(r, p)
  BY PCNames DEF Fail
<1> QED BY <1>1, <1>2, <1>3, SameEvidenceIsHarmless

LEMMA PlainRunStepIsHarmless ==
  ASSUME TypeOK, NEW r \in Runs, PlainRunStep(r)
  PROVE  \A q \in Runs : Harmless(q)
<1> DEFINE OtherPC == \E p \in PCs \ {"make_decision", "format_recommendation"} : Goto(r, p)
           OtherStatus == \E s \in Statuses : state' = [state EXCEPT ![r].status = s]
           NoRecommendation ==
             \E type \in EventTypes, status \in Statuses : Publish(r, type, status, None)
<1>1. CASE Register(r) \/ Launch(r) \/ SaveNeedsInput(r) \/ SaveFinal(r) \/ SaveFailure(r)
             \/ Close(r) \/ CancelledOutsideTry(r)
  <2>1. OtherPC
    BY <1>1, PCNames DEF Register, Launch, SaveNeedsInput, SaveFinal, SaveFailure, Close,
                         CancelledOutsideTry
  <2>2. SameEvidence(r) /\ events' = events
    BY <1>1 DEF Register, Launch, SaveNeedsInput, SaveFinal, SaveFailure, Close,
                CancelledOutsideTry, SameEvidence, KeepsEvidence
  <2> QED BY <2>1, <2>2, SameEvidenceIsHarmless
<1>2. CASE MarkRunning(r) \/ CancelledInTry(r)
  <2>1. OtherPC /\ OtherStatus
    BY <1>2, PCNames DEF MarkRunning, CancelledInTry, Statuses
  <2>2. request' = request /\ graph' = graph /\ events' = events
    BY <1>2 DEF MarkRunning, CancelledInTry
  <2> QED BY <2>1, <2>2, SameEvidenceIsHarmless DEF SameEvidence, KeepsEvidence
<1>3. CASE EnterNode(r)
  <2>1. KeepsEvidence
    <3>1. PICK g \in GraphDict : g = graph[r]
      BY DEF TypeOK
    <3>2. PICK n \in Nat : n = g.steps + 1
      BY DEF GraphDict
    <3> DEFINE h == [g EXCEPT !.steps = n, !.entered = TRUE]
    <3>3. h.snap = g.snap /\ h.pkg = g.pkg /\ h.decision = g.decision /\ h.rec = g.rec
      BY DEF GraphDict
    <3>4. graph' = [graph EXCEPT ![r] = h]
      BY <1>3, <3>1, <3>2 DEF EnterNode, TypeOK
    <3> QED BY <3>1, <3>3, <3>4, EvidenceKept
  <2>2. NoRecommendation
    BY <1>3 DEF EnterNode, EventTypes, Statuses
  <2>3. request' = request /\ state' = state /\ pc' = pc
    BY <1>3 DEF EnterNode
  <2> QED BY <2>1, <2>2, <2>3, SameEvidenceIsHarmless DEF SameEvidence
<1>4. CASE EnterCancelled(r)
  <2>1. KeepsEvidence
    BY <1>4, StepCounted DEF EnterCancelled
  <2>2. OtherPC /\ OtherStatus /\ request' = request /\ events' = events
    BY <1>4, PCNames DEF EnterCancelled, StopCancelled, Statuses
  <2> QED BY <2>1, <2>2, SameEvidenceIsHarmless DEF SameEvidence
<1>5. CASE EnterFails(r)
  BY <1>5, StepCounted, FailIsHarmless DEF EnterFails
<1>6. CASE ToolFails(r) \/ Timeout(r)
  <2>1. KeepsEvidence
    BY <1>6, CallCounted DEF ToolFails, Timeout, KeepsEvidence
  <2> QED BY <1>6, <2>1, FailIsHarmless DEF ToolFails, Timeout
<1>7. CASE Validated(r) \/ ClassifyIntent(r)
  <2>2. KeepsEvidence
    BY <1>7, EnteredSet, ReuseSet DEF Validated, ClassifyIntent
  <2>3. OtherPC /\ request' = request /\ state' = state /\ events' = events
    BY <1>7, PCNames DEF Validated, ClassifyIntent
  <2> QED BY <2>2, <2>3, SameEvidenceIsHarmless DEF SameEvidence
<1>8. CASE CheckRequiredFields(r)
  <2>1. KeepsEvidence
    <3>1. graph' = graph \/ \E s \in Statuses : graph' = [graph EXCEPT ![r].status = s]
      BY <1>8 DEF CheckRequiredFields, Statuses
    <3> QED BY <3>1, StatusSet DEF KeepsEvidence
  <2>2. OtherPC
    BY <1>8, PCNames DEF CheckRequiredFields
  <2>3. request' = request /\ state' = state
    BY <1>8 DEF CheckRequiredFields
  <2>4. events' = events \/ NoRecommendation
    BY <1>8 DEF CheckRequiredFields, EventTypes, Statuses
  <2> QED BY <2>1, <2>2, <2>3, <2>4, SameEvidenceIsHarmless DEF SameEvidence
<1>9. CASE AnnounceEmergency(r)
  <2> SUFFICES ASSUME NEW q \in Runs PROVE Harmless(q)
    OBVIOUS
  <2>1. KeepsEvidence
    BY <1>9, StatusSet DEF AnnounceEmergency, Statuses
  <2>2. ASSUME NEW id \in EmergencyIds
        PROVE  [id |-> id, type |-> "completed", status |-> "COMPLETED", rec |-> None] \in Event
    BY AgentRunAssumption, NoneIsOptional DEF Event, EventTypes, TerminalEvents, Statuses
  <2>3. PublishesNone(q)
    <3>1. CASE UNCHANGED events
      BY <3>1 DEF PublishesNone
    <3>2. CASE \E id \in EmergencyIds : events' = [events EXCEPT ![r] = Append(@,
                 [id |-> id, type |-> "completed", status |-> "COMPLETED", rec |-> None])]
      <4>1. PICK e \in Event : e.rec = None /\ events' = [events EXCEPT ![r] = Append(@, e)]
        BY <2>2, <3>2
      <4> QED BY <4>1 DEF TypeOK, PublishesNone
    <3> QED BY <1>9, <3>1, <3>2 DEF AnnounceEmergency
  <2>4. pc'[q] \in {"make_decision", "format_recommendation"} => pc'[q] = pc[q]
    BY <1>9 DEF AnnounceEmergency, Goto, TypeOK
  <2> QED BY <1>9, <2>1, <2>3, <2>4 DEF Harmless, KeepsEvidence, AnnounceEmergency
<1> QED
  BY <1>1, <1>2, <1>3, <1>4, <1>5, <1>6, <1>7, <1>8, <1>9 DEF PlainRunStep

\* What a dict of r's graph must look like at the node next.
GroundedDict(r, g, next) ==
  /\ g.snap # None => OfRevision(r, g.snap)
  /\ g.pkg # None => OfRevision(r, g.pkg.snap)
  /\ g.decision # None => GroundedDecision(r, g.decision)
  /\ g.rec # None => GroundedRec(r, g.rec)
  /\ next = "make_decision" => g.pkg # None
  /\ next = "format_recommendation" => g.decision # None

\* A step that replaces r's graph dict by a grounded one and publishes no recommendation.
LEMMA GroundedDictStep ==
  ASSUME TypeOK, GroundedInv, NEW r \in Runs, NEW next \in PCs, NEW h \in GraphDict,
         GroundedDict(r, h, next), graph' = [graph EXCEPT ![r] = h], Goto(r, next),
         request' = request, state' = state, \A q \in Runs : PublishesNone(q)
  PROVE  GroundedInv'
<1> SUFFICES ASSUME NEW q \in Runs PROVE EvidenceIsGrounded(q)' /\ EventsAreGrounded(q)'
  BY DEF GroundedInv
<1>1. EventsAreGrounded(q)'
  BY EventsStayGrounded DEF GroundedInv
<1>2. CASE q = r
  <2>1. graph'[r] = h /\ pc'[r] = next
    BY DEF TypeOK, Goto
  <2> QED
    BY <1>1, <1>2, <2>1 DEF GroundedInv, EvidenceIsGrounded, GroundedDict, OfRevision,
                            GroundedDecision, GroundedRec
<1>3. CASE q # r
  <2>1. Harmless(q)
    BY <1>3 DEF Harmless, TypeOK, Goto
  <2> QED BY <1>1, <2>1, HarmlessKeepsEvidence DEF GroundedInv
<1> QED BY <1>2, <1>3

LEMMA AcceptGrounded ==
  ASSUME TypeOK, GroundedInv, NEW r \in Runs, NEW next \in PCs, NEW g \in GraphDict,
         NEW degraded \in BOOLEAN, Accept(r, next, g, degraded), GroundedDict(r, g, next)
  PROVE  GroundedInv'
<1>1. PICK n \in Nat : n = g.tools + 1
  BY DEF GraphDict
<1> DEFINE h == [g EXCEPT !.entered = FALSE, !.tools = n, !.degraded = @ \/ degraded]
<1>2. h \in GraphDict
  BY DEF GraphDict
<1>3. h.snap = g.snap /\ h.pkg = g.pkg /\ h.decision = g.decision /\ h.rec = g.rec
  BY DEF GraphDict
<1>4. GroundedDict(r, h, next)
  BY <1>3 DEF GroundedDict
<1>5. \A q \in Runs : PublishesNone(q)
  BY PublishNone DEF Accept, PublishesNone, EventTypes, Statuses
<1>6. graph' = [graph EXCEPT ![r] = h] /\ Goto(r, next) /\ request' = request /\ state' = state
  BY <1>1 DEF Accept
<1> QED BY <1>2, <1>4, <1>5, <1>6, GroundedDictStep

LEMMA RejectGrounded ==
  ASSUME TypeOK, GroundedInv, NEW r \in Runs, Reject(r)
  PROVE  GroundedInv'
BY CallCounted, FailIsHarmless, HarmlessStep DEF Reject

\* Every other step of a run, one by one.
LEMMA RunStepGrounded ==
  ASSUME TypeOK, GroundedInv, NEW r \in Runs, RunStep(r)
  PROVE  GroundedInv'
<1> USE PCNames
<1>0. EvidenceIsGrounded(r) /\ graph[r] \in GraphDict
  BY DEF GroundedInv, TypeOK
<1>1. CASE PlainRunStep(r)
  BY <1>1, PlainRunStepIsHarmless, HarmlessStep
<1>2. CASE Invoke(r)
  <2>1. PICK g \in GraphDict : g = graph[r]
    BY <1>0
  <2> DEFINE h == [g EXCEPT !.snap = state[r].snap, !.status = state[r].status]
  <2>2. state[r] \in RunDict
    BY DEF TypeOK
  <2>3. h \in GraphDict
    BY <2>2 DEF GraphDict, RunDict
  <2>4. h.snap = state[r].snap /\ h.pkg = g.pkg /\ h.decision = g.decision /\ h.rec = g.rec
    BY DEF GraphDict
  <2>5. GroundedDict(r, h, "validate_input")
    BY <1>0, <2>1, <2>4 DEF GroundedDict, EvidenceIsGrounded
  <2>6. graph' = [graph EXCEPT ![r] = h]
    BY <1>2, <2>1 DEF Invoke, TypeOK
  <2>7. Goto(r, "validate_input") /\ request' = request /\ state' = state
          /\ \A q \in Runs : PublishesNone(q)
    BY <1>2 DEF Invoke, PublishesNone
  <2> QED BY <2>3, <2>5, <2>6, <2>7, GroundedDictStep
<1>3. CASE FetchExternalData(r)
  <2>1. GroundedDict(r, graph[r], "integrate_data")
    BY <1>0 DEF GroundedDict, EvidenceIsGrounded
  <2> QED BY <1>0, <1>3, <2>1, AcceptGrounded DEF FetchExternalData
<1>4. CASE IntegrateData(r)
  <2>1. PICK g \in GraphDict : g = graph[r]
    BY <1>0
  <2>2. ASSUME NEW snap \in Snapshot, SnapshotMatches(r, snap)
        PROVE  [g EXCEPT !.snap = snap] \in GraphDict
               /\ GroundedDict(r, [g EXCEPT !.snap = snap], "build_evidence")
    <3> DEFINE h == [g EXCEPT !.snap = snap]
    <3>1. h \in GraphDict
      BY DEF GraphDict, Opt
    <3>2. h.snap = snap /\ h.pkg = g.pkg /\ h.decision = g.decision /\ h.rec = g.rec
      BY DEF GraphDict
    <3>3. OfRevision(r, snap)
      BY <2>2 DEF SnapshotMatches, OfRevision
    <3> QED BY <1>0, <2>1, <3>1, <3>2, <3>3 DEF GroundedDict, EvidenceIsGrounded
  <2> QED BY <1>4, <2>1, <2>2, AcceptGrounded, RejectGrounded DEF IntegrateData
<1>5. CASE BuildEvidence(r)
  <2>1. PICK g \in GraphDict : g = graph[r]
    BY <1>0
  <2>2. ASSUME NEW pkg \in Package, PackageMatches(r, pkg)
        PROVE  [g EXCEPT !.pkg = pkg] \in GraphDict
               /\ GroundedDict(r, [g EXCEPT !.pkg = pkg], "make_decision")
    <3> DEFINE h == [g EXCEPT !.pkg = pkg]
    <3>1. h \in GraphDict
      BY DEF GraphDict, Opt
    <3>2. h.snap = g.snap /\ h.pkg = pkg /\ h.decision = g.decision /\ h.rec = g.rec
      BY DEF GraphDict
    <3>3. pkg.snap \in Snapshot /\ pkg.snap = g.snap
      BY <2>1, <2>2 DEF PackageMatches, Package
    <3>4. OfRevision(r, pkg.snap) /\ pkg # None
      BY <1>0, <2>1, <3>3, AgentRunAssumption DEF EvidenceIsGrounded
    <3> QED BY <1>0, <2>1, <3>1, <3>2, <3>4 DEF GroundedDict, EvidenceIsGrounded
  <2> QED BY <1>5, <2>1, <2>2, AcceptGrounded, RejectGrounded DEF BuildEvidence
<1>6. CASE MakeDecision(r)
  <2>1. PICK g \in GraphDict : g = graph[r]
    BY <1>0
  <2>2. g.pkg # None
    BY <1>0, <1>6, <2>1 DEF MakeDecision, Calling, EvidenceIsGrounded
  <2>3. ASSUME NEW d \in Decision, DecisionMatches(r, d)
        PROVE  [g EXCEPT !.decision = d] \in GraphDict
               /\ GroundedDict(r, [g EXCEPT !.decision = d], "format_recommendation")
    <3> DEFINE h == [g EXCEPT !.decision = d]
    <3>1. h \in GraphDict
      BY DEF GraphDict, Opt
    <3>2. h.snap = g.snap /\ h.pkg = g.pkg /\ h.decision = d /\ h.rec = g.rec
      BY DEF GraphDict
    <3>3. GroundedDecision(r, d) /\ d # None
      BY <1>0, <2>1, <2>2, <2>3, AgentRunAssumption
         DEF DecisionMatches, EvidenceIsGrounded, GroundedDecision
    <3> QED BY <1>0, <2>1, <3>1, <3>2, <3>3 DEF GroundedDict, EvidenceIsGrounded
  <2> QED BY <1>6, <2>1, <2>3, AcceptGrounded, RejectGrounded DEF MakeDecision
<1>7. CASE FormatRecommendation(r)
  <2>1. PICK g \in GraphDict : g = graph[r]
    BY <1>0
  <2>2. g.decision # None
    BY <1>0, <1>7, <2>1 DEF FormatRecommendation, Calling, EvidenceIsGrounded
  <2>3. ASSUME NEW rec \in Recommendation, NEW s \in Statuses, RecommendationMatches(r, rec)
        PROVE  [g EXCEPT !.rec = rec, !.status = s] \in GraphDict
               /\ GroundedDict(r, [g EXCEPT !.rec = rec, !.status = s], "returned")
    <3> DEFINE h == [g EXCEPT !.rec = rec, !.status = s]
    <3>1. h \in GraphDict
      BY DEF GraphDict, Opt
    <3>2. h.snap = g.snap /\ h.pkg = g.pkg /\ h.decision = g.decision /\ h.rec = rec
      BY DEF GraphDict
    <3>3. GroundedRec(r, rec)
      BY <1>0, <2>1, <2>2, <2>3 DEF RecommendationMatches, EvidenceIsGrounded, GroundedRec
    <3> QED BY <1>0, <2>1, <3>1, <3>2, <3>3 DEF GroundedDict, EvidenceIsGrounded
  <2>4. CASE Reject(r)
    BY <2>4, RejectGrounded
  <2>5. CASE ~Reject(r)
    <3>1. PICK rec \in Recommendation, s \in Statuses, degraded \in BOOLEAN :
            /\ RecommendationMatches(r, rec)
            /\ Accept(r, "returned", [g EXCEPT !.rec = rec, !.status = s], degraded)
      BY <1>7, <2>1, <2>5 DEF FormatRecommendation, Statuses
    <3> QED BY <2>3, <3>1, AcceptGrounded
  <2> QED BY <2>4, <2>5
<1>8. CASE Start(r)
  <2>1. Carried(r) # None => OfRevision(r, Carried(r))
    BY DEF Carried, OfRevision
  <2>2. \A q \in Runs : PublishesNone(q)
    BY <1>8, PublishNone DEF Start, EventTypes, Statuses
  <2> SUFFICES ASSUME NEW q \in Runs PROVE EvidenceIsGrounded(q)' /\ EventsAreGrounded(q)'
    BY DEF GroundedInv
  <2>3. request' = request /\ graph' = graph /\ EventsAreGrounded(q)'
    BY <1>8, <2>2, EventsStayGrounded DEF Start, GroundedInv
  <2>4. state'[q].snap = IF q = r THEN Carried(r) ELSE state[q].snap
    BY <1>8 DEF Start, TypeOK, RunDict
  <2>5. pc'[q] = IF q = r THEN "accepted" ELSE pc[q]
    BY <1>8 DEF Start, Goto, TypeOK
  <2> QED
    BY <2>1, <2>3, <2>4, <2>5
       DEF GroundedInv, EvidenceIsGrounded, OfRevision, GroundedDecision, GroundedRec
<1>9. CASE AnnounceResult(r)
  <2> SUFFICES ASSUME NEW q \in Runs PROVE EvidenceIsGrounded(q)' /\ EventsAreGrounded(q)'
    BY DEF GroundedInv
  <2>1. request' = request /\ graph' = graph /\ state' = state
    BY <1>9 DEF AnnounceResult
  <2>2. pc'[q] = IF q = r THEN "announced" ELSE pc[q]
    BY <1>9 DEF AnnounceResult, Goto, TypeOK
  <2>3. EvidenceIsGrounded(q)'
    BY <2>1, <2>2 DEF GroundedInv, EvidenceIsGrounded, OfRevision, GroundedDecision, GroundedRec
  <2>4. GroundedRec(r, graph[r].rec)
    BY <1>0, <1>9 DEF AnnounceResult, EvidenceIsGrounded
  <2>5. events[q] \in Seq(Event)
    BY DEF TypeOK
  <2>6. \A i \in DOMAIN events'[q] : \/ i \in DOMAIN events[q] /\ events'[q][i] = events[q][i]
                                     \/ q = r /\ events'[q][i].rec = graph[r].rec
    <3> DEFINE e == [id |-> counter[r] + 1, type |-> "completed",
                     status |-> graph[r].status, rec |-> graph[r].rec]
    <3>1. events' = events \/ events' = [events EXCEPT ![r] = Append(@, e)]
      BY <1>9 DEF AnnounceResult, Publish
    <3>2. events'[q] = events[q] \/ (q = r /\ events'[q] = Append(events[q], e))
      BY <3>1 DEF TypeOK
    <3>3. e.rec = graph[r].rec
      OBVIOUS
    <3> HIDE DEF e
    <3> QED BY <2>5, <3>2, <3>3
  <2>7. EventsAreGrounded(q)'
    BY <2>1, <2>4, <2>6 DEF GroundedInv, EventsAreGrounded, OfRevision, GroundedDecision, GroundedRec
  <2> QED BY <2>3, <2>7
<1> QED
  BY <1>1, <1>2, <1>3, <1>4, <1>5, <1>6, <1>7, <1>8, <1>9 DEF RunStep, PlainRunStep

\* No cancel handler changes evidence: it interrupts, marks, publishes and saves.
LEMMA CancellerStepGrounded ==
  ASSUME TypeOK, GroundedInv, NEW c \in Cancellers, NEW r \in Runs,
         RequestCancel(c, r) \/ CancelStep(c, r)
  PROVE  GroundedInv'
<1>1. CASE RequestCancel(c, r) \/ CancelSettled(c, r) \/ SaveCancel(c, r)
  <2>1. request' = request /\ state' = state /\ graph' = graph /\ events' = events /\ pc' = pc
    BY <1>1 DEF RequestCancel, CancelSettled, SaveCancel
  <2> QED BY <2>1, HarmlessStep DEF Harmless, PublishesNone
<1>2. CASE CancelLive(c, r)
  <2>1. SameEvidence(r)
    <3>1. graph' = graph \/ graph' = [graph EXCEPT ![r].status = "CANCELLED"]
      BY <1>2 DEF CancelLive
    <3>2. KeepsEvidence
      BY <3>1, StatusSet DEF KeepsEvidence, Statuses
    <3> QED BY <1>2, <3>2 DEF CancelLive, SameEvidence, Statuses
  <2>2. Publish(r, "failed", "CANCELLED", None) /\ pc' = pc
    BY <1>2 DEF CancelLive
  <2>3. "failed" \in EventTypes /\ "CANCELLED" \in Statuses
    BY DEF EventTypes, TerminalEvents, Statuses
  <2> QED BY <2>1, <2>2, <2>3, SameEvidenceIsHarmless, HarmlessStep
<1> QED BY <1>1, <1>2 DEF CancelStep

LEMMA NextGrounded == TypeOK /\ GroundedInv /\ [Next]_vars => GroundedInv'
<1> SUFFICES ASSUME TypeOK, GroundedInv, [Next]_vars PROVE GroundedInv'
  OBVIOUS
<1>1. CASE \E r \in Runs : RunStep(r)
  BY <1>1, RunStepGrounded
<1>2. CASE \E c \in Cancellers, r \in Runs : RequestCancel(c, r) \/ CancelStep(c, r)
  BY <1>2, CancellerStepGrounded
<1>3. CASE Crash
  <2>1. request' = request /\ state' = state /\ graph' = graph /\ events' = events
    BY <1>3 DEF Crash
  <2>2. \A q \in Runs : pc'[q] \in {"make_decision", "format_recommendation"} => pc'[q] = pc[q]
    BY <1>3 DEF Crash
  <2> QED BY <2>1, <2>2, HarmlessStep DEF Harmless, PublishesNone
<1>4. CASE UNCHANGED vars
  BY <1>4, HarmlessStep DEF vars, Harmless, PublishesNone
<1> QED BY <1>1, <1>2, <1>3, <1>4 DEF Next

LEMMA InitGrounded == Init => GroundedInv
<1> SUFFICES ASSUME Init, NEW r \in Runs PROVE EvidenceIsGrounded(r) /\ EventsAreGrounded(r)
  BY DEF GroundedInv
<1>1. EvidenceIsGrounded(r)
  BY DEF Init, EvidenceIsGrounded, InitialState, InitialGraph
<1>2. events[r] = <<>>
  BY DEF Init
<1> QED BY <1>1, <1>2 DEF EventsAreGrounded

\* Every recommendation any run publishes answers that run, carries the action its
\* decision locked, and rests on a snapshot of the run's own trip revision.
THEOREM GroundedCorrect == Spec => []RecommendationIsGrounded
<1>1. GroundedInv => RecommendationIsGrounded
  BY DEF GroundedInv, EventsAreGrounded, GroundedRec, GroundedDecision, OfRevision,
         RecommendationIsGrounded
<1> QED
  BY <1>1, InitTypeOK, NextTypeOK, InitGrounded, NextGrounded, PTL DEF Spec

-----------------------------------------------------------------------------
(* What was announced, and what is stored of it.                           *)

Logs(ev, type, status) ==
  \E i \in DOMAIN ev : ev[i].type = type /\ ev[i].status = status
Completes(ev, status, rec) ==
  \E i \in DOMAIN ev : ev[i].type = "completed" /\ ev[i].status = status /\ ev[i].rec = rec
ClaimsComplete(ev) == \E i \in DOMAIN ev : ev[i].status = "COMPLETED" /\ ev[i].rec # None

\* Where a coroutine is when its graph has returned.
After == {"returned", "announced", "saving", "closing", "done", "lost"}

\* A recommendation is made by the last node only, whose status tells whether a service
\* was degraded before; so does the event that announces it.
Shows(p, status, rec, degraded, ev) ==
  /\ rec # None => p \in After
  /\ Logs(ev, "degraded", "RUNNING") => degraded
  /\ rec # None /\ degraded => status # "COMPLETED"
  /\ ClaimsComplete(ev) => rec # None /\ ~degraded

Known(status, ev) ==
  /\ status = "FAILED" => Logs(ev, "failed", "FAILED")
  /\ status = "NEEDS_INPUT" => Logs(ev, "needs_input", "NEEDS_INPUT")

\* What either dict and the row say was announced, a success of the graph's dict as soon
\* as a cancel handler may see it.
Tells(p, h, ours, status, rec, ev, row) ==
  /\ ours \notin Success /\ ours # "NEEDS_INPUT" /\ Known(ours, ev)
  /\ Known(status, ev)
  /\ rec # None => status \in Success
  /\ h = "final" => p \in After /\ (status \in Success => Completes(ev, status, rec))
  /\ p = "returned" => h # "final"
  /\ p = "announced" => h = "final"
  /\ row.status \in Success => Completes(ev, row.status, row.rec)
  /\ Known(row.status, ev)
  /\ row.rec # None => row.status \in Success

Part(r) ==
  /\ Shows(pc[r], graph[r].status, graph[r].rec, graph[r].degraded, events[r])
  /\ "redis" \notin Faults =>
       Tells(pc[r], held[r], state[r].status, graph[r].status, graph[r].rec, events[r], stored[r])

AnnouncedInv == \A r \in Runs : Part(r)

\* A step of one run, or of a handler that cancels it, leaves the others alone.
Alone(r) == \A q \in Runs \ {r} :
  /\ pc'[q] = pc[q] /\ held'[q] = held[q] /\ state'[q] = state[q]
  /\ graph'[q] = graph[q] /\ events'[q] = events[q] /\ stored'[q] = stored[q]

LEMMA AloneKeeps ==
  ASSUME AnnouncedInv, NEW r \in Runs, Alone(r), Part(r)'
  PROVE  AnnouncedInv'
BY DEF AnnouncedInv, Part, Alone

\* An event is added, or lost.
Adds(ev, ev2, type, status, rec) ==
  /\ \A t, s : Logs(ev, t, s) => Logs(ev2, t, s)
  /\ \A s, c : Completes(ev, s, c) => Completes(ev2, s, c)
  /\ Logs(ev2, "degraded", "RUNNING") => Logs(ev, "degraded", "RUNNING") \/ type = "degraded"
  /\ ClaimsComplete(ev2) => ClaimsComplete(ev) \/ (status = "COMPLETED" /\ rec # None)
  /\ "redis" \notin Faults => /\ Logs(ev2, type, status)
                              /\ type = "completed" => Completes(ev2, status, rec)

LEMMA AppendAdds ==
  ASSUME NEW ev \in Seq(Event), NEW e \in Event
  PROVE  Adds(ev, Append(ev, e), e.type, e.status, e.rec)
<1> DEFINE ev2 == Append(ev, e)
<1>1. DOMAIN ev2 = DOMAIN ev \cup {Len(ev) + 1} /\ ev2[Len(ev) + 1] = e
        /\ \A i \in DOMAIN ev : ev2[i] = ev[i]
  OBVIOUS
<1> HIDE DEF ev2
<1>2. \A t, s : Logs(ev2, t, s) <=> Logs(ev, t, s) \/ (e.type = t /\ e.status = s)
  BY <1>1 DEF Logs
<1>3. \A s, c : Completes(ev2, s, c) <=>
        Completes(ev, s, c) \/ (e.type = "completed" /\ e.status = s /\ e.rec = c)
  BY <1>1 DEF Completes
<1>4. ClaimsComplete(ev2) <=> ClaimsComplete(ev) \/ (e.status = "COMPLETED" /\ e.rec # None)
  BY <1>1 DEF ClaimsComplete
<1>5. Adds(ev, ev2, e.type, e.status, e.rec)
  BY <1>2, <1>3, <1>4 DEF Adds
<1> QED BY <1>5 DEF ev2

LEMMA PublishAdds ==
  ASSUME TypeOK, NEW r \in Runs, NEW type \in EventTypes, NEW status \in Statuses,
         NEW rec \in Opt(Recommendation), Publish(r, type, status, rec)
  PROVE  /\ Adds(events[r], events'[r], type, status, rec)
         /\ \A q \in Runs \ {r} : events'[q] = events[q]
<1> DEFINE e == [id |-> counter[r] + 1, type |-> type, status |-> status, rec |-> rec]
<1>1. e \in Event /\ e.type = type /\ e.status = status /\ e.rec = rec
  BY DEF TypeOK, Event
<1>2. events[r] \in Seq(Event)
  BY DEF TypeOK
<1>3. \/ events' = [events EXCEPT ![r] = Append(@, e)]
      \/ "redis" \in Faults /\ events' = events
  BY DEF Publish
<1> HIDE DEF e
<1>4. CASE events' = [events EXCEPT ![r] = Append(@, e)]
  <2>1. events'[r] = Append(events[r], e) /\ \A q \in Runs \ {r} : events'[q] = events[q]
    BY <1>4 DEF TypeOK
  <2> QED BY <1>1, <1>2, <2>1, AppendAdds
<1>5. CASE "redis" \in Faults /\ events' = events
  BY <1>5 DEF Adds
<1> QED BY <1>3, <1>4, <1>5

LEMMA SaveWrites ==
  ASSUME TypeOK, NEW r \in Runs, NEW status, NEW snap, NEW rec, Save(r, status, snap, rec)
  PROVE  /\ \/ stored'[r] = stored[r]
            \/ stored'[r].status = status /\ stored'[r].rec = rec
         /\ \A q \in Runs \ {r} : stored'[q] = stored[q]
<1> DEFINE row == [status |-> status, snap |-> snap, rec |-> rec]
<1>1. row.status = status /\ row.rec = rec
  OBVIOUS
<1>2. stored' = stored \/ stored' = [stored EXCEPT ![r] = row]
  BY DEF Save, SaveRun
<1> HIDE DEF row
<1> QED BY <1>1, <1>2 DEF TypeOK

\* The fields of r's dicts that matter here.
GraphStays(r) == /\ graph'[r].status = graph[r].status /\ graph'[r].rec = graph[r].rec
                 /\ graph'[r].degraded = graph[r].degraded

GraphAlone(r) == \A q \in Runs \ {r} : graph'[q] = graph[q]

LEMMA BookkeepingStays ==
  ASSUME TypeOK, NEW r \in Runs,
         \/ graph' = graph
         \/ graph' = [graph EXCEPT ![r].steps = @ + 1]
         \/ graph' = [graph EXCEPT ![r].tools = @ + 1]
         \/ graph' = [graph EXCEPT ![r].steps = @ + 1, ![r].entered = TRUE]
         \/ graph' = [graph EXCEPT ![r].entered = FALSE]
         \/ \E b \in BOOLEAN : graph' = [graph EXCEPT ![r].reuse = b]
  PROVE  GraphStays(r) /\ GraphAlone(r)
<1>1. graph[r] \in GraphDict
  BY DEF TypeOK
<1>2. GraphAlone(r)
  BY DEF GraphAlone, TypeOK
<1>3. GraphStays(r)
  BY <1>1 DEF GraphStays, GraphDict, TypeOK
<1> QED BY <1>2, <1>3

LEMMA GraphStatusSet ==
  ASSUME TypeOK, NEW r \in Runs, NEW s, graph' = [graph EXCEPT ![r].status = s]
  PROVE  /\ graph'[r].status = s /\ graph'[r].rec = graph[r].rec
         /\ graph'[r].degraded = graph[r].degraded
         /\ GraphAlone(r)
<1>1. graph[r] \in GraphDict
  BY DEF TypeOK
<1> QED BY <1>1 DEF GraphAlone, GraphDict, TypeOK

LEMMA StateStatusSet ==
  ASSUME TypeOK, NEW r \in Runs, NEW s, state' = [state EXCEPT ![r].status = s]
  PROVE  state'[r].status = s /\ \A q \in Runs \ {r} : state'[q] = state[q]
<1>1. state[r] \in RunDict
  BY DEF TypeOK
<1> QED BY <1>1 DEF RunDict, TypeOK

LEMMA GotoMoves ==
  ASSUME TypeOK, NEW r \in Runs, NEW p, Goto(r, p)
  PROVE  pc'[r] = p /\ \A q \in Runs \ {r} : pc'[q] = pc[q]
BY DEF Goto, TypeOK

\* An except branch that fails the run.
LEMMA FailAnnounced ==
  ASSUME TypeOK, AnnouncedInv, NEW r \in Runs, Fail(r), GraphStays(r), GraphAlone(r),
         pc[r] \notin After
  PROVE  AnnouncedInv'
<1>1. Part(r)
  BY DEF AnnouncedInv
<1>2. state'[r].status = "FAILED" /\ \A q \in Runs \ {r} : state'[q] = state[q]
  BY StateStatusSet DEF Fail
<1>3. pc'[r] = "failing" /\ \A q \in Runs \ {r} : pc'[q] = pc[q]
  BY GotoMoves DEF Fail
<1>4. /\ Adds(events[r], events'[r], "failed", "FAILED", None)
      /\ \A q \in Runs \ {r} : events'[q] = events[q]
  BY PublishAdds, NoneIsOptional DEF Fail, EventTypes, TerminalEvents, Statuses
<1>5. held' = held /\ stored' = stored
  BY DEF Fail
<1>6. Shows(pc[r], graph[r].status, graph[r].rec, graph[r].degraded, events[r])'
  BY <1>1, <1>3, <1>4 DEF Part, Shows, Adds, GraphStays
<1>7. ASSUME "redis" \notin Faults
      PROVE  Tells(pc[r], held[r], state[r].status, graph[r].status, graph[r].rec, events[r],
                   stored[r])'
  BY <1>1, <1>2, <1>3, <1>4, <1>5, <1>7 DEF Part, Shows, Tells, Adds, GraphStays, Known, Success
<1> QED
  BY <1>2, <1>3, <1>4, <1>5, <1>6, <1>7, AloneKeeps DEF Part, Alone, GraphAlone

\* The except branch of a run that saw its cancel flag.
LEMMA StopAnnounced ==
  ASSUME TypeOK, AnnouncedInv, NEW r \in Runs, StopCancelled(r), GraphStays(r), GraphAlone(r),
         pc[r] \in Nodes
  PROVE  AnnouncedInv'
<1>1. Part(r)
  BY DEF AnnouncedInv
<1>2. state'[r].status = "CANCELLED" /\ \A q \in Runs \ {r} : state'[q] = state[q]
  BY StateStatusSet DEF StopCancelled
<1>3. pc'[r] = "closing" /\ \A q \in Runs \ {r} : pc'[q] = pc[q]
  BY GotoMoves DEF StopCancelled
<1>4. /\ stored'[r] = stored[r] \/ (stored'[r].status = "CANCELLED" /\ stored'[r].rec = None)
      /\ \A q \in Runs \ {r} : stored'[q] = stored[q]
  BY SaveWrites DEF StopCancelled
<1>5. held' = held /\ events' = events
  BY DEF StopCancelled
<1>6. Shows(pc[r], graph[r].status, graph[r].rec, graph[r].degraded, events[r])'
  BY <1>1, <1>3, <1>5 DEF Part, Shows, GraphStays, After
<1>7. ASSUME "redis" \notin Faults
      PROVE  Tells(pc[r], held[r], state[r].status, graph[r].status, graph[r].rec, events[r],
                   stored[r])'
  BY <1>1, <1>2, <1>3, <1>4, <1>5, <1>7
     DEF Part, Shows, Tells, GraphStays, Known, Success, After, Nodes, ToolNodes
<1> QED
  BY <1>2, <1>3, <1>4, <1>5, <1>6, <1>7, AloneKeeps DEF Part, Alone, GraphAlone

\* An accepted answer, from a node before the last, or with its recommendation from it.
LEMMA AcceptAnnounced ==
  ASSUME TypeOK, AnnouncedInv, NEW r \in Runs, NEW next \in PCs, NEW g \in GraphDict,
         NEW degraded \in BOOLEAN, Accept(r, next, g, degraded),
         pc[r] \notin After, g.degraded = graph[r].degraded,
         \/ g.rec = graph[r].rec /\ g.status = graph[r].status /\ next \notin After
         \/ /\ next = "returned" /\ g.rec # None /\ g.status \in Success
            /\ degraded \/ graph[r].degraded => g.status = "PARTIAL"
  PROVE  AnnouncedInv'
<1>1. Part(r)
  BY DEF AnnouncedInv
<1>2. /\ graph'[r].status = g.status /\ graph'[r].rec = g.rec
      /\ graph'[r].degraded = (g.degraded \/ degraded) /\ GraphAlone(r)
  <2>1. PICK n \in Nat : n = g.tools + 1
    BY DEF GraphDict
  <2> DEFINE h == [g EXCEPT !.entered = FALSE, !.tools = n, !.degraded = @ \/ degraded]
  <2>2. h.status = g.status /\ h.rec = g.rec /\ h.degraded = (g.degraded \/ degraded)
    BY DEF GraphDict
  <2>3. graph' = [graph EXCEPT ![r] = h]
    BY <2>1 DEF Accept
  <2> QED BY <2>2, <2>3 DEF GraphAlone, TypeOK
<1>3. pc'[r] = next /\ \A q \in Runs \ {r} : pc'[q] = pc[q]
  BY GotoMoves DEF Accept
<1>4. /\ \/ events'[r] = events[r] /\ (degraded => graph[r].degraded)
         \/ degraded /\ Adds(events[r], events'[r], "degraded", "RUNNING", None)
      /\ \A q \in Runs \ {r} : events'[q] = events[q]
  <2>1. CASE degraded /\ ~graph[r].degraded
    BY <2>1, PublishAdds, NoneIsOptional DEF Accept, EventTypes, Statuses
  <2>2. CASE ~(degraded /\ ~graph[r].degraded)
    BY <2>2 DEF Accept
  <2> QED BY <2>1, <2>2
<1>5. held' = held /\ stored' = stored /\ state' = state
  BY DEF Accept
<1>6. Shows(pc[r], graph[r].status, graph[r].rec, graph[r].degraded, events[r])'
  BY <1>1, <1>2, <1>3, <1>4 DEF Part, Shows, Adds, After, Success
<1>7. ASSUME "redis" \notin Faults
      PROVE  Tells(pc[r], held[r], state[r].status, graph[r].status, graph[r].rec, events[r],
                   stored[r])'
  BY <1>1, <1>2, <1>3, <1>4, <1>5, <1>7 DEF Part, Shows, Tells, Adds, Known, Success, After
<1> QED
  BY <1>2, <1>3, <1>4, <1>5, <1>6, <1>7, AloneKeeps DEF Part, Alone, GraphAlone

LEMMA RejectAnnounced ==
  ASSUME TypeOK, AnnouncedInv, NEW r \in Runs, Reject(r), pc[r] \notin After
  PROVE  AnnouncedInv'
BY BookkeepingStays, FailAnnounced DEF Reject

LEMMA RunStepAnnounced ==
  ASSUME TypeOK, AnnouncedInv, NEW r \in Runs, RunStep(r)
  PROVE  AnnouncedInv'
<1> USE PCNames
<1>0. /\ Part(r)
      /\ graph[r] \in GraphDict /\ state[r] \in RunDict /\ stored[r] \in Row
      /\ graph[r].status \in Statuses /\ graph[r].rec \in Opt(Recommendation)
  BY DEF AnnouncedInv, TypeOK, GraphDict
<1> DEFINE Told == "redis" \notin Faults =>
      Tells(pc[r], held[r], state[r].status, graph[r].status, graph[r].rec, events[r],
            stored[r])'
           Shown == Shows(pc[r], graph[r].status, graph[r].rec, graph[r].degraded, events[r])'
<1>1. CASE Start(r)
  <2>1. pc'[r] = "accepted" /\ \A q \in Runs \ {r} : pc'[q] = pc[q]
    BY <1>1, GotoMoves DEF Start
  <2>2. state'[r].status = state[r].status /\ \A q \in Runs \ {r} : state'[q] = state[q]
    BY <1>0, <1>1 DEF Start, TypeOK, RunDict
  <2>3. /\ Adds(events[r], events'[r], "accepted", "QUEUED", None)
        /\ \A q \in Runs \ {r} : events'[q] = events[q]
    BY <1>1, PublishAdds, NoneIsOptional DEF Start, EventTypes, Statuses
  <2>4. held'[r] = "initial" /\ \A q \in Runs \ {r} : held'[q] = held[q]
    BY <1>1 DEF Start, TypeOK
  <2>5. graph' = graph /\ stored' = stored
    BY <1>1 DEF Start
  <2>6. pc[r] \notin After
    BY <1>1 DEF Start, After
  <2>7. Shown
    BY <1>0, <2>1, <2>3, <2>5, <2>6 DEF Part, Shows, Adds
  <2>8. Told
    BY <1>0, <2>1, <2>2, <2>3, <2>4, <2>5, <2>6 DEF Part, Tells, Adds, Known
  <2> QED BY <2>1, <2>2, <2>3, <2>4, <2>5, <2>7, <2>8, AloneKeeps DEF Part, Alone
<1>2. CASE Register(r) \/ SaveFailure(r)
  <2>1. /\ pc'[r] \in {"registered", "closing"} /\ \A q \in Runs \ {r} : pc'[q] = pc[q]
        /\ pc[r] \notin After
    BY <1>2, GotoMoves DEF Register, SaveFailure, After
  <2>2. /\ \/ stored'[r] = stored[r]
           \/ stored'[r].status = state[r].status /\ stored'[r].rec = None
        /\ \A q \in Runs \ {r} : stored'[q] = stored[q]
    BY <1>2, SaveWrites DEF Register, SaveFailure
  <2>3. graph' = graph /\ state' = state /\ held' = held /\ events' = events
    BY <1>2 DEF Register, SaveFailure
  <2>4. Shown
    BY <1>0, <2>1, <2>3 DEF Part, Shows
  <2>5. Told
    BY <1>0, <2>1, <2>2, <2>3 DEF Part, Tells, Known, After
  <2> QED BY <2>1, <2>2, <2>3, <2>4, <2>5, AloneKeeps DEF Part, Alone
<1>3. CASE Launch(r) \/ Validated(r) \/ ClassifyIntent(r) \/ Close(r) \/ CancelledOutsideTry(r)
  <2>1. /\ \A q \in Runs \ {r} : pc'[q] = pc[q]
        /\ \/ pc[r] \notin After /\ pc'[r] \in {"launched", "classify_intent", "check_required_fields"}
           \/ pc'[r] = "done"
    BY <1>3, GotoMoves DEF Launch, Validated, ClassifyIntent, Close, CancelledOutsideTry, After
  <2>2. GraphStays(r) /\ GraphAlone(r)
    BY <1>3, BookkeepingStays DEF Launch, Validated, ClassifyIntent, Close, CancelledOutsideTry
  <2>3. stored' = stored /\ state' = state /\ held' = held /\ events' = events
    BY <1>3 DEF Launch, Validated, ClassifyIntent, Close, CancelledOutsideTry
  <2>4. Shown
    BY <1>0, <2>1, <2>2, <2>3 DEF Part, Shows, GraphStays, After
  <2>5. Told
    BY <1>0, <2>1, <2>2, <2>3 DEF Part, Tells, GraphStays, After
  <2> QED BY <2>1, <2>2, <2>3, <2>4, <2>5, AloneKeeps DEF Part, Alone, GraphAlone
<1>4. CASE MarkRunning(r)
  <2>1. pc'[r] = "marked_running" /\ \A q \in Runs \ {r} : pc'[q] = pc[q]
    BY <1>4, GotoMoves DEF MarkRunning
  <2>2. state'[r].status = "RUNNING" /\ \A q \in Runs \ {r} : state'[q] = state[q]
    BY <1>4, StateStatusSet DEF MarkRunning
  <2>3. /\ stored'[r] = stored[r] \/ (stored'[r].status = "RUNNING" /\ stored'[r].rec = None)
        /\ \A q \in Runs \ {r} : stored'[q] = stored[q]
    BY <1>4, SaveWrites DEF MarkRunning
  <2>4. graph' = graph /\ held' = held /\ events' = events /\ pc[r] \notin After
    BY <1>4 DEF MarkRunning, After
  <2>5. Shown
    BY <1>0, <2>1, <2>4 DEF Part, Shows
  <2>6. Told
    BY <1>0, <2>1, <2>2, <2>3, <2>4 DEF Part, Tells, Known, Success
  <2> QED BY <2>1, <2>2, <2>3, <2>4, <2>5, <2>6, AloneKeeps DEF Part, Alone
<1>5. CASE Invoke(r)
  <2>1. pc'[r] = "validate_input" /\ \A q \in Runs \ {r} : pc'[q] = pc[q]
    BY <1>5, GotoMoves DEF Invoke
  <2>2. /\ graph'[r].status = state[r].status /\ graph'[r].rec = graph[r].rec
        /\ graph'[r].degraded = graph[r].degraded /\ GraphAlone(r)
    BY <1>0, <1>5 DEF Invoke, GraphAlone, TypeOK, GraphDict
  <2>3. stored' = stored /\ state' = state /\ held' = held /\ events' = events
        /\ pc[r] \notin After
    BY <1>5 DEF Invoke, After
  <2>4. Shown
    BY <1>0, <2>1, <2>2, <2>3 DEF Part, Shows
  <2>5. Told
    BY <1>0, <2>1, <2>2, <2>3 DEF Part, Shows, Tells
  <2> QED BY <2>1, <2>2, <2>3, <2>4, <2>5, AloneKeeps DEF Part, Alone, GraphAlone
<1>6. CASE EnterNode(r)
  <2>1. GraphStays(r) /\ GraphAlone(r)
    BY <1>6, BookkeepingStays DEF EnterNode
  <2>2. /\ Adds(events[r], events'[r], "progress", "RUNNING", None)
        /\ \A q \in Runs \ {r} : events'[q] = events[q]
    BY <1>6, PublishAdds, NoneIsOptional DEF EnterNode, EventTypes, Statuses
  <2>3. pc' = pc /\ stored' = stored /\ state' = state /\ held' = held
    BY <1>6 DEF EnterNode
  <2>4. Shown
    BY <1>0, <2>1, <2>2, <2>3 DEF Part, Shows, Adds, GraphStays
  <2>5. Told
    BY <1>0, <2>1, <2>2, <2>3 DEF Part, Tells, Known, Adds, GraphStays
  <2> QED BY <2>1, <2>2, <2>3, <2>4, <2>5, AloneKeeps DEF Part, Alone, GraphAlone
<1>7. CASE EnterCancelled(r)
  BY <1>7, BookkeepingStays, StopAnnounced DEF EnterCancelled
<1>8. CASE EnterFails(r) \/ ToolFails(r) \/ Timeout(r)
  <2>1. GraphStays(r) /\ GraphAlone(r)
    BY <1>8, BookkeepingStays DEF EnterFails, ToolFails, Timeout
  <2>2. Fail(r) /\ pc[r] \notin After
    BY <1>8 DEF EnterFails, ToolFails, Timeout, After, Nodes, ToolNodes
  <2> QED BY <2>1, <2>2, FailAnnounced
<1>9. CASE CheckRequiredFields(r)
  <2>1. pc[r] = "check_required_fields" /\ pc[r] \notin After
    BY <1>9 DEF CheckRequiredFields, After
  <2>2. stored' = stored /\ state' = state /\ held' = held
    BY <1>9 DEF CheckRequiredFields
  <2>3. CASE Goto(r, "returned") /\ graph' = [graph EXCEPT ![r].status = "COMPLETED"]
             /\ UNCHANGED <<events, counter>>
    <3>1. pc'[r] = "returned" /\ \A q \in Runs \ {r} : pc'[q] = pc[q]
      BY <2>3, GotoMoves
    <3>2. /\ graph'[r].status = "COMPLETED" /\ graph'[r].rec = graph[r].rec
          /\ graph'[r].degraded = graph[r].degraded /\ GraphAlone(r)
      BY <2>3, GraphStatusSet
    <3>3. events' = events
      BY <2>3
    <3>4. Shown
      BY <1>0, <2>1, <3>1, <3>2, <3>3 DEF Part, Shows
    <3>5. Told
      BY <1>0, <2>1, <2>2, <3>1, <3>2, <3>3 DEF Part, Shows, Tells, Known
    <3> QED BY <2>2, <3>1, <3>2, <3>3, <3>4, <3>5, AloneKeeps DEF Part, Alone, GraphAlone
  <2>4. CASE Goto(r, "returned") /\ graph' = [graph EXCEPT ![r].status = "NEEDS_INPUT"]
             /\ Publish(r, "needs_input", "NEEDS_INPUT", None)
    <3>1. pc'[r] = "returned" /\ \A q \in Runs \ {r} : pc'[q] = pc[q]
      BY <2>4, GotoMoves
    <3>2. /\ graph'[r].status = "NEEDS_INPUT" /\ graph'[r].rec = graph[r].rec
          /\ graph'[r].degraded = graph[r].degraded /\ GraphAlone(r)
      BY <2>4, GraphStatusSet
    <3>3. /\ Adds(events[r], events'[r], "needs_input", "NEEDS_INPUT", None)
          /\ \A q \in Runs \ {r} : events'[q] = events[q]
      BY <2>4, PublishAdds, NoneIsOptional DEF EventTypes, Statuses
    <3>4. Shown
      BY <1>0, <2>1, <3>1, <3>2, <3>3 DEF Part, Shows, Adds
    <3>5. Told
      BY <1>0, <2>1, <2>2, <3>1, <3>2, <3>3 DEF Part, Shows, Tells, Known, Adds
    <3> QED BY <2>2, <3>1, <3>2, <3>3, <3>4, <3>5, AloneKeeps DEF Part, Alone, GraphAlone
  <2>5. CASE /\ Goto(r, IF graph[r].reuse THEN "build_evidence" ELSE "fetch_external_data")
             /\ UNCHANGED <<graph, events, counter>>
    <3>1. /\ pc'[r] \in {"build_evidence", "fetch_external_data"}
          /\ \A q \in Runs \ {r} : pc'[q] = pc[q]
      BY <2>5, GotoMoves
    <3>2. graph' = graph /\ events' = events
      BY <2>5
    <3>3. Shown
      BY <1>0, <2>1, <3>1, <3>2 DEF Part, Shows
    <3>4. Told
      BY <1>0, <2>1, <2>2, <3>1, <3>2 DEF Part, Tells, After
    <3> QED BY <2>2, <3>1, <3>2, <3>3, <3>4, AloneKeeps DEF Part, Alone
  <2> QED BY <1>9, <2>3, <2>4, <2>5 DEF CheckRequiredFields
<1>10. CASE FetchExternalData(r)
  <2>1. pc[r] \notin After /\ "integrate_data" \notin After
    BY <1>10 DEF FetchExternalData, Calling, After
  <2> QED BY <1>0, <1>10, <2>1, AcceptAnnounced DEF FetchExternalData
<1>11. CASE IntegrateData(r)
  <2>1. PICK g \in GraphDict : g = graph[r]
    BY <1>0
  <2>2. ASSUME NEW snap \in Snapshot
        PROVE  LET h == [g EXCEPT !.snap = snap] IN
               h \in GraphDict /\ h.rec = g.rec /\ h.status = g.status /\ h.degraded = g.degraded
    BY DEF GraphDict, Opt
  <2>3. pc[r] \notin After /\ "build_evidence" \notin After
    BY <1>11 DEF IntegrateData, Calling, After
  <2> QED BY <1>11, <2>1, <2>2, <2>3, AcceptAnnounced, RejectAnnounced DEF IntegrateData
<1>12. CASE BuildEvidence(r)
  <2>1. PICK g \in GraphDict : g = graph[r]
    BY <1>0
  <2>2. ASSUME NEW pkg \in Package
        PROVE  LET h == [g EXCEPT !.pkg = pkg] IN
               h \in GraphDict /\ h.rec = g.rec /\ h.status = g.status /\ h.degraded = g.degraded
    BY DEF GraphDict, Opt
  <2>3. pc[r] \notin After /\ "make_decision" \notin After
    BY <1>12 DEF BuildEvidence, Calling, After
  <2> QED BY <1>12, <2>1, <2>2, <2>3, AcceptAnnounced, RejectAnnounced DEF BuildEvidence
<1>13. CASE MakeDecision(r)
  <2>1. PICK g \in GraphDict : g = graph[r]
    BY <1>0
  <2>2. ASSUME NEW d \in Decision
        PROVE  LET h == [g EXCEPT !.decision = d] IN
               h \in GraphDict /\ h.rec = g.rec /\ h.status = g.status /\ h.degraded = g.degraded
    BY DEF GraphDict, Opt
  <2>3. pc[r] \notin After /\ "format_recommendation" \notin After
    BY <1>13 DEF MakeDecision, Calling, After
  <2> QED BY <1>13, <2>1, <2>2, <2>3, AcceptAnnounced, RejectAnnounced DEF MakeDecision
<1>14. CASE FormatRecommendation(r)
  <2>1. PICK g \in GraphDict : g = graph[r]
    BY <1>0
  <2>2. ASSUME NEW rec \in Recommendation, NEW s \in Statuses
        PROVE  LET h == [g EXCEPT !.rec = rec, !.status = s] IN
               h \in GraphDict /\ h.rec = rec /\ h.status = s /\ h.degraded = g.degraded
    BY DEF GraphDict, Opt
  <2>3. pc[r] \notin After
    BY <1>14 DEF FormatRecommendation, Calling, After
  <2>4. CASE Reject(r)
    BY <2>3, <2>4, RejectAnnounced
  <2>5. CASE ~Reject(r)
    <3>1. PICK rec \in Recommendation, partial \in BOOLEAN, degraded \in BOOLEAN :
            /\ degraded => partial
            /\ Accept(r, "returned",
                 [g EXCEPT !.rec = rec,
                    !.status = IF partial \/ g.degraded THEN "PARTIAL" ELSE "COMPLETED"],
                 degraded)
      BY <1>14, <2>1, <2>5 DEF FormatRecommendation
    <3>2. PICK s \in Statuses :
            s = IF partial \/ g.degraded THEN "PARTIAL" ELSE "COMPLETED"
      BY DEF Statuses
    <3>3. s \in Success /\ (degraded \/ g.degraded => s = "PARTIAL") /\ rec # None
      BY <3>1, <3>2, AgentRunAssumption DEF Success
    <3>4. Accept(r, "returned", [g EXCEPT !.rec = rec, !.status = s], degraded)
      BY <3>1, <3>2
    <3> DEFINE h == [g EXCEPT !.rec = rec, !.status = s]
    <3>5. h \in GraphDict /\ h.rec = rec /\ h.status = s /\ h.degraded = g.degraded
      BY <2>2
    <3> HIDE DEF h
    <3> QED BY <2>1, <2>3, <3>3, <3>4, <3>5, AcceptAnnounced DEF h
  <2> QED BY <2>4, <2>5
<1>15. CASE AnnounceResult(r)
  <2>1. pc[r] = "returned" /\ pc'[r] = "announced" /\ \A q \in Runs \ {r} : pc'[q] = pc[q]
    BY <1>15, GotoMoves DEF AnnounceResult
  <2>2. held'[r] = "final" /\ \A q \in Runs \ {r} : held'[q] = held[q]
    BY <1>15 DEF AnnounceResult, TypeOK
  <2>3. /\ Adds(events[r], events'[r], "completed", graph[r].status, graph[r].rec)
        /\ \A q \in Runs \ {r} : events'[q] = events[q]
    BY <1>0, <1>15, PublishAdds DEF AnnounceResult, EventTypes, TerminalEvents
  <2>4. graph' = graph /\ state' = state /\ stored' = stored /\ graph[r].rec # None
    BY <1>15 DEF AnnounceResult
  <2>5. Shown
    BY <1>0, <2>1, <2>3, <2>4 DEF Part, Shows, Adds, After
  <2>6. Told
    BY <1>0, <2>1, <2>2, <2>3, <2>4 DEF Part, Tells, Known, Adds, After
  <2> QED BY <2>1, <2>2, <2>3, <2>4, <2>5, <2>6, AloneKeeps DEF Part, Alone
<1>16. CASE AnnounceEmergency(r)
  <2>1. pc[r] = "returned" /\ pc'[r] = "announced" /\ \A q \in Runs \ {r} : pc'[q] = pc[q]
    BY <1>16, GotoMoves DEF AnnounceEmergency
  <2>2. held'[r] = "final" /\ \A q \in Runs \ {r} : held'[q] = held[q]
    BY <1>16 DEF AnnounceEmergency, TypeOK
  <2>3. /\ Adds(events[r], events'[r], "completed", "COMPLETED", None)
        /\ \A q \in Runs \ {r} : events'[q] = events[q]
    <3>1. CASE "redis" \in Faults /\ UNCHANGED events
      BY <3>1 DEF Adds
    <3>2. ASSUME NEW id \in EmergencyIds,
                 events' = [events EXCEPT ![r] = Append(@,
                   [id |-> id, type |-> "completed", status |-> "COMPLETED", rec |-> None])]
          PROVE  <2>3!1 /\ <2>3!2
      <4> DEFINE e == [id |-> id, type |-> "completed", status |-> "COMPLETED", rec |-> None]
      <4>1. /\ e \in Event /\ e.type = "completed" /\ e.status = "COMPLETED" /\ e.rec = None
        BY AgentRunAssumption, NoneIsOptional DEF Event, EventTypes, TerminalEvents, Statuses
      <4>2. events[r] \in Seq(Event)
        BY DEF TypeOK
      <4>3. events'[r] = Append(events[r], e) /\ \A q \in Runs \ {r} : events'[q] = events[q]
        BY <3>2 DEF TypeOK
      <4> HIDE DEF e
      <4>4. Adds(events[r], Append(events[r], e), e.type, e.status, e.rec)
        BY <4>1, <4>2, AppendAdds
      <4> QED BY <4>1, <4>3, <4>4
    <3> QED BY <1>16, <3>1, <3>2 DEF AnnounceEmergency
  <2>4. /\ graph'[r].status = "COMPLETED" /\ graph'[r].rec = graph[r].rec
        /\ graph'[r].degraded = graph[r].degraded /\ GraphAlone(r)
    BY <1>16, GraphStatusSet DEF AnnounceEmergency
  <2>5. state' = state /\ stored' = stored /\ graph[r].rec = None
    BY <1>16 DEF AnnounceEmergency
  <2>6. Shown
    BY <1>0, <2>1, <2>3, <2>4, <2>5 DEF Part, Shows, Adds
  <2>7. Told
    BY <1>0, <2>1, <2>2, <2>3, <2>4, <2>5 DEF Part, Tells, Known, Adds, After
  <2> QED BY <2>1, <2>2, <2>3, <2>4, <2>5, <2>6, <2>7, AloneKeeps DEF Part, Alone, GraphAlone
<1>17. CASE SaveNeedsInput(r) \/ SaveFinal(r)
  <2>1. /\ pc'[r] = "saving" /\ \A q \in Runs \ {r} : pc'[q] = pc[q]
        /\ pc[r] = "announced" \/ graph[r].status = "NEEDS_INPUT"
    BY <1>17, GotoMoves DEF SaveNeedsInput, SaveFinal
  <2>2. /\ held'[r] = "final" \/ (held'[r] = held[r] /\ pc[r] = "announced")
        /\ \A q \in Runs \ {r} : held'[q] = held[q]
    BY <1>17 DEF SaveNeedsInput, SaveFinal, TypeOK
  <2>3. /\ \/ stored'[r] = stored[r]
           \/ stored'[r].status = graph[r].status /\ stored'[r].rec = graph[r].rec
        /\ \A q \in Runs \ {r} : stored'[q] = stored[q]
    BY <1>17, SaveWrites DEF SaveNeedsInput, SaveFinal
  <2>4. graph' = graph /\ state' = state /\ events' = events
    BY <1>17 DEF SaveNeedsInput, SaveFinal
  <2>5. Shown
    BY <1>0, <2>1, <2>4 DEF Part, Shows, After
  <2>6. Told
    BY <1>0, <2>1, <2>2, <2>3, <2>4 DEF Part, Tells, Known, After, Success
  <2> QED BY <2>1, <2>2, <2>3, <2>4, <2>5, <2>6, AloneKeeps DEF Part, Alone
<1>18. CASE CancelledInTry(r)
  <2>1. pc'[r] = "closing" /\ \A q \in Runs \ {r} : pc'[q] = pc[q]
    BY <1>18, GotoMoves DEF CancelledInTry
  <2>2. state'[r].status = "CANCELLED" /\ \A q \in Runs \ {r} : state'[q] = state[q]
    BY <1>18, StateStatusSet DEF CancelledInTry
  <2>3. /\ stored'[r] = stored[r] \/ (stored'[r].status = "CANCELLED" /\ stored'[r].rec = None)
        /\ \A q \in Runs \ {r} : stored'[q] = stored[q]
    BY <1>18, SaveWrites DEF CancelledInTry
  <2>4. graph' = graph /\ held' = held /\ events' = events
    BY <1>18 DEF CancelledInTry
  <2>5. Shown
    BY <1>0, <2>1, <2>4 DEF Part, Shows, After
  <2>6. Told
    BY <1>0, <2>1, <2>2, <2>3, <2>4 DEF Part, Tells, Known, Success, After
  <2> QED BY <2>1, <2>2, <2>3, <2>4, <2>5, <2>6, AloneKeeps DEF Part, Alone
<1> QED
  BY <1>1, <1>2, <1>3, <1>4, <1>5, <1>6, <1>7, <1>8, <1>9, <1>10, <1>11, <1>12, <1>13,
     <1>14, <1>15, <1>16, <1>17, <1>18
     DEF RunStep

\* A cancel handler marks a dict that has no result yet, and saves what the dict says.
LEMMA CancellerStepAnnounced ==
  ASSUME TypeOK, AnnouncedInv, NEW c \in Cancellers, NEW r \in Runs,
         RequestCancel(c, r) \/ CancelStep(c, r)
  PROVE  AnnouncedInv'
<1>0. Part(r)
  BY DEF AnnouncedInv
<1> DEFINE Told == "redis" \notin Faults =>
      Tells(pc[r], held[r], state[r].status, graph[r].status, graph[r].rec, events[r],
            stored[r])'
           Shown == Shows(pc[r], graph[r].status, graph[r].rec, graph[r].degraded, events[r])'
<1>1. CASE RequestCancel(c, r) \/ CancelSettled(c, r)
  <2>1. /\ pc' = pc /\ held' = held /\ state' = state /\ graph' = graph /\ events' = events
        /\ stored' = stored
    BY <1>1 DEF RequestCancel, CancelSettled
  <2> QED BY <2>1 DEF AnnouncedInv, Part
<1>2. CASE CancelLive(c, r)
  <2>1. pc' = pc /\ held' = held /\ stored' = stored
    BY <1>2 DEF CancelLive
  <2>2. /\ Adds(events[r], events'[r], "failed", "CANCELLED", None)
        /\ \A q \in Runs \ {r} : events'[q] = events[q]
    BY <1>2, PublishAdds, NoneIsOptional DEF CancelLive, EventTypes, TerminalEvents, Statuses
  <2>3. CASE held[r] = "initial" /\ graph' = graph
             /\ state' = [state EXCEPT ![r].status = "CANCELLED"]
    <3>1. state'[r].status = "CANCELLED" /\ \A q \in Runs \ {r} : state'[q] = state[q]
      BY <2>3, StateStatusSet
    <3>2. Shown
      BY <1>0, <2>1, <2>2, <2>3 DEF Part, Shows, Adds
    <3>3. Told
      BY <1>0, <2>1, <2>2, <2>3, <3>1 DEF Part, Tells, Known, Adds, Success
    <3> QED BY <2>1, <2>2, <2>3, <3>1, <3>2, <3>3, AloneKeeps DEF Part, Alone
  <2>4. CASE held[r] = "final" /\ state' = state
             /\ graph' = [graph EXCEPT ![r].status = "CANCELLED"]
    <3>1. /\ graph'[r].status = "CANCELLED" /\ graph'[r].rec = graph[r].rec
          /\ graph'[r].degraded = graph[r].degraded /\ GraphAlone(r)
      BY <2>4, GraphStatusSet
    <3>2. graph[r].status \notin Success
      BY <1>2, <2>4 DEF CancelLive, HeldStatus, Cancellable, Success
    <3>3. Shown
      BY <1>0, <2>1, <2>2, <3>1 DEF Part, Shows, Adds
    <3>4. Told
      BY <1>0, <2>1, <2>2, <2>4, <3>1, <3>2 DEF Part, Tells, Known, Adds, Success
    <3> QED BY <2>1, <2>2, <2>4, <3>1, <3>3, <3>4, AloneKeeps DEF Part, Alone, GraphAlone
  <2> QED BY <1>2, <2>3, <2>4 DEF CancelLive
<1>3. CASE SaveCancel(c, r)
  <2>1. /\ pc' = pc /\ held' = held /\ state' = state /\ graph' = graph /\ events' = events
    BY <1>3 DEF SaveCancel
  <2>2. /\ \/ stored'[r] = stored[r]
           \/ stored'[r].status = state[r].status /\ stored'[r].rec = None
           \/ /\ held[r] = "final"
              /\ stored'[r].status = graph[r].status /\ stored'[r].rec = graph[r].rec
        /\ \A q \in Runs \ {r} : stored'[q] = stored[q]
    BY <1>3, SaveWrites DEF SaveCancel
  <2>3. Told
    BY <1>0, <2>1, <2>2 DEF Part, Tells, Known
  <2>4. Shown
    BY <1>0, <2>1 DEF Part
  <2> QED BY <2>1, <2>2, <2>3, <2>4, AloneKeeps DEF Part, Alone
<1> QED BY <1>1, <1>2, <1>3 DEF CancelStep

LEMMA NextAnnounced == TypeOK /\ AnnouncedInv /\ [Next]_vars => AnnouncedInv'
<1> SUFFICES ASSUME TypeOK, AnnouncedInv, [Next]_vars PROVE AnnouncedInv'
  OBVIOUS
<1>1. CASE \E r \in Runs : RunStep(r)
  BY <1>1, RunStepAnnounced
<1>2. CASE \E c \in Cancellers, r \in Runs : RequestCancel(c, r) \/ CancelStep(c, r)
  BY <1>2, CancellerStepAnnounced
<1>3. CASE Crash
  <2> SUFFICES ASSUME NEW r \in Runs PROVE Part(r)'
    BY DEF AnnouncedInv
  <2>1. /\ graph' = graph /\ state' = state /\ events' = events /\ stored' = stored
        /\ held'[r] = "none"
        /\ pc'[r] = IF pc[r] \in StartPCs \cup TaskPCs THEN "lost" ELSE pc[r]
    BY <1>3 DEF Crash
  <2>2. pc'[r] = "lost" \/ (pc'[r] = pc[r] /\ pc[r] \notin {"returned", "announced"})
    BY <2>1 DEF TaskPCs, TryPCs, GraphPCs
  <2>3. Part(r)
    BY DEF AnnouncedInv
  <2> QED BY <2>1, <2>2, <2>3 DEF Part, Shows, Tells, After
<1>4. CASE UNCHANGED vars
  BY <1>4 DEF vars, AnnouncedInv, Part
<1> QED BY <1>1, <1>2, <1>3, <1>4 DEF Next

LEMMA InitAnnounced == Init => AnnouncedInv
<1> SUFFICES ASSUME Init, NEW r \in Runs PROVE Part(r)
  BY DEF AnnouncedInv
<1>1. /\ pc[r] = "absent" /\ held[r] = "none" /\ state[r].status = "QUEUED"
      /\ graph[r].status = "RUNNING" /\ graph[r].rec = None /\ graph[r].degraded = FALSE
      /\ events[r] = <<>> /\ stored[r].status = None /\ stored[r].rec = None
  BY DEF Init, InitialState, InitialGraph, NoRow
<1>2. ~Logs(events[r], "degraded", "RUNNING") /\ ~ClaimsComplete(events[r])
  BY <1>1 DEF Logs, ClaimsComplete
<1>3. None \notin Statuses
  BY AgentRunAssumption
<1> QED BY <1>1, <1>2, <1>3 DEF Part, Shows, Tells, Known, Success, Statuses

\* A stored status was announced before, with its recommendation, unless Redis loses events:
\* a crash, a lost save or any cancellation does not make a poll see what a follower of the
\* stream was not told (runner.py, _save after publish).
THEOREM AnnouncedFirst == "redis" \notin Faults => (Spec => []StoredWasAnnounced)
<1> SUFFICES ASSUME "redis" \notin Faults PROVE Spec => []StoredWasAnnounced
  OBVIOUS
<1>1. AnnouncedInv => StoredWasAnnounced
  <2> SUFFICES ASSUME AnnouncedInv, NEW r \in Runs
               PROVE  StoredWasAnnounced!(r)
    BY DEF StoredWasAnnounced
  <2>1. Tells(pc[r], held[r], state[r].status, graph[r].status, graph[r].rec, events[r],
              stored[r])
    BY DEF AnnouncedInv, Part
  <2> QED BY <2>1 DEF Tells, Known, Logs, Completes, Logged
<1> QED
  BY <1>1, InitTypeOK, NextTypeOK, InitAnnounced, NextAnnounced, PTL DEF Spec

\* A run whose stream shows a degraded service is never announced as COMPLETED with a
\* recommendation, whichever events are lost (format_recommendation, degraded_services).
THEOREM DegradationCorrect == Spec => []DegradationIsShown
<1>1. AnnouncedInv => DegradationIsShown
  <2> SUFFICES ASSUME AnnouncedInv, NEW r \in Runs,
                      NEW i \in DOMAIN events[r],
                      events[r][i].status = "COMPLETED", events[r][i].rec # None
               PROVE  ~Logged(r, "degraded", "RUNNING")
    BY DEF DegradationIsShown
  <2>1. ClaimsComplete(events[r]) /\ Part(r)
    BY DEF ClaimsComplete, AnnouncedInv
  <2> QED BY <2>1 DEF Part, Shows, Logs, Logged
<1> QED
  BY <1>1, InitTypeOK, NextTypeOK, InitAnnounced, NextAnnounced, PTL DEF Spec
-----------------------------------------------------------------------------
(* The stored row implements RunRow.                                       *)

\* A cancel handler has announced the cancellation of r and has not saved it yet.
Unsaved(r) == \E c \in Cancellers : canceller[c] = [pc |-> "published", run |-> r]

StoredLive == {None, "QUEUED", "RUNNING", "CANCELLED"}
Waiting == {"accepted", "registered", "launched"}
\* The task has marked itself running, and its graph has not been answered for.
Driving == {"marked_running"} \cup GraphPCs

\* Nothing is cancelled unless the flag of the run is set, which is never taken back.
Marked(flagged, interrupted, unsaved, s, g, row) ==
  interrupted \/ unsaved \/ s = "CANCELLED" \/ g = "CANCELLED" \/ row = "CANCELLED" => flagged

\* The graph's dict is RUNNING until its last node; only a success has a recommendation.
Result(p, g, rec) ==
  /\ p \notin After => g = "RUNNING" /\ rec = None
  /\ rec # None => g \in Success
  /\ g = "PARTIAL" => rec # None

\* Where the task is, p, with its first node entered or not, and the dict held; the
\* statuses of the dict s, of the graph's dict g and of the row; whether the task is
\* interrupted, and a cancellation unsaved.
Stage(p, entered, h, s, g, interrupted, unsaved, row) ==
  /\ h = "none" => ~unsaved
  /\ p \in {"absent", "lost"} => h = "none"
  /\ p = "absent" => s = "QUEUED"
  /\ p \in {"absent", "accepted", "registered"} => ~interrupted
  /\ p \in {"absent", "marked_running"} \cup Waiting => ~entered
  /\ p = "accepted" => row \in {None, "CANCELLED"}
  /\ p \in Waiting =>
       /\ h = "initial" /\ s \in {"QUEUED", "CANCELLED"} /\ row \in {None, "QUEUED", "CANCELLED"}
       /\ s = "QUEUED" => ~unsaved /\ row # "CANCELLED" /\ ~interrupted
  /\ p \in Driving =>
       /\ h = "initial" /\ s \in {"RUNNING", "CANCELLED"} /\ row \in StoredLive
       /\ s = "CANCELLED" <=> interrupted
       /\ \/ p = "marked_running" \/ (p = "validate_input" /\ ~entered)
          \/ interrupted
          \/ ~unsaved /\ row # "CANCELLED"
  /\ p = "announced" =>
       h = "final" /\ g \in Success /\ ~unsaved /\ row \in {None, "QUEUED", "RUNNING"}
  /\ p = "saving" => h = "final"
  /\ p = "failing" => h = "initial" /\ s = "FAILED" /\ row \in StoredLive \cup {"FAILED"}
  /\ p \in {"closing", "done"} /\ h = "initial" =>
       s \in {"FAILED", "CANCELLED"} /\ row \in StoredLive \cup {"FAILED"}
  /\ h = "final" =>
       /\ p \in {"announced", "saving", "closing", "done"}
       /\ unsaved => g = "CANCELLED"

Orderly(r) ==
  /\ Marked(flag[r], cancelReq[r], Unsaved(r), state[r].status, graph[r].status,
            stored[r].status)
  /\ Result(pc[r], graph[r].status, graph[r].rec)
  /\ stored[r].rec # None => stored[r].status \in Success
  /\ Stage(pc[r], graph[r].entered, held[r], state[r].status, graph[r].status, cancelReq[r],
           Unsaved(r), stored[r].status)

OrderlyInv ==
  /\ \A r \in Runs : Orderly(r)
  /\ \A c \in Cancellers : \A r \in Runs :
       canceller[c].run = r /\ canceller[c].pc # "idle" => flag[r]

\* How RunRow lets a status, with a recommendation or not, move to another.
Moves(s, rec, s2, rec2, flagged) ==
  \/ s2 = s /\ rec2 = rec
  \/ s = None /\ s2 = "QUEUED" /\ ~rec2
  \/ s \in {None, "QUEUED"} /\ s2 = "RUNNING" /\ ~rec2
  \/ s = "CANCELLED" /\ flagged /\ s2 \in {"RUNNING", "FAILED"} /\ ~rec2
  \/ /\ s \in {None, "QUEUED", "RUNNING"}
     /\ \/ s2 = "COMPLETED" \/ (s2 = "PARTIAL" /\ rec2)
        \/ s2 \in {"NEEDS_INPUT", "FAILED"} /\ ~rec2
  \/ flagged /\ s2 = "CANCELLED" /\ ~rec2

RowMoves(r) ==
  Moves(stored[r].status, stored[r].rec # None, stored'[r].status, stored'[r].rec # None, flag[r])

\* A step of r, or of a handler that cancels it, leaves the others alone.
Apart(r) == \A q \in Runs \ {r} :
  /\ pc'[q] = pc[q] /\ held'[q] = held[q] /\ state'[q] = state[q] /\ graph'[q] = graph[q]
  /\ stored'[q] = stored[q] /\ cancelReq'[q] = cancelReq[q] /\ flag'[q] = flag[q]
  /\ Unsaved(q)' <=> Unsaved(q)

Step(r) == Orderly(r)' /\ RowMoves(r) /\ Apart(r)

LEMMA DrivingNames ==
  Driving = {"marked_running", "validate_input", "classify_intent", "check_required_fields",
             "fetch_external_data", "integrate_data", "build_evidence", "make_decision",
             "format_recommendation", "returned"}
BY DEF Driving, GraphPCs, Nodes, ToolNodes

\* What a step of the task itself leaves to be shown.
LEMMA TaskStep ==
  ASSUME TypeOK, NEW r \in Runs, Orderly(r), UNCHANGED <<flag, canceller>>,
         \A q \in Runs \ {r} :
           /\ pc'[q] = pc[q] /\ held'[q] = held[q] /\ state'[q] = state[q]
           /\ graph'[q] = graph[q] /\ stored'[q] = stored[q] /\ cancelReq'[q] = cancelReq[q],
         cancelReq'[r] => cancelReq[r],
         stored'[r].rec # None => stored'[r].status \in Success,
         state'[r].status = "CANCELLED" => state[r].status = "CANCELLED" \/ flag[r],
         graph'[r].status = "CANCELLED" => graph[r].status = "CANCELLED",
         stored'[r].status = "CANCELLED" => stored[r].status = "CANCELLED" \/ flag[r],
         Result(pc'[r], graph'[r].status, graph'[r].rec),
         Stage(pc'[r], graph'[r].entered, held'[r], state'[r].status, graph'[r].status,
               cancelReq'[r], Unsaved(r), stored'[r].status),
         RowMoves(r)
  PROVE  Step(r)
<1>1. /\ \A q \in Runs : Unsaved(q)' <=> Unsaved(q)
      /\ Unsaved(r)' = Unsaved(r)
  BY DEF Unsaved
<1>2. Marked(flag[r], cancelReq[r], Unsaved(r), state[r].status, graph[r].status,
             stored[r].status)'
  BY <1>1 DEF Orderly, Marked
<1>3. Orderly(r)'
  BY <1>1, <1>2 DEF Orderly
<1>4. Apart(r)
  BY <1>1 DEF Apart
<1> QED BY <1>3, <1>4 DEF Step

\* An except branch that fails the run: from a node, whoever else has announced what.
LEMMA FailOrderly ==
  ASSUME TypeOK, NEW r \in Runs, Orderly(r), Fail(r), GraphStays(r), GraphAlone(r),
         pc[r] \in Nodes
  PROVE  Step(r)
<1>1. state'[r].status = "FAILED" /\ \A q \in Runs \ {r} : state'[q] = state[q]
  BY StateStatusSet DEF Fail
<1>2. pc'[r] = "failing" /\ \A q \in Runs \ {r} : pc'[q] = pc[q]
  BY GotoMoves DEF Fail
<1>3. UNCHANGED <<held, stored, flag, canceller, cancelReq>>
  BY DEF Fail
<1>4. pc[r] \in Driving /\ pc[r] \notin After
  BY DEF Driving, GraphPCs, Nodes, ToolNodes, After
<1>5. Result(pc'[r], graph'[r].status, graph'[r].rec)
  BY <1>2, <1>4 DEF Orderly, Result, GraphStays
<1>6. Stage(pc'[r], graph'[r].entered, held'[r], state'[r].status, graph'[r].status,
            cancelReq'[r], Unsaved(r), stored'[r].status)
  BY <1>1, <1>2, <1>3, <1>4, DrivingNames DEF Orderly, Stage, Waiting
<1>7. RowMoves(r)
  BY <1>3 DEF RowMoves, Moves
<1> QED BY <1>1, <1>2, <1>3, <1>5, <1>6, <1>7, TaskStep DEF Orderly, GraphStays, GraphAlone

\* The except branch of a run that saw its cancel flag.
LEMMA StopOrderly ==
  ASSUME TypeOK, NEW r \in Runs, Orderly(r), StopCancelled(r), GraphStays(r), GraphAlone(r),
         pc[r] \in Nodes, flag[r]
  PROVE  Step(r)
<1>1. state'[r].status = "CANCELLED" /\ \A q \in Runs \ {r} : state'[q] = state[q]
  BY StateStatusSet DEF StopCancelled
<1>2. pc'[r] = "closing" /\ \A q \in Runs \ {r} : pc'[q] = pc[q]
  BY GotoMoves DEF StopCancelled
<1>3. /\ stored'[r] = stored[r] \/ (stored'[r].status = "CANCELLED" /\ stored'[r].rec = None)
      /\ \A q \in Runs \ {r} : stored'[q] = stored[q]
  BY SaveWrites DEF StopCancelled
<1>4. UNCHANGED <<held, flag, canceller, cancelReq>>
  BY DEF StopCancelled
<1>5. pc[r] \in Driving /\ pc[r] \notin After
  BY DEF Driving, GraphPCs, Nodes, ToolNodes, After
<1>6. Result(pc'[r], graph'[r].status, graph'[r].rec)
  BY <1>2, <1>5 DEF Orderly, Result, GraphStays
<1>7. Stage(pc'[r], graph'[r].entered, held'[r], state'[r].status, graph'[r].status,
            cancelReq'[r], Unsaved(r), stored'[r].status)
  BY <1>1, <1>2, <1>3, <1>4, <1>5, DrivingNames DEF Orderly, Stage, Waiting, StoredLive
<1>8. RowMoves(r)
  BY <1>3 DEF RowMoves, Moves
<1> QED
  BY <1>1, <1>2, <1>3, <1>4, <1>6, <1>7, <1>8, TaskStep DEF Orderly, GraphStays, GraphAlone

\* An accepted answer of any node.
LEMMA AcceptOrderly ==
  ASSUME TypeOK, NEW r \in Runs, Orderly(r), NEW next \in PCs, NEW g \in GraphDict,
         NEW degraded \in BOOLEAN, Accept(r, next, g, degraded),
         pc[r] \in ToolNodes, next \in Driving \ {"marked_running", "validate_input"},
         \/ g.rec = graph[r].rec /\ g.status = graph[r].status
         \/ next = "returned" /\ g.rec # None /\ g.status \in Success
  PROVE  Step(r)
<1>1. /\ graph'[r].status = g.status /\ graph'[r].rec = g.rec /\ GraphAlone(r)
  <2>1. PICK n \in Nat : n = g.tools + 1
    BY DEF GraphDict
  <2> DEFINE h == [g EXCEPT !.entered = FALSE, !.tools = n, !.degraded = @ \/ degraded]
  <2>2. h.status = g.status /\ h.rec = g.rec
    BY DEF GraphDict
  <2>3. graph' = [graph EXCEPT ![r] = h]
    BY <2>1 DEF Accept
  <2> QED BY <2>2, <2>3 DEF GraphAlone, TypeOK
<1>2. pc'[r] = next /\ \A q \in Runs \ {r} : pc'[q] = pc[q]
  BY GotoMoves DEF Accept
<1>3. UNCHANGED <<held, stored, state, flag, canceller, cancelReq>>
  BY DEF Accept
<1>4. pc[r] \in Driving /\ pc[r] \notin After /\ pc[r] \notin {"marked_running", "validate_input"}
  BY DEF Driving, GraphPCs, Nodes, ToolNodes, After
<1>5. Result(pc'[r], graph'[r].status, graph'[r].rec) /\ graph'[r].status # "CANCELLED"
  BY <1>1, <1>2, <1>4 DEF Orderly, Result, Success, After
<1>6. Stage(pc'[r], graph'[r].entered, held'[r], state'[r].status, graph'[r].status,
            cancelReq'[r], Unsaved(r), stored'[r].status)
  BY <1>2, <1>3, <1>4, DrivingNames DEF Orderly, Stage, Waiting
<1>7. RowMoves(r)
  BY <1>3 DEF RowMoves, Moves
<1> QED BY <1>1, <1>2, <1>3, <1>5, <1>6, <1>7, TaskStep DEF Orderly, GraphAlone

LEMMA RejectOrderly ==
  ASSUME TypeOK, NEW r \in Runs, Orderly(r), Reject(r), pc[r] \in Nodes
  PROVE  Step(r)
BY BookkeepingStays, FailOrderly DEF Reject

LEMMA RunStepOrderly ==
  ASSUME TypeOK, NEW r \in Runs, Orderly(r), RunStep(r)
  PROVE  Step(r)
<1> USE PCNames
<1>0. /\ graph[r] \in GraphDict /\ state[r] \in RunDict /\ stored[r] \in Row
      /\ graph[r].status \in Statuses /\ graph[r].rec \in Opt(Recommendation)
      /\ graph[r].entered \in BOOLEAN /\ cancelReq[r] \in BOOLEAN
      /\ None \notin Statuses
  BY AgentRunAssumption DEF TypeOK, GraphDict
<1> DEFINE Staged == Stage(pc'[r], graph'[r].entered, held'[r], state'[r].status,
                           graph'[r].status, cancelReq'[r], Unsaved(r), stored'[r].status)
           Resulting == Result(pc'[r], graph'[r].status, graph'[r].rec)
<1>1. CASE Start(r)
  <2>1. pc[r] = "absent" /\ pc'[r] = "accepted" /\ \A q \in Runs \ {r} : pc'[q] = pc[q]
    BY <1>1, GotoMoves DEF Start
  <2>2. state'[r].status = state[r].status /\ \A q \in Runs \ {r} : state'[q] = state[q]
    BY <1>0, <1>1 DEF Start, TypeOK, RunDict
  <2>3. held'[r] = "initial" /\ \A q \in Runs \ {r} : held'[q] = held[q]
    BY <1>1 DEF Start, TypeOK
  <2>4. UNCHANGED <<graph, stored, flag, canceller, cancelReq>> /\ stored[r].status = None
    BY <1>1 DEF Start
  <2>5. Staged
    BY <1>0, <2>1, <2>2, <2>3, <2>4, DrivingNames DEF Orderly, Stage, Waiting, Statuses
  <2>6. Resulting /\ RowMoves(r)
    BY <2>1, <2>4 DEF Orderly, Result, After, RowMoves, Moves
  <2> QED BY <2>1, <2>2, <2>3, <2>4, <2>5, <2>6, TaskStep DEF Orderly
<1>2. CASE Register(r)
  <2>1. pc[r] = "accepted" /\ pc'[r] = "registered" /\ \A q \in Runs \ {r} : pc'[q] = pc[q]
    BY <1>2, GotoMoves DEF Register
  <2>2. /\ \/ stored'[r] = stored[r]
           \/ stored'[r].status = state[r].status /\ stored'[r].rec = None
        /\ \A q \in Runs \ {r} : stored'[q] = stored[q]
    BY <1>2, SaveWrites DEF Register
  <2>3. UNCHANGED <<graph, state, held, flag, canceller, cancelReq>>
    BY <1>2 DEF Register
  <2>4. Staged
    BY <1>0, <2>1, <2>2, <2>3, DrivingNames DEF Orderly, Stage, Waiting
  <2>5. Resulting
    BY <2>1, <2>3 DEF Orderly, Result, After
  <2>6. RowMoves(r)
    BY <1>0, <2>1, <2>2 DEF Orderly, Stage, Marked, Waiting, RowMoves, Moves
  <2>7. stored'[r].status = "CANCELLED" => stored[r].status = "CANCELLED" \/ flag[r]
    BY <2>2 DEF Orderly, Marked
  <2> QED BY <2>1, <2>2, <2>3, <2>4, <2>5, <2>6, <2>7, TaskStep DEF Orderly
<1>3. CASE Launch(r)
  <2>1. pc[r] = "registered" /\ pc'[r] = "launched" /\ \A q \in Runs \ {r} : pc'[q] = pc[q]
    BY <1>3, GotoMoves DEF Launch
  <2>2. UNCHANGED <<graph, state, held, flag, canceller, cancelReq, stored>>
    BY <1>3 DEF Launch
  <2>3. Staged
    BY <1>0, <2>1, <2>2, DrivingNames DEF Orderly, Stage, Waiting
  <2>4. Resulting /\ RowMoves(r)
    BY <2>1, <2>2 DEF Orderly, Result, After, RowMoves, Moves
  <2> QED BY <2>1, <2>2, <2>3, <2>4, TaskStep DEF Orderly
<1>4. CASE MarkRunning(r)
  <2>1. pc[r] = "launched" /\ pc'[r] = "marked_running" /\ \A q \in Runs \ {r} : pc'[q] = pc[q]
    BY <1>4, GotoMoves DEF MarkRunning
  <2>2. state'[r].status = "RUNNING" /\ \A q \in Runs \ {r} : state'[q] = state[q]
    BY <1>4, StateStatusSet DEF MarkRunning
  <2>3. /\ stored'[r] = stored[r] \/ (stored'[r].status = "RUNNING" /\ stored'[r].rec = None)
        /\ \A q \in Runs \ {r} : stored'[q] = stored[q]
    BY <1>4, SaveWrites DEF MarkRunning
  <2>4. UNCHANGED <<graph, held, flag, canceller, cancelReq>> /\ ~cancelReq[r]
    BY <1>4 DEF MarkRunning, Runnable
  <2>5. Staged
    BY <1>0, <2>1, <2>2, <2>3, <2>4, DrivingNames DEF Orderly, Stage, Waiting, StoredLive
  <2>6. Resulting
    BY <2>1, <2>4 DEF Orderly, Result, After
  <2>7. RowMoves(r)
    BY <1>0, <2>1, <2>3 DEF Orderly, Stage, Marked, Waiting, RowMoves, Moves
  <2> QED BY <2>1, <2>2, <2>3, <2>4, <2>5, <2>6, <2>7, TaskStep DEF Orderly
<1>5. CASE Invoke(r)
  <2>1. /\ pc[r] = "marked_running" /\ pc'[r] = "validate_input"
        /\ \A q \in Runs \ {r} : pc'[q] = pc[q]
    BY <1>5, GotoMoves DEF Invoke
  <2>2. /\ graph'[r].status = state[r].status /\ graph'[r].rec = graph[r].rec
        /\ graph'[r].entered = graph[r].entered /\ GraphAlone(r)
    BY <1>0, <1>5 DEF Invoke, GraphAlone, TypeOK, GraphDict
  <2>3. UNCHANGED <<state, stored, held, flag, canceller, cancelReq>> /\ ~cancelReq[r]
    BY <1>5 DEF Invoke, Runnable
  <2>4. state[r].status = "RUNNING"
    BY <1>0, <2>1, <2>3, DrivingNames DEF Orderly, Stage
  <2>5. Staged
    BY <1>0, <2>1, <2>2, <2>3, <2>4, DrivingNames DEF Orderly, Stage, Waiting
  <2>6. Resulting /\ RowMoves(r)
    BY <2>1, <2>2, <2>3, <2>4 DEF Orderly, Result, After, RowMoves, Moves
  <2> QED BY <2>1, <2>2, <2>3, <2>4, <2>5, <2>6, TaskStep DEF Orderly, GraphAlone
<1>6. CASE EnterNode(r)
  <2>1. GraphStays(r) /\ GraphAlone(r) /\ graph'[r].entered = TRUE
    <3>1. graph'[r].entered = TRUE
      BY <1>0, <1>6 DEF EnterNode, TypeOK, GraphDict
    <3> QED BY <1>6, <3>1, BookkeepingStays DEF EnterNode
  <2>2. UNCHANGED <<pc, state, stored, held, flag, canceller, cancelReq>>
    BY <1>6 DEF EnterNode
  <2>3. pc[r] \in Nodes /\ ~flag[r] /\ ~cancelReq[r]
    BY <1>6 DEF EnterNode, Runnable
  <2>4. ~Unsaved(r) /\ stored[r].status # "CANCELLED"
    BY <2>3 DEF Orderly, Marked
  <2>5. Staged
    BY <1>0, <2>1, <2>2, <2>3, <2>4, DrivingNames DEF Orderly, Stage, Waiting, Nodes, ToolNodes
  <2>6. Resulting /\ RowMoves(r)
    BY <2>1, <2>2 DEF Orderly, Result, GraphStays, RowMoves, Moves
  <2> QED BY <2>1, <2>2, <2>5, <2>6, TaskStep DEF Orderly, GraphAlone, GraphStays
<1>7. CASE EnterCancelled(r)
  BY <1>7, BookkeepingStays, StopOrderly DEF EnterCancelled
<1>8. CASE EnterFails(r) \/ ToolFails(r) \/ Timeout(r)
  <2>1. GraphStays(r) /\ GraphAlone(r)
    BY <1>8, BookkeepingStays DEF EnterFails, ToolFails, Timeout
  <2>2. Fail(r) /\ pc[r] \in Nodes
    BY <1>8 DEF EnterFails, ToolFails, Timeout, Nodes
  <2> QED BY <2>1, <2>2, FailOrderly
<1>9. CASE Validated(r) \/ ClassifyIntent(r)
  <2>1. /\ \A q \in Runs \ {r} : pc'[q] = pc[q]
        /\ \/ pc[r] = "validate_input" /\ graph[r].entered /\ pc'[r] = "classify_intent"
           \/ pc[r] = "classify_intent" /\ pc'[r] = "check_required_fields"
    BY <1>9, GotoMoves DEF Validated, ClassifyIntent
  <2>2. GraphStays(r) /\ GraphAlone(r)
    BY <1>9, BookkeepingStays DEF Validated, ClassifyIntent
  <2>3. UNCHANGED <<state, stored, held, flag, canceller, cancelReq>>
    BY <1>9 DEF Validated, ClassifyIntent
  <2>4. Staged
    BY <1>0, <2>1, <2>2, <2>3, DrivingNames DEF Orderly, Stage, Waiting
  <2>5. Resulting /\ RowMoves(r)
    BY <2>1, <2>2, <2>3 DEF Orderly, Result, GraphStays, After, RowMoves, Moves
  <2> QED BY <2>1, <2>2, <2>3, <2>4, <2>5, TaskStep DEF Orderly, GraphAlone, GraphStays
<1>10. CASE CheckRequiredFields(r)
  <2>1. /\ pc[r] = "check_required_fields" /\ \A q \in Runs \ {r} : pc'[q] = pc[q]
        /\ pc'[r] \in {"returned", "build_evidence", "fetch_external_data"}
    BY <1>10, GotoMoves DEF CheckRequiredFields
  <2>2. UNCHANGED <<state, stored, held, flag, canceller, cancelReq>>
    BY <1>10 DEF CheckRequiredFields
  <2>3. /\ graph'[r].rec = graph[r].rec /\ GraphAlone(r)
        /\ \/ graph'[r].status = graph[r].status
           \/ pc'[r] = "returned" /\ graph'[r].status \in {"COMPLETED", "NEEDS_INPUT"}
    <3>1. CASE Goto(r, "returned") /\ \E s \in {"COMPLETED", "NEEDS_INPUT"} :
                                        graph' = [graph EXCEPT ![r].status = s]
      BY <3>1, GraphStatusSet, GotoMoves
    <3>2. CASE graph' = graph
      BY <3>2 DEF GraphAlone
    <3> QED BY <1>10, <3>1, <3>2 DEF CheckRequiredFields
  <2>4. Staged
    BY <1>0, <2>1, <2>2, DrivingNames DEF Orderly, Stage, Waiting
  <2>5. Resulting
    BY <2>1, <2>3 DEF Orderly, Result, After, Success
  <2>6. RowMoves(r)
    BY <2>2 DEF RowMoves, Moves
  <2> QED BY <2>1, <2>2, <2>3, <2>4, <2>5, <2>6, TaskStep DEF Orderly, GraphAlone
<1>11. CASE FetchExternalData(r)
  <2>1. pc[r] \in ToolNodes /\ "integrate_data" \in Driving \ {"marked_running", "validate_input"}
    BY <1>11, DrivingNames DEF FetchExternalData, Calling, ToolNodes
  <2> QED BY <1>0, <1>11, <2>1, AcceptOrderly DEF FetchExternalData
<1>12. CASE IntegrateData(r)
  <2>1. PICK g \in GraphDict : g = graph[r]
    BY <1>0
  <2>2. ASSUME NEW snap \in Snapshot
        PROVE  LET h == [g EXCEPT !.snap = snap] IN
               h \in GraphDict /\ h.rec = g.rec /\ h.status = g.status
    BY DEF GraphDict, Opt
  <2>3. /\ pc[r] \in ToolNodes /\ pc[r] \in Nodes
        /\ "build_evidence" \in Driving \ {"marked_running", "validate_input"}
    BY <1>12, DrivingNames DEF IntegrateData, Calling, ToolNodes, Nodes
  <2> QED BY <1>12, <2>1, <2>2, <2>3, AcceptOrderly, RejectOrderly DEF IntegrateData
<1>13. CASE BuildEvidence(r)
  <2>1. PICK g \in GraphDict : g = graph[r]
    BY <1>0
  <2>2. ASSUME NEW pkg \in Package
        PROVE  LET h == [g EXCEPT !.pkg = pkg] IN
               h \in GraphDict /\ h.rec = g.rec /\ h.status = g.status
    BY DEF GraphDict, Opt
  <2>3. /\ pc[r] \in ToolNodes /\ pc[r] \in Nodes
        /\ "make_decision" \in Driving \ {"marked_running", "validate_input"}
    BY <1>13, DrivingNames DEF BuildEvidence, Calling, ToolNodes, Nodes
  <2> QED BY <1>13, <2>1, <2>2, <2>3, AcceptOrderly, RejectOrderly DEF BuildEvidence
<1>14. CASE MakeDecision(r)
  <2>1. PICK g \in GraphDict : g = graph[r]
    BY <1>0
  <2>2. ASSUME NEW d \in Decision
        PROVE  LET h == [g EXCEPT !.decision = d] IN
               h \in GraphDict /\ h.rec = g.rec /\ h.status = g.status
    BY DEF GraphDict, Opt
  <2>3. /\ pc[r] \in ToolNodes /\ pc[r] \in Nodes
        /\ "format_recommendation" \in Driving \ {"marked_running", "validate_input"}
    BY <1>14, DrivingNames DEF MakeDecision, Calling, ToolNodes, Nodes
  <2> QED BY <1>14, <2>1, <2>2, <2>3, AcceptOrderly, RejectOrderly DEF MakeDecision
<1>15. CASE FormatRecommendation(r)
  <2>1. PICK g \in GraphDict : g = graph[r]
    BY <1>0
  <2>2. /\ pc[r] \in ToolNodes /\ pc[r] \in Nodes
        /\ "returned" \in Driving \ {"marked_running", "validate_input"}
    BY <1>15, DrivingNames DEF FormatRecommendation, Calling, ToolNodes, Nodes
  <2>3. CASE Reject(r)
    BY <2>2, <2>3, RejectOrderly
  <2>4. CASE ~Reject(r)
    <3>1. PICK rec \in Recommendation, partial \in BOOLEAN, degraded \in BOOLEAN :
            Accept(r, "returned",
              [g EXCEPT !.rec = rec,
                 !.status = IF partial \/ g.degraded THEN "PARTIAL" ELSE "COMPLETED"],
              degraded)
      BY <1>15, <2>1, <2>4 DEF FormatRecommendation
    <3>2. PICK s \in Success : s = IF partial \/ g.degraded THEN "PARTIAL" ELSE "COMPLETED"
      BY DEF Success
    <3> DEFINE h == [g EXCEPT !.rec = rec, !.status = s]
    <3>3. Accept(r, "returned", h, degraded)
      BY <3>1, <3>2
    <3>4. h \in GraphDict /\ h.rec = rec /\ h.status = s /\ rec # None
      BY AgentRunAssumption DEF GraphDict, Opt, Success, Statuses
    <3> HIDE DEF h
    <3> QED BY <2>2, <3>3, <3>4, AcceptOrderly
  <2> QED BY <2>3, <2>4
<1>16. CASE AnnounceResult(r) \/ AnnounceEmergency(r)
  <2>1. pc[r] = "returned" /\ pc'[r] = "announced" /\ \A q \in Runs \ {r} : pc'[q] = pc[q]
    BY <1>16, GotoMoves DEF AnnounceResult, AnnounceEmergency
  <2>2. held'[r] = "final" /\ \A q \in Runs \ {r} : held'[q] = held[q]
    BY <1>16 DEF AnnounceResult, AnnounceEmergency, TypeOK
  <2>3. /\ UNCHANGED <<state, stored, flag, canceller, cancelReq>> /\ ~cancelReq[r]
    BY <1>16 DEF AnnounceResult, AnnounceEmergency, Runnable
  <2>4. /\ graph'[r].rec = graph[r].rec /\ GraphAlone(r)
        /\ \/ graph'[r].status = graph[r].status /\ graph[r].rec # None
           \/ graph'[r].status = "COMPLETED"
    <3>1. CASE AnnounceResult(r)
      BY <3>1 DEF AnnounceResult, GraphAlone
    <3>2. CASE AnnounceEmergency(r)
      BY <3>2, GraphStatusSet DEF AnnounceEmergency
    <3> QED BY <1>16, <3>1, <3>2
  <2>5. graph'[r].status \in Success /\ Resulting
    BY <2>1, <2>4 DEF Orderly, Result, After, Success
  <2>6. Staged
    BY <1>0, <2>1, <2>2, <2>3, <2>5, DrivingNames DEF Orderly, Stage, Waiting, StoredLive
  <2>7. RowMoves(r)
    BY <2>3 DEF RowMoves, Moves
  <2> QED BY <2>1, <2>2, <2>3, <2>4, <2>5, <2>6, <2>7, TaskStep DEF Orderly, GraphAlone, Success
<1>17. CASE SaveNeedsInput(r) \/ SaveFinal(r)
  <2>1. /\ pc'[r] = "saving" /\ \A q \in Runs \ {r} : pc'[q] = pc[q]
        /\ pc[r] = "announced" \/ (pc[r] = "returned" /\ graph[r].status = "NEEDS_INPUT")
    BY <1>17, GotoMoves DEF SaveNeedsInput, SaveFinal
  <2>2. /\ held'[r] = "final" \/ (held'[r] = held[r] /\ pc[r] = "announced")
        /\ \A q \in Runs \ {r} : held'[q] = held[q]
    BY <1>17 DEF SaveNeedsInput, SaveFinal, TypeOK
  <2>3. /\ \/ stored'[r] = stored[r]
           \/ stored'[r].status = graph[r].status /\ stored'[r].rec = graph[r].rec
        /\ \A q \in Runs \ {r} : stored'[q] = stored[q]
    BY <1>17, SaveWrites DEF SaveNeedsInput, SaveFinal
  <2>4. UNCHANGED <<graph, state, flag, canceller, cancelReq>> /\ ~cancelReq[r]
    BY <1>17 DEF SaveNeedsInput, SaveFinal, Runnable
  <2>5. /\ stored[r].status \in {None, "QUEUED", "RUNNING"} /\ ~Unsaved(r)
        /\ graph[r].status \in Success \cup {"NEEDS_INPUT"}
    BY <1>0, <2>1, <2>4, DrivingNames DEF Orderly, Stage, StoredLive
  <2>6. Staged
    BY <1>0, <2>1, <2>2, <2>5, DrivingNames DEF Orderly, Stage, Waiting
  <2>7. Resulting
    BY <2>1, <2>4 DEF Orderly, Result, After
  <2>8. RowMoves(r) /\ (stored'[r].rec # None => stored'[r].status \in Success)
    BY <2>3, <2>5 DEF Orderly, Result, Success, RowMoves, Moves
  <2>9. stored'[r].status = "CANCELLED" => stored[r].status = "CANCELLED"
    BY <2>3, <2>5 DEF Success
  <2> QED BY <2>1, <2>2, <2>3, <2>4, <2>6, <2>7, <2>8, <2>9, TaskStep DEF Orderly
<1>18. CASE SaveFailure(r)
  <2>1. pc[r] = "failing" /\ pc'[r] = "closing" /\ \A q \in Runs \ {r} : pc'[q] = pc[q]
    BY <1>18, GotoMoves DEF SaveFailure
  <2>2. /\ \/ stored'[r] = stored[r]
           \/ stored'[r].status = state[r].status /\ stored'[r].rec = None
        /\ \A q \in Runs \ {r} : stored'[q] = stored[q]
    BY <1>18, SaveWrites DEF SaveFailure
  <2>3. UNCHANGED <<graph, state, held, flag, canceller, cancelReq>>
    BY <1>18 DEF SaveFailure
  <2>4. state[r].status = "FAILED" /\ stored[r].status \in StoredLive \cup {"FAILED"}
        /\ held[r] = "initial"
    BY <2>1 DEF Orderly, Stage
  <2>5. Staged
    BY <1>0, <2>1, <2>2, <2>3, <2>4, DrivingNames DEF Orderly, Stage, Waiting
  <2>6. Resulting
    BY <2>1, <2>3 DEF Orderly, Result, After
  <2>7. RowMoves(r)
    BY <1>0, <2>2, <2>4 DEF Orderly, Marked, StoredLive, Success, RowMoves, Moves
  <2> QED BY <2>1, <2>2, <2>3, <2>4, <2>5, <2>6, <2>7, TaskStep DEF Orderly
<1>19. CASE Close(r) \/ CancelledOutsideTry(r)
  <2>1. /\ pc'[r] = "done" /\ \A q \in Runs \ {r} : pc'[q] = pc[q]
        /\ \/ pc[r] \in {"saving", "closing"}
           \/ pc[r] \in OutsidePCs /\ cancelReq[r]
    BY <1>19, GotoMoves DEF Close, CancelledOutsideTry
  <2>2. UNCHANGED <<graph, state, held, flag, canceller, stored>>
    BY <1>19 DEF Close, CancelledOutsideTry
  <2>3. /\ cancelReq'[r] => cancelReq[r]
        /\ \A q \in Runs \ {r} : cancelReq'[q] = cancelReq[q]
    BY <1>19 DEF Close, CancelledOutsideTry, TypeOK
  <2>4. Staged
    BY <1>0, <2>1, <2>2, DrivingNames DEF Orderly, Stage, Waiting, OutsidePCs, StoredLive
  <2>5. Resulting /\ RowMoves(r)
    BY <2>1, <2>2 DEF Orderly, Result, After, RowMoves, Moves
  <2> QED BY <2>1, <2>2, <2>3, <2>4, <2>5, TaskStep DEF Orderly
<1>20. CASE CancelledInTry(r)
  <2>1. /\ pc'[r] = "closing" /\ \A q \in Runs \ {r} : pc'[q] = pc[q]
        /\ pc[r] \in TryPCs /\ cancelReq[r]
    BY <1>20, GotoMoves DEF CancelledInTry
  <2>2. state'[r].status = "CANCELLED" /\ \A q \in Runs \ {r} : state'[q] = state[q]
    BY <1>20, StateStatusSet DEF CancelledInTry
  <2>3. /\ stored'[r] = stored[r] \/ (stored'[r].status = "CANCELLED" /\ stored'[r].rec = None)
        /\ \A q \in Runs \ {r} : stored'[q] = stored[q]
    BY <1>20, SaveWrites DEF CancelledInTry
  <2>4. UNCHANGED <<graph, held, flag, canceller>>
    BY <1>20 DEF CancelledInTry
  <2>5. ~cancelReq'[r] /\ \A q \in Runs \ {r} : cancelReq'[q] = cancelReq[q]
    BY <1>20 DEF CancelledInTry, TypeOK
  <2>6. flag[r]
    BY <2>1 DEF Orderly, Marked
  <2>7. Staged
    BY <1>0, <2>1, <2>2, <2>3, <2>4, DrivingNames
       DEF Orderly, Stage, Waiting, TryPCs, GraphPCs, Nodes, ToolNodes, StoredLive
  <2>8. Resulting
    BY <2>1, <2>4 DEF Orderly, Result, After
  <2>9. RowMoves(r)
    BY <2>3, <2>6 DEF RowMoves, Moves
  <2> QED BY <2>1, <2>2, <2>3, <2>4, <2>5, <2>6, <2>7, <2>8, <2>9, TaskStep DEF Orderly
<1> QED
  BY <1>1, <1>2, <1>3, <1>4, <1>5, <1>6, <1>7, <1>8, <1>9, <1>10, <1>11, <1>12, <1>13,
     <1>14, <1>15, <1>16, <1>17, <1>18, <1>19, <1>20
     DEF RunStep

\* The task neither sets a flag nor moves a handler.
LEMMA TaskLeavesHandlers ==
  ASSUME NEW r \in Runs, RunStep(r)
  PROVE  UNCHANGED <<flag, canceller>>
BY DEF RunStep, Start, Register, Launch, MarkRunning, Invoke, EnterNode, EnterCancelled, EnterFails,
       StopCancelled, Fail, Validated, ClassifyIntent, CheckRequiredFields, FetchExternalData,
       IntegrateData, BuildEvidence, MakeDecision, FormatRecommendation, Accept, Reject, ToolFails,
       Timeout, AnnounceResult, AnnounceEmergency, SaveNeedsInput, SaveFinal, SaveFailure, Close,
       CancelledInTry, CancelledOutsideTry

\* A flagged handler marks a live dict, or answers; one that announced saves the dict.
LEMMA CancelStepOrderly ==
  ASSUME TypeOK, OrderlyInv, NEW c \in Cancellers, NEW r \in Runs, CancelStep(c, r)
  PROVE  Step(r) /\ flag' = flag
<1> USE PCNames
<1>0. /\ Orderly(r) /\ cancelReq[r] \in BOOLEAN /\ None \notin Statuses
      /\ canceller \in [Cancellers -> [pc : {"idle", "flagged", "published"}, run : Opt(Runs)]]
      /\ flag' = flag /\ pc' = pc /\ held' = held
  BY AgentRunAssumption DEF OrderlyInv, TypeOK, CancelStep, CancelLive, CancelSettled, SaveCancel
<1>1. \A q \in Runs \ {r} : Unsaved(q)' <=> Unsaved(q)
  <2>1. /\ \A d \in Cancellers \ {c} : canceller'[d] = canceller[d]
        /\ canceller[c].run = r
        /\ canceller'[c].pc = "published" => canceller'[c].run = r
    BY <1>0 DEF CancelStep, CancelLive, CancelSettled, SaveCancel
  <2> QED BY <2>1 DEF Unsaved
<1>2. CASE CancelLive(c, r)
  <2>1. canceller[c] = [pc |-> "flagged", run |-> r]
    BY <1>2 DEF CancelLive
  <2>2. flag[r]
    BY <2>1 DEF OrderlyInv
  <2>3. Unsaved(r)'
    <3>1. canceller'[c] = [pc |-> "published", run |-> r]
      BY <1>0, <1>2, <2>1 DEF CancelLive
    <3> QED BY <3>1 DEF Unsaved
  <2>4. stored' = stored /\ RowMoves(r)
    BY <1>2 DEF CancelLive, RowMoves, Moves
  <2>5. /\ cancelReq'[r] = (cancelReq[r] \/ pc[r] \in TaskPCs)
        /\ \A q \in Runs \ {r} : cancelReq'[q] = cancelReq[q]
    BY <1>2 DEF CancelLive, InterruptTask, TypeOK
  <2>6. Marked(flag[r], cancelReq[r], Unsaved(r), state[r].status, graph[r].status,
               stored[r].status)'
    BY <1>0, <2>2 DEF Marked
  <2>7. CASE held[r] = "initial" /\ graph' = graph
             /\ state' = [state EXCEPT ![r].status = "CANCELLED"]
    <3>1. state'[r].status = "CANCELLED" /\ \A q \in Runs \ {r} : state'[q] = state[q]
      BY <2>7, StateStatusSet
    <3>2. state[r].status \in Cancellable
      BY <1>2, <2>7 DEF CancelLive, HeldStatus
    <3>3. pc[r] \in Waiting \cup Driving
      BY <1>0, <2>7, <3>2, DrivingNames DEF Orderly, Stage, Waiting, Cancellable, TypeOK
    <3>4. pc[r] \in Driving => pc[r] \in TaskPCs
      BY DrivingNames DEF TaskPCs, TryPCs, OutsidePCs, GraphPCs, Nodes, ToolNodes
    <3>5. pc[r] \in {"accepted", "registered"} => pc[r] \notin TaskPCs
      BY DEF TaskPCs, TryPCs, OutsidePCs, GraphPCs, Nodes, ToolNodes
    <3>6. Stage(pc'[r], graph'[r].entered, held'[r], state'[r].status, graph'[r].status,
                cancelReq'[r], TRUE, stored'[r].status)
      BY <1>0, <2>4, <2>5, <2>7, <3>1, <3>3, <3>4, <3>5, DrivingNames DEF Orderly, Stage, Waiting
    <3>7. Result(pc[r], graph[r].status, graph[r].rec)'
      BY <1>0, <2>7 DEF Orderly
    <3>8. Orderly(r)'
      <4>1. Unsaved(r)' = TRUE
        BY <2>3 DEF Unsaved
      <4> QED BY <1>0, <2>4, <2>6, <3>6, <3>7, <4>1 DEF Orderly
    <3> QED BY <1>0, <1>1, <2>4, <2>5, <2>7, <3>1, <3>8 DEF Step, Apart
  <2>8. CASE held[r] = "final" /\ state' = state
             /\ graph' = [graph EXCEPT ![r].status = "CANCELLED"]
    <3>1. /\ graph'[r].status = "CANCELLED" /\ graph'[r].rec = graph[r].rec /\ GraphAlone(r)
      BY <2>8, GraphStatusSet
    <3>2. graph[r].status \in Cancellable
      BY <1>2, <2>8 DEF CancelLive, HeldStatus
    <3>3. /\ graph[r].rec = None /\ pc[r] \in {"saving", "closing", "done"}
          /\ graph'[r].entered = graph[r].entered
      BY <1>0, <2>8, <3>2 DEF Orderly, Stage, Result, Cancellable, Success, TypeOK, GraphDict
    <3>4. Stage(pc'[r], graph'[r].entered, held'[r], state'[r].status, graph'[r].status,
                cancelReq'[r], TRUE, stored'[r].status)
      BY <1>0, <2>4, <2>8, <3>1, <3>3, DrivingNames DEF Orderly, Stage, Waiting
    <3>5. Result(pc[r], graph[r].status, graph[r].rec)'
      BY <1>0, <3>1, <3>3 DEF Orderly, Result, After
    <3>6. Orderly(r)'
      <4>1. Unsaved(r)' = TRUE
        BY <2>3 DEF Unsaved
      <4> QED BY <1>0, <2>4, <2>6, <3>4, <3>5, <4>1 DEF Orderly
    <3> QED BY <1>0, <1>1, <2>4, <2>5, <2>8, <3>1, <3>6 DEF Step, Apart, GraphAlone
  <2> QED BY <1>2, <2>7, <2>8 DEF CancelLive
<1>3. CASE CancelSettled(c, r)
  <2>1. canceller[c] = [pc |-> "flagged", run |-> r] /\ HeldStatus(r) \notin Cancellable
    BY <1>3 DEF CancelSettled
  <2>2. flag[r]
    BY <2>1 DEF OrderlyInv
  <2>3. Unsaved(r)' <=> Unsaved(r)
    <3>1. /\ \A d \in Cancellers \ {c} : canceller'[d] = canceller[d]
          /\ canceller'[c].pc = "idle" /\ canceller[c].pc = "flagged"
      BY <1>0, <1>3, <2>1 DEF CancelSettled
    <3> QED BY <3>1 DEF Unsaved
  <2>4. UNCHANGED <<state, graph, stored>> /\ RowMoves(r)
    BY <1>3 DEF CancelSettled, RowMoves, Moves
  <2>5. /\ cancelReq'[r] = (cancelReq[r] \/ pc[r] \in TaskPCs)
        /\ \A q \in Runs \ {r} : cancelReq'[q] = cancelReq[q]
    BY <1>3 DEF CancelSettled, InterruptTask, TypeOK
  <2>6. pc[r] \in {"absent", "accepted", "registered"} => pc[r] \notin TaskPCs
    BY DEF TaskPCs, TryPCs, OutsidePCs, GraphPCs, Nodes, ToolNodes
  <2>7. held[r] = "initial" => state[r].status \notin Cancellable
    BY <2>1 DEF HeldStatus
  <2>8. Stage(pc'[r], graph'[r].entered, held'[r], state'[r].status, graph'[r].status,
              cancelReq'[r], Unsaved(r), stored'[r].status)
    BY <1>0, <2>4, <2>5, <2>6, <2>7, DrivingNames DEF Orderly, Stage, Waiting, Cancellable
  <2>9. Marked(flag[r], cancelReq[r], Unsaved(r), state[r].status, graph[r].status,
               stored[r].status)'
    BY <1>0, <2>2 DEF Marked
  <2>10. Orderly(r)'
    <3>1. Unsaved(r)' = Unsaved(r)
      BY <2>3 DEF Unsaved
    <3> QED BY <1>0, <2>4, <2>8, <2>9, <3>1 DEF Orderly
  <2> QED BY <1>0, <1>1, <2>4, <2>5, <2>10 DEF Step, Apart
<1>4. CASE SaveCancel(c, r)
  <2>1. canceller[c] = [pc |-> "published", run |-> r] /\ Unsaved(r)
    BY <1>4 DEF SaveCancel, Unsaved
  <2>2. flag[r]
    BY <2>1 DEF OrderlyInv
  <2>3. UNCHANGED <<state, graph, cancelReq>>
    BY <1>4 DEF SaveCancel
  <2>4. /\ \/ stored'[r] = stored[r]
           \/ /\ held[r] = "initial"
              /\ stored'[r].status = state[r].status /\ stored'[r].rec = None
           \/ /\ held[r] = "final"
              /\ stored'[r].status = graph[r].status /\ stored'[r].rec = graph[r].rec
        /\ \A q \in Runs \ {r} : stored'[q] = stored[q]
    BY <1>4, SaveWrites DEF SaveCancel
  <2>5. /\ held[r] = "final" => graph[r].status = "CANCELLED" /\ graph[r].rec = None
        /\ held[r] = "initial" => pc[r] \in Waiting \cup Driving \cup {"failing", "closing", "done"}
    BY <1>0, <2>1, DrivingNames DEF Orderly, Stage, Result, Success, Waiting, TypeOK
  <2>6. RowMoves(r)
    <3>1. CASE stored'[r] = stored[r]
      BY <3>1 DEF RowMoves, Moves
    <3>2. CASE /\ held[r] = "initial"
               /\ stored'[r].status = state[r].status /\ stored'[r].rec = None
      <4>1. CASE pc[r] \in Waiting
        BY <1>0, <2>1, <2>2, <3>2, <4>1 DEF Orderly, Stage, RowMoves, Moves
      <4>2. CASE pc[r] \in Driving
        BY <1>0, <2>1, <2>2, <3>2, <4>2 DEF Orderly, Stage, StoredLive, Success, RowMoves, Moves
      <4>3. CASE pc[r] \in {"failing", "closing", "done"}
        BY <1>0, <2>1, <2>2, <3>2, <4>3 DEF Orderly, Stage, StoredLive, Success, RowMoves, Moves
      <4> QED BY <2>5, <3>2, <4>1, <4>2, <4>3
    <3>3. CASE /\ held[r] = "final"
               /\ stored'[r].status = graph[r].status /\ stored'[r].rec = graph[r].rec
      BY <2>2, <2>5, <3>3 DEF RowMoves, Moves
    <3> QED BY <2>4, <3>1, <3>2, <3>3
  <2>7. ASSUME NEW unsaved, unsaved => Unsaved(r)
        PROVE  Stage(pc'[r], graph'[r].entered, held'[r], state'[r].status, graph'[r].status,
                     cancelReq'[r], unsaved, stored'[r].status)
    BY <1>0, <2>1, <2>3, <2>4, <2>5, <2>7, DrivingNames
       DEF Orderly, Stage, Waiting, StoredLive, Success
  <2>8. Marked(flag[r], cancelReq[r], Unsaved(r), state[r].status, graph[r].status,
               stored[r].status)'
    BY <1>0, <2>2 DEF Marked
  <2>9. stored'[r].rec # None => stored'[r].status \in Success
    BY <1>0, <2>4, <2>5 DEF Orderly
  <2>10. Orderly(r)'
    BY <1>0, <2>1, <2>3, <2>7, <2>8, <2>9 DEF Orderly
  <2> QED BY <1>0, <1>1, <2>3, <2>4, <2>6, <2>10 DEF Step, Apart
<1> QED BY <1>0, <1>2, <1>3, <1>4 DEF CancelStep

-----------------------------------------------------------------------------
(* From one run to all, and to RunRow.                                     *)

LEMMA StepKeeps ==
  ASSUME OrderlyInv, NEW r \in Runs, Step(r)
  PROVE  \A q \in Runs : Orderly(q)'
<1> SUFFICES ASSUME NEW q \in Runs \ {r} PROVE Orderly(q)'
  BY DEF Step
<1>1. Unsaved(q)' = Unsaved(q)
  BY DEF Step, Apart, Unsaved
<1>2. Orderly(q)
  BY DEF OrderlyInv
<1> QED BY <1>1, <1>2 DEF Step, Apart, Orderly

LEMMA InitOrderly == Init => OrderlyInv
<1> SUFFICES ASSUME Init PROVE OrderlyInv
  OBVIOUS
<1>1. ASSUME NEW r \in Runs PROVE Orderly(r)
  <2>1. /\ pc[r] = "absent" /\ held[r] = "none" /\ state[r].status = "QUEUED"
        /\ graph[r].status = "RUNNING" /\ graph[r].rec = None /\ graph[r].entered = FALSE
        /\ stored[r].status = None /\ stored[r].rec = None /\ cancelReq[r] = FALSE
    BY DEF Init, InitialState, InitialGraph, NoRow
  <2>2. ~Unsaved(r) /\ None \notin Statuses
    BY AgentRunAssumption DEF Init, Unsaved
  <2> QED BY <2>1, <2>2, DrivingNames
          DEF Orderly, Marked, Result, Stage, After, Waiting, Statuses, Success
<1>2. \A c \in Cancellers : canceller[c].pc = "idle"
  BY DEF Init
<1> QED BY <1>1, <1>2 DEF OrderlyInv

FlagsAreSet ==
  \A c \in Cancellers : \A r \in Runs : canceller[c].run = r /\ canceller[c].pc # "idle" => flag[r]

LEMMA CrashOrderly ==
  ASSUME TypeOK, OrderlyInv, Crash
  PROVE  OrderlyInv'
<1>1. \A c \in Cancellers : canceller'[c].pc = "idle"
  BY DEF Crash
<1>2. ASSUME NEW r \in Runs PROVE Orderly(r)'
  <2>1. /\ UNCHANGED <<graph, state, flag, stored>>
        /\ held'[r] = "none" /\ ~cancelReq'[r]
        /\ pc'[r] = IF pc[r] \in StartPCs \cup TaskPCs THEN "lost" ELSE pc[r]
    BY DEF Crash
  <2>2. ~Unsaved(r)'
    BY <1>1 DEF Unsaved
  <2>3. pc'[r] = "lost" \/ (pc'[r] = pc[r] /\ pc[r] \in {"absent", "done", "lost"})
    BY <2>1 DEF TypeOK, PCs
  <2>4. Orderly(r)
    BY DEF OrderlyInv
  <2>5. Stage(pc'[r], graph'[r].entered, held'[r], state'[r].status, graph'[r].status,
              cancelReq'[r], FALSE, stored'[r].status)
    BY <2>1, <2>3, <2>4, DrivingNames DEF Orderly, Stage, Waiting
  <2>6. Result(pc[r], graph[r].status, graph[r].rec)'
    BY <2>1, <2>3, <2>4 DEF Orderly, Result, After
  <2>7. Marked(flag[r], cancelReq[r], Unsaved(r), state[r].status, graph[r].status,
               stored[r].status)'
    BY <2>1, <2>2, <2>4 DEF Orderly, Marked
  <2>8. Unsaved(r)' = FALSE
    BY <2>2 DEF Unsaved
  <2> QED BY <2>1, <2>4, <2>5, <2>6, <2>7, <2>8 DEF Orderly
<1> QED BY <1>1, <1>2 DEF OrderlyInv

LEMMA RequestOrderly ==
  ASSUME TypeOK, OrderlyInv, NEW c \in Cancellers, NEW r \in Runs, RequestCancel(c, r)
  PROVE  OrderlyInv'
<1>1. /\ UNCHANGED <<pc, held, state, graph, cancelReq, stored>>
      /\ flag' = [flag EXCEPT ![r] = TRUE]
      /\ canceller[c].pc = "idle"
      /\ canceller'[c] = [pc |-> "flagged", run |-> r]
      /\ \A d \in Cancellers \ {c} : canceller'[d] = canceller[d]
  BY DEF RequestCancel, TypeOK
<1>2. \A q \in Runs : flag[q] => flag'[q]
  BY <1>1 DEF TypeOK
<1>3. ASSUME NEW q \in Runs PROVE Orderly(q)'
  <2>1. Unsaved(q)' = Unsaved(q)
    BY <1>1 DEF Unsaved
  <2>2. Orderly(q)
    BY DEF OrderlyInv
  <2>3. Marked(flag'[q], cancelReq[q], Unsaved(q), state[q].status, graph[q].status,
               stored[q].status)
    BY <1>2, <2>2 DEF Orderly, Marked
  <2> QED BY <1>1, <2>1, <2>2, <2>3 DEF Orderly
<1>4. ASSUME NEW d \in Cancellers, NEW q \in Runs, canceller'[d].run = q,
             canceller'[d].pc # "idle"
      PROVE  flag'[q]
  <2>1. CASE d = c
    BY <1>1, <1>4, <2>1 DEF TypeOK
  <2>2. CASE d # c
    BY <1>1, <1>2, <1>4, <2>2 DEF OrderlyInv
  <2> QED BY <2>1, <2>2
<1> QED BY <1>3, <1>4 DEF OrderlyInv

LEMMA CancelFlags ==
  ASSUME TypeOK, OrderlyInv, NEW c \in Cancellers, NEW r \in Runs, CancelStep(c, r)
  PROVE  FlagsAreSet'
<1>1. flag' = flag /\ canceller[c].run = r /\ canceller[c].pc # "idle"
  BY DEF CancelStep, CancelLive, CancelSettled, SaveCancel
<1>2. /\ \A d \in Cancellers \ {c} : canceller'[d] = canceller[d]
      /\ canceller'[c].pc = "idle" \/ canceller'[c].run = r
  BY <1>1 DEF CancelStep, CancelLive, CancelSettled, SaveCancel, TypeOK
<1> SUFFICES ASSUME NEW d \in Cancellers, NEW q \in Runs, canceller'[d].run = q,
                    canceller'[d].pc # "idle"
             PROVE  flag[q]
  BY <1>1 DEF FlagsAreSet
<1>3. CASE d = c
  BY <1>1, <1>2, <1>3 DEF OrderlyInv
<1>4. CASE d # c
  BY <1>2, <1>4 DEF OrderlyInv
<1> QED BY <1>3, <1>4

LEMMA NextOrderly == TypeOK /\ OrderlyInv /\ [Next]_vars => OrderlyInv'
<1> SUFFICES ASSUME TypeOK, OrderlyInv, [Next]_vars PROVE OrderlyInv'
  OBVIOUS
<1>1. ASSUME NEW r \in Runs, RunStep(r) PROVE OrderlyInv'
  <2>1. UNCHANGED <<flag, canceller>>
    BY <1>1, TaskLeavesHandlers
  <2>2. Step(r)
    BY <1>1, RunStepOrderly DEF OrderlyInv
  <2> QED BY <2>1, <2>2, StepKeeps DEF OrderlyInv
<1>2. ASSUME NEW c \in Cancellers, NEW r \in Runs, CancelStep(c, r) PROVE OrderlyInv'
  <2>1. Step(r)
    BY <1>2, CancelStepOrderly
  <2> QED BY <1>2, <2>1, StepKeeps, CancelFlags DEF OrderlyInv, FlagsAreSet
<1>3. CASE UNCHANGED vars
  BY <1>3 DEF vars, OrderlyInv, Orderly, Unsaved
<1> QED BY <1>1, <1>2, <1>3, CrashOrderly, RequestOrderly DEF Next

StoredRow == [r \in Runs |-> [status |-> stored[r].status, rec |-> stored[r].rec # None]]

\* What RunRow lets one row do.
LEMMA RowMovesImplement ==
  ASSUME NEW r \in Runs, RowMoves(r), flag' = flag,
         \A q \in Runs \ {r} : stored'[q] = stored[q]
  PROVE  RunRowSpec!Next \/ (StoredRow' = StoredRow /\ flag' = flag)
<1> DEFINE old == [status |-> stored[r].status, rec |-> stored[r].rec # None]
           new == [status |-> stored'[r].status, rec |-> stored'[r].rec # None]
<1>1. /\ StoredRow[r].status = old.status
      /\ StoredRow' = [StoredRow EXCEPT ![r] = new]
  BY DEF StoredRow
<1>2. Moves(old.status, old.rec, new.status, new.rec, flag[r])
  BY DEF RowMoves
<1>3. /\ new = [status |-> new.status, rec |-> new.rec] /\ new.rec \in BOOLEAN
      /\ old = [status |-> old.status, rec |-> old.rec]
      /\ StoredRow = [StoredRow EXCEPT ![r] = old]
  BY DEF StoredRow
<1> HIDE DEF old, new
<1>4. CASE new.status = old.status /\ new.rec = old.rec
  BY <1>1, <1>3, <1>4
<1>5. CASE old.status = None /\ new.status = "QUEUED" /\ ~new.rec
  BY <1>1, <1>3, <1>5 DEF RunRowSpec!Next, RunRowSpec!Accept, RunRowSpec!Set, StoredRow
<1>6. CASE /\ new.status = "RUNNING" /\ ~new.rec
           /\ old.status \in {None, "QUEUED"} \/ (old.status = "CANCELLED" /\ flag[r])
  BY <1>1, <1>3, <1>6 DEF RunRowSpec!Next, RunRowSpec!Work, RunRowSpec!Set, StoredRow
<1>7. CASE flag[r] /\ new.status = "CANCELLED" /\ ~new.rec
  BY <1>1, <1>3, <1>7 DEF RunRowSpec!Next, RunRowSpec!Stop, RunRowSpec!Set, StoredRow
<1>8. CASE \/ /\ old.status \in {None, "QUEUED", "RUNNING"}
              /\ \/ new.status = "COMPLETED" \/ (new.status = "PARTIAL" /\ new.rec)
                 \/ new.status \in {"NEEDS_INPUT", "FAILED"} /\ ~new.rec
           \/ old.status = "CANCELLED" /\ flag[r] /\ new.status = "FAILED" /\ ~new.rec
  <2>1. new \in RunRowSpec!Verdicts
    BY <1>3, <1>8 DEF RunRowSpec!Verdicts
  <2>2. None # "CANCELLED"
    BY AgentRunAssumption DEF AgentRunAssumption, Statuses
  <2> QED BY <1>1, <1>8, <2>1, <2>2 DEF RunRowSpec!Next, RunRowSpec!Settle, StoredRow
<1> QED BY <1>2, <1>4, <1>5, <1>6, <1>7, <1>8 DEF Moves

LEMMA StepImplements ==
  ASSUME NEW r \in Runs, Step(r), flag' = flag
  PROVE  RunRowSpec!Next \/ (StoredRow' = StoredRow /\ flag' = flag)
<1>1. RowMoves(r)
  BY DEF Step
<1>2. \A q \in Runs \ {r} : stored'[q] = stored[q]
  BY DEF Step, Apart
<1> QED BY <1>1, <1>2, RowMovesImplement

LEMMA NextImplements ==
  TypeOK /\ OrderlyInv /\ [Next]_vars => [RunRowSpec!Next]_RunRowSpec!vars
<1> SUFFICES ASSUME TypeOK, OrderlyInv, [Next]_vars
             PROVE  RunRowSpec!Next \/ (StoredRow' = StoredRow /\ flag' = flag)
  BY DEF RunRowSpec!vars, StoredRow
<1>1. ASSUME NEW r \in Runs, RunStep(r)
      PROVE  RunRowSpec!Next \/ (StoredRow' = StoredRow /\ flag' = flag)
  <2>1. Step(r) /\ flag' = flag
    BY <1>1, RunStepOrderly, TaskLeavesHandlers DEF OrderlyInv
  <2> QED BY <2>1, StepImplements
<1>2. ASSUME NEW c \in Cancellers, NEW r \in Runs, CancelStep(c, r)
      PROVE  RunRowSpec!Next \/ (StoredRow' = StoredRow /\ flag' = flag)
  <2>1. Step(r) /\ flag' = flag
    BY <1>2, CancelStepOrderly
  <2> QED BY <2>1, StepImplements
<1>3. ASSUME NEW c \in Cancellers, NEW r \in Runs, RequestCancel(c, r)
      PROVE  RunRowSpec!Next
  <2>1. stored' = stored /\ flag' = [flag EXCEPT ![r] = TRUE]
    BY <1>3 DEF RequestCancel
  <2>2. RunRowSpec!AskCancel(r)
    BY <2>1 DEF RunRowSpec!AskCancel
  <2> QED BY <2>2 DEF RunRowSpec!Next
<1>4. CASE Crash \/ UNCHANGED vars
  BY <1>4 DEF Crash, vars, StoredRow
<1> QED BY <1>1, <1>2, <1>3, <1>4 DEF Next

\* What a poll reads implements RunRow, on which the API's side is built: for any runs and
\* cancel handlers, whatever they save in which order and whatever is lost, the stored
\* status never goes back, except that a cancellation somebody asked for overtakes it.
THEOREM RowImplemented == Spec => ImplementsRunRow
<1>1. Init => RunRowSpec!Init
  <2> SUFFICES ASSUME Init PROVE RunRowSpec!Init
    OBVIOUS
  <2>1. \A r \in Runs : stored[r].status = None /\ (stored[r].rec # None) = FALSE
    BY DEF Init, NoRow
  <2>2. flag = [r \in Runs |-> FALSE]
    BY DEF Init
  <2> QED BY <2>1, <2>2 DEF RunRowSpec!Init
<1>2. TypeOK /\ OrderlyInv /\ [Next]_vars => [RunRowSpec!Next]_RunRowSpec!vars
  BY NextImplements
<1> QED
  BY <1>1, <1>2, InitTypeOK, NextTypeOK, InitOrderly, NextOrderly, PTL
     DEF Spec, ImplementsRunRow, RunRowSpec!Spec

-----------------------------------------------------------------------------
(* What a follower of a run's progress stream is told: AgentRun implements  *)
(* RunOutcome, and a terminal event settles the stream.  Both need a Redis *)
(* that answers (a cancelled run whose flag cannot be read fails, and says *)
(* so) and a step budget that lets the first node start.                   *)

Reliable == "redis" \notin Faults /\ MaxSteps > 0

Completed(ev) == \E i \in DOMAIN ev : ev[i].type = "completed"
Failed(ev)    == Logs(ev, "failed", "FAILED")
Stopped(ev)   == Logs(ev, "failed", "CANCELLED")
Asked(ev)     == Logs(ev, "needs_input", "NEEDS_INPUT")

\* The verdicts an event of a terminal type may carry.
Verdict(type, status) ==
  /\ type = "completed" => status \in Success
  /\ type = "failed" => status \in {"FAILED", "CANCELLED"}
WellTold(ev) == \A i \in DOMAIN ev : Verdict(ev[i].type, ev[i].status)

\* The first node has not been entered: the budget is untouched, the flag not yet read.
Before(p, entered) ==
  p \in {"absent", "marked_running"} \cup Waiting \/ (p = "validate_input" /\ ~entered)

\* What the stream ev says of the task at p, with its node entered or not, its steps, the
\* dict held, the statuses s and g of the two dicts, interrupted or not, its flag set or not.
Told(p, entered, steps, h, s, g, interrupted, flagged, ev) ==
  /\ WellTold(ev)
  /\ p = "absent" <=> ev = <<>>
  /\ Before(p, entered) => steps = 0
  /\ Completed(ev) =>
       /\ ~Failed(ev) /\ ~Stopped(ev)
       /\ p \in {"announced", "saving", "closing", "done", "lost"}
       /\ h # "initial" /\ (h = "final" => g \in Success)
  /\ Failed(ev) =>
       /\ ~Stopped(ev)
       /\ p \in {"failing", "closing", "done", "lost"}
       /\ h # "final" /\ (h = "initial" => s = "FAILED")
  /\ Stopped(ev) =>
       /\ flagged /\ p \notin {"announced", "failing"}
       /\ p \in Driving => interrupted \/ Before(p, entered)
  /\ Asked(ev) =>
       /\ ~Completed(ev) /\ ~Failed(ev)
       /\ p \in {"returned", "saving", "closing", "done", "lost"}
       /\ p = "returned" => g = "NEEDS_INPUT"
       /\ h = "final" => g \in {"NEEDS_INPUT", "CANCELLED"}

ToldOf(r) == Told(pc[r], graph[r].entered, graph[r].steps, held[r], state[r].status,
                  graph[r].status, cancelReq[r], flag[r], events[r])
ToldInv == \A r \in Runs : ToldOf(r)

\* The next event a stream may get: run.accepted first, nothing after a verdict or a
\* question but a cancellation, and that only after a question or another cancellation.
Permits(ev, type, status) ==
  /\ Verdict(type, status)
  /\ type = "needs_input" => status = "NEEDS_INPUT"
  /\ type = "accepted" <=> ev = <<>>
  /\ ~Completed(ev) /\ ~Failed(ev)
  /\ Stopped(ev) \/ Asked(ev) => type = "failed" /\ status = "CANCELLED"

EventOf(r, type, status, rec) ==
  [id |-> counter[r] + 1, type |-> type, status |-> status, rec |-> rec]

\* What one step does to r's stream.
Speaks(r) ==
  \/ events'[r] = events[r]
  \/ \E e \in Event :
       /\ events'[r] = Append(events[r], e)
       /\ Permits(events[r], e.type, e.status)
       /\ Stopped(events[r]) => e = EventOf(r, "failed", "CANCELLED", None)

-----------------------------------------------------------------------------
(* Appending an event.                                                     *)

\* ev2 is ev with one more event, as far as Told can tell.
Grows(ev, ev2, type, status) ==
  /\ ev2 # <<>>
  /\ WellTold(ev) /\ Verdict(type, status) => WellTold(ev2)
  /\ Completed(ev2) <=> Completed(ev) \/ type = "completed"
  /\ Failed(ev2) <=> Failed(ev) \/ (type = "failed" /\ status = "FAILED")
  /\ Stopped(ev2) <=> Stopped(ev) \/ (type = "failed" /\ status = "CANCELLED")
  /\ Asked(ev2) <=> Asked(ev) \/ (type = "needs_input" /\ status = "NEEDS_INPUT")

LEMMA AppendGrows ==
  ASSUME NEW ev \in Seq(Event), NEW e \in Event
  PROVE  Grows(ev, Append(ev, e), e.type, e.status)
<1> DEFINE ev2 == Append(ev, e)
<1>1. DOMAIN ev2 = DOMAIN ev \cup {Len(ev) + 1} /\ ev2[Len(ev) + 1] = e /\ ev2 # <<>>
        /\ \A i \in DOMAIN ev : ev2[i] = ev[i]
  OBVIOUS
<1> HIDE DEF ev2
<1>2. \A t, s : Logs(ev2, t, s) <=> Logs(ev, t, s) \/ (e.type = t /\ e.status = s)
  BY <1>1 DEF Logs
<1>3. Completed(ev2) <=> Completed(ev) \/ e.type = "completed"
  BY <1>1 DEF Completed
<1>4. WellTold(ev) /\ Verdict(e.type, e.status) => WellTold(ev2)
  BY <1>1 DEF WellTold
<1>5. Grows(ev, ev2, e.type, e.status)
  BY <1>1, <1>2, <1>3, <1>4 DEF Grows, Failed, Stopped, Asked
<1> QED BY <1>5 DEF ev2

LEMMA PublishGrows ==
  ASSUME TypeOK, Reliable, NEW r \in Runs, NEW type \in EventTypes, NEW status \in Statuses,
         NEW rec \in Opt(Recommendation), Publish(r, type, status, rec)
  PROVE  /\ Grows(events[r], events'[r], type, status)
         /\ \A q \in Runs \ {r} : events'[q] = events[q]
         /\ Permits(events[r], type, status) /\ (Stopped(events[r]) => rec = None) => Speaks(r)
<1> DEFINE e == EventOf(r, type, status, rec)
<1>1. /\ e \in Event /\ e.type = type /\ e.status = status
      /\ e = EventOf(r, e.type, e.status, rec)
  BY DEF TypeOK, Event, EventOf
<1>2. events[r] \in Seq(Event)
  BY DEF TypeOK
<1>3. events' = [events EXCEPT ![r] = Append(@, e)]
  BY DEF Publish, Reliable, EventOf
<1> HIDE DEF e
<1>4. events'[r] = Append(events[r], e) /\ \A q \in Runs \ {r} : events'[q] = events[q]
  BY <1>3 DEF TypeOK
<1>5. ASSUME Permits(events[r], type, status), Stopped(events[r]) => rec = None
      PROVE  Speaks(r)
  <2>1. Stopped(events[r]) => e = EventOf(r, "failed", "CANCELLED", None)
    BY <1>1, <1>5 DEF Permits
  <2> QED BY <1>1, <1>4, <1>5, <2>1 DEF Speaks
<1> QED BY <1>1, <1>2, <1>4, <1>5, AppendGrows

-----------------------------------------------------------------------------
(* One step of the task.                                                   *)

\* What a step of r leaves to be shown.
Telling(r) ==
  /\ ToldOf(r)' /\ Speaks(r)
  /\ \A q \in Runs \ {r} : events'[q] = events[q]

LEMMA SilentStep ==
  ASSUME NEW r \in Runs, events' = events, ToldOf(r)'
  PROVE  Telling(r)
BY DEF Telling, Speaks

\* An except branch that fails the run, at a node whose first entry found budget left.
LEMMA FailTells ==
  ASSUME TypeOK, Reliable, NEW r \in Runs, Orderly(r), ToldOf(r), Fail(r), GraphStays(r),
         pc[r] \in Nodes, ~cancelReq[r], ~Before(pc[r], graph[r].entered)
  PROVE  Telling(r)
<1>1. state'[r].status = "FAILED"
  BY StateStatusSet DEF Fail
<1>2. pc'[r] = "failing"
  BY GotoMoves DEF Fail
<1>3. UNCHANGED <<held, flag, cancelReq>>
  BY DEF Fail
<1>4. pc[r] \in Driving \ {"returned", "marked_running"} /\ held[r] = "initial"
  BY DrivingNames DEF Nodes, ToolNodes, Orderly, Stage
<1>5. /\ ~Completed(events[r]) /\ ~Failed(events[r]) /\ ~Stopped(events[r]) /\ ~Asked(events[r])
      /\ events[r] # <<>> /\ WellTold(events[r])
  BY <1>4, DrivingNames DEF ToldOf, Told
<1>6. Permits(events[r], "failed", "FAILED") /\ Verdict("failed", "FAILED")
  BY <1>5 DEF Permits, Verdict
<1>7. /\ Grows(events[r], events'[r], "failed", "FAILED") /\ Speaks(r)
      /\ \A q \in Runs \ {r} : events'[q] = events[q]
  BY <1>5, <1>6, PublishGrows, NoneIsOptional DEF Fail, EventTypes, TerminalEvents, Statuses
<1>8. ToldOf(r)'
  BY <1>1, <1>2, <1>3, <1>4, <1>5, <1>6, <1>7, DrivingNames
     DEF ToldOf, Told, Grows, Before, Waiting
<1> QED BY <1>7, <1>8 DEF Telling

\* The except branch of a run that saw its cancel flag.
LEMMA StopTells ==
  ASSUME TypeOK, NEW r \in Runs, Orderly(r), ToldOf(r), StopCancelled(r), pc[r] \in Nodes
  PROVE  Telling(r)
<1>1. pc'[r] = "closing" /\ held' = held /\ flag' = flag /\ events' = events
  BY GotoMoves DEF StopCancelled
<1>2. pc[r] \in Driving \ {"returned", "marked_running"} /\ held[r] = "initial"
  BY DrivingNames DEF Nodes, ToolNodes, Orderly, Stage
<1>3. ToldOf(r)'
  BY <1>1, <1>2, DrivingNames DEF ToldOf, Told, Before, Waiting
<1> QED BY <1>1, <1>3, SilentStep

\* An accepted answer of any node: it may announce a degraded service.
LEMMA AcceptTells ==
  ASSUME TypeOK, Reliable, NEW r \in Runs, Orderly(r), ToldOf(r), NEW next \in Driving, NEW g,
         NEW degraded \in BOOLEAN, Accept(r, next, g, degraded),
         pc[r] \in ToolNodes, graph[r].entered, ~cancelReq[r],
         next \notin {"marked_running", "validate_input"}
  PROVE  Telling(r)
<1>1. pc'[r] = next
  BY GotoMoves DEF Accept
<1>2. UNCHANGED <<held, state, flag, cancelReq>>
  BY DEF Accept
<1>3. pc[r] \in Driving \ {"returned", "marked_running", "validate_input"} /\ held[r] = "initial"
  BY DrivingNames DEF ToolNodes, Orderly, Stage
<1>4. /\ ~Completed(events[r]) /\ ~Failed(events[r]) /\ ~Stopped(events[r]) /\ ~Asked(events[r])
      /\ events[r] # <<>> /\ WellTold(events[r])
  BY <1>3, DrivingNames DEF ToldOf, Told, Before, Waiting
<1>5. ~Before(next, TRUE) /\ ~Before(next, FALSE) /\ next \in Driving
  BY DrivingNames DEF Before, Waiting
<1>6. CASE degraded /\ ~graph[r].degraded
  <2>1. Permits(events[r], "degraded", "RUNNING") /\ Verdict("degraded", "RUNNING")
    BY <1>4 DEF Permits, Verdict
  <2>2. /\ Grows(events[r], events'[r], "degraded", "RUNNING") /\ Speaks(r)
        /\ \A q \in Runs \ {r} : events'[q] = events[q]
    BY <1>4, <1>6, <2>1, PublishGrows, NoneIsOptional DEF Accept, EventTypes, Statuses
  <2>3. ToldOf(r)'
    BY <1>1, <1>2, <1>3, <1>4, <1>5, <2>1, <2>2, DrivingNames
       DEF ToldOf, Told, Grows, Before, Waiting
  <2> QED BY <2>2, <2>3 DEF Telling
<1>7. CASE ~(degraded /\ ~graph[r].degraded)
  <2>1. events' = events
    BY <1>7 DEF Accept
  <2>2. ToldOf(r)'
    BY <1>1, <1>2, <1>3, <1>4, <1>5, <2>1, DrivingNames DEF ToldOf, Told, Before, Waiting
  <2> QED BY <2>1, <2>2, SilentStep
<1> QED BY <1>6, <1>7

LEMMA RejectTells ==
  ASSUME TypeOK, Reliable, NEW r \in Runs, Orderly(r), ToldOf(r), Reject(r),
         pc[r] \in Nodes, ~cancelReq[r], graph[r].entered
  PROVE  Telling(r)
<1>1. ~Before(pc[r], graph[r].entered)
  BY DEF Before, Waiting, Nodes, ToolNodes
<1> QED BY <1>1, BookkeepingStays, FailTells DEF Reject
LEMMA RunStepTells ==
  ASSUME TypeOK, Reliable, NEW r \in Runs, Orderly(r), ToldOf(r), RunStep(r)
  PROVE  Telling(r)
<1> USE PCNames
<1>0. /\ graph[r] \in GraphDict /\ state[r] \in RunDict
      /\ graph[r].status \in Statuses /\ graph[r].entered \in BOOLEAN
  BY DEF TypeOK, GraphDict
<1>1. CASE Start(r)
  <2>1. pc[r] = "absent" /\ pc'[r] = "accepted" /\ UNCHANGED <<graph, flag, cancelReq>>
    BY <1>1, GotoMoves DEF Start
  <2>2. /\ events[r] = <<>> /\ WellTold(events[r]) /\ ~Completed(events[r])
        /\ ~Failed(events[r]) /\ ~Stopped(events[r]) /\ ~Asked(events[r])
    BY <2>1 DEF ToldOf, Told, Completed, Failed, Stopped, Asked, Logs
  <2>3. Permits(events[r], "accepted", "QUEUED") /\ Verdict("accepted", "QUEUED")
    BY <2>2 DEF Permits, Verdict
  <2>4. /\ Grows(events[r], events'[r], "accepted", "QUEUED") /\ Speaks(r)
        /\ \A q \in Runs \ {r} : events'[q] = events[q]
    BY <1>1, <2>2, <2>3, PublishGrows, NoneIsOptional DEF Start, EventTypes, Statuses
  <2>5. ToldOf(r)'
    BY <2>1, <2>2, <2>3, <2>4, DrivingNames DEF ToldOf, Told, Grows, Before, Waiting
  <2> QED BY <2>4, <2>5 DEF Telling
<1>2. CASE Register(r) \/ Launch(r)
  <2>1. pc[r] \in {"accepted", "registered"} /\ pc'[r] \in {"registered", "launched"}
    BY <1>2, GotoMoves DEF Register, Launch
  <2>2. UNCHANGED <<graph, state, held, flag, cancelReq, events>>
    BY <1>2 DEF Register, Launch
  <2>3. ToldOf(r)'
    BY <2>1, <2>2, DrivingNames DEF ToldOf, Told, Before, Waiting
  <2> QED BY <2>2, <2>3, SilentStep
<1>3. CASE MarkRunning(r)
  <2>1. pc[r] = "launched" /\ pc'[r] = "marked_running"
    BY <1>3, GotoMoves DEF MarkRunning
  <2>2. UNCHANGED <<graph, held, flag, cancelReq, events>>
    BY <1>3 DEF MarkRunning
  <2>3. ToldOf(r)'
    BY <2>1, <2>2, DrivingNames DEF ToldOf, Told, Before, Waiting
  <2> QED BY <2>2, <2>3, SilentStep
<1>4. CASE Invoke(r)
  <2>1. pc[r] = "marked_running" /\ pc'[r] = "validate_input"
    BY <1>4, GotoMoves DEF Invoke
  <2>2. graph'[r].steps = graph[r].steps /\ graph'[r].entered = graph[r].entered
    BY <1>0, <1>4 DEF Invoke, TypeOK, GraphDict
  <2>3. UNCHANGED <<state, held, flag, cancelReq, events>> /\ held[r] = "initial"
        /\ graph[r].entered = FALSE
    BY <1>0, <1>4, <2>1, DrivingNames DEF Invoke, Orderly, Stage
  <2>4. ToldOf(r)'
    BY <2>1, <2>2, <2>3, DrivingNames DEF ToldOf, Told, Before, Waiting
  <2> QED BY <2>3, <2>4, SilentStep
<1>5. CASE EnterNode(r)
  <2>1. graph'[r].entered = TRUE /\ graph'[r].status = graph[r].status
    BY <1>0, <1>5 DEF EnterNode, TypeOK, GraphDict
  <2>2. UNCHANGED <<pc, state, held, flag, cancelReq>>
    BY <1>5 DEF EnterNode
  <2>3. /\ pc[r] \in Driving \ {"marked_running", "returned"} /\ ~flag[r]
        /\ held[r] = "initial"
    BY <1>5, DrivingNames DEF EnterNode, Nodes, ToolNodes, Orderly, Stage
  <2>4. /\ ~Completed(events[r]) /\ ~Failed(events[r]) /\ ~Stopped(events[r])
        /\ ~Asked(events[r]) /\ events[r] # <<>> /\ WellTold(events[r])
    BY <2>3, DrivingNames DEF ToldOf, Told
  <2>5. Permits(events[r], "progress", "RUNNING") /\ Verdict("progress", "RUNNING")
    BY <2>4 DEF Permits, Verdict
  <2>6. /\ Grows(events[r], events'[r], "progress", "RUNNING") /\ Speaks(r)
        /\ \A q \in Runs \ {r} : events'[q] = events[q]
    BY <1>5, <2>4, <2>5, PublishGrows, NoneIsOptional DEF EnterNode, EventTypes, Statuses
  <2>7. ToldOf(r)'
    BY <2>1, <2>2, <2>3, <2>4, <2>5, <2>6, DrivingNames DEF ToldOf, Told, Grows, Before, Waiting
  <2> QED BY <2>6, <2>7 DEF Telling
<1>6. CASE EnterCancelled(r)
  BY <1>6, StopTells DEF EnterCancelled
<1>7. CASE EnterFails(r)
  <2>1. graph[r].steps # 0
    BY <1>0, <1>7 DEF EnterFails, StepBudgetLeft, Reliable, GraphDict
  <2>2. ~Before(pc[r], graph[r].entered)
    BY <2>1 DEF ToldOf, Told
  <2>3. GraphStays(r) /\ Fail(r) /\ pc[r] \in Nodes /\ ~cancelReq[r]
    BY <1>7, BookkeepingStays DEF EnterFails, Runnable
  <2> QED BY <2>2, <2>3, FailTells
<1>8. CASE ToolFails(r) \/ Timeout(r)
  <2>1. ~Before(pc[r], graph[r].entered)
    BY <1>8 DEF ToolFails, Timeout, Before, Waiting, ToolNodes
  <2>2. GraphStays(r) /\ Fail(r) /\ pc[r] \in Nodes /\ ~cancelReq[r]
    BY <1>8, BookkeepingStays DEF ToolFails, Timeout, Runnable, Nodes
  <2> QED BY <2>1, <2>2, FailTells
<1>9. CASE Validated(r) \/ ClassifyIntent(r)
  <2>1. /\ \/ pc[r] = "validate_input" /\ graph[r].entered /\ pc'[r] = "classify_intent"
           \/ pc[r] = "classify_intent" /\ pc'[r] = "check_required_fields"
        /\ ~cancelReq[r]
    BY <1>9, GotoMoves DEF Validated, ClassifyIntent, Runnable
  <2>2. GraphStays(r) /\ UNCHANGED <<state, held, flag, cancelReq, events>>
    BY <1>9, BookkeepingStays DEF Validated, ClassifyIntent
  <2>3. ToldOf(r)'
    BY <2>1, <2>2, DrivingNames DEF ToldOf, Told, Before, Waiting, GraphStays
  <2> QED BY <2>2, <2>3, SilentStep
<1>10. CASE CheckRequiredFields(r)
  <2>1. /\ pc[r] = "check_required_fields" /\ ~cancelReq[r] /\ held[r] = "initial"
        /\ UNCHANGED <<state, held, flag, cancelReq>>
    BY <1>10, DrivingNames DEF CheckRequiredFields, Runnable, Orderly, Stage
  <2>2. /\ ~Completed(events[r]) /\ ~Failed(events[r]) /\ ~Stopped(events[r])
        /\ ~Asked(events[r]) /\ events[r] # <<>> /\ WellTold(events[r])
    BY <2>1, DrivingNames DEF ToldOf, Told, Before, Waiting
  <2>3. CASE events' = events
    <3>1. pc'[r] \in {"returned", "build_evidence", "fetch_external_data"}
      BY <1>10, GotoMoves DEF CheckRequiredFields
    <3>2. ToldOf(r)'
      BY <2>1, <2>2, <2>3, <3>1, DrivingNames DEF ToldOf, Told, Before, Waiting
    <3> QED BY <2>3, <3>2, SilentStep
  <2>4. CASE /\ Goto(r, "returned") /\ graph' = [graph EXCEPT ![r].status = "NEEDS_INPUT"]
             /\ Publish(r, "needs_input", "NEEDS_INPUT", None)
    <3>1. pc'[r] = "returned" /\ graph'[r].status = "NEEDS_INPUT"
      BY <2>4, GotoMoves, GraphStatusSet
    <3>2. Permits(events[r], "needs_input", "NEEDS_INPUT") /\ Verdict("needs_input", "NEEDS_INPUT")
      BY <2>2 DEF Permits, Verdict
    <3>3. /\ Grows(events[r], events'[r], "needs_input", "NEEDS_INPUT") /\ Speaks(r)
          /\ \A q \in Runs \ {r} : events'[q] = events[q]
      BY <2>2, <2>4, <3>2, PublishGrows, NoneIsOptional DEF EventTypes, Statuses
    <3>4. ToldOf(r)'
      BY <2>1, <2>2, <3>1, <3>2, <3>3, DrivingNames DEF ToldOf, Told, Grows, Before, Waiting
    <3> QED BY <3>3, <3>4 DEF Telling
  <2> QED BY <1>10, <2>3, <2>4 DEF CheckRequiredFields
<1>11. CASE \/ FetchExternalData(r) \/ IntegrateData(r) \/ BuildEvidence(r)
            \/ MakeDecision(r) \/ FormatRecommendation(r)
  <2>1. /\ pc[r] \in ToolNodes /\ pc[r] \in Nodes /\ graph[r].entered /\ ~cancelReq[r]
    BY <1>11 DEF FetchExternalData, IntegrateData, BuildEvidence, MakeDecision,
                 FormatRecommendation, Calling, Runnable, ToolNodes, Nodes
  <2>2. \/ Reject(r)
        \/ \E next \in {"integrate_data", "build_evidence", "make_decision",
                         "format_recommendation", "returned"}, degraded \in BOOLEAN :
             \E g : Accept(r, next, g, degraded)
    <3>1. CASE FetchExternalData(r)
      BY <3>1 DEF FetchExternalData
    <3>2. CASE IntegrateData(r)
      BY <3>2 DEF IntegrateData
    <3>3. CASE BuildEvidence(r)
      BY <3>3 DEF BuildEvidence
    <3>4. CASE MakeDecision(r)
      BY <3>4 DEF MakeDecision
    <3>5. CASE FormatRecommendation(r)
      BY <3>5 DEF FormatRecommendation
    <3> QED BY <1>11, <3>1, <3>2, <3>3, <3>4, <3>5
  <2>3. CASE Reject(r)
    BY <2>1, <2>3, RejectTells
  <2>4. ASSUME NEW next \in {"integrate_data", "build_evidence", "make_decision",
                            "format_recommendation", "returned"},
               NEW degraded \in BOOLEAN, NEW g, Accept(r, next, g, degraded)
        PROVE  Telling(r)
    <3>1. next \in Driving /\ next \notin {"marked_running", "validate_input"}
      BY DrivingNames
    <3> QED BY <2>1, <2>4, <3>1, AcceptTells
  <2> QED BY <2>2, <2>3, <2>4
<1>12. CASE AnnounceResult(r) \/ AnnounceEmergency(r)
  <2>1. /\ pc[r] = "returned" /\ pc'[r] = "announced" /\ held'[r] = "final" /\ ~cancelReq[r]
        /\ UNCHANGED <<flag, cancelReq>>
    BY <1>12, GotoMoves DEF AnnounceResult, AnnounceEmergency, Runnable, TypeOK
  <2>2. graph[r].rec # None => graph[r].status \in Success
    BY DEF Orderly, Result
  <2>3. graph[r].status # "NEEDS_INPUT"
    BY <1>12, <2>2 DEF AnnounceResult, AnnounceEmergency, Success
  <2>4. /\ ~Completed(events[r]) /\ ~Failed(events[r]) /\ ~Stopped(events[r])
        /\ ~Asked(events[r]) /\ events[r] # <<>> /\ WellTold(events[r])
    BY <2>1, <2>3, DrivingNames DEF ToldOf, Told, Before, Waiting
  <2>5. \A s \in Success : Permits(events[r], "completed", s) /\ Verdict("completed", s)
    BY <2>4 DEF Permits, Verdict
  <2>6. PICK s \in Success : /\ Grows(events[r], events'[r], "completed", s) /\ Speaks(r)
                             /\ \A q \in Runs \ {r} : events'[q] = events[q]
                             /\ graph'[r].status = s
    <3>1. CASE AnnounceResult(r)
      <4>1. graph[r].status \in Success /\ graph[r].rec \in Opt(Recommendation)
        BY <1>0, <2>2, <3>1 DEF AnnounceResult, GraphDict
      <4>2. Publish(r, "completed", graph[r].status, graph[r].rec) /\ graph' = graph
        BY <3>1 DEF AnnounceResult
      <4> QED BY <1>0, <2>4, <2>5, <4>1, <4>2, PublishGrows DEF EventTypes, TerminalEvents
    <3>2. CASE AnnounceEmergency(r)
      <4>1. PICK id \in EmergencyIds :
              events' = [events EXCEPT ![r] =
                Append(@, [id |-> id, type |-> "completed", status |-> "COMPLETED", rec |-> None])]
        BY <3>2 DEF AnnounceEmergency, Reliable
      <4> DEFINE e == [id |-> id, type |-> "completed", status |-> "COMPLETED", rec |-> None]
      <4>2. e \in Event /\ e.type = "completed" /\ e.status = "COMPLETED"
        BY AgentRunAssumption, NoneIsOptional DEF Event, EventTypes, TerminalEvents, Statuses
      <4> HIDE DEF e
      <4>3. events'[r] = Append(events[r], e) /\ \A q \in Runs \ {r} : events'[q] = events[q]
        BY <4>1 DEF TypeOK, e
      <4>4. graph'[r].status = "COMPLETED" /\ "COMPLETED" \in Success
        BY <3>2, GraphStatusSet DEF AnnounceEmergency, Success
      <4>5. Grows(events[r], events'[r], "completed", "COMPLETED")
        BY <4>2, <4>3, AppendGrows DEF TypeOK
      <4>6. Speaks(r)
        BY <2>4, <2>5, <4>2, <4>3, <4>4 DEF Speaks
      <4> QED BY <4>3, <4>4, <4>5, <4>6
    <3> QED BY <1>12, <3>1, <3>2
  <2>7. ToldOf(r)'
    BY <2>1, <2>4, <2>5, <2>6, DrivingNames DEF ToldOf, Told, Grows, Before, Waiting
  <2> QED BY <2>6, <2>7 DEF Telling
<1>13. CASE SaveNeedsInput(r) \/ SaveFinal(r)
  <2>1. /\ pc'[r] = "saving" /\ ~cancelReq[r]
        /\ UNCHANGED <<graph, state, flag, cancelReq, events>>
        /\ \/ pc[r] = "announced" /\ held'[r] = held[r]
           \/ pc[r] = "returned" /\ graph[r].status = "NEEDS_INPUT" /\ held'[r] = "final"
    BY <1>13, GotoMoves DEF SaveNeedsInput, SaveFinal, Runnable, TypeOK
  <2>2. ToldOf(r)'
    BY <2>1, DrivingNames DEF ToldOf, Told, Before, Waiting
  <2> QED BY <2>1, <2>2, SilentStep
<1>14. CASE SaveFailure(r) \/ Close(r) \/ CancelledOutsideTry(r)
  <2>1. /\ pc[r] \in {"launched", "marked_running", "failing", "saving", "closing"}
        /\ pc'[r] = "closing" \/ pc'[r] = "done"
        /\ UNCHANGED <<graph, state, held, flag, events>>
    BY <1>14, GotoMoves DEF SaveFailure, Close, CancelledOutsideTry, OutsidePCs
  <2>2. ToldOf(r)'
    BY <2>1, DrivingNames DEF ToldOf, Told, Before, Waiting
  <2> QED BY <2>1, <2>2, SilentStep
<1>15. CASE CancelledInTry(r)
  <2>1. /\ pc'[r] = "closing" /\ pc[r] \in TryPCs
        /\ UNCHANGED <<graph, held, flag, events>>
    BY <1>15, GotoMoves DEF CancelledInTry
  <2>2. pc[r] \notin {"absent", "failing", "closing", "done", "lost"}
    BY <2>1 DEF TryPCs, GraphPCs, Nodes, ToolNodes
  <2>3. ToldOf(r)'
    BY <2>1, <2>2, DrivingNames DEF ToldOf, Told, Before, Waiting
  <2> QED BY <2>1, <2>3, SilentStep
<1> QED
  BY <1>1, <1>2, <1>3, <1>4, <1>5, <1>6, <1>7, <1>8, <1>9, <1>10, <1>11, <1>12, <1>13,
     <1>14, <1>15
     DEF RunStep
-----------------------------------------------------------------------------
(* One step of a cancel handler, and of the rest of the system.            *)

LEMMA CancelStepTells ==
  ASSUME TypeOK, Reliable, NEW c \in Cancellers, NEW r \in Runs, Orderly(r), ToldOf(r), flag[r],
         CancelStep(c, r)
  PROVE  Telling(r)
<1> USE PCNames
<1>0. /\ flag' = flag /\ pc' = pc /\ held' = held /\ cancelReq[r] \in BOOLEAN
      /\ cancelReq[r] => cancelReq'[r]
  BY DEF CancelStep, CancelLive, CancelSettled, SaveCancel, InterruptTask, TypeOK
<1>1. CASE CancelLive(c, r)
  <2>1. cancelReq'[r] = (cancelReq[r] \/ pc[r] \in TaskPCs)
    BY <1>1 DEF CancelLive, InterruptTask, TypeOK
  <2>2. pc[r] \in Driving => pc[r] \in TaskPCs
    BY DrivingNames DEF TaskPCs, TryPCs, OutsidePCs, GraphPCs, Nodes, ToolNodes
  <2>3. /\ \/ /\ held[r] = "initial" /\ state[r].status \in Cancellable
              /\ state'[r].status = "CANCELLED" /\ graph' = graph
           \/ /\ held[r] = "final" /\ graph[r].status \in Cancellable
              /\ state' = state
              /\ graph'[r].status = "CANCELLED" /\ graph'[r].steps = graph[r].steps
              /\ graph'[r].entered = graph[r].entered
    <3>1. CASE held[r] = "initial"
      BY <1>1, <3>1, StateStatusSet DEF CancelLive, HeldStatus
    <3>2. CASE held[r] = "final"
      <4>1. graph[r] \in GraphDict
        BY DEF TypeOK
      <4> QED BY <1>1, <3>2, <4>1 DEF CancelLive, HeldStatus, TypeOK, GraphDict
    <3> QED BY <1>1, <3>1, <3>2 DEF CancelLive
  <2>4. /\ held[r] = "initial" => pc[r] \in Waiting \cup Driving
        /\ held[r] = "final" => pc[r] \in {"saving", "closing", "done"}
    BY <2>3, DrivingNames DEF Orderly, Stage, Waiting, Cancellable, TypeOK, Success
  <2>5. /\ ~Completed(events[r]) /\ ~Failed(events[r]) /\ events[r] # <<>>
        /\ WellTold(events[r])
    BY <2>3, <2>4, DrivingNames DEF ToldOf, Told, Waiting, Cancellable, Success
  <2>6. Permits(events[r], "failed", "CANCELLED") /\ Verdict("failed", "CANCELLED")
    BY <2>5 DEF Permits, Verdict
  <2>7. /\ Grows(events[r], events'[r], "failed", "CANCELLED") /\ Speaks(r)
        /\ \A q \in Runs \ {r} : events'[q] = events[q]
    BY <1>1, <2>6, PublishGrows, NoneIsOptional DEF CancelLive, EventTypes, TerminalEvents, Statuses
  <2>8. ToldOf(r)'
    BY <1>0, <2>1, <2>2, <2>3, <2>4, <2>5, <2>6, <2>7, DrivingNames
       DEF ToldOf, Told, Grows, Before, Waiting
  <2> QED BY <2>7, <2>8 DEF Telling
<1>2. CASE CancelSettled(c, r) \/ SaveCancel(c, r)
  <2>1. UNCHANGED <<state, graph, events>>
    BY <1>2 DEF CancelSettled, SaveCancel
  <2>2. ToldOf(r)'
    BY <1>0, <2>1 DEF ToldOf, Told
  <2> QED BY <2>1, <2>2, SilentStep
<1> QED BY <1>1, <1>2 DEF CancelStep

LEMMA ApartTells ==
  ASSUME ToldInv, NEW r \in Runs, Apart(r), Telling(r)
  PROVE  ToldInv' /\ \A q \in Runs : Speaks(q)
<1> SUFFICES ASSUME NEW q \in Runs \ {r} PROVE ToldOf(q)' /\ Speaks(q)
  BY DEF ToldInv, Telling
<1>1. ToldOf(q)
  BY DEF ToldInv
<1> QED BY <1>1 DEF Telling, Apart, ToldOf, Speaks

\* The invariant is kept, and every stream says what it may.
LEMMA NextTells ==
  TypeOK /\ OrderlyInv /\ Reliable /\ ToldInv /\ [Next]_vars
    => ToldInv' /\ \A r \in Runs : Speaks(r)
<1> SUFFICES ASSUME TypeOK, OrderlyInv, Reliable, ToldInv, [Next]_vars
             PROVE  ToldInv' /\ \A r \in Runs : Speaks(r)
  OBVIOUS
<1>1. ASSUME NEW r \in Runs, RunStep(r) PROVE ToldInv' /\ \A q \in Runs : Speaks(q)
  <2>1. Orderly(r) /\ ToldOf(r)
    BY DEF OrderlyInv, ToldInv
  <2>2. Apart(r)
    BY <1>1, <2>1, RunStepOrderly DEF Step
  <2> QED BY <1>1, <2>1, <2>2, RunStepTells, ApartTells
<1>2. ASSUME NEW c \in Cancellers, NEW r \in Runs, CancelStep(c, r)
      PROVE  ToldInv' /\ \A q \in Runs : Speaks(q)
  <2>1. Orderly(r) /\ ToldOf(r)
    BY DEF OrderlyInv, ToldInv
  <2>2. Apart(r)
    BY <1>2, CancelStepOrderly DEF Step
  <2>3. flag[r]
    <3>1. canceller[c].run = r /\ canceller[c].pc # "idle"
      BY <1>2 DEF CancelStep, CancelLive, CancelSettled, SaveCancel
    <3> QED BY <3>1 DEF OrderlyInv
  <2> QED BY <1>2, <2>1, <2>2, <2>3, CancelStepTells, ApartTells
<1>3. ASSUME NEW c \in Cancellers, NEW r \in Runs, RequestCancel(c, r)
      PROVE  ToldInv' /\ \A q \in Runs : Speaks(q)
  <2>1. /\ UNCHANGED <<pc, held, state, graph, cancelReq, events>>
        /\ \A q \in Runs : flag[q] => flag'[q]
    BY <1>3 DEF RequestCancel, TypeOK
  <2> SUFFICES ASSUME NEW q \in Runs PROVE ToldOf(q)' /\ Speaks(q)
    BY DEF ToldInv
  <2>2. ToldOf(q)
    BY DEF ToldInv
  <2>3. ToldOf(q)'
    BY <2>1, <2>2 DEF ToldOf, Told
  <2> QED BY <2>1, <2>3 DEF Speaks
<1>4. CASE Crash
  <2> SUFFICES ASSUME NEW r \in Runs PROVE ToldOf(r)' /\ Speaks(r)
    BY DEF ToldInv
  <2>1. /\ UNCHANGED <<state, graph, flag, events>> /\ held'[r] = "none"
        /\ pc'[r] = IF pc[r] \in StartPCs \cup TaskPCs THEN "lost" ELSE pc[r]
    BY <1>4 DEF Crash
  <2>2. /\ pc'[r] = "lost" \/ (pc'[r] = pc[r] /\ pc[r] \in {"absent", "done", "lost"})
        /\ pc'[r] = "absent" <=> pc[r] = "absent"
    BY <2>1, PCNames DEF TypeOK, PCs, StartPCs, TaskPCs, TryPCs, OutsidePCs, GraphPCs, Nodes,
                         ToolNodes
  <2>3. ToldOf(r)
    BY DEF ToldInv
  <2>4. ToldOf(r)'
    BY <2>1, <2>2, <2>3, DrivingNames DEF ToldOf, Told, Before, Waiting
  <2> QED BY <2>1, <2>4 DEF Speaks
<1>5. CASE UNCHANGED vars
  BY <1>5 DEF vars, ToldInv, ToldOf, Speaks
<1> QED BY <1>1, <1>2, <1>3, <1>4, <1>5 DEF Next

LEMMA InitTold == Init => ToldInv
<1> SUFFICES ASSUME Init, NEW r \in Runs PROVE ToldOf(r)
  BY DEF ToldInv
<1>1. pc[r] = "absent" /\ graph[r].steps = 0 /\ events[r] = <<>>
  BY DEF Init, InitialGraph
<1>2. /\ ~Completed(events[r]) /\ ~Failed(events[r]) /\ ~Stopped(events[r])
      /\ ~Asked(events[r]) /\ WellTold(events[r])
  BY <1>1 DEF Completed, Failed, Stopped, Asked, Logs, WellTold
<1> QED BY <1>1, <1>2 DEF ToldOf, Told

-----------------------------------------------------------------------------
(* What the two properties say, in these terms.                            *)

\* Outcome and Concluded, of a stream.
OutcomeOf(ev) ==
  CASE Logs(ev, "completed", "COMPLETED") \/ Logs(ev, "completed", "PARTIAL") -> "completed"
    [] Logs(ev, "failed", "FAILED")    -> "failed"
    [] Logs(ev, "failed", "CANCELLED") -> "cancelled"
    [] Logs(ev, "needs_input", "NEEDS_INPUT")
         /\ ~(\E i \in DOMAIN ev : ev[i].type \in TerminalEvents) -> "asked"
    [] ev # <<>> /\ ~(\E i \in DOMAIN ev : ev[i].type \in TerminalEvents)
         /\ ~Logs(ev, "needs_input", "NEEDS_INPUT") -> "open"
    [] ev = <<>> -> "none"

LEMMA ConcludedNames ==
  ASSUME NEW ev, WellTold(ev)
  PROVE  /\ (\E i \in DOMAIN ev : ev[i].type \in TerminalEvents)
              <=> Completed(ev) \/ Failed(ev) \/ Stopped(ev)
         /\ Completed(ev) <=> Logs(ev, "completed", "COMPLETED") \/ Logs(ev, "completed", "PARTIAL")
BY DEF WellTold, Verdict, TerminalEvents, Completed, Failed, Stopped, Logs, Success

\* A stream has at most one verdict, so its outcome is the one it tells.
LEMMA OutcomeNames ==
  ASSUME NEW ev, WellTold(ev),
         ~(Completed(ev) /\ Failed(ev)), ~(Completed(ev) /\ Stopped(ev)),
         ~(Failed(ev) /\ Stopped(ev))
  PROVE  OutcomeOf(ev) =
           IF Completed(ev) THEN "completed" ELSE IF Failed(ev) THEN "failed"
           ELSE IF Stopped(ev) THEN "cancelled" ELSE IF Asked(ev) THEN "asked"
           ELSE IF ev = <<>> THEN "none" ELSE "open"
<1>1. ev = <<>> => ~Completed(ev) /\ ~Failed(ev) /\ ~Stopped(ev) /\ ~Asked(ev)
  BY DEF Completed, Failed, Stopped, Asked, Logs
<1>2. /\ Failed(ev) <=> Logs(ev, "failed", "FAILED")
      /\ Stopped(ev) <=> Logs(ev, "failed", "CANCELLED")
      /\ Asked(ev) <=> Logs(ev, "needs_input", "NEEDS_INPUT")
  BY DEF Failed, Stopped, Asked
<1> DEFINE Over == \E i \in DOMAIN ev : ev[i].type \in TerminalEvents
           Done == Logs(ev, "completed", "COMPLETED") \/ Logs(ev, "completed", "PARTIAL")
<1>3. (Over <=> Completed(ev) \/ Failed(ev) \/ Stopped(ev)) /\ (Completed(ev) <=> Done)
  BY ConcludedNames
<1>4. OutcomeOf(ev) =
        CASE Done -> "completed"
          [] Logs(ev, "failed", "FAILED")    -> "failed"
          [] Logs(ev, "failed", "CANCELLED") -> "cancelled"
          [] Logs(ev, "needs_input", "NEEDS_INPUT") /\ ~Over -> "asked"
          [] ev # <<>> /\ ~Over /\ ~Logs(ev, "needs_input", "NEEDS_INPUT") -> "open"
          [] ev = <<>> -> "none"
  BY Zenon DEF OutcomeOf
<1> HIDE DEF Over, Done
<1> QED BY <1>1, <1>2, <1>3, <1>4, SMT

\* How RunOutcome lets an outcome move.
OutcomeMoves(o, o2) ==
  \/ o2 = o
  \/ o = "none" /\ o2 = "open"
  \/ o = "open" /\ o2 \in {"asked", "completed", "failed", "cancelled"}
  \/ o = "asked" /\ o2 = "cancelled"

LEMMA SpeaksMoves ==
  ASSUME TypeOK, ToldInv, ToldInv', NEW r \in Runs, Speaks(r)
  PROVE  OutcomeMoves(OutcomeOf(events[r]), OutcomeOf(events'[r]))
<1> DEFINE Clear(ev) == /\ WellTold(ev)
                        /\ ~(Completed(ev) /\ Failed(ev)) /\ ~(Completed(ev) /\ Stopped(ev))
                        /\ ~(Failed(ev) /\ Stopped(ev))
<1>1. Clear(events[r]) /\ Clear(events'[r])
  BY DEF ToldInv, ToldOf, Told
<1>2. ASSUME NEW e \in Event, events'[r] = Append(events[r], e),
             Permits(events[r], e.type, e.status)
      PROVE  OutcomeMoves(OutcomeOf(events[r]), OutcomeOf(events'[r]))
  <2>1. Grows(events[r], events'[r], e.type, e.status)
    BY <1>2, AppendGrows DEF TypeOK
  <2>2. PICK ev, ev2 : ev = events[r] /\ ev2 = events'[r]
    OBVIOUS
  <2>3. Clear(ev) /\ Clear(ev2) /\ Grows(ev, ev2, e.type, e.status) /\ Permits(ev, e.type, e.status)
    BY <1>1, <1>2, <2>1, <2>2
  <2>4. OutcomeMoves(OutcomeOf(ev), OutcomeOf(ev2))
    BY <2>3, OutcomeNames DEF Permits, Verdict, Grows, OutcomeMoves, Success
  <2> QED BY <2>2, <2>4
<1> QED BY <1>2 DEF Speaks, OutcomeMoves

-----------------------------------------------------------------------------
\* A terminal event settles the stream, for any runs, cancel handlers and crashes, and
\* whichever saves are lost: nothing follows it but a second announcement of a cancellation
\* (runner.py, _execute and cancel).
THEOREM TerminalIsSilent == Reliable => (Spec => SilentAfterTerminal)
<1> SUFFICES ASSUME Reliable PROVE Spec => SilentAfterTerminal
  OBVIOUS
<1> DEFINE Silent(r) ==
      Concluded(r) =>
        \/ events'[r] = events[r]
        \/ /\ Logged(r, "failed", "CANCELLED")
           /\ events'[r] = Append(events[r],
                [id |-> counter[r] + 1, type |-> "failed", status |-> "CANCELLED", rec |-> None])
<1>1. ASSUME ToldInv, NEW r \in Runs, Speaks(r) PROVE Silent(r)
  <2> SUFFICES ASSUME Concluded(r), events'[r] # events[r] PROVE Silent(r)
    OBVIOUS
  <2>1. Completed(events[r]) \/ Failed(events[r]) \/ Stopped(events[r])
    <3>1. WellTold(events[r])
      BY <1>1 DEF ToldInv, ToldOf, Told
    <3> QED BY <3>1, ConcludedNames DEF Concluded
  <2>2. Stopped(events[r])
    BY <1>1, <2>1 DEF Speaks, Permits
  <2> QED BY <1>1, <2>2 DEF Speaks, EventOf, Stopped, Logs, Logged
<1>2. TypeOK /\ OrderlyInv /\ ToldInv /\ [Next]_vars => ToldInv' /\ [\A r \in Runs : Silent(r)]_vars
  BY <1>1, NextTells
<1> QED
  BY <1>2, InitTypeOK, NextTypeOK, InitOrderly, NextOrderly, InitTold, PTL
     DEF Spec, SilentAfterTerminal

-----------------------------------------------------------------------------
(* The streams implement RunOutcome.                                       *)

Outcomes == [r \in Runs |-> OutcomeOf(events[r])]

LEMMA OneStreamMoves ==
  ASSUME TypeOK, [Next]_vars
  PROVE  \/ events' = events
         \/ \E r \in Runs : \A q \in Runs \ {r} : events'[q] = events[q]
<1>1. \A r \in Runs : \A type, status, rec :
        Publish(r, type, status, rec) => \A q \in Runs \ {r} : events'[q] = events[q]
  BY DEF Publish, TypeOK
<1>2. ASSUME NEW r \in Runs, RunStep(r)
      PROVE  \A q \in Runs \ {r} : events'[q] = events[q]
  <2>1. CASE AnnounceEmergency(r)
    BY <2>1 DEF AnnounceEmergency, TypeOK
  <2>2. ASSUME NEW next, NEW g, NEW degraded, Accept(r, next, g, degraded)
        PROVE  \A q \in Runs \ {r} : events'[q] = events[q]
    BY <1>1, <2>2 DEF Accept
  <2>3. CASE Fail(r) \/ Reject(r) \/ EnterFails(r) \/ ToolFails(r) \/ Timeout(r)
    BY <1>1, <2>3 DEF Fail, Reject, EnterFails, ToolFails, Timeout
  <2>4. CASE Start(r) \/ EnterNode(r) \/ CheckRequiredFields(r) \/ AnnounceResult(r)
    BY <1>1, <2>4 DEF Start, EnterNode, CheckRequiredFields, AnnounceResult
  <2>5. CASE \/ FetchExternalData(r) \/ IntegrateData(r) \/ BuildEvidence(r)
             \/ MakeDecision(r) \/ FormatRecommendation(r)
    BY <2>2, <2>3, <2>5 DEF FetchExternalData, IntegrateData, BuildEvidence, MakeDecision,
                            FormatRecommendation
  <2>6. CASE events' = events
    BY <2>6
  <2> QED
    BY <1>2, <2>1, <2>3, <2>4, <2>5, <2>6
       DEF RunStep, Register, Launch, MarkRunning, Invoke, EnterCancelled, StopCancelled,
           Validated, ClassifyIntent, SaveNeedsInput, SaveFinal, SaveFailure, Close,
           CancelledInTry, CancelledOutsideTry
<1>3. ASSUME NEW c \in Cancellers, NEW r \in Runs, RequestCancel(c, r) \/ CancelStep(c, r)
      PROVE  \A q \in Runs \ {r} : events'[q] = events[q]
  BY <1>1, <1>3 DEF RequestCancel, CancelStep, CancelLive, CancelSettled, SaveCancel
<1> QED BY <1>2, <1>3 DEF Next, Crash, vars

LEMMA OutcomesAre ==
  [q \in Runs |-> Outcome(q)] = Outcomes /\ [q \in Runs |-> Outcome(q)]' = Outcomes'
<1>1. [q \in Runs |-> Outcome(q)] = Outcomes
  <2>1. \A q \in Runs : Outcome(q) = OutcomeOf(events[q])
    BY DEF Outcome, OutcomeOf, Logged, Concluded, Logs
  <2> QED BY <2>1 DEF Outcomes
<1>2. [q \in Runs |-> Outcome(q)]' = Outcomes'
  <2>1. \A q \in Runs : Outcome(q)' = OutcomeOf(events'[q])
    BY DEF Outcome, OutcomeOf, Logged, Concluded, Logs
  <2> QED BY <2>1 DEF Outcomes
<1> QED BY <1>1, <1>2

LEMMA OutcomesMove ==
  ASSUME NEW r \in Runs, OutcomeMoves(Outcomes[r], Outcomes'[r]),
         \A q \in Runs \ {r} : Outcomes'[q] = Outcomes[q]
  PROVE  Outcomes' = Outcomes \/ RunOutcomeSpec!Next
<1>1. [q \in Runs |-> Outcome(q)] = Outcomes /\ [q \in Runs |-> Outcome(q)]' = Outcomes'
  BY OutcomesAre
<1>3. /\ RunOutcomeSpec!Accept(r) <=>
           Outcomes[r] = "none" /\ Outcomes' = [Outcomes EXCEPT ![r] = "open"]
      /\ RunOutcomeSpec!Ask(r) <=>
           Outcomes[r] = "open" /\ Outcomes' = [Outcomes EXCEPT ![r] = "asked"]
      /\ RunOutcomeSpec!Conclude(r) <=>
           /\ Outcomes[r] = "open"
           /\ \E o \in {"completed", "failed", "cancelled"} : Outcomes' = [Outcomes EXCEPT ![r] = o]
      /\ RunOutcomeSpec!Withdraw(r) <=>
           Outcomes[r] = "asked" /\ Outcomes' = [Outcomes EXCEPT ![r] = "cancelled"]
  BY <1>1
     DEF RunOutcomeSpec!Accept, RunOutcomeSpec!Ask, RunOutcomeSpec!Conclude,
         RunOutcomeSpec!Withdraw, RunOutcomeSpec!Outcomes
<1>4. PICK old, new : old = Outcomes /\ new = Outcomes'
  OBVIOUS
<1>5. /\ new = [old EXCEPT ![r] = new[r]]
      /\ new[r] = old[r] => new = old
  BY <1>4 DEF Outcomes
<1>6. OutcomeMoves(old[r], new[r])
  BY <1>4
<1> QED BY <1>3, <1>4, <1>5, <1>6 DEF OutcomeMoves, RunOutcomeSpec!Next

LEMMA NextOutcomes ==
  TypeOK /\ OrderlyInv /\ Reliable /\ ToldInv /\ [Next]_vars
    => [RunOutcomeSpec!Next]_[r \in Runs |-> Outcome(r)]
<1> SUFFICES ASSUME TypeOK, OrderlyInv, Reliable, ToldInv, [Next]_vars
             PROVE  \/ RunOutcomeSpec!Next
                    \/ [r \in Runs |-> Outcome(r)]' = [r \in Runs |-> Outcome(r)]
  OBVIOUS
<1>1. ToldInv' /\ \A r \in Runs : Speaks(r)
  BY NextTells
<1>2. CASE events' = events
  <2>1. \A r \in Runs : Outcome(r)' = Outcome(r)
    BY <1>2 DEF Outcome, Logged, Concluded
  <2> QED BY <2>1
<1>3. ASSUME NEW r \in Runs, \A q \in Runs \ {r} : events'[q] = events[q]
      PROVE  \/ RunOutcomeSpec!Next
             \/ [q \in Runs |-> Outcome(q)]' = [q \in Runs |-> Outcome(q)]
  <2>1. OutcomeMoves(OutcomeOf(events[r]), OutcomeOf(events'[r]))
    BY <1>1, SpeaksMoves
  <2>2. /\ OutcomeMoves(Outcomes[r], Outcomes'[r])
        /\ \A q \in Runs \ {r} : Outcomes'[q] = Outcomes[q]
    BY <1>3, <2>1 DEF Outcomes
  <2>3. Outcomes' = Outcomes \/ RunOutcomeSpec!Next
    BY <2>2, OutcomesMove
  <2>4. /\ [q \in Runs |-> Outcome(q)] = Outcomes
        /\ [q \in Runs |-> Outcome(q)]' = Outcomes'
    BY OutcomesAre
  <2> QED BY <2>3, <2>4
<1> QED BY <1>2, <1>3, OneStreamMoves

LEMMA InitOutcomes == Init => RunOutcomeSpec!Init
<1> SUFFICES ASSUME Init PROVE RunOutcomeSpec!Init
  OBVIOUS
<1>1. ASSUME NEW r \in Runs PROVE Outcome(r) = "none"
  <2>1. events[r] = <<>>
    BY DEF Init
  <2>2. \A type, status : ~Logged(r, type, status)
    BY <2>1 DEF Logged
  <2> QED BY <2>1, <2>2 DEF Outcome
<1> QED BY <1>1 DEF RunOutcomeSpec!Init

\* The streams implement RunOutcome, for any runs, cancel handlers and crashes, and
\* whichever saves are lost: a run is accepted once, has at most one outcome, which never
\* changes, and only a cancellation takes a question back.
THEOREM OutcomeImplemented == Reliable => (Spec => ImplementsRunOutcome)
<1> SUFFICES ASSUME Reliable PROVE Spec => ImplementsRunOutcome
  OBVIOUS
<1>1. TypeOK /\ OrderlyInv /\ ToldInv /\ [Next]_vars
        => ToldInv' /\ [RunOutcomeSpec!Next]_[r \in Runs |-> Outcome(r)]
  BY NextTells, NextOutcomes
<1> QED
  BY <1>1, InitTypeOK, NextTypeOK, InitOrderly, NextOrderly, InitTold, InitOutcomes, PTL
     DEF Spec, ImplementsRunOutcome, RunOutcomeSpec!Spec
=============================================================================
