------------------------------ MODULE AgentRun ------------------------------
(***************************************************************************)
(* The agent service's run manager (services/agent/app/graph/runner.py),   *)
(* the finite graph it drives (graph/builder.py, graph/nodes/core.py), its *)
(* progress publisher and its run store.                                   *)
(*                                                                         *)
(* One asyncio process holds, per request id, a coroutine that starts the  *)
(* run, a task that executes it and any number of cancel handlers.  They   *)
(* interleave only at an await, so a step here is the code between two     *)
(* awaits: whatever it assigns, and the one Redis command it issues before *)
(* it suspends.  task.cancel() makes the *next* resumption of the task     *)
(* raise CancelledError at the await where it is parked.                   *)
(*                                                                         *)
(* Abstractions.  A downstream answer is any record of the right shape, or *)
(* an error; the graph's checks decide what happens to it.  A snapshot is  *)
(* its request and trip revision.  All runs belong to one conversation of  *)
(* one trip.  The Redis run-state key and the Postgres row, written by the *)
(* same _save, are one record.  A node publishes one progress event.       *)
(***************************************************************************)
EXTENDS Naturals, Sequences

CONSTANTS
  Runs,          \* request ids
  Cancellers,    \* concurrent POST /runs/{id}/cancel handlers
  Revisions,     \* trip revisions
  Actions,       \* action codes a decision may lock
  MaxSteps,      \* settings.max_agent_steps
  MaxToolCalls,  \* settings.max_tool_calls
  EmergencyIds,  \* values of int(time.time() * 1000) % 1_000_000
  Requests,      \* the requests the API may submit
  Faults,        \* which environment faults may happen
  None           \* absent value (Python None)

\* What classify makes of a question, as far as needs_fresh_data tells it apart: an
\* emergency, a question about current conditions, or one about information only.
Intents == {"EMERGENCY", "CURRENT", "INFORMATION"}

Statuses == {"QUEUED", "RUNNING", "NEEDS_INPUT", "COMPLETED", "PARTIAL",
             "FAILED", "CANCELLED"}
Cancellable == {"QUEUED", "RUNNING", "NEEDS_INPUT"}
Success     == {"COMPLETED", "PARTIAL"}
TerminalStatuses == Success \cup {"FAILED", "CANCELLED"}
TerminalEvents   == {"completed", "failed"}

Opt(S) == S \cup {None}
Snapshot       == [req : Runs, rev : Revisions]
Package        == [req : Runs, snap : Snapshot]
Decision       == [req : Runs, snap : Snapshot, action : Actions]
Recommendation == [req : Runs, decision : Decision, action : Actions]

ASSUME AgentRunAssumption ==
  /\ MaxSteps \in Nat /\ MaxToolCalls \in Nat
  /\ EmergencyIds \subseteq Nat
  /\ Faults \subseteq {"crash", "redis", "save"}
  /\ Requests \subseteq [rev : Revisions, confirmed : BOOLEAN, intent : Intents]
  /\ None \notin Snapshot \cup Package \cup Decision \cup Recommendation \cup Statuses

EventTypes == {"accepted", "progress", "degraded", "needs_input"} \cup TerminalEvents
Event == [id : Nat, type : EventTypes, status : Statuses, rec : Opt(Recommendation)]

RunDict == [status : Statuses, snap : Opt(Snapshot)]
GraphDict == [entered : BOOLEAN, reuse : BOOLEAN, status : Statuses,
              snap : Opt(Snapshot), pkg : Opt(Package), decision : Opt(Decision),
              rec : Opt(Recommendation), degraded : BOOLEAN, steps : Nat, tools : Nat]
Row == [status : Opt(Statuses), snap : Opt(Snapshot), rec : Opt(Recommendation)]

\* The nodes that call _enter; all but the first then call one tool.
ToolNodes == {"fetch_external_data", "integrate_data", "build_evidence",
              "make_decision", "format_recommendation"}
Nodes == {"validate_input"} \cup ToolNodes
GraphPCs == Nodes \cup {"classify_intent", "check_required_fields", "returned"}
\* Awaits inside the try block of _execute, outside and inside its handlers.
TryPCs     == GraphPCs \cup {"announced", "saving"}
OutsidePCs == {"launched", "marked_running", "failing", "closing"}
StartPCs   == {"accepted", "registered"}
TaskPCs    == TryPCs \cup OutsidePCs
PCs        == {"absent", "done", "lost"} \cup StartPCs \cup TaskPCs

VARIABLES
  request,    \* request[r]: what the API asked for
  pc,         \* pc[r]: the await at which r's coroutine is parked
  held,       \* held[r]: which dict RunManager.states[r] refers to
  state,      \* state[r]: the dict start() built and _execute() received
  graph,      \* graph[r]: LangGraph's copy of it, with the run's budget
  cancelReq,  \* cancelReq[r]: task.cancel() was called, not yet delivered
  flag,       \* flag[r]: the Redis cancel key of r exists
  canceller,  \* canceller[c]: the cancel handler c
  events,     \* events[r]: r's progress stream
  counter,    \* counter[r]: the last event id the publisher gave out for r
  stored,     \* stored[r]: what _save last wrote for r
  latest      \* the run whose row was written last

vars == <<request, pc, held, state, graph, cancelReq, flag, canceller, events,
          counter, stored, latest>>

-----------------------------------------------------------------------------
\* Mutant: the dict is built without a status.
InitialStateWithoutStatus == [status |-> None, snap |-> None]

InitialState == [status |-> "QUEUED", snap |-> None]
InitialGraph == [entered |-> FALSE, reuse |-> FALSE, status |-> "RUNNING",
                 snap |-> None, pkg |-> None, decision |-> None, rec |-> None,
                 degraded |-> FALSE, steps |-> 0, tools |-> 0]
NoRow == [status |-> None, snap |-> None, rec |-> None]

Init ==
  /\ request \in [Runs -> Requests]
  /\ pc = [r \in Runs |-> "absent"]
  /\ held = [r \in Runs |-> "none"]
  /\ state = [r \in Runs |-> InitialState]
  /\ graph = [r \in Runs |-> InitialGraph]
  /\ cancelReq = [r \in Runs |-> FALSE]
  /\ flag = [r \in Runs |-> FALSE]
  /\ canceller = [c \in Cancellers |-> [pc |-> "idle", run |-> None]]
  /\ events = [r \in Runs |-> <<>>]
  /\ counter = [r \in Runs |-> 0]
  /\ stored = [r \in Runs |-> NoRow]
  /\ latest = None

\* ProgressPublisher: next_id, then publish, which swallows the error of a lost event.
Publish(r, type, status, rec) ==
  /\ counter' = [counter EXCEPT ![r] = @ + 1]
  /\ \/ events' = [events EXCEPT ![r] = Append(@,
           [id |-> counter[r] + 1, type |-> type, status |-> status, rec |-> rec])]
     \/ "redis" \in Faults /\ UNCHANGED events

\* AgentRepo.save_run: insert or update the run's row, updated_at becoming the newest.
SaveRun(r, row) ==
  /\ stored' = [stored EXCEPT ![r] = row]
  /\ latest' = r

\* RunManager._save: both stores swallow their errors, so a save may be lost.
Save(r, status, snap, rec) ==
  \/ SaveRun(r, [status |-> status, snap |-> snap, rec |-> rec])
  \/ /\ "save" \in Faults
     /\ UNCHANGED <<stored, latest>>

Runnable(r) == ~cancelReq[r]
Goto(r, p)  == pc' = [pc EXCEPT ![r] = p]

-----------------------------------------------------------------------------
(* RunManager.start, between its awaits.                                   *)

\* Mutant: evidence carried over whatever the trip revision.
CarriedFromAnyRevision(r) == IF latest = None THEN None ELSE stored[latest].snap

\* Evidence carried over from the conversation's latest row: same trip revision only.
Carried(r) ==
  LET snap == IF latest = None THEN None ELSE stored[latest].snap IN
  IF snap # None /\ snap.rev = request[r].rev THEN snap ELSE None

\* create_run found no state; the dict is registered and run.accepted issued.
Start(r) ==
  /\ pc[r] = "absent"
  /\ stored[r].status = None
  /\ Goto(r, "accepted")
  /\ held' = [held EXCEPT ![r] = "initial"]
  /\ state' = [state EXCEPT ![r].snap = Carried(r)]
  /\ Publish(r, "accepted", "QUEUED", None)
  /\ UNCHANGED <<request, graph, cancelReq, flag, canceller, stored, latest>>

Register(r) ==
  /\ pc[r] = "accepted"
  /\ Goto(r, "registered")
  /\ Save(r, state[r].status, state[r].snap, None)
  /\ UNCHANGED <<request, held, state, graph, cancelReq, flag, canceller, events, counter>>

\* asyncio.create_task(self._execute(state))
Launch(r) ==
  /\ pc[r] = "registered"
  /\ Goto(r, "launched")
  /\ UNCHANGED <<request, held, state, graph, cancelReq, flag, canceller, events, counter,
                 stored, latest>>

-----------------------------------------------------------------------------
(* RunManager._execute.                                                    *)

MarkRunning(r) ==
  /\ Runnable(r) /\ pc[r] = "launched"
  /\ Goto(r, "marked_running")
  /\ state' = [state EXCEPT ![r].status = "RUNNING"]
  /\ Save(r, "RUNNING", state[r].snap, None)
  /\ UNCHANGED <<request, held, graph, cancelReq, flag, canceller, events, counter>>

\* graph.ainvoke(state): the graph works on its own copy.
Invoke(r) ==
  /\ Runnable(r) /\ pc[r] = "marked_running"
  /\ Goto(r, "validate_input")
  /\ graph' = [graph EXCEPT ![r].snap = state[r].snap, ![r].status = state[r].status]
  /\ UNCHANGED <<request, held, state, cancelReq, flag, canceller, events, counter, stored,
                 latest>>

\* Mutant: the failure is not announced.
FailSilently(r) ==
  /\ Goto(r, "failing")
  /\ state' = [state EXCEPT ![r].status = "FAILED"]
  /\ UNCHANGED <<request, held, cancelReq, flag, canceller, events, counter, stored, latest>>

\* The except branches that fail a run: status and run.failed, then an await.
Fail(r) ==
  /\ Goto(r, "failing")
  /\ state' = [state EXCEPT ![r].status = "FAILED"]
  /\ Publish(r, "failed", "FAILED", None)
  /\ UNCHANGED <<request, held, cancelReq, flag, canceller, stored, latest>>

\* The except branch of AppError(CONFLICT, "run cancelled"): saved, not published.
StopCancelled(r) ==
  /\ Goto(r, "closing")
  /\ state' = [state EXCEPT ![r].status = "CANCELLED"]
  /\ Save(r, "CANCELLED", state[r].snap, None)
  /\ UNCHANGED <<request, held, cancelReq, flag, canceller, events, counter>>

\* NodeContext._enter: step budget, cancel flag, stage event.
StepBudgetLeft(r) == graph[r].steps < MaxSteps

EnterNode(r) ==
  /\ Runnable(r) /\ pc[r] \in Nodes /\ ~graph[r].entered
  /\ StepBudgetLeft(r)
  /\ ~flag[r]
  /\ graph' = [graph EXCEPT ![r].steps = @ + 1, ![r].entered = TRUE]
  /\ Publish(r, "progress", "RUNNING", None)
  /\ UNCHANGED <<request, pc, held, state, cancelReq, flag, canceller, stored, latest>>

EnterCancelled(r) ==
  /\ Runnable(r) /\ pc[r] \in Nodes /\ ~graph[r].entered
  /\ StepBudgetLeft(r)
  /\ flag[r]
  /\ graph' = [graph EXCEPT ![r].steps = @ + 1]
  /\ StopCancelled(r)

\* The budget is exhausted, or reading the flag raised (unlike publish, not caught).
EnterFails(r) ==
  /\ Runnable(r) /\ pc[r] \in Nodes /\ ~graph[r].entered
  /\ ~StepBudgetLeft(r) \/ "redis" \in Faults
  /\ graph' = [graph EXCEPT ![r].steps = @ + 1]
  /\ Fail(r)

Validated(r) ==
  /\ Runnable(r) /\ pc[r] = "validate_input" /\ graph[r].entered
  /\ Goto(r, "classify_intent")
  /\ graph' = [graph EXCEPT ![r].entered = FALSE]
  /\ UNCHANGED <<request, held, state, cancelReq, flag, canceller, events, counter, stored,
                 latest>>

\* Carried evidence is reused only for information questions, and only while fresh.
ClassifyIntent(r) ==
  /\ Runnable(r) /\ pc[r] = "classify_intent"
  /\ Goto(r, "check_required_fields")
  /\ \E fresh \in BOOLEAN :
       graph' = [graph EXCEPT ![r].reuse =
                   /\ graph[r].snap # None
                   /\ request[r].intent = "INFORMATION"
                   /\ fresh]
  /\ UNCHANGED <<request, held, state, cancelReq, flag, canceller, events, counter, stored,
                 latest>>

\* check_required_fields and the conditional edge _after_required.
CheckRequiredFields(r) ==
  /\ Runnable(r) /\ pc[r] = "check_required_fields"
  /\ \/ /\ request[r].intent = "EMERGENCY"
        /\ Goto(r, "returned")
        /\ graph' = [graph EXCEPT ![r].status = "COMPLETED"]
        /\ UNCHANGED <<events, counter>>
     \/ /\ request[r].intent # "EMERGENCY" /\ ~request[r].confirmed
        /\ Goto(r, "returned")
        /\ graph' = [graph EXCEPT ![r].status = "NEEDS_INPUT"]
        /\ Publish(r, "needs_input", "NEEDS_INPUT", None)
     \/ /\ request[r].intent # "EMERGENCY" /\ request[r].confirmed
        /\ Goto(r, IF graph[r].reuse THEN "build_evidence" ELSE "fetch_external_data")
        /\ UNCHANGED <<graph, events, counter>>
  /\ UNCHANGED <<request, held, state, cancelReq, flag, canceller, stored, latest>>

-----------------------------------------------------------------------------
(* The tool nodes: one call each, through ToolRunner.call.                 *)

Calling(r, node) ==
  /\ Runnable(r) /\ pc[r] = node /\ graph[r].entered
  /\ graph[r].tools < MaxToolCalls

\* Mutant: the services degraded so far are replaced, not merged.
AcceptLastDegradation(r, next, g, degraded) ==
  /\ Goto(r, next)
  /\ graph' = [graph EXCEPT ![r] = [g EXCEPT !.entered = FALSE, !.tools = @ + 1,
                                             !.degraded = degraded]]
  /\ IF degraded THEN Publish(r, "degraded", "RUNNING", None) ELSE UNCHANGED <<events, counter>>
  /\ UNCHANGED <<request, held, state, cancelReq, flag, canceller, stored, latest>>

\* An accepted answer: the node's results g, and run.degraded once per service.
Accept(r, next, g, degraded) ==
  /\ Goto(r, next)
  /\ graph' = [graph EXCEPT ![r] = [g EXCEPT !.entered = FALSE, !.tools = @ + 1,
                                             !.degraded = @ \/ degraded]]
  /\ IF degraded /\ ~graph[r].degraded
       THEN Publish(r, "degraded", "RUNNING", None)
       ELSE UNCHANGED <<events, counter>>
  /\ UNCHANGED <<request, held, state, cancelReq, flag, canceller, stored, latest>>

\* A contract violation between two nodes: POLICY_VALIDATION_FAILED.
Reject(r) ==
  /\ graph' = [graph EXCEPT ![r].tools = @ + 1]
  /\ Fail(r)

FetchExternalData(r) ==
  /\ Calling(r, "fetch_external_data")
  /\ \E degraded \in BOOLEAN : Accept(r, "integrate_data", graph[r], degraded)

SnapshotMatches(r, snap) == snap = [req |-> r, rev |-> request[r].rev]

IntegrateData(r) ==
  /\ Calling(r, "integrate_data")
  /\ \E snap \in Snapshot, degraded \in BOOLEAN :
       \/ /\ SnapshotMatches(r, snap)
          /\ Accept(r, "build_evidence", [graph[r] EXCEPT !.snap = snap], degraded)
       \/ /\ ~SnapshotMatches(r, snap)
          /\ Reject(r)

PackageMatches(r, pkg) == pkg.req = r /\ pkg.snap = graph[r].snap

BuildEvidence(r) ==
  /\ Calling(r, "build_evidence")
  /\ \E pkg \in Package, degraded \in BOOLEAN :
       \/ /\ PackageMatches(r, pkg)
          /\ Accept(r, "make_decision", [graph[r] EXCEPT !.pkg = pkg], degraded)
       \/ /\ ~PackageMatches(r, pkg)
          /\ Reject(r)

DecisionMatches(r, d) == d.req = r /\ d.snap = graph[r].pkg.snap

MakeDecision(r) ==
  /\ Calling(r, "make_decision")
  /\ \E d \in Decision, degraded \in BOOLEAN :
       \/ /\ DecisionMatches(r, d)
          /\ Accept(r, "format_recommendation", [graph[r] EXCEPT !.decision = d], degraded)
       \/ /\ ~DecisionMatches(r, d)
          /\ Reject(r)

RecommendationMatches(r, rec) ==
  /\ rec.req = r
  /\ rec.action = graph[r].decision.action
  /\ rec.decision = graph[r].decision

\* The recommendation service answers PARTIAL whenever it reports a degraded service.
FormatRecommendation(r) ==
  /\ Calling(r, "format_recommendation")
  /\ \E rec \in Recommendation, partial \in BOOLEAN, degraded \in BOOLEAN :
       /\ degraded => partial
       /\ \/ /\ RecommendationMatches(r, rec)
             /\ Accept(r, "returned",
                  [graph[r] EXCEPT !.rec = rec,
                     !.status = IF partial \/ graph[r].degraded THEN "PARTIAL"
                                                                ELSE "COMPLETED"],
                  degraded)
          \/ /\ ~RecommendationMatches(r, rec)
             /\ Reject(r)

\* The tool budget is exhausted, or the call failed or returned a malformed body.
ToolFails(r) ==
  /\ Runnable(r) /\ pc[r] \in ToolNodes /\ graph[r].entered
  /\ IF graph[r].tools < MaxToolCalls
       THEN graph' = [graph EXCEPT ![r].tools = @ + 1]
       ELSE UNCHANGED graph
  /\ Fail(r)

\* asyncio.wait_for: the total timeout expires while a tool is awaited.
Timeout(r) ==
  /\ Runnable(r) /\ pc[r] \in ToolNodes /\ graph[r].entered
  /\ Fail(r)
  /\ UNCHANGED graph

-----------------------------------------------------------------------------
(* After the graph: announce, save, end; or a handler's save, end.         *)

\* Mutant: the final dict is registered too late for a cancel handler to see it.
AnnounceUnregisteredResult(r) ==
  /\ Runnable(r) /\ pc[r] = "returned" /\ graph[r].rec # None
  /\ Goto(r, "announced")
  /\ Publish(r, "completed", graph[r].status, graph[r].rec)
  /\ UNCHANGED <<request, held, state, graph, cancelReq, flag, canceller, stored, latest>>

AnnounceResult(r) ==
  /\ Runnable(r) /\ pc[r] = "returned" /\ graph[r].rec # None
  /\ Goto(r, "announced")
  /\ held' = [held EXCEPT ![r] = "final"]
  /\ Publish(r, "completed", graph[r].status, graph[r].rec)
  /\ UNCHANGED <<request, state, graph, cancelReq, flag, canceller, stored, latest>>

\* The emergency shortcut takes its event id from the clock, not from next_id.
AnnounceEmergency(r) ==
  /\ Runnable(r) /\ pc[r] = "returned" /\ graph[r].rec = None
  /\ graph[r].status # "NEEDS_INPUT" /\ request[r].intent = "EMERGENCY"
  /\ Goto(r, "announced")
  /\ held' = [held EXCEPT ![r] = "final"]
  /\ graph' = [graph EXCEPT ![r].status = "COMPLETED"]
  /\ \/ \E id \in EmergencyIds :
          events' = [events EXCEPT ![r] =
            Append(@, [id |-> id, type |-> "completed", status |-> "COMPLETED", rec |-> None])]
     \/ "redis" \in Faults /\ UNCHANGED events
  /\ UNCHANGED <<request, state, cancelReq, flag, canceller, counter, stored, latest>>

\* needs_input was published inside the graph: only the save is left.
SaveNeedsInput(r) ==
  /\ Runnable(r) /\ pc[r] = "returned" /\ graph[r].status = "NEEDS_INPUT"
  /\ Goto(r, "saving")
  /\ held' = [held EXCEPT ![r] = "final"]
  /\ Save(r, graph[r].status, graph[r].snap, graph[r].rec)
  /\ UNCHANGED <<request, state, graph, cancelReq, flag, canceller, events, counter>>

SaveFinal(r) ==
  /\ Runnable(r) /\ pc[r] = "announced"
  /\ Goto(r, "saving")
  /\ Save(r, graph[r].status, graph[r].snap, graph[r].rec)
  /\ UNCHANGED <<request, held, state, graph, cancelReq, flag, canceller, events, counter>>

\* Mutant: a failed run is not saved.
KeepRunningRow(r) ==
  /\ Runnable(r) /\ pc[r] = "failing"
  /\ Goto(r, "closing")
  /\ UNCHANGED <<request, held, state, graph, cancelReq, flag, canceller, events, counter,
                 stored, latest>>

SaveFailure(r) ==
  /\ Runnable(r) /\ pc[r] = "failing"
  /\ Goto(r, "closing")
  /\ Save(r, state[r].status, state[r].snap, None)
  /\ UNCHANGED <<request, held, state, graph, cancelReq, flag, canceller, events, counter>>

\* The last await returned; the finally clause saves the tool audit.
Close(r) ==
  /\ Runnable(r) /\ pc[r] \in {"saving", "closing"}
  /\ Goto(r, "done")
  /\ UNCHANGED <<request, held, state, graph, cancelReq, flag, canceller, events, counter,
                 stored, latest>>

\* Mutant: the row is saved without setting its status first.
CancelledKeepsStatus(r) ==
  /\ cancelReq[r] /\ pc[r] \in TryPCs
  /\ Goto(r, "closing")
  /\ cancelReq' = [cancelReq EXCEPT ![r] = FALSE]
  /\ Save(r, state[r].status, state[r].snap, None)
  /\ UNCHANGED <<request, held, state, graph, flag, canceller, events, counter>>

\* CancelledError raised inside the try: saved from the dict _execute received.
CancelledInTry(r) ==
  /\ cancelReq[r] /\ pc[r] \in TryPCs
  /\ Goto(r, "closing")
  /\ cancelReq' = [cancelReq EXCEPT ![r] = FALSE]
  /\ state' = [state EXCEPT ![r].status = "CANCELLED"]
  /\ Save(r, "CANCELLED", state[r].snap, None)
  /\ UNCHANGED <<request, held, graph, flag, canceller, events, counter>>

\* Mutant: the cancellation is swallowed.
SwallowCancellation(r) ==
  /\ cancelReq[r] /\ pc[r] \in OutsidePCs
  /\ cancelReq' = [cancelReq EXCEPT ![r] = FALSE]
  /\ UNCHANGED <<request, pc, held, state, graph, flag, canceller, events, counter, stored, latest>>

\* Before the try, or inside one of its handlers, nothing catches it.
CancelledOutsideTry(r) ==
  /\ cancelReq[r] /\ pc[r] \in OutsidePCs
  /\ Goto(r, "done")
  /\ cancelReq' = [cancelReq EXCEPT ![r] = FALSE]
  /\ UNCHANGED <<request, held, state, graph, flag, canceller, events, counter, stored, latest>>

-----------------------------------------------------------------------------
(* RunManager.cancel, between its awaits.                                  *)

RequestCancel(c, r) ==
  /\ canceller[c].pc = "idle"
  /\ canceller' = [canceller EXCEPT ![c] = [pc |-> "flagged", run |-> r]]
  /\ flag' = [flag EXCEPT ![r] = TRUE]
  /\ UNCHANGED <<request, pc, held, state, graph, cancelReq, events, counter, stored, latest>>

HeldStatus(r) ==
  CASE held[r] = "none"    -> None
    [] held[r] = "initial" -> state[r].status
    [] held[r] = "final"   -> graph[r].status

\* Mutant: only the Redis flag is set, the task is left to notice it.
LeaveTaskRunning(r) == UNCHANGED cancelReq

\* task.cancel() unless the task is done (or was never created).
InterruptTask(r) == cancelReq' = [cancelReq EXCEPT ![r] = @ \/ pc[r] \in TaskPCs]

\* A live status becomes CANCELLED in the dict states[r] refers to, and is published.
CancelLive(c, r) ==
  /\ canceller[c] = [pc |-> "flagged", run |-> r]
  /\ HeldStatus(r) \in Cancellable
  /\ InterruptTask(r)
  /\ \/ /\ held[r] = "initial"
        /\ state' = [state EXCEPT ![r].status = "CANCELLED"]
        /\ UNCHANGED graph
     \/ /\ held[r] = "final"
        /\ graph' = [graph EXCEPT ![r].status = "CANCELLED"]
        /\ UNCHANGED state
  /\ Publish(r, "failed", "CANCELLED", None)
  /\ canceller' = [canceller EXCEPT ![c].pc = "published"]
  /\ UNCHANGED <<request, pc, held, flag, stored, latest>>

\* No live status: the handler only answers with the stored state.
CancelSettled(c, r) ==
  /\ canceller[c] = [pc |-> "flagged", run |-> r]
  /\ HeldStatus(r) \notin Cancellable
  /\ InterruptTask(r)
  /\ canceller' = [canceller EXCEPT ![c] = [pc |-> "idle", run |-> None]]
  /\ UNCHANGED <<request, pc, held, state, graph, flag, events, counter, stored, latest>>

\* Mutant: the cancelled run is announced but not saved.
ForgetCancel(c, r) ==
  /\ canceller[c] = [pc |-> "published", run |-> r]
  /\ canceller' = [canceller EXCEPT ![c] = [pc |-> "idle", run |-> None]]
  /\ UNCHANGED <<request, pc, held, state, graph, cancelReq, flag, events, counter, stored, latest>>

SaveCancel(c, r) ==
  /\ canceller[c] = [pc |-> "published", run |-> r]
  /\ canceller' = [canceller EXCEPT ![c] = [pc |-> "idle", run |-> None]]
  /\ \/ /\ held[r] = "initial"
        /\ Save(r, state[r].status, state[r].snap, None)
     \/ /\ held[r] = "final"
        /\ Save(r, graph[r].status, graph[r].snap, graph[r].rec)
  /\ UNCHANGED <<request, pc, held, state, graph, cancelReq, flag, events, counter>>

-----------------------------------------------------------------------------
\* The process dies: tasks, dicts, counters and handlers go; Redis and Postgres stay.
Crash ==
  /\ "crash" \in Faults
  /\ \E r \in Runs : pc[r] \in StartPCs \cup TaskPCs
  /\ pc' = [r \in Runs |-> IF pc[r] \in StartPCs \cup TaskPCs THEN "lost" ELSE pc[r]]
  /\ held' = [r \in Runs |-> "none"]
  /\ cancelReq' = [r \in Runs |-> FALSE]
  /\ canceller' = [c \in Cancellers |-> [pc |-> "idle", run |-> None]]
  /\ counter' = [r \in Runs |-> 0]
  /\ UNCHANGED <<request, state, graph, flag, events, stored, latest>>

RunStep(r) ==
  \/ Start(r) \/ Register(r) \/ Launch(r)
  \/ MarkRunning(r) \/ Invoke(r)
  \/ EnterNode(r) \/ EnterCancelled(r) \/ EnterFails(r)
  \/ Validated(r) \/ ClassifyIntent(r) \/ CheckRequiredFields(r)
  \/ FetchExternalData(r) \/ IntegrateData(r) \/ BuildEvidence(r)
  \/ MakeDecision(r) \/ FormatRecommendation(r)
  \/ ToolFails(r) \/ Timeout(r)
  \/ AnnounceResult(r) \/ AnnounceEmergency(r)
  \/ SaveNeedsInput(r) \/ SaveFinal(r) \/ SaveFailure(r) \/ Close(r)
  \/ CancelledInTry(r) \/ CancelledOutsideTry(r)

CancelStep(c, r) == CancelLive(c, r) \/ CancelSettled(c, r) \/ SaveCancel(c, r)

Next ==
  \/ \E r \in Runs : RunStep(r)
  \/ \E c \in Cancellers, r \in Runs : RequestCancel(c, r) \/ CancelStep(c, r)
  \/ Crash

Spec == Init /\ [][Next]_vars

\* The event loop resumes every coroutine whose await returned: every Redis command
\* and every tool call ends, by its own timeout at the latest.  Nobody has to start
\* or cancel a run.
ExecuteStep(r) == ~(pc[r] = "absent") /\ RunStep(r)
Fairness ==
  /\ \A r \in Runs : WF_vars(ExecuteStep(r))
  /\ \A c \in Cancellers, r \in Runs : WF_vars(CancelStep(c, r))
FairSpec == Spec /\ Fairness

-----------------------------------------------------------------------------
(* Properties.                                                             *)

TypeOK ==
  /\ request \in [Runs -> Requests]
  /\ pc \in [Runs -> PCs]
  /\ held \in [Runs -> {"none", "initial", "final"}]
  /\ state \in [Runs -> RunDict]
  /\ graph \in [Runs -> GraphDict]
  /\ cancelReq \in [Runs -> BOOLEAN]
  /\ flag \in [Runs -> BOOLEAN]
  /\ canceller \in [Cancellers -> [pc : {"idle", "flagged", "published"}, run : Opt(Runs)]]
  /\ events \in [Runs -> Seq(Event)]
  /\ counter \in [Runs -> Nat]
  /\ stored \in [Runs -> Row]
  /\ latest \in Opt(Runs)

Logged(r, type, status) ==
  \E i \in DOMAIN events[r] : events[r][i].type = type /\ events[r][i].status = status
Concluded(r) == \E i \in DOMAIN events[r] : events[r][i].type \in TerminalEvents

\* Every published recommendation answers this run, carries the action its decision
\* locked, and that decision rests on a snapshot of this run's trip revision, be it
\* integrated by this run or carried over from an earlier one.
RecommendationIsGrounded ==
  \A r \in Runs : \A i \in DOMAIN events[r] :
    LET rec == events[r][i].rec IN
    rec # None => /\ rec.req = r
                  /\ rec.action = rec.decision.action
                  /\ rec.decision.req = r
                  /\ rec.decision.snap.rev = request[r].rev

\* What a poll may read was announced before: a stored success had its run.completed
\* with that recommendation, a stored failure or question its event, and only a
\* success carries a recommendation.
StoredWasAnnounced ==
  \A r \in Runs :
    /\ stored[r].status \in Success =>
         \E i \in DOMAIN events[r] :
           /\ events[r][i].type = "completed"
           /\ events[r][i].status = stored[r].status
           /\ events[r][i].rec = stored[r].rec
    /\ stored[r].status = "FAILED" => Logged(r, "failed", "FAILED")
    /\ stored[r].status = "NEEDS_INPUT" => Logged(r, "needs_input", "NEEDS_INPUT")
    /\ stored[r].rec # None => stored[r].status \in Success

\* A run announced as COMPLETED with a recommendation never published run.degraded:
\* a degraded service always turns the run PARTIAL.
DegradationIsShown ==
  \A r \in Runs :
    (\E i \in DOMAIN events[r] : events[r][i].status = "COMPLETED" /\ events[r][i].rec # None)
      => ~Logged(r, "degraded", "RUNNING")

\* The outcome a reader of r's stream has learnt.
Outcome(r) ==
  CASE Logged(r, "completed", "COMPLETED") \/ Logged(r, "completed", "PARTIAL") -> "completed"
    [] Logged(r, "failed", "FAILED")    -> "failed"
    [] Logged(r, "failed", "CANCELLED") -> "cancelled"
    [] Logged(r, "needs_input", "NEEDS_INPUT") /\ ~Concluded(r) -> "asked"
    [] events[r] # <<>> /\ ~Concluded(r)
         /\ ~Logged(r, "needs_input", "NEEDS_INPUT") -> "open"
    [] events[r] = <<>> -> "none"

RunOutcomeSpec == INSTANCE RunOutcome WITH outcome <- [r \in Runs |-> Outcome(r)]

\* The task, the cancel handlers and their interleavings implement RunOutcome: a run
\* has one outcome on its stream, and no late step changes it.
ImplementsRunOutcome == RunOutcomeSpec!Spec

RunRowSpec == INSTANCE RunRow WITH
  row   <- [r \in Runs |-> [status |-> stored[r].status, rec |-> stored[r].rec # None]],
  asked <- flag

\* What a poll reads implements RunRow, whatever task and cancel handlers save in which
\* order: the status never goes back, except that a cancellation may overtake anything.
ImplementsRunRow == RunRowSpec!Spec

\* A terminal event settles the stream, whatever the order in which the task, its
\* cancellation and the cancel handlers run: no other event follows it, except that a
\* second cancel may announce the cancellation again.
SilentAfterTerminal ==
  [][\A r \in Runs : Concluded(r) =>
       \/ events'[r] = events[r]
       \/ /\ Logged(r, "failed", "CANCELLED")
          /\ events'[r] = Append(events[r],
               [id |-> counter[r] + 1, type |-> "failed", status |-> "CANCELLED", rec |-> None])]_vars

\* Every started run's task ends: no dangling loop, even while it is being cancelled.
TaskEnds == \A r \in Runs : pc[r] # "absent" ~> pc[r] \in {"done", "lost"}

\* Unless somebody cancels it, and without crash or store outage, every started run
\* leaves a stored status the API can show as final (or a question).
RunSettles ==
  \A r \in Runs : pc[r] # "absent" ~>
    \/ flag[r]
    \/ pc[r] = "done" /\ stored[r].status \in TerminalStatuses \cup {"NEEDS_INPUT"}

\* A cancellation announced on the stream ends with the run stored as CANCELLED.
CancellationIsStored ==
  \A r \in Runs : Logged(r, "failed", "CANCELLED") ~>
    (pc[r] = "done" /\ stored[r].status = "CANCELLED")
=============================================================================
