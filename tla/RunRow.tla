------------------------------- MODULE RunRow -------------------------------
(***************************************************************************)
(* What the agent promises whoever polls a run instead of following its    *)
(* stream: how the status it stores may move, and that a cancellation may  *)
(* overtake anything, a stored result included.  AgentRun implements this  *)
(* specification; Assessments, the API's side, is built on it.             *)
(***************************************************************************)
CONSTANTS Runs, None

VARIABLES
  row,   \* row[r]: the stored status and whether it carries a recommendation
  asked  \* asked[r]: somebody asked the agent to cancel r

vars == <<row, asked>>

Verdicts == [status : {"COMPLETED"}, rec : BOOLEAN]
              \cup [status : {"PARTIAL"}, rec : {TRUE}]
              \cup [status : {"NEEDS_INPUT", "FAILED"}, rec : {FALSE}]
Rows == [status : {None, "QUEUED", "RUNNING", "CANCELLED"}, rec : {FALSE}] \cup Verdicts

Init ==
  /\ row = [r \in Runs |-> [status |-> None, rec |-> FALSE]]
  /\ asked = [r \in Runs |-> FALSE]

Set(r, status, rec) == row' = [row EXCEPT ![r] = [status |-> status, rec |-> rec]]

Accept(r) ==
  /\ row[r].status = None
  /\ Set(r, "QUEUED", FALSE)
  /\ UNCHANGED asked

\* A lost save skips a status; a run cancelled before its task exists is still started.
Work(r) ==
  /\ row[r].status \in {None, "QUEUED"} \/ (row[r].status = "CANCELLED" /\ asked[r])
  /\ Set(r, "RUNNING", FALSE)
  /\ UNCHANGED asked

\* After such a cancellation the run can still fail.
Settle(r) ==
  /\ row[r].status \in {None, "QUEUED", "RUNNING", "CANCELLED"}
  /\ \E v \in Verdicts :
       /\ row[r].status = "CANCELLED" => asked[r] /\ v.status = "FAILED"
       /\ row' = [row EXCEPT ![r] = v]
  /\ UNCHANGED asked

AskCancel(r) ==
  /\ asked' = [asked EXCEPT ![r] = TRUE]
  /\ UNCHANGED row

\* Mostly a live run, but also one whose result was just stored.
Stop(r) ==
  /\ asked[r]
  /\ Set(r, "CANCELLED", FALSE)
  /\ UNCHANGED asked

Next == \E r \in Runs : Accept(r) \/ Work(r) \/ Settle(r) \/ AskCancel(r) \/ Stop(r)

Spec == Init /\ [][Next]_vars
=============================================================================
