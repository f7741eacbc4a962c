------------------------- MODULE ExternalDataProofs -------------------------
(***************************************************************************)
(* Theorems about ExternalData, for any slots, queries, threshold, retries *)
(* and faults: its types, the stampede lock's exclusion and that a         *)
(* half-open circuit is never left undecided.                              *)
(***************************************************************************)
EXTENDS ExternalData, TLAPS

TaskRec == [pc : PCs, key : Keys \cup {None}, held : {"no", "yes", "lost"},
            attempt : 0..MaxRetries, result : {None, "records", "negative"}]

\* What TypeOK says of one task, and of everything else.
TaskOK(l) ==
  /\ l \in TaskRec
  /\ l.pc = "idle" <=> l.key = None
  /\ l.pc = "store" <=> l.result # None

Tasked == task \in [Tasks -> TaskRec] /\ \A u \in Tasks : TaskOK(task[u])

RestOK ==
  /\ up \in BOOLEAN
  /\ cache \in [Keys -> {None, "records", "negative"}]
  /\ lock \subseteq Keys
  /\ crashes \in 0..MaxCrashes

CircuitOK ==
  circuit \in [failures : 0..FailureThreshold, opened : {None, "open", "elapsed"},
               status : {"UNKNOWN", "UP", "DEGRADED", "DOWN"}]

\* A lock that is held exists.
HeldExists == \A u \in Tasks : task[u].held = "yes" => Key(u) \in lock

\* The inductive invariant: LockExcludes alone is not, a task may only acquire what nobody
\* holds because a held lock exists.
IInv == Tasked /\ RestOK /\ CircuitOK /\ HeldExists /\ LockExcludes /\ ProbePending

LEMMA TypesSplit == TypeOK <=> Tasked /\ RestOK /\ CircuitOK
BY DEF TypeOK, Tasked, RestOK, CircuitOK, TaskOK, TaskRec, At, Key

-----------------------------------------------------------------------------
\* Task t becomes l: it keeps what it holds or gives it up.
Moves(t, l) ==
  /\ TaskOK(l)
  /\ task' = [task EXCEPT ![t] = l]
  /\ l.held = "yes" => task[t].held = "yes" /\ l.key = task[t].key

LEMMA MovesTyped ==
  ASSUME Tasked, NEW t \in Tasks, NEW l, Moves(t, l)
  PROVE  Tasked'
BY DEF Tasked, Moves, TaskOK

LEMMA MovesLocked ==
  ASSUME Tasked, HeldExists, LockExcludes, NEW t \in Tasks, NEW l, Moves(t, l),
         lock \subseteq lock'
  PROVE  HeldExists' /\ LockExcludes'
BY DEF Tasked, Moves, HeldExists, LockExcludes, Key

\* A step that leaves the circuit alone and takes nobody out of a request.
LEMMA ProbeKept ==
  ASSUME ProbePending, UNCHANGED circuit,
         \A u \in Tasks : At(u, "http") => At(u, "http")'
  PROVE  ProbePending'
BY DEF ProbePending, HalfOpen

LEMMA MovesProbe ==
  ASSUME Tasked, ProbePending, UNCHANGED circuit, NEW t \in Tasks, NEW l, Moves(t, l),
         At(t, "http") => l.pc = "http"
  PROVE  ProbePending'
<1>1. \A u \in Tasks : At(u, "http") => At(u, "http")'
  BY DEF Tasked, Moves, At
<1> QED BY <1>1, ProbeKept

LEMMA IdleTyped == TaskOK(Idle) /\ Idle.held = "no"
BY ExternalDataAssumption DEF Idle, TaskOK, TaskRec, PCs

\* A task whose place alone changes, to one that is neither idle nor store.
LEMMA GotoMoves ==
  ASSUME Tasked, NEW t \in Tasks, NEW pc \in PCs \ {"idle", "store"},
         task[t].pc \notin {"idle", "store"}, Goto(t, pc)
  PROVE  Moves(t, [task[t] EXCEPT !.pc = pc])
<1>1. TaskOK(task[t])
  BY DEF Tasked
<1> DEFINE l == [task[t] EXCEPT !.pc = pc]
<1>2. task' = [task EXCEPT ![t] = l]
  BY DEF Goto
<1>3. /\ l \in TaskRec /\ l.pc = pc /\ l.key = task[t].key
      /\ l.held = task[t].held /\ l.result = task[t].result
  BY <1>1 DEF TaskOK, TaskRec
<1> HIDE DEF l
<1>4. TaskOK(l)
  BY <1>1, <1>3 DEF TaskOK
<1>5. Moves(t, l)
  BY <1>2, <1>3, <1>4 DEF Moves
<1> QED BY <1>5 DEF l

LEMMA FinishMoves ==
  ASSUME Tasked, NEW t \in Tasks, Finish(t)
  PROVE  Moves(t, Idle)
BY IdleTyped DEF Finish, Moves

\* The end of a fetch, with or without something to store.
LEMMA ResultMoves ==
  ASSUME Tasked, NEW t \in Tasks, task[t].pc \notin {"idle", "store"},
         NEW r \in {"records", "negative"}, Result(t, r)
  PROVE  \E l : Moves(t, l)
<1>1. TaskOK(task[t])
  BY DEF Tasked
<1> DEFINE l == [task[t] EXCEPT !.pc = "store", !.result = r, !.attempt = 0]
<1>2. task' = [task EXCEPT ![t] = l]
  BY DEF Result
<1>3. /\ l \in TaskRec /\ l.pc = "store" /\ l.key = task[t].key
      /\ l.held = task[t].held /\ l.result = r
  <2>1. task[t] \in TaskRec /\ 0 \in 0..MaxRetries /\ "store" \in PCs
    BY <1>1, ExternalDataAssumption DEF TaskOK, PCs
  <2> QED BY <2>1 DEF TaskRec
<1> HIDE DEF l
<1>4. TaskOK(l)
  BY <1>1, <1>3, ExternalDataAssumption DEF TaskOK
<1>5. Moves(t, l)
  BY <1>2, <1>3, <1>4 DEF Moves
<1> QED BY <1>5

LEMMA NoResultMoves ==
  ASSUME Tasked, NEW t \in Tasks, task[t].pc \notin {"idle", "store"}, NoResult(t)
  PROVE  \E l : Moves(t, l)
<1>1. TaskOK(task[t])
  BY DEF Tasked
<1> DEFINE l == [task[t] EXCEPT !.pc = "release", !.attempt = 0]
<1>2. task' = [task EXCEPT ![t] = l]
  BY DEF NoResult
<1>3. /\ l \in TaskRec /\ l.pc = "release" /\ l.key = task[t].key
      /\ l.held = task[t].held /\ l.result = task[t].result
  <2>1. task[t] \in TaskRec /\ 0 \in 0..MaxRetries /\ "release" \in PCs
    BY <1>1, ExternalDataAssumption DEF TaskOK, PCs
  <2> QED BY <2>1 DEF TaskRec
<1> HIDE DEF l
<1>4. TaskOK(l)
  BY <1>1, <1>3 DEF TaskOK
<1>5. Moves(t, l)
  BY <1>2, <1>3, <1>4 DEF Moves
<1> QED BY <1>5

-----------------------------------------------------------------------------
\* What a step of one call that leaves lock and circuit alone has to show.
LEMMA Quiet ==
  ASSUME IInv, NEW t \in Tasks, NEW l, Moves(t, l), At(t, "http") => l.pc = "http",
         UNCHANGED <<lock, circuit>>, RestOK'
  PROVE  IInv'
<1>1. Tasked'
  BY MovesTyped DEF IInv
<1>2. HeldExists' /\ LockExcludes'
  BY MovesLocked DEF IInv
<1>3. ProbePending'
  BY MovesProbe DEF IInv
<1>4. CircuitOK'
  BY DEF IInv, CircuitOK
<1> QED BY <1>1, <1>2, <1>3, <1>4 DEF IInv

LEMMA BeginStep ==
  ASSUME IInv, NEW t \in Tasks, NEW k \in Keys, Begin(t, k)
  PROVE  IInv'
<1> DEFINE l == [Idle EXCEPT !.pc = "lookup", !.key = k]
<1>1. TaskOK(l) /\ l.held = "no"
  <2>1. Idle \in TaskRec /\ Idle.held = "no" /\ Idle.result = None
    BY IdleTyped DEF TaskOK, Idle
  <2>2. /\ l \in TaskRec /\ l.pc = "lookup" /\ l.key = k
        /\ l.held = "no" /\ l.result = None
    BY <2>1 DEF TaskRec, PCs
  <2> HIDE DEF l
  <2> QED BY <2>2, ExternalDataAssumption DEF TaskOK
<1>2. task' = [task EXCEPT ![t] = l]
  BY DEF Begin
<1> HIDE DEF l
<1>3. Moves(t, l)
  BY <1>1, <1>2 DEF Moves
<1>4. RestOK'
  BY DEF Begin, IInv, RestOK
<1>5. UNCHANGED <<lock, circuit>> /\ ~At(t, "http")
  BY DEF Begin, At
<1> QED BY <1>3, <1>4, <1>5, Quiet

LEMMA LookupStep ==
  ASSUME IInv, NEW t \in Tasks, Lookup(t)
  PROVE  IInv'
<1>1. RestOK' /\ UNCHANGED <<lock, circuit>> /\ task[t].pc = "lookup" /\ ~At(t, "http")
  BY DEF Lookup, IInv, RestOK, At
<1>2. CASE Finish(t)
  BY <1>1, <1>2, FinishMoves, Quiet DEF IInv
<1>3. CASE Goto(t, "lock")
  BY <1>1, <1>3, GotoMoves, Quiet DEF IInv, PCs
<1> QED BY <1>2, <1>3 DEF Lookup

LEMMA AcquireFailsStep ==
  ASSUME IInv, NEW t \in Tasks, AcquireFails(t)
  PROVE  IInv'
<1>1. RestOK' /\ UNCHANGED <<lock, circuit>> /\ task[t].pc = "lock" /\ ~At(t, "http")
  BY DEF AcquireFails, IInv, RestOK, At
<1>2. CASE Goto(t, "wait")
  BY <1>1, <1>2, GotoMoves, Quiet DEF IInv, PCs
<1>3. CASE task' = [task EXCEPT ![t].pc = "call", ![t].held = "lost"]
  <2> DEFINE l == [task[t] EXCEPT !.pc = "call", !.held = "lost"]
  <2>1. task' = [task EXCEPT ![t] = l]
    BY <1>3
  <2>2. TaskOK(task[t])
    BY DEF IInv, Tasked
  <2>3. /\ l \in TaskRec /\ l.pc = "call" /\ l.held = "lost"
        /\ l.key = task[t].key /\ l.result = task[t].result
    BY <2>2 DEF TaskOK, TaskRec, PCs
  <2> HIDE DEF l
  <2>4. TaskOK(l)
    BY <1>1, <2>2, <2>3 DEF TaskOK
  <2>5. Moves(t, l)
    BY <2>1, <2>3, <2>4 DEF Moves
  <2> QED BY <1>1, <2>5, Quiet
<1> QED BY <1>2, <1>3 DEF AcquireFails

LEMMA WaitStep ==
  ASSUME IInv, NEW t \in Tasks, Wait(t)
  PROVE  IInv'
<1>1. RestOK' /\ UNCHANGED <<lock, circuit>> /\ task[t].pc = "wait" /\ ~At(t, "http")
  BY DEF Wait, IInv, RestOK, At
<1>2. CASE Finish(t)
  BY <1>1, <1>2, FinishMoves, Quiet DEF IInv
<1>3. CASE Goto(t, "call")
  BY <1>1, <1>3, GotoMoves, Quiet DEF IInv, PCs
<1> QED BY <1>2, <1>3 DEF Wait

LEMMA StoreStep ==
  ASSUME IInv, NEW t \in Tasks, Store(t)
  PROVE  IInv'
<1>1. TaskOK(task[t]) /\ task[t].pc = "store"
  BY DEF IInv, Tasked, Store, At
<1> DEFINE l == [task[t] EXCEPT !.pc = "release", !.result = None]
<1>2. task' = [task EXCEPT ![t] = l]
  BY DEF Store
<1>3. /\ l \in TaskRec /\ l.pc = "release" /\ l.key = task[t].key
      /\ l.held = task[t].held /\ l.result = None
  BY <1>1 DEF TaskOK, TaskRec, PCs
<1> HIDE DEF l
<1>4. TaskOK(l)
  BY <1>1, <1>3 DEF TaskOK
<1>5. Moves(t, l)
  BY <1>2, <1>3, <1>4 DEF Moves
<1>6. task[t].result \in {"records", "negative"}
  BY <1>1 DEF TaskOK, TaskRec
<1>7. cache' \in [Keys -> {None, "records", "negative"}]
  BY <1>6 DEF Store, IInv, RestOK
<1>8. RestOK'
  BY <1>7 DEF Store, IInv, RestOK
<1>9. UNCHANGED <<lock, circuit>> /\ ~At(t, "http")
  BY DEF Store, At
<1> QED BY <1>5, <1>8, <1>9, Quiet

LEMMA UncoveredStep ==
  ASSUME IInv, NEW t \in Tasks, Uncovered(t)
  PROVE  IInv'
<1>1. RestOK' /\ UNCHANGED <<lock, circuit>> /\ task[t].pc = "call" /\ ~At(t, "http")
  BY DEF Uncovered, IInv, RestOK, At
<1>2. Goto(t, "release")
  BY DEF Uncovered
<1> QED BY <1>1, <1>2, GotoMoves, Quiet DEF IInv, PCs

LEMMA CircuitOpenStep ==
  ASSUME IInv, NEW t \in Tasks, CircuitOpen(t)
  PROVE  IInv'
<1>1. RestOK' /\ UNCHANGED <<lock, circuit>> /\ task[t].pc = "call" /\ ~At(t, "http")
  BY DEF CircuitOpen, IInv, RestOK, At
<1>2. PICK l : Moves(t, l)
  BY <1>1, ResultMoves DEF CircuitOpen, IInv
<1> QED BY <1>1, <1>2, Quiet

LEMMA RetryStep ==
  ASSUME IInv, NEW t \in Tasks, Retry(t)
  PROVE  IInv'
<1>1. TaskOK(task[t]) /\ task[t].pc = "http" /\ task[t].attempt < MaxRetries
  BY DEF IInv, Tasked, Retry, At
<1> DEFINE l == [task[t] EXCEPT !.attempt = @ + 1]
<1>2. task' = [task EXCEPT ![t] = l]
  BY DEF Retry
<1>3. /\ l \in TaskRec /\ l.pc = "http" /\ l.key = task[t].key
      /\ l.held = task[t].held /\ l.result = task[t].result
  BY <1>1, ExternalDataAssumption DEF TaskOK, TaskRec
<1> HIDE DEF l
<1>4. TaskOK(l)
  BY <1>1, <1>3 DEF TaskOK
<1>5. Moves(t, l)
  BY <1>2, <1>3, <1>4 DEF Moves
<1>6. RestOK' /\ UNCHANGED <<lock, circuit>>
  BY DEF Retry, IInv, RestOK
<1> QED BY <1>3, <1>5, <1>6, Quiet

-----------------------------------------------------------------------------
(* Steps that change the circuit.                                          *)

LEMMA AskStep ==
  ASSUME IInv, NEW t \in Tasks, Ask(t)
  PROVE  IInv'
<1>1. RestOK' /\ UNCHANGED lock /\ task[t].pc = "call"
  BY DEF Ask, IInv, RestOK, At
<1> DEFINE l == [task[t] EXCEPT !.pc = "http"]
<1>2. Moves(t, l)
  BY <1>1, GotoMoves DEF Ask, IInv, PCs
<1>3. Tasked' /\ HeldExists' /\ LockExcludes'
  BY <1>1, <1>2, MovesTyped, MovesLocked DEF IInv
<1>4. CircuitOK'
  BY DEF Ask, Passed, IInv, CircuitOK
<1>5. At(t, "http")'
  BY DEF Ask, Goto, At, IInv, Tasked, TaskRec
<1>6. ProbePending'
  BY <1>5 DEF ProbePending
<1> QED BY <1>1, <1>3, <1>4, <1>6 DEF IInv

\* An answer decides the circuit.
LEMMA AnswerDecides ==
  ASSUME IInv, NEW t \in Tasks, NEW l, Moves(t, l), UNCHANGED lock, RestOK',
         \/ circuit' = Succeeded
         \/ circuit' = Failed
  PROVE  IInv'
<1>1. Tasked' /\ HeldExists' /\ LockExcludes'
  BY MovesTyped, MovesLocked DEF IInv
<1>2. CircuitOK'
  <2>1. OneMore \in 0..FailureThreshold
    BY ExternalDataAssumption DEF OneMore, IInv, CircuitOK
  <2>2. Succeeded \in [failures : 0..FailureThreshold, opened : {None, "open", "elapsed"},
                       status : {"UNKNOWN", "UP", "DEGRADED", "DOWN"}]
    BY ExternalDataAssumption DEF Succeeded
  <2>3. Failed \in [failures : 0..FailureThreshold, opened : {None, "open", "elapsed"},
                    status : {"UNKNOWN", "UP", "DEGRADED", "DOWN"}]
    BY <2>1 DEF Failed, IInv, CircuitOK
  <2> QED BY <2>2, <2>3 DEF CircuitOK
<1>3. ~HalfOpen'
  <2>1. CASE circuit' = Succeeded
    BY <2>1, ExternalDataAssumption DEF Succeeded, HalfOpen
  <2>2. CASE circuit' = Failed /\ OneMore = FailureThreshold
    BY <2>2, ExternalDataAssumption DEF Failed, HalfOpen
  <2>3. CASE circuit' = Failed /\ OneMore # FailureThreshold
    BY <2>3, ExternalDataAssumption DEF Failed, HalfOpen, IInv, CircuitOK
  <2> QED BY <2>1, <2>2, <2>3
<1> QED BY <1>1, <1>2, <1>3 DEF IInv, ProbePending

LEMMA AnswerStep ==
  ASSUME IInv, NEW t \in Tasks, Answer(t) \/ AnswerFails(t)
  PROVE  IInv'
<1>1. RestOK' /\ UNCHANGED lock /\ task[t].pc = "http"
  BY DEF Answer, AnswerFails, IInv, RestOK, At
<1>2. Result(t, "records") \/ Result(t, "negative") \/ NoResult(t)
  BY DEF Answer, AnswerFails
<1>3. PICK l : Moves(t, l)
  BY <1>1, <1>2, ResultMoves, NoResultMoves DEF IInv
<1>4. circuit' = Succeeded \/ circuit' = Failed
  BY DEF Answer, AnswerFails
<1> QED BY <1>1, <1>3, <1>4, AnswerDecides

LEMMA CircuitElapsesStep ==
  ASSUME IInv, CircuitElapses
  PROVE  IInv'
<1>1. Tasked' /\ RestOK' /\ HeldExists' /\ LockExcludes'
  BY DEF CircuitElapses, IInv, Tasked, RestOK, HeldExists, LockExcludes, Key
<1>2. CircuitOK' /\ circuit'.opened = "elapsed"
  BY DEF CircuitElapses, IInv, CircuitOK
<1> QED BY <1>1, <1>2, ExternalDataAssumption DEF IInv, ProbePending, HalfOpen

-----------------------------------------------------------------------------
(* Steps that change the lock.                                             *)

LEMMA AcquireStep ==
  ASSUME IInv, NEW t \in Tasks, Acquire(t)
  PROVE  IInv'
<1>1. TaskOK(task[t]) /\ task[t].pc = "lock" /\ Key(t) \notin lock
  BY DEF IInv, Tasked, Acquire, At
<1> DEFINE l == [task[t] EXCEPT !.pc = "call", !.held = "yes"]
<1>2. task' = [task EXCEPT ![t] = l]
  BY DEF Acquire
<1>3. /\ l \in TaskRec /\ l.pc = "call" /\ l.key = task[t].key
      /\ l.held = "yes" /\ l.result = task[t].result
  BY <1>1 DEF TaskOK, TaskRec, PCs
<1> HIDE DEF l
<1>4. TaskOK(l)
  BY <1>1, <1>3 DEF TaskOK
<1>5. Tasked'
  BY <1>2, <1>4 DEF IInv, Tasked, TaskOK
<1>6. Key(t) \in Keys /\ lock' = lock \cup {Key(t)}
  BY <1>1 DEF TaskOK, TaskRec, Acquire, Key
<1>7. RestOK'
  BY <1>6 DEF Acquire, IInv, RestOK
<1>8. \A u \in Tasks : u # t => task'[u] = task[u] /\ ~(task[u].held = "yes" /\ Key(u) = Key(t))
  BY <1>1, <1>2 DEF IInv, Tasked, HeldExists
<1>9. task'[t].key = Key(t)
  BY <1>2, <1>3 DEF IInv, Tasked, Key
<1>10. HeldExists' /\ LockExcludes'
  BY <1>6, <1>8, <1>9 DEF IInv, HeldExists, LockExcludes, Key
<1>11. \A u \in Tasks : At(u, "http") => At(u, "http")'
  BY <1>1, <1>8 DEF At
<1>12. CircuitOK' /\ ProbePending'
  BY <1>11, ProbeKept DEF Acquire, IInv, CircuitOK
<1> QED BY <1>5, <1>7, <1>10, <1>12 DEF IInv

\* LosesLock(k) makes the holder of k lose it, and changes nothing else.
LEMMA LosesLockType ==
  ASSUME IInv, NEW k \in Keys
  PROVE  /\ LosesLock(k) \in [Tasks -> TaskRec]
         /\ \A u \in Tasks : /\ TaskOK(LosesLock(k)[u])
                             /\ LosesLock(k)[u].pc = task[u].pc
                             /\ LosesLock(k)[u].key = task[u].key
                             /\ LosesLock(k)[u].held = "yes" =>
                                  task[u].held = "yes" /\ Key(u) # k
<1> SUFFICES ASSUME NEW u \in Tasks
             PROVE  /\ TaskOK(LosesLock(k)[u])
                    /\ LosesLock(k)[u].pc = task[u].pc
                    /\ LosesLock(k)[u].key = task[u].key
                    /\ LosesLock(k)[u].held = "yes" => task[u].held = "yes" /\ Key(u) # k
  BY DEF LosesLock, TaskOK
<1>1. TaskOK(task[u])
  BY DEF IInv, Tasked
<1>2. CASE Key(u) = k /\ task[u].held = "yes"
  <2> DEFINE l == [task[u] EXCEPT !.held = "lost"]
  <2>1. LosesLock(k)[u] = l
    BY <1>2 DEF LosesLock
  <2>2. /\ l \in TaskRec /\ l.pc = task[u].pc /\ l.key = task[u].key
        /\ l.held = "lost" /\ l.result = task[u].result
    BY <1>1 DEF TaskOK, TaskRec
  <2> HIDE DEF l
  <2> QED BY <1>1, <2>1, <2>2 DEF TaskOK
<1>3. CASE ~(Key(u) = k /\ task[u].held = "yes")
  <2>1. LosesLock(k)[u] = task[u]
    BY <1>3 DEF LosesLock
  <2> QED BY <1>1, <1>3, <2>1
<1> QED BY <1>2, <1>3

LEMMA ExpireLockStep ==
  ASSUME IInv, NEW k \in Keys, ExpireLock(k)
  PROVE  IInv'
<1>1. task' = LosesLock(k) /\ lock' = lock \ {k} /\ UNCHANGED circuit
  BY DEF ExpireLock
<1>2. /\ task' \in [Tasks -> TaskRec]
      /\ \A u \in Tasks : /\ TaskOK(task'[u])
                          /\ task'[u].pc = task[u].pc /\ task'[u].key = task[u].key
                          /\ task'[u].held = "yes" => task[u].held = "yes" /\ Key(u) # k
  BY <1>1, LosesLockType
<1>3. Tasked'
  BY <1>2 DEF Tasked, TaskOK
<1>4. HeldExists' /\ LockExcludes'
  BY <1>1, <1>2 DEF IInv, HeldExists, LockExcludes, Key
<1>5. RestOK' /\ CircuitOK'
  BY DEF ExpireLock, IInv, RestOK, CircuitOK
<1>6. ProbePending'
  BY <1>1, <1>2, ProbeKept DEF IInv, At
<1> QED BY <1>3, <1>4, <1>5, <1>6 DEF IInv

LEMMA ReleaseStep ==
  ASSUME IInv, NEW t \in Tasks, Release(t)
  PROVE  IInv'
<1>1. RestOK' /\ UNCHANGED circuit /\ task[t].pc = "release" /\ ~At(t, "http")
  BY DEF Release, IInv, RestOK, At
<1>2. CASE lock' = lock /\ Finish(t)
  BY <1>1, <1>2, FinishMoves, Quiet DEF IInv
<1>3. CASE lock' = lock \ {Key(t)} /\ task' = [LosesLock(Key(t)) EXCEPT ![t] = Idle]
  <2> DEFINE k == Key(t)
  <2>1. k \in Keys
    BY <1>1 DEF IInv, Tasked, TaskOK, TaskRec, Key
  <2> HIDE DEF k
  <2> DEFINE L == LosesLock(k)
  <2>2. /\ L \in [Tasks -> TaskRec]
        /\ \A u \in Tasks : /\ TaskOK(L[u])
                            /\ L[u].pc = task[u].pc /\ L[u].key = task[u].key
                            /\ L[u].held = "yes" => task[u].held = "yes" /\ Key(u) # k
    BY <2>1, LosesLockType
  <2>3. task' = [L EXCEPT ![t] = Idle] /\ lock' = lock \ {k}
    BY <1>3 DEF k
  <2> HIDE DEF L
  <2>4. \A u \in Tasks : task'[u] = IF u = t THEN Idle ELSE L[u]
    BY <2>2, <2>3
  <2>5. Tasked'
    BY <2>2, <2>3, <2>4, IdleTyped DEF Tasked, TaskOK
  <2>6. HeldExists' /\ LockExcludes'
    BY <2>2, <2>3, <2>4, IdleTyped DEF IInv, HeldExists, LockExcludes, Key
  <2>7. CircuitOK'
    BY <1>1 DEF IInv, CircuitOK
  <2>8. \A u \in Tasks : At(u, "http") => At(u, "http")'
    BY <1>1, <2>2, <2>4 DEF At
  <2>9. ProbePending'
    BY <1>1, <2>8, ProbeKept DEF IInv
  <2> QED BY <1>1, <2>5, <2>6, <2>7, <2>9 DEF IInv
<1> QED BY <1>2, <1>3 DEF Release

-----------------------------------------------------------------------------
(* The environment.                                                        *)

LEMMA AsideStep ==
  ASSUME IInv, (\E k \in Keys : ExpireEntry(k)) \/ ProviderChanges \/ UNCHANGED vars
  PROVE  IInv'
<1>1. UNCHANGED <<lock, circuit, task>> /\ RestOK'
  BY DEF ExpireEntry, ProviderChanges, vars, IInv, RestOK
<1> QED BY <1>1 DEF IInv, Tasked, CircuitOK, HeldExists, LockExcludes, ProbePending,
                    HalfOpen, At, Key

LEMMA CrashStep ==
  ASSUME IInv, Crash
  PROVE  IInv'
<1>1. Tasked'
  BY IdleTyped DEF Crash, Tasked, TaskOK
<1>2. RestOK'
  BY ExternalDataAssumption DEF Crash, IInv, RestOK
<1>3. CircuitOK' /\ ~HalfOpen'
  BY ExternalDataAssumption DEF Crash, FreshHealth, CircuitOK, HalfOpen
<1>4. HeldExists' /\ LockExcludes'
  BY IdleTyped DEF Crash, HeldExists, LockExcludes
<1> QED BY <1>1, <1>2, <1>3, <1>4 DEF IInv, ProbePending

LEMMA Initially == Init => IInv
<1> SUFFICES ASSUME Init PROVE IInv
  OBVIOUS
<1>1. Tasked
  BY IdleTyped DEF Init, Tasked, TaskOK
<1>2. RestOK
  BY ExternalDataAssumption DEF Init, RestOK
<1>3. CircuitOK /\ ~HalfOpen
  BY ExternalDataAssumption DEF Init, FreshHealth, CircuitOK, HalfOpen
<1>4. HeldExists /\ LockExcludes
  BY IdleTyped DEF Init, HeldExists, LockExcludes
<1> QED BY <1>1, <1>2, <1>3, <1>4 DEF IInv, ProbePending

LEMMA Inductive == IInv /\ [Next]_vars => IInv'
<1> SUFFICES ASSUME IInv, [Next]_vars PROVE IInv'
  OBVIOUS
<1>1. CASE \E t \in Tasks : CallStep(t)
  <2> PICK t \in Tasks : CallStep(t)
    BY <1>1
  <2> QED
    BY LookupStep, AcquireStep, AcquireFailsStep, WaitStep, StoreStep, ReleaseStep,
       UncoveredStep, CircuitOpenStep, AskStep, RetryStep, AnswerStep DEF CallStep
<1>2. CASE \E t \in Tasks : \E k \in Keys : Begin(t, k)
  BY <1>2, BeginStep
<1>3. CASE \E k \in Keys : ExpireLock(k)
  BY <1>3, ExpireLockStep
<1>4. CASE (\E k \in Keys : ExpireEntry(k)) \/ ProviderChanges \/ UNCHANGED vars
  BY <1>4, AsideStep
<1>5. CASE CircuitElapses
  BY <1>5, CircuitElapsesStep
<1>6. CASE Crash
  BY <1>6, CrashStep
<1> QED BY <1>1, <1>2, <1>3, <1>4, <1>5, <1>6 DEF Next

LEMMA Invariant == Spec => []IInv
BY Initially, Inductive, PTL DEF Spec

\* Types: every variable of the provider, its cache and its calls keeps its type.
THEOREM TypeCorrect == Spec => []TypeOK
<1>1. IInv => TypeOK
  BY TypesSplit DEF IInv
<1> QED BY <1>1, Invariant, PTL

\* The stampede lock has at most one holder that has not lost it.
THEOREM LockExcludesCorrect == Spec => []LockExcludes
<1>1. IInv => LockExcludes
  BY DEF IInv
<1> QED BY <1>1, Invariant, PTL

\* A half-open circuit always has a request under way that will decide it.
THEOREM ProbePendingCorrect == Spec => []ProbePending
<1>1. IInv => ProbePending
  BY DEF IInv
<1> QED BY <1>1, Invariant, PTL
=============================================================================
