---------------------------- MODULE ExternalData ----------------------------
(***************************************************************************)
(* One provider of the external-data service under concurrent queries: the *)
(* query service's guarded calls (services/query_service), the Redis cache *)
(* with its stampede lock (cache/provider_cache), the circuit breaker      *)
(* (adapters/base) and the retries of the HTTP client                      *)
(* (packages/python-common/sta_common/http).                               *)
(*                                                                         *)
(* A task is one slot of the semaphore and the guarded call that has it, a *)
(* coroutine that interleaves with the others at each await.  Cache, lock  *)
(* and circuit are the only state the calls share.                         *)
(*                                                                         *)
(* Abstractions.  Timers (the expiry of an entry or a lock, the end of a   *)
(* wait or of an open circuit, a deadline) fire at any moment.  Records    *)
(* and errors are what the callers tell apart of them.                     *)
(***************************************************************************)
EXTENDS Naturals

CONSTANTS
  Tasks,             \* provider_max_concurrency slots
  Keys,              \* queries, by hash
  Idempotent,        \* those that are sent with GET
  Covered,           \* those the adapter is configured for and covers
  FailureThreshold,  \* circuit_failure_threshold
  MaxRetries,        \* retries of the HTTP client
  Faults,            \* "redis": a command raises
  MaxCrashes,        \* bound: how often the process stops
  None

ASSUME ExternalDataAssumption ==
  /\ Idempotent \subseteq Keys /\ Covered \subseteq Keys
  /\ FailureThreshold \in Nat \ {0} /\ MaxRetries \in Nat
  /\ Faults \subseteq {"redis"} /\ MaxCrashes \in Nat
  /\ None \notin Keys \cup {"records", "negative", "open", "elapsed"}

VARIABLES
  up,       \* the provider answers every request
  cache,    \* cache[k]: the entry of the query
  lock,     \* the queries whose lock key exists; its value is always "1"
  circuit,  \* HealthState
  task,     \* task[t]: the await where the call is parked, and its locals
  crashes   \* how often the process has stopped

vars == <<up, cache, lock, circuit, task, crashes>>

-----------------------------------------------------------------------------
FreshHealth == [failures |-> 0, opened |-> None, status |-> "UNKNOWN"]

\* held: acquired, and whether the lock was lost since ("lost" is for the properties only).
Idle == [pc |-> "idle", key |-> None, held |-> "no", attempt |-> 0, result |-> None]

Init ==
  /\ up \in BOOLEAN
  /\ cache = [k \in Keys |-> None]
  /\ lock = {}
  /\ circuit = FreshHealth
  /\ task = [t \in Tasks |-> Idle]
  /\ crashes = 0

At(t, pc)   == task[t].pc = pc
Key(t)      == task[t].key
Goto(t, pc) == task' = [task EXCEPT ![t].pc = pc]
Finish(t)   == task' = [task EXCEPT ![t] = Idle]
RedisFails  == "redis" \in Faults

-----------------------------------------------------------------------------
\* QueryService._guarded: the call has a slot; it gives it back whatever becomes of it.
Begin(t, k) ==
  /\ At(t, "idle")
  /\ task' = [task EXCEPT ![t] = [Idle EXCEPT !.pc = "lookup", !.key = k]]
  /\ UNCHANGED <<up, cache, lock, circuit, crashes>>

-----------------------------------------------------------------------------
(* ProviderCache.get_or_fetch.                                             *)

\* Records or the negative entry end the call; a failing Redis must not block the fetch.
Lookup(t) ==
  /\ At(t, "lookup")
  /\ \/ cache[Key(t)] # None /\ Finish(t)
     \/ (cache[Key(t)] = None \/ RedisFails) /\ Goto(t, "lock")
  /\ UNCHANGED <<up, cache, lock, circuit, crashes>>

\* Mutant: SET without NX.
AcquireAnyway(t) ==
  /\ At(t, "lock")
  /\ lock' = lock \cup {Key(t)}
  /\ task' = [task EXCEPT ![t].pc = "call", ![t].held = "yes"]
  /\ UNCHANGED <<up, cache, circuit, crashes>>

Acquire(t) ==
  /\ At(t, "lock") /\ Key(t) \notin lock
  /\ lock' = lock \cup {Key(t)}
  /\ task' = [task EXCEPT ![t].pc = "call", ![t].held = "yes"]
  /\ UNCHANGED <<up, cache, circuit, crashes>>

\* Somebody else is fetching; or Redis fails, and the task takes itself for the holder.
AcquireFails(t) ==
  /\ At(t, "lock")
  /\ \/ Key(t) \in lock /\ Goto(t, "wait")
     \/ RedisFails /\ task' = [task EXCEPT ![t].pc = "call", ![t].held = "lost"]
  /\ UNCHANGED <<up, cache, lock, circuit, crashes>>

\* Mutant: a waiter waits until there are records.
WaitForRecords(t) ==
  /\ At(t, "wait") /\ cache[Key(t)] = "records"
  /\ Finish(t)
  /\ UNCHANGED <<up, cache, lock, circuit, crashes>>

\* Records are taken when they appear, a negative entry is not; after twenty looks the
\* waiter fetches without the lock.
Wait(t) ==
  /\ At(t, "wait")
  /\ \/ cache[Key(t)] = "records" /\ Finish(t)
     \/ (cache[Key(t)] # "records" \/ RedisFails) /\ Goto(t, "call")
  /\ UNCHANGED <<up, cache, lock, circuit, crashes>>

\* Records, or the negative entry of an error worth retrying; the write may fail.
Store(t) ==
  /\ At(t, "store")
  /\ task' = [task EXCEPT ![t].pc = "release", ![t].result = None]
  /\ \/ cache' = [cache EXCEPT ![Key(t)] = task[t].result]
     \/ RedisFails /\ cache' = cache
  /\ UNCHANGED <<up, lock, circuit, crashes>>

\* The holder of k, if there is one, no longer has the lock.
LosesLock(k) ==
  [t \in Tasks |-> IF Key(t) = k /\ task[t].held = "yes"
                     THEN [task[t] EXCEPT !.held = "lost"] ELSE task[t]]

\* release_lock deletes the key, whoever set it.
Release(t) ==
  /\ At(t, "release")
  /\ \/ /\ task[t].held # "no"
        /\ lock' = lock \ {Key(t)}
        /\ task' = [LosesLock(Key(t)) EXCEPT ![t] = Idle]
     \/ /\ task[t].held = "no" \/ RedisFails
        /\ lock' = lock
        /\ Finish(t)
  /\ UNCHANGED <<up, cache, circuit, crashes>>

ExpireEntry(k) ==
  /\ cache[k] # None
  /\ cache' = [cache EXCEPT ![k] = None]
  /\ UNCHANGED <<up, lock, circuit, task, crashes>>

\* After 15 seconds; a fetch has 20.
ExpireLock(k) ==
  /\ k \in lock
  /\ lock' = lock \ {k}
  /\ task' = LosesLock(k)
  /\ UNCHANGED <<up, cache, circuit, crashes>>

-----------------------------------------------------------------------------
(* BaseAdapter._call and ResilientClient.request.                          *)

\* Bound: failures beyond the threshold make no difference.
OneMore == IF circuit.failures < FailureThreshold THEN circuit.failures + 1
           ELSE FailureThreshold

\* Mutant: == for >=, so that only the failure that reaches the threshold opens the circuit.
FailedEqual ==
  IF circuit.failures + 1 = FailureThreshold
    THEN [failures |-> OneMore, opened |-> "open", status |-> "DOWN"]
    ELSE [circuit EXCEPT !.failures = OneMore, !.status = "DEGRADED"]

Failed ==
  IF OneMore = FailureThreshold
    THEN [failures |-> OneMore, opened |-> "open", status |-> "DOWN"]
    ELSE [circuit EXCEPT !.failures = OneMore, !.status = "DEGRADED"]

\* Mutant: the status of a provider that answers again is not set.
SucceededSilently == [failures |-> 0, opened |-> None, status |-> circuit.status]

Succeeded == [failures |-> 0, opened |-> None, status |-> "UP"]

\* _check_circuit lets a request pass: the circuit is closed, or half-opens.
Passed ==
  IF circuit.opened = None THEN circuit
  ELSE [circuit EXCEPT !.opened = None, !.status = "DEGRADED"]

HalfOpen == circuit.opened = None /\ circuit.failures = FailureThreshold

\* NOT_CONFIGURED, OUTSIDE_COVERAGE: raised before anything is asked.
Uncovered(t) ==
  /\ At(t, "call") /\ Key(t) \notin Covered
  /\ Goto(t, "release")
  /\ UNCHANGED <<up, cache, lock, circuit, crashes>>

\* What is to be stored after the fetch.
Result(t, result) == task' = [task EXCEPT ![t].pc = "store", ![t].result = result,
                                          ![t].attempt = 0]
NoResult(t)       == task' = [task EXCEPT ![t].pc = "release", ![t].attempt = 0]

CircuitOpen(t) ==
  /\ At(t, "call") /\ Key(t) \in Covered /\ circuit.opened = "open"
  /\ Result(t, "negative")
  /\ UNCHANGED <<up, cache, lock, circuit, crashes>>

Ask(t) ==
  /\ At(t, "call") /\ Key(t) \in Covered /\ circuit.opened # "open"
  /\ circuit' = Passed
  /\ Goto(t, "http")
  /\ UNCHANGED <<up, cache, lock, crashes>>

\* Mutant: one retry too many.
RetryOnceMore(t) ==
  /\ At(t, "http") /\ ~up
  /\ Key(t) \in Idempotent /\ task[t].attempt <= MaxRetries
  /\ task' = [task EXCEPT ![t].attempt = @ + 1]
  /\ UNCHANGED <<up, cache, lock, circuit, crashes>>

\* 408, 429, 5xx, a timeout or a connection error, and an idempotent call: once more.
Retry(t) ==
  /\ At(t, "http") /\ ~up
  /\ Key(t) \in Idempotent /\ task[t].attempt < MaxRetries
  /\ task' = [task EXCEPT ![t].attempt = @ + 1]
  /\ UNCHANGED <<up, cache, lock, circuit, crashes>>

\* Worth retrying (a rate limit, an outage, a timeout) or not (credentials, a 4xx).
AnswerFails(t) ==
  /\ At(t, "http") /\ ~up
  /\ circuit' = Failed
  /\ Result(t, "negative") \/ NoResult(t)
  /\ UNCHANGED <<up, cache, lock, crashes>>

\* Below 400; the body may still not be what the adapter expects.
Answer(t) ==
  /\ At(t, "http")
  /\ circuit' = Succeeded
  /\ Result(t, "records") \/ (~up /\ NoResult(t))
  /\ UNCHANGED <<up, cache, lock, crashes>>

\* circuit_open_seconds have passed.
CircuitElapses ==
  /\ circuit.opened = "open"
  /\ circuit' = [circuit EXCEPT !.opened = "elapsed"]
  /\ UNCHANGED <<up, cache, lock, task, crashes>>

-----------------------------------------------------------------------------
\* An outage, or its end.
ProviderChanges ==
  /\ up' = ~up
  /\ UNCHANGED <<cache, lock, circuit, task, crashes>>

\* The process stops and starts again; Redis keeps its keys.
Crash ==
  /\ crashes < MaxCrashes
  /\ crashes' = crashes + 1
  /\ circuit' = FreshHealth
  /\ task' = [t \in Tasks |-> Idle]
  /\ UNCHANGED <<up, cache, lock>>

CallStep(t) ==
  \/ Lookup(t) \/ Acquire(t) \/ AcquireFails(t) \/ Wait(t) \/ Store(t) \/ Release(t)
  \/ Uncovered(t) \/ CircuitOpen(t) \/ Ask(t) \/ Retry(t) \/ AnswerFails(t) \/ Answer(t)

Next ==
  \/ \E t \in Tasks : CallStep(t) \/ \E k \in Keys : Begin(t, k)
  \/ \E k \in Keys : ExpireEntry(k) \/ ExpireLock(k)
  \/ CircuitElapses \/ ProviderChanges \/ Crash

Spec == Init /\ [][Next]_vars

\* Awaits return and timers fire; the covered queries are asked again and again.
Fairness ==
  /\ \A t \in Tasks : WF_vars(CallStep(t))
  /\ \A k \in Covered : /\ WF_vars(ExpireEntry(k))
                        /\ SF_vars(\E t \in Tasks : Begin(t, k))
  /\ WF_vars(CircuitElapses)
FairSpec == Spec /\ Fairness

-----------------------------------------------------------------------------
(* Properties.                                                             *)

PCs == {"idle", "lookup", "lock", "wait", "call", "http", "store", "release"}

\* Types: what each variable may hold.
TypeOK ==
  /\ up \in BOOLEAN
  /\ cache \in [Keys -> {None, "records", "negative"}]
  /\ lock \subseteq Keys
  /\ circuit \in [failures : 0..FailureThreshold, opened : {None, "open", "elapsed"},
                  status : {"UNKNOWN", "UP", "DEGRADED", "DOWN"}]
  /\ task \in [Tasks -> [pc : PCs, key : Keys \cup {None}, held : {"no", "yes", "lost"},
                         attempt : 0..MaxRetries, result : {None, "records", "negative"}]]
  /\ \A t \in Tasks : (At(t, "idle") <=> Key(t) = None)
                      /\ (At(t, "store") <=> task[t].result # None)
  /\ crashes \in 0..MaxCrashes

\* The stampede lock: two tasks take themselves for the holder of one query's lock only
\* after one of them lost it, to its expiry, to a failing Redis, or to the release of a
\* third one that had lost it before.
LockExcludes ==
  \A t, u \in Tasks :
    task[t].held = "yes" /\ task[u].held = "yes" /\ Key(t) = Key(u) => t = u

\* A circuit that half-opened is never left in between: somebody is still asking, and the
\* answer closes it or opens it again.
ProbePending == HalfOpen => \E t \in Tasks : At(t, "http")

\* A guarded call comes back, whatever provider, Redis and the other calls do.
CallsEnd == \A t \in Tasks : task[t].pc # "idle" ~> task[t].pc = "idle"

\* When an outage is over the provider is seen to be UP again: neither the circuit, nor
\* negative entries, nor a lock whose holder died keep it out.
ProviderRecovers == (<>[]up) => <>[](circuit.status = "UP")
=============================================================================
