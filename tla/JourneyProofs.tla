---------------------------- MODULE JourneyProofs ----------------------------
(***************************************************************************)
(* Proofs about Journey, for every trip, every answer of the providers and *)
(* every text of the language model.  In the first three parts what the    *)
(* services compute stays opaque but for the fields that are carried from  *)
(* stage to stage; the last part takes from PipelineProofs what their      *)
(* records say of each other.                                              *)
(***************************************************************************)
EXTENDS Journey, ContractProofs, TLAPS

LEMMA SomeOf == \A S : S # {} => Some(S) \in S
BY DEF Some

LEMMA SomeOne == \A x : Some({x}) = x
BY DEF Some

-----------------------------------------------------------------------------
(* What is stored.                                                         *)

\* One handler of a store holds its key at most, and only while nothing is stored; a
\* handler is done only when something is.
Rows(h, tb) ==
  /\ h \in [Stores -> [Attempts -> HandlerStates]]
  /\ tb \in [Stores -> SUBSET Attempts]
  /\ \A s \in Stores : \A x, y \in tb[s] : x = y
  /\ \A s \in Stores : \A a, b \in Attempts : h[s][a] = "flushed" /\ h[s][b] = "flushed" => a = b
  /\ \A s \in Stores : \A a \in Attempts : h[s][a] = "flushed" => tb[s] = {}
  /\ \A s \in Stores : \A a \in Attempts : h[s][a] = "done" => tb[s] # {}

\* The agent goes on with what is stored.
Chosen ==
  /\ \A b \in snap : b.id \in table["snapshot"]
  /\ rec # {} => table["recommendation"] # {}

LEMMA MoveRows ==
  ASSUME NEW h, NEW tb, Rows(h, tb), NEW s \in Stores, NEW a \in Attempts, NEW to \in HandlerStates,
         to = "done" => tb[s] # {},
         to = "flushed" => tb[s] = {} /\ \A b \in Attempts : h[s][b] # "flushed"
  PROVE  Rows([h EXCEPT ![s][a] = to], tb)
<1> DEFINE g == [h EXCEPT ![s][a] = to]
<1>1. /\ g \in [Stores -> [Attempts -> HandlerStates]]
      /\ g[s][a] = to
      /\ \A b \in Attempts \ {a} : g[s][b] = h[s][b]
      /\ \A u \in Stores \ {s} : g[u] = h[u]
  BY DEF Rows
<1> HIDE DEF g
<1>2. \A u \in Stores : \A b, c \in Attempts : g[u][b] = "flushed" /\ g[u][c] = "flushed" => b = c
  BY <1>1 DEF Rows
<1>3. \A u \in Stores : \A b \in Attempts : g[u][b] = "flushed" => tb[u] = {}
  BY <1>1 DEF Rows
<1>4. \A u \in Stores : \A b \in Attempts : g[u][b] = "done" => tb[u] # {}
  BY <1>1 DEF Rows
<1>5. Rows(g, tb)
  BY <1>1, <1>2, <1>3, <1>4 DEF Rows
<1> QED BY <1>5 DEF g

\* Nothing else is stored while one handler moves.
LEMMA MoveStep ==
  ASSUME Rows(handler, table), Chosen, NEW s \in Stores, NEW a \in Attempts, NEW to \in HandlerStates,
         handler' = [handler EXCEPT ![s][a] = to], UNCHANGED <<table, snap, rec>>,
         to = "done" => table[s] # {},
         to = "flushed" => table[s] = {} /\ \A b \in Attempts : handler[s][b] # "flushed"
  PROVE  Rows(handler, table)' /\ Chosen'
<1>1. Rows([handler EXCEPT ![s][a] = to], table)
  BY MoveRows, ZenonT(30)
<1> QED BY <1>1 DEF Chosen, Rows

LEMMA InitRows == Init => Rows(handler, table) /\ Chosen
BY DEF Init, Rows, Chosen, Stores, Attempts, HandlerStates

LEMMA NextRows ==
  ASSUME Rows(handler, table), Chosen, [Next]_vars
  PROVE  Rows(handler, table)' /\ Chosen'
<1>1. CASE UNCHANGED <<handler, table, snap, rec>>
  BY <1>1 DEF Chosen, Rows
<1>2. ASSUME NEW s \in Stores, Send(s)
      PROVE  Rows(handler, table)' /\ Chosen'
  <2>1. 1 \in Attempts /\ "called" \in HandlerStates
    BY DEF Attempts, HandlerStates
  <2> QED BY <1>2, <2>1, MoveStep, ZenonT(30) DEF Send, data
<1>3. ASSUME NEW s \in Stores, ConnectionBreaks(s)
      PROVE  Rows(handler, table)' /\ Chosen'
  <2>1. CASE attempt[s] + 1 \in Attempts
    <3>1. handler' = [handler EXCEPT ![s][attempt[s] + 1] = "called"] /\ UNCHANGED <<table, snap, rec>>
      BY <1>3, <2>1 DEF ConnectionBreaks, data
    <3>2. "called" \in HandlerStates
      BY DEF HandlerStates
    <3> QED BY <2>1, <3>1, <3>2, MoveStep, ZenonT(30)
  <2>2. CASE attempt[s] + 1 \notin Attempts
    BY <1>1, <1>3, <2>2 DEF ConnectionBreaks, data
  <2> QED BY <2>1, <2>2
<1>4. ASSUME NEW s \in Stores, NEW a \in Attempts, FindExisting(s, a)
      PROVE  Rows(handler, table)' /\ Chosen'
  <2> DEFINE to == IF table[s] # {} THEN "done" ELSE IF Buildable(s) THEN "absent" ELSE "refused"
  <2>1. to \in HandlerStates /\ (to = "done" => table[s] # {}) /\ to # "flushed"
    BY DEF HandlerStates
  <2>2. handler' = [handler EXCEPT ![s][a] = to] /\ UNCHANGED <<table, snap, rec>>
    BY <1>4 DEF FindExisting, Move, data
  <2> HIDE DEF to
  <2> QED BY <2>1, <2>2, MoveStep, ZenonT(30)
<1>5. ASSUME NEW s \in Stores, NEW a \in Attempts, Insert(s, a)
      PROVE  Rows(handler, table)' /\ Chosen'
  <2> DEFINE to == IF table[s] # {} THEN "done" ELSE "flushed"
  <2>1. /\ to \in HandlerStates /\ (to = "done" => table[s] # {})
        /\ (to = "flushed" => table[s] = {} /\ \A b \in Attempts : handler[s][b] # "flushed")
    BY <1>5 DEF HandlerStates, Insert
  <2>2. handler' = [handler EXCEPT ![s][a] = to] /\ UNCHANGED <<table, snap, rec>>
    BY <1>5 DEF Insert, Move, data
  <2> HIDE DEF to
  <2> QED BY <2>1, <2>2, MoveStep, ZenonT(30)
<1>6. ASSUME NEW s \in Stores, NEW a \in Attempts, Commit(s, a)
      PROVE  Rows(handler, table)' /\ Chosen'
  <2>1. /\ handler[s][a] = "flushed"
        /\ handler' = [handler EXCEPT ![s][a] = "done"]
        /\ table' = [table EXCEPT ![s] = @ \cup {a}]
        /\ UNCHANGED <<snap, rec>>
    BY <1>6 DEF Commit, Move, data
  <2>2. table[s] = {}
    BY <2>1 DEF Rows
  <2>3. /\ table' \in [Stores -> SUBSET Attempts] /\ table'[s] = {a}
        /\ \A u \in Stores \ {s} : table'[u] = table[u]
    BY <2>1, <2>2 DEF Rows
  <2>4. /\ handler' \in [Stores -> [Attempts -> HandlerStates]]
        /\ handler'[s][a] = "done"
        /\ \A b \in Attempts \ {a} : handler'[s][b] = handler[s][b]
        /\ \A u \in Stores \ {s} : handler'[u] = handler[u]
    BY <2>1 DEF Rows, HandlerStates
  <2>5. \A b \in Attempts : handler'[s][b] # "flushed"
    BY <2>1, <2>4 DEF Rows
  <2>6. Rows(handler, table)'
    <3>1. \A u \in Stores : \A x, y \in table'[u] : x = y
      BY <2>3 DEF Rows
    <3>2. \A u \in Stores : \A b, c \in Attempts :
            handler'[u][b] = "flushed" /\ handler'[u][c] = "flushed" => b = c
      BY <2>4, <2>5 DEF Rows
    <3>3. \A u \in Stores : \A b \in Attempts : handler'[u][b] = "flushed" => table'[u] = {}
      BY <2>3, <2>4, <2>5, SMTT(30) DEF Rows
    <3>4. \A u \in Stores : \A b \in Attempts : handler'[u][b] = "done" => table'[u] # {}
      BY <2>3, <2>4, ZenonT(30) DEF Rows
    <3> QED BY <2>3, <2>4, <3>1, <3>2, <3>3, <3>4 DEF Rows
  <2>7. Chosen'
    BY <2>1, <2>2, <2>3 DEF Chosen, Stores
  <2> QED BY <2>6, <2>7
<1>7. ASSUME NEW s \in Stores, NEW a \in Attempts, HandlerDies(s, a)
      PROVE  Rows(handler, table)' /\ Chosen'
  <2>1. "gone" \in HandlerStates
    BY DEF HandlerStates
  <2> QED BY <1>7, <2>1, MoveStep, ZenonT(30) DEF HandlerDies, Move, data
<1>8. ASSUME NEW a \in Attempts, Integrated(a)
      PROVE  Rows(handler, table)' /\ Chosen'
  <2>1. UNCHANGED <<handler, table, rec>>
    BY <1>8 DEF Integrated, stores
  <2>2. CASE UNCHANGED snap
    BY <1>1, <2>1, <2>2
  <2>3. ASSUME NEW row \in table["snapshot"], snap' = {BuildSnapshot(query, Some(ctx), row)}
        PROVE  Rows(handler, table)' /\ Chosen'
    <3>1. BuildSnapshot(query, Some(ctx), row).id = row
      BY ZenonT(30) DEF BuildSnapshot, Matched, Judged
    <3> QED BY <2>1, <2>3, <3>1 DEF Chosen, Rows
  <2> QED BY <1>8, <2>2, <2>3 DEF Integrated
<1>9. ASSUME NEW a \in Attempts, NEW directory, Formatted(a, directory)
      PROVE  Rows(handler, table)' /\ Chosen'
  <2>1. UNCHANGED <<handler, table, snap>>
    BY <1>9 DEF Formatted, stores
  <2>2. CASE UNCHANGED rec
    BY <1>1, <2>1, <2>2
  <2>3. CASE handler["recommendation"][a] = "done"
    <3>1. table["recommendation"] # {}
      BY <2>3 DEF Rows, Stores
    <3> QED BY <2>1, <3>1 DEF Chosen, Rows
  <2> QED BY <1>9, <2>2, <2>3 DEF Formatted
<1>10. ASSUME NEW s \in Stores, DeadlinePasses(s)
       PROVE  UNCHANGED <<handler, table, snap, rec>>
  BY <1>10 DEF DeadlinePasses, stores, data
<1>11. ASSUME \/ \E outside \in Outside : Fetch(outside)
              \/ CallFails
              \/ \E created \in Created : Pack(created)
       PROVE  UNCHANGED <<handler, table, snap, rec>>
  <2>1. ASSUME NEW outside, Fetch(outside) PROVE UNCHANGED <<handler, table, snap, rec>>
    BY <2>1 DEF Fetch, stores
  <2>2. ASSUME CallFails PROVE UNCHANGED <<handler, table, snap, rec>>
    BY <2>2 DEF CallFails, stores, data
  <2>3. ASSUME NEW created, Pack(created) PROVE UNCHANGED <<handler, table, snap, rec>>
    BY <2>3 DEF Pack, stores
  <2> QED BY <1>11, <2>1, <2>2, <2>3
<1>12. ASSUME \/ \E enabled \in LlmEnabled : Decide(enabled)
              \/ \E wait \in Waits : LlmFails(wait)
              \/ \E answer \in {{}} \cup {{x} : x \in Texts}, wait \in Waits : LlmAnswers(answer, wait)
              \/ Decided
              \/ DecisionTimesOut
       PROVE  UNCHANGED <<handler, table, snap, rec>>
  BY <1>12 DEF Decide, LlmFails, LlmAnswers, Decided, DecisionTimesOut, stores, data
<1>13. ASSUME Ended \/ UNCHANGED vars
       PROVE  UNCHANGED <<handler, table, snap, rec>>
  BY <1>13 DEF Ended, vars
<1> QED BY <1>1, <1>2, <1>3, <1>4, <1>5, <1>6, <1>7, <1>8, <1>9, <1>10, <1>11, <1>12, <1>13
        DEF Next, StoreStep

\* However the calls and handlers of a request overlap, repeat and die, each store commits
\* one row and the agent goes on with it (persist, save_recommendation).
THEOREM JourneyStoredOnce == Spec => []StoredOnce
<1>1. Rows(handler, table) /\ Chosen => StoredOnce
  <2> SUFFICES ASSUME Rows(handler, table), Chosen, NEW s \in Stores
               PROVE  Cardinality(table[s]) <= 1
    BY DEF StoredOnce, Chosen
  <2>1. CASE table[s] = {}
    BY <2>1, FS_EmptySet
  <2>2. ASSUME NEW x \in table[s]
        PROVE  Cardinality(table[s]) <= 1
    <3>1. table[s] = {x}
      BY <2>2 DEF Rows
    <3>2. Cardinality({x}) = 1
      BY FS_Singleton, ZenonT(30)
    <3> QED BY <3>1, <3>2
  <2> QED BY <2>1, <2>2
<1>2. Rows(handler, table) /\ Chosen /\ [Next]_vars => Rows(handler, table)' /\ Chosen'
  BY NextRows
<1> QED BY <1>1, <1>2, InitRows, PTL DEF Spec

-----------------------------------------------------------------------------
(* What is explained.                                                      *)

\* The texts that may be shown name the locked action; nothing is explained or decided
\* before there is a package, and the response repeats the decision.
Locks ==
  /\ {"text", "waited", "tries", "fallback"} \subseteq DOMAIN llm
  /\ stage \in {"fetch", "integrate", "evidence", "decide"} =>
       llm = NoExplaining /\ dec = {} /\ rec = {}
  /\ stage = "explain" => rec = {}
  /\ stage = "format" => dec # {} /\ rec = {}
  /\ \A x \in llm.text : x.action = Locked
  /\ \A d \in dec : d.says = d.action /\ d.action = Locked
  /\ ExplanationIsLocked

\* Whatever leaves the texts, the package, the decision and the response alone, and at most
\* makes the request fail.
LEMMA KeepsLocks ==
  ASSUME Locks, UNCHANGED <<pkg, dec, rec, llm>>, stage' \in {stage, "failed"}
  PROVE  Locks'
BY DEF Locks, Locked, ExplanationIsLocked

LEMMA InitLocks == Init => Locks
<1> SUFFICES ASSUME Init PROVE Locks
  OBVIOUS
<1>1. llm = NoExplaining /\ dec = {} /\ rec = {} /\ stage = "fetch"
  BY DEF Init
<1>2. {"text", "waited", "tries", "fallback"} \subseteq DOMAIN NoExplaining /\ NoExplaining.text = {}
  BY DEF NoExplaining
<1> QED BY <1>1, <1>2 DEF Locks, ExplanationIsLocked

LEMMA LlmFailsLocks ==
  ASSUME Locks, NEW wait, LlmFails(wait)
  PROVE  Locks'
<1>1. /\ stage = "explain" /\ stage' = stage /\ UNCHANGED <<pkg, dec, rec>>
      /\ llm' = [llm EXCEPT !.tries = @ + 1, !.waited = @ + wait,
                            !.text = {Fallback(Locked)}, !.fallback = TRUE]
  BY DEF LlmFails, Explaining, data
<1>2. llm'.text = {Fallback(Locked)} /\ DOMAIN llm' = DOMAIN llm
  BY <1>1 DEF Locks
<1>3. Fallback(Locked).action = Locked
  BY DEF Fallback
<1>4. Locked' = Locked
  BY <1>1 DEF Locked
<1> QED BY <1>1, <1>2, <1>3, <1>4 DEF Locks, ExplanationIsLocked

LEMMA LlmAnswersLocks ==
  ASSUME Locks, NEW answer \in {{}} \cup {{x} : x \in Texts}, NEW wait, LlmAnswers(answer, wait)
  PROVE  Locks'
<1> DEFINE valid == \E x \in answer : ValidExplanation(x, Locked, {e.id : e \in Some(pkg).evidence})
           last  == llm.tries + 1 = 2
           given == IF valid THEN answer ELSE IF last THEN {Fallback(Locked)} ELSE {}
<1>1. /\ stage = "explain" /\ stage' = stage /\ UNCHANGED <<pkg, dec, rec>>
      /\ llm' = [tries    |-> llm.tries + 1,
                 waited   |-> llm.waited + wait,
                 checked  |-> IF answer = {} THEN {Fallback(Locked)} ELSE answer,
                 text     |-> given,
                 fallback |-> ~valid /\ last]
  BY DEF LlmAnswers, Explaining, data
<1>2. llm'.text = given /\ {"text", "waited", "tries", "fallback"} \subseteq DOMAIN llm'
  <2> HIDE DEF given, valid, last
  <2> QED BY <1>1
<1>3. Fallback(Locked).action = Locked
  BY DEF Fallback
<1>4. valid => \A x \in answer : x.action = Locked
  BY DEF ValidExplanation
<1>5. \A x \in given : x.action = Locked
  <2> HIDE DEF valid, last
  <2> QED BY <1>3, <1>4
<1>6. Locked' = Locked
  BY <1>1 DEF Locked
<1> HIDE DEF given, valid, last
<1> QED BY <1>1, <1>2, <1>5, <1>6 DEF Locks, ExplanationIsLocked

LEMMA DecideLocks ==
  ASSUME Locks, NEW enabled, Decide(enabled)
  PROVE  Locks'
<1>1. stage = "decide" /\ UNCHANGED <<pkg, dec, rec>> /\ dec = {} /\ rec = {}
  BY DEF Decide, data, Locks
<1>2. CASE UNCHANGED llm /\ stage' = "failed"
  BY <1>1, <1>2, KeepsLocks
<1>3. CASE stage' = "explain" /\ llm' = [NoExplaining EXCEPT !.checked = {Fallback(Locked)},
                                            !.fallback = ~enabled,
                                            !.text = IF enabled THEN {} ELSE {Fallback(Locked)}]
  <2>1. llm'.text \subseteq {Fallback(Locked)}
        /\ {"text", "waited", "tries", "fallback"} \subseteq DOMAIN llm'
    BY <1>3 DEF NoExplaining
  <2>2. Fallback(Locked).action = Locked
    BY DEF Fallback
  <2>3. Locked' = Locked
    BY <1>1 DEF Locked
  <2> QED BY <1>1, <1>3, <2>1, <2>2, <2>3 DEF Locks, ExplanationIsLocked
<1> QED BY <1>2, <1>3 DEF Decide, Fail

LEMMA DecidedLocks ==
  ASSUME Locks, Decided
  PROVE  Locks'
<1> DEFINE d == Decision(query, Some(pkg), Some(llm.text), llm.fallback, Some(llm.checked))
<1>1. /\ stage = "explain" /\ stage' = "format" /\ UNCHANGED <<pkg, rec>> /\ rec = {}
      /\ llm.text # {} /\ llm' = NoExplaining /\ dec' = {d}
  BY DEF Decided, Locks
<1>2. d.says = Some(llm.text).action /\ d.action = Locked
  BY DEF Decision, Locked
<1>3. Some(llm.text).action = Locked
  BY <1>1, SomeOf DEF Locks
<1>4. Locked' = Locked
  BY <1>1 DEF Locked
<1>5. {"text", "waited", "tries", "fallback"} \subseteq DOMAIN NoExplaining /\ NoExplaining.text = {}
  BY DEF NoExplaining
<1> HIDE DEF d
<1> QED BY <1>1, <1>2, <1>3, <1>4, <1>5 DEF Locks, ExplanationIsLocked

LEMMA FormattedLocks ==
  ASSUME Locks, NEW a, NEW directory, Formatted(a, directory)
  PROVE  Locks'
<1> DEFINE r == BuildResponse(Some(dec), Some(pkg),
                              ResolveContacts(directory, query.country, query.area, 0))
<1>1. stage = "format" /\ UNCHANGED <<pkg, dec, llm>>
  BY DEF Formatted, Calling, Stores
<1>2. CASE UNCHANGED rec /\ stage' = "failed"
  BY <1>1, <1>2, KeepsLocks
<1>3. CASE rec' = {r} /\ stage' = "answered"
  <2>1. r.says = Some(dec).says /\ r.action = Some(dec).action
    BY DEF BuildResponse
  <2>2. Some(dec).says = Some(dec).action /\ Some(dec).action = Locked
    BY <1>1, SomeOf DEF Locks
  <2>3. Locked' = Locked
    BY <1>1 DEF Locked
  <2> HIDE DEF r
  <2> QED BY <1>1, <1>3, <2>1, <2>2, <2>3 DEF Locks, ExplanationIsLocked
<1> QED BY <1>2, <1>3 DEF Formatted, Fail

LEMMA NextLocks ==
  ASSUME Locks, [Next]_vars
  PROVE  Locks'
<1>1. ASSUME NEW outside, Fetch(outside)
      PROVE  Locks'
  <2>1. stage = "fetch" /\ stage' = "integrate" /\ UNCHANGED <<pkg, dec, rec, llm>>
    BY <1>1 DEF Fetch
  <2> QED BY <2>1 DEF Locks, Locked, ExplanationIsLocked
<1>2. ASSUME NEW created, Pack(created)
      PROVE  Locks'
  <2>1. stage = "evidence" /\ UNCHANGED <<dec, rec, llm>> /\ stage' \in {"failed", "decide"}
    BY <1>2 DEF Pack, Fail
  <2>2. llm.text = {} /\ dec = {} /\ rec = {} /\ llm = NoExplaining
    BY <2>1 DEF Locks, NoExplaining
  <2> QED BY <2>1, <2>2 DEF Locks, ExplanationIsLocked
<1>3. ASSUME NEW a, Integrated(a)
      PROVE  Locks'
  <2>1. stage = "integrate" /\ UNCHANGED <<pkg, dec, rec, llm>> /\ stage' \in {"failed", "evidence"}
    BY <1>3 DEF Integrated, Calling, Stores, Fail
  <2> QED BY <2>1 DEF Locks, Locked, ExplanationIsLocked
<1>4. ASSUME \/ CallFails
             \/ \E s \in Stores : Send(s) \/ ConnectionBreaks(s) \/ DeadlinePasses(s)
             \/ DecisionTimesOut \/ Ended \/ UNCHANGED vars
      PROVE  Locks'
  <2>1. UNCHANGED <<pkg, dec, rec, llm>> /\ stage' \in {stage, "failed"}
    BY <1>4 DEF CallFails, Send, ConnectionBreaks, DeadlinePasses, DecisionTimesOut, Ended, Fail,
                data, vars
  <2> QED BY <2>1, KeepsLocks
<1>5. ASSUME NEW s, NEW a, StoreStep(s, a) \/ HandlerDies(s, a)
      PROVE  Locks'
  <2>1. UNCHANGED <<pkg, dec, rec, llm>> /\ stage' = stage
    BY <1>5 DEF StoreStep, FindExisting, Insert, Commit, HandlerDies, data
  <2> QED BY <2>1, KeepsLocks
<1> QED BY <1>1, <1>2, <1>3, <1>4, <1>5, DecideLocks, LlmFailsLocks, LlmAnswersLocks, DecidedLocks,
           FormattedLocks DEF Next

\* Whatever the language model answers, once or twice, and however long it takes: the text
\* the traveller reads names the action the policy locked (validate_explanation).
THEOREM JourneyExplainsTheLocked == Spec => []ExplanationIsLocked
<1>1. Locks => ExplanationIsLocked
  BY DEF Locks
<1>2. Locks /\ [Next]_vars => Locks'
  BY NextLocks, Zenon
<1> QED BY <1>1, <1>2, InitLocks, PTL DEF Spec

-----------------------------------------------------------------------------
(* What is degraded.                                                       *)

\* What failed before the explanation, and whether that fell back.
Absent == Some(ctx).degraded \cup (IF model = {} THEN {"risk model"} ELSE {})
                             \cup (IF index.ready THEN {} ELSE {"knowledge collection"})
FellBack(d) == IF d.validation.fallback THEN {"explanation"} ELSE {}

\* Each stage takes over what the one before it noted.
Noted ==
  /\ stage \in {"evidence", "decide", "explain", "format", "answered"} =>
       Some(ctx).degraded \subseteq Some(snap).quality.degraded
  /\ stage \in {"decide", "explain", "format", "answered"} => Absent \subseteq Some(pkg).degraded
  /\ rec # {} => stage = "answered"
  /\ \A r \in rec : /\ r.degraded = Some(pkg).degraded \cup FellBack(Some(dec))
                    /\ r.degraded # {} => r.status = "PARTIAL"
                    /\ r.status = "PARTIAL" => status = "PARTIAL"

LEMMA SnapshotNotes ==
  ASSUME NEW q, NEW c, NEW id
  PROVE  BuildSnapshot(q, c, id).quality.degraded = c.degraded \cup c.unavailable
BY ZenonT(30) DEF BuildSnapshot, Matched, Judged

LEMMA PackageNotes ==
  ASSUME NEW b, NEW m, NEW x, NEW retrieved, NEW created
  PROVE  EvidencePackage(b, m, x, retrieved, created).degraded
           = b.quality.degraded \cup (IF m = {} THEN {"risk model"} ELSE {})
                                \cup (IF x.ready THEN {} ELSE {"knowledge collection"})
BY DEF EvidencePackage

LEMMA ResponseNotes ==
  ASSUME NEW d, NEW p, NEW directory
  PROVE  /\ BuildResponse(d, p, directory).degraded = p.degraded \cup FellBack(d)
         /\ BuildResponse(d, p, directory).degraded # {} =>
              BuildResponse(d, p, directory).status = "PARTIAL"
BY DEF BuildResponse, AllDegraded, FellBack

LEMMA KeepsNotes ==
  ASSUME Noted, UNCHANGED <<world, ctx, snap, pkg, dec, rec>>,
         \/ stage' = stage /\ status' = status
         \/ stage' = "failed" /\ stage # "answered"
  PROVE  Noted'
BY DEF Noted, Absent, world

LEMMA NextNotes ==
  ASSUME Noted, [Next]_vars
  PROVE  Noted'
<1>1. ASSUME NEW outside, Fetch(outside)
      PROVE  Noted'
  <2>1. stage = "fetch" /\ stage' = "integrate" /\ rec' = rec
    BY <1>1 DEF Fetch
  <2> QED BY <2>1 DEF Noted
<1>2. ASSUME NEW a, Integrated(a)
      PROVE  Noted'
  <2>1. stage = "integrate" /\ UNCHANGED <<world, ctx, pkg, dec, rec>> /\ rec = {}
    BY <1>2 DEF Integrated, Calling, Stores, Noted
  <2>2. CASE stage' = "failed"
    BY <2>1, <2>2 DEF Noted
  <2>3. ASSUME stage' = "evidence", NEW row, snap' = {BuildSnapshot(query, Some(ctx), row)}
        PROVE  Noted'
    <3>1. Some(snap') = BuildSnapshot(query, Some(ctx), row)
      BY <2>3, SomeOne
    <3>2. Some(ctx).degraded \subseteq Some(snap').quality.degraded
      BY <3>1, SnapshotNotes
    <3> QED BY <2>1, <2>3, <3>2, SMTT(30) DEF Noted
  <2> QED BY <1>2, <2>2, <2>3 DEF Integrated, Fail
<1>3. ASSUME NEW created, Pack(created)
      PROVE  Noted'
  <2>1. stage = "evidence" /\ UNCHANGED <<world, ctx, snap, dec, rec>> /\ rec = {}
    BY <1>3 DEF Pack, Noted
  <2>2. CASE stage' = "failed"
    BY <2>1, <2>2 DEF Noted
  <2>3. CASE stage' = "decide" /\ pkg' = {EvidencePackage(Some(snap), model, index, 0, created)}
    <3>1. Some(pkg') = EvidencePackage(Some(snap), model, index, 0, created)
      BY <2>3, SomeOne, ZenonT(30)
    <3>2. Some(ctx).degraded \subseteq Some(snap).quality.degraded
      BY <2>1 DEF Noted
    <3>3. Absent \subseteq Some(pkg').degraded
      <4> DEFINE p == EvidencePackage(Some(snap), model, index, 0, created)
      <4>1. p.degraded = Some(snap).quality.degraded
                         \cup (IF model = {} THEN {"risk model"} ELSE {})
                         \cup (IF index.ready THEN {} ELSE {"knowledge collection"})
        BY PackageNotes
      <4>2. Some(pkg') = p
        BY <3>1
      <4> HIDE DEF p
      <4> QED BY <3>2, <4>1, <4>2 DEF Absent
    <3>4. Absent' = Absent
      BY <2>1, SMTT(30) DEF Absent, world
    <3> QED BY <2>1, <2>3, <3>2, <3>3, <3>4 DEF Noted
  <2> QED BY <1>3, <2>2, <2>3 DEF Pack, Fail
<1>4. ASSUME NEW enabled, Decide(enabled)
      PROVE  Noted'
  <2>1. stage = "decide" /\ UNCHANGED <<world, ctx, snap, pkg, dec, rec>> /\ rec = {}
        /\ stage' \in {"explain", "failed"}
    <3>1. stage = "decide" /\ UNCHANGED <<world, ctx, snap, pkg, dec, rec>>
      BY <1>4 DEF Decide, data
    <3>2. stage' \in {"explain", "failed"}
      BY <1>4 DEF Decide, Fail
    <3> QED BY <3>1, <3>2 DEF Noted
  <2> QED BY <2>1 DEF Noted, Absent, world
<1>5. ASSUME Decided
      PROVE  Noted'
  <2>1. stage = "explain" /\ UNCHANGED <<world, ctx, snap, pkg, rec>> /\ rec = {} /\ stage' = "format"
    BY <1>5 DEF Decided, Noted
  <2> QED BY <2>1 DEF Noted, Absent, world
<1>6. ASSUME NEW a, NEW directory, Formatted(a, directory)
      PROVE  Noted'
  <2> DEFINE found == ResolveContacts(directory, query.country, query.area, 0)
             r     == BuildResponse(Some(dec), Some(pkg), found)
  <2>1. stage = "format" /\ UNCHANGED <<world, ctx, snap, pkg, dec>> /\ rec = {}
    BY <1>6 DEF Formatted, Calling, Stores, Noted
  <2>2. CASE stage' = "failed" /\ UNCHANGED rec
    BY <2>1, <2>2 DEF Noted
  <2>3. CASE /\ stage' = "answered" /\ rec' = {r}
             /\ status' = IF Some(rec').status = "PARTIAL" \/ degraded # {} THEN "PARTIAL" ELSE "COMPLETED"
    <3>1. /\ r.degraded = Some(pkg).degraded \cup FellBack(Some(dec))
          /\ r.degraded # {} => r.status = "PARTIAL"
      BY ResponseNotes
    <3>2. Some(rec') = r
      BY <2>3, SomeOne, ZenonT(30)
    <3>3. r.status = "PARTIAL" => status' = "PARTIAL"
      BY <2>3, <3>2
    <3> HIDE DEF r
    <3>4. Absent' = Absent /\ FellBack(Some(dec))' = FellBack(Some(dec))
      BY <2>1 DEF Absent, FellBack, world
    <3> QED BY <2>1, <2>3, <3>1, <3>3, <3>4 DEF Noted
  <2> QED BY <1>6, <2>2, <2>3 DEF Formatted, Fail
<1>7. ASSUME \/ CallFails
             \/ \E s \in Stores : Send(s) \/ ConnectionBreaks(s) \/ DeadlinePasses(s)
             \/ \E s \in Stores, a \in Attempts : StoreStep(s, a) \/ HandlerDies(s, a)
      PROVE  Noted'
  <2>1. /\ UNCHANGED <<world, ctx, snap, pkg, dec, rec>>
        /\ \/ stage' = stage /\ status' = status
           \/ stage' = "failed" /\ stage # "answered"
    <3>1. CASE CallFails
      BY <3>1 DEF CallFails, Fail, data
    <3>2. ASSUME NEW s \in Stores, ConnectionBreaks(s) \/ DeadlinePasses(s)
          PROVE  stage \in {"integrate", "format"}
      BY <3>2 DEF ConnectionBreaks, DeadlinePasses, Calling, Stores
    <3>3. CASE \E s \in Stores : Send(s) \/ ConnectionBreaks(s) \/ DeadlinePasses(s)
      BY <3>2, <3>3 DEF Send, ConnectionBreaks, DeadlinePasses, Fail, data
    <3>4. CASE \E s \in Stores, a \in Attempts : StoreStep(s, a) \/ HandlerDies(s, a)
      BY <3>4 DEF StoreStep, FindExisting, Insert, Commit, HandlerDies, data
    <3> QED BY <1>7, <3>1, <3>3, <3>4
  <2> QED BY <2>1, KeepsNotes
<1>8. ASSUME \/ \E wait \in Waits : LlmFails(wait)
             \/ \E answer \in {{}} \cup {{x} : x \in Texts}, wait \in Waits : LlmAnswers(answer, wait)
             \/ DecisionTimesOut \/ Ended \/ UNCHANGED vars
      PROVE  Noted'
  <2>1. /\ UNCHANGED <<world, ctx, snap, pkg, dec, rec>>
        /\ \/ stage' = stage /\ status' = status
           \/ stage' = "failed" /\ stage # "answered"
    BY <1>8 DEF LlmFails, LlmAnswers, DecisionTimesOut, Ended, Fail, data, vars, world
  <2> QED BY <2>1, KeepsNotes
<1> QED BY <1>1, <1>2, <1>3, <1>4, <1>5, <1>6, <1>7, <1>8 DEF Next

LEMMA InitNotes == Init => Noted
BY DEF Init, Noted

\* Every failure on the way to a response is named in it, and neither it nor the run is
\* called complete (degraded_services from _guarded to build_response).
THEOREM JourneyShowsFailures == Spec => []FailuresAreVisible
<1>1. Noted => FailuresAreVisible
  <2> SUFFICES ASSUME Noted, NEW r \in rec
               PROVE  LET failed == Absent \cup FellBack(Some(dec))
                      IN /\ failed \subseteq r.degraded
                         /\ failed # {} => r.status = "PARTIAL" /\ status = "PARTIAL"
    BY DEF FailuresAreVisible, Absent, FellBack
  <2>1. Absent \subseteq Some(pkg).degraded /\ r.degraded = Some(pkg).degraded \cup FellBack(Some(dec))
        /\ (r.degraded # {} => r.status = "PARTIAL") /\ (r.status = "PARTIAL" => status = "PARTIAL")
    BY DEF Noted
  <2> QED BY <2>1, SMTT(30)
<1>2. Noted /\ [Next]_vars => Noted'
  BY NextNotes
<1> QED BY <1>1, <1>2, InitNotes, PTL DEF Spec

-----------------------------------------------------------------------------
(* What is made of what.                                                   *)

\* Each service's record is made of the one before it.
Chain(q, c, s, p, d, r) ==
  /\ \A x \in c : x \in Contexts /\ OneRoad(x.routes)
  /\ s # {} => c # {}
  /\ p # {} => s # {}
  /\ d # {} => p # {}
  /\ r # {} => d # {}
  /\ \A x \in s : Exposed(q, x) /\ WeatherSeen(Some(c), x)
  /\ \A x \in p : Packed(Some(s), x)
  /\ \A x \in d : DecisionFrom(x, q, Some(p), DeriveFacts(Some(p)))
  /\ \A x \in r : ResponseFrom(x, Some(d), Some(p))

\* Each stage has what the one before it returned, and has not returned anything itself; a
\* request fails for a reason.
Staged(st, c, s, p, d, r, why) ==
  /\ st = "fetch" => c = {}
  /\ st = "integrate" => c # {} /\ s = {}
  /\ st = "evidence" => s # {} /\ p = {}
  /\ st \in {"decide", "explain"} => p # {} /\ d = {}
  /\ st = "format" => d # {} /\ r = {}
  /\ st # "failed" => why = "none"
  /\ why # "BUILD_ERROR"
  /\ why = "INCONSISTENT_PACKAGE" => \E x \in p : ~InForce(x)

\* A store's handlers work on a context with a valid route, and on a decision that fits.
Fetched(c) == c # {} /\ SortedRoutes(Some(c).routes) # <<>>

Served(h, tb, c, d) ==
  /\ \A a \in Attempts : h["snapshot"][a] # "none" => c # {}
  /\ \A a \in Attempts : h["snapshot"][a] \in {"absent", "flushed", "done"} => Fetched(c)
  /\ tb["snapshot"] # {} => Fetched(c)
  /\ \A a \in Attempts : h["recommendation"][a] # "none" => d # {}
  /\ \A a \in Attempts : h["recommendation"][a] # "refused"

Made ==
  /\ \E setup \in Setups : query = setup.query
  /\ Chain(query, ctx, snap, pkg, dec, rec)
  /\ Staged(stage, ctx, snap, pkg, dec, rec, failure)
  /\ Served(handler, table, ctx, dec)

LEMMA FetchMade ==
  ASSUME Made, NEW outside \in Outside, Fetch(outside)
  PROVE  Made'
<1> DEFINE c == ContextOf(query, outside.answers, outside.closures)
<1>1. /\ stage = "fetch" /\ stage' = "integrate" /\ ctx' = {c}
      /\ UNCHANGED <<query, handler, table, snap, pkg, dec, rec, failure>>
  BY DEF Fetch, world, stores
<1>2. ctx = {} /\ snap = {} /\ pkg = {} /\ dec = {} /\ rec = {}
  BY <1>1 DEF Made, Staged, Chain
<1>3. c \in Contexts /\ OneRoad(c.routes)
  <2>1. PICK setup \in Setups : query = setup.query
    BY DEF Made
  <2>2. /\ c \in Contexts
        /\ \A i, j \in DOMAIN c.routes :
             c.routes[i].id = c.routes[j].id => c.routes[i].path = c.routes[j].path
    BY <2>1, ContextsAssumption, Zenon
  <2> QED BY <2>2, Zenon DEF OneRoad
<1> HIDE DEF c
<1>4. Chain(query, ctx, snap, pkg, dec, rec)'
  BY <1>1, <1>2, <1>3 DEF Chain
<1>5. Staged(stage, ctx, snap, pkg, dec, rec, failure)'
  BY <1>1, <1>2 DEF Made, Staged
<1>6. Served(handler, table, ctx, dec)'
  BY <1>1, <1>2 DEF Made, Served, Fetched
<1> QED BY <1>1, <1>4, <1>5, <1>6 DEF Made

LEMMA IntegratedMade ==
  ASSUME Made, Rows(handler, table), NEW a \in Attempts, Integrated(a)
  PROVE  Made'
<1>1. stage = "integrate" /\ UNCHANGED <<query, handler, table, ctx, pkg, dec, rec>>
  BY DEF Integrated, Calling, Stores, world, stores
<1>2. ctx # {} /\ snap = {} /\ pkg = {} /\ dec = {} /\ rec = {} /\ failure = "none"
  BY <1>1 DEF Made, Staged, Chain
<1>3. Served(handler, table, ctx, dec)'
  BY <1>1 DEF Made
<1>4. CASE snap' = snap /\ stage' = "failed" /\ failure' = "INSUFFICIENT_EVIDENCE"
  <2>1. Chain(query, ctx, snap, pkg, dec, rec)'
    BY <1>1, <1>4 DEF Made
  <2>2. Staged(stage, ctx, snap, pkg, dec, rec, failure)'
    BY <1>4 DEF Staged
  <2> QED BY <1>1, <1>3, <2>1, <2>2 DEF Made
<1>5. CASE /\ handler["snapshot"][a] = "done"
           /\ \E row \in table["snapshot"] : snap' = {BuildSnapshot(query, Some(ctx), row)}
           /\ stage' = "evidence" /\ failure' = failure
  <2>1. PICK row : snap' = {BuildSnapshot(query, Some(ctx), row)}
    BY <1>5
  <2>2. PICK s : s = BuildSnapshot(query, Some(ctx), row)
    OBVIOUS
  <2>3. Some(ctx) \in Contexts /\ OneRoad(Some(ctx).routes)
    BY <1>2, SomeOf DEF Made, Chain
  <2>4. SortedRoutes(Some(ctx).routes) # <<>>
    BY <1>5 DEF Made, Served, Fetched
  <2>5. Exposed(query, s) /\ WeatherSeen(Some(ctx), s)
    BY <2>2, <2>3, <2>4, SnapshotIs
  <2>6. snap' = {s}
    BY <2>1, <2>2
  <2>7. Chain(query, ctx, snap, pkg, dec, rec)'
    BY <1>1, <1>2, <2>5, <2>6 DEF Made, Chain
  <2>8. Staged(stage, ctx, snap, pkg, dec, rec, failure)'
    BY <1>1, <1>2, <1>5, <2>6 DEF Staged
  <2> QED BY <1>1, <1>3, <2>7, <2>8 DEF Made
<1> QED BY <1>4, <1>5 DEF Integrated, Fail

LEMMA PackMade ==
  ASSUME Made, NEW created, Pack(created)
  PROVE  Made'
<1>1. stage = "evidence" /\ UNCHANGED <<query, handler, table, ctx, snap, dec, rec>>
  BY DEF Pack, world, stores
<1>2. snap # {} /\ ctx # {} /\ pkg = {} /\ dec = {} /\ rec = {} /\ failure = "none"
  BY <1>1 DEF Made, Staged, Chain
<1>3. Served(handler, table, ctx, dec)'
  BY <1>1 DEF Made
<1>4. CASE pkg' = pkg /\ stage' = "failed" /\ failure' = "INSUFFICIENT_EVIDENCE"
  <2>1. Chain(query, ctx, snap, pkg, dec, rec)'
    BY <1>1, <1>4 DEF Made
  <2>2. Staged(stage, ctx, snap, pkg, dec, rec, failure)'
    BY <1>4 DEF Staged
  <2> QED BY <1>1, <1>3, <2>1, <2>2 DEF Made
<1>5. CASE /\ pkg' = {EvidencePackage(Some(snap), model, index, 0, created)}
           /\ stage' = "decide" /\ failure' = failure
  <2>1. PICK s : s = Some(snap)
    OBVIOUS
  <2>2. PICK p : p = EvidencePackage(s, model, index, 0, created)
    OBVIOUS
  <2>3. Exposed(query, s)
    BY <1>2, <2>1, SomeOf DEF Made, Chain
  <2>4. Packed(s, p)
    <3>1. Packed(s, EvidencePackage(s, model, index, 0, created))
      BY <2>3, PackageIs, Zenon
    <3> QED BY <2>2, <3>1
  <2>5. pkg' = {p}
    BY <1>5, <2>1, <2>2
  <2>6. Chain(query, ctx, snap, pkg, dec, rec)'
    BY <1>1, <1>2, <2>1, <2>4, <2>5 DEF Made, Chain
  <2>7. Staged(stage, ctx, snap, pkg, dec, rec, failure)'
    BY <1>1, <1>2, <1>5, <2>5 DEF Staged
  <2> QED BY <1>1, <1>3, <2>6, <2>7 DEF Made
<1> QED BY <1>4, <1>5 DEF Pack, Fail

\* Only an expired passage makes the decision engine refuse a package.
LEMMA DecideMade ==
  ASSUME Made, NEW enabled, Decide(enabled)
  PROVE  Made'
<1>1. stage = "decide" /\ UNCHANGED <<query, handler, table, ctx, snap, pkg, dec, rec>>
  BY DEF Decide, world, stores, data
<1>2. pkg # {} /\ snap # {} /\ dec = {} /\ failure = "none"
  BY <1>1 DEF Made, Staged, Chain
<1>3. Chain(query, ctx, snap, pkg, dec, rec)' /\ Served(handler, table, ctx, dec)'
  BY <1>1 DEF Made
<1>4. CASE stage' = "explain" /\ failure' = failure
  <2>1. Staged(stage, ctx, snap, pkg, dec, rec, failure)'
    BY <1>1, <1>2, <1>4 DEF Staged
  <2> QED BY <1>1, <1>3, <2>1 DEF Made
<1>5. CASE ~CheckConsistency(query, Some(pkg)) /\ stage' = "failed" /\ failure' = "INCONSISTENT_PACKAGE"
  <2>1. Some(snap) \in snap /\ Some(pkg) \in pkg
    BY <1>2, SomeOf
  <2>2. PICK s : s = Some(snap)
    OBVIOUS
  <2>3. PICK p : p = Some(pkg)
    OBVIOUS
  <2>4. Exposed(query, s) /\ Packed(s, p)
    BY <2>1, <2>2, <2>3 DEF Made, Chain
  <2>5. ~InForce(p)
    BY <1>5, <2>3, <2>4, PackageIsConsistent
  <2>6. Staged(stage, ctx, snap, pkg, dec, rec, failure)'
    BY <1>1, <1>5, <2>1, <2>3, <2>5 DEF Staged
  <2> QED BY <1>1, <1>3, <2>6 DEF Made
<1> QED BY <1>4, <1>5 DEF Decide, Fail

LEMMA DecidedMade ==
  ASSUME Made, Decided
  PROVE  Made'
<1>1. /\ stage = "explain" /\ stage' = "format"
      /\ dec' = {Decision(query, Some(pkg), Some(llm.text), llm.fallback, Some(llm.checked))}
      /\ UNCHANGED <<query, handler, table, ctx, snap, pkg, rec, failure>>
  BY DEF Decided, world, stores
<1>2. pkg # {} /\ snap # {} /\ dec = {} /\ rec = {} /\ failure = "none"
  BY <1>1 DEF Made, Staged, Chain
<1>3. PICK d : d = Decision(query, Some(pkg), Some(llm.text), llm.fallback, Some(llm.checked))
  OBVIOUS
<1>4. DecisionFrom(d, query, Some(pkg), DeriveFacts(Some(pkg)))
  BY <1>3, DecisionIs, Zenon
<1>5. dec' = {d}
  BY <1>1, <1>3
<1>6. Chain(query, ctx, snap, pkg, dec, rec)'
  BY <1>1, <1>2, <1>4, <1>5 DEF Made, Chain
<1>7. Staged(stage, ctx, snap, pkg, dec, rec, failure)'
  BY <1>1, <1>2, <1>5 DEF Staged
<1>8. Served(handler, table, ctx, dec)'
  BY <1>1, <1>5 DEF Made, Served
<1> QED BY <1>1, <1>6, <1>7, <1>8 DEF Made

LEMMA FormattedMade ==
  ASSUME Made, NEW a \in Attempts, NEW directory, Formatted(a, directory)
  PROVE  Made'
<1>1. stage = "format" /\ UNCHANGED <<query, handler, table, ctx, snap, pkg, dec>>
  BY DEF Formatted, Calling, Stores, world, stores
<1>2. dec # {} /\ rec = {} /\ failure = "none"
  BY <1>1 DEF Made, Staged
<1>3. Served(handler, table, ctx, dec)'
  BY <1>1 DEF Made
<1>4. handler["recommendation"][a] # "refused"
  BY DEF Made, Served
<1>5. /\ stage' = "answered" /\ failure' = failure
      /\ rec' = {BuildResponse(Some(dec), Some(pkg),
                               ResolveContacts(directory, query.country, query.area, 0))}
  BY <1>4 DEF Formatted
<1>6. PICK d : d = Some(dec)
  OBVIOUS
<1>7. PICK p : p = Some(pkg)
  OBVIOUS
<1>8. PICK r : r = BuildResponse(d, p, ResolveContacts(directory, query.country, query.area, 0))
  OBVIOUS
<1>9. ResponseFrom(r, d, p)
  BY <1>8, ResponseIs, Zenon
<1>10. rec' = {r}
  BY <1>5, <1>6, <1>7, <1>8
<1>11. Chain(query, ctx, snap, pkg, dec, rec)'
  BY <1>1, <1>2, <1>6, <1>7, <1>9, <1>10 DEF Made, Chain
<1>12. Staged(stage, ctx, snap, pkg, dec, rec, failure)'
  BY <1>1, <1>2, <1>5 DEF Staged
<1> QED BY <1>1, <1>3, <1>11, <1>12 DEF Made

LEMMA InitMade == Init => Made
<1> SUFFICES ASSUME Init PROVE Made
  OBVIOUS
<1>1. /\ stage = "fetch" /\ ctx = {} /\ snap = {} /\ pkg = {} /\ dec = {} /\ rec = {} /\ failure = "none"
      /\ \A s \in Stores : table[s] = {} /\ \A a \in Attempts : handler[s][a] = "none"
      /\ \E setup \in Setups : query = setup.query
  BY DEF Init
<1>2. Chain(query, ctx, snap, pkg, dec, rec)
  BY <1>1 DEF Chain
<1>3. Staged(stage, ctx, snap, pkg, dec, rec, failure)
  BY <1>1 DEF Staged
<1>4. Served(handler, table, ctx, dec)
  BY <1>1 DEF Served, Stores
<1> QED BY <1>1, <1>2, <1>3, <1>4 DEF Made

\* While the records stay what they are, the stage may stay too, or the request fails for
\* a reason that is not theirs.
LEMMA KeepsMade ==
  ASSUME Made, UNCHANGED <<query, ctx, snap, pkg, dec, rec>>, Served(handler, table, ctx, dec)',
         \/ stage' = stage /\ failure' = failure
         \/ stage' = "failed" /\ failure' \in {"DEPENDENCY", "EXPLANATION_TIMEOUT"}
  PROVE  Made'
<1>1. Chain(query, ctx, snap, pkg, dec, rec)'
  BY DEF Made
<1>2. Staged(stage, ctx, snap, pkg, dec, rec, failure)'
  BY DEF Made, Staged
<1> QED BY <1>1, <1>2 DEF Made

LEMMA MoveServed ==
  ASSUME NEW h, NEW tb, NEW c, NEW d, Rows(h, tb), Served(h, tb, c, d),
         NEW s \in Stores, NEW a \in Attempts, NEW to \in HandlerStates,
         s = "snapshot" => c # {},
         s = "snapshot" /\ to \in {"absent", "flushed", "done"} => Fetched(c),
         s = "recommendation" => d # {} /\ to # "refused"
  PROVE  Served([h EXCEPT ![s][a] = to], tb, c, d)
<1> DEFINE g == [h EXCEPT ![s][a] = to]
<1>1. /\ g[s][a] = to
      /\ \A b \in Attempts \ {a} : g[s][b] = h[s][b]
      /\ \A u \in Stores \ {s} : g[u] = h[u]
  BY DEF Rows
<1> HIDE DEF g
<1>2. CASE s = "snapshot"
  <2>1. g["recommendation"] = h["recommendation"]
    BY <1>1, <1>2 DEF Stores
  <2>2. \A b \in Attempts : g["snapshot"][b] # "none" => c # {}
    BY <1>2
  <2>3. \A b \in Attempts : g["snapshot"][b] \in {"absent", "flushed", "done"} => Fetched(c)
    BY <1>1, <1>2 DEF Served
  <2>4. Served(g, tb, c, d)
    BY <2>1, <2>2, <2>3 DEF Served
  <2> QED BY <2>4 DEF g
<1>3. CASE s = "recommendation"
  <2>1. g["snapshot"] = h["snapshot"]
    BY <1>1, <1>3 DEF Stores
  <2>2. \A b \in Attempts : g["recommendation"][b] # "refused"
    BY <1>1, <1>3 DEF Served
  <2>3. Served(g, tb, c, d)
    BY <1>3, <2>1, <2>2 DEF Served
  <2> QED BY <2>3 DEF g
<1> QED BY <1>2, <1>3 DEF Stores

\* One handler moves, and nothing else does.
LEMMA MoveMade ==
  ASSUME Made, Rows(handler, table), NEW s \in Stores, NEW a \in Attempts, NEW to \in HandlerStates,
         handler' = [handler EXCEPT ![s][a] = to],
         UNCHANGED <<query, table, ctx, snap, pkg, dec, rec, stage, failure>>,
         s = "snapshot" => ctx # {},
         s = "snapshot" /\ to \in {"absent", "flushed", "done"} => Fetched(ctx),
         s = "recommendation" => dec # {} /\ to # "refused"
  PROVE  Made'
<1>1. Served(handler, table, ctx, dec)
  BY DEF Made
<1>2. Served([handler EXCEPT ![s][a] = to], table, ctx, dec)
  BY <1>1, MoveServed
<1>3. Served(handler, table, ctx, dec)'
  BY <1>2
<1> QED BY <1>3, KeepsMade

\* What the stage says of the store that the agent calls.
LEMMA CallMade ==
  ASSUME Made, NEW s \in Stores, Calling(s)
  PROVE  /\ s = "snapshot" => ctx # {}
         /\ s = "recommendation" => dec # {}
         /\ stage \in {"integrate", "format"}
BY DEF Made, Staged, Calling, Stores

LEMMA StoreMade ==
  ASSUME Made, Rows(handler, table), NEW s \in Stores, NEW a \in Attempts,
         StoreStep(s, a) \/ HandlerDies(s, a)
  PROVE  Made'
<1>1. /\ \A b \in Attempts : handler["snapshot"][b] # "none" => ctx # {}
      /\ \A b \in Attempts : handler["snapshot"][b] \in {"absent", "flushed", "done"} => Fetched(ctx)
      /\ table["snapshot"] # {} => Fetched(ctx)
      /\ \A b \in Attempts : handler["recommendation"][b] # "none" => dec # {}
      /\ \A b \in Attempts : handler["recommendation"][b] # "refused"
  BY DEF Made, Served
<1>2. ASSUME handler[s][a] # "none"
      PROVE  (s = "snapshot" => ctx # {}) /\ (s = "recommendation" => dec # {})
  BY <1>1, <1>2
<1>3. CASE FindExisting(s, a)
  <2> DEFINE to == IF table[s] # {} THEN "done" ELSE IF Buildable(s) THEN "absent" ELSE "refused"
  <2>1. handler[s][a] = "called" /\ handler' = [handler EXCEPT ![s][a] = to]
        /\ UNCHANGED <<query, table, ctx, snap, pkg, dec, rec, stage, failure>>
    BY <1>3 DEF FindExisting, Move, data, world
  <2>2. to \in HandlerStates
    BY DEF HandlerStates
  <2>3. s = "snapshot" /\ to \in {"absent", "flushed", "done"} => Fetched(ctx)
    <3>1. s = "snapshot" /\ table[s] # {} => Fetched(ctx)
      BY <1>1
    <3>2. s = "snapshot" /\ Buildable(s) => Fetched(ctx)
      BY <1>2, <2>1 DEF Buildable, Fetched
    <3> QED BY <3>1, <3>2
  <2>4. s = "recommendation" => dec # {} /\ to # "refused"
    <3> SUFFICES ASSUME s = "recommendation"
                 PROVE  dec # {} /\ Buildable(s)
      OBVIOUS
    <3>1. dec # {} /\ pkg # {} /\ snap # {}
      BY <1>2, <2>1 DEF Made, Chain
    <3>2. Some(dec) \in dec /\ Some(pkg) \in pkg /\ Some(snap) \in snap
      BY <3>1, SomeOf
    <3>3. PICK b : b = Some(snap)
      OBVIOUS
    <3>4. PICK p : p = Some(pkg)
      OBVIOUS
    <3>5. PICK d : d = Some(dec)
      OBVIOUS
    <3>6. Exposed(query, b) /\ Packed(b, p) /\ DecisionFrom(d, query, p, DeriveFacts(p))
      BY <3>2, <3>3, <3>4, <3>5 DEF Made, Chain
    <3>7. Consistent(d, p)
      BY <3>6, DecisionFits
    <3> QED BY <3>1, <3>4, <3>5, <3>7 DEF Buildable
  <2>5. s = "snapshot" => ctx # {}
    BY <1>2, <2>1
  <2> HIDE DEF to
  <2> QED BY <2>1, <2>2, <2>3, <2>4, <2>5, MoveMade, ZenonT(30)
<1>4. CASE Insert(s, a)
  <2> DEFINE to == IF table[s] # {} THEN "done" ELSE "flushed"
  <2>1. handler[s][a] = "absent" /\ handler' = [handler EXCEPT ![s][a] = to]
        /\ UNCHANGED <<query, table, ctx, snap, pkg, dec, rec, stage, failure>>
    BY <1>4 DEF Insert, Move, data, world
  <2>2. to \in HandlerStates /\ to # "refused"
    BY DEF HandlerStates
  <2>3. /\ s = "snapshot" => ctx # {} /\ Fetched(ctx)
        /\ s = "recommendation" => dec # {}
    BY <1>1, <2>1
  <2> HIDE DEF to
  <2> QED BY <2>1, <2>2, <2>3, MoveMade, ZenonT(30)
<1>5. CASE Commit(s, a)
  <2>1. handler[s][a] = "flushed" /\ handler' = [handler EXCEPT ![s][a] = "done"]
        /\ table' = [table EXCEPT ![s] = @ \cup {a}]
        /\ UNCHANGED <<query, ctx, snap, pkg, dec, rec, stage, failure>>
    BY <1>5 DEF Commit, Move, data, world
  <2>2. /\ s = "snapshot" => ctx # {} /\ Fetched(ctx)
        /\ s = "recommendation" => dec # {}
    BY <1>1, <2>1
  <2>3. "done" \in HandlerStates
    BY DEF HandlerStates
  <2>4. Served(handler, table, ctx, dec)
    BY DEF Made
  <2>5. Served([handler EXCEPT ![s][a] = "done"], table, ctx, dec)
    BY <2>2, <2>3, <2>4, MoveServed
  <2>6. table'["snapshot"] # {} => Fetched(ctx)
    <3>1. CASE s = "snapshot"
      BY <2>2, <3>1
    <3>2. CASE s # "snapshot"
      BY <1>1, <2>1, <3>2 DEF Rows, Stores
    <3> QED BY <3>1, <3>2
  <2>7. Served(handler, table, ctx, dec)'
    BY <2>1, <2>5, <2>6 DEF Served
  <2> QED BY <2>1, <2>7, KeepsMade
<1>6. CASE HandlerDies(s, a)
  <2>1. handler[s][a] \in {"called", "absent", "flushed"} /\ handler' = [handler EXCEPT ![s][a] = "gone"]
        /\ UNCHANGED <<query, table, ctx, snap, pkg, dec, rec, stage, failure>>
    BY <1>6 DEF HandlerDies, Move, data, world
  <2>2. "gone" \in HandlerStates
    BY DEF HandlerStates
  <2> QED BY <1>2, <2>1, <2>2, MoveMade, ZenonT(30)
<1> QED BY <1>3, <1>4, <1>5, <1>6 DEF StoreStep

LEMMA CallsMade ==
  ASSUME Made, Rows(handler, table), NEW s \in Stores, Send(s) \/ ConnectionBreaks(s) \/ DeadlinePasses(s)
  PROVE  Made'
<1>1. Calling(s) /\ UNCHANGED <<query, table, ctx, snap, pkg, dec, rec>>
  BY DEF Send, ConnectionBreaks, DeadlinePasses, data, world, stores
<1>2. (s = "snapshot" => ctx # {}) /\ (s = "recommendation" => dec # {})
  BY <1>1, CallMade
<1>3. "called" \in HandlerStates /\ 1 \in Attempts
  BY DEF HandlerStates, Attempts
<1>4. ASSUME NEW a \in Attempts, handler' = [handler EXCEPT ![s][a] = "called"], UNCHANGED <<stage, failure>>
      PROVE  Made'
  BY <1>1, <1>2, <1>3, <1>4, MoveMade, ZenonT(30)
<1>5. ASSUME UNCHANGED handler, stage' = "failed", failure' = "DEPENDENCY"
      PROVE  Made'
  <2>1. Served(handler, table, ctx, dec)'
    BY <1>1, <1>5 DEF Made
  <2> QED BY <1>1, <1>5, <2>1, KeepsMade
<1>6. CASE Send(s)
  BY <1>3, <1>4, <1>6 DEF Send
<1>7. CASE ConnectionBreaks(s)
  <2>1. \/ attempt[s] + 1 \in Attempts /\ handler' = [handler EXCEPT ![s][attempt[s] + 1] = "called"]
           /\ UNCHANGED <<stage, failure>>
        \/ UNCHANGED handler /\ stage' = "failed" /\ failure' = "DEPENDENCY"
    BY <1>7 DEF ConnectionBreaks, Fail
  <2> QED BY <1>4, <1>5, <2>1
<1>8. CASE DeadlinePasses(s)
  BY <1>5, <1>8 DEF DeadlinePasses, Fail, stores
<1> QED BY <1>6, <1>7, <1>8

LEMMA NextMade ==
  ASSUME Made, Rows(handler, table), [Next]_vars
  PROVE  Made'
<1>1. ASSUME \/ CallFails
             \/ \E wait \in Waits : LlmFails(wait)
             \/ \E answer \in {{}} \cup {{x} : x \in Texts}, wait \in Waits : LlmAnswers(answer, wait)
             \/ DecisionTimesOut \/ Ended \/ UNCHANGED vars
      PROVE  Made'
  <2>1. /\ UNCHANGED <<query, handler, table, ctx, snap, pkg, dec, rec>>
        /\ \/ stage' = stage /\ failure' = failure
           \/ stage' = "failed" /\ failure' \in {"DEPENDENCY", "EXPLANATION_TIMEOUT"}
    BY <1>1 DEF CallFails, LlmFails, LlmAnswers, DecisionTimesOut, Ended, Fail, data, vars, world, stores
  <2>2. Served(handler, table, ctx, dec)'
    BY <2>1 DEF Made
  <2> QED BY <2>1, <2>2, KeepsMade
<1> QED BY <1>1, FetchMade, IntegratedMade, PackMade, DecideMade, DecidedMade, FormattedMade,
           StoreMade, CallsMade DEF Next

LEMMA MadeAlways == Spec => [](Made /\ Rows(handler, table) /\ Chosen)
<1>1. /\ Made /\ Rows(handler, table) /\ Chosen /\ [Next]_vars
           => Made' /\ Rows(handler, table)' /\ Chosen'
  BY NextMade, NextRows
<1> QED BY <1>1, InitMade, InitRows, PTL DEF Spec

\* No service refuses what the one before it made, whatever the providers answer and however
\* the calls of the request overlap: a decision always fits its package (_validate of the
\* response builder), and only a passage that expired since its retrieval makes a package
\* inconsistent (check_consistency).
THEOREM JourneyStagesAgree == Spec => []StagesAgree
<1>1. Made => StagesAgree
  BY DEF Made, Staged, StagesAgree
<1> QED BY <1>1, MadeAlways, PTL

\* What the response says of the snapshot it was made of.
LEMMA MadeHeeds ==
  ASSUME Made, NEW r \in rec
  PROVE  /\ Heeds(r, query, Some(snap), Some(pkg))
         /\ Some(snap) \in snap
         /\ Exposed(query, Some(snap)) /\ WeatherSeen(Some(ctx), Some(snap))
<1>1. dec # {} /\ pkg # {} /\ snap # {}
  BY DEF Made, Chain
<1>2. Some(dec) \in dec /\ Some(pkg) \in pkg /\ Some(snap) \in snap
  BY <1>1, SomeOf
<1>3. PICK s : s = Some(snap)
  OBVIOUS
<1>4. PICK p : p = Some(pkg)
  OBVIOUS
<1>5. PICK d : d = Some(dec)
  OBVIOUS
<1>6. /\ Exposed(query, s) /\ WeatherSeen(Some(ctx), s) /\ Packed(s, p)
      /\ DecisionFrom(d, query, p, DeriveFacts(p)) /\ ResponseFrom(r, d, p)
  BY <1>2, <1>3, <1>4, <1>5 DEF Made, Chain
<1>7. Heeds(r, query, s, p)
  BY <1>6, ResponseHeeds
<1> QED BY <1>2, <1>3, <1>4, <1>6, <1>7

\* A severe official alert that the snapshot kept and that meets the shown road for the time
\* of the trip is never answered with NORMAL, whichever original or alternative is shown and
\* whatever the trained model says (overrides.yaml, assess_route, the decision table).
THEOREM JourneyHeedsKeptAlerts == Spec => []OfficialAlertNeverNormal
<1>1. Made => OfficialAlertNeverNormal
  <2> SUFFICES ASSUME Made, NEW r \in rec, r.action = "NORMAL", NEW route \in Shown(r),
                      NEW e \in Some(snap).alerts, e.severity >= SEVERE
               PROVE  ~Meets(route, e)
    BY DEF OfficialAlertNeverNormal
  <2>1. PICK id \in r.primary : route \in RouteOf(Some(pkg), id)
    BY DEF Shown
  <2>2. Heeds(r, query, Some(snap), Some(pkg)) /\ Exposed(query, Some(snap))
    BY MadeHeeds
  <2>3. e \notin HitsOn(query, Some(snap), route)
    BY <2>1, <2>2 DEF Heeds
  <2>4. e \in Range(Some(snap).events)
    BY <2>2 DEF Exposed
  <2> QED BY <2>3, <2>4 DEF HitsOn, Hits, Meets
<1> QED BY <1>1, MadeAlways, PTL

\* Nobody is sent along a road that meets a closure the snapshot kept.
NeverOnKeptClosure ==
  \A r \in rec : \A route \in Shown(r) : \A e \in Range(Some(snap).events) :
    e.closure => ~Meets(route, e)

LEMMA MadeHeedsClosures == Made => NeverOnKeptClosure
<1> SUFFICES ASSUME Made, NEW r \in rec, NEW route \in Shown(r),
                    NEW e \in Range(Some(snap).events), e.closure, Meets(route, e)
             PROVE  FALSE
  BY DEF NeverOnKeptClosure
<1>1. Heeds(r, query, Some(snap), Some(pkg))
  BY MadeHeeds
<1>2. PICK id \in r.primary : route \in RouteOf(Some(pkg), id)
  BY DEF Shown
<1>3. e \in HitsOn(query, Some(snap), route)
  BY DEF HitsOn, Hits, Meets
<1> QED BY <1>1, <1>2, <1>3 DEF Heeds

\* The part of NeverOnClosedRoute that does not hang on what the merging of reports computes:
\* whatever is ranked, decided, explained and shown, a closure that the snapshot has is heeded
\* (exposure, policy rules 20 and 30, _primary_and_alternatives).
THEOREM JourneyHeedsTheSnapshot == Spec => []NeverOnKeptClosure
<1> QED BY MadeHeedsClosures, MadeAlways, PTL

\* A risk is called low only where some forecast of the providers' answers has rain and some
\* has wind, and where enough of the road has a forecast near it, for every road, every list
\* of forecasts and every model (match_weather, build_features, assess_route, evaluate).
THEOREM JourneyWeatherIsSeen == Spec => []UnknownWeatherIsNeverLow
<1>1. Made => UnknownWeatherIsNeverLow
  <2> SUFFICES ASSUME Made, NEW r \in rec, r.level = "LOW"
               PROVE  /\ \E w \in Range(Some(ctx).weather) : w.precip # {}
                      /\ \E w \in Range(Some(ctx).weather) : w.gust # {}
                      /\ 4 * Cardinality({w.at : w \in Range(Some(ctx).weather)})
                           >= ExpectedSamples(Some(snap).routes[1].path)
    BY DEF UnknownWeatherIsNeverLow
  <2>1. Heeds(r, query, Some(snap), Some(pkg)) /\ WeatherSeen(Some(ctx), Some(snap))
    BY MadeHeeds
  <2>2. ~Insufficient(Some(snap).features)
    BY <2>1 DEF Heeds
  <2> QED BY <2>1, <2>2 DEF WeatherSeen
<1> QED BY <1>1, MadeAlways, PTL

-----------------------------------------------------------------------------
(* What each record is computed from.                                      *)

\* Each record is what its service computes from the one before it, for the trip, the model
\* and the index of one setup.
Computed(q, m, x, c, s, p, d, r) ==
  /\ \E setup \in Setups :
       /\ q = setup.query /\ x = setup.index
       /\ m = LoadActiveModel(setup.artifact, FEATURE_SCHEMA)
       /\ \A y \in c : \E outside \in Outside : y = ContextOf(q, outside.answers, outside.closures)
  /\ \A y \in s : \E row \in Attempts : y = BuildSnapshot(q, Some(c), row)
  /\ s # {} => Fetched(c)
  /\ \A y \in p : \E created \in Created : y = EvidencePackage(Some(s), m, x, 0, created)
  /\ \A y \in d : \E text, checked \in Explanations, fallback \in BOOLEAN :
       y = Decision(q, Some(p), text, fallback, checked)
  /\ \A y \in r : \E directory \in Directories :
       y = BuildResponse(Some(d), Some(p), ResolveContacts(directory, q.country, q.area, 0))

\* The explanation in progress, and what the language model is given to check.
Explained(st, l) ==
  /\ l.text \subseteq Explanations /\ l.checked \subseteq Explanations
  /\ l.fallback \in BOOLEAN
  /\ {"text", "waited", "tries", "fallback", "checked"} \subseteq DOMAIN l
  /\ st = "explain" => l.checked # {}

ComputedNow == Computed(query, model, index, ctx, snap, pkg, dec, rec) /\ Explained(stage, llm)

\* The locked action is an action.
LEMMA LockedIs ==
  ASSUME Made, pkg # {}
  PROVE  Locked \in Actions
<1>1. snap # {}
  BY DEF Made, Chain
<1>2. Some(pkg) \in pkg /\ Some(snap) \in snap
  BY <1>1, SomeOf
<1>3. PICK s : s = Some(snap)
  OBVIOUS
<1>4. PICK p : p = Some(pkg)
  OBVIOUS
<1>5. Exposed(query, s) /\ Packed(s, p)
  BY <1>2, <1>3, <1>4 DEF Made, Chain
<1>6. PICK f : f = DeriveFacts(p)
  OBVIOUS
<1>7. IsFacts(f)
  BY <1>5, <1>6, FactsAre DEF FactsFrom
<1>8. ChosenRule(f).action \in Actions
  BY <1>7, FirstRuleIs DEF DecidedAs
<1> QED BY <1>4, <1>6, <1>8 DEF Locked

LEMMA FallbackFits ==
  ASSUME NEW a \in Actions
  PROVE  Fallback(a) \in Explanations
BY DEF Fallback, Explanations

LEMMA InitComputed == Init => ComputedNow
<1> SUFFICES ASSUME Init PROVE ComputedNow
  OBVIOUS
<1>1. Computed(query, model, index, ctx, snap, pkg, dec, rec)
  BY DEF Init, Computed
<1>2. Explained(stage, llm)
  BY DEF Init, Explained, NoExplaining
<1> QED BY <1>1, <1>2 DEF ComputedNow

LEMMA NoExplainingFits == \A st : st # "explain" => Explained(st, NoExplaining)
BY DEF Explained, NoExplaining

\* The records stay; the explanation does too, or the stage is over.
LEMMA KeepsComputed ==
  ASSUME ComputedNow, UNCHANGED <<world, ctx, snap, pkg, dec, rec, llm>>,
         stage' = "explain" => stage = "explain"
  PROVE  ComputedNow'
<1>1. Computed(query, model, index, ctx, snap, pkg, dec, rec)'
  BY DEF ComputedNow, world
<1>2. Explained(stage, llm)'
  BY DEF ComputedNow, Explained
<1> QED BY <1>1, <1>2 DEF ComputedNow

LEMMA FetchComputed ==
  ASSUME Made, ComputedNow, NEW outside \in Outside, Fetch(outside)
  PROVE  ComputedNow'
<1>1. /\ stage = "fetch" /\ stage' = "integrate"
      /\ ctx' = {ContextOf(query, outside.answers, outside.closures)}
      /\ UNCHANGED <<query, model, index, snap, pkg, dec, rec, llm>>
  BY DEF Fetch, world
<1>2. ctx = {} /\ snap = {} /\ pkg = {} /\ dec = {} /\ rec = {}
  BY <1>1 DEF Made, Staged, Chain
<1>3. Computed(query, model, index, ctx, snap, pkg, dec, rec)'
  <2>1. PICK setup \in Setups : /\ query = setup.query /\ index = setup.index
                                /\ model = LoadActiveModel(setup.artifact, FEATURE_SCHEMA)
    BY DEF ComputedNow, Computed
  <2>2. \A y \in ctx' : y = ContextOf(query', outside.answers, outside.closures)
    BY <1>1
  <2> QED BY <1>1, <1>2, <2>1, <2>2 DEF Computed
<1>4. Explained(stage, llm)'
  BY <1>1 DEF ComputedNow, Explained
<1> QED BY <1>3, <1>4 DEF ComputedNow

LEMMA IntegratedComputed ==
  ASSUME Made, Rows(handler, table), ComputedNow, NEW a \in Attempts, Integrated(a)
  PROVE  ComputedNow'
<1>1. stage = "integrate" /\ UNCHANGED <<query, model, index, ctx, pkg, dec, rec, llm>>
  BY DEF Integrated, Calling, Stores, world
<1>2. pkg = {} /\ dec = {} /\ rec = {}
  BY <1>1 DEF Made, Staged, Chain
<1>3. CASE snap' = snap /\ stage' = "failed"
  BY <1>1, <1>3, KeepsComputed DEF world
<1>4. CASE /\ \E row \in table["snapshot"] : snap' = {BuildSnapshot(query, Some(ctx), row)}
           /\ stage' = "evidence"
  <2>1. PICK row \in table["snapshot"] : snap' = {BuildSnapshot(query, Some(ctx), row)}
    BY <1>4
  <2>2. row \in Attempts /\ Fetched(ctx)
    BY DEF Made, Served, Rows, Stores
  <2>3. Computed(query, model, index, ctx, snap, pkg, dec, rec)'
    <3>1. \A y \in snap' : y = BuildSnapshot(query', Some(ctx'), row)
      BY <1>1, <2>1
    <3>2. Computed(query, model, index, ctx, snap, pkg, dec, rec)
      BY DEF ComputedNow
    <3> QED BY <1>1, <1>2, <2>2, <3>1, <3>2, Zenon DEF Computed
  <2>4. Explained(stage, llm)'
    BY <1>1, <1>4 DEF ComputedNow, Explained
  <2> QED BY <2>3, <2>4 DEF ComputedNow
<1> QED BY <1>3, <1>4 DEF Integrated, Fail

LEMMA PackComputed ==
  ASSUME Made, ComputedNow, NEW created \in Created, Pack(created)
  PROVE  ComputedNow'
<1>1. stage = "evidence" /\ UNCHANGED <<query, model, index, ctx, snap, dec, rec, llm>>
  BY DEF Pack, world
<1>2. pkg = {} /\ dec = {} /\ rec = {}
  BY <1>1 DEF Made, Staged, Chain
<1>3. CASE pkg' = pkg /\ stage' = "failed"
  BY <1>1, <1>3, KeepsComputed DEF world
<1>4. CASE /\ pkg' = {EvidencePackage(Some(snap), model, index, 0, created)}
           /\ stage' = "decide"
  <2>1. Computed(query, model, index, ctx, snap, pkg, dec, rec)'
    <3>1. \A y \in pkg' : y = EvidencePackage(Some(snap'), model', index', 0, created)
      BY <1>1, <1>4
    <3>2. Computed(query, model, index, ctx, snap, pkg, dec, rec)
      BY DEF ComputedNow
    <3> QED BY <1>1, <1>2, <3>1, <3>2, Zenon DEF Computed
  <2>2. Explained(stage, llm)'
    BY <1>1, <1>4 DEF ComputedNow, Explained
  <2> QED BY <2>1, <2>2 DEF ComputedNow
<1> QED BY <1>3, <1>4 DEF Pack, Fail

LEMMA DecideComputed ==
  ASSUME Made, ComputedNow, NEW enabled \in BOOLEAN, Decide(enabled)
  PROVE  ComputedNow'
<1>1. stage = "decide" /\ UNCHANGED <<query, model, index, ctx, snap, pkg, dec, rec>>
  BY DEF Decide, world, data
<1>2. Fallback(Locked) \in Explanations
  BY <1>1, LockedIs, FallbackFits DEF Made, Staged
<1>3. Computed(query, model, index, ctx, snap, pkg, dec, rec)'
  BY <1>1 DEF ComputedNow
<1>4. CASE UNCHANGED llm /\ stage' = "failed"
  BY <1>1, <1>4, KeepsComputed DEF world
<1>5. CASE llm' = [NoExplaining EXCEPT !.checked = {Fallback(Locked)}, !.fallback = ~enabled,
                                       !.text = IF enabled THEN {} ELSE {Fallback(Locked)}]
  <2>1. /\ llm'.text \subseteq {Fallback(Locked)} /\ llm'.checked = {Fallback(Locked)}
        /\ llm'.fallback \in BOOLEAN
        /\ {"text", "waited", "tries", "fallback", "checked"} \subseteq DOMAIN llm'
    BY <1>5 DEF NoExplaining
  <2>2. Explained(stage, llm)'
    BY <1>2, <2>1 DEF Explained
  <2> QED BY <1>3, <2>2 DEF ComputedNow
<1> QED BY <1>4, <1>5 DEF Decide, Fail

LEMMA LlmComputed ==
  ASSUME Made, ComputedNow,
         \/ \E wait \in Waits : LlmFails(wait)
         \/ \E answer \in {{}} \cup {{x} : x \in Texts}, wait \in Waits : LlmAnswers(answer, wait)
  PROVE  ComputedNow'
<1>1. stage = "explain" /\ stage' = stage /\ UNCHANGED <<query, model, index, ctx, snap, pkg, dec, rec>>
  BY DEF LlmFails, LlmAnswers, Explaining, world, data
<1>2. Fallback(Locked) \in Explanations
  BY <1>1, LockedIs, FallbackFits DEF Made, Staged
<1>3. Computed(query, model, index, ctx, snap, pkg, dec, rec)'
  BY <1>1 DEF ComputedNow
<1>4. Explained(stage, llm)
  BY DEF ComputedNow
<1>5. ASSUME NEW wait, LlmFails(wait)
      PROVE  Explained(stage, llm)'
  <2>1. llm' = [llm EXCEPT !.tries = @ + 1, !.waited = @ + wait,
                           !.text = {Fallback(Locked)}, !.fallback = TRUE]
    BY <1>5 DEF LlmFails
  <2>2. /\ llm'.text = {Fallback(Locked)} /\ llm'.checked = llm.checked
        /\ llm'.fallback = TRUE /\ DOMAIN llm' = DOMAIN llm
    BY <1>4, <2>1 DEF Explained
  <2> QED BY <1>1, <1>2, <1>4, <2>2 DEF Explained
<1>6. ASSUME NEW answer \in {{}} \cup {{x} : x \in Texts}, NEW wait, LlmAnswers(answer, wait)
      PROVE  Explained(stage, llm)'
  <2> DEFINE valid == \E x \in answer : ValidExplanation(x, Locked, {e.id : e \in Some(pkg).evidence})
             last  == llm.tries + 1 = 2
             text  == IF valid THEN answer ELSE IF last THEN {Fallback(Locked)} ELSE {}
             seen  == IF answer = {} THEN {Fallback(Locked)} ELSE answer
             back  == ~valid /\ last
  <2>1. llm' = [tries |-> llm.tries + 1, waited |-> llm.waited + wait, checked |-> seen,
                text |-> text, fallback |-> back]
    BY <1>6 DEF LlmAnswers
  <2>2. answer \subseteq Explanations
    BY ConstantsAssumption
  <2>3. text \subseteq Explanations /\ seen \subseteq Explanations /\ seen # {} /\ back \in BOOLEAN
    BY <1>2, <2>2
  <2> HIDE DEF text, seen, back
  <2>4. /\ llm'.text = text /\ llm'.checked = seen /\ llm'.fallback = back
        /\ DOMAIN llm' = {"tries", "waited", "checked", "text", "fallback"}
    BY <2>1
  <2> QED BY <2>3, <2>4 DEF Explained
<1>7. Explained(stage, llm)'
  BY <1>5, <1>6
<1> QED BY <1>3, <1>7 DEF ComputedNow

LEMMA DecidedComputed ==
  ASSUME Made, ComputedNow, Decided
  PROVE  ComputedNow'
<1>1. /\ stage = "explain" /\ stage' = "format" /\ llm' = NoExplaining /\ llm.text # {}
      /\ dec' = {Decision(query, Some(pkg), Some(llm.text), llm.fallback, Some(llm.checked))}
      /\ UNCHANGED <<query, model, index, ctx, snap, pkg, rec>>
  BY DEF Decided, world
<1>2. rec = {}
  BY <1>1 DEF Made, Staged, Chain
<1>3. /\ Some(llm.text) \in Explanations /\ Some(llm.checked) \in Explanations
      /\ llm.fallback \in BOOLEAN
  BY <1>1, SomeOf DEF ComputedNow, Explained
<1>4. Computed(query, model, index, ctx, snap, pkg, dec, rec)'
  <2>1. \A y \in dec' : y = Decision(query', Some(pkg'), Some(llm.text), llm.fallback, Some(llm.checked))
    BY <1>1
  <2>2. Computed(query, model, index, ctx, snap, pkg, dec, rec)
    BY DEF ComputedNow
  <2> QED BY <1>1, <1>2, <1>3, <2>1, <2>2, Zenon DEF Computed
<1>5. Explained(stage, llm)'
  BY <1>1, NoExplainingFits
<1> QED BY <1>4, <1>5 DEF ComputedNow

LEMMA FormattedComputed ==
  ASSUME Made, ComputedNow, NEW a, NEW directory \in Directories, Formatted(a, directory)
  PROVE  ComputedNow'
<1>1. UNCHANGED <<query, model, index, ctx, snap, pkg, dec, llm>>
  BY DEF Formatted, world
<1>2. CASE rec' = rec /\ stage' = "failed"
  BY <1>1, <1>2, KeepsComputed DEF world
<1>3. CASE /\ stage' = "answered"
           /\ rec' = {BuildResponse(Some(dec), Some(pkg),
                                    ResolveContacts(directory, query.country, query.area, 0))}
  <2>1. Computed(query, model, index, ctx, snap, pkg, dec, rec)'
    <3>1. \A y \in rec' : y = BuildResponse(Some(dec'), Some(pkg'),
                                ResolveContacts(directory, query'.country, query'.area, 0))
      BY <1>1, <1>3
    <3>2. Computed(query, model, index, ctx, snap, pkg, dec, rec)
      BY DEF ComputedNow
    <3> QED BY <1>1, <3>1, <3>2, Zenon DEF Computed
  <2>2. Explained(stage, llm)'
    BY <1>1, <1>3 DEF ComputedNow, Explained
  <2> QED BY <2>1, <2>2 DEF ComputedNow
<1> QED BY <1>2, <1>3 DEF Formatted, Fail

\* Whatever step is made, each record is what its service computed from the one before.
LEMMA NextComputed ==
  ASSUME Made, Rows(handler, table), ComputedNow, [Next]_vars
  PROVE  ComputedNow'
<1>1. ASSUME \/ CallFails
             \/ \E s \in Stores : Send(s) \/ ConnectionBreaks(s) \/ DeadlinePasses(s)
             \/ \E s \in Stores, a \in Attempts : StoreStep(s, a) \/ HandlerDies(s, a)
             \/ DecisionTimesOut \/ Ended \/ UNCHANGED vars
      PROVE  ComputedNow'
  <2>1. UNCHANGED <<world, ctx, snap, pkg, dec, rec, llm>> /\ stage' \in {stage, "failed"}
    BY <1>1 DEF CallFails, Send, ConnectionBreaks, DeadlinePasses, StoreStep, FindExisting, Insert,
                Commit, HandlerDies, DecisionTimesOut, Ended, Fail, data, vars, world
  <2> QED BY <2>1, KeepsComputed
<1>2. ASSUME NEW enabled \in LlmEnabled, Decide(enabled)
      PROVE  ComputedNow'
  <2>1. enabled \in BOOLEAN
    BY ConstantsAssumption
  <2> QED BY <1>2, <2>1, DecideComputed
<1> QED BY <1>1, <1>2, FetchComputed, IntegratedComputed, PackComputed, LlmComputed,
           DecidedComputed, FormattedComputed DEF Next

LEMMA ComputedAlways == Spec => [](Made /\ Rows(handler, table) /\ Chosen /\ ComputedNow)
<1>1. /\ Made /\ Rows(handler, table) /\ Chosen /\ ComputedNow /\ [Next]_vars
           => Made' /\ Rows(handler, table)' /\ Chosen' /\ ComputedNow'
  BY NextMade, NextRows, NextComputed
<1> QED BY <1>1, InitMade, InitRows, InitComputed, PTL DEF Spec

-----------------------------------------------------------------------------
(* Closures.                                                               *)

\* What is proved of every answer of the providers: nobody is sent along a road that meets a
\* closure which is not merged with another report.
NeverOnLoneClosure ==
  \A r \in rec : \A route \in Shown(r) : \A e \in Range(Some(ctx).events) :
    e.closure /\ StandsAlone(e, Range(Some(ctx).events)) => ~Meets(route, e)

\* It is in the snapshot as it was reported.
LEMMA LoneClosureIsKept ==
  ASSUME Made, ComputedNow, rec # {}, NEW e \in Range(Some(ctx).events),
         StandsAlone(e, Range(Some(ctx).events))
  PROVE  e \in Range(Some(snap).events)
<1>1. snap # {} /\ ctx # {}
  BY DEF Made, Chain
<1>2. Some(ctx) \in Contexts
  BY <1>1, SomeOf DEF Made, Chain
<1>3. PICK c : c = Some(ctx)
  OBVIOUS
<1>4. PICK row : Some(snap) = BuildSnapshot(query, c, row)
  BY <1>1, <1>3, SomeOf DEF ComputedNow, Computed
<1>5. Unique(e, Range(c.events)) /\ Alone(e, Range(c.events)) /\ ValidEvent(e)
  BY <1>3 DEF StandsAlone, Unique, Alone
<1>6. e \in Range(BuildSnapshot(query, c, row).events)
  BY <1>2, <1>3, <1>5, SnapshotKeeps
<1> QED BY <1>4, <1>6

LEMMA NoLoneClosure ==
  ASSUME Made, ComputedNow
  PROVE  NeverOnLoneClosure
<1> SUFFICES ASSUME NEW r \in rec, NEW route \in Shown(r), NEW e \in Range(Some(ctx).events),
                    e.closure, StandsAlone(e, Range(Some(ctx).events)), Meets(route, e)
             PROVE  FALSE
  BY DEF NeverOnLoneClosure
<1>1. e \in Range(Some(snap).events)
  BY LoneClosureIsKept
<1>2. NeverOnKeptClosure
  BY MadeHeedsClosures
<1> QED BY <1>1, <1>2 DEF NeverOnKeptClosure

\* For all answers of the providers: a closure that no other report is taken for is in the
\* snapshot, on the exposure of the roads that it meets, and no response sends anybody along
\* one of them (deduplicate, annotate, policy rules 20 and 30, _primary_and_alternatives).
THEOREM JourneyNeverOnLoneClosure == Spec => []NeverOnLoneClosure
<1>1. Made /\ ComputedNow => NeverOnLoneClosure
  BY NoLoneClosure
<1> QED BY <1>1, ComputedAlways, PTL

\* So, where the closures of all answers are such reports, nobody is sent along a closed road.
\* The hypothesis is needed: of two closures that are merged (_resolve), one place is lost.
THEOREM JourneyNeverOnClosedRoute == ClosuresStandAlone => (Spec => []NeverOnClosedRoute)
<1> SUFFICES ASSUME ClosuresStandAlone PROVE Spec => []NeverOnClosedRoute
  OBVIOUS
<1>1. Made /\ ComputedNow => NeverOnClosedRoute
  <2> SUFFICES ASSUME Made, ComputedNow, NEW r \in rec, NEW route \in Shown(r),
                      NEW e \in Range(Some(ctx).events), e.closure
               PROVE  ~Meets(route, e)
    BY DEF NeverOnClosedRoute
  <2>1. ctx # {}
    BY DEF Made, Chain
  <2>2. PICK setup \in Setups, outside \in Outside :
          Some(ctx) = ContextOf(setup.query, outside.answers, outside.closures)
    BY <2>1, SomeOf DEF ComputedNow, Computed
  <2>3. StandsAlone(e, Range(Some(ctx).events))
    BY <2>2 DEF ClosuresStandAlone
  <2> QED BY <2>3, NoLoneClosure DEF NeverOnLoneClosure
<1> QED BY <1>1, ComputedAlways, PTL

-----------------------------------------------------------------------------
(* The records fit their schemas.                                          *)

\* The stage of the request and the attempts it waits for.
Attempting == stage \in Stages /\ attempt \in [Stores -> 0 .. 2]

LEMMA NextAttempting ==
  ASSUME Attempting, [Next]_vars
  PROVE  Attempting'
<1>1. CASE UNCHANGED attempt /\ stage' \in Stages
  BY <1>1 DEF Attempting
<1>2. "failed" \in Stages /\ {"integrate", "evidence", "decide", "explain", "format", "answered"} \subseteq Stages
  BY DEF Stages
<1>3. ASSUME NEW s \in Stores, Send(s)
      PROVE  Attempting'
  <2>1. attempt' = [attempt EXCEPT ![s] = 1] /\ stage' = stage
    BY <1>3 DEF Send
  <2> QED BY <2>1 DEF Attempting
<1>4. ASSUME NEW s \in Stores, ConnectionBreaks(s)
      PROVE  Attempting'
  <2>1. CASE attempt[s] + 1 \in Attempts
    <3>1. attempt' = [attempt EXCEPT ![s] = attempt[s] + 1] /\ stage' = stage
      BY <1>4, <2>1 DEF ConnectionBreaks
    <3>2. attempt[s] + 1 \in 0 .. 2
      BY <2>1 DEF Attempts
    <3> QED BY <3>1, <3>2 DEF Attempting
  <2>2. CASE attempt[s] + 1 \notin Attempts
    BY <1>1, <1>2, <1>4, <2>2 DEF ConnectionBreaks, Fail
  <2> QED BY <2>1, <2>2
<1>5. ASSUME NEW s \in Stores, DeadlinePasses(s)
      PROVE  Attempting'
  BY <1>1, <1>2, <1>5 DEF DeadlinePasses, Fail, stores
<1>6. ASSUME NEW s \in Stores, NEW a \in Attempts, StoreStep(s, a) \/ HandlerDies(s, a)
      PROVE  Attempting'
  BY <1>6 DEF StoreStep, FindExisting, Insert, Commit, HandlerDies, Attempting
<1>7. ASSUME \/ \E outside \in Outside : Fetch(outside)
             \/ CallFails
             \/ \E a \in Attempts : Integrated(a)
             \/ \E created \in Created : Pack(created)
             \/ \E enabled \in LlmEnabled : Decide(enabled)
      PROVE  Attempting'
  <2>1. UNCHANGED attempt
    BY <1>7 DEF Fetch, CallFails, Integrated, Pack, Decide, stores
  <2>2. stage' \in {stage, "failed", "integrate", "evidence", "decide", "explain"}
    BY <1>7 DEF Fetch, CallFails, Integrated, Pack, Decide, Fail
  <2> QED BY <1>2, <2>1, <2>2 DEF Attempting
<1>8. ASSUME \/ \E wait \in Waits : LlmFails(wait)
             \/ \E answer \in {{}} \cup {{x} : x \in Texts}, wait \in Waits : LlmAnswers(answer, wait)
             \/ Decided
             \/ DecisionTimesOut
             \/ \E a \in Attempts, directory \in Directories : Formatted(a, directory)
             \/ Ended \/ UNCHANGED vars
      PROVE  Attempting'
  <2>1. UNCHANGED attempt
    BY <1>8 DEF LlmFails, LlmAnswers, Decided, DecisionTimesOut, Formatted, Ended, stores, vars
  <2>2. stage' \in {stage, "failed", "format", "answered"}
    BY <1>8 DEF LlmFails, LlmAnswers, Decided, DecisionTimesOut, Formatted, Ended, Fail, vars
  <2> QED BY <1>2, <2>1, <2>2 DEF Attempting
<1> QED BY <1>3, <1>4, <1>5, <1>6, <1>7, <1>8 DEF Next

\* A request is one of the trips, and its context is one that the model knows.
LEMMA InputsFit ==
  ASSUME Made, ComputedNow
  PROVE  /\ query \in Requests
         /\ index.passages \in Seq(Passages)
         /\ ctx # {} => /\ Some(ctx) \in Contexts
                        /\ \A i \in DOMAIN Some(ctx).routes : Knows(model, Some(ctx).routes[i])
<1>1. PICK setup \in Setups : /\ query = setup.query /\ index = setup.index
                              /\ model = LoadActiveModel(setup.artifact, FEATURE_SCHEMA)
                              /\ \A y \in ctx : \E outside \in Outside :
                                   y = ContextOf(query, outside.answers, outside.closures)
  BY DEF ComputedNow, Computed
<1>2. query \in Requests /\ index.passages \in Seq(Passages)
  BY <1>1, InputsAssumption
<1>3. ASSUME ctx # {}
      PROVE  /\ Some(ctx) \in Contexts
             /\ \A i \in DOMAIN Some(ctx).routes : Knows(model, Some(ctx).routes[i])
  <2>1. Some(ctx) \in ctx
    BY <1>3, SomeOf
  <2>2. PICK c : c = Some(ctx)
    OBVIOUS
  <2>3. PICK outside \in Outside : c = ContextOf(setup.query, outside.answers, outside.closures)
    BY <1>1, <2>1, <2>2
  <2>4. /\ c \in Contexts
        /\ \A m \in model, i \in DOMAIN c.routes : m.probability[c.routes[i].id] \in Percent
    BY <1>1, <2>3, ContextsAssumption, Zenon
  <2>5. ASSUME NEW i \in DOMAIN c.routes, model # {}
        PROVE  (CHOOSE m \in model : TRUE).probability[c.routes[i].id] \in Percent
    <3>1. (CHOOSE m \in model : TRUE) \in model
      BY <2>5
    <3> QED BY <2>4, <3>1
  <2>6. \A i \in DOMAIN c.routes : Knows(model, c.routes[i])
    BY <2>5 DEF Knows
  <2> QED BY <2>2, <2>4, <2>6
<1> QED BY <1>2, <1>3

\* The snapshot, the package, the decision and the response fit their schemas, each because
\* the one before it does.
LEMMA SnapshotsFit ==
  ASSUME Made, ComputedNow, snap # {}
  PROVE  /\ Some(snap) \in Snapshots /\ snap \subseteq Snapshots
         /\ \A k \in DOMAIN Some(snap).routes : Knows(model, Some(snap).routes[k])
<1>1. PICK c : c = Some(ctx)
  OBVIOUS
<1>2. /\ query \in Requests /\ c \in Contexts /\ SortedRoutes(c.routes) # <<>>
      /\ \A i \in DOMAIN c.routes : Knows(model, c.routes[i])
  <2>1. Fetched(ctx)
    BY DEF ComputedNow, Computed
  <2> QED BY <1>1, <2>1, InputsFit DEF Fetched
<1>3. ASSUME NEW s \in snap
      PROVE  s \in Snapshots /\ \A k \in DOMAIN s.routes : Knows(model, s.routes[k])
  <2>1. PICK row \in Attempts : s = BuildSnapshot(query, c, row)
    BY <1>1 DEF ComputedNow, Computed
  <2>2. row \in Nat
    BY DEF Attempts
  <2>3. PICK q \in Requests : q = query
    BY <1>2
  <2>4. /\ BuildSnapshot(q, c, row) \in Snapshots
        /\ \A k \in DOMAIN BuildSnapshot(q, c, row).routes : \E i \in DOMAIN c.routes :
             BuildSnapshot(q, c, row).routes[k].id = c.routes[i].id
    BY <1>2, <2>2, SnapshotFits
  <2>5. s \in Snapshots /\ \A k \in DOMAIN s.routes : \E i \in DOMAIN c.routes : s.routes[k].id = c.routes[i].id
    BY <2>1, <2>3, <2>4
  <2>6. ASSUME NEW k \in DOMAIN s.routes
        PROVE  Knows(model, s.routes[k])
    <3>1. PICK i \in DOMAIN c.routes : s.routes[k].id = c.routes[i].id
      BY <2>5
    <3>2. Knows(model, c.routes[i])
      BY <1>2
    <3> QED BY <3>1, <3>2 DEF Knows
  <2> QED BY <2>5, <2>6
<1> QED BY <1>3, SomeOf

LEMMA PackagesFit ==
  ASSUME Made, ComputedNow, NEW p \in pkg
  PROVE  AllAssessed(p)
<1>1. snap # {} /\ Some(snap) \in snap
  BY SomeOf DEF Made, Chain
<1>2. PICK s \in Snapshots : s = Some(snap) /\ \A k \in DOMAIN s.routes : Knows(model, s.routes[k])
  BY <1>1, SnapshotsFit
<1>3. Exposed(query, s) /\ Packed(s, p)
  BY <1>1, <1>2 DEF Made, Chain
<1>4. PICK created \in Created : p = EvidencePackage(s, model, index, 0, created)
  BY <1>2 DEF ComputedNow, Computed
<1>5. created \in Times /\ index.passages \in Seq(Passages)
  BY InputsAssumption, InputsFit
<1>6. PICK retrieved : retrieved = 0
  OBVIOUS
<1>7. EvidencePackage(s, model, index, retrieved, created) \in Packages
  BY <1>2, <1>5, PackageFits
<1>8. p \in Packages
  BY <1>4, <1>6, <1>7
<1>9. DOMAIN p.routes = DOMAIN s.routes /\ \A k \in DOMAIN p.routes : \E i \in DOMAIN s.routes : p.routes[k].id = s.routes[i].id
  BY <1>3 DEF Packed, RankingOf, RankedAs
<1>10. p.routes # <<>>
  <2>1. PICK n \in Nat \ {0} : DOMAIN s.routes = 1 .. n
    BY <1>3 DEF Exposed
  <2> QED BY <1>9, <2>1
<1>11. \A k \in DOMAIN p.routes : \E a \in p.assessments : a.route = p.routes[k].id
  BY <1>3, <1>9 DEF Packed
<1> QED BY <1>8, <1>10, <1>11 DEF AllAssessed

LEMMA DecisionsFit ==
  ASSUME Made, ComputedNow, NEW d \in dec
  PROVE  d \in Decisions
<1>1. Some(pkg) \in pkg
  BY SomeOf DEF Made, Chain
<1>2. PICK p : p = Some(pkg) /\ AllAssessed(p)
  BY <1>1, PackagesFit
<1>3. PICK q \in Requests : q = query
  BY InputsFit
<1>4. PICK text \in Explanations, checked \in Explanations, fallback \in BOOLEAN :
        d = Decision(q, p, text, fallback, checked)
  BY <1>2, <1>3 DEF ComputedNow, Computed
<1> QED BY <1>2, <1>4, MadeDecisionFits

LEMMA ResponsesFit ==
  ASSUME Made, ComputedNow, NEW r \in rec
  PROVE  r \in Recommendations
<1>1. dec # {} /\ pkg # {}
  BY DEF Made, Chain
<1>2. PICK p : p = Some(pkg) /\ AllAssessed(p)
  BY <1>1, PackagesFit, SomeOf
<1>3. PICK d \in Decisions : d = Some(dec)
  BY <1>1, DecisionsFit, SomeOf
<1>4. PICK directory \in Directories :
        r = BuildResponse(d, p, ResolveContacts(directory, query.country, query.area, 0))
  BY <1>2, <1>3 DEF ComputedNow, Computed
<1>5. PICK records \in SUBSET DirectoryRecords : records = directory
  BY InputsAssumption
<1>6. PICK today : today = 0
  OBVIOUS
<1>7. PICK country : country = query.country
  OBVIOUS
<1>8. PICK area : area = query.area
  OBVIOUS
<1>9. PICK found : found = ResolveContacts(records, country, area, today)
  OBVIOUS
<1>10. found.contacts \in SUBSET STRING /\ found.limitations \in SUBSET DirectoryLimits
  BY <1>9, ContactsFit
<1>11. BuildResponse(d, p, found) \in Recommendations
  BY <1>2, <1>10, ResponseFits
<1> QED BY <1>4, <1>5, <1>6, <1>7, <1>8, <1>9, <1>11

\* Every record that a service returns is accepted by the schema of the next one, for every
\* trip, answer of the providers, model, index, text and directory that fits its own schema
\* (sta_contracts.models; FastAPI validates each request and response against it).
THEOREM JourneyTypes == Spec => []TypeOK
<1>1. Made /\ Rows(handler, table) /\ ComputedNow /\ Attempting => TypeOK
  <2> SUFFICES ASSUME Made, Rows(handler, table), ComputedNow, Attempting
               PROVE  TypeOK
    OBVIOUS
  <2>1. query \in Requests
    BY InputsFit
  <2>2. \A c \in ctx : c \in Contexts
    BY DEF Made, Chain
  <2>3. \A b \in snap : b \in Snapshots
    BY SnapshotsFit
  <2>4. \A p \in pkg : p \in Packages /\ DeriveFacts(p) \in Facts
    BY PackagesFit, DeriveFactsFit DEF AllAssessed
  <2>5. \A d \in dec : d \in Decisions
    BY DecisionsFit
  <2>6. \A r \in rec : r \in Recommendations
    BY ResponsesFit
  <2>7. /\ stage \in Stages /\ attempt \in [Stores -> 0 .. 2]
        /\ handler \in [Stores -> [Attempts -> HandlerStates]]
        /\ table \in [Stores -> SUBSET Attempts]
    BY DEF Attempting, Rows
  <2> QED BY <2>1, <2>2, <2>3, <2>4, <2>5, <2>6, <2>7, Zenon DEF TypeOK
<1>2. Init => Attempting
  BY DEF Init, Attempting, Stages, Stores
<1>3. Attempting /\ [Next]_vars => Attempting'
  BY NextAttempting
<1> QED BY <1>1, <1>2, <1>3, ComputedAlways, PTL DEF Spec
=============================================================================
