------------------------------ MODULE Journey ------------------------------
(***************************************************************************)
(* One request through the five services: external-data answers with what  *)
(* the providers gave, data-integration stores one snapshot of it, risk-   *)
(* knowledge packs risks, ranking and guidance, decision-engine locks an   *)
(* action and has it explained, recommendation stores one response.        *)
(*                                                                         *)
(* What each service computes is in Sources, Snapshot, Risk, Policy and    *)
(* Advice; here is the order, what can go wrong between them, the two      *)
(* tables that a repeated call meets, and the clock of the explanation.    *)
(***************************************************************************)
EXTENDS Sources, Snapshot, Risk, Policy, Advice

CONSTANTS
  Setups,       \* the trips asked about, each with an optional model artifact and a state of
                \* the knowledge index
  Outside,      \* what the providers answer, all at once, and the official closures
  Created,      \* times at which a package is made (its passages are retrieved at 0)
  LlmEnabled,   \* the values of the setting, a set of Booleans
  Texts,        \* explanations the language model may return
  Waits,        \* seconds a call of it may take
  Directories,  \* emergency directories, sets of records
  Faults        \* of {"connection", "timeout", "crash"}

Stores   == {"snapshot", "recommendation"}
Attempts == 1 .. 2          \* max_retries is 1

FEATURE_SCHEMA == "1.0.0"
READ_TIMEOUT   == 12        \* agent_tool_timeout_seconds, of the agent's client
OPENAI_TIMEOUT == 12        \* openai_timeout_seconds, of one attempt

ASSUME ConstantsAssumption ==
  /\ Waits \subseteq 0 .. OPENAI_TIMEOUT
  /\ Texts \subseteq Explanations
  /\ LlmEnabled \subseteq BOOLEAN
  /\ Faults \subseteq {"connection", "timeout", "crash"}

\* The trip fits its schema, as the passages, the directories and the times do that the
\* services work with.
ASSUME InputsAssumption ==
  /\ \A setup \in Setups : setup.query \in Requests /\ setup.index.passages \in Seq(Passages)
  /\ Directories \subseteq SUBSET DirectoryRecords
  /\ Created \subseteq Times

\* The contexts that the providers' answers lead to are well-formed (the contract is
\* validated), and an id stands for one road: deterministic_id makes it of the provider, the
\* profile or mode, the place in the answer and the content.  A model that is served has a
\* probability for each of them (predict_proba).
ASSUME ContextsAssumption ==
  \A setup \in Setups, outside \in Outside :
    LET c == ContextOf(setup.query, outside.answers, outside.closures)
    IN /\ c \in Contexts
       /\ \A i, j \in DOMAIN c.routes :
            c.routes[i].id = c.routes[j].id => c.routes[i].path = c.routes[j].path
       /\ \A m \in LoadActiveModel(setup.artifact, FEATURE_SCHEMA), i \in DOMAIN c.routes :
            m.probability[c.routes[i].id] \in Percent

VARIABLES
  query, model, index,  \* the trip, and what risk-knowledge has loaded
  stage,      \* of the agent's graph
  attempt,    \* the attempt the agent waits for, of each store (0: none)
  handler,    \* what each store's handler of each attempt is doing
  table,      \* the committed rows of each store, by the attempt that wrote them
  ctx, snap, pkg, dec, rec,  \* what the services returned, optional
  llm,        \* the explanation in progress
  degraded,   \* the services the agent has noted
  status,     \* the final status of the run
  failure     \* why it failed

world  == <<query, model, index>>
stores == <<attempt, handler, table>>
data   == <<ctx, snap, pkg, dec, rec>>
vars   == <<query, model, index, stage, attempt, handler, table, ctx, snap, pkg, dec, rec,
            llm, degraded, status, failure>>

Stages == {"fetch", "integrate", "evidence", "decide", "explain", "format", "answered", "failed"}
HandlerStates == {"none", "called", "absent", "flushed", "done", "refused", "gone"}

Some(S) == CHOOSE x \in S : TRUE

NoExplaining == [tries |-> 0, waited |-> 0, checked |-> {}, text |-> {}, fallback |-> FALSE]

Init ==
  /\ \E setup \in Setups : /\ query = setup.query
                           /\ model = LoadActiveModel(setup.artifact, FEATURE_SCHEMA)
                           /\ index = setup.index
  /\ stage = "fetch"
  /\ attempt = [s \in Stores |-> 0]
  /\ handler = [s \in Stores |-> [a \in Attempts |-> "none"]]
  /\ table = [s \in Stores |-> {}]
  /\ ctx = {} /\ snap = {} /\ pkg = {} /\ dec = {} /\ rec = {}
  /\ llm = NoExplaining
  /\ degraded = {}
  /\ status = "RUNNING" /\ failure = "none"

Fail(why) == /\ stage' = "failed" /\ status' = "FAILED" /\ failure' = why

-----------------------------------------------------------------------------
\* fetch_external_data: the query service always has a context to give.
Fetch(outside) ==
  /\ stage = "fetch"
  /\ stage' = "integrate"
  /\ ctx' = {ContextOf(query, outside.answers, outside.closures)}
  /\ degraded' = Some(ctx').degraded
  /\ UNCHANGED <<world, stores, snap, pkg, dec, rec, llm, status, failure>>

\* A tool call that ends without an answer: its deadline, or every attempt, is spent.
CallFails ==
  /\ stage \in {"fetch", "evidence"}
  /\ "timeout" \in Faults
  /\ Fail("DEPENDENCY")
  /\ UNCHANGED <<world, stores, data, llm, degraded>>

-----------------------------------------------------------------------------
\* The two services that store: data-integration and recommendation.

\* The stage in which the agent calls a store.
Calling(s) == stage = [snapshot |-> "integrate", recommendation |-> "format"][s]

\* The agent sends an attempt (ResilientClient.request).
Send(s) ==
  /\ Calling(s)
  /\ attempt[s] = 0
  /\ attempt' = [attempt EXCEPT ![s] = 1]
  /\ handler' = [handler EXCEPT ![s][1] = "called"]
  /\ UNCHANGED <<world, stage, table, data, llm, degraded, status, failure>>

\* The connection breaks: an idempotent call is sent again, once; the handler of the first
\* one goes on.
ConnectionBreaks(s) ==
  LET a == attempt[s]
  IN /\ Calling(s) /\ a > 0
     /\ "connection" \in Faults \/ handler[s][a] = "gone"
     /\ IF a + 1 \in Attempts
          THEN /\ attempt' = [attempt EXCEPT ![s] = a + 1]
               /\ handler' = [handler EXCEPT ![s][a + 1] = "called"]
               /\ UNCHANGED <<stage, status, failure>>
          ELSE /\ Fail("DEPENDENCY")
               /\ UNCHANGED <<attempt, handler>>
     /\ UNCHANGED <<world, table, data, llm, degraded>>

\* No answer before the tool's deadline, which leaves no time for another attempt.
DeadlinePasses(s) ==
  /\ Calling(s) /\ attempt[s] > 0
  /\ "timeout" \in Faults
  /\ Fail("DEPENDENCY")
  /\ UNCHANGED <<world, stores, data, llm, degraded>>

Move(s, a, to) == handler' = [handler EXCEPT ![s][a] = to]

\* There is something to store: a valid route, or a decision that fits its package.
Buildable(s) ==
  IF s = "snapshot" THEN SortedRoutes(Some(ctx).routes) # <<>>
                    ELSE Consistent(Some(dec), Some(pkg))

\* find_existing and build_snapshot, or build_response and the select of
\* save_recommendation.
FindExisting(s, a) ==
  /\ handler[s][a] = "called"
  /\ Move(s, a, IF table[s] # {} THEN "done" ELSE IF Buildable(s) THEN "absent" ELSE "refused")
  /\ UNCHANGED <<world, stage, attempt, table, data, llm, degraded, status, failure>>

\* Mutant: no unique key on the request and its input.
InsertDuplicate(s, a) ==
  /\ handler[s][a] = "absent"
  /\ Move(s, a, "flushed")
  /\ UNCHANGED <<world, stage, attempt, table, data, llm, degraded, status, failure>>

\* persist: the insert waits for a transaction that holds the same key; a row committed
\* since the lookup refuses it, and that row is returned.
Insert(s, a) ==
  /\ handler[s][a] = "absent"
  /\ \A b \in Attempts : handler[s][b] # "flushed"
  /\ Move(s, a, IF table[s] # {} THEN "done" ELSE "flushed")
  /\ UNCHANGED <<world, stage, attempt, table, data, llm, degraded, status, failure>>

Commit(s, a) ==
  /\ handler[s][a] = "flushed"
  /\ Move(s, a, "done")
  /\ table' = [table EXCEPT ![s] = @ \cup {a}]
  /\ UNCHANGED <<world, stage, attempt, data, llm, degraded, status, failure>>

\* The service stops: what was not committed is rolled back.
HandlerDies(s, a) ==
  /\ "crash" \in Faults
  /\ handler[s][a] \in {"called", "absent", "flushed"}
  /\ Move(s, a, "gone")
  /\ UNCHANGED <<world, stage, attempt, table, data, llm, degraded, status, failure>>

\* create_snapshot replies with the row, built from the same context by whichever attempt;
\* without a valid route there is nothing to store (integrate_data).
Integrated(a) ==
  /\ Calling("snapshot") /\ attempt["snapshot"] = a
  /\ \/ /\ handler["snapshot"][a] = "refused"
        /\ Fail("INSUFFICIENT_EVIDENCE")
        /\ UNCHANGED <<snap, degraded>>
     \/ /\ handler["snapshot"][a] = "done"
        /\ \E row \in table["snapshot"] : snap' = {BuildSnapshot(query, Some(ctx), row)}
        /\ degraded' = degraded \cup Some(snap').quality.degraded
        /\ stage' = "evidence"
        /\ UNCHANGED <<status, failure>>
  /\ UNCHANGED <<world, stores, ctx, pkg, dec, rec, llm>>

-----------------------------------------------------------------------------
\* build_evidence.
Pack(created) ==
  /\ stage = "evidence"
  /\ IF Refused(Some(snap))
       THEN /\ Fail("INSUFFICIENT_EVIDENCE")
            /\ UNCHANGED <<pkg, degraded>>
       ELSE /\ pkg' = {EvidencePackage(Some(snap), model, index, 0, created)}
            /\ degraded' = degraded \cup Some(pkg').degraded
            /\ stage' = "decide"
            /\ UNCHANGED <<status, failure>>
  /\ UNCHANGED <<world, stores, ctx, snap, dec, rec, llm>>

\* The action that the policy gives the package (evaluate).
Locked == ChosenRule(DeriveFacts(Some(pkg))).action

\* make_decision: an inconsistent package is refused before anything is decided; the
\* action is locked before the language model is asked.
Decide(enabled) ==
  /\ stage = "decide"
  /\ IF ~CheckConsistency(query, Some(pkg))
       THEN /\ Fail("INCONSISTENT_PACKAGE")
            /\ UNCHANGED llm
       ELSE /\ llm' = [NoExplaining EXCEPT !.checked = {Fallback(Locked)},
                                           !.fallback = ~enabled,
                                           !.text = IF enabled THEN {} ELSE {Fallback(Locked)}]
            /\ stage' = "explain"
            /\ UNCHANGED <<status, failure>>
  /\ UNCHANGED <<world, stores, data, degraded>>

\* The agent still waits for the decision, and the language model for its text.
Explaining == stage = "explain" /\ llm.text = {} /\ llm.waited < READ_TIMEOUT

\* One attempt of explain fails at once or after its own timeout: the template is used.
LlmFails(wait) ==
  /\ Explaining
  /\ llm' = [llm EXCEPT !.tries = @ + 1, !.waited = @ + wait,
                        !.text = {Fallback(Locked)}, !.fallback = TRUE]
  /\ UNCHANGED <<world, stage, stores, data, degraded, status, failure>>

\* An answer that is valid is used; one that is not valid, or is no JSON at all, is tried
\* once more and then replaced by the template.
LlmAnswers(answer, wait) ==
  LET valid == \E x \in answer : ValidExplanation(x, Locked, {e.id : e \in Some(pkg).evidence})
      last  == llm.tries + 1 = 2
  IN /\ Explaining
     /\ wait < OPENAI_TIMEOUT
     /\ llm' = [tries    |-> llm.tries + 1,
                waited   |-> llm.waited + wait,
                checked  |-> IF answer = {} THEN {Fallback(Locked)} ELSE answer,
                text     |-> IF valid THEN answer ELSE IF last THEN {Fallback(Locked)} ELSE {},
                fallback |-> ~valid /\ last]
     /\ UNCHANGED <<world, stage, stores, data, degraded, status, failure>>

\* create_decision returns in time.
Decided ==
  /\ stage = "explain" /\ llm.text # {}
  /\ llm.waited < READ_TIMEOUT
  /\ dec' = {Decision(query, Some(pkg), Some(llm.text), llm.fallback, Some(llm.checked))}
  /\ degraded' = degraded \cup (IF llm.fallback THEN {"explanation"} ELSE {})
  /\ llm' = NoExplaining
  /\ stage' = "format"
  /\ UNCHANGED <<world, stores, ctx, snap, pkg, rec, status, failure>>

\* The agent's read timeout passes first; the call is not idempotent, so it is not repeated.
DecisionTimesOut ==
  /\ stage = "explain"
  /\ llm.waited >= READ_TIMEOUT
  /\ Fail("EXPLANATION_TIMEOUT")
  /\ UNCHANGED <<world, stores, data, llm, degraded>>

-----------------------------------------------------------------------------
\* format_recommendation: create_recommendation refuses, or replies with the row.
Formatted(a, directory) ==
  /\ Calling("recommendation") /\ attempt["recommendation"] = a
  /\ \/ /\ handler["recommendation"][a] = "refused"
        /\ Fail("BUILD_ERROR")
        /\ UNCHANGED rec
     \/ /\ handler["recommendation"][a] = "done"
        /\ rec' = {BuildResponse(Some(dec), Some(pkg),
                                 ResolveContacts(directory, query.country, query.area, 0))}
        /\ stage' = "answered"
        /\ status' = IF Some(rec').status = "PARTIAL" \/ degraded # {} THEN "PARTIAL"
                     ELSE "COMPLETED"
        /\ UNCHANGED failure
  /\ UNCHANGED <<world, stores, ctx, snap, pkg, dec, llm, degraded>>

-----------------------------------------------------------------------------
\* A request stops only with a response or an error: anything else is a deadlock.
Ended == stage \in {"answered", "failed"} /\ UNCHANGED vars

StoreStep(s, a) == FindExisting(s, a) \/ Insert(s, a) \/ Commit(s, a)

Next ==
  \/ \E outside \in Outside : Fetch(outside)
  \/ CallFails
  \/ \E s \in Stores : Send(s) \/ ConnectionBreaks(s) \/ DeadlinePasses(s)
  \/ \E s \in Stores, a \in Attempts : StoreStep(s, a) \/ HandlerDies(s, a)
  \/ \E a \in Attempts : Integrated(a)
  \/ \E created \in Created : Pack(created)
  \/ \E enabled \in LlmEnabled : Decide(enabled)
  \/ \E wait \in Waits : LlmFails(wait)
  \/ \E answer \in {{}} \cup {{x} : x \in Texts}, wait \in Waits : LlmAnswers(answer, wait)
  \/ Decided
  \/ DecisionTimesOut
  \/ \E a \in Attempts, directory \in Directories : Formatted(a, directory)
  \/ Ended

Spec == Init /\ [][Next]_vars

-----------------------------------------------------------------------------
\* The state is made of well-formed records of the contracts: what each service returns
\* is what the next one's schema accepts.
TypeOK ==
  /\ query \in Requests
  /\ stage \in Stages
  /\ attempt \in [Stores -> 0 .. 2]
  /\ handler \in [Stores -> [Attempts -> HandlerStates]]
  /\ table \in [Stores -> SUBSET Attempts]
  /\ \A c \in ctx  : c \in Contexts
  /\ \A b \in snap : b \in Snapshots
  /\ \A p \in pkg  : p \in Packages /\ DeriveFacts(p) \in Facts
  /\ \A d \in dec  : d \in Decisions
  /\ \A r \in rec  : r \in Recommendations

\* The routes the response tells the traveller to take.
Shown(r) == UNION {RouteOf(Some(pkg), id) : id \in r.primary}

\* The area of an event is on the route while the trip lasts.
Meets(route, e) == /\ Inside(route.path, BufferFor(query.modes), e)
                   /\ Overlaps(Some(snap).window, e)

\* Nobody is sent along a road that an authority closed for the time of the trip, whatever
\* was merged, ranked, chosen and explained since the closure was reported (exposure, policy
\* rules 20 and 30, _primary_and_alternatives).
NeverOnClosedRoute ==
  \A r \in rec : \A route \in Shown(r) : \A e \in Range(Some(ctx).events) :
    e.closure => ~Meets(route, e)

\* No other report is taken for this one: it is valid, its id and its content are its own, and
\* it shares no cluster, whichever of the two comes first (deduplicate).
StandsAlone(e, events) ==
  /\ ValidEvent(e)
  /\ \A f \in events \ {e} : /\ f.id # e.id /\ f.content # e.content
                             /\ ~Joins(<<e>>, f) /\ ~Joins(<<f>>, e)

\* What NeverOnClosedRoute asks of the outside world: a closure that is merged with another
\* report keeps its flag, but not its place.
ClosuresStandAlone ==
  \A setup \in Setups, outside \in Outside :
    LET events == Range(ContextOf(setup.query, outside.answers, outside.closures).events)
    IN \A e \in events : e.closure => StandsAlone(e, events)

\* A severe official warning on the shown route that the snapshot has kept is never
\* answered with NORMAL (overrides.yaml, assess_route, the decision table).
OfficialAlertNeverNormal ==
  \A r \in rec : r.action = "NORMAL" =>
    \A route \in Shown(r) : \A e \in Some(snap).alerts :
      e.severity >= SEVERE => ~Meets(route, e)

\* Nobody is told that a risk is low whose rain or wind is not known on the way, neither
\* when the weather provider fails nor when it leaves a field out; half of the places where
\* the route should have a forecast have one near, which may lie between two of them
\* (match_weather, assess_route).
UnknownWeatherIsNeverLow ==
  \A r \in rec : r.level = "LOW" =>
    /\ \E w \in Range(Some(ctx).weather) : w.precip # {}
    /\ \E w \in Range(Some(ctx).weather) : w.gust # {}
    /\ 4 * Cardinality({w.at : w \in Range(Some(ctx).weather)})
         >= ExpectedSamples(Some(snap).routes[1].path)

\* A provider that failed, the missing model, index and explanation are named in the
\* response, and neither it nor the run is called complete (degraded_services).
FailuresAreVisible ==
  \A r \in rec :
    LET failed == Some(ctx).degraded
                  \cup (IF model = {} THEN {"risk model"} ELSE {})
                  \cup (IF index.ready THEN {} ELSE {"knowledge collection"})
                  \cup (IF Some(dec).validation.fallback THEN {"explanation"} ELSE {})
    IN /\ failed \subseteq r.degraded
       /\ failed # {} => r.status = "PARTIAL" /\ status = "PARTIAL"

\* What the traveller reads names the action that the policy locked, whatever the language
\* model wrote at its first or second attempt (validate_explanation, the final assert).
ExplanationIsLocked == \A r \in rec : r.says = r.action /\ r.action = Locked

\* However calls and handlers of one request overlap, each store commits one row, and the
\* agent goes on with the row that is stored (persist, save_recommendation).
StoredOnce ==
  /\ \A s \in Stores : Cardinality(table[s]) <= 1
  /\ \A b \in snap : b.id \in table["snapshot"]
  /\ rec # {} => table["recommendation"] # {}

\* No service refuses what the one before it made: a decision always fits its package, and a
\* package is inconsistent only when a passage expired between its retrieval and the
\* package's own time (check_consistency, _validate of the response builder).
StagesAgree ==
  /\ failure # "BUILD_ERROR"
  /\ failure = "INCONSISTENT_PACKAGE" => \E p \in pkg : ~InForce(p)

\* docs/handoffs/M06-risk-knowledge.md:25 says that the overrides raise an official SEVERE
\* or EXTREME warning to HIGH: one on the shown route is never answered with NORMAL.
WarningIsHeeded ==
  \A r \in rec : r.action = "NORMAL" =>
    \A route \in Shown(r) : \A e \in Range(Some(ctx).events) :
      e.official /\ e.severity >= SEVERE => ~Meets(route, e)
=============================================================================
