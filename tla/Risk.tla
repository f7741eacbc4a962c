-------------------------------- MODULE Risk --------------------------------
(***************************************************************************)
(* Risk-knowledge: the risk of each route, their ranking, the passages of  *)
(* guidance, and the package of all three (services/risk-knowledge).  The  *)
(* trained model is external: an artifact whose probability is a function  *)
(* of the route.                                                           *)
(***************************************************************************)
EXTENDS Contracts, SequencesExt

\* max_level, of any number of levels.
Strictest(levels) == CHOOSE l \in levels : \A k \in levels : RISK_RANK[k] <= RISK_RANK[l]

\* load_active_model: an optional artifact is served if it is approved, made for the
\* same features and unaltered.
LoadActiveModel(artifact, schema) ==
  {a \in artifact : a.stage = "ACTIVE" /\ a.schema = schema /\ a.checksum = a.content}

-----------------------------------------------------------------------------
\* Thresholds and overrides (config/thresholds.yaml, config/overrides.yaml).

HIGH_FROM              == 55
MEDIUM_FROM            == 25
BAND                   == 10
DELAY_IMPROVEMENT      == 15
WEATHER_COVERAGE_BELOW == 50

Level(p) == IF p >= HIGH_FROM THEN "HIGH" ELSE IF p >= MEDIUM_FROM THEN "MEDIUM" ELSE "LOW"
NearThreshold(p) == Gap(p, HIGH_FROM) < BAND \/ Gap(p, MEDIUM_FROM) < BAND

\* Mutant: the rule for severe official warnings is missing.
OverridesWithoutAlert(f, alerts) ==
  (IF f.closures >= 1 \/ \E w \in f.weather : w >= 5 THEN {"HIGH"} ELSE {})
  \cup (IF MODERATE \in alerts \/ f.delayed >= 1 THEN {"MEDIUM"} ELSE {})

\* The minimum levels of the override rules that fire; alerts are the severities of the
\* official alerts on the route, of which the worst counts.  A feature without a value
\* fires nothing.
Overrides(f, alerts) ==
  LET high   == \/ f.closures >= 1
                \/ \E s \in alerts : s >= SEVERE
                \/ \E w \in f.weather : w >= 5
                \/ \E m \in f.magnitude : m >= 60
      medium == \/ MODERATE \in alerts /\ \A s \in alerts : s <= MODERATE
                \/ f.weather = {SEVERE}
                \/ \E m \in f.magnitude : m >= 50
                \/ f.delayed >= 1
  IN (IF high THEN {"HIGH"} ELSE {}) \cup (IF medium THEN {"MEDIUM"} ELSE {})

\* Mutant: the sum is not cut at 1.
RuleBaselineUncut(f) ==
  LET rain  == Largest({Smaller(50, (100 * p) \div 60) : p \in f.precip}, 0)
      wind  == Largest({Smaller(40, Larger(0, (100 * (g - 40)) \div 120)) : g \in f.gust}, 0)
      storm == IF \E w \in f.weather : w >= SEVERE THEN 25 ELSE 0
  IN 5 + rain + wind + storm + (IF f.alerts >= 1 THEN 30 ELSE 0)

\* rule_baseline_probability: a closure sets the sum, the later terms still add to it.
RuleBaseline(f) ==
  LET rain  == Largest({Smaller(50, (100 * p) \div 60) : p \in f.precip}, 0)
      wind  == Largest({Smaller(40, Larger(0, (100 * (g - 40)) \div 120)) : g \in f.gust}, 0)
      storm == IF \E w \in f.weather : w >= SEVERE THEN 25 ELSE 0
      alert == IF f.alerts >= 1 THEN 30 ELSE 0
      quake == Largest({Larger(0, (5 * (m - 45)) \div 2) : m \in f.magnitude}, 0)
      late  == IF f.delayed >= 1 THEN 10 ELSE 0
      base  == IF f.closures >= 1 THEN 100 ELSE 5 + rain + wind + storm + alert
  IN Smaller(100, base + quake + late)

-----------------------------------------------------------------------------
\* Assessment of one route.

AlertsOn(snap, route) == {e \in snap.alerts : e.id \in route.exposure.events}

\* _official_alert_rank, of all of them.
OfficialAlertRanks(snap, route) == {e.severity : e \in AlertsOn(snap, route)}

\* The features are the primary route's; the route's own exposure takes the place of
\* those that come from events, and of the severe minutes.
RouteFeatures(snap, route) ==
  [snap.features EXCEPT !.closures      = IF route.exposure.closed THEN 1 ELSE 0,
                        !.events        = Cardinality(route.exposure.events),
                        !.alerts        = Cardinality(AlertsOn(snap, route)),
                        !.severeMinutes = route.exposure.severeMinutes]

Probability(model, f, route) ==
  IF model = {} THEN RuleBaseline(f) ELSE (CHOOSE m \in model : TRUE).probability[route.id]

\* The probability is raised to the threshold of a level that an override enforced.
Floored(p, fired) ==
  LET level == Strictest({Level(p)} \cup fired)
      floor == CASE level = "HIGH"   -> HIGH_FROM
                 [] level = "MEDIUM" -> MEDIUM_FROM
                 [] OTHER            -> 0
  IN IF fired = {} THEN p ELSE Larger(p, floor)

\* Mutant: only the coverage is asked, not the fields.
LowCoverage(f) == f.coverage < WEATHER_COVERAGE_BELOW

\* Without critical evidence a route is not LOW.
Insufficient(f) == f.coverage < WEATHER_COVERAGE_BELOW \/ f.missing >= 1

\* The features at the delayed probe with the route's closures, when the snapshot has any
\* and the route is open.  No snapshot has: the builder never fills features_delayed.
AtProbe(route, f, delayed) ==
  {[d EXCEPT !.closures = f.closures] : d \in IF route.exposure.closed THEN {} ELSE delayed}

\* The risk there, by the same model, thresholds and overrides.
LaterLevels(route, alerts, f, model, delayed) ==
  {Strictest({Level(Probability(model, d, route))} \cup Overrides(d, alerts)) :
     d \in AtProbe(route, f, delayed)}

\* The risk p, of this level, is lower at the probe, and by enough.
Improves(route, f, model, delayed, p, level, later) ==
  \E l \in later, d \in AtProbe(route, f, delayed) :
    /\ p - Probability(model, d, route) >= DELAY_IMPROVEMENT
    /\ RISK_RANK[l] < RISK_RANK[level]

\* assess_route: probability, thresholds, overrides, floor, evidence, time dependence and
\* uncertainty, in this order.  delayed is the optional features_delayed.
AssessRoute(snap, route, model, delayed) ==
  LET f        == RouteFeatures(snap, route)
      alerts   == OfficialAlertRanks(snap, route)
      raw      == Probability(model, f, route)
      fired    == Overrides(f, alerts)
      p        == Floored(raw, fired)
      enforced == Strictest({Level(raw)} \cup fired)
      level    == IF enforced = "LOW" /\ Insufficient(f) THEN "UNKNOWN" ELSE enforced
      later    == LaterLevels(route, alerts, f, model, delayed)
      improves == Improves(route, f, model, delayed, p, level, later)
      doubt    == 100 - Gap(2 * p, 100)
  IN [snapshot      |-> snap.id,
      route         |-> route.id,
      score         |-> p,
      level         |-> level,
      uncertainty   |-> IF NearThreshold(p) THEN Larger(doubt, 60) ELSE doubt,
      reasons       |-> (IF model = {} THEN {"MODEL_UNAVAILABLE"} ELSE {})
                        \cup (IF Insufficient(f) THEN {"LOW_DATA_COVERAGE"} ELSE {})
                        \cup (IF snap.conflicts > 0 THEN {"CONFLICTING_SOURCES"} ELSE {})
                        \cup (IF improves THEN {"RISK_DECREASES_LATER"} ELSE {}),
      timeDependent |-> improves,
      later         |-> later]

AssessAll(snap, model) ==
  {AssessRoute(snap, snap.routes[i], model, {}) : i \in DOMAIN snap.routes}

-----------------------------------------------------------------------------
\* Ranking.

W_RISK            == 70
W_TIME            == 20
W_EXPOSURE        == 10
PREFER_SAFER      == 10
TOO_LATE          == 2500
MATERIALLY_SAFER  == 15
MAX_EXTRA         == 50
MAX_EXTRA_MINUTES == 90

Extra(route, base) == Larger(0, (100 * route.minutes) \div Larger(base, 1) - 100)

\* _cost, in hundredths of a percent, with the default preferences.
Cost(route, a, fastest) ==
  (W_RISK + PREFER_SAFER) * a.score + W_TIME * Extra(route, fastest)
  + W_EXPOSURE * route.exposure.score
  + (IF route.minutes - fastest > MAX_EXTRA_MINUTES THEN TOO_LATE ELSE 0)

\* The label of a route that is not the original: the first it was given.
FirstLabel(labels) ==
  IF "RECOMMENDED" \in labels THEN "RECOMMENDED"
  ELSE IF "FASTEST" \in labels THEN "FASTEST"
  ELSE IF "LOWEST_RISK" \in labels THEN "LOWEST_RISK" ELSE "ALTERNATIVE"

\* The alternative saves enough risk for the time it costs.
SaferThan(original, o, route, a) ==
  /\ o.score - a.score >= MATERIALLY_SAFER
  /\ RISK_RANK[a.level] <= RISK_RANK[o.level]
  /\ 100 * route.minutes <= (100 + MAX_EXTRA) * Larger(original.minutes, 1)

\* rank_routes: usable is whether the route is closed, whatever it was before; the usable
\* routes are ranked by cost, risk and time (ties by an arbitrary id: here by place), the
\* closed ones follow.
RankRoutes(routes, assessments) ==
  LET Of(r)    == CHOOSE a \in assessments : a.route = r.id
      marked   == [i \in DOMAIN routes |->
                     [routes[i] EXCEPT !.usable = ~routes[i].exposure.closed,
                                       !.labels = IF routes[i].label = "ORIGINAL" THEN {"ORIGINAL"} ELSE {}]]
      usable   == {i \in DOMAIN marked : marked[i].usable}
      fastest  == CHOOSE m \in {marked[i].minutes : i \in usable} :
                    \A i \in usable : m <= marked[i].minutes
      byCost    == [i \in usable |-> <<Cost(marked[i], Of(marked[i]), fastest),
                                       RISK_RANK[Of(marked[i]).level], marked[i].minutes, i>>]
      byTime    == [i \in usable |-> <<marked[i].minutes, i>>]
      byRisk    == [i \in usable |-> <<Of(marked[i]).score, marked[i].minutes, i>>]
      First(key) == CHOOSE i \in usable : \A j \in usable \ {i} : Precedes(key[i], key[j])
      rank(i)   == IF i \in usable
                     THEN 1 + Cardinality({j \in usable : Precedes(byCost[j], byCost[i])})
                     ELSE IF usable = {} THEN i ELSE Cardinality(usable) + 1
      given(i)  == (IF i = First(byCost) THEN {"RECOMMENDED"} ELSE {})
                   \cup (IF i = First(byTime) THEN {"FASTEST"} ELSE {})
                   \cup (IF i = First(byRisk) THEN {"LOWEST_RISK"} ELSE {})
      Ranked(i) == IF i \notin usable THEN [marked[i] EXCEPT !.rank = rank(i)]
                   ELSE [marked[i] EXCEPT !.rank = rank(i), !.labels = @ \cup given(i),
                           !.label = IF @ = "ORIGINAL" THEN @ ELSE FirstLabel(given(i))]
      order     == Sorted([i \in DOMAIN marked |-> <<rank(i), i>>])
      originals == {i \in DOMAIN marked : marked[i].label = "ORIGINAL"}
      o         == CHOOSE i \in originals : \A j \in originals : i <= j
  IN [routes      |-> [k \in DOMAIN order |-> Ranked(order[k])],
      recommended |-> IF usable = {} THEN {} ELSE {marked[First(byCost)].id},
      safer       |-> /\ originals # {} /\ usable # {}
                      /\ \/ o \notin usable
                         \/ \E i \in usable \ {o} :
                              SaferThan(marked[o], Of(marked[o]), marked[i], Of(marked[i]))]

-----------------------------------------------------------------------------
\* Guidance.

\* hazards_in_scope: of the events on any route, and of severe weather.
HazardsInScope(snap) ==
  LET ids    == UNION {snap.routes[i].exposure.events : i \in DOMAIN snap.routes}
      severe == \E i \in DOMAIN snap.weather : snap.weather[i].severity >= MODERATE
  IN {e.type : e \in {snap.events[i] : i \in {j \in DOMAIN snap.events : snap.events[j].id \in ids}}}
     \cup (IF severe THEN {"STORM"} ELSE {})
     \cup (IF severe /\ \E p \in snap.features.precip : p >= 10 THEN {"FLOOD"} ELSE {})
     \cup (IF severe /\ \E g \in snap.features.gust : g >= 89 THEN {"CYCLONE"} ELSE {})

\* A passage of the index, with what the query found of it: close in meaning, or of its words.
Passages == [id : STRING, document : STRING, hazards : SUBSET HazardTypes, effective : Times,
             expires : Times, close : BOOLEAN, lexical : BOOLEAN]

\* KnowledgeIndex.retrieve at a time: passages in the order of their fused ranks
\* (external), in force, of a wanted hazard, close to the query or sharing words with it;
\* at most two of one document.  Geography and language are not told apart.
Retrieve(passages, hazards, topK, now) ==
  LET Fits(p) == /\ p.expires > now
                 /\ p.effective <= now
                 /\ hazards = {} \/ p.hazards \cap hazards # {}
                 /\ p.close \/ p.lexical
      Take(taken, p) == IF Len(taken) < topK
                           /\ Cardinality({i \in DOMAIN taken : taken[i].document = p.document}) < 2
                          THEN Append(taken, p) ELSE taken
  IN FoldLeft(Take, <<>>, Kept(passages, {i \in DOMAIN passages : Fits(passages[i])}))

\* evidence_package: an unusable snapshot is refused, unless no route is usable anyway.
\* index has the passages of its collection, and is ready or not indexed; the package is
\* created some time after the passages were retrieved.
Refused(snap) == snap.quality.gate = "BLOCK" /\ \E i \in DOMAIN snap.routes : snap.routes[i].usable

EvidencePackage(snap, model, index, retrieved, created) ==
  LET assessments == AssessAll(snap, model)
      ranked      == RankRoutes(snap.routes, assessments)
      found       == IF index.ready THEN Retrieve(index.passages, HazardsInScope(snap), 5, retrieved)
                     ELSE <<>>
  IN [request     |-> snap.request,
      snapshot    |-> snap.id,
      assessments |-> assessments,
      routes      |-> ranked.routes,
      evidence    |-> {[id |-> p.id, expires |-> {p.expires}] : p \in Range(found)},
      quality     |-> snap.quality,
      conflicts   |-> snap.conflicts,
      alerts      |-> snap.alerts,
      created     |-> created,
      limitations |-> (IF model = {} THEN {"MODEL_UNAVAILABLE"} ELSE {})
                      \cup (IF found = <<>> THEN {"NO_RELIABLE_KNOWLEDGE_EVIDENCE"} ELSE {})
                      \cup (IF snap.quality.gate = "DEGRADED" THEN snap.quality.reasons ELSE {})
                      \cup (IF ranked.recommended = {} THEN {"NO_SAFER_ROUTE"} ELSE {}),
      degraded    |-> snap.quality.degraded
                      \cup (IF model = {} THEN {"risk model"} ELSE {})
                      \cup (IF index.ready THEN {} ELSE {"knowledge collection"})]
=============================================================================
