------------------------------- MODULE Policy -------------------------------
(***************************************************************************)
(* Decision-engine: consistency of a package, facts, the first matching    *)
(* rule of the decision table, confidence and escalation, the explanation  *)
(* and what is checked of it (services/decision-engine).                   *)
(***************************************************************************)
EXTENDS Contracts

SAFER_DELTA           == 15
EXTRA_RATIO           == 50
MIN_CONFIDENCE_NORMAL == 55
NEAR_UNCERTAINTY      == 60

Ids(routes) == {routes[i].id : i \in DOMAIN routes}

\* Nothing that the package cites had expired when it was made.
InForce(pkg) == \A e \in pkg.evidence : \A t \in e.expires : t > pkg.created

\* check_consistency: the package is this request's, on one snapshot, with a risk for
\* every route, and cites nothing expired.  A request has one trip revision and the services
\* one feature schema here, so that the checks of these agree by construction.
CheckConsistency(q, pkg) ==
  /\ pkg.request = q.id
  /\ pkg.routes # <<>>
  /\ \A a \in pkg.assessments : a.snapshot = pkg.snapshot
  /\ {a.route : a \in pkg.assessments} = Ids(pkg.routes)
  /\ InForce(pkg)

-----------------------------------------------------------------------------
\* Facts.

\* What the rules are asked about.
Facts == [gate : Gates, closed : BOOLEAN, alternative : BOOLEAN, conflicts : BOOLEAN,
          level : RiskLevels, safer : BOOLEAN, timeDependent : BOOLEAN,
          later : Optional(RiskLevels), uncertainty : Percent, quality : Percent,
          coverage : Percent, primary : STRING, best : Optional(STRING), bestScore : Percent]

\* _primary: the first original route of the ranking, else its first route.
PrimaryIndex(routes) ==
  LET originals == {i \in DOMAIN routes : routes[i].label = "ORIGINAL"}
  IN IF originals = {} THEN 1 ELSE CHOOSE i \in originals : \A j \in originals : i <= j

\* Mutant: a closed route is an alternative like any other.
AnyOption(routes, p) ==
  {i \in DOMAIN routes :
     /\ routes[i].id # routes[p].id
     /\ 100 * routes[i].minutes <= (100 + EXTRA_RATIO) * Larger(routes[p].minutes, 1)}

\* The alternatives to the primary route: usable and not too slow.
Options(routes, p) ==
  {i \in DOMAIN routes :
     /\ routes[i].usable /\ routes[i].id # routes[p].id
     /\ 100 * routes[i].minutes <= (100 + EXTRA_RATIO) * Larger(routes[p].minutes, 1)}

\* derive_facts: the best alternative is the one of least risk; whether it is safer is
\* asked of it alone.
DeriveFacts(pkg) ==
  LET routes  == pkg.routes
      p       == PrimaryIndex(routes)
      Of(i)   == CHOOSE a \in pkg.assessments : a.route = routes[i].id
      options == Options(routes, p)
      Before(i, j) == \/ Of(i).score < Of(j).score
                      \/ Of(i).score = Of(j).score /\ routes[i].minutes < routes[j].minutes
                      \/ Of(i).score = Of(j).score /\ routes[i].minutes = routes[j].minutes /\ i <= j
      best    == {i \in options : \A j \in options : Before(i, j)}
  IN [gate          |-> pkg.quality.gate,
      closed        |-> routes[p].exposure.closed \/ ~routes[p].usable,
      alternative   |-> best # {},
      conflicts     |-> pkg.conflicts > 0,
      level         |-> Of(p).level,
      safer         |-> \E i \in best : /\ Of(p).score - Of(i).score >= SAFER_DELTA
                                        /\ RISK_RANK[Of(i).level] <= RISK_RANK[Of(p).level]
                                        /\ Of(i).level # "HIGH",
      timeDependent |-> Of(p).timeDependent /\ Of(p).later # {},
      later         |-> Of(p).later,
      uncertainty   |-> Of(p).uncertainty,
      quality       |-> pkg.quality.overall.score,
      coverage      |-> pkg.quality.weather.coverage,
      primary       |-> routes[p].id,
      best          |-> {routes[i].id : i \in best},
      bestScore     |-> Largest({Of(i).score : i \in best}, 0)]

-----------------------------------------------------------------------------
\* The decision table (policies/v1/decision-table.yaml), in the order of priority.

\* A condition names the values it accepts; Always accepts every value.
Always == [gate |-> Gates, closed |-> BOOLEAN, alternative |-> BOOLEAN,
           conflicts |-> BOOLEAN, level |-> RiskLevels, safer |-> BOOLEAN,
           timeDependent |-> BOOLEAN, below |-> 4]

Rule(id, when, action, best, escalate, specificity) ==
  [id |-> id, when |-> when, action |-> action, best |-> best, escalate |-> escalate,
   specificity |-> specificity]

HighWith   == [Always EXCEPT !.level = {"HIGH"}]
MediumWith == [Always EXCEPT !.level = {"MEDIUM"}]

RULES ==
  << Rule("BLOCKED_QUALITY_GATE", [Always EXCEPT !.gate = {"BLOCK"}], "AVOID", FALSE, TRUE, 90),
     Rule("OFFICIAL_CLOSURE_NO_ALTERNATIVE",
          [Always EXCEPT !.closed = {TRUE}, !.alternative = {FALSE}], "AVOID", FALSE, FALSE, 100),
     Rule("OFFICIAL_CLOSURE_WITH_ALTERNATIVE",
          [Always EXCEPT !.closed = {TRUE}, !.alternative = {TRUE}], "CHANGE_ROUTE", TRUE, FALSE, 100),
     Rule("CONFLICTING_OFFICIAL_SOURCES_HIGH",
          [HighWith EXCEPT !.conflicts = {TRUE}], "AVOID", FALSE, TRUE, 80),
     Rule("HIGH_WITH_SAFER_ROUTE",
          [HighWith EXCEPT !.safer = {TRUE}], "CHANGE_ROUTE", TRUE, FALSE, 90),
     Rule("HIGH_TIME_DEPENDENT",
          [HighWith EXCEPT !.timeDependent = {TRUE}, !.below = 3], "DELAY", FALSE, FALSE, 85),
     Rule("HIGH_NO_OPTION", HighWith, "AVOID", FALSE, FALSE, 80),
     Rule("MEDIUM_WITH_SAFER_ROUTE",
          [MediumWith EXCEPT !.safer = {TRUE}], "CHANGE_ROUTE", TRUE, FALSE, 80),
     Rule("MEDIUM_TIME_DEPENDENT",
          [MediumWith EXCEPT !.timeDependent = {TRUE}, !.below = 2], "DELAY", FALSE, FALSE, 75),
     Rule("UNKNOWN_EVIDENCE", [Always EXCEPT !.level = {"UNKNOWN"}], "DELAY", FALSE, TRUE, 70),
     Rule("MEDIUM_PROCEED_WITH_CAUTION", MediumWith, "NORMAL", FALSE, FALSE, 60),
     Rule("LOW_NORMAL",
          [Always EXCEPT !.level = {"LOW"}, !.gate = {"PASS", "DEGRADED"}], "NORMAL", FALSE, FALSE, 70),
     Rule("FALLBACK_CONSERVATIVE", Always, "DELAY", FALSE, TRUE, 30) >>

\* _matches: a bound on the later level needs a later level.
Matches(rule, f) ==
  /\ f.gate \in rule.when.gate
  /\ f.closed \in rule.when.closed
  /\ f.alternative \in rule.when.alternative
  /\ f.conflicts \in rule.when.conflicts
  /\ f.level \in rule.when.level
  /\ f.safer \in rule.when.safer
  /\ f.timeDependent \in rule.when.timeDependent
  /\ rule.when.below < 4 => \E l \in f.later : RISK_RANK[l] < rule.when.below

\* The first match; the last rule matches everything.
ChosenRule(f) ==
  RULES[CHOOSE i \in 1 .. 13 : /\ Matches(RULES[i], f)
                               /\ \A j \in 1 .. 13 : j < i => ~Matches(RULES[j], f)]

-----------------------------------------------------------------------------
\* The evaluation.

\* confidence_score.
Confidence(f, rule) ==
  LET alt == IF rule.action = "CHANGE_ROUTE" /\ f.best # {} THEN 100 - f.bestScore ELSE 100
      c   == (35 * (100 - f.uncertainty) + 25 * f.quality + 15 * f.coverage
              + 15 * rule.specificity + 10 * alt) \div 100
             - (IF f.conflicts THEN 15 ELSE 0) - (IF f.gate = "DEGRADED" THEN 5 ELSE 0)
  IN Larger(5, Smaller(99, c))

Selected(f, rule) ==
  IF rule.action = "AVOID" /\ f.closed THEN {}
  ELSE IF rule.best THEN f.best ELSE {f.primary}

Escalations(f, rule) ==
  (IF rule.escalate THEN {"RULE"} ELSE {})
  \cup (IF f.conflicts THEN {"SAFETY_CRITICAL_CONFLICT"} ELSE {})
  \cup (IF f.uncertainty >= NEAR_UNCERTAINTY /\ f.level \in {"MEDIUM", "HIGH"}
          THEN {"NEAR_THRESHOLD"} ELSE {})
  \cup (IF rule.action = "NORMAL" /\ Confidence(f, rule) < MIN_CONFIDENCE_NORMAL
          THEN {"LOW_CONFIDENCE_NORMAL"} ELSE {})
  \cup (IF f.coverage < 50 THEN {"LOW_COVERAGE"} ELSE {})

\* The headline of decide: the primary's level, whatever route is selected.
Headline(f, rule) ==
  IF rule.action = "AVOID" /\ f.level = "LOW" /\ f.closed THEN "HIGH" ELSE f.level

-----------------------------------------------------------------------------
\* The explanation.

\* What the language model's text says, as far as it is checked: the action it names, the
\* ids it cites, and whether its numbers come from the facts, its words are allowed and
\* its summary has a proper length.
Explanations == [action : Actions, cites : SUBSET STRING, numbers : BOOLEAN,
                 allowed : BOOLEAN, length : BOOLEAN]

\* Mutant: the action of the text is not compared with the locked one.
AnyAction(x, locked, citable) ==
  /\ x.cites \subseteq citable
  /\ x.numbers
  /\ x.allowed
  /\ x.length

\* validate_explanation.
ValidExplanation(x, locked, citable) ==
  /\ x.action = locked
  /\ x.cites \subseteq citable
  /\ x.numbers
  /\ x.allowed
  /\ x.length

\* fallback_explanation: a template of the locked action, without citations.
Fallback(locked) == [action |-> locked, cites |-> {}, numbers |-> TRUE, allowed |-> TRUE,
                     length |-> TRUE]

\* decide, with the explanation it ends up with; validation keeps what the last attempt of
\* the language model was found to be, whether its text was used or not.
Decision(q, pkg, explanation, fallback, checked) ==
  LET f    == DeriveFacts(pkg)
      rule == ChosenRule(f)
      why  == Escalations(f, rule)
      limits == pkg.limitations \cup (IF why # {} THEN {"ESCALATION_REQUIRED"} ELSE {})
  IN [request     |-> q.id,
      snapshot    |-> pkg.snapshot,
      action      |-> rule.action,
      level       |-> Headline(f, rule),
      confidence  |-> Confidence(f, rule),
      selected    |-> Selected(f, rule),
      rule        |-> rule.id,
      escalations |-> why,
      says        |-> explanation.action,
      citations   |-> {e.id : e \in pkg.evidence} \cap explanation.cites,
      limitations |-> limits,
      validation  |-> [citations |-> checked.cites \subseteq {e.id : e \in pkg.evidence},
                       numbers |-> checked.numbers, banned |-> checked.allowed,
                       lockedAction |-> TRUE, fallback |-> fallback]]
=============================================================================
