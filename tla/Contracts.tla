------------------------------ MODULE Contracts ------------------------------
(***************************************************************************)
(* The records the services exchange (packages/contracts/sta_contracts),   *)
(* with the fields that the pipeline's control depends on.                 *)
(*                                                                         *)
(* Conventions of the pipeline modules.  A unit interval is a number of    *)
(* percent; a severity and an authority are their ranks; times and         *)
(* durations are minutes (0 is the time of the query, so that every        *)
(* fetched_at is 0); a position is a pair of kilometres; free text is a    *)
(* member of a small set.                                                  *)
(***************************************************************************)
EXTENDS Integers, Sequences, FiniteSets

Percent == 0 .. 100

\* An optional value: a set with at most one element.
Optional(S) == {o \in SUBSET S : \A x, y \in o : x = y}

\* SEVERITY_RANK: UNKNOWN, INFO, MINOR, MODERATE, SEVERE, EXTREME.
Severities == 0 .. 5
MODERATE == 3
SEVERE   == 4

\* AUTHORITY_RANK: UNKNOWN, COMMUNITY, LICENSED_PROVIDER, INTERGOVERNMENTAL, OFFICIAL.
Authorities == 0 .. 4
INTERGOVERNMENTAL == 3
OFFICIAL          == 4

RiskLevels == {"UNKNOWN", "LOW", "MEDIUM", "HIGH"}
RISK_RANK  == [UNKNOWN |-> 0, LOW |-> 1, MEDIUM |-> 2, HIGH |-> 3]
Actions    == {"NORMAL", "CHANGE_ROUTE", "DELAY", "AVOID"}
Gates      == {"PASS", "DEGRADED", "BLOCK"}
Modes      == {"FLIGHT", "TRAIN", "BUS", "CAR", "WALK", "BICYCLE", "MULTIMODAL"}
Statuses   == {"FRESH", "STALE", "UNAVAILABLE", "CONFLICTING", "PARTIAL"}
Flags      == {"MISSING", "STALE", "CONFLICTING", "INFERRED", "INCOMPLETE",
               "OUTSIDE_COVERAGE"}
HazardTypes == {"EARTHQUAKE", "CYCLONE", "STORM", "FLOOD", "WILDFIRE", "VOLCANO",
                "LANDSLIDE", "EXTREME_TEMPERATURE", "HEALTH", "TRANSPORT_CLOSURE",
                "OTHER"}
ServiceStatuses == {"ON_TIME", "DELAYED", "DISRUPTED", "CANCELLED", "UNKNOWN"}

\* What can be missing from an answer: providers, and what the later services load.
Services == {"openrouteservice", "route provider", "open_meteo", "usgs", "gdacs", "eonet",
             "gtfs_rt", "amadeus", "risk model", "knowledge collection", "explanation"}

\* The words for why a gate is not PASS, a risk is as it is, a package, a decision and the
\* directory are limited, and a person should look at a decision.
GateReasons == {"NO_USABLE_ROUTE", "NO_WEATHER_AND_NO_DISASTER_EVIDENCE",
                "SCORE_BELOW_BLOCK_THRESHOLD", "SCORE_BELOW_DEGRADED_THRESHOLD",
                "WEATHER_COVERAGE_LOW", "SAFETY_CRITICAL_CONFLICTS", "ROUTE_GEOMETRY_INFERRED",
                "STALE_OFFICIAL_ALERTS"}
RiskReasons == {"MODEL_UNAVAILABLE", "LOW_DATA_COVERAGE", "CONFLICTING_SOURCES",
                "RISK_DECREASES_LATER"}
PackageLimits   == GateReasons \cup {"MODEL_UNAVAILABLE", "NO_RELIABLE_KNOWLEDGE_EVIDENCE",
                                     "NO_SAFER_ROUTE"}
DecisionLimits  == PackageLimits \cup {"ESCALATION_REQUIRED"}
DirectoryLimits == {"EMERGENCY_DIRECTORY_UNAVAILABLE", "REVIEW_OVERDUE",
                    "PENDING_VERIFICATION", "EXPIRED", "RETIRED"}
EscalationReasons == {"RULE", "SAFETY_CRITICAL_CONFLICT", "NEAR_THRESHOLD",
                      "LOW_CONFIDENCE_NORMAL", "LOW_COVERAGE"}

\* The rules of the decision table.
RuleIds == {"BLOCKED_QUALITY_GATE", "OFFICIAL_CLOSURE_NO_ALTERNATIVE",
            "OFFICIAL_CLOSURE_WITH_ALTERNATIVE", "CONFLICTING_OFFICIAL_SOURCES_HIGH",
            "HIGH_WITH_SAFER_ROUTE", "HIGH_TIME_DEPENDENT", "HIGH_NO_OPTION",
            "MEDIUM_WITH_SAFER_ROUTE", "MEDIUM_TIME_DEPENDENT", "UNKNOWN_EVIDENCE",
            "MEDIUM_PROCEED_WITH_CAUTION", "LOW_NORMAL", "FALLBACK_CONSERVATIVE"}

Positions == Int \X Int
Paths     == Seq(Positions)
Times     == Int

\* DataQuality; age is freshness_seconds in minutes.
Qualities == [status : Statuses, score : Percent, flags : SUBSET Flags,
              coverage : Percent, completeness : Percent, age : Optional(Nat)]

\* WeatherForecastPoint.
WeatherPoints == [at : Positions, valid : Times, severity : Severities,
                  precip : Optional(Nat), gust : Optional(Nat), probe : {"PLANNED", "DELAYED"},
                  quality : Qualities]

\* TransportStatus.
TransportStatuses == [mode : Modes, status : ServiceStatuses, quality : Qualities]

\* DisasterEvent; content stands for the content hash of its source.
Events == [id : STRING, provider : STRING, content : STRING, type : HazardTypes,
           severity : Severities, magnitude : Optional(Nat), at : Positions,
           start : Optional(Times), ends : Optional(Times), updated : Optional(Times),
           official : BOOLEAN, closure : BOOLEAN, authority : Authorities,
           quality : Qualities]

\* RouteExposure.
Exposures == [score : Percent, events : SUBSET STRING, closed : BOOLEAN,
              severeMinutes : Nat, severity : Severities]

\* RouteCandidate; risk_level, risk_score and rank are set by the ranking.
Routes == [id : STRING, label : {"ORIGINAL", "ALTERNATIVE", "RECOMMENDED", "FASTEST",
                                 "LOWEST_RISK"},
           labels : SUBSET {"ORIGINAL", "RECOMMENDED", "FASTEST", "LOWEST_RISK"},
           mode : Modes, path : Paths, minutes : Nat, exposure : Exposures,
           usable : BOOLEAN, rank : Nat, quality : Qualities]

\* TravelRequest: pydantic refuses a return before the departure.
Requests == {r \in [id : STRING, origin : Positions, destination : Positions,
                    country : STRING, area : Optional(STRING), modes : Seq(Modes),
                    departure : Times, return : Optional(Times), avoid : Nat] :
                /\ Len(r.modes) \in 1 .. 4
                /\ r.avoid \in 0 .. 5
                /\ \A t \in r.return : t > r.departure}

\* TravelWindow: the arrival is never before the departure.
Windows == {w \in [departure : Times, arrival : Times] : w.departure <= w.arrival}

\* QualitySummary.
QualitySummaries == [gate : Gates, overall : Qualities, weather : Qualities,
                     transport : Qualities, disaster : Qualities, route : Qualities,
                     degraded : SUBSET Services, reasons : SUBSET GateReasons]

\* ExternalContext; the degraded services carry only the provider's name.
Contexts == [routes : Seq(Routes), weather : Seq(WeatherPoints),
             transport : Seq(TransportStatuses), events : Seq(Events),
             degraded : SUBSET Services, unavailable : SUBSET Services]

\* The features the rules and the baseline read, of the primary route.
Features == [precip : Optional(Nat), gust : Optional(Nat), weather : Optional(Severities),
             severeMinutes : Nat, coverage : Percent, magnitude : Optional(Nat),
             alerts : Nat, events : Nat, closures : Nat, delayed : Nat, missing : Nat,
             stale : Percent]

\* IntegratedTravelContext; conflicts counts the safety-critical ones.
Snapshots == [id : Nat, request : STRING, window : Windows, routes : Seq(Routes),
              weather : Seq(WeatherPoints), transport : Seq(TransportStatuses),
              events : Seq(Events), alerts : SUBSET Events, features : Features,
              quality : QualitySummaries, conflicts : Nat]

\* RiskAssessment.
Assessments == [snapshot : Nat, route : STRING, score : Percent, level : RiskLevels,
                uncertainty : Percent, reasons : SUBSET RiskReasons,
                timeDependent : BOOLEAN, later : Optional(RiskLevels)]

\* RetrievedEvidence.
EvidenceItems == [id : STRING, expires : Optional(Times)]

\* EvidencePackage.
Packages == [request : STRING, snapshot : Nat, assessments : SUBSET Assessments,
             routes : Seq(Routes), evidence : SUBSET EvidenceItems,
             quality : QualitySummaries, conflicts : Nat, alerts : SUBSET Events,
             created : Times, limitations : SUBSET PackageLimits, degraded : SUBSET Services]

\* DecisionValidation.
Validations == [citations : BOOLEAN, lockedAction : BOOLEAN, numbers : BOOLEAN,
                banned : BOOLEAN, fallback : BOOLEAN]

\* DecisionResult; selected is the optional route, says the action its text names.
Decisions == [request : STRING, snapshot : Nat, action : Actions, level : RiskLevels,
              confidence : Percent, selected : Optional(STRING), rule : RuleIds,
              escalations : SUBSET EscalationReasons, says : Actions,
              citations : SUBSET STRING, limitations : SUBSET DecisionLimits,
              validation : Validations]

\* RecommendationResponse.
Recommendations == [request : STRING, snapshot : Nat, status : {"COMPLETED", "PARTIAL"},
                    action : Actions, level : RiskLevels, primary : Optional(STRING),
                    alternatives : Seq(STRING), alerts : SUBSET STRING,
                    evidence : SUBSET STRING, contacts : SUBSET STRING,
                    instructions : SUBSET STRING,
                    limitations : SUBSET (DecisionLimits \cup DirectoryLimits),
                    degraded : SUBSET Services, escalation : BOOLEAN, says : Actions]

Larger(a, b)  == IF a >= b THEN a ELSE b
Smaller(a, b) == IF a <= b THEN a ELSE b

\* The largest member of a set of numbers, or the default of Python's max().
Largest(S, default) == IF S = {} THEN default ELSE CHOOSE x \in S : \A y \in S : y <= x

\* Of two tuples of numbers of one length, the first number that differs decides.
Precedes(s, t) == \E n \in DOMAIN s : s[n] < t[n] /\ \A k \in 1 .. n - 1 : s[k] = t[k]

\* Python's sorted() of a finite set, which is the domain of its key: the member that
\* k - 1 others precede is the k-th.
Sorted(key) ==
  [k \in 1 .. Cardinality(DOMAIN key) |->
     CHOOSE i \in DOMAIN key : Cardinality({j \in DOMAIN key : Precedes(key[j], key[i])}) = k - 1]

\* The records of a sequence that are at some of its positions.
Kept(s, positions) ==
  LET order == Sorted([i \in positions |-> <<i>>]) IN [k \in DOMAIN order |-> s[order[k]]]

\* Geodesics, with the larger coordinate difference for a distance.  A path is its
\* densified line: equally spaced points that distances and crossings are taken from.
Gap(a, b)        == IF a >= b THEN a - b ELSE b - a
Distance(p, q)   == Larger(Gap(p[1], q[1]), Gap(p[2], q[2]))
PathLength(path) == (Len(path) - 1) * Distance(path[1], path[2])

\* One more event against those seen: a record of the same id takes the place of the
\* earlier one where it is newer, a set of positions.
Versioned(seen, e, newer) ==
  LET same == {i \in DOMAIN seen : seen[i].id = e.id}
  IN IF same = {} THEN Append(seen, e)
     ELSE [i \in DOMAIN seen |-> IF i \in same \cap newer THEN e ELSE seen[i]]

=============================================================================
