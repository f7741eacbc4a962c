---------------------------- MODULE AlertChange ----------------------------
(***************************************************************************)
(* The meaningful-change rules of the recommendation service               *)
(* (services/recommendation/app/domain/alerts.py): what two successive     *)
(* recommendations of a trip mean for its subscribers.                     *)
(*                                                                         *)
(* A recommendation is what the rules read of it.  Whether an alert is     *)
(* official, and how severe, belongs to its id; the policy version is      *)
(* fixed.  Time is counted in half hours.                                  *)
(***************************************************************************)
EXTENDS Naturals

CONSTANTS
  AlertIds,       \* ids of alerts
  Official,       \* those published by an authority
  AlertSeverity,  \* AlertSeverity[a]
  None            \* no previous recommendation

SEVERITY_RANK == [UNKNOWN |-> 0, INFO |-> 1, MINOR |-> 2, MODERATE |-> 3, SEVERE |-> 4,
                  EXTREME |-> 5]
Severities == DOMAIN SEVERITY_RANK
ACTION_SEVERITY == [NORMAL |-> 0, DELAY |-> 1, CHANGE_ROUTE |-> 1, AVOID |-> 2]
RISK_RANK == [UNKNOWN |-> 0, LOW |-> 1, MEDIUM |-> 2, HIGH |-> 3]
COOLDOWN == [INFO |-> 8, MINOR |-> 4, MODERATE |-> 2, SEVERE |-> 1, EXTREME |-> 0, UNKNOWN |-> 4]

ASSUME AlertChangeAssumption ==
  Official \subseteq AlertIds /\ AlertSeverity \in [AlertIds -> Severities]

Recommendation == [action : DOMAIN ACTION_SEVERITY, risk : DOMAIN RISK_RANK,
                   alerts : SUBSET AlertIds, status : {"PARTIAL", "COMPLETED"}]

ActionEscalated(prev, new) == ACTION_SEVERITY[new.action] > ACTION_SEVERITY[prev.action]
RiskIncreased(prev, new)   == RISK_RANK[new.risk] > RISK_RANK[prev.risk]
NewOfficial(prev, new)     == (new.alerts \ prev.alerts) \cap Official
MateriallySafer(prev, new) ==
  prev.action \in {"AVOID", "DELAY"} /\ new.action \in {"NORMAL", "CHANGE_ROUTE"}
FreshnessRecovered(prev, new) ==
  /\ prev.status = "PARTIAL" /\ new.status = "COMPLETED"
  /\ RISK_RANK[new.risk] >= RISK_RANK["MEDIUM"]

\* The severity each reason of assess_change contributes.
Grounds(prev, new) ==
  IF prev = None
  THEN {s \in {"SEVERE"} : new.action = "AVOID"}
         \cup {s \in {"MODERATE"} : new.action \in {"DELAY", "CHANGE_ROUTE"}}
  ELSE {s \in {"SEVERE"} : ActionEscalated(prev, new) /\ new.action = "AVOID"}
         \cup {s \in {"MODERATE"} : ActionEscalated(prev, new) /\ new.action # "AVOID"}
         \cup {s \in {"MODERATE"} : RiskIncreased(prev, new) /\ new.risk = "MEDIUM"}
         \cup {s \in {"SEVERE"} : RiskIncreased(prev, new) /\ new.risk # "MEDIUM"}
         \cup {AlertSeverity[a] : a \in NewOfficial(prev, new)}
         \cup {s \in {"MINOR"} : MateriallySafer(prev, new) \/ FreshnessRecovered(prev, new)}

Meaningful(prev, new) == Grounds(prev, new) # {}

\* The most severe ground; INFO when there is nothing above it.
ChangeSeverity(prev, new) ==
  CHOOSE s \in Grounds(prev, new) \cup {"INFO"} :
    \A t \in Grounds(prev, new) \cup {"INFO"} : SEVERITY_RANK[t] <= SEVERITY_RANK[s]

Escalation(prev, new) ==
  /\ prev # None
  /\ \/ ActionEscalated(prev, new) \/ RiskIncreased(prev, new)
     \/ \E a \in NewOfficial(prev, new) : SEVERITY_RANK[AlertSeverity[a]] >= SEVERITY_RANK["SEVERE"]

\* The event says what the new recommendation is, not what it is compared with.
EventHash(new) == [action |-> new.action, risk |-> new.risk, alerts |-> new.alerts]

\* A subscription without cooldown_until has 0.
CooldownAllows(severity, escalation, until, now) ==
  escalation \/ severity = "EXTREME" \/ until <= now

NextCooldown(severity, now) == now + COOLDOWN[severity]
=============================================================================
