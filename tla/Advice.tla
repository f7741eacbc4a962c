------------------------------- MODULE Advice -------------------------------
(***************************************************************************)
(* Recommendation: the response built from a decision and its package, and *)
(* the directory of emergency contacts (services/recommendation).          *)
(***************************************************************************)
EXTENDS Contracts, SequencesExt

\* DirectoryRecord.
DirectoryRecords ==
  [id : STRING, country : STRING, area : Optional(STRING), effective : Times, due : Times,
   status : {"VERIFIED", "PENDING_VERIFICATION", "EXPIRED", "RETIRED"}]

\* Directory.resolve: the verified records of a country (and its subdivision) that are due
\* for review no earlier than today, and a note for each record left out.
ResolveContacts(records, country, area, today) ==
  LET matched == {r \in records : /\ r.country = country
                                  /\ \A a \in r.area, b \in area : a = b}
      good(r) == r.status = "VERIFIED" /\ r.due >= today
  IN [contacts    |-> {r.id : r \in {x \in matched : good(x) /\ x.effective <= today}},
      limitations |-> (IF matched = {} THEN {"EMERGENCY_DIRECTORY_UNAVAILABLE"} ELSE {})
                      \cup {IF r.status # "VERIFIED" THEN r.status ELSE "REVIEW_OVERDUE" :
                              r \in {x \in matched : ~good(x)}}]

RouteOf(pkg, id) == {pkg.routes[i] : i \in {j \in DOMAIN pkg.routes : pkg.routes[j].id = id}}

\* _validate: what must hold of a decision and its package (BuildError otherwise).
Consistent(decision, pkg) ==
  LET selected == UNION {RouteOf(pkg, id) : id \in decision.selected}
  IN /\ decision.snapshot = pkg.snapshot
     /\ decision.request = pkg.request
     /\ decision.validation.lockedAction
     /\ decision.action = "CHANGE_ROUTE" => \E r \in selected : r.usable
     /\ decision.action = "AVOID" => \A r \in selected : ~r.exposure.closed
     /\ decision.citations \subseteq {e.id : e \in pkg.evidence}

\* The first original route, or the first route.
OriginalIndex(routes) ==
  LET originals == {i \in DOMAIN routes : routes[i].label = "ORIGINAL"}
  IN IF originals = {} THEN 1 ELSE CHOOSE i \in originals : \A j \in originals : i <= j

\* Mutant: an AVOID shows the original route, too.
PrimaryAlways(decision, pkg) ==
  [primary      |-> IF decision.selected # {} THEN decision.selected
                    ELSE {pkg.routes[OriginalIndex(pkg.routes)].id},
   alternatives |-> <<>>]

\* _primary_and_alternatives: an AVOID has no primary route, and offers the usable ones;
\* else every other route is an alternative, the usable ones first.
PrimaryAndAlternatives(decision, pkg) ==
  LET routes  == pkg.routes
      chosen  == {i \in DOMAIN routes : routes[i].id \in decision.selected}
      primary == IF decision.action = "AVOID" THEN {}
                 ELSE IF chosen # {} THEN {routes[i].id : i \in chosen}
                 ELSE {routes[OriginalIndex(routes)].id}
      others  == {i \in DOMAIN routes : /\ routes[i].id \notin primary
                                        /\ decision.action = "AVOID" => routes[i].usable}
      order   == Sorted([i \in others |-> <<IF routes[i].usable THEN 0 ELSE 1, routes[i].rank, i>>])
  IN [primary |-> primary, alternatives |-> [k \in DOMAIN order |-> routes[order[k]].id]]

\* The passages that are shown: what is cited, else (the first three of) all of them.
Cited(decision, pkg) ==
  LET ids == {e.id : e \in pkg.evidence}
  IN IF decision.citations = {} THEN ids ELSE ids \cap decision.citations

\* _emergency_instructions: the passages whose bullet lines are shown as steps to take,
\* none if the trip is calm.
Instructions(decision, pkg) ==
  IF decision.action = "NORMAL" /\ decision.level \notin {"MEDIUM", "HIGH"} THEN {}
  ELSE Cited(decision, pkg)

\* Mutant: a fallback explanation is not counted.
PackageDegraded(decision, pkg) == pkg.degraded

\* What was degraded up to here, the explanation included.
AllDegraded(decision, pkg) ==
  pkg.degraded \cup (IF decision.validation.fallback THEN {"explanation"} ELSE {})

\* build_response: complete only when nothing was degraded and the evidence is sound.
BuildResponse(decision, pkg, directory) ==
  LET shown    == PrimaryAndAlternatives(decision, pkg)
      degraded == AllDegraded(decision, pkg)
      unsound  == pkg.quality.overall.status \in {"PARTIAL", "STALE", "CONFLICTING"}
  IN [request      |-> decision.request,
      snapshot     |-> pkg.snapshot,
      status       |-> IF degraded # {} \/ unsound THEN "PARTIAL" ELSE "COMPLETED",
      action       |-> decision.action,
      level        |-> decision.level,
      primary      |-> shown.primary,
      alternatives |-> shown.alternatives,
      alerts       |-> {e.id : e \in {x \in pkg.alerts : x.official}},
      evidence     |-> Cited(decision, pkg),
      instructions |-> Instructions(decision, pkg),
      contacts     |-> directory.contacts,
      limitations  |-> decision.limitations \cup pkg.limitations \cup directory.limitations,
      degraded     |-> degraded,
      escalation   |-> decision.escalations # {},
      says         |-> decision.says]
=============================================================================
