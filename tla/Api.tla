--------------------------------- MODULE Api ---------------------------------
(***************************************************************************)
(* The public API beside its assessments: trips, consents, and following a *)
(* run.  The three share the user and nothing else, no variable and no     *)
(* guard, so a behaviour exercises one of them; which one is chosen first. *)
(***************************************************************************)
EXTENDS Trips, Consents, EventStream

CONSTANT Groups  \* the groups of endpoints callers use

ASSUME ApiAssumption == Groups \subseteq {"trips", "consents", "stream"}

VARIABLE group

apiVars == <<tripVars, consentVars, streamVars, group>>

ApiInit ==
  /\ TripsInit /\ ConsentsInit /\ StreamInit
  /\ group \in Groups

ApiNext ==
  \/ group = "trips"    /\ TripsNext    /\ UNCHANGED <<consentVars, streamVars, group>>
  \/ group = "consents" /\ ConsentsNext /\ UNCHANGED <<tripVars, streamVars, group>>
  \/ group = "stream"   /\ StreamNext   /\ UNCHANGED <<tripVars, consentVars, group>>

\* Only following a run has to go on.
ApiFairSpec == ApiInit /\ [][ApiNext]_apiVars /\ (group = "stream" => StreamFairness)

TypeOK == TripsTypeOK /\ ConsentsTypeOK /\ StreamTypeOK /\ group \in Groups
=============================================================================
