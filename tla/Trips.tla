-------------------------------- MODULE Trips --------------------------------
(***************************************************************************)
(* A trip and the endpoints that change or assess it                       *)
(* (services/api/app/api/v1/trips.py): PATCH and apply-route guarded by    *)
(* If-Match, soft deletion, and the assessment each of them starts.        *)
(*                                                                         *)
(* A handler is a coroutine; what it does between two awaits, one database *)
(* statement or one call included, is one step.  It keeps the copy of the  *)
(* trip it read, and works with it after every later await.                *)
(*                                                                         *)
(* Abstractions.  One user, one trip.  Everything of the trip that a patch *)
(* may replace (places, times, modes, preferences) is its place.           *)
(* Idempotency keys and the run itself belong to Assessments; audit        *)
(* entries and conversations, which nothing here reads, are left out.      *)
(***************************************************************************)
EXTENDS Naturals

CONSTANTS
  Editors,      \* concurrent handlers
  Places,       \* what a patch tells apart
  Marks,        \* the statuses a patch may set
  Routes,       \* the routes a recommendation offers
  Runs,         \* assessments that may be started
  MaxRevision,  \* bound of the edits
  TripFaults,   \* "services": agent and recommendation fail; "crash": handlers die
  None

ASSUME TripsAssumption ==
  /\ MaxRevision \in Nat \ {0}
  /\ Marks \subseteq {"ACTIVE", "COMPLETED", "ARCHIVED"}
  /\ TripFaults \subseteq {"services", "crash"}
  /\ Places # {}
  /\ None \notin Places /\ None \notin Marks /\ None \notin Routes /\ None \notin Runs

Opt(S) == S \cup {None}

Revisions == 1..MaxRevision
TripStatuses == {"ACTIVE", "COMPLETED", "ARCHIVED", "DELETED"}
Trip == [revision : Revisions, place : Places, status : TripStatuses, route : Opt(Routes),
         previous : Opt(Routes), request : Opt(Runs), deleted : BOOLEAN]
EditorPCs == {"idle", "write", "advice", "apply", "soft_delete", "insert", "submit", "point",
              "answered"}
EditorCodes == {"none", "ok", "precondition", "not_found", "policy", "dependency",
                "conflict", "invalid"}
Kinds == {"none", "patch", "apply", "delete", "assess"}
Editor == [pc : EditorPCs, kind : Kinds, base : Revisions, place : Opt(Places),
           mark : Opt(Marks), route : Opt(Routes), copy : Trip, run : Opt(Runs),
           code : EditorCodes]
Version == [writers : Nat, place : Places, route : Opt(Routes), previous : Opt(Routes),
            changed : Opt(Places), applied : Opt(Routes)]
Started == [revision : Revisions, place : Places]

VARIABLES
  trip,     \* the row of travel.trips
  editor,   \* editor[e]: a handler's locals and the await it is parked at
  run,      \* run[r]: what the agent was asked to assess, a set of at most one
  version   \* version[n]: history, how revision n came about

tripVars == <<trip, editor, run, version>>

-----------------------------------------------------------------------------
NewTrip(place) ==
  [revision |-> 1, place |-> place, status |-> "ACTIVE", route |-> None, previous |-> None,
   request |-> None, deleted |-> FALSE]

\* The locals of a handler that has not begun, and of one that has answered.
Free ==
  [pc |-> "idle", kind |-> "none", base |-> 1, place |-> None, mark |-> None, route |-> None,
   copy |-> NewTrip(CHOOSE place \in Places : TRUE), run |-> None, code |-> "none"]

Answer(l, code) ==
  [Free EXCEPT !.pc = "answered", !.kind = l.kind, !.base = l.base, !.run = l.run,
               !.code = code]

Unwritten(place) ==
  [writers |-> 0, place |-> place, route |-> None, previous |-> None, changed |-> None,
   applied |-> None]

\* Trips.create.
TripsInit == \E place \in Places :
  /\ trip = NewTrip(place)
  /\ editor = [e \in Editors |-> Free]
  /\ run = [r \in Runs |-> {}]
  /\ version = [n \in Revisions |-> Unwritten(place)]

EditorAt(e, p) == editor[e].pc = p
Next1(e, p) == editor' = [editor EXCEPT ![e].pc = p]
Reply(e, code) == editor' = [editor EXCEPT ![e] = Answer(@, code)]

-----------------------------------------------------------------------------
(* Reading: _parse_if_match, _owned and the comparison of revisions.       *)

\* A handler reads the trip, which belongs to the user and is not deleted.
Owned(e, l, p) ==
  editor' = [editor EXCEPT ![e] =
    IF trip.deleted THEN Answer(l, "not_found")
    ELSE IF l.base # trip.revision THEN Answer(l, "precondition")
    ELSE [l EXCEPT !.pc = p, !.copy = trip]]

\* If-Match is an ETag the client once saw: the current revision or an older one.
BeginPatch(e) ==
  /\ EditorAt(e, "idle") /\ trip.revision < MaxRevision
  /\ \E base \in 1..trip.revision, place \in Opt(Places), mark \in Opt(Marks) :
       Owned(e, [editor[e] EXCEPT !.kind = "patch", !.base = base, !.place = place,
                                  !.mark = mark], "write")
  /\ UNCHANGED <<trip, run, version>>

BeginApply(e) ==
  /\ EditorAt(e, "idle") /\ trip.revision < MaxRevision
  /\ \E base \in 1..trip.revision, route \in Routes :
       Owned(e, [editor[e] EXCEPT !.kind = "apply", !.base = base, !.route = route], "advice")
  /\ UNCHANGED <<trip, run, version>>

BeginDelete(e) ==
  /\ EditorAt(e, "idle")
  /\ Owned(e, [editor[e] EXCEPT !.kind = "delete", !.base = trip.revision], "soft_delete")
  /\ UNCHANGED <<trip, run, version>>

\* POST /trips/{id}/assessments, /conversations/{id}/messages and /runs/{id}/resume.
BeginAssess(e) ==
  /\ EditorAt(e, "idle")
  /\ Owned(e, [editor[e] EXCEPT !.kind = "assess", !.base = trip.revision], "insert")
  /\ UNCHANGED <<trip, run, version>>

-----------------------------------------------------------------------------
(* Writing: UPDATE ... WHERE id, user_id, revision = If-Match.             *)

\* How revision base + 1 came about, whatever it was before.
Written(l, row) ==
  version' = [version EXCEPT ![l.base + 1] =
    [writers |-> @.writers + 1, place |-> row.place, route |-> row.route,
     previous |-> row.previous, changed |-> l.place, applied |-> l.route]]

\* Trips.update_revision returned no row.
Concurrent(e) ==
  /\ editor[e].pc \in {"write", "apply"} /\ trip.revision # editor[e].base
  /\ Reply(e, "precondition")
  /\ UNCHANGED <<trip, run, version>>

\* Mutant: the statement names the trip only.
WritePatchBlindly(e) ==
  /\ EditorAt(e, "write")
  /\ LET l == editor[e]
         row == [trip EXCEPT !.revision = l.base + 1,
                   !.place = IF l.place = None THEN l.copy.place ELSE l.place,
                   !.status = IF l.mark = None THEN @ ELSE l.mark] IN
     /\ trip' = row
     /\ Written(l, row)
  /\ Reply(e, "ok")
  /\ UNCHANGED run

\* patch_trip writes every field: from the body, or else from the copy it read.
\* A deletion in the meantime did not change the revision, and is not looked at.
WritePatch(e) ==
  /\ EditorAt(e, "write") /\ trip.revision = editor[e].base
  /\ LET l == editor[e]
         row == [trip EXCEPT !.revision = l.base + 1,
                   !.place = IF l.place = None THEN l.copy.place ELSE l.place,
                   !.status = IF l.mark = None THEN @ ELSE l.mark] IN
     /\ trip' = row
     /\ Written(l, row)
  /\ Reply(e, "ok")
  /\ UNCHANGED run

\* The recommendation is of this trip and offers the route; AVOID was acknowledged.
FetchAdvice(e) ==
  /\ EditorAt(e, "advice")
  /\ Next1(e, "apply")
  /\ UNCHANGED <<trip, run, version>>

AdviceRefused(e) ==
  /\ EditorAt(e, "advice")
  /\ \/ \E code \in {"not_found", "invalid", "policy"} : Reply(e, code)
     \/ "services" \in TripFaults /\ Reply(e, "dependency")
  /\ UNCHANGED <<trip, run, version>>

\* Mutant: the assessment is started for the trip as it was read.
WriteApplyForget(e) ==
  /\ EditorAt(e, "apply") /\ trip.revision = editor[e].base
  /\ LET l == editor[e]
         row == [trip EXCEPT !.revision = l.base + 1, !.route = l.route,
                             !.previous = l.copy.route] IN
     /\ trip' = row
     /\ Written(l, row)
     /\ editor' = [editor EXCEPT ![e].pc = "insert"]
  /\ UNCHANGED run

\* apply_route: the new row is the copy the assessment is started from.
WriteApply(e) ==
  /\ EditorAt(e, "apply") /\ trip.revision = editor[e].base
  /\ LET l == editor[e]
         row == [trip EXCEPT !.revision = l.base + 1, !.route = l.route,
                             !.previous = l.copy.route] IN
     /\ trip' = row
     /\ Written(l, row)
     /\ editor' = [editor EXCEPT ![e].pc = "insert", ![e].copy = row]
  /\ UNCHANGED run

\* Trips.soft_delete, whatever the revision.
SoftDelete(e) ==
  /\ EditorAt(e, "soft_delete")
  /\ trip' = [trip EXCEPT !.status = "DELETED", !.deleted = TRUE]
  /\ Reply(e, "ok")
  /\ UNCHANGED <<run, version>>

-----------------------------------------------------------------------------
(* AssessmentService.start, with the copy of the trip it was given.        *)

\* The copy is of a deleted trip, or its departure has passed.
StartRefused(e) ==
  /\ EditorAt(e, "insert")
  /\ Reply(e, IF editor[e].copy.status = "DELETED" THEN "conflict" ELSE "invalid")
  /\ UNCHANGED <<trip, run, version>>

InsertRun(e) ==
  /\ EditorAt(e, "insert") /\ editor[e].copy.status # "DELETED"
  /\ \E r \in {s \in Runs : run[s] = {}} :
       /\ run' = [run EXCEPT ![r] = {[revision |-> editor[e].copy.revision,
                                      place |-> editor[e].copy.place]}]
       /\ editor' = [editor EXCEPT ![e].pc = "submit", ![e].run = r]
  /\ UNCHANGED <<trip, version>>

AgentAccepts(e) ==
  /\ EditorAt(e, "submit")
  /\ Next1(e, "point")
  /\ UNCHANGED <<trip, run, version>>

\* The row of the run becomes FAILED; a route that was applied stays applied.
AgentRefuses(e) ==
  /\ "services" \in TripFaults /\ EditorAt(e, "submit")
  /\ Reply(e, "dependency")
  /\ UNCHANGED <<trip, run, version>>

\* Trips.set_fields: latest_request_id, by id and at any revision.
PointRun(e) ==
  /\ EditorAt(e, "point")
  /\ trip' = [trip EXCEPT !.request = editor[e].run]
  /\ Reply(e, "ok")
  /\ UNCHANGED <<run, version>>

\* The client has its answer, or the process died: the handler's locals are gone.
Leave(e) ==
  /\ \/ EditorAt(e, "answered")
     \/ "crash" \in TripFaults /\ ~EditorAt(e, "idle")
  /\ editor' = [editor EXCEPT ![e] = Free]
  /\ UNCHANGED <<trip, run, version>>

-----------------------------------------------------------------------------
TripsNext == \E e \in Editors :
  \/ BeginPatch(e) \/ BeginApply(e) \/ BeginDelete(e) \/ BeginAssess(e)
  \/ Concurrent(e) \/ WritePatch(e) \/ FetchAdvice(e) \/ AdviceRefused(e) \/ WriteApply(e)
  \/ SoftDelete(e)
  \/ StartRefused(e) \/ InsertRun(e) \/ AgentAccepts(e) \/ AgentRefuses(e) \/ PointRun(e)
  \/ Leave(e)

TripsSpec == TripsInit /\ [][TripsNext]_tripVars

-----------------------------------------------------------------------------
TripsTypeOK ==
  /\ trip \in Trip
  /\ editor \in [Editors -> Editor]
  /\ run \in [Runs -> SUBSET Started]
  /\ version \in [Revisions -> Version]

\* Each revision after the first is the one before with the change of one request, the
\* one whose If-Match named it; the row is what the latest one made it.
EachChangeOnce ==
  /\ \A n \in Revisions : version[n].writers = IF n \in 2..trip.revision THEN 1 ELSE 0
  /\ \A n \in 2..trip.revision :
       LET old == version[n - 1]
           new == version[n] IN
       /\ new.place = IF new.changed = None THEN old.place ELSE new.changed
       /\ new.applied = None => new.route = old.route /\ new.previous = old.previous
       /\ new.applied # None => new.route = new.applied /\ new.previous = old.route
  /\ LET now == version[trip.revision] IN
     trip.place = now.place /\ trip.route = now.route /\ trip.previous = now.previous

\* What the agent was asked to assess is the trip at the revision it was told.
RunsDescribeRevisions ==
  \A r \in Runs : \A s \in run[r] :
    s.revision \in 1..trip.revision /\ s.place = version[s.revision].place

\* An applied route that was confirmed to the client is assessed at its own revision.
AppliedIsAssessed ==
  \A e \in Editors : editor[e].kind = "apply" /\ editor[e].code = "ok" =>
    /\ editor[e].run # None
    /\ \A s \in run[editor[e].run] : s.revision = editor[e].base + 1

\* Edits of several clients, retries with an old ETag and assessments in between never
\* lose a change, apply one twice, or have a run describe a trip that never was
\* (trips.py patch_trip, apply_route; repo.py update_revision; assessments.py start).
RevisionsAgree == EachChangeOnce /\ RunsDescribeRevisions /\ AppliedIsAssessed
=============================================================================
