------------------------------ MODULE ApiProofs ------------------------------
(***************************************************************************)
(* Theorems about Api: of the trips, of consents and of following a run,   *)
(* each on its own, for any editors, handlers, connections and faults, and *)
(* of the API that offers the three.                                       *)
(***************************************************************************)
EXTENDS Api, FiniteSetTheorems, TLAPS

-----------------------------------------------------------------------------
(***************************************************************************)
(* Trips: its types, and that revisions, runs and the row agree.           *)
(***************************************************************************)


\* What a handler may rely on after its awaits: the copy it read is of a revision that is
\* or was the trip's, whatever others wrote since; an apply that is past its insertion has
\* a run of the revision it made.
Good(l, revision, versions, runs) ==
  /\ l.pc = "idle" => l.run = None /\ l.place = None /\ l.route = None
  /\ l.pc # "answered" => l.code = "none"
  /\ l.pc = "write" => l.kind = "patch" /\ l.route = None
  /\ l.pc \in {"advice", "apply"} => l.kind = "apply" /\ l.route # None /\ l.place = None
  /\ l.pc \in {"write", "advice", "apply"} => l.copy.revision = l.base /\ l.base < MaxRevision
  /\ l.pc = "soft_delete" => l.kind = "delete"
  /\ l.pc \in {"write", "advice", "apply", "insert"} =>
       /\ l.copy.revision <= revision
       /\ l.copy.place = versions[l.copy.revision].place
       /\ l.copy.route = versions[l.copy.revision].route
  /\ l.pc = "insert" /\ l.kind = "apply" => l.copy.revision = l.base + 1
  /\ l.run # None => runs[l.run] # {}
  /\ l.kind = "apply" /\ (l.pc \in {"submit", "point"} \/ l.code = "ok") =>
       l.run # None /\ \A s \in runs[l.run] : s.revision = l.base + 1

EditorsGood == \A e \in Editors : Good(editor[e], trip.revision, version, run)

\* The inductive invariant: that each change is applied once needs that a handler's copy is
\* the version its If-Match names, which no later write alters.
TripsInv == TripsTypeOK /\ EachChangeOnce /\ RunsDescribeRevisions /\ EditorsGood

LEMMA TripsInvImplies == TripsInv => RevisionsAgree
<1> SUFFICES ASSUME TripsInv PROVE AppliedIsAssessed
  BY DEF TripsInv, RevisionsAgree
<1>1. \A e \in Editors : Good(editor[e], trip.revision, version, run)
  BY DEF TripsInv, EditorsGood
<1> QED BY <1>1 DEF AppliedIsAssessed, Good

-----------------------------------------------------------------------------
LEMMA FreeTyped == Free \in Editor /\ NewTrip(CHOOSE place \in Places : TRUE) \in Trip
<1> DEFINE p == CHOOSE place \in Places : TRUE
<1>1. p \in Places
  BY TripsAssumption
<1> HIDE DEF p
<1>2. NewTrip(p) \in Trip
  BY <1>1, TripsAssumption DEF NewTrip, Trip, Revisions, TripStatuses, Opt
<1> DEFINE c == NewTrip(p)
<1>3. c \in Trip
  BY <1>2
<1> HIDE DEF c
<1>4. [pc |-> "idle", kind |-> "none", base |-> 1, place |-> None, mark |-> None,
       route |-> None, copy |-> c, run |-> None, code |-> "none"] \in Editor
  BY <1>3, TripsAssumption DEF Editor, EditorPCs, EditorCodes, Kinds, Revisions, Opt
<1> QED BY <1>2, <1>4 DEF Free, c, p

\* Answering ends a handler; only an apply that says "ok" promises anything.
LEMMA AnswerGood ==
  ASSUME NEW l \in Editor, NEW code \in EditorCodes, NEW revision, NEW versions, NEW runs,
         Good(l, revision, versions, runs),
         code = "ok" /\ l.kind = "apply" => l.pc \in {"submit", "point"}
  PROVE  Answer(l, code) \in Editor /\ Good(Answer(l, code), revision, versions, runs)
<1> DEFINE a == Answer(l, code)
<1>1. l.kind \in Kinds /\ l.base \in Revisions /\ l.run \in Opt(Runs) /\ "answered" \in EditorPCs
  BY DEF Editor, EditorPCs
<1>2. Free \in Editor
  BY FreeTyped
<1>3. /\ a \in Editor /\ a.pc = "answered" /\ a.kind = l.kind /\ a.base = l.base
      /\ a.run = l.run /\ a.code = code
  <2> HIDE DEF a
  <2>1. a = [Free EXCEPT !.pc = "answered", !.kind = l.kind, !.base = l.base, !.run = l.run,
                         !.code = code]
    BY DEF a, Answer
  <2> QED BY <1>1, <1>2, <2>1 DEF Editor
<1> HIDE DEF a
<1>4. Good(a, revision, versions, runs)
  BY <1>3 DEF Good
<1> QED BY <1>3, <1>4 DEF a

\* Later revisions, later runs and writes to later versions leave what is Good as it is.
LEMMA GoodKept ==
  ASSUME NEW l \in Editor, NEW n \in Revisions, NEW m \in Revisions, NEW v, NEW w, NEW r, NEW q,
         Good(l, n, v, r), n <= m,
         \A i \in 1..n : w[i].place = v[i].place /\ w[i].route = v[i].route,
         \A x \in Runs : r[x] # {} => q[x] = r[x]
  PROVE  Good(l, m, w, q)
<1>1. l.run \in Opt(Runs) /\ l.copy \in Trip /\ l.copy.revision \in Revisions
  BY DEF Editor, Trip
<1>2. l.copy.revision <= n => l.copy.revision \in 1..n /\ l.copy.revision <= m
  BY <1>1, TripsAssumption DEF Revisions
<1>3. l.run # None => l.run \in Runs
  BY <1>1 DEF Opt
<1>4. l.run # None => q[l.run] = r[l.run]
  BY <1>3 DEF Good
<1> QED BY <1>2, <1>4 DEF Good

-----------------------------------------------------------------------------
\* A step of one handler that leaves the history, and what the row has of it, alone.
LEMMA Quiet ==
  ASSUME TripsInv, NEW e \in Editors, NEW l \in Editor, editor' = [editor EXCEPT ![e] = l],
         Good(l, trip.revision, version, run), UNCHANGED <<run, version>>,
         trip' \in Trip, trip'.revision = trip.revision, trip'.place = trip.place,
         trip'.route = trip.route, trip'.previous = trip.previous
  PROVE  TripsInv'
<1>1. TripsTypeOK'
  BY DEF TripsInv, TripsTypeOK
<1>2. EachChangeOnce'
  BY DEF TripsInv, EachChangeOnce
<1>3. RunsDescribeRevisions'
  BY DEF TripsInv, RunsDescribeRevisions
<1>4. EditorsGood'
  BY DEF TripsInv, EditorsGood, TripsTypeOK
<1> QED BY <1>1, <1>2, <1>3, <1>4 DEF TripsInv

LEMMA ReplyStep ==
  ASSUME TripsInv, NEW e \in Editors, NEW code \in EditorCodes, Reply(e, code),
         code = "ok" /\ editor[e].kind = "apply" => editor[e].pc \in {"submit", "point"},
         UNCHANGED <<run, version>>,
         trip' \in Trip, trip'.revision = trip.revision, trip'.place = trip.place,
         trip'.route = trip.route, trip'.previous = trip.previous
  PROVE  TripsInv'
<1>1. editor[e] \in Editor /\ Good(editor[e], trip.revision, version, run)
  BY DEF TripsInv, TripsTypeOK, EditorsGood
<1> DEFINE l == Answer(editor[e], code)
<1>2. l \in Editor /\ Good(l, trip.revision, version, run)
  BY <1>1, AnswerGood
<1>3. editor' = [editor EXCEPT ![e] = l]
  BY DEF Reply
<1> HIDE DEF l
<1> QED BY <1>2, <1>3, Quiet

LEMMA MoveStep ==
  ASSUME TripsInv, NEW e \in Editors, NEW p \in EditorPCs, Next1(e, p),
         \/ editor[e].pc = "advice" /\ p = "apply"
         \/ editor[e].pc = "submit" /\ p = "point",
         UNCHANGED <<trip, run, version>>
  PROVE  TripsInv'
<1>1. editor[e] \in Editor /\ Good(editor[e], trip.revision, version, run) /\ trip \in Trip
  BY DEF TripsInv, TripsTypeOK, EditorsGood
<1> DEFINE l == [editor[e] EXCEPT !.pc = p]
<1>2. /\ l \in Editor /\ l.pc = p /\ l.kind = editor[e].kind /\ l.base = editor[e].base
      /\ l.place = editor[e].place /\ l.route = editor[e].route /\ l.copy = editor[e].copy
      /\ l.run = editor[e].run /\ l.code = editor[e].code
  BY <1>1 DEF Editor
<1>3. editor' = [editor EXCEPT ![e] = l]
  BY DEF Next1
<1> HIDE DEF l
<1>4. Good(l, trip.revision, version, run)
  BY <1>1, <1>2 DEF Good
<1> QED BY <1>1, <1>3, <1>4, <1>2, Quiet

\* A handler that begins with the locals l.
LEMMA OwnedStep ==
  ASSUME TripsInv, NEW e \in Editors, NEW l \in Editor,
         NEW p \in {"write", "advice", "soft_delete", "insert"}, Owned(e, l, p),
         l.pc = "idle", l.run = None, l.code = "none",
         p = "write" => l.kind = "patch" /\ l.route = None /\ trip.revision < MaxRevision,
         p = "advice" => l.kind = "apply" /\ l.route # None /\ l.place = None
                           /\ trip.revision < MaxRevision,
         p = "soft_delete" => l.kind = "delete",
         p = "insert" => l.kind = "assess",
         UNCHANGED <<trip, run, version>>
  PROVE  TripsInv'
<1>1. trip \in Trip /\ editor \in [Editors -> Editor]
  BY DEF TripsInv, TripsTypeOK
<1>2. ASSUME NEW code \in {"not_found", "precondition"},
             editor' = [editor EXCEPT ![e] = Answer(l, code)]
      PROVE  TripsInv'
  <2> DEFINE k == Answer(l, code)
  <2>1. "answered" \in EditorPCs /\ l.kind \in Kinds /\ l.base \in Revisions
        /\ code \in EditorCodes /\ l.run \in Opt(Runs)
    BY DEF EditorPCs, Editor, EditorCodes
  <2>2. Free \in Editor
    BY FreeTyped
  <2>3. k \in Editor /\ k.pc = "answered" /\ k.code = code /\ k.run = None
    <3> HIDE DEF k
    <3>1. k = [Free EXCEPT !.pc = "answered", !.kind = l.kind, !.base = l.base, !.run = l.run,
                           !.code = code]
      BY DEF k, Answer
    <3> QED BY <2>1, <2>2, <3>1 DEF Editor
  <2> HIDE DEF k
  <2>4. Good(k, trip.revision, version, run)
    BY <2>3 DEF Good
  <2>5. editor' = [editor EXCEPT ![e] = k]
    BY <1>2 DEF k
  <2> QED BY <1>1, <2>3, <2>4, <2>5, Quiet
<1>3. ASSUME l.base = trip.revision, editor' = [editor EXCEPT ![e] = [l EXCEPT !.pc = p, !.copy = trip]]
      PROVE  TripsInv'
  <2> DEFINE k == [l EXCEPT !.pc = p, !.copy = trip]
  <2>1. p \in EditorPCs
    BY DEF EditorPCs
  <2>2. /\ k \in Editor /\ k.pc = p /\ k.copy = trip /\ k.kind = l.kind /\ k.base = l.base
        /\ k.place = l.place /\ k.route = l.route /\ k.run = l.run /\ k.code = l.code
    BY <1>1, <2>1 DEF Editor
  <2>3. editor' = [editor EXCEPT ![e] = k]
    BY <1>3
  <2> HIDE DEF k
  <2>4. /\ trip.place = version[trip.revision].place
        /\ trip.route = version[trip.revision].route
        /\ trip.revision \in Revisions
    BY <1>1 DEF TripsInv, EachChangeOnce, Trip
  <2>5. trip.revision <= trip.revision
    BY <2>4, TripsAssumption DEF Revisions
  <2>6. Good(k, trip.revision, version, run)
    BY <1>3, <2>2, <2>4, <2>5 DEF Good
  <2> QED BY <1>1, <2>2, <2>3, <2>6, Quiet
<1> QED BY <1>2, <1>3 DEF Owned

-----------------------------------------------------------------------------
(* The steps that only one handler sees.                                   *)

LEMMA BeginPatchStep ==
  ASSUME TripsInv, NEW e \in Editors, BeginPatch(e)
  PROVE  TripsInv'
<1>1. PICK base \in 1..trip.revision, place \in Opt(Places), mark \in Opt(Marks) :
        Owned(e, [editor[e] EXCEPT !.kind = "patch", !.base = base, !.place = place,
                                   !.mark = mark], "write")
  BY DEF BeginPatch
<1>2. /\ editor[e] \in Editor /\ trip.revision \in Revisions
      /\ Good(editor[e], trip.revision, version, run)
  BY DEF TripsInv, TripsTypeOK, Trip, EditorsGood
<1> DEFINE l == [editor[e] EXCEPT !.kind = "patch", !.base = base, !.place = place, !.mark = mark]
<1>3. base \in Revisions /\ "patch" \in Kinds
  BY <1>2, TripsAssumption DEF Revisions, Kinds
<1>4. /\ l \in Editor /\ l.pc = editor[e].pc /\ l.kind = "patch" /\ l.route = editor[e].route
      /\ l.run = editor[e].run /\ l.code = editor[e].code
  BY <1>2, <1>3 DEF Editor
<1>5. editor[e].pc = "idle" /\ trip.revision < MaxRevision /\ UNCHANGED <<trip, run, version>>
  BY DEF BeginPatch, EditorAt
<1>6. l.run = None /\ l.code = "none" /\ l.route = None /\ l.pc = "idle"
  BY <1>2, <1>4, <1>5 DEF Good
<1>7. Owned(e, l, "write")
  BY <1>1
<1> HIDE DEF l
<1> QED BY <1>4, <1>5, <1>6, <1>7, OwnedStep

LEMMA BeginApplyStep ==
  ASSUME TripsInv, NEW e \in Editors, BeginApply(e)
  PROVE  TripsInv'
<1>1. PICK base \in 1..trip.revision, route \in Routes :
        Owned(e, [editor[e] EXCEPT !.kind = "apply", !.base = base, !.route = route], "advice")
  BY DEF BeginApply
<1>2. /\ editor[e] \in Editor /\ trip.revision \in Revisions
      /\ Good(editor[e], trip.revision, version, run)
  BY DEF TripsInv, TripsTypeOK, Trip, EditorsGood
<1> DEFINE l == [editor[e] EXCEPT !.kind = "apply", !.base = base, !.route = route]
<1>3. base \in Revisions /\ "apply" \in Kinds /\ route \in Opt(Routes) /\ route # None
  BY <1>2, TripsAssumption DEF Revisions, Kinds, Opt
<1>4. /\ l \in Editor /\ l.pc = editor[e].pc /\ l.kind = "apply" /\ l.route = route
      /\ l.place = editor[e].place /\ l.run = editor[e].run /\ l.code = editor[e].code
  BY <1>2, <1>3 DEF Editor
<1>5. editor[e].pc = "idle" /\ trip.revision < MaxRevision /\ UNCHANGED <<trip, run, version>>
  BY DEF BeginApply, EditorAt
<1>6. l.run = None /\ l.code = "none" /\ l.place = None /\ l.pc = "idle"
  BY <1>2, <1>4, <1>5 DEF Good
<1>7. Owned(e, l, "advice")
  BY <1>1
<1> HIDE DEF l
<1> QED BY <1>3, <1>4, <1>5, <1>6, <1>7, OwnedStep

\* DELETE and the endpoints that start an assessment name no revision.
LEMMA BeginUnconditionalStep ==
  ASSUME TripsInv, NEW e \in Editors, NEW kind \in {"delete", "assess"},
         NEW p \in {"soft_delete", "insert"}, p = "soft_delete" <=> kind = "delete",
         EditorAt(e, "idle"), UNCHANGED <<trip, run, version>>,
         Owned(e, [editor[e] EXCEPT !.kind = kind, !.base = trip.revision], p)
  PROVE  TripsInv'
<1>1. /\ editor[e] \in Editor /\ trip.revision \in Revisions
      /\ Good(editor[e], trip.revision, version, run)
  BY DEF TripsInv, TripsTypeOK, Trip, EditorsGood
<1> DEFINE l == [editor[e] EXCEPT !.kind = kind, !.base = trip.revision]
<1>2. kind \in Kinds
  BY DEF Kinds
<1>3. /\ l \in Editor /\ l.pc = editor[e].pc /\ l.kind = kind
      /\ l.run = editor[e].run /\ l.code = editor[e].code
  BY <1>1, <1>2 DEF Editor
<1>4. l.run = None /\ l.code = "none" /\ l.pc = "idle"
  BY <1>1, <1>3 DEF Good, EditorAt
<1>5. Owned(e, l, p)
  OBVIOUS
<1> HIDE DEF l
<1> QED BY <1>3, <1>4, <1>5, OwnedStep

LEMMA SoftDeleteStep ==
  ASSUME TripsInv, NEW e \in Editors, SoftDelete(e)
  PROVE  TripsInv'
<1>1. trip \in Trip /\ Good(editor[e], trip.revision, version, run)
  BY DEF TripsInv, TripsTypeOK, EditorsGood
<1>2. trip' = [trip EXCEPT !.status = "DELETED", !.deleted = TRUE]
  BY DEF SoftDelete
<1>3. /\ trip' \in Trip /\ trip'.revision = trip.revision /\ trip'.place = trip.place
      /\ trip'.route = trip.route /\ trip'.previous = trip.previous
  BY <1>1, <1>2 DEF Trip, TripStatuses
<1>4. editor[e].kind # "apply"
  BY <1>1 DEF Good, SoftDelete, EditorAt
<1>5. Reply(e, "ok") /\ "ok" \in EditorCodes /\ UNCHANGED <<run, version>>
  BY DEF SoftDelete, EditorCodes
<1> QED BY <1>3, <1>4, <1>5, ReplyStep

LEMMA PointRunStep ==
  ASSUME TripsInv, NEW e \in Editors, PointRun(e)
  PROVE  TripsInv'
<1>1. trip \in Trip /\ editor[e] \in Editor
  BY DEF TripsInv, TripsTypeOK
<1>2. trip' = [trip EXCEPT !.request = editor[e].run] /\ editor[e].run \in Opt(Runs)
  BY <1>1 DEF PointRun, Editor
<1>3. /\ trip' \in Trip /\ trip'.revision = trip.revision /\ trip'.place = trip.place
      /\ trip'.route = trip.route /\ trip'.previous = trip.previous
  BY <1>1, <1>2 DEF Trip
<1>4. Reply(e, "ok") /\ "ok" \in EditorCodes /\ UNCHANGED <<run, version>>
      /\ editor[e].pc = "point"
  BY DEF PointRun, EditorCodes, EditorAt
<1> QED BY <1>3, <1>4, ReplyStep

LEMMA LeaveStep ==
  ASSUME TripsInv, NEW e \in Editors, Leave(e)
  PROVE  TripsInv'
<1>1. Free \in Editor /\ trip \in Trip
  BY FreeTyped DEF TripsInv, TripsTypeOK
<1>2. Good(Free, trip.revision, version, run)
  BY DEF Good, Free
<1>3. editor' = [editor EXCEPT ![e] = Free] /\ UNCHANGED <<trip, run, version>>
  BY DEF Leave
<1> QED BY <1>1, <1>2, <1>3, Quiet

-----------------------------------------------------------------------------
(* The steps that make a revision or a run.                                *)

\* The revision after l.base becomes row; those up to it stay.
LEMMA WriteStep ==
  ASSUME TripsInv, NEW l \in Editor, NEW row \in Trip, Written(l, row), trip' = row,
         trip.revision = l.base, l.base < MaxRevision, row.revision = l.base + 1,
         row.place = IF l.place = None THEN trip.place ELSE l.place,
         l.route = None => row.route = trip.route /\ row.previous = trip.previous,
         l.route # None => row.route = l.route /\ row.previous = trip.route
  PROVE  /\ version' \in [Revisions -> Version]
         /\ EachChangeOnce'
         /\ \A n \in 1..trip.revision : version'[n] = version[n]
         /\ version'[row.revision].place = row.place
         /\ version'[row.revision].route = row.route
<1> DEFINE n == l.base + 1
           new == [writers |-> version[n].writers + 1, place |-> row.place,
                   route |-> row.route, previous |-> row.previous, changed |-> l.place,
                   applied |-> l.route]
<1>1. trip \in Trip /\ version \in [Revisions -> Version] /\ EachChangeOnce
  BY DEF TripsInv, TripsTypeOK
<1>2. l.base \in Revisions /\ n \in Revisions /\ n \in 2..n /\ n - 1 = l.base
  BY TripsAssumption DEF Editor, Revisions
<1>3. version[n].writers = 0
  <2>1. n \notin 2..trip.revision
    BY <1>2, TripsAssumption DEF Revisions
  <2> QED BY <1>1, <1>2, <2>1 DEF EachChangeOnce
<1>4. new \in Version /\ new.writers = 1
  BY <1>3 DEF Version, Trip, Editor
<1>5. version' = [version EXCEPT ![n] = new]
  BY <1>1, <1>2 DEF Written
<1>6. version' \in [Revisions -> Version] /\ version'[n] = new
  BY <1>1, <1>2, <1>4, <1>5
<1>7. \A i \in Revisions \ {n} : version'[i] = version[i]
  BY <1>1, <1>2, <1>5
<1>8. \A i \in 1..l.base : i \in Revisions \ {n}
  BY <1>2, TripsAssumption DEF Revisions
<1>9. /\ new.place = row.place /\ new.route = row.route /\ new.previous = row.previous
      /\ new.changed = l.place /\ new.applied = l.route
  OBVIOUS
<1> HIDE DEF new
<1>10. /\ version[l.base].place = trip.place /\ version[l.base].route = trip.route
       /\ version[l.base].previous = trip.previous
  BY <1>1 DEF EachChangeOnce
<1>11. EachChangeOnce'
  <2>1. row.revision = n
    OBVIOUS
  <2>2. ASSUME NEW i \in Revisions
        PROVE  version'[i].writers = IF i \in 2..n THEN 1 ELSE 0
    <3>1. CASE i = n
      BY <3>1, <1>2, <1>4, <1>6
    <3>2. CASE i # n
      <4>1. i \in 2..n <=> i \in 2..l.base
        BY <3>2, <1>2, TripsAssumption DEF Revisions
      <4> QED BY <3>2, <4>1, <1>1, <1>7 DEF EachChangeOnce
    <3> QED BY <3>1, <3>2
  <2>3. ASSUME NEW i \in 2..n
        PROVE  LET old == version'[i - 1]
                   now == version'[i] IN
               /\ now.place = IF now.changed = None THEN old.place ELSE now.changed
               /\ now.applied = None => now.route = old.route /\ now.previous = old.previous
               /\ now.applied # None => now.route = now.applied /\ now.previous = old.route
    <3>1. CASE i = n
      <4>1. version'[i - 1] = version[l.base]
        BY <3>1, <1>2, <1>7, <1>8, TripsAssumption DEF Revisions
      <4> QED BY <3>1, <4>1, <1>6, <1>9, <1>10
    <3>2. CASE i # n
      <4>1. i \in 2..l.base /\ i \in 1..l.base /\ i - 1 \in 1..l.base
        BY <3>2, <1>2, TripsAssumption DEF Revisions
      <4>2. version'[i] = version[i] /\ version'[i - 1] = version[i - 1]
        BY <4>1, <1>7, <1>8
      <4> QED BY <4>1, <4>2, <1>1 DEF EachChangeOnce
    <3> QED BY <3>1, <3>2
  <2> QED BY <2>1, <2>2, <2>3, <1>6, <1>9 DEF EachChangeOnce
<1> HIDE DEF n
<1>12. row.revision = n
  BY DEF n
<1> QED BY <1>6, <1>7, <1>8, <1>9, <1>11, <1>12

\* After a write by e, which continues with the locals k.
LEMMA AfterWrite ==
  ASSUME TripsInv, NEW e \in Editors, NEW k \in Editor, editor' = [editor EXCEPT ![e] = k],
         trip' \in Trip, trip'.revision = trip.revision + 1, UNCHANGED run,
         Good(k, trip'.revision, version', run),
         version' \in [Revisions -> Version], EachChangeOnce',
         \A n \in 1..trip.revision : version'[n] = version[n]
  PROVE  TripsInv'
<1>1. TripsTypeOK'
  BY DEF TripsInv, TripsTypeOK
<1>2. trip.revision \in Revisions /\ trip'.revision \in Revisions
      /\ trip.revision <= trip'.revision
  <2>1. trip.revision \in Revisions /\ trip'.revision \in Revisions
    BY DEF TripsInv, TripsTypeOK, Trip
  <2> QED BY <2>1, TripsAssumption DEF Revisions
<1>3. RunsDescribeRevisions'
  <2>1. \A i \in 1..trip.revision : i \in 1..trip'.revision
    BY <1>2, TripsAssumption DEF Revisions
  <2> QED BY <2>1 DEF TripsInv, RunsDescribeRevisions
<1>4. ASSUME NEW u \in Editors
      PROVE  Good(editor'[u], trip'.revision, version', run')
  <2>1. CASE u = e
    BY <2>1 DEF TripsInv, TripsTypeOK
  <2>2. CASE u # e
    <3>1. editor'[u] = editor[u] /\ editor[u] \in Editor
          /\ Good(editor[u], trip.revision, version, run)
      BY <2>2 DEF TripsInv, TripsTypeOK, EditorsGood
    <3>2. Good(editor[u], trip'.revision, version', run)
      BY <3>1, <1>2, GoodKept
    <3> QED BY <3>1, <3>2
  <2> QED BY <2>1, <2>2
<1> QED BY <1>1, <1>3, <1>4 DEF TripsInv, EachChangeOnce, EditorsGood

LEMMA WritePatchStep ==
  ASSUME TripsInv, NEW e \in Editors, WritePatch(e)
  PROVE  TripsInv'
<1> DEFINE l == editor[e]
           row == [trip EXCEPT !.revision = l.base + 1,
                     !.place = IF l.place = None THEN l.copy.place ELSE l.place,
                     !.status = IF l.mark = None THEN @ ELSE l.mark]
           k == Answer(l, "ok")
<1>1. /\ l \in Editor /\ trip \in Trip /\ EachChangeOnce
      /\ Good(l, trip.revision, version, run)
  BY DEF TripsInv, TripsTypeOK, EditorsGood
<1>2. /\ l.pc = "write" /\ trip.revision = l.base /\ trip' = row /\ Written(l, row)
      /\ editor' = [editor EXCEPT ![e] = k] /\ UNCHANGED run
  BY DEF WritePatch, EditorAt, Reply
<1>3. /\ l.kind = "patch" /\ l.route = None /\ l.base < MaxRevision
      /\ l.copy.place = version[l.base].place
  BY <1>1, <1>2 DEF Good
<1>4. l.copy.place = trip.place
  BY <1>1, <1>2, <1>3 DEF EachChangeOnce
<1>5. l.base \in Revisions /\ l.base + 1 \in Revisions
      /\ trip.revision <= l.base + 1
  BY <1>1, <1>2, <1>3, TripsAssumption DEF Editor, Revisions
<1>6. /\ row \in Trip /\ row.revision = l.base + 1
      /\ row.place = IF l.place = None THEN trip.place ELSE l.place
      /\ row.route = trip.route /\ row.previous = trip.previous
  <2>1. l.place \in Opt(Places) /\ l.mark \in Opt(Marks) /\ trip.place \in Places
        /\ trip.status \in TripStatuses
    BY <1>1 DEF Editor, Trip
  <2>2. (IF l.place = None THEN l.copy.place ELSE l.place) \in Places
    BY <1>4, <2>1 DEF Opt
  <2>3. (IF l.mark = None THEN trip.status ELSE l.mark) \in TripStatuses
    BY <2>1, TripsAssumption DEF Opt, TripStatuses
  <2> HIDE DEF l
  <2>4. row = [trip EXCEPT !.revision = l.base + 1,
                 !.place = IF l.place = None THEN l.copy.place ELSE l.place,
                 !.status = IF l.mark = None THEN trip.status ELSE l.mark]
    BY <1>1 DEF Trip
  <2> HIDE DEF row
  <2> QED BY <1>1, <1>4, <1>5, <2>2, <2>3, <2>4 DEF Trip
<1> HIDE DEF row
<1>7. /\ version' \in [Revisions -> Version] /\ EachChangeOnce'
      /\ \A n \in 1..trip.revision : version'[n] = version[n]
  BY <1>1, <1>2, <1>3, <1>6, WriteStep
<1>8. Good(l, trip'.revision, version', run)
  BY <1>1, <1>2, <1>5, <1>6, <1>7, GoodKept
<1>9. k \in Editor /\ Good(k, trip'.revision, version', run)
  <2>1. "ok" \in EditorCodes
    BY DEF EditorCodes
  <2> QED BY <1>1, <1>3, <1>8, <2>1, AnswerGood
<1> HIDE DEF l, k
<1> QED BY <1>2, <1>6, <1>7, <1>9, AfterWrite

LEMMA WriteApplyStep ==
  ASSUME TripsInv, NEW e \in Editors, WriteApply(e)
  PROVE  TripsInv'
<1> DEFINE l == editor[e]
           row == [trip EXCEPT !.revision = l.base + 1, !.route = l.route,
                               !.previous = l.copy.route]
           k == [l EXCEPT !.pc = "insert", !.copy = row]
<1>1. /\ l \in Editor /\ trip \in Trip /\ EachChangeOnce /\ editor \in [Editors -> Editor]
      /\ Good(l, trip.revision, version, run)
  BY DEF TripsInv, TripsTypeOK, EditorsGood
<1>2. /\ l.pc = "apply" /\ trip.revision = l.base /\ trip' = row /\ Written(l, row)
      /\ editor' = [editor EXCEPT ![e].pc = "insert", ![e].copy = row] /\ UNCHANGED run
  BY DEF WriteApply, EditorAt
<1>3. /\ l.kind = "apply" /\ l.route # None /\ l.place = None /\ l.base < MaxRevision
      /\ l.copy.route = version[l.base].route /\ l.code = "none"
  BY <1>1, <1>2 DEF Good
<1>4. l.copy.route = trip.route
  BY <1>1, <1>2, <1>3 DEF EachChangeOnce
<1>5. l.base \in Revisions /\ l.base + 1 \in Revisions /\ l.base + 1 <= l.base + 1
  BY <1>1, <1>3, TripsAssumption DEF Editor, Revisions
<1>6. /\ row \in Trip /\ row.revision = l.base + 1 /\ row.place = trip.place
      /\ row.route = l.route /\ row.previous = trip.route
  <2>1. l.route \in Opt(Routes) /\ trip.route \in Opt(Routes)
    BY <1>1 DEF Editor, Trip
  <2>2. row = [trip EXCEPT !.revision = l.base + 1, !.route = l.route, !.previous = trip.route]
    BY <1>4
  <2> HIDE DEF row, l
  <2> QED BY <1>1, <1>5, <2>1, <2>2 DEF Trip
<1> HIDE DEF row
<1>7. /\ version' \in [Revisions -> Version] /\ EachChangeOnce'
      /\ \A n \in 1..trip.revision : version'[n] = version[n]
      /\ version'[row.revision].place = row.place /\ version'[row.revision].route = row.route
  BY <1>1, <1>2, <1>3, <1>6, WriteStep
<1>8. /\ k \in Editor /\ k.pc = "insert" /\ k.copy = row /\ k.kind = "apply"
      /\ k.base = l.base /\ k.run = l.run /\ k.code = "none"
  <2>1. "insert" \in EditorPCs
    BY DEF EditorPCs
  <2> HIDE DEF l
  <2> QED BY <1>1, <1>3, <1>6, <2>1 DEF Editor
<1>9. editor' = [editor EXCEPT ![e] = k]
  BY <1>1, <1>2
<1> HIDE DEF k
<1>10. Good(k, trip'.revision, version', run)
  BY <1>1, <1>2, <1>5, <1>6, <1>7, <1>8 DEF Good
<1> HIDE DEF l
<1> QED BY <1>2, <1>6, <1>7, <1>8, <1>9, <1>10, AfterWrite

LEMMA InsertRunStep ==
  ASSUME TripsInv, NEW e \in Editors, InsertRun(e)
  PROVE  TripsInv'
<1> DEFINE l == editor[e]
           made == [revision |-> l.copy.revision, place |-> l.copy.place]
<1>1. PICK r \in Runs :
        /\ run[r] = {}
        /\ run' = [run EXCEPT ![r] = {made}]
        /\ editor' = [editor EXCEPT ![e].pc = "submit", ![e].run = r]
  BY DEF InsertRun
<1>2. /\ l \in Editor /\ editor \in [Editors -> Editor] /\ run \in [Runs -> SUBSET Started]
      /\ trip \in Trip /\ Good(l, trip.revision, version, run)
  BY DEF TripsInv, TripsTypeOK, EditorsGood
<1>3. l.pc = "insert" /\ UNCHANGED <<trip, version>>
  BY DEF InsertRun, EditorAt
<1>4. /\ l.copy \in Trip /\ l.copy.revision \in 1..trip.revision
      /\ l.copy.place = version[l.copy.revision].place /\ l.code = "none"
      /\ l.kind = "apply" => l.copy.revision = l.base + 1
  <2>1. l.copy \in Trip
    BY <1>2 DEF Editor
  <2>2. l.copy.revision \in Revisions /\ trip.revision \in Revisions
    BY <1>2, <2>1 DEF Trip
  <2>3. l.copy.revision <= trip.revision
    BY <1>2, <1>3 DEF Good
  <2> QED BY <1>2, <1>3, <2>1, <2>2, <2>3, TripsAssumption DEF Good, Revisions
<1>5. made \in Started /\ made.revision = l.copy.revision /\ made.place = l.copy.place
  BY <1>4 DEF Started, Trip
<1> HIDE DEF made
<1>6. run' \in [Runs -> SUBSET Started] /\ run'[r] = {made}
      /\ \A x \in Runs \ {r} : run'[x] = run[x]
  BY <1>1, <1>2, <1>5
<1> DEFINE k == [l EXCEPT !.pc = "submit", !.run = r]
<1>7. /\ k \in Editor /\ k.pc = "submit" /\ k.run = r /\ k.kind = l.kind
      /\ k.base = l.base /\ k.code = l.code
  <2>1. "submit" \in EditorPCs /\ r \in Opt(Runs)
    BY DEF EditorPCs, Opt
  <2> HIDE DEF l
  <2> QED BY <1>2, <2>1 DEF Editor
<1>8. editor' = [editor EXCEPT ![e] = k]
  BY <1>1, <1>2
<1> HIDE DEF k
<1>9. Good(k, trip.revision, version, run')
  <2>1. r # None
    BY TripsAssumption
  <2> QED BY <1>4, <1>5, <1>6, <1>7, <2>1 DEF Good
<1>10. TripsTypeOK'
  BY <1>3, <1>6, <1>7, <1>8 DEF TripsInv, TripsTypeOK
<1>11. EachChangeOnce'
  BY <1>3 DEF TripsInv, EachChangeOnce
<1>12. RunsDescribeRevisions'
  BY <1>3, <1>4, <1>5, <1>6 DEF TripsInv, RunsDescribeRevisions
<1>13. ASSUME NEW u \in Editors
       PROVE  Good(editor'[u], trip.revision, version, run')
  <2>1. CASE u = e
    BY <2>1, <1>2, <1>8, <1>9
  <2>2. CASE u # e
    <3>1. editor'[u] = editor[u] /\ editor[u] \in Editor
          /\ Good(editor[u], trip.revision, version, run)
      BY <2>2, <1>2, <1>8 DEF TripsInv, EditorsGood
    <3>2. \A x \in Runs : run[x] # {} => run'[x] = run[x]
      BY <1>1, <1>6
    <3>3. trip.revision \in Revisions /\ trip.revision <= trip.revision
      <4>1. trip.revision \in Revisions
        BY <1>2 DEF Trip
      <4> QED BY <4>1, TripsAssumption DEF Revisions
    <3>4. Good(editor[u], trip.revision, version, run')
      BY <3>1, <3>2, <3>3, GoodKept
    <3> QED BY <3>1, <3>4
  <2> QED BY <2>1, <2>2
<1> QED BY <1>3, <1>10, <1>11, <1>12, <1>13 DEF TripsInv, EditorsGood

-----------------------------------------------------------------------------
LEMMA InitTrips == TripsInit => TripsInv
<1> SUFFICES ASSUME TripsInit PROVE TripsInv
  OBVIOUS
<1>1. PICK place \in Places :
        /\ trip = NewTrip(place)
        /\ editor = [e \in Editors |-> Free]
        /\ run = [r \in Runs |-> {}]
        /\ version = [n \in Revisions |-> Unwritten(place)]
  BY DEF TripsInit
<1>2. trip \in Trip
  BY <1>1, TripsAssumption DEF NewTrip, Trip, Revisions, TripStatuses, Opt
<1>3. version \in [Revisions -> Version]
  BY <1>1, TripsAssumption DEF Unwritten, Version, Opt
<1>4. TripsTypeOK
  BY <1>1, <1>2, <1>3, FreeTyped DEF TripsTypeOK
<1>5. EachChangeOnce
  <2>1. trip.revision = 1 /\ trip.place = place /\ trip.route = None /\ trip.previous = None
    BY <1>1 DEF NewTrip
  <2>2. 1 \in Revisions /\ 2..1 = {}
    BY TripsAssumption DEF Revisions
  <2> QED BY <1>1, <2>1, <2>2 DEF EachChangeOnce, Unwritten
<1>6. RunsDescribeRevisions
  BY <1>1 DEF RunsDescribeRevisions
<1>7. EditorsGood
  BY <1>1 DEF EditorsGood, Good, Free
<1> QED BY <1>4, <1>5, <1>6, <1>7 DEF TripsInv

LEMMA NextTrips == TripsInv /\ [TripsNext]_tripVars => TripsInv'
<1> SUFFICES ASSUME TripsInv, [TripsNext]_tripVars PROVE TripsInv'
  OBVIOUS
<1>1. CASE UNCHANGED tripVars
  BY <1>1 DEF TripsInv, tripVars, TripsTypeOK, EachChangeOnce, RunsDescribeRevisions, EditorsGood
<1>2. ASSUME NEW e \in Editors,
             \/ Concurrent(e) \/ AdviceRefused(e) \/ StartRefused(e) \/ AgentRefuses(e)
      PROVE  TripsInv'
  <2>1. trip \in Trip /\ UNCHANGED <<trip, run, version>>
    BY <1>2 DEF TripsInv, TripsTypeOK, Concurrent, AdviceRefused, StartRefused, AgentRefuses
  <2>2. \E code \in EditorCodes \ {"ok"} : Reply(e, code)
    BY <1>2 DEF EditorCodes, Concurrent, AdviceRefused, StartRefused, AgentRefuses
  <2> QED BY <2>1, <2>2, ReplyStep
<1>3. ASSUME NEW e \in Editors, FetchAdvice(e) \/ AgentAccepts(e)
      PROVE  TripsInv'
  BY <1>3, MoveStep DEF FetchAdvice, AgentAccepts, EditorAt, EditorPCs
<1>4. ASSUME NEW e \in Editors, BeginDelete(e) \/ BeginAssess(e)
      PROVE  TripsInv'
  BY <1>4, BeginUnconditionalStep DEF BeginDelete, BeginAssess
<1> QED BY <1>1, <1>2, <1>3, <1>4, BeginPatchStep, BeginApplyStep, WritePatchStep,
           WriteApplyStep, SoftDeleteStep, InsertRunStep, PointRunStep, LeaveStep DEF TripsNext

\* Every variable keeps its type, however handlers interleave, fail and die (the rows of
\* travel.trips and travel.requests, and each handler's copy).
THEOREM TripsTyped == TripsSpec => []TripsTypeOK
<1>1. TripsInv => TripsTypeOK
  BY DEF TripsInv
<1> QED BY <1>1, InitTrips, NextTrips, PTL DEF TripsSpec

\* Whatever the number of clients and of edits: a change is applied once or not at all, on
\* the revision its If-Match named, no change undoes another, a run describes a revision
\* the trip had, and a confirmed route is assessed at its own revision (trips.py).
THEOREM TripsAgree == TripsSpec => []RevisionsAgree
BY TripsInvImplies, InitTrips, NextTrips, PTL DEF TripsSpec

-----------------------------------------------------------------------------
(***************************************************************************)
(* Consents: its types, and that nothing outlives its consent unnoticed.   *)
(***************************************************************************)


\* A subscription whose consent was revoked is excused or about to be revoked.
SubAnswered(s) ==
  \/ ~consent[sub[s].consent].revoked
  \/ sub[s].late \/ sub[s].consent \in unreached
  \/ \E a \in Askers : WillTell(a, sub[s].consent)

SubsAnswered == \A s \in Subs : sub[s].status = "ACTIVE" => SubAnswered(s)

ProfileAnswered ==
  profile /\ ~kept =>
    /\ account # "closed"
    /\ \/ Granted(EMERGENCY) # {}
       \/ \E a \in Askers : asker[a].type = EMERGENCY /\ asker[a].pc \in {"close", "purge"}

LEMMA Split == NothingOutlivesConsent <=> SubsAnswered /\ ProfileAnswered
BY DEF NothingOutlivesConsent, SubsAnswered, SubAnswered, ProfileAnswered

\* Handlers and subscriptions refer to consents of their own type: what a handler closes or
\* tells the other service about is what the subscriptions were made with.
AskerSound(a) ==
  /\ AskerAt(a, "subscribe") => asker[a].consent \in OfType(ALERT)
  /\ AskerAt(a, "close") => asker[a].list \subseteq OfType(asker[a].type)

Sound ==
  /\ \A a \in Askers : AskerSound(a)
  /\ \A s \in Subs : sub[s].status # "none" => sub[s].consent \in OfType(ALERT)

ConsentsInv == ConsentsTypeOK /\ Sound /\ SubsAnswered /\ ProfileAnswered

-----------------------------------------------------------------------------
\* A consent that was given stays what it is: an insertion uses another row, and expiry and
\* revocation leave its type.
LEMMA OfTypeGrows ==
  ASSUME ConsentsTypeOK,
         \A c \in ConsentIds : consent[c].state # "unused" =>
           consent'[c].state # "unused" /\ consent'[c].type = consent[c].type
  PROVE  \A t \in Types : OfType(t) \subseteq OfType(t)'
BY DEF OfType, ConsentsTypeOK

LEMMA TypesDiffer == ALERT # EMERGENCY /\ ALERT \in Types /\ EMERGENCY \in Types
BY DEF ALERT, EMERGENCY, Types

\* An insertion: one row, unused before.
LEMMA RecordTyped ==
  ASSUME ConsentsTypeOK, NEW state \in {"granted", "refusal"}, NEW type \in Types,
         NEW revoked \in BOOLEAN, Record(state, type, revoked)
  PROVE  /\ consent' \in [ConsentIds -> Consent]
         /\ \A c \in ConsentIds : consent[c].state # "unused" => consent'[c] = consent[c]
<1> DEFINE new == [state |-> state, type |-> type, revoked |-> revoked, expired |-> FALSE]
<1>1. PICK c \in ConsentIds : consent[c].state = "unused" /\ consent' = [consent EXCEPT ![c] = new]
  BY DEF Record
<1>2. new \in Consent
  BY DEF Consent
<1> HIDE DEF new
<1> QED BY <1>1, <1>2 DEF ConsentsTypeOK

-----------------------------------------------------------------------------
(* POST /consents.                                                         *)

LEMMA GrantStep ==
  ASSUME ConsentsInv, NEW a \in Askers, Grant(a)
  PROVE  ConsentsInv'
<1>1. /\ consent' \in [ConsentIds -> Consent]
      /\ \A c \in ConsentIds : consent[c].state # "unused" => consent'[c] = consent[c]
      /\ UNCHANGED <<asker, sub, profile, account, unreached, kept>>
  <2>1. PICK type \in Types : Record("granted", type, FALSE)
    BY DEF Grant
  <2> QED BY <2>1, RecordTyped DEF ConsentsInv, Grant
<1>2. \A t \in Types : OfType(t) \subseteq OfType(t)'
  BY <1>1, OfTypeGrows DEF ConsentsInv
<1>3. ConsentsTypeOK'
  BY <1>1 DEF ConsentsInv, ConsentsTypeOK
<1>4. Sound'
  <2>1. \A b \in Askers : asker[b].type \in Types
    BY DEF ConsentsInv, ConsentsTypeOK, Asker
  <2> QED BY <1>1, <1>2, <2>1, TypesDiffer DEF ConsentsInv, Sound, AskerSound, AskerAt
<1>5. SubsAnswered'
  <2>1. \A s \in Subs : sub[s].status = "ACTIVE" => sub[s].consent \in OfType(ALERT)
    BY DEF ConsentsInv, Sound
  <2> QED BY <1>1, <2>1 DEF ConsentsInv, SubsAnswered, SubAnswered, WillTell, AskerAt, OfType
<1>6. ProfileAnswered'
  <2>1. Granted(EMERGENCY) \subseteq Granted(EMERGENCY)'
    BY <1>1, <1>2, TypesDiffer DEF Granted, OfType
  <2> QED BY <1>1, <2>1 DEF ConsentsInv, ProfileAnswered
<1> QED BY <1>3, <1>4, <1>5, <1>6 DEF ConsentsInv

LEMMA ExpireStep ==
  ASSUME ConsentsInv, NEW c \in ConsentIds, Expire(c)
  PROVE  ConsentsInv'
<1> DEFINE new == [consent[c] EXCEPT !.expired = TRUE]
<1>1. /\ new \in Consent /\ new.state = consent[c].state /\ new.type = consent[c].type
      /\ new.revoked = consent[c].revoked
  BY DEF ConsentsInv, ConsentsTypeOK, Consent
<1>2. consent' = [consent EXCEPT ![c] = new]
      /\ UNCHANGED <<asker, sub, profile, account, unreached, kept>>
  BY DEF Expire
<1> HIDE DEF new
<1>3. consent' \in [ConsentIds -> Consent]
      /\ \A d \in ConsentIds : /\ consent'[d].state = consent[d].state
                               /\ consent'[d].type = consent[d].type
                               /\ consent'[d].revoked = consent[d].revoked
  BY <1>1, <1>2 DEF ConsentsInv, ConsentsTypeOK
<1>4. \A t : OfType(t)' = OfType(t) /\ Granted(t)' = Granted(t)
  BY <1>3 DEF OfType, Granted
<1>5. \A s \in Subs : sub[s].status = "ACTIVE" => sub[s].consent \in ConsentIds
  BY DEF ConsentsInv, Sound, OfType
<1> QED BY <1>2, <1>3, <1>4, <1>5
        DEF ConsentsInv, ConsentsTypeOK, Sound, AskerSound, AskerAt, SubsAnswered, SubAnswered,
            WillTell, ProfileAnswered

-----------------------------------------------------------------------------
\* A step of handler a, to locals l, that leaves the consents alone and does not lower what
\* others may excuse themselves with.
LEMMA AskerStep ==
  ASSUME ConsentsInv, NEW a \in Askers, NEW l \in Asker, asker' = [asker EXCEPT ![a] = l],
         UNCHANGED <<consent, sub, profile, account, kept>>,
         unreached \subseteq unreached', unreached' \subseteq ConsentIds,
         l.pc = "subscribe" => l.consent \in OfType(ALERT),
         l.pc = "close" => l.list \subseteq OfType(l.type),
         \A c \in OfType(ALERT) : WillTell(a, c) => WillTell(a, c)' \/ c \in unreached',
         asker[a].type = EMERGENCY /\ asker[a].pc \in {"close", "purge"} =>
           \/ ~profile \/ kept
           \/ l.type = EMERGENCY /\ l.pc \in {"close", "purge"}
  PROVE  ConsentsInv'
<1>1. ConsentsTypeOK'
  BY DEF ConsentsInv, ConsentsTypeOK
<1>2. \A t : OfType(t)' = OfType(t) /\ Granted(t)' = Granted(t)
  BY DEF OfType, Granted
<1>3. asker'[a] = l /\ \A b \in Askers \ {a} : asker'[b] = asker[b]
  BY DEF ConsentsInv, ConsentsTypeOK
<1>4. Sound'
  BY <1>2, <1>3 DEF ConsentsInv, Sound, AskerSound, AskerAt
<1>5. SubsAnswered'
  <2> SUFFICES ASSUME NEW s \in Subs, sub[s].status = "ACTIVE"
               PROVE  SubAnswered(s)'
    BY DEF SubsAnswered
  <2>1. SubAnswered(s) /\ sub[s].consent \in OfType(ALERT)
    BY DEF ConsentsInv, SubsAnswered, Sound
  <2>2. CASE \E b \in Askers : WillTell(b, sub[s].consent)
    <3>1. PICK b \in Askers : WillTell(b, sub[s].consent)
      BY <2>2
    <3>2. CASE b = a
      BY <2>1, <3>1, <3>2 DEF SubAnswered, WillTell
    <3>3. CASE b # a
      <4>1. WillTell(b, sub[s].consent)'
        BY <3>1, <3>3, <1>3 DEF WillTell, AskerAt
      <4> QED BY <4>1 DEF SubAnswered, WillTell
    <3> QED BY <3>2, <3>3
  <2>3. CASE ~\E b \in Askers : WillTell(b, sub[s].consent)
    BY <2>1, <2>3 DEF SubAnswered
  <2> QED BY <2>2, <2>3
<1>6. ProfileAnswered'
  BY <1>2, <1>3 DEF ConsentsInv, ProfileAnswered
<1> QED BY <1>1, <1>4, <1>5, <1>6 DEF ConsentsInv

LEMMA AtRestTyped == AtRest \in Asker /\ AtRest.pc = "idle"
BY TypesDiffer DEF AtRest, Asker, AskerPCs

\* A handler that ends and that nobody counted on.
LEMMA EndStep ==
  ASSUME ConsentsInv, NEW a \in Askers, Answered(a),
         UNCHANGED <<consent, sub, profile, account, kept>>,
         unreached \subseteq unreached', unreached' \subseteq ConsentIds,
         \A c \in OfType(ALERT) : WillTell(a, c) => c \in unreached',
         asker[a].type = EMERGENCY /\ asker[a].pc \in {"close", "purge"} => ~profile \/ kept
  PROVE  ConsentsInv'
<1>1. asker' = [asker EXCEPT ![a] = AtRest]
  BY DEF Answered
<1>2. AtRest \in Asker /\ AtRest.pc = "idle"
  BY AtRestTyped
<1>3. AtRest.pc # "subscribe" /\ AtRest.pc # "close"
  BY <1>2
<1> HIDE DEF AtRest
<1>4. \A c \in OfType(ALERT) : WillTell(a, c) => WillTell(a, c)' \/ c \in unreached'
  OBVIOUS
<1> QED BY <1>1, <1>2, <1>3, <1>4, AskerStep

\* A handler that moves on with its type and list.
LEMMA ContinueStep ==
  ASSUME ConsentsInv, NEW a \in Askers, NEW p \in {"put", "list", "purge"}, Continue(a, p),
         asker[a].pc = "idle", UNCHANGED <<consent, sub, profile, account, kept, unreached>>
  PROVE  ConsentsInv'
<1> DEFINE l == [asker[a] EXCEPT !.pc = p]
<1>1. p \in AskerPCs
  BY DEF AskerPCs
<1>2. l \in Asker /\ l.pc = p
  BY <1>1 DEF ConsentsInv, ConsentsTypeOK, Asker
<1>3. asker' = [asker EXCEPT ![a] = l]
  BY DEF Continue
<1> HIDE DEF l
<1>4. \A c \in OfType(ALERT) : ~WillTell(a, c)
  BY DEF WillTell, AskerAt
<1>5. unreached' \subseteq ConsentIds
  BY DEF ConsentsInv, ConsentsTypeOK
<1> QED BY <1>2, <1>3, <1>4, <1>5, AskerStep

LEMMA BeginRevokeStep ==
  ASSUME ConsentsInv, NEW a \in Askers, BeginRevoke(a)
  PROVE  ConsentsInv'
<1>1. PICK type \in Types : asker' = [asker EXCEPT ![a] =
         [pc |-> "close", type |-> type, consent |-> Nobody, list |-> Granted(type)]]
  BY DEF BeginRevoke
<1> DEFINE l == [pc |-> "close", type |-> type, consent |-> Nobody, list |-> Granted(type)]
<1>2. /\ l \in Asker /\ l.pc = "close" /\ l.list \subseteq OfType(l.type)
  BY DEF Asker, AskerPCs, Granted, OfType
<1>3. asker[a].pc = "idle" /\ UNCHANGED <<consent, sub, profile, account, kept, unreached>>
  BY DEF BeginRevoke, AskerAt
<1>4. \A c \in OfType(ALERT) : ~WillTell(a, c)
  BY <1>3 DEF WillTell, AskerAt
<1>5. unreached' \subseteq ConsentIds
  BY <1>3 DEF ConsentsInv, ConsentsTypeOK
<1>6. asker' = [asker EXCEPT ![a] = l]
  BY <1>1
<1> HIDE DEF l
<1> QED BY <1>2, <1>3, <1>4, <1>5, <1>6, AskerStep

LEMMA CloseStep ==
  ASSUME ConsentsInv, NEW a \in Askers, Close(a)
  PROVE  ConsentsInv'
<1>1. PICK c \in asker[a].list :
        /\ consent' = [consent EXCEPT ![c].revoked = TRUE]
        /\ asker' = [asker EXCEPT ![a].list = @ \ {c}]
  BY DEF Close
<1>2. /\ asker[a] \in Asker /\ asker[a].pc = "close" /\ asker[a].list \subseteq OfType(asker[a].type)
      /\ asker[a].type \in Types
  BY DEF ConsentsInv, ConsentsTypeOK, Close, AskerAt, Sound, AskerSound, Asker
<1>3. c \in ConsentIds /\ consent[c].type = asker[a].type
  BY <1>1, <1>2 DEF OfType
<1>4. UNCHANGED <<sub, profile, account, unreached, kept>>
  BY DEF Close
<1> DEFINE new == [consent[c] EXCEPT !.revoked = TRUE]
           l == [asker[a] EXCEPT !.list = @ \ {c}]
<1>5. /\ new \in Consent /\ new.state = consent[c].state /\ new.type = consent[c].type
  BY <1>3 DEF ConsentsInv, ConsentsTypeOK, Consent
<1>6. consent' = [consent EXCEPT ![c] = new]
  BY <1>1
<1>7. /\ l \in Asker /\ l.pc = "close" /\ l.type = asker[a].type
      /\ l.list \subseteq asker[a].list
  BY <1>2 DEF Asker
<1>8. asker' = [asker EXCEPT ![a] = l]
  BY <1>1
<1> HIDE DEF new, l
<1>9. /\ consent' \in [ConsentIds -> Consent]
      /\ \A d \in ConsentIds : consent'[d].state = consent[d].state
                               /\ consent'[d].type = consent[d].type
      /\ \A d \in ConsentIds \ {c} : consent'[d] = consent[d]
  BY <1>3, <1>5, <1>6 DEF ConsentsInv, ConsentsTypeOK
<1>10. asker' \in [Askers -> Asker] /\ asker'[a] = l
       /\ \A b \in Askers \ {a} : asker'[b] = asker[b]
  BY <1>7, <1>8 DEF ConsentsInv, ConsentsTypeOK
<1>11. \A t : OfType(t)' = OfType(t)
  BY <1>9 DEF OfType
<1>12. ConsentsTypeOK'
  BY <1>4, <1>9, <1>10 DEF ConsentsInv, ConsentsTypeOK
<1>13. Sound'
  BY <1>2, <1>4, <1>7, <1>10, <1>11 DEF ConsentsInv, Sound, AskerSound, AskerAt
<1>14. SubsAnswered'
  <2> SUFFICES ASSUME NEW s \in Subs, sub[s].status = "ACTIVE"
               PROVE  SubAnswered(s)'
    BY <1>4 DEF SubsAnswered
  <2>1. SubAnswered(s) /\ sub[s].consent \in OfType(ALERT) /\ sub[s].consent \in ConsentIds
        /\ consent[sub[s].consent].type = ALERT
    BY DEF ConsentsInv, SubsAnswered, Sound, OfType
  <2>2. \A b \in Askers : WillTell(b, sub[s].consent) => WillTell(b, sub[s].consent)'
    BY <1>2, <1>4, <1>7, <1>10 DEF WillTell, AskerAt
  <2>3. CASE sub[s].consent = c
    <3>1. WillTell(a, c)'
      BY <1>3, <1>7, <1>10, <2>1, <2>3 DEF WillTell, AskerAt
    <3> QED BY <1>4, <2>3, <3>1 DEF SubAnswered
  <2>4. CASE sub[s].consent # c
    <3>1. consent'[sub[s].consent] = consent[sub[s].consent]
      BY <2>1, <2>4, <1>9
    <3> QED BY <1>4, <2>1, <2>2, <3>1 DEF SubAnswered
  <2> QED BY <2>3, <2>4
<1>15. ProfileAnswered'
  <2>1. CASE asker[a].type = EMERGENCY
    BY <1>4, <1>7, <1>10, <2>1 DEF ConsentsInv, ProfileAnswered
  <2>2. CASE asker[a].type # EMERGENCY
    <3>1. Granted(EMERGENCY)' = Granted(EMERGENCY)
      BY <1>3, <1>9, <2>2 DEF Granted, OfType
    <3>2. \A b \in Askers : asker[b].type = EMERGENCY => asker'[b] = asker[b]
      BY <1>10, <2>2
    <3> QED BY <1>4, <3>1, <3>2 DEF ConsentsInv, ProfileAnswered
  <2> QED BY <2>1, <2>2
<1> QED BY <1>12, <1>13, <1>14, <1>15 DEF ConsentsInv

LEMMA RefuseStep ==
  ASSUME ConsentsInv, NEW a \in Askers, Refuse(a)
  PROVE  ConsentsInv'
<1> DEFINE p == IF asker[a].type = ALERT THEN "list" ELSE "purge"
           l == [asker[a] EXCEPT !.pc = p]
<1>1. asker[a] \in Asker /\ asker[a].pc = "close" /\ asker[a].type \in Types
  BY DEF ConsentsInv, ConsentsTypeOK, Refuse, AskerAt, Asker
<1>2. p \in {"list", "purge"} /\ p \in AskerPCs /\ (p = "list" <=> asker[a].type = ALERT)
  BY DEF AskerPCs
<1>3. asker' = [asker EXCEPT ![a] = l] /\ UNCHANGED <<sub, profile, account, unreached, kept>>
  BY DEF Refuse, Continue
<1> HIDE DEF p
<1>4. l \in Asker /\ l.pc = p /\ l.type = asker[a].type
  BY <1>1, <1>2 DEF Asker
<1> HIDE DEF l
<1>5. /\ consent' \in [ConsentIds -> Consent]
      /\ \A c \in ConsentIds : consent[c].state # "unused" => consent'[c] = consent[c]
  <2>1. Record("refusal", asker[a].type, TRUE)
    BY DEF Refuse
  <2> QED BY <1>1, <2>1, RecordTyped DEF ConsentsInv
<1>6. \A t \in Types : OfType(t) \subseteq OfType(t)'
  BY <1>5, OfTypeGrows DEF ConsentsInv
<1>7. asker' \in [Askers -> Asker] /\ asker'[a] = l
      /\ \A b \in Askers \ {a} : asker'[b] = asker[b]
  BY <1>3, <1>4 DEF ConsentsInv, ConsentsTypeOK
<1>8. ConsentsTypeOK'
  BY <1>3, <1>5, <1>7 DEF ConsentsInv, ConsentsTypeOK
<1>9. Sound'
  <2>1. \A b \in Askers : asker[b].type \in Types
    BY DEF ConsentsInv, ConsentsTypeOK, Asker
  <2> QED BY <1>2, <1>3, <1>4, <1>6, <1>7, <2>1, TypesDiffer DEF ConsentsInv, Sound, AskerSound, AskerAt
<1>10. SubsAnswered'
  <2>1. \A s \in Subs : sub[s].status = "ACTIVE" =>
          sub[s].consent \in ConsentIds /\ consent[sub[s].consent].state # "unused"
    BY DEF ConsentsInv, Sound, OfType
  <2>2. \A b \in Askers, c \in ConsentIds : WillTell(b, c) => WillTell(b, c)'
    BY <1>1, <1>2, <1>4, <1>7 DEF WillTell, AskerAt
  <2>3. ASSUME NEW s \in Subs, sub[s].status = "ACTIVE"
        PROVE  SubAnswered(s)'
    <3>1. SubAnswered(s) /\ consent'[sub[s].consent] = consent[sub[s].consent]
          /\ sub[s].consent \in ConsentIds
      BY <1>5, <2>1, <2>3 DEF ConsentsInv, SubsAnswered
    <3> QED BY <1>3, <2>2, <3>1 DEF SubAnswered
  <2> QED BY <1>3, <2>3 DEF SubsAnswered
<1>11. ProfileAnswered'
  <2>1. Granted(EMERGENCY) \subseteq Granted(EMERGENCY)'
    BY <1>5 DEF Granted, OfType
  <2>2. \A b \in Askers : asker[b].type = EMERGENCY /\ asker[b].pc \in {"close", "purge"} =>
          asker'[b].type = EMERGENCY /\ asker'[b].pc \in {"close", "purge"}
    BY <1>2, <1>4, <1>7, TypesDiffer
  <2> QED BY <1>3, <2>1, <2>2 DEF ConsentsInv, ProfileAnswered
<1> QED BY <1>8, <1>9, <1>10, <1>11 DEF ConsentsInv

LEMMA ListConsentsStep ==
  ASSUME ConsentsInv, NEW a \in Askers, ListConsents(a)
  PROVE  ConsentsInv'
<1> DEFINE l == [asker[a] EXCEPT !.pc = "tell", !.list = OfType(asker[a].type)]
<1>1. asker' = [asker EXCEPT ![a] = l] /\ asker[a].pc = "list"
      /\ UNCHANGED <<consent, sub, profile, account, unreached, kept>>
  BY DEF ListConsents, AskerAt
<1>2. l \in Asker /\ l.pc = "tell" /\ l.type = asker[a].type /\ l.list = OfType(asker[a].type)
  BY DEF ConsentsInv, ConsentsTypeOK, Asker, AskerPCs, OfType
<1> HIDE DEF l
<1>3. \A c \in OfType(ALERT) : WillTell(a, c) => WillTell(a, c)'
  BY <1>1, <1>2 DEF WillTell, AskerAt, ConsentsInv, ConsentsTypeOK
<1>4. unreached' \subseteq ConsentIds
  BY <1>1 DEF ConsentsInv, ConsentsTypeOK
<1> QED BY <1>1, <1>2, <1>3, <1>4, AskerStep

\* The next consent is c; a handler that tells of it no longer has to.
Next1Told(a, c) == [asker[a] EXCEPT !.list = @ \ {c}]

LEMMA TellStep ==
  ASSUME ConsentsInv, NEW a \in Askers, NEW c \in asker[a].list, asker[a].pc = "tell",
         asker' = [asker EXCEPT ![a].list = @ \ {c}]
  PROVE  /\ Next1Told(a, c) \in Asker /\ Next1Told(a, c).pc = "tell"
         /\ asker' = [asker EXCEPT ![a] = Next1Told(a, c)]
         /\ c \in ConsentIds
         /\ \A d \in ConsentIds \ {c} : WillTell(a, d) => WillTell(a, d)'
<1> DEFINE l == Next1Told(a, c)
<1>1. asker[a] \in Asker /\ c \in ConsentIds
  BY DEF ConsentsInv, ConsentsTypeOK, Asker
<1>2. l \in Asker /\ l.pc = "tell" /\ l.type = asker[a].type /\ l.list = asker[a].list \ {c}
  BY <1>1 DEF Next1Told, Asker
<1>3. asker' = [asker EXCEPT ![a] = l]
  BY DEF Next1Told
<1> HIDE DEF l
<1>4. asker'[a] = l
  BY <1>3 DEF ConsentsInv, ConsentsTypeOK
<1>5. \A d \in ConsentIds \ {c} : WillTell(a, d) => WillTell(a, d)'
  BY <1>2, <1>4 DEF WillTell, AskerAt
<1> QED BY <1>1, <1>2, <1>3, <1>5 DEF l

LEMMA TellFailsStep ==
  ASSUME ConsentsInv, NEW a \in Askers, TellFails(a)
  PROVE  ConsentsInv'
<1>1. PICK c \in asker[a].list : /\ unreached' = unreached \cup {c}
                                 /\ asker' = [asker EXCEPT ![a].list = @ \ {c}]
  BY DEF TellFails
<1>2. asker[a].pc = "tell" /\ UNCHANGED <<consent, sub, profile, account, kept>>
  BY DEF TellFails, AskerAt
<1> DEFINE l == Next1Told(a, c)
<1>3. /\ l \in Asker /\ l.pc = "tell" /\ asker' = [asker EXCEPT ![a] = l] /\ c \in ConsentIds
      /\ \A d \in ConsentIds \ {c} : WillTell(a, d) => WillTell(a, d)'
  BY <1>1, <1>2, TellStep
<1> HIDE DEF l
<1>4. unreached \subseteq unreached' /\ unreached' \subseteq ConsentIds
  BY <1>1, <1>3 DEF ConsentsInv, ConsentsTypeOK
<1>5. \A d \in OfType(ALERT) : WillTell(a, d) => WillTell(a, d)' \/ d \in unreached'
  BY <1>1, <1>3 DEF OfType
<1> QED BY <1>2, <1>3, <1>4, <1>5, AskerStep

LEMMA TellRevokedStep ==
  ASSUME ConsentsInv, NEW a \in Askers, TellRevoked(a)
  PROVE  ConsentsInv'
<1>1. PICK c \in asker[a].list :
        /\ sub' = [s \in Subs |-> IF sub[s].status = "ACTIVE" /\ sub[s].consent = c
                                    THEN [sub[s] EXCEPT !.status = "REVOKED"] ELSE sub[s]]
        /\ asker' = [asker EXCEPT ![a].list = @ \ {c}]
  BY DEF TellRevoked
<1>2. asker[a].pc = "tell" /\ UNCHANGED <<consent, profile, account, unreached, kept>>
  BY DEF TellRevoked, AskerAt
<1> DEFINE l == Next1Told(a, c)
<1>3. /\ l \in Asker /\ l.pc = "tell" /\ asker' = [asker EXCEPT ![a] = l] /\ c \in ConsentIds
      /\ \A d \in ConsentIds \ {c} : WillTell(a, d) => WillTell(a, d)'
  BY <1>1, <1>2, TellStep
<1> HIDE DEF l
<1>4. asker' \in [Askers -> Asker] /\ asker'[a] = l
      /\ \A b \in Askers \ {a} : asker'[b] = asker[b]
  BY <1>3 DEF ConsentsInv, ConsentsTypeOK
<1>5. /\ sub' \in [Subs -> Sub]
      /\ \A s \in Subs : sub'[s].consent = sub[s].consent /\ sub'[s].late = sub[s].late
      /\ \A s \in Subs : sub'[s].status = "ACTIVE" => sub[s].status = "ACTIVE" /\ sub[s].consent # c
      /\ \A s \in Subs : sub'[s].status # "none" => sub[s].status # "none"
  BY <1>1 DEF ConsentsInv, ConsentsTypeOK, Sub
<1>6. \A t : OfType(t)' = OfType(t) /\ Granted(t)' = Granted(t)
  BY <1>2 DEF OfType, Granted
<1>7. ConsentsTypeOK'
  BY <1>2, <1>4, <1>5 DEF ConsentsInv, ConsentsTypeOK
<1>8. Sound'
  BY <1>3, <1>4, <1>5, <1>6 DEF ConsentsInv, Sound, AskerSound, AskerAt
<1>9. SubsAnswered'
  <2> SUFFICES ASSUME NEW s \in Subs, sub'[s].status = "ACTIVE"
               PROVE  SubAnswered(s)'
    BY DEF SubsAnswered
  <2>1. SubAnswered(s) /\ sub[s].consent \in ConsentIds \ {c}
    BY <1>5 DEF ConsentsInv, SubsAnswered, Sound, OfType
  <2>2. \A b \in Askers : WillTell(b, sub[s].consent) => WillTell(b, sub[s].consent)'
    <3>1. ASSUME NEW b \in Askers, WillTell(b, sub[s].consent)
          PROVE  WillTell(b, sub[s].consent)'
      <4>1. CASE b = a
        BY <1>1, <1>3, <1>4, <1>5, <2>1, <3>1, <4>1, <1>2 DEF WillTell, AskerAt
      <4>2. CASE b # a
        BY <1>4, <1>5, <3>1, <4>2 DEF WillTell, AskerAt
      <4> QED BY <4>1, <4>2
    <3> QED BY <3>1
  <2> QED BY <1>2, <1>5, <2>1, <2>2 DEF SubAnswered, WillTell, AskerAt
<1>10. ProfileAnswered'
  BY <1>2, <1>4, <1>6 DEF ConsentsInv, ProfileAnswered
<1> QED BY <1>7, <1>8, <1>9, <1>10 DEF ConsentsInv

LEMMA ToldStep ==
  ASSUME ConsentsInv, NEW a \in Askers, Told(a)
  PROVE  ConsentsInv'
<1>1. /\ asker[a].pc = "tell" /\ asker[a].list = {} /\ Answered(a)
      /\ UNCHANGED <<consent, sub, profile, account, unreached, kept>>
  BY DEF Told, AskerAt
<1>2. \A c \in OfType(ALERT) : ~WillTell(a, c)
  BY <1>1 DEF WillTell, AskerAt
<1>3. unreached' \subseteq ConsentIds
  BY <1>1 DEF ConsentsInv, ConsentsTypeOK
<1> QED BY <1>1, <1>2, <1>3, EndStep

-----------------------------------------------------------------------------
(* The profile, the account and the subscriptions.                         *)

\* A handler that answers, is at none of the places where it owes something, and writes
\* the profile or the account.
LEMMA ProfileStep ==
  ASSUME ConsentsInv, NEW a \in Askers, NEW l \in Asker, asker' = [asker EXCEPT ![a] = l],
         l.pc \in {"idle", "erase"}, \A c \in OfType(ALERT) : ~WillTell(a, c),
         UNCHANGED <<consent, sub, unreached>>,
         profile' \in BOOLEAN, kept' \in BOOLEAN, account' \in {"open", "closing", "closed"},
         ProfileAnswered'
  PROVE  ConsentsInv'
<1>1. ConsentsTypeOK'
  BY DEF ConsentsInv, ConsentsTypeOK
<1>2. asker'[a] = l /\ \A b \in Askers \ {a} : asker'[b] = asker[b]
  BY DEF ConsentsInv, ConsentsTypeOK
<1>3. \A t : OfType(t)' = OfType(t)
  BY DEF OfType
<1>4. Sound'
  BY <1>2, <1>3 DEF ConsentsInv, Sound, AskerSound, AskerAt
<1>5. SubsAnswered'
  <2> SUFFICES ASSUME NEW s \in Subs, sub[s].status = "ACTIVE"
               PROVE  SubAnswered(s)'
    BY DEF SubsAnswered
  <2>1. SubAnswered(s) /\ sub[s].consent \in OfType(ALERT)
    BY DEF ConsentsInv, SubsAnswered, Sound
  <2>2. \A b \in Askers : WillTell(b, sub[s].consent) => b # a /\ WillTell(b, sub[s].consent)'
    BY <1>2, <2>1 DEF WillTell, AskerAt
  <2> QED BY <2>1, <2>2 DEF SubAnswered
<1> QED BY <1>1, <1>4, <1>5 DEF ConsentsInv

LEMMA DeleteProfileStep ==
  ASSUME ConsentsInv, NEW a \in Askers, DeleteProfile(a)
  PROVE  ConsentsInv'
<1>1. asker' = [asker EXCEPT ![a] = AtRest] /\ AtRest \in Asker /\ AtRest.pc = "idle"
  BY AtRestTyped DEF DeleteProfile, Answered
<1>2. profile' = FALSE /\ kept' = FALSE /\ UNCHANGED <<consent, sub, unreached>>
      /\ account' \in {"open", "closing", "closed"}
  BY DEF DeleteProfile, ConsentsInv, ConsentsTypeOK
<1>3. \A c \in OfType(ALERT) : ~WillTell(a, c)
  BY DEF DeleteProfile, WillTell, AskerAt
<1>4. ProfileAnswered'
  BY <1>2 DEF ProfileAnswered
<1>5. profile' \in BOOLEAN /\ kept' \in BOOLEAN
  BY <1>2
<1> HIDE DEF AtRest
<1> QED BY <1>1, <1>2, <1>3, <1>4, <1>5, ProfileStep

LEMMA PutStep ==
  ASSUME ConsentsInv, NEW a \in Askers, Put(a)
  PROVE  ConsentsInv'
<1>1. asker' = [asker EXCEPT ![a] = AtRest] /\ AtRest \in Asker /\ AtRest.pc = "idle"
  BY AtRestTyped DEF Put, Answered
<1>2. profile' = TRUE /\ kept' = (Granted(EMERGENCY) = {} \/ account # "open")
      /\ UNCHANGED <<consent, sub, unreached, account>>
  BY DEF Put
<1>3. \A c \in OfType(ALERT) : ~WillTell(a, c)
  BY DEF Put, WillTell, AskerAt
<1>4. Granted(EMERGENCY)' = Granted(EMERGENCY)
  BY <1>2 DEF Granted, OfType
<1>5. ProfileAnswered'
  BY <1>2, <1>4 DEF ProfileAnswered
<1>6. profile' \in BOOLEAN /\ kept' \in BOOLEAN /\ account' \in {"open", "closing", "closed"}
  BY <1>2 DEF ConsentsInv, ConsentsTypeOK
<1> HIDE DEF AtRest
<1> QED BY <1>1, <1>2, <1>3, <1>5, <1>6, ProfileStep

LEMMA BeginEraseStep ==
  ASSUME ConsentsInv, NEW a \in Askers, BeginErase(a)
  PROVE  ConsentsInv'
<1> DEFINE l == [asker[a] EXCEPT !.pc = "erase"]
<1>1. l \in Asker /\ l.pc = "erase"
  BY DEF ConsentsInv, ConsentsTypeOK, Asker, AskerPCs
<1>2. /\ asker' = [asker EXCEPT ![a] = l] /\ asker[a].pc = "idle" /\ account' = "closing"
      /\ UNCHANGED <<consent, sub, profile, unreached, kept>>
  BY DEF BeginErase, Continue, AskerAt
<1> HIDE DEF l
<1>3. \A c \in OfType(ALERT) : ~WillTell(a, c)
  BY <1>2 DEF WillTell, AskerAt
<1>4. \A b \in Askers \ {a} : asker'[b] = asker[b]
  BY <1>2 DEF ConsentsInv, ConsentsTypeOK
<1>5. Granted(EMERGENCY)' = Granted(EMERGENCY)
  BY <1>2 DEF Granted, OfType
<1>6. ProfileAnswered'
  BY <1>2, <1>4, <1>5 DEF ConsentsInv, ProfileAnswered
<1>7. profile' \in BOOLEAN /\ kept' \in BOOLEAN
  BY <1>2 DEF ConsentsInv, ConsentsTypeOK
<1> QED BY <1>1, <1>2, <1>3, <1>6, <1>7, ProfileStep

LEMMA BeginPutStep ==
  ASSUME ConsentsInv, NEW a \in Askers, BeginPut(a)
  PROVE  ConsentsInv'
BY ContinueStep DEF BeginPut, AskerAt

LEMMA BeginSubscribeStep ==
  ASSUME ConsentsInv, NEW a \in Askers, BeginSubscribe(a)
  PROVE  ConsentsInv'
<1>1. PICK c \in Granted(ALERT) :
        asker' = [asker EXCEPT ![a].pc = "subscribe", ![a].consent = c]
  BY DEF BeginSubscribe
<1>2. c \in OfType(ALERT) /\ c \in ConsentIds
  BY DEF Granted, OfType
<1>3. asker[a].pc = "idle" /\ UNCHANGED <<consent, sub, profile, account, unreached, kept>>
  BY DEF BeginSubscribe, AskerAt
<1> DEFINE l == [asker[a] EXCEPT !.pc = "subscribe", !.consent = c]
<1>4. l \in Asker /\ l.pc = "subscribe" /\ l.consent = c
  BY <1>2 DEF ConsentsInv, ConsentsTypeOK, Asker, AskerPCs
<1>5. asker' = [asker EXCEPT ![a] = l]
  BY <1>1 DEF ConsentsInv, ConsentsTypeOK
<1> HIDE DEF l
<1>6. \A d \in OfType(ALERT) : ~WillTell(a, d)
  BY <1>3 DEF WillTell, AskerAt
<1>7. unreached' \subseteq ConsentIds
  BY <1>3 DEF ConsentsInv, ConsentsTypeOK
<1> QED BY <1>2, <1>3, <1>4, <1>5, <1>6, <1>7, AskerStep

LEMMA SubscribeFailsStep ==
  ASSUME ConsentsInv, NEW a \in Askers, SubscribeFails(a)
  PROVE  ConsentsInv'
<1>1. /\ asker[a].pc = "subscribe" /\ Answered(a)
      /\ UNCHANGED <<consent, sub, profile, account, unreached, kept>>
  BY DEF SubscribeFails, AskerAt
<1>2. \A c \in OfType(ALERT) : ~WillTell(a, c)
  BY <1>1 DEF WillTell, AskerAt
<1>3. unreached' \subseteq ConsentIds
  BY <1>1 DEF ConsentsInv, ConsentsTypeOK
<1> QED BY <1>1, <1>2, <1>3, EndStep

LEMMA SubscribeStep ==
  ASSUME ConsentsInv, NEW a \in Askers, Subscribe(a)
  PROVE  ConsentsInv'
<1> DEFINE c == asker[a].consent
           new == [status |-> "ACTIVE", consent |-> c, late |-> consent[c].revoked]
<1>1. PICK s \in Subs : sub' = [sub EXCEPT ![s] = new]
  BY DEF Subscribe
<1>2. asker[a].pc = "subscribe" /\ UNCHANGED <<consent, profile, account, unreached, kept>>
      /\ asker' = [asker EXCEPT ![a] = AtRest]
  BY DEF Subscribe, AskerAt, Answered
<1>3. c \in OfType(ALERT) /\ c \in ConsentIds
  BY <1>2 DEF ConsentsInv, Sound, AskerSound, AskerAt, OfType
<1>4. /\ new \in Sub /\ new.status = "ACTIVE" /\ new.consent = c
      /\ new.late = consent[c].revoked /\ consent[c].revoked \in BOOLEAN
  BY <1>3 DEF ConsentsInv, ConsentsTypeOK, Consent, Sub
<1> HIDE DEF new, c
<1>5. AtRest \in Asker /\ AtRest.pc = "idle"
  BY AtRestTyped
<1> HIDE DEF AtRest
<1>6. asker' \in [Askers -> Asker] /\ asker'[a] = AtRest
      /\ \A b \in Askers \ {a} : asker'[b] = asker[b]
  BY <1>2, <1>5 DEF ConsentsInv, ConsentsTypeOK
<1>7. sub' \in [Subs -> Sub] /\ sub'[s] = new /\ \A t \in Subs \ {s} : sub'[t] = sub[t]
  BY <1>1, <1>4 DEF ConsentsInv, ConsentsTypeOK
<1>8. \A t : OfType(t)' = OfType(t) /\ Granted(t)' = Granted(t)
  BY <1>2 DEF OfType, Granted
<1>9. ConsentsTypeOK'
  BY <1>2, <1>6, <1>7 DEF ConsentsInv, ConsentsTypeOK
<1>10. Sound'
  BY <1>3, <1>4, <1>5, <1>6, <1>7, <1>8 DEF ConsentsInv, Sound, AskerSound, AskerAt
<1>11. SubsAnswered'
  <2> SUFFICES ASSUME NEW t \in Subs, sub'[t].status = "ACTIVE"
               PROVE  SubAnswered(t)'
    BY DEF SubsAnswered
  <2>1. CASE t = s
    BY <1>2, <1>4, <1>7, <2>1 DEF SubAnswered
  <2>2. CASE t # s
    <3>1. SubAnswered(t) /\ sub'[t] = sub[t]
      BY <1>7, <2>2 DEF ConsentsInv, SubsAnswered
    <3>2. \A b \in Askers : WillTell(b, sub[t].consent) => b # a
      BY <1>2 DEF WillTell, AskerAt
    <3> QED BY <1>2, <1>6, <3>1, <3>2 DEF SubAnswered, WillTell, AskerAt
  <2> QED BY <2>1, <2>2
<1>12. ProfileAnswered'
  BY <1>2, <1>6, <1>8 DEF ConsentsInv, ProfileAnswered
<1> QED BY <1>9, <1>10, <1>11, <1>12 DEF ConsentsInv

LEMMA UnsubscribeStep ==
  ASSUME ConsentsInv, NEW a \in Askers, NEW s \in Subs, Unsubscribe(a, s)
  PROVE  ConsentsInv'
<1>1. /\ sub' \in [Subs -> Sub]
      /\ \A t \in Subs : sub'[t].consent = sub[t].consent /\ sub'[t].late = sub[t].late
      /\ \A t \in Subs : sub'[t].status = "ACTIVE" => sub[t].status = "ACTIVE"
      /\ \A t \in Subs : sub'[t].status # "none" => sub[t].status # "none"
  BY DEF Unsubscribe, ConsentsInv, ConsentsTypeOK, Sub
<1>2. UNCHANGED <<consent, asker, profile, account, unreached, kept>>
  BY DEF Unsubscribe
<1>3. \A t : OfType(t)' = OfType(t) /\ Granted(t)' = Granted(t)
  BY <1>2 DEF OfType, Granted
<1>4. ConsentsTypeOK' /\ Sound'
  BY <1>1, <1>2, <1>3 DEF ConsentsInv, ConsentsTypeOK, Sound, AskerSound, AskerAt
<1>5. SubsAnswered'
  BY <1>1, <1>2 DEF ConsentsInv, SubsAnswered, SubAnswered, WillTell, AskerAt
<1>6. ProfileAnswered'
  BY <1>2, <1>3 DEF ConsentsInv, ProfileAnswered
<1> QED BY <1>4, <1>5, <1>6 DEF ConsentsInv

LEMMA AskerDiesStep ==
  ASSUME ConsentsInv, NEW a \in Askers, AskerDies(a)
  PROVE  ConsentsInv'
<1>1. Answered(a) /\ UNCHANGED <<consent, sub, profile, account>>
  BY DEF AskerDies
<1>2. CASE asker[a].type = ALERT
  <2>1. UNCHANGED kept
    BY <1>2, TypesDiffer DEF AskerDies
  <2>2. unreached \subseteq unreached' /\ unreached' \subseteq ConsentIds
    BY DEF AskerDies, ConsentsInv, ConsentsTypeOK, OfType
  <2>3. \A c \in OfType(ALERT) : WillTell(a, c) => c \in unreached'
    BY <1>2 DEF AskerDies, WillTell, AskerAt
  <2> QED BY <1>1, <1>2, <2>1, <2>2, <2>3, TypesDiffer, EndStep
<1>3. CASE asker[a].type # ALERT
  <2>1. UNCHANGED unreached
    BY <1>3 DEF AskerDies
  <2>2. \A c \in OfType(ALERT) : ~WillTell(a, c)
    BY <1>3 DEF WillTell
  <2>3. kept' = profile \/ kept' = kept
    BY DEF AskerDies
  <2>4. asker' = [asker EXCEPT ![a] = AtRest] /\ AtRest \in Asker /\ AtRest.pc = "idle"
    BY <1>1, AtRestTyped DEF Answered
  <2> HIDE DEF AtRest
  <2>5. \A b \in Askers \ {a} : asker'[b] = asker[b]
    BY <2>4 DEF ConsentsInv, ConsentsTypeOK
  <2>6. Granted(EMERGENCY)' = Granted(EMERGENCY)
    BY <1>1 DEF Granted, OfType
  <2>7. kept' = profile
        \/ (kept' = kept /\ ~(asker[a].pc \in {"close", "purge"} /\ asker[a].type = EMERGENCY))
    BY DEF AskerDies
  <2>8. ProfileAnswered'
    BY <1>1, <2>5, <2>6, <2>7 DEF ConsentsInv, ProfileAnswered
  <2>9. profile' \in BOOLEAN /\ kept' \in BOOLEAN /\ account' \in {"open", "closing", "closed"}
    BY <1>1, <2>3 DEF ConsentsInv, ConsentsTypeOK
  <2> QED BY <1>1, <2>1, <2>2, <2>4, <2>8, <2>9, ProfileStep
<1> QED BY <1>2, <1>3

-----------------------------------------------------------------------------
LEMMA InitConsents == ConsentsInit => ConsentsInv
<1> SUFFICES ASSUME ConsentsInit PROVE ConsentsInv
  OBVIOUS
<1>1. ConsentsTypeOK
  <2>1. AtRest \in Asker
    BY AtRestTyped
  <2> HIDE DEF AtRest
  <2>2. [state |-> "unused", type |-> ALERT, revoked |-> FALSE, expired |-> FALSE] \in Consent
    BY TypesDiffer DEF Consent
  <2>3. [status |-> "none", consent |-> Nobody, late |-> FALSE] \in Sub
    BY DEF Sub
  <2> QED BY <2>1, <2>2, <2>3 DEF ConsentsInit, ConsentsTypeOK
<1>2. Sound
  BY DEF ConsentsInit, Sound, AskerSound, AskerAt, AtRest
<1>3. SubsAnswered /\ ProfileAnswered
  BY DEF ConsentsInit, SubsAnswered, ProfileAnswered
<1> QED BY <1>1, <1>2, <1>3 DEF ConsentsInv

LEMMA NextConsents == ConsentsInv /\ [ConsentsNext]_consentVars => ConsentsInv'
<1> SUFFICES ASSUME ConsentsInv, [ConsentsNext]_consentVars PROVE ConsentsInv'
  OBVIOUS
<1>1. CASE UNCHANGED consentVars
  BY <1>1 DEF ConsentsInv, consentVars, ConsentsTypeOK, Sound, AskerSound, AskerAt, OfType, Granted,
              SubsAnswered, SubAnswered, WillTell, ProfileAnswered
<1> QED BY <1>1, GrantStep, ExpireStep, BeginRevokeStep, CloseStep, RefuseStep, ListConsentsStep,
           TellRevokedStep, TellFailsStep, ToldStep, DeleteProfileStep, BeginSubscribeStep,
           SubscribeStep, SubscribeFailsStep, UnsubscribeStep, BeginPutStep, PutStep,
           BeginEraseStep, AskerDiesStep DEF ConsentsNext

\* Every variable keeps its type, whatever fails and whichever handlers die (the rows of
\* identity.consents, identity.emergency_profiles and the subscriptions).
THEOREM ConsentsTyped == ConsentsSpec => []ConsentsTypeOK
<1>1. ConsentsInv => ConsentsTypeOK
  BY DEF ConsentsInv
<1> QED BY <1>1, InitConsents, NextConsents, PTL DEF ConsentsSpec

\* Whatever interleaves: a subscription or a medical profile that its consent no longer
\* covers is being removed, unless a call of the revocation was dropped, its handler died,
\* or the consent was looked at before it was revoked (me.py, facades.py).
THEOREM ConsentsRespected == ConsentsSpec => []NothingOutlivesConsent
<1>1. ConsentsInv => NothingOutlivesConsent
  BY Split DEF ConsentsInv
<1> QED BY <1>1, InitConsents, NextConsents, PTL DEF ConsentsSpec

-----------------------------------------------------------------------------
(***************************************************************************)
(* EventStream, for any number of connections, drops and events.           *)
(*                                                                         *)
(* ReceivedInOrder is not inductive.  What it needs: the ids of the Redis  *)
(* stream grow, but for a completion, which is the last event; the         *)
(* browser's Last-Event-ID is the id of the last event it received; and of *)
(* the one connection that reaches the browser, what was read and is no    *)
(* longer in the batch, the browser has, or its id is not above those      *)
(* before it.                                                              *)
(***************************************************************************)


Stream == [pc : {"closed", "accepted", "reading", "sending"}, cursor : Nat,
           last : Nat \cup {NoId}, batch : Seq(RunEvent), terminal : BOOLEAN]

Browser == [conn : Streams \cup {NoStream}, state : {"open", "closed", "refused"},
            last : Nat \cup {NoId}, got : Seq(Nat)]

\* The i-th id is above the ids before it.
Above(lg, i) == \A j \in 1 .. i - 1 : lg[j].id < lg[i].id

\* The ids of the stream grow, up to the agent's counter; a completion, whose id may be
\* the clock's, is the last event.
Ordered(lg, n) ==
  \A i \in 1 .. Len(lg) : \/ lg[i].type = "completed" /\ i = Len(lg)
                          \/ lg[i].type # "completed" /\ lg[i].id <= n /\ Above(lg, i)

\* The browser has a prefix of the stream, and the id of its last event.
Has(got, last, lg) ==
  /\ Len(got) <= Len(lg)
  /\ \A i \in 1 .. Len(got) : got[i] = lg[i].id /\ Above(lg, i)
  /\ last = IF Len(got) = 0 THEN NoId ELSE lg[Len(got)].id

\* A generator that writes to the browser: what it has read and no longer holds, the
\* browser has, or it was overtaken.
Follows(l, lg, last, n) ==
  /\ l.last = last
  /\ l.cursor <= Len(lg)
  /\ Len(l.batch) <= l.cursor
  /\ \A i \in 1 .. l.cursor - Len(l.batch) : i <= n \/ ~Above(lg, i)
  /\ l.pc # "sending" => Len(l.batch) = 0
  /\ \A k \in 1 .. Len(l.batch) : l.batch[k] = lg[l.cursor - Len(l.batch) + k]

Delivered ==
  /\ Ordered(log, counter)
  /\ Has(browser.got, browser.last, log)
  /\ \A s \in Streams : Connected(s) => Follows(stream[s], log, browser.last, Len(browser.got))

StreamInv == StreamTypeOK /\ Delivered

-----------------------------------------------------------------------------
\* Types, step by step.

LEMMA TypesAre == StreamTypeOK <=> /\ log \in Seq(RunEvent) /\ counter \in Nat
                                   /\ stream \in [Streams -> Stream]
                                   /\ slots \in Nat /\ leaked \in Nat /\ drops \in Nat
                                   /\ browser \in Browser
BY DEF StreamTypeOK, Stream, Browser

LEMMA EventIds ==
  ASSUME NEW lg \in Seq(RunEvent)
  PROVE  \A i \in 1 .. Len(lg) : lg[i].id \in Nat
<1> SUFFICES ASSUME NEW i \in 1 .. Len(lg) PROVE lg[i].id \in Nat
  OBVIOUS
<1>1. lg[i] \in RunEvent
  OBVIOUS
<1> QED BY <1>1 DEF RunEvent

LEMMA ClosedTyped == Closed \in Stream /\ Closed.pc = "closed" /\ Closed.cursor = 0
                     /\ Closed.batch = <<>> /\ Len(Closed.batch) = 0
BY DEF Closed, Stream

LEMMA InitTyped == StreamInit => StreamTypeOK
<1> SUFFICES ASSUME StreamInit PROVE StreamTypeOK
  OBVIOUS
<1>1. stream \in [Streams -> Stream]
  BY ClosedTyped DEF StreamInit
<1>2. browser \in Browser
  BY DEF StreamInit, Browser
<1> QED BY <1>1, <1>2, TypesAre DEF StreamInit

\* Everything but the agent's side stays, the counter does not fall.
LEMMA CountStep ==
  ASSUME StreamInv, counter' \in Nat, counter <= counter',
         UNCHANGED <<log, stream, slots, leaked, browser, drops>>
  PROVE  StreamInv'
<1>1. log \in Seq(RunEvent) /\ counter \in Nat
  BY TypesAre DEF StreamInv
<1>2. StreamTypeOK'
  BY DEF StreamInv, StreamTypeOK
<1>3. Ordered(log, counter)'
  <2>1. \A i \in 1 .. Len(log) : log[i].id \in Nat
    BY <1>1, EventIds
  <2> QED BY <1>1, <2>1 DEF StreamInv, Delivered, Ordered, Above
<1> QED BY <1>2, <1>3 DEF StreamInv, Delivered, Has, Follows, Connected, Above

\* An event is added after events of which none is a completion: itself a completion, or
\* with an id that is new.
LEMMA AppendStep ==
  ASSUME StreamInv, NEW ev \in RunEvent, log' = Append(log, ev),
         counter' \in Nat, counter <= counter',
         ev.type = "completed" \/ (counter < ev.id /\ ev.id <= counter'),
         \A i \in 1 .. Len(log) : log[i].type # "completed",
         UNCHANGED <<stream, slots, leaked, browser, drops>>
  PROVE  StreamInv'
<1>1. log \in Seq(RunEvent) /\ counter \in Nat /\ stream \in [Streams -> Stream] /\ browser \in Browser
  BY TypesAre DEF StreamInv
<1>2. /\ log' \in Seq(RunEvent)
      /\ Len(log') = Len(log) + 1
      /\ \A i \in 1 .. Len(log) : log'[i] = log[i]
      /\ log'[Len(log) + 1] = ev
      /\ Len(log) \in Nat
  BY <1>1
<1>3. StreamTypeOK'
  BY <1>1, <1>2 DEF StreamInv, StreamTypeOK
<1>4. \A i \in 1 .. Len(log) : log[i].id \in Nat
  BY <1>1, EventIds
<1>5. ev.id \in Nat
  BY DEF RunEvent
<1>6. \A i \in 1 .. Len(log) : Above(log', i) <=> Above(log, i)
  BY <1>2 DEF Above
<1>7. Ordered(log', counter')
  <2>1. ASSUME NEW i \in 1 .. Len(log)
        PROVE  log'[i].type # "completed" /\ log'[i].id <= counter' /\ Above(log', i)
    <3>1. log[i].id <= counter /\ Above(log, i)
      BY <2>1 DEF StreamInv, Delivered, Ordered
    <3> QED BY <1>1, <1>2, <1>4, <1>6, <2>1, <3>1
  <2>2. CASE ev.type = "completed"
    BY <1>2, <2>1, <2>2 DEF Ordered
  <2>3. CASE ev.type # "completed"
    <3>1. counter < ev.id /\ ev.id <= counter'
      BY <2>3
    <3>2. ASSUME NEW i \in 1 .. Len(log)
          PROVE  log'[i].id < ev.id
      <4>1. log[i].id <= counter /\ log[i].id \in Nat /\ log'[i].id = log[i].id
        BY <1>2, <1>4, <3>2 DEF StreamInv, Delivered, Ordered
      <4> QED BY <1>1, <1>5, <3>1, <4>1
    <3>3. Above(log', Len(log) + 1)
      BY <1>2, <3>2 DEF Above
    <3> QED BY <1>2, <2>1, <2>3, <3>1, <3>3 DEF Ordered
  <2> QED BY <2>2, <2>3
<1>8. Len(browser.got) \in Nat
  BY <1>1 DEF Browser
<1>9. Has(browser.got, browser.last, log')
  BY <1>2, <1>6, <1>8 DEF StreamInv, Delivered, Has
<1>10. ASSUME NEW s \in Streams, Connected(s)
       PROVE  Follows(stream[s], log', browser.last, Len(browser.got))
  <2>1. Follows(stream[s], log, browser.last, Len(browser.got))
    BY <1>10 DEF StreamInv, Delivered
  <2>2. stream[s].cursor \in Nat /\ Len(stream[s].batch) \in Nat
    BY <1>1 DEF Stream
  <2>3. stream[s].cursor <= Len(log) /\ Len(stream[s].batch) <= stream[s].cursor
    BY <2>1 DEF Follows
  <2>4. ASSUME NEW c \in Nat, NEW b \in Nat, c <= Len(log), b <= c, NEW k \in 1 .. b
        PROVE  c - b + k \in 1 .. Len(log)
    BY <1>2, <2>4
  <2>5. ASSUME NEW k \in 1 .. Len(stream[s].batch)
        PROVE  stream[s].batch[k] = log'[stream[s].cursor - Len(stream[s].batch) + k]
    <3>1. stream[s].cursor - Len(stream[s].batch) + k \in 1 .. Len(log)
      BY <2>2, <2>3, <2>4
    <3>2. stream[s].batch[k] = log[stream[s].cursor - Len(stream[s].batch) + k]
      BY <2>1 DEF Follows
    <3> QED BY <1>2, <3>1, <3>2
  <2>6. \A i \in 1 .. stream[s].cursor - Len(stream[s].batch) :
          i <= Len(browser.got) \/ ~Above(log', i)
    <3>1. \A i \in 1 .. stream[s].cursor - Len(stream[s].batch) : i \in 1 .. Len(log)
      BY <1>2, <2>1, <2>2 DEF Follows
    <3> QED BY <1>6, <2>1, <3>1 DEF Follows
  <2>7. stream[s].cursor <= Len(log')
    BY <1>2, <2>1, <2>2 DEF Follows
  <2> QED BY <2>1, <2>5, <2>6, <2>7 DEF Follows
<1> QED BY <1>3, <1>7, <1>9, <1>10 DEF StreamInv, Delivered, Connected

LEMMA EmitStep ==
  ASSUME StreamInv, Emit
  PROVE  StreamInv'
<1>1. log \in Seq(RunEvent) /\ counter \in Nat
  BY TypesAre DEF StreamInv
<1>2. counter' = counter + 1 /\ UNCHANGED <<stream, slots, leaked, browser, drops>>
  BY DEF Emit
<1>3. counter' \in Nat /\ counter <= counter'
  BY <1>1, <1>2
<1>4. CASE UNCHANGED log
  BY <1>2, <1>3, <1>4, CountStep
<1>5. ASSUME NEW type \in EventTypes, MayFollow(type),
             log' = Append(log, [id |-> counter + 1, type |-> type])
      PROVE  StreamInv'
  <2> DEFINE ev == [id |-> counter + 1, type |-> type]
  <2>1. ev \in RunEvent /\ counter < ev.id /\ ev.id <= counter'
    BY <1>1, <1>2 DEF RunEvent
  <2>2. \A i \in 1 .. Len(log) : log[i].type # "completed"
    BY <1>1, <1>5 DEF MayFollow, TerminalEvents
  <2>3. log' = Append(log, ev)
    BY <1>5
  <2> HIDE DEF ev
  <2> QED BY <1>2, <1>3, <2>1, <2>2, <2>3, AppendStep
<1> QED BY <1>4, <1>5 DEF Emit

LEMMA EmitEmergencyStep ==
  ASSUME StreamInv, EmitEmergency
  PROVE  StreamInv'
<1>1. log \in Seq(RunEvent) /\ counter \in Nat
  BY TypesAre DEF StreamInv
<1>2. PICK id \in ClockIds : log' = Append(log, [id |-> id, type |-> "completed"])
  BY DEF EmitEmergency
<1> DEFINE ev == [id |-> id, type |-> "completed"]
<1>3. ev \in RunEvent /\ ev.type = "completed"
  BY EventStreamAssumption DEF RunEvent, EventTypes, TerminalEvents
<1>4. \A i \in 1 .. Len(log) : log[i].type # "completed"
  BY <1>1 DEF EmitEmergency
<1>5. counter' \in Nat /\ counter <= counter' /\ UNCHANGED <<stream, slots, leaked, browser, drops>>
  BY <1>1 DEF EmitEmergency
<1>6. log' = Append(log, ev)
  BY <1>2
<1> HIDE DEF ev
<1> QED BY <1>3, <1>4, <1>5, <1>6, AppendStep

\* Nothing the property is about changes but one generator's locals and the browser's
\* connection and state.
LEMMA LocalStep ==
  ASSUME StreamInv, NEW s \in Streams, NEW l \in Stream,
         stream' = [stream EXCEPT ![s] = l],
         UNCHANGED agentSide,
         browser' \in Browser, browser'.got = browser.got, browser'.last = browser.last,
         slots' \in Nat, leaked' \in Nat, drops' \in Nat,
         \A u \in Streams \ {s} : Connected(u)' => Connected(u),
         Connected(s)' => Follows(l, log, browser.last, Len(browser.got))
  PROVE  StreamInv'
<1>1. /\ log' = log /\ counter' = counter
      /\ stream' \in [Streams -> Stream]
      /\ stream'[s] = l
      /\ \A u \in Streams \ {s} : stream'[u] = stream[u]
  BY TypesAre DEF StreamInv, agentSide
<1>2. StreamTypeOK'
  BY <1>1, TypesAre DEF StreamInv, StreamTypeOK, Stream, Browser
<1>3. \A u \in Streams : Connected(u)' => Follows(stream[u], log, browser.last, Len(browser.got))'
  BY <1>1 DEF StreamInv, Delivered
<1> QED BY <1>1, <1>2, <1>3 DEF StreamInv, Delivered

-----------------------------------------------------------------------------
LEMMA ConnectStep ==
  ASSUME StreamInv, NEW s \in Streams, Connect(s)
  PROVE  StreamInv'
<1> DEFINE l == [Closed EXCEPT !.pc = "accepted", !.last = browser.last]
<1>1. browser \in Browser /\ stream \in [Streams -> Stream] /\ log \in Seq(RunEvent) /\ slots \in Nat
      /\ leaked \in Nat /\ drops \in Nat
  BY TypesAre DEF StreamInv
<1>2. l \in Stream /\ l.last = browser.last /\ l.cursor = 0 /\ Len(l.batch) = 0 /\ l.pc = "accepted"
  <2>1. browser.last \in Nat \cup {NoId}
    BY <1>1 DEF Browser
  <2> QED BY <2>1, ClosedTyped DEF Stream
<1>3. /\ stream' = [stream EXCEPT ![s] = l]
      /\ browser' = [browser EXCEPT !.conn = s]
      /\ slots' = slots + 1
      /\ UNCHANGED <<agentSide, leaked, drops>>
  BY DEF Connect
<1> HIDE DEF l
<1>4. browser' \in Browser /\ browser'.got = browser.got /\ browser'.last = browser.last /\ browser'.conn = s
  BY <1>1, <1>3 DEF Browser
<1>5. Follows(l, log, browser.last, Len(browser.got))
  BY <1>1, <1>2 DEF Follows, Browser
<1>6. \A u \in Streams \ {s} : Connected(u)' => Connected(u)
  BY <1>4 DEF Connected
<1>7. slots' \in Nat /\ leaked' \in Nat /\ drops' \in Nat
  BY <1>1, <1>3
<1> QED BY <1>2, <1>3, <1>4, <1>5, <1>6, <1>7, LocalStep

LEMMA ConnectRefusedStep ==
  ASSUME StreamInv, ConnectRefused
  PROVE  StreamInv'
<1>1. /\ browser' = [browser EXCEPT !.state = "refused"]
      /\ UNCHANGED <<agentSide, stream, slots, leaked, drops>>
  BY DEF ConnectRefused
<1>2. browser \in Browser
  BY TypesAre DEF StreamInv
<1>3. browser' \in Browser /\ browser'.got = browser.got /\ browser'.last = browser.last
      /\ browser'.conn = browser.conn
  BY <1>1, <1>2 DEF Browser
<1>4. StreamTypeOK'
  BY <1>1, <1>3, TypesAre DEF StreamInv, StreamTypeOK, Browser, agentSide
<1> QED BY <1>1, <1>3, <1>4 DEF StreamInv, Delivered, Connected, agentSide

LEMMA DropStep ==
  ASSUME StreamInv, Drop
  PROVE  StreamInv'
<1>1. /\ browser' = [browser EXCEPT !.conn = NoStream]
      /\ drops' = drops + 1
      /\ UNCHANGED <<agentSide, stream, slots, leaked>>
  BY DEF Drop
<1>2. browser \in Browser /\ drops \in Nat
  BY TypesAre DEF StreamInv
<1>3. browser' \in Browser /\ browser'.got = browser.got /\ browser'.last = browser.last
      /\ browser'.conn = NoStream
  BY <1>1, <1>2 DEF Browser
<1>4. StreamTypeOK'
  BY <1>1, <1>2, <1>3, TypesAre DEF StreamInv, StreamTypeOK, Browser, agentSide
<1>5. \A s \in Streams : ~Connected(s)'
  BY <1>3, EventStreamAssumption DEF Connected
<1> QED BY <1>1, <1>3, <1>4, <1>5 DEF StreamInv, Delivered, agentSide

\* The steps of a generator that neither send nor end.
LEMMA QuietStep ==
  ASSUME StreamInv, NEW s \in Streams, NEW l \in Stream,
         stream' = [stream EXCEPT ![s] = l],
         UNCHANGED <<agentSide, slots, leaked, browser, drops>>,
         Follows(stream[s], log, browser.last, Len(browser.got))
           => Follows(l, log, browser.last, Len(browser.got))
  PROVE  StreamInv'
<1>1. browser \in Browser /\ slots \in Nat /\ leaked \in Nat /\ drops \in Nat
  BY TypesAre DEF StreamInv
<1>2. Connected(s)' => Follows(l, log, browser.last, Len(browser.got))
  BY DEF StreamInv, Delivered, Connected
<1>3. \A u \in Streams \ {s} : Connected(u)' => Connected(u)
  BY DEF Connected
<1> QED BY <1>1, <1>2, <1>3, LocalStep

LEMMA BeginStreamStep ==
  ASSUME StreamInv, NEW s \in Streams, BeginStream(s)
  PROVE  StreamInv'
<1> DEFINE l == [stream[s] EXCEPT !.pc = "reading"]
<1>1. stream \in [Streams -> Stream] /\ stream[s].pc = "accepted"
  BY TypesAre DEF StreamInv, BeginStream, StreamAt
<1>2. l \in Stream /\ l.last = stream[s].last /\ l.cursor = stream[s].cursor
      /\ l.batch = stream[s].batch /\ l.pc = "reading"
  BY <1>1 DEF Stream
<1>3. stream' = [stream EXCEPT ![s] = l] /\ UNCHANGED <<agentSide, slots, leaked, browser, drops>>
  BY DEF BeginStream
<1> HIDE DEF l
<1> QED BY <1>1, <1>2, <1>3, QuietStep DEF Follows

LEMMA EndBatchStep ==
  ASSUME StreamInv, NEW s \in Streams, EndBatch(s)
  PROVE  StreamInv'
<1> DEFINE l == [stream[s] EXCEPT !.pc = "reading"]
<1>1. stream \in [Streams -> Stream] /\ stream[s].pc = "sending" /\ stream[s].batch = <<>>
  BY TypesAre DEF StreamInv, EndBatch, StreamAt
<1>2. l \in Stream /\ l.last = stream[s].last /\ l.cursor = stream[s].cursor
      /\ l.batch = stream[s].batch /\ l.pc = "reading"
  BY <1>1 DEF Stream
<1>3. stream' = [stream EXCEPT ![s] = l] /\ UNCHANGED <<agentSide, slots, leaked, browser, drops>>
  BY DEF EndBatch
<1> HIDE DEF l
<1>4. Len(l.batch) = 0
  BY <1>1, <1>2
<1> QED BY <1>1, <1>2, <1>3, <1>4, QuietStep DEF Follows

LEMMA ReadStep ==
  ASSUME StreamInv, NEW s \in Streams, Read(s)
  PROVE  StreamInv'
<1> DEFINE c == stream[s].cursor
           b == SubSeq(log, c + 1, Len(log))
           l == [stream[s] EXCEPT !.pc = "sending", !.cursor = Len(log), !.batch = b]
<1>1. stream[s] \in Stream /\ stream[s].pc = "reading" /\ log \in Seq(RunEvent)
      /\ c \in Nat /\ c < Len(log) /\ Len(log) \in Nat
  BY TypesAre DEF StreamInv, Read, StreamAt, Stream
<1>2. b \in Seq(RunEvent) /\ Len(b) = Len(log) - c /\ \A k \in 1 .. Len(b) : b[k] = log[c + k]
  <2>1. c + 1 \in 1 .. Len(log) + 1 /\ Len(log) \in 0 .. Len(log)
    BY <1>1
  <2> HIDE DEF c
  <2>2. b \in Seq(RunEvent)
    BY <1>1, <2>1
  <2>3. Len(b) = Len(log) - c /\ \A k \in 1 .. Len(b) : b[k] = log[c + k]
    BY <1>1, <2>1
  <2> QED BY <2>2, <2>3
<1>3. stream' = [stream EXCEPT ![s] = l] /\ UNCHANGED <<agentSide, slots, leaked, browser, drops>>
  BY DEF Read
<1> HIDE DEF b
<1>4. l \in Stream /\ l.last = stream[s].last /\ l.cursor = Len(log) /\ l.batch = b
      /\ l.pc = "sending"
  BY <1>1, <1>2 DEF Stream
<1> HIDE DEF l
<1>5. Len(browser.got) \in Nat /\ Len(stream[s].batch) \in Nat
  BY <1>1, TypesAre DEF StreamInv, Browser, Stream
<1>6. ASSUME Follows(stream[s], log, browser.last, Len(browser.got))
      PROVE  Follows(l, log, browser.last, Len(browser.got))
  <2>1. /\ Len(stream[s].batch) = 0 /\ stream[s].last = browser.last
        /\ \A i \in 1 .. c : i <= Len(browser.got) \/ ~Above(log, i)
    <3>1. Len(stream[s].batch) = 0 /\ c - 0 = c
      BY <1>1, <1>5, <1>6 DEF Follows
    <3> QED BY <1>6, <3>1 DEF Follows
  <2> HIDE DEF c
  <2>2. Len(l.batch) = Len(log) - c /\ l.cursor - Len(l.batch) = c
    BY <1>1, <1>2, <1>4
  <2>3. \A k \in 1 .. Len(l.batch) : l.batch[k] = log[l.cursor - Len(l.batch) + k]
    BY <1>2, <1>4, <2>2
  <2> QED BY <1>1, <1>4, <2>1, <2>2, <2>3 DEF Follows
<1> QED BY <1>3, <1>4, <1>6, QuietStep

\* What is left of a batch when its first event is gone.
LEMMA TailOf ==
  ASSUME NEW b \in Seq(RunEvent), b # <<>>
  PROVE  /\ Tail(b) \in Seq(RunEvent) /\ Len(b) \in Nat \ {0} /\ Len(Tail(b)) = Len(b) - 1
         /\ Head(b) = b[1] /\ b[1] \in RunEvent
         /\ \A k \in 1 .. Len(Tail(b)) : Tail(b)[k] = b[k + 1]
OBVIOUS

LEMMA SkipStep ==
  ASSUME StreamInv, NEW s \in Streams, Skip(s)
  PROVE  StreamInv'
<1> DEFINE old == stream[s]
           l   == [old EXCEPT !.batch = Tail(@)]
           n   == Len(browser.got)
<1>1. old \in Stream /\ old.pc = "sending" /\ log \in Seq(RunEvent) /\ browser \in Browser
      /\ old.batch \in Seq(RunEvent) /\ old.batch # <<>> /\ Head(old.batch).id <= old.last
  BY TypesAre DEF StreamInv, Skip, StreamAt, Stream
<1>2. stream' = [stream EXCEPT ![s] = l] /\ UNCHANGED <<agentSide, slots, leaked, browser, drops>>
  BY DEF Skip
<1>3. l \in Stream /\ l.last = old.last /\ l.cursor = old.cursor /\ l.batch = Tail(old.batch)
      /\ l.pc = "sending"
  BY <1>1, TailOf DEF Stream
<1>4. old.cursor \in Nat /\ n \in Nat /\ Len(log) \in Nat
  BY <1>1 DEF Stream, Browser
<1> HIDE DEF l, old, n
<1>5. \A i \in 1 .. Len(log) : log[i].id \in Nat
  BY <1>1, EventIds
<1>6. Ordered(log, counter) /\ Has(browser.got, browser.last, log)
  BY DEF StreamInv, Delivered
<1>7. ASSUME Follows(old, log, browser.last, n)
      PROVE  Follows(l, log, browser.last, n)
  <2> DEFINE p == old.cursor - Len(old.batch)
  <2>1. /\ Len(old.batch) \in Nat \ {0} /\ Len(l.batch) = Len(old.batch) - 1
        /\ \A k \in 1 .. Len(l.batch) : l.batch[k] = old.batch[k + 1]
        /\ Head(old.batch) = old.batch[1]
    BY <1>1, <1>3, TailOf
  <2>2. p \in Nat /\ p + 1 <= Len(log) /\ old.batch[1] = log[p + 1]
    BY <1>4, <1>7, <2>1 DEF Follows
  <2>3. log[p + 1].id <= browser.last /\ log[p + 1].id \in Nat
    BY <1>1, <1>4, <1>5, <1>7, <2>1, <2>2 DEF Follows
  <2>4. n # 0 /\ n <= Len(log) /\ browser.last = log[n].id
    BY <1>4, <1>6, <2>3 DEF Has, n, NoId
  \* The browser has it, or its id is not above that of the last it has.
  <2>5. p + 1 <= n \/ ~Above(log, p + 1)
    <3> SUFFICES ASSUME n < p + 1, Above(log, p + 1) PROVE FALSE
      BY <1>4, <2>2
    <3>1. log[n].id < log[p + 1].id
      BY <1>4, <2>2, <2>4 DEF Above
    <3>2. log[n].id \in Nat
      BY <1>4, <1>5, <2>4
    <3> QED BY <2>3, <2>4, <3>1, <3>2
  <2>6. l.cursor - Len(l.batch) = p + 1
    BY <1>3, <1>4, <2>1
  <2>7. \A k \in 1 .. Len(l.batch) : l.batch[k] = log[l.cursor - Len(l.batch) + k]
    BY <1>4, <1>7, <2>1, <2>2, <2>6, SMTT(30) DEF Follows
  <2>8. \A i \in 1 .. p : i <= n \/ ~Above(log, i)
    BY <1>7 DEF Follows
  <2> HIDE DEF p
  <2>9. \A i \in 1 .. p + 1 : i <= n \/ ~Above(log, i)
    BY <2>2, <2>5, <2>8
  <2> QED BY <1>3, <1>4, <1>7, <2>1, <2>2, <2>6, <2>7, <2>9 DEF Follows
<1> QED BY <1>2, <1>3, <1>7, QuietStep DEF old, n

LEMMA SendStep ==
  ASSUME StreamInv, NEW s \in Streams, Send(s)
  PROVE  StreamInv'
<1> DEFINE old == stream[s]
           ev  == Head(old.batch)
           l   == [old EXCEPT !.batch = Tail(@), !.last = ev.id,
                              !.terminal = @ \/ ev.type \in TerminalEvents]
           n   == Len(browser.got)
<1>1. old \in Stream /\ old.pc = "sending" /\ log \in Seq(RunEvent) /\ browser \in Browser
      /\ stream \in [Streams -> Stream] /\ old.batch \in Seq(RunEvent) /\ old.batch # <<>>
      /\ ev.id > old.last
  BY TypesAre DEF StreamInv, Send, StreamAt, Stream
<1>2. stream' = [stream EXCEPT ![s] = l] /\ UNCHANGED <<agentSide, slots, leaked, drops>>
      /\ Receive(s, ev)
  BY DEF Send
<1>3. /\ Len(old.batch) \in Nat \ {0} /\ Tail(old.batch) \in Seq(RunEvent)
      /\ Len(Tail(old.batch)) = Len(old.batch) - 1
      /\ ev = old.batch[1] /\ ev \in RunEvent
      /\ \A k \in 1 .. Len(Tail(old.batch)) : Tail(old.batch)[k] = old.batch[k + 1]
  BY <1>1, TailOf
<1>4. ev.id \in Nat
  BY <1>3 DEF RunEvent
<1>5. l \in Stream /\ l.last = ev.id /\ l.cursor = old.cursor /\ l.batch = Tail(old.batch)
      /\ l.pc = "sending"
  <2> HIDE DEF ev
  <2>1. (old.terminal \/ ev.type \in TerminalEvents) \in BOOLEAN
    OBVIOUS
  <2> QED BY <1>1, <1>3, <1>4, <2>1 DEF Stream
<1>6. old.cursor \in Nat /\ n \in Nat /\ Len(log) \in Nat
  BY <1>1 DEF Stream, Browser
<1>7. CASE ~Connected(s)
  <2>1. browser' = browser
    BY <1>2, <1>7 DEF Receive
  <2>2. ~Connected(s)' /\ \A u \in Streams \ {s} : Connected(u)' => Connected(u)
    BY <1>7, <2>1 DEF Connected
  <2>3. slots \in Nat /\ leaked \in Nat /\ drops \in Nat
    BY TypesAre DEF StreamInv
  <2> HIDE DEF l
  <2> QED BY <1>1, <1>2, <1>5, <2>1, <2>2, <2>3, LocalStep
<1>8. CASE Connected(s)
  <2> HIDE DEF ev, l, old
  <2>1. /\ browser'.last = ev.id /\ browser'.got = Append(browser.got, ev.id)
        /\ browser'.conn \in {browser.conn, NoStream}
        /\ browser' \in Browser
    <3>1. browser' = [browser EXCEPT !.last = ev.id, !.got = Append(@, ev.id),
                        !.state = IF ev.type \in TerminalEvents THEN "closed" ELSE @,
                        !.conn = IF ev.type \in TerminalEvents THEN NoStream ELSE @]
      BY <1>2, <1>8 DEF Receive
    <3>2. Append(browser.got, ev.id) \in Seq(Nat)
      BY <1>1, <1>4 DEF Browser
    <3>3. CASE ev.type \in TerminalEvents
      <4>1. browser' = [browser EXCEPT !.last = ev.id, !.got = Append(browser.got, ev.id),
                          !.state = "closed", !.conn = NoStream]
        BY <3>1, <3>3
      <4> QED BY <1>1, <1>4, <3>2, <4>1 DEF Browser
    <3>4. CASE ev.type \notin TerminalEvents
      <4>1. browser' = [browser EXCEPT !.last = ev.id, !.got = Append(browser.got, ev.id),
                          !.state = browser.state, !.conn = browser.conn]
        BY <3>1, <3>4
      <4> QED BY <1>1, <1>4, <3>2, <4>1 DEF Browser
    <3> QED BY <3>3, <3>4
  <2>2. /\ Follows(old, log, browser.last, n)
        /\ Ordered(log, counter) /\ Has(browser.got, browser.last, log)
    BY <1>8 DEF StreamInv, Delivered, old
  <2> DEFINE p == old.cursor - Len(old.batch)
  <2>3. p \in Nat /\ p + 1 <= Len(log) /\ ev = log[p + 1]
    BY <1>3, <1>6, <2>2 DEF Follows
  <2>4. browser.last = old.last /\ n <= Len(log) /\ \A i \in 1 .. p : i <= n \/ ~Above(log, i)
    BY <2>2 DEF Follows, Has
  \* The event is the next one after those the browser has.
  <2>5. p = n
    <3>0. 1 <= n => browser.last = log[n].id /\ Above(log, n)
      BY <1>6, <2>2 DEF Has
    <3> HIDE DEF p, n
    <3>1. CASE p < n
      <4>1. n \in 1 .. Len(log) /\ p + 1 \in 1 .. Len(log) /\ browser.last = log[n].id /\ Above(log, n)
        BY <1>6, <2>3, <2>4, <3>0, <3>1
      <4>2. log[n].id \in Nat /\ log[p + 1].id \in Nat
        BY <1>1, <4>1, EventIds
      <4>3. log[p + 1].id <= log[n].id
        <5>1. CASE p + 1 = n
          BY <4>2, <5>1
        <5>2. CASE p + 1 < n
          BY <1>6, <2>3, <4>1, <4>2, <5>2 DEF Above
        <5> QED BY <1>6, <2>3, <3>1, <5>1, <5>2
      <4> QED BY <1>1, <2>3, <2>4, <4>1, <4>2, <4>3
    <3>2. CASE n < p
      <4>1. n + 1 \in 1 .. Len(log) /\ n + 1 # Len(log) /\ n + 1 \in 1 .. p /\ ~(n + 1 <= n)
        BY <1>6, <2>3, <3>2
      <4>2. Above(log, n + 1)
        BY <2>2, <4>1 DEF Ordered
      <4> QED BY <2>4, <4>1, <4>2
    <3> QED BY <1>6, <2>3, <3>1, <3>2
  <2>6. /\ Len(browser'.got) = n + 1
        /\ \A i \in 1 .. n : browser'.got[i] = browser.got[i]
        /\ browser'.got[n + 1] = ev.id
    BY <1>1, <1>4, <2>1 DEF Browser
  <2>7. Has(browser'.got, browser'.last, log)
    <3>1. \A i \in 1 .. n : browser'.got[i] = log[i].id /\ Above(log, i)
      BY <2>2, <2>6 DEF Has
    <3>2. browser'.got[n + 1] = log[n + 1].id
      BY <2>3, <2>5, <2>6
    <3>3. Above(log, n + 1)
      <4>1. \A j \in 1 .. Len(log) : log[j].id \in Nat
        BY <1>1, EventIds
      <4>2. 1 <= n => browser.last = log[n].id /\ Above(log, n)
        BY <1>6, <2>2 DEF Has
      <4> HIDE DEF p, n
      <4>3. ASSUME NEW j \in 1 .. n PROVE log[j].id < log[n + 1].id
        <5>1. n \in 1 .. Len(log) /\ j \in 1 .. Len(log) /\ browser.last = log[n].id /\ Above(log, n)
          BY <1>6, <2>4, <4>2
        <5>2. n + 1 \in 1 .. Len(log)
          BY <1>6, <2>3, <2>5
        <5>3. log[n].id < log[n + 1].id
          BY <1>1, <2>3, <2>4, <2>5, <4>1, <5>1, <5>2
        <5>4. j = n \/ log[j].id < log[n].id
          BY <1>6, <5>1 DEF Above
        <5> QED BY <4>1, <5>1, <5>2, <5>3, <5>4
      <4>4. \A j \in 1 .. (n + 1) - 1 : j \in 1 .. n
        BY <1>6
      <4>5. \A j \in 1 .. (n + 1) - 1 : log[j].id < log[n + 1].id
        BY <4>3, <4>4, Zenon
      <4> QED BY <4>5, Zenon DEF Above
    <3>4. \A i \in 1 .. n + 1 : browser'.got[i] = log[i].id /\ Above(log, i)
      BY <1>6, <3>1, <3>2, <3>3
    <3> QED BY <1>6, <2>1, <2>3, <2>5, <2>6, <3>4 DEF Has
  <2>8. Follows(l, log, browser'.last, Len(browser'.got))
    <3>1. Len(l.batch) = Len(old.batch) - 1 /\ l.cursor - Len(l.batch) = p + 1
      BY <1>3, <1>5, <1>6
    <3>2. \A k \in 1 .. Len(old.batch) : old.batch[k] = log[p + k]
      BY <2>2 DEF Follows
    <3> HIDE DEF p
    <3>3. \A k \in 1 .. Len(l.batch) : l.batch[k] = log[l.cursor - Len(l.batch) + k]
      <4> SUFFICES ASSUME NEW k \in 1 .. Len(l.batch)
                   PROVE  l.batch[k] = log[l.cursor - Len(l.batch) + k]
        OBVIOUS
      <4>1. l.batch[k] = old.batch[k + 1] /\ k + 1 \in 1 .. Len(old.batch)
        BY <1>3, <1>5
      <4>2. l.cursor - Len(l.batch) + k = p + (k + 1)
        BY <2>3, <3>1
      <4> QED BY <3>2, <4>1, <4>2
    <3>4. \A i \in 1 .. l.cursor - Len(l.batch) : i <= Len(browser'.got)
      BY <1>6, <2>5, <2>6, <3>1
    <3> QED BY <1>3, <1>5, <1>6, <2>1, <2>2, <3>1, <3>3, <3>4 DEF Follows
  <2>9. /\ log' = log /\ counter' = counter /\ stream' \in [Streams -> Stream]
        /\ stream'[s] = l
    BY <1>1, <1>2, <1>5 DEF agentSide
  <2>10. StreamTypeOK'
    BY <1>2, <2>1, <2>9, TypesAre DEF StreamInv, StreamTypeOK, Stream, Browser
  <2>11. \A u \in Streams : Connected(u)' => u = s
    BY <1>8, <2>1, EventStreamAssumption DEF Connected
  <2> QED BY <2>2, <2>7, <2>8, <2>9, <2>10, <2>11 DEF StreamInv, Delivered
<1> QED BY <1>7, <1>8

\* A generator that ends: it no longer writes to the browser.
LEMMA NeverBeginsStep ==
  ASSUME StreamInv, NEW s \in Streams, NeverBegins(s)
  PROVE  StreamInv'
<1>1. /\ stream' = [stream EXCEPT ![s] = Closed]
      /\ leaked' = leaked + 1 /\ UNCHANGED <<agentSide, slots, browser, drops>>
      /\ ~Connected(s)
  BY DEF NeverBegins
<1>2. browser \in Browser /\ slots \in Nat /\ leaked \in Nat /\ drops \in Nat
  BY TypesAre DEF StreamInv
<1>3. ~Connected(s)' /\ \A u \in Streams \ {s} : Connected(u)' => Connected(u)
  BY <1>1 DEF Connected
<1>4. slots' \in Nat /\ leaked' \in Nat /\ drops' \in Nat /\ browser' = browser
  BY <1>1, <1>2
<1> HIDE DEF Closed
<1> QED BY <1>1, <1>2, <1>3, <1>4, ClosedTyped, LocalStep

LEMMA NoticeStep ==
  ASSUME StreamInv, NEW s \in Streams, Notice(s)
  PROVE  StreamInv'
<1>1. /\ stream' = [stream EXCEPT ![s] = Closed]
      /\ slots' = IF slots = 0 THEN 0 ELSE slots - 1
      /\ UNCHANGED <<agentSide, leaked, browser, drops>>
      /\ ~Connected(s)
  BY DEF Notice, Release
<1>2. browser \in Browser /\ slots \in Nat /\ leaked \in Nat /\ drops \in Nat
  BY TypesAre DEF StreamInv
<1>3. ~Connected(s)' /\ \A u \in Streams \ {s} : Connected(u)' => Connected(u)
  BY <1>1 DEF Connected
<1>4. slots' \in Nat
  BY <1>1, <1>2
<1> QED BY <1>1, <1>2, <1>3, <1>4, ClosedTyped, LocalStep

LEMMA ReturnStep ==
  ASSUME StreamInv, NEW s \in Streams, Return1(s)
  PROVE  StreamInv'
<1>1. /\ stream' = [stream EXCEPT ![s] = Closed]
      /\ slots' = IF slots = 0 THEN 0 ELSE slots - 1
      /\ browser' = IF Connected(s) THEN [browser EXCEPT !.conn = NoStream] ELSE browser
      /\ UNCHANGED <<agentSide, leaked, drops>>
  BY DEF Return1, Release
<1>2. browser \in Browser /\ slots \in Nat /\ leaked \in Nat /\ drops \in Nat
  BY TypesAre DEF StreamInv
<1>3. /\ browser' \in Browser /\ browser'.got = browser.got /\ browser'.last = browser.last
      /\ browser'.conn # s
      /\ browser'.conn \in {browser.conn, NoStream}
  <2>1. CASE Connected(s)
    BY <1>1, <1>2, <2>1, EventStreamAssumption DEF Browser
  <2>2. CASE ~Connected(s)
    BY <1>1, <1>2, <2>2 DEF Connected
  <2> QED BY <2>1, <2>2
<1>4. ~Connected(s)' /\ \A u \in Streams \ {s} : Connected(u)' => Connected(u)
  BY <1>3, EventStreamAssumption DEF Connected
<1>5. slots' \in Nat
  BY <1>1, <1>2
<1> QED BY <1>1, <1>2, <1>3, <1>4, <1>5, ClosedTyped, LocalStep

-----------------------------------------------------------------------------
LEMMA InitStream == StreamInit => StreamInv
<1> SUFFICES ASSUME StreamInit PROVE StreamInv
  OBVIOUS
<1>1. log = <<>> /\ browser.got = <<>> /\ browser.last = NoId /\ browser.conn = NoStream /\ counter = 0
  BY DEF StreamInit
<1>2. Len(log) = 0 /\ Len(browser.got) = 0
  BY <1>1
<1>3. \A s \in Streams : ~Connected(s)
  BY <1>1, EventStreamAssumption DEF Connected
<1> QED BY <1>1, <1>2, <1>3, InitTyped DEF StreamInv, Delivered, Ordered, Has

LEMMA NextStream == StreamInv /\ [StreamNext]_streamVars => StreamInv'
<1> SUFFICES ASSUME StreamInv, [StreamNext]_streamVars PROVE StreamInv'
  OBVIOUS
<1>1. CASE UNCHANGED streamVars
  BY <1>1 DEF StreamInv, streamVars, StreamTypeOK, Delivered, Connected
<1> QED BY <1>1, EmitStep, EmitEmergencyStep, ConnectStep, ConnectRefusedStep, DropStep, BeginStreamStep, NeverBeginsStep,
           ReadStep, SkipStep, SendStep, EndBatchStep, ReturnStep, NoticeStep
        DEF StreamNext, StreamStep

\* Every variable keeps its type, whatever breaks (sse.py, useRunEvents.ts).
THEOREM StreamTyped == StreamSpec => []StreamTypeOK
<1>1. StreamInv => StreamTypeOK
  BY DEF StreamInv
<1> QED BY <1>1, InitStream, NextStream, PTL DEF StreamSpec

LEMMA StreamInvImplies == StreamInv => ReceivedInOrder
<1> SUFFICES ASSUME StreamInv PROVE ReceivedInOrder
  OBVIOUS
<1>1. /\ log \in Seq(RunEvent) /\ browser \in Browser /\ stream \in [Streams -> Stream]
      /\ browser.got \in Seq(Nat)
  BY TypesAre DEF StreamInv, Browser
<1>2. /\ DOMAIN browser.got = 1 .. Len(browser.got) /\ Len(browser.got) \in Nat
      /\ DOMAIN log = 1 .. Len(log) /\ Len(log) \in Nat
  BY <1>1
<1>3. \A i \in 1 .. Len(log) : Overtaken(i) <=> ~Above(log, i)
  <2>1. \A i \in 1 .. Len(log) : log[i].id \in Nat
    BY <1>1, EventIds
  <2>2. \A i \in 1 .. Len(log), j \in 1 .. Len(log) : log[j].id >= log[i].id <=> ~(log[j].id < log[i].id)
    BY <2>1
  <2>3. \A i \in 1 .. Len(log) : \A j \in 1 .. i - 1 : j \in 1 .. Len(log)
    BY <1>2
  <2> QED BY <2>2, <2>3 DEF Overtaken, Above
<1>4. ASSUME NEW i \in DOMAIN browser.got
      PROVE  i \in DOMAIN log /\ ~Overtaken(i) /\ browser.got[i] = log[i].id
  <2>1. i \in 1 .. Len(log) /\ browser.got[i] = log[i].id /\ Above(log, i)
    BY <1>2 DEF StreamInv, Delivered, Has
  <2> QED BY <1>2, <1>3, <2>1
<1>5. ASSUME NEW s \in Streams, Connected(s), StreamAt(s, "reading"), NEW i \in 1 .. stream[s].cursor
      PROVE  i \in DOMAIN browser.got \/ Overtaken(i)
  <2>1. Follows(stream[s], log, browser.last, Len(browser.got))
    BY <1>5 DEF StreamInv, Delivered
  <2>2. stream[s].cursor \in Nat /\ Len(stream[s].batch) = 0 /\ stream[s].cursor <= Len(log)
    BY <1>1, <1>5, <2>1 DEF Follows, Stream, StreamAt
  <2>3. stream[s].cursor - Len(stream[s].batch) = stream[s].cursor
    BY <2>2
  <2>4. i <= Len(browser.got) \/ ~Above(log, i)
    BY <2>1, <2>3 DEF Follows
  <2> QED BY <1>2, <1>3, <2>2, <2>4
<1> QED BY <1>4, <1>5 DEF ReceivedInOrder

\* However often the connection breaks and whatever is read again, the browser receives
\* the events of the run in order and each once, and of what its connection has dealt with
\* none is left out but an emergency's end with an id of the clock that is not above the
\* ids before it (EventBridge.stream; runner.py, _event).
THEOREM StreamInOrder == StreamSpec => []ReceivedInOrder
BY StreamInvImplies, InitStream, NextStream, PTL DEF StreamSpec

-----------------------------------------------------------------------------
(* The guard.                                                              *)

Running == {s \in Streams : ~StreamAt(s, "closed")}

LEMMA RunningFinite == IsFiniteSet(Running) /\ Cardinality(Running) \in Nat
BY EventStreamAssumption, FS_Subset, FS_CardinalityType DEF Running

\* One more generator, or one less.
LEMMA OneMore ==
  ASSUME stream \in [Streams -> Stream], NEW s \in Streams, StreamAt(s, "closed"),
         NEW l \in Stream, l.pc # "closed", stream' = [stream EXCEPT ![s] = l]
  PROVE  Cardinality(Running') = Cardinality(Running) + 1
<1>1. Running' = Running \cup {s} /\ s \notin Running
  BY DEF Running, StreamAt
<1> QED BY <1>1, RunningFinite, FS_AddElement

LEMMA OneLess ==
  ASSUME stream \in [Streams -> Stream], NEW s \in Streams, ~StreamAt(s, "closed"),
         stream' = [stream EXCEPT ![s] = Closed]
  PROVE  /\ Cardinality(Running') = Cardinality(Running) - 1
         /\ Cardinality(Running) > 0
<1>1. Running' = Running \ {s} /\ s \in Running
  BY ClosedTyped DEF Running, StreamAt
<1>2. Cardinality(Running') = Cardinality(Running) - 1
  BY <1>1, RunningFinite, FS_RemoveElement
<1>3. IsFiniteSet(Running') /\ Cardinality(Running') \in Nat
  BY <1>1, RunningFinite, FS_RemoveElement, FS_CardinalityType
<1> QED BY <1>2, <1>3, RunningFinite

LEMMA InitSlots == StreamInit => SlotsMatchStreams
<1> SUFFICES ASSUME StreamInit PROVE SlotsMatchStreams
  OBVIOUS
<1>1. {s \in Streams : ~StreamAt(s, "closed")} = {}
  BY ClosedTyped DEF StreamInit, StreamAt
<1>2. Cardinality({s \in Streams : ~StreamAt(s, "closed")}) = 0
  BY <1>1, FS_EmptySet
<1>3. slots = 0 /\ leaked = 0 /\ MaxPerUser \in Nat
  BY EventStreamAssumption DEF StreamInit
<1> QED BY <1>2, <1>3 DEF SlotsMatchStreams

LEMMA NextSlots ==
  ASSUME StreamTypeOK, SlotsMatchStreams, [StreamNext]_streamVars
  PROVE  SlotsMatchStreams'
<1>1. stream \in [Streams -> Stream] /\ slots \in Nat /\ leaked \in Nat /\ MaxPerUser \in Nat
      /\ browser.last \in Nat \cup {NoId}
  BY TypesAre, EventStreamAssumption DEF Browser
<1>2. slots = Cardinality(Running) + leaked /\ slots <= MaxPerUser /\ Cardinality(Running) \in Nat
  BY RunningFinite DEF SlotsMatchStreams, Running
<1>3. SUFFICES slots' = Cardinality(Running') + leaked' /\ slots' <= MaxPerUser
  BY DEF SlotsMatchStreams, Running
<1>4. CASE UNCHANGED <<stream, slots, leaked>>
  BY <1>2, <1>4 DEF Running, StreamAt
<1>5. ASSUME NEW s \in Streams, Connect(s)
      PROVE  slots' = Cardinality(Running') + leaked' /\ slots' <= MaxPerUser
  <2>1. [Closed EXCEPT !.pc = "accepted", !.last = browser.last] \in Stream
        /\ [Closed EXCEPT !.pc = "accepted", !.last = browser.last].pc = "accepted"
    BY <1>1, ClosedTyped DEF Stream
  <2>2. Cardinality(Running') = Cardinality(Running) + 1
    BY <1>1, <1>5, <2>1, OneMore DEF Connect
  <2>3. slots' = slots + 1 /\ leaked' = leaked /\ slots < MaxPerUser
    BY <1>5 DEF Connect
  <2> QED BY <1>1, <1>2, <2>2, <2>3
<1>6. ASSUME NEW s \in Streams, NeverBegins(s)
      PROVE  slots' = Cardinality(Running') + leaked' /\ slots' <= MaxPerUser
  <2>1. Cardinality(Running') = Cardinality(Running) - 1
    BY <1>1, <1>6, OneLess DEF NeverBegins, StreamAt
  <2>2. slots' = slots /\ leaked' = leaked + 1
    BY <1>6 DEF NeverBegins
  <2> QED BY <1>1, <1>2, <2>1, <2>2
<1>7. ASSUME NEW s \in Streams, ~StreamAt(s, "closed"), Release(s), leaked' = leaked
      PROVE  slots' = Cardinality(Running') + leaked' /\ slots' <= MaxPerUser
  <2>1. Cardinality(Running') = Cardinality(Running) - 1 /\ Cardinality(Running) > 0
    BY <1>1, <1>7, OneLess DEF Release
  <2>2. slots' = IF slots = 0 THEN 0 ELSE slots - 1
    BY <1>7 DEF Release
  <2> QED BY <1>1, <1>2, <1>7, <2>1, <2>2
<1>8. ASSUME NEW s \in Streams, Return1(s) \/ Notice(s)
      PROVE  slots' = Cardinality(Running') + leaked' /\ slots' <= MaxPerUser
  BY <1>7, <1>8 DEF Return1, Notice, StreamAt
<1>9. ASSUME \A u \in Streams : StreamAt(u, "closed")' <=> StreamAt(u, "closed"),
             UNCHANGED <<slots, leaked>>
      PROVE  slots' = Cardinality(Running') + leaked' /\ slots' <= MaxPerUser
  <2>1. Running' = Running
    BY <1>9 DEF Running
  <2> QED BY <1>2, <1>9, <2>1
<1>10. ASSUME NEW s \in Streams, BeginStream(s) \/ Read(s) \/ Skip(s) \/ Send(s) \/ EndBatch(s)
       PROVE  slots' = Cardinality(Running') + leaked' /\ slots' <= MaxPerUser
  <2>1. \A u \in Streams : StreamAt(u, "closed")' <=> StreamAt(u, "closed")
    <3>1. CASE BeginStream(s)
      BY <1>1, <3>1 DEF BeginStream, StreamAt, Stream
    <3>2. CASE Read(s)
      BY <1>1, <3>2 DEF Read, StreamAt, Stream
    <3>3. CASE Skip(s)
      BY <1>1, <3>3 DEF Skip, StreamAt, Stream
    <3>4. CASE Send(s)
      BY <1>1, <3>4 DEF Send, StreamAt, Stream
    <3>5. CASE EndBatch(s)
      BY <1>1, <3>5 DEF EndBatch, StreamAt, Stream
    <3> QED BY <1>10, <3>1, <3>2, <3>3, <3>4, <3>5
  <2>2. UNCHANGED <<slots, leaked>>
    BY <1>10 DEF BeginStream, Read, Skip, Send, EndBatch
  <2> QED BY <1>9, <2>1, <2>2
<1> QED BY <1>4, <1>5, <1>6, <1>8, <1>10 DEF StreamNext, StreamStep, streamVars, Emit, EmitEmergency, ConnectRefused, Drop

\* The guard's count is the generators that run, and those that never ran; it never
\* passes the limit (ConnectionGuard.acquire and release).
THEOREM SlotsCounted == StreamSpec => []SlotsMatchStreams
<1>1. StreamTypeOK /\ SlotsMatchStreams /\ [StreamNext]_streamVars => SlotsMatchStreams'
  BY NextSlots
<1> QED BY <1>1, InitSlots, StreamTyped, PTL DEF StreamSpec

-----------------------------------------------------------------------------
(***************************************************************************)
(* The API: a step of one of the three leaves the others' variables alone, *)
(* so each keeps its invariant.                                            *)
(***************************************************************************)

LEMMA ApiInitInv == ApiInit => TripsInv /\ ConsentsInv /\ StreamInv /\ SlotsMatchStreams
BY InitTrips, InitConsents, InitStream, InitSlots DEF ApiInit

LEMMA ApiNextInv ==
  /\ TripsInv /\ ConsentsInv /\ StreamInv /\ SlotsMatchStreams /\ group \in Groups
  /\ [ApiNext]_apiVars
  => (TripsInv /\ ConsentsInv /\ StreamInv /\ SlotsMatchStreams /\ group \in Groups)'
<1>1. [ApiNext]_apiVars =>
        [TripsNext]_tripVars /\ [ConsentsNext]_consentVars /\ [StreamNext]_streamVars
          /\ group' = group
  BY DEF ApiNext, apiVars
<1> QED
  BY <1>1, NextTrips, NextConsents, NextStream, NextSlots DEF StreamInv

\* Everything the three groups keep is well typed, whichever of them callers use.
THEOREM ApiTyped == ApiFairSpec => []TypeOK
<1>1. TripsInv /\ ConsentsInv /\ StreamInv /\ group \in Groups => TypeOK
  BY DEF TripsInv, ConsentsInv, StreamInv, TypeOK
<1>2. ApiInit => group \in Groups
  BY DEF ApiInit
<1> QED
  BY <1>1, <1>2, ApiInitInv, ApiNextInv, PTL DEF ApiFairSpec

\* The guarantees of the parts hold in the API that offers them together, whatever of the
\* trips, the consents and the streams a behaviour exercises.
THEOREM ApiSafe ==
  ApiFairSpec => [](RevisionsAgree /\ NothingOutlivesConsent /\ ReceivedInOrder /\ SlotsMatchStreams)
<1>1. TripsInv /\ ConsentsInv /\ StreamInv => RevisionsAgree /\ NothingOutlivesConsent /\ ReceivedInOrder
  BY TripsInvImplies, Split, StreamInvImplies DEF ConsentsInv
<1>2. ApiInit => group \in Groups
  BY DEF ApiInit
<1> QED
  BY <1>1, <1>2, ApiInitInv, ApiNextInv, PTL DEF ApiFairSpec
=============================================================================
