---------------------------- MODULE PipelineProofs ----------------------------
(***************************************************************************)
(* What the services of the pipeline compute, for any context, model and   *)
(* explanation: a route keeps its place in the world through sorting and   *)
(* ranking, the policy's facts are about routes the package has, and the   *)
(* decision and the response agree with the snapshot they come from.  The  *)
(* lemmas relate one service's records to the ones it was given.           *)
(***************************************************************************)
EXTENDS Snapshot, Risk, Policy, Advice, FiniteSetTheorems, WellFoundedInduction, TLAPS

-----------------------------------------------------------------------------
(* Sorting.                                                                *)

LEMMA LeastNat ==
  ASSUME NEW S, S \subseteq Nat, S # {}
  PROVE  \E n \in S : \A m \in S : n <= m
<1>1. \E n \in S : \A m \in S : ~(<<m, n>> \in OpToRel(<, Nat))
  BY NatLessThanWellFounded, WFMin
<1>2. \A m, n \in Nat : m < n => <<m, n>> \in OpToRel(<, Nat)
  BY DEF OpToRel
<1>3. PICK n \in S : \A m \in S : ~(<<m, n>> \in OpToRel(<, Nat))
  BY <1>1
<1>4. ASSUME NEW m \in S
      PROVE  n <= m
  <2>1. ~(m < n)
    BY <1>2, <1>3, Zenon
  <2> QED BY <2>1
<1> QED BY <1>4

\* The tuples that are compared have one length.
Tuples(n) == {s \in Seq(Int) : Len(s) = n}

\* Precedes is a strict total order of them.
LEMMA PrecedesIrreflexive ==
  ASSUME NEW n \in Nat, NEW s \in Tuples(n)
  PROVE  ~Precedes(s, s)
BY DEF Precedes, Tuples

LEMMA PrecedesTransitive ==
  ASSUME NEW n \in Nat, NEW s \in Tuples(n), NEW t \in Tuples(n), NEW u \in Tuples(n),
         Precedes(s, t), Precedes(t, u)
  PROVE  Precedes(s, u)
<1>1. /\ s \in [1 .. n -> Int] /\ t \in [1 .. n -> Int] /\ u \in [1 .. n -> Int]
      /\ DOMAIN s = 1 .. n /\ DOMAIN t = 1 .. n
  BY DEF Tuples
<1>2. PICK a \in 1 .. n : s[a] < t[a] /\ \A k \in 1 .. a - 1 : s[k] = t[k]
  BY <1>1 DEF Precedes
<1>3. PICK b \in 1 .. n : t[b] < u[b] /\ \A k \in 1 .. b - 1 : t[k] = u[k]
  BY <1>1 DEF Precedes
<1>4. PICK c \in 1 .. n : (c = a \/ c = b) /\ c <= a /\ c <= b
  OBVIOUS
<1>5. s[c] < u[c] /\ \A k \in 1 .. c - 1 : s[k] = u[k]
  BY <1>1, <1>2, <1>3, <1>4
<1> QED BY <1>1, <1>5 DEF Precedes

LEMMA PrecedesTotal ==
  ASSUME NEW n \in Nat, NEW s \in Tuples(n), NEW t \in Tuples(n), s # t
  PROVE  Precedes(s, t) \/ Precedes(t, s)
<1>1. /\ s \in [1 .. n -> Int] /\ t \in [1 .. n -> Int] /\ DOMAIN s = 1 .. n /\ DOMAIN t = 1 .. n
  BY DEF Tuples
<1> DEFINE differ == {k \in 1 .. n : s[k] # t[k]}
<1>2. differ # {}
  <2>1. ASSUME differ = {}
        PROVE  s = t
    <3>1. \A k \in 1 .. n : s[k] = t[k]
      BY <2>1
    <3> QED BY <1>1, <3>1
  <2> QED BY <2>1
<1>3. PICK a \in differ : \A b \in differ : a <= b
  <2>1. differ \subseteq Nat
    OBVIOUS
  <2> HIDE DEF differ
  <2> QED BY <1>2, <2>1, LeastNat
<1>4. \A k \in 1 .. a - 1 : s[k] = t[k]
  BY <1>3
<1>5. s[a] < t[a] \/ t[a] < s[a]
  BY <1>1
<1> QED BY <1>1, <1>4, <1>5 DEF Precedes

\* The members of the domain, each exactly once.
LEMMA SortedIsBijection ==
  ASSUME NEW D, IsFiniteSet(D), NEW n \in Nat, NEW key \in [D -> Tuples(n)],
         \A i, j \in D : key[i] = key[j] => i = j
  PROVE  /\ Cardinality(D) \in Nat
         /\ Sorted(key) \in [1 .. Cardinality(D) -> D]
         /\ \A i \in D : \E k \in 1 .. Cardinality(D) : Sorted(key)[k] = i
         /\ \A k, l \in 1 .. Cardinality(D) : Sorted(key)[k] = Sorted(key)[l] => k = l
<1> DEFINE N == Cardinality(D)
           Below(i) == {j \in DOMAIN key : Precedes(key[j], key[i])}
           place == [i \in D |-> Cardinality(Below(i))]
<1>1. N \in Nat /\ DOMAIN key = D
  BY FS_CardinalityType
<1>2. ASSUME NEW i \in D
      PROVE  IsFiniteSet(Below(i)) /\ Cardinality(Below(i)) \in 0 .. N - 1
  <2>1. i \notin Below(i)
    BY PrecedesIrreflexive
  <2>2. IsFiniteSet(D \ {i}) /\ Cardinality(D \ {i}) = N - 1
    BY FS_RemoveElement
  <2>3. Below(i) \in SUBSET (D \ {i})
    BY <1>1, <2>1
  <2> QED BY <1>1, <2>2, <2>3, FS_Subset, FS_CardinalityType
<1>3. ASSUME NEW i \in D, NEW j \in D, Precedes(key[i], key[j])
      PROVE  place[i] < place[j]
  <2>1. Below(i) \subseteq Below(j)
    BY <1>3, PrecedesTransitive
  <2>2. i \in Below(j) /\ i \notin Below(i)
    BY <1>3, PrecedesIrreflexive
  <2>3. Cardinality(Below(i) \cup {i}) = Cardinality(Below(i)) + 1
    BY <1>2, <2>2, FS_AddElement
  <2>4. Below(i) \cup {i} \in SUBSET Below(j)
    BY <2>1, <2>2
  <2>5. Cardinality(Below(i) \cup {i}) <= Cardinality(Below(j))
    BY <1>2, <2>4, FS_Subset
  <2>6. place[i] = Cardinality(Below(i)) /\ place[j] = Cardinality(Below(j))
    OBVIOUS
  <2>7. Cardinality(Below(i)) \in Int /\ Cardinality(Below(j)) \in Int
    <3>1. Cardinality(Below(i)) \in 0 .. N - 1 /\ Cardinality(Below(j)) \in 0 .. N - 1
      BY <1>2, Zenon
    <3> HIDE DEF Below
    <3> QED BY <3>1
  <2> HIDE DEF place, Below
  <2> QED BY <2>3, <2>5, <2>6, <2>7
<1>4. place \in [D -> 0 .. N - 1]
  BY <1>2
<1>5. \A i, j \in D : place[i] = place[j] => i = j
  <2> SUFFICES ASSUME NEW i \in D, NEW j \in D, place[i] = place[j], i # j
               PROVE  FALSE
    OBVIOUS
  <2>1. key[i] # key[j]
    OBVIOUS
  <2>2. Precedes(key[i], key[j]) \/ Precedes(key[j], key[i])
    BY <2>1, PrecedesTotal
  <2> HIDE DEF place
  <2> QED BY <1>3, <1>4, <2>2
<1>6. place \in Surjection(D, 0 .. N - 1)
  <2>1. place \in Injection(D, 0 .. N - 1)
    BY <1>4, <1>5 DEF Injection, IsInjective
  <2>2. IsFiniteSet(0 .. N - 1) /\ Cardinality(0 .. N - 1) = N
    BY <1>1, FS_Interval
  <2> QED BY <2>1, <2>2, FS_Injection
<1>7. \A k \in 1 .. N : \E i \in D : place[i] = k - 1
  <2> HIDE DEF place
  <2> QED BY <1>1, <1>6 DEF Surjection
<1>8. Sorted(key) = [k \in 1 .. N |-> CHOOSE i \in DOMAIN key : Cardinality(Below(i)) = k - 1]
  BY <1>1 DEF Sorted
<1>9. ASSUME NEW k \in 1 .. N
      PROVE  Sorted(key)[k] \in D /\ place[Sorted(key)[k]] = k - 1
  <2>1. Sorted(key)[k] = CHOOSE i \in DOMAIN key : Cardinality(Below(i)) = k - 1
    BY <1>8
  <2>2. \E i \in DOMAIN key : Cardinality(Below(i)) = k - 1
    BY <1>1, <1>7
  <2> HIDE DEF Below
  <2>3. Sorted(key)[k] \in D /\ Cardinality(Below(Sorted(key)[k])) = k - 1
    BY <1>1, <2>1, <2>2
  <2> QED BY <2>3
<1> HIDE DEF place
<1>10. Sorted(key) \in [1 .. N -> D]
  <2> HIDE DEF Below
  <2> QED BY <1>8, <1>9
<1>11. ASSUME NEW i \in D
       PROVE  \E k \in 1 .. N : Sorted(key)[k] = i
  <2>1. place[i] + 1 \in 1 .. N
    BY <1>1, <1>4
  <2>2. place[Sorted(key)[place[i] + 1]] = place[i]
    BY <1>4, <1>9, <2>1
  <2> QED BY <1>5, <1>9, <2>1, <2>2
<1>12. \A k, l \in 1 .. N : Sorted(key)[k] = Sorted(key)[l] => k = l
  BY <1>1, <1>9
<1> QED BY <1>1, <1>10, <1>11, <1>12

LEMMA FiniteWithin ==
  ASSUME NEW n \in Nat, NEW S \in SUBSET (1 .. n)
  PROVE  IsFiniteSet(S)
<1>1. IsFiniteSet(1 .. n)
  BY FS_Interval
<1> QED BY <1>1, FS_Subset

LEMMA KeptRecords ==
  ASSUME NEW s, NEW n \in Nat, NEW positions \in SUBSET (1 .. n),
         NEW k \in DOMAIN Kept(s, positions)
  PROVE  \E i \in positions : Kept(s, positions)[k] = s[i]
<1> DEFINE key == [i \in positions |-> <<i>>]
<1>1. IsFiniteSet(positions)
  BY FiniteWithin
<1>2. key \in [positions -> Tuples(1)]
  BY DEF Tuples
<1>3. \A i, j \in positions : key[i] = key[j] => i = j
  OBVIOUS
<1> HIDE DEF key
<1>4. Cardinality(positions) \in Nat /\ Sorted(key) \in [1 .. Cardinality(positions) -> positions]
  BY <1>1, <1>2, <1>3, SortedIsBijection
<1>5. Kept(s, positions) = [l \in 1 .. Cardinality(positions) |-> s[Sorted(key)[l]]]
  BY <1>4 DEF Kept, key
<1> QED BY <1>4, <1>5

LEMMA KeptFits ==
  ASSUME NEW T, NEW s \in Seq(T), NEW positions \in SUBSET DOMAIN s
  PROVE  Kept(s, positions) \in Seq(T)
<1>1. Len(s) \in Nat /\ DOMAIN s = 1 .. Len(s) /\ positions \in SUBSET (1 .. Len(s))
  OBVIOUS
<1> DEFINE key == [i \in positions |-> <<i>>]
<1>2. IsFiniteSet(positions)
  BY <1>1, FiniteWithin
<1>3. key \in [positions -> Tuples(1)] /\ \A i, j \in positions : key[i] = key[j] => i = j
  BY <1>1 DEF Tuples
<1> HIDE DEF key
<1>4. Cardinality(positions) \in Nat /\ Sorted(key) \in [1 .. Cardinality(positions) -> positions]
  BY <1>2, <1>3, SortedIsBijection
<1>5. Kept(s, positions) = [l \in 1 .. Cardinality(positions) |-> s[Sorted(key)[l]]]
  BY <1>4 DEF Kept, key
<1>6. Kept(s, positions) \in [1 .. Cardinality(positions) -> T]
  BY <1>1, <1>4, <1>5
<1> QED BY <1>4, <1>6

-----------------------------------------------------------------------------
(* Routes on their way through the services.                               *)

\* A line of two vertices or more.
Line(path) == path \in Seq(Positions) /\ Len(path) >= 2

LEMMA LineOf ==
  ASSUME NEW path \in Seq(Positions), Cardinality(Range(path)) > 1
  PROVE  Line(NormalizedPath(path))
<1>1. Len(path) >= 2
  <2>1. ASSUME Len(path) = 0
        PROVE  FALSE
    <3>1. Range(path) = {}
      BY <2>1 DEF Range
    <3> QED BY <3>1, FS_EmptySet
  <2>2. ASSUME Len(path) = 1
        PROVE  FALSE
    <3>1. Range(path) = {path[1]}
      BY <2>2 DEF Range
    <3>2. Cardinality({path[1]}) = 1
      BY FS_Singleton
    <3> QED BY <3>1, <3>2
  <2>3. PICK n \in Nat : n = Len(path)
    OBVIOUS
  <2>4. n # 0 /\ n # 1
    BY <2>1, <2>2, <2>3
  <2>5. n >= 2
    BY <2>4
  <2> QED BY <2>3, <2>5
<1>2. PICK kept : kept = Kept(path, {i \in DOMAIN path : i = 1 \/ path[i] # path[i - 1]})
  OBVIOUS
<1>3. kept \in Seq(Positions)
  BY <1>2, KeptFits
<1>4. NormalizedPath(path) = IF Len(kept) >= 2 THEN kept ELSE path
  BY <1>2 DEF NormalizedPath
<1> QED BY <1>1, <1>3, <1>4 DEF Line

\* A record with the fields of a route.
IsRoute(r) ==
  r = [id |-> r.id, label |-> r.label, labels |-> r.labels, mode |-> r.mode, path |-> r.path,
       minutes |-> r.minutes, exposure |-> r.exposure, usable |-> r.usable, rank |-> r.rank,
       quality |-> r.quality]

\* One id stands for one road.
OneRoad(routes) ==
  \A i, j \in DOMAIN routes : routes[i].id = routes[j].id => routes[i].path = routes[j].path

LEMMA RouteMoved ==
  ASSUME NEW r, IsRoute(r), NEW path
  PROVE  /\ IsRoute([r EXCEPT !.path = path])
         /\ [r EXCEPT !.path = path].id = r.id
         /\ [r EXCEPT !.path = path].path = path
BY DEF IsRoute

\* A route with another exposure.
ExposedAs(e, r, x) == IsRoute(e) /\ e.id = r.id /\ e.path = r.path /\ e.exposure = x

LEMMA RouteExposed ==
  ASSUME NEW r, IsRoute(r), NEW x, NEW u, NEW e, e = [r EXCEPT !.exposure = x, !.usable = u]
  PROVE  ExposedAs(e, r, x)
<1> DEFINE h == [id |-> r.id, label |-> r.label, labels |-> r.labels, mode |-> r.mode,
                 path |-> r.path, minutes |-> r.minutes, exposure |-> x, usable |-> r.usable,
                 rank |-> r.rank, quality |-> r.quality]
           g == [id |-> r.id, label |-> r.label, labels |-> r.labels, mode |-> r.mode,
                 path |-> r.path, minutes |-> r.minutes, exposure |-> x, usable |-> u,
                 rank |-> r.rank, quality |-> r.quality]
<1>1. e = [[r EXCEPT !.exposure = x] EXCEPT !.usable = u]
  BY Zenon
<1>2. [r EXCEPT !.exposure = x] = h
  BY DEF IsRoute
<1>3. [h EXCEPT !.usable = u] = g
  OBVIOUS
<1>4. e = g
  BY <1>1, <1>2, <1>3
<1> QED BY <1>4 DEF IsRoute, ExposedAs

\* build_snapshot's routes are some of the context's, with a path that depends on theirs only.
LEMMA SortedRoutesAre ==
  ASSUME NEW routes \in Seq(Routes), OneRoad(routes)
  PROVE  /\ \E n \in Nat : SortedRoutes(routes) \in [1 .. n -> Range(SortedRoutes(routes))]
         /\ \A k \in DOMAIN SortedRoutes(routes) :
              IsRoute(SortedRoutes(routes)[k]) /\ Line(SortedRoutes(routes)[k].path)
         /\ OneRoad(SortedRoutes(routes))
<1> DEFINE valid == {i \in DOMAIN routes : ValidRoute(routes[i])}
           key == [i \in valid |-> <<Truth(routes[i].label # "ORIGINAL"), routes[i].minutes, i>>]
           order == Sorted(key)
           sorted == SortedRoutes(routes)
<1>1. DOMAIN routes = 1 .. Len(routes) /\ Len(routes) \in Nat /\ \A i \in DOMAIN routes : routes[i] \in Routes
  OBVIOUS
<1>2. valid \in SUBSET (1 .. Len(routes))
  BY <1>1
<1>3. IsFiniteSet(valid)
  <2> HIDE DEF valid
  <2> QED BY <1>1, <1>2, FiniteWithin
<1>4. key \in [valid -> Tuples(3)]
  <2>1. ASSUME NEW i \in valid
        PROVE  <<Truth(routes[i].label # "ORIGINAL"), routes[i].minutes, i>> \in Tuples(3)
    <3>1. routes[i].minutes \in Int /\ i \in Int
      BY <1>1, <1>2 DEF Routes
    <3>2. Truth(routes[i].label # "ORIGINAL") \in Int
      BY DEF Truth
    <3> QED BY <3>1, <3>2 DEF Tuples
  <2> HIDE DEF valid
  <2> QED BY <2>1
<1>5. \A i, j \in valid : key[i] = key[j] => i = j
  <2> HIDE DEF valid
  <2> QED OBVIOUS
<1> HIDE DEF key, valid
<1>6. Cardinality(valid) \in Nat /\ order \in [1 .. Cardinality(valid) -> valid]
  BY <1>3, <1>4, <1>5, SortedIsBijection
<1>7. sorted = [k \in 1 .. Cardinality(valid) |->
                  [routes[order[k]] EXCEPT !.path = NormalizedPath(routes[order[k]].path)]]
  BY <1>6 DEF SortedRoutes, key, valid
<1> HIDE DEF order, sorted
<1>8. ASSUME NEW k \in 1 .. Cardinality(valid)
      PROVE  /\ order[k] \in DOMAIN routes
             /\ IsRoute(sorted[k]) /\ Line(sorted[k].path)
             /\ sorted[k].id = routes[order[k]].id
             /\ sorted[k].path = NormalizedPath(routes[order[k]].path)
  <2>1. order[k] \in DOMAIN routes /\ Cardinality(Range(routes[order[k]].path)) > 1
    BY <1>6 DEF valid, ValidRoute
  <2>2. IsRoute(routes[order[k]])
    BY <1>1, <2>1 DEF Routes, IsRoute
  <2>3. sorted[k] = [routes[order[k]] EXCEPT !.path = NormalizedPath(routes[order[k]].path)]
    BY <1>7
  <2>4. routes[order[k]].path \in Seq(Positions)
    BY <1>1, <2>1 DEF Routes, Paths
  <2>5. Line(NormalizedPath(routes[order[k]].path))
    BY <2>1, <2>4, LineOf
  <2> QED BY <2>1, <2>2, <2>3, <2>5, RouteMoved
<1>9. sorted \in [1 .. Cardinality(valid) -> Range(sorted)] /\ DOMAIN sorted = 1 .. Cardinality(valid)
  BY <1>7 DEF Range
<1>10. OneRoad(sorted)
  BY <1>8, <1>9 DEF OneRoad
<1> QED BY <1>6, <1>8, <1>9, <1>10 DEF sorted

-----------------------------------------------------------------------------
(* The coverage of the weather.                                            *)

LEMMA DistanceNat ==
  ASSUME NEW p \in Positions, NEW q \in Positions
  PROVE  Distance(p, q) \in Nat
<1>1. p[1] \in Int /\ p[2] \in Int /\ q[1] \in Int /\ q[2] \in Int
  BY DEF Positions
<1>2. Gap(p[1], q[1]) \in Nat /\ Gap(p[2], q[2]) \in Nat
  BY <1>1 DEF Gap
<1> QED BY <1>2 DEF Distance, Larger

\* Some vertex is nearest to a place.
LEMMA NearestExists ==
  ASSUME NEW path, Line(path), NEW p \in Positions
  PROVE  \E i \in DOMAIN path : Distance(p, path[i]) = ToPath(p, path)
<1> DEFINE d == {Distance(p, path[i]) : i \in DOMAIN path}
<1>1. \A i \in DOMAIN path : path[i] \in Positions
  BY DEF Line
<1>2. d \subseteq Nat /\ d # {}
  <2>1. \A i \in DOMAIN path : Distance(p, path[i]) \in Nat
    BY <1>1, DistanceNat
  <2>2. 1 \in DOMAIN path
    BY DEF Line
  <2> QED BY <2>1, <2>2
<1>3. ToPath(p, path) = CHOOSE m \in d : \A n \in d : m <= n
  BY Zenon DEF ToPath
<1> HIDE DEF d
<1>4. ToPath(p, path) \in d
  BY <1>2, <1>3, LeastNat
<1> QED BY <1>4 DEF d

\* One place is half a step or less from at most two expected positions.
LEMMA TwoPositions ==
  ASSUME NEW x \in Int, NEW m \in Nat \ {0}, NEW i \in Int, NEW j \in Int,
         2 * Gap(x, i * m) <= m, 2 * Gap(x, j * m) <= m, i % 2 = j % 2
  PROVE  i = j
<1>1. \A a, b \in Int : a >= b + 2 => a * m >= b * m + 2 * m
  <2> SUFFICES ASSUME NEW a \in Int, NEW b \in Int, a >= b + 2
               PROVE  a * m >= b * m + 2 * m
    OBVIOUS
  <2>1. PICK k \in Nat : a = b + 2 + k
    <3>1. a - b - 2 \in Nat /\ a = b + 2 + (a - b - 2)
      OBVIOUS
    <3> QED BY <3>1
  <2>2. a * m = b * m + 2 * m + k * m
    BY <2>1
  <2>3. k * m >= 0
    OBVIOUS
  <2> QED BY <2>2, <2>3
<1>2. PICK y \in Int : y = i * m
  OBVIOUS
<1>3. PICK z \in Int : z = j * m
  OBVIOUS
<1>4. 2 * Gap(x, y) <= m /\ 2 * Gap(x, z) <= m
  BY <1>2, <1>3
<1>5. y - z <= m /\ z - y <= m
  BY <1>4 DEF Gap
<1>6. ~(y >= z + 2 * m) /\ ~(z >= y + 2 * m)
  BY <1>5
<1>7. ~(i >= j + 2) /\ ~(j >= i + 2)
  BY <1>1, <1>2, <1>3, <1>6
<1> QED BY <1>7

LEMMA Parities == IsFiniteSet(0 .. 1) /\ Cardinality(0 .. 1) = 2
<1>1. PICK n \in Nat : n = 1
  OBVIOUS
<1>2. IsFiniteSet(0 .. n) /\ Cardinality(0 .. n) = n + 1
  BY FS_Interval
<1> QED BY <1>1, <1>2

\* Few places cover few positions.
LEMMA CoveredTwice ==
  ASSUME NEW A, IsFiniteSet(A), NEW x \in [A -> Int], NEW m \in Nat \ {0},
         NEW C \in SUBSET Int, \A i \in C : \E p \in A : 2 * Gap(x[p], i * m) <= m
  PROVE  /\ IsFiniteSet(C) /\ Cardinality(C) \in Nat /\ Cardinality(A) \in Nat
         /\ Cardinality(C) <= 2 * Cardinality(A)
<1> DEFINE by == [i \in C |-> CHOOSE p \in A : 2 * Gap(x[p], i * m) <= m]
           f  == [i \in C |-> <<by[i], i % 2>>]
<1>1. ASSUME NEW i \in C
      PROVE  by[i] \in A /\ 2 * Gap(x[by[i]], i * m) <= m
  <2>1. by[i] = CHOOSE p \in A : 2 * Gap(x[p], i * m) <= m
    OBVIOUS
  <2>2. \E p \in A : 2 * Gap(x[p], i * m) <= m
    OBVIOUS
  <2> HIDE DEF by
  <2> QED BY <2>1, <2>2, Zenon
<1> HIDE DEF by
<1>2. f \in [C -> A \X (0 .. 1)]
  BY <1>1
<1>3. \A i, j \in C : f[i] = f[j] => i = j
  <2> SUFFICES ASSUME NEW i \in C, NEW j \in C, f[i] = f[j]
               PROVE  i = j
    OBVIOUS
  <2>1. by[i] = by[j] /\ i % 2 = j % 2
    OBVIOUS
  <2>2. PICK v \in Int : v = x[by[i]]
    BY <1>1
  <2>3. 2 * Gap(v, i * m) <= m /\ 2 * Gap(v, j * m) <= m
    BY <1>1, <2>1, <2>2
  <2>4. i \in Int /\ j \in Int
    OBVIOUS
  <2> QED BY <2>1, <2>3, <2>4, TwoPositions
<1>4. f \in Injection(C, A \X (0 .. 1))
  BY <1>2, <1>3 DEF Injection, IsInjective
<1>5. IsFiniteSet(0 .. 1) /\ Cardinality(0 .. 1) = 2
  BY Parities
<1>6. /\ IsFiniteSet(A \X (0 .. 1))
      /\ Cardinality(A \X (0 .. 1)) = Cardinality(A) * Cardinality(0 .. 1)
  BY <1>5, FS_Product
<1>7. IsFiniteSet(C) /\ Cardinality(C) <= Cardinality(A \X (0 .. 1))
  BY <1>4, <1>6, FS_Injection
<1> QED BY <1>5, <1>6, <1>7, FS_CardinalityType

\* The places of finitely many records.
LEMMA PlacesAreFinite ==
  ASSUME NEW weather \in Seq(WeatherPoints)
  PROVE  IsFiniteSet({w.at : w \in Range(weather)})
<1> DEFINE D == 1 .. Len(weather)
           B == {w.at : w \in Range(weather)}
           f == [i \in D |-> weather[i].at]
<1>1. IsFiniteSet(D)
  BY FS_Interval
<1>2. f \in [D -> B] /\ \A b \in B : \E i \in D : f[i] = b
  BY DEF Range
<1> HIDE DEF f, D, B
<1>3. f \in Surjection(D, B)
  BY <1>2 DEF Surjection
<1>4. IsFiniteSet(B)
  BY <1>1, <1>3, FS_Surjection
<1> QED BY <1>4 DEF B

LEMMA HalfOf ==
  ASSUME NEW n \in Nat, NEW e \in 2 .. 12, ~((100 * n) \div e < 50)
  PROVE  2 * n >= e
<1>1. \A k \in {2, 3, 4, 5, 6, 7, 8, 9, 10, 11, 12} : ~((100 * n) \div k < 50) => 2 * n >= k
  OBVIOUS
<1>2. e \in {2, 3, 4, 5, 6, 7, 8, 9, 10, 11, 12}
  OBVIOUS
<1> QED BY <1>1, <1>2

LEMMA Expected ==
  ASSUME NEW path, Line(path)
  PROVE  ExpectedSamples(path) \in 2 .. 12
<1>1. path[1] \in Positions /\ path[2] \in Positions /\ Len(path) \in Nat
  BY DEF Line
<1>2. Distance(path[1], path[2]) \in Nat
  BY <1>1, DistanceNat
<1>3. PathLength(path) \in Int
  BY <1>1, <1>2 DEF PathLength
<1>4. PathLength(path) \div 50 \in Int
  BY <1>3
<1> QED BY <1>4 DEF ExpectedSamples, Larger, Smaller

\* A place near the road stands for at most two of the positions where a forecast is expected.
LEMMA CoverageCounts ==
  ASSUME NEW route, Line(route.path), NEW n \in Nat, NEW weather, DOMAIN weather = 1 .. n,
         \A k \in DOMAIN weather : weather[k].at \in Positions, NEW departure,
         ~(MatchWeather(route, weather, departure).coverage < WEATHER_COVERAGE_BELOW),
         NEW B, IsFiniteSet(B), \A k \in DOMAIN weather : weather[k].at \in B
  PROVE  4 * Cardinality(B) >= ExpectedSamples(route.path)
<1> DEFINE path       == route.path
           nearest(w) == CHOOSE i \in DOMAIN path : Distance(w.at, path[i]) = ToPath(w.at, path)
           eta(w)     == departure + (route.minutes * (nearest(w) - 1)) \div (Len(path) - 1)
           matched    == {k \in DOMAIN weather : /\ ToPath(weather[k].at, path) <= 40
                                                 /\ Gap(weather[k].valid, eta(weather[k])) <= 180}
           expected   == ExpectedSamples(path)
           covered    == {i \in 0 .. expected - 1 : \E k \in matched :
                            2 * Gap((nearest(weather[k]) - 1) * (expected - 1), i * (Len(path) - 1))
                              <= Len(path) - 1}
<1>1. MatchWeather(route, weather, departure).coverage = (100 * Cardinality(covered)) \div expected
  BY Zenon DEF MatchWeather
<1> DEFINE A    == {weather[k].at : k \in DOMAIN weather}
           x    == [p \in A |-> ((CHOOSE i \in DOMAIN path : Distance(p, path[i]) = ToPath(p, path)) - 1)
                                * (expected - 1)]
<1>2. expected \in 2 .. 12 /\ Len(path) - 1 \in Nat \ {0} /\ DOMAIN path = 1 .. Len(path)
  <2>1. Len(path) \in Nat /\ Len(path) >= 2 /\ DOMAIN path = 1 .. Len(path)
    BY DEF Line
  <2>2. expected \in 2 .. 12
    BY Expected
  <2>3. \A l \in Nat : l >= 2 => l - 1 \in Nat \ {0}
    OBVIOUS
  <2> HIDE DEF expected, path
  <2> QED BY <2>1, <2>2, <2>3
<1>3. A \subseteq B /\ A \subseteq Positions /\ IsFiniteSet(A)
  <2>1. A \subseteq B /\ A \subseteq Positions
    OBVIOUS
  <2> HIDE DEF A
  <2> QED BY <2>1, FS_Subset
<1>4. x \in [A -> Int]
  <2>1. ASSUME NEW p \in A
        PROVE  (CHOOSE i \in DOMAIN path : Distance(p, path[i]) = ToPath(p, path)) \in 1 .. Len(path)
    <3>1. p \in Positions
      BY <1>3
    <3>2. \E i \in DOMAIN path : Distance(p, path[i]) = ToPath(p, path)
      BY <3>1, NearestExists
    <3> QED BY <1>2, <3>2
  <2> HIDE DEF A, path, expected
  <2> QED BY <1>2, <2>1
<1>5. ASSUME NEW i \in covered
      PROVE  \E p \in A : 2 * Gap(x[p], i * (Len(path) - 1)) <= Len(path) - 1
  <2>1. PICK k \in matched : 2 * Gap((nearest(weather[k]) - 1) * (expected - 1), i * (Len(path) - 1))
                               <= Len(path) - 1
    OBVIOUS
  <2>2. weather[k].at \in A
    OBVIOUS
  <2>3. x[weather[k].at] = (nearest(weather[k]) - 1) * (expected - 1)
    BY <2>2, Zenon
  <2> HIDE DEF x, A, nearest, expected, path
  <2> QED BY <2>1, <2>2, <2>3
<1>6. covered \in SUBSET Int
  BY <1>2
<1> HIDE DEF covered, x, A, expected, path
<1>7. /\ Cardinality(covered) \in Nat /\ Cardinality(A) \in Nat
      /\ Cardinality(covered) <= 2 * Cardinality(A)
  BY <1>2, <1>3, <1>4, <1>5, <1>6, CoveredTwice
<1>8. 2 * Cardinality(covered) >= expected
  BY <1>1, <1>2, <1>7, HalfOf DEF WEATHER_COVERAGE_BELOW
<1>9. Cardinality(A) <= Cardinality(B) /\ Cardinality(B) \in Nat
  BY <1>3, FS_Subset, FS_CardinalityType
<1>10. 4 * Cardinality(B) >= expected
  BY <1>2, <1>7, <1>8, <1>9
<1> QED BY <1>10 DEF expected, path
-----------------------------------------------------------------------------
(* What a snapshot says of its routes.                                     *)

\* A record with the fields of the features.
IsFeatures(f) ==
  f = [precip |-> f.precip, gust |-> f.gust, weather |-> f.weather,
       severeMinutes |-> f.severeMinutes, coverage |-> f.coverage, magnitude |-> f.magnitude,
       alerts |-> f.alerts, events |-> f.events, closures |-> f.closures,
       delayed |-> f.delayed, missing |-> f.missing, stale |-> f.stale]

LEMMA FeaturesAre ==
  ASSUME NEW route, NEW hits, NEW wx, NEW coverage, NEW transport, NEW qualities,
         NEW f, f = FeaturesOf(route, hits, wx, coverage, transport, qualities)
  PROVE  IsFeatures(f)
<1> DEFINE Given(x) == IF x < 0 THEN {} ELSE {x}
           quakes == {e \in hits : e.type = "EARTHQUAKE"}
           stale  == {i \in DOMAIN qualities : \/ "STALE" \in qualities[i].flags
                                                \/ qualities[i].status = "STALE"}
           late   == {i \in DOMAIN transport : transport[i].status \in {"DELAYED", "DISRUPTED", "CANCELLED"}}
<1>1. PICK precip : precip = Largest(UNION {w.precip : w \in wx}, -1)
  OBVIOUS
<1>2. PICK gust : gust = Largest(UNION {w.gust : w \in wx}, -1)
  OBVIOUS
<1>3. PICK a : a = Given(precip)
  OBVIOUS
<1>4. PICK b : b = Given(gust)
  OBVIOUS
<1>5. PICK c : c = Given(Largest({w.severity : w \in wx}, -1))
  OBVIOUS
<1>6. PICK m : m = Given(Largest(UNION {e.magnitude : e \in quakes}, -1))
  OBVIOUS
<1>7. PICK alerts : alerts = Cardinality({e \in hits : e.official})
  OBVIOUS
<1>8. PICK closures : closures = Cardinality({e \in hits : e.closure})
  OBVIOUS
<1>9. PICK delayed : delayed = Cardinality(late)
  OBVIOUS
<1>10. PICK missing : missing = Truth(precip < 0) + Truth(gust < 0)
  OBVIOUS
<1>11. PICK share : share = IF qualities = <<>> THEN 0 ELSE (100 * Cardinality(stale)) \div Len(qualities)
  OBVIOUS
<1>12. f = [precip |-> a, gust |-> b, weather |-> c, severeMinutes |-> route.exposure.severeMinutes,
            coverage |-> coverage, magnitude |-> m, alerts |-> alerts, events |-> Cardinality(hits),
            closures |-> closures, delayed |-> delayed, missing |-> missing, stale |-> share]
  BY <1>1, <1>2, <1>3, <1>4, <1>5, <1>6, <1>7, <1>8, <1>9, <1>10, <1>11, Zenon DEF FeaturesOf
<1> QED BY <1>12 DEF IsFeatures

\* The gate that overall_and_gate opens or shuts.
LEMMA GateIs ==
  ASSUME NEW route, NEW weather, NEW disaster, NEW transport, NEW routes, NEW coverage,
         NEW conflicts, NEW alerts
  PROVE  OverallAndGate(route, weather, disaster, transport, routes, coverage, conflicts, alerts).gate
           \in Gates
<1>1. \E a, b : OverallAndGate(route, weather, disaster, transport, routes, coverage, conflicts,
                              alerts).gate
                = (IF a THEN "BLOCK" ELSE IF b THEN "DEGRADED" ELSE "PASS")
  BY Zenon DEF OverallAndGate
<1> QED BY <1>1 DEF Gates

\* The events that meet a route of a snapshot while the trip lasts.
HitsOn(q, s, r) == Hits(r.path, BufferFor(q.modes), s.events, s.window)

\* A snapshot's routes are exposed to exactly the events that meet them.
Exposed(q, s) ==
  /\ s.request = q.id
  /\ \E n \in Nat \ {0} : DOMAIN s.routes = 1 .. n
  /\ OneRoad(s.routes)
  /\ s.alerts = {e \in Range(s.events) : e.official}
  /\ IsFeatures(s.features)
  /\ s.quality.gate \in Gates
  /\ \A i \in DOMAIN s.routes :
       /\ IsRoute(s.routes[i])
       /\ s.routes[i].exposure.events = {e.id : e \in HitsOn(q, s, s.routes[i])}
       /\ s.routes[i].exposure.closed = (\E e \in HitsOn(q, s, s.routes[i]) : e.closure)

\* With the evidence for a low risk, some forecast has rain and some has wind, and a quarter
\* of the expected positions has a place of its own.
WeatherSeen(c, s) ==
  \/ Insufficient(s.features)
  \/ /\ \E w \in Range(c.weather) : w.precip # {}
     /\ \E w \in Range(c.weather) : w.gust # {}
     /\ 4 * Cardinality({w.at : w \in Range(c.weather)}) >= ExpectedSamples(s.routes[1].path)

\* A route with the exposure of the events that hit it.
MetBy(e, r, hits) ==
  /\ IsRoute(e) /\ e.id = r.id /\ e.path = r.path
  /\ e.exposure.events = {x.id : x \in hits}
  /\ e.exposure.closed = (\E x \in hits : x.closure)

LEMMA EnrichedIs ==
  ASSUME NEW r, IsRoute(r), NEW events, NEW weather, NEW buffer, NEW window,
         NEW e, e = Enriched(r, events, weather, buffer, window)
  PROVE  MetBy(e, r, Hits(r.path, buffer, events, window))
<1> DEFINE hits == Hits(r.path, buffer, events, window)
           met  == MatchWeather(r, weather, window.departure).points
<1>1. PICK exposure : exposure = ExposureOf(r, hits, weather, met)
  OBVIOUS
<1>2. PICK usable : usable = ~exposure.closed
  OBVIOUS
<1>3. e = [r EXCEPT !.exposure = exposure, !.usable = usable]
  BY <1>1, <1>2, Zenon DEF Enriched
<1>4. exposure.events = {x.id : x \in hits} /\ exposure.closed = (\E x \in hits : x.closure)
  BY <1>1, Zenon DEF ExposureOf
<1> HIDE DEF hits
<1>5. ExposedAs(e, r, exposure)
  BY <1>3, RouteExposed, Zenon
<1> QED BY <1>4, <1>5 DEF hits, ExposedAs, MetBy

LEMMA MissingFields ==
  ASSUME NEW route, NEW hits, NEW wx, NEW coverage, NEW transport, NEW qualities
  PROVE  LET f == FeaturesOf(route, hits, wx, coverage, transport, qualities)
         IN f.missing >= 1 \/ ((\E w \in wx : w.precip # {}) /\ (\E w \in wx : w.gust # {}))
<1> DEFINE precip == Largest(UNION {w.precip : w \in wx}, -1)
           gust == Largest(UNION {w.gust : w \in wx}, -1)
<1>1. FeaturesOf(route, hits, wx, coverage, transport, qualities).missing
        = Truth(precip < 0) + Truth(gust < 0)
  BY Zenon DEF FeaturesOf
<1>2. \A b : Truth(b) \in {0, 1}
  BY DEF Truth
<1>3. ASSUME \A w \in wx : w.precip = {}
      PROVE  Truth(precip < 0) = 1
  <2>1. UNION {w.precip : w \in wx} = {}
    BY <1>3
  <2>2. precip = -1
    BY <2>1 DEF Largest
  <2> QED BY <2>2 DEF Truth
<1>4. ASSUME \A w \in wx : w.gust = {}
      PROVE  Truth(gust < 0) = 1
  <2>1. UNION {w.gust : w \in wx} = {}
    BY <1>4
  <2>2. gust = -1
    BY <2>1 DEF Largest
  <2> QED BY <2>2 DEF Truth
<1>5. Truth(precip < 0) \in {0, 1} /\ Truth(gust < 0) \in {0, 1}
  BY <1>2, Zenon
<1> HIDE DEF precip, gust
<1> QED BY <1>1, <1>3, <1>4, <1>5

LEMMA CoverageKept ==
  ASSUME NEW route, NEW hits, NEW wx, NEW coverage, NEW transport, NEW qualities
  PROVE  FeaturesOf(route, hits, wx, coverage, transport, qualities).coverage = coverage
BY Zenon DEF FeaturesOf

\* A snapshot with these parts.
JudgedAs(s, q, c, id, enriched, weather, events, window, match) ==
  /\ s.id = id /\ s.request = q.id /\ s.routes = enriched /\ s.window = window
  /\ s.events = events /\ s.alerts = {e \in Range(events) : e.official}
  /\ s.quality.gate \in Gates
  /\ \E hits, qualities :
       s.features = FeaturesOf(enriched[1], hits, {weather[k] : k \in match.points},
                               match.coverage, c.transport, qualities)

LEMMA JudgedIs ==
  ASSUME NEW q, NEW c, NEW id, NEW enriched, NEW weather, NEW dedup, NEW window, NEW match
  PROVE  JudgedAs(Judged(q, c, id, enriched, weather, dedup, window, match),
                  q, c, id, enriched, weather, dedup.events, window, match)
<1> DEFINE s == Judged(q, c, id, enriched, weather, dedup, window, match)
<1>1. s.id = id
  BY Zenon DEF Judged
<1>2. s.request = q.id
  BY Zenon DEF Judged
<1>3. s.routes = enriched
  BY Zenon DEF Judged
<1>4. s.window = window
  BY Zenon DEF Judged
<1>5. s.events = dedup.events
  BY Zenon DEF Judged
<1>6. s.alerts = {e \in Range(dedup.events) : e.official}
  BY Zenon DEF Judged
<1>7. \E hits, qualities :
         s.features = FeaturesOf(enriched[1], hits, {weather[k] : k \in match.points},
                                 match.coverage, c.transport, qualities)
  BY Zenon DEF Judged
<1>8. s.quality.gate \in Gates
  <2> DEFINE QualityOf(records) == [i \in DOMAIN records |-> records[i].quality]
             route_q     == SummarizeGroup(QualityOf(enriched), 6 * 3600, {})
             weather_q   == SummarizeGroup(QualityOf(Kept(weather, {k \in DOMAIN weather : weather[k].probe = "PLANNED"})),
                                           3600, {match.coverage})
             transport_q == SummarizeGroup(QualityOf(c.transport), 90, {})
             disaster_q  == DisasterQuality(dedup.events, c.degraded)
             alerts      == {e \in Range(dedup.events) : e.official}
  <2>1. s.quality.gate = OverallAndGate(route_q, weather_q, disaster_q, transport_q, enriched,
                                        match.coverage, dedup.conflicts, alerts).gate
    BY Zenon DEF Judged
  <2> HIDE DEF s, QualityOf, route_q, weather_q, transport_q, disaster_q, alerts
  <2> QED BY <2>1, GateIs
<1> QED BY <1>1, <1>2, <1>3, <1>4, <1>5, <1>6, <1>7, <1>8, Zenon DEF JudgedAs

LEMMA MetWeather ==
  ASSUME NEW route, NEW weather, NEW departure
  PROVE  MatchWeather(route, weather, departure).points \subseteq DOMAIN weather
BY DEF MatchWeather

\* What data-integration stores of a context with a valid route.
LEMMA SnapshotIs ==
  ASSUME NEW q, NEW c \in Contexts, OneRoad(c.routes), SortedRoutes(c.routes) # <<>>, NEW id,
         NEW s, s = BuildSnapshot(q, c, id)
  PROVE  s.id = id /\ Exposed(q, s) /\ WeatherSeen(c, s)
<1> DEFINE routes == SortedRoutes(c.routes)
           valid == {k \in DOMAIN c.weather : ValidWeather(c.weather[k])}
           weather == Kept(c.weather, valid)
           dedup == Deduplicate(Kept(c.events, {k \in DOMAIN c.events : ValidEvent(c.events[k])}))
           window == [departure |-> q.departure, arrival |-> q.departure + routes[1].minutes]
           enriched == [i \in DOMAIN routes |->
                          Enriched(routes[i], dedup.events, weather, BufferFor(q.modes), window)]
           match == MatchWeather(routes[1], weather, q.departure)
<1>1. s = Judged(q, c, id, enriched, weather, dedup, window, match)
  BY DEF BuildSnapshot, Matched
<1>2. c.routes \in Seq(Routes) /\ c.weather \in Seq(WeatherPoints)
  BY DEF Contexts
<1>3. /\ \E n \in Nat : routes \in [1 .. n -> Range(routes)]
      /\ \A k \in DOMAIN routes : IsRoute(routes[k]) /\ Line(routes[k].path)
      /\ OneRoad(routes)
  BY <1>2, SortedRoutesAre
<1>4. PICK n \in Nat \ {0} : DOMAIN routes = 1 .. n
  <2> HIDE DEF routes
  <2>1. PICK n \in Nat : routes \in [1 .. n -> Range(routes)]
    BY <1>3
  <2>2. ASSUME n = 0
        PROVE  routes = <<>>
    BY <2>1, <2>2
  <2> QED BY <2>1, <2>2 DEF routes
<1> HIDE DEF routes, dedup, weather
<1>5. ASSUME NEW i \in DOMAIN routes
      PROVE  /\ IsRoute(enriched[i]) /\ enriched[i].id = routes[i].id /\ enriched[i].path = routes[i].path
             /\ enriched[i].exposure.events
                  = {x.id : x \in Hits(enriched[i].path, BufferFor(q.modes), dedup.events, window)}
             /\ enriched[i].exposure.closed
                  = (\E x \in Hits(enriched[i].path, BufferFor(q.modes), dedup.events, window) : x.closure)
  <2>1. IsRoute(routes[i])
    BY <1>3
  <2> HIDE DEF window
  <2>2. enriched[i] = Enriched(routes[i], dedup.events, weather, BufferFor(q.modes), window)
    OBVIOUS
  <2>3. PICK e : e = Enriched(routes[i], dedup.events, weather, BufferFor(q.modes), window)
    OBVIOUS
  <2>4. MetBy(e, routes[i], Hits(routes[i].path, BufferFor(q.modes), dedup.events, window))
    BY <2>1, <2>3, EnrichedIs, Zenon
  <2>5. enriched[i] = e
    BY <2>2, <2>3
  <2> HIDE DEF enriched
  <2> QED BY <2>4, <2>5 DEF MetBy
<1> HIDE DEF window
<1>6. DOMAIN enriched = DOMAIN routes
  OBVIOUS
<1> HIDE DEF enriched, match
<1>7. /\ s.id = id /\ s.request = q.id /\ s.routes = enriched /\ s.window = window
      /\ s.events = dedup.events /\ s.alerts = {e \in Range(dedup.events) : e.official}
      /\ s.quality.gate \in Gates
      /\ \E hits, qualities :
           s.features = FeaturesOf(enriched[1], hits, {weather[k] : k \in match.points},
                                   match.coverage, c.transport, qualities)
  <2>1. JudgedAs(s, q, c, id, enriched, weather, dedup.events, window, match)
    BY <1>1, JudgedIs, Zenon
  <2> QED BY <2>1 DEF JudgedAs
<1>8. OneRoad(enriched)
  <2> SUFFICES ASSUME NEW i \in DOMAIN routes, NEW k \in DOMAIN routes, enriched[i].id = enriched[k].id
               PROVE  enriched[i].path = enriched[k].path
    BY <1>6 DEF OneRoad
  <2>1. routes[i].id = routes[k].id
    BY <1>5
  <2>2. routes[i].path = routes[k].path
    BY <1>3, <2>1 DEF OneRoad
  <2> QED BY <1>5, <2>2
<1>9. Exposed(q, s)
  <2>1. IsFeatures(s.features)
    BY <1>7, FeaturesAre
  <2> QED BY <1>4, <1>5, <1>6, <1>7, <1>8, <2>1 DEF Exposed, HitsOn
<1>10. WeatherSeen(c, s)
  <2>1. match.points \subseteq DOMAIN weather
    BY MetWeather DEF match
  <2>2. ASSUME NEW k \in DOMAIN weather
        PROVE  weather[k] \in Range(c.weather)
    <3>1. valid \in SUBSET (1 .. Len(c.weather)) /\ Len(c.weather) \in Nat
      BY <1>2
    <3> HIDE DEF valid
    <3>2. \E i \in valid : weather[k] = c.weather[i]
      BY <3>1, KeptRecords DEF weather
    <3> QED BY <1>2, <3>1, <3>2 DEF Range
  <2>3. PICK hits, qualities :
          s.features = FeaturesOf(enriched[1], hits, {weather[k] : k \in match.points},
                                  match.coverage, c.transport, qualities)
    BY <1>7
  <2> DEFINE wx == {weather[k] : k \in match.points}
  <2>4. \/ s.features.missing >= 1
        \/ (\E w \in wx : w.precip # {}) /\ (\E w \in wx : w.gust # {})
    BY <2>3, MissingFields
  <2>5. s.features.coverage = match.coverage
    BY <2>3, CoverageKept
  <2>6. ASSUME ~(match.coverage < WEATHER_COVERAGE_BELOW)
        PROVE  4 * Cardinality({w.at : w \in Range(c.weather)}) >= ExpectedSamples(s.routes[1].path)
    <3>1. s.routes[1].path = routes[1].path /\ Line(routes[1].path)
      <4>1. 1 \in DOMAIN routes
        BY <1>4
      <4>2. enriched[1].path = routes[1].path
        BY <1>5, <4>1
      <4>3. Line(routes[1].path)
        BY <1>3, <4>1
      <4> QED BY <1>7, <4>2, <4>3
    <3>2. valid \in SUBSET DOMAIN c.weather
      OBVIOUS
    <3>3. weather \in Seq(WeatherPoints)
      BY <1>2, <3>2, KeptFits DEF weather
    <3>4. Len(weather) \in Nat /\ DOMAIN weather = 1 .. Len(weather)
          /\ \A k \in DOMAIN weather : weather[k].at \in Positions
      <4>1. Len(weather) \in Nat /\ DOMAIN weather = 1 .. Len(weather)
            /\ \A k \in DOMAIN weather : weather[k] \in WeatherPoints
        BY <3>3
      <4>2. \A w \in WeatherPoints : w.at \in Positions
        BY DEF WeatherPoints
      <4> QED BY <4>1, <4>2
    <3>5. PICK B : B = {w.at : w \in Range(c.weather)}
      OBVIOUS
    <3>6. \A k \in DOMAIN weather : weather[k].at \in B
      BY <2>2, <3>5
    <3>7. IsFiniteSet(B)
      BY <1>2, <3>5, PlacesAreFinite
    <3>8. ~(MatchWeather(routes[1], weather, q.departure).coverage < WEATHER_COVERAGE_BELOW)
      BY <2>6 DEF match
    <3>9. 4 * Cardinality(B) >= ExpectedSamples(routes[1].path)
      BY <3>1, <3>4, <3>6, <3>7, <3>8, CoverageCounts
    <3> QED BY <3>1, <3>5, <3>9
  <2> QED BY <2>1, <2>2, <2>4, <2>5, <2>6 DEF WeatherSeen, Insufficient
<1> QED BY <1>7, <1>9, <1>10

-----------------------------------------------------------------------------
(* The ranking.                                                            *)

\* A route that is marked, labelled or ranked.
RankedAs(e, r, usable) ==
  IsRoute(e) /\ e.id = r.id /\ e.path = r.path /\ e.exposure = r.exposure /\ e.usable = usable

LEMMA MarkedAsUsable ==
  ASSUME NEW r, IsRoute(r), NEW u, NEW x, NEW e, e = [r EXCEPT !.usable = u, !.labels = x]
  PROVE  RankedAs(e, r, u)
<1> DEFINE h == [id |-> r.id, label |-> r.label, labels |-> r.labels, mode |-> r.mode,
                 path |-> r.path, minutes |-> r.minutes, exposure |-> r.exposure, usable |-> u,
                 rank |-> r.rank, quality |-> r.quality]
           g == [id |-> r.id, label |-> r.label, labels |-> x, mode |-> r.mode,
                 path |-> r.path, minutes |-> r.minutes, exposure |-> r.exposure, usable |-> u,
                 rank |-> r.rank, quality |-> r.quality]
<1>1. e = [[r EXCEPT !.usable = u] EXCEPT !.labels = x]
  BY Zenon
<1>2. [r EXCEPT !.usable = u] = h
  BY DEF IsRoute
<1>3. [h EXCEPT !.labels = x] = g
  OBVIOUS
<1>4. e = g
  BY <1>1, <1>2, <1>3
<1> QED BY <1>4 DEF IsRoute, RankedAs

LEMMA RankedOnly ==
  ASSUME NEW r, IsRoute(r), NEW x, NEW e, e = [r EXCEPT !.rank = x]
  PROVE  RankedAs(e, r, r.usable)
BY DEF IsRoute, RankedAs

LEMMA RankedAndLabelled ==
  ASSUME NEW r, IsRoute(r), NEW x, NEW y, NEW z, NEW e,
         e = [r EXCEPT !.rank = x, !.labels = y, !.label = z]
  PROVE  RankedAs(e, r, r.usable)
<1> DEFINE f == [id |-> r.id, label |-> r.label, labels |-> r.labels, mode |-> r.mode,
                 path |-> r.path, minutes |-> r.minutes, exposure |-> r.exposure,
                 usable |-> r.usable, rank |-> x, quality |-> r.quality]
           g == [id |-> r.id, label |-> r.label, labels |-> y, mode |-> r.mode,
                 path |-> r.path, minutes |-> r.minutes, exposure |-> r.exposure,
                 usable |-> r.usable, rank |-> x, quality |-> r.quality]
           h == [id |-> r.id, label |-> z, labels |-> y, mode |-> r.mode,
                 path |-> r.path, minutes |-> r.minutes, exposure |-> r.exposure,
                 usable |-> r.usable, rank |-> x, quality |-> r.quality]
<1>1. e = [[[r EXCEPT !.rank = x] EXCEPT !.labels = y] EXCEPT !.label = z]
  BY Zenon
<1>2. [r EXCEPT !.rank = x] = f
  BY DEF IsRoute
<1>3. [f EXCEPT !.labels = y] = g
  OBVIOUS
<1>4. [g EXCEPT !.label = z] = h
  OBVIOUS
<1>5. e = h
  BY <1>1, <1>2, <1>3, <1>4
<1> QED BY <1>5 DEF IsRoute, RankedAs

\* The ranked routes are the routes, open or closed by what they are exposed to.
RankingOf(ranked, routes) ==
  /\ DOMAIN ranked = DOMAIN routes
  /\ \A k \in DOMAIN ranked : \E i \in DOMAIN routes :
       RankedAs(ranked[k], routes[i], ~routes[i].exposure.closed)
  /\ \A i \in DOMAIN routes : \E k \in DOMAIN ranked : ranked[k].id = routes[i].id

LEMMA RankRoutesIs ==
  ASSUME NEW n \in Nat, NEW routes, DOMAIN routes = 1 .. n,
         \A i \in DOMAIN routes : IsRoute(routes[i]),
         NEW assessments, NEW ranked, ranked = RankRoutes(routes, assessments).routes
  PROVE  RankingOf(ranked, routes)
<1> DEFINE Of(r)   == CHOOSE a \in assessments : a.route = r.id
           marked  == [i \in DOMAIN routes |->
                         [routes[i] EXCEPT !.usable = ~routes[i].exposure.closed,
                                           !.labels = IF routes[i].label = "ORIGINAL" THEN {"ORIGINAL"} ELSE {}]]
           usable  == {i \in DOMAIN marked : marked[i].usable}
           fastest == CHOOSE m \in {marked[i].minutes : i \in usable} :
                        \A i \in usable : m <= marked[i].minutes
           byCost  == [i \in usable |-> <<Cost(marked[i], Of(marked[i]), fastest),
                                          RISK_RANK[Of(marked[i]).level], marked[i].minutes, i>>]
           byTime  == [i \in usable |-> <<marked[i].minutes, i>>]
           byRisk  == [i \in usable |-> <<Of(marked[i]).score, marked[i].minutes, i>>]
           First(key) == CHOOSE i \in usable : \A j \in usable \ {i} : Precedes(key[i], key[j])
           rank(i) == IF i \in usable
                        THEN 1 + Cardinality({j \in usable : Precedes(byCost[j], byCost[i])})
                        ELSE IF usable = {} THEN i ELSE Cardinality(usable) + 1
           given(i) == (IF i = First(byCost) THEN {"RECOMMENDED"} ELSE {})
                       \cup (IF i = First(byTime) THEN {"FASTEST"} ELSE {})
                       \cup (IF i = First(byRisk) THEN {"LOWEST_RISK"} ELSE {})
           Ranked(i) == IF i \notin usable THEN [marked[i] EXCEPT !.rank = rank(i)]
                        ELSE [marked[i] EXCEPT !.rank = rank(i), !.labels = @ \cup given(i),
                                !.label = IF @ = "ORIGINAL" THEN @ ELSE FirstLabel(given(i))]
           key     == [i \in DOMAIN marked |-> <<rank(i), i>>]
           order   == Sorted(key)
<1>1. ranked = [k \in DOMAIN order |-> Ranked(order[k])]
  BY Zenon DEF RankRoutes
<1>2. DOMAIN marked = 1 .. n /\ usable \in SUBSET (1 .. n)
  OBVIOUS
<1>3. ASSUME NEW i \in 1 .. n
      PROVE  RankedAs(marked[i], routes[i], ~routes[i].exposure.closed)
  <2>1. PICK x : x = IF routes[i].label = "ORIGINAL" THEN {"ORIGINAL"} ELSE {}
    OBVIOUS
  <2>2. PICK u : u = ~routes[i].exposure.closed
    OBVIOUS
  <2>3. marked[i] = [routes[i] EXCEPT !.usable = u, !.labels = x]
    BY <2>1, <2>2, Zenon
  <2>4. IsRoute(routes[i])
    OBVIOUS
  <2> HIDE DEF marked
  <2>5. RankedAs(marked[i], routes[i], u)
    BY <2>3, <2>4, MarkedAsUsable, Zenon
  <2> QED BY <2>2, <2>5
<1> HIDE DEF marked
<1>4. ASSUME NEW i \in 1 .. n
      PROVE  RankedAs(Ranked(i), marked[i], marked[i].usable)
  <2>1. IsRoute(marked[i])
    BY <1>3 DEF RankedAs
  <2>2. PICK x : x = rank(i)
    OBVIOUS
  <2>3. PICK y : y = marked[i].labels \cup given(i)
    OBVIOUS
  <2>4. PICK z : z = IF marked[i].label = "ORIGINAL" THEN marked[i].label ELSE FirstLabel(given(i))
    OBVIOUS
  <2>5. PICK e : e = Ranked(i)
    OBVIOUS
  <2>6. ASSUME i \notin usable
        PROVE  e = [marked[i] EXCEPT !.rank = x]
    BY <2>2, <2>5, <2>6, Zenon
  <2>7. ASSUME i \in usable
        PROVE  e = [marked[i] EXCEPT !.rank = x, !.labels = y, !.label = z]
    BY <2>2, <2>3, <2>4, <2>5, <2>7, Zenon
  <2> HIDE DEF Ranked, usable
  <2>8. RankedAs(e, marked[i], marked[i].usable)
    <3>1. CASE i \notin usable
      BY <2>1, <2>6, <3>1, RankedOnly, Zenon
    <3>2. CASE i \in usable
      BY <2>1, <2>7, <3>2, RankedAndLabelled, Zenon
    <3> QED BY <3>1, <3>2
  <2> QED BY <2>5, <2>8
<1> HIDE DEF Ranked, given
<1>5. ASSUME NEW i \in 1 .. n
      PROVE  <<rank(i), i>> \in Tuples(2)
  <2>1. IsFiniteSet(usable) /\ Cardinality(usable) \in Nat
    BY <1>2, FiniteWithin, FS_CardinalityType
  <2> DEFINE before == {j \in usable : Precedes(byCost[j], byCost[i])}
  <2>2. before \in SUBSET usable
    OBVIOUS
  <2> HIDE DEF usable, before, byCost
  <2>3. Cardinality(before) \in Nat
    BY <2>1, <2>2, FS_Subset, FS_CardinalityType
  <2>4. rank(i) \in Int
    BY <2>1, <2>3 DEF before
  <2> HIDE DEF rank
  <2> QED BY <2>4 DEF Tuples
<1> HIDE DEF rank, usable
<1>6. key \in [1 .. n -> Tuples(2)]
  BY <1>2, <1>5
<1>7. \A i, j \in 1 .. n : key[i] = key[j] => i = j
  BY <1>2
<1>8. IsFiniteSet(1 .. n) /\ Cardinality(1 .. n) = n
  BY FS_Interval
<1> HIDE DEF key
<1>9. /\ order \in [1 .. n -> 1 .. n]
      /\ \A i \in 1 .. n : \E k \in 1 .. n : order[k] = i
  <2> DEFINE D == 1 .. n
  <2>1. key \in [D -> Tuples(2)] /\ IsFiniteSet(D) /\ \A i, j \in D : key[i] = key[j] => i = j
    BY <1>6, <1>7, <1>8
  <2>2. Cardinality(D) = n
    BY <1>8
  <2> HIDE DEF D
  <2>3. /\ Sorted(key) \in [1 .. Cardinality(D) -> D]
        /\ \A i \in D : \E k \in 1 .. Cardinality(D) : Sorted(key)[k] = i
    BY <2>1, SortedIsBijection
  <2> QED BY <2>2, <2>3 DEF D
<1> HIDE DEF order
<1>10. DOMAIN ranked = 1 .. n /\ \A k \in 1 .. n : ranked[k] = Ranked(order[k])
  BY <1>1, <1>9
<1>11. ASSUME NEW k \in 1 .. n
       PROVE  RankedAs(ranked[k], routes[order[k]], ~routes[order[k]].exposure.closed)
  <2>1. order[k] \in 1 .. n
    BY <1>9
  <2>2. RankedAs(marked[order[k]], routes[order[k]], ~routes[order[k]].exposure.closed)
    BY <1>3, <2>1
  <2>3. RankedAs(ranked[k], marked[order[k]], marked[order[k]].usable)
    BY <1>4, <1>10, <2>1
  <2> QED BY <2>2, <2>3 DEF RankedAs
<1>12. ASSUME NEW i \in 1 .. n
       PROVE  \E k \in 1 .. n : ranked[k].id = routes[i].id
  <2>1. PICK k \in 1 .. n : order[k] = i
    BY <1>9
  <2> QED BY <1>11, <2>1 DEF RankedAs
<1> QED BY <1>9, <1>10, <1>11, <1>12 DEF RankingOf

-----------------------------------------------------------------------------
(* The risk of a route.                                                    *)

LEMMA RouteFeaturesKeep ==
  ASSUME NEW s, IsFeatures(s.features), NEW route
  PROVE  /\ RouteFeatures(s, route).missing = s.features.missing
         /\ RouteFeatures(s, route).coverage = s.features.coverage
<1>1. PICK a : a = IF route.exposure.closed THEN 1 ELSE 0
  OBVIOUS
<1>2. PICK b : b = Cardinality(route.exposure.events)
  OBVIOUS
<1>3. PICK c : c = Cardinality(AlertsOn(s, route))
  OBVIOUS
<1>4. PICK d : d = route.exposure.severeMinutes
  OBVIOUS
<1> DEFINE f == s.features
           f1 == [f EXCEPT !.closures = a]
           f2 == [f1 EXCEPT !.events = b]
           f3 == [f2 EXCEPT !.alerts = c]
           f4 == [f3 EXCEPT !.severeMinutes = d]
<1>5. RouteFeatures(s, route) = f4
  BY <1>1, <1>2, <1>3, <1>4, Zenon DEF RouteFeatures
<1> HIDE DEF f
<1>6. {"missing", "coverage"} \subseteq DOMAIN f
  BY DEF IsFeatures, f
<1>7. f1.missing = f.missing /\ f1.coverage = f.coverage /\ DOMAIN f1 = DOMAIN f
  BY <1>6
<1> HIDE DEF f1
<1>8. f2.missing = f.missing /\ f2.coverage = f.coverage /\ DOMAIN f2 = DOMAIN f
  BY <1>6, <1>7
<1> HIDE DEF f2
<1>9. f3.missing = f.missing /\ f3.coverage = f.coverage /\ DOMAIN f3 = DOMAIN f
  BY <1>6, <1>8
<1> HIDE DEF f3
<1>10. f4.missing = f.missing /\ f4.coverage = f.coverage
  BY <1>6, <1>9
<1> QED BY <1>5, <1>10 DEF f

LEMMA StrictestIs ==
  ASSUME NEW levels, levels # {}, levels \subseteq RiskLevels
  PROVE  Strictest(levels) \in levels /\ ("HIGH" \in levels => Strictest(levels) = "HIGH")
<1>1. /\ RISK_RANK["UNKNOWN"] = 0 /\ RISK_RANK["LOW"] = 1
      /\ RISK_RANK["MEDIUM"] = 2 /\ RISK_RANK["HIGH"] = 3
  BY DEF RISK_RANK
<1>2. \E l \in levels : \A k \in levels : RISK_RANK[k] <= RISK_RANK[l]
  <2>1. CASE "HIGH" \in levels
    BY <1>1, <2>1 DEF RiskLevels
  <2>2. CASE "HIGH" \notin levels /\ "MEDIUM" \in levels
    BY <1>1, <2>2 DEF RiskLevels
  <2>3. CASE "HIGH" \notin levels /\ "MEDIUM" \notin levels /\ "LOW" \in levels
    BY <1>1, <2>3 DEF RiskLevels
  <2>4. CASE "HIGH" \notin levels /\ "MEDIUM" \notin levels /\ "LOW" \notin levels
    <3>1. levels = {"UNKNOWN"}
      BY <2>4 DEF RiskLevels
    <3> QED BY <1>1, <3>1
  <2> QED BY <2>1, <2>2, <2>3, <2>4
<1>3. Strictest(levels) \in levels /\ \A k \in levels : RISK_RANK[k] <= RISK_RANK[Strictest(levels)]
  BY <1>2 DEF Strictest
<1>4. PICK l : l = Strictest(levels)
  OBVIOUS
<1>5. l \in levels /\ \A k \in levels : RISK_RANK[k] <= RISK_RANK[l]
  BY <1>3, <1>4
<1>6. "HIGH" \in levels => l = "HIGH"
  <2> SUFFICES ASSUME "HIGH" \in levels
               PROVE  l = "HIGH"
    OBVIOUS
  <2>1. l \in {"UNKNOWN", "LOW", "MEDIUM", "HIGH"} /\ RISK_RANK["HIGH"] <= RISK_RANK[l]
    BY <1>5 DEF RiskLevels
  <2> QED BY <1>1, <2>1
<1> QED BY <1>4, <1>5, <1>6

\* What an assessment says of its route.
AssessedAs(a, s, r) ==
  /\ a.snapshot = s.id /\ a.route = r.id
  /\ a.level \in RiskLevels
  /\ (\E e \in AlertsOn(s, r) : e.severity >= SEVERE) => a.level = "HIGH"
  /\ a.level = "LOW" => ~Insufficient(s.features)

LEMMA AssessRouteIs ==
  ASSUME NEW s, IsFeatures(s.features), NEW r, NEW model, NEW a, a = AssessRoute(s, r, model, {})
  PROVE  AssessedAs(a, s, r)
<1> DEFINE f        == RouteFeatures(s, r)
           alerts   == OfficialAlertRanks(s, r)
           raw      == Probability(model, f, r)
           fired    == Overrides(f, alerts)
           enforced == Strictest({Level(raw)} \cup fired)
           level    == IF enforced = "LOW" /\ Insufficient(f) THEN "UNKNOWN" ELSE enforced
<1>1. AssessRoute(s, r, model, {}).snapshot = s.id /\ AssessRoute(s, r, model, {}).route = r.id
  BY Zenon DEF AssessRoute
<1>2. AssessRoute(s, r, model, {}).level = level
  BY Zenon DEF AssessRoute
<1>3. Level(raw) \in {"HIGH", "MEDIUM", "LOW"}
  BY DEF Level
<1>4. fired \subseteq {"HIGH", "MEDIUM"}
  BY DEF Overrides
<1>5. ASSUME NEW e \in AlertsOn(s, r), e.severity >= SEVERE
      PROVE  "HIGH" \in fired
  <2>1. \E x \in alerts : x >= SEVERE
    BY <1>5 DEF OfficialAlertRanks
  <2> QED BY <2>1 DEF Overrides
<1>6. f.missing = s.features.missing /\ f.coverage = s.features.coverage
  BY RouteFeaturesKeep
<1> HIDE DEF f, alerts, raw, fired
<1>7. /\ enforced \in {"HIGH", "MEDIUM", "LOW"}
      /\ "HIGH" \in fired => enforced = "HIGH"
  <2>1. {Level(raw)} \cup fired \subseteq RiskLevels /\ {Level(raw)} \cup fired # {}
    BY <1>3, <1>4 DEF RiskLevels
  <2>2. enforced \in {Level(raw)} \cup fired
    BY <2>1, StrictestIs
  <2>3. "HIGH" \in fired => enforced = "HIGH"
    BY <2>1, StrictestIs
  <2> HIDE DEF enforced
  <2> QED BY <1>3, <1>4, <2>2, <2>3
<1> HIDE DEF enforced
<1>8. level \in RiskLevels
  BY <1>7 DEF RiskLevels
<1>9. (\E e \in AlertsOn(s, r) : e.severity >= SEVERE) => level = "HIGH"
  BY <1>5, <1>7
<1>10. level = "LOW" => ~Insufficient(s.features)
  BY <1>6 DEF Insufficient
<1> HIDE DEF level
<1> QED BY <1>1, <1>2, <1>8, <1>9, <1>10 DEF AssessedAs

-----------------------------------------------------------------------------
(* The package.                                                            *)

\* What risk-knowledge makes of a snapshot: its routes ranked, each with its assessment.
Packed(s, p) ==
  /\ p.request = s.request /\ p.snapshot = s.id
  /\ p.quality = s.quality /\ p.alerts = s.alerts
  /\ RankingOf(p.routes, s.routes)
  /\ \A a \in p.assessments : \E i \in DOMAIN s.routes : AssessedAs(a, s, s.routes[i])
  /\ \A i \in DOMAIN s.routes : \E a \in p.assessments : a.route = s.routes[i].id

LEMMA PackageIs ==
  ASSUME NEW q, NEW s, Exposed(q, s), NEW model, NEW index, NEW retrieved, NEW created
  PROVE  Packed(s, EvidencePackage(s, model, index, retrieved, created))
<1> DEFINE p == EvidencePackage(s, model, index, retrieved, created)
<1>1. p.request = s.request
  BY Zenon DEF EvidencePackage
<1>2. p.snapshot = s.id
  BY Zenon DEF EvidencePackage
<1>3. p.quality = s.quality
  BY Zenon DEF EvidencePackage
<1>4. p.alerts = s.alerts
  BY Zenon DEF EvidencePackage
<1>5. p.assessments = AssessAll(s, model)
  BY Zenon DEF EvidencePackage
<1>6. p.routes = RankRoutes(s.routes, AssessAll(s, model)).routes
  BY Zenon DEF EvidencePackage
<1> HIDE DEF p
<1>7. RankingOf(p.routes, s.routes)
  <2>1. PICK n \in Nat \ {0} : DOMAIN s.routes = 1 .. n
    BY DEF Exposed
  <2>2. \A i \in DOMAIN s.routes : IsRoute(s.routes[i])
    BY DEF Exposed
  <2>3. PICK assessments : assessments = AssessAll(s, model)
    OBVIOUS
  <2>4. p.routes = RankRoutes(s.routes, assessments).routes
    BY <1>6, <2>3
  <2> QED BY <2>1, <2>2, <2>4, RankRoutesIs
<1>8. ASSUME NEW i \in DOMAIN s.routes
      PROVE  AssessedAs(AssessRoute(s, s.routes[i], model, {}), s, s.routes[i])
  <2>1. IsFeatures(s.features)
    BY DEF Exposed
  <2>2. PICK r : r = s.routes[i]
    OBVIOUS
  <2>3. PICK a : a = AssessRoute(s, r, model, {})
    OBVIOUS
  <2>4. AssessedAs(a, s, r)
    BY <2>1, <2>3, AssessRouteIs, Zenon
  <2> QED BY <2>2, <2>3, <2>4
<1>9. \A a \in p.assessments : \E i \in DOMAIN s.routes : AssessedAs(a, s, s.routes[i])
  BY <1>5, <1>8, Zenon DEF AssessAll
<1>10. ASSUME NEW i \in DOMAIN s.routes
       PROVE  \E a \in p.assessments : a.route = s.routes[i].id
  <2>1. AssessRoute(s, s.routes[i], model, {}) \in p.assessments
    BY <1>5, Zenon DEF AssessAll
  <2> QED BY <1>8, <2>1, Zenon DEF AssessedAs
<1> QED BY <1>1, <1>2, <1>3, <1>4, <1>7, <1>9, <1>10 DEF Packed, p

\* Nothing but an expired passage makes a package inconsistent.
LEMMA PackageIsConsistent ==
  ASSUME NEW q, NEW s, Exposed(q, s), NEW p, Packed(s, p), InForce(p)
  PROVE  CheckConsistency(q, p)
<1>1. PICK n \in Nat \ {0} : DOMAIN s.routes = 1 .. n
  BY DEF Exposed
<1>2. DOMAIN p.routes = 1 .. n
  BY <1>1 DEF Packed, RankingOf
<1>3. p.routes # <<>>
  <2>1. ASSUME p.routes = <<>>
        PROVE  FALSE
    <3>1. 1 \in DOMAIN p.routes
      BY <1>2
    <3>2. DOMAIN <<>> = {}
      OBVIOUS
    <3> QED BY <2>1, <3>1, <3>2, Zenon
  <2> QED BY <2>1
<1>4. p.request = q.id
  BY DEF Packed, Exposed
<1>5. ASSUME NEW a \in p.assessments
      PROVE  a.snapshot = p.snapshot /\ a.route \in Ids(p.routes)
  <2>1. PICK i \in DOMAIN s.routes : AssessedAs(a, s, s.routes[i])
    BY DEF Packed
  <2>2. PICK k \in DOMAIN p.routes : p.routes[k].id = s.routes[i].id
    BY DEF Packed, RankingOf
  <2> QED BY <2>1, <2>2 DEF Packed, AssessedAs, Ids
<1>6. ASSUME NEW k \in DOMAIN p.routes
      PROVE  \E a \in p.assessments : a.route = p.routes[k].id
  <2>1. PICK i \in DOMAIN s.routes : p.routes[k].id = s.routes[i].id
    BY DEF Packed, RankingOf, RankedAs
  <2> QED BY <2>1 DEF Packed
<1>7. {a.route : a \in p.assessments} = Ids(p.routes)
  <2>1. Ids(p.routes) = {p.routes[k].id : k \in DOMAIN p.routes}
    BY DEF Ids
  <2> QED BY <1>5, <1>6, <2>1
<1> QED BY <1>3, <1>4, <1>5, <1>7 DEF CheckConsistency

-----------------------------------------------------------------------------
(* The decision table.                                                     *)

\* What the facts are made of.
IsFacts(f) ==
  /\ f.gate \in Gates /\ f.level \in RiskLevels
  /\ f.closed \in BOOLEAN /\ f.alternative \in BOOLEAN /\ f.conflicts \in BOOLEAN
  /\ f.safer \in BOOLEAN /\ f.timeDependent \in BOOLEAN

\* The actions of the rules, and the conditions that the argument needs.
ActionsAre ==
  /\ \A i \in 1 .. 13 : RULES[i].action \in Actions
  /\ \A i \in {3, 5, 8} : RULES[i].action = "CHANGE_ROUTE" /\ RULES[i].best = TRUE
  /\ \A i \in (1 .. 13) \ {3, 5, 8} : RULES[i].action # "CHANGE_ROUTE" /\ RULES[i].best = FALSE
  /\ \A i \in 1 .. 3 : RULES[i].action \in {"AVOID", "CHANGE_ROUTE"}
  /\ \A i \in 1 .. 13 : RULES[i].action = "NORMAL" => i \in {11, 12}

Unbounded(w) == w.conflicts = BOOLEAN /\ w.safer = BOOLEAN /\ w.timeDependent = BOOLEAN
                /\ w.level = RiskLevels /\ w.below = 4

ConditionsAre ==
  /\ RULES[1].when.gate = {"BLOCK"} /\ RULES[1].when.closed = BOOLEAN
  /\ RULES[1].when.alternative = BOOLEAN /\ Unbounded(RULES[1].when)
  /\ RULES[2].when.gate = Gates /\ RULES[2].when.closed = {TRUE}
  /\ RULES[2].when.alternative = {FALSE} /\ Unbounded(RULES[2].when)
  /\ RULES[3].when.gate = Gates /\ RULES[3].when.closed = {TRUE}
  /\ RULES[3].when.alternative = {TRUE} /\ Unbounded(RULES[3].when)
  /\ RULES[5].when.safer = {TRUE} /\ RULES[8].when.safer = {TRUE}
  /\ RULES[11].when.level = {"MEDIUM"} /\ RULES[12].when.level = {"LOW"}
  /\ RULES[13].when = Always

\* A rule of the table, as far as the decision's schema is concerned.
RuleFits(rule) == rule.id \in RuleIds /\ rule.action \in Actions /\ rule.specificity \in Percent

PartsAre == \A i \in 1 .. 13 : RuleFits(RULES[i])

\* What the argument needs of the decision table holds of it.
LEMMA TableIs == ActionsAre /\ ConditionsAre /\ PartsAre
<1>1. PICK a : a = [Always EXCEPT !.gate = {"BLOCK"}]
  OBVIOUS
<1>2. PICK b : b = [Always EXCEPT !.closed = {TRUE}, !.alternative = {FALSE}]
  OBVIOUS
<1>3. PICK c : c = [Always EXCEPT !.closed = {TRUE}, !.alternative = {TRUE}]
  OBVIOUS
<1>4. PICK d : d = [HighWith EXCEPT !.conflicts = {TRUE}]
  OBVIOUS
<1>5. PICK e : e = [HighWith EXCEPT !.safer = {TRUE}]
  OBVIOUS
<1>6. PICK f : f = [HighWith EXCEPT !.timeDependent = {TRUE}, !.below = 3]
  OBVIOUS
<1>8. PICK g : g = [MediumWith EXCEPT !.safer = {TRUE}]
  OBVIOUS
<1>9. PICK h : h = [MediumWith EXCEPT !.timeDependent = {TRUE}, !.below = 2]
  OBVIOUS
<1>10. PICK k : k = [Always EXCEPT !.level = {"UNKNOWN"}]
  OBVIOUS
<1>12. PICK l : l = [Always EXCEPT !.level = {"LOW"}, !.gate = {"PASS", "DEGRADED"}]
  OBVIOUS
<1>13. RULES = << Rule("BLOCKED_QUALITY_GATE", a, "AVOID", FALSE, TRUE, 90),
     Rule("OFFICIAL_CLOSURE_NO_ALTERNATIVE", b, "AVOID", FALSE, FALSE, 100),
     Rule("OFFICIAL_CLOSURE_WITH_ALTERNATIVE", c, "CHANGE_ROUTE", TRUE, FALSE, 100),
     Rule("CONFLICTING_OFFICIAL_SOURCES_HIGH", d, "AVOID", FALSE, TRUE, 80),
     Rule("HIGH_WITH_SAFER_ROUTE", e, "CHANGE_ROUTE", TRUE, FALSE, 90),
     Rule("HIGH_TIME_DEPENDENT", f, "DELAY", FALSE, FALSE, 85),
     Rule("HIGH_NO_OPTION", HighWith, "AVOID", FALSE, FALSE, 80),
     Rule("MEDIUM_WITH_SAFER_ROUTE", g, "CHANGE_ROUTE", TRUE, FALSE, 80),
     Rule("MEDIUM_TIME_DEPENDENT", h, "DELAY", FALSE, FALSE, 75),
     Rule("UNKNOWN_EVIDENCE", k, "DELAY", FALSE, TRUE, 70),
     Rule("MEDIUM_PROCEED_WITH_CAUTION", MediumWith, "NORMAL", FALSE, FALSE, 60),
     Rule("LOW_NORMAL", l, "NORMAL", FALSE, FALSE, 70),
     Rule("FALLBACK_CONSERVATIVE", Always, "DELAY", FALSE, TRUE, 30) >>
  BY <1>1, <1>2, <1>3, <1>4, <1>5, <1>6, <1>8, <1>9, <1>10, <1>12, Zenon DEF RULES
<1> HIDE DEF RULES
<1>14. ActionsAre
  <2>1. /\ RULES[1].action = "AVOID" /\ RULES[2].action = "AVOID" /\ RULES[3].action = "CHANGE_ROUTE"
        /\ RULES[4].action = "AVOID" /\ RULES[5].action = "CHANGE_ROUTE" /\ RULES[6].action = "DELAY"
        /\ RULES[7].action = "AVOID" /\ RULES[8].action = "CHANGE_ROUTE" /\ RULES[9].action = "DELAY"
        /\ RULES[10].action = "DELAY" /\ RULES[11].action = "NORMAL" /\ RULES[12].action = "NORMAL"
        /\ RULES[13].action = "DELAY"
    BY <1>13 DEF Rule
  <2>2. /\ RULES[1].best = FALSE /\ RULES[2].best = FALSE /\ RULES[3].best = TRUE
        /\ RULES[4].best = FALSE /\ RULES[5].best = TRUE /\ RULES[6].best = FALSE
        /\ RULES[7].best = FALSE /\ RULES[8].best = TRUE /\ RULES[9].best = FALSE
        /\ RULES[10].best = FALSE /\ RULES[11].best = FALSE /\ RULES[12].best = FALSE
        /\ RULES[13].best = FALSE
    BY <1>13 DEF Rule
  <2>3. \A i \in 1 .. 13 : i \in {1, 2, 3, 4, 5, 6, 7, 8, 9, 10, 11, 12, 13}
    OBVIOUS
  <2> QED BY <2>1, <2>2, <2>3 DEF ActionsAre, Actions
<1>15. ConditionsAre
  <2>1. /\ RULES[1].when = a /\ RULES[2].when = b /\ RULES[3].when = c /\ RULES[5].when = e
        /\ RULES[8].when = g /\ RULES[11].when = MediumWith /\ RULES[12].when = l
        /\ RULES[13].when = Always
    BY <1>13 DEF Rule
  <2>2. Unbounded(a) /\ a.gate = {"BLOCK"} /\ a.closed = BOOLEAN /\ a.alternative = BOOLEAN
    BY <1>1 DEF Always, Unbounded
  <2>3. Unbounded(b) /\ b.gate = Gates /\ b.closed = {TRUE} /\ b.alternative = {FALSE}
    <3>1. PICK x : x = [Always EXCEPT !.closed = {TRUE}]
      OBVIOUS
    <3>2. b = [x EXCEPT !.alternative = {FALSE}]
      BY <1>2, <3>1, Zenon
    <3> QED BY <3>1, <3>2 DEF Always, Unbounded
  <2>4. Unbounded(c) /\ c.gate = Gates /\ c.closed = {TRUE} /\ c.alternative = {TRUE}
    <3>1. PICK x : x = [Always EXCEPT !.closed = {TRUE}]
      OBVIOUS
    <3>2. c = [x EXCEPT !.alternative = {TRUE}]
      BY <1>3, <3>1, Zenon
    <3> QED BY <3>1, <3>2 DEF Always, Unbounded
  <2>5. e.safer = {TRUE} /\ g.safer = {TRUE}
    BY <1>5, <1>8 DEF HighWith, MediumWith, Always
  <2>6. MediumWith.level = {"MEDIUM"}
    BY DEF MediumWith, Always
  <2>7. l.level = {"LOW"}
    <3>1. PICK x : x = [Always EXCEPT !.level = {"LOW"}]
      OBVIOUS
    <3>2. l = [x EXCEPT !.gate = {"PASS", "DEGRADED"}]
      BY <1>12, <3>1, Zenon
    <3> QED BY <3>1, <3>2 DEF Always
  <2> QED BY <2>1, <2>2, <2>3, <2>4, <2>5, <2>6, <2>7 DEF ConditionsAre
<1>16. PartsAre
  <2>1. /\ RULES[1].id = "BLOCKED_QUALITY_GATE"
        /\ RULES[2].id = "OFFICIAL_CLOSURE_NO_ALTERNATIVE"
        /\ RULES[3].id = "OFFICIAL_CLOSURE_WITH_ALTERNATIVE"
        /\ RULES[4].id = "CONFLICTING_OFFICIAL_SOURCES_HIGH"
        /\ RULES[5].id = "HIGH_WITH_SAFER_ROUTE"
        /\ RULES[6].id = "HIGH_TIME_DEPENDENT"
        /\ RULES[7].id = "HIGH_NO_OPTION"
        /\ RULES[8].id = "MEDIUM_WITH_SAFER_ROUTE"
        /\ RULES[9].id = "MEDIUM_TIME_DEPENDENT"
        /\ RULES[10].id = "UNKNOWN_EVIDENCE"
        /\ RULES[11].id = "MEDIUM_PROCEED_WITH_CAUTION"
        /\ RULES[12].id = "LOW_NORMAL"
        /\ RULES[13].id = "FALLBACK_CONSERVATIVE"
    BY <1>13 DEF Rule
  <2>2. /\ RULES[1].action = "AVOID" /\ RULES[1].specificity = 90
        /\ RULES[2].action = "AVOID" /\ RULES[2].specificity = 100
        /\ RULES[3].action = "CHANGE_ROUTE" /\ RULES[3].specificity = 100
        /\ RULES[4].action = "AVOID" /\ RULES[4].specificity = 80
        /\ RULES[5].action = "CHANGE_ROUTE" /\ RULES[5].specificity = 90
        /\ RULES[6].action = "DELAY" /\ RULES[6].specificity = 85
        /\ RULES[7].action = "AVOID" /\ RULES[7].specificity = 80
        /\ RULES[8].action = "CHANGE_ROUTE" /\ RULES[8].specificity = 80
        /\ RULES[9].action = "DELAY" /\ RULES[9].specificity = 75
        /\ RULES[10].action = "DELAY" /\ RULES[10].specificity = 70
        /\ RULES[11].action = "NORMAL" /\ RULES[11].specificity = 60
        /\ RULES[12].action = "NORMAL" /\ RULES[12].specificity = 70
        /\ RULES[13].action = "DELAY" /\ RULES[13].specificity = 30
    BY <1>13 DEF Rule
  <2>3. \A i \in 1 .. 13 : i \in {1, 2, 3, 4, 5, 6, 7, 8, 9, 10, 11, 12, 13}
    OBVIOUS
  <2>4. \A i \in 1 .. 13 : RULES[i].id \in RuleIds
    BY <2>1, <2>3 DEF RuleIds
  <2>5. \A i \in 1 .. 13 : RULES[i].action \in Actions /\ RULES[i].specificity \in Percent
    BY <2>2, <2>3 DEF Actions, Percent
  <2> QED BY <2>4, <2>5 DEF PartsAre, RuleFits
<1> QED BY <1>14, <1>15, <1>16

\* The rule that is chosen is the first of the table that matches.
LEMMA FirstMatch ==
  ASSUME NEW f, IsFacts(f)
  PROVE  \E i \in 1 .. 13 : /\ Matches(RULES[i], f)
                            /\ \A j \in 1 .. 13 : j < i => ~Matches(RULES[j], f)
                            /\ ChosenRule(f) = RULES[i]
<1>1. Matches(RULES[13], f)
  BY TableIs DEF Matches, ConditionsAre, Always, IsFacts
<1> DEFINE First(i) == /\ Matches(RULES[i], f)
                       /\ \A j \in 1 .. 13 : j < i => ~Matches(RULES[j], f)
           M == {i \in 1 .. 13 : Matches(RULES[i], f)}
<1>2. M \subseteq Nat /\ M # {}
  BY <1>1
<1>3. PICK i \in M : \A j \in M : i <= j
  <2> HIDE DEF M
  <2> QED BY <1>2, LeastNat
<1>4. \A j \in 1 .. 13 : j < i => j \notin M
  BY <1>3
<1>5. \E k \in 1 .. 13 : First(k)
  BY <1>3, <1>4
<1>6. ChosenRule(f) = RULES[CHOOSE k \in 1 .. 13 : First(k)]
  BY DEF ChosenRule
<1>7. PICK k \in 1 .. 13 : First(k) /\ ChosenRule(f) = RULES[k]
  <2> HIDE DEF First
  <2> QED BY <1>5, <1>6
<1> QED BY <1>7

\* What the action of the first matching rule says of the facts.
DecidedAs(rule, f) ==
  /\ rule.action \in Actions
  /\ rule.action = "NORMAL" => f.level \in {"LOW", "MEDIUM"}
  /\ f.closed => rule.action \in {"AVOID", "CHANGE_ROUTE"}
  /\ rule.action = "CHANGE_ROUTE" => rule.best = TRUE /\ (f.alternative \/ f.safer)
  /\ rule.action # "CHANGE_ROUTE" => rule.best = FALSE

LEMMA FirstRuleIs ==
  ASSUME NEW f, IsFacts(f)
  PROVE  DecidedAs(ChosenRule(f), f)
<1> USE TableIs
<1>2. f.closed => Matches(RULES[1], f) \/ Matches(RULES[2], f) \/ Matches(RULES[3], f)
  <2> SUFFICES ASSUME f.closed
               PROVE  Matches(RULES[2], f) \/ Matches(RULES[3], f)
    OBVIOUS
  <2>1. f.closed = TRUE /\ (f.alternative = TRUE \/ f.alternative = FALSE)
    BY DEF IsFacts
  <2>2. ASSUME f.alternative = TRUE
        PROVE  Matches(RULES[3], f)
    <3>1. PICK w : w = RULES[3].when
      OBVIOUS
    <3>2. /\ w.gate = Gates /\ w.closed = {TRUE} /\ w.alternative = {TRUE} /\ Unbounded(w)
      BY <3>1 DEF ConditionsAre
    <3>3. w.below = 4 /\ ~(w.below < 4)
      BY <3>2 DEF Unbounded
    <3>4. /\ f.gate \in w.gate /\ f.closed \in w.closed /\ f.alternative \in w.alternative
          /\ f.conflicts \in w.conflicts /\ f.level \in w.level /\ f.safer \in w.safer
          /\ f.timeDependent \in w.timeDependent
      BY <2>1, <2>2, <3>2, Zenon DEF Unbounded, IsFacts
    <3> QED BY <3>1, <3>3, <3>4, Zenon DEF Matches
  <2>3. ASSUME f.alternative = FALSE
        PROVE  Matches(RULES[2], f)
    <3>1. PICK w : w = RULES[2].when
      OBVIOUS
    <3>2. /\ w.gate = Gates /\ w.closed = {TRUE} /\ w.alternative = {FALSE} /\ Unbounded(w)
      BY <3>1 DEF ConditionsAre
    <3>3. w.below = 4 /\ ~(w.below < 4)
      BY <3>2 DEF Unbounded
    <3>4. /\ f.gate \in w.gate /\ f.closed \in w.closed /\ f.alternative \in w.alternative
          /\ f.conflicts \in w.conflicts /\ f.level \in w.level /\ f.safer \in w.safer
          /\ f.timeDependent \in w.timeDependent
      BY <2>1, <2>3, <3>2, Zenon DEF Unbounded, IsFacts
    <3> QED BY <3>1, <3>3, <3>4, Zenon DEF Matches
  <2> QED BY <2>1, <2>2, <2>3
<1>3. /\ Matches(RULES[3], f) => f.alternative
      /\ Matches(RULES[5], f) => f.safer
      /\ Matches(RULES[8], f) => f.safer
      /\ Matches(RULES[11], f) => f.level = "MEDIUM"
      /\ Matches(RULES[12], f) => f.level = "LOW"
  BY DEF Matches, ConditionsAre
<1>5. PICK i \in 1 .. 13 : /\ Matches(RULES[i], f)
                           /\ \A j \in 1 .. 13 : j < i => ~Matches(RULES[j], f)
                           /\ ChosenRule(f) = RULES[i]
  BY FirstMatch
<1>6. f.closed => i \in 1 .. 3
  <2>1. ASSUME f.closed, i > 3
        PROVE  FALSE
    <3>1. ~Matches(RULES[1], f) /\ ~Matches(RULES[2], f) /\ ~Matches(RULES[3], f)
      BY <1>5, <2>1
    <3> QED BY <1>2, <2>1, <3>1
  <2> QED BY <2>1
<1>7. RULES[i].action = "NORMAL" => f.level \in {"LOW", "MEDIUM"}
  BY <1>3, <1>5 DEF ActionsAre
<1>8. RULES[i].action = "CHANGE_ROUTE" => RULES[i].best = TRUE /\ (f.alternative \/ f.safer)
  BY <1>3, <1>5 DEF ActionsAre
<1>9. RULES[i].action # "CHANGE_ROUTE" => RULES[i].best = FALSE
  BY DEF ActionsAre
<1>10. f.closed => RULES[i].action \in {"AVOID", "CHANGE_ROUTE"}
  BY <1>6 DEF ActionsAre
<1>11. RULES[i].action \in Actions
  BY DEF ActionsAre
<1> QED BY <1>5, <1>7, <1>8, <1>9, <1>10, <1>11 DEF DecidedAs

-----------------------------------------------------------------------------
(* The facts that the table is asked about.                                *)

\* The first original route, or the first route, whoever asks for it.
LEMMA FirstOriginal ==
  ASSUME NEW n \in Nat \ {0}, NEW routes, DOMAIN routes = 1 .. n
  PROVE  PrimaryIndex(routes) \in DOMAIN routes /\ OriginalIndex(routes) \in DOMAIN routes
<1> DEFINE originals == {i \in DOMAIN routes : routes[i].label = "ORIGINAL"}
<1>1. originals # {} => \E i \in originals : \A j \in originals : i <= j
  <2>1. originals \subseteq Nat
    OBVIOUS
  <2> HIDE DEF originals
  <2> QED BY <2>1, LeastNat
<1>2. 1 \in DOMAIN routes
  OBVIOUS
<1>3. PrimaryIndex(routes) = IF originals = {} THEN 1
                             ELSE CHOOSE i \in originals : \A j \in originals : i <= j
  BY DEF PrimaryIndex
<1>4. OriginalIndex(routes) = IF originals = {} THEN 1
                              ELSE CHOOSE i \in originals : \A j \in originals : i <= j
  BY DEF OriginalIndex
<1>5. originals \subseteq DOMAIN routes
  OBVIOUS
<1> HIDE DEF originals
<1> QED BY <1>1, <1>2, <1>3, <1>4, <1>5

\* The facts are those of a route of the package and of its own assessment, and the best
\* alternatives are open.
FactsFrom(f, s, p) ==
  /\ IsFacts(f)
  /\ \E i \in DOMAIN p.routes : f.primary = p.routes[i].id /\ f.closed = p.routes[i].exposure.closed
  /\ \E a \in p.assessments : \E j \in DOMAIN s.routes :
       AssessedAs(a, s, s.routes[j]) /\ s.routes[j].id = f.primary /\ f.level = a.level
  /\ f.alternative \/ f.safer => f.best # {}
  /\ \A id \in f.best : \E i \in DOMAIN p.routes : p.routes[i].id = id /\ p.routes[i].usable

LEMMA FactsAre ==
  ASSUME NEW q, NEW s, Exposed(q, s), NEW p, Packed(s, p), NEW f, f = DeriveFacts(p)
  PROVE  FactsFrom(f, s, p)
<1> DEFINE routes  == p.routes
           m       == PrimaryIndex(routes)
           Of(i)   == CHOOSE a \in p.assessments : a.route = routes[i].id
           options == Options(routes, m)
           Before(i, j) == \/ Of(i).score < Of(j).score
                           \/ Of(i).score = Of(j).score /\ routes[i].minutes < routes[j].minutes
                           \/ Of(i).score = Of(j).score /\ routes[i].minutes = routes[j].minutes /\ i <= j
           best    == {i \in options : \A j \in options : Before(i, j)}
           Safer(i) == /\ Of(m).score - Of(i).score >= SAFER_DELTA
                       /\ RISK_RANK[Of(i).level] <= RISK_RANK[Of(m).level]
                       /\ Of(i).level # "HIGH"
<1>1. DeriveFacts(p).gate = p.quality.gate
  BY Zenon DEF DeriveFacts
<1>2. DeriveFacts(p).closed = (routes[m].exposure.closed \/ ~routes[m].usable)
  BY Zenon DEF DeriveFacts
<1>3. DeriveFacts(p).alternative = (best # {})
  BY Zenon DEF DeriveFacts
<1>4. DeriveFacts(p).conflicts = (p.conflicts > 0)
  BY Zenon DEF DeriveFacts
<1>5. DeriveFacts(p).level = Of(m).level
  BY Zenon DEF DeriveFacts
<1>6. DeriveFacts(p).safer = (\E i \in best : Safer(i))
  BY Zenon DEF DeriveFacts
<1>7. DeriveFacts(p).timeDependent = (Of(m).timeDependent /\ Of(m).later # {})
  BY Zenon DEF DeriveFacts
<1>8. DeriveFacts(p).primary = routes[m].id
  BY Zenon DEF DeriveFacts
<1>9. DeriveFacts(p).best = {routes[i].id : i \in best}
  BY Zenon DEF DeriveFacts
<1>10. m \in DOMAIN routes
  <2>1. PICK n \in Nat \ {0} : DOMAIN routes = 1 .. n
    BY DEF Packed, RankingOf, Exposed
  <2> QED BY <2>1, FirstOriginal
<1>11. best \subseteq options /\ \A i \in options : i \in DOMAIN routes /\ routes[i].usable
  <2>1. \A i \in options : i \in DOMAIN routes /\ routes[i].usable
    BY Zenon DEF Options
  <2> HIDE DEF options
  <2> QED BY <2>1
<1> HIDE DEF m, Safer, best, options
<1>12. PICK i \in DOMAIN s.routes : RankedAs(routes[m], s.routes[i], ~s.routes[i].exposure.closed)
  BY <1>10 DEF Packed, RankingOf
<1>13. routes[m].id = s.routes[i].id /\ f.closed = routes[m].exposure.closed /\ f.closed \in BOOLEAN
  <2>1. routes[m].exposure = s.routes[i].exposure /\ routes[m].usable = ~s.routes[i].exposure.closed
        /\ routes[m].id = s.routes[i].id
    BY <1>12 DEF RankedAs
  <2>2. s.routes[i].exposure.closed \in BOOLEAN
    BY Zenon DEF Exposed
  <2> QED BY <1>2, <2>1, <2>2
<1>14. Of(m) \in p.assessments /\ Of(m).route = routes[m].id
  <2>1. \E a \in p.assessments : a.route = routes[m].id
    BY <1>13 DEF Packed
  <2> QED BY <2>1
<1> HIDE DEF Of
<1>15. PICK j \in DOMAIN s.routes : AssessedAs(Of(m), s, s.routes[j])
  BY <1>14 DEF Packed
<1>16. s.routes[j].id = f.primary /\ f.level = Of(m).level /\ f.level \in RiskLevels
  BY <1>5, <1>8, <1>14, <1>15 DEF AssessedAs
<1>17. f.gate \in Gates
  BY <1>1 DEF Packed, Exposed
<1>18. /\ f.alternative \in BOOLEAN /\ f.conflicts \in BOOLEAN /\ f.safer \in BOOLEAN
       /\ f.timeDependent \in BOOLEAN
  <2>1. f.alternative \in BOOLEAN
    BY <1>3
  <2>2. f.conflicts \in BOOLEAN
    BY <1>4
  <2>3. f.safer \in BOOLEAN
    BY <1>6
  <2>4. f.timeDependent \in BOOLEAN
    BY <1>7
  <2> QED BY <2>1, <2>2, <2>3, <2>4
<1>19. f.alternative \/ f.safer => f.best # {}
  BY <1>3, <1>6, <1>9
<1>20. \A id \in f.best : \E k \in DOMAIN routes : routes[k].id = id /\ routes[k].usable
  BY <1>9, <1>11
<1>21. IsFacts(f)
  BY <1>13, <1>16, <1>17, <1>18 DEF IsFacts
<1>22. f.primary = routes[m].id
  BY <1>8
<1> HIDE DEF routes
<1> QED BY <1>10, <1>13, <1>14, <1>15, <1>16, <1>19, <1>20, <1>21, <1>22 DEF FactsFrom, routes

-----------------------------------------------------------------------------
(* The decision and the response.                                          *)

\* Routes of one id, before and after the ranking, meet the same events.
TwinOf(r, q, s, t) ==
  /\ HitsOn(q, s, r) = HitsOn(q, s, t)
  /\ r.exposure.closed = (\E e \in HitsOn(q, s, t) : e.closure)
  /\ r.usable = ~r.exposure.closed

LEMMA Twins ==
  ASSUME NEW q, NEW s, Exposed(q, s), NEW p, Packed(s, p),
         NEW i \in DOMAIN s.routes, NEW k \in DOMAIN p.routes, p.routes[k].id = s.routes[i].id
  PROVE  TwinOf(p.routes[k], q, s, s.routes[i])
<1>1. PICK j \in DOMAIN s.routes : RankedAs(p.routes[k], s.routes[j], ~s.routes[j].exposure.closed)
  BY DEF Packed, RankingOf
<1>2. /\ p.routes[k].id = s.routes[j].id /\ p.routes[k].path = s.routes[j].path
      /\ p.routes[k].exposure = s.routes[j].exposure
      /\ p.routes[k].usable = ~s.routes[j].exposure.closed
  BY <1>1 DEF RankedAs
<1>3. s.routes[j].path = s.routes[i].path
  <2>1. OneRoad(s.routes)
    BY Zenon DEF Exposed
  <2>2. s.routes[j].id = s.routes[i].id
    BY <1>2
  <2> QED BY <2>1, <2>2, Zenon DEF OneRoad
<1>4. /\ HitsOn(q, s, p.routes[k]) = HitsOn(q, s, s.routes[i])
      /\ HitsOn(q, s, s.routes[j]) = HitsOn(q, s, s.routes[i])
  BY <1>2, <1>3, Zenon DEF HitsOn
<1>5. /\ s.routes[j].exposure.events = {e.id : e \in HitsOn(q, s, s.routes[j])}
      /\ s.routes[j].exposure.closed = (\E e \in HitsOn(q, s, s.routes[j]) : e.closure)
  BY Zenon DEF Exposed
<1> QED BY <1>2, <1>4, <1>5, Zenon DEF TwinOf

\* What a decision takes from the first rule that matches.
DecisionFrom(d, q, p, f) ==
  LET rule == ChosenRule(f)
  IN /\ d.request = q.id /\ d.snapshot = p.snapshot /\ d.validation.lockedAction = TRUE
     /\ d.action = rule.action /\ d.selected = Selected(f, rule) /\ d.level = Headline(f, rule)
     /\ d.citations \subseteq {e.id : e \in p.evidence}

LEMMA DecisionIs ==
  ASSUME NEW q, NEW p, NEW x, NEW fallback, NEW checked
  PROVE  DecisionFrom(Decision(q, p, x, fallback, checked), q, p, DeriveFacts(p))
<1> DEFINE d == Decision(q, p, x, fallback, checked)
<1>1. d.request = q.id
  BY Zenon DEF Decision
<1>2. d.snapshot = p.snapshot
  BY Zenon DEF Decision
<1>3. d.validation.lockedAction = TRUE
  <2>1. \E a, b, c, e : d.validation = [citations |-> a, numbers |-> b, banned |-> c,
                                        lockedAction |-> TRUE, fallback |-> e]
    BY Zenon DEF Decision
  <2> HIDE DEF d
  <2> QED BY <2>1
<1>4. d.action = ChosenRule(DeriveFacts(p)).action
  BY Zenon DEF Decision
<1>5. d.selected = Selected(DeriveFacts(p), ChosenRule(DeriveFacts(p)))
  BY Zenon DEF Decision
<1>6. d.level = Headline(DeriveFacts(p), ChosenRule(DeriveFacts(p)))
  BY Zenon DEF Decision
<1>7. d.citations = {e.id : e \in p.evidence} \cap x.cites
  BY Zenon DEF Decision
<1> HIDE DEF d
<1>8. d.citations \subseteq {e.id : e \in p.evidence}
  BY <1>7
<1> QED BY <1>1, <1>2, <1>3, <1>4, <1>5, <1>6, <1>8, Zenon DEF DecisionFrom, d

\* What is selected, and the level that is announced.
SelectedWell(d, s, p) ==
  /\ \A id \in d.selected : \E k \in DOMAIN p.routes : p.routes[k].id = id
  /\ d.action = "CHANGE_ROUTE" =>
       /\ d.selected # {}
       /\ \A id \in d.selected : \E k \in DOMAIN p.routes : p.routes[k].id = id /\ p.routes[k].usable
  /\ d.action # "CHANGE_ROUTE" =>
       \A id \in d.selected : \E k \in DOMAIN p.routes :
         p.routes[k].id = id /\ p.routes[k].exposure.closed = FALSE
  /\ d.action \in {"NORMAL", "DELAY"} => d.selected # {}
  /\ d.action = "NORMAL" => \A id \in d.selected : \E a \in p.assessments : \E j \in DOMAIN s.routes :
       AssessedAs(a, s, s.routes[j]) /\ s.routes[j].id = id /\ a.level \in {"LOW", "MEDIUM"}
  /\ d.level = "LOW" => ~Insufficient(s.features)

LEMMA SelectionIs ==
  ASSUME NEW q, NEW s, Exposed(q, s), NEW p, Packed(s, p), NEW d, DecisionFrom(d, q, p, DeriveFacts(p))
  PROVE  SelectedWell(d, s, p)
<1>1. PICK f : f = DeriveFacts(p)
  OBVIOUS
<1>2. FactsFrom(f, s, p) /\ IsFacts(f)
  BY <1>1, FactsAre DEF FactsFrom
<1>3. PICK rule : rule = ChosenRule(f)
  OBVIOUS
<1>4. DecidedAs(rule, f)
  BY <1>2, <1>3, FirstRuleIs
<1>5. d.action = rule.action /\ d.selected = Selected(f, rule) /\ d.level = Headline(f, rule)
  BY <1>1, <1>3 DEF DecisionFrom
<1>6. PICK i \in DOMAIN p.routes : f.primary = p.routes[i].id /\ f.closed = p.routes[i].exposure.closed
  BY <1>2 DEF FactsFrom
<1>7. PICK a \in p.assessments : \E j \in DOMAIN s.routes :
        AssessedAs(a, s, s.routes[j]) /\ s.routes[j].id = f.primary /\ f.level = a.level
  BY <1>2 DEF FactsFrom
<1>8. PICK j \in DOMAIN s.routes :
        AssessedAs(a, s, s.routes[j]) /\ s.routes[j].id = f.primary /\ f.level = a.level
  BY <1>7
<1>9. CASE rule.action = "CHANGE_ROUTE"
  <2>1. d.selected = f.best /\ f.best # {}
    BY <1>2, <1>4, <1>5, <1>9 DEF DecidedAs, FactsFrom, Selected
  <2>2. \A id \in f.best : \E k \in DOMAIN p.routes : p.routes[k].id = id /\ p.routes[k].usable
    BY <1>2 DEF FactsFrom
  <2>3. d.level = f.level
    BY <1>5, <1>9 DEF Headline
  <2>4. f.level = "LOW" => ~Insufficient(s.features)
    BY <1>8 DEF AssessedAs
  <2> QED BY <1>5, <1>9, <2>1, <2>2, <2>3, <2>4 DEF SelectedWell
<1>10. CASE rule.action # "CHANGE_ROUTE"
  <2>1. rule.best = FALSE /\ f.closed \in BOOLEAN
    BY <1>2, <1>4, <1>10 DEF DecidedAs, IsFacts
  <2>2. \/ d.selected = {} /\ rule.action = "AVOID"
        \/ d.selected = {f.primary} /\ f.closed = FALSE
    <3>1. CASE rule.action = "AVOID" /\ f.closed
      BY <1>5, <3>1 DEF Selected
    <3>2. CASE ~(rule.action = "AVOID" /\ f.closed)
      <4>1. d.selected = {f.primary}
        BY <1>5, <2>1, <3>2 DEF Selected
      <4>2. ~f.closed
        BY <1>4, <1>10, <3>2 DEF DecidedAs
      <4> QED BY <2>1, <4>1, <4>2
    <3> QED BY <3>1, <3>2
  <2>3. f.level = "LOW" => ~Insufficient(s.features)
    BY <1>8 DEF AssessedAs
  <2>4. d.level = "LOW" => f.level = "LOW"
    BY <1>5 DEF Headline
  <2>5. rule.action = "NORMAL" => a.level \in {"LOW", "MEDIUM"}
    BY <1>4, <1>8 DEF DecidedAs
  <2>6. \A id \in d.selected : \E k \in DOMAIN p.routes :
          p.routes[k].id = id /\ p.routes[k].exposure.closed = FALSE
    BY <1>6, <2>2
  <2>7. d.action = "NORMAL" => \A id \in d.selected : \E b \in p.assessments : \E l \in DOMAIN s.routes :
          AssessedAs(b, s, s.routes[l]) /\ s.routes[l].id = id /\ b.level \in {"LOW", "MEDIUM"}
    BY <1>5, <1>8, <2>2, <2>5
  <2> QED BY <1>5, <1>10, <2>2, <2>3, <2>4, <2>6, <2>7 DEF SelectedWell
<1> QED BY <1>9, <1>10

\* A decision fits the package it was made of: the response builder does not refuse it.
LEMMA DecisionFits ==
  ASSUME NEW q, NEW s, Exposed(q, s), NEW p, Packed(s, p), NEW d, DecisionFrom(d, q, p, DeriveFacts(p))
  PROVE  Consistent(d, p)
<1>1. SelectedWell(d, s, p)
  BY SelectionIs
<1>2. d.snapshot = p.snapshot /\ d.request = p.request /\ d.validation.lockedAction
      /\ d.citations \subseteq {e.id : e \in p.evidence}
  BY DEF DecisionFrom, Packed, Exposed
<1> DEFINE selected == UNION {RouteOf(p, id) : id \in d.selected}
<1>3. d.action = "CHANGE_ROUTE" => \E r \in selected : r.usable
  <2> SUFFICES ASSUME d.action = "CHANGE_ROUTE"
               PROVE  \E r \in selected : r.usable
    OBVIOUS
  <2>1. PICK id \in d.selected : \E k \in DOMAIN p.routes : p.routes[k].id = id /\ p.routes[k].usable
    BY <1>1 DEF SelectedWell
  <2>2. PICK k \in DOMAIN p.routes : p.routes[k].id = id /\ p.routes[k].usable
    BY <2>1
  <2>3. p.routes[k] \in RouteOf(p, id)
    BY <2>2 DEF RouteOf
  <2> QED BY <2>2, <2>3
<1>4. d.action = "AVOID" => \A r \in selected : ~r.exposure.closed
  <2> SUFFICES ASSUME d.action = "AVOID", NEW id \in d.selected, NEW r \in RouteOf(p, id)
               PROVE  ~r.exposure.closed
    OBVIOUS
  <2>1. PICK l \in DOMAIN p.routes : r = p.routes[l] /\ p.routes[l].id = id
    BY DEF RouteOf
  <2>2. PICK k \in DOMAIN p.routes : p.routes[k].id = id /\ p.routes[k].exposure.closed = FALSE
    BY <1>1 DEF SelectedWell
  <2>3. PICK i \in DOMAIN s.routes : p.routes[k].id = s.routes[i].id
    BY DEF Packed, RankingOf, RankedAs
  <2>4. p.routes[k].exposure.closed = p.routes[l].exposure.closed
    <3>1. p.routes[k].exposure.closed = (\E e \in HitsOn(q, s, s.routes[i]) : e.closure)
      <4>1. TwinOf(p.routes[k], q, s, s.routes[i])
        BY <2>3, Twins
      <4> QED BY <4>1, Zenon DEF TwinOf
    <3>2. p.routes[l].exposure.closed = (\E e \in HitsOn(q, s, s.routes[i]) : e.closure)
      <4>1. p.routes[l].id = s.routes[i].id
        BY <2>1, <2>2, <2>3
      <4>2. TwinOf(p.routes[l], q, s, s.routes[i])
        BY <4>1, Twins
      <4> QED BY <4>2, Zenon DEF TwinOf
    <3> QED BY <3>1, <3>2, Zenon
  <2> QED BY <2>1, <2>2, <2>4
<1> HIDE DEF selected
<1> QED BY <1>2, <1>3, <1>4 DEF Consistent, selected

\* What a response takes from the decision and the package.
ResponseFrom(r, d, p) ==
  /\ r.action = d.action /\ r.level = d.level
  /\ r.primary = PrimaryAndAlternatives(d, p).primary

LEMMA ResponseIs ==
  ASSUME NEW d, NEW p, NEW directory
  PROVE  ResponseFrom(BuildResponse(d, p, directory), d, p)
<1>1. BuildResponse(d, p, directory).action = d.action
  BY Zenon DEF BuildResponse
<1>2. BuildResponse(d, p, directory).level = d.level
  BY Zenon DEF BuildResponse
<1>3. BuildResponse(d, p, directory).primary = PrimaryAndAlternatives(d, p).primary
  BY Zenon DEF BuildResponse
<1> QED BY <1>1, <1>2, <1>3 DEF ResponseFrom

\* Only selected routes are shown, and none of them to those who are told to avoid the trip.
LEMMA ShownAreSelected ==
  ASSUME NEW q, NEW s, Exposed(q, s), NEW p, Packed(s, p), NEW d, SelectedWell(d, s, p),
         d.action \in Actions, NEW id \in PrimaryAndAlternatives(d, p).primary
  PROVE  d.action # "AVOID" /\ id \in d.selected
<1> DEFINE routes == p.routes
           chosen == {i \in DOMAIN routes : routes[i].id \in d.selected}
<1>1. PrimaryAndAlternatives(d, p).primary
        = IF d.action = "AVOID" THEN {}
          ELSE IF chosen # {} THEN {routes[i].id : i \in chosen}
          ELSE {routes[OriginalIndex(routes)].id}
  BY Zenon DEF PrimaryAndAlternatives
<1>2. d.action # "AVOID"
  BY <1>1
<1>3. PICK x \in d.selected : \E k \in DOMAIN routes : routes[k].id = x
  BY <1>2 DEF SelectedWell, Actions
<1>4. chosen # {}
  BY <1>3
<1> QED BY <1>1, <1>2, <1>4

\* Whoever follows the response meets no closure that the snapshot has, and is not told that
\* the trip is a normal one when the road meets a severe official alert that the snapshot has
\* kept; a risk is low only with sufficient evidence of rain, wind and coverage.
Heeds(r, q, s, p) ==
  /\ \A id \in r.primary : \A route \in RouteOf(p, id) :
       /\ \A e \in HitsOn(q, s, route) : ~e.closure
       /\ r.action = "NORMAL" =>
            \A e \in s.alerts : e.severity >= SEVERE => e \notin HitsOn(q, s, route)
  /\ r.level = "LOW" => ~Insufficient(s.features)

LEMMA ResponseHeeds ==
  ASSUME NEW q, NEW s, Exposed(q, s), NEW p, Packed(s, p),
         NEW d, DecisionFrom(d, q, p, DeriveFacts(p)), NEW r, ResponseFrom(r, d, p)
  PROVE  Heeds(r, q, s, p)
<1>1. SelectedWell(d, s, p)
  BY SelectionIs
<1>2. d.action \in Actions
  <2>1. PICK f : f = DeriveFacts(p)
    OBVIOUS
  <2>2. IsFacts(f)
    BY <2>1, FactsAre DEF FactsFrom
  <2>3. PICK rule : rule = ChosenRule(f)
    OBVIOUS
  <2>4. DecidedAs(rule, f)
    BY <2>2, <2>3, FirstRuleIs
  <2> QED BY <2>1, <2>3, <2>4 DEF DecisionFrom, DecidedAs
<1>3. ASSUME NEW id \in r.primary, NEW route \in RouteOf(p, id)
      PROVE  /\ \A e \in HitsOn(q, s, route) : ~e.closure
             /\ r.action = "NORMAL" =>
                  \A e \in s.alerts : e.severity >= SEVERE => e \notin HitsOn(q, s, route)
  <2>1. d.action # "AVOID" /\ id \in d.selected
    BY <1>1, <1>2, ShownAreSelected DEF ResponseFrom
  <2>2. PICK l \in DOMAIN p.routes : route = p.routes[l] /\ p.routes[l].id = id
    BY DEF RouteOf
  <2>3. PICK k \in DOMAIN p.routes : p.routes[k].id = id /\ ~p.routes[k].exposure.closed
    <3>1. CASE d.action = "CHANGE_ROUTE"
      <4>1. PICK k \in DOMAIN p.routes : p.routes[k].id = id /\ p.routes[k].usable
        BY <1>1, <2>1, <3>1 DEF SelectedWell
      <4>2. PICK i \in DOMAIN s.routes : p.routes[k].id = s.routes[i].id
        BY DEF Packed, RankingOf, RankedAs
      <4>3. TwinOf(p.routes[k], q, s, s.routes[i])
        BY <4>2, Twins
      <4> QED BY <4>1, <4>3, Zenon DEF TwinOf
    <3>2. CASE d.action # "CHANGE_ROUTE"
      BY <1>1, <2>1, <3>2 DEF SelectedWell
    <3> QED BY <3>1, <3>2
  <2>4. PICK i \in DOMAIN s.routes : p.routes[k].id = s.routes[i].id
    BY DEF Packed, RankingOf, RankedAs
  <2>5. TwinOf(p.routes[k], q, s, s.routes[i])
    BY <2>4, Twins
  <2>6. HitsOn(q, s, route) = HitsOn(q, s, s.routes[i])
    <3>1. p.routes[l].id = s.routes[i].id
      BY <2>2, <2>3, <2>4
    <3>2. TwinOf(p.routes[l], q, s, s.routes[i])
      BY <3>1, Twins
    <3> QED BY <2>2, <3>2, Zenon DEF TwinOf
  <2>7. \A e \in HitsOn(q, s, route) : ~e.closure
    BY <2>3, <2>5, <2>6, Zenon DEF TwinOf
  <2>8. ASSUME r.action = "NORMAL", NEW e \in s.alerts, e.severity >= SEVERE, e \in HitsOn(q, s, route)
        PROVE  FALSE
    <3>1. PICK a \in p.assessments : \E j \in DOMAIN s.routes :
            AssessedAs(a, s, s.routes[j]) /\ s.routes[j].id = id /\ a.level \in {"LOW", "MEDIUM"}
      BY <1>1, <2>1, <2>8 DEF SelectedWell, ResponseFrom
    <3>2. PICK j \in DOMAIN s.routes :
            AssessedAs(a, s, s.routes[j]) /\ s.routes[j].id = id /\ a.level \in {"LOW", "MEDIUM"}
      BY <3>1
    <3>3. HitsOn(q, s, s.routes[j]) = HitsOn(q, s, s.routes[i])
      <4>1. s.routes[j].path = s.routes[i].path
        BY <2>3, <2>4, <3>2, Zenon DEF Exposed, OneRoad
      <4> QED BY <4>1, Zenon DEF HitsOn
    <3>4. s.routes[j].exposure.events = {x.id : x \in HitsOn(q, s, s.routes[j])}
      BY Zenon DEF Exposed
    <3>5. e.id \in s.routes[j].exposure.events
      BY <2>6, <2>8, <3>3, <3>4
    <3>6. e \in AlertsOn(s, s.routes[j])
      BY <3>5 DEF AlertsOn
    <3>7. a.level = "HIGH"
      BY <2>8, <3>2, <3>6 DEF AssessedAs
    <3> QED BY <3>2, <3>7
  <2> QED BY <2>7, <2>8
<1>4. r.level = "LOW" => ~Insufficient(s.features)
  BY <1>1 DEF SelectedWell, ResponseFrom
<1> QED BY <1>3, <1>4 DEF Heeds

=============================================================================
