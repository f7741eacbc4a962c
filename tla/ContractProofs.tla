--------------------------- MODULE ContractProofs ---------------------------
(***************************************************************************)
(* What each service of the pipeline returns fits the contract of the next *)
(* one, for any well-formed request, context, model, index and directory;  *)
(* and a report that no other is taken for is never lost or changed.       *)
(*                                                                         *)
(* A fold of the community modules is a CHOOSE of a function on sets of    *)
(* positions.  FoldExists shows that there is one, FoldRuns that its values*)
(* are those of a run through the sequence, and UpTo is the induction (by  *)
(* a least counterexample) that the properties of a run follow from.       *)
(***************************************************************************)
EXTENDS PipelineProofs, SequenceTheorems

-----------------------------------------------------------------------------
(* Folds, and runs through a sequence.                                     *)

\* A set of positions that is closed under the next one has all of them.
LEMMA UpTo ==
  ASSUME NEW n \in Nat, NEW S, 0 \in S, \A k \in 1 .. n : k - 1 \in S => k \in S
  PROVE  \A k \in 0 .. n : k \in S
<1> DEFINE bad == {k \in 0 .. n : k \notin S}
<1>1. ASSUME bad # {}
      PROVE  FALSE
  <2>1. PICK k \in bad : \A j \in bad : k <= j
    <3>1. bad \subseteq Nat
      OBVIOUS
    <3> HIDE DEF bad
    <3> QED BY <1>1, <3>1, LeastNat
  <2>2. k \in 1 .. n /\ k - 1 \in 0 .. n
    OBVIOUS
  <2>3. k - 1 \in S
    BY <2>1, <2>2
  <2> QED BY <2>1, <2>2, <2>3
<1> QED BY <1>1

LEMMA MaxIs ==
  ASSUME NEW t \in SUBSET Int, NEW k \in t, \A x \in t : k >= x
  PROVE  Max(t) = k
<1>1. Max(t) \in t /\ \A x \in t : Max(t) >= x
  BY Zenon DEF Max
<1>2. Max(t) \in Int /\ k \in Int
  BY <1>1
<1>3. Max(t) >= k /\ k >= Max(t)
  BY <1>1
<1> QED BY <1>2, <1>3

\* The positions up to k, of which k is the last.
LEMMA Prefix ==
  ASSUME NEW k \in Nat \ {0}
  PROVE  1 .. k # {} /\ Max(1 .. k) = k /\ (1 .. k) \ {k} = 1 .. (k - 1)
<1>1. 1 .. k \in SUBSET Int /\ k \in 1 .. k /\ \A x \in 1 .. k : k >= x
  OBVIOUS
<1>2. Max(1 .. k) = k
  BY <1>1, MaxIs, Zenon
<1> QED BY <1>1, <1>2

\* A fold of the first positions ends with its step at the last.
Step(g, t, base, step, s) == IF t = {} THEN base ELSE step[<<g[t \ {Max(t)}], s[Max(t)]>>]

IsFold(g, n, base, step, s) == \A t \in SUBSET (1 .. n) : g[t] = Step(g, t, base, step, s)

\* Whatever the step, there is a function that makes it on all sets of positions.
LEMMA FoldExists ==
  ASSUME NEW T, NEW E, NEW n \in Nat, NEW s \in [1 .. n -> E], NEW base \in T,
         NEW step \in [T \X E -> T]
  PROVE  \E g \in [SUBSET (1 .. n) -> T] : IsFold(g, n, base, step, s)
<1> DEFINE S == {k \in 0 .. n : \E g \in [SUBSET (1 .. k) -> T] : IsFold(g, k, base, step, s)}
<1>1. 0 \in S
  <2> DEFINE g == [t \in SUBSET (1 .. 0) |-> base]
  <2>1. 1 .. 0 = {}
    OBVIOUS
  <2>2. g \in [SUBSET (1 .. 0) -> T]
    OBVIOUS
  <2>3. IsFold(g, 0, base, step, s)
    BY <2>1 DEF Step, IsFold
  <2>4. 0 \in 0 .. n
    OBVIOUS
  <2> HIDE DEF g
  <2> QED BY <2>2, <2>3, <2>4
<1>2. ASSUME NEW k \in 1 .. n, k - 1 \in S
      PROVE  k \in S
  <2>0. PICK g \in [SUBSET (1 .. (k - 1)) -> T] : IsFold(g, k - 1, base, step, s)
    BY <1>2
  <2>1. \A t \in SUBSET (1 .. (k - 1)) : g[t] = Step(g, t, base, step, s)
    BY <2>0 DEF IsFold
  <2> DEFINE h == [t \in SUBSET (1 .. k) |->
                     IF k \in t THEN step[<<g[t \ {k}], s[k]>>] ELSE g[t]]
  <2>2. ASSUME NEW t \in SUBSET (1 .. k), k \in t
        PROVE  /\ t \ {k} \in SUBSET (1 .. (k - 1)) /\ Max(t) = k /\ t # {}
               /\ h[t] = step[<<h[t \ {Max(t)}], s[Max(t)]>>] /\ h[t] \in T
    <3>1. t \ {k} \in SUBSET (1 .. (k - 1))
      BY <2>2
    <3>2. Max(t) = k
      <4>1. t \in SUBSET Int /\ \A x \in t : k >= x
        OBVIOUS
      <4> QED BY <2>2, <4>1, MaxIs, Zenon
    <3>3. h[t \ {k}] = g[t \ {k}] /\ h[t] = step[<<g[t \ {k}], s[k]>>]
      BY <2>2
    <3>4. g[t \ {k}] \in T /\ s[k] \in E
      BY <3>1
    <3> HIDE DEF h
    <3> QED BY <2>2, <3>1, <3>2, <3>3, <3>4
  <2>3. ASSUME NEW t \in SUBSET (1 .. k), k \notin t
        PROVE  h[t] = Step(h, t, base, step, s) /\ h[t] \in T
    <3>1. t \in SUBSET (1 .. (k - 1))
      BY <2>3
    <3>2. h[t] = g[t] /\ g[t] \in T
      BY <2>3, <3>1
    <3>3. h[t \ {Max(t)}] = g[t \ {Max(t)}]
      BY <2>3, <3>1
    <3> HIDE DEF h
    <3> QED BY <2>1, <3>1, <3>2, <3>3 DEF Step
  <2>4. h \in [SUBSET (1 .. k) -> T]
    <3>1. \A t \in SUBSET (1 .. k) : h[t] \in T
      BY <2>2, <2>3, Zenon
    <3>2. h = [t \in SUBSET (1 .. k) |-> h[t]]
      OBVIOUS
    <3> HIDE DEF h
    <3> QED BY <3>1, <3>2
  <2>5. IsFold(h, k, base, step, s)
    <3> HIDE DEF h
    <3> QED BY <2>2, <2>3 DEF Step, IsFold
  <2> HIDE DEF h
  <2>6. k \in 0 .. n
    OBVIOUS
  <2> QED BY <2>4, <2>5, <2>6
<1>3. n \in S
  <2> HIDE DEF S
  <2>1. \A k \in 0 .. n : k \in S
    BY <1>1, <1>2, UpTo
  <2> QED BY <2>1
<1> QED BY <1>3

\* The last of some positions is one of them.
LEMMA LastPosition ==
  ASSUME NEW n \in Nat, NEW t \in SUBSET (1 .. n), t # {}
  PROVE  Max(t) \in t
<1> DEFINE far == {n - x : x \in t}
<1>1. far \subseteq Nat /\ far # {}
  <2>1. \A x \in t : n - x \in Nat
    OBVIOUS
  <2>2. PICK x : x \in t
    OBVIOUS
  <2>3. n - x \in far
    BY <2>2
  <2> QED BY <2>1, <2>3
<1>2. PICK m \in far : \A j \in far : m <= j
  <2> HIDE DEF far
  <2> QED BY <1>1, LeastNat
<1>3. PICK x \in t : m = n - x
  OBVIOUS
<1>4. \A y \in t : x >= y
  <2>1. ASSUME NEW y \in t
        PROVE  x >= y
    <3>1. n - y \in far
      OBVIOUS
    <3>2. n - x <= n - y
      BY <1>2, <1>3, <3>1
    <3> QED BY <3>2
  <2> QED BY <2>1
<1>5. t \in SUBSET Int
  OBVIOUS
<1>6. Max(t) = x
  BY <1>4, <1>5, MaxIs, Zenon
<1> QED BY <1>6

\* The values of a fold after each position.
IsRun(run, n, base, step, s) ==
  run[0] = base /\ \A k \in 1 .. n : run[k] = step[<<run[k - 1], s[k]>>]

\* A function on the sets of positions that makes the steps of a fold.
Folds(g, T, E, n, base, step, s) ==
  /\ n \in Nat /\ s \in [1 .. n -> E] /\ base \in T /\ step \in [T \X E -> T]
  /\ \A t \in SUBSET (1 .. n) :
       /\ t = {} => g[t] = base
       /\ t # {} /\ g[t \ {Max(t)}] \in T => g[t] = step[<<g[t \ {Max(t)}], s[Max(t)]>>]

\* What a fold computes is the last value of a run, which makes one step per position.
LEMMA FoldRuns ==
  ASSUME NEW T, NEW E, NEW n, NEW s, NEW base, NEW step, NEW g, Folds(g, T, E, n, base, step, s)
  PROVE  \E run \in [0 .. n -> T] : IsRun(run, n, base, step, s) /\ run[n] = g[1 .. n]
<1> DEFINE run == [k \in 0 .. n |-> g[1 .. k]]
<1>0. /\ n \in Nat /\ s \in [1 .. n -> E] /\ base \in T /\ step \in [T \X E -> T]
      /\ n \in 0 .. n
  BY DEF Folds
<1>1. run[0] = base
  <2>1. 1 .. 0 = {} /\ 1 .. 0 \in SUBSET (1 .. n) /\ 0 \in 0 .. n
    BY <1>0
  <2>2. g[{}] = base
    BY <2>1, Zenon DEF Folds
  <2>3. run[0] = g[1 .. 0]
    BY <2>1
  <2> HIDE DEF run
  <2> QED BY <2>1, <2>2, <2>3
<1>2. ASSUME NEW k \in 1 .. n, run[k - 1] \in T
      PROVE  run[k] = step[<<run[k - 1], s[k]>>] /\ run[k] \in T
  <2>1. k \in Nat \ {0} /\ k \in 0 .. n /\ k - 1 \in 0 .. n
    BY <1>0
  <2>2. 1 .. k # {} /\ Max(1 .. k) = k /\ (1 .. k) \ {k} = 1 .. (k - 1)
    BY <2>1, Prefix, Zenon
  <2>3. 1 .. k \in SUBSET (1 .. n)
    BY <1>0
  <2>4. run[k] = g[1 .. k] /\ run[k - 1] = g[1 .. (k - 1)]
    BY <2>1
  <2>5. g[1 .. k] = step[<<g[1 .. (k - 1)], s[k]>>]
    BY <1>2, <2>2, <2>3, <2>4 DEF Folds
  <2>6. <<run[k - 1], s[k]>> \in T \X E
    BY <1>0, <1>2
  <2> HIDE DEF run
  <2> QED BY <1>0, <2>4, <2>5, <2>6
<1>3. run = [k \in 0 .. n |-> run[k]] /\ run[n] = g[1 .. n]
  BY <1>0
<1> HIDE DEF run
<1>4. \A k \in 0 .. n : run[k] \in T
  <2> DEFINE S == {k \in 0 .. n : run[k] \in T}
  <2>1. 0 \in S
    BY <1>0, <1>1
  <2>2. ASSUME NEW k \in 1 .. n, k - 1 \in S
        PROVE  k \in S
    <3>1. run[k] \in T
      BY <1>2, <2>2
    <3>2. k \in 0 .. n
      BY <1>0
    <3> QED BY <3>1, <3>2
  <2> HIDE DEF S
  <2>3. \A k \in 0 .. n : k \in S
    BY <1>0, <2>1, <2>2, UpTo
  <2> QED BY <2>3 DEF S
<1>5. \A k \in 1 .. n : k - 1 \in 0 .. n
  BY <1>0
<1> QED BY <1>1, <1>2, <1>3, <1>4, <1>5 DEF IsRun

\* There is a run of every step through every sequence.
LEMMA RunExists ==
  ASSUME NEW T, NEW E, NEW n \in Nat, NEW s \in [1 .. n -> E], NEW base \in T,
         NEW step \in [T \X E -> T]
  PROVE  \E run \in [0 .. n -> T] : IsRun(run, n, base, step, s)
<1>1. PICK g \in [SUBSET (1 .. n) -> T] : IsFold(g, n, base, step, s)
  BY FoldExists
<1>2. Folds(g, T, E, n, base, step, s)
  BY <1>1 DEF Folds, IsFold, Step
<1> QED BY <1>2, FoldRuns

\* The sum of the numbers of a sequence, one position after the other.
LEMMA SumRuns ==
  ASSUME NEW n \in Nat, NEW s \in [1 .. n -> Nat]
  PROVE  \E run \in [0 .. n -> Nat] :
           run[0] = 0 /\ (\A k \in 1 .. n : run[k] = run[k - 1] + s[k]) /\ Sum(s) = run[n]
<1> DEFINE step == [p \in Nat \X Nat |-> p[1] + p[2]]
           Body(g) == g = [t \in SUBSET (1 .. n) |->
                             IF t = {} THEN 0 ELSE g[t \ {Max(t)}] + s[Max(t)]]
<1>1. step \in [Nat \X Nat -> Nat] /\ \A x, y \in Nat : step[<<x, y>>] = x + y
  OBVIOUS
<1> HIDE DEF step
<1>2. PICK f \in [SUBSET (1 .. n) -> Nat] : IsFold(f, n, 0, step, s)
  BY <1>1, FoldExists
<1>3. ASSUME NEW t \in SUBSET (1 .. n), t # {}
      PROVE  s[Max(t)] \in Nat /\ t \ {Max(t)} \in SUBSET (1 .. n)
  BY <1>3, LastPosition
<1>4. Body(f)
  <2>1. ASSUME NEW t \in SUBSET (1 .. n)
        PROVE  f[t] = IF t = {} THEN 0 ELSE f[t \ {Max(t)}] + s[Max(t)]
    BY <1>1, <1>2, <1>3 DEF IsFold, Step
  <2> QED BY <2>1
<1>5. PICK g : g = CHOOSE h : Body(h)
  OBVIOUS
<1>6. Body(g)
  BY <1>4, <1>5
<1>7. Sum(s) = g[1 .. n]
  BY <1>5 DEF Sum, FoldLeft, MapThenFoldSet
<1>8. Folds(g, Nat, Nat, n, 0, step, s)
  <2>1. ASSUME NEW t \in SUBSET (1 .. n)
        PROVE  g[t] = IF t = {} THEN 0 ELSE g[t \ {Max(t)}] + s[Max(t)]
    BY <1>6
  <2> HIDE DEF Body
  <2>2. ASSUME NEW t \in SUBSET (1 .. n), t # {}, g[t \ {Max(t)}] \in Nat
        PROVE  g[t] = step[<<g[t \ {Max(t)}], s[Max(t)]>>]
    BY <1>1, <1>3, <2>1, <2>2
  <2> QED BY <1>1, <2>1, <2>2 DEF Folds
<1>9. PICK run \in [0 .. n -> Nat] : IsRun(run, n, 0, step, s) /\ run[n] = g[1 .. n]
  <2>1. PICK T : T = Nat
    OBVIOUS
  <2>2. PICK base : base = 0
    OBVIOUS
  <2>3. Folds(g, T, T, n, base, step, s)
    BY <1>8, <2>1, <2>2
  <2>4. \E run \in [0 .. n -> T] : IsRun(run, n, base, step, s) /\ run[n] = g[1 .. n]
    BY <2>3, FoldRuns
  <2> QED BY <2>1, <2>2, <2>4
<1>10. ASSUME NEW k \in 1 .. n
       PROVE  run[k] = run[k - 1] + s[k]
  <2>1. run[k - 1] \in Nat /\ s[k] \in Nat
    OBVIOUS
  <2> QED BY <1>1, <1>9, <2>1 DEF IsRun
<1>11. run[0] = 0
  BY <1>9 DEF IsRun
<1> QED BY <1>7, <1>9, <1>10, <1>11

\* A sum is bounded by the number of summands times their bound.
LEMMA SumBounded ==
  ASSUME NEW n \in Nat, NEW m \in Nat, NEW s \in [1 .. n -> 0 .. m]
  PROVE  Sum(s) \in Nat /\ Sum(s) <= n * m
<1>1. s \in [1 .. n -> Nat] /\ \A k \in 1 .. n : s[k] <= m
  OBVIOUS
<1>2. PICK run \in [0 .. n -> Nat] :
         run[0] = 0 /\ (\A k \in 1 .. n : run[k] = run[k - 1] + s[k]) /\ Sum(s) = run[n]
  BY <1>1, SumRuns
<1> DEFINE S == {k \in 0 .. n : run[k] <= k * m}
<1>3. 0 \in S
  BY <1>2
<1>4. ASSUME NEW k \in 1 .. n, k - 1 \in S
      PROVE  k \in S
  <2>1. run[k - 1] \in Nat /\ run[k - 1] <= (k - 1) * m /\ k \in 0 .. n
    BY <1>4
  <2>2. run[k] = run[k - 1] + s[k] /\ s[k] \in Nat /\ s[k] <= m
    BY <1>1, <1>2
  <2>3. (k - 1) * m + m = k * m
    OBVIOUS
  <2>4. run[k] <= k * m
    BY <2>1, <2>2, <2>3
  <2> QED BY <2>1, <2>4
<1> HIDE DEF S
<1>5. \A k \in 0 .. n : k \in S
  BY <1>3, <1>4, UpTo
<1>6. n \in 0 .. n
  OBVIOUS
<1> QED BY <1>2, <1>5, <1>6 DEF S

LEMMA Quotient ==
  ASSUME NEW a \in Nat, NEW n \in Nat \ {0}, NEW m \in Nat, a <= n * m
  PROVE  a \div n \in 0 .. m
<1>1. a \div n \in Nat /\ n * (a \div n) <= a
  OBVIOUS
<1>2. PICK k \in Nat : k = a \div n
  BY <1>1
<1>3. ASSUME k > m
      PROVE  FALSE
  <2>1. k >= m + 1
    BY <1>3
  <2>2. n * k >= n * (m + 1)
    BY <2>1
  <2>3. n * (m + 1) = n * m + n
    OBVIOUS
  <2> QED BY <1>1, <1>2, <2>2, <2>3
<1> QED BY <1>2, <1>3

\* A mean is between none and the bound of what it is a mean of.
LEMMA MeanBounded ==
  ASSUME NEW n \in Nat \ {0}, NEW m \in Nat, NEW s \in [1 .. n -> 0 .. m]
  PROVE  Mean(s) \in 0 .. m
<1>1. Sum(s) \in Nat /\ Sum(s) <= n * m
  BY SumBounded
<1>2. Len(s) = n
  OBVIOUS
<1>3. Sum(s) \div n \in 0 .. m
  BY <1>1, Quotient
<1> QED BY <1>2, <1>3 DEF Mean

-----------------------------------------------------------------------------
(* Sequences.                                                              *)

\* Two sequences, one after the other, have the records of both.
LEMMA OneAfterTheOther ==
  ASSUME NEW T, NEW s \in Seq(T), NEW t \in Seq(T)
  PROVE  s \o t \in Seq(T) /\ Range(s \o t) = Range(s) \cup Range(t)
<1>1. /\ s \o t \in Seq(T) /\ Len(s \o t) = Len(s) + Len(t)
      /\ \A i \in 1 .. Len(s) + Len(t) : (s \o t)[i] = IF i <= Len(s) THEN s[i] ELSE t[i - Len(s)]
  BY ConcatProperties
<1>2. PICK a \in Nat : a = Len(s) /\ DOMAIN s = 1 .. a
  OBVIOUS
<1>3. PICK b \in Nat : b = Len(t) /\ DOMAIN t = 1 .. b
  OBVIOUS
<1>4. DOMAIN (s \o t) = 1 .. a + b
  BY <1>1, <1>2, <1>3
<1>5. ASSUME NEW x \in Range(s \o t)
      PROVE  x \in Range(s) \cup Range(t)
  <2>1. PICK i \in 1 .. a + b : x = (s \o t)[i]
    BY <1>4 DEF Range
  <2>2. CASE i <= a
    BY <1>1, <1>2, <1>3, <2>1, <2>2 DEF Range
  <2>3. CASE ~(i <= a)
    <3>1. i - a \in 1 .. b /\ x = t[i - a]
      BY <1>1, <1>2, <1>3, <2>1, <2>3
    <3> QED BY <1>3, <3>1 DEF Range
  <2> QED BY <2>2, <2>3
<1>6. ASSUME NEW x \in Range(s)
      PROVE  x \in Range(s \o t)
  <2>1. PICK i \in 1 .. a : x = s[i]
    BY <1>2 DEF Range
  <2>2. i \in 1 .. a + b /\ x = (s \o t)[i]
    BY <1>1, <1>2, <1>3, <2>1
  <2> QED BY <1>4, <2>2 DEF Range
<1>7. ASSUME NEW x \in Range(t)
      PROVE  x \in Range(s \o t)
  <2>1. PICK i \in 1 .. b : x = t[i]
    BY <1>3 DEF Range
  <2>2. a + i \in 1 .. a + b /\ ~(a + i <= a) /\ a + i - a = i
    OBVIOUS
  <2>3. x = (s \o t)[a + i]
    BY <1>1, <1>2, <1>3, <2>1, <2>2
  <2> QED BY <1>4, <2>2, <2>3 DEF Range
<1> QED BY <1>1, <1>5, <1>6, <1>7

LEMMA OneMore ==
  ASSUME NEW T, NEW s \in Seq(T), NEW x \in T
  PROVE  Append(s, x) \in Seq(T) /\ Range(Append(s, x)) = Range(s) \cup {x}
<1>1. PICK t : t = <<x>>
  OBVIOUS
<1>2. t \in Seq(T) /\ Range(t) = {x}
  BY <1>1 DEF Range
<1>3. Append(s, x) = s \o t
  BY <1>1, AppendIsConcat
<1>4. s \o t \in Seq(T) /\ Range(s \o t) = Range(s) \cup Range(t)
  BY <1>2, OneAfterTheOther
<1> QED BY <1>2, <1>3, <1>4

\* A sequence of sequences, one after the other.
LEMMA Flattened ==
  ASSUME NEW T, NEW n \in Nat, NEW s \in [1 .. n -> Seq(T)]
  PROVE  /\ FlattenSeq(s) \in Seq(T)
         /\ Range(FlattenSeq(s)) = UNION {Range(s[i]) : i \in 1 .. n}
<1>0. Len(s) = n
  OBVIOUS
<1>1. CASE n = 0
  <2>1. FlattenSeq(s) = s /\ s = <<>>
    BY <1>0, <1>1 DEF FlattenSeq
  <2>2. Range(<<>>) = {} /\ 1 .. n = {}
    BY <1>1 DEF Range
  <2> QED BY <2>1, <2>2
<1>2. CASE n # 0
  <2> DEFINE step == [p \in Seq(T) \X Seq(T) |-> p[1] \o p[2]]
             Body(g) == g = [i \in 1 .. n |-> IF i = 1 THEN s[i] ELSE g[i - 1] \o s[i]]
  <2>1. step \in [Seq(T) \X Seq(T) -> Seq(T)] /\ \A u, v \in Seq(T) : step[<<u, v>>] = u \o v
    BY OneAfterTheOther
  <2> HIDE DEF step
  <2>2. PICK run \in [0 .. n -> Seq(T)] : IsRun(run, n, <<>>, step, s)
    <3>1. <<>> \in Seq(T)
      OBVIOUS
    <3> QED BY <2>1, <3>1, RunExists
  <2> DEFINE f == [i \in 1 .. n |-> run[i]]
  <2>3. ASSUME NEW i \in 1 .. n
        PROVE  f[i] = IF i = 1 THEN s[i] ELSE f[i - 1] \o s[i]
    <3>1. run[i] = run[i - 1] \o s[i] /\ s[i] \in Seq(T)
      <4>1. run[i - 1] \in Seq(T) /\ s[i] \in Seq(T)
        OBVIOUS
      <4> QED BY <2>1, <2>2, <4>1 DEF IsRun
    <3>2. CASE i = 1
      <4>1. run[i - 1] = <<>>
        BY <2>2, <3>2 DEF IsRun
      <4>2. <<>> \o s[i] = s[i]
        BY <3>1, ConcatEmptySeq
      <4> QED BY <3>1, <3>2, <4>1, <4>2
    <3>3. CASE i # 1
      <4>1. i - 1 \in 1 .. n
        BY <3>3
      <4> QED BY <3>1, <3>3, <4>1
    <3> QED BY <3>2, <3>3
  <2>4. Body(f)
    BY <2>3
  <2> HIDE DEF f
  <2>5. PICK g : g = CHOOSE h : Body(h)
    OBVIOUS
  <2>6. Body(g)
    BY <2>4, <2>5
  <2>7. FlattenSeq(s) = g[n]
    BY <1>0, <1>2, <2>5 DEF FlattenSeq
  <2> DEFINE S == {k \in 0 .. n : k # 0 => /\ g[k] \in Seq(T)
                                        /\ Range(g[k]) = UNION {Range(s[i]) : i \in 1 .. k}}
  <2>8. 0 \in S
    OBVIOUS
  <2>9. ASSUME NEW k \in 1 .. n, k - 1 \in S
        PROVE  k \in S
    <3>1. s[k] \in Seq(T) /\ k \in 0 .. n
      OBVIOUS
    <3>2. CASE k = 1
      <4>1. g[k] = s[k]
        BY <2>6, <3>2
      <4>2. UNION {Range(s[i]) : i \in 1 .. k} = Range(s[k])
        BY <3>2
      <4> QED BY <3>1, <4>1, <4>2
    <3>3. CASE k # 1
      <4>1. g[k] = g[k - 1] \o s[k]
        BY <2>6, <3>3
      <4>2. g[k - 1] \in Seq(T) /\ Range(g[k - 1]) = UNION {Range(s[i]) : i \in 1 .. (k - 1)}
        BY <2>9, <3>3
      <4>3. g[k] \in Seq(T) /\ Range(g[k]) = Range(g[k - 1]) \cup Range(s[k])
        BY <3>1, <4>1, <4>2, OneAfterTheOther
      <4>4. UNION {Range(s[i]) : i \in 1 .. k} = (UNION {Range(s[i]) : i \in 1 .. (k - 1)}) \cup Range(s[k])
        <5>1. \A i \in 1 .. k : i = k \/ i \in 1 .. (k - 1)
          OBVIOUS
        <5>2. \A i \in 1 .. (k - 1) : i \in 1 .. k
          OBVIOUS
        <5>3. k \in 1 .. k
          OBVIOUS
        <5> QED BY <5>1, <5>2, <5>3
      <4> QED BY <3>1, <4>2, <4>3, <4>4
    <3> QED BY <3>2, <3>3
  <2> HIDE DEF S
  <2>10. \A k \in 0 .. n : k \in S
    BY <2>8, <2>9, UpTo
  <2>11. n \in 0 .. n
    OBVIOUS
  <2> QED BY <1>2, <2>7, <2>10, <2>11 DEF S
<1> QED BY <1>1, <1>2

-----------------------------------------------------------------------------
(* The largest of some numbers, and optional ones.                         *)

\* Finitely many numbers have a largest one.
LEMMA LargestExists ==
  ASSUME NEW S, S \in SUBSET Int, IsFiniteSet(S), S # {}
  PROVE  \E x \in S : \A y \in S : y <= x
<1>0. \A y \in S : y \in Int
  OBVIOUS
<1>1. PICK n \in Nat : ExistsBijection(1 .. n, S)
  BY FS_NatBijection
<1>2. PICK f \in [1 .. n -> S] : \A y \in S : \E i \in 1 .. n : f[i] = y
  BY <1>1 DEF ExistsBijection, Bijection, Injection, Surjection, IsInjective
<1> DEFINE U == {k \in 0 .. n : k = 0 \/ \E x \in S : \A i \in 1 .. k : f[i] <= x}
<1>3. 0 \in U
  OBVIOUS
<1>4. ASSUME NEW k \in 1 .. n, k - 1 \in U
      PROVE  k \in U
  <2>0. f[k] \in S /\ k \in 0 .. n
    OBVIOUS
  <2>1. f[k] \in S /\ f[k] \in Int /\ k \in 0 .. n
    BY <1>0, <2>0, Zenon
  <2>2. CASE k = 1
    <3>1. \A i \in 1 .. k : f[i] <= f[k]
      BY <2>1, <2>2
    <3> QED BY <2>1, <3>1
  <2>3. CASE k # 1
    <3>1. PICK x \in S : \A i \in 1 .. (k - 1) : f[i] <= x
      BY <1>4, <2>3
    <3>2. \A i \in 1 .. k : i = k \/ i \in 1 .. (k - 1)
      OBVIOUS
    <3>3. x \in Int /\ \A i \in 1 .. k : f[i] \in Int
      <4>1. \A i \in 1 .. k : i \in 1 .. n
        OBVIOUS
      <4> QED BY <1>0, <4>1
    <3>4. CASE f[k] <= x
      <4>1. \A i \in 1 .. k : f[i] <= x
        BY <3>1, <3>2, <3>4
      <4> QED BY <2>1, <4>1
    <3>5. CASE ~(f[k] <= x)
      <4>1. \A i \in 1 .. k : f[i] <= f[k]
        BY <2>1, <3>1, <3>2, <3>3, <3>5
      <4> QED BY <2>1, <4>1
    <3> QED BY <3>4, <3>5
  <2> QED BY <2>2, <2>3
<1>5. \A k \in 0 .. n : k \in U
  <2> HIDE DEF U
  <2> QED BY <1>3, <1>4, UpTo
<1>6. n # 0
  <2>1. PICK y : y \in S
    OBVIOUS
  <2> QED BY <1>2, <2>1
<1>7. PICK x \in S : \A i \in 1 .. n : f[i] <= x
  <2>1. n \in 0 .. n
    OBVIOUS
  <2> QED BY <1>5, <1>6, <2>1
<1> QED BY <1>2, <1>7

LEMMA LargestOf ==
  ASSUME NEW S, S \in SUBSET Int, IsFiniteSet(S), NEW default
  PROVE  /\ S = {} => Largest(S, default) = default
         /\ S # {} => Largest(S, default) \in S /\ \A y \in S : y <= Largest(S, default)
<1>1. S # {} => \E x \in S : \A y \in S : y <= x
  BY LargestExists
<1> QED BY <1>1, Zenon DEF Largest

\* Of bounded numbers, and of none with a bounded default.
LEMMA LargestBounded ==
  ASSUME NEW n \in Nat, NEW S, S \in SUBSET (0 .. n), NEW default \in 0 .. n
  PROVE  Largest(S, default) \in 0 .. n
<1>1. IsFiniteSet(0 .. n)
  BY FS_Interval
<1>2. IsFiniteSet(S)
  BY <1>1, FS_Subset
<1>3. S \in SUBSET Int
  OBVIOUS
<1> QED BY <1>2, <1>3, LargestOf

LEMMA OptionalIs ==
  ASSUME NEW S, NEW o \in Optional(S)
  PROVE  o \in SUBSET S /\ IsFiniteSet(o) /\ (o = {} \/ \E x \in S : o = {x})
<1>1. o \in SUBSET S /\ (o = {} \/ \E x \in S : o = {x})
  BY DEF Optional
<1>2. IsFiniteSet(o)
  BY <1>1, FS_EmptySet, FS_Singleton
<1> QED BY <1>1, <1>2

LEMMA OptionalOne ==
  ASSUME NEW S, NEW x \in S
  PROVE  {x} \in Optional(S) /\ {} \in Optional(S)
BY DEF Optional

-----------------------------------------------------------------------------
(* Reports that are merged.                                                *)

\* The places where an earlier version of an event stands.
VersionOf(e) == IF e.updated # {} THEN e.updated ELSE e.start

Older(seen, e) == {i \in DOMAIN seen : \E t \in VersionOf(e), u \in VersionOf(seen[i]) : t > u}

\* The two folds of UniqueEvents.
WithId(seen, e)      == Versioned(seen, e, Older(seen, e))
WithContent(seen, e) == IF \E i \in DOMAIN seen : seen[i].content = e.content THEN seen ELSE Append(seen, e)

ById(events)      == FoldLeft(LAMBDA seen, e : WithId(seen, e), <<>>, events)
ByContent(events) == FoldLeft(LAMBDA seen, e : WithContent(seen, e), <<>>, events)

LEMMA UniqueIs == \A events : UniqueEvents(events) = ByContent(ById(events))
BY DEF UniqueEvents, ById, ByContent, WithId, WithContent, Older, VersionOf, FoldLeft, MapThenFoldSet

LEMMA WithIdFits ==
  ASSUME NEW E, NEW seen \in Seq(E), NEW e \in E
  PROVE  WithId(seen, e) \in Seq(E)
<1> DEFINE same == {i \in DOMAIN seen : seen[i].id = e.id}
<1>1. PICK n \in Nat : DOMAIN seen = 1 .. n /\ seen \in [1 .. n -> E]
  OBVIOUS
<1>2. CASE same = {}
  BY <1>2, OneMore DEF WithId, Versioned
<1>3. CASE same # {}
  <2>1. WithId(seen, e) = [i \in 1 .. n |-> IF i \in same \cap Older(seen, e) THEN e ELSE seen[i]]
    BY <1>1, <1>3 DEF WithId, Versioned
  <2>2. WithId(seen, e) \in [1 .. n -> E]
    BY <1>1, <2>1
  <2> QED BY <2>2
<1> QED BY <1>2, <1>3

LEMMA WithContentFits ==
  ASSUME NEW E, NEW seen \in Seq(E), NEW e \in E
  PROVE  WithContent(seen, e) \in Seq(E)
BY OneMore DEF WithContent

RunningById(run, n, s) ==
  run[0] = <<>> /\ (\A k \in 1 .. n : run[k] = WithId(run[k - 1], s[k])) /\ ById(s) = run[n]

\* The first fold of UniqueEvents keeps one event of each id at a time.
LEMMA ByIdRuns ==
  ASSUME NEW E, NEW n \in Nat, NEW s \in [1 .. n -> E]
  PROVE  \E run \in [0 .. n -> Seq(E)] : RunningById(run, n, s)
<1> DEFINE step == [p \in Seq(E) \X E |-> WithId(p[1], p[2])]
           Body(g) == g = [t \in SUBSET (1 .. n) |->
                             IF t = {} THEN <<>> ELSE WithId(g[t \ {Max(t)}], s[Max(t)])]
<1>1. step \in [Seq(E) \X E -> Seq(E)] /\ <<>> \in Seq(E)
  <2>1. \A seen \in Seq(E), e \in E : WithId(seen, e) \in Seq(E)
    BY WithIdFits
  <2> QED BY <2>1
<1>2. \A seen \in Seq(E), e \in E : step[<<seen, e>>] = WithId(seen, e)
  OBVIOUS
<1> HIDE DEF step
<1>3. PICK f \in [SUBSET (1 .. n) -> Seq(E)] : IsFold(f, n, <<>>, step, s)
  BY <1>1, FoldExists
<1>4. ASSUME NEW t \in SUBSET (1 .. n), t # {}
      PROVE  s[Max(t)] \in E /\ t \ {Max(t)} \in SUBSET (1 .. n)
  BY <1>4, LastPosition
<1>5. Body(f)
  <2>1. ASSUME NEW t \in SUBSET (1 .. n), t # {}
        PROVE  f[t] = WithId(f[t \ {Max(t)}], s[Max(t)])
    <3>1. f[t \ {Max(t)}] \in Seq(E) /\ s[Max(t)] \in E
      BY <1>4, <2>1
    <3>2. f[t] = step[<<f[t \ {Max(t)}], s[Max(t)]>>]
      BY <1>3, <2>1 DEF IsFold, Step
    <3> QED BY <1>2, <3>1, <3>2
  <2>2. f[{}] = <<>>
    BY <1>3 DEF IsFold, Step
  <2> QED BY <2>1, <2>2
<1>6. PICK g : g = CHOOSE h : Body(h)
  OBVIOUS
<1>7. Body(g)
  BY <1>5, <1>6, Zenon
<1>8. ById(s) = g[1 .. n]
  <2>1. DOMAIN s = 1 .. n
    OBVIOUS
  <2> QED BY <1>6, <2>1 DEF ById, FoldLeft, MapThenFoldSet
<1>9. Folds(g, Seq(E), E, n, <<>>, step, s)
  <2>1. ASSUME NEW t \in SUBSET (1 .. n), t # {}, g[t \ {Max(t)}] \in Seq(E)
        PROVE  g[t] = step[<<g[t \ {Max(t)}], s[Max(t)]>>]
    <3>1. g[t] = WithId(g[t \ {Max(t)}], s[Max(t)])
      BY <1>7, <2>1
    <3>2. s[Max(t)] \in E
      BY <1>4, <2>1
    <3> QED BY <1>2, <2>1, <3>1, <3>2
  <2>2. g[{}] = <<>>
    BY <1>7
  <2> QED BY <1>1, <2>1, <2>2 DEF Folds
<1>10. PICK run \in [0 .. n -> Seq(E)] : IsRun(run, n, <<>>, step, s) /\ run[n] = g[1 .. n]
  <2>1. PICK T : T = Seq(E)
    OBVIOUS
  <2>2. PICK base : base = <<>>
    OBVIOUS
  <2>3. Folds(g, T, E, n, base, step, s)
    BY <1>9, <2>1, <2>2
  <2>4. \E run \in [0 .. n -> T] : IsRun(run, n, base, step, s) /\ run[n] = g[1 .. n]
    BY <2>3, FoldRuns
  <2> QED BY <2>1, <2>2, <2>4
<1>11. ASSUME NEW k \in 1 .. n
       PROVE  run[k] = WithId(run[k - 1], s[k])
  <2>1. run[k - 1] \in Seq(E) /\ s[k] \in E
    OBVIOUS
  <2>2. run[k] = step[<<run[k - 1], s[k]>>]
    BY <1>10 DEF IsRun
  <2> QED BY <1>2, <2>1, <2>2
<1>12. run[0] = <<>>
  BY <1>10 DEF IsRun
<1> QED BY <1>8, <1>10, <1>11, <1>12 DEF RunningById

RunningByContent(run, n, s) ==
  run[0] = <<>> /\ (\A k \in 1 .. n : run[k] = WithContent(run[k - 1], s[k])) /\ ByContent(s) = run[n]

\* The second one drops the events whose content was seen.
LEMMA ByContentRuns ==
  ASSUME NEW E, NEW n \in Nat, NEW s \in [1 .. n -> E]
  PROVE  \E run \in [0 .. n -> Seq(E)] : RunningByContent(run, n, s)
<1> DEFINE step == [p \in Seq(E) \X E |-> WithContent(p[1], p[2])]
           Body(g) == g = [t \in SUBSET (1 .. n) |->
                             IF t = {} THEN <<>> ELSE WithContent(g[t \ {Max(t)}], s[Max(t)])]
<1>1. step \in [Seq(E) \X E -> Seq(E)] /\ <<>> \in Seq(E)
  <2>1. \A seen \in Seq(E), e \in E : WithContent(seen, e) \in Seq(E)
    BY WithContentFits
  <2> QED BY <2>1
<1>2. \A seen \in Seq(E), e \in E : step[<<seen, e>>] = WithContent(seen, e)
  OBVIOUS
<1> HIDE DEF step
<1>3. PICK f \in [SUBSET (1 .. n) -> Seq(E)] : IsFold(f, n, <<>>, step, s)
  BY <1>1, FoldExists
<1>4. ASSUME NEW t \in SUBSET (1 .. n), t # {}
      PROVE  s[Max(t)] \in E /\ t \ {Max(t)} \in SUBSET (1 .. n)
  BY <1>4, LastPosition
<1>5. Body(f)
  <2>1. ASSUME NEW t \in SUBSET (1 .. n), t # {}
        PROVE  f[t] = WithContent(f[t \ {Max(t)}], s[Max(t)])
    <3>1. f[t \ {Max(t)}] \in Seq(E) /\ s[Max(t)] \in E
      BY <1>4, <2>1
    <3>2. f[t] = step[<<f[t \ {Max(t)}], s[Max(t)]>>]
      BY <1>3, <2>1 DEF IsFold, Step
    <3> QED BY <1>2, <3>1, <3>2
  <2>2. f[{}] = <<>>
    BY <1>3 DEF IsFold, Step
  <2> QED BY <2>1, <2>2
<1>6. PICK g : g = CHOOSE h : Body(h)
  OBVIOUS
<1>7. Body(g)
  BY <1>5, <1>6, Zenon
<1>8. ByContent(s) = g[1 .. n]
  <2>1. DOMAIN s = 1 .. n
    OBVIOUS
  <2> QED BY <1>6, <2>1 DEF ByContent, FoldLeft, MapThenFoldSet
<1>9. Folds(g, Seq(E), E, n, <<>>, step, s)
  <2>1. ASSUME NEW t \in SUBSET (1 .. n), t # {}, g[t \ {Max(t)}] \in Seq(E)
        PROVE  g[t] = step[<<g[t \ {Max(t)}], s[Max(t)]>>]
    <3>1. g[t] = WithContent(g[t \ {Max(t)}], s[Max(t)])
      BY <1>7, <2>1
    <3>2. s[Max(t)] \in E
      BY <1>4, <2>1
    <3> QED BY <1>2, <2>1, <3>1, <3>2
  <2>2. g[{}] = <<>>
    BY <1>7
  <2> QED BY <1>1, <2>1, <2>2 DEF Folds
<1>10. PICK run \in [0 .. n -> Seq(E)] : IsRun(run, n, <<>>, step, s) /\ run[n] = g[1 .. n]
  <2>1. PICK T : T = Seq(E)
    OBVIOUS
  <2>2. PICK base : base = <<>>
    OBVIOUS
  <2>3. Folds(g, T, E, n, base, step, s)
    BY <1>9, <2>1, <2>2
  <2>4. \E run \in [0 .. n -> T] : IsRun(run, n, base, step, s) /\ run[n] = g[1 .. n]
    BY <2>3, FoldRuns
  <2> QED BY <2>1, <2>2, <2>4
<1>11. ASSUME NEW k \in 1 .. n
       PROVE  run[k] = WithContent(run[k - 1], s[k])
  <2>1. run[k - 1] \in Seq(E) /\ s[k] \in E
    OBVIOUS
  <2>2. run[k] = step[<<run[k - 1], s[k]>>]
    BY <1>10 DEF IsRun
  <2> QED BY <1>2, <2>1, <2>2
<1>12. run[0] = <<>>
  BY <1>10 DEF IsRun
<1> QED BY <1>8, <1>10, <1>11, <1>12 DEF RunningByContent

\* What is left when the copies are dropped are events of those that were reported.
LEMMA UniqueEventsFit ==
  ASSUME NEW E, NEW events \in Seq(E)
  PROVE  UniqueEvents(events) \in Seq(E)
<1>1. PICK n \in Nat : events \in [1 .. n -> E]
  OBVIOUS
<1>2. ById(events) \in Seq(E)
  <2>1. PICK run \in [0 .. n -> Seq(E)] : RunningById(run, n, events)
    BY <1>1, ByIdRuns
  <2>2. n \in 0 .. n
    OBVIOUS
  <2> QED BY <2>1, <2>2 DEF RunningById
<1>3. PICK byId : byId = ById(events)
  OBVIOUS
<1>4. PICK m \in Nat : byId \in [1 .. m -> E]
  BY <1>2, <1>3
<1>5. PICK run \in [0 .. m -> Seq(E)] : RunningByContent(run, m, byId)
  BY <1>4, ByContentRuns
<1>6. m \in 0 .. m
  OBVIOUS
<1> QED BY <1>3, <1>5, <1>6, UniqueIs DEF RunningByContent

\* An event whose id and content no other has.
Unique(e, E) == e \in E /\ \A f \in E : f # e => f.id # e.id /\ f.content # e.content

LEMMA WithIdKeeps ==
  ASSUME NEW E, NEW seen \in Seq(E), NEW x \in E, NEW e, Unique(e, E), e \in Range(seen) \/ x = e
  PROVE  e \in Range(WithId(seen, x))
<1> DEFINE same == {i \in DOMAIN seen : seen[i].id = x.id}
<1>1. PICK n \in Nat : DOMAIN seen = 1 .. n /\ seen \in [1 .. n -> E]
  OBVIOUS
<1>2. CASE same = {}
  <2>1. WithId(seen, x) = Append(seen, x)
    BY <1>2 DEF WithId, Versioned
  <2> QED BY <2>1, OneMore
<1>3. CASE same # {}
  <2>1. WithId(seen, x) = [i \in 1 .. n |-> IF i \in same \cap Older(seen, x) THEN x ELSE seen[i]]
    BY <1>1, <1>3 DEF WithId, Versioned
  <2>2. CASE x = e
    <3>1. PICK i \in same : TRUE
      BY <1>3
    <3>2. i \in 1 .. n /\ seen[i] = e
      BY <1>1, <2>2, <3>1 DEF Unique
    <3>3. WithId(seen, x)[i] = e /\ i \in DOMAIN WithId(seen, x)
      BY <2>1, <2>2, <3>2
    <3> QED BY <3>3 DEF Range
  <2>3. CASE x # e
    <3>1. PICK i \in 1 .. n : seen[i] = e
      BY <1>1, <2>3 DEF Range
    <3>2. i \notin same
      BY <2>3, <3>1 DEF Unique
    <3>3. WithId(seen, x)[i] = e /\ i \in DOMAIN WithId(seen, x)
      BY <2>1, <3>1, <3>2
    <3> QED BY <3>3 DEF Range
  <2> QED BY <2>2, <2>3
<1> QED BY <1>2, <1>3

LEMMA WithContentKeeps ==
  ASSUME NEW E, NEW seen \in Seq(E), NEW x \in E, NEW e, Unique(e, E), e \in Range(seen) \/ x = e
  PROVE  e \in Range(WithContent(seen, x))
<1>1. CASE e \in Range(seen)
  BY <1>1, OneMore DEF WithContent
<1>2. CASE x = e
  <2>1. ASSUME NEW i \in DOMAIN seen, seen[i].content = x.content
        PROVE  e \in Range(seen)
    <3>1. seen[i] = e
      BY <1>2, <2>1 DEF Unique
    <3> QED BY <3>1 DEF Range
  <2> QED BY <1>2, <2>1, OneMore DEF WithContent
<1> QED BY <1>1, <1>2

\* An event whose id and content are its own survives the dropping of copies.
LEMMA UniqueEventsKeep ==
  ASSUME NEW E, NEW events \in Seq(E), NEW e, Unique(e, E), e \in Range(events)
  PROVE  e \in Range(UniqueEvents(events))
<1>1. PICK n \in Nat : events \in [1 .. n -> E]
  OBVIOUS
<1>2. PICK run \in [0 .. n -> Seq(E)] : RunningById(run, n, events)
  BY <1>1, ByIdRuns
<1>3. PICK p \in 1 .. n : events[p] = e
  BY <1>1 DEF Range
<1> DEFINE S == {k \in 0 .. n : k >= p => e \in Range(run[k])}
<1>4. 0 \in S
  OBVIOUS
<1>5. ASSUME NEW k \in 1 .. n, k - 1 \in S
      PROVE  k \in S
  <2>1. k \in 0 .. n /\ run[k - 1] \in Seq(E) /\ events[k] \in E
    BY <1>1
  <2>2. k >= p => e \in Range(run[k - 1]) \/ events[k] = e
    BY <1>3, <1>5
  <2>3. k >= p => e \in Range(run[k])
    BY <1>2, <2>1, <2>2, WithIdKeeps DEF RunningById
  <2> QED BY <2>1, <2>3
<1>6. \A k \in 0 .. n : k \in S
  <2> HIDE DEF S
  <2> QED BY <1>4, <1>5, UpTo
<1>7. run[n] \in Seq(E) /\ e \in Range(run[n])
  <2>1. n \in 0 .. n /\ n >= p
    OBVIOUS
  <2> QED BY <1>6, <2>1
<1>8. PICK byId : byId = run[n]
  OBVIOUS
<1>9. PICK m \in Nat : byId \in [1 .. m -> E]
  BY <1>7, <1>8
<1>10. PICK sec \in [0 .. m -> Seq(E)] : RunningByContent(sec, m, byId)
  BY <1>9, ByContentRuns
<1>11. PICK r \in 1 .. m : byId[r] = e
  BY <1>7, <1>8, <1>9 DEF Range
<1> DEFINE U == {k \in 0 .. m : k >= r => e \in Range(sec[k])}
<1>12. 0 \in U
  OBVIOUS
<1>13. ASSUME NEW k \in 1 .. m, k - 1 \in U
       PROVE  k \in U
  <2>1. k \in 0 .. m /\ sec[k - 1] \in Seq(E) /\ byId[k] \in E
    BY <1>9
  <2>2. ASSUME k >= r
        PROVE  e \in Range(sec[k - 1]) \/ byId[k] = e
    <3>1. k = r \/ k - 1 >= r
      BY <2>2
    <3> QED BY <1>11, <1>13, <3>1
  <2>3. k >= r => e \in Range(sec[k])
    BY <1>10, <2>1, <2>2, WithContentKeeps DEF RunningByContent
  <2> QED BY <2>1, <2>3
<1>14. \A k \in 0 .. m : k \in U
  <2> HIDE DEF U
  <2> QED BY <1>12, <1>13, UpTo
<1>15. e \in Range(sec[m])
  <2>1. m \in 0 .. m /\ m >= r
    OBVIOUS
  <2> QED BY <1>14, <2>1
<1> QED BY <1>2, <1>8, <1>10, <1>15, UniqueIs DEF RunningById, RunningByContent

\* Groups of events, none of them empty.
Groups(E) == Seq(E) \ {<<>>}

\* The clusters with one more event.
Near(clusters, e)   == {i \in DOMAIN clusters : Joins(clusters[i], e)}
First(positions)    == CHOOSE i \in positions : \A j \in positions : i <= j
PlaceIn(clusters, e) ==
  IF Near(clusters, e) = {} THEN Append(clusters, <<e>>)
  ELSE [clusters EXCEPT ![First(Near(clusters, e))] = Append(clusters[First(Near(clusters, e))], e)]

LEMMA FirstIs ==
  ASSUME NEW n \in Nat, NEW t \in SUBSET (1 .. n), t # {}
  PROVE  First(t) \in t
<1>1. t \subseteq Nat
  OBVIOUS
<1>2. \E i \in t : \A j \in t : i <= j
  BY <1>1, LeastNat
<1> QED BY <1>2 DEF First

\* An event is placed in one group, or is one of its own.
LEMMA Placed ==
  ASSUME NEW E, NEW clusters \in Seq(Groups(E)), NEW e \in E
  PROVE  /\ PlaceIn(clusters, e) \in Seq(Groups(E))
         /\ Near(clusters, e) = {} => PlaceIn(clusters, e) = Append(clusters, <<e>>)
         /\ Near(clusters, e) # {} =>
              /\ First(Near(clusters, e)) \in Near(clusters, e)
              /\ DOMAIN PlaceIn(clusters, e) = DOMAIN clusters
              /\ PlaceIn(clusters, e)[First(Near(clusters, e))] = Append(clusters[First(Near(clusters, e))], e)
              /\ \A i \in DOMAIN clusters \ {First(Near(clusters, e))} : PlaceIn(clusters, e)[i] = clusters[i]
<1>1. PICK n \in Nat : DOMAIN clusters = 1 .. n /\ clusters \in [1 .. n -> Groups(E)]
  OBVIOUS
<1>2. CASE Near(clusters, e) = {}
  <2>1. <<e>> \in Groups(E)
    BY DEF Groups
  <2>2. PlaceIn(clusters, e) = Append(clusters, <<e>>)
    BY <1>2 DEF PlaceIn
  <2>3. Append(clusters, <<e>>) \in Seq(Groups(E))
    BY <2>1, AppendProperties
  <2> QED BY <1>2, <2>2, <2>3
<1>3. CASE Near(clusters, e) # {}
  <2>1. Near(clusters, e) \in SUBSET (1 .. n)
    BY <1>1 DEF Near
  <2>2. First(Near(clusters, e)) \in Near(clusters, e)
    BY <1>3, <2>1, FirstIs
  <2>3. PICK k \in 1 .. n : k = First(Near(clusters, e))
    BY <2>1, <2>2
  <2>4. clusters[k] \in Seq(E)
    BY <1>1 DEF Groups
  <2>5. PICK x : x = Append(clusters[k], e)
    OBVIOUS
  <2>6. x \in Groups(E)
    <3>1. Append(clusters[k], e) \in Seq(E) /\ Append(clusters[k], e) # <<>>
      BY <2>4, AppendProperties
    <3> QED BY <2>5, <3>1, Zenon DEF Groups
  <2>7. PlaceIn(clusters, e) = [clusters EXCEPT ![k] = x]
    BY <1>3, <2>3, <2>5 DEF PlaceIn
  <2>8. [clusters EXCEPT ![k] = x] \in [1 .. n -> Groups(E)]
    BY <1>1, <2>6
  <2>9. /\ PlaceIn(clusters, e) \in Seq(Groups(E))
        /\ DOMAIN PlaceIn(clusters, e) = 1 .. n
        /\ PlaceIn(clusters, e)[k] = x
        /\ \A i \in 1 .. n : i # k => PlaceIn(clusters, e)[i] = clusters[i]
    BY <1>1, <2>7, <2>8
  <2> QED BY <1>1, <1>3, <2>2, <2>3, <2>5, <2>9
<1> QED BY <1>2, <1>3

LEMMA PlaceFits ==
  ASSUME NEW E, NEW clusters \in Seq(Groups(E)), NEW e \in E
  PROVE  PlaceIn(clusters, e) \in Seq(Groups(E))
BY Placed

\* Clusters, one event after the other.
RunningClusters(run, n, s) ==
  run[0] = <<>> /\ (\A k \in 1 .. n : run[k] = PlaceIn(run[k - 1], s[k])) /\ Clusters(s) = run[n]

LEMMA ClustersRun ==
  ASSUME NEW E, NEW n \in Nat, NEW s \in [1 .. n -> E]
  PROVE  \E run \in [0 .. n -> Seq(Groups(E))] : RunningClusters(run, n, s)
<1> DEFINE step == [p \in Seq(Groups(E)) \X E |-> PlaceIn(p[1], p[2])]
           Body(g) == g = [t \in SUBSET (1 .. n) |->
                             IF t = {} THEN <<>> ELSE PlaceIn(g[t \ {Max(t)}], s[Max(t)])]
<1>1. step \in [Seq(Groups(E)) \X E -> Seq(Groups(E))] /\ <<>> \in Seq(Groups(E))
  <2>1. \A seen \in Seq(Groups(E)), e \in E : PlaceIn(seen, e) \in Seq(Groups(E))
    BY PlaceFits
  <2> QED BY <2>1
<1>2. \A seen \in Seq(Groups(E)), e \in E : step[<<seen, e>>] = PlaceIn(seen, e)
  OBVIOUS
<1> HIDE DEF step
<1>3. PICK f \in [SUBSET (1 .. n) -> Seq(Groups(E))] : IsFold(f, n, <<>>, step, s)
  BY <1>1, FoldExists
<1>4. ASSUME NEW t \in SUBSET (1 .. n), t # {}
      PROVE  s[Max(t)] \in E /\ t \ {Max(t)} \in SUBSET (1 .. n)
  BY <1>4, LastPosition
<1>5. Body(f)
  <2>1. ASSUME NEW t \in SUBSET (1 .. n), t # {}
        PROVE  f[t] = PlaceIn(f[t \ {Max(t)}], s[Max(t)])
    <3>1. f[t \ {Max(t)}] \in Seq(Groups(E)) /\ s[Max(t)] \in E
      BY <1>4, <2>1
    <3>2. f[t] = step[<<f[t \ {Max(t)}], s[Max(t)]>>]
      BY <1>3, <2>1 DEF IsFold, Step
    <3> QED BY <1>2, <3>1, <3>2
  <2>2. f[{}] = <<>>
    BY <1>3 DEF IsFold, Step
  <2> QED BY <2>1, <2>2
<1>6. PICK g : g = CHOOSE h : Body(h)
  OBVIOUS
<1>7. Body(g)
  BY <1>5, <1>6, Zenon
<1>8. Clusters(s) = g[1 .. n]
  <2>1. DOMAIN s = 1 .. n
    OBVIOUS
  <2> QED BY <1>6, <2>1 DEF Clusters, PlaceIn, Near, First, FoldLeft, MapThenFoldSet
<1>9. Folds(g, Seq(Groups(E)), E, n, <<>>, step, s)
  <2>1. ASSUME NEW t \in SUBSET (1 .. n), t # {}, g[t \ {Max(t)}] \in Seq(Groups(E))
        PROVE  g[t] = step[<<g[t \ {Max(t)}], s[Max(t)]>>]
    <3>1. g[t] = PlaceIn(g[t \ {Max(t)}], s[Max(t)])
      BY <1>7, <2>1
    <3>2. s[Max(t)] \in E
      BY <1>4, <2>1
    <3> QED BY <1>2, <2>1, <3>1, <3>2
  <2>2. g[{}] = <<>>
    BY <1>7
  <2> QED BY <1>1, <2>1, <2>2 DEF Folds
<1>10. PICK run \in [0 .. n -> Seq(Groups(E))] : IsRun(run, n, <<>>, step, s) /\ run[n] = g[1 .. n]
  <2>1. PICK T : T = Seq(Groups(E))
    OBVIOUS
  <2>2. PICK base : base = <<>>
    OBVIOUS
  <2>3. Folds(g, T, E, n, base, step, s)
    BY <1>9, <2>1, <2>2
  <2>4. \E run \in [0 .. n -> T] : IsRun(run, n, base, step, s) /\ run[n] = g[1 .. n]
    BY <2>3, FoldRuns
  <2> QED BY <2>1, <2>2, <2>4
<1>11. ASSUME NEW k \in 1 .. n
       PROVE  run[k] = PlaceIn(run[k - 1], s[k])
  <2>1. run[k - 1] \in Seq(Groups(E)) /\ s[k] \in E
    OBVIOUS
  <2>2. run[k] = step[<<run[k - 1], s[k]>>]
    BY <1>10 DEF IsRun
  <2> QED BY <1>2, <2>1, <2>2
<1>12. run[0] = <<>>
  BY <1>10 DEF IsRun
<1> QED BY <1>8, <1>10, <1>11, <1>12 DEF RunningClusters

\* The clusters are groups of the events that were reported.
LEMMA ClustersFit ==
  ASSUME NEW E, NEW events \in Seq(E)
  PROVE  Clusters(events) \in Seq(Groups(E))
<1>1. PICK n \in Nat : events \in [1 .. n -> E]
  OBVIOUS
<1>2. PICK run \in [0 .. n -> Seq(Groups(E))] : RunningClusters(run, n, events)
  BY <1>1, ClustersRun
<1>3. n \in 0 .. n
  OBVIOUS
<1> QED BY <1>2, <1>3 DEF RunningClusters

\* An event that is not merged with any other.
Alone(e, E) == e \in E /\ \A f \in E : f # e => ~Joins(<<e>>, f) /\ ~Joins(<<f>>, e)

\* Whether an event joins a group hangs on the first member of it.
LEMMA JoinsFirst ==
  ASSUME NEW c, NEW e
  PROVE  Joins(c, e) <=> Joins(<<c[1]>>, e)
BY DEF Joins

LEMMA NotWithItself == \A e : ~Joins(<<e>>, e)
BY DEF Joins

\* Its group is its own, and stays so.
Own(clusters, e) == \A i \in DOMAIN clusters : clusters[i][1] = e => clusters[i] = <<e>>

Has(clusters, e) == \E i \in DOMAIN clusters : clusters[i] = <<e>>

LEMMA OwnStays ==
  ASSUME NEW E, NEW clusters \in Seq(Groups(E)), NEW x \in E, NEW e, Alone(e, E), Own(clusters, e)
  PROVE  /\ Own(PlaceIn(clusters, x), e)
         /\ x = e \/ Has(clusters, e) => Has(PlaceIn(clusters, x), e)
<1>1. PICK n \in Nat : DOMAIN clusters = 1 .. n /\ clusters \in [1 .. n -> Groups(E)]
  OBVIOUS
<1>2. ASSUME NEW i \in 1 .. n
      PROVE  clusters[i] \in Seq(E) /\ Len(clusters[i]) \in Nat \ {0} /\ clusters[i][1] \in E
  <2>1. clusters[i] \in Seq(E) /\ clusters[i] # <<>>
    BY <1>1 DEF Groups
  <2> QED BY <2>1
<1>3. PICK p : p = PlaceIn(clusters, x)
  OBVIOUS
<1>4. CASE Near(clusters, x) = {}
  <2>1. PICK c : c = <<x>>
    OBVIOUS
  <2>2. c \in Groups(E) /\ c[1] = x /\ p = Append(clusters, c)
    <3>1. <<x>> \in Seq(E) /\ <<x>> # <<>> /\ <<x>>[1] = x
      OBVIOUS
    <3>2. PlaceIn(clusters, x) = Append(clusters, <<x>>)
      BY <1>4, Placed
    <3> QED BY <1>3, <2>1, <3>1, <3>2, Zenon DEF Groups
  <2>3. /\ DOMAIN p = 1 .. n + 1 /\ p[n + 1] = c
        /\ \A i \in 1 .. n : p[i] = clusters[i]
    BY <1>1, <2>2, AppendProperties
  <2>4. ASSUME NEW i \in DOMAIN p, p[i][1] = e
        PROVE  p[i] = <<e>>
    BY <1>1, <2>1, <2>2, <2>3, <2>4 DEF Own
  <2>5. CASE x = e
    BY <1>3, <2>1, <2>3, <2>4, <2>5 DEF Own, Has
  <2>6. ASSUME NEW i \in DOMAIN clusters, clusters[i] = <<e>>
        PROVE  Has(p, e)
    BY <1>1, <2>3, <2>6 DEF Has
  <2> QED BY <1>3, <2>4, <2>5, <2>6 DEF Own, Has
<1>5. CASE Near(clusters, x) # {}
  <2>1. PICK k : k = First(Near(clusters, x))
    OBVIOUS
  <2>2. /\ k \in Near(clusters, x) /\ DOMAIN p = 1 .. n /\ p[k] = Append(clusters[k], x)
        /\ \A i \in 1 .. n : i # k => p[i] = clusters[i]
    BY <1>1, <1>3, <1>5, <2>1, Placed
  <2>3. k \in 1 .. n /\ Joins(<<clusters[k][1]>>, x)
    BY <1>1, <2>2, JoinsFirst DEF Near
  <2>4. clusters[k][1] # e /\ x # e
    BY <1>2, <2>3, NotWithItself DEF Alone
  <2>5. p[k][1] = clusters[k][1]
    BY <1>2, <2>2, <2>3, AppendProperties
  <2>6. ASSUME NEW i \in DOMAIN p, p[i][1] = e
        PROVE  p[i] = <<e>>
    BY <1>1, <2>2, <2>4, <2>5, <2>6 DEF Own
  <2>7. ASSUME NEW i \in DOMAIN clusters, clusters[i] = <<e>>
        PROVE  Has(p, e)
    <3>1. i # k
      BY <2>4, <2>7
    <3> QED BY <1>1, <2>2, <2>7, <3>1 DEF Has
  <2> QED BY <1>3, <2>4, <2>6, <2>7 DEF Own, Has
<1> QED BY <1>4, <1>5

\* An event that joins no other, and that no other joins, has a cluster of its own.
LEMMA ClustersKeep ==
  ASSUME NEW E, NEW events \in Seq(E), NEW e, Alone(e, E), e \in Range(events)
  PROVE  \E i \in DOMAIN Clusters(events) : Clusters(events)[i] = <<e>>
<1>1. PICK n \in Nat : events \in [1 .. n -> E]
  OBVIOUS
<1>2. PICK run \in [0 .. n -> Seq(Groups(E))] : RunningClusters(run, n, events)
  BY <1>1, ClustersRun
<1>3. PICK p \in 1 .. n : events[p] = e
  BY <1>1 DEF Range
<1> DEFINE S == {k \in 0 .. n : Own(run[k], e) /\ (k >= p => Has(run[k], e))}
<1>4. 0 \in S
  BY <1>2 DEF RunningClusters, Own
<1>5. ASSUME NEW k \in 1 .. n, k - 1 \in S
      PROVE  k \in S
  <2>1. k \in 0 .. n /\ run[k - 1] \in Seq(Groups(E)) /\ events[k] \in E /\ Own(run[k - 1], e)
    BY <1>1, <1>5
  <2>2. ASSUME k >= p
        PROVE  Has(run[k - 1], e) \/ events[k] = e
    <3>1. k = p \/ k - 1 >= p
      BY <2>2
    <3> QED BY <1>3, <1>5, <3>1
  <2>3. run[k] = PlaceIn(run[k - 1], events[k])
    BY <1>2 DEF RunningClusters
  <2>4. Own(run[k], e) /\ (k >= p => Has(run[k], e))
    BY <2>1, <2>2, <2>3, OwnStays
  <2> QED BY <2>1, <2>4
<1>6. \A k \in 0 .. n : k \in S
  <2> HIDE DEF S
  <2> QED BY <1>4, <1>5, UpTo
<1>7. n \in 0 .. n /\ n >= p
  OBVIOUS
<1>8. Has(run[n], e)
  BY <1>6, <1>7
<1> QED BY <1>2, <1>8 DEF RunningClusters, Has

LEMMA QualityMarked ==
  ASSUME NEW q \in Qualities, NEW flags \in SUBSET Flags
  PROVE  /\ [q EXCEPT !.flags = flags] \in Qualities
         /\ flags = q.flags => [q EXCEPT !.flags = flags] = q
BY DEF Qualities

\* A record with another quality, and one with another severity, closure and flags.
WithQuality(e, q) == [e EXCEPT !.quality = q]

Marked(e, severity, closure, flags) ==
  [e EXCEPT !.severity = severity, !.closure = closure, !.quality.flags = flags]

LEMMA EventWithQuality ==
  ASSUME NEW e \in Events, NEW q \in Qualities
  PROVE  WithQuality(e, q) \in Events /\ (q = e.quality => WithQuality(e, q) = e)
BY DEF Events, WithQuality

LEMMA EventMarked ==
  ASSUME NEW e \in Events, NEW severity \in Severities, NEW closure \in BOOLEAN,
         NEW flags \in SUBSET Flags, NEW marked, marked = Marked(e, severity, closure, flags)
  PROVE  /\ marked \in Events
         /\ severity = e.severity /\ closure = e.closure /\ flags = e.quality.flags => marked = e
<1>1. PICK q : q = [e.quality EXCEPT !.flags = flags]
  OBVIOUS
<1>2. e.quality \in Qualities
  BY DEF Events
<1>3. q \in Qualities /\ (flags = e.quality.flags => q = e.quality)
  BY <1>1, <1>2, QualityMarked
<1>4. PICK a : a = [e EXCEPT !.severity = severity]
  OBVIOUS
<1>5. a \in Events /\ a.quality = e.quality /\ a.closure = e.closure /\ (severity = e.severity => a = e)
  BY <1>4 DEF Events
<1>6. PICK b : b = [a EXCEPT !.closure = closure]
  OBVIOUS
<1>7. b \in Events /\ b.quality = e.quality /\ (closure = a.closure => b = a)
  BY <1>5, <1>6 DEF Events
<1>8. marked = WithQuality(b, q)
  BY <1>1, <1>4, <1>5, <1>6, <1>7 DEF Marked, WithQuality
<1>9. marked \in Events /\ (q = b.quality => marked = b)
  BY <1>3, <1>7, <1>8, EventWithQuality
<1> QED BY <1>3, <1>5, <1>7, <1>9

LEMMA RankFits ==
  ASSUME NEW e \in Events, NEW i \in Int
  PROVE  Rank(e, i) \in Tuples(5) /\ Rank(e, i)[5] = i
<1>1. EventTime(e) \in Optional(Int)
  BY DEF EventTime, Events, Times
<1>2. EventTime(e) \in SUBSET Int /\ IsFiniteSet(EventTime(e))
  BY <1>1, OptionalIs
<1>3. Largest(EventTime(e), 0) \in Int
  BY <1>2, LargestOf
<1>4. e.authority \in Int /\ e.quality.score \in Int /\ Truth(EventTime(e) = {}) \in Int
  BY DEF Events, Qualities, Authorities, Percent, Truth
<1> QED BY <1>3, <1>4 DEF Rank, Tuples

\* The parts of Resolve: the members in the order of their ranks, the severity that an
\* official member asks for, and the record that stands for all of them.
InOrder(members) ==
  LET order == Sorted([i \in DOMAIN members |-> Rank(members[i], i)])
  IN [k \in DOMAIN order |-> members[order[k]]]

OfficialSeverity(members) ==
  Largest({members[i].severity : i \in {j \in DOMAIN members : members[j].official}}, 0)

ClosuresIn(members) == {members[i].closure : i \in DOMAIN members}

Conflicting(members) == OfficialSeverity(members) > InOrder(members)[1].severity
                        \/ Cardinality(ClosuresIn(members)) > 1

Representative(members) ==
  LET rep == InOrder(members)[1]
  IN [rep EXCEPT !.severity = Larger(rep.severity, OfficialSeverity(members)),
                 !.closure = (rep.closure \/ Cardinality(ClosuresIn(members)) > 1),
                 !.quality.flags = rep.quality.flags \cup (IF Conflicting(members) THEN {"CONFLICTING"} ELSE {})]

Others(members) ==
  {k \in DOMAIN InOrder(members) : /\ k > 1
                                   /\ InOrder(members)[k].official
                                   /\ InOrder(members)[k].authority # InOrder(members)[1].authority}

LEMMA ResolveIs ==
  ASSUME NEW members
  PROVE  /\ Resolve(members).events = <<Representative(members)>> \o Kept(InOrder(members), Others(members))
         /\ Resolve(members).conflicts \in Nat
<1>1. Resolve(members).events = <<Representative(members)>> \o Kept(InOrder(members), Others(members))
  BY DEF Resolve, Representative, InOrder, Others, Conflicting, ClosuresIn, OfficialSeverity
<1>2. \A b, c : Truth(b) + Truth(c) \in Nat
  BY DEF Truth
<1>3. \E b, c : Resolve(members).conflicts = Truth(b) + Truth(c)
  BY DEF Resolve
<1> QED BY SMTT(30), <1>1, <1>2, <1>3

LEMMA InOrderFits ==
  ASSUME NEW n \in Nat, NEW members \in [1 .. n -> Events]
  PROVE  /\ InOrder(members) \in [1 .. n -> Events]
         /\ \A k \in 1 .. n : \E i \in 1 .. n : InOrder(members)[k] = members[i]
<1> DEFINE key == [i \in 1 .. n |-> Rank(members[i], i)]
<1>1. key \in [1 .. n -> Tuples(5)] /\ \A i \in 1 .. n : key[i][5] = i
  <2>1. ASSUME NEW i \in 1 .. n
        PROVE  key[i] \in Tuples(5) /\ key[i][5] = i
    <3>1. members[i] \in Events /\ i \in Int
      OBVIOUS
    <3>2. Rank(members[i], i) \in Tuples(5) /\ Rank(members[i], i)[5] = i
      BY <3>1, RankFits
    <3> QED BY <3>2
  <2>2. key = [i \in 1 .. n |-> key[i]]
    OBVIOUS
  <2> HIDE DEF key
  <2> QED BY <2>1, <2>2
<1>2. InOrder(members) = [k \in DOMAIN Sorted(key) |-> members[Sorted(key)[k]]]
  BY DEF InOrder
<1> HIDE DEF key
<1>3. \A i, j \in 1 .. n : key[i] = key[j] => i = j
  BY <1>1
<1>4. IsFiniteSet(1 .. n) /\ Cardinality(1 .. n) = n
  BY FS_Interval
<1>5. Sorted(key) \in [1 .. n -> 1 .. n]
  BY <1>1, <1>3, <1>4, SortedIsBijection
<1> QED BY <1>2, <1>5

LEMMA OfficialSeverityFits ==
  ASSUME NEW n \in Nat, NEW members \in [1 .. n -> Events]
  PROVE  OfficialSeverity(members) \in Severities
<1> DEFINE S == {members[i].severity : i \in {j \in DOMAIN members : members[j].official}}
<1>1. S \in SUBSET (0 .. 5)
  <2>1. \A i \in 1 .. n : members[i].severity \in 0 .. 5
    BY DEF Events, Severities
  <2> QED BY <2>1
<1>2. 5 \in Nat /\ 0 \in 0 .. 5
  OBVIOUS
<1> HIDE DEF S
<1>3. Largest(S, 0) \in 0 .. 5
  BY <1>1, <1>2, LargestBounded
<1> QED BY <1>3 DEF S, OfficialSeverity, Severities

LEMMA LargerFits ==
  ASSUME NEW S, NEW a \in S, NEW b \in S
  PROVE  Larger(a, b) \in S
BY DEF Larger

LEMMA RepresentativeFits ==
  ASSUME NEW n \in Nat \ {0}, NEW members \in [1 .. n -> Events]
  PROVE  Representative(members) \in Events
<1>1. PICK rep : rep = InOrder(members)[1]
  OBVIOUS
<1>2. rep \in Events
  BY <1>1, InOrderFits
<1>3. rep.severity \in Severities /\ rep.closure \in BOOLEAN /\ rep.quality.flags \in SUBSET Flags
  BY <1>2 DEF Events, Qualities
<1>4. PICK sev : sev = Larger(rep.severity, OfficialSeverity(members))
  OBVIOUS
<1>5. sev \in Severities
  BY <1>3, <1>4, OfficialSeverityFits, LargerFits
<1>6. PICK closure \in BOOLEAN : closure = (rep.closure \/ Cardinality(ClosuresIn(members)) > 1)
  OBVIOUS
<1>7. PICK flags : flags = rep.quality.flags \cup (IF Conflicting(members) THEN {"CONFLICTING"} ELSE {})
  OBVIOUS
<1>8. flags \in SUBSET Flags
  BY <1>3, <1>7 DEF Flags
<1>9. Representative(members) = Marked(rep, sev, closure, flags)
  BY <1>1, <1>4, <1>6, <1>7 DEF Representative, Marked
<1> QED BY <1>2, <1>5, <1>8, <1>9, EventMarked

\* What a cluster is resolved to is well-formed (_resolve).
LEMMA ResolveFits ==
  ASSUME NEW members \in Groups(Events)
  PROVE  Resolve(members).events \in Seq(Events) /\ Resolve(members).conflicts \in Nat
<1>1. PICK n \in Nat \ {0} : members \in [1 .. n -> Events]
  <2>1. members \in Seq(Events) /\ members # <<>>
    BY DEF Groups
  <2>2. Len(members) \in Nat \ {0} /\ members \in [1 .. Len(members) -> Events]
    BY <2>1
  <2> QED BY <2>2
<1>2. PICK ranked : ranked = InOrder(members)
  OBVIOUS
<1>3. ranked \in Seq(Events)
  BY <1>1, <1>2, InOrderFits
<1>4. Others(members) \in SUBSET DOMAIN ranked
  BY <1>2 DEF Others
<1>5. Kept(ranked, Others(members)) \in Seq(Events)
  BY <1>3, <1>4, KeptFits
<1>6. Representative(members) \in Events
  BY <1>1, RepresentativeFits
<1>7. PICK first : first = <<Representative(members)>>
  OBVIOUS
<1>8. first \in Seq(Events)
  BY <1>6, <1>7
<1>9. PICK others : others = Kept(ranked, Others(members))
  OBVIOUS
<1>10. first \o others \in Seq(Events)
  BY <1>5, <1>8, <1>9, OneAfterTheOther
<1>11. Resolve(members).events = first \o others
  BY <1>2, <1>7, <1>9, ResolveIs
<1> QED BY <1>10, <1>11, ResolveIs

\* A report of its own is left as it is.
LEMMA ResolveAlone ==
  ASSUME NEW e \in Events
  PROVE  e \in Range(Resolve(<<e>>).events)
<1>1. PICK members : members = <<e>>
  OBVIOUS
<1>2. members \in [1 .. 1 -> Events] /\ \A i \in DOMAIN members : i = 1
  BY <1>1
<1>3. InOrder(members) \in [1 .. 1 -> Events] /\ InOrder(members)[1] = e
  <2>1. /\ InOrder(members) \in [1 .. 1 -> Events]
        /\ \A k \in 1 .. 1 : \E i \in 1 .. 1 : InOrder(members)[k] = members[i]
    <3>1. 1 \in Nat
      OBVIOUS
    <3> QED BY <1>2, <3>1, InOrderFits
  <2> QED BY <1>1, <1>2, <2>1
<1>4. ClosuresIn(members) = {e.closure}
  BY <1>1, <1>2 DEF ClosuresIn
<1>5. ~(Cardinality(ClosuresIn(members)) > 1)
  <2>1. Cardinality({e.closure}) = 1
    BY FS_Singleton
  <2> QED BY <1>4, <2>1
<1>6. e.severity \in 0 .. 5 /\ e.closure \in BOOLEAN /\ e.quality.flags \in SUBSET Flags
  BY DEF Events, Qualities, Severities
<1>7. PICK official : official = OfficialSeverity(members)
  OBVIOUS
<1>8. official = 0 \/ official = e.severity
  <2> DEFINE S == {members[i].severity : i \in {j \in DOMAIN members : members[j].official}}
  <2>1. S \subseteq {e.severity}
    BY <1>1, <1>2
  <2>2. S = {} \/ S = {e.severity}
    BY <2>1
  <2>3. Largest({}, 0) = 0 /\ Largest({e.severity}, 0) = e.severity
    BY <1>6 DEF Largest
  <2> HIDE DEF S
  <2>4. Largest(S, 0) = 0 \/ Largest(S, 0) = e.severity
    BY <2>2, <2>3
  <2> QED BY <1>7, <2>4 DEF S, OfficialSeverity
<1>9. ~(official > e.severity) /\ Larger(e.severity, official) = e.severity
  BY <1>6, <1>8 DEF Larger
<1>10. ~Conflicting(members)
  BY <1>3, <1>5, <1>7, <1>9 DEF Conflicting
<1>11. Representative(members) = e
  <2>1. PICK severity \in Severities : severity = e.severity
    BY <1>6 DEF Severities
  <2>2. PICK closure \in BOOLEAN : closure = e.closure
    BY <1>6
  <2>3. PICK flags \in SUBSET Flags : flags = e.quality.flags
    BY <1>6
  <2>4. PICK marked : marked = Marked(e, severity, closure, flags)
    OBVIOUS
  <2>5. marked \in Events /\ (severity = e.severity /\ closure = e.closure /\ flags = e.quality.flags => marked = e)
    BY <2>4, EventMarked
  <2>6. marked = e
    BY <2>1, <2>2, <2>3, <2>5
  <2>7. Representative(members) = Marked(e, severity, closure, flags)
    BY <1>3, <1>5, <1>6, <1>7, <1>9, <1>10, <2>1, <2>2, <2>3 DEF Representative, Marked
  <2> QED BY <2>4, <2>6, <2>7
<1>12. PICK kept : kept = Kept(InOrder(members), Others(members))
  OBVIOUS
<1>13. kept \in Seq(Events)
  <2>1. PICK ranked : ranked = InOrder(members)
    OBVIOUS
  <2>2. ranked \in Seq(Events)
    <3>1. PICK m \in Nat : ranked \in [1 .. m -> Events]
      BY <1>3, <2>1
    <3> QED BY <3>1
  <2>3. Others(members) \in SUBSET DOMAIN ranked
    BY <2>1 DEF Others
  <2> QED BY <1>12, <2>1, <2>2, <2>3, KeptFits
<1>14. members \in Seq(Events) /\ e \in Range(members)
  BY <1>1 DEF Range
<1>15. Resolve(members).events = members \o kept
  BY <1>1, <1>11, <1>12, ResolveIs
<1>16. Range(members \o kept) = Range(members) \cup Range(kept)
  BY <1>13, <1>14, OneAfterTheOther
<1> QED BY <1>1, <1>14, <1>15, <1>16

\* Whatever is reported, the events that are left are well-formed.
LEMMA DeduplicateFits ==
  ASSUME NEW events \in Seq(Events)
  PROVE  /\ Deduplicate(events).events \in Seq(Events)
         /\ Deduplicate(events).conflicts \in Nat
<1>1. PICK clusters : clusters = Clusters(UniqueEvents(events))
  OBVIOUS
<1>2. clusters \in Seq(Groups(Events))
  BY <1>1, UniqueEventsFit, ClustersFit
<1>3. PICK n \in Nat : DOMAIN clusters = 1 .. n /\ clusters \in [1 .. n -> Groups(Events)]
  BY <1>2
<1> DEFINE lists == [c \in 1 .. n |-> Resolve(clusters[c]).events]
           counts == [c \in 1 .. n |-> Resolve(clusters[c]).conflicts]
<1>4. Deduplicate(events) = [events |-> FlattenSeq(lists), conflicts |-> Sum(counts)]
  <2>1. [c \in 1 .. n |-> [k \in 1 .. n |-> Resolve(clusters[k])][c].events] = lists
    OBVIOUS
  <2>2. [c \in 1 .. n |-> [k \in 1 .. n |-> Resolve(clusters[k])][c].conflicts] = counts
    OBVIOUS
  <2> QED BY <1>1, <1>3, <2>1, <2>2 DEF Deduplicate
<1>5. lists \in [1 .. n -> Seq(Events)]
  <2>1. \A c \in 1 .. n : Resolve(clusters[c]).events \in Seq(Events)
    BY <1>3, ResolveFits
  <2> QED BY <2>1
<1>6. counts \in [1 .. n -> Nat]
  <2>1. \A c \in 1 .. n : Resolve(clusters[c]).conflicts \in Nat
    BY <1>3, ResolveFits
  <2> QED BY <2>1
<1> HIDE DEF lists, counts
<1>7. FlattenSeq(lists) \in Seq(Events)
  BY <1>5, Flattened
<1>8. Sum(counts) \in Nat
  <2>1. PICK run \in [0 .. n -> Nat] : Sum(counts) = run[n]
    BY <1>6, SumRuns
  <2>2. n \in 0 .. n
    OBVIOUS
  <2> QED BY <2>1, <2>2
<1> QED BY <1>4, <1>7, <1>8

\* A report that no other resembles is not lost.
LEMMA DeduplicateKeeps ==
  ASSUME NEW E \in SUBSET Events, NEW events \in Seq(E), NEW e, Unique(e, E), Alone(e, E),
         e \in Range(events)
  PROVE  e \in Range(Deduplicate(events).events)
<1>1. PICK unique : unique = UniqueEvents(events)
  OBVIOUS
<1>2. unique \in Seq(E) /\ e \in Range(unique)
  BY <1>1, UniqueEventsFit, UniqueEventsKeep
<1>3. PICK clusters : clusters = Clusters(unique)
  OBVIOUS
<1>4. clusters \in Seq(Groups(E)) /\ \E i \in DOMAIN clusters : clusters[i] = <<e>>
  BY <1>2, <1>3, ClustersFit, ClustersKeep
<1>5. PICK n \in Nat : DOMAIN clusters = 1 .. n /\ clusters \in [1 .. n -> Groups(E)]
  BY <1>4
<1>6. PICK i \in 1 .. n : clusters[i] = <<e>>
  BY <1>4, <1>5
<1> DEFINE lists == [c \in 1 .. n |-> Resolve(clusters[c]).events]
<1>7. Deduplicate(events).events = FlattenSeq(lists)
  <2>1. [c \in 1 .. n |-> [k \in 1 .. n |-> Resolve(clusters[k])][c].events] = lists
    OBVIOUS
  <2> QED BY <1>1, <1>3, <1>5, <2>1 DEF Deduplicate
<1>8. lists \in [1 .. n -> Seq(Events)]
  <2>1. ASSUME NEW c \in 1 .. n
        PROVE  Resolve(clusters[c]).events \in Seq(Events)
    <3>1. clusters[c] \in Seq(E) /\ clusters[c] # <<>>
      BY <1>5 DEF Groups
    <3>2. clusters[c] \in Seq(Events)
      BY <3>1
    <3>3. clusters[c] \in Groups(Events)
      BY <3>1, <3>2 DEF Groups
    <3> QED BY <3>3, ResolveFits
  <2> QED BY <2>1
<1>9. e \in Range(lists[i])
  <2>1. e \in Events
    BY DEF Alone
  <2>2. lists[i] = Resolve(<<e>>).events
    BY <1>6
  <2> QED BY <2>1, <2>2, ResolveAlone
<1> HIDE DEF lists
<1>10. Range(FlattenSeq(lists)) = UNION {Range(lists[c]) : c \in 1 .. n}
  BY <1>8, Flattened
<1> QED BY <1>7, <1>9, <1>10

\* Keys that tell the members of a set apart.
Keyed(D, n, key) == /\ IsFiniteSet(D) /\ n \in Nat /\ key \in [D -> Tuples(n)]
                    /\ \A i, j \in D : key[i] = key[j] => i = j

LEMMA SortedKeyed ==
  ASSUME NEW D, NEW n, NEW key, Keyed(D, n, key)
  PROVE  /\ Cardinality(D) \in Nat /\ Sorted(key) \in [1 .. Cardinality(D) -> D]
         /\ \A i \in D : \E k \in 1 .. Cardinality(D) : Sorted(key)[k] = i
BY SortedIsBijection DEF Keyed

\* Every record that is kept stands somewhere.
LEMMA KeptAll ==
  ASSUME NEW T, NEW s \in Seq(T), NEW positions \in SUBSET DOMAIN s, NEW i \in positions
  PROVE  s[i] \in Range(Kept(s, positions))
<1>1. Len(s) \in Nat /\ DOMAIN s = 1 .. Len(s) /\ positions \in SUBSET (1 .. Len(s))
  OBVIOUS
<1> DEFINE key == [j \in positions |-> <<j>>]
<1>2. IsFiniteSet(positions)
  BY <1>1, FiniteWithin
<1>3. key \in [positions -> Tuples(1)] /\ \A j, k \in positions : key[j] = key[k] => j = k
  BY <1>1 DEF Tuples
<1> HIDE DEF key
<1>4. /\ Cardinality(positions) \in Nat /\ Sorted(key) \in [1 .. Cardinality(positions) -> positions]
      /\ \A j \in positions : \E k \in 1 .. Cardinality(positions) : Sorted(key)[k] = j
  <2>1. Keyed(positions, 1, key)
    BY <1>2, <1>3 DEF Keyed
  <2> QED BY <2>1, SortedKeyed
<1>5. Kept(s, positions) = [l \in 1 .. Cardinality(positions) |-> s[Sorted(key)[l]]]
  BY <1>4 DEF Kept, key
<1>6. PICK k \in 1 .. Cardinality(positions) : Sorted(key)[k] = i
  BY <1>4
<1>7. Kept(s, positions)[k] = s[i] /\ k \in DOMAIN Kept(s, positions)
  BY <1>5, <1>6
<1> QED BY <1>7 DEF Range

\* A valid report that no other resembles is in the snapshot as it was reported.
LEMMA SnapshotKeeps ==
  ASSUME NEW q, NEW c \in Contexts, NEW id, NEW e \in Range(c.events), ValidEvent(e),
         Unique(e, Range(c.events)), Alone(e, Range(c.events))
  PROVE  e \in Range(BuildSnapshot(q, c, id).events)
<1> DEFINE valid == {k \in DOMAIN c.events : ValidEvent(c.events[k])}
           events == Kept(c.events, valid)
<1>1. PICK E : E = Range(c.events)
  OBVIOUS
<1>2. c.events \in Seq(Events) /\ c.events \in Seq(E) /\ E \in SUBSET Events
  <2>1. c.events \in Seq(Events)
    BY DEF Contexts
  <2>2. PICK n \in Nat : DOMAIN c.events = 1 .. n /\ c.events \in [1 .. n -> Events]
    BY <2>1
  <2>3. c.events \in [1 .. n -> E]
    BY <1>1, <2>2 DEF Range
  <2>4. E \in SUBSET Events
    BY <1>1, <2>2 DEF Range
  <2> QED BY <2>1, <2>3, <2>4
<1>3. valid \in SUBSET DOMAIN c.events
  OBVIOUS
<1>4. PICK i \in valid : c.events[i] = e
  BY DEF Range
<1> HIDE DEF valid
<1>5. events \in Seq(E) /\ e \in Range(events)
  BY <1>2, <1>3, <1>4, KeptFits, KeptAll
<1>6. BuildSnapshot(q, c, id).events = Deduplicate(events).events
  <2>1. \E id2, enriched, weather, window, match :
          BuildSnapshot(q, c, id) = Judged(q, c, id2, enriched, weather, Deduplicate(events), window, match)
    BY Zenon DEF BuildSnapshot, Matched, valid
  <2>2. PICK dedup : dedup = Deduplicate(events)
    OBVIOUS
  <2>3. PICK id2, enriched, weather, window, match :
          BuildSnapshot(q, c, id) = Judged(q, c, id2, enriched, weather, dedup, window, match)
    BY <2>1, <2>2, Zenon
  <2>4. PICK b : b = Judged(q, c, id2, enriched, weather, dedup, window, match)
    OBVIOUS
  <2>5. JudgedAs(b, q, c, id2, enriched, weather, dedup.events, window, match)
    BY <2>4, JudgedIs
  <2>6. b.events = dedup.events
    BY <2>5 DEF JudgedAs
  <2> QED BY <2>2, <2>3, <2>4, <2>6
<1> HIDE DEF events
<1>7. e \in Range(Deduplicate(events).events)
  BY <1>1, <1>2, <1>5, DeduplicateKeeps
<1> QED BY <1>6, <1>7

-----------------------------------------------------------------------------
(* Records, their values and sums.                                         *)

LEMMA RangeFinite ==
  ASSUME NEW D, IsFiniteSet(D), NEW f, DOMAIN f = D
  PROVE  IsFiniteSet({f[x] : x \in D})
<1> DEFINE T == {f[x] : x \in D}
           g == [x \in D |-> f[x]]
<1>1. g \in Surjection(D, T)
  BY DEF Surjection
<1> HIDE DEF T, g
<1>2. IsFiniteSet(T)
  BY <1>1, FS_Surjection
<1> QED BY <1>2 DEF T

\* The records of a sequence are finitely many.
LEMMA RecordsFinite ==
  ASSUME NEW T, NEW s \in Seq(T)
  PROVE  IsFiniteSet(Range(s)) /\ IsFiniteSet(DOMAIN s) /\ Range(s) \in SUBSET T
<1>1. PICK n \in Nat : DOMAIN s = 1 .. n /\ s \in [1 .. n -> T]
  OBVIOUS
<1>2. IsFiniteSet(1 .. n)
  BY FS_Interval
<1>3. Range(s) = {s[i] : i \in 1 .. n}
  BY <1>1 DEF Range
<1> QED BY <1>1, <1>2, <1>3, RangeFinite

\* Optional numbers of finitely many records.
OptionalValues(f, D, S) == IsFiniteSet(D) /\ DOMAIN f = D /\ \A x \in D : f[x] \in Optional(S)

AllOf(f, D) == UNION {f[x] : x \in D}

LEMMA OptionalsFinite ==
  ASSUME NEW D, NEW f, NEW S, OptionalValues(f, D, S)
  PROVE  IsFiniteSet(AllOf(f, D)) /\ AllOf(f, D) \in SUBSET S
<1> DEFINE T == {f[x] : x \in D}
<1>1. IsFiniteSet(T)
  BY RangeFinite DEF OptionalValues
<1>2. \A o \in T : IsFiniteSet(o) /\ o \in SUBSET S
  BY OptionalIs DEF OptionalValues
<1> HIDE DEF T
<1>3. IsFiniteSet(UNION T)
  BY <1>1, <1>2, FS_UNION
<1>4. UNION T \in SUBSET S
  BY <1>2
<1> QED BY <1>3, <1>4 DEF T, AllOf

\* The largest of them, or none.
LEMMA LargestGiven ==
  ASSUME NEW S \in SUBSET Nat, IsFiniteSet(S)
  PROVE  /\ Largest(S, 0) \in Nat
         /\ Largest(S, -1) = -1 \/ Largest(S, -1) \in S
<1>1. S \in SUBSET Int
  OBVIOUS
<1>2. S = {} => Largest(S, 0) = 0 /\ Largest(S, -1) = -1
  BY DEF Largest
<1>3. S # {} => Largest(S, 0) \in S /\ Largest(S, -1) \in S
  BY <1>1, LargestOf
<1>4. Largest(S, 0) \in Nat
  <2>1. CASE S = {}
    BY <1>2, <2>1
  <2>2. CASE S # {}
    <3>1. Largest(S, 0) \in S
      BY <1>3, <2>2, Zenon
    <3> QED BY <3>1
  <2> QED BY <2>1, <2>2
<1>5. Largest(S, -1) = -1 \/ Largest(S, -1) \in S
  BY <1>2, <1>3, Zenon
<1> QED BY <1>4, <1>5, Zenon

LEMMA LargestNat ==
  ASSUME NEW S \in SUBSET Nat, NEW default \in Nat, IsFiniteSet(S)
  PROVE  Largest(S, default) \in Nat
<1>1. S \in SUBSET Int
  OBVIOUS
<1> QED BY <1>1, LargestOf

LEMMA Cut ==
  ASSUME NEW n \in Nat, NEW k \in Nat
  PROVE  Smaller(n, k) \in 0 .. n /\ Larger(n, k) \in Nat
BY DEF Smaller, Larger

LEMMA PartOf ==
  ASSUME NEW n \in Nat \ {0}, NEW S, IsFiniteSet(S), Cardinality(S) <= n
  PROVE  (100 * Cardinality(S)) \div n \in Percent
<1>1. Cardinality(S) \in Nat
  BY FS_CardinalityType
<1>2. PICK k \in Nat : k = 100 * Cardinality(S) /\ k <= n * 100
  BY <1>1
<1>3. 100 \in Nat
  OBVIOUS
<1> QED BY <1>2, <1>3, Quotient DEF Percent

LEMMA PositionsIn ==
  ASSUME NEW n \in Nat, NEW S \in SUBSET (1 .. n)
  PROVE  IsFiniteSet(S) /\ Cardinality(S) \in Nat /\ Cardinality(S) <= n
<1>1. IsFiniteSet(1 .. n) /\ Cardinality(1 .. n) = n
  BY FS_Interval
<1>2. IsFiniteSet(S) /\ Cardinality(S) <= Cardinality(1 .. n)
  BY <1>1, FS_Subset
<1> QED BY <1>1, <1>2, FS_CardinalityType

\* The sum over a finite set, which takes one member after the other.
OneOf(t) == CHOOSE x \in t : TRUE

IsTotal(g, w, t) == g[t] = IF t = {} THEN 0 ELSE w[OneOf(t)] + g[t \ {OneOf(t)}]

LEMMA OneLess ==
  ASSUME NEW S, IsFiniteSet(S), NEW t \in SUBSET S
  PROVE  /\ Cardinality(t) \in Nat
         /\ t = {} <=> Cardinality(t) = 0
         /\ t # {} => /\ OneOf(t) \in t /\ t \ {OneOf(t)} \in SUBSET S
                      /\ Cardinality(t \ {OneOf(t)}) = Cardinality(t) - 1
<1>1. IsFiniteSet(t)
  BY FS_Subset
<1>2. Cardinality(t) \in Nat
  BY <1>1, FS_CardinalityType
<1>3. t = {} <=> Cardinality(t) = 0
  BY <1>1, FS_EmptySet
<1>4. t # {} => OneOf(t) \in t
  BY DEF OneOf
<1>5. t # {} => Cardinality(t \ {OneOf(t)}) = Cardinality(t) - 1
  BY <1>1, <1>4, FS_RemoveElement
<1> QED BY <1>2, <1>3, <1>4, <1>5

\* The sum over a finite set of numbers exists, and is a number.
LEMMA TotalExists ==
  ASSUME NEW S, IsFiniteSet(S), NEW w \in [S -> Nat]
  PROVE  \E g \in [SUBSET S -> Nat] : \A t \in SUBSET S : IsTotal(g, w, t)
<1>0. PICK n \in Nat : n = Cardinality(S)
  BY FS_CardinalityType
<1> DEFINE Sized(k) == {t \in SUBSET S : Cardinality(t) <= k}
           U == {k \in 0 .. n : \E g \in [Sized(k) -> Nat] : \A t \in Sized(k) : IsTotal(g, w, t)}
<1>1. 0 \in U
  <2> DEFINE g == [t \in Sized(0) |-> 0]
  <2>1. \A t \in Sized(0) : t = {}
    <3> SUFFICES ASSUME NEW t \in Sized(0) PROVE t = {}
      OBVIOUS
    <3>1. t \in SUBSET S /\ Cardinality(t) <= 0
      OBVIOUS
    <3>2. Cardinality(t) \in Nat /\ (t = {} <=> Cardinality(t) = 0)
      BY <3>1, OneLess
    <3> QED BY <3>1, <3>2
  <2>2. g \in [Sized(0) -> Nat] /\ \A t \in Sized(0) : g[t] = 0
    OBVIOUS
  <2>3. 0 \in 0 .. n
    OBVIOUS
  <2> HIDE DEF g, Sized
  <2>4. \A t \in Sized(0) : IsTotal(g, w, t)
    BY <2>1, <2>2 DEF IsTotal
  <2> QED BY <2>2, <2>3, <2>4
<1>2. ASSUME NEW k \in 1 .. n, k - 1 \in U
      PROVE  k \in U
  <2>1. PICK g \in [Sized(k - 1) -> Nat] : \A t \in Sized(k - 1) : IsTotal(g, w, t)
    BY <1>2
  <2> DEFINE h == [t \in Sized(k) |-> IF t = {} THEN 0 ELSE w[OneOf(t)] + g[t \ {OneOf(t)}]]
  <2>2. ASSUME NEW t \in Sized(k)
        PROVE  /\ t \in SUBSET S
               /\ t # {} => t \ {OneOf(t)} \in Sized(k - 1) /\ t \ {OneOf(t)} \in Sized(k) /\ w[OneOf(t)] \in Nat
    <3>1. t \in SUBSET S /\ Cardinality(t) <= k
      OBVIOUS
    <3>2. /\ Cardinality(t) \in Nat
          /\ t # {} => /\ OneOf(t) \in t /\ t \ {OneOf(t)} \in SUBSET S
                       /\ Cardinality(t \ {OneOf(t)}) = Cardinality(t) - 1
      BY <3>1, OneLess
    <3> QED BY <3>1, <3>2
  <2>3. \A t \in Sized(k) : h[t] = IF t = {} THEN 0 ELSE w[OneOf(t)] + g[t \ {OneOf(t)}]
    OBVIOUS
  <2>4. \A t \in Sized(k - 1) : t \in Sized(k)
    <3> SUFFICES ASSUME NEW t \in Sized(k - 1) PROVE t \in Sized(k)
      OBVIOUS
    <3>1. Cardinality(t) \in Nat
      BY OneLess
    <3> QED BY <3>1
  <2>5. h = [t \in Sized(k) |-> h[t]] /\ k \in 0 .. n
    OBVIOUS
  <2> HIDE DEF h, Sized
  <2>6. h \in [Sized(k) -> Nat]
    <3>1. ASSUME NEW t \in Sized(k)
          PROVE  h[t] \in Nat
      <4>1. CASE t = {}
        BY <2>3, <4>1
      <4>2. CASE t # {}
        <5>1. g[t \ {OneOf(t)}] \in Nat /\ w[OneOf(t)] \in Nat
          BY <2>2, <4>2
        <5>2. h[t] = w[OneOf(t)] + g[t \ {OneOf(t)}]
          BY <2>3, <4>2, Zenon
        <5> QED BY <5>1, <5>2
      <4> QED BY <4>1, <4>2
    <3> QED BY <2>5, <3>1
  <2>7. \A t \in Sized(k - 1) : h[t] = g[t]
    BY <2>1, <2>3, <2>4 DEF IsTotal
  <2>8. \A t \in Sized(k) : IsTotal(h, w, t)
    BY <2>2, <2>3, <2>7 DEF IsTotal
  <2> QED BY <2>5, <2>6, <2>8
<1>3. n \in U
  <2> HIDE DEF U
  <2>1. \A k \in 0 .. n : k \in U
    BY <1>1, <1>2, UpTo
  <2> QED BY <2>1
<1>4. Sized(n) = SUBSET S
  BY <1>0, FS_Subset
<1> HIDE DEF Sized
<1> QED BY <1>3, <1>4

\* What the events on a route add to its exposure.
ScoreOf(hits) == MapThenSumSet(LAMBDA e : EXPOSURE_SCORE[e.severity + 1], hits)

LEMMA ScoreOfNat ==
  ASSUME NEW hits, IsFiniteSet(hits), hits \in SUBSET Events
  PROVE  ScoreOf(hits) \in Nat
<1> DEFINE w == [e \in hits |-> EXPOSURE_SCORE[e.severity + 1]]
           Body(g) == g = [t \in SUBSET hits |->
                             IF t = {} THEN 0 ELSE EXPOSURE_SCORE[OneOf(t).severity + 1] + g[t \ {OneOf(t)}]]
<1>1. w \in [hits -> Nat] /\ \A e \in hits : w[e] = EXPOSURE_SCORE[e.severity + 1]
  <2>1. \A e \in hits : e.severity \in 0 .. 5
    BY DEF Events, Severities
  <2>2. \A k \in 0 .. 5 : EXPOSURE_SCORE[k + 1] \in Nat
    BY DEF EXPOSURE_SCORE
  <2> QED BY <2>1, <2>2
<1> HIDE DEF w
<1>2. PICK f \in [SUBSET hits -> Nat] : \A t \in SUBSET hits : IsTotal(f, w, t)
  BY <1>1, TotalExists
<1>3. \A t \in SUBSET hits : t # {} => OneOf(t) \in hits /\ t \ {OneOf(t)} \in SUBSET hits
  BY OneLess
<1>4. Body(f)
  <2>1. \A t \in SUBSET hits : f[t] = IF t = {} THEN 0 ELSE EXPOSURE_SCORE[OneOf(t).severity + 1] + f[t \ {OneOf(t)}]
    BY <1>1, <1>2, <1>3 DEF IsTotal
  <2> QED BY <2>1
<1>5. PICK g : g = CHOOSE h : Body(h)
  OBVIOUS
<1>6. Body(g)
  BY <1>4, <1>5, Zenon
<1>7. ScoreOf(hits) = g[hits]
  BY <1>5 DEF ScoreOf, MapThenSumSet, MapThenFoldSet, OneOf
<1>8. \A t \in SUBSET hits : IsTotal(g, w, t)
  BY <1>1, <1>3, <1>6 DEF IsTotal
<1> DEFINE U == {k \in 0 .. Cardinality(hits) : \A t \in SUBSET hits : Cardinality(t) = k => g[t] \in Nat}
<1>9. Cardinality(hits) \in Nat
  BY FS_CardinalityType
<1>10. 0 \in U
  <2>1. \A t \in SUBSET hits : Cardinality(t) = 0 => t = {}
    BY OneLess
  <2> QED BY <1>8, <1>9, <2>1 DEF IsTotal
<1>11. ASSUME NEW k \in 1 .. Cardinality(hits), k - 1 \in U
       PROVE  k \in U
  <2> SUFFICES ASSUME NEW t \in SUBSET hits, Cardinality(t) = k
               PROVE  g[t] \in Nat
    BY <1>9
  <2>1. t # {} /\ Cardinality(t \ {OneOf(t)}) = k - 1
    BY OneLess
  <2>2. g[t \ {OneOf(t)}] \in Nat /\ w[OneOf(t)] \in Nat
    BY <1>1, <1>3, <1>11, <2>1
  <2> QED BY <1>8, <2>1, <2>2 DEF IsTotal
<1>12. \A k \in 0 .. Cardinality(hits) : k \in U
  <2> HIDE DEF U
  <2> QED BY <1>9, <1>10, <1>11, UpTo
<1> QED BY <1>7, <1>9, <1>12

-----------------------------------------------------------------------------
(* Routes, forecasts and exposure.                                         *)

\* A route that leads somewhere and takes time.
Travelled(r) == r \in Routes /\ Line(r.path) /\ r.minutes \in Nat \ {0}

LEMMA RouteAlong ==
  ASSUME NEW r \in Routes, NEW path \in Paths
  PROVE  /\ [r EXCEPT !.path = path] \in Routes
         /\ [r EXCEPT !.path = path].id = r.id
         /\ [r EXCEPT !.path = path].path = path
         /\ [r EXCEPT !.path = path].minutes = r.minutes
BY DEF Routes

\* The valid routes, in their order, are routes of the context.
LEMMA SortedRoutesFit ==
  ASSUME NEW routes \in Seq(Routes)
  PROVE  /\ SortedRoutes(routes) \in Seq(Routes)
         /\ \A k \in DOMAIN SortedRoutes(routes) :
              /\ Travelled(SortedRoutes(routes)[k])
              /\ \E i \in DOMAIN routes : SortedRoutes(routes)[k].id = routes[i].id
<1> DEFINE valid == {i \in DOMAIN routes : ValidRoute(routes[i])}
           key == [i \in valid |-> <<Truth(routes[i].label # "ORIGINAL"), routes[i].minutes, i>>]
           order == Sorted(key)
           sorted == SortedRoutes(routes)
<1>1. DOMAIN routes = 1 .. Len(routes) /\ Len(routes) \in Nat /\ \A i \in DOMAIN routes : routes[i] \in Routes
  OBVIOUS
<1>2. valid \in SUBSET (1 .. Len(routes))
  BY <1>1
<1>3. IsFiniteSet(valid)
  <2> HIDE DEF valid
  <2> QED BY <1>1, <1>2, FiniteWithin
<1>4. key \in [valid -> Tuples(3)]
  <2>1. ASSUME NEW i \in valid
        PROVE  <<Truth(routes[i].label # "ORIGINAL"), routes[i].minutes, i>> \in Tuples(3)
    <3>1. routes[i].minutes \in Int /\ i \in Int
      BY <1>1, <1>2 DEF Routes
    <3>2. Truth(routes[i].label # "ORIGINAL") \in Int
      BY DEF Truth
    <3> QED BY <3>1, <3>2 DEF Tuples
  <2> HIDE DEF valid
  <2> QED BY <2>1
<1>5. \A i, j \in valid : key[i] = key[j] => i = j
  <2> HIDE DEF valid
  <2> QED OBVIOUS
<1> HIDE DEF key, valid
<1>6. PICK n \in Nat : n = Cardinality(valid) /\ order \in [1 .. n -> valid]
  BY <1>3, <1>4, <1>5, SortedIsBijection
<1>7. sorted = [k \in 1 .. n |->
                  [routes[order[k]] EXCEPT !.path = NormalizedPath(routes[order[k]].path)]]
  BY <1>6 DEF SortedRoutes, key, valid
<1> HIDE DEF order, sorted
<1>8. ASSUME NEW k \in 1 .. n
      PROVE  /\ Travelled(sorted[k])
             /\ \E i \in DOMAIN routes : sorted[k].id = routes[i].id
  <2>1. PICK i : i = order[k]
    OBVIOUS
  <2>2. i \in DOMAIN routes /\ routes[i] \in Routes /\ ValidRoute(routes[i])
    BY <1>1, <1>6, <2>1 DEF valid
  <2>3. /\ routes[i].path \in Seq(Positions) /\ Cardinality(Range(routes[i].path)) > 1
        /\ routes[i].minutes \in Nat \ {0}
    BY <2>2 DEF ValidRoute, Routes, Paths
  <2>4. PICK path : path = NormalizedPath(routes[i].path)
    OBVIOUS
  <2>5. Line(path) /\ path \in Paths
    BY <2>3, <2>4, LineOf DEF Line, Paths
  <2>6. sorted[k] = [routes[i] EXCEPT !.path = path]
    BY <1>7, <2>1, <2>4
  <2> QED BY <2>2, <2>3, <2>5, <2>6, RouteAlong DEF Travelled
<1>9. sorted \in Seq(Routes) /\ DOMAIN sorted = 1 .. n
  <2>1. sorted \in [1 .. n -> Routes]
    BY <1>7, <1>8 DEF Travelled
  <2> QED BY <2>1
<1> QED BY <1>8, <1>9 DEF sorted

LEMMA ExpectedFits ==
  ASSUME NEW path, Line(path)
  PROVE  ExpectedSamples(path) \in 2 .. 12
<1>1. path[1] \in Positions /\ path[2] \in Positions /\ Len(path) - 1 \in Nat
  BY DEF Line
<1>2. PICK k \in Nat : k = PathLength(path)
  <2>1. Distance(path[1], path[2]) \in Nat
    BY <1>1, DistanceNat
  <2> QED BY <1>1, <2>1 DEF PathLength
<1>3. k \div 50 \in Nat
  OBVIOUS
<1> QED BY <1>2, <1>3 DEF ExpectedSamples, Larger, Smaller

\* The coverage is a share.
LEMMA MatchFits ==
  ASSUME NEW r, Travelled(r), NEW n \in Nat, NEW weather, DOMAIN weather = 1 .. n, NEW departure
  PROVE  /\ MatchWeather(r, weather, departure).points \in SUBSET (1 .. n)
         /\ MatchWeather(r, weather, departure).coverage \in Percent
<1>1. PICK expected \in 2 .. 12 : expected = ExpectedSamples(r.path)
  BY ExpectedFits DEF Travelled
<1>2. MatchWeather(r, weather, departure).points \in SUBSET (1 .. n)
  BY MetWeather
<1>3. \E S \in SUBSET (0 .. expected - 1) :
         MatchWeather(r, weather, departure).coverage = (100 * Cardinality(S)) \div expected
  BY <1>1 DEF MatchWeather
<1>4. PICK S \in SUBSET (0 .. expected - 1) :
         MatchWeather(r, weather, departure).coverage = (100 * Cardinality(S)) \div expected
  BY <1>3
<1>5. PICK T : T = 0 .. expected - 1
  OBVIOUS
<1>6. IsFiniteSet(S) /\ Cardinality(S) <= expected
  <2>1. IsFiniteSet(T) /\ Cardinality(T) = expected
    <3>1. PICK last \in Nat : last = expected - 1 /\ expected = last + 1
      OBVIOUS
    <3>2. PICK zero \in Int : zero = 0
      OBVIOUS
    <3>3. T = zero .. last /\ last \in Int
      BY <1>5, <3>1, <3>2
    <3>4. IsFiniteSet(zero .. last) /\ Cardinality(zero .. last) = IF zero > last THEN 0 ELSE last - zero + 1
      BY <3>3, FS_Interval, Zenon
    <3> QED BY <3>1, <3>2, <3>3, <3>4
  <2>2. S \in SUBSET T
    BY <1>5
  <2> QED BY <2>1, <2>2, FS_Subset
<1> QED BY <1>2, <1>4, <1>6, PartOf

LEMMA HitsFit ==
  ASSUME NEW path, NEW buffer, NEW events \in Seq(Events), NEW window
  PROVE  Hits(path, buffer, events, window) \in SUBSET Events /\ IsFiniteSet(Hits(path, buffer, events, window))
<1>1. IsFiniteSet(Range(events)) /\ Range(events) \in SUBSET Events
  BY RecordsFinite
<1>2. Hits(path, buffer, events, window) \in SUBSET Range(events)
  BY DEF Hits
<1>3. IsFiniteSet(Hits(path, buffer, events, window))
  BY <1>1, <1>2, FS_Subset
<1> QED BY <1>1, <1>2, <1>3

\* The minutes in severe weather, a sample of the route for each forecast.
SevereMinutes(r, weather, matched) ==
  Cardinality({k \in matched : weather[k].severity >= SEVERE}) * (r.minutes \div ExpectedSamples(r.path))

LEMMA SevereMinutesFit ==
  ASSUME NEW r, Travelled(r), NEW weather, NEW n \in Nat, NEW matched \in SUBSET (1 .. n)
  PROVE  SevereMinutes(r, weather, matched) \in Nat
<1>1. PICK S : S = {k \in matched : weather[k].severity >= SEVERE}
  OBVIOUS
<1>2. S \in SUBSET (1 .. n)
  BY <1>1
<1>3. Cardinality(S) \in Nat
  BY <1>2, PositionsIn
<1>4. PICK e \in 2 .. 12 : e = ExpectedSamples(r.path)
  BY ExpectedFits DEF Travelled
<1>5. r.minutes \div e \in Nat
  BY DEF Travelled
<1> QED BY <1>1, <1>3, <1>4, <1>5 DEF SevereMinutes

\* The exposure of a route to any events and forecasts is well-formed (annotate).
LEMMA ExposureFits ==
  ASSUME NEW r, Travelled(r), NEW hits \in SUBSET Events, IsFiniteSet(hits),
         NEW weather \in Seq(WeatherPoints), NEW n \in Nat, DOMAIN weather = 1 .. n,
         NEW matched \in SUBSET (1 .. n)
  PROVE  ExposureOf(r, hits, weather, matched) \in Exposures
<1> DEFINE x == ExposureOf(r, hits, weather, matched)
<1>1. PICK minutes \in Nat : minutes = SevereMinutes(r, weather, matched)
  BY SevereMinutesFit
<1>2. PICK closed \in BOOLEAN : closed = \E e \in hits : e.closure
  OBVIOUS
<1>3. PICK base \in Nat : base = ScoreOf(hits)
  BY ScoreOfNat
<1>4. PICK part : part = (60 * Smaller(60, (100 * minutes) \div r.minutes)) \div 100
  OBVIOUS
<1>5. part \in Nat
  <2>1. (100 * minutes) \div r.minutes \in Nat
    BY DEF Travelled
  <2>2. PICK k \in 0 .. 60 : k = Smaller(60, (100 * minutes) \div r.minutes)
    BY <2>1, Cut
  <2>3. part = (60 * k) \div 100
    BY <1>4, <2>2
  <2> QED BY <2>3
<1>6. PICK score : score = IF closed THEN 100 ELSE Smaller(100, base + part)
  OBVIOUS
<1>7. score \in Percent
  <2>1. PICK sum \in Nat : sum = base + part
    BY <1>5
  <2>2. Smaller(100, sum) \in 0 .. 100
    BY Cut
  <2> QED BY <1>6, <2>1, <2>2 DEF Percent
<1>8. PICK ids : ids = {e.id : e \in hits}
  OBVIOUS
<1>9. ids \in SUBSET STRING
  BY <1>8 DEF Events
<1> DEFINE S == {e.severity : e \in hits} \cup {weather[k].severity : k \in matched}
<1>10. S \in SUBSET (0 .. 5)
  <2>1. \A e \in hits : e.severity \in 0 .. 5
    BY DEF Events, Severities
  <2>2. \A k \in matched : weather[k].severity \in 0 .. 5
    <3>1. \A k \in 1 .. n : weather[k] \in WeatherPoints
      OBVIOUS
    <3> QED BY <3>1 DEF WeatherPoints, Severities
  <2> QED BY <2>1, <2>2
<1> HIDE DEF S
<1>11. PICK severity : severity = Largest(S, 0)
  OBVIOUS
<1>12. severity \in Severities
  <2>1. 5 \in Nat /\ 0 \in 0 .. 5
    OBVIOUS
  <2>2. Largest(S, 0) \in 0 .. 5
    BY <1>10, <2>1, LargestBounded
  <2> QED BY <1>11, <2>2 DEF Severities
<1>13. x = [score |-> score, events |-> ids, closed |-> closed, severeMinutes |-> minutes,
            severity |-> severity]
  BY <1>1, <1>2, <1>3, <1>4, <1>6, <1>8, <1>11 DEF ExposureOf, ScoreOf, SevereMinutes, S
<1> HIDE DEF x
<1> QED BY <1>7, <1>9, <1>12, <1>13 DEF Exposures, x

LEMMA RouteExposedFits ==
  ASSUME NEW r \in Routes, NEW x \in Exposures, NEW u \in BOOLEAN
  PROVE  /\ [r EXCEPT !.exposure = x, !.usable = u] \in Routes
         /\ [r EXCEPT !.exposure = x, !.usable = u].path = r.path
         /\ [r EXCEPT !.exposure = x, !.usable = u].minutes = r.minutes
         /\ [r EXCEPT !.exposure = x, !.usable = u].id = r.id
<1>1. PICK a : a = [r EXCEPT !.exposure = x]
  OBVIOUS
<1>2. a \in Routes /\ a.path = r.path /\ a.minutes = r.minutes /\ a.id = r.id
  BY <1>1 DEF Routes
<1>3. [r EXCEPT !.exposure = x, !.usable = u] = [a EXCEPT !.usable = u]
  BY <1>1, Zenon
<1>4. [a EXCEPT !.usable = u] \in Routes /\ [a EXCEPT !.usable = u].path = a.path
      /\ [a EXCEPT !.usable = u].minutes = a.minutes /\ [a EXCEPT !.usable = u].id = a.id
  BY <1>2 DEF Routes
<1> QED BY <1>2, <1>3, <1>4

LEMMA EnrichedFits ==
  ASSUME NEW r, Travelled(r), NEW events \in Seq(Events), NEW weather \in Seq(WeatherPoints),
         NEW buffer, NEW window
  PROVE  /\ Travelled(Enriched(r, events, weather, buffer, window))
         /\ Enriched(r, events, weather, buffer, window).id = r.id
<1>1. PICK n \in Nat : DOMAIN weather = 1 .. n
  OBVIOUS
<1>2. PICK hits : hits = Hits(r.path, buffer, events, window)
  OBVIOUS
<1>3. hits \in SUBSET Events /\ IsFiniteSet(hits)
  BY <1>2, HitsFit
<1>4. PICK met : met = MatchWeather(r, weather, window.departure).points
  OBVIOUS
<1>5. met \in SUBSET (1 .. n)
  BY <1>1, <1>4, MatchFits
<1>6. PICK x : x = ExposureOf(r, hits, weather, met)
  OBVIOUS
<1>7. x \in Exposures
  BY <1>1, <1>3, <1>5, <1>6, ExposureFits
<1>8. PICK u \in BOOLEAN : u = ~x.closed
  OBVIOUS
<1>9. Enriched(r, events, weather, buffer, window) = [r EXCEPT !.exposure = x, !.usable = u]
  BY <1>2, <1>4, <1>6, <1>8, Zenon DEF Enriched
<1>10. PICK e : e = [r EXCEPT !.exposure = x, !.usable = u]
  OBVIOUS
<1>11. e \in Routes /\ e.path = r.path /\ e.minutes = r.minutes /\ e.id = r.id
  BY <1>7, <1>10, RouteExposedFits DEF Travelled
<1> QED BY <1>9, <1>10, <1>11 DEF Travelled

-----------------------------------------------------------------------------
(* The features of a route.                                                *)

\* A number that is given, or none.
GivenIf(x) == IF x < 0 THEN {} ELSE {x}

LEMMA GivenLargest ==
  ASSUME NEW S, IsFiniteSet(S), NEW n, NEW T, S \in SUBSET T, T = Nat \/ (n \in Nat /\ T = 0 .. n)
  PROVE  GivenIf(Largest(S, -1)) \in Optional(T)
<1>1. T \in SUBSET Nat /\ S \in SUBSET Nat
  <2>1. CASE T = Nat
    BY <2>1
  <2>2. CASE n \in Nat /\ T = 0 .. n
    BY <2>2
  <2> QED BY <2>1, <2>2
<1>2. CASE Largest(S, -1) = -1
  BY <1>2, OptionalOne DEF GivenIf, Optional
<1>3. CASE Largest(S, -1) \in S
  <2>1. PICK x \in T : x = Largest(S, -1)
    BY <1>3
  <2>2. x \in Nat
    BY <1>1
  <2>3. GivenIf(x) = {x}
    BY <2>2 DEF GivenIf
  <2> QED BY <2>1, <2>3, OptionalOne
<1> QED BY <1>1, <1>2, <1>3, LargestGiven

\* The optional values of some records.
LEMMA LargestOptional ==
  ASSUME NEW D, NEW f, OptionalValues(f, D, Nat)
  PROVE  /\ GivenIf(Largest(UNION {f[x] : x \in D}, -1)) \in Optional(Nat)
         /\ Largest(UNION {f[x] : x \in D}, 0) \in Nat
<1>1. IsFiniteSet(AllOf(f, D)) /\ AllOf(f, D) \in SUBSET Nat
  BY OptionalsFinite
<1>2. GivenIf(Largest(AllOf(f, D), -1)) \in Optional(Nat)
  BY <1>1, GivenLargest
<1>3. Largest(AllOf(f, D), 0) \in Nat
  BY <1>1, LargestGiven
<1> QED BY <1>2, <1>3 DEF AllOf

LEMMA CountNat ==
  ASSUME NEW S, IsFiniteSet(S), NEW T \in SUBSET S
  PROVE  Cardinality(T) \in Nat
<1>1. IsFiniteSet(T)
  BY FS_Subset
<1> QED BY <1>1, FS_CardinalityType

\* The features of any snapshot are well-formed (build_features).
LEMMA FeaturesFit ==
  ASSUME NEW route \in Routes, NEW hits \in SUBSET Events, IsFiniteSet(hits),
         NEW wx \in SUBSET WeatherPoints, IsFiniteSet(wx), NEW coverage \in Percent,
         NEW transport \in Seq(TransportStatuses), NEW qualities \in Seq(Qualities)
  PROVE  FeaturesOf(route, hits, wx, coverage, transport, qualities) \in Features
<1> DEFINE f == FeaturesOf(route, hits, wx, coverage, transport, qualities)
<1>1. PICK precip : precip = Largest(UNION {w.precip : w \in wx}, -1)
  OBVIOUS
<1>2. GivenIf(precip) \in Optional(Nat)
  <2> DEFINE g == [w \in wx |-> w.precip]
  <2>1. OptionalValues(g, wx, Nat)
    BY DEF WeatherPoints, OptionalValues
  <2>2. {g[w] : w \in wx} = {w.precip : w \in wx} /\ DOMAIN g = wx
    OBVIOUS
  <2> HIDE DEF g
  <2>3. GivenIf(Largest(UNION {g[w] : w \in wx}, -1)) \in Optional(Nat)
    BY <2>1, <2>2, LargestOptional
  <2> QED BY <1>1, <2>2, <2>3
<1>3. PICK gust : gust = Largest(UNION {w.gust : w \in wx}, -1)
  OBVIOUS
<1>4. GivenIf(gust) \in Optional(Nat)
  <2> DEFINE g == [w \in wx |-> w.gust]
  <2>1. OptionalValues(g, wx, Nat)
    BY DEF WeatherPoints, OptionalValues
  <2>2. {g[w] : w \in wx} = {w.gust : w \in wx} /\ DOMAIN g = wx
    OBVIOUS
  <2> HIDE DEF g
  <2>3. GivenIf(Largest(UNION {g[w] : w \in wx}, -1)) \in Optional(Nat)
    BY <2>1, <2>2, LargestOptional
  <2> QED BY <1>3, <2>2, <2>3
<1>5. PICK worst : worst = Largest({w.severity : w \in wx}, -1)
  OBVIOUS
<1>6. GivenIf(worst) \in Optional(Severities)
  <2> DEFINE g == [w \in wx |-> w.severity]
             S == {w.severity : w \in wx}
  <2>1. \A w \in wx : g[w] \in 0 .. 5
    BY DEF WeatherPoints, Severities
  <2>2. {g[w] : w \in wx} = S /\ DOMAIN g = wx
    OBVIOUS
  <2> HIDE DEF g, S
  <2>3. IsFiniteSet(S) /\ S \in SUBSET (0 .. 5)
    BY <2>1, <2>2, RangeFinite
  <2>4. PICK T : T = 0 .. 5
    OBVIOUS
  <2>5. PICK n \in Nat : T = 0 .. n
    BY <2>4
  <2>6. GivenIf(Largest(S, -1)) \in Optional(T)
    BY <2>3, <2>4, <2>5, GivenLargest
  <2> QED BY <1>5, <2>4, <2>6 DEF S, Severities
<1>7. PICK quakes : quakes = {e \in hits : e.type = "EARTHQUAKE"}
  OBVIOUS
<1>8. PICK magnitude : magnitude = Largest(UNION {e.magnitude : e \in quakes}, -1)
  OBVIOUS
<1>9. GivenIf(magnitude) \in Optional(Nat)
  <2> DEFINE g == [e \in quakes |-> e.magnitude]
  <2>3. IsFiniteSet(quakes)
    BY <1>7, FS_Subset
  <2>1. OptionalValues(g, quakes, Nat)
    BY <1>7, <2>3 DEF Events, OptionalValues
  <2>2. {g[e] : e \in quakes} = {e.magnitude : e \in quakes} /\ DOMAIN g = quakes
    OBVIOUS
  <2> HIDE DEF g
  <2>4. GivenIf(Largest(UNION {g[e] : e \in quakes}, -1)) \in Optional(Nat)
    BY <2>1, <2>2, LargestOptional
  <2> QED BY <1>8, <2>2, <2>4
<1>10. PICK alerts \in Nat : alerts = Cardinality({e \in hits : e.official})
  BY CountNat
<1>11. PICK events \in Nat : events = Cardinality(hits)
  BY FS_CardinalityType
<1>12. PICK closures \in Nat : closures = Cardinality({e \in hits : e.closure})
  BY CountNat
<1>13. PICK delayed \in Nat : delayed = Cardinality({i \in DOMAIN transport : transport[i].status \in {"DELAYED", "DISRUPTED", "CANCELLED"}})
  <2>1. IsFiniteSet(DOMAIN transport)
    BY RecordsFinite
  <2> QED BY <2>1, CountNat
<1>14. PICK missing \in Nat : missing = Truth(precip < 0) + Truth(gust < 0)
  BY DEF Truth
<1>15. PICK late : late = {i \in DOMAIN qualities : \/ "STALE" \in qualities[i].flags
                                                    \/ qualities[i].status = "STALE"}
  OBVIOUS
<1>16. PICK stale : stale = IF qualities = <<>> THEN 0 ELSE (100 * Cardinality(late)) \div Len(qualities)
  OBVIOUS
<1>17. stale \in Percent
  <2>1. CASE qualities = <<>>
    BY <1>16, <2>1 DEF Percent
  <2>2. CASE qualities # <<>>
    <3>1. PICK n \in Nat \ {0} : n = Len(qualities) /\ DOMAIN qualities = 1 .. n
      BY <2>2
    <3>2. late \in SUBSET (1 .. n)
      BY <1>15, <3>1
    <3>3. IsFiniteSet(late) /\ Cardinality(late) <= n
      BY <3>2, PositionsIn
    <3> QED BY <1>16, <2>2, <3>1, <3>3, PartOf
  <2> QED BY <2>1, <2>2
<1>18. route.exposure.severeMinutes \in Nat
  BY DEF Routes, Exposures
<1>19. f = [precip |-> GivenIf(precip), gust |-> GivenIf(gust), weather |-> GivenIf(worst),
            severeMinutes |-> route.exposure.severeMinutes, coverage |-> coverage,
            magnitude |-> GivenIf(magnitude), alerts |-> alerts, events |-> events,
            closures |-> closures, delayed |-> delayed, missing |-> missing, stale |-> stale]
  BY <1>1, <1>3, <1>5, <1>7, <1>8, <1>10, <1>11, <1>12, <1>13, <1>14, <1>15, <1>16, Zenon DEF FeaturesOf, GivenIf
<1> HIDE DEF f
<1> QED BY <1>2, <1>4, <1>6, <1>9, <1>17, <1>18, <1>19 DEF Features, f

-----------------------------------------------------------------------------
(* The quality of a group of records.                                      *)

\* The freshness of one record, of its age against the time to live of its group.
FreshScore(q, ttl) == Largest({Larger(0, 100 - (50 * a) \div ttl) : a \in q.age}, 70)

LEMMA FreshScoreFits ==
  ASSUME NEW q \in Qualities, NEW ttl \in Nat \ {0}
  PROVE  FreshScore(q, ttl) \in 0 .. 100
<1> DEFINE S == {Larger(0, 100 - (50 * a) \div ttl) : a \in q.age}
<1>1. ASSUME NEW a \in Nat
      PROVE  Larger(0, 100 - (50 * a) \div ttl) \in 0 .. 100
  <2>1. PICK k \in Nat : k = (50 * a) \div ttl
    OBVIOUS
  <2> QED BY <2>1 DEF Larger
<1>2. q.age \in SUBSET Nat
  BY OptionalIs DEF Qualities
<1>3. S \in SUBSET (0 .. 100)
  BY <1>1, <1>2
<1> HIDE DEF S
<1>4. 70 \in 0 .. 100 /\ 100 \in Nat
  OBVIOUS
<1>5. Largest(S, 70) \in 0 .. 100
  BY <1>3, <1>4, LargestBounded
<1> QED BY <1>5 DEF FreshScore, S

\* The score of a group is a weighted mean of percentages.
LEMMA WeightedFits ==
  ASSUME NEW a \in 0 .. 100, NEW b \in 0 .. 100, NEW c \in 0 .. 100, NEW d \in 0 .. 100
  PROVE  (35 * a + 20 * b + 20 * c + 15 * d + 10 * 100) \div 100 \in Percent
<1>1. PICK n \in Nat : n = 35 * a + 20 * b + 20 * c + 15 * d + 10 * 100 /\ n <= 100 * 100
  OBVIOUS
<1>2. 100 \in Nat \ {0} /\ 100 \in Nat
  OBVIOUS
<1> QED BY <1>1, <1>2, Quotient DEF Percent

\* The largest age of some records.
LEMMA OldestNat ==
  ASSUME NEW D, IsFiniteSet(D), D \in SUBSET Qualities
  PROVE  Largest(UNION {q.age : q \in D}, 0) \in Nat
<1> DEFINE g == [q \in D |-> q.age]
<1>1. OptionalValues(g, D, Nat)
  BY DEF Qualities, OptionalValues
<1>2. {g[q] : q \in D} = {q.age : q \in D} /\ DOMAIN g = D
  OBVIOUS
<1> HIDE DEF g
<1>3. Largest(UNION {g[q] : q \in D}, 0) \in Nat
  BY <1>1, LargestOptional
<1> QED BY <1>2, <1>3

\* The quality of a group of records is a quality (summarize_group).
LEMMA SummarizeGroupFits ==
  ASSUME NEW qualities \in Seq(Qualities), NEW ttl \in Nat \ {0}, NEW coverage \in SUBSET Percent
  PROVE  SummarizeGroup(qualities, ttl, coverage) \in Qualities
<1>1. CASE qualities = <<>>
  <2>1. SummarizeGroup(qualities, ttl, coverage) =
          [status |-> "UNAVAILABLE", score |-> 0, flags |-> {"MISSING"}, coverage |-> 0,
           completeness |-> 0, age |-> {}]
    BY <1>1, Zenon DEF SummarizeGroup
  <2>2. /\ "UNAVAILABLE" \in Statuses /\ 0 \in Percent /\ {"MISSING"} \in SUBSET Flags
        /\ {} \in Optional(Nat)
    BY DEF Statuses, Percent, Flags, Optional
  <2> QED BY <2>1, <2>2 DEF Qualities
<1>2. CASE qualities # <<>>
  <2>1. PICK n \in Nat \ {0} : n = Len(qualities) /\ DOMAIN qualities = 1 .. n /\ qualities \in [1 .. n -> Qualities]
    BY <1>2
  <2>2. 100 \in Nat
    OBVIOUS
  <2>3. PICK fresh : fresh = [i \in DOMAIN qualities |-> FreshScore(qualities[i], ttl)]
    OBVIOUS
  <2>4. fresh \in [1 .. n -> 0 .. 100]
    BY <2>1, <2>3, FreshScoreFits
  <2>5. Mean(fresh) \in 0 .. 100
    BY <2>1, <2>2, <2>4, MeanBounded
  <2>6. PICK completes : completes = [i \in DOMAIN qualities |-> qualities[i].completeness]
    OBVIOUS
  <2>7. completes \in [1 .. n -> 0 .. 100]
    BY <2>1, <2>6 DEF Qualities, Percent
  <2>8. Mean(completes) \in 0 .. 100
    BY <2>1, <2>2, <2>7, MeanBounded
  <2>9. PICK covers : covers = [i \in DOMAIN qualities |-> qualities[i].coverage]
    OBVIOUS
  <2>10. covers \in [1 .. n -> 0 .. 100]
    BY <2>1, <2>9 DEF Qualities, Percent
  <2>11. Mean(covers) \in 0 .. 100
    BY <2>1, <2>2, <2>10, MeanBounded
  <2>12. PICK covered : covered = Largest(coverage, Mean(covers))
    OBVIOUS
  <2>13. covered \in 0 .. 100
    <3>1. PICK mean \in 0 .. 100 : mean = Mean(covers)
      BY <2>11
    <3>2. coverage \in SUBSET (0 .. 100)
      BY DEF Percent
    <3>3. Largest(coverage, mean) \in 0 .. 100
      BY <2>2, <3>2, LargestBounded
    <3> QED BY <2>12, <3>1, <3>3
  <2>14. PICK agreed \in 0 .. 100 :
           agreed = IF \E i \in DOMAIN qualities : "CONFLICTING" \in qualities[i].flags THEN 50 ELSE 100
    OBVIOUS
  <2>15. PICK score : score = (35 * Mean(fresh) + 20 * Mean(completes) + 20 * covered + 15 * agreed + 10 * 100) \div 100
    OBVIOUS
  <2>16. score \in Percent
    BY <2>5, <2>8, <2>13, <2>15, WeightedFits
  <2>17. PICK D : D = Range(qualities)
    OBVIOUS
  <2>18. D \in SUBSET Qualities /\ IsFiniteSet(D)
    BY <2>17, RecordsFinite
  <2>19. PICK flags : flags = UNION {q.flags : q \in D}
    OBVIOUS
  <2>20. flags \in SUBSET Flags
    BY <2>18, <2>19 DEF Qualities
  <2>21. PICK age \in Nat : age = Largest(UNION {q.age : q \in D}, 0)
    BY <2>18, OldestNat
  <2>22. \E status \in Statuses, total \in {0, score} :
           SummarizeGroup(qualities, ttl, coverage) =
             [status |-> status, score |-> total, flags |-> flags, coverage |-> covered,
              completeness |-> Mean(completes), age |-> {age}]
    <3>1. PICK absent \in BOOLEAN : absent = \A i \in DOMAIN qualities : qualities[i].status = "UNAVAILABLE"
      OBVIOUS
    <3>2. PICK conflicting \in BOOLEAN : conflicting = \E i \in DOMAIN qualities : "CONFLICTING" \in qualities[i].flags
      OBVIOUS
    <3>3. PICK stale : stale = Cardinality({i \in DOMAIN qualities : qualities[i].status = "STALE"})
      OBVIOUS
    <3>4. PICK status : status = IF absent THEN "UNAVAILABLE" ELSE IF conflicting THEN "CONFLICTING"
                                 ELSE IF 2 * stale > Len(qualities) THEN "STALE"
                                 ELSE IF covered < 100 \/ stale > 0 THEN "PARTIAL" ELSE "FRESH"
      OBVIOUS
    <3>5. status \in Statuses
      BY <3>4 DEF Statuses
    <3>6. PICK total : total = IF absent THEN 0 ELSE score
      OBVIOUS
    <3>7. SummarizeGroup(qualities, ttl, coverage) =
             [status |-> status, score |-> total, flags |-> flags, coverage |-> covered,
              completeness |-> Mean(completes), age |-> {age}]
      BY <1>2, <2>3, <2>6, <2>9, <2>12, <2>14, <2>15, <2>17, <2>19, <2>21, <3>1, <3>2, <3>3, <3>4, <3>6, ZenonT(60)
         DEF SummarizeGroup, FreshScore
    <3> QED BY <3>5, <3>6, <3>7
  <2>23. PICK status \in Statuses, total \in {0, score} :
           SummarizeGroup(qualities, ttl, coverage) =
             [status |-> status, score |-> total, flags |-> flags, coverage |-> covered,
              completeness |-> Mean(completes), age |-> {age}]
    BY <2>22
  <2>24. total \in Percent /\ covered \in Percent /\ Mean(completes) \in Percent /\ {age} \in Optional(Nat)
    <3>1. 0 \in Percent
      BY DEF Percent
    <3>2. {age} \in Optional(Nat)
      BY <2>21, OptionalOne
    <3> QED BY <2>8, <2>13, <2>16, <2>23, <3>1, <3>2 DEF Percent
  <2>25. [status |-> status, score |-> total, flags |-> flags, coverage |-> covered,
          completeness |-> Mean(completes), age |-> {age}] \in Qualities
    BY <2>20, <2>24 DEF Qualities
  <2> QED BY <2>23, <2>25
<1> QED BY <1>1, <1>2

-----------------------------------------------------------------------------
(* The gate.                                                               *)

LEMMA ThreeAtMost ==
  ASSUME NEW a, NEW b, NEW c, NEW S \in SUBSET {a, b, c}
  PROVE  Cardinality(S) \in 0 .. 3
<1>1. IsFiniteSet({}) /\ Cardinality({}) = 0
  BY FS_EmptySet
<1>2. IsFiniteSet({a}) /\ Cardinality({a}) = 1
  BY FS_Singleton
<1>3. IsFiniteSet({a} \cup {b}) /\ Cardinality({a} \cup {b}) \in 1 .. 2
  BY <1>2, FS_AddElement
<1>4. IsFiniteSet(({a} \cup {b}) \cup {c}) /\ Cardinality(({a} \cup {b}) \cup {c}) \in 1 .. 3
  BY <1>3, FS_AddElement
<1>5. S \subseteq ({a} \cup {b}) \cup {c}
  OBVIOUS
<1>6. IsFiniteSet(S) /\ Cardinality(S) <= Cardinality(({a} \cup {b}) \cup {c})
  BY <1>4, <1>5, FS_Subset, Zenon
<1>7. Cardinality(S) \in Nat
  BY <1>6, FS_CardinalityType
<1> QED BY <1>4, <1>6, <1>7

LEMMA QualityLess ==
  ASSUME NEW q \in Qualities, NEW score \in Percent, NEW status \in Statuses, NEW flags \in SUBSET Flags
  PROVE  [q EXCEPT !.score = score, !.status = status, !.flags = flags] \in Qualities
BY DEF Qualities

\* A fifth less, for each of the disaster providers that failed.
LEMMA LessScore ==
  ASSUME NEW n \in 0 .. 100, NEW k \in {800, 640, 512}
  PROVE  (n * k) \div 1000 \in 0 .. 100
<1>1. CASE k = 800
  BY <1>1
<1>2. CASE k = 640
  BY <1>2
<1>3. CASE k = 512
  BY <1>3
<1> QED BY <1>1, <1>2, <1>3

\* So is that of the disaster providers, with a fifth off for each that failed.
LEMMA DisasterQualityFits ==
  ASSUME NEW events \in Seq(Events), NEW degraded
  PROVE  DisasterQuality(events, degraded) \in Qualities
<1> DEFINE failing == Cardinality(degraded \cap {"usgs", "gdacs", "eonet"})
           whole == IF events # <<>>
                    THEN SummarizeGroup([i \in DOMAIN events |-> events[i].quality], 600, {100})
                    ELSE [status |-> "FRESH", score |-> 100, flags |-> {}, coverage |-> 100,
                          completeness |-> 100, age |-> {}]
<1>0. DisasterQuality(events, degraded) =
        IF failing = 0 THEN whole
        ELSE [whole EXCEPT !.score = (@ * <<800, 640, 512>>[failing]) \div 1000,
                           !.status = IF @ = "FRESH" THEN "PARTIAL" ELSE @,
                           !.flags = @ \cup {"INCOMPLETE"}]
  BY ZenonT(60) DEF DisasterQuality
<1>1. PICK failed : failed = failing
  OBVIOUS
<1>2. failed \in 0 .. 3
  <2>1. degraded \cap {"usgs", "gdacs", "eonet"} \in SUBSET {"usgs", "gdacs", "eonet"}
    OBVIOUS
  <2> QED BY <1>1, <2>1, ThreeAtMost
<1>3. PICK group : group = whole
  BY ZenonT(60)
<1> HIDE DEF failing
<1>4. group \in Qualities
  <2>1. CASE events # <<>>
    <3>1. PICK qualities : qualities = [i \in DOMAIN events |-> events[i].quality]
      OBVIOUS
    <3>2. PICK n \in Nat : DOMAIN events = 1 .. n /\ events \in [1 .. n -> Events]
      OBVIOUS
    <3>3. qualities \in [1 .. n -> Qualities]
      BY <3>1, <3>2 DEF Events
    <3>4. PICK ttl \in Nat \ {0} : ttl = 600
      OBVIOUS
    <3>5. PICK coverage : coverage = {100}
      OBVIOUS
    <3>6. qualities \in Seq(Qualities) /\ coverage \in SUBSET Percent
      BY <3>3, <3>5 DEF Percent
    <3>7. SummarizeGroup(qualities, ttl, coverage) \in Qualities
      BY <3>6, SummarizeGroupFits
    <3> QED BY <1>3, <2>1, <3>1, <3>4, <3>5, <3>7, Zenon
  <2>2. CASE events = <<>>
    <3>1. group = [status |-> "FRESH", score |-> 100, flags |-> {}, coverage |-> 100,
                   completeness |-> 100, age |-> {}]
      BY <1>3, <2>2
    <3>2. {} \in Optional(Nat)
      BY DEF Optional
    <3> QED BY <3>1, <3>2 DEF Qualities, Statuses, Percent, Flags
  <2> QED BY <2>1, <2>2
<1> HIDE DEF whole
<1>5. CASE failed = 0
  BY <1>0, <1>1, <1>3, <1>4, <1>5
<1>6. CASE failed # 0
  <2>1. PICK score : score = (group.score * <<800, 640, 512>>[failed]) \div 1000
    OBVIOUS
  <2>2. score \in Percent
    <3>1. PICK k \in {800, 640, 512} : k = <<800, 640, 512>>[failed]
      BY <1>2, <1>6
    <3>2. PICK m \in 0 .. 100 : m = group.score
      BY <1>4 DEF Qualities, Percent
    <3>3. (m * k) \div 1000 \in 0 .. 100
      BY LessScore
    <3> QED BY <2>1, <3>1, <3>2, <3>3 DEF Percent
  <2>3. PICK status : status = IF group.status = "FRESH" THEN "PARTIAL" ELSE group.status
    OBVIOUS
  <2>4. status \in Statuses
    BY <1>4, <2>3 DEF Qualities, Statuses
  <2>5. PICK flags : flags = group.flags \cup {"INCOMPLETE"}
    OBVIOUS
  <2>6. flags \in SUBSET Flags
    BY <1>4, <2>5 DEF Qualities, Flags
  <2>7. DisasterQuality(events, degraded) = [group EXCEPT !.score = score, !.status = status, !.flags = flags]
    <3>1. DisasterQuality(events, degraded) =
            [group EXCEPT !.score = (@ * <<800, 640, 512>>[failed]) \div 1000,
                          !.status = IF @ = "FRESH" THEN "PARTIAL" ELSE @,
                          !.flags = @ \cup {"INCOMPLETE"}]
      BY <1>0, <1>1, <1>3, <1>6
    <3> QED BY <2>1, <2>3, <2>5, <3>1
  <2>8. [group EXCEPT !.score = score, !.status = status, !.flags = flags] \in Qualities
    BY <1>4, <2>2, <2>4, <2>6, QualityLess
  <2> QED BY <2>7, <2>8
<1> QED BY <1>5, <1>6

-----------------------------------------------------------------------------
(* The overall quality.                                                    *)

\* The weighted score with its bonus.
GateScore(a, b, c, d, bonus) == Smaller(100, (35 * a + 35 * b + 20 * c + 10 * d) \div 100 + bonus)

LEMMA GateScoreFits ==
  ASSUME NEW a \in 0 .. 100, NEW b \in 0 .. 100, NEW c \in 0 .. 100, NEW d \in 0 .. 100, NEW bonus \in 0 .. 2
  PROVE  GateScore(a, b, c, d, bonus) \in Percent
<1>1. PICK n \in Nat : n = (35 * a + 35 * b + 20 * c + 10 * d) \div 100
  OBVIOUS
<1> QED BY <1>1 DEF GateScore, Smaller, Percent

LEMMA BonusFits ==
  ASSUME NEW alerts \in SUBSET Events
  PROVE  Largest({(2 * e.authority) \div 4 : e \in alerts}, 0) \in 0 .. 2
<1> DEFINE S == {(2 * e.authority) \div 4 : e \in alerts}
<1>1. \A k \in 0 .. 4 : (2 * k) \div 4 \in 0 .. 2
  OBVIOUS
<1>2. \A e \in alerts : e.authority \in 0 .. 4
  BY DEF Events, Authorities
<1>3. S \in SUBSET (0 .. 2)
  BY <1>1, <1>2
<1> HIDE DEF S
<1>4. 2 \in Nat /\ 0 \in 0 .. 2
  OBVIOUS
<1>5. Largest(S, 0) \in 0 .. 2
  BY <1>3, <1>4, LargestBounded
<1> QED BY <1>5 DEF S

LEMMA ScoreFits ==
  ASSUME NEW q \in Qualities
  PROVE  q.score \in 0 .. 100
BY DEF Qualities, Percent

\* What the gate is made of.
Gated(g) == g.gate \in Gates /\ g.overall \in Qualities /\ g.reasons \in SUBSET GateReasons

\* The gate, its reasons and the overall quality are well-formed (gate).
LEMMA OverallAndGateFits ==
  ASSUME NEW route \in Qualities, NEW weather \in Qualities, NEW disaster \in Qualities,
         NEW transport \in Qualities, NEW routes, NEW coverage \in Percent, NEW conflicts,
         NEW alerts \in SUBSET Events
  PROVE  Gated(OverallAndGate(route, weather, disaster, transport, routes, coverage, conflicts, alerts))
<1>1. PICK g : g = OverallAndGate(route, weather, disaster, transport, routes, coverage, conflicts, alerts)
  OBVIOUS
<1>2. PICK parts : parts = <<route, weather, disaster, transport>>
  OBVIOUS
<1>3. parts \in Seq(Qualities) /\ \A k \in 1 .. 4 : parts[k] \in Qualities
  BY <1>2
<1>4. PICK D : D = Range(parts)
  OBVIOUS
<1>5. D \in SUBSET Qualities /\ IsFiniteSet(D)
  BY <1>3, <1>4, RecordsFinite
<1>6. PICK age \in Nat : age = Largest(UNION {q.age : q \in D}, 0)
  BY <1>5, OldestNat
<1>7. PICK flags : flags = UNION {q.flags : q \in D}
  OBVIOUS
<1>8. flags \in SUBSET Flags
  BY <1>5, <1>7 DEF Qualities
<1>9. PICK bonus \in 0 .. 2 : bonus = Largest({(2 * e.authority) \div 4 : e \in alerts}, 0)
  BY BonusFits
<1>10. PICK score : score = Smaller(100, (35 * route.score + 35 * weather.score + 20 * disaster.score
                               + 10 * transport.score) \div 100 + bonus)
  OBVIOUS
<1>11. score \in Percent
  <2>1. PICK r \in 0 .. 100 : r = route.score
    BY ScoreFits
  <2>2. PICK w \in 0 .. 100 : w = weather.score
    BY ScoreFits
  <2>3. PICK d \in 0 .. 100 : d = disaster.score
    BY ScoreFits
  <2>4. PICK t \in 0 .. 100 : t = transport.score
    BY ScoreFits
  <2>5. score = GateScore(r, w, d, t, bonus)
    BY ZenonT(60), <1>10, <2>1, <2>2, <2>3, <2>4 DEF GateScore
  <2>6. GateScore(r, w, d, t, bonus) \in Percent
    BY GateScoreFits
  <2> QED BY <2>5, <2>6
<1>12. PICK complete : complete = Mean([k \in 1 .. 4 |-> parts[k].completeness])
  OBVIOUS
<1>13. complete \in Percent
  <2>1. PICK s : s = [k \in 1 .. 4 |-> parts[k].completeness]
    OBVIOUS
  <2>2. PICK n \in Nat \ {0} : n = 4
    OBVIOUS
  <2>3. s \in [1 .. n -> 0 .. 100]
    BY <1>3, <2>1, <2>2 DEF Qualities, Percent
  <2>4. 100 \in Nat
    OBVIOUS
  <2>5. Mean(s) \in 0 .. 100
    BY <2>3, <2>4, MeanBounded
  <2> QED BY <1>12, <2>1, <2>5 DEF Percent
<1>14. g.gate \in Gates
  BY <1>1, GateIs
<1>15. PICK status : status = IF conflicts > 0 /\ g.gate # "BLOCK" THEN "CONFLICTING"
                              ELSE CASE g.gate = "PASS"     -> "FRESH"
                                     [] g.gate = "DEGRADED" -> "PARTIAL"
                                     [] g.gate = "BLOCK"    -> "UNAVAILABLE"
  OBVIOUS
<1>16. status \in Statuses
  BY <1>14, <1>15 DEF Gates, Statuses
<1>17. g.overall = [status |-> status, score |-> score, flags |-> flags, coverage |-> coverage,
                    completeness |-> complete, age |-> {age}]
  BY <1>1, <1>2, <1>4, <1>6, <1>7, <1>9, <1>10, <1>12, <1>15, ZenonT(60) DEF OverallAndGate
<1>18. g.overall \in Qualities
  <2>1. {age} \in Optional(Nat)
    BY <1>6, OptionalOne
  <2> QED BY <1>8, <1>11, <1>13, <1>16, <1>17, <2>1 DEF Qualities
<1>19. g.reasons \in SUBSET GateReasons
  <2>1. PICK none : none = {i \in DOMAIN routes : routes[i].usable}
    OBVIOUS
  <2>2. PICK blocked : blocked = IF none = {} THEN {"NO_USABLE_ROUTE"}
                 ELSE IF weather.status = "UNAVAILABLE" /\ disaster.status = "UNAVAILABLE"
                        THEN {"NO_WEATHER_AND_NO_DISASTER_EVIDENCE"}
                 ELSE IF score < 25 THEN {"SCORE_BELOW_BLOCK_THRESHOLD"} ELSE {}
    OBVIOUS
  <2>3. PICK low : low = IF score < 60 THEN {"SCORE_BELOW_DEGRADED_THRESHOLD"} ELSE {}
    OBVIOUS
  <2>4. PICK uncovered : uncovered = IF coverage < 50 THEN {"WEATHER_COVERAGE_LOW"} ELSE {}
    OBVIOUS
  <2>5. PICK torn : torn = IF conflicts > 0 THEN {"SAFETY_CRITICAL_CONFLICTS"} ELSE {}
    OBVIOUS
  <2>6. PICK inferred : inferred = IF \E i \in none : "INFERRED" \in routes[i].quality.flags
                                     THEN {"ROUTE_GEOMETRY_INFERRED"} ELSE {}
    OBVIOUS
  <2>7. PICK old : old = IF \E e \in alerts : e.quality.status = "STALE"
                           THEN {"STALE_OFFICIAL_ALERTS"} ELSE {}
    OBVIOUS
  <2>8. g.reasons = IF blocked # {} THEN blocked ELSE low \cup uncovered \cup torn \cup inferred \cup old
    BY <1>1, <1>9, <1>10, <2>1, <2>2, <2>3, <2>4, <2>5, <2>6, <2>7, ZenonT(60) DEF OverallAndGate
  <2>9. blocked \in SUBSET GateReasons
    BY <2>2 DEF GateReasons
  <2>10. low \in SUBSET GateReasons /\ uncovered \in SUBSET GateReasons /\ torn \in SUBSET GateReasons
    BY <2>3, <2>4, <2>5 DEF GateReasons
  <2>11. inferred \in SUBSET GateReasons
    BY <2>6 DEF GateReasons
  <2>12. old \in SUBSET GateReasons
    BY <2>7 DEF GateReasons
  <2>13. low \cup uncovered \cup torn \cup inferred \cup old \in SUBSET GateReasons
    BY <2>10, <2>11, <2>12
  <2> QED BY <2>8, <2>9, <2>13
<1> QED BY <1>1, <1>14, <1>18, <1>19 DEF Gated

-----------------------------------------------------------------------------
(* The snapshot.                                                           *)

\* The qualities of some records.
LEMMA QualitiesOf ==
  ASSUME NEW T, NEW s \in Seq(T), \A x \in T : x.quality \in Qualities
  PROVE  [i \in DOMAIN s |-> s[i].quality] \in Seq(Qualities)
<1>1. PICK n \in Nat : DOMAIN s = 1 .. n /\ s \in [1 .. n -> T]
  OBVIOUS
<1>2. [i \in DOMAIN s |-> s[i].quality] \in [1 .. n -> Qualities]
  BY <1>1
<1> QED BY <1>2

LEMMA RecordsHaveQualities ==
  /\ \A x \in Routes : x.quality \in Qualities
  /\ \A x \in WeatherPoints : x.quality \in Qualities
  /\ \A x \in TransportStatuses : x.quality \in Qualities
  /\ \A x \in Events : x.quality \in Qualities
BY DEF Routes, WeatherPoints, TransportStatuses, Events

\* What is judged.
Judgeable(q, c, id, enriched, weather, dedup, window, match) ==
  /\ q \in Requests /\ c \in Contexts /\ id \in Nat
  /\ enriched \in Seq(Routes) /\ enriched # <<>>
  /\ weather \in Seq(WeatherPoints)
  /\ dedup.events \in Seq(Events) /\ dedup.conflicts \in Nat
  /\ window \in Windows
  /\ match.points \in SUBSET DOMAIN weather /\ match.coverage \in Percent

LEMMA JudgedFits ==
  ASSUME NEW q, NEW c, NEW id, NEW enriched, NEW weather, NEW dedup, NEW window, NEW match,
         Judgeable(q, c, id, enriched, weather, dedup, window, match)
  PROVE  Judged(q, c, id, enriched, weather, dedup, window, match) \in Snapshots
<1>0. /\ q \in Requests /\ c \in Contexts /\ id \in Nat
      /\ enriched \in Seq(Routes) /\ enriched # <<>>
      /\ weather \in Seq(WeatherPoints)
      /\ dedup.events \in Seq(Events) /\ dedup.conflicts \in Nat
      /\ window \in Windows
      /\ match.points \in SUBSET DOMAIN weather /\ match.coverage \in Percent
  BY DEF Judgeable
<1>1. PICK events : events = dedup.events
  OBVIOUS
<1>2. PICK coverage : coverage = match.coverage
  OBVIOUS
<1>3. PICK alerts : alerts = {e \in Range(events) : e.official}
  OBVIOUS
<1>4. events \in Seq(Events) /\ coverage \in Percent /\ alerts \in SUBSET Events
  <2>1. Range(events) \in SUBSET Events
    BY <1>0, <1>1, RecordsFinite
  <2> QED BY <1>0, <1>1, <1>2, <1>3, <2>1
<1>5. c.transport \in Seq(TransportStatuses) /\ c.degraded \in SUBSET Services /\ c.unavailable \in SUBSET Services
  BY <1>0 DEF Contexts
<1>6. PICK planned : planned = Kept(weather, {k \in DOMAIN weather : weather[k].probe = "PLANNED"})
  OBVIOUS
<1>7. planned \in Seq(WeatherPoints)
  <2>1. {k \in DOMAIN weather : weather[k].probe = "PLANNED"} \in SUBSET DOMAIN weather
    OBVIOUS
  <2> QED BY <1>0, <1>6, <2>1, KeptFits
<1>8. PICK qr : qr = [i \in DOMAIN enriched |-> enriched[i].quality]
  OBVIOUS
<1>9. PICK qp : qp = [i \in DOMAIN planned |-> planned[i].quality]
  OBVIOUS
<1>10. PICK qw : qw = [i \in DOMAIN weather |-> weather[i].quality]
  OBVIOUS
<1>11. PICK qt : qt = [i \in DOMAIN c.transport |-> c.transport[i].quality]
  OBVIOUS
<1>12. PICK qe : qe = [i \in DOMAIN events |-> events[i].quality]
  OBVIOUS
<1>13. qr \in Seq(Qualities) /\ qp \in Seq(Qualities) /\ qw \in Seq(Qualities)
       /\ qt \in Seq(Qualities) /\ qe \in Seq(Qualities)
  <2>1. qr \in Seq(Qualities)
    BY <1>0, <1>8, QualitiesOf, RecordsHaveQualities
  <2>2. qp \in Seq(Qualities)
    BY <1>7, <1>9, QualitiesOf, RecordsHaveQualities
  <2>3. qw \in Seq(Qualities)
    BY <1>0, <1>10, QualitiesOf, RecordsHaveQualities
  <2>4. qt \in Seq(Qualities)
    BY <1>5, <1>11, QualitiesOf, RecordsHaveQualities
  <2>5. qe \in Seq(Qualities)
    BY <1>4, <1>12, QualitiesOf, RecordsHaveQualities
  <2> QED BY <2>1, <2>2, <2>3, <2>4, <2>5
<1>14. PICK all : all = qr \o qw \o qt \o qe
  OBVIOUS
<1>15. all \in Seq(Qualities)
  <2>1. qr \o qw \in Seq(Qualities)
    BY <1>13, OneAfterTheOther
  <2>2. (qr \o qw) \o qt \in Seq(Qualities)
    BY <1>13, <2>1, OneAfterTheOther
  <2>3. ((qr \o qw) \o qt) \o qe \in Seq(Qualities)
    BY <1>13, <2>2, OneAfterTheOther
  <2> QED BY <1>14, <2>3
<1>16. PICK route_q : route_q = SummarizeGroup(qr, 6 * 3600, {})
  OBVIOUS
<1>17. PICK weather_q : weather_q = SummarizeGroup(qp, 3600, {coverage})
  OBVIOUS
<1>18. PICK transport_q : transport_q = SummarizeGroup(qt, 90, {})
  OBVIOUS
<1>19. PICK disaster_q : disaster_q = DisasterQuality(events, c.degraded)
  OBVIOUS
<1>20. route_q \in Qualities /\ weather_q \in Qualities /\ transport_q \in Qualities /\ disaster_q \in Qualities
  <2>1. PICK ttl \in Nat \ {0} : ttl = 6 * 3600
    OBVIOUS
  <2>2. PICK hourly \in Nat \ {0} : hourly = 3600
    OBVIOUS
  <2>3. PICK feed \in Nat \ {0} : feed = 90
    OBVIOUS
  <2>4. PICK none : none = {}
    OBVIOUS
  <2>5. PICK given : given = {coverage}
    OBVIOUS
  <2>6. none \in SUBSET Percent /\ given \in SUBSET Percent
    BY <1>4, <2>4, <2>5
  <2>7. SummarizeGroup(qr, ttl, none) \in Qualities
    BY <1>13, <2>6, SummarizeGroupFits
  <2>8. SummarizeGroup(qp, hourly, given) \in Qualities
    BY <1>13, <2>6, SummarizeGroupFits
  <2>9. SummarizeGroup(qt, feed, none) \in Qualities
    BY <1>13, <2>6, SummarizeGroupFits
  <2>10. disaster_q \in Qualities
    BY <1>4, <1>19, DisasterQualityFits
  <2>11. route_q = SummarizeGroup(qr, ttl, none)
    BY <1>16, <2>1, <2>4
  <2>12. weather_q = SummarizeGroup(qp, hourly, given)
    BY <1>17, <2>2, <2>5
  <2>13. transport_q = SummarizeGroup(qt, feed, none)
    BY <1>18, <2>3, <2>4
  <2> QED BY <2>7, <2>8, <2>9, <2>10, <2>11, <2>12, <2>13
<1>21. PICK gated : gated = OverallAndGate(route_q, weather_q, disaster_q, transport_q, enriched,
                                           coverage, dedup.conflicts, alerts)
  OBVIOUS
<1>22. Gated(gated)
  BY <1>4, <1>20, <1>21, OverallAndGateFits
<1>23. PICK primary : primary = enriched[1]
  OBVIOUS
<1>24. primary \in Routes
  BY <1>0, <1>23
<1>25. PICK hits : hits = Hits(primary.path, BufferFor(q.modes), events, window)
  OBVIOUS
<1>26. hits \in SUBSET Events /\ IsFiniteSet(hits)
  BY <1>4, <1>25, HitsFit
<1>27. PICK wx : wx = {weather[k] : k \in match.points}
  OBVIOUS
<1>28. wx \in SUBSET WeatherPoints /\ IsFiniteSet(wx)
  <2>1. PICK n \in Nat : DOMAIN weather = 1 .. n /\ weather \in [1 .. n -> WeatherPoints]
    BY <1>0
  <2>2. wx \in SUBSET Range(weather)
    BY <1>0, <1>27, <2>1 DEF Range
  <2>3. Range(weather) \in SUBSET WeatherPoints /\ IsFiniteSet(Range(weather))
    BY <1>0, RecordsFinite
  <2>4. IsFiniteSet(wx)
    BY <2>2, <2>3, FS_Subset
  <2> QED BY <2>2, <2>3, <2>4
<1>29. PICK features : features = FeaturesOf(primary, hits, wx, coverage, c.transport, all)
  OBVIOUS
<1>30. features \in Features
  BY <1>4, <1>5, <1>15, <1>24, <1>26, <1>28, <1>29, FeaturesFit
<1>31. PICK quality : quality = [gate |-> gated.gate, overall |-> gated.overall, weather |-> weather_q,
                    transport |-> transport_q, disaster |-> disaster_q, route |-> route_q,
                    degraded |-> c.degraded \cup c.unavailable, reasons |-> gated.reasons]
  OBVIOUS
<1>32. quality \in QualitySummaries
  <2>1. c.degraded \cup c.unavailable \in SUBSET Services
    BY <1>5
  <2> QED BY <1>20, <1>22, <1>31, <2>1 DEF QualitySummaries, Gated
<1>33. Judged(q, c, id, enriched, weather, dedup, window, match) =
         [id |-> id, request |-> q.id, window |-> window, routes |-> enriched,
          weather |-> weather, transport |-> c.transport, events |-> events, alerts |-> alerts,
          features |-> features, quality |-> quality, conflicts |-> dedup.conflicts]
  <2> DEFINE QualityOf(records) == [i \in DOMAIN records |-> records[i].quality]
             EV == dedup.events
             AL == {e \in Range(EV) : e.official}
             PL == Kept(weather, {k \in DOMAIN weather : weather[k].probe = "PLANNED"})
             QP == QualityOf(PL)
             RQ == SummarizeGroup(QualityOf(enriched), 6 * 3600, {})
             WQ == SummarizeGroup(QP, 3600, {match.coverage})
             TQ == SummarizeGroup(QualityOf(c.transport), 90, {})
             DQ == DisasterQuality(EV, c.degraded)
             GA == OverallAndGate(RQ, WQ, DQ, TQ, enriched, match.coverage, dedup.conflicts, AL)
             HI == Hits(enriched[1].path, BufferFor(q.modes), EV, window)
             WX == {weather[k] : k \in match.points}
             QS == QualityOf(enriched) \o QualityOf(weather) \o QualityOf(c.transport) \o QualityOf(EV)
             FE == FeaturesOf(enriched[1], HI, WX, match.coverage, c.transport, QS)
  <2>1. Judged(q, c, id, enriched, weather, dedup, window, match) =
          [id |-> id, request |-> q.id, window |-> window, routes |-> enriched,
           weather |-> weather, transport |-> c.transport, events |-> EV, alerts |-> AL,
           features |-> FE,
           quality  |-> [gate |-> GA.gate, overall |-> GA.overall, weather |-> WQ,
                         transport |-> TQ, disaster |-> DQ, route |-> RQ,
                         degraded |-> c.degraded \cup c.unavailable, reasons |-> GA.reasons],
           conflicts |-> dedup.conflicts]
    BY DEF Judged
  <2>2. EV = events
    BY <1>1
  <2>3. AL = alerts
    BY <1>1, <1>3
  <2>4. PL = planned
    BY <1>6
  <2>5. RQ = route_q
    BY <1>8, <1>16
  <2> HIDE DEF PL
  <2>6. QP = qp
    BY <1>9, <2>4, Zenon
  <2> HIDE DEF QP
  <2>7. WQ = weather_q
    BY <1>2, <1>17, <2>6
  <2>8. TQ = transport_q
    BY <1>11, <1>18
  <2> HIDE DEF EV
  <2>9. DQ = disaster_q
    BY <1>19, <2>2
  <2> HIDE DEF RQ, WQ, TQ, DQ, AL
  <2>10. GA = gated
    BY <1>2, <1>21, <2>3, <2>5, <2>7, <2>8, <2>9
  <2>11. HI = hits
    BY <1>23, <1>25, <2>2
  <2>12. WX = wx
    BY <1>27
  <2>13. QualityOf(EV) = qe
    BY <1>12, <2>2, Zenon
  <2>14. QS = all
    BY <1>8, <1>10, <1>11, <1>14, <2>13, Zenon
  <2> HIDE DEF GA, HI, WX, QS
  <2>15. FE = features
    BY <1>2, <1>23, <1>29, <2>11, <2>12, <2>14
  <2> HIDE DEF FE
  <2> QED BY <1>31, <2>1, <2>2, <2>3, <2>5, <2>7, <2>8, <2>9, <2>10, <2>15
<1>34. q.id \in STRING
  BY <1>0 DEF Requests
<1>35. [id |-> id, request |-> q.id, window |-> window, routes |-> enriched,
          weather |-> weather, transport |-> c.transport, events |-> events, alerts |-> alerts,
          features |-> features, quality |-> quality, conflicts |-> dedup.conflicts] \in Snapshots
  BY <1>0, <1>4, <1>5, <1>30, <1>32, <1>34 DEF Snapshots
<1> QED BY <1>33, <1>35

\* A snapshot is well-formed, and its routes are the context's.
LEMMA SnapshotFits ==
  ASSUME NEW q \in Requests, NEW c \in Contexts, SortedRoutes(c.routes) # <<>>, NEW id \in Nat
  PROVE  /\ BuildSnapshot(q, c, id) \in Snapshots
         /\ \A k \in DOMAIN BuildSnapshot(q, c, id).routes : \E i \in DOMAIN c.routes :
              BuildSnapshot(q, c, id).routes[k].id = c.routes[i].id
<1>1. PICK routes : routes = SortedRoutes(c.routes)
  OBVIOUS
<1>2. c.routes \in Seq(Routes) /\ c.weather \in Seq(WeatherPoints) /\ c.events \in Seq(Events)
  BY DEF Contexts
<1>3. /\ routes \in Seq(Routes) /\ routes # <<>>
      /\ \A k \in DOMAIN routes : Travelled(routes[k]) /\ \E i \in DOMAIN c.routes : routes[k].id = c.routes[i].id
  BY <1>1, <1>2, SortedRoutesFit
<1>4. PICK weather : weather = Kept(c.weather, {k \in DOMAIN c.weather : ValidWeather(c.weather[k])})
  OBVIOUS
<1>5. weather \in Seq(WeatherPoints)
  <2>1. {k \in DOMAIN c.weather : ValidWeather(c.weather[k])} \in SUBSET DOMAIN c.weather
    OBVIOUS
  <2> QED BY <1>2, <1>4, <2>1, KeptFits
<1>6. PICK valid : valid = Kept(c.events, {k \in DOMAIN c.events : ValidEvent(c.events[k])})
  OBVIOUS
<1>7. valid \in Seq(Events)
  <2>1. {k \in DOMAIN c.events : ValidEvent(c.events[k])} \in SUBSET DOMAIN c.events
    OBVIOUS
  <2> QED BY <1>2, <1>6, <2>1, KeptFits
<1>8. PICK dedup : dedup = Deduplicate(valid)
  OBVIOUS
<1>9. dedup.events \in Seq(Events) /\ dedup.conflicts \in Nat
  BY <1>7, <1>8, DeduplicateFits
<1>10. PICK window : window = [departure |-> q.departure, arrival |-> q.departure + routes[1].minutes]
  OBVIOUS
<1>11. Travelled(routes[1])
  BY <1>3
<1>12. window \in Windows
  <2>1. q.departure \in Int /\ routes[1].minutes \in Nat
    BY <1>11 DEF Requests, Times, Travelled
  <2>2. PICK d \in Int : d = q.departure
    BY <2>1
  <2>3. PICK m \in Nat : m = routes[1].minutes
    BY <2>1
  <2>4. d <= d + m /\ d + m \in Int
    OBVIOUS
  <2> QED BY <1>10, <2>2, <2>3, <2>4 DEF Windows, Times
<1>13. PICK buffer : buffer = BufferFor(q.modes)
  OBVIOUS
<1>14. PICK enriched : enriched = [i \in DOMAIN routes |-> Enriched(routes[i], dedup.events, weather, buffer, window)]
  OBVIOUS
<1>15. /\ enriched \in Seq(Routes) /\ enriched # <<>> /\ DOMAIN enriched = DOMAIN routes
       /\ \A k \in DOMAIN routes : enriched[k].id = routes[k].id
  <2>1. PICK n \in Nat \ {0} : DOMAIN routes = 1 .. n
    BY <1>3
  <2>2. \A k \in DOMAIN routes : enriched[k] \in Routes /\ enriched[k].id = routes[k].id
    <3>1. TAKE k \in DOMAIN routes
    <3>2. PICK r : r = routes[k]
      OBVIOUS
    <3>3. Travelled(r)
      BY <1>3, <3>2
    <3>4. PICK events : events = dedup.events
      OBVIOUS
    <3>5. events \in Seq(Events)
      BY <1>9, <3>4
    <3>6. /\ Travelled(Enriched(r, events, weather, buffer, window))
          /\ Enriched(r, events, weather, buffer, window).id = r.id
      BY <1>5, <3>3, <3>5, EnrichedFits
    <3> QED BY <1>14, <3>2, <3>4, <3>6 DEF Travelled
  <2>3. enriched \in [1 .. n -> Routes]
    BY <1>14, <2>1, <2>2
  <2>4. enriched \in Seq(Routes) /\ Len(enriched) = n
    BY <2>3
  <2> QED BY <1>14, <2>1, <2>2, <2>4
<1>16. PICK match : match = MatchWeather(routes[1], weather, q.departure)
  OBVIOUS
<1>17. match.points \in SUBSET DOMAIN weather /\ match.coverage \in Percent
  <2>1. PICK n \in Nat : DOMAIN weather = 1 .. n
    BY <1>5
  <2>2. PICK r : r = routes[1]
    OBVIOUS
  <2>3. Travelled(r)
    BY <1>11, <2>2
  <2>4. PICK departure : departure = q.departure
    OBVIOUS
  <2>5. /\ MatchWeather(r, weather, departure).points \in SUBSET (1 .. n)
        /\ MatchWeather(r, weather, departure).coverage \in Percent
    BY <2>1, <2>3, MatchFits
  <2> QED BY <1>16, <2>1, <2>2, <2>4, <2>5
<1>18. Judgeable(q, c, id, enriched, weather, dedup, window, match)
  BY <1>5, <1>9, <1>12, <1>15, <1>17 DEF Judgeable
<1>19. Judged(q, c, id, enriched, weather, dedup, window, match) \in Snapshots
  BY <1>18, JudgedFits
<1>20. BuildSnapshot(q, c, id) = Judged(q, c, id, enriched, weather, dedup, window, match)
  BY <1>1, <1>4, <1>6, <1>8, <1>10, <1>13, <1>14, <1>16, Zenon DEF BuildSnapshot, Matched
<1>21. Judged(q, c, id, enriched, weather, dedup, window, match).routes = enriched
  BY DEF Judged
<1> QED BY <1>3, <1>15, <1>19, <1>20, <1>21

-----------------------------------------------------------------------------
(* The risk of a route.                                                    *)

\* The values of an optional number, through a function.
LEMMA OneValue ==
  ASSUME NEW o \in Optional(Nat), NEW f, DOMAIN f = Nat, \A x \in Nat : f[x] \in Nat
  PROVE  Largest({f[x] : x \in o}, 0) \in Nat
<1> DEFINE S == {f[x] : x \in o}
<1>1. o \in SUBSET Nat /\ IsFiniteSet(o)
  BY OptionalIs
<1>2. CASE o = {}
  <2>1. S = {}
    BY <1>2
  <2> QED BY <2>1 DEF Largest
<1>3. CASE o # {}
  <2>1. PICK x \in Nat : o = {x}
    BY <1>3, OptionalIs
  <2>2. S = {f[x]}
    BY <2>1
  <2>3. IsFiniteSet(S) /\ S \in SUBSET Nat
    BY <2>2, FS_Singleton
  <2> HIDE DEF S
  <2>4. Largest(S, 0) \in Nat
    BY <2>3, LargestNat
  <2> QED BY <2>4 DEF S
<1> QED BY <1>2, <1>3

\* The measured features, which the rules calculate with.
Measured(f) == f.precip \in Optional(Nat) /\ f.gust \in Optional(Nat) /\ f.magnitude \in Optional(Nat)

\* The baseline is a probability in percent, whatever is measured (rule_baseline).
LEMMA RuleBaselineFits ==
  ASSUME NEW f, Measured(f)
  PROVE  RuleBaseline(f) \in Percent
<1> DEFINE rainOf == [p \in Nat |-> Smaller(50, (100 * p) \div 60)]
           windOf == [g \in Nat |-> Smaller(40, Larger(0, (100 * (g - 40)) \div 120))]
           quakeOf == [m \in Nat |-> Larger(0, (5 * (m - 45)) \div 2)]
<1>1. \A x \in Nat : rainOf[x] \in Nat
  <2>1. TAKE x \in Nat
  <2>2. PICK n \in Nat : n = (100 * x) \div 60
    OBVIOUS
  <2> QED BY <2>2 DEF Smaller
<1>2. \A x \in Nat : windOf[x] \in Nat
  <2>1. TAKE x \in Nat
  <2>2. PICK n \in Int : n = (100 * (x - 40)) \div 120
    OBVIOUS
  <2> QED BY <2>2 DEF Smaller, Larger
<1>3. \A x \in Nat : quakeOf[x] \in Nat
  <2>1. TAKE x \in Nat
  <2>2. PICK n \in Int : n = (5 * (x - 45)) \div 2
    OBVIOUS
  <2> QED BY <2>2 DEF Larger
<1>4. DOMAIN rainOf = Nat /\ DOMAIN windOf = Nat /\ DOMAIN quakeOf = Nat
  OBVIOUS
<1>5. /\ {Smaller(50, (100 * p) \div 60) : p \in f.precip} = {rainOf[p] : p \in f.precip}
      /\ {Smaller(40, Larger(0, (100 * (g - 40)) \div 120)) : g \in f.gust} = {windOf[g] : g \in f.gust}
      /\ {Larger(0, (5 * (m - 45)) \div 2) : m \in f.magnitude} = {quakeOf[m] : m \in f.magnitude}
  <2>1. f.precip \in SUBSET Nat /\ f.gust \in SUBSET Nat /\ f.magnitude \in SUBSET Nat
    BY DEF Measured, Optional
  <2>2. \A p \in f.precip : rainOf[p] = Smaller(50, (100 * p) \div 60)
    BY <2>1
  <2>3. \A g \in f.gust : windOf[g] = Smaller(40, Larger(0, (100 * (g - 40)) \div 120))
    BY <2>1
  <2>4. \A m \in f.magnitude : quakeOf[m] = Larger(0, (5 * (m - 45)) \div 2)
    BY <2>1
  <2> HIDE DEF rainOf, windOf, quakeOf
  <2>5. {Smaller(50, (100 * p) \div 60) : p \in f.precip} = {rainOf[p] : p \in f.precip}
    BY <2>2
  <2>6. {Smaller(40, Larger(0, (100 * (g - 40)) \div 120)) : g \in f.gust} = {windOf[g] : g \in f.gust}
    BY <2>3
  <2>7. {Larger(0, (5 * (m - 45)) \div 2) : m \in f.magnitude} = {quakeOf[m] : m \in f.magnitude}
    BY <2>4
  <2> QED BY <2>5, <2>6, <2>7
<1> HIDE DEF rainOf, windOf, quakeOf
<1>6. PICK rain : rain = Largest({rainOf[p] : p \in f.precip}, 0)
  OBVIOUS
<1>7. PICK wind : wind = Largest({windOf[g] : g \in f.gust}, 0)
  OBVIOUS
<1>8. PICK quake : quake = Largest({quakeOf[m] : m \in f.magnitude}, 0)
  OBVIOUS
<1>9. rain \in Nat
  <2>1. PICK o : o = f.precip
    OBVIOUS
  <2>2. PICK g : g = rainOf
    OBVIOUS
  <2>3. o \in Optional(Nat) /\ DOMAIN g = Nat /\ \A x \in Nat : g[x] \in Nat
    BY <1>1, <1>4, <2>1, <2>2 DEF Measured
  <2>4. Largest({g[x] : x \in o}, 0) \in Nat
    BY <2>3, OneValue
  <2> QED BY <1>6, <2>1, <2>2, <2>4
<1>10. wind \in Nat
  <2>1. PICK o : o = f.gust
    OBVIOUS
  <2>2. PICK g : g = windOf
    OBVIOUS
  <2>3. o \in Optional(Nat) /\ DOMAIN g = Nat /\ \A x \in Nat : g[x] \in Nat
    BY <1>2, <1>4, <2>1, <2>2 DEF Measured
  <2>4. Largest({g[x] : x \in o}, 0) \in Nat
    BY <2>3, OneValue
  <2> QED BY <1>7, <2>1, <2>2, <2>4
<1>11. quake \in Nat
  <2>1. PICK o : o = f.magnitude
    OBVIOUS
  <2>2. PICK g : g = quakeOf
    OBVIOUS
  <2>3. o \in Optional(Nat) /\ DOMAIN g = Nat /\ \A x \in Nat : g[x] \in Nat
    BY <1>3, <1>4, <2>1, <2>2 DEF Measured
  <2>4. Largest({g[x] : x \in o}, 0) \in Nat
    BY <2>3, OneValue
  <2> QED BY <1>8, <2>1, <2>2, <2>4
<1>12. PICK storm \in Nat : storm = IF \E w \in f.weather : w >= SEVERE THEN 25 ELSE 0
  OBVIOUS
<1>13. PICK alert \in Nat : alert = IF f.alerts >= 1 THEN 30 ELSE 0
  OBVIOUS
<1>14. PICK late \in Nat : late = IF f.delayed >= 1 THEN 10 ELSE 0
  OBVIOUS
<1>15. PICK base : base = IF f.closures >= 1 THEN 100 ELSE 5 + rain + wind + storm + alert
  OBVIOUS
<1>16. base \in Nat
  BY <1>9, <1>10, <1>15
<1>17. RuleBaseline(f) = Smaller(100, base + quake + late)
  <2>1. /\ rain = Largest({Smaller(50, (100 * p) \div 60) : p \in f.precip}, 0)
        /\ wind = Largest({Smaller(40, Larger(0, (100 * (g - 40)) \div 120)) : g \in f.gust}, 0)
        /\ quake = Largest({Larger(0, (5 * (m - 45)) \div 2) : m \in f.magnitude}, 0)
    BY <1>5, <1>6, <1>7, <1>8
  <2> QED BY <2>1, <1>12, <1>13, <1>14, <1>15 DEF RuleBaseline
<1>18. Smaller(100, base + quake + late) \in Percent
  BY <1>11, <1>16 DEF Smaller, Percent
<1> QED BY <1>17, <1>18

LEMMA FlooredFits ==
  ASSUME NEW p \in Percent, NEW fired
  PROVE  Floored(p, fired) \in Percent
<1>1. PICK level : level = Strictest({Level(p)} \cup fired)
  OBVIOUS
<1>2. PICK floor : floor = CASE level = "HIGH"   -> HIGH_FROM
                             [] level = "MEDIUM" -> MEDIUM_FROM
                             [] OTHER            -> 0
  OBVIOUS
<1>3. floor \in {0, 25, 55}
  BY <1>2 DEF HIGH_FROM, MEDIUM_FROM
<1>4. Floored(p, fired) = IF fired = {} THEN p ELSE Larger(p, floor)
  BY <1>1, <1>2, Zenon DEF Floored
<1>5. Larger(p, floor) \in Percent
  BY <1>3 DEF Larger, Percent
<1> QED BY <1>4, <1>5

LEMMA LevelsFit ==
  ASSUME NEW f, NEW alerts, NEW p
  PROVE  /\ {Level(p)} \cup Overrides(f, alerts) \subseteq RiskLevels
         /\ Strictest({Level(p)} \cup Overrides(f, alerts)) \in RiskLevels
<1>1. Level(p) \in {"HIGH", "MEDIUM", "LOW"}
  BY DEF Level
<1>2. PICK fired : fired = Overrides(f, alerts)
  OBVIOUS
<1>3. fired \subseteq {"HIGH", "MEDIUM"}
  BY <1>2 DEF Overrides
<1>4. {Level(p)} \cup fired \subseteq RiskLevels /\ {Level(p)} \cup fired # {}
  BY <1>1, <1>3 DEF RiskLevels
<1>5. Strictest({Level(p)} \cup fired) \in {Level(p)} \cup fired
  BY <1>4, StrictestIs
<1> QED BY <1>2, <1>4, <1>5

LEMMA DoubtFits ==
  ASSUME NEW p \in Percent
  PROVE  100 - Gap(2 * p, 100) \in Percent /\ Larger(100 - Gap(2 * p, 100), 60) \in Percent
BY DEF Gap, Larger, Percent

\* A model, if one is served, knows the route.
Knows(model, r) == model # {} => (CHOOSE m \in model : TRUE).probability[r.id] \in Percent

LEMMA RouteFeaturesMeasured ==
  ASSUME NEW s, s.features \in Features, NEW r
  PROVE  Measured(RouteFeatures(s, r))
<1>1. /\ s.features.precip \in Optional(Nat) /\ s.features.gust \in Optional(Nat)
      /\ s.features.magnitude \in Optional(Nat)
      /\ {"precip", "gust", "magnitude", "closures", "events", "alerts", "severeMinutes"} \subseteq DOMAIN s.features
  BY DEF Features
<1>2. /\ RouteFeatures(s, r).precip = s.features.precip
      /\ RouteFeatures(s, r).gust = s.features.gust
      /\ RouteFeatures(s, r).magnitude = s.features.magnitude
  BY <1>1 DEF RouteFeatures
<1> QED BY <1>1, <1>2 DEF Measured

\* The assessment of a route is well-formed (assess_route).
LEMMA AssessRouteFits ==
  ASSUME NEW s \in Snapshots, NEW r \in Routes, NEW model, Knows(model, r)
  PROVE  AssessRoute(s, r, model, {}) \in Assessments
<1>1. PICK f : f = RouteFeatures(s, r)
  OBVIOUS
<1>2. PICK alerts : alerts = OfficialAlertRanks(s, r)
  OBVIOUS
<1>3. PICK raw : raw = Probability(model, f, r)
  OBVIOUS
<1>4. PICK fired : fired = Overrides(f, alerts)
  OBVIOUS
<1>5. PICK p : p = Floored(raw, fired)
  OBVIOUS
<1>6. PICK enforced : enforced = Strictest({Level(raw)} \cup fired)
  OBVIOUS
<1>7. PICK level : level = IF enforced = "LOW" /\ Insufficient(f) THEN "UNKNOWN" ELSE enforced
  OBVIOUS
<1>8. raw \in Percent
  <2>1. s.features \in Features
    BY DEF Snapshots
  <2>2. Measured(f)
    BY <1>1, <2>1, RouteFeaturesMeasured
  <2>3. RuleBaseline(f) \in Percent
    BY <2>2, RuleBaselineFits
  <2>4. CASE model = {}
    BY <1>3, <2>3, <2>4 DEF Probability
  <2>5. CASE model # {}
    BY <1>3, <2>5 DEF Probability, Knows
  <2> QED BY <2>4, <2>5
<1>9. p \in Percent
  BY <1>5, <1>8, FlooredFits
<1>10. enforced \in RiskLevels
  BY <1>4, <1>6, LevelsFit
<1>11. level \in RiskLevels
  BY <1>7, <1>10 DEF RiskLevels
<1>12. PICK doubt : doubt = 100 - Gap(2 * p, 100)
  OBVIOUS
<1>13. PICK uncertainty : uncertainty = IF NearThreshold(p) THEN Larger(doubt, 60) ELSE doubt
  OBVIOUS
<1>14. uncertainty \in Percent
  BY <1>9, <1>12, <1>13, DoubtFits
<1>15. LaterLevels(r, alerts, f, model, {}) = {}
  <2>1. (IF r.exposure.closed THEN {} ELSE {}) = {}
    OBVIOUS
  <2>2. AtProbe(r, f, {}) = {}
    BY <2>1 DEF AtProbe
  <2> QED BY <2>2 DEF LaterLevels
<1>16. PICK unavailable : unavailable = IF model = {} THEN {"MODEL_UNAVAILABLE"} ELSE {}
  OBVIOUS
<1>17. PICK uncovered : uncovered = IF Insufficient(f) THEN {"LOW_DATA_COVERAGE"} ELSE {}
  OBVIOUS
<1>18. PICK torn : torn = IF s.conflicts > 0 THEN {"CONFLICTING_SOURCES"} ELSE {}
  OBVIOUS
<1>19. PICK later : later = LaterLevels(r, alerts, f, model, {})
  OBVIOUS
<1>20. PICK improves \in BOOLEAN : improves = Improves(r, f, model, {}, p, level, later)
  BY DEF Improves
<1>21. PICK eases : eases = IF improves THEN {"RISK_DECREASES_LATER"} ELSE {}
  OBVIOUS
<1>22. unavailable \cup uncovered \cup torn \cup eases \in SUBSET RiskReasons
  BY <1>16, <1>17, <1>18, <1>21 DEF RiskReasons
<1>23. later \in Optional(RiskLevels)
  BY <1>15, <1>19 DEF Optional
<1>24. AssessRoute(s, r, model, {}) =
         [snapshot |-> s.id, route |-> r.id, score |-> p, level |-> level,
          uncertainty |-> uncertainty,
          reasons |-> unavailable \cup uncovered \cup torn \cup eases,
          timeDependent |-> improves, later |-> later]
  BY <1>1, <1>2, <1>3, <1>4, <1>5, <1>6, <1>7, <1>12, <1>13, <1>16, <1>17, <1>18, <1>19, <1>20, <1>21, ZenonT(60)
     DEF AssessRoute
<1>25. s.id \in Nat /\ r.id \in STRING
  BY DEF Snapshots, Routes
<1>26. [snapshot |-> s.id, route |-> r.id, score |-> p, level |-> level,
          uncertainty |-> uncertainty,
          reasons |-> unavailable \cup uncovered \cup torn \cup eases,
          timeDependent |-> improves, later |-> later] \in Assessments
  BY <1>9, <1>11, <1>14, <1>22, <1>23, <1>25 DEF Assessments
<1> QED BY <1>24, <1>26

\* The assessments of all routes.
LEMMA AssessAllFit ==
  ASSUME NEW s \in Snapshots, NEW model, \A i \in DOMAIN s.routes : Knows(model, s.routes[i])
  PROVE  AssessAll(s, model) \in SUBSET Assessments
<1>1. s.routes \in Seq(Routes)
  BY DEF Snapshots
<1>2. ASSUME NEW i \in DOMAIN s.routes
      PROVE  AssessRoute(s, s.routes[i], model, {}) \in Assessments
  <2>1. PICK r \in Routes : r = s.routes[i]
    BY <1>1
  <2>2. Knows(model, r)
    BY <2>1
  <2>3. AssessRoute(s, r, model, {}) \in Assessments
    BY <2>2, AssessRouteFits
  <2> QED BY <2>1, <2>3
<1> QED BY <1>2 DEF AssessAll

-----------------------------------------------------------------------------
(* The ranking.                                                            *)

LEMMA RouteMarked ==
  ASSUME NEW r \in Routes, NEW u \in BOOLEAN, NEW x \in SUBSET {"ORIGINAL", "RECOMMENDED", "FASTEST", "LOWEST_RISK"}
  PROVE  [r EXCEPT !.usable = u, !.labels = x] \in Routes
BY DEF Routes

LEMMA RouteRanked ==
  ASSUME NEW r \in Routes, NEW n \in Nat
  PROVE  [r EXCEPT !.rank = n] \in Routes
BY DEF Routes

LEMMA RouteLabelled ==
  ASSUME NEW r \in Routes, NEW n \in Nat, NEW x \in SUBSET {"ORIGINAL", "RECOMMENDED", "FASTEST", "LOWEST_RISK"},
         NEW z \in {"ORIGINAL", "ALTERNATIVE", "RECOMMENDED", "FASTEST", "LOWEST_RISK"}
  PROVE  [r EXCEPT !.rank = n, !.labels = x, !.label = z] \in Routes
BY DEF Routes

LEMMA FirstLabelFits ==
  ASSUME NEW labels
  PROVE  FirstLabel(labels) \in {"ORIGINAL", "ALTERNATIVE", "RECOMMENDED", "FASTEST", "LOWEST_RISK"}
BY DEF FirstLabel

\* What the ranking gives back are routes.
LEMMA RankRoutesFit ==
  ASSUME NEW routes \in Seq(Routes), NEW assessments
  PROVE  RankRoutes(routes, assessments).routes \in Seq(Routes)
<1> DEFINE Of(r)   == CHOOSE a \in assessments : a.route = r.id
           marked  == [i \in DOMAIN routes |->
                         [routes[i] EXCEPT !.usable = ~routes[i].exposure.closed,
                                           !.labels = IF routes[i].label = "ORIGINAL" THEN {"ORIGINAL"} ELSE {}]]
           usable  == {i \in DOMAIN marked : marked[i].usable}
           fastest == CHOOSE m \in {marked[i].minutes : i \in usable} :
                        \A i \in usable : m <= marked[i].minutes
           byCost  == [i \in usable |-> <<Cost(marked[i], Of(marked[i]), fastest),
                                          RISK_RANK[Of(marked[i]).level], marked[i].minutes, i>>]
           byTime  == [i \in usable |-> <<marked[i].minutes, i>>]
           byRisk  == [i \in usable |-> <<Of(marked[i]).score, marked[i].minutes, i>>]
           Best(key) == CHOOSE i \in usable : \A j \in usable \ {i} : Precedes(key[i], key[j])
           rank(i) == IF i \in usable
                        THEN 1 + Cardinality({j \in usable : Precedes(byCost[j], byCost[i])})
                        ELSE IF usable = {} THEN i ELSE Cardinality(usable) + 1
           given(i) == (IF i = Best(byCost) THEN {"RECOMMENDED"} ELSE {})
                       \cup (IF i = Best(byTime) THEN {"FASTEST"} ELSE {})
                       \cup (IF i = Best(byRisk) THEN {"LOWEST_RISK"} ELSE {})
           Ranked(i) == IF i \notin usable THEN [marked[i] EXCEPT !.rank = rank(i)]
                        ELSE [marked[i] EXCEPT !.rank = rank(i), !.labels = @ \cup given(i),
                                !.label = IF @ = "ORIGINAL" THEN @ ELSE FirstLabel(given(i))]
           key     == [i \in DOMAIN marked |-> <<rank(i), i>>]
           order   == Sorted(key)
<1>0. PICK n \in Nat : DOMAIN routes = 1 .. n /\ routes \in [1 .. n -> Routes]
  OBVIOUS
<1>1. RankRoutes(routes, assessments).routes = [k \in DOMAIN order |-> Ranked(order[k])]
  BY Zenon DEF RankRoutes
<1>2. DOMAIN marked = 1 .. n /\ usable \in SUBSET (1 .. n)
  BY <1>0
<1>3. ASSUME NEW i \in 1 .. n
      PROVE  marked[i] \in Routes
  <2>1. PICK x : x = IF routes[i].label = "ORIGINAL" THEN {"ORIGINAL"} ELSE {}
    OBVIOUS
  <2>2. PICK u : u = ~routes[i].exposure.closed
    OBVIOUS
  <2>3. PICK r \in Routes : r = routes[i]
    BY <1>0
  <2>4. u \in BOOLEAN
    BY <2>2
  <2>5. x \in SUBSET {"ORIGINAL", "RECOMMENDED", "FASTEST", "LOWEST_RISK"}
    BY <2>1
  <2>6. [r EXCEPT !.usable = u, !.labels = x] \in Routes
    BY <2>4, <2>5, RouteMarked
  <2>7. marked[i] = [routes[i] EXCEPT !.usable = u, !.labels = x]
    BY <1>0, <2>1, <2>2, Zenon
  <2> QED BY <2>3, <2>6, <2>7
<1> HIDE DEF marked
<1>4. ASSUME NEW i \in 1 .. n
      PROVE  rank(i) \in Nat
  <2>1. IsFiniteSet(usable) /\ Cardinality(usable) \in Nat
    BY <1>2, FiniteWithin, FS_CardinalityType
  <2> DEFINE before == {j \in usable : Precedes(byCost[j], byCost[i])}
  <2>2. before \in SUBSET usable
    OBVIOUS
  <2> HIDE DEF usable, before, byCost
  <2>3. Cardinality(before) \in Nat
    BY <2>1, <2>2, FS_Subset, FS_CardinalityType
  <2> QED BY <2>1, <2>3 DEF before
<1> HIDE DEF rank
<1>5. ASSUME NEW i \in 1 .. n
      PROVE  Ranked(i) \in Routes
  <2>1. marked[i] \in Routes
    BY <1>3
  <2>2. PICK x : x = rank(i)
    OBVIOUS
  <2>3. x \in Nat
    BY <1>4, <2>2
  <2>4. PICK g : g = given(i)
    OBVIOUS
  <2>5. g \in SUBSET {"ORIGINAL", "RECOMMENDED", "FASTEST", "LOWEST_RISK"}
    <3> HIDE DEF Best, byCost, byTime, byRisk
    <3> QED BY <2>4
  <2> HIDE DEF given
  <2>6. PICK y : y = marked[i].labels \cup g
    OBVIOUS
  <2>7. PICK z : z = IF marked[i].label = "ORIGINAL" THEN marked[i].label ELSE FirstLabel(g)
    OBVIOUS
  <2>8. y \in SUBSET {"ORIGINAL", "RECOMMENDED", "FASTEST", "LOWEST_RISK"}
    BY <2>1, <2>5, <2>6 DEF Routes
  <2>9. z \in {"ORIGINAL", "ALTERNATIVE", "RECOMMENDED", "FASTEST", "LOWEST_RISK"}
    BY <2>7, FirstLabelFits
  <2>10. PICK r \in Routes : r = marked[i]
    BY <2>1
  <2>11. [r EXCEPT !.rank = x] \in Routes
    BY SMTT(30), <2>3, RouteRanked
  <2>12. [r EXCEPT !.rank = x, !.labels = y, !.label = z] \in Routes
    BY ZenonT(60), <2>3, <2>8, <2>9, RouteLabelled
  <2>13. CASE i \notin usable
    <3>1. Ranked(i) = [marked[i] EXCEPT !.rank = x]
      BY <2>2, <2>13, Zenon
    <3> QED BY <2>10, <2>11, <3>1
  <2>14. CASE i \in usable
    <3>1. Ranked(i) = [marked[i] EXCEPT !.rank = x, !.labels = y, !.label = z]
      BY <2>2, <2>4, <2>6, <2>7, <2>14, Zenon
    <3> QED BY <2>10, <2>12, <3>1
  <2> QED BY <2>13, <2>14
<1> HIDE DEF Ranked, given, usable
<1>6. key \in [1 .. n -> Tuples(2)] /\ \A i, j \in 1 .. n : key[i] = key[j] => i = j
  <2>1. \A i \in 1 .. n : <<rank(i), i>> \in Tuples(2)
    BY <1>4 DEF Tuples
  <2> QED BY <1>2, <2>1
<1> HIDE DEF key
<1>7. order \in [1 .. n -> 1 .. n]
  <2> DEFINE D == 1 .. n
  <2>1. IsFiniteSet(D) /\ Cardinality(D) = n
    BY FS_Interval
  <2>2. key \in [D -> Tuples(2)] /\ \A i, j \in D : key[i] = key[j] => i = j
    BY <1>6
  <2> HIDE DEF D
  <2>3. Sorted(key) \in [1 .. Cardinality(D) -> D]
    BY <2>1, <2>2, SortedIsBijection
  <2> QED BY <2>1, <2>3 DEF D
<1> HIDE DEF order
<1>8. [k \in DOMAIN order |-> Ranked(order[k])] \in [1 .. n -> Routes]
  BY <1>5, <1>7
<1> QED BY <1>1, <1>8

-----------------------------------------------------------------------------
(* Guidance.                                                               *)

\* One more passage, in its turn.
Taken(taken, p, topK) ==
  IF Len(taken) < topK /\ Cardinality({i \in DOMAIN taken : taken[i].document = p.document}) < 2
    THEN Append(taken, p) ELSE taken

TakenOf(passages, topK) == FoldLeft(LAMBDA taken, p : Taken(taken, p, topK), <<>>, passages)

LEMMA TakenFits ==
  ASSUME NEW E, NEW topK, NEW taken \in Seq(E), NEW p \in E
  PROVE  Taken(taken, p, topK) \in Seq(E)
BY OneMore DEF Taken

\* TakenOf, one passage after the other.
RunningTaken(run, n, s, topK) ==
  run[0] = <<>> /\ (\A k \in 1 .. n : run[k] = Taken(run[k - 1], s[k], topK)) /\ TakenOf(s, topK) = run[n]

\* The passages are taken one after the other.
LEMMA TakenRuns ==
  ASSUME NEW E, NEW n \in Nat, NEW s \in [1 .. n -> E], NEW topK
  PROVE  \E run \in [0 .. n -> Seq(E)] : RunningTaken(run, n, s, topK)
<1> DEFINE step == [p \in Seq(E) \X E |-> Taken(p[1], p[2], topK)]
           Body(g) == g = [t \in SUBSET (1 .. n) |->
                             IF t = {} THEN <<>> ELSE Taken(g[t \ {Max(t)}], s[Max(t)], topK)]
<1>1. step \in [Seq(E) \X E -> Seq(E)] /\ <<>> \in Seq(E)
  <2>1. \A seen \in Seq(E), e \in E : Taken(seen, e, topK) \in Seq(E)
    BY TakenFits
  <2> QED BY <2>1
<1>2. \A seen \in Seq(E), e \in E : step[<<seen, e>>] = Taken(seen, e, topK)
  OBVIOUS
<1> HIDE DEF step
<1>3. PICK f \in [SUBSET (1 .. n) -> Seq(E)] : IsFold(f, n, <<>>, step, s)
  BY <1>1, FoldExists
<1>4. ASSUME NEW t \in SUBSET (1 .. n), t # {}
      PROVE  s[Max(t)] \in E /\ t \ {Max(t)} \in SUBSET (1 .. n)
  BY <1>4, LastPosition
<1>5. Body(f)
  <2>1. ASSUME NEW t \in SUBSET (1 .. n), t # {}
        PROVE  f[t] = Taken(f[t \ {Max(t)}], s[Max(t)], topK)
    <3>1. f[t \ {Max(t)}] \in Seq(E) /\ s[Max(t)] \in E
      BY <1>4, <2>1
    <3>2. f[t] = step[<<f[t \ {Max(t)}], s[Max(t)]>>]
      BY <1>3, <2>1 DEF IsFold, Step
    <3> QED BY <1>2, <3>1, <3>2
  <2>2. f[{}] = <<>>
    BY <1>3 DEF IsFold, Step
  <2> QED BY <2>1, <2>2
<1>6. PICK g : g = CHOOSE h : Body(h)
  OBVIOUS
<1>7. Body(g)
  BY <1>5, <1>6, Zenon
<1>8. TakenOf(s, topK) = g[1 .. n]
  <2>1. DOMAIN s = 1 .. n
    OBVIOUS
  <2> QED BY <1>6, <2>1 DEF TakenOf, FoldLeft, MapThenFoldSet
<1>9. Folds(g, Seq(E), E, n, <<>>, step, s)
  <2>1. ASSUME NEW t \in SUBSET (1 .. n), t # {}, g[t \ {Max(t)}] \in Seq(E)
        PROVE  g[t] = step[<<g[t \ {Max(t)}], s[Max(t)]>>]
    <3>1. g[t] = Taken(g[t \ {Max(t)}], s[Max(t)], topK)
      BY <1>7, <2>1
    <3>2. s[Max(t)] \in E
      BY <1>4, <2>1
    <3> QED BY <1>2, <2>1, <3>1, <3>2
  <2>2. g[{}] = <<>>
    BY <1>7
  <2> QED BY <1>1, <2>1, <2>2 DEF Folds
<1>10. PICK run \in [0 .. n -> Seq(E)] : IsRun(run, n, <<>>, step, s) /\ run[n] = g[1 .. n]
  <2>1. PICK T : T = Seq(E)
    OBVIOUS
  <2>2. PICK base : base = <<>>
    OBVIOUS
  <2>3. Folds(g, T, E, n, base, step, s)
    BY <1>9, <2>1, <2>2
  <2>4. \E run \in [0 .. n -> T] : IsRun(run, n, base, step, s) /\ run[n] = g[1 .. n]
    BY <2>3, FoldRuns
  <2> QED BY <2>1, <2>2, <2>4
<1>11. ASSUME NEW k \in 1 .. n
       PROVE  run[k] = Taken(run[k - 1], s[k], topK)
  <2>1. run[k - 1] \in Seq(E) /\ s[k] \in E
    OBVIOUS
  <2>2. run[k] = step[<<run[k - 1], s[k]>>]
    BY <1>10 DEF IsRun
  <2> QED BY <1>2, <2>1, <2>2
<1>12. run[0] = <<>>
  BY <1>10 DEF IsRun
<1> QED BY <1>8, <1>10, <1>11, <1>12 DEF RunningTaken

\* What is retrieved are passages of the index (retrieve).
LEMMA RetrieveFits ==
  ASSUME NEW passages \in Seq(Passages), NEW hazards, NEW topK, NEW now
  PROVE  Retrieve(passages, hazards, topK, now) \in Seq(Passages)
<1> DEFINE Fits(p) == /\ p.expires > now
                      /\ p.effective <= now
                      /\ hazards = {} \/ p.hazards \cap hazards # {}
                      /\ p.close \/ p.lexical
<1>1. PICK fitting : fitting = Kept(passages, {i \in DOMAIN passages : Fits(passages[i])})
  OBVIOUS
<1>2. fitting \in Seq(Passages)
  <2>1. PICK positions : positions = {i \in DOMAIN passages : Fits(passages[i])}
    OBVIOUS
  <2>2. positions \in SUBSET DOMAIN passages
    BY <2>1
  <2>3. Kept(passages, positions) \in Seq(Passages)
    BY <2>2, KeptFits
  <2> QED BY <1>1, <2>1, <2>3
<1>3. Retrieve(passages, hazards, topK, now) = TakenOf(fitting, topK)
  BY <1>1 DEF Retrieve, TakenOf, Taken, FoldLeft, MapThenFoldSet
<1>4. PICK n \in Nat : fitting \in [1 .. n -> Passages]
  BY <1>2
<1>5. PICK run \in [0 .. n -> Seq(Passages)] : RunningTaken(run, n, fitting, topK)
  BY <1>4, TakenRuns
<1>6. n \in 0 .. n
  OBVIOUS
<1> QED BY <1>3, <1>5, <1>6 DEF RunningTaken

\* The package of a well-formed snapshot is well-formed.
LEMMA PackageFits ==
  ASSUME NEW s \in Snapshots, NEW model, \A i \in DOMAIN s.routes : Knows(model, s.routes[i]),
         NEW index, index.passages \in Seq(Passages), NEW retrieved, NEW created \in Times
  PROVE  EvidencePackage(s, model, index, retrieved, created) \in Packages
<1>1. PICK assessments : assessments = AssessAll(s, model)
  OBVIOUS
<1>2. assessments \in SUBSET Assessments
  BY <1>1, AssessAllFit
<1>3. PICK ranked : ranked = RankRoutes(s.routes, assessments)
  OBVIOUS
<1>4. s.routes \in Seq(Routes)
  BY DEF Snapshots
<1>5. ranked.routes \in Seq(Routes)
  BY <1>3, <1>4, RankRoutesFit
<1>6. PICK found : found = IF index.ready THEN Retrieve(index.passages, HazardsInScope(s), 5, retrieved)
                           ELSE <<>>
  OBVIOUS
<1>7. found \in Seq(Passages)
  <2>1. CASE index.ready
    <3>1. PICK passages : passages = index.passages
      OBVIOUS
    <3>2. PICK hazards : hazards = HazardsInScope(s)
      OBVIOUS
    <3>3. PICK topK : topK = 5
      OBVIOUS
    <3>4. passages \in Seq(Passages)
      BY <3>1
    <3>5. Retrieve(passages, hazards, topK, retrieved) \in Seq(Passages)
      BY <3>4, RetrieveFits
    <3> QED BY <1>6, <2>1, <3>1, <3>2, <3>3, <3>5
  <2>2. CASE ~index.ready
    BY <1>6, <2>2
  <2> QED BY <2>1, <2>2
<1>8. PICK evidence : evidence = {[id |-> p.id, expires |-> {p.expires}] : p \in Range(found)}
  OBVIOUS
<1>9. evidence \in SUBSET EvidenceItems
  <2>1. Range(found) \in SUBSET Passages
    BY <1>7, RecordsFinite
  <2>2. ASSUME NEW p \in Passages
        PROVE  [id |-> p.id, expires |-> {p.expires}] \in EvidenceItems
    <3>1. p.id \in STRING /\ p.expires \in Times
      BY DEF Passages
    <3>2. {p.expires} \in Optional(Times)
      BY <3>1, OptionalOne
    <3> QED BY <3>1, <3>2 DEF EvidenceItems
  <2> QED BY <1>8, <2>1, <2>2
<1>10. PICK untrained : untrained = IF model = {} THEN {"MODEL_UNAVAILABLE"} ELSE {}
  OBVIOUS
<1>11. PICK unguided : unguided = IF found = <<>> THEN {"NO_RELIABLE_KNOWLEDGE_EVIDENCE"} ELSE {}
  OBVIOUS
<1>12. PICK graded : graded = IF s.quality.gate = "DEGRADED" THEN s.quality.reasons ELSE {}
  OBVIOUS
<1>13. PICK unsafe : unsafe = IF ranked.recommended = {} THEN {"NO_SAFER_ROUTE"} ELSE {}
  OBVIOUS
<1>14. s.quality \in QualitySummaries /\ s.quality.reasons \in SUBSET GateReasons /\ s.quality.degraded \in SUBSET Services
  BY DEF Snapshots, QualitySummaries
<1>15. untrained \cup unguided \cup graded \cup unsafe \in SUBSET PackageLimits
  <2>1. untrained \in SUBSET PackageLimits
    BY <1>10 DEF PackageLimits
  <2>2. unguided \in SUBSET PackageLimits
    BY <1>11 DEF PackageLimits
  <2>3. graded \in SUBSET PackageLimits
    BY <1>12, <1>14 DEF PackageLimits
  <2>4. unsafe \in SUBSET PackageLimits
    BY <1>13 DEF PackageLimits
  <2> QED BY <2>1, <2>2, <2>3, <2>4
<1>16. PICK d1 : d1 = IF model = {} THEN {"risk model"} ELSE {}
  OBVIOUS
<1>17. PICK d2 : d2 = IF index.ready THEN {} ELSE {"knowledge collection"}
  OBVIOUS
<1>18. s.quality.degraded \cup d1 \cup d2 \in SUBSET Services
  <2>1. d1 \in SUBSET Services
    BY <1>16 DEF Services
  <2>2. d2 \in SUBSET Services
    BY <1>17 DEF Services
  <2> QED BY <1>14, <2>1, <2>2
<1>19. EvidencePackage(s, model, index, retrieved, created) =
         [request |-> s.request, snapshot |-> s.id, assessments |-> assessments,
          routes |-> ranked.routes, evidence |-> evidence, quality |-> s.quality,
          conflicts |-> s.conflicts, alerts |-> s.alerts, created |-> created,
          limitations |-> untrained \cup unguided \cup graded \cup unsafe,
          degraded |-> s.quality.degraded \cup d1 \cup d2]
  BY <1>1, <1>3, <1>6, <1>8, <1>10, <1>11, <1>12, <1>13, <1>16, <1>17, ZenonT(60) DEF EvidencePackage
<1>20. s.request \in STRING /\ s.id \in Nat /\ s.conflicts \in Nat /\ s.alerts \in SUBSET Events
  BY DEF Snapshots
<1>21. [request |-> s.request, snapshot |-> s.id, assessments |-> assessments,
          routes |-> ranked.routes, evidence |-> evidence, quality |-> s.quality,
          conflicts |-> s.conflicts, alerts |-> s.alerts, created |-> created,
          limitations |-> untrained \cup unguided \cup graded \cup unsafe,
          degraded |-> s.quality.degraded \cup d1 \cup d2] \in Packages
  BY <1>2, <1>5, <1>9, <1>14, <1>15, <1>18, <1>20 DEF Packages
<1> QED BY <1>19, <1>21

-----------------------------------------------------------------------------
(* The facts and the decision.                                             *)

\* So is the rule that is chosen.
LEMMA ChosenFits ==
  ASSUME NEW f, IsFacts(f)
  PROVE  RuleFits(ChosenRule(f))
BY FirstMatch, TableIs DEF PartsAre

\* The facts of a well-formed package whose routes are assessed.
AllAssessed(p) ==
  /\ p \in Packages /\ p.routes # <<>>
  /\ \A i \in DOMAIN p.routes : \E a \in p.assessments : a.route = p.routes[i].id

LEMMA DeriveFactsFit ==
  ASSUME NEW p, AllAssessed(p)
  PROVE  DeriveFacts(p) \in Facts
<1> DEFINE routes  == p.routes
           m       == PrimaryIndex(routes)
           Of(i)   == CHOOSE a \in p.assessments : a.route = routes[i].id
           options == Options(routes, m)
           Before(i, j) == \/ Of(i).score < Of(j).score
                           \/ Of(i).score = Of(j).score /\ routes[i].minutes < routes[j].minutes
                           \/ Of(i).score = Of(j).score /\ routes[i].minutes = routes[j].minutes /\ i <= j
           best    == {i \in options : \A j \in options : Before(i, j)}
           Safer   == \E i \in best : /\ Of(m).score - Of(i).score >= SAFER_DELTA
                                      /\ RISK_RANK[Of(i).level] <= RISK_RANK[Of(m).level]
                                      /\ Of(i).level # "HIGH"
<1>1. DeriveFacts(p) =
        [gate |-> p.quality.gate,
         closed |-> routes[m].exposure.closed \/ ~routes[m].usable,
         alternative |-> best # {}, conflicts |-> p.conflicts > 0, level |-> Of(m).level,
         safer |-> Safer, timeDependent |-> Of(m).timeDependent /\ Of(m).later # {},
         later |-> Of(m).later, uncertainty |-> Of(m).uncertainty,
         quality |-> p.quality.overall.score, coverage |-> p.quality.weather.coverage,
         primary |-> routes[m].id, best |-> {routes[i].id : i \in best},
         bestScore |-> Largest({Of(i).score : i \in best}, 0)]
  BY Zenon DEF DeriveFacts
<1>2. PICK n \in Nat \ {0} : DOMAIN routes = 1 .. n /\ routes \in [1 .. n -> Routes]
  <2>1. PICK n \in Nat : routes \in [1 .. n -> Routes]
    BY DEF AllAssessed, Packages
  <2>2. n # 0
    BY <2>1 DEF AllAssessed
  <2> QED BY <2>1, <2>2
<1>3. m \in 1 .. n
  BY <1>2, FirstOriginal
<1>4. options \in SUBSET (1 .. n)
  BY <1>2, Zenon DEF Options
<1>5. ASSUME NEW i \in 1 .. n
      PROVE  Of(i) \in Assessments
  <2>1. p.assessments \in SUBSET Assessments
    BY DEF AllAssessed, Packages
  <2>2. \E a \in p.assessments : a.route = routes[i].id
    BY <1>2 DEF AllAssessed
  <2>3. Of(i) \in p.assessments
    BY <2>2
  <2> QED BY <2>1, <2>3
<1> HIDE DEF m, options, Of
<1>6. ASSUME NEW i \in 1 .. n
      PROVE  /\ Of(i).score \in 0 .. 100 /\ Of(i).uncertainty \in Percent /\ Of(i).level \in RiskLevels
             /\ Of(i).timeDependent \in BOOLEAN /\ Of(i).later \in Optional(RiskLevels)
             /\ routes[i].minutes \in Nat /\ routes[i].id \in STRING
             /\ routes[i].exposure.closed \in BOOLEAN /\ routes[i].usable \in BOOLEAN
  <2>1. Of(i) \in Assessments
    BY <1>5
  <2>2. routes[i] \in Routes
    BY <1>2
  <2>3. /\ Of(i).score \in 0 .. 100 /\ Of(i).uncertainty \in Percent /\ Of(i).level \in RiskLevels
        /\ Of(i).timeDependent \in BOOLEAN /\ Of(i).later \in Optional(RiskLevels)
    BY <2>1 DEF Assessments, Percent
  <2>4. /\ routes[i].minutes \in Nat /\ routes[i].id \in STRING
        /\ routes[i].exposure.closed \in BOOLEAN /\ routes[i].usable \in BOOLEAN
    BY <2>2 DEF Routes, Exposures
  <2> QED BY <2>3, <2>4
<1>7. best \in SUBSET (1 .. n) /\ \A i, j \in best : i = j
  <2>1. best \in SUBSET (1 .. n)
    BY <1>4
  <2>2. ASSUME NEW i \in best, NEW j \in best
        PROVE  i = j
    <3>1. i \in 1 .. n /\ j \in 1 .. n /\ Before(i, j) /\ Before(j, i)
      BY <1>4
    <3>2. Of(i).score \in Int /\ Of(j).score \in Int /\ routes[i].minutes \in Int /\ routes[j].minutes \in Int
      BY <1>6, <3>1
    <3> QED BY <3>1, <3>2
  <2> QED BY <2>1, <2>2
<1> HIDE DEF best
<1>8. {routes[i].id : i \in best} \in Optional(STRING)
  <2>1. \A i \in best : routes[i].id \in STRING
    BY <1>6, <1>7
  <2> HIDE DEF routes
  <2> QED BY <1>7, <2>1 DEF Optional
<1>9. Largest({Of(i).score : i \in best}, 0) \in Percent
  <2>1. PICK S : S = {Of(i).score : i \in best}
    OBVIOUS
  <2>2. \A i \in best : Of(i).score \in 0 .. 100
    BY <1>6, <1>7
  <2>3. S \in SUBSET (0 .. 100)
    BY <2>1, <2>2
  <2>4. PICK h \in Nat : h = 100
    OBVIOUS
  <2>5. PICK z : z = 0
    OBVIOUS
  <2>6. S \in SUBSET (0 .. h) /\ z \in 0 .. h
    BY <2>3, <2>4, <2>5
  <2>7. Largest(S, z) \in 0 .. h
    BY <2>6, LargestBounded
  <2> QED BY <2>1, <2>4, <2>5, <2>7 DEF Percent
<1>10. PICK ids : ids = {routes[i].id : i \in best}
  OBVIOUS
<1>11. PICK score : score = Largest({Of(i).score : i \in best}, 0)
  OBVIOUS
<1>12. PICK closed \in BOOLEAN : closed = (routes[m].exposure.closed \/ ~routes[m].usable)
  BY <1>3, <1>6
<1>13. PICK safer \in BOOLEAN : safer = Safer
  OBVIOUS
<1>14. PICK alternative \in BOOLEAN : alternative = (best # {})
  OBVIOUS
<1>15. PICK conflicts \in BOOLEAN : conflicts = (p.conflicts > 0)
  <2>1. p.conflicts \in Nat
    BY DEF AllAssessed, Packages
  <2>2. PICK k \in Nat : k = p.conflicts
    BY <2>1
  <2>3. (k > 0) \in BOOLEAN
    OBVIOUS
  <2> QED BY <2>2, <2>3, Zenon
<1>16. PICK timed \in BOOLEAN : timed = (Of(m).timeDependent /\ Of(m).later # {})
  OBVIOUS
<1> HIDE DEF Safer
<1>17. DeriveFacts(p) =
        [gate |-> p.quality.gate, closed |-> closed, alternative |-> alternative,
         conflicts |-> conflicts, level |-> Of(m).level, safer |-> safer,
         timeDependent |-> timed, later |-> Of(m).later, uncertainty |-> Of(m).uncertainty,
         quality |-> p.quality.overall.score, coverage |-> p.quality.weather.coverage,
         primary |-> routes[m].id, best |-> ids, bestScore |-> score]
  BY <1>1, <1>10, <1>11, <1>12, <1>13, <1>14, <1>15, <1>16, Zenon
<1>18. /\ p.quality.gate \in Gates /\ p.quality.overall.score \in Percent
       /\ p.quality.weather.coverage \in Percent
  BY DEF AllAssessed, Packages, QualitySummaries, Qualities
<1>19. PICK a : a = Of(m)
  OBVIOUS
<1>20. /\ a.level \in RiskLevels /\ a.later \in Optional(RiskLevels) /\ a.uncertainty \in Percent
       /\ routes[m].id \in STRING
  BY <1>3, <1>6, <1>19
<1>21. ids \in Optional(STRING) /\ score \in Percent
  BY <1>8, <1>9, <1>10, <1>11
<1>22. [gate |-> p.quality.gate, closed |-> closed, alternative |-> alternative,
         conflicts |-> conflicts, level |-> a.level, safer |-> safer,
         timeDependent |-> timed, later |-> a.later, uncertainty |-> a.uncertainty,
         quality |-> p.quality.overall.score, coverage |-> p.quality.weather.coverage,
         primary |-> routes[m].id, best |-> ids, bestScore |-> score] \in Facts
  BY <1>18, <1>20, <1>21 DEF Facts
<1> QED BY <1>17, <1>19, <1>22

\* The parts of a decision.
LEMMA ConfidenceFits ==
  ASSUME NEW f \in Facts, NEW rule, RuleFits(rule)
  PROVE  Confidence(f, rule) \in Percent
<1>1. /\ f.uncertainty \in Int /\ f.quality \in Int /\ f.coverage \in Int
      /\ f.bestScore \in Int /\ rule.specificity \in Int
  BY DEF Facts, RuleFits, Percent
<1>2. PICK alt \in Int : alt = IF rule.action = "CHANGE_ROUTE" /\ f.best # {} THEN 100 - f.bestScore ELSE 100
  BY <1>1
<1>3. PICK x \in Int : x = 35 * (100 - f.uncertainty) + 25 * f.quality + 15 * f.coverage
                           + 15 * rule.specificity + 10 * alt
  <2>1. PICK a, b, c, d \in Int : a = f.uncertainty /\ b = f.quality /\ c = f.coverage /\ d = rule.specificity
    BY <1>1
  <2>2. \E x \in Int : x = 35 * (100 - a) + 25 * b + 15 * c + 15 * d + 10 * alt
    OBVIOUS
  <2> QED BY <2>1, <2>2
<1>4. PICK y \in Int : y = x \div 100
  OBVIOUS
<1>5. PICK u \in Int : u = IF f.conflicts THEN 15 ELSE 0
  OBVIOUS
<1>6. PICK v \in Int : v = IF f.gate = "DEGRADED" THEN 5 ELSE 0
  OBVIOUS
<1>7. Confidence(f, rule) = Larger(5, Smaller(99, y - u - v))
  BY <1>2, <1>3, <1>4, <1>5, <1>6 DEF Confidence
<1>8. Larger(5, Smaller(99, y - u - v)) \in Percent
  BY DEF Larger, Smaller, Percent
<1> QED BY <1>7, <1>8

LEMMA PartsFit ==
  ASSUME NEW f \in Facts, NEW rule
  PROVE  /\ Selected(f, rule) \in Optional(STRING)
         /\ Headline(f, rule) \in RiskLevels
         /\ Escalations(f, rule) \in SUBSET EscalationReasons
<1>1. f.best \in Optional(STRING) /\ f.primary \in STRING /\ f.level \in RiskLevels
  BY DEF Facts
<1>2. {f.primary} \in Optional(STRING) /\ {} \in Optional(STRING)
  BY <1>1, OptionalOne
<1>3. Selected(f, rule) \in Optional(STRING)
  BY <1>1, <1>2 DEF Selected
<1>4. Headline(f, rule) \in RiskLevels
  BY <1>1 DEF Headline, RiskLevels
<1>5. PICK low \in BOOLEAN : low = (rule.action = "NORMAL" /\ Confidence(f, rule) < MIN_CONFIDENCE_NORMAL)
  OBVIOUS
<1>6. Escalations(f, rule) =
        (IF rule.escalate THEN {"RULE"} ELSE {})
        \cup (IF f.conflicts THEN {"SAFETY_CRITICAL_CONFLICT"} ELSE {})
        \cup (IF f.uncertainty >= NEAR_UNCERTAINTY /\ f.level \in {"MEDIUM", "HIGH"}
                THEN {"NEAR_THRESHOLD"} ELSE {})
        \cup (IF low THEN {"LOW_CONFIDENCE_NORMAL"} ELSE {})
        \cup (IF f.coverage < 50 THEN {"LOW_COVERAGE"} ELSE {})
  BY <1>5, Zenon DEF Escalations
<1>7. Escalations(f, rule) \in SUBSET EscalationReasons
  BY <1>6 DEF EscalationReasons
<1> QED BY <1>3, <1>4, <1>7

LEMMA FactsTyped ==
  ASSUME NEW f \in Facts
  PROVE  IsFacts(f)
BY DEF Facts, IsFacts

\* A decision on a well-formed package is well-formed.
LEMMA MadeDecisionFits ==
  ASSUME NEW q \in Requests, NEW p, AllAssessed(p), NEW x \in Explanations,
         NEW checked \in Explanations, NEW fallback \in BOOLEAN
  PROVE  Decision(q, p, x, fallback, checked) \in Decisions
<1>1. PICK f : f = DeriveFacts(p)
  OBVIOUS
<1>2. f \in Facts /\ IsFacts(f)
  BY <1>1, DeriveFactsFit, FactsTyped
<1>3. PICK rule : rule = ChosenRule(f)
  OBVIOUS
<1>4. RuleFits(rule)
  BY <1>2, <1>3, ChosenFits
<1>5. PICK why : why = Escalations(f, rule)
  OBVIOUS
<1>6. PICK sure : sure = Confidence(f, rule)
  OBVIOUS
<1>7. PICK selected : selected = Selected(f, rule)
  OBVIOUS
<1>8. PICK level : level = Headline(f, rule)
  OBVIOUS
<1>9. /\ selected \in Optional(STRING) /\ level \in RiskLevels /\ why \in SUBSET EscalationReasons
      /\ sure \in Percent
  BY <1>2, <1>4, <1>5, <1>6, <1>7, <1>8, ConfidenceFits, PartsFit
<1>10. PICK limits : limits = p.limitations \cup (IF why # {} THEN {"ESCALATION_REQUIRED"} ELSE {})
  OBVIOUS
<1>11. limits \in SUBSET DecisionLimits
  <2>1. p.limitations \in SUBSET PackageLimits
    BY DEF AllAssessed, Packages
  <2> QED BY <1>10, <2>1 DEF DecisionLimits
<1>12. PICK ids : ids = {e.id : e \in p.evidence}
  OBVIOUS
<1>13. ids \in SUBSET STRING
  <2>1. p.evidence \in SUBSET EvidenceItems
    BY DEF AllAssessed, Packages
  <2>2. \A e \in EvidenceItems : e.id \in STRING
    BY DEF EvidenceItems
  <2> QED BY <1>12, <2>1, <2>2
<1>14. PICK cited \in BOOLEAN : cited = (checked.cites \subseteq ids)
  OBVIOUS
<1>15. PICK validation : validation = [citations |-> cited, numbers |-> checked.numbers,
                                       banned |-> checked.allowed, lockedAction |-> TRUE,
                                       fallback |-> fallback]
  OBVIOUS
<1>16. validation \in Validations
  <2>1. checked.numbers \in BOOLEAN /\ checked.allowed \in BOOLEAN
    BY DEF Explanations
  <2> QED BY <1>15, <2>1 DEF Validations
<1>17. Decision(q, p, x, fallback, checked) =
        [request |-> q.id, snapshot |-> p.snapshot, action |-> rule.action, level |-> level,
         confidence |-> sure, selected |-> selected, rule |-> rule.id, escalations |-> why,
         says |-> x.action, citations |-> ids \cap x.cites, limitations |-> limits,
         validation |-> validation]
  BY <1>1, <1>3, <1>5, <1>6, <1>7, <1>8, <1>10, <1>12, <1>14, <1>15, ZenonT(60) DEF Decision
<1>18. /\ q.id \in STRING /\ p.snapshot \in Nat /\ x.action \in Actions
       /\ ids \cap x.cites \in SUBSET STRING
  BY <1>13 DEF Requests, AllAssessed, Packages, Explanations
<1>19. rule.action \in Actions /\ rule.id \in RuleIds
  BY <1>4 DEF RuleFits
<1>20. [request |-> q.id, snapshot |-> p.snapshot, action |-> rule.action, level |-> level,
         confidence |-> sure, selected |-> selected, rule |-> rule.id, escalations |-> why,
         says |-> x.action, citations |-> ids \cap x.cites, limitations |-> limits,
         validation |-> validation] \in Decisions
  BY <1>9, <1>11, <1>16, <1>18, <1>19 DEF Decisions
<1> QED BY <1>17, <1>20

-----------------------------------------------------------------------------
(* The response.                                                           *)

\* The contacts that are resolved, and the notes of those left out, are well-formed.
LEMMA ContactsFit ==
  ASSUME NEW records \in SUBSET DirectoryRecords, NEW country, NEW area, NEW today
  PROVE  /\ ResolveContacts(records, country, area, today).contacts \in SUBSET STRING
         /\ ResolveContacts(records, country, area, today).limitations \in SUBSET DirectoryLimits
<1> DEFINE good(r) == r.status = "VERIFIED" /\ r.due >= today
<1>1. PICK matched : matched = {r \in records : /\ r.country = country
                                                /\ \A a \in r.area, b \in area : a = b}
  OBVIOUS
<1>2. PICK left : left = {x \in matched : ~good(x)}
  OBVIOUS
<1>3. PICK valid : valid = {x \in matched : good(x) /\ x.effective <= today}
  OBVIOUS
<1>4. PICK none : none = IF matched = {} THEN {"EMERGENCY_DIRECTORY_UNAVAILABLE"} ELSE {}
  OBVIOUS
<1>5. ResolveContacts(records, country, area, today) =
        [contacts |-> {r.id : r \in valid},
         limitations |-> none \cup {IF r.status # "VERIFIED" THEN r.status ELSE "REVIEW_OVERDUE" : r \in left}]
  BY <1>1, <1>2, <1>3, <1>4, Zenon DEF ResolveContacts
<1>6. matched \in SUBSET DirectoryRecords
  BY <1>1
<1>7. left \in SUBSET DirectoryRecords /\ valid \in SUBSET DirectoryRecords
  BY <1>2, <1>3, <1>6
<1>8. \A r \in DirectoryRecords : r.id \in STRING
        /\ r.status \in {"VERIFIED", "PENDING_VERIFICATION", "EXPIRED", "RETIRED"}
  BY DEF DirectoryRecords
<1>9. {r.id : r \in valid} \in SUBSET STRING
  BY <1>7, <1>8
<1>10. {IF r.status # "VERIFIED" THEN r.status ELSE "REVIEW_OVERDUE" : r \in left} \in SUBSET DirectoryLimits
  BY <1>7, <1>8 DEF DirectoryLimits
<1>11. none \in SUBSET DirectoryLimits
  BY <1>4 DEF DirectoryLimits
<1> QED BY <1>5, <1>9, <1>10, <1>11

\* At most one route is shown first; what is offered besides are routes' ids.
LEMMA ShownFit ==
  ASSUME NEW d \in Decisions, NEW p, AllAssessed(p)
  PROVE  /\ PrimaryAndAlternatives(d, p).primary \in Optional(STRING)
         /\ PrimaryAndAlternatives(d, p).alternatives \in Seq(STRING)
<1> DEFINE routes  == p.routes
           chosen  == {i \in DOMAIN routes : routes[i].id \in d.selected}
           primary == IF d.action = "AVOID" THEN {}
                      ELSE IF chosen # {} THEN {routes[i].id : i \in chosen}
                      ELSE {routes[OriginalIndex(routes)].id}
           others  == {i \in DOMAIN routes : /\ routes[i].id \notin primary
                                             /\ d.action = "AVOID" => routes[i].usable}
           key     == [i \in others |-> <<IF routes[i].usable THEN 0 ELSE 1, routes[i].rank, i>>]
           order   == Sorted(key)
<1>1. PrimaryAndAlternatives(d, p) = [primary |-> primary,
                                      alternatives |-> [k \in DOMAIN order |-> routes[order[k]].id]]
  BY Zenon DEF PrimaryAndAlternatives
<1>2. PICK n \in Nat \ {0} : DOMAIN routes = 1 .. n /\ routes \in [1 .. n -> Routes]
  <2>1. PICK n \in Nat : routes \in [1 .. n -> Routes]
    BY DEF AllAssessed, Packages
  <2>2. n # 0
    BY <2>1 DEF AllAssessed
  <2> QED BY <2>1, <2>2
<1>3. ASSUME NEW i \in 1 .. n
      PROVE  routes[i].id \in STRING /\ routes[i].rank \in Nat
  <2>1. routes[i] \in Routes
    BY <1>2
  <2> QED BY <2>1 DEF Routes
<1>4. primary \in Optional(STRING)
  <2>1. d.selected \in Optional(STRING)
    BY DEF Decisions
  <2>2. {routes[i].id : i \in chosen} \in Optional(STRING)
    <3>1. \A i \in chosen : routes[i].id \in d.selected
      OBVIOUS
    <3> HIDE DEF chosen, routes
    <3> QED BY <2>1, <3>1 DEF Optional
  <2>3. routes[OriginalIndex(routes)].id \in STRING
    <3>1. OriginalIndex(routes) \in 1 .. n
      BY <1>2, FirstOriginal
    <3> QED BY <1>3, <3>1
  <2>4. {routes[OriginalIndex(routes)].id} \in Optional(STRING) /\ {} \in Optional(STRING)
    BY <2>3, OptionalOne
  <2> HIDE DEF chosen, routes
  <2> QED BY <2>2, <2>4
<1>5. others \in SUBSET (1 .. n)
  BY <1>2
<1> HIDE DEF others, primary
<1>6. key \in [others -> Tuples(3)] /\ \A i, j \in others : key[i] = key[j] => i = j
  <2>1. \A i \in others : <<IF routes[i].usable THEN 0 ELSE 1, routes[i].rank, i>> \in Tuples(3)
    BY <1>3, <1>5 DEF Tuples
  <2> QED BY <2>1
<1> HIDE DEF key
<1>7. PICK c \in Nat : order \in [1 .. c -> others]
  <2>1. IsFiniteSet(others) /\ Cardinality(others) \in Nat
    BY <1>5, FiniteWithin, FS_CardinalityType
  <2>2. Sorted(key) \in [1 .. Cardinality(others) -> others]
    BY <1>6, <2>1, SortedIsBijection
  <2> QED BY <2>1, <2>2
<1> HIDE DEF order
<1>8. [k \in DOMAIN order |-> routes[order[k]].id] \in Seq(STRING)
  <2>1. \A k \in 1 .. c : routes[order[k]].id \in STRING
    BY <1>3, <1>5, <1>7
  <2> QED BY <1>7, <2>1
<1> QED BY <1>1, <1>4, <1>8

\* A response of a well-formed decision, package and directory is well-formed.
LEMMA ResponseFits ==
  ASSUME NEW d \in Decisions, NEW p, AllAssessed(p), NEW directory,
         directory.contacts \in SUBSET STRING, directory.limitations \in SUBSET DirectoryLimits
  PROVE  BuildResponse(d, p, directory) \in Recommendations
<1>1. PICK shown : shown = PrimaryAndAlternatives(d, p)
  OBVIOUS
<1>2. shown.primary \in Optional(STRING) /\ shown.alternatives \in Seq(STRING)
  BY <1>1, ShownFit
<1>3. PICK degraded : degraded = AllDegraded(d, p)
  OBVIOUS
<1>4. p \in Packages /\ p.degraded \in SUBSET Services /\ p.alerts \in SUBSET Events
      /\ p.evidence \in SUBSET EvidenceItems /\ p.limitations \in SUBSET PackageLimits /\ p.snapshot \in Nat
  BY DEF AllAssessed, Packages
<1>5. degraded \in SUBSET Services
  BY <1>3, <1>4 DEF AllDegraded, Services
<1>6. PICK status : status = IF degraded # {} \/ p.quality.overall.status \in {"PARTIAL", "STALE", "CONFLICTING"}
                             THEN "PARTIAL" ELSE "COMPLETED"
  OBVIOUS
<1>7. status \in {"COMPLETED", "PARTIAL"}
  BY <1>6
<1>8. PICK alerts : alerts = {e.id : e \in {x \in p.alerts : x.official}}
  OBVIOUS
<1>9. alerts \in SUBSET STRING
  <2>1. \A e \in Events : e.id \in STRING
    BY DEF Events
  <2> QED BY <1>4, <1>8, <2>1
<1>10. PICK evidence : evidence = Cited(d, p)
  OBVIOUS
<1>11. PICK steps : steps = Instructions(d, p)
  OBVIOUS
<1>12. evidence \in SUBSET STRING /\ steps \in SUBSET STRING
  <2>1. PICK ids : ids = {e.id : e \in p.evidence}
    OBVIOUS
  <2>2. \A e \in EvidenceItems : e.id \in STRING
    BY DEF EvidenceItems
  <2>3. ids \in SUBSET STRING
    BY <1>4, <2>1, <2>2
  <2>4. Cited(d, p) \in SUBSET STRING
    BY <2>1, <2>3 DEF Cited
  <2>5. Instructions(d, p) \in SUBSET STRING
    BY <2>4 DEF Instructions
  <2> QED BY <1>10, <1>11, <2>4, <2>5
<1>13. PICK raised \in BOOLEAN : raised = (d.escalations # {})
  OBVIOUS
<1>14. PICK limits : limits = d.limitations \cup p.limitations \cup directory.limitations
  OBVIOUS
<1>15. /\ d.request \in STRING /\ d.action \in Actions /\ d.level \in RiskLevels /\ d.says \in Actions
       /\ d.limitations \in SUBSET DecisionLimits
  BY DEF Decisions
<1>16. limits \in SUBSET (DecisionLimits \cup DirectoryLimits)
  BY <1>4, <1>14, <1>15 DEF DecisionLimits
<1>17. BuildResponse(d, p, directory) =
        [request |-> d.request, snapshot |-> p.snapshot, status |-> status, action |-> d.action,
         level |-> d.level, primary |-> shown.primary, alternatives |-> shown.alternatives,
         alerts |-> alerts, evidence |-> evidence, instructions |-> steps,
         contacts |-> directory.contacts, limitations |-> limits, degraded |-> degraded,
         escalation |-> raised, says |-> d.says]
  BY <1>1, <1>3, <1>6, <1>8, <1>10, <1>11, <1>13, <1>14, ZenonT(60) DEF BuildResponse
<1>18. [request |-> d.request, snapshot |-> p.snapshot, status |-> status, action |-> d.action,
         level |-> d.level, primary |-> shown.primary, alternatives |-> shown.alternatives,
         alerts |-> alerts, evidence |-> evidence, instructions |-> steps,
         contacts |-> directory.contacts, limitations |-> limits, degraded |-> degraded,
         escalation |-> raised, says |-> d.says] \in Recommendations
  BY <1>2, <1>4, <1>5, <1>7, <1>9, <1>12, <1>15, <1>16 DEF Recommendations
<1> QED BY <1>17, <1>18
=============================================================================
