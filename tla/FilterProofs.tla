---------------------------- MODULE FilterProofs ----------------------------
(***************************************************************************)
(* Proofs about Filter, for any blacklist, extensions and URLs: its        *)
(* properties, by an invariant of the requests.  Each loop of the code is  *)
(* a fold, and a fold is a function chosen to solve a recursion: the first *)
(* part shows that there is one, so that a loop may be taken turn by turn. *)
(***************************************************************************)
EXTENDS Filter, FiniteSetTheorems, TLAPS

-----------------------------------------------------------------------------
(***************************************************************************)
(* Induction, and folds as steps of a loop.                                *)
(***************************************************************************)
\* A set of numbers that has 0 and the successor of each has every number.
LEMMA Inductive ==
    ASSUME NEW P \in SUBSET Nat, 0 \in P, \A n \in P : n + 1 \in P
    PROVE  \A n \in Nat : n \in P
<1> SUFFICES ASSUME NEW m \in Nat \ P PROVE FALSE
  OBVIOUS
<1> DEFINE Less == {pair \in Nat \X Nat : pair[1] < pair[2]}
<1>1. IsWellFoundedOn(Less, Nat)
  BY NatLessThanWellFounded, Zenon DEF OpToRel
<1>2. \A i, j \in Nat : i < j => <<i, j>> \in Less
  OBVIOUS
<1>3. Nat \ P \subseteq Nat /\ Nat \ P # {}
  OBVIOUS
<1> HIDE DEF Less
<1>4. PICK least \in Nat \ P : \A n \in Nat \ P : <<n, least>> \notin Less
  BY <1>1, <1>3, WFMin
<1>5. least \in Nat /\ least # 0 /\ least - 1 \in Nat /\ least - 1 < least
  OBVIOUS
<1>6. least - 1 \in P
  BY <1>2, <1>4, <1>5
<1>7. (least - 1) + 1 \in P
  BY <1>6
<1> QED BY <1>5, <1>7

\* Subsets are taken apart in the order of pick, and g solves the recursion.
Picks(pick, S) == \A s \in SUBSET S : s # {} => pick[s] \in s

IsFold(g, S, base, pick, step) == \A s \in SUBSET S :
    g[s] = IF s = {} THEN base ELSE step[pick[s]][g[s \ {pick[s]}]]

\* A recursion over the subsets of a finite set, each of which is taken apart in
\* some order, has a solution.
LEMMA FoldExists ==
    ASSUME NEW S, IsFiniteSet(S), NEW Values, NEW base \in Values,
           NEW pick, Picks(pick, S), NEW step \in [S -> [Values -> Values]]
    PROVE  \E g \in [SUBSET S -> Values] : IsFold(g, S, base, pick, step)
<1>0. \A s \in SUBSET S : s # {} => pick[s] \in s
  BY DEF Picks
<1> DEFINE Solved(g, s) == g[s] = IF s = {} THEN base ELSE step[pick[s]][g[s \ {pick[s]}]]
           Upto == {n \in Nat : \E g \in [SUBSET S -> Values] :
                      \A s \in SUBSET S : Cardinality(s) <= n => Solved(g, s)}
<1>1. \A s \in SUBSET S : /\ IsFiniteSet(s)
                          /\ Cardinality(s) \in Nat /\ Cardinality(s) <= Cardinality(S)
  BY FS_Subset, FS_CardinalityType
<1>2. 0 \in Upto
  <2> DEFINE g == [s \in SUBSET S |-> base]
  <2>1. \A s \in SUBSET S : Cardinality(s) <= 0 => s = {}
    BY <1>1, FS_EmptySet
  <2>2. \A s \in SUBSET S : Cardinality(s) <= 0 => Solved(g, s)
    BY <2>1
  <2>3. g \in [SUBSET S -> Values]
    OBVIOUS
  <2> HIDE DEF g
  <2>4. \E h \in [SUBSET S -> Values] : \A s \in SUBSET S : Cardinality(s) <= 0 => Solved(h, s)
    BY <2>2, <2>3, Zenon
  <2> QED BY <2>4
<1>3. ASSUME NEW n \in Upto PROVE n + 1 \in Upto
  <2>1. PICK g \in [SUBSET S -> Values] : \A s \in SUBSET S : Cardinality(s) <= n => Solved(g, s)
    OBVIOUS
  <2> DEFINE next == [s \in SUBSET S |-> IF s = {} THEN base ELSE step[pick[s]][g[s \ {pick[s]}]]]
  <2>2. next \in [SUBSET S -> Values]
    BY <1>0
  <2>3. \A s \in SUBSET S : Cardinality(s) <= n => next[s] = g[s]
    BY <2>1
  <2>4. ASSUME NEW s \in SUBSET S, Cardinality(s) <= n + 1 PROVE Solved(next, s)
    <3>1. CASE s = {}
      BY <3>1
    <3>2. CASE s # {}
      <4>1. pick[s] \in s
        BY <1>0, <3>2
      <4>2. Cardinality(s \ {pick[s]}) = Cardinality(s) - 1
        BY <1>1, <4>1, FS_RemoveElement
      <4>3. Cardinality(s \ {pick[s]}) <= n
        BY <1>1, <2>4, <4>2
      <4>4. next[s \ {pick[s]}] = g[s \ {pick[s]}]
        BY <2>3, <4>3
      <4> QED BY <3>2, <4>4
    <3> QED BY <3>1, <3>2
  <2> HIDE DEF next
  <2>5. \E h \in [SUBSET S -> Values] : \A s \in SUBSET S : Cardinality(s) <= n + 1 => Solved(h, s)
    BY <2>2, <2>4, Zenon
  <2>6. n + 1 \in Nat
    OBVIOUS
  <2> QED BY <2>5, <2>6, Zenon
<1>4. Upto \in SUBSET Nat /\ Cardinality(S) \in Nat
  BY FS_CardinalityType
<1> HIDE DEF Upto
<1>5. Cardinality(S) \in Upto
  BY <1>2, <1>3, <1>4, Inductive
<1> QED BY <1>1, <1>5 DEF Upto, IsFold

-----------------------------------------------------------------------------
(***************************************************************************)
(* Sums.                                                                   *)
(***************************************************************************)
Chosen(s) == CHOOSE x \in s : TRUE

IsSum(g, S, f) == \A s \in SUBSET S :
    /\ g[s] = IF s = {} THEN 0 ELSE f[Chosen(s)] + g[s \ {Chosen(s)}]
    /\ SumFunctionOnSet(f, s) = g[s]

\* Sums over the subsets of a set solve the recursion that defines them.
LEMMA SumSolved ==
    ASSUME NEW S, IsFiniteSet(S), NEW f, \A x \in S : f[x] \in Int
    PROVE  \E g \in [SUBSET S -> Int] : IsSum(g, S, f)
<1> DEFINE pick == [s \in SUBSET S |-> Chosen(s)]
           step == [x \in S |-> [v \in Int |-> f[x] + v]]
<1>1. \A s \in SUBSET S : s # {} => Chosen(s) \in s /\ pick[s] = Chosen(s)
  BY Zenon DEF Chosen
<1>2. step \in [S -> [Int -> Int]] /\ \A x \in S, v \in Int : step[x][v] = f[x] + v
  OBVIOUS
<1> HIDE DEF pick, step
<1>3. PICK g \in [SUBSET S -> Int] : IsFold(g, S, 0, pick, step)
  <2>1. 0 \in Int
    OBVIOUS
  <2>2. Picks(pick, S)
    BY <1>1 DEF Picks
  <2> QED BY <1>2, <2>1, <2>2, FoldExists
<1>4. \A s \in SUBSET S : g[s] = IF s = {} THEN 0 ELSE f[Chosen(s)] + g[s \ {Chosen(s)}]
  <2> SUFFICES ASSUME NEW s \in SUBSET S, s # {} PROVE g[s] = f[Chosen(s)] + g[s \ {Chosen(s)}]
    BY <1>3 DEF IsFold
  <2>1. Chosen(s) \in S /\ pick[s] = Chosen(s) /\ g[s \ {Chosen(s)}] \in Int
    BY <1>1
  <2> QED BY <1>2, <1>3, <2>1 DEF IsFold
<1>5. ASSUME NEW T \in SUBSET S PROVE SumFunctionOnSet(f, T) = g[T]
  <2> DEFINE Sums(h) == [s \in SUBSET T |-> IF s = {} THEN 0 ELSE f[Chosen(s)] + h[s \ {Chosen(s)}]]
             iter == CHOOSE h : h = Sums(h)
  <2>1. SumFunctionOnSet(f, T) = iter[T]
    BY DEF SumFunctionOnSet, FoldFunctionOnSet, MapThenFoldSet, Chosen
  <2>2. iter = Sums(iter)
    <3> DEFINE h == [s \in SUBSET T |-> g[s]]
    <3>1. ASSUME NEW s \in SUBSET T
          PROVE  h[s] = IF s = {} THEN 0 ELSE f[Chosen(s)] + h[s \ {Chosen(s)}]
      <4>1. s \in SUBSET S /\ s \ {Chosen(s)} \in SUBSET T
        OBVIOUS
      <4> QED BY <1>4, <4>1
    <3>2. h = Sums(h)
      BY <3>1
    <3> HIDE DEF h, Sums
    <3> QED BY <3>2, Zenon
  <2> HIDE DEF iter
  <2>3. \A s \in SUBSET T : iter[s] = IF s = {} THEN 0 ELSE f[Chosen(s)] + iter[s \ {Chosen(s)}]
    BY <2>2
  <2> DEFINE Upto == {n \in Nat : \A s \in SUBSET T : Cardinality(s) <= n => iter[s] = g[s]}
  <2>4. \A s \in SUBSET T : IsFiniteSet(s) /\ Cardinality(s) \in Nat
    BY FS_Subset, FS_CardinalityType
  <2>5. 0 \in Upto
    <3>1. \A s \in SUBSET T : Cardinality(s) <= 0 => s = {}
      BY <2>4, FS_EmptySet
    <3>2. \A s \in SUBSET T : Cardinality(s) <= 0 => iter[s] = g[s]
      BY <1>4, <2>3, <3>1
    <3> QED BY <3>2
  <2>6. ASSUME NEW n \in Upto PROVE n + 1 \in Upto
    <3>1. ASSUME NEW s \in SUBSET T, Cardinality(s) <= n + 1 PROVE iter[s] = g[s]
      <4>1. CASE s = {}
        BY <1>4, <2>3, <4>1
      <4>2. CASE s # {}
        <5>1. Chosen(s) \in s
          BY <1>1, <4>2
        <5>2. Cardinality(s \ {Chosen(s)}) = Cardinality(s) - 1
          BY <2>4, <5>1, FS_RemoveElement
        <5>3. Cardinality(s \ {Chosen(s)}) <= n
          BY <2>4, <3>1, <5>2
        <5>4. iter[s \ {Chosen(s)}] = g[s \ {Chosen(s)}]
          BY <5>3
        <5> QED BY <1>4, <2>3, <4>2, <5>4
      <4> QED BY <4>1, <4>2
    <3>2. n + 1 \in Nat
      OBVIOUS
    <3> QED BY <3>1, <3>2
  <2>7. Upto \in SUBSET Nat
    OBVIOUS
  <2> HIDE DEF Upto
  <2>8. Cardinality(T) \in Upto
    BY <2>4, <2>5, <2>6, <2>7, Inductive
  <2> QED BY <2>1, <2>4, <2>8 DEF Upto
<1>6. IsSum(g, S, f)
  BY <1>4, <1>5, Zenon DEF IsSum
<1> QED BY <1>6

\* A sum is an integer, nothing adds up to 0, and any term may be taken out of it.
LEMMA SumIs ==
    ASSUME NEW S, IsFiniteSet(S), NEW f, \A x \in S : f[x] \in Int
    PROVE  /\ SumFunctionOnSet(f, {}) = 0
           /\ SumFunctionOnSet(f, S) \in Int
           /\ \A x \in S : /\ SumFunctionOnSet(f, S \ {x}) \in Int
                           /\ SumFunctionOnSet(f, S) = f[x] + SumFunctionOnSet(f, S \ {x})
<1>0. PICK g \in [SUBSET S -> Int] : IsSum(g, S, f)
  BY SumSolved, Zenon
<1>1. \A s \in SUBSET S : /\ g[s] = IF s = {} THEN 0 ELSE f[Chosen(s)] + g[s \ {Chosen(s)}]
                         /\ SumFunctionOnSet(f, s) = g[s]
  BY <1>0, Zenon DEF IsSum
<1> DEFINE Upto == {n \in Nat : \A s \in SUBSET S : Cardinality(s) <= n =>
                                   \A x \in s : g[s] = f[x] + g[s \ {x}]}
<1>2. \A s \in SUBSET S : IsFiniteSet(s) /\ Cardinality(s) \in Nat
  BY FS_Subset, FS_CardinalityType
<1>3. 0 \in Upto
  <2>1. \A s \in SUBSET S : Cardinality(s) <= 0 => s = {}
    BY <1>2, FS_EmptySet
  <2> QED BY <2>1
<1>4. ASSUME NEW n \in Upto PROVE n + 1 \in Upto
  <2>1. ASSUME NEW s \in SUBSET S, Cardinality(s) <= n + 1, NEW x \in s
        PROVE  g[s] = f[x] + g[s \ {x}]
    <3>1. Chosen(s) \in s
      BY Zenon DEF Chosen
    <3>2. g[s] = f[Chosen(s)] + g[s \ {Chosen(s)}]
      BY <1>1
    <3>3. CASE x = Chosen(s)
      BY <3>2, <3>3
    <3>4. CASE x # Chosen(s)
      <4> DEFINE a == Chosen(s)
                 rest == s \ {a, x}
      <4>1. /\ rest \in SUBSET S /\ s \ {x} \in SUBSET S /\ s \ {a} \in SUBSET S
            /\ (s \ {a}) \ {x} = rest /\ (s \ {x}) \ {a} = rest
            /\ x \in s \ {a} /\ a \in s \ {x}
        BY <3>1, <3>4
      <4>2. Cardinality(s \ {a}) = Cardinality(s) - 1 /\ Cardinality(s \ {x}) = Cardinality(s) - 1
        BY <1>2, <3>1, FS_RemoveElement
      <4>3. Cardinality(s \ {a}) <= n /\ Cardinality(s \ {x}) <= n
        BY <1>2, <2>1, <4>2
      <4>4. g[s \ {a}] = f[x] + g[(s \ {a}) \ {x}]
        BY <4>1, <4>3
      <4>5. g[s \ {x}] = f[a] + g[(s \ {x}) \ {a}]
        BY <4>1, <4>3
      <4>6. g[rest] \in Int /\ f[a] \in Int /\ f[x] \in Int
        BY <3>1, <4>1
      <4>7. g[s] = f[a] + g[s \ {a}]
        BY <3>2
      <4> HIDE DEF a, rest
      <4>8. g[s \ {a}] = f[x] + g[rest] /\ g[s \ {x}] = f[a] + g[rest]
        BY <4>1, <4>4, <4>5, Zenon
      <4>9. \A i, j, k \in Int : i + (j + k) = j + (i + k)
        OBVIOUS
      <4>10. f[a] + (f[x] + g[rest]) = f[x] + (f[a] + g[rest])
        BY <4>6, <4>9, Zenon
      <4> QED BY <4>7, <4>8, <4>10, Zenon
    <3> QED BY <3>3, <3>4
  <2>2. n + 1 \in Nat
    OBVIOUS
  <2> QED BY <2>1, <2>2
<1>5. Upto \in SUBSET Nat
  OBVIOUS
<1> HIDE DEF Upto
<1>6. Cardinality(S) \in Upto
  BY <1>2, <1>3, <1>4, <1>5, Inductive
<1>7. \A x \in S : g[S] = f[x] + g[S \ {x}]
  BY <1>2, <1>6 DEF Upto
<1>8. {} \in SUBSET S /\ S \in SUBSET S /\ \A x \in S : S \ {x} \in SUBSET S
  OBVIOUS
<1>9. SumFunctionOnSet(f, {}) = 0 /\ SumFunctionOnSet(f, S) = g[S]
  BY <1>1, <1>8
<1>10. \A x \in S : SumFunctionOnSet(f, S \ {x}) = g[S \ {x}]
  BY <1>1, <1>8
<1> QED BY <1>7, <1>8, <1>9, <1>10

\* A finite set is reached from the empty one by adding one element after another.
LEMMA SubsetsInductive ==
    ASSUME NEW S, IsFiniteSet(S), NEW P \in SUBSET SUBSET S, {} \in P,
           \A T \in P : \A x \in S \ T : T \cup {x} \in P
    PROVE  S \in P
<1> DEFINE Upto == {n \in Nat : \A T \in SUBSET S : Cardinality(T) <= n => T \in P}
<1>1. \A T \in SUBSET S : IsFiniteSet(T) /\ Cardinality(T) \in Nat
  BY FS_Subset, FS_CardinalityType
<1>2. 0 \in Upto
  <2>1. \A T \in SUBSET S : Cardinality(T) <= 0 => T = {}
    BY <1>1, FS_EmptySet
  <2> QED BY <2>1
<1>3. ASSUME NEW n \in Upto PROVE n + 1 \in Upto
  <2>1. ASSUME NEW T \in SUBSET S, Cardinality(T) <= n + 1 PROVE T \in P
    <3>1. CASE T = {}
      BY <3>1
    <3>2. ASSUME NEW x \in T PROVE T \in P
      <4>1. Cardinality(T \ {x}) = Cardinality(T) - 1
        BY <1>1, FS_RemoveElement
      <4>2. Cardinality(T \ {x}) <= n
        BY <1>1, <2>1, <4>1
      <4>3. T \ {x} \in P
        BY <4>2
      <4>4. (T \ {x}) \cup {x} \in P
        BY <4>3
      <4>5. (T \ {x}) \cup {x} = T
        OBVIOUS
      <4> QED BY <4>4, <4>5
    <3> QED BY <3>1, <3>2
  <2>2. n + 1 \in Nat
    OBVIOUS
  <2> QED BY <2>1, <2>2
<1>4. Upto \in SUBSET Nat
  OBVIOUS
<1> HIDE DEF Upto
<1>5. Cardinality(S) \in Upto
  BY <1>1, <1>2, <1>3, <1>4, Inductive
<1> QED BY <1>1, <1>5 DEF Upto

\* A term more is added.
LEMMA SumGrows ==
    ASSUME NEW T, IsFiniteSet(T), NEW x, x \notin T, NEW f, \A y \in T \cup {x} : f[y] \in Int
    PROVE  /\ SumFunctionOnSet(f, T) \in Int
           /\ SumFunctionOnSet(f, T \cup {x}) = f[x] + SumFunctionOnSet(f, T)
<1>1. IsFiniteSet(T \cup {x}) /\ x \in T \cup {x} /\ (T \cup {x}) \ {x} = T
  BY FS_AddElement
<1> QED BY <1>1, SumIs

\* Sums are added term by term; in particular equal terms have equal sums.
LEMMA SumAdds ==
    ASSUME NEW S, IsFiniteSet(S), NEW f, NEW g, NEW h,
           \A x \in S : f[x] \in Int /\ g[x] \in Int /\ h[x] = f[x] + g[x]
    PROVE  SumFunctionOnSet(h, S) = SumFunctionOnSet(f, S) + SumFunctionOnSet(g, S)
<1> DEFINE Sum(e, T) == SumFunctionOnSet(e, T)
           P == {T \in SUBSET S : Sum(h, T) = Sum(f, T) + Sum(g, T)}
<1>1. \A x \in S : h[x] \in Int
  OBVIOUS
<1>2. {} \in P
  <2>1. Sum(f, {}) = 0 /\ Sum(g, {}) = 0 /\ Sum(h, {}) = 0
    BY <1>1, SumIs
  <2> QED BY <2>1
<1>3. ASSUME NEW T \in P, NEW x \in S \ T PROVE T \cup {x} \in P
  <2>1. IsFiniteSet(T)
    BY FS_Subset
  <2>2. Sum(f, T) \in Int /\ Sum(f, T \cup {x}) = f[x] + Sum(f, T)
    BY <2>1, SumGrows
  <2>3. Sum(g, T) \in Int /\ Sum(g, T \cup {x}) = g[x] + Sum(g, T)
    BY <2>1, SumGrows
  <2>4. Sum(h, T) \in Int /\ Sum(h, T \cup {x}) = h[x] + Sum(h, T)
    BY <1>1, <2>1, SumGrows
  <2>5. Sum(h, T) = Sum(f, T) + Sum(g, T) /\ h[x] = f[x] + g[x] /\ f[x] \in Int /\ g[x] \in Int
    OBVIOUS
  <2>6. T \cup {x} \in SUBSET S
    OBVIOUS
  <2> HIDE DEF Sum
  <2>7. Sum(h, T \cup {x}) = Sum(f, T \cup {x}) + Sum(g, T \cup {x})
    BY <2>2, <2>3, <2>4, <2>5
  <2> QED BY <2>6, <2>7
<1>4. P \in SUBSET SUBSET S
  OBVIOUS
<1> HIDE DEF P
<1>5. S \in P
  BY <1>2, <1>3, <1>4, SubsetsInductive
<1> QED BY <1>5 DEF P

\* Equal terms have equal sums.
LEMMA SumSame ==
    ASSUME NEW S, IsFiniteSet(S), NEW f, NEW g, \A x \in S : f[x] \in Int /\ g[x] = f[x]
    PROVE  SumFunctionOnSet(g, S) = SumFunctionOnSet(f, S)
<1> DEFINE zero == [x \in S |-> 0]
<1>1. \A x \in S : /\ f[x] \in Int /\ zero[x] \in Int
                   /\ g[x] = f[x] + zero[x] /\ zero[x] = zero[x] + zero[x]
  OBVIOUS
<1> HIDE DEF zero
<1>2. SumFunctionOnSet(g, S) = SumFunctionOnSet(f, S) + SumFunctionOnSet(zero, S)
  BY <1>1, SumAdds
<1>3. SumFunctionOnSet(zero, S) = SumFunctionOnSet(zero, S) + SumFunctionOnSet(zero, S)
  BY <1>1, SumAdds
<1>4. SumFunctionOnSet(f, S) \in Int /\ SumFunctionOnSet(zero, S) \in Int
  BY <1>1, SumIs
<1>5. \A i, j \in Int : j = j + j => i + j = i
  OBVIOUS
<1> QED BY <1>2, <1>3, <1>4, <1>5, Zenon

\* Nothing but zeros adds up to 0.
LEMMA SumOfZeros ==
    ASSUME NEW S, IsFiniteSet(S), NEW f, \A x \in S : f[x] = 0
    PROVE  SumFunctionOnSet(f, S) = 0
<1>1. \A x \in S : f[x] \in Int /\ f[x] = f[x] + f[x]
  OBVIOUS
<1>2. SumFunctionOnSet(f, S) = SumFunctionOnSet(f, S) + SumFunctionOnSet(f, S)
  BY <1>1, SumAdds
<1>3. SumFunctionOnSet(f, S) \in Int
  BY <1>1, SumIs
<1>4. \A i \in Int : i = i + i => i = 0
  OBVIOUS
<1> QED BY <1>2, <1>3, <1>4, Zenon

\* A sum of natural numbers is one, and no term is greater.
LEMMA SumIsNat ==
    ASSUME NEW S, IsFiniteSet(S), NEW f, \A x \in S : f[x] \in Nat
    PROVE  /\ SumFunctionOnSet(f, S) \in Nat
           /\ \A x \in S : f[x] <= SumFunctionOnSet(f, S)
<1> DEFINE Sum(T) == SumFunctionOnSet(f, T)
           P == {T \in SUBSET S : Sum(T) \in Nat}
<1>0. \A x \in S : f[x] \in Int
  OBVIOUS
<1>1. {} \in P
  BY <1>0, SumIs
<1>2. ASSUME NEW T \in P, NEW x \in S \ T PROVE T \cup {x} \in P
  <2>1. IsFiniteSet(T)
    BY FS_Subset
  <2>2. Sum(T \cup {x}) = f[x] + Sum(T)
    BY <1>0, <2>1, SumGrows
  <2>3. Sum(T) \in Nat /\ f[x] \in Nat /\ T \cup {x} \in SUBSET S
    OBVIOUS
  <2> HIDE DEF Sum
  <2> QED BY <2>2, <2>3
<1>3. P \in SUBSET SUBSET S
  OBVIOUS
<1>4. ASSUME NEW T \in SUBSET S PROVE Sum(T) \in Nat
  <2> DEFINE Q == {U \in SUBSET T : Sum(U) \in Nat}
  <2>1. IsFiniteSet(T) /\ {} \in Q /\ Q \in SUBSET SUBSET T
    BY <1>1, FS_Subset
  <2>2. ASSUME NEW U \in Q, NEW x \in T \ U PROVE U \cup {x} \in Q
    BY <1>2
  <2> HIDE DEF Q
  <2>3. T \in Q
    BY <2>1, <2>2, SubsetsInductive
  <2> QED BY <2>3 DEF Q
<1>5. ASSUME NEW x \in S PROVE f[x] <= Sum(S)
  <2>1. Sum(S) = f[x] + Sum(S \ {x})
    BY <1>0, SumIs
  <2>2. Sum(S \ {x}) \in Nat /\ f[x] \in Nat
    BY <1>4
  <2> HIDE DEF Sum
  <2> QED BY <2>1, <2>2
<1> QED BY <1>4, <1>5

-----------------------------------------------------------------------------
(***************************************************************************)
(* Loops over sequences: FoldLeft takes the last element of what is left.  *)
(***************************************************************************)
LEMMA MaxIs ==
    ASSUME NEW n \in Nat, NEW s \in SUBSET (1..n), s # {}
    PROVE  Max(s) \in s /\ \A x \in s : Max(s) >= x
<1> DEFINE P == {k \in Nat : \A T \in SUBSET (1..k) : T # {} => \E m \in T : \A x \in T : m >= x}
<1>1. 0 \in P
  <2>1. 1..0 = {}
    OBVIOUS
  <2>2. \A T \in SUBSET (1..0) : T = {}
    BY <2>1
  <2> QED BY <2>2
<1>2. ASSUME NEW k \in P PROVE k + 1 \in P
  <2>1. ASSUME NEW T \in SUBSET (1..k+1), T # {} PROVE \E m \in T : \A x \in T : m >= x
    <3>1. CASE k + 1 \in T
      BY <3>1
    <3>2. CASE k + 1 \notin T
      <4>1. T \in SUBSET (1..k)
        BY <3>2
      <4> QED BY <2>1, <4>1
    <3> QED BY <3>1, <3>2
  <2>2. k + 1 \in Nat
    OBVIOUS
  <2> QED BY <2>1, <2>2
<1>3. P \in SUBSET Nat
  OBVIOUS
<1> HIDE DEF P
<1>4. n \in P
  BY <1>1, <1>2, <1>3, Inductive
<1>5. \E m \in s : \A x \in s : m >= x
  BY <1>4 DEF P
<1> QED BY <1>5, Zenon DEF Max

\* FoldLeft takes 1..k apart into k and 1..k-1.
LEMMA MaxOfInterval ==
    ASSUME NEW n \in Nat, NEW k \in 1..n
    PROVE  Max(1..k) = k /\ (1..k) \ {k} = 1..k-1 /\ 1..k \in SUBSET (1..n) /\ 1..k # {}
<1>1. 1..k \in SUBSET (1..n) /\ 1..k # {} /\ k \in 1..k /\ (1..k) \ {k} = 1..k-1
  OBVIOUS
<1>2. Max(1..k) \in 1..k /\ Max(1..k) >= k
  BY <1>1, MaxIs
<1> QED BY <1>1, <1>2

\* What FoldLeft's recursion over the indices comes to, where it may be computed.
Looped(h, n, Values, base, op) ==
    /\ h[{}] = base
    /\ \A s \in SUBSET (1..n) : s # {} /\ h[s \ {Max(s)}] \in Values =>
          h[s] = op[Max(s)][h[s \ {Max(s)}]]

\* The recursion of a loop has a solution among the functions to its values.
LEMMA LoopExists ==
    ASSUME NEW n \in Nat, NEW Values, NEW base \in Values, NEW op \in [1..n -> [Values -> Values]]
    PROVE  \E h \in [SUBSET (1..n) -> Values] : Looped(h, n, Values, base, op)
<1> DEFINE pick == [s \in SUBSET (1..n) |-> Max(s)]
<1>1. Picks(pick, 1..n)
  BY MaxIs DEF Picks
<1>2. \A s \in SUBSET (1..n) : pick[s] = Max(s)
  OBVIOUS
<1>3. IsFiniteSet(1..n) /\ {} \in SUBSET (1..n)
  BY FS_Interval
<1> HIDE DEF pick
<1>4. PICK h \in [SUBSET (1..n) -> Values] : IsFold(h, 1..n, base, pick, op)
  BY <1>1, <1>3, FoldExists, Zenon
<1>5. Looped(h, n, Values, base, op)
  BY <1>2, <1>3, <1>4 DEF IsFold, Looped
<1> QED BY <1>5

\* The values after each turn of the loop.
Turns(a, n, base, op) == a[0] = base /\ \A k \in 1..n : a[k] = op[k][a[k-1]]

\* Any solution gives, for 1..n, the value after the last of n turns.
LEMMA LoopIs ==
    ASSUME NEW n \in Nat, NEW Values, NEW base \in Values, NEW op \in [1..n -> [Values -> Values]],
           NEW h, Looped(h, n, Values, base, op)
    PROVE  \E a \in [0..n -> Values] : Turns(a, n, base, op) /\ a[n] = h[1..n]
<1> DEFINE a == [k \in 0..n |-> h[1..k]]
           P == {k \in Nat : k <= n => a[k] \in Values}
<1>1. a[0] = base
  <2>1. 1..0 = {} /\ 0 \in 0..n
    OBVIOUS
  <2> QED BY <2>1 DEF Looped
<1>2. ASSUME NEW k \in 1..n, a[k-1] \in Values PROVE a[k] = op[k][a[k-1]] /\ a[k] \in Values
  <2>1. /\ Max(1..k) = k /\ (1..k) \ {k} = 1..k-1
        /\ 1..k \in SUBSET (1..n) /\ 1..k # {}
    BY MaxOfInterval
  <2>2. a[k] = h[1..k] /\ a[k-1] = h[1..k-1]
    OBVIOUS
  <2>3. h[1..k] = op[k][h[1..k-1]]
    BY <1>2, <2>1, <2>2 DEF Looped
  <2>4. op[k] \in [Values -> Values]
    OBVIOUS
  <2> HIDE DEF a
  <2> QED BY <1>2, <2>2, <2>3, <2>4
<1>3. P \in SUBSET Nat /\ 0 \in P
  BY <1>1
<1>4. ASSUME NEW k \in P PROVE k + 1 \in P
  <2>1. k + 1 \in Nat /\ (k + 1) - 1 = k
    OBVIOUS
  <2>2. ASSUME k + 1 <= n PROVE a[k+1] \in Values
    <3>1. k + 1 \in 1..n /\ a[k] \in Values
      BY <2>2
    <3> HIDE DEF a
    <3> QED BY <1>2, <2>1, <3>1
  <2> HIDE DEF a
  <2> QED BY <2>1, <2>2
<1> HIDE DEF P
<1>5. \A k \in Nat : k \in P
  BY <1>3, <1>4, Inductive
<1>6. \A k \in 0..n : a[k] \in Values
  <2> SUFFICES ASSUME NEW k \in 0..n PROVE a[k] \in Values
    OBVIOUS
  <2>1. k \in Nat /\ k <= n
    OBVIOUS
  <2> HIDE DEF a
  <2> QED BY <1>5, <2>1 DEF P
<1>7. \A k \in 1..n : a[k] = op[k][a[k-1]]
  <2>1. \A k \in 1..n : k-1 \in 0..n
    OBVIOUS
  <2> HIDE DEF a
  <2> QED BY <1>2, <1>6, <2>1
<1>8. a \in [0..n -> Values] /\ a[n] = h[1..n]
  BY <1>6
<1> HIDE DEF a
<1> QED BY <1>1, <1>7, <1>8 DEF Turns

-----------------------------------------------------------------------------
(***************************************************************************)
(* The loop over the blacklist.                                            *)
(***************************************************************************)
Match == [keyword : Seq(Keywords), whitelist : BOOLEAN, strength : Int]

\* The match tells of those of the first k keywords that are found in the URL.
MatchOf(m, k) ==
    /\ m \in Match
    /\ IsInjective(m.keyword)
    /\ ToSet(m.keyword) = Found \cap 1..k
    /\ m.whitelist <=> \E j \in Found \cap 1..k : Whitelisted(j)

\* What the assumption on the blacklist says of one keyword.
LEMMA BlacklistIs ==
    /\ Len(Blacklist) \in Nat /\ Keywords = DOMAIN Blacklist
    /\ \A k \in Keywords : /\ Blacklist[k].strength \in Int
                           /\ Blacklist[k].words \in Seq(Words)
                           /\ Blacklist[k].words # <<>>
                           /\ SubMatch(k, url.found) <=> k \in Found
<1>1. Blacklist \in Seq(Keyword) /\ \A k \in 1..Len(Blacklist) : Blacklist[k].words # <<>>
  BY FilterAssumption
<1>2. Len(Blacklist) \in Nat /\ Keywords = DOMAIN Blacklist
  BY <1>1 DEF Keywords
<1>3. \A k \in Keywords : Blacklist[k] \in Keyword
  BY <1>1 DEF Keywords
<1>4. \A k \in Keywords : Blacklist[k].strength \in Int /\ Blacklist[k].words \in Seq(Words)
  BY <1>3 DEF Keyword
<1>5. ASSUME NEW k \in Keywords PROVE SubMatch(k, url.found) <=> k \in Found
  <2> DEFINE words == Blacklist[k].words
  <2>1. ToSet(words) = {words[n] : n \in 1..Len(words)}
    BY <1>4 DEF ToSet
  <2> QED BY <2>1 DEF SubMatch, Found
<1> QED BY <1>1, <1>2, <1>4, <1>5 DEF Keywords

\* A turn of the loop over the blacklist leaves a match.
LEMMA AddKeywordType ==
    ASSUME NEW m \in Match, NEW k \in Keywords
    PROVE  AddKeyword(m, k) \in Match
<1>1. Append(m.keyword, k) \in Seq(Keywords)
  BY DEF Match
<1>2. m.strength + Blacklist[k].strength \in Int
  BY BlacklistIs DEF Match
<1>3. (m.whitelist \/ Whitelisted(k)) \in BOOLEAN
  OBVIOUS
<1> QED BY <1>1, <1>2, <1>3 DEF AddKeyword, Match

\* The values that the match takes in the loop of isUrlMatch.
AddKeywords == [k \in Keywords |-> [m \in Match |-> AddKeyword(m, k)]]

\* FoldLeftDomain in isUrlMatch is that loop.
LEMMA BlacklistLoop ==
    \E a \in [0..Len(Blacklist) -> Match] :
        /\ Turns(a, Len(Blacklist), NoMatch, AddKeywords)
        /\ FoldLeftDomain(AddKeyword, NoMatch, Blacklist) = a[Len(Blacklist)]
<1> DEFINE n == Len(Blacklist)
           ids == [i \in DOMAIN Blacklist |-> i]
           Steps(h) == [s \in SUBSET DOMAIN ids |->
                          IF s = {} THEN NoMatch ELSE AddKeyword(h[s \ {Max(s)}], ids[Max(s)])]
           iter == CHOOSE h : h = Steps(h)
<1>1. n \in Nat /\ DOMAIN ids = 1..n /\ Keywords = 1..n /\ \A k \in 1..n : ids[k] = k
  BY BlacklistIs DEF Keywords
<1>2. FoldLeftDomain(AddKeyword, NoMatch, Blacklist) = iter[DOMAIN ids]
  BY DEF FoldLeftDomain, FoldLeft, MapThenFoldSet
<1> HIDE DEF n, ids
<1>3. NoMatch \in Match
  BY DEF NoMatch, Match
<1>4. /\ AddKeywords \in [1..n -> [Match -> Match]]
      /\ \A k \in 1..n, m \in Match : AddKeywords[k][m] = AddKeyword(m, k)
  BY <1>1, AddKeywordType DEF AddKeywords
<1>5. \A s \in SUBSET (1..n) : s # {} => Max(s) \in 1..n /\ s \ {Max(s)} \in SUBSET (1..n)
  BY <1>1, MaxIs
<1>6. iter = Steps(iter)
  <2>1. PICK h \in [SUBSET (1..n) -> Match] : Looped(h, n, Match, NoMatch, AddKeywords)
    BY <1>1, <1>3, <1>4, LoopExists
  <2>2. ASSUME NEW s \in SUBSET (1..n)
        PROVE  h[s] = IF s = {} THEN NoMatch ELSE AddKeyword(h[s \ {Max(s)}], ids[Max(s)])
    <3>1. CASE s = {}
      BY <2>1, <3>1 DEF Looped
    <3>2. CASE s # {}
      <4>1. Max(s) \in 1..n /\ h[s \ {Max(s)}] \in Match
        BY <1>5, <3>2
      <4>2. h[s] = AddKeywords[Max(s)][h[s \ {Max(s)}]]
        BY <2>1, <3>2, <4>1 DEF Looped
      <4>3. ids[Max(s)] = Max(s)
        BY <1>1, <4>1
      <4> QED BY <1>4, <3>2, <4>1, <4>2, <4>3
    <3> QED BY <3>1, <3>2
  <2>3. h = Steps(h)
    BY <1>1, <2>2
  <2> HIDE DEF Steps
  <2> QED BY <2>3, Zenon
<1> HIDE DEF iter
<1>7. Looped(iter, n, Match, NoMatch, AddKeywords)
  <2>1. \A s \in SUBSET (1..n) :
           iter[s] = IF s = {} THEN NoMatch ELSE AddKeyword(iter[s \ {Max(s)}], ids[Max(s)])
    BY <1>1, <1>6
  <2>2. iter[{}] = NoMatch
    BY <2>1
  <2>3. ASSUME NEW s \in SUBSET (1..n), s # {}, iter[s \ {Max(s)}] \in Match
        PROVE  iter[s] = AddKeywords[Max(s)][iter[s \ {Max(s)}]]
    <3>1. Max(s) \in 1..n /\ ids[Max(s)] = Max(s)
      BY <1>1, <1>5, <2>3
    <3>2. AddKeywords[Max(s)][iter[s \ {Max(s)}]] = AddKeyword(iter[s \ {Max(s)}], Max(s))
      BY <1>4, <2>3, <3>1
    <3> QED BY <2>1, <2>3, <3>1, <3>2
  <2> QED BY <2>2, <2>3 DEF Looped
<1>8. \E a \in [0..n -> Match] : Turns(a, n, NoMatch, AddKeywords) /\ a[n] = iter[1..n]
  BY <1>1, <1>3, <1>4, <1>7, LoopIs
<1> QED BY <1>1, <1>2, <1>8 DEF n

\* One turn of the loop.
LEMMA AddKeywordIs ==
    ASSUME NEW k \in Keywords, NEW m, MatchOf(m, k-1)
    PROVE  MatchOf(AddKeyword(m, k), k)
<1>1. /\ m \in Match /\ m.keyword \in Seq(Keywords) /\ Len(m.keyword) \in Nat
      /\ k \in Nat /\ k-1 \in Nat /\ k >= 1
  BY BlacklistIs DEF MatchOf, Match, Keywords
<1>2. AddKeyword(m, k) \in Match
  BY <1>1, AddKeywordType
<1>3. CASE ~SubMatch(k, url.found)
  <2>1. AddKeyword(m, k) = m
    BY <1>3 DEF AddKeyword
  <2>2. Found \cap 1..k = Found \cap 1..k-1
    <3>1. k \notin Found
      BY <1>3, BlacklistIs
    <3> QED BY <1>1, <3>1
  <2> QED BY <2>1, <2>2 DEF MatchOf
<1>4. CASE SubMatch(k, url.found)
  <2> DEFINE ks == m.keyword
             new == AddKeyword(m, k)
  <2>1. new.keyword = Append(ks, k) /\ new.whitelist = (m.whitelist \/ Whitelisted(k))
    BY <1>4 DEF AddKeyword
  <2>2. k \in Found /\ Found \cap 1..k = (Found \cap 1..k-1) \cup {k}
    <3>1. k \in Found
      BY <1>4, BlacklistIs
    <3> QED BY <1>1, <3>1
  <2>3. /\ DOMAIN ks = 1..Len(ks) /\ DOMAIN Append(ks, k) = 1..Len(ks)+1
        /\ \A i \in 1..Len(ks) : Append(ks, k)[i] = ks[i]
        /\ Append(ks, k)[Len(ks)+1] = k
    BY <1>1
  <2>4. \A i \in 1..Len(ks) : ks[i] \in Found \cap 1..k-1
    BY <2>3 DEF MatchOf, ToSet
  <2>5. ToSet(Append(ks, k)) = ToSet(ks) \cup {k}
    <3>1. ToSet(ks) = {ks[i] : i \in 1..Len(ks)}
      BY <2>3 DEF ToSet
    <3>2. ToSet(Append(ks, k)) = {Append(ks, k)[i] : i \in 1..Len(ks)+1}
      BY <2>3 DEF ToSet
    <3>3. \A x : x \in ToSet(Append(ks, k)) => x \in ToSet(ks) \cup {k}
      BY <1>1, <2>3, <3>1, <3>2
    <3>4. \A x : x \in ToSet(ks) \cup {k} => x \in ToSet(Append(ks, k))
      BY <1>1, <2>3, <3>1, <3>2
    <3> QED BY <3>3, <3>4
  <2>6. IsInjective(Append(ks, k))
    <3> SUFFICES ASSUME NEW i \in 1..Len(ks)+1, NEW j \in 1..Len(ks)+1,
                        Append(ks, k)[i] = Append(ks, k)[j]
                 PROVE  i = j
      BY <2>3, Zenon DEF IsInjective
    <3>1. CASE i = Len(ks)+1 /\ j = Len(ks)+1
      BY <3>1
    <3>2. CASE i \in 1..Len(ks) /\ j \in 1..Len(ks)
      <4>1. ks[i] = ks[j]
        BY <2>3, <3>2
      <4> QED BY <2>3, <3>2, <4>1 DEF MatchOf, IsInjective
    <3>3. CASE i \in 1..Len(ks) /\ j = Len(ks)+1
      <4>1. k \in 1..k-1
        BY <2>3, <2>4, <3>3
      <4> QED BY <1>1, <4>1
    <3>4. CASE j \in 1..Len(ks) /\ i = Len(ks)+1
      <4>1. k \in 1..k-1
        BY <2>3, <2>4, <3>4
      <4> QED BY <1>1, <4>1
    <3> QED BY <1>1, <3>1, <3>2, <3>3, <3>4
  <2>7. ToSet(new.keyword) = Found \cap 1..k
    BY <2>1, <2>2, <2>5 DEF MatchOf
  <2>8. new.whitelist <=> \E j \in Found \cap 1..k : Whitelisted(j)
    <3>1. m.whitelist <=> \E j \in Found \cap 1..k-1 : Whitelisted(j)
      BY DEF MatchOf
    <3> QED BY <2>1, <2>2, <3>1
  <2> QED BY <1>2, <2>1, <2>6, <2>7, <2>8 DEF MatchOf
<1> QED BY <1>3, <1>4

\* isUrlMatch finds all the keywords of the URL, and those alone.
LEMMA UrlMatchIs ==
    MatchOf(FoldLeftDomain(AddKeyword, NoMatch, Blacklist), Len(Blacklist))
<1> DEFINE n == Len(Blacklist)
<1>1. n \in Nat /\ Keywords = 1..n
  BY BlacklistIs DEF Keywords
<1>2. PICK a \in [0..n -> Match] : /\ Turns(a, n, NoMatch, AddKeywords)
                                   /\ FoldLeftDomain(AddKeyword, NoMatch, Blacklist) = a[n]
  BY BlacklistLoop
<1> HIDE DEF n
<1> DEFINE P == {k \in Nat : k <= n => MatchOf(a[k], k)}
<1>3. 0 \in P
  <2>1. 1..0 = {} /\ a[0] = NoMatch /\ a[0] \in Match
    BY <1>1, <1>2 DEF Turns
  <2>2. NoMatch.keyword = <<>> /\ NoMatch.whitelist = FALSE
    BY DEF NoMatch
  <2>3. ToSet(<<>>) = {} /\ IsInjective(<<>>)
    BY DEF ToSet, IsInjective
  <2> QED BY <2>1, <2>2, <2>3 DEF MatchOf
<1>4. ASSUME NEW k \in P PROVE k + 1 \in P
  <2>1. k + 1 \in Nat /\ (k + 1) - 1 = k
    OBVIOUS
  <2>2. ASSUME k + 1 <= n PROVE MatchOf(a[k+1], k+1)
    <3>1. k + 1 \in Keywords /\ k \in 0..n /\ MatchOf(a[k], k)
      BY <1>1, <2>2
    <3>2. a[k+1] = AddKeywords[k+1][a[k]]
      BY <1>1, <1>2, <2>1, <3>1 DEF Turns
    <3>3. a[k+1] = AddKeyword(a[k], k+1)
      BY <3>1, <3>2 DEF AddKeywords
    <3> QED BY <2>1, <3>1, <3>3, AddKeywordIs
  <2> QED BY <2>1, <2>2
<1>5. P \in SUBSET Nat
  OBVIOUS
<1> HIDE DEF P
<1>6. n \in P
  BY <1>1, <1>3, <1>4, <1>5, Inductive
<1> QED BY <1>1, <1>2, <1>6 DEF P, n

-----------------------------------------------------------------------------
(***************************************************************************)
(* What the hits of a keyword weigh in a token.                            *)
(***************************************************************************)
LEMMA QuotientIsNat == \A x \in Nat, d \in Nat \ {0} : x \div d \in Nat /\ x \div d <= x
<1> SUFFICES ASSUME NEW x \in Nat, NEW d \in Nat, d >= 1 PROVE x \div d \in Nat /\ x \div d <= x
  OBVIOUS
<1> DEFINE q == x \div d
<1>1. q \in Int /\ x = d * q + (x % d) /\ x % d \in 0..d-1
  OBVIOUS
<1> HIDE DEF q
<1>2. q >= 0
  <2>1. ASSUME q <= -1 PROVE FALSE
    <3>1. d * q <= -d
      BY <1>1, <2>1
    <3> QED BY <1>1, <3>1
  <2> QED BY <1>1, <2>1
<1>3. q <= d * q
  BY <1>1, <1>2
<1> QED BY <1>1, <1>2, <1>3 DEF q

\* Products of natural numbers are natural.
LEMMA ProductIsNat == \A x, y \in Nat : x * y \in Nat
OBVIOUS

\* The product with a natural number keeps the order.
LEMMA ProductKeepsOrder == \A x, y \in Int, s \in Nat : x <= y => x * s <= y * s
OBVIOUS

\* What a hit weighs is a natural number of units.
LEMMA WeightIsNat ==
    ASSUME NEW t \in Token, NEW hit \in Hit
    PROVE  Weight(t, hit) \in Nat
<1>1. hit.length \in Nat /\ 1 + hit.edges \in Nat /\ Unit \in Nat
  BY FilterAssumption DEF Hit
<1>2. (hit.length * (1 + hit.edges)) * Unit \in Nat
  BY <1>1, ProductIsNat
<1>3. 2 * t.length \in Nat \ {0}
  BY DEF Token
<1> QED BY <1>2, <1>3, QuotientIsNat DEF Weight

\* So is what all the hits of a word weigh.
LEMMA WordWeightIsNat ==
    ASSUME NEW t \in Token, NEW w \in Words
    PROVE  WordWeight(t, w) \in Nat
<1> DEFINE hits == t.hits[w]
           f == [n \in 1..Len(hits) |-> Weight(t, hits[n])]
<1>1. hits \in Seq(Hit) /\ Len(hits) \in Nat
  BY DEF Token
<1>2. IsFiniteSet(1..Len(hits)) /\ \A n \in 1..Len(hits) : f[n] \in Nat
  <2>1. IsFiniteSet(1..Len(hits))
    BY <1>1, FS_Interval
  <2>2. \A n \in 1..Len(hits) : hits[n] \in Hit /\ f[n] = Weight(t, hits[n])
    BY <1>1
  <2> HIDE DEF f, hits
  <2> QED BY <2>1, <2>2, WeightIsNat
<1>3. DOMAIN f = 1..Len(hits)
  OBVIOUS
<1>4. WordWeight(t, w) = SumFunctionOnSet(f, 1..Len(hits))
  BY <1>3 DEF WordWeight, SumFunction
<1> HIDE DEF f
<1> QED BY <1>2, <1>4, SumIsNat

\* The words before the first that is missing, all of them if none is.
LEMMA WordsBeforeIs ==
    ASSUME NEW t \in Token, NEW words \in Seq(Words)
    PROVE  /\ WordsBefore(t, words) \subseteq 1..Len(words)
           /\ IsFiniteSet(WordsBefore(t, words))
           /\ InToken(t, words) => WordsBefore(t, words) = 1..Len(words)
<1>1. WordsBefore(t, words) \subseteq 1..Len(words)
  BY DEF WordsBefore
<1>2. IsFiniteSet(1..Len(words))
  BY FS_Interval
<1>3. InToken(t, words) => WordsBefore(t, words) = 1..Len(words)
  BY DEF InToken, WordsBefore
<1> QED BY <1>1, <1>2, <1>3, FS_Subset

\* So is the factor of a keyword.
LEMMA FactorIsNat ==
    ASSUME NEW t \in Token, NEW words \in Seq(Words)
    PROVE  FactorOf(t, words) \in Nat
<1> DEFINE S == WordsBefore(t, words)
           f == [n \in S |-> WordWeight(t, words[n])]
<1>1. IsFiniteSet(S) /\ S \subseteq 1..Len(words)
  BY WordsBeforeIs
<1>2. \A n \in S : words[n] \in Words
  BY <1>1
<1>3. \A n \in S : f[n] \in Nat
  BY <1>2, WordWeightIsNat
<1>4. FactorOf(t, words) = SumFunctionOnSet(f, S)
  BY DEF FactorOf, SumFunction
<1> HIDE DEF f, S
<1> QED BY <1>1, <1>3, <1>4, SumIsNat

\* If all the words are in the token there is a hit.
LEMMA HitsIsNat ==
    ASSUME NEW t \in Token, NEW words \in Seq(Words), words # <<>>
    PROVE  /\ HitsOf(t, words) \in Nat
           /\ InToken(t, words) => HitsOf(t, words) >= 1
<1> DEFINE S == WordsBefore(t, words)
           f == [n \in S |-> Len(t.hits[words[n]])]
<1>1. IsFiniteSet(S) /\ S \subseteq 1..Len(words) /\ (InToken(t, words) => S = 1..Len(words))
  BY WordsBeforeIs
<1>2. \A n \in 1..Len(words) : t.hits[words[n]] \in Seq(Hit)
  BY DEF Token
<1>3. \A n \in S : f[n] \in Nat
  BY <1>1, <1>2
<1>4. HitsOf(t, words) = SumFunctionOnSet(f, S)
  BY DEF HitsOf, SumFunction
<1>5. ASSUME InToken(t, words) PROVE 1 \in S /\ f[1] >= 1
  <2>1. 1 \in 1..Len(words)
    OBVIOUS
  <2>2. t.hits[words[1]] # <<>>
    BY <1>5, <2>1 DEF InToken
  <2>3. Len(t.hits[words[1]]) >= 1
    BY <1>2, <2>1, <2>2
  <2> QED BY <1>1, <1>5, <2>1, <2>3
<1> HIDE DEF f, S
<1>6. SumFunctionOnSet(f, S) \in Nat /\ \A n \in S : f[n] <= SumFunctionOnSet(f, S)
  BY <1>1, <1>3, SumIsNat
<1> QED BY <1>3, <1>4, <1>5, <1>6


-----------------------------------------------------------------------------
(***************************************************************************)
(* The loop over the keywords of a token.                                  *)
(***************************************************************************)
Progress == [strength : Int, isMatch : BOOLEAN, tokenMatches : Nat]

\* What a keyword contributes that weighs x: at least once and at most twice that.
Low(k, x) ==
    IF Blacklist[k].strength < 0 THEN 2 * (x * Blacklist[k].strength) ELSE x * Blacklist[k].strength

High(k, x) ==
    IF Blacklist[k].strength < 0 THEN x * Blacklist[k].strength ELSE 2 * (x * Blacklist[k].strength)

\* Products of integers are integers.
LEMMA TimesIsInt == \A x, s \in Int : x * s \in Int
OBVIOUS

\* A weight that comes in two parts counts as the parts do.
LEMMA TimesAdds == \A x, y, s \in Int : (x + y) * s = x * s + y * s
OBVIOUS

\* The bounds of two weights add up.
LEMMA LowIs ==
    ASSUME NEW k \in Keywords, NEW x \in Int, NEW y \in Int
    PROVE  /\ Low(k, x) \in Int /\ High(k, x) \in Int
           /\ Low(k, x + y) = Low(k, x) + Low(k, y)
           /\ High(k, x + y) = High(k, x) + High(k, y)
           /\ Low(k, 0) = 0 /\ High(k, 0) = 0
<1> DEFINE s == Blacklist[k].strength
<1>1. s \in Int
  BY BlacklistIs
<1> HIDE DEF s
<1>2. x * s \in Int /\ y * s \in Int /\ (x + y) * s = x * s + y * s /\ 0 * s = 0
  <2>1. 0 * s = 0
    BY <1>1
  <2>2. x * s \in Int /\ y * s \in Int
    BY <1>1, TimesIsInt, Zenon
  <2>3. (x + y) * s = x * s + y * s
    BY <1>1, TimesAdds, ZenonT(40)
  <2> QED BY <2>1, <2>2, <2>3, Zenon
<1> DEFINE xs == x * s
           ys == y * s
           both == (x + y) * s
           none == 0 * s
<1>3. /\ Low(k, x) = IF s < 0 THEN 2 * xs ELSE xs
      /\ Low(k, y) = IF s < 0 THEN 2 * ys ELSE ys
      /\ Low(k, x + y) = IF s < 0 THEN 2 * both ELSE both
      /\ Low(k, 0) = IF s < 0 THEN 2 * none ELSE none
  BY Zenon DEF Low, s
<1>4. /\ High(k, x) = IF s < 0 THEN xs ELSE 2 * xs
      /\ High(k, y) = IF s < 0 THEN ys ELSE 2 * ys
      /\ High(k, x + y) = IF s < 0 THEN both ELSE 2 * both
      /\ High(k, 0) = IF s < 0 THEN none ELSE 2 * none
  BY Zenon DEF High, s
<1>5. xs \in Int /\ ys \in Int /\ both = xs + ys /\ none = 0
  BY <1>2
<1> HIDE DEF xs, ys, both, none
<1> QED BY <1>1, <1>3, <1>4, <1>5

\* A product with a weight between once and twice x is between the bounds for x.
LEMMA BetweenLowAndHigh ==
    ASSUME NEW k \in Keywords, NEW x \in Nat, NEW y \in Nat, y <= x
    PROVE  /\ (x + y) * Blacklist[k].strength \in Int
           /\ Low(k, x) <= (x + y) * Blacklist[k].strength
           /\ (x + y) * Blacklist[k].strength <= High(k, x)
<1> DEFINE s == Blacklist[k].strength
<1>1. s \in Int
  BY BlacklistIs
<1> HIDE DEF s
<1>2. x * s \in Int /\ y * s \in Int /\ (x + y) * s = x * s + y * s
  <2>1. x \in Int /\ y \in Int
    OBVIOUS
  <2>2. x * s \in Int /\ y * s \in Int
    BY <1>1, <2>1, TimesIsInt, Zenon
  <2>3. (x + y) * s = x * s + y * s
    BY <1>1, <2>1, TimesAdds, Zenon
  <2> QED BY <2>2, <2>3, Zenon
<1>3. CASE s >= 0
  <2>1. 0 * s <= y * s /\ y * s <= x * s /\ 0 * s = 0
    BY <1>1, <1>3, ProductKeepsOrder
  <2> DEFINE xs == x * s
             ys == y * s
  <2>2. /\ Low(k, x) = IF s < 0 THEN 2 * xs ELSE xs
        /\ High(k, x) = IF s < 0 THEN xs ELSE 2 * xs
        /\ (x + y) * s = xs + ys /\ xs \in Int /\ ys \in Int /\ 0 <= ys /\ ys <= xs
    BY <1>2, <2>1 DEF Low, High, s
  <2> HIDE DEF xs, ys
  <2>3. /\ (x + y) * s \in Int /\ Low(k, x) <= (x + y) * s /\ (x + y) * s <= High(k, x)
    BY <1>1, <1>3, <2>2
  <2> QED BY <2>3 DEF s
<1>4. CASE s < 0
  <2>1. x * s <= y * s /\ y * s <= 0
    <3>1. -s \in Nat
      BY <1>1, <1>4
    <3>2. 0 * (-s) <= y * (-s) /\ y * (-s) <= x * (-s)
      BY <3>1, ProductKeepsOrder
    <3>3. 0 * (-s) = 0 /\ y * (-s) = -(y * s) /\ x * (-s) = -(x * s)
      BY <1>1
    <3> QED BY <1>2, <3>2, <3>3
  <2> DEFINE xs == x * s
             ys == y * s
  <2>2. /\ Low(k, x) = IF s < 0 THEN 2 * xs ELSE xs
        /\ High(k, x) = IF s < 0 THEN xs ELSE 2 * xs
        /\ (x + y) * s = xs + ys /\ xs \in Int /\ ys \in Int /\ ys <= 0 /\ xs <= ys
    BY <1>2, <2>1 DEF Low, High, s
  <2> HIDE DEF xs, ys
  <2>3. /\ (x + y) * s \in Int /\ Low(k, x) <= (x + y) * s /\ (x + y) * s <= High(k, x)
    BY <1>1, <1>4, <2>2
  <2> QED BY <2>3 DEF s
<1> QED BY <1>1, <1>3, <1>4

\* What a keyword weighs in a token is a natural number.
LEMMA TokenShareIsNat ==
    ASSUME NEW t \in Token, NEW k \in Keywords
    PROVE  TokenShare(t, k) \in Nat
<1>1. FactorOf(t, Blacklist[k].words) \in Nat
  BY BlacklistIs, FactorIsNat
<1> QED BY <1>1 DEF TokenShare

\* One turn of the loop.
LEMMA MatchKeywordIs ==
    ASSUME NEW t \in Token, t.length > 2, NEW p \in Progress, NEW k \in Keywords
    PROVE  /\ MatchKeyword(t, p, k) \in Progress
           /\ MatchKeyword(t, p, k).isMatch <=> p.isMatch \/ InToken(t, Blacklist[k].words)
           /\ p.strength + Low(k, TokenShare(t, k)) <= MatchKeyword(t, p, k).strength
           /\ MatchKeyword(t, p, k).strength <= p.strength + High(k, TokenShare(t, k))
<1> DEFINE words == Blacklist[k].words
           factor == FactorOf(t, words)
           hits == HitsOf(t, words)
           all == p.tokenMatches + hits
           gain == (factor + factor \div all) * Blacklist[k].strength
<1>1. /\ words \in Seq(Words) /\ words # <<>>
      /\ p.strength \in Int /\ p.isMatch \in BOOLEAN /\ p.tokenMatches \in Nat
  BY BlacklistIs DEF Progress
<1>2. factor \in Nat /\ hits \in Nat /\ (InToken(t, words) => hits >= 1)
  BY <1>1, FactorIsNat, HitsIsNat
<1>3. all \in Nat /\ (InToken(t, words) => all >= 1)
  BY <1>1, <1>2
<1>4. CASE InToken(t, words)
  <2>1. MatchKeyword(t, p, k) = [strength |-> p.strength + gain, isMatch |-> TRUE,
                                 tokenMatches |-> all]
    BY <1>4 DEF MatchKeyword
  <2>2. TokenShare(t, k) = factor
    BY <1>4 DEF TokenShare
  <2> HIDE DEF all, factor
  <2>3. factor \div all \in Nat /\ factor \div all <= factor
    BY <1>2, <1>3, <1>4, QuotientIsNat
  <2>4. gain \in Int /\ Low(k, factor) <= gain /\ gain <= High(k, factor)
    BY <1>2, <2>3, BetweenLowAndHigh
  <2> HIDE DEF gain
  <2>5. Low(k, factor) \in Int /\ High(k, factor) \in Int
    BY <1>2, LowIs
  <2> QED BY <1>1, <1>3, <1>4, <2>1, <2>2, <2>4, <2>5 DEF Progress
<1>5. CASE ~InToken(t, words)
  <2>1. MatchKeyword(t, p, k) = [p EXCEPT !.tokenMatches = all]
    BY <1>5 DEF MatchKeyword
  <2>2. TokenShare(t, k) = 0
    BY <1>5 DEF TokenShare
  <2>3. Low(k, 0) = 0 /\ High(k, 0) = 0
    BY LowIs
  <2> HIDE DEF all
  <2> QED BY <1>1, <1>3, <1>5, <2>1, <2>2, <2>3 DEF Progress
<1> QED BY <1>4, <1>5

\* The values after each of the keywords ks.
KeywordTurns(t, ks) == [i \in 1..Len(ks) |-> [p \in Progress |-> MatchKeyword(t, p, ks[i])]]

\* FoldLeft in MatchToken is the loop over those keywords.
LEMMA KeywordLoop ==
    ASSUME NEW t \in Token, t.length > 2, NEW p \in Progress, NEW ks \in Seq(Keywords)
    PROVE  \E a \in [0..Len(ks) -> Progress] :
              /\ Turns(a, Len(ks), p, KeywordTurns(t, ks))
              /\ FoldLeft(LAMBDA acc, k : MatchKeyword(t, acc, k), p, ks) = a[Len(ks)]
<1> DEFINE n == Len(ks)
           op == KeywordTurns(t, ks)
           Steps(h) == [s \in SUBSET DOMAIN ks |->
                          IF s = {} THEN p ELSE MatchKeyword(t, h[s \ {Max(s)}], ks[Max(s)])]
           iter == CHOOSE h : h = Steps(h)
<1>1. n \in Nat /\ DOMAIN ks = 1..n /\ \A i \in 1..n : ks[i] \in Keywords
  OBVIOUS
<1>2. FoldLeft(LAMBDA acc, k : MatchKeyword(t, acc, k), p, ks) = iter[DOMAIN ks]
  BY DEF FoldLeft, MapThenFoldSet
<1> HIDE DEF n
<1>3. /\ op \in [1..n -> [Progress -> Progress]]
      /\ \A i \in 1..n, q \in Progress : op[i][q] = MatchKeyword(t, q, ks[i])
  <2>1. \A i \in 1..n, q \in Progress : MatchKeyword(t, q, ks[i]) \in Progress
    BY <1>1, MatchKeywordIs
  <2>2. op = [i \in 1..n |-> [q \in Progress |-> MatchKeyword(t, q, ks[i])]]
    BY DEF KeywordTurns, n
  <2> HIDE DEF op
  <2> QED BY <2>1, <2>2
<1> HIDE DEF op
<1>4. \A s \in SUBSET (1..n) : s # {} => Max(s) \in 1..n /\ s \ {Max(s)} \in SUBSET (1..n)
  BY <1>1, MaxIs
<1>5. iter = Steps(iter)
  <2>1. PICK h \in [SUBSET (1..n) -> Progress] : Looped(h, n, Progress, p, op)
    BY <1>1, <1>3, LoopExists
  <2>2. ASSUME NEW s \in SUBSET (1..n)
        PROVE  h[s] = IF s = {} THEN p ELSE MatchKeyword(t, h[s \ {Max(s)}], ks[Max(s)])
    <3>1. CASE s = {}
      BY <2>1, <3>1 DEF Looped
    <3>2. CASE s # {}
      <4>1. Max(s) \in 1..n /\ h[s \ {Max(s)}] \in Progress
        BY <1>4, <3>2
      <4>2. h[s] = op[Max(s)][h[s \ {Max(s)}]]
        BY <2>1, <3>2, <4>1 DEF Looped
      <4> QED BY <1>3, <3>2, <4>1, <4>2
    <3> QED BY <3>1, <3>2
  <2>3. h = Steps(h)
    BY <1>1, <2>2
  <2> HIDE DEF Steps
  <2> QED BY <2>3, Zenon
<1> HIDE DEF iter
<1>6. Looped(iter, n, Progress, p, op)
  <2>1. \A s \in SUBSET (1..n) :
           iter[s] = IF s = {} THEN p ELSE MatchKeyword(t, iter[s \ {Max(s)}], ks[Max(s)])
    BY <1>1, <1>5
  <2>2. iter[{}] = p
    BY <2>1
  <2>3. ASSUME NEW s \in SUBSET (1..n), s # {}, iter[s \ {Max(s)}] \in Progress
        PROVE  iter[s] = op[Max(s)][iter[s \ {Max(s)}]]
    <3>1. Max(s) \in 1..n
      BY <1>4, <2>3
    <3>2. op[Max(s)][iter[s \ {Max(s)}]] = MatchKeyword(t, iter[s \ {Max(s)}], ks[Max(s)])
      BY <1>3, <2>3, <3>1
    <3> QED BY <2>1, <2>3, <3>2
  <2> QED BY <2>2, <2>3 DEF Looped
<1>7. \E a \in [0..n -> Progress] : Turns(a, n, p, op) /\ a[n] = iter[1..n]
  <2>1. n \in Nat /\ p \in Progress /\ op \in [1..n -> [Progress -> Progress]]
    BY <1>1, <1>3
  <2>2. Looped(iter, n, Progress, p, op)
    BY <1>6
  <2> QED BY <2>1, <2>2, LoopIs, SMTT(60)
<1> QED BY <1>1, <1>2, <1>7 DEF n, op

\* What every keyword contributes for a token.
LowOf(t) == [k \in Keywords |-> Low(k, TokenShare(t, k))]
HighOf(t) == [k \in Keywords |-> High(k, TokenShare(t, k))]

\* The type of the contributions.
LEMMA LowOfIs ==
    ASSUME NEW t \in Token, NEW k \in Keywords
    PROVE  /\ LowOf(t)[k] = Low(k, TokenShare(t, k)) /\ LowOf(t)[k] \in Int
           /\ HighOf(t)[k] = High(k, TokenShare(t, k)) /\ HighOf(t)[k] \in Int
<1>1. TokenShare(t, k) \in Int
  BY TokenShareIsNat
<1>2. Low(k, TokenShare(t, k)) \in Int /\ High(k, TokenShare(t, k)) \in Int
  BY <1>1, LowIs
<1> QED BY <1>2 DEF LowOf, HighOf

\* From p to q, something matches if and only if one of the keywords of T is in the
\* token, and the strength gains what those keywords contribute.
Gained(t, p, T, q) ==
    /\ q.isMatch <=> p.isMatch \/ \E k \in T : InToken(t, Blacklist[k].words)
    /\ p.strength + SumFunctionOnSet(LowOf(t), T) <= q.strength
    /\ q.strength <= p.strength + SumFunctionOnSet(HighOf(t), T)

\* One turn of the loop: a keyword that was not counted yet.
LEMMA KeywordGained ==
    ASSUME NEW t \in Token, t.length > 2, NEW p \in Progress, NEW q \in Progress,
           NEW T \in SUBSET Keywords, Gained(t, p, T, q), NEW k \in Keywords \ T
    PROVE  Gained(t, p, T \cup {k}, MatchKeyword(t, q, k))
<1> DEFINE r == MatchKeyword(t, q, k)
           low(S) == SumFunctionOnSet(LowOf(t), S)
           high(S) == SumFunctionOnSet(HighOf(t), S)
<1>1. IsFiniteSet(T)
  <2>1. IsFiniteSet(1..Len(Blacklist))
    BY BlacklistIs, FS_Interval
  <2> QED BY <2>1, FS_Subset DEF Keywords
<1>2. low(T) \in Int /\ low(T \cup {k}) = LowOf(t)[k] + low(T)
  <2>1. \A j \in T \cup {k} : LowOf(t)[j] \in Int
    BY LowOfIs
  <2> QED BY <1>1, <2>1, SumGrows
<1>3. high(T) \in Int /\ high(T \cup {k}) = HighOf(t)[k] + high(T)
  <2>1. \A j \in T \cup {k} : HighOf(t)[j] \in Int
    BY LowOfIs
  <2> QED BY <1>1, <2>1, SumGrows
<1>4. /\ r \in Progress
      /\ r.isMatch <=> q.isMatch \/ InToken(t, Blacklist[k].words)
      /\ q.strength + LowOf(t)[k] <= r.strength
      /\ r.strength <= q.strength + HighOf(t)[k]
  BY MatchKeywordIs, LowOfIs
<1>5. p.strength \in Int /\ q.strength \in Int /\ r.strength \in Int
  BY <1>4 DEF Progress
<1>6. LowOf(t)[k] \in Int /\ HighOf(t)[k] \in Int
  BY LowOfIs
<1>7. /\ q.isMatch <=> p.isMatch \/ \E j \in T : InToken(t, Blacklist[j].words)
      /\ p.strength + low(T) <= q.strength
      /\ q.strength <= p.strength + high(T)
  BY DEF Gained
<1> HIDE DEF r, low, high
<1>8. r.isMatch <=> p.isMatch \/ \E j \in T \cup {k} : InToken(t, Blacklist[j].words)
  BY <1>4, <1>7, Zenon
<1>9. p.strength + low(T \cup {k}) <= r.strength
  BY <1>2, <1>4, <1>5, <1>6, <1>7
<1>10. r.strength <= p.strength + high(T \cup {k})
  BY <1>3, <1>4, <1>5, <1>6, <1>7
<1> QED BY <1>8, <1>9, <1>10 DEF Gained, r, low, high

\* All the keywords, none of which comes twice.
LEMMA KeywordLoopIs ==
    ASSUME NEW t \in Token, t.length > 2, NEW p \in Progress,
           NEW ks \in Seq(Keywords), IsInjective(ks)
    PROVE  LET q == FoldLeft(LAMBDA acc, k : MatchKeyword(t, acc, k), p, ks)
           IN  q \in Progress /\ Gained(t, p, ToSet(ks), q)
<1> DEFINE n == Len(ks)
           First(i) == {ks[j] : j \in 1..i}
<1>1. n \in Nat /\ DOMAIN ks = 1..n /\ \A i \in 1..n : ks[i] \in Keywords
  OBVIOUS
<1>2. PICK a \in [0..n -> Progress] :
          /\ Turns(a, n, p, KeywordTurns(t, ks))
          /\ FoldLeft(LAMBDA acc, k : MatchKeyword(t, acc, k), p, ks) = a[n]
  BY KeywordLoop
<1>3. \A i \in 1..n, q \in Progress : KeywordTurns(t, ks)[i][q] = MatchKeyword(t, q, ks[i])
  BY DEF KeywordTurns
<1>4. First(n) = ToSet(ks)
  BY <1>1 DEF ToSet
<1> HIDE DEF n
<1> DEFINE P == {i \in Nat : i <= n => Gained(t, p, First(i), a[i])}
<1>5. 0 \in P
  <2>1. First(0) = {}
    OBVIOUS
  <2>2. a[0] = p
    BY <1>2 DEF Turns
  <2>3. SumFunctionOnSet(LowOf(t), {}) = 0 /\ SumFunctionOnSet(HighOf(t), {}) = 0
    <3>1. IsFiniteSet({})
      BY FS_EmptySet
    <3> QED BY <3>1, SumIs
  <2>4. p.strength \in Int
    BY DEF Progress
  <2>5. Gained(t, p, {}, p)
    BY <2>3, <2>4 DEF Gained
  <2> HIDE DEF First
  <2> QED BY <2>1, <2>2, <2>5
<1>6. ASSUME NEW i \in P PROVE i + 1 \in P
  <2>1. i + 1 \in Nat /\ (i + 1) - 1 = i
    OBVIOUS
  <2>2. ASSUME i + 1 <= n PROVE Gained(t, p, First(i+1), a[i+1])
    <3>1. i + 1 \in 1..n /\ i \in 0..n /\ Gained(t, p, First(i), a[i]) /\ ks[i+1] \in Keywords
      BY <1>1, <2>2, SMTT(40)
    <3>2. a[i+1] = MatchKeyword(t, a[i], ks[i+1])
      <4>1. a[i+1] = KeywordTurns(t, ks)[i+1][a[i]]
        BY <1>2, <2>1, <3>1 DEF Turns
      <4> QED BY <1>3, <3>1, <4>1
    <3>3. First(i) \in SUBSET Keywords
      <4>1. \A j \in 1..i : j \in 1..n
        BY <1>1, <3>1
      <4> QED BY <1>1, <4>1
    <3>4. ks[i+1] \notin First(i)
      <4>1. \A j \in 1..i : j \in 1..n /\ j # i + 1
        BY <1>1, <3>1
      <4>2. \A j \in 1..i : ks[j] # ks[i+1]
        BY <1>1, <3>1, <4>1 DEF IsInjective
      <4> QED BY <4>2
    <3>5. First(i+1) = First(i) \cup {ks[i+1]}
      <4>1. 1..i+1 = (1..i) \cup {i+1}
        BY <2>1
      <4> QED BY <4>1
    <3> HIDE DEF First
    <3> QED BY <3>1, <3>2, <3>3, <3>4, <3>5, KeywordGained
  <2> HIDE DEF First
  <2> QED BY <2>1, <2>2
<1>7. P \in SUBSET Nat
  OBVIOUS
<1> HIDE DEF P
<1>8. n \in P
  BY <1>1, <1>5, <1>6, <1>7, Inductive
<1>9. Gained(t, p, First(n), a[n]) /\ a[n] \in Progress
  BY <1>1, <1>8 DEF P
<1> HIDE DEF First
<1> QED BY <1>2, <1>4, <1>9, Zenon

\* A token gains what the keywords of the match contribute, a short one nothing.
LEMMA MatchTokenIs ==
    ASSUME NEW t \in Token, NEW p \in Progress,
           match.keyword \in Seq(Keywords), IsInjective(match.keyword)
    PROVE  /\ MatchToken(p, t) \in Progress
           /\ t.length > 2 => Gained(t, p, ToSet(match.keyword), MatchToken(p, t))
           /\ ~(t.length > 2) => MatchToken(p, t) = p
<1>1. CASE t.length > 2
  <2> DEFINE start == [p EXCEPT !.tokenMatches = 0]
             q == FoldLeft(LAMBDA acc, k : MatchKeyword(t, acc, k), start, match.keyword)
  <2>1. start \in Progress /\ start.strength = p.strength /\ start.isMatch = p.isMatch
    BY DEF Progress
  <2>2. MatchToken(p, t) = q
    BY <1>1 DEF MatchToken
  <2> HIDE DEF start
  <2>3. q \in Progress /\ Gained(t, start, ToSet(match.keyword), q)
    BY <1>1, <2>1, KeywordLoopIs
  <2> HIDE DEF q
  <2>4. Gained(t, p, ToSet(match.keyword), q)
    BY <2>1, <2>3 DEF Gained
  <2> QED BY <1>1, <2>2, <2>3, <2>4
<1>2. CASE ~(t.length > 2)
  BY <1>2 DEF MatchToken
<1> QED BY <1>1, <1>2

-----------------------------------------------------------------------------
(***************************************************************************)
(* The loop over the tokens.                                               *)
(***************************************************************************)
Tokens == 1..Len(url.tokens)

\* The values after each of the tokens.
TokenTurns == [n \in Tokens |-> [p \in Progress |-> MatchToken(p, url.tokens[n])]]

MatchedOnce == match.keyword \in Seq(Keywords) /\ IsInjective(match.keyword)

\* What the assumption on the URLs says of the tokens.
LEMMA TokensAre ==
    ASSUME url \in Urls
    PROVE  /\ url.tokens \in Seq(Token) /\ Len(url.tokens) \in Nat /\ DOMAIN url.tokens = Tokens
           /\ \A n \in Tokens : url.tokens[n] \in Token
BY FilterAssumption DEF Tokens

\* FoldLeft in isTokenMatch is the loop over the tokens.
LEMMA TokenLoop ==
    ASSUME url \in Urls, MatchedOnce
    PROVE  \E a \in [0..Len(url.tokens) -> Progress] :
              /\ Turns(a, Len(url.tokens), NothingYet, TokenTurns)
              /\ FoldLeft(MatchToken, NothingYet, url.tokens) = a[Len(url.tokens)]
<1> DEFINE ts == url.tokens
           n == Len(ts)
           Steps(h) == [s \in SUBSET DOMAIN ts |->
                          IF s = {} THEN NothingYet ELSE MatchToken(h[s \ {Max(s)}], ts[Max(s)])]
           iter == CHOOSE h : h = Steps(h)
<1>1. n \in Nat /\ DOMAIN ts = 1..n /\ Tokens = 1..n /\ \A i \in 1..n : ts[i] \in Token
  BY TokensAre DEF Tokens
<1>2. FoldLeft(MatchToken, NothingYet, ts) = iter[DOMAIN ts]
  BY DEF FoldLeft, MapThenFoldSet
<1> HIDE DEF n, ts
<1>3. NothingYet \in Progress
  BY DEF NothingYet, Progress
<1>4. /\ TokenTurns \in [1..n -> [Progress -> Progress]]
      /\ \A i \in 1..n, p \in Progress : TokenTurns[i][p] = MatchToken(p, ts[i])
  <2>1. \A i \in 1..n, p \in Progress : MatchToken(p, ts[i]) \in Progress
    BY <1>1, MatchTokenIs DEF MatchedOnce
  <2>2. TokenTurns = [i \in 1..n |-> [p \in Progress |-> MatchToken(p, ts[i])]]
    BY <1>1 DEF TokenTurns, ts
  <2> QED BY <2>1, <2>2
<1>5. \A s \in SUBSET (1..n) : s # {} => Max(s) \in 1..n /\ s \ {Max(s)} \in SUBSET (1..n)
  BY <1>1, MaxIs
<1>6. iter = Steps(iter)
  <2>1. PICK h \in [SUBSET (1..n) -> Progress] : Looped(h, n, Progress, NothingYet, TokenTurns)
    BY <1>1, <1>3, <1>4, LoopExists
  <2>2. ASSUME NEW s \in SUBSET (1..n)
        PROVE  h[s] = IF s = {} THEN NothingYet ELSE MatchToken(h[s \ {Max(s)}], ts[Max(s)])
    <3>1. CASE s = {}
      BY <2>1, <3>1 DEF Looped
    <3>2. CASE s # {}
      <4>1. Max(s) \in 1..n /\ h[s \ {Max(s)}] \in Progress
        BY <1>5, <3>2
      <4>2. h[s] = TokenTurns[Max(s)][h[s \ {Max(s)}]]
        BY <2>1, <3>2, <4>1 DEF Looped
      <4> QED BY <1>4, <3>2, <4>1, <4>2
    <3> QED BY <3>1, <3>2
  <2>3. h = Steps(h)
    BY <1>1, <2>2
  <2> HIDE DEF Steps
  <2> QED BY <2>3, Zenon
<1> HIDE DEF iter
<1>7. Looped(iter, n, Progress, NothingYet, TokenTurns)
  <2>1. \A s \in SUBSET (1..n) :
           iter[s] = IF s = {} THEN NothingYet ELSE MatchToken(iter[s \ {Max(s)}], ts[Max(s)])
    BY <1>1, <1>6
  <2>2. iter[{}] = NothingYet
    BY <2>1
  <2>3. ASSUME NEW s \in SUBSET (1..n), s # {}, iter[s \ {Max(s)}] \in Progress
        PROVE  iter[s] = TokenTurns[Max(s)][iter[s \ {Max(s)}]]
    <3>1. Max(s) \in 1..n
      BY <1>5, <2>3
    <3>2. TokenTurns[Max(s)][iter[s \ {Max(s)}]] = MatchToken(iter[s \ {Max(s)}], ts[Max(s)])
      BY <1>4, <2>3, <3>1
    <3> QED BY <2>1, <2>3, <3>2
  <2> QED BY <2>2, <2>3 DEF Looped
<1>8. \E a \in [0..n -> Progress] : Turns(a, n, NothingYet, TokenTurns) /\ a[n] = iter[1..n]
  BY <1>1, <1>3, <1>4, <1>7, LoopIs, SMTT(60)
<1> QED BY <1>1, <1>2, <1>8 DEF n, ts

\* What the hits of a keyword weigh in the first n tokens.
ShareUpto(n, k) == SumFunctionOnSet([i \in Tokens |-> TokenShare(url.tokens[i], k)], 1..n)

\* A token more adds its share.
LEMMA ShareUptoIs ==
    ASSUME url \in Urls, NEW k \in Keywords
    PROVE  /\ ShareUpto(0, k) = 0
           /\ \A n \in 0..Len(url.tokens) : ShareUpto(n, k) \in Int
           /\ \A n \in 1..Len(url.tokens) :
                 ShareUpto(n, k) = ShareUpto(n-1, k) + TokenShare(url.tokens[n], k)
<1> DEFINE f == [i \in Tokens |-> TokenShare(url.tokens[i], k)]
<1>1. Len(url.tokens) \in Nat /\ \A n \in Tokens : url.tokens[n] \in Token
  BY TokensAre
<1>2. \A i \in Tokens : f[i] = TokenShare(url.tokens[i], k) /\ f[i] \in Int
  BY <1>1, TokenShareIsNat
<1> HIDE DEF f
<1>3. \A n \in 0..Len(url.tokens) : IsFiniteSet(1..n) /\ 1..n \subseteq Tokens
  <2> SUFFICES ASSUME NEW n \in 0..Len(url.tokens) PROVE IsFiniteSet(1..n) /\ 1..n \subseteq Tokens
    OBVIOUS
  <2>1. n \in Nat
    BY <1>1
  <2> QED BY <1>1, <2>1, FS_Interval DEF Tokens
<1>4. \A n \in 0..Len(url.tokens) : SumFunctionOnSet(f, 1..n) \in Int
  BY <1>2, <1>3, SumIs
<1>5. SumFunctionOnSet(f, 1..0) = 0
  <2>1. 1..0 = {} /\ 0 \in 0..Len(url.tokens)
    BY <1>1
  <2>2. SumFunctionOnSet(f, {}) = 0
    BY <1>2, <1>3, <2>1, SumIs
  <2> QED BY <2>1, <2>2
<1>6. ASSUME NEW n \in 1..Len(url.tokens)
      PROVE  SumFunctionOnSet(f, 1..n) = SumFunctionOnSet(f, 1..n-1) + f[n]
  <2>1. /\ n-1 \in 0..Len(url.tokens) /\ n \notin 1..n-1 /\ 1..n = (1..n-1) \cup {n}
        /\ n \in Tokens /\ n \in Nat
    BY <1>1 DEF Tokens
  <2>2. \A i \in (1..n-1) \cup {n} : f[i] \in Int
    BY <1>2, <1>3, <2>1
  <2>3. /\ SumFunctionOnSet(f, 1..n-1) \in Int
        /\ SumFunctionOnSet(f, (1..n-1) \cup {n}) = f[n] + SumFunctionOnSet(f, 1..n-1)
    BY <1>3, <2>1, <2>2, SumGrows
  <2>4. f[n] \in Int
    BY <1>2, <2>1
  <2>5. SumFunctionOnSet(f, 1..n) = f[n] + SumFunctionOnSet(f, 1..n-1)
    BY <2>1, <2>3, Zenon
  <2>6. \A i, j \in Int : i + j = j + i
    OBVIOUS
  <2> QED BY <2>3, <2>4, <2>5, <2>6, Zenon
<1> QED BY <1>2, <1>4, <1>5, <1>6 DEF ShareUpto, Tokens, f

\* What every keyword contributes for the first n tokens.
LowUpto(n) == [k \in Keywords |-> Low(k, ShareUpto(n, k))]
HighUpto(n) == [k \in Keywords |-> High(k, ShareUpto(n, k))]

\* A token more adds its contribution.
LEMMA UptoIs ==
    ASSUME url \in Urls, NEW k \in Keywords
    PROVE  /\ LowUpto(0)[k] = 0 /\ HighUpto(0)[k] = 0
           /\ \A n \in 0..Len(url.tokens) : LowUpto(n)[k] \in Int /\ HighUpto(n)[k] \in Int
           /\ \A n \in 1..Len(url.tokens) :
                 /\ LowUpto(n)[k] = LowUpto(n-1)[k] + LowOf(url.tokens[n])[k]
                 /\ HighUpto(n)[k] = HighUpto(n-1)[k] + HighOf(url.tokens[n])[k]
<1>1. \A n : LowUpto(n)[k] = Low(k, ShareUpto(n, k)) /\ HighUpto(n)[k] = High(k, ShareUpto(n, k))
  BY DEF LowUpto, HighUpto
<1>2. LowUpto(0)[k] = 0 /\ HighUpto(0)[k] = 0
  <2>1. ShareUpto(0, k) = 0
    BY ShareUptoIs
  <2>2. 0 \in Int
    OBVIOUS
  <2>3. Low(k, 0) = 0 /\ High(k, 0) = 0
    BY <2>2, LowIs, Zenon
  <2> QED BY <1>1, <2>1, <2>3, Zenon
<1>3. ASSUME NEW n \in 0..Len(url.tokens) PROVE LowUpto(n)[k] \in Int /\ HighUpto(n)[k] \in Int
  <2>1. ShareUpto(n, k) \in Int
    BY ShareUptoIs
  <2>2. Low(k, ShareUpto(n, k)) \in Int /\ High(k, ShareUpto(n, k)) \in Int
    BY <2>1, LowIs, Zenon
  <2> QED BY <1>1, <2>2, Zenon
<1>4. ASSUME NEW n \in 1..Len(url.tokens)
      PROVE  /\ LowUpto(n)[k] = LowUpto(n-1)[k] + LowOf(url.tokens[n])[k]
             /\ HighUpto(n)[k] = HighUpto(n-1)[k] + HighOf(url.tokens[n])[k]
  <2> DEFINE x == ShareUpto(n-1, k)
             y == TokenShare(url.tokens[n], k)
  <2>1. url.tokens[n] \in Token /\ n-1 \in 0..Len(url.tokens)
    BY TokensAre DEF Tokens
  <2>2. ShareUpto(n, k) = x + y /\ x \in Int /\ y \in Int
    BY <2>1, ShareUptoIs, TokenShareIsNat
  <2>3. LowOf(url.tokens[n])[k] = Low(k, y) /\ HighOf(url.tokens[n])[k] = High(k, y)
    BY <2>1, LowOfIs
  <2> HIDE DEF x, y
  <2>4. Low(k, x + y) = Low(k, x) + Low(k, y) /\ High(k, x + y) = High(k, x) + High(k, y)
    BY <2>2, LowIs
  <2> QED BY <1>1, <2>2, <2>3, <2>4 DEF x
<1> QED BY <1>2, <1>3, <1>4

\* The found keywords are finitely many.
LEMMA FoundIs == Found \subseteq Keywords /\ IsFiniteSet(Found)
<1>1. IsFiniteSet(1..Len(Blacklist))
  BY BlacklistIs, FS_Interval
<1>2. Found \subseteq Keywords
  BY DEF Found
<1> QED BY <1>1, <1>2, FS_Subset DEF Keywords

\* A found keyword is in the token, which is long enough.
Hits(t) == t.length > 2 /\ \E k \in Found : InToken(t, Blacklist[k].words)

\* The progress after n tokens.
AllGained(n, q) ==
    /\ q \in Progress
    /\ q.isMatch <=> \E i \in 1..n : Hits(url.tokens[i])
    /\ SumFunctionOnSet(LowUpto(n), Found) <= q.strength
    /\ q.strength <= SumFunctionOnSet(HighUpto(n), Found)

\* One turn of the loop.
LEMMA TokenGained ==
    ASSUME url \in Urls, MatchedOnce, ToSet(match.keyword) = Found,
           NEW n \in Tokens, NEW p, AllGained(n-1, p)
    PROVE  AllGained(n, MatchToken(p, url.tokens[n]))
<1> DEFINE t == url.tokens[n]
           q == MatchToken(p, t)
           Sum(f) == SumFunctionOnSet(f, Found)
<1>1. /\ t \in Token /\ Len(url.tokens) \in Nat /\ n \in 1..Len(url.tokens)
      /\ n \in 0..Len(url.tokens) /\ n-1 \in 0..Len(url.tokens) /\ n \in Nat
      /\ 1..n = (1..n-1) \cup {n}
  BY TokensAre DEF Tokens
<1>2. p \in Progress
  BY DEF AllGained
<1>3. \A k \in Found : k \in Keywords
  BY FoundIs
<1>4. \A k \in Found : /\ LowUpto(n-1)[k] \in Int /\ HighUpto(n-1)[k] \in Int
                      /\ LowOf(t)[k] \in Int /\ HighOf(t)[k] \in Int
                      /\ LowUpto(n)[k] = LowUpto(n-1)[k] + LowOf(t)[k]
                      /\ HighUpto(n)[k] = HighUpto(n-1)[k] + HighOf(t)[k]
  BY <1>1, <1>3, UptoIs, LowOfIs
<1>5. /\ Sum(LowUpto(n)) = Sum(LowUpto(n-1)) + Sum(LowOf(t))
      /\ Sum(LowUpto(n-1)) \in Int /\ Sum(LowOf(t)) \in Int
  BY <1>4, FoundIs, SumAdds, SumIs
<1>6. /\ Sum(HighUpto(n)) = Sum(HighUpto(n-1)) + Sum(HighOf(t))
      /\ Sum(HighUpto(n-1)) \in Int /\ Sum(HighOf(t)) \in Int
  BY <1>4, FoundIs, SumAdds, SumIs
<1>7. /\ q \in Progress /\ p.strength \in Int /\ q.strength \in Int
      /\ t.length > 2 => Gained(t, p, Found, q)
      /\ ~(t.length > 2) => q = p
  <2>1. q \in Progress
    BY <1>1, <1>2, MatchTokenIs DEF MatchedOnce
  <2>2. t.length > 2 => Gained(t, p, Found, q)
    BY <1>1, <1>2, MatchTokenIs DEF MatchedOnce
  <2>3. ~(t.length > 2) => q = p
    BY <1>1, <1>2, MatchTokenIs DEF MatchedOnce
  <2> HIDE DEF q
  <2> QED BY <1>2, <2>1, <2>2, <2>3 DEF Progress
<1>8. /\ p.isMatch <=> \E i \in 1..n-1 : Hits(url.tokens[i])
      /\ Sum(LowUpto(n-1)) <= p.strength /\ p.strength <= Sum(HighUpto(n-1))
  BY DEF AllGained
<1>9. (\E i \in 1..n : Hits(url.tokens[i])) <=> (\E i \in 1..n-1 : Hits(url.tokens[i])) \/ Hits(t)
  BY <1>1
<1>10. /\ q.isMatch <=> p.isMatch \/ Hits(t)
       /\ p.strength + Sum(LowOf(t)) <= q.strength
       /\ q.strength <= p.strength + Sum(HighOf(t))
  <2>1. CASE t.length > 2
    <3>1. Gained(t, p, Found, q)
      BY <1>7, <2>1
    <3> QED BY <2>1, <3>1 DEF Gained, Hits
  <2>2. CASE ~(t.length > 2)
    <3>1. q = p /\ ~Hits(t)
      BY <1>7, <2>2 DEF Hits
    <3>2. \A k \in Keywords : TokenShare(t, k) = 0
      BY <2>2 DEF TokenShare
    <3>3. ASSUME NEW k \in Found PROVE LowOf(t)[k] = 0 /\ HighOf(t)[k] = 0
      <4>1. k \in Keywords /\ TokenShare(t, k) = 0 /\ 0 \in Int
        BY <1>3, <3>2
      <4>2. Low(k, 0) = 0 /\ High(k, 0) = 0
        BY <4>1, LowIs, Zenon
      <4>3. LowOf(t)[k] = Low(k, TokenShare(t, k)) /\ HighOf(t)[k] = High(k, TokenShare(t, k))
        BY <1>1, <4>1, LowOfIs
      <4> HIDE DEF t
      <4> QED BY <4>1, <4>2, <4>3, Zenon
    <3>4. Sum(LowOf(t)) = 0 /\ Sum(HighOf(t)) = 0
      BY <3>3, FoundIs, SumOfZeros
    <3> HIDE DEF q, Sum, t
    <3> QED BY <1>7, <3>1, <3>4
  <2> QED BY <2>1, <2>2
<1> HIDE DEF q, t
<1>11. q.isMatch <=> \E i \in 1..n : Hits(url.tokens[i])
  BY <1>8, <1>9, <1>10, Zenon
<1> HIDE DEF Sum
<1>12. Sum(LowUpto(n)) <= q.strength /\ q.strength <= Sum(HighUpto(n))
  BY <1>5, <1>6, <1>7, <1>8, <1>10
<1> QED BY <1>7, <1>11, <1>12 DEF AllGained, Sum, q, t

\* isTokenMatch goes through all the tokens.
LEMMA TokenMatchIs ==
    ASSUME url \in Urls, MatchedOnce, ToSet(match.keyword) = Found
    PROVE  AllGained(Len(url.tokens), FoldLeft(MatchToken, NothingYet, url.tokens))
<1> DEFINE n == Len(url.tokens)
<1>1. n \in Nat /\ Tokens = 1..n
  BY TokensAre DEF Tokens
<1>2. PICK a \in [0..n -> Progress] : /\ Turns(a, n, NothingYet, TokenTurns)
                                      /\ FoldLeft(MatchToken, NothingYet, url.tokens) = a[n]
  BY TokenLoop
<1> HIDE DEF n
<1> DEFINE P == {i \in Nat : i <= n => AllGained(i, a[i])}
<1>3. 0 \in P
  <2>1. a[0] = NothingYet /\ a[0] \in Progress /\ 1..0 = {}
    BY <1>1, <1>2 DEF Turns
  <2>2. \A k \in Found : LowUpto(0)[k] = 0 /\ HighUpto(0)[k] = 0
    BY FoundIs, UptoIs
  <2>3. SumFunctionOnSet(LowUpto(0), Found) = 0 /\ SumFunctionOnSet(HighUpto(0), Found) = 0
    BY <2>2, FoundIs, SumOfZeros
  <2>4. AllGained(0, a[0])
    BY <2>1, <2>3 DEF AllGained, NothingYet
  <2> QED BY <2>4
<1>4. ASSUME NEW i \in P PROVE i + 1 \in P
  <2>1. i + 1 \in Nat /\ (i + 1) - 1 = i
    OBVIOUS
  <2>2. ASSUME i + 1 <= n PROVE AllGained(i+1, a[i+1])
    <3>1. i + 1 \in Tokens /\ i \in 0..n /\ AllGained(i, a[i])
      BY <1>1, <2>2
    <3>2. a[i+1] = TokenTurns[i+1][a[i]] /\ a[i] \in Progress
      BY <1>1, <1>2, <2>1, <3>1 DEF Turns
    <3>3. a[i+1] = MatchToken(a[i], url.tokens[i+1])
      BY <3>1, <3>2 DEF TokenTurns
    <3> QED BY <2>1, <3>1, <3>3, TokenGained
  <2> QED BY <2>1, <2>2
<1>5. P \in SUBSET Nat
  OBVIOUS
<1> HIDE DEF P
<1>6. n \in P
  BY <1>1, <1>3, <1>4, <1>5, Inductive
<1> QED BY <1>1, <1>2, <1>6 DEF P, n

-----------------------------------------------------------------------------
(***************************************************************************)
(* The strength that the units come to.                                    *)
(***************************************************************************)
LEMMA QuotientKeepsOrder == \A x, y \in Nat, d \in Nat \ {0} : x <= y => x \div d <= y \div d
<1> SUFFICES ASSUME NEW x \in Nat, NEW y \in Nat, NEW d \in Nat, d >= 1, x <= y,
                    ~(x \div d <= y \div d)
             PROVE  FALSE
  OBVIOUS
<1> DEFINE q == x \div d
           r == y \div d
<1>1. /\ q \in Int /\ x = d * q + (x % d) /\ x % d \in 0..d-1
      /\ r \in Int /\ y = d * r + (y % d) /\ y % d \in 0..d-1
  OBVIOUS
<1>2. q >= r + 1
  BY <1>1
<1> HIDE DEF q, r
<1>3. d * q >= d * (r + 1)
  BY <1>1, <1>2
<1>4. d * (r + 1) = d * r + d
  BY <1>1
<1>5. d * q \in Int /\ d * r \in Int
  BY <1>1
<1> DEFINE dq == d * q
           dr == d * r
<1>6. dq >= dr + d /\ x = dq + (x % d) /\ y = dr + (y % d) /\ dq \in Int /\ dr \in Int
  BY <1>1, <1>3, <1>4, <1>5
<1> HIDE DEF dq, dr
<1> QED BY <1>1, <1>6

\* Cutting off the fraction towards 0 keeps the order, below 0 too.
LEMMA TruncateKeepsOrder ==
    ASSUME NEW d \in Nat \ {0}, NEW x \in Int, NEW y \in Int, x <= y
    PROVE  Truncate(x, d) \in Int /\ Truncate(y, d) \in Int /\ Truncate(x, d) <= Truncate(y, d)
<1>1. CASE x >= 0
  <2>1. x \in Nat /\ y \in Nat /\ y >= 0
    BY <1>1
  <2>2. x \div d \in Nat /\ y \div d \in Nat /\ x \div d <= y \div d
    BY <2>1, QuotientIsNat, QuotientKeepsOrder
  <2> QED BY <1>1, <2>1, <2>2 DEF Truncate
<1>2. CASE x < 0 /\ y >= 0
  <2>1. -x \in Nat /\ y \in Nat /\ ~(x >= 0)
    BY <1>2
  <2>2. (-x) \div d \in Nat /\ y \div d \in Nat
    BY <2>1, QuotientIsNat
  <2>3. \A i, j \in Nat : -i \in Int /\ -i <= j
    OBVIOUS
  <2>4. Truncate(x, d) = -((-x) \div d) /\ Truncate(y, d) = y \div d
    BY <1>2, <2>1, Zenon DEF Truncate
  <2> QED BY <2>2, <2>3, <2>4
<1>3. CASE y < 0
  <2>1. -x \in Nat /\ -y \in Nat /\ -y <= -x /\ ~(x >= 0) /\ ~(y >= 0)
    BY <1>3
  <2>2. (-x) \div d \in Nat /\ (-y) \div d \in Nat /\ (-y) \div d <= (-x) \div d
    BY <2>1, QuotientIsNat, QuotientKeepsOrder
  <2>3. \A i, j \in Nat : i <= j => -i \in Int /\ -j \in Int /\ -j <= -i
    OBVIOUS
  <2>4. Truncate(x, d) = -((-x) \div d) /\ Truncate(y, d) = -((-y) \div d)
    BY <2>1, Zenon DEF Truncate
  <2> QED BY <2>2, <2>3, <2>4
<1> QED BY <1>1, <1>2, <1>3

\* The first extension that matches is one of them.
LEMMA ExtensionFactorIsInt ==
    ASSUME url \in Urls
    PROVE  ExtensionFactor(url) \in Int
<1>1. /\ url.extensions \subseteq 1..Len(Extensions) /\ Len(Extensions) \in Nat
      /\ \A n \in 1..Len(Extensions) : Extensions[n] \in Int
  BY FilterAssumption
<1>2. CASE url.extensions = {}
  BY <1>2 DEF ExtensionFactor
<1>3. CASE url.extensions # {}
  <2> DEFINE Less == {pair \in Nat \X Nat : pair[1] < pair[2]}
             first == CHOOSE n \in url.extensions : \A m \in url.extensions : n <= m
  <2>1. IsWellFoundedOn(Less, Nat)
    BY NatLessThanWellFounded, Zenon DEF OpToRel
  <2>2. \A i, j \in Nat : i < j => <<i, j>> \in Less
    OBVIOUS
  <2>3. url.extensions \subseteq Nat
    BY <1>1
  <2> HIDE DEF Less
  <2>4. PICK least \in url.extensions : \A m \in url.extensions : <<m, least>> \notin Less
    BY <1>3, <2>1, <2>3, WFMin
  <2>5. ASSUME NEW m \in url.extensions PROVE least <= m
    <3>1. m \in Nat /\ least \in Nat
      BY <2>3
    <3>2. ~(m < least)
      BY <2>2, <2>4, <3>1, Zenon
    <3> QED BY <3>1, <3>2
  <2>6. first \in url.extensions
    BY <2>5, Zenon
  <2>7. ExtensionFactor(url) = Extensions[first]
    BY <1>3 DEF ExtensionFactor
  <2> HIDE DEF first
  <2> QED BY <1>1, <2>6, <2>7
<1> QED BY <1>2, <1>3

\* The extension's factor keeps the strength between the bounds, or between the
\* exchanged bounds if it is negative.
LEMMA ToStrengthIsBetween ==
    ASSUME url \in Urls, NEW low \in Int, NEW units \in Int, NEW high \in Int,
           low <= units, units <= high
    PROVE  /\ ToStrength(units) \in Int
           /\ ToStrength(units) \in ToStrength(low)..ToStrength(high)
                                    \cup ToStrength(high)..ToStrength(low)
<1> DEFINE e == ExtensionFactor(url)
           d == 100 * Unit
<1>1. e \in Int /\ d \in Nat \ {0}
  <2>1. Unit \in Nat \ {0}
    BY FilterAssumption
  <2> QED BY <2>1, ExtensionFactorIsInt
<1>2. \A x : ToStrength(x) = Truncate(x * e, d)
  BY DEF ToStrength
<1> HIDE DEF e, d
<1>3. low * e \in Int /\ units * e \in Int /\ high * e \in Int
  BY <1>1, TimesIsInt, Zenon
<1>4. \A x, y \in Int : x <= y => /\ Truncate(x, d) \in Int /\ Truncate(y, d) \in Int
                                  /\ Truncate(x, d) <= Truncate(y, d)
  BY <1>1, TruncateKeepsOrder
<1>5. CASE e >= 0
  <2>1. e \in Nat
    BY <1>1, <1>5
  <2>2. low * e <= units * e /\ units * e <= high * e
    BY <2>1, ProductKeepsOrder, Zenon
  <2>3. /\ Truncate(low * e, d) \in Int /\ Truncate(units * e, d) \in Int
        /\ Truncate(high * e, d) \in Int
        /\ Truncate(low * e, d) <= Truncate(units * e, d)
        /\ Truncate(units * e, d) <= Truncate(high * e, d)
    BY <1>3, <1>4, <2>2, Zenon
  <2> QED BY <1>2, <2>3
<1>6. CASE e < 0
  <2>1. -e \in Nat
    BY <1>1, <1>6
  <2>2. low * (-e) <= units * (-e) /\ units * (-e) <= high * (-e)
    BY <2>1, ProductKeepsOrder, Zenon
  <2>3. /\ low * (-e) = -(low * e) /\ units * (-e) = -(units * e) /\ high * (-e) = -(high * e)
    BY <1>1
  <2>4. \A i, j \in Int : -i <= -j => j <= i
    OBVIOUS
  <2>5. high * e <= units * e /\ units * e <= low * e
    BY <1>3, <2>2, <2>3, <2>4
  <2>6. /\ Truncate(low * e, d) \in Int /\ Truncate(units * e, d) \in Int
        /\ Truncate(high * e, d) \in Int
        /\ Truncate(high * e, d) <= Truncate(units * e, d)
        /\ Truncate(units * e, d) <= Truncate(low * e, d)
    BY <1>3, <1>4, <2>5, Zenon
  <2> QED BY <1>2, <2>6
<1> QED BY <1>1, <1>5, <1>6

\* The sums of the property are those of the loop.
LEMMA SumsAre ==
    ASSUME url \in Urls
    PROVE  /\ SumFunction([k \in Found |-> Least(k)])
              = SumFunctionOnSet(LowUpto(Len(url.tokens)), Found)
           /\ SumFunction([k \in Found |-> Most(k)])
              = SumFunctionOnSet(HighUpto(Len(url.tokens)), Found)
           /\ SumFunctionOnSet(LowUpto(Len(url.tokens)), Found) \in Int
           /\ SumFunctionOnSet(HighUpto(Len(url.tokens)), Found) \in Int
<1> DEFINE n == Len(url.tokens)
           f == [k \in Found |-> Least(k)]
           g == [k \in Found |-> Most(k)]
<1>1. \A k \in Keywords : Share(k) = ShareUpto(n, k) * Blacklist[k].strength
  <2>1. \A k : DOMAIN [i \in Tokens |-> TokenShare(url.tokens[i], k)] = 1..n
    BY DEF Tokens
  <2>2. \A k : SumFunction([i \in Tokens |-> TokenShare(url.tokens[i], k)]) = ShareUpto(n, k)
    BY <2>1, Zenon DEF SumFunction, ShareUpto
  <2> QED BY <2>2 DEF Share, Tokens
<1>2. \A k \in Found : k \in Keywords
  BY FoundIs
<1>3. \A k \in Found : f[k] = LowUpto(n)[k] /\ g[k] = HighUpto(n)[k]
  <2> SUFFICES ASSUME NEW k \in Found PROVE f[k] = LowUpto(n)[k] /\ g[k] = HighUpto(n)[k]
    OBVIOUS
  <2>1. LowUpto(n)[k] = Low(k, ShareUpto(n, k)) /\ HighUpto(n)[k] = High(k, ShareUpto(n, k))
    BY <1>2 DEF LowUpto, HighUpto
  <2>2. f[k] = Least(k) /\ g[k] = Most(k)
    OBVIOUS
  <2>3. Least(k) = Low(k, ShareUpto(n, k)) /\ Most(k) = High(k, ShareUpto(n, k))
    BY <1>1, <1>2, Zenon DEF Least, Most, Low, High
  <2> QED BY <2>1, <2>2, <2>3, Zenon
<1>4. \A k \in Found : LowUpto(n)[k] \in Int /\ HighUpto(n)[k] \in Int
  <2>1. n \in 0..n
    BY TokensAre
  <2> QED BY <1>2, <2>1, UptoIs
<1>5. SumFunction(f) = SumFunctionOnSet(f, Found) /\ SumFunction(g) = SumFunctionOnSet(g, Found)
  BY Zenon DEF SumFunction
<1> HIDE DEF f, g, n
<1>6. \A k \in Found : f[k] \in Int /\ g[k] \in Int
  BY <1>3, <1>4
<1>7. SumFunctionOnSet(f, Found) = SumFunctionOnSet(LowUpto(n), Found)
  BY <1>3, <1>6, FoundIs, SumSame
<1>8. SumFunctionOnSet(g, Found) = SumFunctionOnSet(HighUpto(n), Found)
  BY <1>3, <1>6, FoundIs, SumSame
<1>9. SumFunctionOnSet(LowUpto(n), Found) \in Int /\ SumFunctionOnSet(HighUpto(n), Found) \in Int
  BY <1>4, FoundIs, SumIs
<1> QED BY <1>5, <1>7, <1>8, <1>9 DEF f, g, n

-----------------------------------------------------------------------------
(***************************************************************************)
(* The invariant: what the match tells of a URL once isUrlMatch is done,   *)
(* and what was found by then when isTokenMatch is called.                 *)
(***************************************************************************)
FilterInv ==
    /\ TypeOK
    /\ match \in Match
    /\ pc # "next" => url \in Urls
    /\ MatchIsOfThisUrl
    /\ pc = "isTokenMatch" => \E k \in Found : ~Whitelisted(k)
    /\ VerdictIsRight
    /\ StrengthInBounds

\* The two loops together, as the code runs them.
LEMMA SuspiciousIs ==
    ASSUME url \in Urls
    PROVE  Suspicious <=> /\ \E k \in Found : ~Whitelisted(k)
                          /\ \E i \in 1..Len(url.tokens) : Hits(url.tokens[i])
<1>1. /\ Len(url.tokens) \in Nat /\ DOMAIN url.tokens = 1..Len(url.tokens)
      /\ \A n \in 1..Len(url.tokens) : url.tokens[n] \in Token
  BY TokensAre DEF Tokens
<1>2. ASSUME NEW k \in Found, NEW t \in Token
      PROVE  (\A w \in ToSet(Blacklist[k].words) : Len(t.hits[w]) > 0)
                <=> InToken(t, Blacklist[k].words)
  <2> DEFINE words == Blacklist[k].words
  <2>1. words \in Seq(Words)
    BY FoundIs, BlacklistIs
  <2>2. ToSet(words) = {words[n] : n \in 1..Len(words)}
    BY <2>1 DEF ToSet
  <2>3. \A w \in Words : t.hits[w] \in Seq(Hit)
    BY DEF Token
  <2>4. \A s \in Seq(Hit) : Len(s) > 0 <=> s # <<>>
    OBVIOUS
  <2>5. \A n \in 1..Len(words) : words[n] \in Words
    BY <2>1
  <2>6. \A n \in 1..Len(words) : Len(t.hits[words[n]]) > 0 <=> t.hits[words[n]] # <<>>
    BY <2>3, <2>4, <2>5
  <2> HIDE DEF words
  <2>7. (\A w \in ToSet(words) : Len(t.hits[w]) > 0)
           <=> \A n \in 1..Len(words) : Len(t.hits[words[n]]) > 0
    BY <2>2
  <2> QED BY <2>6, <2>7 DEF InToken, words
<1>3. \A t : t \in Considered <=> \E i \in 1..Len(url.tokens) : t = url.tokens[i] /\ t.length > 2
  BY <1>1 DEF Considered, ToSet
<1>4. \A k : Whitelisted(k) <=> Blacklist[k].category = "Whitelist"
  BY DEF Whitelisted
<1>5. (\E k \in Found, t \in Considered : \A w \in ToSet(Blacklist[k].words) : Len(t.hits[w]) > 0)
         <=> \E i \in 1..Len(url.tokens) : Hits(url.tokens[i])
  <2>1. ASSUME NEW k \in Found, NEW t \in Considered,
               \A w \in ToSet(Blacklist[k].words) : Len(t.hits[w]) > 0
        PROVE  \E i \in 1..Len(url.tokens) : Hits(url.tokens[i])
    <3>1. PICK i \in 1..Len(url.tokens) : t = url.tokens[i] /\ t.length > 2
      BY <1>3
    <3>2. InToken(t, Blacklist[k].words)
      BY <1>1, <1>2, <2>1, <3>1
    <3> QED BY <3>1, <3>2 DEF Hits
  <2>2. ASSUME NEW i \in 1..Len(url.tokens), Hits(url.tokens[i])
        PROVE  \E k \in Found, t \in Considered :
                  \A w \in ToSet(Blacklist[k].words) : Len(t.hits[w]) > 0
    <3> DEFINE t == url.tokens[i]
    <3>1. PICK k \in Found : InToken(t, Blacklist[k].words)
      BY <2>2 DEF Hits
    <3>2. t \in Considered /\ t \in Token
      BY <1>1, <1>3, <2>2 DEF Hits
    <3>3. \A w \in ToSet(Blacklist[k].words) : Len(t.hits[w]) > 0
      BY <1>2, <3>1, <3>2
    <3> HIDE DEF t
    <3> QED BY <3>2, <3>3
  <2> QED BY <2>1, <2>2, Zenon
<1> QED BY <1>4, <1>5, Zenon DEF Suspicious

\* The invariant holds before the first request.
LEMMA FilterInvInit == Init => FilterInv
<1> SUFFICES ASSUME Init PROVE FilterInv
  OBVIOUS
<1>1. pc = "next" /\ url = None /\ match = NoMatch /\ verdict = FALSE
  BY DEF Init
<1>2. NoMatch \in Match /\ IsInjective(NoMatch.keyword)
  BY DEF NoMatch, Match, IsInjective
<1>3. TypeOK
  BY <1>1, <1>2 DEF TypeOK, Match
<1>4. MatchIsOfThisUrl /\ VerdictIsRight /\ StrengthInBounds
  BY <1>1 DEF MatchIsOfThisUrl, VerdictIsRight, StrengthInBounds
<1> QED BY <1>1, <1>2, <1>3, <1>4 DEF FilterInv

\* A new request: nothing is said of the match any more.
LEMMA GotRequestKeeps ==
    ASSUME FilterInv, NEW u \in Urls, GotRequest(u)
    PROVE  FilterInv'
<1>1. pc' = "isUrlMatch" /\ url' = u /\ match' = match /\ verdict' = verdict
  BY DEF GotRequest
<1>2. TypeOK' /\ (match \in Match)'
  BY <1>1 DEF FilterInv, TypeOK
<1>3. MatchIsOfThisUrl' /\ VerdictIsRight' /\ StrengthInBounds'
  BY <1>1 DEF MatchIsOfThisUrl, VerdictIsRight, StrengthInBounds
<1> QED BY <1>1, <1>2, <1>3 DEF FilterInv

\* The request is done, and nothing is said of the match either.
LEMMA LogKeeps ==
    ASSUME FilterInv, Log
    PROVE  FilterInv'
<1>1. pc' = "next" /\ url' = None /\ match' = match /\ verdict' = FALSE
  BY DEF Log
<1>2. TypeOK' /\ (match \in Match)'
  BY <1>1 DEF FilterInv, TypeOK
<1>3. MatchIsOfThisUrl' /\ VerdictIsRight' /\ StrengthInBounds'
  BY <1>1 DEF MatchIsOfThisUrl, VerdictIsRight, StrengthInBounds
<1> QED BY <1>1, <1>2, <1>3 DEF FilterInv

\* What is said of the URL stays so while the URL stays.
LEMMA UrlStays ==
    ASSUME url' = url
    PROVE  /\ Found' = Found
           /\ Suspicious' <=> Suspicious
<1>1. Found' = Found
  BY DEF Found
<1>2. Considered' = Considered
  BY DEF Considered
<1>3. Suspicious' <=> Suspicious
  BY <1>1, <1>2 DEF Suspicious
<1> QED BY <1>1, <1>3

\* isUrlMatch replaces all that the request before has left in the match.
LEMMA IsUrlMatchKeeps ==
    ASSUME FilterInv, IsUrlMatch
    PROVE  FilterInv'
<1> DEFINE m == FoldLeftDomain(AddKeyword, NoMatch, Blacklist)
           bad == \E n \in 1..Len(m.keyword) : ~Whitelisted(m.keyword[n])
<1>1. /\ pc = "isUrlMatch" /\ url' = url /\ url \in Urls
      /\ verdict' = bad
      /\ match' = IF verdict' THEN m ELSE [m EXCEPT !.strength = 0]
      /\ pc' = IF verdict' THEN "isTokenMatch" ELSE "decided"
  BY DEF IsUrlMatch, FilterInv
<1>2. MatchOf(m, Len(Blacklist))
  BY UrlMatchIs
<1>3. Found \cap 1..Len(Blacklist) = Found
  BY FoundIs DEF Keywords
<1> HIDE DEF m
<1>4. /\ m \in Match /\ m.keyword \in Seq(Keywords) /\ IsInjective(m.keyword)
      /\ ToSet(m.keyword) = Found /\ (m.whitelist <=> \E k \in Found : Whitelisted(k))
  BY <1>2, <1>3 DEF MatchOf, Match
<1>5. bad <=> \E k \in Found : ~Whitelisted(k)
  <2>1. ToSet(m.keyword) = {m.keyword[n] : n \in 1..Len(m.keyword)}
    BY <1>4 DEF ToSet
  <2> QED BY <1>4, <2>1
<1> HIDE DEF bad
<1>6. /\ verdict' \in BOOLEAN /\ match' \in Match
      /\ match'.keyword = m.keyword /\ match'.whitelist = m.whitelist
  <2>1. verdict' \in BOOLEAN
    BY <1>1 DEF bad
  <2>2. [m EXCEPT !.strength = 0] \in Match
    BY <1>4 DEF Match
  <2>3. /\ [m EXCEPT !.strength = 0].keyword = m.keyword
        /\ [m EXCEPT !.strength = 0].whitelist = m.whitelist
    BY <1>4 DEF Match
  <2> QED BY <1>1, <1>4, <2>1, <2>2, <2>3
<1>7. Found' = Found /\ (Suspicious' <=> Suspicious)
  BY <1>1, UrlStays
<1>8. TypeOK'
  <2>1. pc' \in {"isTokenMatch", "decided"} /\ url' \in Urls
    BY <1>1
  <2>2. match'.strength \in Int /\ match'.whitelist \in BOOLEAN
    BY <1>6 DEF Match
  <2> QED BY <1>4, <1>6, <2>1, <2>2 DEF TypeOK
<1>9. MatchIsOfThisUrl'
  BY <1>4, <1>6, <1>7 DEF MatchIsOfThisUrl
<1>10. (pc = "isTokenMatch" => \E k \in Found : ~Whitelisted(k))'
  BY <1>1, <1>5, <1>7
<1>11. VerdictIsRight'
  <2> SUFFICES ASSUME pc' = "decided" PROVE verdict' <=> Suspicious'
    BY DEF VerdictIsRight
  <2>1. ~bad /\ ~verdict'
    BY <1>1
  <2>2. ~Suspicious
    BY <1>1, <1>5, <2>1, SuspiciousIs
  <2> QED BY <1>7, <2>1, <2>2
<1>12. StrengthInBounds'
  <2>1. ~(pc' = "decided" /\ verdict')
    BY <1>1
  <2> QED BY <2>1 DEF StrengthInBounds
<1>13. (pc # "next" => url \in Urls)'
  BY <1>1
<1> QED BY <1>6, <1>8, <1>9, <1>10, <1>11, <1>12, <1>13 DEF FilterInv

\* isTokenMatch decides, and only then stores the strength.
LEMMA IsTokenMatchKeeps ==
    ASSUME FilterInv, IsTokenMatch
    PROVE  FilterInv'
<1> DEFINE result == FoldLeft(MatchToken, NothingYet, url.tokens)
           n == Len(url.tokens)
<1>1. /\ pc = "isTokenMatch" /\ url' = url /\ url \in Urls /\ match \in Match
      /\ verdict' = result.isMatch
      /\ match' = IF result.isMatch THEN [match EXCEPT !.strength = ToStrength(result.strength)]
                  ELSE match
      /\ pc' = "decided"
  BY DEF IsTokenMatch, FilterInv
<1>2. /\ MatchedOnce /\ ToSet(match.keyword) = Found
      /\ (match.whitelist <=> \E k \in Found : Whitelisted(k))
      /\ \E k \in Found : ~Whitelisted(k)
  BY <1>1 DEF FilterInv, TypeOK, MatchedOnce, MatchIsOfThisUrl
<1>3. AllGained(n, result)
  BY <1>1, <1>2, TokenMatchIs
<1> HIDE DEF result, n
<1>4. /\ result \in Progress /\ result.isMatch \in BOOLEAN /\ result.strength \in Int
      /\ result.isMatch <=> \E i \in 1..n : Hits(url.tokens[i])
  BY <1>3 DEF AllGained, Progress
<1>5. /\ ToStrength(result.strength) \in Int
      /\ ToStrength(result.strength) \in
             ToStrength(SumFunction([k \in Found |-> Least(k)]))
                ..ToStrength(SumFunction([k \in Found |-> Most(k)]))
             \cup ToStrength(SumFunction([k \in Found |-> Most(k)]))
                ..ToStrength(SumFunction([k \in Found |-> Least(k)]))
  <2> DEFINE low == SumFunctionOnSet(LowUpto(n), Found)
             high == SumFunctionOnSet(HighUpto(n), Found)
  <2>1. /\ low \in Int /\ high \in Int
        /\ SumFunction([k \in Found |-> Least(k)]) = low
        /\ SumFunction([k \in Found |-> Most(k)]) = high
    BY <1>1, SumsAre DEF n
  <2>2. low <= result.strength /\ result.strength <= high
    BY <1>3 DEF AllGained
  <2> HIDE DEF low, high
  <2>3. /\ ToStrength(result.strength) \in Int
        /\ ToStrength(result.strength)
              \in ToStrength(low)..ToStrength(high) \cup ToStrength(high)..ToStrength(low)
    BY <1>1, <1>4, <2>1, <2>2, ToStrengthIsBetween
  <2> QED BY <2>1, <2>3, Zenon
<1>6. /\ match' \in Match /\ match'.keyword = match.keyword /\ match'.whitelist = match.whitelist
      /\ result.isMatch => match'.strength = ToStrength(result.strength)
  <2> DEFINE x == ToStrength(result.strength)
  <2>1. x \in Int
    BY <1>5
  <2> HIDE DEF x
  <2>2. /\ [match EXCEPT !.strength = x] \in Match
        /\ [match EXCEPT !.strength = x].keyword = match.keyword
        /\ [match EXCEPT !.strength = x].whitelist = match.whitelist
        /\ [match EXCEPT !.strength = x].strength = x
    BY <1>1, <2>1 DEF Match
  <2>3. match' = IF result.isMatch THEN [match EXCEPT !.strength = x] ELSE match
    BY <1>1 DEF x
  <2>4. /\ match' \in Match /\ match'.keyword = match.keyword /\ match'.whitelist = match.whitelist
        /\ result.isMatch => match'.strength = x
    BY <1>1, <2>2, <2>3
  <2> QED BY <2>4 DEF x
<1>7. Found' = Found /\ (Suspicious' <=> Suspicious)
  BY <1>1, UrlStays
<1>8. TypeOK'
  <2>1. match'.strength \in Int /\ match'.whitelist \in BOOLEAN
    BY <1>6 DEF Match
  <2>2. verdict' \in BOOLEAN
    BY <1>1, <1>4
  <2> QED BY <1>1, <1>2, <1>6, <2>1, <2>2 DEF TypeOK, MatchedOnce
<1>9. MatchIsOfThisUrl'
  BY <1>2, <1>6, <1>7 DEF MatchIsOfThisUrl
<1>10. VerdictIsRight'
  <2>1. Suspicious <=> result.isMatch
    BY <1>1, <1>2, <1>4, SuspiciousIs DEF n
  <2> QED BY <1>1, <1>7, <2>1 DEF VerdictIsRight
<1>11. StrengthInBounds'
  <2> SUFFICES ASSUME verdict' PROVE StrengthInBounds'
    BY DEF StrengthInBounds
  <2>1. match'.strength = ToStrength(result.strength)
    BY <1>1, <1>6
  <2>2. \A x : ToStrength(x)' = ToStrength(x)
    BY <1>1 DEF ToStrength
  <2>3. \A k : Share(k)' = Share(k)
    BY <1>1 DEF Share
  <2>4. \A k : Least(k)' = Least(k) /\ Most(k)' = Most(k)
    BY <2>3, Zenon DEF Least, Most
  <2> QED BY <1>5, <1>7, <2>1, <2>2, <2>4, Zenon DEF StrengthInBounds
<1>12. (pc # "next" => url \in Urls)' /\ (pc = "isTokenMatch" => \E k \in Found : ~Whitelisted(k))'
  BY <1>1
<1> QED BY <1>6, <1>8, <1>9, <1>10, <1>11, <1>12 DEF FilterInv

\* A step that changes nothing here.
LEMMA FilterInvStutter ==
    ASSUME FilterInv, UNCHANGED vars
    PROVE  FilterInv'
<1>1. pc' = pc /\ url' = url /\ match' = match /\ verdict' = verdict
  BY DEF vars
<1>2. Found' = Found /\ (Suspicious' <=> Suspicious)
  BY <1>1, UrlStays
<1>3. TypeOK' /\ (match \in Match)' /\ (pc # "next" => url \in Urls)'
  BY <1>1 DEF FilterInv, TypeOK
<1>4. /\ MatchIsOfThisUrl' /\ VerdictIsRight'
      /\ (pc = "isTokenMatch" => \E k \in Found : ~Whitelisted(k))'
  BY <1>1, <1>2 DEF FilterInv, MatchIsOfThisUrl, VerdictIsRight
<1>5. StrengthInBounds'
  <2>1. StrengthInBounds' = StrengthInBounds
    <3>1. \A x : ToStrength(x)' = ToStrength(x)
      BY <1>1 DEF ToStrength
    <3>2. \A k : Share(k)' = Share(k)
      BY <1>1 DEF Share
    <3>3. \A k : Least(k)' = Least(k) /\ Most(k)' = Most(k)
      BY <3>2, Zenon DEF Least, Most
    <3> QED BY <1>1, <1>2, <3>1, <3>3, Zenon DEF StrengthInBounds
  <2> QED BY <2>1 DEF FilterInv
<1> QED BY <1>3, <1>4, <1>5 DEF FilterInv

\* The invariant holds of every request that a thread matches with its one match.
THEOREM InvariantCorrect == Spec => []FilterInv
<1>1. ASSUME FilterInv, [Next]_vars PROVE FilterInv'
  <2>1. CASE \E u \in Urls : GotRequest(u)
    BY <1>1, <2>1, GotRequestKeeps
  <2>2. CASE IsUrlMatch
    BY <1>1, <2>2, IsUrlMatchKeeps
  <2>3. CASE IsTokenMatch
    BY <1>1, <2>3, IsTokenMatchKeeps
  <2>4. CASE Log
    BY <1>1, <2>4, LogKeeps
  <2>5. CASE UNCHANGED vars
    BY <1>1, <2>5, FilterInvStutter
  <2> QED BY <1>1, <2>1, <2>2, <2>3, <2>4, <2>5 DEF Next
<1> QED BY <1>1, FilterInvInit, PTL DEF Spec

\* The match of a thread keeps to its type, whatever URLs come: in particular
\* isUrlMatch stores no keyword twice.
THEOREM TypeCorrect == Spec => []TypeOK
<1>1. FilterInv => TypeOK
  BY DEF FilterInv
<1> QED BY <1>1, InvariantCorrect, PTL

\* The verdict of isUrlMatch and isTokenMatch is that of the URL alone, for any
\* blacklist in any order, and whatever the thread matched before.
THEOREM VerdictCorrect == Spec => []VerdictIsRight
<1>1. FilterInv => VerdictIsRight
  BY DEF FilterInv
<1> QED BY <1>1, InvariantCorrect, PTL

\* The one BlacklistMatch of a thread holds the keywords of this URL and no other.
THEOREM MatchCorrect == Spec => []MatchIsOfThisUrl
<1>1. FilterInv => MatchIsOfThisUrl
  BY DEF FilterInv
<1> QED BY <1>1, InvariantCorrect, PTL

\* The two nested loops of isTokenMatch add up to what each keyword's hits weigh,
\* once to twice, for any number of tokens, keywords, words and hits.
THEOREM StrengthCorrect == Spec => []StrengthInBounds
<1>1. FilterInv => StrengthInBounds
  BY DEF FilterInv
<1> QED BY <1>1, InvariantCorrect, PTL
=============================================================================
