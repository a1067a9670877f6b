--------------------------- MODULE Reports_proofs ---------------------------
(***************************************************************************)
(* Theorems about Reports.  The pages are sums, so the first part is what  *)
(* sums over finite sets are: they can be split, grouped, and counted by   *)
(* other names.  The operators of the library that sum are recursive       *)
(* functions; the facts about them are proved by induction over the size   *)
(* of a set, from the well-foundedness of the natural numbers.             *)
(***************************************************************************)
EXTENDS Reports, FiniteSetTheorems, WellFoundedInduction, TLAPS

----------------------------------------------------------------------------
(* Induction *)

Below == {p \in Nat \X Nat : p[1] < p[2]}

LEMMA NatSetInduction ==
  ASSUME NEW S \in SUBSET Nat, 0 \in S, \A n \in S : n + 1 \in S
  PROVE  S = Nat
<1>1. IsWellFoundedOn(Below, Nat)
  BY NatLessThanWellFounded DEF OpToRel, Below
<1>2. SUFFICES ASSUME Nat \ S # {} PROVE FALSE
  OBVIOUS
<1>3. PICK x \in Nat \ S : \A y \in Nat \ S : <<y, x>> \notin Below
  BY <1>1, <1>2, WFMin
<1>4. x # 0 /\ x - 1 \in Nat /\ <<x - 1, x>> \in Below
  BY DEF Below
<1>5. x - 1 \in S
  BY <1>3, <1>4
<1>6. QED
  BY <1>4, <1>5

LEMMA FiniteSetInduction ==
  ASSUME NEW S, IsFiniteSet(S), NEW P \in SUBSET (SUBSET S), {} \in P,
         \A T \in P, x \in S : T \cup {x} \in P
  PROVE  S \in P
<1> DEFINE N == {n \in Nat : \A T \in SUBSET S : Cardinality(T) = n => T \in P}
<1>1. \A T \in SUBSET S : IsFiniteSet(T) /\ Cardinality(T) \in Nat
  BY FS_Subset, FS_CardinalityType
<1>2. 0 \in N
  BY <1>1, FS_EmptySet
<1>3. ASSUME NEW n \in N PROVE n + 1 \in N
  <2>1. SUFFICES ASSUME NEW T \in SUBSET S, Cardinality(T) = n + 1 PROVE T \in P
    OBVIOUS
  <2>2. T # {}
    <3>1. n + 1 # 0
      OBVIOUS
    <3>2. QED
      BY <2>1, <3>1, FS_EmptySet
  <2>3. PICK x \in T : TRUE
    BY <2>2
  <2>4. Cardinality(T \ {x}) = n
    BY <1>1, <2>1, FS_RemoveElement
  <2>5. T \ {x} \in P
    BY <2>4
  <2>6. (T \ {x}) \cup {x} = T
    OBVIOUS
  <2>7. QED
    BY <2>5, <2>6
<1>4. N = Nat
  <2> HIDE DEF N
  <2>1. N \in SUBSET Nat
    BY DEF N
  <2>2. QED
    BY <1>2, <1>3, <2>1, NatSetInduction
<1>5. QED
  BY <1>1, <1>4

\* One step of the sum of f over a set s.
Pick(s) == CHOOSE x \in s : TRUE
Step(f, g, s) == IF s = {} THEN 0 ELSE f[Pick(s)] + g[s \ {Pick(s)}]
Iter(f, S) == CHOOSE g : g = [s \in SUBSET S |-> Step(f, g, s)]

LEMMA SumIsIter ==
  ASSUME NEW f, NEW S
  PROVE  SumFunctionOnSet(f, S) = Iter(f, S)[S]
BY DEF SumFunctionOnSet, FoldFunctionOnSet, MapThenFoldSet, Iter, Step, Pick

LEMMA IterExists ==
  ASSUME NEW f, NEW S, IsFiniteSet(S)
  PROVE  \E g : g = [s \in SUBSET S |-> Step(f, g, s)]
<1> DEFINE G(n) == {s \in SUBSET S : Cardinality(s) <= n}
           N == {n \in Nat : \E g : g = [s \in G(n) |-> Step(f, g, s)]}
<1>1. \A s \in SUBSET S : /\ IsFiniteSet(s) /\ Cardinality(s) \in Nat
                          /\ Cardinality(s) <= Cardinality(S)
                          /\ Cardinality(s) = 0 <=> s = {}
  BY FS_Subset, FS_CardinalityType, FS_EmptySet
<1>2. \A s \in SUBSET S : s # {} =>
        /\ Pick(s) \in s
        /\ s \ {Pick(s)} \in SUBSET S
        /\ Cardinality(s \ {Pick(s)}) = Cardinality(s) - 1
  BY <1>1, FS_RemoveElement DEF Pick
<1>3. 0 \in N
  <2>1. \A s \in G(0) : s = {}
    BY <1>1
  <2>2. [s \in G(0) |-> 0] = [s \in G(0) |-> Step(f, [s2 \in G(0) |-> 0], s)]
    BY <2>1 DEF Step
  <2>3. QED
    BY <2>2
<1>4. ASSUME NEW n \in N PROVE n + 1 \in N
  <2>1. PICK g : g = [s \in G(n) |-> Step(f, g, s)]
    OBVIOUS
  <2> DEFINE h == [s \in G(n + 1) |-> IF s \in G(n) THEN g[s] ELSE Step(f, g, s)]
  <2>2. ASSUME NEW s \in G(n + 1) PROVE h[s] = Step(f, h, s)
    <3>1. CASE s = {}
      <4>1. s \in G(n)
        BY <1>1, <3>1
      <4>2. h[s] = 0
        BY <2>1, <3>1, <4>1 DEF Step
      <4>3. QED
        BY <3>1, <4>2 DEF Step
    <3>2. CASE s # {}
      <4>1. s \ {Pick(s)} \in G(n) /\ s \ {Pick(s)} \in G(n + 1)
        BY <1>1, <1>2, <3>2
      <4>2. h[s \ {Pick(s)}] = g[s \ {Pick(s)}]
        BY <4>1
      <4>3. h[s] = Step(f, g, s)
        BY <2>1
      <4> HIDE DEF h, G
      <4>4. QED
        BY <3>2, <4>2, <4>3 DEF Step
    <3>3. QED
      BY <3>1, <3>2
  <2>3. h = [s \in G(n + 1) |-> Step(f, h, s)]
    <3>1. \A s \in G(n + 1) : h[s] = Step(f, h, s)
      BY <2>2
    <3>2. h = [s \in G(n + 1) |-> h[s]]
      OBVIOUS
    <3> HIDE DEF h, G
    <3>3. QED
      BY <3>1, <3>2
  <2>4. \E k : k = [s \in G(n + 1) |-> Step(f, k, s)]
    <3> HIDE DEF h, G
    <3>1. QED
      BY <2>3
  <2>5. n \in Nat
    OBVIOUS
  <2>6. QED
    <3> HIDE DEF h, G
    <3>1. QED
      BY <2>4, <2>5
<1>5. N = Nat
  <2> HIDE DEF N
  <2>1. N \in SUBSET Nat
    BY DEF N
  <2>2. QED
    BY <1>3, <1>4, <2>1, NatSetInduction
<1>6. G(Cardinality(S)) = SUBSET S /\ Cardinality(S) \in N
  BY <1>1, <1>5
<1>7. QED
  <2>1. \E g : g = [s \in G(Cardinality(S)) |-> Step(f, g, s)]
    BY <1>6
  <2> HIDE DEF G, N
  <2>2. QED
    BY <1>6, <2>1

LEMMA IterIs ==
  ASSUME NEW f, NEW S, IsFiniteSet(S), NEW s \in SUBSET S
  PROVE  Iter(f, S)[s] = Step(f, Iter(f, S), s)
<1>1. Iter(f, S) = [t \in SUBSET S |-> Step(f, Iter(f, S), t)]
  BY IterExists DEF Iter
<1>2. QED
  BY <1>1

\* Sums over a subset are the same whether its superset is looked at or not.
LEMMA IterOfSubset ==
  ASSUME NEW f, NEW S, IsFiniteSet(S), NEW T \in SUBSET S
  PROVE  Iter(f, S)[T] = Iter(f, T)[T]
<1> DEFINE N == {n \in Nat : \A s \in SUBSET T : Cardinality(s) = n => Iter(f, S)[s] = Iter(f, T)[s]}
<1>1. IsFiniteSet(T)
  BY FS_Subset
<1>2. \A s \in SUBSET T : /\ IsFiniteSet(s) /\ Cardinality(s) \in Nat
                          /\ Cardinality(s) = 0 <=> s = {}
  BY <1>1, FS_Subset, FS_CardinalityType, FS_EmptySet
<1>3. \A s \in SUBSET T : s # {} =>
        /\ s \ {Pick(s)} \in SUBSET T
        /\ Cardinality(s \ {Pick(s)}) = Cardinality(s) - 1
  BY <1>2, FS_RemoveElement DEF Pick
<1>4. \A s \in SUBSET T : /\ Iter(f, S)[s] = Step(f, Iter(f, S), s)
                          /\ Iter(f, T)[s] = Step(f, Iter(f, T), s)
  BY <1>1, IterIs
<1>5. 0 \in N
  BY <1>2, <1>4 DEF Step
<1>6. ASSUME NEW n \in N PROVE n + 1 \in N
  <2>1. SUFFICES ASSUME NEW s \in SUBSET T, Cardinality(s) = n + 1
                 PROVE  Iter(f, S)[s] = Iter(f, T)[s]
    OBVIOUS
  <2>2. n + 1 # 0 /\ n + 1 - 1 = n
    OBVIOUS
  <2>3. s # {}
    BY <1>2, <2>1, <2>2
  <2>4. Iter(f, S)[s \ {Pick(s)}] = Iter(f, T)[s \ {Pick(s)}]
    BY <1>3, <2>1, <2>2, <2>3
  <2>5. QED
    BY <1>4, <2>3, <2>4 DEF Step
<1>7. N = Nat
  <2> HIDE DEF N
  <2>1. N \in SUBSET Nat
    BY DEF N
  <2>2. QED
    BY <1>5, <1>6, <2>1, NatSetInduction
<1>8. QED
  BY <1>2, <1>7

LEMMA SumUnfolds ==
  ASSUME NEW f, NEW S, IsFiniteSet(S)
  PROVE  SumFunctionOnSet(f, S)
           = IF S = {} THEN 0 ELSE f[Pick(S)] + SumFunctionOnSet(f, S \ {Pick(S)})
<1>1. SumFunctionOnSet(f, S) = Step(f, Iter(f, S), S)
  BY SumIsIter, IterIs
<1>2. Iter(f, S)[S \ {Pick(S)}] = SumFunctionOnSet(f, S \ {Pick(S)})
  BY SumIsIter, IterOfSubset
<1>3. QED
  BY <1>1, <1>2 DEF Step

LEMMA SumEmpty ==
  ASSUME NEW f
  PROVE  SumFunctionOnSet(f, {}) = 0
BY SumUnfolds, FS_EmptySet

LEMMA SumInt ==
  ASSUME NEW f, NEW S, IsFiniteSet(S), \A x \in S : f[x] \in Int
  PROVE  SumFunctionOnSet(f, S) \in Int
<1> DEFINE N == {n \in Nat : \A s \in SUBSET S : Cardinality(s) = n => SumFunctionOnSet(f, s) \in Int}
<1>1. \A s \in SUBSET S : /\ IsFiniteSet(s) /\ Cardinality(s) \in Nat
                          /\ Cardinality(s) = 0 <=> s = {}
  BY FS_Subset, FS_CardinalityType, FS_EmptySet
<1>2. 0 \in N
  BY <1>1, SumEmpty
<1>3. ASSUME NEW n \in N PROVE n + 1 \in N
  <2>1. SUFFICES ASSUME NEW s \in SUBSET S, Cardinality(s) = n + 1
                 PROVE  SumFunctionOnSet(f, s) \in Int
    OBVIOUS
  <2>2. n + 1 # 0 /\ n + 1 - 1 = n
    OBVIOUS
  <2>3. s # {}
    BY <1>1, <2>1, <2>2
  <2>4. Pick(s) \in s
    BY <2>3 DEF Pick
  <2>5. SumFunctionOnSet(f, s \ {Pick(s)}) \in Int
    <3>1. Cardinality(s \ {Pick(s)}) = n /\ s \ {Pick(s)} \in SUBSET S
      BY <1>1, <2>1, <2>2, <2>4, FS_RemoveElement
    <3>2. QED
      BY <3>1
  <2>6. SumFunctionOnSet(f, s) = f[Pick(s)] + SumFunctionOnSet(f, s \ {Pick(s)})
    BY <1>1, <2>3, SumUnfolds
  <2>7. QED
    BY <2>4, <2>5, <2>6
<1>4. N = Nat
  <2> HIDE DEF N
  <2>1. N \in SUBSET Nat
    BY DEF N
  <2>2. QED
    BY <1>2, <1>3, <2>1, NatSetInduction
<1>5. QED
  BY <1>1, <1>4

\* Any element may be taken out first.
LEMMA SumWithout ==
  ASSUME NEW f, NEW S, IsFiniteSet(S), \A x \in S : f[x] \in Int, NEW e \in S
  PROVE  SumFunctionOnSet(f, S) = f[e] + SumFunctionOnSet(f, S \ {e})
<1> DEFINE Sum(s) == SumFunctionOnSet(f, s)
           N == {n \in Nat : \A s \in SUBSET S : Cardinality(s) = n =>
                               \A x \in s : Sum(s) = f[x] + Sum(s \ {x})}
<1>1. \A s \in SUBSET S : /\ IsFiniteSet(s) /\ Cardinality(s) \in Nat
                          /\ Cardinality(s) = 0 <=> s = {}
                          /\ \A x \in s : Cardinality(s \ {x}) = Cardinality(s) - 1
                          /\ Sum(s) \in Int
  BY FS_Subset, FS_CardinalityType, FS_EmptySet, FS_RemoveElement, SumInt
<1>2. 0 \in N
  BY <1>1
<1>3. ASSUME NEW n \in N PROVE n + 1 \in N
  <2>1. SUFFICES ASSUME NEW s \in SUBSET S, Cardinality(s) = n + 1, NEW x \in s
                 PROVE  Sum(s) = f[x] + Sum(s \ {x})
    OBVIOUS
  <2>2. n + 1 # 0 /\ n + 1 - 1 = n
    OBVIOUS
  <2>0. \A t \in SUBSET S : Cardinality(t) = n => \A y \in t : Sum(t) = f[y] + Sum(t \ {y})
    OBVIOUS
  <2> DEFINE p == Pick(s)
  <2>3. p \in s /\ Sum(s) = f[p] + Sum(s \ {p})
    BY <1>1, SumUnfolds DEF Pick
  <2> HIDE DEF p, Sum
  <2>4. CASE x = p
    BY <2>3, <2>4
  <2>5. CASE x # p
    <3>1. Sum(s \ {p}) = f[x] + Sum((s \ {p}) \ {x})
      <4>1. s \ {p} \in SUBSET S /\ Cardinality(s \ {p}) = n /\ x \in s \ {p}
        BY <1>1, <2>1, <2>2, <2>3, <2>5
      <4>2. QED
        BY <2>0, <4>1
    <3>2. Sum(s \ {x}) = f[p] + Sum((s \ {x}) \ {p})
      <4>1. s \ {x} \in SUBSET S /\ Cardinality(s \ {x}) = n /\ p \in s \ {x}
        BY <1>1, <2>1, <2>2, <2>3, <2>5
      <4>2. QED
        BY <2>0, <4>1
    <3>3. (s \ {p}) \ {x} = (s \ {x}) \ {p}
      OBVIOUS
    <3>4. f[x] \in Int /\ f[p] \in Int /\ Sum((s \ {x}) \ {p}) \in Int
      <4>1. (s \ {x}) \ {p} \in SUBSET S
        OBVIOUS
      <4>2. QED
        BY <1>1, <2>3, <4>1
    <3>5. Sum(s) = f[p] + (f[x] + Sum((s \ {x}) \ {p}))
      BY <2>3, <3>1, <3>3
    <3>6. QED
      BY <3>2, <3>4, <3>5
  <2>6. QED
    BY <2>4, <2>5
<1>4. N = Nat
  <2> HIDE DEF N
  <2>1. N \in SUBSET Nat
    BY DEF N
  <2>2. QED
    BY <1>2, <1>3, <2>1, NatSetInduction
<1>5. QED
  BY <1>1, <1>4

LEMMA SumAdd ==
  ASSUME NEW f, NEW S, IsFiniteSet(S), NEW e, e \notin S,
         \A x \in S \cup {e} : f[x] \in Int
  PROVE  SumFunctionOnSet(f, S \cup {e}) = f[e] + SumFunctionOnSet(f, S)
<1>1. IsFiniteSet(S \cup {e}) /\ (S \cup {e}) \ {e} = S
  BY FS_AddElement
<1>2. QED
  BY <1>1, SumWithout

LEMMA SumSame ==
  ASSUME NEW f, NEW g, NEW S, IsFiniteSet(S), \A x \in S : f[x] \in Int /\ f[x] = g[x]
  PROVE  SumFunctionOnSet(f, S) = SumFunctionOnSet(g, S)
<1> DEFINE P == {T \in SUBSET S : SumFunctionOnSet(f, T) = SumFunctionOnSet(g, T)}
<1>1. {} \in P
  BY SumEmpty
<1>2. ASSUME NEW T \in P, NEW x \in S PROVE T \cup {x} \in P
  <2>1. CASE x \in T
    <3>1. T \cup {x} = T
      BY <2>1
    <3>2. QED
      BY <3>1
  <2>2. CASE x \notin T
    <3>1. IsFiniteSet(T)
      BY FS_Subset
    <3>2. SumFunctionOnSet(f, T \cup {x}) = f[x] + SumFunctionOnSet(f, T)
      BY <2>2, <3>1, SumAdd
    <3>3. SumFunctionOnSet(g, T \cup {x}) = g[x] + SumFunctionOnSet(g, T)
      BY <2>2, <3>1, SumAdd
    <3>4. QED
      BY <3>2, <3>3
  <2>3. QED
    BY <2>1, <2>2
<1>3. S \in P
  <2> HIDE DEF P
  <2>1. P \in SUBSET (SUBSET S)
    BY DEF P
  <2>2. QED
    BY <1>1, <1>2, <2>1, FiniteSetInduction
<1>4. QED
  BY <1>3

LEMMA SumUnion ==
  ASSUME NEW f, NEW S, IsFiniteSet(S), \A x \in S : f[x] \in Int,
         NEW A \in SUBSET S, NEW B \in SUBSET S, A \cap B = {}
  PROVE  SumFunctionOnSet(f, A \cup B) = SumFunctionOnSet(f, A) + SumFunctionOnSet(f, B)
<1> DEFINE P == {T \in SUBSET B : SumFunctionOnSet(f, A \cup T)
                                  = SumFunctionOnSet(f, A) + SumFunctionOnSet(f, T)}
<1>1. /\ IsFiniteSet(A) /\ IsFiniteSet(B)
      /\ \A T \in SUBSET S : IsFiniteSet(T) /\ SumFunctionOnSet(f, T) \in Int
  BY FS_Subset, SumInt
<1>2. {} \in P
  <2>1. A \cup {} = A /\ SumFunctionOnSet(f, {}) = 0
    BY SumEmpty
  <2>2. QED
    BY <1>1, <2>1
<1>3. ASSUME NEW T \in P, NEW x \in B PROVE T \cup {x} \in P
  <2>1. CASE x \in T
    <3>1. T \cup {x} = T
      BY <2>1
    <3>2. QED
      BY <3>1
  <2>2. CASE x \notin T
    <3>1. /\ x \notin A \cup T /\ T \in SUBSET S /\ A \cup T \in SUBSET S /\ x \in S
          /\ A \cup (T \cup {x}) = (A \cup T) \cup {x}
      BY <2>2
    <3>2. SumFunctionOnSet(f, (A \cup T) \cup {x}) = f[x] + SumFunctionOnSet(f, A \cup T)
      BY <1>1, <3>1, SumAdd
    <3>3. SumFunctionOnSet(f, T \cup {x}) = f[x] + SumFunctionOnSet(f, T)
      BY <1>1, <2>2, <3>1, SumAdd
    <3>4. SumFunctionOnSet(f, A \cup T) = SumFunctionOnSet(f, A) + SumFunctionOnSet(f, T)
      OBVIOUS
    <3>5. f[x] \in Int /\ SumFunctionOnSet(f, A) \in Int /\ SumFunctionOnSet(f, T) \in Int
      BY <1>1, <3>1
    <3>6. SumFunctionOnSet(f, A \cup (T \cup {x}))
            = SumFunctionOnSet(f, A) + SumFunctionOnSet(f, T \cup {x})
      <4> HIDE DEF P
      <4>1. SumFunctionOnSet(f, A \cup (T \cup {x}))
              = f[x] + (SumFunctionOnSet(f, A) + SumFunctionOnSet(f, T))
        BY <3>1, <3>2, <3>4
      <4>2. \A a, b, c \in Int : a + (b + c) = b + (a + c)
        OBVIOUS
      <4>3. QED
        BY <3>3, <3>5, <4>1, <4>2
    <3>7. QED
      BY <3>6
  <2>3. QED
    BY <2>1, <2>2
<1>4. B \in P
  <2> HIDE DEF P
  <2>1. P \in SUBSET (SUBSET B)
    BY DEF P
  <2>2. QED
    BY <1>1, <1>2, <1>3, <2>1, FiniteSetInduction
<1>5. QED
  BY <1>4

\* GROUP BY: the sums of the groups whose keys are in K add up to the sum of
\* what has a key in K.
LEMMA SumPartition ==
  ASSUME NEW f, NEW S, IsFiniteSet(S), \A x \in S : f[x] \in Int,
         NEW key, NEW K, IsFiniteSet(K)
  PROVE  SumFunctionOnSet(f, {x \in S : key[x] \in K})
           = SumFunction([k \in K |-> SumFunctionOnSet(f, {x \in S : key[x] = k})])
<1> DEFINE h == [k \in K |-> SumFunctionOnSet(f, {x \in S : key[x] = k})]
           P == {L \in SUBSET K : SumFunctionOnSet(f, {x \in S : key[x] \in L})
                                  = SumFunctionOnSet(h, L)}
<1>1. \A T \in SUBSET S : IsFiniteSet(T) /\ SumFunctionOnSet(f, T) \in Int
  BY FS_Subset, SumInt
<1>2. \A k \in K : h[k] \in Int
  BY <1>1
<1>3. {} \in P
  <2>1. {x \in S : key[x] \in {}} = {}
    OBVIOUS
  <2>2. QED
    BY <2>1, SumEmpty
<1>4. ASSUME NEW L \in P, NEW k \in K PROVE L \cup {k} \in P
  <2>1. CASE k \in L
    <3>1. L \cup {k} = L
      BY <2>1
    <3>2. QED
      BY <3>1
  <2>2. CASE k \notin L
    <3> DEFINE A == {x \in S : key[x] \in L}
               B == {x \in S : key[x] = k}
    <3>1. /\ A \in SUBSET S /\ B \in SUBSET S /\ A \cap B = {}
          /\ {x \in S : key[x] \in L \cup {k}} = A \cup B
      BY <2>2
    <3>2. SumFunctionOnSet(f, A \cup B) = SumFunctionOnSet(f, A) + SumFunctionOnSet(f, B)
      <4> HIDE DEF A, B
      <4>1. QED
        BY <3>1, SumUnion
    <3>3. SumFunctionOnSet(f, A) = SumFunctionOnSet(h, L) /\ SumFunctionOnSet(f, B) = h[k]
      OBVIOUS
    <3>4. SumFunctionOnSet(h, L \cup {k}) = h[k] + SumFunctionOnSet(h, L)
      <4>1. IsFiniteSet(L) /\ \A x \in L \cup {k} : h[x] \in Int
        BY <1>2, FS_Subset
      <4> HIDE DEF h
      <4>2. QED
        BY <2>2, <4>1, SumAdd
    <3>5. h[k] \in Int /\ SumFunctionOnSet(f, A) \in Int
      BY <1>1, <1>2, <3>1
    <3>6. SumFunctionOnSet(f, {x \in S : key[x] \in L \cup {k}})
            = SumFunctionOnSet(h, L \cup {k})
      <4> HIDE DEF h, A, B, P
      <4>1. SumFunctionOnSet(f, {x \in S : key[x] \in L \cup {k}})
              = SumFunctionOnSet(h, L) + h[k]
        BY <3>1, <3>2, <3>3
      <4>2. SumFunctionOnSet(h, L) \in Int
        BY <3>3, <3>5
      <4>3. QED
        BY <3>4, <3>5, <4>1, <4>2
    <3> HIDE DEF h
    <3>7. QED
      BY <3>6
  <2>3. QED
    BY <2>1, <2>2
<1>5. K \in P
  <2> HIDE DEF P
  <2>1. P \in SUBSET (SUBSET K)
    BY DEF P
  <2>2. QED
    BY <1>3, <1>4, <2>1, FiniteSetInduction
<1>6. SumFunction(h) = SumFunctionOnSet(h, K)
  BY DEF SumFunction
<1>7. QED
  BY <1>5, <1>6

LEMMA SumSingle ==
  ASSUME NEW f, NEW x, f[x] \in Int
  PROVE  SumFunctionOnSet(f, {x}) = f[x]
<1>1. {} \cup {x} = {x} /\ IsFiniteSet({})
  BY FS_EmptySet
<1>2. SumFunctionOnSet(f, {} \cup {x}) = f[x] + SumFunctionOnSet(f, {})
  BY <1>1, SumAdd
<1>3. QED
  BY <1>1, <1>2, SumEmpty

\* A function that is zero on a set adds nothing there.
LEMMA SumZero ==
  ASSUME NEW f, NEW S, IsFiniteSet(S), \A x \in S : f[x] = 0
  PROVE  SumFunctionOnSet(f, S) = 0
<1> DEFINE P == {T \in SUBSET S : SumFunctionOnSet(f, T) = 0}
<1>1. {} \in P
  BY SumEmpty
<1>2. ASSUME NEW T \in P, NEW x \in S PROVE T \cup {x} \in P
  <2>1. CASE x \in T
    <3>1. T \cup {x} = T
      BY <2>1
    <3>2. QED
      BY <3>1
  <2>2. CASE x \notin T
    <3>1. IsFiniteSet(T)
      BY FS_Subset
    <3>2. SumFunctionOnSet(f, T \cup {x}) = f[x] + SumFunctionOnSet(f, T)
      BY <2>2, <3>1, SumAdd
    <3>3. QED
      BY <3>2
  <2>3. QED
    BY <2>1, <2>2
<1>3. S \in P
  <2> HIDE DEF P
  <2>1. P \in SUBSET (SUBSET S)
    BY DEF P
  <2>2. QED
    BY <1>1, <1>2, <2>1, FiniteSetInduction
<1>4. QED
  BY <1>3

LEMMA SumSupport ==
  ASSUME NEW f, NEW S, IsFiniteSet(S), \A x \in S : f[x] \in Int,
         NEW T \in SUBSET S, \A x \in S \ T : f[x] = 0
  PROVE  SumFunctionOnSet(f, S) = SumFunctionOnSet(f, T)
<1>1. SumFunctionOnSet(f, T \cup (S \ T))
        = SumFunctionOnSet(f, T) + SumFunctionOnSet(f, S \ T)
  BY SumUnion
<1>2. SumFunctionOnSet(f, S \ T) = 0
  BY FS_Subset, SumZero
<1>3. T \cup (S \ T) = S /\ SumFunctionOnSet(f, T) \in Int
  BY FS_Subset, SumInt
<1>4. SumFunctionOnSet(f, S) = SumFunctionOnSet(f, T) + 0
  BY <1>1, <1>2, <1>3
<1>5. QED
  BY <1>3, <1>4

\* What is summed may be counted by other names.
LEMMA SumReindex ==
  ASSUME NEW f, NEW S, IsFiniteSet(S), \A x \in S : f[x] \in Int,
         NEW T, IsFiniteSet(T), NEW g, NEW key,
         \A x \in S : key[x] \in T,
         \A y \in T : \E x \in S : key[x] = y,
         \A x1 \in S, x2 \in S : key[x1] = key[x2] => x1 = x2,
         \A x \in S : g[key[x]] = f[x]
  PROVE  SumFunctionOnSet(f, S) = SumFunctionOnSet(g, T)
<1> DEFINE h == [y \in T |-> SumFunctionOnSet(f, {x \in S : key[x] = y})]
<1>1. {x \in S : key[x] \in T} = S
  OBVIOUS
<1>2. SumFunctionOnSet(f, S) = SumFunction(h)
  BY <1>1, SumPartition
<1>3. ASSUME NEW y \in T PROVE h[y] = g[y] /\ g[y] \in Int
  <2>1. PICK x \in S : key[x] = y
    OBVIOUS
  <2>2. {z \in S : key[z] = y} = {x}
    BY <2>1
  <2>3. SumFunctionOnSet(f, {x}) = f[x]
    BY SumSingle
  <2>4. QED
    BY <2>1, <2>2, <2>3
<1>4. SumFunction(h) = SumFunctionOnSet(h, T)
  BY DEF SumFunction
<1>5. SumFunctionOnSet(h, T) = SumFunctionOnSet(g, T)
  <2> HIDE DEF h
  <2>1. QED
    BY <1>3, SumSame
<1>6. QED
  BY <1>2, <1>4, <1>5

LEMMA SumNat ==
  ASSUME NEW f, NEW S, IsFiniteSet(S), \A x \in S : f[x] \in Nat
  PROVE  SumFunctionOnSet(f, S) \in Nat
<1> DEFINE P == {T \in SUBSET S : SumFunctionOnSet(f, T) \in Nat}
<1>1. {} \in P
  BY SumEmpty
<1>2. ASSUME NEW T \in P, NEW x \in S PROVE T \cup {x} \in P
  <2>1. CASE x \in T
    <3>1. T \cup {x} = T
      BY <2>1
    <3>2. QED
      BY <3>1
  <2>2. CASE x \notin T
    <3>1. IsFiniteSet(T)
      BY FS_Subset
    <3>2. SumFunctionOnSet(f, T \cup {x}) = f[x] + SumFunctionOnSet(f, T)
      BY <2>2, <3>1, SumAdd
    <3>3. QED
      BY <3>2
  <2>3. QED
    BY <2>1, <2>2
<1>3. S \in P
  <2> HIDE DEF P
  <2>1. P \in SUBSET (SUBSET S)
    BY DEF P
  <2>2. QED
    BY <1>1, <1>2, <2>1, FiniteSetInduction
<1>4. QED
  BY <1>3

\* More days, more demand.
LEMMA SumGrows ==
  ASSUME NEW f, NEW S, IsFiniteSet(S), \A x \in S : f[x] \in Nat, NEW T \in SUBSET S
  PROVE  SumFunctionOnSet(f, T) <= SumFunctionOnSet(f, S)
<1>1. SumFunctionOnSet(f, T \cup (S \ T))
        = SumFunctionOnSet(f, T) + SumFunctionOnSet(f, S \ T)
  BY SumUnion
<1>2. IsFiniteSet(T) /\ IsFiniteSet(S \ T)
  BY FS_Subset
<1>3. SumFunctionOnSet(f, T) \in Nat /\ SumFunctionOnSet(f, S \ T) \in Nat
  BY <1>2, SumNat
<1>4. T \cup (S \ T) = S
  OBVIOUS
<1>5. SumFunctionOnSet(f, S) = SumFunctionOnSet(f, T) + SumFunctionOnSet(f, S \ T)
  BY <1>1, <1>4
<1>6. QED
  BY <1>3, <1>5

LEMMA SumBound ==
  ASSUME NEW f, NEW n \in Nat, NEW c \in Nat, \A i \in 1..n : f[i] \in Nat /\ f[i] <= c
  PROVE  SumFunctionOnSet(f, 1..n) <= n * c
<1> DEFINE N == {m \in Nat : m <= n => SumFunctionOnSet(f, 1..m) <= m * c}
<1>1. 0 \in N
  <2>1. 1..0 = {}
    OBVIOUS
  <2>2. 0 * c = 0
    OBVIOUS
  <2>3. QED
    BY <2>1, <2>2, SumEmpty
<1>2. ASSUME NEW m \in N PROVE m + 1 \in N
  <2>1. m \in Nat /\ m + 1 \in Nat
    OBVIOUS
  <2>2. SUFFICES ASSUME m + 1 <= n PROVE SumFunctionOnSet(f, 1..m + 1) <= (m + 1) * c
    BY <2>1
  <2>3. 1..m + 1 = (1..m) \cup {m + 1} /\ m + 1 \notin 1..m /\ IsFiniteSet(1..m)
    BY <2>1, FS_Interval
  <2>4. \A i \in (1..m) \cup {m + 1} : f[i] \in Nat /\ f[i] \in Int /\ f[i] <= c
    BY <2>1, <2>2
  <2>5. SumFunctionOnSet(f, (1..m) \cup {m + 1}) = f[m + 1] + SumFunctionOnSet(f, 1..m)
    BY <2>3, <2>4, SumAdd
  <2>6. SumFunctionOnSet(f, 1..m) \in Nat
    BY <2>3, <2>4, SumNat
  <2>7. SumFunctionOnSet(f, 1..m) <= m * c
    BY <2>1, <2>2
  <2>8. (m + 1) * c = m * c + c /\ m * c \in Nat
    BY <2>1
  <2>9. QED
    <3>1. f[m + 1] \in Nat /\ f[m + 1] <= c
      BY <2>4
    <3>2. SumFunctionOnSet(f, 1..m + 1) = f[m + 1] + SumFunctionOnSet(f, 1..m)
      BY <2>3, <2>5
    <3>3. QED
      BY <2>6, <2>7, <2>8, <3>1, <3>2
<1>3. N = Nat
  <2> HIDE DEF N
  <2>1. N \in SUBSET Nat
    BY DEF N
  <2>2. QED
    BY <1>1, <1>2, <2>1, NatSetInduction
<1>4. QED
  BY <1>3

LEMMA MinIs ==
  ASSUME NEW S, S \subseteq Int, IsFiniteSet(S), S # {}
  PROVE  Min(S) \in S /\ \A x \in S : Min(S) <= x
<1> DEFINE P == {T \in SUBSET S : T = {} \/ \E x \in T : \A y \in T : x <= y}
<1>1. {} \in P
  OBVIOUS
<1>2. ASSUME NEW T \in P, NEW z \in S PROVE T \cup {z} \in P
  <2>1. z \in Int /\ T \subseteq Int
    OBVIOUS
  <2>2. CASE T = {}
    BY <2>1, <2>2
  <2>3. CASE T # {}
    <3>1. PICK x \in T : \A y \in T : x <= y
      BY <2>3
    <3>2. CASE x <= z
      BY <2>1, <3>1, <3>2
    <3>3. CASE ~(x <= z)
      <4>1. \A y \in T \cup {z} : z <= y
        BY <2>1, <3>1, <3>3
      <4>2. QED
        BY <4>1
    <3>4. QED
      BY <3>2, <3>3
  <2>4. QED
    BY <2>2, <2>3
<1>3. S \in P
  <2> HIDE DEF P
  <2>1. P \in SUBSET (SUBSET S)
    BY DEF P
  <2>2. QED
    BY <1>1, <1>2, <2>1, FiniteSetInduction
<1>4. \E x \in S : \A y \in S : x <= y
  BY <1>3
<1>5. QED
  BY <1>4 DEF Min

LEMMA ImageIsFinite ==
  ASSUME NEW f, NEW S, IsFiniteSet(S)
  PROVE  IsFiniteSet({f[x] : x \in S})
<1> DEFINE P == {T \in SUBSET S : IsFiniteSet({f[x] : x \in T})}
<1>1. {} \in P
  <2>1. {f[x] : x \in {}} = {}
    OBVIOUS
  <2>2. QED
    BY <2>1, FS_EmptySet
<1>2. ASSUME NEW T \in P, NEW z \in S PROVE T \cup {z} \in P
  <2>1. {f[x] : x \in T \cup {z}} = {f[x] : x \in T} \cup {f[z]}
    OBVIOUS
  <2>2. IsFiniteSet({f[x] : x \in T} \cup {f[z]})
    BY FS_AddElement
  <2>3. T \cup {z} \in SUBSET S
    OBVIOUS
  <2>4. QED
    BY <2>1, <2>2, <2>3
<1>3. S \in P
  <2> HIDE DEF P
  <2>1. P \in SUBSET (SUBSET S)
    BY DEF P
  <2>2. QED
    BY <1>1, <1>2, <2>1, FiniteSetInduction
<1>4. QED
  BY <1>3

LEMMA UnionIsFinite ==
  ASSUME NEW f, NEW S, IsFiniteSet(S), \A x \in S : IsFiniteSet(f[x])
  PROVE  IsFiniteSet(UNION {f[x] : x \in S})
<1> DEFINE P == {T \in SUBSET S : IsFiniteSet(UNION {f[x] : x \in T})}
<1>1. {} \in P
  <2>1. UNION {f[x] : x \in {}} = {}
    OBVIOUS
  <2>2. QED
    BY <2>1, FS_EmptySet
<1>2. ASSUME NEW T \in P, NEW z \in S PROVE T \cup {z} \in P
  <2>1. UNION {f[x] : x \in T \cup {z}} = (UNION {f[x] : x \in T}) \cup f[z]
    OBVIOUS
  <2>2. IsFiniteSet((UNION {f[x] : x \in T}) \cup f[z])
    BY FS_Union
  <2>3. T \cup {z} \in SUBSET S
    OBVIOUS
  <2>4. QED
    BY <2>1, <2>2, <2>3
<1>3. S \in P
  <2> HIDE DEF P
  <2>1. P \in SUBSET (SUBSET S)
    BY DEF P
  <2>2. QED
    BY <1>1, <1>2, <2>1, FiniteSetInduction
<1>4. QED
  BY <1>3

----------------------------------------------------------------------------
(* Rows and columns *)

TablesHold ==
  /\ IsFiniteSet(DOMAIN orders) /\ \A o \in DOMAIN orders : IsOrder(orders[o])
  /\ IsFiniteSet(DOMAIN money) /\ \A k \in DOMAIN money : IsMoney(money[k])

IsRow(row) ==
  /\ row.at \in Int \cup {NoTime} /\ row.amount \in Int /\ row.price \in Int

\* The line of an order that counts is not there without the order.
OrderOf(row, rows) ==
  \E order \in rows : /\ order.source = <<"order", "sale">>
                      /\ order.at = row.at /\ order.shop = row.shop

RowsHold(rows) ==
  /\ IsFiniteSet(rows)
  /\ \A row \in rows : IsRow(row)
  /\ \A row \in rows : row.source \in Sale => OrderOf(row, rows)

\* No two kinds of rows have a source in common.
LEMMA SourcesDiffer ==
  /\ \A s \in Sale : s[1] = "line" /\ s[2] = "sale"
  /\ \A s \in Flows : s[1] = "flow"
  /\ \A s \in Posted \cup Pending : s[1] = "shipping"
  /\ \A s \in Merchant \cup ThirdParty : s[1] = "return"
  /\ \A s \in Delay \cup FalseShip : s[1] = "violation"
  /\ \A s \in Chargebacks : s[1] = "chargeback"
  /\ \A s \in PlatformFees : s[1] = "platform"
  /\ \A s \in Disposals : s[1] = "disposal"
  /\ \A s \in Posted : s[2] = "posted"
  /\ \A s \in Pending : s[2] = "pending"
  /\ \A s \in Merchant : s[2] = "merchant"
  /\ \A s \in ThirdParty : s[2] = "third"
  /\ \A s \in Delay : s[2] = "delay"
  /\ \A s \in FalseShip : s[2] = "false_ship"
<1>1. \A s \in Sale : s[1] = "line" /\ s[2] = "sale"
  BY DEF Sale
<1>2. \A s \in Flows : s[1] = "flow"
  BY DEF Flows
<1>3. (\A s \in Posted : s[1] = "shipping" /\ s[2] = "posted")
      /\ (\A s \in Pending : s[1] = "shipping" /\ s[2] = "pending")
  BY DEF Posted, Pending
<1>4. (\A s \in Merchant : s[1] = "return" /\ s[2] = "merchant")
      /\ (\A s \in ThirdParty : s[1] = "return" /\ s[2] = "third")
  BY DEF Merchant, ThirdParty
<1>5. (\A s \in Delay : s[1] = "violation" /\ s[2] = "delay")
      /\ (\A s \in FalseShip : s[1] = "violation" /\ s[2] = "false_ship")
  BY DEF Delay, FalseShip
<1>6. (\A s \in Chargebacks : s[1] = "chargeback") /\ (\A s \in PlatformFees : s[1] = "platform")
      /\ (\A s \in Disposals : s[1] = "disposal")
  BY DEF Chargebacks, PlatformFees, Disposals
<1>7. QED
  BY <1>1, <1>2, <1>3, <1>4, <1>5, <1>6

LEMMA RowsOfTables ==
  ASSUME TablesHold
  PROVE  RowsHold(Rows(orders, money))
<1> DEFINE temu      == {o \in DOMAIN orders : OrderKey[o].platform = "temu"}
           ofOrder   == [o \in temu |-> OrderRow(o, orders[o])]
           ofLines   == [o \in temu |-> {LineRow(o, orders[o], k) : k \in DOMAIN orders[o].lines}]
           ofMoney   == [k \in DOMAIN money |-> MoneyRow(k, money[k])]
           orderRows == {ofOrder[o] : o \in temu}
           lineRows  == UNION {ofLines[o] : o \in temu}
           moneyRows == {ofMoney[k] : k \in DOMAIN money}
<1>1. Rows(orders, money) = (orderRows \cup lineRows) \cup moneyRows
  <2>1. orderRows = {OrderRow(o, orders[o]) : o \in temu}
    OBVIOUS
  <2>2. lineRows = UNION {{LineRow(o, orders[o], k) : k \in DOMAIN orders[o].lines} : o \in temu}
    <3>1. \A o \in temu : ofLines[o] = {LineRow(o, orders[o], k) : k \in DOMAIN orders[o].lines}
      OBVIOUS
    <3> HIDE DEF ofLines, temu
    <3>2. QED
      BY <3>1
  <2>3. moneyRows = {MoneyRow(k, money[k]) : k \in DOMAIN money}
    OBVIOUS
  <2> HIDE DEF orderRows, lineRows, moneyRows
  <2>4. QED
    BY <2>1, <2>2, <2>3 DEF Rows, TemuRows, MoneyRows
<1>2. IsFiniteSet(temu) /\ IsFiniteSet(DOMAIN money)
  BY FS_Subset DEF TablesHold
<1>3. ASSUME NEW o \in temu PROVE IsFiniteSet(ofLines[o])
  <2> DEFINE f == [k \in DOMAIN orders[o].lines |-> LineRow(o, orders[o], k)]
  <2>1. ofLines[o] = {f[k] : k \in DOMAIN orders[o].lines}
    OBVIOUS
  <2>2. IsFiniteSet(DOMAIN orders[o].lines)
    BY DEF TablesHold, IsOrder
  <2> HIDE DEF f, ofLines
  <2>3. QED
    BY <2>1, <2>2, ImageIsFinite
<1>4. IsFiniteSet(orderRows) /\ IsFiniteSet(lineRows) /\ IsFiniteSet(moneyRows)
  <2> HIDE DEF ofOrder, ofLines, ofMoney, temu
  <2>1. QED
    BY <1>2, <1>3, ImageIsFinite, UnionIsFinite
<1>5. IsFiniteSet(Rows(orders, money))
  <2> HIDE DEF orderRows, lineRows, moneyRows
  <2>1. QED
    BY <1>1, <1>4, FS_Union
<1>6. ASSUME NEW r \in Rows(orders, money)
      PROVE  IsRow(r) /\ (r.source \in Sale => OrderOf(r, Rows(orders, money)))
  <2>1. CASE r \in orderRows
    <3>1. PICK o \in temu : r = OrderRow(o, orders[o])
      BY <2>1
    <3>2. r.at = orders[o].at /\ r.amount = 0 /\ r.price = 0 /\ r.source[1] = "order"
      BY <3>1 DEF OrderRow
    <3>3. orders[o].at \in Int
      BY DEF TablesHold, IsOrder
    <3>4. IsRow(r)
      BY <3>2, <3>3 DEF IsRow
    <3>5. r.source \notin Sale
      BY <3>2, SourcesDiffer
    <3>6. QED
      BY <3>4, <3>5
  <2>2. CASE r \in lineRows
    <3>1. PICK o \in temu : r \in ofLines[o]
      BY <2>2
    <3>2. PICK k \in DOMAIN orders[o].lines : r = LineRow(o, orders[o], k)
      BY <3>1
    <3>3. IsOrder(orders[o]) /\ IsLine(orders[o].lines[k])
      BY DEF TablesHold, IsOrder
    <3>4. /\ r.at = orders[o].at /\ r.amount = orders[o].lines[k].units
          /\ r.price = orders[o].lines[k].price /\ r.shop = OrderKey[o].shop
          /\ r.source = <<"line", OrderKind(orders[o])>>
      BY <3>2 DEF LineRow
    <3>5. IsRow(r)
      BY <3>3, <3>4 DEF IsRow, IsOrder, IsLine
    <3>6. ASSUME r.source \in Sale PROVE OrderOf(r, Rows(orders, money))
      <4> DEFINE q == OrderRow(o, orders[o])
      <4>1. OrderKind(orders[o]) = "sale"
        <5>1. r.source[2] = "sale"
          BY <3>6, SourcesDiffer
        <5>2. QED
          BY <3>4, <5>1
      <4>2. q.source = <<"order", "sale">> /\ q.at = r.at /\ q.shop = r.shop
        BY <3>4, <4>1 DEF OrderRow
      <4>3. q \in Rows(orders, money)
        BY <1>1
      <4> HIDE DEF q
      <4>4. QED
        BY <4>2, <4>3 DEF OrderOf
    <3>7. QED
      BY <3>5, <3>6
  <2>3. CASE r \in moneyRows
    <3>1. PICK k \in DOMAIN money : r = MoneyRow(k, money[k])
      BY <2>3
    <3>2. r.at = money[k].at /\ r.amount = money[k].amount /\ r.price = 0
          /\ r.source = money[k].source
      BY <3>1 DEF MoneyRow
    <3>3. /\ money[k].source \in Flows \cup Fees \cup Pending
          /\ money[k].at \in Int \cup {NoTime} /\ money[k].amount \in Int
      BY DEF TablesHold, IsMoney
    <3>4. r.source[1] # "line"
      BY <3>2, <3>3, SourcesDiffer DEF Fees, FeesAsTheyAre, Expenses
    <3>5. r.source \notin Sale
      BY <3>4, SourcesDiffer
    <3>6. QED
      BY <3>2, <3>3, <3>5 DEF IsRow
  <2> HIDE DEF orderRows, lineRows, moneyRows
  <2>4. QED
    BY <1>1, <2>1, <2>2, <2>3
<1>7. QED
  BY <1>5, <1>6 DEF RowsHold

Takes == {"one", "amount", "expense", "priced", "revenue"}

LEMMA DailyColumnsAre ==
  /\ DOMAIN DailyStatements = 1..10
  /\ DailyColumns =
       {"units", "refundOrders", "salesBacks", "freightBacks", "payback", "salesReceipts",
        "freightReceipts", "salesBackAmounts", "freightBackAmounts", "buyerBacks",
        "buyerBackAmounts", "delays", "falseShips", "shipping", "merchantReturns",
        "thirdPartyReturns", "platformFees", "estimate", "priced", "lines", "settledRows",
        "feeRows", "feeBalance", "disposals"}
BY DEF DailyColumns, DailyStatements, FlowColumns, Range

LEMMA ColumnIs ==
  /\ Column["units"] = Taking(Sale, "amount")
  /\ Column["refundOrders"] = Taking(Refund, "one")
  /\ Column["salesBacks"] = Taking(Flow({"sale back"}), "one")
  /\ Column["freightBacks"] = Taking(Flow({"freight back"}), "one")
  /\ Column["payback"] = Taking(Flows, "amount")
  /\ Column["salesReceipts"] = Taking(Flow({"sale"}), "amount")
  /\ Column["freightReceipts"] = Taking(Flow({"freight"}), "amount")
  /\ Column["salesBackAmounts"] = Taking(Flow({"sale back"}), "amount")
  /\ Column["freightBackAmounts"] = Taking(Flow({"freight back"}), "amount")
  /\ Column["buyerBacks"] = Taking(Chargebacks, "one")
  /\ Column["buyerBackAmounts"] = Taking(Chargebacks, "expense")
  /\ Column["delays"] = Taking(Delay, "expense")
  /\ Column["falseShips"] = Taking(FalseShip, "expense")
  /\ Column["shipping"] = Taking(Posted, "amount")
  /\ Column["merchantReturns"] = Taking(Merchant, "amount")
  /\ Column["thirdPartyReturns"] = Taking(ThirdParty, "amount")
  /\ Column["platformFees"] = Taking(PlatformFees, "amount")
  /\ Column["estimate"] = Taking(Sale, "revenue")
  /\ Column["priced"] = Taking(Sale, "priced")
  /\ Column["lines"] = Taking(Sale, "one")
  /\ Column["settledRows"] = Taking(Flows, "one")
  /\ Column["feeRows"] = Taking(Fees, "one")
  /\ Column["feeBalance"] = Balance
  /\ Column["disposals"] = Taking(Disposals, "expense")
BY DEF Column

LEMMA ColumnTakes ==
  ASSUME NEW c \in DailyColumns, NEW s \in DOMAIN Column[c]
  PROVE  Column[c][s] \in Takes /\ s \in RangeSources \cup Sale
<1>1. ASSUME NEW sources, NEW take \in Takes, Column[c] = Taking(sources, take),
             sources \subseteq RangeSources \cup Sale
      PROVE  Column[c][s] \in Takes /\ s \in RangeSources \cup Sale
  BY <1>1 DEF Taking
<1>2. \A kind \in {"sale", "freight", "sale back", "freight back"} : Flow({kind}) \subseteq Flows
  BY DEF Flow, Flows
<1>3. /\ Flows \subseteq RangeSources /\ Refund \subseteq RangeSources /\ Fees \subseteq RangeSources
      /\ Posted \subseteq Fees /\ Merchant \subseteq Fees /\ ThirdParty \subseteq Fees
      /\ PlatformFees \subseteq Fees /\ Delay \subseteq Fees /\ FalseShip \subseteq Fees
      /\ Chargebacks \subseteq Fees /\ Disposals \subseteq Fees
  BY DEF RangeSources, Fees, FeesAsTheyAre, Expenses
<1>4. CASE c = "feeBalance"
  BY <1>3, <1>4, ColumnIs DEF Balance, Takes
<1>5. CASE c \in {"salesBacks", "freightBacks", "salesReceipts", "freightReceipts",
                  "salesBackAmounts", "freightBackAmounts", "payback", "settledRows"}
  BY <1>1, <1>2, <1>3, <1>5, ColumnIs DEF Takes
<1>6. CASE c \in {"units", "estimate", "priced", "lines", "refundOrders"}
  BY <1>1, <1>3, <1>6, ColumnIs DEF Takes
<1>7. CASE c \in {"buyerBacks", "buyerBackAmounts", "delays", "falseShips", "shipping",
                  "merchantReturns", "thirdPartyReturns", "platformFees", "feeRows", "disposals"}
  BY <1>1, <1>3, <1>7, ColumnIs DEF Takes
<1>8. QED
  BY <1>4, <1>5, <1>6, <1>7, DailyColumnsAre

LEMMA ValuesAreIntegers ==
  ASSUME NEW c \in DailyColumns, NEW r, IsRow(r), r.source \in DOMAIN Column[c]
  PROVE  Value(Column[c][r.source], r) \in Int
<1>1. Column[c][r.source] \in Takes
  BY ColumnTakes
<1>2. r.amount \in Int /\ r.price \in Int /\ r.amount * r.price \in Int
  BY DEF IsRow
<1>3. QED
  BY <1>1, <1>2 DEF Takes, Value

----------------------------------------------------------------------------
(* Days *)

LEMMA DatesAreDays ==
  ASSUME NEW at \in Int, NEW from \in Int, NEW to \in Int
  PROVE  /\ DateOf(at) \in Int
         /\ (at >= Midnight(from) /\ at < Midnight(to)) <=> DateOf(at) \in from..to - 1
BY CalendarAssumption DEF DateOf, Midnight

LEMMA DatesGrow ==
  ASSUME NEW at \in Int, NEW later \in Int, at <= later
  PROVE  DateOf(at) <= DateOf(later)
BY CalendarAssumption DEF DateOf

LEMMA HitsAreDated ==
  ASSUME NEW c, NEW rows, RowsHold(rows), NEW from \in Int, NEW to \in Int, NEW shop
  PROVE  /\ IsFiniteSet(Hits(c, rows, from, to, shop))
         /\ \A r \in Hits(c, rows, from, to, shop) :
              /\ IsRow(r) /\ r.source \in DOMAIN Column[c]
              /\ r.at \in Int /\ DateOf(r.at) \in from..to - 1
<1>1. IsFiniteSet(Hits(c, rows, from, to, shop))
  BY FS_Subset DEF Hits, RowsHold
<1>2. ASSUME NEW r \in Hits(c, rows, from, to, shop)
      PROVE  /\ IsRow(r) /\ r.source \in DOMAIN Column[c]
             /\ r.at \in Int /\ DateOf(r.at) \in from..to - 1
  <2>1. /\ IsRow(r) /\ r.source \in DOMAIN Column[c] /\ r.at # NoTime
        /\ r.at >= Midnight(from) /\ r.at < Midnight(to)
    BY DEF Hits, RowsHold
  <2>2. r.at \in Int
    BY <2>1 DEF IsRow
  <2>3. QED
    BY <2>1, <2>2, DatesAreDays
<1>3. QED
  BY <1>1, <1>2

\* What a column takes of some rows, and of a part of them.
Taken(c, rows) == [r \in rows |-> Value(Column[c][r.source], r)]

LEMMA SumOfIs ==
  ASSUME NEW c \in DailyColumns, NEW rows, IsFiniteSet(rows),
         \A r \in rows : IsRow(r) /\ r.source \in DOMAIN Column[c],
         NEW part \in SUBSET rows
  PROVE  /\ SumOf(c, part) = SumFunctionOnSet(Taken(c, rows), part)
         /\ \A r \in rows : Taken(c, rows)[r] \in Int
         /\ SumOf(c, part) \in Int
<1>1. \A r \in rows : Taken(c, rows)[r] \in Int
  BY ValuesAreIntegers DEF Taken
<1>2. IsFiniteSet(part)
  BY FS_Subset
<1>3. SumOf(c, part) = SumFunctionOnSet(Taken(c, part), part)
  BY DEF SumOf, SumFunction, Taken
<1>4. \A r \in part : Taken(c, part)[r] \in Int /\ Taken(c, part)[r] = Taken(c, rows)[r]
  BY <1>1 DEF Taken
<1>5. SumFunctionOnSet(Taken(c, part), part) = SumFunctionOnSet(Taken(c, rows), part)
  BY <1>2, <1>4, SumSame
<1>6. SumFunctionOnSet(Taken(c, rows), part) \in Int
  BY <1>1, <1>2, SumInt
<1>7. QED
  BY <1>1, <1>3, <1>5, <1>6

LEMMA DailyIsTyped ==
  ASSUME NEW c \in DailyColumns, NEW rows, RowsHold(rows),
         NEW from \in Int, NEW to \in Int, NEW shop
  PROVE  /\ IsFiniteSet(DOMAIN Daily(c, rows, from, to, shop))
         /\ DOMAIN Daily(c, rows, from, to, shop) \subseteq from..to - 1
         /\ \A d \in DOMAIN Daily(c, rows, from, to, shop) :
              Daily(c, rows, from, to, shop)[d] \in Int
<1> DEFINE hits == Hits(c, rows, from, to, shop)
           days == {DateOf(r.at) : r \in hits}
<1>1. /\ DOMAIN Daily(c, rows, from, to, shop) = days
      /\ \A d \in days : Daily(c, rows, from, to, shop)[d]
                           = SumOf(c, {r \in hits : DateOf(r.at) = d})
  BY DEF Daily
<1>2. days \subseteq from..to - 1
  <2>1. \A r \in hits : DateOf(r.at) \in from..to - 1
    BY HitsAreDated
  <2> HIDE DEF hits
  <2>2. QED
    BY <2>1
<1>3. IsFiniteSet(days)
  <2>1. IsFiniteSet(from..to - 1)
    BY FS_Interval
  <2> HIDE DEF days
  <2>2. QED
    BY <1>2, <2>1, FS_Subset
<1>4. \A d \in days : SumOf(c, {r \in hits : DateOf(r.at) = d}) \in Int
  <2>1. IsFiniteSet(hits) /\ \A r \in hits : IsRow(r) /\ r.source \in DOMAIN Column[c]
    BY HitsAreDated
  <2> HIDE DEF hits
  <2>2. QED
    BY <2>1, SumOfIs
<1>5. QED
  BY <1>1, <1>2, <1>3, <1>4

On(rows, days) == {r \in rows : DateOf(r.at) \in days}

\* An answer, summed over some of its days, has the rows of these days.
LEMMA DailyAddsUp ==
  ASSUME NEW c \in DailyColumns, NEW rows, RowsHold(rows),
         NEW from \in Int, NEW to \in Int, NEW shop, NEW days
  PROVE  SumFunctionOnSet(Daily(c, rows, from, to, shop),
                          DOMAIN Daily(c, rows, from, to, shop) \cap days)
           = SumOf(c, On(Hits(c, rows, from, to, shop), days))
<1> DEFINE hits == Hits(c, rows, from, to, shop)
           daily == Daily(c, rows, from, to, shop)
           K == DOMAIN daily \cap days
           key == [r \in hits |-> DateOf(r.at)]
           f == Taken(c, hits)
           h == [k \in K |-> SumFunctionOnSet(f, {r \in hits : key[r] = k})]
<1>1. IsFiniteSet(hits) /\ \A r \in hits : IsRow(r) /\ r.source \in DOMAIN Column[c]
  BY HitsAreDated
<1>2. /\ DOMAIN daily = {DateOf(r.at) : r \in hits}
      /\ \A d \in DOMAIN daily : daily[d] = SumOf(c, {r \in hits : DateOf(r.at) = d})
  BY DEF Daily
<1>3. IsFiniteSet(K) /\ \A k \in K : daily[k] \in Int
  <2>1. IsFiniteSet(DOMAIN daily) /\ \A d \in DOMAIN daily : daily[d] \in Int
    BY DailyIsTyped
  <2> HIDE DEF daily
  <2>2. QED
    BY <2>1, FS_Subset
<1>4. \A r \in hits : f[r] \in Int
  <2> HIDE DEF hits
  <2>1. QED
    BY <1>1, SumOfIs
<1>5. SumFunctionOnSet(f, {r \in hits : key[r] \in K}) = SumFunction(h)
  <2> HIDE DEF hits, f, key, K
  <2>1. QED
    BY <1>1, <1>3, <1>4, SumPartition
<1>6. {r \in hits : key[r] \in K} = On(hits, days) /\ On(hits, days) \in SUBSET hits
  <2> HIDE DEF daily, hits
  <2>1. QED
    BY <1>2 DEF On
<1>7. SumOf(c, On(hits, days)) = SumFunctionOnSet(f, On(hits, days))
  <2> HIDE DEF hits
  <2>1. QED
    BY <1>1, <1>6, SumOfIs
<1>8. ASSUME NEW k \in K PROVE daily[k] = h[k]
  <2>1. {r \in hits : key[r] = k} = {r \in hits : DateOf(r.at) = k}
    OBVIOUS
  <2>2. SumOf(c, {r \in hits : DateOf(r.at) = k})
          = SumFunctionOnSet(f, {r \in hits : DateOf(r.at) = k})
    <3> HIDE DEF hits
    <3>1. QED
      BY <1>1, SumOfIs
  <2> HIDE DEF daily, hits, f, key
  <2>3. QED
    BY <1>2, <2>1, <2>2
<1>9. SumFunctionOnSet(daily, K) = SumFunctionOnSet(h, K)
  <2> HIDE DEF daily, h, K
  <2>1. QED
    BY <1>3, <1>8, SumSame
<1>10. SumFunction(h) = SumFunctionOnSet(h, K)
  BY DEF SumFunction
<1>11. QED
  <2> HIDE DEF daily, h, K, f, key, hits
  <2>1. SumFunctionOnSet(daily, K) = SumOf(c, On(hits, days))
    BY <1>5, <1>6, <1>7, <1>9, <1>10
  <2>2. QED
    BY <2>1 DEF daily, K, hits

\* The day a profit page starts at is not after any row it may show.
LEMMA RangeStartIs ==
  ASSUME NEW rows, RowsHold(rows), NEW shop, NEW day \in Int
  PROVE  /\ RangeStart(rows, shop, day) \in Int
         /\ \A r \in rows : r.source \in RangeSources /\ r.at # NoTime
                            /\ shop \in {Everywhere, r.shop}
              => RangeStart(rows, shop, day) <= DateOf(r.at)
<1> DEFINE shown == {q \in rows : /\ q.source \in RangeSources
                                  /\ q.at # NoTime
                                  /\ shop \in {Everywhere, q.shop}}
           dated == {r.at : r \in shown}
<1>1. RangeStart(rows, shop, day) = IF dated = {} THEN day ELSE DateOf(Min(dated))
  BY DEF RangeStart
<1>2. dated \subseteq Int
  BY DEF RowsHold, IsRow
<1>3. IsFiniteSet(dated)
  <2> DEFINE f == [r \in shown |-> r.at]
  <2>1. dated = {f[r] : r \in shown}
    OBVIOUS
  <2>2. IsFiniteSet(shown)
    BY FS_Subset DEF RowsHold
  <2> HIDE DEF f, shown, dated
  <2>3. QED
    BY <2>1, <2>2, ImageIsFinite
<1>4. CASE dated = {}
  BY <1>1, <1>4
<1>5. CASE dated # {}
  <2>1. Min(dated) \in Int /\ \A at \in dated : at \in Int /\ Min(dated) <= at
    <3> HIDE DEF dated
    <3>1. QED
      BY <1>2, <1>3, <1>5, MinIs
  <2>2. \A at \in dated : DateOf(Min(dated)) <= DateOf(at)
    <3> HIDE DEF dated
    <3>1. QED
      BY <2>1, DatesGrow
  <2>3. DateOf(Min(dated)) \in Int
    <3> HIDE DEF dated
    <3>1. QED
      BY <2>1, DatesAreDays
  <2>4. QED
    BY <1>1, <1>5, <2>2, <2>3
<1>6. QED
  BY <1>4, <1>5

LEMMA DatedRowsAreHit ==
  ASSUME NEW c \in DailyColumns, NEW rows, RowsHold(rows), NEW shop, NEW day \in Int
  PROVE  Hits(c, rows, RangeStart(rows, shop, day), day + 1, shop)
           = {r \in rows : /\ r.source \in DOMAIN Column[c] /\ r.at # NoTime
                           /\ DateOf(r.at) <= day /\ shop \in {Everywhere, r.shop}}
<1> DEFINE start == RangeStart(rows, shop, day)
<1>1. start \in Int
  BY RangeStartIs
<1>2. ASSUME NEW r \in rows, r.source \in DOMAIN Column[c], r.at # NoTime,
             shop \in {Everywhere, r.shop}
      PROVE  r.at >= Midnight(start) /\ r.at < Midnight(day + 1) <=> DateOf(r.at) <= day
  <2>1. r.at \in Int /\ DateOf(r.at) \in Int
    BY <1>1, <1>2, DatesAreDays DEF RowsHold, IsRow
  <2>2. r.at >= Midnight(start) /\ r.at < Midnight(day + 1) <=> DateOf(r.at) \in start..day
    <3>1. day + 1 \in Int /\ day + 1 - 1 = day
      OBVIOUS
    <3> HIDE DEF start
    <3>2. QED
      BY <1>1, <2>1, <3>1, DatesAreDays
  <2>3. start <= DateOf(r.at)
    <3>1. CASE r.source \in RangeSources
      BY <1>2, <3>1, RangeStartIs
    <3>2. CASE r.source \in Sale
      <4>1. PICK order \in rows : /\ order.source = <<"order", "sale">>
                                  /\ order.at = r.at /\ order.shop = r.shop
        BY <3>2 DEF RowsHold, OrderOf
      <4>2. order.source \in RangeSources
        BY <4>1 DEF RangeSources
      <4>3. start <= DateOf(order.at)
        BY <1>2, <4>1, <4>2, RangeStartIs
      <4>4. QED
        BY <4>1, <4>3
    <3>3. QED
      BY <1>2, <3>1, <3>2, ColumnTakes
  <2> HIDE DEF start
  <2>4. QED
    BY <1>1, <2>1, <2>2, <2>3
<1> HIDE DEF start
<1>3. Hits(c, rows, start, day + 1, shop)
        = {r \in rows : /\ r.source \in DOMAIN Column[c] /\ r.at # NoTime
                        /\ DateOf(r.at) <= day /\ shop \in {Everywhere, r.shop}}
  BY <1>2 DEF Hits
<1>4. QED
  BY <1>3 DEF start

LEMMA BucketsHoldTheirDays ==
  ASSUME NEW period, NEW from \in Int, NEW to \in Int
  PROVE  /\ IsFiniteSet(Buckets(period, from, to))
         /\ \A d \in from..to - 1 : BucketStart(period, d) \in Buckets(period, from, to)
<1> DEFINE f == [d \in from..to - 1 |-> BucketStart(period, d)]
<1>1. Buckets(period, from, to) = {f[d] : d \in from..to - 1}
  BY DEF Buckets
<1>2. IsFiniteSet(from..to - 1)
  BY FS_Interval
<1>3. IsFiniteSet(Buckets(period, from, to))
  <2> HIDE DEF f
  <2>1. QED
    BY <1>1, <1>2, ImageIsFinite
<1>4. QED
  BY <1>3 DEF Buckets

LEMMA PageBucketsHoldTheirDays ==
  ASSUME NEW period, NEW from \in Int, NEW to \in Int
  PROVE  /\ IsFiniteSet(PageBuckets(period, from, to))
         /\ \A d \in from..to - 1 : BucketStart(period, d) \in PageBuckets(period, from, to)
<1> DEFINE first == {b \in {BucketStart(period, from)} : b < to}
<1>1. IsFiniteSet(first)
  <2>1. IsFiniteSet({BucketStart(period, from)}) /\ first \in SUBSET {BucketStart(period, from)}
    BY FS_Singleton
  <2> HIDE DEF first
  <2>2. QED
    BY <2>1, FS_Subset
<1>2. PageBuckets(period, from, to) = Buckets(period, from, to) \cup first
  BY DEF PageBuckets
<1> HIDE DEF first
<1>3. QED
  BY <1>1, <1>2, BucketsHoldTheirDays, FS_Union

----------------------------------------------------------------------------
(* The inductive invariant *)

IsAnswer(answer) ==
  IsFiniteSet(DOMAIN answer) /\ \A d \in DOMAIN answer : answer[d] \in Int

\* A profit page has the answers of the statements before the next one; when
\* nothing was committed since it began they are what the tables still say.
ProfitIsRead ==
  /\ DOMAIN page = {"kind", "shop", "next", "read", "from", "to"}
  /\ page.next \in 1..11
  /\ page.from \in Int /\ page.to = today + 1
  /\ DOMAIN page.read = UNION {DailyStatements[i] : i \in 1..page.next - 1}
  /\ \A c \in DOMAIN page.read : IsAnswer(page.read[c])

ProfitIsCurrent ==
  /\ page.from = RangeStart(Rows(orders, money), page.shop, today)
  /\ \A c \in DOMAIN page.read :
       page.read[c] = Daily(c, Rows(orders, money), page.from, page.to, page.shop)

SKUIsRead ==
  /\ DOMAIN page = {"kind", "shop", "next", "read", "from", "to"}
  /\ page.next \in 1..4
  /\ page.from \in Int /\ page.to = today + 1
  /\ DOMAIN page.read = UNION {SKUStatements[i] : i \in 1..page.next - 1}

SKUIsCurrent ==
  \A c \in DOMAIN page.read :
    page.read[c] = BySKU(c, Rows(orders, money), page.from, page.to, page.shop)

IsTally(rows) == IsFiniteSet(rows) /\ \A r \in rows : r.stored \in Nat

DashboardIsRead ==
  /\ DOMAIN page = {"kind", "filter", "period", "next", "read", "from", "to"}
  /\ page.next \in 1..4 /\ page.period \in Period
  /\ page.from = QueryStart(page.period, today) /\ page.to = today + 1
  /\ page.next > 1 => "rows" \in DOMAIN page.read /\ IsTally(page.read.rows)
  /\ page.next > 2 => "totals" \in DOMAIN page.read

DashboardIsCurrent ==
  /\ page.next > 1 => page.read.rows = DailySKUs(orders, page.from, page.to, page.filter)
  /\ page.next > 2 => page.read.totals = DailyTotals(orders, page.from, page.to, page.filter)

PageHolds ==
  /\ today \in Int
  /\ "kind" \in DOMAIN page
  /\ page.kind = "profit" => ProfitIsRead /\ (quiet => ProfitIsCurrent)
  /\ page.kind = "sku" => SKUIsRead /\ (quiet => SKUIsCurrent)
  /\ page.kind = "dashboard" => DashboardIsRead /\ (quiet => DashboardIsCurrent)

\* What is stored of an order is what the source said last of it, and lines that
\* are gone: of a Temu order, without units.
Follows(o) ==
  /\ IsOrder(said[o])
  /\ orders[o].at = said[o].at /\ orders[o].eligible = said[o].eligible
  /\ DOMAIN said[o].lines \subseteq DOMAIN orders[o].lines
  /\ \A k \in DOMAIN said[o].lines :
       /\ orders[o].lines[k].units = said[o].lines[k].units
       /\ orders[o].lines[k].factor = said[o].lines[k].factor
  /\ OrderKey[o].platform = "temu" =>
       \A k \in DOMAIN orders[o].lines \ DOMAIN said[o].lines : orders[o].lines[k].units = 0

SaidHolds == DOMAIN said = DOMAIN orders /\ \A o \in DOMAIN said : Follows(o)

IInv == TablesHold /\ SaidHolds /\ PageHolds

LEMMA StoredLinesAreLines ==
  ASSUME TablesHold, NEW o, NEW lines,
         IsFiniteSet(DOMAIN lines), \A k \in DOMAIN lines : IsLine(lines[k])
  PROVE  /\ IsFiniteSet(DOMAIN StoredLines(o, lines))
         /\ \A k \in DOMAIN StoredLines(o, lines) : IsLine(StoredLines(o, lines)[k])
<1> DEFINE old == LinesOf(o)
<1>1. IsFiniteSet(DOMAIN old) /\ \A k \in DOMAIN old : IsLine(old[k])
  <2>1. CASE o \in DOMAIN orders
    BY <2>1 DEF TablesHold, IsOrder, LinesOf
  <2>2. CASE o \notin DOMAIN orders
    <3>1. DOMAIN old = {}
      BY <2>2 DEF LinesOf
    <3>2. QED
      BY <3>1, FS_EmptySet
  <2>3. QED
    BY <2>1, <2>2
<1>2. DOMAIN StoredLines(o, lines) = DOMAIN old \cup DOMAIN lines
  BY DEF StoredLines
<1>3. IsFiniteSet(DOMAIN old \cup DOMAIN lines)
  BY <1>1, FS_Union
<1>4. ASSUME NEW k \in DOMAIN lines, k \notin DOMAIN old PROVE IsLine(StoredLines(o, lines)[k])
  BY <1>2, <1>4 DEF StoredLines
<1>5. ASSUME NEW k \in DOMAIN lines, k \in DOMAIN old PROVE IsLine(StoredLines(o, lines)[k])
  <2>1. StoredLines(o, lines)[k]
          = [lines[k] EXCEPT !.price = IF @ = 0 THEN old[k].price ELSE @,
                             !.place = IF @ = "" THEN old[k].place ELSE @]
    BY <1>2, <1>5 DEF StoredLines
  <2>2. IsLine(lines[k]) /\ IsLine(old[k])
    BY <1>1, <1>5
  <2> HIDE DEF old
  <2>3. QED
    BY <2>1, <2>2 DEF IsLine
<1>6. ASSUME NEW k \in DOMAIN old, k \notin DOMAIN lines PROVE IsLine(StoredLines(o, lines)[k])
  <2>1. \/ StoredLines(o, lines)[k] = [old[k] EXCEPT !.units = 0]
        \/ StoredLines(o, lines)[k] = old[k]
    BY <1>2, <1>6 DEF StoredLines
  <2>2. IsLine(old[k])
    BY <1>1
  <2> HIDE DEF old
  <2>3. QED
    BY <2>1, <2>2 DEF IsLine
<1>7. QED
  BY <1>2, <1>3, <1>4, <1>5, <1>6

LEMMA UpsertIs ==
  ASSUME NEW old, NEW new
  PROVE  /\ DOMAIN Upsert(old, new) = DOMAIN old \cup DOMAIN new
         /\ \A k \in DOMAIN new : Upsert(old, new)[k] = new[k]
         /\ \A k \in DOMAIN old \ DOMAIN new : Upsert(old, new)[k] = old[k]
         /\ IsFiniteSet(DOMAIN old) /\ IsFiniteSet(DOMAIN new)
              => IsFiniteSet(DOMAIN Upsert(old, new))
<1>1. DOMAIN Upsert(old, new) = DOMAIN old \cup DOMAIN new
  BY DEF Upsert
<1>2. IsFiniteSet(DOMAIN old) /\ IsFiniteSet(DOMAIN new)
        => IsFiniteSet(DOMAIN old \cup DOMAIN new)
  BY FS_Union
<1>3. QED
  BY <1>1, <1>2 DEF Upsert

LEMMA TablesInit == Init => TablesHold
<1>1. DOMAIN << >> = {}
  OBVIOUS
<1>2. QED
  BY <1>1, FS_EmptySet DEF Init, TablesHold

LEMMA TablesStep ==
  ASSUME TablesHold, [Next]_vars
  PROVE  TablesHold'
<1>1. CASE StoreOrder
  <2>1. PICK o \in DOMAIN Says : \E version \in Says[o] :
          LET stored == [ at |-> version.at, eligible |-> version.eligible,
                          lines |-> StoredLines(o, version.lines) ]
          IN  orders' = Upsert(orders, [x \in {o} |-> stored])
    BY <1>1 DEF StoreOrder
  <2>2. PICK version \in Says[o] :
          orders' = Upsert(orders, [x \in {o} |->
            [ at |-> version.at, eligible |-> version.eligible,
              lines |-> StoredLines(o, version.lines) ]])
    BY <2>1
  <2> DEFINE stored == [ at |-> version.at, eligible |-> version.eligible,
                         lines |-> StoredLines(o, version.lines) ]
             new == [x \in {o} |-> stored]
  <2>3. IsOrder(version)
    BY ReportsAssumption
  <2>4. IsOrder(stored)
    <3>1. /\ IsFiniteSet(DOMAIN StoredLines(o, version.lines))
          /\ \A k \in DOMAIN StoredLines(o, version.lines) :
               IsLine(StoredLines(o, version.lines)[k])
      BY <2>3, StoredLinesAreLines DEF IsOrder
    <3>2. /\ stored.at = version.at /\ stored.eligible = version.eligible
          /\ stored.lines = StoredLines(o, version.lines)
      OBVIOUS
    <3> HIDE DEF stored
    <3>3. QED
      BY <2>3, <3>1, <3>2 DEF IsOrder
  <2>5. DOMAIN new = {o} /\ new[o] = stored /\ orders' = Upsert(orders, new)
    BY <2>2
  <2>6. IsFiniteSet(DOMAIN new)
    BY <2>5, FS_Singleton
  <2>7. IsFiniteSet(DOMAIN orders') /\ \A x \in DOMAIN orders' : IsOrder(orders'[x])
    <3> HIDE DEF new, stored
    <3>1. /\ DOMAIN orders' = DOMAIN orders \cup DOMAIN new
          /\ \A x \in DOMAIN new : orders'[x] = new[x]
          /\ \A x \in DOMAIN orders \ DOMAIN new : orders'[x] = orders[x]
      BY <2>5 DEF Upsert
    <3>2. IsFiniteSet(DOMAIN orders')
      BY <2>5, <2>6, UpsertIs DEF TablesHold
    <3>3. QED
      BY <2>4, <2>5, <3>1, <3>2 DEF TablesHold
  <2>8. money' = money
    BY <1>1 DEF StoreOrder
  <2>9. QED
    BY <2>7, <2>8 DEF TablesHold
<1>2. CASE Import
  <2>1. PICK upload \in Uploads : money' = Upsert(money, upload)
    BY <1>2 DEF Import
  <2>2. IsFiniteSet(DOMAIN upload) /\ \A k \in DOMAIN upload : IsMoney(upload[k])
    BY ReportsAssumption
  <2>3. IsFiniteSet(DOMAIN money') /\ \A k \in DOMAIN money' : IsMoney(money'[k])
    <3>1. /\ DOMAIN money' = DOMAIN money \cup DOMAIN upload
          /\ \A x \in DOMAIN upload : money'[x] = upload[x]
          /\ \A x \in DOMAIN money \ DOMAIN upload : money'[x] = money[x]
      BY <2>1 DEF Upsert
    <3>2. IsFiniteSet(DOMAIN money')
      BY <2>1, <2>2, UpsertIs DEF TablesHold
    <3>3. QED
      BY <2>2, <3>1, <3>2 DEF TablesHold
  <2>4. orders' = orders
    BY <1>2 DEF Import
  <2>5. QED
    BY <2>3, <2>4 DEF TablesHold
<1>3. CASE UNCHANGED <<orders, money>>
  BY <1>3 DEF TablesHold
<1>4. ASSUME NEW new, Begin(new) PROVE TablesHold'
  BY <1>3, <1>4 DEF Begin, tableVars
<1>5. ASSUME NEW answer, Answered(answer) PROVE TablesHold'
  BY <1>3, <1>5 DEF Answered, tableVars
<1>6. CASE ReplaceStock \/ Fail \/ UNCHANGED vars
  BY <1>3, <1>6 DEF ReplaceStock, Fail, tableVars, vars
<1>7. CASE BeginProfit \/ BeginSKU \/ BeginDashboard
  BY <1>4, <1>7 DEF BeginProfit, BeginSKU, BeginDashboard
<1>8. CASE ReadProfit \/ ReadSKU \/ ReadDashboard
  BY <1>5, <1>8 DEF ReadProfit, ReadSKU, ReadDashboard
<1>9. QED
  BY <1>1, <1>2, <1>6, <1>7, <1>8 DEF Next

LEMMA StoredLinesFollow ==
  ASSUME TablesHold, NEW o, NEW lines, \A k \in DOMAIN lines : IsLine(lines[k])
  PROVE  /\ DOMAIN lines \subseteq DOMAIN StoredLines(o, lines)
         /\ \A k \in DOMAIN lines : /\ StoredLines(o, lines)[k].units = lines[k].units
                                    /\ StoredLines(o, lines)[k].factor = lines[k].factor
         /\ OrderKey[o].platform = "temu" =>
              \A k \in DOMAIN StoredLines(o, lines) \ DOMAIN lines :
                StoredLines(o, lines)[k].units = 0
<1> DEFINE old == LinesOf(o)
<1>1. DOMAIN StoredLines(o, lines) = DOMAIN old \cup DOMAIN lines
  BY DEF StoredLines
<1>2. \A k \in DOMAIN old : IsLine(old[k])
  BY DEF TablesHold, IsOrder, LinesOf
<1>3. ASSUME NEW k \in DOMAIN lines
      PROVE  /\ StoredLines(o, lines)[k].units = lines[k].units
             /\ StoredLines(o, lines)[k].factor = lines[k].factor
  <2>1. CASE k \notin DOMAIN old
    BY <1>1, <2>1 DEF StoredLines
  <2>2. CASE k \in DOMAIN old
    <3>1. StoredLines(o, lines)[k]
            = [lines[k] EXCEPT !.price = IF @ = 0 THEN old[k].price ELSE @,
                               !.place = IF @ = "" THEN old[k].place ELSE @]
      BY <1>1, <2>2 DEF StoredLines
    <3>2. IsLine(lines[k])
      OBVIOUS
    <3> HIDE DEF old
    <3>3. QED
      BY <3>1, <3>2 DEF IsLine
  <2>3. QED
    BY <2>1, <2>2
<1>4. ASSUME OrderKey[o].platform = "temu",
             NEW k \in DOMAIN StoredLines(o, lines) \ DOMAIN lines
      PROVE  StoredLines(o, lines)[k].units = 0
  <2>1. StoredLines(o, lines)[k] = [old[k] EXCEPT !.units = 0] /\ k \in DOMAIN old
    BY <1>1, <1>4 DEF StoredLines
  <2>2. IsLine(old[k])
    BY <1>2, <2>1
  <2> HIDE DEF old
  <2>3. QED
    BY <2>1, <2>2 DEF IsLine
<1>5. QED
  BY <1>1, <1>3, <1>4

LEMMA SaidInit == Init => SaidHolds
BY DEF Init, SaidHolds

LEMMA SaidStep ==
  ASSUME TablesHold, SaidHolds, [Next]_vars
  PROVE  SaidHolds'
<1>1. CASE StoreOrder
  <2>1. PICK o \in DOMAIN Says : \E version \in Says[o] :
          LET stored == [ at |-> version.at, eligible |-> version.eligible,
                          lines |-> StoredLines(o, version.lines) ]
          IN  /\ orders' = Upsert(orders, [x \in {o} |-> stored])
              /\ said' = Upsert(said, [x \in {o} |-> version])
    BY <1>1 DEF StoreOrder
  <2>2. PICK version \in Says[o] :
          /\ orders' = Upsert(orders, [x \in {o} |->
               [ at |-> version.at, eligible |-> version.eligible,
                 lines |-> StoredLines(o, version.lines) ]])
          /\ said' = Upsert(said, [x \in {o} |-> version])
    BY <2>1
  <2> DEFINE stored == [ at |-> version.at, eligible |-> version.eligible,
                         lines |-> StoredLines(o, version.lines) ]
  <2>3. /\ DOMAIN orders' = DOMAIN orders \cup {o} /\ orders'[o] = stored
        /\ \A x \in DOMAIN orders \ {o} : orders'[x] = orders[x]
    <3> DEFINE new == [x \in {o} |-> stored]
    <3>1. orders' = Upsert(orders, new) /\ DOMAIN new = {o} /\ new[o] = stored
      BY <2>2
    <3> HIDE DEF new, stored
    <3>2. QED
      BY <3>1 DEF Upsert
  <2>4. /\ DOMAIN said' = DOMAIN said \cup {o} /\ said'[o] = version
        /\ \A x \in DOMAIN said \ {o} : said'[x] = said[x]
    <3> DEFINE new == [x \in {o} |-> version]
    <3>1. said' = Upsert(said, new) /\ DOMAIN new = {o} /\ new[o] = version
      BY <2>2
    <3> HIDE DEF new
    <3>2. QED
      BY <3>1 DEF Upsert
  <2>5. IsOrder(version)
    BY ReportsAssumption
  <2>6. Follows(o)'
    <3>1. /\ orders'[o].at = version.at /\ orders'[o].eligible = version.eligible
          /\ orders'[o].lines = StoredLines(o, version.lines)
      BY <2>3
    <3>2. /\ DOMAIN version.lines \subseteq DOMAIN StoredLines(o, version.lines)
          /\ \A k \in DOMAIN version.lines :
               /\ StoredLines(o, version.lines)[k].units = version.lines[k].units
               /\ StoredLines(o, version.lines)[k].factor = version.lines[k].factor
          /\ OrderKey[o].platform = "temu" =>
               \A k \in DOMAIN StoredLines(o, version.lines) \ DOMAIN version.lines :
                 StoredLines(o, version.lines)[k].units = 0
      BY <2>5, StoredLinesFollow DEF IsOrder
    <3> HIDE DEF stored
    <3>3. QED
      BY <2>4, <2>5, <3>1, <3>2 DEF Follows
  <2>7. ASSUME NEW x \in DOMAIN said, x # o PROVE Follows(x)'
    <3>1. orders'[x] = orders[x] /\ said'[x] = said[x] /\ Follows(x)
      BY <2>3, <2>4, <2>7 DEF SaidHolds
    <3>2. QED
      BY <3>1 DEF Follows
  <2>8. QED
    BY <2>3, <2>4, <2>6, <2>7 DEF SaidHolds
<1>2. CASE UNCHANGED <<orders, said>>
  BY <1>2 DEF SaidHolds, Follows
<1>3. ASSUME NEW new, Begin(new) PROVE SaidHolds'
  BY <1>2, <1>3 DEF Begin, tableVars
<1>4. ASSUME NEW answer, Answered(answer) PROVE SaidHolds'
  BY <1>2, <1>4 DEF Answered, tableVars
<1>5. CASE Import \/ ReplaceStock \/ Fail \/ UNCHANGED vars
  BY <1>2, <1>5 DEF Import, ReplaceStock, Fail, tableVars, vars
<1>6. CASE BeginProfit \/ BeginSKU \/ BeginDashboard
  BY <1>3, <1>6 DEF BeginProfit, BeginSKU, BeginDashboard
<1>7. CASE ReadProfit \/ ReadSKU \/ ReadDashboard
  BY <1>4, <1>7 DEF ReadProfit, ReadSKU, ReadDashboard
<1>8. QED
  BY <1>1, <1>5, <1>6, <1>7 DEF Next

\* The lines that count, by order and key.
Counted(o, from, to, filter) ==
  {k \in DOMAIN orders[o].lines :
     /\ orders[o].eligible
     /\ orders[o].at >= Midnight(from) /\ orders[o].at < Midnight(to)
     /\ filter.platform \in {Everywhere, OrderKey[o].platform}
     /\ filter.shop \in {Everywhere, OrderKey[o].shop}
     /\ Placed(orders[o].lines[k].place, filter)}

SoldLine(o, k) ==
  [ order |-> o, key |-> k, date |-> DateOf(orders[o].at),
    platform |-> OrderKey[o].platform, sku |-> orders[o].lines[k].item,
    place |-> orders[o].lines[k].place, units |-> orders[o].lines[k].units,
    stored |-> orders[o].lines[k].units * orders[o].lines[k].factor ]

LEMMA SoldIs ==
  ASSUME TablesHold, NEW from, NEW to, NEW filter
  PROVE  /\ Sold(orders, from, to, filter)
              = UNION {{SoldLine(o, k) : k \in Counted(o, from, to, filter)} : o \in DOMAIN orders}
         /\ IsTally(Sold(orders, from, to, filter))
<1> DEFINE lines == [o \in DOMAIN orders |-> {SoldLine(o, k) : k \in Counted(o, from, to, filter)}]
<1>1. Sold(orders, from, to, filter)
        = UNION {{SoldLine(o, k) : k \in Counted(o, from, to, filter)} : o \in DOMAIN orders}
  BY DEF Sold, SoldLine, Counted
<1>2. ASSUME NEW o \in DOMAIN orders PROVE IsFiniteSet(lines[o])
  <2> DEFINE f == [k \in Counted(o, from, to, filter) |-> SoldLine(o, k)]
  <2>1. lines[o] = {f[k] : k \in Counted(o, from, to, filter)}
    OBVIOUS
  <2>2. IsFiniteSet(Counted(o, from, to, filter))
    BY FS_Subset DEF TablesHold, IsOrder, Counted
  <2> HIDE DEF f, lines
  <2>3. QED
    BY <2>1, <2>2, ImageIsFinite
<1>3. IsFiniteSet(DOMAIN orders)
  BY DEF TablesHold
<1>4. UNION {lines[o] : o \in DOMAIN orders}
        = UNION {{SoldLine(o, k) : k \in Counted(o, from, to, filter)} : o \in DOMAIN orders}
  <2>1. \A o \in DOMAIN orders : lines[o] = {SoldLine(o, k) : k \in Counted(o, from, to, filter)}
    OBVIOUS
  <2> HIDE DEF lines
  <2>2. QED
    BY <2>1
<1>5. IsFiniteSet(UNION {lines[o] : o \in DOMAIN orders})
  <2> HIDE DEF lines
  <2>1. QED
    BY <1>2, <1>3, UnionIsFinite
<1>6. ASSUME NEW l \in Sold(orders, from, to, filter) PROVE l.stored \in Nat
  <2>1. PICK o \in DOMAIN orders : \E k \in Counted(o, from, to, filter) : l = SoldLine(o, k)
    BY <1>1
  <2>2. PICK k \in Counted(o, from, to, filter) : l = SoldLine(o, k)
    BY <2>1
  <2>3. IsLine(orders[o].lines[k])
    BY DEF TablesHold, IsOrder, Counted
  <2>4. l.stored = orders[o].lines[k].units * orders[o].lines[k].factor
    BY <2>2 DEF SoldLine
  <2>5. orders[o].lines[k].units \in Nat /\ orders[o].lines[k].factor \in Nat
    BY <2>3 DEF IsLine
  <2>6. \A m, n \in Nat : m * n \in Nat
    OBVIOUS
  <2>7. QED
    BY <2>4, <2>5, <2>6
<1>7. QED
  BY <1>1, <1>4, <1>5, <1>6 DEF IsTally

LEMMA StoredIs ==
  ASSUME NEW rows, IsTally(rows)
  PROVE  Stored(rows) \in Nat
<1> DEFINE f == [l \in rows |-> l.stored]
<1>1. Stored(rows) = SumFunctionOnSet(f, rows)
  BY DEF Stored, SumFunction
<1>2. \A l \in rows : f[l] \in Nat
  BY DEF IsTally
<1> HIDE DEF f
<1>3. QED
  BY <1>1, <1>2, SumNat DEF IsTally

LEMMA PartOfTally ==
  ASSUME NEW rows, IsTally(rows), NEW part \in SUBSET rows
  PROVE  IsTally(part)
BY FS_Subset DEF IsTally

LEMMA SKUsAreTallied ==
  ASSUME TablesHold, NEW from, NEW to, NEW filter
  PROVE  IsTally(DailySKUs(orders, from, to, filter))
<1> DEFINE sold == Sold(orders, from, to, filter)
           groups == {Group(l) : l \in sold}
           lines == [g \in groups |-> {l \in sold : Group(l) = g}]
           row == [g \in groups |-> SKURow(g, {l \in sold : Group(l) = g})]
<1>1. IsTally(sold)
  BY SoldIs
<1>2. IsFiniteSet(groups)
  <2> DEFINE f == [l \in sold |-> Group(l)]
  <2>1. groups = {f[l] : l \in sold}
    OBVIOUS
  <2>2. IsFiniteSet(sold)
    BY <1>1 DEF IsTally
  <2> HIDE DEF f, sold, groups
  <2>3. QED
    BY <2>1, <2>2, ImageIsFinite
<1>3. DailySKUs(orders, from, to, filter) = {row[g] : g \in groups}
  <2>1. DailySKUs(orders, from, to, filter) = {SKURow(g, {l \in sold : Group(l) = g}) : g \in groups}
    BY DEF DailySKUs
  <2>2. \A g \in groups : row[g] = SKURow(g, {l \in sold : Group(l) = g})
    OBVIOUS
  <2> HIDE DEF row, groups, sold
  <2>3. QED
    BY <2>1, <2>2
<1>4. ASSUME NEW g \in groups PROVE row[g].stored \in Nat
  <2>1. {l \in sold : Group(l) = g} \in SUBSET sold
    OBVIOUS
  <2>2. Stored({l \in sold : Group(l) = g}) \in Nat
    <3> HIDE DEF sold
    <3>1. QED
      BY <1>1, <2>1, PartOfTally, StoredIs
  <2>3. row[g].stored = Stored({l \in sold : Group(l) = g})
    BY DEF SKURow
  <2> HIDE DEF row, sold
  <2>4. QED
    BY <2>2, <2>3
<1>5. IsFiniteSet({row[g] : g \in groups})
  <2> HIDE DEF row, groups
  <2>1. QED
    BY <1>2, ImageIsFinite
<1>6. QED
  <2> HIDE DEF row, groups
  <2>1. QED
    BY <1>3, <1>4, <1>5 DEF IsTally

LEMMA PageInit == Init => PageHolds
<1>1. "kind" \in DOMAIN NoPage /\ NoPage.kind = "none"
  BY DEF NoPage
<1>2. QED
  BY <1>1, ReportsAssumption DEF Init, PageHolds

\* One more statement was read.
LEMMA AnswerIsAdded ==
  ASSUME NEW answer, Answered(answer), {"kind", "next", "read", "from", "to"} \subseteq DOMAIN page
  PROVE  /\ DOMAIN page' = DOMAIN page /\ page'.next = page.next + 1
         /\ \A field \in DOMAIN page \ {"next", "read"} : page'[field] = page[field]
         /\ DOMAIN page'.read = DOMAIN page.read \cup DOMAIN answer
         /\ \A c \in DOMAIN answer : page'.read[c] = answer[c]
         /\ \A c \in DOMAIN page.read \ DOMAIN answer : page'.read[c] = page.read[c]
         /\ UNCHANGED <<today, orders, money, quiet>>
<1>1. page' = [page EXCEPT !.read = Upsert(page.read, answer), !.next = page.next + 1]
  BY DEF Answered
<1>2. page'.read = Upsert(page.read, answer)
  BY <1>1
<1>3. /\ DOMAIN page'.read = DOMAIN page.read \cup DOMAIN answer
      /\ \A c \in DOMAIN answer : page'.read[c] = answer[c]
      /\ \A c \in DOMAIN page.read \ DOMAIN answer : page'.read[c] = page.read[c]
  BY <1>2 DEF Upsert
<1>4. UNCHANGED <<today, orders, money, quiet>>
  BY DEF Answered, tableVars
<1>5. /\ DOMAIN page' = DOMAIN page /\ page'.next = page.next + 1
      /\ \A field \in DOMAIN page \ {"next", "read"} : page'[field] = page[field]
  BY <1>1
<1>6. QED
  BY <1>3, <1>4, <1>5

LEMMA BeginProfitHolds ==
  ASSUME IInv, BeginProfit
  PROVE  PageHolds'
<1>0. PageHolds /\ RowsHold(Rows(orders, money))
  BY RowsOfTables DEF IInv
<1>1. PICK shop \in Shops :
        Begin([ kind |-> "profit", shop |-> shop, next |-> 1, read |-> << >>,
                from |-> RangeStart(Rows(orders, money), shop, today), to |-> today + 1 ])
  BY DEF BeginProfit
<1>2. /\ page' = [ kind |-> "profit", shop |-> shop, next |-> 1, read |-> << >>,
                   from |-> RangeStart(Rows(orders, money), shop, today), to |-> today + 1 ]
      /\ today' = today /\ orders' = orders /\ money' = money
  BY <1>1 DEF Begin, tableVars
<1>3. RangeStart(Rows(orders, money), shop, today) \in Int
  BY <1>0, RangeStartIs DEF PageHolds
<1>4. DOMAIN page'.read = {}
  BY <1>2
<1>5. ProfitIsRead'
  <2>1. UNION {DailyStatements[i] : i \in 1..page'.next - 1} = {}
    BY <1>2
  <2>2. QED
    BY <1>2, <1>3, <1>4, <2>1 DEF ProfitIsRead
<1>6. ProfitIsCurrent'
  BY <1>2, <1>4 DEF ProfitIsCurrent
<1>7. QED
  BY <1>0, <1>2, <1>5, <1>6 DEF PageHolds

LEMMA BeginSKUHolds ==
  ASSUME PageHolds, BeginSKU
  PROVE  PageHolds'
<1>1. PICK shop \in Shops, days \in SKUDays :
        Begin([ kind |-> "sku", shop |-> shop, next |-> 1, read |-> << >>,
                from |-> today + 1 - days, to |-> today + 1 ])
  BY DEF BeginSKU
<1>2. /\ page' = [ kind |-> "sku", shop |-> shop, next |-> 1, read |-> << >>,
                   from |-> today + 1 - days, to |-> today + 1 ]
      /\ today' = today
  BY <1>1 DEF Begin
<1>3. days \in Int /\ today \in Int
  BY ReportsAssumption DEF PageHolds
<1>4. DOMAIN page'.read = {}
  BY <1>2
<1>5. SKUIsRead'
  <2>1. UNION {SKUStatements[i] : i \in 1..page'.next - 1} = {}
    BY <1>2
  <2>2. QED
    BY <1>2, <1>3, <1>4, <2>1 DEF SKUIsRead
<1>6. SKUIsCurrent'
  BY <1>4 DEF SKUIsCurrent
<1>7. QED
  BY <1>2, <1>3, <1>5, <1>6 DEF PageHolds

LEMMA BeginDashboardHolds ==
  ASSUME PageHolds, BeginDashboard
  PROVE  PageHolds'
<1>1. PICK period \in Period, filter \in Filters :
        Begin([ kind |-> "dashboard", filter |-> filter, period |-> period, next |-> 1,
                read |-> << >>, from |-> QueryStart(period, today), to |-> today + 1 ])
  BY DEF BeginDashboard
<1>2. /\ page' = [ kind |-> "dashboard", filter |-> filter, period |-> period, next |-> 1,
                   read |-> << >>, from |-> QueryStart(period, today), to |-> today + 1 ]
      /\ today' = today
  BY <1>1 DEF Begin
<1>3. DashboardIsRead'
  BY <1>2 DEF DashboardIsRead
<1>4. DashboardIsCurrent'
  BY <1>2 DEF DashboardIsCurrent
<1>5. QED
  BY <1>2, <1>3, <1>4 DEF PageHolds

LEMMA ReadProfitHolds ==
  ASSUME IInv, ReadProfit
  PROVE  PageHolds'
<1> DEFINE answer == [c \in DailyStatements[page.next] |->
                        Daily(c, Rows(orders, money), page.from, page.to, page.shop)]
<1>1. PageHolds /\ RowsHold(Rows(orders, money))
  BY RowsOfTables DEF IInv
<1>2. page.kind = "profit" /\ page.next <= 10 /\ Answered(answer)
  BY DEF ReadProfit, Reading, Statements, DailyStatements
<1>3. ProfitIsRead /\ (quiet => ProfitIsCurrent)
  BY <1>1, <1>2 DEF PageHolds
<1>4. page.next \in 1..10 /\ page.from \in Int /\ page.to \in Int
  BY <1>1, <1>2, <1>3 DEF ProfitIsRead, PageHolds
<1>5. \A c \in DailyStatements[page.next] : c \in DailyColumns
  BY <1>4, DailyColumnsAre DEF DailyColumns, Range
<1>6. DOMAIN answer = DailyStatements[page.next]
  OBVIOUS
<1>7. \A c \in DOMAIN answer :
        /\ answer[c] = Daily(c, Rows(orders, money), page.from, page.to, page.shop)
        /\ IsAnswer(answer[c])
  <2>1. ASSUME NEW c \in DailyStatements[page.next]
        PROVE  IsAnswer(Daily(c, Rows(orders, money), page.from, page.to, page.shop))
    BY <1>1, <1>4, <1>5, DailyIsTyped DEF IsAnswer
  <2>2. QED
    BY <2>1
<1> HIDE DEF answer
<1>8. /\ DOMAIN page' = DOMAIN page /\ page'.next = page.next + 1
      /\ \A field \in DOMAIN page \ {"next", "read"} : page'[field] = page[field]
      /\ DOMAIN page'.read = DOMAIN page.read \cup DOMAIN answer
      /\ \A c \in DOMAIN answer : page'.read[c] = answer[c]
      /\ \A c \in DOMAIN page.read \ DOMAIN answer : page'.read[c] = page.read[c]
      /\ UNCHANGED <<today, orders, money, quiet>>
  <2>1. {"kind", "next", "read", "from", "to"} \subseteq DOMAIN page
    BY <1>3 DEF ProfitIsRead
  <2>2. QED
    BY <1>2, <2>1, AnswerIsAdded
<1>9. /\ page'.kind = "profit" /\ page'.from = page.from /\ page'.to = page.to
      /\ page'.shop = page.shop
  BY <1>2, <1>3, <1>8 DEF ProfitIsRead
<1>10. DOMAIN page'.read = UNION {DailyStatements[i] : i \in 1..page'.next - 1}
  <2>1. 1..page'.next - 1 = (1..page.next - 1) \cup {page.next}
    BY <1>4, <1>8
  <2>2. DOMAIN page'.read = (UNION {DailyStatements[i] : i \in 1..page.next - 1})
                              \cup DailyStatements[page.next]
    BY <1>3, <1>6, <1>8 DEF ProfitIsRead
  <2>3. QED
    BY <2>1, <2>2
<1>11. \A c \in DOMAIN page'.read : IsAnswer(page'.read[c])
  BY <1>3, <1>7, <1>8 DEF ProfitIsRead
<1>12. ProfitIsRead'
  BY <1>3, <1>4, <1>8, <1>9, <1>10, <1>11 DEF ProfitIsRead
<1>13. ASSUME quiet PROVE ProfitIsCurrent'
  <2>1. ProfitIsCurrent
    BY <1>3, <1>13
  <2>2. \A c \in DOMAIN page'.read :
          page'.read[c] = Daily(c, Rows(orders, money), page.from, page.to, page.shop)
    BY <1>7, <1>8, <2>1 DEF ProfitIsCurrent
  <2>3. QED
    BY <1>8, <1>9, <2>1, <2>2 DEF ProfitIsCurrent
<1>14. QED
  BY <1>1, <1>3, <1>8, <1>9, <1>12, <1>13 DEF PageHolds, ProfitIsRead

LEMMA ReadSKUHolds ==
  ASSUME IInv, ReadSKU
  PROVE  PageHolds'
<1> DEFINE answer == [c \in SKUStatements[page.next] |->
                        BySKU(c, Rows(orders, money), page.from, page.to, page.shop)]
<1>1. PageHolds
  BY DEF IInv
<1>2. page.kind = "sku" /\ page.next <= 3 /\ Answered(answer)
  BY DEF ReadSKU, Reading, Statements, SKUStatements
<1>3. SKUIsRead /\ (quiet => SKUIsCurrent)
  BY <1>1, <1>2 DEF PageHolds
<1>4. page.next \in 1..3
  BY <1>2, <1>3 DEF SKUIsRead
<1>5. /\ DOMAIN answer = SKUStatements[page.next]
      /\ \A c \in DOMAIN answer :
           answer[c] = BySKU(c, Rows(orders, money), page.from, page.to, page.shop)
  OBVIOUS
<1> HIDE DEF answer
<1>6. /\ DOMAIN page' = DOMAIN page /\ page'.next = page.next + 1
      /\ \A field \in DOMAIN page \ {"next", "read"} : page'[field] = page[field]
      /\ DOMAIN page'.read = DOMAIN page.read \cup DOMAIN answer
      /\ \A c \in DOMAIN answer : page'.read[c] = answer[c]
      /\ \A c \in DOMAIN page.read \ DOMAIN answer : page'.read[c] = page.read[c]
      /\ UNCHANGED <<today, orders, money, quiet>>
  <2>1. {"kind", "next", "read", "from", "to"} \subseteq DOMAIN page
    BY <1>3 DEF SKUIsRead
  <2>2. QED
    BY <1>2, <2>1, AnswerIsAdded
<1>7. /\ page'.kind = "sku" /\ page'.from = page.from /\ page'.to = page.to
      /\ page'.shop = page.shop
  BY <1>2, <1>3, <1>6 DEF SKUIsRead
<1>8. DOMAIN page'.read = UNION {SKUStatements[i] : i \in 1..page'.next - 1}
  <2>1. 1..page'.next - 1 = (1..page.next - 1) \cup {page.next}
    BY <1>4, <1>6
  <2>2. DOMAIN page'.read = (UNION {SKUStatements[i] : i \in 1..page.next - 1})
                              \cup SKUStatements[page.next]
    BY <1>3, <1>5, <1>6 DEF SKUIsRead
  <2>3. QED
    BY <2>1, <2>2
<1>9. SKUIsRead'
  BY <1>3, <1>4, <1>6, <1>7, <1>8 DEF SKUIsRead
<1>10. ASSUME quiet PROVE SKUIsCurrent'
  <2>1. \A c \in DOMAIN page'.read :
          page'.read[c] = BySKU(c, Rows(orders, money), page.from, page.to, page.shop)
    BY <1>3, <1>5, <1>6, <1>10 DEF SKUIsCurrent
  <2>2. QED
    BY <1>6, <1>7, <2>1 DEF SKUIsCurrent
<1>11. QED
  BY <1>1, <1>3, <1>6, <1>7, <1>9, <1>10 DEF PageHolds, SKUIsRead

LEMMA ReadDashboardHolds ==
  ASSUME IInv, ReadDashboard
  PROVE  PageHolds'
<1>1. PageHolds /\ TablesHold
  BY DEF IInv
<1>2. page.kind = "dashboard" /\ page.next \in 1..3
  BY <1>1 DEF ReadDashboard, Reading, Statements, PageHolds, DashboardIsRead
<1>3. DashboardIsRead /\ (quiet => DashboardIsCurrent)
  BY <1>1, <1>2 DEF PageHolds
<1>4. {"kind", "next", "read", "from", "to"} \subseteq DOMAIN page
  BY <1>3 DEF DashboardIsRead
<1>5. ASSUME NEW answer, Answered(answer)
      PROVE  /\ DOMAIN page' = DOMAIN page /\ page'.next = page.next + 1
             /\ page'.kind = "dashboard" /\ page'.filter = page.filter
             /\ page'.period = page.period /\ page'.from = page.from /\ page'.to = page.to
             /\ DOMAIN page'.read = DOMAIN page.read \cup DOMAIN answer
             /\ \A c \in DOMAIN answer : page'.read[c] = answer[c]
             /\ \A c \in DOMAIN page.read \ DOMAIN answer : page'.read[c] = page.read[c]
             /\ UNCHANGED <<today, orders, quiet>>
  <2>1. /\ DOMAIN page' = DOMAIN page /\ page'.next = page.next + 1
        /\ \A field \in DOMAIN page \ {"next", "read"} : page'[field] = page[field]
        /\ DOMAIN page'.read = DOMAIN page.read \cup DOMAIN answer
        /\ \A c \in DOMAIN answer : page'.read[c] = answer[c]
        /\ \A c \in DOMAIN page.read \ DOMAIN answer : page'.read[c] = page.read[c]
        /\ UNCHANGED <<today, orders, money, quiet>>
    BY <1>4, <1>5, AnswerIsAdded
  <2>2. QED
    BY <1>2, <1>3, <2>1 DEF DashboardIsRead
<1>6. ASSUME DashboardIsRead', quiet => DashboardIsCurrent', page'.kind = "dashboard",
             today' = today, quiet' = quiet
      PROVE  PageHolds'
  BY <1>1, <1>6 DEF PageHolds, DashboardIsRead
<1>7. CASE page.next = 1 /\ Answered([rows |-> DailySKUs(orders, page.from, page.to, page.filter)])
  <2> DEFINE answer == [rows |-> DailySKUs(orders, page.from, page.to, page.filter)]
  <2>1. /\ DOMAIN answer = {"rows"}
        /\ answer["rows"] = DailySKUs(orders, page.from, page.to, page.filter)
    OBVIOUS
  <2>2. IsTally(answer["rows"])
    BY <1>1, <2>1, SKUsAreTallied
  <2> HIDE DEF answer
  <2>3. /\ DOMAIN page' = DOMAIN page /\ page'.next = 2
        /\ page'.kind = "dashboard" /\ page'.filter = page.filter
        /\ page'.period = page.period /\ page'.from = page.from /\ page'.to = page.to
        /\ "rows" \in DOMAIN page'.read /\ page'.read["rows"] = answer["rows"]
        /\ UNCHANGED <<today, orders, quiet>>
    BY <1>5, <1>7, <2>1 DEF answer
  <2>4. DashboardIsRead'
    BY <1>3, <2>2, <2>3 DEF DashboardIsRead
  <2>5. DashboardIsCurrent'
    BY <2>1, <2>3 DEF DashboardIsCurrent
  <2>6. QED
    BY <1>6, <2>3, <2>4, <2>5
<1>8. CASE page.next = 2 /\ Answered([totals |-> DailyTotals(orders, page.from, page.to, page.filter)])
  <2> DEFINE answer == [totals |-> DailyTotals(orders, page.from, page.to, page.filter)]
  <2>1. /\ DOMAIN answer = {"totals"}
        /\ answer["totals"] = DailyTotals(orders, page.from, page.to, page.filter)
    OBVIOUS
  <2> HIDE DEF answer
  <2>2. "rows" \in DOMAIN page.read \ DOMAIN answer
    BY <1>3, <1>8, <2>1 DEF DashboardIsRead
  <2>3. /\ DOMAIN page' = DOMAIN page /\ page'.next = 3
        /\ page'.kind = "dashboard" /\ page'.filter = page.filter
        /\ page'.period = page.period /\ page'.from = page.from /\ page'.to = page.to
        /\ "rows" \in DOMAIN page'.read /\ page'.read["rows"] = page.read["rows"]
        /\ "totals" \in DOMAIN page'.read /\ page'.read["totals"] = answer["totals"]
        /\ UNCHANGED <<today, orders, quiet>>
    BY <1>5, <1>8, <2>1, <2>2 DEF answer
  <2>4. DashboardIsRead'
    BY <1>3, <1>8, <2>3 DEF DashboardIsRead
  <2>5. quiet => DashboardIsCurrent'
    BY <1>3, <1>8, <2>1, <2>3 DEF DashboardIsCurrent
  <2>6. QED
    BY <1>6, <2>3, <2>4, <2>5
<1>9. CASE page.next = 3 /\ Answered([stock |-> StockRows(stock, page.filter)])
  <2> DEFINE answer == [stock |-> StockRows(stock, page.filter)]
  <2>1. DOMAIN answer = {"stock"}
    OBVIOUS
  <2> HIDE DEF answer
  <2>2. {"rows", "totals"} \subseteq DOMAIN page.read \ DOMAIN answer
    BY <1>3, <1>9, <2>1 DEF DashboardIsRead
  <2>3. /\ DOMAIN page' = DOMAIN page /\ page'.next = 4
        /\ page'.kind = "dashboard" /\ page'.filter = page.filter
        /\ page'.period = page.period /\ page'.from = page.from /\ page'.to = page.to
        /\ "rows" \in DOMAIN page'.read /\ page'.read["rows"] = page.read["rows"]
        /\ "totals" \in DOMAIN page'.read /\ page'.read["totals"] = page.read["totals"]
        /\ UNCHANGED <<today, orders, quiet>>
    BY <1>5, <1>9, <2>1, <2>2 DEF answer
  <2>4. DashboardIsRead'
    BY <1>3, <1>9, <2>3 DEF DashboardIsRead
  <2>5. quiet => DashboardIsCurrent'
    BY <1>3, <1>9, <2>3 DEF DashboardIsCurrent
  <2>6. QED
    BY <1>6, <2>3, <2>4, <2>5
<1>10. QED
  BY <1>7, <1>8, <1>9 DEF ReadDashboard

LEMMA PageStep ==
  ASSUME IInv, [Next]_vars
  PROVE  PageHolds'
<1>0. PageHolds
  BY DEF IInv
<1>1. CASE UNCHANGED <<today, page>> /\ quiet' = FALSE
  BY <1>0, <1>1 DEF PageHolds, ProfitIsRead, SKUIsRead, DashboardIsRead
<1>2. CASE StoreOrder \/ Import \/ ReplaceStock
  BY <1>1, <1>2 DEF StoreOrder, Import, ReplaceStock, Commits
<1>3. CASE BeginProfit
  BY <1>3, BeginProfitHolds
<1>4. CASE BeginSKU
  BY <1>0, <1>4, BeginSKUHolds
<1>5. CASE BeginDashboard
  BY <1>0, <1>5, BeginDashboardHolds
<1>6. CASE ReadProfit
  BY <1>6, ReadProfitHolds
<1>7. CASE ReadSKU
  BY <1>7, ReadSKUHolds
<1>8. CASE ReadDashboard
  BY <1>8, ReadDashboardHolds
<1>9. CASE Fail
  BY <1>0, <1>9 DEF Fail, PageHolds, NoPage
<1>10. CASE UNCHANGED vars
  BY <1>0, <1>10 DEF vars, PageHolds, ProfitIsRead, ProfitIsCurrent, SKUIsRead, SKUIsCurrent,
    DashboardIsRead, DashboardIsCurrent
<1>11. QED
  BY <1>2, <1>3, <1>4, <1>5, <1>6, <1>7, <1>8, <1>9, <1>10 DEF Next

\* What is stored follows the source; a page has the answers of the statements
\* before the next, and an undisturbed page those that the tables still give.
THEOREM PagesHold == Spec => []IInv
<1>1. Init => IInv
  BY TablesInit, SaidInit, PageInit DEF IInv
<1>2. IInv /\ [Next]_vars => IInv'
  BY TablesStep, SaidStep, PageStep DEF IInv
<1>3. QED
  BY <1>1, <1>2, PTL DEF Spec

----------------------------------------------------------------------------
(* The profit page *)

LEMMA BuiltProfitIsRead ==
  ASSUME IInv, Built("profit")
  PROVE  /\ DOMAIN page.read = DailyColumns
         /\ \A c \in DailyColumns : IsAnswer(page.read[c])
         /\ page.from \in Int /\ page.to \in Int /\ today \in Int /\ page.to = today + 1
         /\ RowsHold(Rows(orders, money))
         /\ quiet => ProfitIsCurrent
<1>1. page.kind = "profit" /\ page.next > 10
  BY DEF Built, Statements, DailyStatements
<1>2. ProfitIsRead /\ today \in Int /\ (quiet => ProfitIsCurrent)
  BY <1>1 DEF IInv, PageHolds
<1>3. page.next - 1 = 10
  BY <1>1, <1>2 DEF ProfitIsRead
<1>4. DOMAIN page.read = DailyColumns
  BY <1>2, <1>3, DailyColumnsAre DEF ProfitIsRead, DailyColumns, Range
<1>5. QED
  BY <1>2, <1>4, RowsOfTables DEF IInv, ProfitIsRead

\* The rows of a page add up to its totals, whatever the answers are.
LEMMA RowsAddUp ==
  ASSUME NEW period, NEW from \in Int, NEW to \in Int, NEW read, NEW c \in DailyColumns,
         IsAnswer(read[c]), NEW view, view = DailyPage(period, from, to, read)
  PROVE  view.totals[c] = SumFunction([b \in DOMAIN view.rows |-> view.rows[b][c]])
<1> DEFINE buckets == PageBuckets(period, from, to)
           days == DOMAIN read[c]
           key == [d \in days |-> BucketStart(period, d)]
           f == read[c]
<1>1. IsFiniteSet(buckets) /\ IsFiniteSet(days) /\ \A d \in days : f[d] \in Int
  BY PageBucketsHoldTheirDays DEF IsAnswer
<1>2. SumFunctionOnSet(f, {d \in days : key[d] \in buckets})
        = SumFunction([b \in buckets |-> SumFunctionOnSet(f, {d \in days : key[d] = b})])
  <2> HIDE DEF f, days, key, buckets
  <2>1. QED
    BY <1>1, SumPartition
<1>3. /\ DOMAIN view.rows = buckets
      /\ \A b \in buckets : view.rows[b][c]
           = SumFunctionOnSet(f, {d \in days : BucketStart(period, d) = b})
      /\ view.totals[c] = SumFunctionOnSet(f, {d \in days : BucketStart(period, d) \in buckets})
  BY DEF DailyPage
<1>4. {d \in days : key[d] \in buckets} = {d \in days : BucketStart(period, d) \in buckets}
  OBVIOUS
<1>5. \A b \in buckets : {d \in days : key[d] = b} = {d \in days : BucketStart(period, d) = b}
  OBVIOUS
<1>6. [b \in DOMAIN view.rows |-> view.rows[b][c]]
        = [b \in buckets |-> SumFunctionOnSet(f, {d \in days : key[d] = b})]
  <2> HIDE DEF f, days, key, buckets
  <2>1. QED
    BY <1>3, <1>5
<1>7. QED
  <2> HIDE DEF f, days, key, buckets
  <2>1. QED
    BY <1>2, <1>3, <1>4, <1>6

Shown(answer, period, from, to) ==
  {d \in DOMAIN answer : BucketStart(period, d) \in PageBuckets(period, from, to)}

\* What an answer adds to the totals of a page are the rows its column hits.
LEMMA HitsAreShown ==
  ASSUME NEW c \in DailyColumns, NEW rows, RowsHold(rows),
         NEW from \in Int, NEW to \in Int, NEW shop, NEW period
  PROVE  SumFunctionOnSet(Daily(c, rows, from, to, shop),
                          Shown(Daily(c, rows, from, to, shop), period, from, to))
           = SumOf(c, Hits(c, rows, from, to, shop))
<1> DEFINE daily == Daily(c, rows, from, to, shop)
           hits == Hits(c, rows, from, to, shop)
           shown == Shown(daily, period, from, to)
           span == from..to - 1
<1>1. shown = DOMAIN daily \cap span
  <2>1. DOMAIN daily \subseteq span
    BY DailyIsTyped
  <2>2. \A d \in span : BucketStart(period, d) \in PageBuckets(period, from, to)
    BY PageBucketsHoldTheirDays
  <2> HIDE DEF daily, span
  <2>3. QED
    BY <2>1, <2>2 DEF Shown
<1>2. On(hits, span) = hits
  <2>1. \A r \in hits : DateOf(r.at) \in span
    BY HitsAreDated
  <2> HIDE DEF hits, span
  <2>2. QED
    BY <2>1 DEF On
<1>3. SumFunctionOnSet(daily, DOMAIN daily \cap span) = SumOf(c, On(hits, span))
  <2> HIDE DEF span
  <2>1. QED
    BY DailyAddsUp
<1>4. SumFunctionOnSet(daily, shown) = SumOf(c, hits)
  <2> HIDE DEF daily, hits, shown, span
  <2>1. QED
    BY <1>1, <1>2, <1>3
<1>5. QED
  BY <1>4

LEMMA TotalsAreHit ==
  ASSUME IInv, Built("profit"), quiet, NEW period, NEW c \in DailyColumns
  PROVE  Profit(period).totals[c]
           = SumOf(c, Hits(c, Rows(orders, money), page.from, page.to, page.shop))
<1>1. /\ page.from \in Int /\ page.to \in Int
      /\ RowsHold(Rows(orders, money)) /\ ProfitIsCurrent /\ c \in DOMAIN page.read
  BY BuiltProfitIsRead
<1> DEFINE view == Profit(period)
           daily == Daily(c, Rows(orders, money), page.from, page.to, page.shop)
           shown == Shown(daily, period, page.from, page.to)
<1>2. view.totals[c] = SumFunctionOnSet(daily, shown)
  <2>1. page.read[c] = daily
    BY <1>1 DEF ProfitIsCurrent
  <2>2. view = DailyPage(period, page.from, page.to, page.read)
    BY DEF Profit
  <2> HIDE DEF daily, view
  <2>3. QED
    BY <2>1, <2>2 DEF DailyPage, Shown
<1>3. SumFunctionOnSet(daily, shown)
        = SumOf(c, Hits(c, Rows(orders, money), page.from, page.to, page.shop))
  BY <1>1, HitsAreShown
<1>4. QED
  BY <1>2, <1>3

\* profitDailySummary: by day, by week and by month the rows add up to the same
\* totals, and the totals of an undisturbed page have every row that is dated up
\* to today, however old and from whichever table, and nothing twice.
THEOREM DatedRowsAreShown == Spec => []EveryDatedRowIsShown
<1>1. ASSUME IInv PROVE EveryDatedRowIsShown
  <2>1. SUFFICES ASSUME Built("profit"), NEW period \in Period, NEW c \in DailyColumns
                 PROVE  LET view  == Profit(period)
                            dated == {r \in Rows(orders, money) :
                                        /\ r.source \in DOMAIN Column[c] /\ r.at # NoTime
                                        /\ DateOf(r.at) <= today
                                        /\ page.shop \in {Everywhere, r.shop}}
                        IN  /\ view.totals[c]
                                 = SumFunction([b \in DOMAIN view.rows |-> view.rows[b][c]])
                            /\ quiet => view.totals[c] = SumOf(c, dated)
    BY DEF EveryDatedRowIsShown
  <2>2. /\ IsAnswer(page.read[c]) /\ c \in DOMAIN page.read
        /\ page.from \in Int /\ page.to \in Int /\ today \in Int /\ page.to = today + 1
        /\ RowsHold(Rows(orders, money)) /\ (quiet => ProfitIsCurrent)
    BY <1>1, <2>1, BuiltProfitIsRead
  <2> DEFINE view == Profit(period)
  <2>6. view = DailyPage(period, page.from, page.to, page.read)
    BY DEF Profit
  <2> HIDE DEF view
  <2>3. view.totals[c] = SumFunction([b \in DOMAIN view.rows |-> view.rows[b][c]])
    BY <2>2, <2>6, RowsAddUp
  <2>4. ASSUME quiet
        PROVE  view.totals[c]
                 = SumOf(c, {r \in Rows(orders, money) :
                               /\ r.source \in DOMAIN Column[c] /\ r.at # NoTime
                               /\ DateOf(r.at) <= today
                               /\ page.shop \in {Everywhere, r.shop}})
    <3>1. page.from = RangeStart(Rows(orders, money), page.shop, today)
      BY <2>2, <2>4 DEF ProfitIsCurrent
    <3>2. view.totals[c] = SumOf(c, Hits(c, Rows(orders, money), page.from, page.to, page.shop))
      BY <1>1, <2>1, <2>4, TotalsAreHit DEF view
    <3>3. Hits(c, Rows(orders, money), page.from, page.to, page.shop)
            = {r \in Rows(orders, money) :
                 /\ r.source \in DOMAIN Column[c] /\ r.at # NoTime
                 /\ DateOf(r.at) <= today /\ page.shop \in {Everywhere, r.shop}}
      BY <2>2, <3>1, DatedRowsAreHit
    <3>4. QED
      BY <3>2, <3>3
  <2>5. QED
    BY <2>3, <2>4 DEF view
<1>2. QED
  BY <1>1, PagesHold, PTL

\* Every row of the page, and its totals, are what the columns hit on some days.
IsRowOf(row, rows, from, to, shop, days) ==
  \A c \in DailyColumns : row[c] = SumOf(c, On(Hits(c, rows, from, to, shop), days))

LEMMA RowsAreOfDays ==
  ASSUME NEW period, NEW from \in Int, NEW to \in Int, NEW shop, NEW rows, RowsHold(rows),
         NEW read, \A c \in DailyColumns : read[c] = Daily(c, rows, from, to, shop),
         NEW view, view = DailyPage(period, from, to, read),
         NEW row \in Range(view.rows) \cup {view.totals}
  PROVE  \E days : IsRowOf(row, rows, from, to, shop, days)
<1> DEFINE span == from..to - 1
<1>1. ASSUME NEW c \in DailyColumns
      PROVE  DOMAIN read[c] \subseteq span
  BY DailyIsTyped
<1>2. ASSUME NEW c \in DailyColumns, NEW days
      PROVE  SumFunctionOnSet(read[c], DOMAIN read[c] \cap days)
               = SumOf(c, On(Hits(c, rows, from, to, shop), days))
  BY DailyAddsUp
<1>3. CASE row = view.totals
  <2>1. ASSUME NEW c \in DailyColumns
        PROVE  row[c] = SumFunctionOnSet(read[c], DOMAIN read[c] \cap span)
    <3>1. row[c] = SumFunctionOnSet(read[c],
                     {d \in DOMAIN read[c] : BucketStart(period, d) \in PageBuckets(period, from, to)})
      BY <1>3 DEF DailyPage
    <3>2. {d \in DOMAIN read[c] : BucketStart(period, d) \in PageBuckets(period, from, to)}
            = DOMAIN read[c] \cap span
      <4>1. \A d \in span : BucketStart(period, d) \in PageBuckets(period, from, to)
        BY PageBucketsHoldTheirDays
      <4> HIDE DEF span
      <4>2. QED
        BY <1>1, <4>1
    <3>3. QED
      BY <3>1, <3>2
  <2> HIDE DEF span
  <2>2. IsRowOf(row, rows, from, to, shop, span)
    BY <1>2, <2>1 DEF IsRowOf
  <2>3. QED
    BY <2>2
<1>4. CASE row \in Range(view.rows)
  <2>1. PICK b \in DOMAIN view.rows : row = view.rows[b]
    BY <1>4 DEF Range
  <2> DEFINE days == {d \in span : BucketStart(period, d) = b}
  <2>2. ASSUME NEW c \in DailyColumns
        PROVE  row[c] = SumFunctionOnSet(read[c], DOMAIN read[c] \cap days)
    <3>1. row[c] = SumFunctionOnSet(read[c], {d \in DOMAIN read[c] : BucketStart(period, d) = b})
      BY <2>1 DEF DailyPage
    <3>2. {d \in DOMAIN read[c] : BucketStart(period, d) = b} = DOMAIN read[c] \cap days
      <4> HIDE DEF span
      <4>1. QED
        BY <1>1
    <3>3. QED
      BY <3>1, <3>2
  <2> HIDE DEF days
  <2>3. IsRowOf(row, rows, from, to, shop, days)
    BY <1>2, <2>2 DEF IsRowOf
  <2>4. QED
    BY <2>3
<1>5. QED
  BY <1>3, <1>4

\* Every fee has one column, which takes of it what the balance takes.
LEMMA FeesHaveOneColumn ==
  /\ FeeColumns \subseteq DailyColumns
  /\ \A s \in DOMAIN Column["feeBalance"] : \E k \in FeeColumns : s \in DOMAIN Column[k]
  /\ \A k \in FeeColumns : \A s \in DOMAIN Column[k] :
       s \in DOMAIN Column["feeBalance"] /\ Column[k][s] = Column["feeBalance"][s]
  /\ \A k1, k2 \in FeeColumns : \A s \in DOMAIN Column[k1] \cap DOMAIN Column[k2] : k1 = k2
<1>1. /\ Column["shipping"] = Taking(Posted, "amount")
      /\ Column["merchantReturns"] = Taking(Merchant, "amount")
      /\ Column["thirdPartyReturns"] = Taking(ThirdParty, "amount")
      /\ Column["platformFees"] = Taking(PlatformFees, "amount")
      /\ Column["delays"] = Taking(Delay, "expense")
      /\ Column["falseShips"] = Taking(FalseShip, "expense")
      /\ Column["buyerBackAmounts"] = Taking(Chargebacks, "expense")
      /\ Column["disposals"] = Taking(Disposals, "expense")
      /\ Column["feeBalance"] = Balance
  BY ColumnIs
<1>2. /\ DOMAIN Balance = Fees
      /\ \A s \in Expenses : Balance[s] = "expense"
      /\ \A s \in FeesAsTheyAre \ Expenses : Balance[s] = "amount"
  BY DEF Balance, Fees
<1>3. \A s \in FeesAsTheyAre : s \notin Expenses
  <2>1. \A s \in Expenses : \/ s[1] = "violation" \/ s[1] = "chargeback" \/ s[1] = "disposal"
    BY SourcesDiffer DEF Expenses
  <2>2. \A s \in FeesAsTheyAre : \/ s[1] = "shipping" \/ s[1] = "return" \/ s[1] = "platform"
    BY SourcesDiffer DEF FeesAsTheyAre
  <2>3. QED
    BY <2>1, <2>2
<1>4. FeeColumns \subseteq DailyColumns
  BY DailyColumnsAre DEF FeeColumns
<1>5. ASSUME NEW s \in DOMAIN Column["feeBalance"]
      PROVE  \E k \in FeeColumns : s \in DOMAIN Column[k]
  BY <1>1, <1>2, <1>5 DEF Fees, FeesAsTheyAre, Expenses, Taking, FeeColumns
<1>6. ASSUME NEW k \in FeeColumns, NEW s \in DOMAIN Column[k]
      PROVE  s \in DOMAIN Column["feeBalance"] /\ Column[k][s] = Column["feeBalance"][s]
  <2>1. CASE k \in {"shipping", "merchantReturns", "thirdPartyReturns", "platformFees"}
    <3>1. s \in FeesAsTheyAre /\ Column[k][s] = "amount"
      BY <1>1, <2>1 DEF Taking, FeesAsTheyAre
    <3>2. QED
      BY <1>1, <1>2, <1>3, <3>1 DEF Fees
  <2>2. CASE k \in {"delays", "falseShips", "buyerBackAmounts", "disposals"}
    <3>1. s \in Expenses /\ Column[k][s] = "expense"
      BY <1>1, <2>2 DEF Taking, Expenses
    <3>2. QED
      BY <1>1, <1>2, <3>1 DEF Fees
  <2>3. QED
    BY <2>1, <2>2 DEF FeeColumns
<1>7. ASSUME NEW k1 \in FeeColumns, NEW k2 \in FeeColumns,
             NEW s \in DOMAIN Column[k1] \cap DOMAIN Column[k2]
      PROVE  k1 = k2
  <2> DEFINE OnlyOf(k) ==
        /\ k = "shipping" => s[1] = "shipping"
        /\ k = "merchantReturns" => s[1] = "return" /\ s[2] = "merchant"
        /\ k = "thirdPartyReturns" => s[1] = "return" /\ s[2] = "third"
        /\ k = "platformFees" => s[1] = "platform"
        /\ k = "delays" => s[1] = "violation" /\ s[2] = "delay"
        /\ k = "falseShips" => s[1] = "violation" /\ s[2] = "false_ship"
        /\ k = "buyerBackAmounts" => s[1] = "chargeback"
        /\ k = "disposals" => s[1] = "disposal"
  <2>1. ASSUME NEW k \in FeeColumns, s \in DOMAIN Column[k] PROVE OnlyOf(k)
    <3>1. /\ k = "shipping" => s \in Posted
          /\ k = "merchantReturns" => s \in Merchant
          /\ k = "thirdPartyReturns" => s \in ThirdParty
          /\ k = "platformFees" => s \in PlatformFees
          /\ k = "delays" => s \in Delay
          /\ k = "falseShips" => s \in FalseShip
          /\ k = "buyerBackAmounts" => s \in Chargebacks
          /\ k = "disposals" => s \in Disposals
      BY <1>1, <2>1 DEF Taking
    <3>2. QED
      BY <3>1, SourcesDiffer
  <2>2. OnlyOf(k1) /\ OnlyOf(k2)
    BY <2>1
  <2>3. QED
    BY <2>2 DEF FeeColumns
<1>8. QED
  BY <1>4, <1>5, <1>6, <1>7

LEMMA FeesAddUp ==
  ASSUME NEW rows, RowsHold(rows), NEW from \in Int, NEW to \in Int, NEW shop, NEW days,
         NEW row, IsRowOf(row, rows, from, to, shop, days)
  PROVE  row["feeBalance"] = SumFunctionOnSet(row, FeeColumns)
<1> DEFINE HitsOf(c) == On(Hits(c, rows, from, to, shop), days)
           hits == HitsOf("feeBalance")
           f == Taken("feeBalance", hits)
           key == [r \in hits |-> CHOOSE k \in FeeColumns : r.source \in DOMAIN Column[k]]
           h == [k \in FeeColumns |-> SumFunctionOnSet(f, {r \in hits : key[r] = k})]
<1>1. ASSUME NEW c \in DailyColumns
      PROVE  /\ IsFiniteSet(HitsOf(c))
             /\ \A r \in HitsOf(c) : IsRow(r) /\ r.source \in DOMAIN Column[c]
  <2> DEFINE all == Hits(c, rows, from, to, shop)
  <2>1. IsFiniteSet(all) /\ \A r \in all : IsRow(r) /\ r.source \in DOMAIN Column[c]
    BY HitsAreDated
  <2> HIDE DEF all
  <2>2. IsFiniteSet(On(all, days)) /\ On(all, days) \subseteq all
    BY <2>1, FS_Subset DEF On
  <2>3. QED
    BY <2>1, <2>2 DEF all
<1>2. "feeBalance" \in DailyColumns
  BY DailyColumnsAre
<1>3. IsFiniteSet(FeeColumns)
  <2> DEFINE names == <<"shipping", "merchantReturns", "thirdPartyReturns", "delays",
                        "falseShips", "buyerBackAmounts", "platformFees", "disposals">>
  <2>1. FeeColumns = {names[i] : i \in 1..8}
    BY DEF FeeColumns
  <2>2. IsFiniteSet(1..8)
    <3>1. 1 \in Int /\ 8 \in Int
      OBVIOUS
    <3>2. QED
      BY ONLY <3>1, FS_Interval
  <2> HIDE DEF names
  <2>3. QED
    BY <2>1, <2>2, ImageIsFinite
<1>4. /\ row["feeBalance"] = SumFunctionOnSet(f, hits)
      /\ \A r \in hits : f[r] \in Int
  <2>1. row["feeBalance"] = SumOf("feeBalance", hits)
    BY <1>2 DEF IsRowOf
  <2>2. IsFiniteSet(hits) /\ \A r \in hits : IsRow(r) /\ r.source \in DOMAIN Column["feeBalance"]
    BY <1>1, <1>2
  <2> HIDE DEF hits
  <2>3. QED
    BY <1>2, <2>1, <2>2, SumOfIs
<1>5. \A r \in hits : key[r] \in FeeColumns /\ r.source \in DOMAIN Column[key[r]]
  <2>1. \A r \in hits : r.source \in DOMAIN Column["feeBalance"]
    BY <1>1, <1>2
  <2> HIDE DEF hits
  <2>2. QED
    BY <2>1, FeesHaveOneColumn
<1>6. SumFunctionOnSet(f, {r \in hits : key[r] \in FeeColumns}) = SumFunction(h)
  <2>1. IsFiniteSet(hits)
    BY <1>1, <1>2
  <2> HIDE DEF hits, f, key
  <2>2. QED
    BY <1>3, <1>4, <2>1, SumPartition
<1>7. {r \in hits : key[r] \in FeeColumns} = hits
  <2> HIDE DEF hits, key
  <2>1. QED
    BY <1>5
<1>8. ASSUME NEW k \in FeeColumns PROVE h[k] = row[k] /\ h[k] \in Int
  <2>1. k \in DailyColumns
    BY FeesHaveOneColumn
  <2>2. \A r : r \in HitsOf(k) <=> r \in hits /\ r.source \in DOMAIN Column[k]
    <3>1. \A s \in DOMAIN Column[k] : s \in DOMAIN Column["feeBalance"]
      BY FeesHaveOneColumn
    <3>2. QED
      BY <3>1 DEF On, Hits
  <2>3. \A r \in hits : key[r] = k <=> r.source \in DOMAIN Column[k]
    <3> HIDE DEF hits, key
    <3>1. QED
      BY <1>5, FeesHaveOneColumn
  <2>4. {r \in hits : key[r] = k} = HitsOf(k)
    <3> HIDE DEF hits, key, HitsOf
    <3>1. QED
      BY <2>2, <2>3
  <2>5. row[k] = SumOf(k, HitsOf(k))
    BY <2>1 DEF IsRowOf
  <2>6. /\ IsFiniteSet(HitsOf(k))
        /\ \A r \in HitsOf(k) : IsRow(r) /\ r.source \in DOMAIN Column[k]
    BY <1>1, <2>1
  <2>7. /\ SumOf(k, HitsOf(k)) = SumFunctionOnSet(Taken(k, HitsOf(k)), HitsOf(k))
        /\ SumOf(k, HitsOf(k)) \in Int
        /\ \A r \in HitsOf(k) : Taken(k, HitsOf(k))[r] \in Int
    <3> HIDE DEF HitsOf
    <3>1. QED
      BY <2>1, <2>6, SumOfIs
  <2>8. \A r \in HitsOf(k) : Taken(k, HitsOf(k))[r] = f[r]
    <3>1. \A r \in HitsOf(k) : Column[k][r.source] = Column["feeBalance"][r.source]
      BY <2>6, FeesHaveOneColumn
    <3>2. \A r \in HitsOf(k) : r \in hits
      BY <2>2
    <3> HIDE DEF HitsOf, hits
    <3>3. QED
      BY <3>1, <3>2 DEF Taken
  <2>9. SumFunctionOnSet(Taken(k, HitsOf(k)), HitsOf(k)) = SumFunctionOnSet(f, HitsOf(k))
    <3> HIDE DEF HitsOf, f
    <3>1. QED
      BY <2>6, <2>7, <2>8, SumSame
  <2> HIDE DEF HitsOf, f, hits, key
  <2>10. QED
    BY <2>4, <2>5, <2>7, <2>9
<1>9. SumFunctionOnSet(h, FeeColumns) = SumFunctionOnSet(row, FeeColumns)
  <2> HIDE DEF h
  <2>1. QED
    BY <1>3, <1>8, SumSame
<1>10. SumFunction(h) = SumFunctionOnSet(h, FeeColumns)
  BY DEF SumFunction
<1>11. QED
  <2> HIDE DEF h, f, hits, key
  <2>1. QED
    BY <1>4, <1>6, <1>7, <1>9, <1>10

\* "Costs and taxes that have no source remain absent" (profit_report.go:217): in
\* every row of an undisturbed page the balance of the fees, which a statement of
\* its own reads, is the sum of the columns that eight others show.
THEOREM BalanceIsExplained == Spec => []FeesExplainTheBalance
<1>1. ASSUME IInv PROVE FeesExplainTheBalance
  <2>1. SUFFICES ASSUME Built("profit"), quiet, NEW period \in Period,
                        NEW row \in Range(Profit(period).rows) \cup {Profit(period).totals}
                 PROVE  PlatformBalance(row) = row.payback + SumFunctionOnSet(row, FeeColumns)
    BY DEF FeesExplainTheBalance
  <2>2. /\ page.from \in Int /\ page.to \in Int /\ DOMAIN page.read = DailyColumns
        /\ RowsHold(Rows(orders, money)) /\ ProfitIsCurrent
    BY <1>1, <2>1, BuiltProfitIsRead
  <2>3. \A c \in DailyColumns :
          page.read[c] = Daily(c, Rows(orders, money), page.from, page.to, page.shop)
    BY <2>2 DEF ProfitIsCurrent
  <2>4. Profit(period) = DailyPage(period, page.from, page.to, page.read)
    BY DEF Profit
  <2>5. PICK days : IsRowOf(row, Rows(orders, money), page.from, page.to, page.shop, days)
    BY <2>1, <2>2, <2>3, <2>4, RowsAreOfDays
  <2>6. row["feeBalance"] = SumFunctionOnSet(row, FeeColumns)
    BY <2>2, <2>5, FeesAddUp
  <2>7. QED
    BY <2>6 DEF PlatformBalance
<1>2. QED
  BY <1>1, PagesHold, PTL

----------------------------------------------------------------------------
(* The forecast *)

LEMMA MaxIs ==
  ASSUME NEW S, S \subseteq Int, NEW m \in S, \A x \in S : x <= m
  PROVE  Max(S) = m
<1>1. \E x \in S : \A y \in S : x >= y
  OBVIOUS
<1>2. Max(S) \in S /\ \A y \in S : Max(S) >= y
  BY <1>1 DEF Max
<1>3. Max(S) \in Int /\ Max(S) >= m /\ Max(S) <= m
  BY <1>2
<1>4. QED
  BY <1>3

LEMMA ClampIs ==
  ASSUME NEW a \in Int, NEW b \in Nat
  PROVE  /\ Min({a, b}) \in {a, b} /\ Min({a, b}) <= a /\ Min({a, b}) <= b
         /\ Max({0, Min({a, b})}) \in Nat
         /\ Max({0, Min({a, b})}) <= b
         /\ a = 0 => Max({0, Min({a, b})}) = 0
         /\ \A r \in Nat : a <= r => Max({0, Min({a, b})}) <= r
<1>1. Min({a, b}) \in {a, b} /\ Min({a, b}) <= a /\ Min({a, b}) <= b
  <2>1. {a, b} \subseteq Int /\ {a, b} # {} /\ IsFiniteSet({a, b})
    <3>1. {a, b} = {a} \cup {b}
      OBVIOUS
    <3>2. IsFiniteSet({a} \cup {b})
      BY FS_Singleton, FS_Union
    <3>3. QED
      BY <3>1, <3>2
  <2>2. QED
    BY <2>1, MinIs
<1> DEFINE m == Min({a, b})
<1>2. m \in Int /\ m <= a /\ m <= b /\ (a = 0 => m = 0)
  BY <1>1
<1> HIDE DEF m
<1>3. CASE m <= 0
  <2>1. Max({0, m}) = 0
    BY <1>2, <1>3, MaxIs
  <2>2. QED
    BY <1>1, <2>1 DEF m
<1>4. CASE m > 0
  <2>1. Max({0, m}) = m
    BY <1>2, <1>4, MaxIs
  <2>2. QED
    BY <1>1, <1>2, <1>4, <2>1 DEF m
<1>5. QED
  BY <1>2, <1>3, <1>4

IsSeries(series) == \A i \in 0..89 : series[i] \in Nat

LEMMA CapIs ==
  ASSUME NEW a \in Nat, NEW b \in Nat, NEW c \in Nat
  PROVE  Max({a, b, c}) \in Nat
<1>1. CASE a >= b /\ a >= c
  BY <1>1, MaxIs
<1>2. CASE b >= a /\ b >= c
  BY <1>2, MaxIs
<1>3. CASE c >= a /\ c >= b
  BY <1>3, MaxIs
<1>4. QED
  BY <1>1, <1>2, <1>3

LEMMA RatesAre ==
  ASSUME NEW series, IsSeries(series)
  PROVE  /\ Cap(series) \in Nat /\ RunRate(series) \in Nat /\ Slope(series) \in Int
         /\ SumUnits(series, LastDays(28)) = 0 => RunRate(series) = 0
         /\ RunRate(series) = 0 => Slope(series) = 0
         /\ SumUnits(series, LastDays(7)) > 0 \/ SumUnits(series, LastDays(28)) > 4
              => RunRate(series) > 7308
<1> DEFINE week == SumFunctionOnSet(series, 83..89)
           month == SumFunctionOnSet(series, 62..89)
           xy == [i \in 62..89 |-> (i - 62) * series[i]]
<1>1. /\ IsFiniteSet(83..89) /\ IsFiniteSet(62..89)
      /\ 83..89 \subseteq 62..89 /\ \A i \in 62..89 : series[i] \in Nat
  <2>1. 83 \in Int /\ 89 \in Int /\ 62 \in Int
    OBVIOUS
  <2>2. IsFiniteSet(83..89) /\ IsFiniteSet(62..89)
    BY ONLY <2>1, FS_Interval
  <2>3. QED
    BY <2>2 DEF IsSeries
<1>2. week \in Nat /\ month \in Nat /\ week <= month
  <2> DEFINE last == 83..89
             all == 62..89
  <2> HIDE DEF last, all
  <2>1. /\ IsFiniteSet(last) /\ IsFiniteSet(all) /\ last \in SUBSET all
        /\ \A i \in all : series[i] \in Nat
    BY <1>1 DEF last, all
  <2>2. /\ SumFunctionOnSet(series, last) \in Nat /\ SumFunctionOnSet(series, all) \in Nat
        /\ SumFunctionOnSet(series, last) <= SumFunctionOnSet(series, all)
    BY <2>1, SumNat, SumGrows
  <2>3. QED
    BY <2>2 DEF last, all
<1>3. month > 0 <=> \E i \in 62..89 : series[i] > 0
  <2> DEFINE all == 62..89
  <2> HIDE DEF all
  <2>1. IsFiniteSet(all) /\ \A i \in all : series[i] \in Nat
    BY <1>1 DEF all
  <2>2. ASSUME NEW i \in all PROVE series[i] <= SumFunctionOnSet(series, all)
    <3>1. SumFunctionOnSet(series, {i}) = series[i]
      BY <2>1, SumSingle
    <3>2. SumFunctionOnSet(series, {i}) <= SumFunctionOnSet(series, all)
      BY <2>1, SumGrows
    <3>3. QED
      BY <3>1, <3>2
  <2>3. (\A i \in all : series[i] = 0) => SumFunctionOnSet(series, all) = 0
    BY <2>1, SumZero
  <2>4. SumFunctionOnSet(series, all) \in Nat
    BY <2>1, SumNat
  <2>5. SumFunctionOnSet(series, all) > 0 <=> \E i \in all : series[i] > 0
    BY <2>1, <2>2, <2>3, <2>4
  <2>6. QED
    BY <2>5 DEF all
<1>4. Average(series, 7) = 20880 * week /\ Average(series, 28) = 5220 * month
  BY DEF Average, SumUnits, LastDays, Unit
<1>5. RunRate(series) = 13572 * week + 1827 * month
  <2> HIDE DEF week, month
  <2>1. (20880 * week) \div 20 = 1044 * week /\ (5220 * month) \div 20 = 261 * month
    BY <1>2
  <2>2. QED
    BY <1>2, <1>4, <2>1 DEF RunRate
<1>6. SumFunction(xy) \in Int /\ (month = 0 => SumFunction(xy) = 0)
  <2> DEFINE all == 62..89
  <2>1. \A i \in all : xy[i] \in Int
    BY <1>1
  <2>2. month = 0 => \A i \in all : xy[i] = 0
    <3>1. ASSUME month = 0, NEW i \in all PROVE xy[i] = 0
      <4>1. series[i] = 0 /\ i - 62 \in Int
        BY <1>1, <1>3, <3>1
      <4>2. QED
        BY <4>1
    <3>2. QED
      BY <3>1
  <2>3. SumFunction(xy) = SumFunctionOnSet(xy, all)
    BY DEF SumFunction
  <2>4. IsFiniteSet(all)
    BY <1>1
  <2> HIDE DEF xy, all, month
  <2>5. SumFunctionOnSet(xy, all) \in Int
    BY <2>1, <2>4, SumInt
  <2>6. month = 0 => SumFunctionOnSet(xy, all) = 0
    BY <2>2, <2>4, SumZero
  <2>7. QED
    BY <2>3, <2>5, <2>6
<1>7. Slope(series) = 40 * (2 * SumFunction(xy) - 27 * month)
  BY DEF Slope, SumUnits, LastDays
<1>8. Cap(series) \in Nat
  <2> HIDE DEF week, month
  <2>1. 3 * (20880 * week) \in Nat /\ 3 * (5220 * month) \in Nat /\ Unit \in Nat
    BY <1>2 DEF Unit
  <2>2. QED
    BY <1>4, <2>1, CapIs DEF Cap
<1>9. SumUnits(series, LastDays(7)) = week /\ SumUnits(series, LastDays(28)) = month
  BY DEF SumUnits, LastDays
<1>10. QED
  <2> HIDE DEF week, month, xy
  <2>1. QED
    BY <1>2, <1>5, <1>6, <1>7, <1>8, <1>9

\* round1 keeps what is not negative, and the order.
LEMMA TenthsAre ==
  ASSUME NEW m \in Nat, NEW n \in Nat
  PROVE  /\ Tenths(m) \in Nat /\ Tenths(0) = 0
         /\ m <= n => Tenths(m) <= Tenths(n)
         /\ m > 7308 => Tenths(m) > 0
<1>1. Unit \div 10 = 14616
  BY DEF Unit
<1>2. \A k \in Nat : Tenths(k) = (2 * k + 14616) \div 29232
  BY <1>1 DEF Tenths, Rounded
<1>3. QED
  BY <1>2

LEMMA DemandIs ==
  ASSUME NEW series, IsSeries(series), NEW day \in Nat
  PROVE  /\ Demand(series, day) \in Nat /\ Demand(series, day) <= Cap(series)
         /\ RunRate(series) = 0 => Demand(series, day) = 0
         /\ Slope(series) <= 0 => Demand(series, day) <= RunRate(series)
<1>1. /\ RunRate(series) + Slope(series) * day \in Int /\ Cap(series) \in Nat
      /\ RunRate(series) = 0 => RunRate(series) + Slope(series) * day = 0
      /\ RunRate(series) \in Nat /\ Slope(series) \in Int
  BY RatesAre
<1>2. Slope(series) <= 0 => RunRate(series) + Slope(series) * day <= RunRate(series)
  <2> DEFINE s == Slope(series)
  <2>1. s \in Int
    BY <1>1
  <2> HIDE DEF s
  <2>2. s <= 0 => s * day <= 0
    BY <2>1
  <2>3. s * day \in Int
    BY <2>1
  <2>4. QED
    BY <1>1, <2>2, <2>3 DEF s
<1> DEFINE a == RunRate(series) + Slope(series) * day
<1>3. Demand(series, day) = Max({0, Min({a, Cap(series)})})
  BY DEF Demand
<1> HIDE DEF a
<1>4. /\ Max({0, Min({a, Cap(series)})}) \in Nat
      /\ Max({0, Min({a, Cap(series)})}) <= Cap(series)
      /\ a = 0 => Max({0, Min({a, Cap(series)})}) = 0
      /\ \A r \in Nat : a <= r => Max({0, Min({a, Cap(series)})}) <= r
  BY <1>1, ClampIs DEF a
<1>5. QED
  BY <1>1, <1>2, <1>3, <1>4 DEF a

LEMMA ForecastIs ==
  ASSUME NEW series, IsSeries(series)
  PROVE  LET forecast == Forecast(series)
         IN  /\ 0 <= forecast.next7 /\ forecast.next7 <= forecast.next30
             /\ forecast.next30 <= Tenths(30 * Cap(series))
             /\ Slope(series) <= 0 => forecast.next30 <= Tenths(30 * RunRate(series))
             /\ SumUnits(series, LastDays(28)) = 0 => forecast.next30 = 0 /\ ~ (forecast.rate > 0)
             /\ SumUnits(series, LastDays(7)) > 0 \/ SumUnits(series, LastDays(28)) > 4
                  => forecast.rate > 0
<1> DEFINE f == [d \in 1..30 |-> Demand(series, d)]
           g == [d \in 1..7 |-> Demand(series, d)]
           days == 1..30
           few == 1..7
           most == IF Slope(series) <= 0 THEN RunRate(series) ELSE Cap(series)
<1>1. /\ Forecast(series).rate = Tenths(RunRate(series))
      /\ Forecast(series).next7 = Tenths(SumFunction(g))
      /\ Forecast(series).next30 = Tenths(SumFunction(f))
  BY DEF Forecast, ForecastSum
<1>2. SumFunction(g) = SumFunctionOnSet(g, few) /\ SumFunction(f) = SumFunctionOnSet(f, days)
  BY DEF SumFunction
<1>3. IsFiniteSet(days) /\ IsFiniteSet(few) /\ few \in SUBSET days
  <2>1. 1 \in Int /\ 7 \in Int /\ 30 \in Int
    OBVIOUS
  <2>2. IsFiniteSet(1..30) /\ IsFiniteSet(1..7)
    BY ONLY <2>1, FS_Interval
  <2>3. QED
    BY <2>2
<1>4. \A d \in days : /\ f[d] \in Nat /\ f[d] \in Int /\ f[d] <= Cap(series)
                      /\ RunRate(series) = 0 => f[d] = 0
                      /\ Slope(series) <= 0 => f[d] <= RunRate(series)
  BY DemandIs
<1>5. \A d \in few : g[d] = f[d] /\ g[d] \in Int
  BY DemandIs
<1>6. Cap(series) \in Nat /\ RunRate(series) \in Nat
  BY RatesAre
<1>7. ASSUME NEW bound \in Nat, \A d \in days : f[d] <= bound
      PROVE  SumFunctionOnSet(f, days) <= 30 * bound
  <2> DEFINE n == 30
  <2> HIDE DEF n, f
  <2>1. days = 1..n /\ n \in Nat
    BY DEF n
  <2>2. SumFunctionOnSet(f, 1..n) <= n * bound
    BY <1>4, <1>7, <2>1, SumBound
  <2>3. QED
    BY <2>2 DEF n
<1> HIDE DEF f, g, days, few
<1>8. SumFunctionOnSet(g, few) = SumFunctionOnSet(f, few)
  BY <1>3, <1>5, SumSame
<1>9. /\ SumFunctionOnSet(f, few) \in Nat /\ SumFunctionOnSet(f, days) \in Nat
      /\ SumFunctionOnSet(f, few) <= SumFunctionOnSet(f, days)
  BY <1>3, <1>4, FS_Subset, SumNat, SumGrows
<1>10. RunRate(series) = 0 => SumFunctionOnSet(f, days) = 0
  BY <1>3, <1>4, SumZero
<1>11. /\ SumFunctionOnSet(f, days) <= 30 * Cap(series)
       /\ Slope(series) <= 0 => SumFunctionOnSet(f, days) <= 30 * RunRate(series)
  BY <1>4, <1>6, <1>7
<1>12. 30 * Cap(series) \in Nat /\ 30 * RunRate(series) \in Nat
  BY <1>6
<1>13. /\ Tenths(SumFunctionOnSet(f, few)) \in Nat
       /\ Tenths(SumFunctionOnSet(f, few)) <= Tenths(SumFunctionOnSet(f, days))
       /\ Tenths(SumFunctionOnSet(f, days)) <= Tenths(30 * Cap(series))
       /\ Slope(series) <= 0 =>
            Tenths(SumFunctionOnSet(f, days)) <= Tenths(30 * RunRate(series))
  BY <1>9, <1>11, <1>12, TenthsAre
<1>14. ASSUME SumUnits(series, LastDays(28)) = 0
       PROVE  Tenths(SumFunctionOnSet(f, days)) = 0 /\ Tenths(RunRate(series)) = 0
  <2>1. RunRate(series) = 0 /\ SumFunctionOnSet(f, days) = 0
    BY <1>10, <1>14, RatesAre
  <2>2. QED
    BY <2>1, TenthsAre
<1>15. ASSUME SumUnits(series, LastDays(7)) > 0 \/ SumUnits(series, LastDays(28)) > 4
       PROVE  Tenths(RunRate(series)) > 0
  <2>1. RunRate(series) > 7308
    BY <1>15, RatesAre
  <2>2. QED
    BY <1>6, <2>1, TenthsAre
<1>16. QED
  BY <1>1, <1>2, <1>8, <1>13, <1>14, <1>15

LEMMA SeriesIs ==
  ASSUME NEW rows, IsTally(rows), NEW day
  PROVE  IsSeries(Series(rows, day))
<1>1. ASSUME NEW i \in 0..89 PROVE Series(rows, day)[i] \in Nat
  <2> DEFINE part == {r \in rows : r.date = ForecastStart(day) + i}
  <2>1. Series(rows, day)[i] = Stored(part)
    BY DEF Series
  <2>2. part \in SUBSET rows
    OBVIOUS
  <2> HIDE DEF part
  <2>3. QED
    BY <2>1, <2>2, PartOfTally, StoredIs
<1>2. QED
  BY <1>1 DEF IsSeries

\* What a built dashboard has of an SKU, of the rows that were read.
LEMMA BuiltDashboardIsRead ==
  ASSUME IInv, Built("dashboard")
  PROVE  /\ DashboardIsRead /\ today \in Int
         /\ page.next = 4 /\ IsTally(page.read.rows)
         /\ quiet => DashboardIsCurrent
<1>1. page.kind = "dashboard" /\ page.next > 3
  BY DEF Built, Statements
<1>2. QED
  BY <1>1 DEF IInv, PageHolds, DashboardIsRead

\* For every history that was read, the forecast of each SKU is within its
\* bounds (forecastDemand).
THEOREM ForecastsAreBounded == Spec => []ForecastIsBounded
<1>1. ASSUME IInv PROVE ForecastIsBounded
  <2>1. SUFFICES ASSUME Built("dashboard"), NEW k \in DOMAIN View.skus
                 PROVE  LET series    == Series(Of(page.read.rows, k), today)
                            forecast  == View.skus[k].forecast
                            week      == SumUnits(series, LastDays(7))
                            fourWeeks == SumUnits(series, LastDays(28))
                        IN  /\ 0 <= forecast.next7 /\ forecast.next7 <= forecast.next30
                            /\ forecast.next30 <= Tenths(30 * Cap(series))
                            /\ Slope(series) <= 0 =>
                                 forecast.next30 <= Tenths(30 * RunRate(series))
                            /\ fourWeeks = 0 =>
                                 forecast.next30 = 0 /\ View.skus[k].cover = {}
                            /\ week > 0 \/ fourWeeks > 4 => View.skus[k].cover # {}
    BY DEF ForecastIsBounded
  <2> DEFINE mine == Of(page.read.rows, k)
  <2>2. /\ View.skus[k].forecast = Forecast(Series(mine, today))
        /\ View.skus[k].cover
             = DaysOfCover(Available(Of(page.read.stock, k)), Forecast(Series(mine, today)).rate)
    BY <2>1 DEF View, Dashboard
  <2>3. IsSeries(Series(mine, today))
    <3>1. IsTally(page.read.rows)
      BY <1>1, <2>1, BuiltDashboardIsRead
    <3>2. mine \in SUBSET page.read.rows
      BY DEF Of
    <3> HIDE DEF mine
    <3>3. QED
      BY <3>1, <3>2, PartOfTally, SeriesIs
  <2> HIDE DEF mine
  <2>4. View.skus[k].cover # {} <=> Forecast(Series(mine, today)).rate > 0
    BY <2>2 DEF DaysOfCover
  <2>5. QED
    BY <2>2, <2>3, <2>4, ForecastIs DEF mine
<1>2. QED
  BY <1>1, PagesHold, PTL

----------------------------------------------------------------------------
(* Units *)

\* The Temu orders that count, in a shop and on some days, and their lines, by
\* order and key, as they are stored.
Counting(from, to, shop) ==
  {o \in DOMAIN orders : /\ OrderKey[o].platform = "temu" /\ orders[o].eligible
                         /\ shop \in {Everywhere, OrderKey[o].shop}
                         /\ DateOf(orders[o].at) \in from..to - 1}

LinesKeyed(from, to, shop) ==
  UNION {{o} \X DOMAIN orders[o].lines : o \in Counting(from, to, shop)}

UnitsOfLine(line, factors) == line.units * (IF factors THEN line.factor ELSE 1)

UnitsKeyed(keyed, factors) ==
  [ok \in keyed |-> UnitsOfLine(orders[ok[1]].lines[ok[2]], factors)]

LEMMA UnitsAreNat ==
  ASSUME NEW line, line.units \in Nat, line.factor \in Nat, NEW factors \in BOOLEAN
  PROVE  UnitsOfLine(line, factors) \in Nat /\ (line.units = 0 => UnitsOfLine(line, factors) = 0)
<1>1. \A m, n \in Nat : m * n \in Nat /\ (m = 0 => m * n = 0)
  OBVIOUS
<1>2. (IF factors THEN line.factor ELSE 1) \in Nat
  OBVIOUS
<1>3. QED
  BY <1>1, <1>2 DEF UnitsOfLine

AreKeyed(keyed, from, to, shop, factors) ==
  /\ IsFiniteSet(keyed)
  /\ \A ok \in keyed : /\ ok = <<ok[1], ok[2]>> /\ ok[1] \in Counting(from, to, shop)
                       /\ ok[2] \in DOMAIN orders[ok[1]].lines
                       /\ IsLine(orders[ok[1]].lines[ok[2]])
                       /\ UnitsKeyed(keyed, factors)[ok] \in Nat
  /\ \A o \in Counting(from, to, shop) : \A k \in DOMAIN orders[o].lines : <<o, k>> \in keyed

LEMMA LinesAreKeyed ==
  ASSUME TablesHold, NEW from, NEW to, NEW shop, NEW factors \in BOOLEAN,
         NEW keyed, keyed = LinesKeyed(from, to, shop)
  PROVE  AreKeyed(keyed, from, to, shop, factors)
<1> DEFINE counting == Counting(from, to, shop)
           pairs == [o \in counting |-> {o} \X DOMAIN orders[o].lines]
<1>1. keyed = UNION {pairs[o] : o \in counting}
  <2>1. \A o \in counting : pairs[o] = {o} \X DOMAIN orders[o].lines
    OBVIOUS
  <2> HIDE DEF pairs, counting
  <2>2. QED
    BY <2>1 DEF LinesKeyed, counting
<1>2. IsFiniteSet(counting) /\ counting \subseteq DOMAIN orders
  BY FS_Subset DEF TablesHold, Counting
<1>3. ASSUME NEW o \in counting PROVE IsFiniteSet(pairs[o])
  <2>1. IsFiniteSet(DOMAIN orders[o].lines) /\ IsFiniteSet({o})
    BY <1>2, FS_Singleton DEF TablesHold, IsOrder
  <2>2. pairs[o] = {o} \X DOMAIN orders[o].lines
    OBVIOUS
  <2>3. QED
    BY <2>1, <2>2, FS_Product
<1>4. IsFiniteSet(keyed)
  <2> HIDE DEF pairs, counting
  <2>1. QED
    BY <1>1, <1>2, <1>3, UnionIsFinite
<1>5. \A ok \in keyed : /\ ok = <<ok[1], ok[2]>> /\ ok[1] \in counting
                        /\ ok[2] \in DOMAIN orders[ok[1]].lines
  BY DEF LinesKeyed
<1>6. \A o \in counting : \A k \in DOMAIN orders[o].lines : <<o, k>> \in keyed
  BY DEF LinesKeyed
<1>7. ASSUME NEW ok \in keyed
      PROVE  IsLine(orders[ok[1]].lines[ok[2]]) /\ UnitsKeyed(keyed, factors)[ok] \in Nat
  <2>1. IsLine(orders[ok[1]].lines[ok[2]])
    BY <1>2, <1>5 DEF TablesHold, IsOrder
  <2>2. UnitsKeyed(keyed, factors)[ok] = UnitsOfLine(orders[ok[1]].lines[ok[2]], factors)
    BY DEF UnitsKeyed
  <2>3. QED
    BY <2>1, <2>2, UnitsAreNat DEF IsLine
<1>8. QED
  <2> HIDE DEF pairs, counting
  <2>1. QED
    BY <1>4, <1>5, <1>6, <1>7 DEF counting, AreKeyed

\* What the source says of its orders is what is stored of them: a line that is
\* stored and that the source no longer has adds nothing.
LEMMA SaidUnitsAreStored ==
  ASSUME TablesHold, SaidHolds, NEW from, NEW to, NEW shop, NEW factors \in BOOLEAN,
         NEW keyed, keyed = LinesKeyed(from, to, shop)
  PROVE  SaidUnits(from, to, shop, factors) = SumFunctionOnSet(UnitsKeyed(keyed, factors), keyed)
<1> DEFINE counting == {o \in DOMAIN said : /\ OrderKey[o].platform = "temu" /\ said[o].eligible
                                            /\ shop \in {Everywhere, OrderKey[o].shop}
                                            /\ DateOf(said[o].at) \in from..to - 1}
           told == UNION {{o} \X DOMAIN said[o].lines : o \in counting}
           f == [ok \in told |-> UnitsOfLine(said[ok[1]].lines[ok[2]], factors)]
           g == UnitsKeyed(keyed, factors)
<1>1. SaidUnits(from, to, shop, factors) = SumFunctionOnSet(f, told)
  BY DEF SaidUnits, SumFunction, UnitsOfLine
<1>2. counting = Counting(from, to, shop)
  BY DEF SaidHolds, Follows, Counting
<1>3. /\ IsFiniteSet(keyed)
      /\ \A ok \in keyed : /\ ok = <<ok[1], ok[2]>> /\ ok[1] \in counting
                           /\ ok[2] \in DOMAIN orders[ok[1]].lines
                           /\ IsLine(orders[ok[1]].lines[ok[2]]) /\ g[ok] \in Nat
      /\ \A o \in counting : \A k \in DOMAIN orders[o].lines : <<o, k>> \in keyed
  <2>1. AreKeyed(keyed, from, to, shop, factors)
    BY LinesAreKeyed
  <2> HIDE DEF counting
  <2>2. QED
    BY <1>2, <2>1 DEF AreKeyed
<1>4. \A o \in counting : Follows(o)
  BY DEF SaidHolds
<1>5. \A ok \in told : /\ ok = <<ok[1], ok[2]>> /\ ok[1] \in counting
                       /\ ok[2] \in DOMAIN said[ok[1]].lines
  <2> HIDE DEF counting
  <2>1. QED
    OBVIOUS
<1>6. \A o \in counting : \A k \in DOMAIN said[o].lines : <<o, k>> \in told
  <2> HIDE DEF counting
  <2>1. QED
    OBVIOUS
<1>11. \A o \in counting : OrderKey[o].platform = "temu"
  OBVIOUS
<1>12. /\ \A ok \in told : f[ok] = UnitsOfLine(said[ok[1]].lines[ok[2]], factors)
       /\ \A ok \in keyed : g[ok] = UnitsOfLine(orders[ok[1]].lines[ok[2]], factors)
  BY DEF UnitsKeyed
<1> HIDE DEF counting, told, f, g
<1>7. told \in SUBSET keyed
  <2>1. SUFFICES ASSUME NEW ok \in told PROVE ok \in keyed
    OBVIOUS
  <2>2. ok[2] \in DOMAIN orders[ok[1]].lines
    BY <1>4, <1>5 DEF Follows
  <2>3. QED
    BY <1>3, <1>5, <2>2
<1>8. \A ok \in told : g[ok] = f[ok]
  BY <1>4, <1>5, <1>7, <1>12 DEF Follows, UnitsOfLine
<1>9. ASSUME NEW ok \in keyed \ told PROVE g[ok] = 0
  <2>1. ok[2] \notin DOMAIN said[ok[1]].lines
    BY <1>3, <1>6
  <2>2. orders[ok[1]].lines[ok[2]].units = 0
    BY <1>3, <1>4, <1>11, <2>1 DEF Follows
  <2>3. IsLine(orders[ok[1]].lines[ok[2]])
    BY <1>3
  <2>4. QED
    BY <1>12, <2>2, <2>3, UnitsAreNat DEF IsLine
<1>10. QED
  <2>1. SumFunctionOnSet(g, keyed) = SumFunctionOnSet(g, told)
    BY <1>3, <1>7, <1>9, SumSupport
  <2>2. IsFiniteSet(told)
    BY <1>3, <1>7, FS_Subset
  <2>3. SumFunctionOnSet(g, told) = SumFunctionOnSet(f, told)
    BY <1>3, <1>7, <1>8, <2>2, SumSame
  <2>4. QED
    BY <1>1, <2>1, <2>3 DEF g

\* The rows of the column of units are the lines of the orders that count.
LEMMA SaleRowsAreLines ==
  ASSUME TablesHold
  PROVE  /\ \A o \in DOMAIN orders : \A k \in DOMAIN orders[o].lines :
              OrderKey[o].platform = "temu" => LineRow(o, orders[o], k) \in Rows(orders, money)
         /\ \A r \in Rows(orders, money) : r.source \in Sale =>
              \E o \in DOMAIN orders : \E k \in DOMAIN orders[o].lines :
                /\ OrderKey[o].platform = "temu" /\ orders[o].eligible
                /\ r = LineRow(o, orders[o], k)
<1> DEFINE temu == {o \in DOMAIN orders : OrderKey[o].platform = "temu"}
           orderRows == {OrderRow(o, orders[o]) : o \in temu}
           lineRows == UNION {{LineRow(o, orders[o], k) : k \in DOMAIN orders[o].lines} : o \in temu}
<1>1. Rows(orders, money) = (orderRows \cup lineRows) \cup MoneyRows(money)
  BY DEF Rows, TemuRows
<1>2. ASSUME NEW o \in DOMAIN orders, NEW k \in DOMAIN orders[o].lines,
             OrderKey[o].platform = "temu"
      PROVE  LineRow(o, orders[o], k) \in Rows(orders, money)
  <2>1. LineRow(o, orders[o], k) \in lineRows
    BY <1>2
  <2> HIDE DEF orderRows, lineRows
  <2>2. QED
    BY <1>1, <2>1
<1>3. ASSUME NEW r \in Rows(orders, money), r.source \in Sale
      PROVE  \E o \in DOMAIN orders : \E k \in DOMAIN orders[o].lines :
                /\ OrderKey[o].platform = "temu" /\ orders[o].eligible
                /\ r = LineRow(o, orders[o], k)
  <2>1. r.source[1] = "line" /\ r.source[2] = "sale"
    BY <1>3, SourcesDiffer
  <2>2. r \notin orderRows
    <3>1. \A o \in temu : OrderRow(o, orders[o]).source[1] = "order"
      BY DEF OrderRow
    <3>2. QED
      BY <2>1, <3>1
  <2>3. r \notin MoneyRows(money)
    <3>1. ASSUME NEW k \in DOMAIN money PROVE r # MoneyRow(k, money[k])
      <4>1. MoneyRow(k, money[k]).source = money[k].source
        BY DEF MoneyRow
      <4>2. money[k].source \in Flows \cup Fees \cup Pending
        BY DEF TablesHold, IsMoney
      <4>3. money[k].source[1] # "line"
        BY <4>2, SourcesDiffer DEF Fees, FeesAsTheyAre, Expenses
      <4>4. QED
        BY <2>1, <4>1, <4>3
    <3>2. QED
      BY <3>1 DEF MoneyRows
  <2>4. r \in lineRows
    <3> HIDE DEF orderRows, lineRows
    <3>1. QED
      BY <1>1, <2>2, <2>3
  <2>5. PICK o \in temu : r \in {LineRow(o, orders[o], k) : k \in DOMAIN orders[o].lines}
    BY <2>4
  <2>6. PICK k \in DOMAIN orders[o].lines : r = LineRow(o, orders[o], k)
    BY <2>5
  <2>7. r.source[2] = OrderKind(orders[o])
    BY <2>6 DEF LineRow
  <2>8. orders[o].eligible
    BY <2>1, <2>7 DEF OrderKind
  <2>9. QED
    BY <2>6, <2>8
<1>4. QED
  BY <1>2, <1>3

RowKeyed(keyed) == [ok \in keyed |-> LineRow(ok[1], orders[ok[1]], ok[2])]

LEMMA UnitsAreHit ==
  ASSUME TablesHold, NEW from \in Int, NEW to \in Int, NEW shop
  PROVE  SumOf("units", Hits("units", Rows(orders, money), from, to, shop))
           = SumFunctionOnSet(UnitsKeyed(LinesKeyed(from, to, shop), FALSE),
                              LinesKeyed(from, to, shop))
<1> DEFINE keyed == LinesKeyed(from, to, shop)
           rows == Rows(orders, money)
           hits == Hits("units", rows, from, to, shop)
           f == UnitsKeyed(keyed, FALSE)
           g == Taken("units", hits)
           row == RowKeyed(keyed)
<1>1. AreKeyed(keyed, from, to, shop, FALSE)
  BY LinesAreKeyed
<1>2. RowsHold(rows)
  BY RowsOfTables
<1>3. DOMAIN Column["units"] = Sale /\ \A s \in Sale : Column["units"][s] = "amount"
  <2>1. Column["units"] = Taking(Sale, "amount")
    BY ColumnIs
  <2>2. QED
    BY <2>1 DEF Taking
<1>4. "units" \in DailyColumns
  BY DailyColumnsAre
<1>5. IsFiniteSet(hits) /\ \A r \in hits : IsRow(r) /\ r.source \in DOMAIN Column["units"]
  BY <1>2, HitsAreDated
<1>6. ASSUME NEW ok \in keyed
      PROVE  /\ row[ok] = LineRow(ok[1], orders[ok[1]], ok[2])
             /\ row[ok].id = ok /\ row[ok].source \in Sale
             /\ row[ok].amount = f[ok] /\ f[ok] \in Int /\ row[ok] \in hits
  <2> DEFINE o == ok[1]
             k == ok[2]
  <2>1. /\ ok = <<o, k>> /\ o \in Counting(from, to, shop) /\ k \in DOMAIN orders[o].lines
        /\ IsLine(orders[o].lines[k]) /\ f[ok] \in Nat
    BY <1>1 DEF AreKeyed
  <2>2. row[ok] = LineRow(o, orders[o], k)
    BY DEF RowKeyed
  <2>3. f[ok] = orders[o].lines[k].units * 1
    BY DEF UnitsKeyed, UnitsOfLine
  <2> HIDE DEF keyed, f, row, o, k
  <2>4. /\ o \in DOMAIN orders /\ OrderKey[o].platform = "temu" /\ orders[o].eligible
        /\ shop \in {Everywhere, OrderKey[o].shop} /\ DateOf(orders[o].at) \in from..to - 1
    BY <2>1 DEF Counting
  <2>5. row[ok].id = ok /\ row[ok].source = <<"line", "sale">>
        /\ row[ok].amount = orders[o].lines[k].units /\ row[ok].at = orders[o].at
        /\ row[ok].shop = OrderKey[o].shop
    BY <2>1, <2>2, <2>4 DEF LineRow, OrderKind
  <2>6. row[ok] \in rows
    BY <2>1, <2>2, <2>4, SaleRowsAreLines
  <2>7. orders[o].at \in Int
    BY <2>4 DEF TablesHold, IsOrder
  <2>8. orders[o].at # NoTime
    BY <2>7, CalendarAssumption
  <2>9. orders[o].at >= Midnight(from) /\ orders[o].at < Midnight(to)
    BY <2>4, <2>7, DatesAreDays
  <2>10. row[ok] \in hits
    <3>1. row[ok].source \in DOMAIN Column["units"]
      BY <1>3, <2>5 DEF Sale
    <3> HIDE DEF rows
    <3>2. QED
      BY <2>4, <2>5, <2>6, <2>8, <2>9, <3>1 DEF Hits
  <2>11. orders[o].lines[k].units \in Nat
    BY <2>1 DEF IsLine
  <2>12. QED
    <3> HIDE DEF hits, rows
    <3>1. QED
      BY <2>2, <2>3, <2>5, <2>10, <2>11 DEF Sale, o, k
<1>7. ASSUME NEW r \in hits PROVE \E ok \in keyed : row[ok] = r
  <2>1. /\ r \in rows /\ r.source \in Sale /\ r.at \in Int /\ shop \in {Everywhere, r.shop}
        /\ DateOf(r.at) \in from..to - 1
    <3>1. /\ r \in rows /\ r.source \in DOMAIN Column["units"] /\ shop \in {Everywhere, r.shop}
      BY DEF Hits
    <3>2. r.at \in Int /\ DateOf(r.at) \in from..to - 1
      BY <1>2, HitsAreDated
    <3>3. QED
      BY <1>3, <3>1, <3>2
  <2>2. PICK o \in DOMAIN orders : \E k \in DOMAIN orders[o].lines :
                /\ OrderKey[o].platform = "temu" /\ orders[o].eligible
                /\ r = LineRow(o, orders[o], k)
    BY <2>1, SaleRowsAreLines
  <2>3. PICK k \in DOMAIN orders[o].lines :
                /\ OrderKey[o].platform = "temu" /\ orders[o].eligible
                /\ r = LineRow(o, orders[o], k)
    BY <2>2
  <2>4. r.at = orders[o].at /\ r.shop = OrderKey[o].shop
    BY <2>3 DEF LineRow
  <2>5. o \in Counting(from, to, shop)
    BY <2>1, <2>3, <2>4 DEF Counting
  <2>6. <<o, k>> \in keyed
    BY <1>1, <2>5 DEF AreKeyed
  <2>7. row[<<o, k>>] = r
    BY <2>3, <2>6 DEF RowKeyed
  <2>8. QED
    BY <2>6, <2>7
<1>8. ASSUME NEW ok \in keyed PROVE g[row[ok]] = f[ok]
  <2>1. row[ok] \in hits /\ row[ok].source \in Sale /\ row[ok].amount = f[ok]
    BY <1>6
  <2>2. g[row[ok]] = Value(Column["units"][row[ok].source], row[ok])
    BY <2>1 DEF Taken
  <2>3. Column["units"][row[ok].source] = "amount"
    BY <1>3, <2>1
  <2>4. QED
    BY <2>1, <2>2, <2>3 DEF Value
<1>9. IsFiniteSet(keyed)
  BY <1>1 DEF AreKeyed
<1> HIDE DEF keyed, f, g, row, rows, hits
<1>10. \A ok1 \in keyed, ok2 \in keyed : row[ok1] = row[ok2] => ok1 = ok2
  <2>1. SUFFICES ASSUME NEW ok1 \in keyed, NEW ok2 \in keyed, row[ok1] = row[ok2]
                 PROVE  ok1 = ok2
    OBVIOUS
  <2>2. row[ok1].id = ok1 /\ row[ok2].id = ok2
    BY <1>6
  <2>3. QED
    BY <2>1, <2>2
<1>11. SumFunctionOnSet(f, keyed) = SumFunctionOnSet(g, hits)
  <2>1. \A ok \in keyed : f[ok] \in Int /\ row[ok] \in hits /\ g[row[ok]] = f[ok]
    BY <1>6, <1>8
  <2>2. \A r \in hits : \E ok \in keyed : row[ok] = r
    BY <1>7
  <2>3. IsFiniteSet(hits)
    BY <1>5
  <2>4. QED
    BY ONLY <1>9, <1>10, <2>1, <2>2, <2>3, SumReindex
<1>12. SumOf("units", hits) = SumFunctionOnSet(g, hits)
  BY <1>4, <1>5, SumOfIs DEF g
<1>13. QED
  BY <1>11, <1>12 DEF f, keyed, hits, rows

LEMMA ProfitPageSells ==
  ASSUME IInv, Built("profit"), quiet
  PROVE  Profit("day").totals.units = SaidUnits(page.from, page.to, page.shop, FALSE)
<1>1. /\ page.from \in Int /\ page.to \in Int /\ TablesHold /\ SaidHolds
  BY BuiltProfitIsRead DEF IInv
<1>2. "units" \in DailyColumns
  BY DailyColumnsAre
<1>3. Profit("day").totals["units"]
        = SumOf("units", Hits("units", Rows(orders, money), page.from, page.to, page.shop))
  BY <1>2, TotalsAreHit
<1> DEFINE keyed == LinesKeyed(page.from, page.to, page.shop)
<1>4. SumOf("units", Hits("units", Rows(orders, money), page.from, page.to, page.shop))
        = SumFunctionOnSet(UnitsKeyed(keyed, FALSE), keyed)
  BY <1>1, UnitsAreHit
<1>5. SaidUnits(page.from, page.to, page.shop, FALSE)
        = SumFunctionOnSet(UnitsKeyed(keyed, FALSE), keyed)
  BY <1>1, SaidUnitsAreStored
<1>6. QED
  BY <1>3, <1>4, <1>5

\* The units of an SKU are those of its lines.
SKUsOf(rows) == {r.sku : r \in rows}
OfSKU(rows, k) == {r \in rows : r.sku = k}

LEMMA BySKUIs ==
  ASSUME NEW c, NEW rows, RowsHold(rows), NEW from \in Int, NEW to \in Int, NEW shop
  PROVE  /\ IsFiniteSet(DOMAIN BySKU(c, rows, from, to, shop))
         /\ DOMAIN Column[c] = Sale =>
              BySKU(c, rows, from, to, shop)
                = [k \in SKUsOf(Hits(c, rows, from, to, shop)) |->
                    SumOf(c, OfSKU(Hits(c, rows, from, to, shop), k))]
<1> DEFINE hits == Hits(c, rows, from, to, shop)
           kept == {r \in hits : r.source \in Flows => r.sku # ""}
           sku == [r \in kept |-> r.sku]
<1>1. IsFiniteSet(kept)
  <2>1. IsFiniteSet(hits)
    BY HitsAreDated
  <2> HIDE DEF hits
  <2>2. QED
    BY <2>1, FS_Subset
<1>2. DOMAIN BySKU(c, rows, from, to, shop) = {sku[r] : r \in kept}
  BY DEF BySKU
<1>3. IsFiniteSet({sku[r] : r \in kept})
  <2> HIDE DEF sku, kept
  <2>1. QED
    BY <1>1, ImageIsFinite
<1>4. ASSUME DOMAIN Column[c] = Sale
      PROVE  BySKU(c, rows, from, to, shop) = [k \in SKUsOf(hits) |-> SumOf(c, OfSKU(hits, k))]
  <2>1. kept = hits
    <3>1. \A r \in hits : r.source \in Sale
      BY <1>4 DEF Hits
    <3>2. \A s \in Sale : s \notin Flows
      BY SourcesDiffer
    <3> HIDE DEF hits
    <3>3. QED
      BY <3>1, <3>2
  <2>2. BySKU(c, rows, from, to, shop)
          = [k \in {r.sku : r \in kept} |-> SumOf(c, {r \in kept : r.sku = k})]
    BY DEF BySKU
  <2> HIDE DEF kept, hits
  <2>3. QED
    BY <2>1, <2>2 DEF SKUsOf, OfSKU
<1>5. QED
  BY <1>2, <1>3, <1>4

LEMMA SKUsAddUp ==
  ASSUME NEW c \in DailyColumns, DOMAIN Column[c] = Sale, NEW rows, RowsHold(rows),
         NEW from \in Int, NEW to \in Int, NEW shop
  PROVE  /\ SumFunction(BySKU(c, rows, from, to, shop)) = SumOf(c, Hits(c, rows, from, to, shop))
         /\ \A k \in DOMAIN BySKU(c, rows, from, to, shop) : BySKU(c, rows, from, to, shop)[k] \in Int
<1> DEFINE hits == Hits(c, rows, from, to, shop)
           answer == BySKU(c, rows, from, to, shop)
           K == SKUsOf(hits)
           sku == [r \in hits |-> r.sku]
           f == Taken(c, hits)
           h == [k \in K |-> SumFunctionOnSet(f, {r \in hits : sku[r] = k})]
<1>1. /\ IsFiniteSet(DOMAIN answer)
      /\ answer = [k \in K |-> SumOf(c, OfSKU(hits, k))]
  BY BySKUIs
<1>2. IsFiniteSet(hits) /\ \A r \in hits : IsRow(r) /\ r.source \in DOMAIN Column[c]
  BY HitsAreDated
<1>3. /\ \A r \in hits : f[r] \in Int
      /\ \A part \in SUBSET hits : /\ SumOf(c, part) = SumFunctionOnSet(f, part)
                                   /\ SumOf(c, part) \in Int
  <2> HIDE DEF hits
  <2>1. QED
    BY <1>2, SumOfIs
<1>4. IsFiniteSet(K) /\ DOMAIN answer = K
  <2> HIDE DEF K, hits, answer
  <2>1. DOMAIN answer = K
    BY <1>1
  <2>2. QED
    BY <1>1, <2>1
<1>5. \A k \in K : OfSKU(hits, k) = {r \in hits : sku[r] = k}
  <2> HIDE DEF hits
  <2>1. QED
    BY DEF OfSKU
<1>6. \A k \in K : answer[k] = h[k] /\ answer[k] \in Int
  <2>1. SUFFICES ASSUME NEW k \in K PROVE answer[k] = h[k] /\ answer[k] \in Int
    OBVIOUS
  <2>2. OfSKU(hits, k) \in SUBSET hits
    BY DEF OfSKU
  <2>3. h[k] = SumFunctionOnSet(f, {r \in hits : sku[r] = k})
    OBVIOUS
  <2> HIDE DEF K, hits, answer, f, h, sku
  <2>4. QED
    BY <1>1, <1>3, <1>5, <2>2, <2>3
<1>7. SumFunctionOnSet(f, {r \in hits : sku[r] \in K}) = SumFunction(h)
  <2> HIDE DEF hits, K, f, sku
  <2>1. QED
    BY <1>2, <1>3, <1>4, SumPartition
<1>8. {r \in hits : sku[r] \in K} = hits
  <2> HIDE DEF hits
  <2>1. QED
    BY DEF SKUsOf
<1>9. SumFunction(answer) = SumFunctionOnSet(answer, K) /\ SumFunction(h) = SumFunctionOnSet(h, K)
  <2>1. SumFunction(answer) = SumFunctionOnSet(answer, DOMAIN answer)
    BY DEF SumFunction
  <2>2. SumFunction(h) = SumFunctionOnSet(h, K)
    BY DEF SumFunction
  <2> HIDE DEF K, answer, h
  <2>3. QED
    BY <1>4, <2>1, <2>2
<1>10. SumOf(c, hits) = SumFunctionOnSet(f, hits)
  <2> HIDE DEF hits, f
  <2>1. QED
    BY <1>3
<1> HIDE DEF hits, answer, K, sku, f, h
<1>11. SumFunctionOnSet(answer, K) = SumFunctionOnSet(h, K)
  BY <1>4, <1>6, SumSame
<1>12. SumFunction(answer) = SumOf(c, hits)
  BY <1>7, <1>8, <1>9, <1>10, <1>11
<1>13. QED
  BY <1>4, <1>6, <1>12 DEF answer, hits

LEMMA SKUPageSells ==
  ASSUME IInv, Built("sku"), quiet
  PROVE  LET view == SKUPage(page.read)
         IN  SumFunction([k \in DOMAIN view |-> view[k].units])
               = SaidUnits(page.from, page.to, page.shop, FALSE)
<1>1. page.kind = "sku" /\ page.next > 3
  BY DEF Built, Statements, SKUStatements
<1>2. SKUIsRead /\ SKUIsCurrent /\ today \in Int /\ TablesHold /\ SaidHolds
  BY <1>1 DEF IInv, PageHolds
<1>3. page.from \in Int /\ page.to \in Int /\ page.next - 1 = 3
  BY <1>1, <1>2 DEF SKUIsRead
<1>4. DOMAIN page.read = SKUColumns
  <2>1. DOMAIN SKUStatements = 1..3
    BY DEF SKUStatements
  <2>2. QED
    BY <1>2, <1>3, <2>1 DEF SKUIsRead, SKUColumns, Range
<1>5. "units" \in SKUColumns /\ "units" \in DailyColumns /\ IsFiniteSet(SKUColumns)
  <2> DEFINE names == <<"units", "estimate", "priced", "lines", "refundLines", "salesBacks",
                        "freightBacks", "payback", "salesReceipts", "freightReceipts",
                        "salesBackAmounts", "freightBackAmounts", "settledRows">>
  <2>1. SKUColumns = {names[i] : i \in 1..13}
    <3>1. SKUColumns = {"units", "estimate", "priced", "lines", "refundLines", "salesBacks",
                        "freightBacks", "payback", "salesReceipts", "freightReceipts",
                        "salesBackAmounts", "freightBackAmounts", "settledRows"}
      BY DEF SKUColumns, SKUStatements, FlowColumns, Range
    <3>2. QED
      BY <3>1
  <2>2. IsFiniteSet(1..13)
    <3>1. 1 \in Int /\ 13 \in Int
      OBVIOUS
    <3>2. QED
      BY ONLY <3>1, FS_Interval
  <2>3. "units" \in SKUColumns
    BY DEF SKUColumns, SKUStatements, Range
  <2> HIDE DEF names
  <2>4. QED
    BY <2>1, <2>2, <2>3, ImageIsFinite, DailyColumnsAre
<1> DEFINE rows == Rows(orders, money)
           answer == [c \in SKUColumns |-> BySKU(c, rows, page.from, page.to, page.shop)]
           units == answer["units"]
           domains == [c \in SKUColumns |-> DOMAIN answer[c]]
           K == UNION {DOMAIN page.read[c] : c \in SKUColumns}
           view == SKUPage(page.read)
           f == [k \in DOMAIN view |-> view[k].units]
<1>6. \A c \in SKUColumns : page.read[c] = answer[c]
  BY <1>2, <1>4 DEF SKUIsCurrent
<1>7. RowsHold(rows)
  BY <1>2, RowsOfTables
<1>8. /\ DOMAIN Column["units"] = Sale
  <2>1. Column["units"] = Taking(Sale, "amount")
    BY ColumnIs
  <2>2. QED
    BY <2>1 DEF Taking
<1>9. IsFiniteSet(K)
  <2>1. \A c \in SKUColumns : IsFiniteSet(domains[c])
    BY <1>3, <1>7, BySKUIs
  <2>2. K = UNION {domains[c] : c \in SKUColumns}
    <3>1. \A c \in SKUColumns : domains[c] = DOMAIN page.read[c]
      BY <1>6
    <3> HIDE DEF domains
    <3>2. QED
      BY <3>1
  <2> HIDE DEF K, domains
  <2>3. QED
    BY <1>5, <2>1, <2>2, UnionIsFinite
<1>10. /\ SumFunction(units)
            = SumOf("units", Hits("units", rows, page.from, page.to, page.shop))
       /\ \A k \in DOMAIN units : units[k] \in Int
  <2>1. units = BySKU("units", rows, page.from, page.to, page.shop)
    BY <1>5
  <2> HIDE DEF units, rows
  <2>2. QED
    BY <1>3, <1>5, <1>7, <1>8, <2>1, SKUsAddUp
<1>11. /\ DOMAIN view = K /\ DOMAIN units \in SUBSET K
       /\ \A k \in K : f[k] = IF k \in DOMAIN units THEN units[k] ELSE 0
  <2>1. page.read["units"] = units
    BY <1>5, <1>6
  <2>2. DOMAIN view = K
    BY DEF SKUPage
  <2>3. \A k \in K : view[k].units = IF k \in DOMAIN page.read["units"]
                                     THEN page.read["units"][k] ELSE 0
    BY <1>5 DEF SKUPage
  <2>4. \A k \in K : f[k] = view[k].units
    BY <2>2
  <2>5. DOMAIN page.read["units"] \in SUBSET K
    BY <1>5
  <2> HIDE DEF K, view, units, f
  <2>6. QED
    BY <2>1, <2>2, <2>3, <2>4, <2>5
<1>12. SumFunction(f) = SumFunctionOnSet(f, DOMAIN view)
  BY DEF SumFunction
<1>13. SumFunction(units) = SumFunctionOnSet(units, DOMAIN units)
  BY DEF SumFunction
<1> HIDE DEF K, view, units, f, rows
<1>14. SumFunctionOnSet(f, K) = SumFunctionOnSet(f, DOMAIN units)
  <2>1. \A k \in K : f[k] \in Int
    BY <1>10, <1>11
  <2>2. \A k \in K \ DOMAIN units : f[k] = 0
    BY <1>11
  <2>3. QED
    BY <1>9, <1>11, <2>1, <2>2, SumSupport
<1>15. SumFunctionOnSet(f, DOMAIN units) = SumFunctionOnSet(units, DOMAIN units)
  <2>1. \A k \in DOMAIN units : f[k] = units[k] /\ f[k] \in Int
    BY <1>10, <1>11
  <2>2. IsFiniteSet(DOMAIN units)
    BY <1>9, <1>11, FS_Subset
  <2>3. QED
    BY <2>1, <2>2, SumSame
<1>16. SumFunction(f) = SumOf("units", Hits("units", rows, page.from, page.to, page.shop))
  BY <1>10, <1>11, <1>12, <1>13, <1>14, <1>15
<1> DEFINE keyed == LinesKeyed(page.from, page.to, page.shop)
<1>17. SumOf("units", Hits("units", rows, page.from, page.to, page.shop))
         = SumFunctionOnSet(UnitsKeyed(keyed, FALSE), keyed)
  BY <1>2, <1>3, UnitsAreHit DEF rows
<1>18. SaidUnits(page.from, page.to, page.shop, FALSE)
         = SumFunctionOnSet(UnitsKeyed(keyed, FALSE), keyed)
  BY <1>2, SaidUnitsAreStored
<1>19. QED
  BY <1>16, <1>17, <1>18 DEF f, view

----------------------------------------------------------------------------
(* Windows *)

\* The months before a day, and how many there are.
MonthsUntil(d) == {m \in MonthStarts : m < d}
Rank(d) == Cardinality(MonthsUntil(d))

LEMMA MonthsAreDays == \A m \in MonthStarts : m \in Int
BY CalendarAssumption

LEMMA UntilIs ==
  /\ \A d, x : x \in MonthsUntil(d) <=> x \in MonthStarts /\ x < d
  /\ \A m \in MonthStarts : m \notin MonthsUntil(m)
<1>1. \A d, x : x \in MonthsUntil(d) <=> x \in MonthStarts /\ x < d
  BY DEF MonthsUntil
<1>2. \A m \in MonthStarts : m \notin MonthsUntil(m)
  BY <1>1, MonthsAreDays
<1>3. QED
  BY <1>1, <1>2

LEMMA RanksAre ==
  /\ \A d : IsFiniteSet(MonthsUntil(d)) /\ Rank(d) \in Nat
  /\ \A a \in Int, b \in Int : a <= b => Rank(a) <= Rank(b)
  /\ \A m \in MonthStarts, b \in Int : m < b => Rank(m) < Rank(b)
<1>1. \A d : IsFiniteSet(MonthsUntil(d)) /\ Rank(d) \in Nat
  BY MonthsReachBack, FS_Subset, FS_CardinalityType DEF MonthsUntil, Rank
<1>2. ASSUME NEW a \in Int, NEW b \in Int, a <= b PROVE Rank(a) <= Rank(b)
  <2>1. MonthsUntil(a) \in SUBSET MonthsUntil(b)
    BY <1>2, MonthsAreDays, UntilIs
  <2>2. QED
    BY <1>1, <2>1, FS_Subset DEF Rank
<1>3. ASSUME NEW m \in MonthStarts, NEW b \in Int, m < b PROVE Rank(m) < Rank(b)
  <2>1. m \in Int /\ m \notin MonthsUntil(m)
    BY MonthsAreDays, UntilIs
  <2>2. MonthsUntil(m) \cup {m} \in SUBSET MonthsUntil(b)
    <3>1. ASSUME NEW x \in MonthStarts, x < m PROVE x < b
      BY <1>3, <2>1, <3>1, MonthsAreDays
    <3>2. QED
      BY <1>3, <3>1, UntilIs
  <2>3. Cardinality(MonthsUntil(m) \cup {m}) = Rank(m) + 1
    BY <1>1, <2>1, FS_AddElement DEF Rank
  <2>4. Cardinality(MonthsUntil(m) \cup {m}) <= Rank(b)
    BY <1>1, <2>2, FS_Subset DEF Rank
  <2>5. QED
    BY <1>1, <2>3, <2>4
<1>4. QED
  BY <1>1, <1>2, <1>3

\* Every rank below the number of months is that of a month.
LEMMA MonthOfRank ==
  ASSUME NEW n \in Nat, n < Cardinality(MonthStarts)
  PROVE  \E m \in MonthStarts : Rank(m) = n
<1> DEFINE N == {i \in Nat : i < Cardinality(MonthStarts) => \E m \in MonthStarts : Rank(m) = i}
<1>1. MonthStarts \subseteq Int /\ IsFiniteSet(MonthStarts) /\ Cardinality(MonthStarts) \in Nat
  BY CalendarAssumption, MonthsReachBack, FS_CardinalityType
<1>2. 0 \in N
  <2>1. SUFFICES ASSUME 0 < Cardinality(MonthStarts)
                 PROVE  \E m \in MonthStarts : Rank(m) = 0
    OBVIOUS
  <2>2. MonthStarts # {}
    BY <2>1, FS_EmptySet
  <2>3. Min(MonthStarts) \in MonthStarts /\ \A x \in MonthStarts : Min(MonthStarts) <= x
    BY <1>1, <2>2, MinIs
  <2>4. MonthsUntil(Min(MonthStarts)) = {}
    <3>1. \A x \in MonthStarts : ~(x < Min(MonthStarts))
      BY <2>3, MonthsAreDays
    <3>2. QED
      BY <3>1, UntilIs
  <2>5. QED
    BY <2>3, <2>4, FS_EmptySet DEF Rank
<1>3. ASSUME NEW i \in N PROVE i + 1 \in N
  <2>1. i \in Nat /\ (i < Cardinality(MonthStarts) => \E m \in MonthStarts : Rank(m) = i)
    OBVIOUS
  <2>2. SUFFICES ASSUME i + 1 < Cardinality(MonthStarts)
                 PROVE  \E m \in MonthStarts : Rank(m) = i + 1
    BY <2>1
  <2> HIDE DEF N
  <2>3. PICK m \in MonthStarts : Rank(m) = i
    BY <1>1, <2>1, <2>2
  <2> DEFINE later == {x \in MonthStarts : x > m}
  <2>4. IsFiniteSet(later) /\ later \subseteq Int
    BY <1>1, FS_Subset
  <2>5. m \in Int /\ m \notin MonthsUntil(m) /\ MonthStarts = (MonthsUntil(m) \cup {m}) \cup later
    BY MonthsAreDays, UntilIs
  <2>6. Cardinality(MonthsUntil(m) \cup {m}) = i + 1
    BY <2>1, <2>3, <2>5, RanksAre, FS_AddElement DEF Rank
  <2>7. later # {}
    <3>1. ASSUME later = {} PROVE FALSE
      <4>1. MonthStarts = MonthsUntil(m) \cup {m}
        BY <2>5, <3>1
      <4>2. Cardinality(MonthStarts) = i + 1
        BY <2>6, <4>1
      <4>3. QED
        BY <1>1, <2>1, <2>2, <4>2
    <3>2. QED
      BY <3>1
  <2> HIDE DEF later
  <2>8. Min(later) \in later /\ \A x \in later : Min(later) <= x
    BY <2>4, <2>7, MinIs
  <2>9. MonthsUntil(Min(later)) = MonthsUntil(m) \cup {m}
    <3>1. Min(later) \in MonthStarts /\ m < Min(later) /\ Min(later) \in Int
      BY <2>8, MonthsAreDays DEF later
    <3>2. ASSUME NEW x \in MonthStarts PROVE x < Min(later) <=> (x < m \/ x = m)
      <4>1. x > m => Min(later) <= x
        BY <2>8 DEF later
      <4>2. x \in Int
        BY MonthsAreDays
      <4>3. QED
        BY <2>5, <3>1, <4>1, <4>2
    <3>3. QED
      BY <3>2, UntilIs
  <2>10. Rank(Min(later)) = i + 1 /\ Min(later) \in MonthStarts
    BY <2>6, <2>8, <2>9 DEF Rank, later
  <2>11. QED
    BY <2>10
<1>4. N = Nat
  <2> HIDE DEF N
  <2>1. N \in SUBSET Nat
    BY DEF N
  <2>2. QED
    BY <1>2, <1>3, <2>1, NatSetInduction
<1>5. QED
  BY <1>4

LEMMA MonthsBeforeIs ==
  ASSUME NEW m \in MonthStarts, NEW n \in Nat, Rank(m) >= n
  PROVE  /\ MonthsBefore(m, n) \in MonthStarts /\ MonthsBefore(m, n) <= m
         /\ Rank(MonthsBefore(m, n)) = Rank(m) - n
<1>1. MonthsBefore(m, n) = CHOOSE s \in MonthStarts : Rank(s) = Rank(m) - n
  BY DEF MonthsBefore, Rank, MonthsUntil
<1>2. Rank(m) \in Nat /\ Rank(m) < Cardinality(MonthStarts)
  <2>1. m \in Int /\ m \notin MonthsUntil(m) /\ MonthsUntil(m) \cup {m} \in SUBSET MonthStarts
    BY MonthsAreDays, UntilIs
  <2>2. Cardinality(MonthsUntil(m) \cup {m}) = Rank(m) + 1
    BY <2>1, RanksAre, FS_AddElement DEF Rank
  <2>3. Cardinality(MonthsUntil(m) \cup {m}) <= Cardinality(MonthStarts)
    BY <2>1, MonthsReachBack, FS_Subset
  <2>4. QED
    BY <2>2, <2>3, RanksAre, MonthsReachBack, FS_CardinalityType
<1>3. \E s \in MonthStarts : Rank(s) = Rank(m) - n
  <2>1. Rank(m) - n \in Nat /\ Rank(m) - n < Cardinality(MonthStarts)
    BY <1>2, MonthsReachBack, FS_CardinalityType
  <2>2. QED
    BY <2>1, MonthOfRank
<1>4. MonthsBefore(m, n) \in MonthStarts /\ Rank(MonthsBefore(m, n)) = Rank(m) - n
  BY <1>1, <1>3
<1>5. MonthsBefore(m, n) <= m
  <2>1. ASSUME MonthsBefore(m, n) > m PROVE FALSE
    <3>1. Rank(m) < Rank(MonthsBefore(m, n))
      BY <1>4, <2>1, RanksAre, MonthsAreDays
    <3>2. QED
      BY <1>2, <1>4, <3>1
  <2>2. MonthsBefore(m, n) \in Int /\ m \in Int
    BY <1>4, MonthsAreDays
  <2>3. QED
    BY <2>1, <2>2
<1>6. QED
  BY <1>4, <1>5

\* The month of a day is the last that begins up to it.
LEMMA MonthIs ==
  ASSUME NEW d \in Int, NEW first \in MonthStarts, first <= d
  PROVE  /\ Month(d) \in MonthStarts /\ Month(d) <= d
         /\ \A m \in MonthStarts : m <= d => m <= Month(d)
         /\ d \in MonthStarts => Month(d) = d
<1> DEFINE S == {m \in MonthStarts : m <= d}
           T == {-m : m \in S}
           neg == [m \in S |-> -m]
<1>1. S \subseteq Int /\ IsFiniteSet(S) /\ first \in S
  BY CalendarAssumption, MonthsReachBack, FS_Subset
<1>2. T = {neg[m] : m \in S}
  OBVIOUS
<1>3. IsFiniteSet(T)
  <2> HIDE DEF neg, S, T
  <2>1. QED
    BY <1>1, <1>2, ImageIsFinite
<1>4. T \subseteq Int /\ T # {} /\ \A x \in T : -x \in S
  BY <1>1
<1>5. Min(T) \in T /\ \A x \in T : Min(T) <= x
  <2> HIDE DEF T
  <2>1. QED
    BY <1>3, <1>4, MinIs
<1>6. -Min(T) \in S /\ \A m \in S : m <= -Min(T)
  <2>1. \A m \in S : Min(T) <= -m
    BY <1>5
  <2>2. Min(T) \in Int
    BY <1>4, <1>5
  <2>3. -Min(T) \in S
    BY <1>4, <1>5
  <2> HIDE DEF T, S
  <2>4. QED
    BY <1>1, <2>1, <2>2, <2>3
<1>7. Max(S) = -Min(T)
  <2> HIDE DEF S, T
  <2>1. QED
    BY <1>1, <1>6, MaxIs
<1>8. Month(d) = -Min(T)
  BY <1>7 DEF Month
<1> HIDE DEF T
<1>9. Month(d) \in S /\ \A m \in S : m <= Month(d)
  BY <1>6, <1>8
<1>10. Month(d) \in MonthStarts /\ Month(d) <= d
  BY <1>9
<1>11. \A m \in MonthStarts : m <= d => m <= Month(d)
  BY <1>9
<1>12. d \in MonthStarts => Month(d) = d
  <2>1. Month(d) \in Int /\ (d \in MonthStarts => d <= Month(d))
    BY <1>10, <1>11, MonthsAreDays
  <2>2. QED
    BY <1>10, <2>1
<1>13. QED
  BY <1>10, <1>11, <1>12

LEMMA WeeksAre ==
  ASSUME NEW a \in Int, NEW b \in Int, a % 7 = 0, Monday(b - 1) = a + 77
  PROVE  Cardinality(Buckets("week", a, b)) = 12
<1> DEFINE f == [i \in 0..11 |-> a + 7 * i]
           T == {f[i] : i \in 0..11}
<1>1. Buckets("week", a, b) = {Monday(d) : d \in a..b - 1}
  BY DEF Buckets, BucketStart
<1>2. ASSUME NEW d \in a..b - 1 PROVE Monday(d) \in T
  <2> DEFINE i == (d - a) \div 7
  <2>1. b - 1 - a < 84
    BY DEF Monday
  <2>2. i \in 0..11 /\ Monday(d) = a + 7 * i
    BY <2>1 DEF Monday
  <2>3. Monday(d) = f[i]
    BY <2>2
  <2> HIDE DEF f, i
  <2>4. QED
    BY <2>2, <2>3
<1>3. ASSUME NEW i \in 0..11 PROVE f[i] \in {Monday(d) : d \in a..b - 1}
  <2>1. a + 77 <= b - 1
    BY DEF Monday
  <2>2. a + 7 * i \in a..b - 1 /\ Monday(a + 7 * i) = a + 7 * i
    BY <2>1 DEF Monday
  <2>3. QED
    BY <2>2
<1>4. Buckets("week", a, b) = T
  <2> HIDE DEF f
  <2>1. QED
    BY <1>1, <1>2, <1>3
<1>5. f \in Surjection(0..11, T) /\ f \in Injection(0..11, T)
  <2>1. \A i, j \in 0..11 : f[i] = f[j] => i = j
    OBVIOUS
  <2>2. f \in [0..11 -> T]
    OBVIOUS
  <2> HIDE DEF f
  <2>3. QED
    BY <2>1, <2>2 DEF Surjection, Injection, IsInjective
<1>6. IsFiniteSet(0..11) /\ Cardinality(0..11) = 12
  <2>1. 0 \in Int /\ 11 \in Int /\ ~(0 > 11) /\ 11 - 0 + 1 = 12
    OBVIOUS
  <2>2. QED
    BY ONLY <2>1, FS_Interval
<1>7. Cardinality(T) = Cardinality(0..11)
  <2> HIDE DEF f, T
  <2>1. QED
    BY <1>5, <1>6, FS_Surjection
<1>8. QED
  BY <1>4, <1>6, <1>7

LEMMA MonthBucketsAre ==
  ASSUME NEW a \in MonthStarts, NEW b \in Int, a <= b
  PROVE  /\ Buckets("month", a, b) = MonthsUntil(b) \ MonthsUntil(a)
         /\ Cardinality(Buckets("month", a, b)) = Rank(b) - Rank(a)
<1>1. Buckets("month", a, b) = {Month(d) : d \in a..b - 1}
  BY DEF Buckets, BucketStart
<1>2. a \in Int
  BY MonthsAreDays
<1>3. ASSUME NEW d \in a..b - 1 PROVE Month(d) \in MonthsUntil(b) \ MonthsUntil(a)
  <2>1. d \in Int /\ a <= d /\ d < b
    BY <1>2
  <2>2. Month(d) \in MonthStarts /\ Month(d) <= d /\ a <= Month(d)
    BY <2>1, MonthIs
  <2>3. Month(d) \in Int
    BY <2>2, MonthsAreDays
  <2>4. Month(d) < b /\ ~(Month(d) < a)
    BY <1>2, <2>1, <2>2, <2>3
  <2>5. QED
    BY <2>2, <2>4, UntilIs
<1>4. ASSUME NEW m \in MonthsUntil(b) \ MonthsUntil(a)
      PROVE  m \in {Month(d) : d \in a..b - 1}
  <2>1. m \in MonthStarts /\ m < b /\ ~(m < a)
    BY UntilIs
  <2>2. m \in Int
    BY <2>1, MonthsAreDays
  <2>3. m \in a..b - 1
    BY <1>2, <2>1, <2>2
  <2>4. m <= m /\ Month(m) = m
    BY <2>1, <2>2, MonthIs
  <2>5. QED
    BY <2>3, <2>4
<1>5. Buckets("month", a, b) = MonthsUntil(b) \ MonthsUntil(a)
  BY <1>1, <1>3, <1>4
<1>6. MonthsUntil(b) \cap MonthsUntil(a) = MonthsUntil(a)
  <2>1. ASSUME NEW m \in MonthStarts, m < a PROVE m < b
    BY <1>2, <2>1, MonthsAreDays
  <2>2. QED
    BY <2>1, UntilIs
<1>7. Cardinality(MonthsUntil(b) \ MonthsUntil(a)) = Rank(b) - Rank(a)
  BY <1>6, RanksAre, FS_Difference DEF Rank
<1>8. QED
  BY <1>5, <1>7

\* The two windows of a dashboard follow each other up to the end of the day.
LEMMA WindowsAre ==
  ASSUME NEW period \in Period, NEW day \in Todays,
         NEW current, current = CurrentStart(period, day),
         NEW previous, previous = PreviousStart(period, day)
  PROVE  /\ previous \in Int /\ current \in Int /\ day \in Int
         /\ previous <= current /\ current <= day
         /\ Cardinality(Buckets(period, current, day + 1)) = Windows[period]
         /\ Cardinality(Buckets(period, previous, current)) = Windows[period]
<1>1. day \in Int
  BY ReportsAssumption
<1>2. CASE period = "day"
  <2>1. current = day - 13 /\ previous = day - 13 - 14 /\ Windows[period] = 14
    BY <1>2 DEF CurrentStart, PreviousStart, Windows
  <2>2. /\ Buckets(period, current, day + 1) = current..day
        /\ Buckets(period, previous, current) = previous..current - 1
    BY <1>1, <1>2, <2>1 DEF Buckets, BucketStart
  <2>3. Cardinality(current..day) = 14
    <3>1. current \in Int /\ ~(current > day) /\ day - current + 1 = 14
      BY <1>1, <2>1
    <3>2. QED
      BY <1>1, <3>1, FS_Interval
  <2>4. Cardinality(previous..current - 1) = 14
    <3>1. previous \in Int /\ current - 1 \in Int /\ ~(previous > current - 1)
          /\ current - 1 - previous + 1 = 14
      BY <1>1, <2>1
    <3>2. QED
      BY <3>1, FS_Interval
  <2>5. QED
    BY <1>1, <2>1, <2>2, <2>3, <2>4
<1>3. CASE period = "week"
  <2>1. current = Monday(day) - 11 * 7 /\ previous = current - 12 * 7 /\ Windows[period] = 12
    BY <1>3 DEF CurrentStart, PreviousStart, Windows
  <2>2. current \in Int /\ previous \in Int /\ current <= day /\ previous <= current
    BY <1>1, <2>1 DEF Monday
  <2>3. current % 7 = 0 /\ previous % 7 = 0
    BY <1>1, <2>1 DEF Monday
  <2>4. Monday(day + 1 - 1) = current + 77 /\ Monday(current - 1) = previous + 77
    BY <1>1, <2>1, <2>2, <2>3 DEF Monday
  <2>5. /\ Cardinality(Buckets("week", current, day + 1)) = 12
        /\ Cardinality(Buckets("week", previous, current)) = 12
    BY <1>1, <2>2, <2>3, <2>4, WeeksAre
  <2>6. QED
    BY <1>1, <1>3, <2>1, <2>2, <2>5
<1>4. CASE period = "month"
  <2>1. /\ current = MonthsBefore(Month(day), 5) /\ previous = MonthsBefore(current, 6)
        /\ Windows[period] = 6
    BY <1>4 DEF CurrentStart, PreviousStart, Windows
  <2>2. MonthsUntil(day + 1) = {m \in MonthStarts : m <= day}
    <3>1. \A m \in MonthStarts : m < day + 1 <=> m <= day
      BY <1>1, MonthsAreDays
    <3>2. QED
      BY <3>1 DEF MonthsUntil
  <2>3. Rank(day + 1) >= 12 /\ Rank(day + 1) \in Nat
    BY <2>2, MonthsReachBack, RanksAre DEF Rank
  <2>4. PICK first \in MonthStarts : first <= day
    <3>1. MonthsUntil(day + 1) # {}
      BY <2>3, FS_EmptySet DEF Rank
    <3>2. QED
      BY <2>2, <3>1
  <2> DEFINE month == Month(day)
  <2>5. month \in MonthStarts /\ month <= day /\ \A m \in MonthStarts : m <= day => m <= month
    BY <1>1, <2>4, MonthIs
  <2> HIDE DEF month
  <2>6. Rank(day + 1) = Rank(month) + 1 /\ Rank(month) \in Nat
    <3>1. MonthsUntil(day + 1) = MonthsUntil(month) \cup {month}
      <4>1. ASSUME NEW m \in MonthStarts PROVE m < day + 1 <=> (m < month \/ m = month)
        <5>1. m \in Int /\ month \in Int
          BY <2>5, MonthsAreDays
        <5>2. m <= day => m <= month
          BY <2>5
        <5>3. QED
          BY <1>1, <2>5, <5>1, <5>2
      <4>2. QED
        BY <2>5, <4>1, UntilIs
    <3>2. month \notin MonthsUntil(month)
      BY <2>5, UntilIs
    <3>3. QED
      BY <3>1, <3>2, RanksAre, FS_AddElement DEF Rank
  <2>7. /\ current \in MonthStarts /\ current <= month /\ Rank(current) = Rank(month) - 5
    BY <2>1, <2>3, <2>5, <2>6, MonthsBeforeIs DEF month
  <2>8. /\ previous \in MonthStarts /\ previous <= current /\ Rank(previous) = Rank(current) - 6
    BY <2>1, <2>3, <2>6, <2>7, RanksAre, MonthsBeforeIs
  <2>9. month \in Int /\ current \in Int /\ previous \in Int
    BY <2>5, <2>7, <2>8, MonthsAreDays
  <2>10. current <= day + 1 /\ day + 1 \in Int /\ current <= day
    BY <1>1, <2>5, <2>7, <2>9
  <2>11. /\ Cardinality(Buckets("month", current, day + 1)) = Rank(day + 1) - Rank(current)
         /\ Cardinality(Buckets("month", previous, current)) = Rank(current) - Rank(previous)
    BY <2>7, <2>8, <2>9, <2>10, MonthBucketsAre
  <2>12. Rank(day + 1) - Rank(current) = 6 /\ Rank(current) - Rank(previous) = 6
    BY <2>6, <2>7, <2>8
  <2>13. QED
    BY <1>1, <1>4, <2>1, <2>8, <2>9, <2>10, <2>11, <2>12
<1>5. QED
  BY <1>2, <1>3, <1>4 DEF Period

\* The first day that is read is not after either window.
LEMMA QueryStartIs ==
  ASSUME NEW period \in Period, NEW day \in Todays
  PROVE  QueryStart(period, day) \in Int /\ QueryStart(period, day) <= PreviousStart(period, day)
<1> DEFINE previous == PreviousStart(period, day)
           first == ForecastStart(day)
<1>1. previous \in Int /\ first \in Int
  <2>1. previous \in Int /\ day \in Int
    BY WindowsAre
  <2>2. QED
    BY <2>1 DEF ForecastStart
<1>2. IsFiniteSet({previous, first})
  <2> HIDE DEF previous, first
  <2>1. {previous, first} = {previous} \cup {first}
    OBVIOUS
  <2>2. IsFiniteSet({previous}) /\ IsFiniteSet({first})
    BY FS_Singleton
  <2>3. QED
    BY <2>1, <2>2, FS_Union
<1> HIDE DEF previous, first
<1>3. Min({previous, first}) \in {previous, first} 
      /\ \A x \in {previous, first} : Min({previous, first}) <= x
  BY <1>1, <1>2, MinIs
<1>4. QED
  BY <1>1, <1>3 DEF QueryStart, previous, first

----------------------------------------------------------------------------
(* Rows by group *)

\* A statement that groups rows, and the rows of some of its groups.
WithKey(S, key, k) == {x \in S : key[x] = k}
WithKeyIn(S, key, T) == {x \in S : key[x] \in T}

\* Of the groups T of S, the rows are R, and v is the sum of f in a group.
IsGrouping(S, f, key, T, R, row, v) ==
  /\ \A k \in T : row[k] \in R /\ v[row[k]] = SumFunctionOnSet(f, WithKey(S, key, k))
  /\ \A r \in R : \E k \in T : row[k] = r
  /\ \A k1 \in T, k2 \in T : row[k1] = row[k2] => k1 = k2

LEMMA GroupsAddUp ==
  ASSUME NEW S, IsFiniteSet(S), NEW f, \A x \in S : f[x] \in Int, NEW key,
         NEW T, IsFiniteSet(T), NEW R, NEW row, NEW v, IsGrouping(S, f, key, T, R, row, v)
  PROVE  SumFunctionOnSet(v, R) = SumFunctionOnSet(f, WithKeyIn(S, key, T))
<1>0. /\ \A k \in T : row[k] \in R /\ v[row[k]] = SumFunctionOnSet(f, WithKey(S, key, k))
      /\ \A r \in R : \E k \in T : row[k] = r
      /\ \A k1 \in T, k2 \in T : row[k1] = row[k2] => k1 = k2
  BY DEF IsGrouping
<1> DEFINE h == [k \in T |-> SumFunctionOnSet(f, {x \in S : key[x] = k})]
<1>1. SumFunctionOnSet(f, {x \in S : key[x] \in T}) = SumFunction(h)
  BY SumPartition
<1>2. SumFunction(h) = SumFunctionOnSet(h, T)
  BY DEF SumFunction
<1>3. IsFiniteSet(R)
  <2>1. R = {row[k] : k \in T}
    BY <1>0
  <2>2. QED
    BY <2>1, ImageIsFinite
<1>4. \A k \in T : h[k] \in Int /\ v[row[k]] = h[k]
  <2>1. SUFFICES ASSUME NEW k \in T PROVE h[k] \in Int /\ v[row[k]] = h[k]
    OBVIOUS
  <2>2. {x \in S : key[x] = k} \in SUBSET S
    OBVIOUS
  <2>3. SumFunctionOnSet(f, {x \in S : key[x] = k}) \in Int
    BY <2>2, FS_Subset, SumInt
  <2>4. v[row[k]] = SumFunctionOnSet(f, {x \in S : key[x] = k})
    BY <1>0 DEF WithKey
  <2>5. QED
    BY <2>3, <2>4
<1> HIDE DEF h
<1>5. SumFunctionOnSet(h, T) = SumFunctionOnSet(v, R)
  BY <1>0, <1>3, <1>4, SumReindex
<1>6. QED
  BY <1>1, <1>2, <1>5 DEF WithKeyIn

\* What is stored, in all of some rows and in a part of them.
StoredOf(rows) == [r \in rows |-> r.stored]

LEMMA StoredOfIs ==
  ASSUME NEW rows, IsTally(rows), NEW part \in SUBSET rows
  PROVE  /\ Stored(part) = SumFunctionOnSet(StoredOf(rows), part)
         /\ IsFiniteSet(part) /\ Stored(part) \in Nat
         /\ \A r \in rows : StoredOf(rows)[r] \in Nat /\ StoredOf(rows)[r] = r.stored
<1>1. IsTally(part) /\ IsFiniteSet(part)
  BY PartOfTally DEF IsTally
<1>2. Stored(part) \in Nat
  BY <1>1, StoredIs
<1>3. \A r \in rows : StoredOf(rows)[r] \in Nat /\ StoredOf(rows)[r] = r.stored
  BY DEF StoredOf, IsTally
<1> DEFINE f == [l \in part |-> l.stored]
<1>4. Stored(part) = SumFunctionOnSet(f, part)
  BY DEF Stored, SumFunction
<1>5. \A r \in part : f[r] = StoredOf(rows)[r] /\ f[r] \in Int
  BY <1>3
<1> HIDE DEF f
<1>6. SumFunctionOnSet(f, part) = SumFunctionOnSet(StoredOf(rows), part)
  BY <1>1, <1>5, SumSame
<1>7. QED
  BY <1>1, <1>2, <1>3, <1>4, <1>6

\* Rows may be told apart by any key.
LEMMA PartsAddUp ==
  ASSUME NEW rows, IsTally(rows), NEW key, NEW K, IsFiniteSet(K), \A r \in rows : key[r] \in K,
         NEW h, DOMAIN h = K, \A k \in K : h[k] = Stored(WithKey(rows, key, k))
  PROVE  SumFunction(h) = Stored(rows)
<1> DEFINE f == StoredOf(rows)
           g == [k \in K |-> SumFunctionOnSet(f, {r \in rows : key[r] = k})]
<1>1. /\ IsFiniteSet(rows) /\ \A r \in rows : f[r] \in Int
      /\ \A part \in SUBSET rows : Stored(part) = SumFunctionOnSet(f, part) /\ Stored(part) \in Int
  BY StoredOfIs DEF IsTally
<1>2. SumFunctionOnSet(f, {r \in rows : key[r] \in K}) = SumFunction(g)
  <2> HIDE DEF f
  <2>1. QED
    BY <1>1, SumPartition
<1>3. {r \in rows : key[r] \in K} = rows /\ rows \in SUBSET rows
  OBVIOUS
<1>4. \A k \in K : g[k] = h[k] /\ h[k] \in Int
  <2> HIDE DEF f
  <2>1. SUFFICES ASSUME NEW k \in K PROVE g[k] = h[k] /\ h[k] \in Int
    OBVIOUS
  <2>2. WithKey(rows, key, k) = {r \in rows : key[r] = k}
    BY DEF WithKey
  <2>3. {r \in rows : key[r] = k} \in SUBSET rows
    OBVIOUS
  <2>4. QED
    BY <1>1, <2>2, <2>3
<1>5. SumFunction(g) = SumFunctionOnSet(g, K) /\ SumFunction(h) = SumFunctionOnSet(h, K)
  BY DEF SumFunction
<1> HIDE DEF f, g
<1>6. SumFunctionOnSet(h, K) = SumFunctionOnSet(g, K)
  BY <1>4, SumSame
<1>7. Stored(rows) = SumFunctionOnSet(f, rows)
  BY <1>1, <1>3
<1>8. QED
  BY <1>2, <1>3, <1>5, <1>6, <1>7

\* The rows, and the lines, of some groups and of some days.
GroupsOf(rows) == {Group(r) : r \in rows}
InGroups(rows, groups) == {r \in rows : Group(r) \in groups}
DatesOf(rows) == {r.date : r \in rows}
OnDates(rows, days) == {r \in rows : r.date \in days}

\* What was sold on some of the days is what was sold, of these days.
LEMMA SoldWithin ==
  ASSUME TablesHold, NEW from \in Int, NEW to \in Int, NEW filter,
         NEW a \in Int, NEW b \in Int, from <= a, b <= to
  PROVE  /\ \A l \in Sold(orders, from, to, filter) : l.date \in from..to - 1
         /\ OnDates(Sold(orders, from, to, filter), a..b - 1) = Sold(orders, a, b, filter)
<1>1. ASSUME NEW o \in DOMAIN orders, NEW k, NEW c \in Int, NEW d \in Int
      PROVE  k \in Counted(o, c, d, filter) <=>
               /\ k \in Counted(o, from, to, filter) \cup Counted(o, c, d, filter)
               /\ DateOf(orders[o].at) \in c..d - 1
  <2>1. orders[o].at \in Int
    BY DEF TablesHold, IsOrder
  <2>2. (orders[o].at >= Midnight(c) /\ orders[o].at < Midnight(d))
          <=> DateOf(orders[o].at) \in c..d - 1
    BY <2>1, DatesAreDays
  <2>3. QED
    BY <2>2 DEF Counted
<1>2. ASSUME NEW o \in DOMAIN orders, DateOf(orders[o].at) \in a..b - 1
      PROVE  Counted(o, a, b, filter) = Counted(o, from, to, filter)
  <2>1. orders[o].at \in Int /\ DateOf(orders[o].at) \in Int
    BY DatesAreDays DEF TablesHold, IsOrder
  <2>2. DateOf(orders[o].at) \in from..to - 1
    BY <1>2, <2>1
  <2>3. /\ orders[o].at >= Midnight(a) /\ orders[o].at < Midnight(b)
        /\ orders[o].at >= Midnight(from) /\ orders[o].at < Midnight(to)
    BY <1>2, <2>1, <2>2, DatesAreDays
  <2>4. QED
    BY <2>3 DEF Counted
<1>3. \A l : l \in Sold(orders, from, to, filter) <=>
        \E o \in DOMAIN orders : \E k \in Counted(o, from, to, filter) : l = SoldLine(o, k)
  BY SoldIs
<1>4. \A l : l \in Sold(orders, a, b, filter) <=>
        \E o \in DOMAIN orders : \E k \in Counted(o, a, b, filter) : l = SoldLine(o, k)
  BY SoldIs
<1>5. \A o, k : SoldLine(o, k).date = DateOf(orders[o].at)
  BY DEF SoldLine
<1>6. ASSUME NEW l \in Sold(orders, from, to, filter) PROVE l.date \in from..to - 1
  <2>1. PICK o \in DOMAIN orders : \E k \in Counted(o, from, to, filter) : l = SoldLine(o, k)
    BY <1>3
  <2>2. PICK k \in Counted(o, from, to, filter) : l = SoldLine(o, k)
    BY <2>1
  <2>3. QED
    BY <1>1, <1>5, <2>2
<1>7. ASSUME NEW l \in Sold(orders, from, to, filter), l.date \in a..b - 1
      PROVE  l \in Sold(orders, a, b, filter)
  <2>1. PICK o \in DOMAIN orders : \E k \in Counted(o, from, to, filter) : l = SoldLine(o, k)
    BY <1>3
  <2>2. PICK k \in Counted(o, from, to, filter) : l = SoldLine(o, k)
    BY <2>1
  <2>3. k \in Counted(o, a, b, filter)
    BY <1>2, <1>5, <1>7, <2>2
  <2>4. QED
    BY <1>4, <2>2, <2>3
<1>8. ASSUME NEW l \in Sold(orders, a, b, filter)
      PROVE  l \in Sold(orders, from, to, filter) /\ l.date \in a..b - 1
  <2>1. PICK o \in DOMAIN orders : \E k \in Counted(o, a, b, filter) : l = SoldLine(o, k)
    BY <1>4
  <2>2. PICK k \in Counted(o, a, b, filter) : l = SoldLine(o, k)
    BY <2>1
  <2>3. DateOf(orders[o].at) \in a..b - 1
    BY <1>1, <2>2
  <2>4. k \in Counted(o, from, to, filter)
    BY <1>2, <2>2, <2>3
  <2>5. QED
    BY <1>3, <1>5, <2>2, <2>3, <2>4
<1>9. QED
  BY <1>6, <1>7, <1>8 DEF OnDates

\* queryDailySKUs groups what was sold, and so does queryDailyTotals.
LEMMA SKURowsAddUp ==
  ASSUME TablesHold, NEW from, NEW to, NEW filter,
         NEW sold, sold = Sold(orders, from, to, filter),
         NEW rows, rows = DailySKUs(orders, from, to, filter),
         NEW part \in SUBSET GroupsOf(sold)
  PROVE  /\ Stored(InGroups(rows, part)) = Stored(InGroups(sold, part))
         /\ GroupsOf(rows) = GroupsOf(sold)
<1> DEFINE K == {Group(l) : l \in sold}
           key == [l \in sold |-> Group(l)]
           row == [g \in K |-> SKURow(g, {l \in sold : Group(l) = g})]
           f == StoredOf(sold)
           v == StoredOf(rows)
<1>1. IsTally(sold) /\ IsTally(rows)
  BY SoldIs, SKUsAreTallied
<1>2. rows = {row[g] : g \in K}
  <2>1. rows = {SKURow(g, {l \in sold : Group(l) = g}) : g \in K}
    BY DEF DailySKUs
  <2>2. \A g \in K : row[g] = SKURow(g, {l \in sold : Group(l) = g})
    OBVIOUS
  <2> HIDE DEF row, K
  <2>3. \A r : r \in rows => \E g \in K : r = row[g]
    BY <2>1, <2>2
  <2>4. \A g \in K : row[g] \in rows
    BY <2>1, <2>2
  <2>5. QED
    BY ONLY <2>3, <2>4
<1>3. ASSUME NEW g \in K
      PROVE  /\ Group(row[g]) = g /\ row[g] \in rows
             /\ v[row[g]] = SumFunctionOnSet(f, WithKey(sold, key, g))
  <2>1. PICK l \in sold : g = Group(l)
    OBVIOUS
  <2>2. row[g] = SKURow(g, {x \in sold : Group(x) = g})
    OBVIOUS
  <2>3. Group(row[g]) = g /\ row[g].stored = Stored({x \in sold : Group(x) = g})
    <3> HIDE DEF row
    <3>1. QED
      BY <2>1, <2>2 DEF Group, SKURow
  <2>4. row[g] \in rows
    <3> HIDE DEF row, K
    <3>1. QED
      BY <1>2
  <2>5. v[row[g]] = row[g].stored
    <3> HIDE DEF row
    <3>1. QED
      BY <2>4 DEF StoredOf
  <2>6. {x \in sold : Group(x) = g} = WithKey(sold, key, g)
    BY DEF WithKey
  <2>7. Stored({x \in sold : Group(x) = g}) = SumFunctionOnSet(f, {x \in sold : Group(x) = g})
    <3>1. {x \in sold : Group(x) = g} \in SUBSET sold
      OBVIOUS
    <3>2. QED
      BY <1>1, <3>1, StoredOfIs
  <2> HIDE DEF row, K, key, f, v
  <2>8. QED
    BY <2>3, <2>4, <2>5, <2>6, <2>7
<1>4. {key[l] : l \in sold} = K
  OBVIOUS
<1>5. WithKeyIn(sold, key, part) = {l \in sold : Group(l) \in part}
  BY DEF WithKeyIn
<1>6. part \in SUBSET K
  BY DEF GroupsOf
<1>7. IsFiniteSet(sold) /\ \A l \in sold : f[l] \in Int
  <2>1. sold \in SUBSET sold
    OBVIOUS
  <2>2. QED
    BY <1>1, <2>1, StoredOfIs
<1> HIDE DEF K, key, row, f, v
<1>8. \A g1 \in K, g2 \in K : row[g1] = row[g2] => g1 = g2
  <2>1. SUFFICES ASSUME NEW g1 \in K, NEW g2 \in K, row[g1] = row[g2] PROVE g1 = g2
    OBVIOUS
  <2>2. Group(row[g1]) = g1 /\ Group(row[g2]) = g2
    BY <1>3
  <2>3. QED
    BY <2>1, <2>2
<1>9. {r \in rows : Group(r) \in part} = {row[g] : g \in part}
  <2>1. ASSUME NEW r \in rows, Group(r) \in part PROVE r \in {row[g] : g \in part}
    <3>1. PICK g \in K : r = row[g]
      BY <1>2
    <3>2. QED
      BY <1>3, <2>1, <3>1
  <2>2. ASSUME NEW g \in part PROVE row[g] \in rows /\ Group(row[g]) \in part
    BY <1>3, <1>6
  <2>3. QED
    BY <2>1, <2>2
<1>10. \A g \in K : v[row[g]] = SumFunctionOnSet(f, WithKey(sold, key, g))
  BY <1>3
<1>11. SumFunctionOnSet(v, {r \in rows : Group(r) \in part})
         = SumFunctionOnSet(f, WithKeyIn(sold, key, part))
  <2> DEFINE R == {r \in rows : Group(r) \in part}
  <2>1. /\ \A g \in part : row[g] \in R /\ v[row[g]] = SumFunctionOnSet(f, WithKey(sold, key, g))
        /\ \A r \in R : \E g \in part : row[g] = r
        /\ \A k1 \in part, k2 \in part : row[k1] = row[k2] => k1 = k2
    BY <1>3, <1>6, <1>8, <1>9, <1>10
  <2>2. IsFiniteSet({key[l] : l \in sold})
    BY <1>7, ImageIsFinite
  <2>3. IsFiniteSet(part)
    BY <1>4, <1>6, <2>2, FS_Subset
  <2> HIDE DEF R
  <2>4. IsGrouping(sold, f, key, part, R, row, v)
    BY <2>1 DEF IsGrouping
  <2>5. SumFunctionOnSet(v, R) = SumFunctionOnSet(f, WithKeyIn(sold, key, part))
    BY ONLY <1>7, <2>3, <2>4, GroupsAddUp
  <2>6. QED
    BY <2>5 DEF R
<1>12. Stored({r \in rows : Group(r) \in part})
         = SumFunctionOnSet(v, {r \in rows : Group(r) \in part})
  BY <1>1, StoredOfIs DEF v
<1>13. Stored({l \in sold : Group(l) \in part})
         = SumFunctionOnSet(f, {l \in sold : Group(l) \in part})
  BY <1>1, StoredOfIs DEF f
<1>14. {Group(r) : r \in rows} = K
  <2>1. ASSUME NEW r \in rows PROVE Group(r) \in K
    <3>1. PICK g \in K : r = row[g]
      BY <1>2
    <3>2. QED
      BY <1>3, <3>1
  <2>2. ASSUME NEW g \in K PROVE \E r \in rows : Group(r) = g
    BY <1>3
  <2>3. QED
    BY <2>1, <2>2
<1>15. QED
  BY <1>5, <1>9, <1>11, <1>12, <1>13, <1>14 DEF K, GroupsOf, InGroups

LEMMA DayRowsAddUp ==
  ASSUME TablesHold, NEW from, NEW to, NEW filter,
         NEW sold, sold = Sold(orders, from, to, filter),
         NEW rows, rows = DailyTotals(orders, from, to, filter),
         NEW days
  PROVE  /\ Stored(OnDates(rows, days)) = Stored(OnDates(sold, days))
         /\ DatesOf(rows) = DatesOf(sold) /\ IsTally(rows)
<1> DEFINE K == {l.date : l \in sold}
           key == [l \in sold |-> l.date]
           row == [d \in K |-> DayRow(d, {l \in sold : l.date = d})]
           f == StoredOf(sold)
           v == StoredOf(rows)
           part == K \cap days
<1>1. IsTally(sold)
  BY SoldIs
<1>2. rows = {row[d] : d \in K}
  <2>1. \A r : r \in rows <=> \E d \in K : r = DayRow(d, {l \in sold : l.date = d})
    BY DEF DailyTotals
  <2>2. \A d \in K : row[d] = DayRow(d, {l \in sold : l.date = d})
    OBVIOUS
  <2> HIDE DEF row, K
  <2>3. ASSUME NEW r \in rows PROVE \E d \in K : r = row[d]
    <3>1. PICK d \in K : r = DayRow(d, {l \in sold : l.date = d})
      BY <2>1
    <3>2. row[d] = DayRow(d, {l \in sold : l.date = d})
      BY <2>2
    <3>3. QED
      BY <3>1, <3>2
  <2>4. ASSUME NEW d \in K PROVE row[d] \in rows
    BY <2>1, <2>2
  <2>5. QED
    BY <2>3, <2>4
<1>3. ASSUME NEW d \in K
      PROVE  /\ row[d].date = d /\ row[d] \in rows /\ row[d].stored \in Nat
             /\ row[d].stored = SumFunctionOnSet(f, WithKey(sold, key, d))
  <2>1. row[d] = DayRow(d, {x \in sold : x.date = d})
    OBVIOUS
  <2>2. row[d].date = d /\ row[d].stored = Stored({x \in sold : x.date = d})
    <3> HIDE DEF row
    <3>1. QED
      BY <2>1 DEF DayRow
  <2>3. row[d] \in rows
    <3> HIDE DEF row, K
    <3>1. QED
      BY <1>2
  <2>4. {x \in sold : x.date = d} = WithKey(sold, key, d)
    BY DEF WithKey
  <2>5. /\ Stored({x \in sold : x.date = d}) = SumFunctionOnSet(f, {x \in sold : x.date = d})
        /\ Stored({x \in sold : x.date = d}) \in Nat
    <3>1. {x \in sold : x.date = d} \in SUBSET sold
      OBVIOUS
    <3>2. QED
      BY <1>1, <3>1, StoredOfIs
  <2> HIDE DEF row, K, key, f
  <2>6. QED
    BY <2>2, <2>3, <2>4, <2>5
<1>4. {key[l] : l \in sold} = K
  OBVIOUS
<1>5. WithKeyIn(sold, key, part) = {l \in sold : l.date \in days}
  BY DEF WithKeyIn
<1>6. part \in SUBSET K
  OBVIOUS
<1>7. IsFiniteSet(sold) /\ \A l \in sold : f[l] \in Int
  <2>1. sold \in SUBSET sold
    OBVIOUS
  <2>2. QED
    BY <1>1, <2>1, StoredOfIs
<1>15. \A d : d \in part <=> d \in K /\ d \in days
  OBVIOUS
<1> HIDE DEF K, key, row, f, part
<1>8. IsTally(rows)
  <2>1. IsFiniteSet(K)
    BY <1>4, <1>7, ImageIsFinite
  <2>2. IsFiniteSet(rows)
    BY <1>2, <2>1, ImageIsFinite
  <2>3. QED
    BY <1>2, <1>3, <2>2 DEF IsTally
<1>9. \A d1 \in K, d2 \in K : row[d1] = row[d2] => d1 = d2
  <2>1. SUFFICES ASSUME NEW d1 \in K, NEW d2 \in K, row[d1] = row[d2] PROVE d1 = d2
    OBVIOUS
  <2>2. row[d1].date = d1 /\ row[d2].date = d2
    BY <1>3
  <2>3. QED
    BY <2>1, <2>2
<1>10. {r \in rows : r.date \in days} = {row[d] : d \in part}
  <2>1. ASSUME NEW r \in rows, r.date \in days PROVE r \in {row[d] : d \in part}
    <3>1. PICK d \in K : r = row[d]
      BY <1>2
    <3>2. QED
      BY <1>3, <1>15, <2>1, <3>1
  <2>2. ASSUME NEW d \in part PROVE row[d] \in rows /\ row[d].date \in days
    BY <1>3, <1>15
  <2>3. QED
    BY <2>1, <2>2
<1>11. \A d \in K : v[row[d]] = SumFunctionOnSet(f, WithKey(sold, key, d))
  BY <1>3 DEF StoredOf
<1> HIDE DEF v
<1>12. SumFunctionOnSet(v, {r \in rows : r.date \in days})
         = SumFunctionOnSet(f, WithKeyIn(sold, key, part))
  <2> DEFINE R == {r \in rows : r.date \in days}
  <2>1. /\ \A d \in part : row[d] \in R /\ v[row[d]] = SumFunctionOnSet(f, WithKey(sold, key, d))
        /\ \A r \in R : \E d \in part : row[d] = r
        /\ \A k1 \in part, k2 \in part : row[k1] = row[k2] => k1 = k2
    BY <1>3, <1>6, <1>9, <1>10, <1>11, <1>15
  <2>2. IsFiniteSet({key[l] : l \in sold})
    BY <1>7, ImageIsFinite
  <2>3. IsFiniteSet(part)
    BY <1>4, <1>6, <2>2, FS_Subset
  <2> HIDE DEF R
  <2>4. IsGrouping(sold, f, key, part, R, row, v)
    BY <2>1 DEF IsGrouping
  <2>5. SumFunctionOnSet(v, R) = SumFunctionOnSet(f, WithKeyIn(sold, key, part))
    BY ONLY <1>7, <2>3, <2>4, GroupsAddUp
  <2>6. QED
    BY <2>5 DEF R
<1>13. /\ Stored({r \in rows : r.date \in days})
            = SumFunctionOnSet(v, {r \in rows : r.date \in days})
       /\ Stored({l \in sold : l.date \in days})
            = SumFunctionOnSet(f, {l \in sold : l.date \in days})
  BY <1>1, <1>8, StoredOfIs DEF f, v
<1>14. {r.date : r \in rows} = K
  <2>1. ASSUME NEW r \in rows PROVE r.date \in K
    <3>1. PICK d \in K : r = row[d]
      BY <1>2
    <3>2. QED
      BY <1>3, <3>1
  <2>2. ASSUME NEW d \in K PROVE \E r \in rows : r.date = d
    BY <1>3
  <2>3. QED
    BY <2>1, <2>2
<1>16. QED
  BY <1>5, <1>8, <1>10, <1>12, <1>13, <1>14 DEF K, DatesOf, OnDates

----------------------------------------------------------------------------
(* The dashboard *)

LEMMA RowsWithin ==
  ASSUME TablesHold, NEW from \in Int, NEW to \in Int, NEW filter,
         NEW a \in Int, NEW b \in Int, from <= a, b <= to, NEW kept,
         NEW rows, rows = DailySKUs(orders, from, to, filter)
  PROVE  /\ \A r \in rows : r.date \in from..to - 1
         /\ Stored(InGroups(OnDates(rows, a..b - 1), kept))
              = Stored(InGroups(Sold(orders, a, b, filter), kept))
<1> DEFINE sold == Sold(orders, from, to, filter)
           part == {g \in GroupsOf(sold) : g.date \in a..b - 1 /\ g \in kept}
<1>1. \A x : Group(x).date = x.date
  BY DEF Group
<1>2. /\ \A l \in sold : l.date \in from..to - 1
      /\ OnDates(sold, a..b - 1) = Sold(orders, a, b, filter)
  BY SoldWithin
<1>3. part \in SUBSET GroupsOf(sold)
  OBVIOUS
<1> HIDE DEF sold
<1>4. /\ Stored(InGroups(rows, part)) = Stored(InGroups(sold, part))
      /\ GroupsOf(rows) = GroupsOf(sold)
  <2> HIDE DEF part
  <2>1. QED
    BY <1>3, SKURowsAddUp DEF sold
<1>5. ASSUME NEW r \in rows PROVE r.date \in from..to - 1
  <2>1. PICK l \in sold : Group(r) = Group(l)
    BY <1>4 DEF GroupsOf
  <2>2. r.date = l.date
    BY <1>1, <2>1
  <2>3. QED
    BY <1>2, <2>2
<1>6. InGroups(rows, part) = InGroups(OnDates(rows, a..b - 1), kept)
  <2>1. ASSUME NEW r \in rows
        PROVE  Group(r) \in part <=> r.date \in a..b - 1 /\ Group(r) \in kept
    <3>1. Group(r) \in GroupsOf(sold)
      BY <1>4 DEF GroupsOf
    <3>2. QED
      BY <1>1, <3>1
  <2> HIDE DEF part
  <2>2. QED
    BY <2>1 DEF InGroups, OnDates
<1>7. InGroups(sold, part) = InGroups(Sold(orders, a, b, filter), kept)
  <2>1. ASSUME NEW l \in sold
        PROVE  Group(l) \in part <=> l.date \in a..b - 1 /\ Group(l) \in kept
    BY <1>1 DEF GroupsOf
  <2> HIDE DEF part
  <2>2. InGroups(sold, part) = InGroups(OnDates(sold, a..b - 1), kept)
    BY <2>1 DEF InGroups, OnDates
  <2>3. QED
    BY <1>2, <2>2
<1>8. QED
  BY <1>4, <1>5, <1>6, <1>7

LEMMA TotalsWithin ==
  ASSUME TablesHold, NEW from \in Int, NEW to \in Int, NEW filter,
         NEW a \in Int, NEW b \in Int, from <= a, b <= to,
         NEW rows, rows = DailyTotals(orders, from, to, filter)
  PROVE  /\ \A r \in rows : r.date \in from..to - 1
         /\ Stored(OnDates(rows, a..b - 1)) = Stored(Sold(orders, a, b, filter))
         /\ IsTally(rows)
<1> DEFINE sold == Sold(orders, from, to, filter)
<1>1. /\ \A l \in sold : l.date \in from..to - 1
      /\ OnDates(sold, a..b - 1) = Sold(orders, a, b, filter)
  BY SoldWithin
<1>2. /\ Stored(OnDates(rows, a..b - 1)) = Stored(OnDates(sold, a..b - 1))
      /\ DatesOf(rows) = DatesOf(sold) /\ IsTally(rows)
  BY DayRowsAddUp
<1> HIDE DEF sold
<1>3. ASSUME NEW r \in rows PROVE r.date \in from..to - 1
  <2>1. PICK l \in sold : r.date = l.date
    BY <1>2 DEF DatesOf
  <2>2. QED
    BY <1>1, <2>1
<1>4. QED
  BY <1>1, <1>2, <1>3

\* East of UTC, the rows of a window are those of its days.
DatedIn(rows, days) == \A r \in rows : r.date \in days

LEMMA WindowIs ==
  ASSUME ZoneOffset >= 0, NEW first \in Int, NEW last \in Int,
         NEW rows, DatedIn(rows, first..last),
         NEW a \in Int, NEW b \in Int, NEW before \in Int, before = b - 1
  PROVE  /\ Since(rows, a) = OnDates(rows, a..last)
         /\ Until(Since(rows, a), b) = OnDates(rows, a..before)
<1>1. ASSUME NEW date \in Int, NEW d \in Int PROVE Before(date, d) <=> date < d
  BY CalendarAssumption DEF Before, Midnight
<1>2. \A r \in rows : r.date \in Int /\ r.date <= last
  BY DEF DatedIn
<1>3. \A r \in rows : ~Before(r.date, a) <=> r.date \in a..last
  <2>1. SUFFICES ASSUME NEW r \in rows PROVE ~Before(r.date, a) <=> r.date \in a..last
    OBVIOUS
  <2>2. Before(r.date, a) <=> r.date < a
    BY <1>1, <1>2
  <2>3. QED
    BY <1>2, <2>2
<1>4. \A r \in rows : ~Before(r.date, a) /\ Before(r.date, b) <=> r.date \in a..before
  <2>1. SUFFICES ASSUME NEW r \in rows
                 PROVE  ~Before(r.date, a) /\ Before(r.date, b) <=> r.date \in a..before
    OBVIOUS
  <2>2. (Before(r.date, a) <=> r.date < a) /\ (Before(r.date, b) <=> r.date < b)
    BY <1>1, <1>2
  <2>3. QED
    BY <1>2, <2>2
<1>5. QED
  BY <1>3, <1>4 DEF Since, Until, OnDates

LEMMA TodayStays == Spec => [](today \in Todays)
<1>1. Init => today \in Todays
  BY DEF Init
<1>2. today \in Todays /\ [Next]_vars => (today \in Todays)'
  <2>1. SUFFICES ASSUME today \in Todays, [Next]_vars PROVE today' = today
    OBVIOUS
  <2>2. ASSUME NEW new, Begin(new) PROVE today' = today
    BY <2>2 DEF Begin
  <2>3. ASSUME NEW answer, Answered(answer) PROVE today' = today
    BY <2>3 DEF Answered
  <2>4. CASE StoreOrder \/ Import \/ ReplaceStock
    BY <2>4 DEF StoreOrder, Import, ReplaceStock, Commits
  <2>5. CASE BeginProfit \/ BeginSKU \/ BeginDashboard
    BY <2>2, <2>5 DEF BeginProfit, BeginSKU, BeginDashboard
  <2>6. CASE ReadProfit \/ ReadSKU \/ ReadDashboard
    BY <2>3, <2>6 DEF ReadProfit, ReadSKU, ReadDashboard
  <2>7. CASE Fail \/ UNCHANGED vars
    BY <2>7 DEF Fail, vars
  <2>8. QED
    BY <2>1, <2>4, <2>5, <2>6, <2>7 DEF Next
<1>3. QED
  BY <1>1, <1>2, PTL DEF Spec

Current == CurrentStart(page.period, today)
Previous == PreviousStart(page.period, today)
Lately == Since(page.read.rows, Current)

\* An undisturbed dashboard has, of each window, what was sold in it.
LEMMA BuiltDashboardIsCurrent ==
  ASSUME ZoneOffset >= 0, IInv, today \in Todays, Built("dashboard"), quiet
  PROVE  /\ TablesHold /\ SaidHolds /\ today \in Int
         /\ Current \in Int /\ Previous \in Int /\ Current <= today
         /\ IsTally(Lately)
         /\ \A kept : Stored(InGroups(Lately, kept))
              = Stored(InGroups(Sold(orders, Current, today + 1, page.filter), kept))
         /\ IsTally(Since(page.read.totals, Current))
         /\ \A r \in Since(page.read.totals, Current) : r.date \in Current..today
         /\ Stored(Since(page.read.totals, Current))
              = Stored(Sold(orders, Current, today + 1, page.filter))
         /\ Stored(Until(Since(page.read.totals, Previous), Current))
              = Stored(Sold(orders, Previous, Current, page.filter))
<1> DEFINE from == page.from
           to == today + 1
           rows == page.read.rows
           totals == page.read.totals
           filter == page.filter
<1>1. /\ DashboardIsRead /\ DashboardIsCurrent /\ page.next = 4 /\ IsTally(rows)
      /\ TablesHold /\ SaidHolds
  BY BuiltDashboardIsRead DEF IInv
<1>2. /\ page.period \in Period /\ from = QueryStart(page.period, today) /\ page.to = to
      /\ rows = DailySKUs(orders, from, to, filter)
      /\ totals = DailyTotals(orders, from, to, filter)
  BY <1>1 DEF DashboardIsRead, DashboardIsCurrent
<1>3. /\ today \in Int /\ Current \in Int /\ Previous \in Int
      /\ Previous <= Current /\ Current <= today
  BY <1>2, WindowsAre DEF Current, Previous
<1>4. from \in Int /\ from <= Previous
  BY <1>2, QueryStartIs DEF Previous
<1> HIDE DEF from, to, rows, totals, filter
<1>5. to \in Int /\ Current <= to /\ from <= Current /\ to <= to /\ to - 1 = today
  BY <1>3, <1>4 DEF to
<1>6. /\ \A r \in rows : r.date \in from..to - 1
      /\ \A kept : Stored(InGroups(OnDates(rows, Current..to - 1), kept))
                     = Stored(InGroups(Sold(orders, Current, to, filter), kept))
  BY <1>1, <1>2, <1>3, <1>4, <1>5, RowsWithin
<1>7. /\ \A r \in totals : r.date \in from..to - 1
      /\ Stored(OnDates(totals, Current..to - 1)) = Stored(Sold(orders, Current, to, filter))
      /\ IsTally(totals)
  BY <1>1, <1>2, <1>3, <1>4, <1>5, TotalsWithin
<1>8. Stored(OnDates(totals, Previous..Current - 1))
        = Stored(Sold(orders, Previous, Current, filter))
  BY <1>1, <1>2, <1>3, <1>4, <1>5, TotalsWithin
<1>9. Since(rows, Current) = OnDates(rows, Current..to - 1)
  <2>1. DatedIn(rows, from..today)
    BY <1>5, <1>6 DEF DatedIn
  <2> DEFINE before == Current - 1
  <2>2. before \in Int /\ before = Current - 1
    BY <1>3
  <2> HIDE DEF before
  <2>3. Since(rows, Current) = OnDates(rows, Current..today)
    BY <1>3, <1>4, <2>1, <2>2, WindowIs
  <2>4. QED
    BY <1>5, <2>3
<1>10. /\ Since(totals, Current) = OnDates(totals, Current..to - 1)
       /\ Until(Since(totals, Previous), Current) = OnDates(totals, Previous..Current - 1)
  <2>1. DatedIn(totals, from..today)
    BY <1>5, <1>7 DEF DatedIn
  <2> DEFINE before == Current - 1
  <2>2. before \in Int /\ before = Current - 1
    BY <1>3
  <2> HIDE DEF before
  <2>3. /\ Since(totals, Current) = OnDates(totals, Current..today)
        /\ Until(Since(totals, Previous), Current) = OnDates(totals, Previous..before)
    BY <1>3, <1>4, <2>1, <2>2, WindowIs
  <2>4. QED
    BY <1>5, <2>2, <2>3
<1>11. Lately = Since(rows, Current) /\ Lately \in SUBSET rows
  BY DEF Lately, rows, Since
<1>12. ASSUME NEW kept
       PROVE  Stored(InGroups(Lately, kept))
                = Stored(InGroups(Sold(orders, Current, to, filter), kept))
  BY <1>6, <1>9, <1>11
<1>13. IsTally(Lately)
  BY <1>1, <1>11, PartOfTally
<1>14. Since(totals, Current) \in SUBSET totals
  BY DEF Since
<1>15. IsTally(Since(totals, Current))
  BY <1>7, <1>14, PartOfTally
<1>16. \A r \in Since(totals, Current) : r.date \in Current..today
  BY <1>5, <1>10 DEF OnDates
<1>17. QED
  BY <1>1, <1>3, <1>7, <1>8, <1>10, <1>12, <1>13, <1>15, <1>16
     DEF from, to, rows, totals, filter

\* The lines of a platform.
OnPlatform(rows, p) == {r \in rows : r.platform = p}

LineSold(keyed) == [ok \in keyed |-> SoldLine(ok[1], ok[2])]

\* A dashboard of all warehouses that has Temu sells the lines that count.
LEMMA TemuIsSold ==
  ASSUME TablesHold, NEW from \in Int, NEW to \in Int, NEW filter,
         filter.warehouse = Everywhere, filter.platform \in {Everywhere, "temu"},
         NEW shop, shop = filter.shop
  PROVE  Stored(OnPlatform(Sold(orders, from, to, filter), "temu"))
           = SumFunctionOnSet(UnitsKeyed(LinesKeyed(from, to, shop), TRUE),
                              LinesKeyed(from, to, shop))
<1> DEFINE keyed == LinesKeyed(from, to, shop)
           sold == Sold(orders, from, to, filter)
           part == OnPlatform(sold, "temu")
           f == UnitsKeyed(keyed, TRUE)
           g == StoredOf(part)
           row == LineSold(keyed)
<1>1. AreKeyed(keyed, from, to, shop, TRUE)
  BY LinesAreKeyed
<1>2. IsTally(sold)
  BY SoldIs
<1>3. IsTally(part) /\ part \in SUBSET part
  <2>1. part \in SUBSET sold
    BY DEF OnPlatform
  <2> HIDE DEF sold, part
  <2>2. QED
    BY <1>2, <2>1, PartOfTally
<1>4. /\ Stored(part) = SumFunctionOnSet(g, part) /\ IsFiniteSet(part)
      /\ \A r \in part : g[r] = r.stored
  BY <1>3, StoredOfIs
<1>5. \A l : l \in sold <=>
        \E o \in DOMAIN orders : \E k \in Counted(o, from, to, filter) : l = SoldLine(o, k)
  BY SoldIs
<1>6. \A l : l \in part <=> l \in sold /\ l.platform = "temu"
  BY DEF OnPlatform
<1>7. ASSUME NEW o \in DOMAIN orders, NEW k
      PROVE  /\ OrderKey[o].platform = "temu" =>
                  (k \in Counted(o, from, to, filter) <=>
                     o \in Counting(from, to, shop) /\ k \in DOMAIN orders[o].lines)
             /\ o \in Counting(from, to, shop) => OrderKey[o].platform = "temu"
  <2>1. orders[o].at \in Int
    BY DEF TablesHold, IsOrder
  <2>2. (orders[o].at >= Midnight(from) /\ orders[o].at < Midnight(to))
          <=> DateOf(orders[o].at) \in from..to - 1
    BY <2>1, DatesAreDays
  <2>3. \A place : Placed(place, filter)
    BY DEF Placed
  <2>4. QED
    BY <2>2, <2>3 DEF Counted, Counting
<1>8. \A o \in Counting(from, to, shop) : o \in DOMAIN orders
  BY DEF Counting
<1>9. ASSUME NEW ok \in keyed
      PROVE  /\ row[ok] \in part /\ row[ok].order = ok[1] /\ row[ok].key = ok[2]
             /\ ok = <<ok[1], ok[2]>> /\ f[ok] \in Int /\ row[ok].stored = f[ok]
  <2> DEFINE o == ok[1]
             k == ok[2]
  <2>1. /\ ok = <<o, k>> /\ o \in Counting(from, to, shop)
        /\ k \in DOMAIN orders[o].lines /\ f[ok] \in Nat
    BY <1>1 DEF AreKeyed
  <2>2. row[ok] = SoldLine(o, k)
    BY DEF LineSold
  <2>3. f[ok] = orders[o].lines[k].units * orders[o].lines[k].factor
    BY DEF UnitsKeyed, UnitsOfLine
  <2> HIDE DEF keyed, sold, part, f, row, o, k
  <2>4. o \in DOMAIN orders /\ OrderKey[o].platform = "temu" /\ k \in Counted(o, from, to, filter)
    BY <1>7, <1>8, <2>1
  <2>5. row[ok] \in sold
    BY <1>5, <2>2, <2>4
  <2>6. /\ row[ok].platform = "temu" /\ row[ok].stored = f[ok]
        /\ row[ok].order = o /\ row[ok].key = k
    BY <2>2, <2>3, <2>4 DEF SoldLine
  <2>7. QED
    BY <1>6, <2>1, <2>5, <2>6 DEF o, k
<1>10. ASSUME NEW r \in part PROVE \E ok \in keyed : row[ok] = r
  <2>1. r \in sold /\ r.platform = "temu"
    BY <1>6
  <2>2. PICK o \in DOMAIN orders : \E k \in Counted(o, from, to, filter) : r = SoldLine(o, k)
    BY <1>5, <2>1
  <2>3. PICK k \in Counted(o, from, to, filter) : r = SoldLine(o, k)
    BY <2>2
  <2>4. OrderKey[o].platform = "temu"
    BY <2>1, <2>3 DEF SoldLine
  <2>5. o \in Counting(from, to, shop) /\ k \in DOMAIN orders[o].lines
    BY <1>7, <2>3, <2>4
  <2>6. <<o, k>> \in keyed
    BY <1>1, <2>5 DEF AreKeyed
  <2>7. row[<<o, k>>] = r
    BY <2>3, <2>6 DEF LineSold
  <2>8. QED
    BY <2>6, <2>7
<1>11. IsFiniteSet(keyed)
  BY <1>1 DEF AreKeyed
<1> HIDE DEF keyed, sold, part, f, g, row
<1>12. \A ok1 \in keyed, ok2 \in keyed : row[ok1] = row[ok2] => ok1 = ok2
  <2>1. SUFFICES ASSUME NEW ok1 \in keyed, NEW ok2 \in keyed, row[ok1] = row[ok2]
                 PROVE  ok1 = ok2
    OBVIOUS
  <2>2. ok1[1] = ok2[1] /\ ok1[2] = ok2[2]
    BY <1>9, <2>1
  <2>3. QED
    BY <1>9, <2>2
<1>13. \A ok \in keyed : f[ok] \in Int /\ row[ok] \in part /\ g[row[ok]] = f[ok]
  BY <1>4, <1>9
<1>14. \A r \in part : \E ok \in keyed : row[ok] = r
  BY <1>10
<1>15. SumFunctionOnSet(f, keyed) = SumFunctionOnSet(g, part)
  BY ONLY <1>4, <1>11, <1>12, <1>13, <1>14, SumReindex
<1>16. QED
  BY <1>4, <1>15 DEF f, g, keyed, part, sold

LEMMA TemuSells ==
  ASSUME TablesHold, SaidHolds, NEW from \in Int, NEW to \in Int, NEW filter,
         filter.warehouse = Everywhere, filter.platform \in {Everywhere, "temu"},
         NEW shop, shop = filter.shop
  PROVE  Stored(OnPlatform(Sold(orders, from, to, filter), "temu"))
           = SaidUnits(from, to, shop, TRUE)
<1> DEFINE keyed == LinesKeyed(from, to, shop)
<1>1. SaidUnits(from, to, shop, TRUE) = SumFunctionOnSet(UnitsKeyed(keyed, TRUE), keyed)
  <2> DEFINE yes == TRUE
  <2>1. keyed = LinesKeyed(from, to, shop) /\ yes \in BOOLEAN
    OBVIOUS
  <2> HIDE DEF keyed, yes
  <2>2. SaidUnits(from, to, shop, yes) = SumFunctionOnSet(UnitsKeyed(keyed, yes), keyed)
    BY ONLY <2>1, TablesHold, SaidHolds, SaidUnitsAreStored
  <2>3. QED BY <2>2 DEF yes
<1>2. Stored(OnPlatform(Sold(orders, from, to, filter), "temu"))
        = SumFunctionOnSet(UnitsKeyed(keyed, TRUE), keyed)
  BY ONLY TablesHold, filter.warehouse = Everywhere, shop = filter.shop,
          filter.platform \in {Everywhere, "temu"}, TemuIsSold
<1>3. QED
  BY <1>1, <1>2

\* A dashboard of one other platform has no lines of Temu.
LEMMA TemuIsNotSold ==
  ASSUME TablesHold, NEW from, NEW to, NEW filter,
         filter.platform \notin {Everywhere, "temu"}
  PROVE  OnPlatform(Sold(orders, from, to, filter), "temu") = {}
<1>1. \A l : l \in Sold(orders, from, to, filter) <=>
        \E o \in DOMAIN orders : \E k \in Counted(o, from, to, filter) : l = SoldLine(o, k)
  BY SoldIs
<1>2. SUFFICES ASSUME NEW l \in Sold(orders, from, to, filter), l.platform = "temu" PROVE FALSE
  BY DEF OnPlatform
<1>3. PICK o \in DOMAIN orders : \E k \in Counted(o, from, to, filter) : l = SoldLine(o, k)
  BY <1>1
<1>4. PICK k \in Counted(o, from, to, filter) : l = SoldLine(o, k)
  BY <1>3
<1>5. OrderKey[o].platform = "temu"
  BY <1>2, <1>4 DEF SoldLine
<1>6. QED
  BY <1>5 DEF Counted

\* The rows of a platform are those of its groups.
LEMMA PlatformIsGroups ==
  ASSUME NEW p, NEW rows, NEW groups, GroupsOf(rows) \subseteq groups
  PROVE  OnPlatform(rows, p) = InGroups(rows, {g \in groups : g.platform = p})
<1>1. \A r \in rows : Group(r).platform = r.platform /\ Group(r) \in groups
  BY DEF Group, GroupsOf
<1>2. QED
  BY <1>1 DEF OnPlatform, InGroups

LEMMA PlatformSells ==
  ASSUME ZoneOffset >= 0, IInv, today \in Todays, Built("dashboard"), quiet, NEW p
  PROVE  Stored(OnPlatform(Lately, p))
           = Stored(OnPlatform(Sold(orders, Current, today + 1, page.filter), p))
<1> DEFINE sold == Sold(orders, Current, today + 1, page.filter)
           groups == GroupsOf(Lately) \cup GroupsOf(sold)
           kept == {g \in groups : g.platform = p}
<1>1. GroupsOf(Lately) \subseteq groups /\ GroupsOf(sold) \subseteq groups
  OBVIOUS
<1>2. Stored(InGroups(Lately, kept)) = Stored(InGroups(sold, kept))
  BY BuiltDashboardIsCurrent
<1> HIDE DEF sold, groups
<1>3. OnPlatform(Lately, p) = InGroups(Lately, kept)
  BY <1>1, PlatformIsGroups
<1>4. OnPlatform(sold, p) = InGroups(sold, kept)
  BY <1>1, PlatformIsGroups
<1>5. QED
  BY <1>2, <1>3, <1>4 DEF sold

\* What the page says of its platforms.
LEMMA PlatformsAre ==
  /\ DOMAIN View.platforms = {r.platform : r \in Lately}
  /\ \A p \in DOMAIN View.platforms : View.platforms[p].stored = Stored(OnPlatform(Lately, p))
<1> DEFINE platforms == View.platforms
<1>1. platforms = [p \in {r.platform : r \in Lately} |->
        LET units == Stored({r \in Lately : r.platform = p})
        IN  [stored |-> units, share |-> Share(units, Stored(Since(page.read.totals, Current)))]]
  BY DEF View, Dashboard, Lately, Current
<1>2. DOMAIN platforms = {r.platform : r \in Lately}
  BY <1>1
<1>3. ASSUME NEW p \in DOMAIN platforms
      PROVE  platforms[p].stored = Stored({r \in Lately : r.platform = p})
  BY <1>1, <1>2
<1>4. QED
  BY <1>2, <1>3 DEF OnPlatform

LEMMA DashboardSells ==
  ASSUME ZoneOffset >= 0, IInv, today \in Todays, Built("dashboard"), quiet,
         page.filter.warehouse = Everywhere
  PROVE  (IF "temu" \in DOMAIN View.platforms THEN View.platforms["temu"].stored ELSE 0)
           = IF page.filter.platform \in {Everywhere, "temu"}
             THEN SaidUnits(CurrentStart(page.period, today), today + 1, page.filter.shop, TRUE)
             ELSE 0
<1> DEFINE units == IF "temu" \in DOMAIN View.platforms THEN View.platforms["temu"].stored ELSE 0
           filter == page.filter
           to == today + 1
           sold == Sold(orders, Current, to, filter)
           part == OnPlatform(sold, "temu")
<1>1. TablesHold /\ SaidHolds /\ today \in Int /\ Current \in Int
  BY BuiltDashboardIsCurrent
<1>2. Stored({}) = 0
  BY SumEmpty DEF Stored, SumFunction
<1>3. units = Stored(OnPlatform(Lately, "temu"))
  <2>1. CASE "temu" \in DOMAIN View.platforms
    BY <2>1, PlatformsAre
  <2>2. CASE "temu" \notin DOMAIN View.platforms
    <3>1. OnPlatform(Lately, "temu") = {}
      BY <2>2, PlatformsAre DEF OnPlatform
    <3>2. QED
      BY <1>2, <2>2, <3>1
  <2>3. QED
    BY <2>1, <2>2
<1>4. Stored(OnPlatform(Lately, "temu")) = Stored(part)
  BY PlatformSells
<1>5. filter.warehouse = Everywhere /\ to \in Int
  BY <1>1
<1>9. part = OnPlatform(Sold(orders, Current, to, filter), "temu")
  OBVIOUS
<1> HIDE DEF units, filter, to, sold, part
<1>6. CASE filter.platform \in {Everywhere, "temu"}
  <2>1. Stored(part) = SaidUnits(Current, to, filter.shop, TRUE)
    BY <1>1, <1>5, <1>6, <1>9, TemuSells
  <2>3. units = SaidUnits(Current, to, filter.shop, TRUE)
    BY <1>3, <1>4, <2>1
  <2>4. QED
    BY <1>6, <2>3 DEF units, filter, to, Current
<1>7. CASE filter.platform \notin {Everywhere, "temu"}
  <2>1. part = {}
    BY <1>1, <1>7, <1>9, TemuIsNotSold
  <2>2. units = 0
    BY <1>2, <1>3, <1>4, <2>1
  <2>3. QED
    BY <1>7, <2>2 DEF units, filter
<1>8. QED
  BY <1>6, <1>7

\* Orders are cancelled, dated anew and lose lines between two batches.  Each of
\* the three pages sells what the source says last of Temu orders, and not what
\* it once said: of any zone east of UTC, of any calendar, shops and periods.
THEOREM PagesSellWhatIsSaid == ASSUME ZoneOffset >= 0 PROVE Spec => []UnitsFollowTheSource
<1>1. ASSUME IInv, today \in Todays PROVE UnitsFollowTheSource
  <2>1. ASSUME quiet, Built("profit")
        PROVE  Profit("day").totals.units = SaidUnits(page.from, page.to, page.shop, FALSE)
    BY <1>1, <2>1, ProfitPageSells
  <2>2. ASSUME quiet, Built("sku")
        PROVE  LET view == SKUPage(page.read)
               IN  SumFunction([k \in DOMAIN view |-> view[k].units])
                     = SaidUnits(page.from, page.to, page.shop, FALSE)
    BY <1>1, <2>2, SKUPageSells
  <2>3. ASSUME quiet, Built("dashboard"), page.filter.warehouse = Everywhere
        PROVE  (IF "temu" \in DOMAIN View.platforms THEN View.platforms["temu"].stored ELSE 0)
                 = IF page.filter.platform \in {Everywhere, "temu"}
                   THEN SaidUnits(CurrentStart(page.period, today), today + 1,
                                  page.filter.shop, TRUE)
                   ELSE 0
    BY <1>1, <2>3, DashboardSells
  <2>4. QED
    BY <2>1, <2>2, <2>3 DEF UnitsFollowTheSource
<1>2. QED
  BY <1>1, PagesHold, TodayStays, PTL

\* The SKUs of the page, and what was sold of them.
SKUsSold == {k \in SKUsOf(page.read.rows) : Stored(OfSKU(Lately, k)) > 0}
StoredBySKU(skus) == [k \in skus |-> Stored(OfSKU(Lately, k))]

LEMMA SKUsAre ==
  /\ DOMAIN View.skus = SKUsSold
  /\ \A k \in SKUsSold : View.skus[k].stored = Stored(OfSKU(Lately, k))
  /\ View.stored = SumFunction(StoredBySKU(SKUsSold))
<1> DEFINE rows == page.read.rows
           skus == {k \in {r.sku : r \in rows} : Stored(Since(Of(rows, k), Current)) > 0}
<1>1. ASSUME NEW k PROVE Since(Of(rows, k), Current) = OfSKU(Lately, k)
  BY DEF Since, Of, OfSKU, Lately
<1>2. /\ DOMAIN View.skus = skus
      /\ \A k \in skus : View.skus[k].stored = Stored(Since(Of(rows, k), Current))
      /\ View.stored = SumFunction([k \in skus |-> Stored(Since(Of(rows, k), Current))])
  BY DEF View, Dashboard, Current
<1>3. skus = SKUsSold
  BY <1>1 DEF SKUsSold, SKUsOf
<1> DEFINE f == [k \in skus |-> Stored(Since(Of(rows, k), Current))]
<1>4. f = StoredBySKU(SKUsSold)
  <2> HIDE DEF rows, skus
  <2>1. QED
    BY <1>1, <1>3 DEF StoredBySKU
<1>5. View.stored = SumFunction(f)
  BY <1>2
<1> HIDE DEF rows, skus, f
<1>6. QED
  BY <1>1, <1>2, <1>3, <1>4, <1>5

LEMMA SKUsSoldAddUp ==
  ASSUME IsTally(page.read.rows), IsTally(Lately)
  PROVE  /\ IsFiniteSet(SKUsSold)
         /\ SumFunction(StoredBySKU(SKUsSold)) = Stored(Lately)
<1> DEFINE rows == page.read.rows
           K == SKUsOf(rows)
           h == StoredBySKU(K)
           g == StoredBySKU(SKUsSold)
           key == [r \in Lately |-> r.sku]
<1>1. IsFiniteSet(K)
  <2> DEFINE skuOf == [r \in rows |-> r.sku]
  <2>1. K = {skuOf[r] : r \in rows}
    BY DEF SKUsOf
  <2>2. IsFiniteSet(rows)
    BY DEF IsTally
  <2> HIDE DEF skuOf, K, rows
  <2>3. QED
    BY <2>1, <2>2, ImageIsFinite
<1>2. \A r \in Lately : key[r] \in K
  BY DEF Lately, Since, SKUsOf
<1>3. \A k \in K : h[k] = Stored(WithKey(Lately, key, k))
  <2>1. ASSUME NEW k PROVE WithKey(Lately, key, k) = OfSKU(Lately, k)
    BY DEF WithKey, OfSKU
  <2> HIDE DEF K, key
  <2>2. QED
    BY <2>1 DEF StoredBySKU
<1>4. DOMAIN h = K /\ SKUsSold \in SUBSET K
  BY DEF StoredBySKU, SKUsSold
<1>5. \A k \in K : h[k] = Stored(OfSKU(Lately, k)) /\ h[k] \in Nat
  <2>1. SUFFICES ASSUME NEW k \in K PROVE h[k] = Stored(OfSKU(Lately, k)) /\ h[k] \in Nat
    OBVIOUS
  <2>2. OfSKU(Lately, k) \in SUBSET Lately
    BY DEF OfSKU
  <2>3. Stored(OfSKU(Lately, k)) \in Nat
    BY <2>2, StoredOfIs
  <2>4. QED
    BY <2>3 DEF StoredBySKU
<1>6. \A k \in SKUsSold : g[k] = h[k]
  BY <1>4 DEF StoredBySKU
<1>7. \A k \in K \ SKUsSold : h[k] = 0
  BY <1>5 DEF SKUsSold
<1>8. DOMAIN g = SKUsSold
  BY DEF StoredBySKU
<1> HIDE DEF rows, K, h, g, key
<1>9. SumFunction(h) = Stored(Lately)
  BY <1>1, <1>2, <1>3, <1>4, PartsAddUp
<1>10. IsFiniteSet(SKUsSold)
  BY <1>1, <1>4, FS_Subset
<1>11. SumFunctionOnSet(h, K) = SumFunctionOnSet(h, SKUsSold)
  BY <1>1, <1>4, <1>5, <1>7, SumSupport
<1>12. SumFunctionOnSet(h, SKUsSold) = SumFunctionOnSet(g, SKUsSold)
  BY <1>4, <1>5, <1>6, <1>10, SumSame
<1>13. SumFunction(h) = SumFunctionOnSet(h, K) /\ SumFunction(g) = SumFunctionOnSet(g, SKUsSold)
  BY <1>4, <1>8 DEF SumFunction
<1>14. QED
  BY <1>9, <1>10, <1>11, <1>12, <1>13 DEF g

\* A sum over what the page shows is one over what it was made of.
StoredIn(view) == [k \in DOMAIN view |-> view[k].stored]

LEMMA PlatformsAddUp ==
  ASSUME IsTally(Lately)
  PROVE  SumFunction(StoredIn(View.platforms)) = Stored(Lately)
<1> DEFINE K == {r.platform : r \in Lately}
           key == [r \in Lately |-> r.platform]
           h == StoredIn(View.platforms)
<1>1. DOMAIN h = K
  BY PlatformsAre DEF StoredIn
<1>2. \A k \in K : h[k] = Stored(WithKey(Lately, key, k))
  <2>1. ASSUME NEW k PROVE WithKey(Lately, key, k) = OnPlatform(Lately, k)
    BY DEF WithKey, OnPlatform
  <2>2. \A k \in K : h[k] = Stored(OnPlatform(Lately, k))
    BY PlatformsAre DEF StoredIn
  <2> HIDE DEF K, key, h
  <2>3. QED
    BY <2>1, <2>2
<1>3. K = {key[r] : r \in Lately} /\ \A r \in Lately : key[r] \in K
  OBVIOUS
<1> HIDE DEF K, key, h
<1>4. IsFiniteSet(K)
  BY <1>3, ImageIsFinite DEF IsTally
<1>5. SumFunction(h) = Stored(Lately)
  BY <1>1, <1>2, <1>3, <1>4, PartsAddUp
<1>6. QED
  BY <1>5 DEF h

\* The rows of a bucket.
InBucket(rows, period, b) == {r \in rows : BucketStart(period, r.date) = b}

LEMMA SeriesAre ==
  /\ DOMAIN View.series = Buckets(page.period, Current, today + 1)
  /\ \A b \in DOMAIN View.series :
       View.series[b].stored = Stored(InBucket(Since(page.read.totals, Current), page.period, b))
  /\ View.total = Stored(Since(page.read.totals, Current))
  /\ View.prior = Stored(Until(Since(page.read.totals, Previous), Current))
<1> DEFINE buckets == Buckets(page.period, Current, today + 1)
           now == Since(page.read.totals, Current)
<1>1. /\ DOMAIN View.series = buckets
      /\ \A b \in buckets :
           View.series[b].stored = Stored({r \in now : BucketStart(page.period, r.date) = b})
  BY DEF View, Dashboard, Current
<1>2. /\ View.total = Stored(now)
      /\ View.prior = Stored(Until(Since(page.read.totals, Previous), Current))
  BY DEF View, Dashboard, Current, Previous
<1>3. QED
  BY <1>1, <1>2 DEF InBucket

LEMMA SeriesAddUp ==
  ASSUME today \in Int, Current \in Int, IsTally(Since(page.read.totals, Current)),
         \A r \in Since(page.read.totals, Current) : r.date \in Current..today
  PROVE  SumFunction(StoredIn(View.series)) = View.total
<1> DEFINE rows == Since(page.read.totals, Current)
           K == Buckets(page.period, Current, today + 1)
           key == [r \in rows |-> BucketStart(page.period, r.date)]
           h == StoredIn(View.series)
<1>1. DOMAIN h = K
  BY SeriesAre DEF StoredIn
<1>2. \A k \in K : h[k] = Stored(WithKey(rows, key, k))
  <2>1. ASSUME NEW k PROVE WithKey(rows, key, k) = InBucket(rows, page.period, k)
    BY DEF WithKey, InBucket
  <2>2. \A k \in K : h[k] = Stored(InBucket(rows, page.period, k))
    BY SeriesAre DEF StoredIn
  <2> HIDE DEF K, key, h, rows
  <2>3. QED
    BY <2>1, <2>2
<1>3. \A r \in rows : key[r] = BucketStart(page.period, r.date)
  OBVIOUS
<1>4. /\ IsFiniteSet(K)
      /\ \A d \in Current..(today + 1) - 1 : BucketStart(page.period, d) \in K
  <2>1. today + 1 \in Int
    OBVIOUS
  <2>2. QED
    BY <2>1, BucketsHoldTheirDays
<1>5. (today + 1) - 1 = today /\ IsTally(rows) /\ \A r \in rows : r.date \in Current..today
  OBVIOUS
<1> HIDE DEF rows, K, key, h
<1>6. \A r \in rows : key[r] \in K
  BY <1>3, <1>4, <1>5
<1>7. SumFunction(h) = Stored(rows)
  BY <1>1, <1>2, <1>4, <1>5, <1>6, PartsAddUp
<1>8. QED
  BY <1>7, SeriesAre DEF h, rows

\* What was sold in a window, by its lines and by its groups.
LEMMA LatelyIsSold ==
  ASSUME ZoneOffset >= 0, IInv, today \in Todays, Built("dashboard"), quiet
  PROVE  Stored(Lately) = Stored(Sold(orders, Current, today + 1, page.filter))
<1> DEFINE sold == Sold(orders, Current, today + 1, page.filter)
           kept == GroupsOf(Lately) \cup GroupsOf(sold)
<1>1. Stored(InGroups(Lately, kept)) = Stored(InGroups(sold, kept))
  BY BuiltDashboardIsCurrent
<1>2. InGroups(Lately, kept) = Lately /\ InGroups(sold, kept) = sold
  <2> HIDE DEF sold
  <2>1. QED
    BY DEF InGroups, GroupsOf
<1>3. QED
  BY <1>1, <1>2

\* buildDashboard: the window and the one before it have their 14 days, 12 weeks
\* or 6 months, for every calendar that reaches back so far; and, of any zone
\* east of UTC, when nothing is committed between two statements the curve, the
\* SKUs and the platforms add up to what was sold in the one, and the growth
\* compares it with what was sold in the other.
THEOREM DashboardsAddUp == ASSUME ZoneOffset >= 0 PROVE Spec => []DashboardAddsUp
<1>1. ASSUME IInv, today \in Todays, Built("dashboard")
      PROVE  /\ Cardinality(DOMAIN View.series) = Windows[page.period]
             /\ Cardinality(Buckets(page.period, Previous, Current)) = Windows[page.period]
  <2>1. page.period \in Period
    BY <1>1, BuiltDashboardIsRead DEF DashboardIsRead
  <2>2. DOMAIN View.series = Buckets(page.period, Current, today + 1)
    BY SeriesAre
  <2>3. Current = CurrentStart(page.period, today) /\ Previous = PreviousStart(page.period, today)
    BY DEF Current, Previous
  <2>4. QED
    BY <1>1, <2>1, <2>2, <2>3, WindowsAre
<1>2. ASSUME IInv, today \in Todays, Built("dashboard"), quiet
      PROVE  /\ View.stored = Stored(Sold(orders, Current, today + 1, page.filter))
             /\ View.total = View.stored
             /\ View.prior = Stored(Sold(orders, Previous, Current, page.filter))
             /\ SumFunction(StoredIn(View.series)) = View.stored
             /\ SumFunction(StoredIn(View.skus)) = View.stored
             /\ SumFunction(StoredIn(View.platforms)) = View.stored
  <2> DEFINE sold == Stored(Sold(orders, Current, today + 1, page.filter))
  <2>1. /\ today \in Int /\ Current \in Int /\ IsTally(Lately)
        /\ IsTally(Since(page.read.totals, Current))
        /\ \A r \in Since(page.read.totals, Current) : r.date \in Current..today
        /\ Stored(Since(page.read.totals, Current)) = sold
        /\ Stored(Until(Since(page.read.totals, Previous), Current))
             = Stored(Sold(orders, Previous, Current, page.filter))
    BY <1>2, BuiltDashboardIsCurrent
  <2>2. Stored(Lately) = sold
    BY <1>2, LatelyIsSold
  <2>3. IsTally(page.read.rows)
    BY <1>2, BuiltDashboardIsRead
  <2> HIDE DEF sold
  <2>4. SumFunction(StoredBySKU(SKUsSold)) = sold
    BY <2>1, <2>2, <2>3, SKUsSoldAddUp
  <2>5. View.stored = sold
    BY <2>4, SKUsAre
  <2>6. StoredIn(View.skus) = StoredBySKU(SKUsSold)
    BY SKUsAre DEF StoredIn, StoredBySKU
  <2>7. SumFunction(StoredIn(View.skus)) = sold
    BY <2>4, <2>6
  <2>8. SumFunction(StoredIn(View.platforms)) = sold
    BY <2>1, <2>2, PlatformsAddUp
  <2>9. View.total = sold /\ View.prior = Stored(Sold(orders, Previous, Current, page.filter))
    BY <2>1, SeriesAre
  <2>10. SumFunction(StoredIn(View.series)) = sold
    BY <2>1, <2>9, SeriesAddUp
  <2>11. QED
    BY <2>5, <2>7, <2>8, <2>9, <2>10 DEF sold
<1>3. ASSUME IInv, today \in Todays PROVE DashboardAddsUp
  BY <1>1, <1>2, <1>3 DEF DashboardAddsUp, StoredIn, Current, Previous
<1>4. QED
  BY <1>3, PagesHold, TodayStays, PTL

=============================================================================
