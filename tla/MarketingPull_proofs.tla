------------------------ MODULE MarketingPull_proofs ------------------------
(***************************************************************************)
(* Proofs about MarketingPull, for any listing, page sizes, interval and   *)
(* timeouts: requests are spaced by the interval, a complete snapshot      *)
(* stays one, a pull without an error misses nothing that was listed all   *)
(* the time, and the two pages show the same offers of what it brought.    *)
(***************************************************************************)
EXTENDS MarketingPull, FiniteSetTheorems, SequenceTheorems, WellFoundedInduction, TLAPS

\* What the timers are, of the parts the rate depends on.  The wait between
\* two attempts is left open.
Timers ==
  /\ {slot, age, sent} \subseteq Nat
  /\ pc \in {"idle", "call", "slot", "sent", "backoff"}
  /\ pc = "slot" => wait \in Nat

\* The slots that were given to requests already sent are over when the next
\* one may be sent; while the pull waits for a slot, the one it waits for is
\* behind those and the one after it is behind both.
SlotsGiven ==
  /\ pc \in {"call", "sent", "backoff"} => sent * Interval <= age + slot
  /\ pc = "slot" => /\ sent * Interval <= age + wait
                    /\ sent * Interval + Interval <= age + slot

IInv == Timers /\ SlotsGiven /\ SlotsAreSpaced

----------------------------------------------------------------------------
(* Arithmetic *)

LEMMA OneMore ==
  ASSUME NEW n \in Nat, NEW k \in Nat
  PROVE  (n + 1) * k = n * k + k /\ (n + 1 - 1) * k = n * k
OBVIOUS

LEMMA Multiples ==
  ASSUME NEW n \in Int, NEW k \in Nat
  PROVE  n * k \in Int
OBVIOUS

LEMMA AtMost ==
  ASSUME NEW i \in Int, NEW j \in Int, NEW k \in Int, i <= j, j <= k
  PROVE  i <= k
OBVIOUS

LEMMA IntervalIsNat == Interval \in Nat
BY PullAssumption

----------------------------------------------------------------------------
(* Slots *)

LEMMA InitSlots == Init => IInv
<1>1. SUFFICES ASSUME Init PROVE IInv
  OBVIOUS
<1>2. pc = "idle" /\ sent = 0 /\ slot = 0 /\ age = 0
  BY <1>1 DEF Init
<1>3. QED
  BY <1>2 DEF IInv, Timers, SlotsGiven, SlotsAreSpaced

\* Fails leaves the slots and the counters alone, and the pull waiting for
\* its next attempt or idle.
LEMMA FailsMoves ==
  ASSUME NEW temporary \in BOOLEAN, Fails(temporary)
  PROVE  pc' \in {"idle", "backoff"} /\ UNCHANGED <<slot, age, sent>>
BY DEF Fails, Finish

\* A step from where no slot is waited for to where none is, that sends
\* nothing, keeps the slots.
LEMMA NoSlot ==
  ASSUME IInv, pc # "idle",
         pc' \in {"idle", "call", "sent", "backoff"}, UNCHANGED <<slot, age, sent>>
  PROVE  IInv'
<1>1. sent * Interval \in Int
  BY IntervalIsNat, Multiples DEF IInv, Timers
<1>2. sent * Interval <= age + slot
  BY <1>1, IntervalIsNat DEF IInv, Timers, SlotsGiven
<1>3. QED
  BY <1>2 DEF IInv, Timers, SlotsGiven, SlotsAreSpaced

LEMMA NextSlots == IInv /\ [Next]_pullVars => IInv'
<1> SUFFICES ASSUME IInv, [Next]_pullVars PROVE IInv'
  OBVIOUS
<1> USE IntervalIsNat
<1>1. sent \in Nat /\ sent * Interval \in Int /\ age \in Nat /\ slot \in Nat
  BY Multiples DEF IInv, Timers
<1>2. CASE ListingChanges
  <2>1. UNCHANGED <<slot, age, pc, wait, sent>>
    BY <1>2 DEF ListingChanges
  <2>2. QED
    BY <2>1 DEF IInv, Timers, SlotsGiven, SlotsAreSpaced
<1>3. CASE Tick
  <2>1. pc' = pc /\ sent' = sent
    BY <1>3 DEF Tick
  <2>2. slot' \in Nat /\ age' \in Nat /\ (pc = "slot" => wait' \in Nat)
    BY <1>1, <1>3 DEF Tick, IInv, Timers
  <2>3. age' >= age
    BY <1>1, <1>3 DEF Tick
  <2>4. pc # "idle" => age' + slot' >= age + slot
    BY <1>1, <1>3 DEF Tick
  <2>5. pc = "slot" => age' + wait' >= age + wait
    BY <1>1, <1>3 DEF Tick, IInv, Timers
  <2>6. Timers'
    BY <2>1, <2>2, <1>1 DEF IInv, Timers
  <2>7. SlotsGiven'
    <3>1. CASE pc = "slot"
      <4>1. sent * Interval <= age + wait /\ sent * Interval + Interval <= age + slot
        BY <3>1 DEF IInv, SlotsGiven
      <4>2. wait \in Nat /\ wait' \in Nat
        BY <3>1, <2>2 DEF IInv, Timers
      <4>3. age' + wait' >= age + wait /\ age' + slot' >= age + slot
        BY <3>1, <2>4, <2>5
      <4>4. sent * Interval <= age' + wait' /\ sent * Interval + Interval <= age' + slot'
        <5>1. /\ {age + wait, age' + wait', age + slot, age' + slot'} \subseteq Int
              /\ sent * Interval + Interval \in Int
          BY <4>2, <2>2, <1>1
        <5>2. QED
          BY <5>1, <4>1, <4>3, <1>1, AtMost
      <4>5. QED
        BY <3>1, <4>4, <2>1 DEF SlotsGiven
    <3>2. CASE pc \in {"call", "sent", "backoff"}
      <4>1. sent * Interval <= age + slot /\ age' + slot' >= age + slot
        BY <3>2, <2>4 DEF IInv, SlotsGiven
      <4>2. sent * Interval <= age' + slot'
        <5>1. {age + slot, age' + slot'} \subseteq Int
          BY <2>2, <1>1
        <5>2. QED
          BY <5>1, <4>1, <1>1, AtMost
      <4>3. QED
        BY <3>2, <4>2, <2>1 DEF SlotsGiven
    <3>3. CASE pc = "idle"
      BY <3>3, <2>1 DEF SlotsGiven
    <3>4. QED
      BY <3>1, <3>2, <3>3 DEF IInv, Timers
  <2>8. SlotsAreSpaced'
    <3>1. (sent - 1) * Interval \in Int
      BY <1>1, Multiples
    <3>2. QED
      BY <3>1, <2>1, <2>2, <2>3, <1>1 DEF IInv, SlotsAreSpaced
  <2>9. QED
    BY <2>6, <2>7, <2>8 DEF IInv
<1>4. CASE Begin
  <2>1. pc' = "call" /\ age' = 0 /\ sent' = 0 /\ slot' = slot
    BY <1>4 DEF Begin
  <2>2. QED
    BY <2>1, <1>1 DEF IInv, Timers, SlotsGiven, SlotsAreSpaced
<1>5. CASE Reserve
  <2>1. /\ pc = "call" /\ pc' = "slot" /\ wait' = slot /\ slot' = slot + Interval
        /\ UNCHANGED <<age, sent>>
    BY <1>5 DEF Reserve
  <2>2. Timers'
    BY <2>1, <1>1 DEF Timers
  <2>3. SlotsGiven'
    BY <2>1, <1>1 DEF IInv, SlotsGiven
  <2>4. QED
    BY <2>1, <2>2, <2>3 DEF IInv, SlotsAreSpaced
<1>6. CASE Send
  <2>1. /\ pc = "slot" /\ wait = 0 /\ pc' = "sent" /\ sent' = sent + 1
        /\ UNCHANGED <<slot, age>>
    BY <1>6 DEF Send
  <2>2. sent' * Interval = sent * Interval + Interval /\ (sent' - 1) * Interval = sent * Interval
    BY <2>1, <1>1, OneMore
  <2>3. Timers'
    BY <2>1, <1>1 DEF Timers
  <2>4. sent * Interval <= age /\ sent * Interval + Interval <= age + slot
    BY <2>1, <1>1 DEF IInv, SlotsGiven
  <2>5. SlotsGiven' /\ SlotsAreSpaced'
    BY <2>1, <2>2, <2>4 DEF SlotsGiven, SlotsAreSpaced
  <2>6. QED
    BY <2>3, <2>5 DEF IInv
<1>7. CASE SlotExpires
  <2>1. pc # "idle" /\ Fails(TRUE)
    BY <1>7 DEF SlotExpires
  <2>2. pc' \in {"idle", "backoff"} /\ UNCHANGED <<slot, age, sent>>
    BY <2>1, FailsMoves
  <2>3. QED
    BY <2>1, <2>2, NoSlot
<1>8. CASE RequestFails
  <2>1. PICK temporary \in BOOLEAN : Fails(temporary)
    BY <1>8 DEF RequestFails
  <2>2. pc' \in {"idle", "backoff"} /\ UNCHANGED <<slot, age, sent>>
    BY <2>1, FailsMoves
  <2>3. pc # "idle"
    BY <1>8 DEF RequestFails
  <2>4. QED
    BY <2>2, <2>3, NoSlot
<1>9. CASE Retry
  <2>1. pc # "idle" /\ pc' = "call" /\ UNCHANGED <<slot, age, sent>>
    BY <1>9 DEF Retry
  <2>2. QED
    BY <2>1, NoSlot
<1>10. CASE BackoffExpires
  <2>1. pc # "idle" /\ pc' = "idle" /\ UNCHANGED <<slot, age, sent>>
    BY <1>10 DEF BackoffExpires, Finish
  <2>2. QED
    BY <2>1, NoSlot
<1>11. CASE EnrollmentsArrive
  <2>1. pc # "idle" /\ pc' \in {"idle", "call"} /\ UNCHANGED <<slot, age, sent>>
    BY <1>11 DEF EnrollmentsArrive, GoodsFrom, Publish, AskNext
  <2>2. QED
    BY <2>1, NoSlot
<1>12. CASE GoodsArrive
  <2>1. pc # "idle" /\ pc' \in {"idle", "call"} /\ UNCHANGED <<slot, age, sent>>
    BY <1>12 DEF GoodsArrive, GoodsFrom, Publish, AskNext
  <2>2. QED
    BY <2>1, NoSlot
<1>13. CASE UNCHANGED pullVars
  BY <1>13 DEF pullVars, IInv, Timers, SlotsGiven, SlotsAreSpaced
<1>14. QED
  BY <1>2, <1>3, <1>4, <1>5, <1>6, <1>7, <1>8, <1>9, <1>10, <1>11, <1>12, <1>13
     DEF Next, Work

\* waitForRequestSlot: n requests of one pull take at least n - 1 intervals,
\* for any interval, timeouts and number of attempts, whichever of them fail
\* and whenever the context ends.
THEOREM RequestsAreSpaced == Spec => []SlotsAreSpaced
<1>1. IInv => SlotsAreSpaced
  BY DEF IInv
<1>2. QED
  BY InitSlots, NextSlots, <1>1, PTL DEF Spec

----------------------------------------------------------------------------
(* Snapshots *)

Complete == published # NoSnapshot /\ published.ok

LEMMA FinishKeeps ==
  ASSUME Finish, Complete
  PROVE  published'.ok
BY DEF Finish, Complete

LEMMA PublishKeeps ==
  ASSUME NEW pulled, Publish(pulled)
  PROVE  published'.ok
BY DEF Publish

LEMMA GoodsFromKeeps ==
  ASSUME NEW n, NEW pulled, GoodsFrom(n, pulled), Complete
  PROVE  published'.ok
BY PublishKeeps DEF GoodsFrom, Complete

\* finish and publish, Syncer.snapshot: whatever fails, and however often, the
\* pages have a complete snapshot once there was one.
THEOREM CompletenessStays == Spec => CompleteSnapshotStays
<1>1. ASSUME [Next]_pullVars, Complete PROVE published'.ok
  <2>1. CASE ListingChanges \/ Tick \/ Begin \/ Reserve \/ Send \/ Retry \/ UNCHANGED pullVars
    <3>1. published' = published
      BY <2>1 DEF ListingChanges, Tick, Begin, Reserve, Send, Retry, pullVars, pageVars
    <3>2. QED
      BY <3>1, <1>1 DEF Complete
  <2>2. ASSUME NEW temporary, Fails(temporary) PROVE published'.ok
    <3>1. CASE Finish
      BY <3>1, <1>1, FinishKeeps
    <3>2. CASE UNCHANGED published
      BY <3>2, <1>1 DEF Complete
    <3>3. QED
      BY <3>1, <3>2, <2>2 DEF Fails
  <2>3. CASE SlotExpires
    BY <2>2, <2>3 DEF SlotExpires
  <2>4. CASE RequestFails
    BY <2>2, <2>4 DEF RequestFails
  <2>5. CASE BackoffExpires
    BY <2>5, <1>1, FinishKeeps DEF BackoffExpires
  <2>6. CASE EnrollmentsArrive
    <3>1. \/ \E pulled : GoodsFrom(1, pulled)
          \/ UNCHANGED published
      BY <2>6 DEF EnrollmentsArrive, AskNext
    <3>2. QED
      BY <3>1, <1>1, GoodsFromKeeps DEF Complete
  <2>7. CASE GoodsArrive
    <3>1. \/ \E n, pulled : GoodsFrom(n, pulled)
          \/ UNCHANGED published
      BY <2>7 DEF GoodsArrive, AskNext
    <3>2. QED
      BY <3>1, <1>1, GoodsFromKeeps DEF Complete
  <2>8. QED
    BY <2>1, <2>3, <2>4, <2>5, <2>6, <2>7, <1>1 DEF Next, Work
<1>2. [Next]_pullVars => [Complete => published'.ok]_pullVars
  BY <1>1
<1>3. QED
  BY <1>2, PTL DEF Spec, CompleteSnapshotStays, Complete

----------------------------------------------------------------------------
(* Numbers in order *)

Smaller == {p \in Nat \X Nat : p[1] < p[2]}

LEMMA NatSetInduction ==
  ASSUME NEW S \in SUBSET Nat, 0 \in S, \A n \in S : n + 1 \in S
  PROVE  S = Nat
<1>1. IsWellFoundedOn(Smaller, Nat)
  BY NatLessThanWellFounded DEF OpToRel, Smaller
<1>2. SUFFICES ASSUME Nat \ S # {} PROVE FALSE
  OBVIOUS
<1>3. PICK x \in Nat \ S : \A y \in Nat \ S : <<y, x>> \notin Smaller
  BY <1>1, <1>2, WFMin
<1>4. x # 0 /\ x - 1 \in Nat /\ <<x - 1, x>> \in Smaller
  BY DEF Smaller
<1>5. x - 1 \in S
  BY <1>3, <1>4
<1>6. QED
  BY <1>4, <1>5

\* The members below x, and how many they are.
Under(S, x) == {y \in S : y < x}
Rank(S, x) == Cardinality(Under(S, x))

LEMMA UnderIs ==
  ASSUME NEW S, NEW x
  PROVE  \A y : y \in Under(S, x) <=> y \in S /\ y < x
BY DEF Under

LEMMA RanksAre ==
  ASSUME NEW S, IsFiniteSet(S), S \subseteq Int
  PROVE  /\ Cardinality(S) \in Nat
         /\ \A x \in S : /\ IsFiniteSet(Under(S, x)) /\ Rank(S, x) \in Nat
                         /\ Rank(S, x) < Cardinality(S)
         /\ \A x, y \in S : x < y => Rank(S, x) < Rank(S, y)
<1>1. Cardinality(S) \in Nat
  BY FS_CardinalityType
<1>2. ASSUME NEW x \in S PROVE IsFiniteSet(Under(S, x)) /\ Rank(S, x) \in Nat
  BY FS_Subset, FS_CardinalityType DEF Under, Rank
<1>3. ASSUME NEW x \in S, NEW T \in SUBSET S, x \in T, Under(S, x) \subseteq T
      PROVE  Rank(S, x) < Cardinality(T)
  <2>1. x \in Int /\ x \notin Under(S, x) /\ Under(S, x) \cup {x} \in SUBSET T
    BY <1>3 DEF Under
  <2>2. Cardinality(Under(S, x) \cup {x}) = Rank(S, x) + 1
    BY <1>2, <2>1, FS_AddElement DEF Rank
  <2>3. IsFiniteSet(T) /\ Cardinality(T) \in Nat
    BY FS_Subset, FS_CardinalityType
  <2>4. Cardinality(Under(S, x) \cup {x}) <= Cardinality(T)
    BY <2>1, <2>3, FS_Subset
  <2>5. QED
    BY <1>2, <2>2, <2>3, <2>4
<1>4. ASSUME NEW x \in S PROVE Rank(S, x) < Cardinality(S)
  BY <1>3 DEF Under
<1>5. ASSUME NEW x \in S, NEW y \in S, x < y PROVE Rank(S, x) < Rank(S, y)
  <2>1. Under(S, y) \in SUBSET S /\ x \in Under(S, y)
    BY <1>5, UnderIs
  <2>2. ASSUME NEW z \in Under(S, x) PROVE z \in Under(S, y)
    <3>1. z \in S /\ z < x
      BY UnderIs
    <3>2. z \in Int /\ x \in Int /\ y \in Int
      BY <3>1
    <3>3. z < y
      BY <1>5, <3>1, <3>2
    <3>4. QED
      BY <3>1, <3>3, UnderIs
  <2>3. Under(S, x) \subseteq Under(S, y)
    BY <2>2
  <2>4. QED
    BY <1>3, <2>1, <2>3 DEF Rank
<1>6. QED
  BY <1>1, <1>2, <1>4, <1>5

LEMMA LeastExists ==
  ASSUME NEW S, IsFiniteSet(S), S \subseteq Int, S # {}
  PROVE  \E x \in S : \A y \in S : x <= y
<1> DEFINE N == {n \in Nat : \A T \in SUBSET S : T # {} /\ Cardinality(T) <= n
                               => \E x \in T : \A y \in T : x <= y}
<1>1. \A T \in SUBSET S : IsFiniteSet(T) /\ Cardinality(T) \in Nat
  BY FS_Subset, FS_CardinalityType
<1>2. 0 \in N
  <2>1. \A T \in SUBSET S : Cardinality(T) <= 0 => T = {}
    BY <1>1, FS_EmptySet
  <2>2. QED
    BY <2>1
<1>3. ASSUME NEW n \in N PROVE n + 1 \in N
  <2>1. SUFFICES ASSUME NEW T \in SUBSET S, T # {}, Cardinality(T) <= n + 1
                 PROVE  \E x \in T : \A y \in T : x <= y
    OBVIOUS
  <2>2. PICK a \in T : TRUE
    BY <2>1
  <2>3. Cardinality(T \ {a}) <= n
    BY <1>1, <2>1, FS_RemoveElement
  <2>4. CASE T \ {a} = {}
    BY <2>4
  <2>5. CASE T \ {a} # {}
    <3>1. PICK x \in T \ {a} : \A y \in T \ {a} : x <= y
      BY <2>3, <2>5
    <3>2. CASE a <= x
      BY <3>1, <3>2
    <3>3. CASE ~(a <= x)
      BY <3>1, <3>3
    <3>4. QED
      BY <3>2, <3>3
  <2>6. QED
    BY <2>4, <2>5
<1>4. N = Nat
  <2> HIDE DEF N
  <2>1. N \in SUBSET Nat
    BY DEF N
  <2>2. QED
    BY <1>2, <1>3, <2>1, NatSetInduction
<1>5. QED
  BY <1>1, <1>4

\* Every number of members below is that of some member.
LEMMA RanksAreTaken ==
  ASSUME NEW S, IsFiniteSet(S), S \subseteq Int, NEW n \in Nat, n < Cardinality(S)
  PROVE  \E x \in S : Rank(S, x) = n
<1> DEFINE N == {i \in Nat : i < Cardinality(S) => \E x \in S : Rank(S, x) = i}
<1>1. Cardinality(S) \in Nat
  BY FS_CardinalityType
<1>2. 0 \in N
  <2>1. SUFFICES ASSUME 0 < Cardinality(S) PROVE \E x \in S : Rank(S, x) = 0
    OBVIOUS
  <2>2. S # {}
    BY <2>1, FS_EmptySet
  <2>3. PICK x \in S : \A y \in S : x <= y
    BY <2>2, LeastExists
  <2>4. Under(S, x) = {}
    <3>1. ASSUME NEW y \in S PROVE ~(y < x)
      <4>1. y \in Int /\ x \in Int /\ x <= y
        BY <2>3
      <4>2. QED
        BY <4>1
    <3>2. QED
      BY <3>1, UnderIs
  <2>5. QED
    BY <2>4, FS_EmptySet DEF Rank
<1>3. ASSUME NEW i \in N PROVE i + 1 \in N
  <2>1. i \in Nat /\ (i < Cardinality(S) => \E x \in S : Rank(S, x) = i)
    OBVIOUS
  <2>2. SUFFICES ASSUME i + 1 < Cardinality(S) PROVE \E x \in S : Rank(S, x) = i + 1
    BY <2>1
  <2> HIDE DEF N
  <2>3. PICK m \in S : Rank(S, m) = i
    BY <1>1, <2>1, <2>2
  <2> DEFINE later == {x \in S : x > m}
  <2>4. IsFiniteSet(later) /\ later \subseteq Int /\ IsFiniteSet(Under(S, m))
    BY FS_Subset, RanksAre
  <2>5. m \in Int /\ m \notin Under(S, m) /\ S = (Under(S, m) \cup {m}) \cup later
    <3>1. m \in Int
      OBVIOUS
    <3>2. ASSUME NEW y \in S PROVE y < m \/ y = m \/ y > m
      <4>1. y \in Int
        OBVIOUS
      <4>2. QED
        BY <3>1, <4>1
    <3>3. m \notin Under(S, m)
      BY <3>1, UnderIs
    <3>4. \A y : y \in later <=> y \in S /\ y > m
      OBVIOUS
    <3> HIDE DEF later
    <3>5. \A y : y \in S <=> y \in (Under(S, m) \cup {m}) \cup later
      BY <3>2, <3>4, UnderIs
    <3>6. QED
      BY <3>1, <3>3, <3>5
  <2>6. Cardinality(Under(S, m) \cup {m}) = i + 1
    BY <2>1, <2>3, <2>4, <2>5, FS_AddElement DEF Rank
  <2>7. later # {}
    <3>1. ASSUME later = {} PROVE FALSE
      <4>1. S = Under(S, m) \cup {m}
        BY <2>5, <3>1
      <4>2. Cardinality(S) = i + 1
        BY <2>6, <4>1
      <4>3. QED
        BY <1>1, <2>1, <2>2, <4>2
    <3>2. QED
      BY <3>1
  <2>8. PICK x \in later : \A y \in later : x <= y
    <3> HIDE DEF later
    <3>1. QED
      BY <2>4, <2>7, LeastExists
  <2>9. Under(S, x) = Under(S, m) \cup {m}
    <3>1. x \in Int /\ m < x
      BY <2>4, <2>8
    <3>2. ASSUME NEW y \in S PROVE y < x <=> (y < m \/ y = m)
      <4>1. y > m => x <= y
        BY <2>8
      <4>2. y \in Int
        OBVIOUS
      <4>3. QED
        BY <2>5, <3>1, <4>1, <4>2
    <3>3. QED
      BY <3>2, UnderIs
  <2>10. QED
    BY <2>6, <2>9 DEF Rank
<1>4. N = Nat
  <2> HIDE DEF N
  <2>1. N \in SUBSET Nat
    BY DEF N
  <2>2. QED
    BY <1>2, <1>3, <2>1, NatSetInduction
<1>5. QED
  BY <1>4

\* InOrder has each member once, and no other.
LEMMA InOrderIs ==
  ASSUME NEW S, IsFiniteSet(S), S \subseteq Int
  PROVE  /\ InOrder(S) \in Seq(S)
         /\ DOMAIN InOrder(S) = 1..Cardinality(S)
         /\ Len(InOrder(S)) = Cardinality(S) /\ Cardinality(S) \in Nat
         /\ \A x \in S : \E n \in 1..Cardinality(S) : InOrder(S)[n] = x
<1>1. Cardinality(S) \in Nat
  BY FS_CardinalityType
<1>2. InOrder(S) = [n \in 1..Cardinality(S) |-> CHOOSE x \in S : Rank(S, x) = n - 1]
  BY DEF InOrder, Rank, Under
<1>3. ASSUME NEW n \in 1..Cardinality(S)
      PROVE  InOrder(S)[n] \in S /\ Rank(S, InOrder(S)[n]) = n - 1
  <2>1. n - 1 \in Nat /\ n - 1 < Cardinality(S)
    BY <1>1
  <2>2. \E x \in S : Rank(S, x) = n - 1
    BY <2>1, RanksAreTaken
  <2>3. QED
    BY <1>2, <2>2
<1>4. InOrder(S) \in Seq(S) /\ Len(InOrder(S)) = Cardinality(S)
  <2>1. InOrder(S) \in [1..Cardinality(S) -> S]
    BY <1>2, <1>3
  <2>2. QED
    BY <1>1, <2>1
<1>5. ASSUME NEW x \in S PROVE \E n \in 1..Cardinality(S) : InOrder(S)[n] = x
  <2>1. Rank(S, x) \in Nat /\ Rank(S, x) < Cardinality(S)
    BY RanksAre
  <2> DEFINE n == Rank(S, x) + 1
  <2>2. n \in 1..Cardinality(S) /\ n - 1 = Rank(S, x)
    BY <1>1, <2>1
  <2> HIDE DEF n
  <2>3. InOrder(S)[n] \in S /\ Rank(S, InOrder(S)[n]) = Rank(S, x)
    BY <1>3, <2>2
  <2>4. InOrder(S)[n] = x
    <3>1. PICK y \in S : y = InOrder(S)[n]
      BY <2>3
    <3>2. Rank(S, y) = Rank(S, x) /\ x \in Int /\ y \in Int
      BY <2>3, <3>1
    <3>3. ~(x < y) /\ ~(y < x)
      <4>1. x < y => Rank(S, x) < Rank(S, y)
        BY ONLY RanksAre, IsFiniteSet(S), S \subseteq Int, x \in S, y \in S
      <4>2. y < x => Rank(S, y) < Rank(S, x)
        BY ONLY RanksAre, IsFiniteSet(S), S \subseteq Int, x \in S, y \in S
      <4>3. QED
        BY <2>1, <3>2, <4>1, <4>2
    <3>4. QED
      BY <3>1, <3>2, <3>3
  <2>5. QED
    BY <2>2, <2>4
<1>6. QED
  BY <1>1, <1>2, <1>4, <1>5

----------------------------------------------------------------------------
(* What is kept of an enrollment *)

LEMMA KeptIs ==
  ASSUME NEW page \in Seq(Enroll)
  PROVE  /\ Kept(page) \in Seq(Enroll)
         /\ \A e : e \in Range(Kept(page)) <=> e \in Range(page) /\ IsCurrent(Deck[e])
<1> DEFINE places == {i \in DOMAIN page : IsCurrent(Deck[page[i]])}
           order == InOrder(places)
<1>1. IsFiniteSet(places) /\ places \subseteq Int /\ places \subseteq DOMAIN page
  <2>1. DOMAIN page = 1..Len(page) /\ Len(page) \in Nat
    OBVIOUS
  <2>2. IsFiniteSet(DOMAIN page)
    BY <2>1, FS_Interval
  <2>3. QED
    BY <2>1, <2>2, FS_Subset
<1>2. /\ order \in Seq(places)
      /\ DOMAIN order = 1..Cardinality(places) /\ Cardinality(places) \in Nat
      /\ \A i \in places : \E n \in 1..Cardinality(places) : order[n] = i
  BY <1>1, InOrderIs
<1>3. Kept(page) = [n \in DOMAIN order |-> page[order[n]]]
  BY DEF Kept
<1>4. \A i \in places : i \in DOMAIN page /\ IsCurrent(Deck[page[i]])
  OBVIOUS
<1>5. \A i \in DOMAIN page : IsCurrent(Deck[page[i]]) => i \in places
  OBVIOUS
<1> HIDE DEF places, order
<1>6. ASSUME NEW n \in DOMAIN order PROVE order[n] \in places /\ page[order[n]] \in Enroll
  <2>1. order[n] \in places
    BY <1>2
  <2>2. \A i \in DOMAIN page : page[i] \in Enroll
    OBVIOUS
  <2>3. QED
    BY <1>4, <2>1, <2>2
<1>7. Kept(page) \in Seq(Enroll)
  <2>1. Kept(page) \in [1..Cardinality(places) -> Enroll]
    <3>1. Kept(page) = [n \in 1..Cardinality(places) |-> page[order[n]]]
      BY <1>2, <1>3
    <3>2. \A n \in 1..Cardinality(places) : page[order[n]] \in Enroll
      BY <1>2, <1>6
    <3>3. QED
      BY <3>1, <3>2
  <2>2. PICK c \in Nat : c = Cardinality(places)
    BY <1>2
  <2>3. Kept(page) \in [1..c -> Enroll]
    BY <2>1, <2>2
  <2>4. QED
    BY ONLY <2>2, <2>3
<1>8. \A e : e \in Range(Kept(page)) <=> \E n \in DOMAIN order : e = page[order[n]]
  BY <1>3 DEF Range
<1>9. \A e : e \in Range(page) <=> \E i \in DOMAIN page : e = page[i]
  BY DEF Range
<1>10. ASSUME NEW e
       PROVE  e \in Range(Kept(page)) <=> e \in Range(page) /\ IsCurrent(Deck[e])
  <2>1. ASSUME NEW n \in DOMAIN order, e = page[order[n]]
        PROVE  e \in Range(page) /\ IsCurrent(Deck[e])
    BY <1>4, <1>6, <1>9, <2>1
  <2>2. ASSUME NEW i \in DOMAIN page, e = page[i], IsCurrent(Deck[e])
        PROVE  \E n \in DOMAIN order : e = page[order[n]]
    BY <1>2, <1>5, <2>2
  <2>3. QED
    BY <1>8, <1>9, <2>1, <2>2
<1>11. QED
  BY <1>7, <1>10

\* An enrollment that has only what is current, and nothing left out.
Whole(enrollment) ==
  /\ \A s \in enrollment.sessions : s.status = Current
  /\ \A skc \in enrollment.skcs :
       /\ skc.skc # 0
       /\ \A sku \in skc.skus :
            /\ sku.sku # 0
            /\ \A p \in sku.prices :
                 /\ p.site # 0 /\ p.activity # 0
                 /\ \E s \in enrollment.sessions : s.site = p.site

\* currentEnrollment
LEMMA CurrentIsWhole ==
  ASSUME NothingLeftOut, NEW e \in Enroll
  PROVE  Whole(CurrentEnrollment(Deck[e]))
<1> DEFINE d == Deck[e]
           sites == ActiveSites(d)
           Priced(sku) == [sku EXCEPT !.prices = {p \in @ : p.site \in sites}]
           Listed(skc) == [skc EXCEPT !.skus = {Priced(sku) : sku \in @}]
<1>1. d \in EnrollmentType
  BY PullAssumption
<1>2. /\ CurrentEnrollment(d).sessions = CurrentSessions(d)
      /\ CurrentEnrollment(d).skcs = {Listed(skc) : skc \in d.skcs}
  BY <1>1 DEF CurrentEnrollment, EnrollmentType
<1>3. \A s \in CurrentSessions(d) : s.status = Current
  BY DEF CurrentSessions
<1>4. \A site \in sites : \E s \in CurrentSessions(d) : s.site = site
  BY DEF ActiveSites
<1>5. ASSUME NEW skc \in d.skcs
      PROVE  /\ Listed(skc).skc # 0
             /\ Listed(skc).skus = {Priced(sku) : sku \in skc.skus}
             /\ \A sku \in skc.skus :
                  /\ Priced(sku).sku # 0
                  /\ \A p \in Priced(sku).prices : p.site # 0 /\ p.activity # 0 /\ p.site \in sites
  <2>1. skc \in [skc : Int, skus : SUBSET [sku : Int, prices : SUBSET [site : Int, activity : Int]]]
    BY <1>1 DEF EnrollmentType
  <2>2. /\ skc.skc # 0
        /\ \A sku \in skc.skus : sku.sku # 0 /\ \A p \in sku.prices : p.site # 0 /\ p.activity # 0
    BY DEF NothingLeftOut
  <2>3. Listed(skc).skc = skc.skc /\ Listed(skc).skus = {Priced(sku) : sku \in skc.skus}
    BY <2>1
  <2>4. ASSUME NEW sku \in skc.skus
        PROVE  Priced(sku).sku = sku.sku /\ Priced(sku).prices = {p \in sku.prices : p.site \in sites}
    <3>1. sku \in [sku : Int, prices : SUBSET [site : Int, activity : Int]]
      BY <2>1
    <3>2. QED
      BY <3>1
  <2>5. QED
    BY <2>2, <2>3, <2>4
<1> HIDE DEF d, sites, Priced, Listed
<1>6. QED
  BY <1>2, <1>3, <1>4, <1>5 DEF Whole, d

----------------------------------------------------------------------------
(* The two pages *)

\* The filters of both pages, and what one pass through the innermost loop of
\* EffectivePrices appends.
Passed(filter, skc, sku, site) ==
  Passes(filter.skc, skc) /\ Passes(filter.sku, sku) /\ Passes(filter.site, site)

OfferAt(snapshot, i, skc, sku, s, p) ==
  [ at |-> i, enroll |-> snapshot.enrollments[i].enroll, session |-> s.session,
    skc |-> skc.skc, sku |-> sku.sku, site |-> p.site, price |-> p.activity ]

LEMMA OfferIs ==
  ASSUME NEW snapshot, NEW filter, NEW o
  PROVE  o \in Offers(snapshot, filter) <=>
           \E i \in DOMAIN snapshot.enrollments :
             \E skc \in snapshot.enrollments[i].skcs : \E sku \in skc.skus :
               \E s \in snapshot.enrollments[i].sessions : \E p \in sku.prices :
                 /\ s.status = Current /\ p.site = s.site
                 /\ Passed(filter, skc.skc, sku.sku, p.site)
                 /\ SKUOnShelf(snapshot, skc.skc, sku.sku)
                 /\ o = OfferAt(snapshot, i, skc, sku, s, p)
<1>1. o \in Offers(snapshot, filter) <=>
        \E i \in DOMAIN snapshot.enrollments : o \in OffersOf(snapshot, i, filter)
  BY DEF Offers
<1>2. ASSUME NEW i \in DOMAIN snapshot.enrollments
      PROVE  o \in OffersOf(snapshot, i, filter) <=>
               \E skc \in snapshot.enrollments[i].skcs : \E sku \in skc.skus :
                 \E s \in snapshot.enrollments[i].sessions : \E p \in sku.prices :
                   /\ s.status = Current /\ p.site = s.site
                   /\ Passed(filter, skc.skc, sku.sku, p.site)
                   /\ SKUOnShelf(snapshot, skc.skc, sku.sku)
                   /\ o = OfferAt(snapshot, i, skc, sku, s, p)
  <2> DEFINE e == snapshot.enrollments[i]
             Some(skc, sku, s) ==
               { OfferAt(snapshot, i, skc, sku, s, p)
                   : p \in {q \in sku.prices : q.site = s.site /\ Passes(filter.site, q.site)} }
             OfSKC(skc) ==
               UNION {Some(skc, sku, s)
                        : sku \in {u \in skc.skus : /\ Passes(filter.sku, u.sku)
                                                    /\ SKUOnShelf(snapshot, skc.skc, u.sku)},
                          s \in {t \in e.sessions : t.status = Current}}
  <2>1. OffersOf(snapshot, i, filter)
          = UNION {OfSKC(skc) : skc \in {k \in e.skcs : Passes(filter.skc, k.skc)}}
    BY DEF OffersOf, OfferAt
  <2>2. ASSUME NEW skc, NEW sku, NEW s
        PROVE  o \in Some(skc, sku, s) <=>
                 \E p \in sku.prices : /\ p.site = s.site /\ Passes(filter.site, p.site)
                                       /\ o = OfferAt(snapshot, i, skc, sku, s, p)
    OBVIOUS
  <2> HIDE DEF Some
  <2>3. ASSUME NEW skc
        PROVE  o \in OfSKC(skc) <=>
                 \E sku \in skc.skus : \E s \in e.sessions :
                   /\ s.status = Current /\ Passes(filter.sku, sku.sku)
                   /\ SKUOnShelf(snapshot, skc.skc, sku.sku)
                   /\ o \in Some(skc, sku, s)
    OBVIOUS
  <2> HIDE DEF OfSKC
  <2>4. o \in OffersOf(snapshot, i, filter) <=>
          \E skc \in e.skcs : Passes(filter.skc, skc.skc) /\ o \in OfSKC(skc)
    BY <2>1
  <2> HIDE DEF e
  <2>5. QED
    BY <2>2, <2>3, <2>4 DEF Passed, e
<1>3. QED
  BY <1>1, <1>2

SoldRows(snapshot, filter) ==
  {r \in ActivityRows(snapshot, filter) :
     r.status = Current /\ r.listed /\ r.shelf = OnShelf /\ r.price # 0}

\* A row names the SKC and SKU it was made for.
LEMMA RowNames ==
  ASSUME NEW snapshot, NEW i, NEW k, NEW u, NEW prices,
         NEW r \in RowsFor(snapshot, i, k, u, prices)
  PROVE  r.skc = k /\ r.sku = u
BY DEF RowsFor, Row

\* The row of a session and a price that belong together.
LEMMA RowOfPair ==
  ASSUME NEW snapshot, NEW i, NEW k, NEW u, NEW prices,
         NEW s \in snapshot.enrollments[i].sessions, NEW p \in prices,
         SameSite(s, p), p.site # 0
  PROVE  Row(snapshot, i, k, u, s, p) \in RowsFor(snapshot, i, k, u, prices)
<1>1. <<s, p>> \in Pairs(snapshot.enrollments[i].sessions, prices)
  BY DEF Pairs
<1>2. QED
  BY <1>1 DEF RowsFor

\* A row with a current session and a price is that of such a pair.
LEMMA PairOfRow ==
  ASSUME NEW snapshot, NEW i, NEW k, NEW u, NEW prices,
         NEW r \in RowsFor(snapshot, i, k, u, prices), r.status = Current, r.price # 0
  PROVE  \E s \in snapshot.enrollments[i].sessions : \E p \in prices :
           SameSite(s, p) /\ r = Row(snapshot, i, k, u, s, p)
<1>1. PICK sp \in Pairs(snapshot.enrollments[i].sessions, prices) :
        r = Row(snapshot, i, k, u, sp[1], sp[2])
  BY DEF RowsFor
<1>2. r.status = sp[1].status /\ r.price = sp[2].activity
  BY <1>1 DEF Row
<1>3. sp[1] # NoSession /\ sp[2] # NoSitePrice
  BY <1>2 DEF NoSession, NoSitePrice, Current
<1>4. sp \in snapshot.enrollments[i].sessions \X prices /\ SameSite(sp[1], sp[2])
  BY <1>3 DEF Pairs
<1>5. QED
  BY <1>1, <1>4

LEMMA RowIs ==
  ASSUME NEW snapshot, NEW filter,
         \A i \in DOMAIN snapshot.enrollments : Whole(snapshot.enrollments[i]),
         NEW r
  PROVE  r \in SoldRows(snapshot, filter) <=>
           \E i \in DOMAIN snapshot.enrollments :
             \E skc \in snapshot.enrollments[i].skcs : \E sku \in skc.skus :
               \E s \in snapshot.enrollments[i].sessions : \E p \in sku.prices :
                 /\ SameSite(s, p)
                 /\ Passed(filter, skc.skc, sku.sku, p.site)
                 /\ SKUOnShelf(snapshot, skc.skc, sku.sku)
                 /\ r = Row(snapshot, i, skc.skc, sku.sku, s, p)
<1> DEFINE SKCRows(i, skc) ==
             IF skc.skus = {} THEN RowsFor(snapshot, i, skc.skc, 0, {})
             ELSE UNION {RowsFor(snapshot, i, skc.skc, sku.sku, sku.prices)
                           : sku \in {u \in skc.skus : Passes(filter.sku, u.sku)}}
           Sold == r.status = Current /\ r.listed /\ r.shelf = OnShelf /\ r.price # 0
<1>1. \A i : EnrollmentRows(snapshot, i, filter)
               = IF snapshot.enrollments[i].skcs = {} THEN RowsFor(snapshot, i, 0, 0, {})
                 ELSE UNION {SKCRows(i, skc) : skc \in {k \in snapshot.enrollments[i].skcs :
                                                          Passes(filter.skc, k.skc)}}
  BY DEF EnrollmentRows
<1>2. r \in SoldRows(snapshot, filter) <=>
        /\ \E i \in DOMAIN snapshot.enrollments : r \in EnrollmentRows(snapshot, i, filter)
        /\ Passed(filter, r.skc, r.sku, r.site)
        /\ Sold
  BY DEF SoldRows, ActivityRows, FilteredRows, Passed
<1>3. \A i, skc : r \in SKCRows(i, skc) =>
        \/ r \in RowsFor(snapshot, i, skc.skc, 0, {})
        \/ \E sku \in skc.skus : r \in RowsFor(snapshot, i, skc.skc, sku.sku, sku.prices)
  OBVIOUS
<1>4. ASSUME NEW i, NEW skc, NEW sku \in skc.skus, Passes(filter.sku, sku.sku),
             r \in RowsFor(snapshot, i, skc.skc, sku.sku, sku.prices)
      PROVE  r \in SKCRows(i, skc)
  BY <1>4
<1> HIDE DEF SKCRows
<1>5. \A i, skc : /\ skc \in snapshot.enrollments[i].skcs /\ Passes(filter.skc, skc.skc)
                  /\ r \in SKCRows(i, skc)
                  => r \in EnrollmentRows(snapshot, i, filter)
  BY <1>1
<1>6. \A i : r \in EnrollmentRows(snapshot, i, filter) =>
        \/ r \in RowsFor(snapshot, i, 0, 0, {})
        \/ \E skc \in snapshot.enrollments[i].skcs : r \in SKCRows(i, skc)
  BY <1>1
<1>7. ASSUME NEW i, NEW k, NEW u, NEW s, NEW p, p.site # 0, s.status = Current, p.activity # 0,
             r = Row(snapshot, i, k, u, s, p)
      PROVE  /\ r.skc = k /\ r.sku = u /\ r.site = p.site
             /\ Sold <=> SKUOnShelf(snapshot, k, u)
  BY <1>7 DEF Row, SKUOnShelf, SKUListed, OnShelf
<1>8. ASSUME NEW i \in DOMAIN snapshot.enrollments,
             NEW skc \in snapshot.enrollments[i].skcs, NEW sku \in skc.skus,
             NEW s \in snapshot.enrollments[i].sessions, NEW p \in sku.prices
      PROVE  s.status = Current /\ p.site # 0 /\ p.activity # 0
  BY DEF Whole
<1>9. ASSUME r \in SoldRows(snapshot, filter)
      PROVE  \E i \in DOMAIN snapshot.enrollments :
               \E skc \in snapshot.enrollments[i].skcs : \E sku \in skc.skus :
                 \E s \in snapshot.enrollments[i].sessions : \E p \in sku.prices :
                   /\ SameSite(s, p)
                   /\ Passed(filter, skc.skc, sku.sku, p.site)
                   /\ SKUOnShelf(snapshot, skc.skc, sku.sku)
                   /\ r = Row(snapshot, i, skc.skc, sku.sku, s, p)
  <2>1. PICK i \in DOMAIN snapshot.enrollments : r \in EnrollmentRows(snapshot, i, filter)
    BY <1>2, <1>9
  <2>2. Sold /\ Passed(filter, r.skc, r.sku, r.site)
    BY <1>2, <1>9
  <2>3. ~ \E k, u : r \in RowsFor(snapshot, i, k, u, {})
    BY <2>2, PairOfRow
  <2>4. PICK skc \in snapshot.enrollments[i].skcs : r \in SKCRows(i, skc)
    BY <1>6, <2>1, <2>3
  <2>5. PICK sku \in skc.skus : r \in RowsFor(snapshot, i, skc.skc, sku.sku, sku.prices)
    BY <1>3, <2>3, <2>4
  <2>6. PICK s \in snapshot.enrollments[i].sessions, p \in sku.prices :
          SameSite(s, p) /\ r = Row(snapshot, i, skc.skc, sku.sku, s, p)
    BY <2>2, <2>5, PairOfRow
  <2>7. s.status = Current /\ p.site # 0 /\ p.activity # 0
    BY <1>8
  <2>8. /\ r.skc = skc.skc /\ r.sku = sku.sku /\ r.site = p.site
        /\ SKUOnShelf(snapshot, skc.skc, sku.sku)
    BY <1>7, <2>2, <2>6, <2>7
  <2>9. Passed(filter, skc.skc, sku.sku, p.site)
    BY <2>2, <2>8
  <2>10. QED
    BY <2>6, <2>8, <2>9
<1>10. ASSUME NEW i \in DOMAIN snapshot.enrollments,
              NEW skc \in snapshot.enrollments[i].skcs, NEW sku \in skc.skus,
              NEW s \in snapshot.enrollments[i].sessions, NEW p \in sku.prices,
              SameSite(s, p), Passed(filter, skc.skc, sku.sku, p.site),
              SKUOnShelf(snapshot, skc.skc, sku.sku),
              r = Row(snapshot, i, skc.skc, sku.sku, s, p)
       PROVE  r \in SoldRows(snapshot, filter)
  <2>1. s.status = Current /\ p.site # 0 /\ p.activity # 0
    BY <1>8
  <2>2. r.skc = skc.skc /\ r.sku = sku.sku /\ r.site = p.site /\ Sold
    BY <1>7, <1>10, <2>1
  <2>3. r \in RowsFor(snapshot, i, skc.skc, sku.sku, sku.prices)
    BY <1>10, <2>1, RowOfPair
  <2>4. Passes(filter.sku, sku.sku) /\ Passes(filter.skc, skc.skc)
    BY <1>10 DEF Passed
  <2>5. r \in SKCRows(i, skc)
    BY <1>4, <2>3, <2>4
  <2>6. r \in EnrollmentRows(snapshot, i, filter)
    BY <1>5, <2>4, <2>5
  <2>7. Passed(filter, r.skc, r.sku, r.site)
    BY <1>10, <2>2
  <2>8. QED
    BY <1>2, <2>2, <2>6, <2>7
<1>11. QED
  <2> HIDE DEF Sold
  <2>1. QED
    BY <1>9, <1>10

LEMMA AnythingPasses ==
  ASSUME NEW skc, NEW sku, NEW site
  PROVE  Passed(Anything, skc, sku, site)
BY DEF Passed, Passes, Anything

\* A filter that names an SKC, an SKU and a site lets nothing else pass.
Names(key) ==
  /\ key = [skc |-> key.skc, sku |-> key.sku, site |-> key.site]
  /\ key.skc # 0 /\ key.sku # 0 /\ key.site # 0

LEMMA OnlyNamedPasses ==
  ASSUME NEW key, Names(key), NEW skc, NEW sku, NEW site
  PROVE  Passed(key, skc, sku, site) <=> [skc |-> skc, sku |-> sku, site |-> site] = key
BY DEF Names, Passed, Passes

\* A session and a price of one SKU of the i-th enrollment.
Sells(snapshot, i, skc, sku, s, p) ==
  /\ i \in DOMAIN snapshot.enrollments
  /\ skc \in snapshot.enrollments[i].skcs /\ sku \in skc.skus
  /\ s \in snapshot.enrollments[i].sessions /\ p \in sku.prices

AllWhole(snapshot) ==
  \A i \in DOMAIN snapshot.enrollments : Whole(snapshot.enrollments[i])

LEMMA OffersHaveRows ==
  ASSUME NEW snapshot, AllWhole(snapshot), NEW filter, NEW o \in Offers(snapshot, filter)
  PROVE  \E r \in SoldRows(snapshot, filter) : OfferKey(r) = OfferKey(o) /\ r.price = o.price
<1>1. PICK i, skc, sku, s, p :
        /\ Sells(snapshot, i, skc, sku, s, p)
        /\ s.status = Current /\ p.site = s.site
        /\ Passed(filter, skc.skc, sku.sku, p.site)
        /\ SKUOnShelf(snapshot, skc.skc, sku.sku)
        /\ o = OfferAt(snapshot, i, skc, sku, s, p)
  BY OfferIs DEF Sells
<1> DEFINE r == Row(snapshot, i, skc.skc, sku.sku, s, p)
<1>2. SameSite(s, p)
  BY <1>1 DEF SameSite
<1>3. p.site # 0
  BY <1>1 DEF AllWhole, Whole, Sells
<1>4. r \in SoldRows(snapshot, filter)
  BY <1>1, <1>2, RowIs DEF AllWhole, Sells
<1>5. OfferKey(r) = OfferKey(o) /\ r.price = o.price
  BY <1>1, <1>3 DEF OfferAt, Row, OfferKey
<1>6. QED
  BY <1>4, <1>5

LEMMA RowsHaveOffers ==
  ASSUME NEW snapshot, AllWhole(snapshot), NEW filter, NEW r \in SoldRows(snapshot, filter)
  PROVE  \E o \in Offers(snapshot, filter) : OfferKey(r) = OfferKey(o) /\ r.price = o.price
<1>1. PICK i, skc, sku, s, p :
        /\ Sells(snapshot, i, skc, sku, s, p)
        /\ SameSite(s, p)
        /\ Passed(filter, skc.skc, sku.sku, p.site)
        /\ SKUOnShelf(snapshot, skc.skc, sku.sku)
        /\ r = Row(snapshot, i, skc.skc, sku.sku, s, p)
  BY RowIs DEF AllWhole, Sells
<1>2. PICK t \in snapshot.enrollments[i].sessions : t.site = p.site
  BY <1>1 DEF AllWhole, Whole, Sells
<1>3. t.status = Current /\ p.site # 0
  BY <1>1, <1>2 DEF AllWhole, Whole, Sells
<1> DEFINE o == OfferAt(snapshot, i, skc, sku, t, p)
<1>4. o \in Offers(snapshot, filter)
  BY <1>1, <1>2, <1>3, OfferIs DEF Sells
<1>5. OfferKey(r) = OfferKey(o) /\ r.price = o.price
  BY <1>1, <1>3 DEF OfferAt, Row, OfferKey
<1>6. QED
  BY <1>4, <1>5

LEMMA OffersAreNamed ==
  ASSUME NEW snapshot, AllWhole(snapshot), NEW filter, NEW o \in Offers(snapshot, filter)
  PROVE  Names(OfferKey(o))
<1>1. PICK i, skc, sku, s, p :
        Sells(snapshot, i, skc, sku, s, p) /\ o = OfferAt(snapshot, i, skc, sku, s, p)
  BY OfferIs DEF Sells
<1>2. skc.skc # 0 /\ sku.sku # 0 /\ p.site # 0
  BY <1>1 DEF AllWhole, Whole, Sells
<1>3. OfferKey(o) = [skc |-> skc.skc, sku |-> sku.sku, site |-> p.site]
  BY <1>1, <1>2 DEF OfferAt, OfferKey
<1>4. QED
  BY <1>2, <1>3 DEF Names

\* Asked for one SKU at one site, the offers are those of it.
LEMMA OffersOfOne ==
  ASSUME NEW snapshot, AllWhole(snapshot), NEW key, Names(key)
  PROVE  Offers(snapshot, key) = {o \in Offers(snapshot, Anything) : OfferKey(o) = key}
<1>1. ASSUME NEW o
      PROVE  o \in Offers(snapshot, key) <=> o \in Offers(snapshot, Anything) /\ OfferKey(o) = key
  <2>1. ASSUME NEW i \in DOMAIN snapshot.enrollments,
               NEW skc \in snapshot.enrollments[i].skcs, NEW sku \in skc.skus,
               NEW s \in snapshot.enrollments[i].sessions, NEW p \in sku.prices,
               o = OfferAt(snapshot, i, skc, sku, s, p)
        PROVE  Passed(key, skc.skc, sku.sku, p.site) <=> OfferKey(o) = key
    <3>1. OfferKey(o) = [skc |-> skc.skc, sku |-> sku.sku, site |-> p.site]
      BY <2>1 DEF OfferAt, OfferKey
    <3>2. QED
      BY <3>1, OnlyNamedPasses
  <2>2. QED
    BY <2>1, OfferIs, AnythingPasses
<1>2. QED
  BY <1>1

\* The rows of an enrollment, under a filter: those of the SKCs and SKUs that
\* pass it, and rows without an SKU.
LEMMA RowsOfOne ==
  ASSUME NEW snapshot, NEW key, Names(key)
  PROVE  ActivityRows(snapshot, key) = {r \in ActivityRows(snapshot, Anything) : OfferKey(r) = key}
<1> DEFINE enrolled(i) == snapshot.enrollments[i].skcs
           SKCRows(i, skc, filter) ==
             IF skc.skus = {} THEN RowsFor(snapshot, i, skc.skc, 0, {})
             ELSE UNION {RowsFor(snapshot, i, skc.skc, sku.sku, sku.prices)
                           : sku \in {u \in skc.skus : Passes(filter.sku, u.sku)}}
<1>1. ASSUME NEW filter, NEW i
      PROVE  EnrollmentRows(snapshot, i, filter)
               = IF enrolled(i) = {} THEN RowsFor(snapshot, i, 0, 0, {})
                 ELSE UNION {SKCRows(i, skc, filter) : skc \in {k \in enrolled(i) :
                                                                  Passes(filter.skc, k.skc)}}
  BY DEF EnrollmentRows
<1>2. ASSUME NEW r, NEW filter
      PROVE  r \in ActivityRows(snapshot, filter) <=>
               /\ \E i \in DOMAIN snapshot.enrollments : r \in EnrollmentRows(snapshot, i, filter)
               /\ Passed(filter, r.skc, r.sku, r.site)
  BY DEF ActivityRows, FilteredRows, Passed
<1>3. ASSUME NEW r, NEW i, NEW skc, NEW filter,
             filter = Anything \/ (filter = key /\ OfferKey(r) = key)
      PROVE  /\ r \in SKCRows(i, skc, filter) <=> r \in SKCRows(i, skc, Anything)
             /\ r \in SKCRows(i, skc, filter) => Passes(filter.skc, skc.skc)
  <2>1. \A id : Passes(Anything.sku, id) /\ Passes(Anything.skc, id)
    BY DEF Passes, Anything
  <2>2. CASE filter = Anything
    BY <2>1, <2>2
  <2>3. CASE filter = key /\ OfferKey(r) = key
    <3>1. r.skc = key.skc /\ r.sku = key.sku /\ r.site = key.site
      BY <2>3 DEF OfferKey
    <3>2. CASE skc.skus = {}
      <4>1. r \in RowsFor(snapshot, i, skc.skc, 0, {}) => r.skc = skc.skc
        BY RowNames
      <4>2. QED
        BY <2>3, <3>1, <3>2, <4>1 DEF Passes
    <3>3. CASE skc.skus # {}
      <4>1. \A sku : r \in RowsFor(snapshot, i, skc.skc, sku.sku, sku.prices) =>
                       r.skc = skc.skc /\ r.sku = sku.sku
        BY RowNames
      <4>2. ASSUME NEW f
            PROVE  r \in SKCRows(i, skc, f) <=>
                     \E sku \in skc.skus : /\ Passes(f.sku, sku.sku)
                                           /\ r \in RowsFor(snapshot, i, skc.skc, sku.sku, sku.prices)
        BY <3>3
      <4> HIDE DEF SKCRows
      <4>3. \A sku : r \in RowsFor(snapshot, i, skc.skc, sku.sku, sku.prices) =>
                       Passes(key.sku, sku.sku) /\ Passes(key.skc, skc.skc)
        BY <3>1, <4>1 DEF Passes
      <4>4. QED
        BY <2>1, <2>3, <4>2, <4>3
    <3>4. QED
      BY <3>2, <3>3
  <2>4. QED
    BY <1>3, <2>2, <2>3
<1> HIDE DEF SKCRows
<1>4. ASSUME NEW r, NEW i, OfferKey(r) = key
      PROVE  r \in EnrollmentRows(snapshot, i, key) <=> r \in EnrollmentRows(snapshot, i, Anything)
  <2>1. CASE enrolled(i) = {}
    BY <1>1, <2>1
  <2>2. CASE enrolled(i) # {}
    <3>1. ASSUME NEW filter
          PROVE  r \in EnrollmentRows(snapshot, i, filter) <=>
                   \E skc \in enrolled(i) : Passes(filter.skc, skc.skc) /\ r \in SKCRows(i, skc, filter)
      <4> HIDE DEF enrolled
      <4>1. QED
        BY <1>1, <2>2
    <3>2. QED
      BY <1>3, <1>4, <3>1
  <2>3. QED
    BY <2>1, <2>2
<1>5. ASSUME NEW r
      PROVE  r \in ActivityRows(snapshot, key) <=>
               r \in ActivityRows(snapshot, Anything) /\ OfferKey(r) = key
  <2>1. Passed(key, r.skc, r.sku, r.site) <=> OfferKey(r) = key
    BY OnlyNamedPasses DEF OfferKey
  <2>2. QED
    BY <1>2, <1>4, <2>1, AnythingPasses
<1>6. QED
  BY <1>5

\* The set of effective prices, by key.
OffersFor(snapshot, key) == {o \in Offers(snapshot, Anything) : OfferKey(o) = key}
PriceFor(snapshot, key) ==
  LET lowest == Min({o.price : o \in OffersFor(snapshot, key)})
  IN  [ key |-> key, price |-> lowest, active |-> OffersFor(snapshot, key),
        winning |-> {o \in OffersFor(snapshot, key) : o.price = lowest} ]

LEMMA PricesAre ==
  ASSUME NEW snapshot
  PROVE  EffectivePrices(snapshot, Anything)
           = {PriceFor(snapshot, key) : key \in {OfferKey(o) : o \in Offers(snapshot, Anything)}}
BY DEF EffectivePrices, PriceFor, OffersFor

LEMMA PriceOfOne ==
  ASSUME NEW snapshot, AllWhole(snapshot), NEW o \in Offers(snapshot, Anything)
  PROVE  EffectivePrices(snapshot, OfferKey(o)) = {PriceFor(snapshot, OfferKey(o))}
<1> DEFINE key == OfferKey(o)
           those == OffersFor(snapshot, key)
           lowest == Min({q.price : q \in those})
           Priced(k) ==
             [ key |-> k, price |-> Min({q.price : q \in {x \in those : OfferKey(x) = k}}),
               active |-> {x \in those : OfferKey(x) = k},
               winning |-> {x \in {y \in those : OfferKey(y) = k} :
                              x.price = Min({q.price : q \in {y \in those : OfferKey(y) = k}})} ]
<1>1. Offers(snapshot, key) = those
  BY OffersAreNamed, OffersOfOne DEF OffersFor
<1>2. EffectivePrices(snapshot, key) = {Priced(k) : k \in {OfferKey(x) : x \in those}}
  BY <1>1 DEF EffectivePrices
<1>3. {x \in those : OfferKey(x) = key} = those
  BY DEF OffersFor
<1>4. {OfferKey(x) : x \in those} = {key}
  BY DEF OffersFor
<1>5. Priced(key) = PriceFor(snapshot, key)
  BY <1>3 DEF PriceFor
<1> HIDE DEF Priced
<1>6. QED
  BY <1>2, <1>4, <1>5

LEMMA WholeSnapshotsAgree ==
  ASSUME AllWhole(SnapshotOf(published))
  PROVE  PagesAgree
<1> DEFINE snapshot == SnapshotOf(published)
           prices == EffectivePrices(snapshot, Anything)
           rows == ActivityRows(snapshot, Anything)
           sold == SoldRows(snapshot, Anything)
           Key(o) == OfferKey(o)
<1>1. sold = {r \in rows : r.status = Current /\ r.listed /\ r.shelf = OnShelf /\ r.price # 0}
  BY DEF SoldRows
<1> HIDE DEF snapshot, sold
<1>2. AllWhole(snapshot)
  BY DEF snapshot
<1>3. \A p \in prices : \E o \in Offers(snapshot, Anything) : p = PriceFor(snapshot, Key(o))
  BY PricesAre
<1>4. \A o : PriceFor(snapshot, Key(o)).key = Key(o)
  BY DEF PriceFor
<1>5. {p.key : p \in prices} = {Key(o) : o \in Offers(snapshot, Anything)}
  <2>1. \A o \in Offers(snapshot, Anything) : PriceFor(snapshot, Key(o)) \in prices
    BY PricesAre
  <2> HIDE DEF prices, Key
  <2>2. QED
    BY <1>3, <1>4, <2>1
<1>6. {Key(o) : o \in Offers(snapshot, Anything)} = {Key(r) : r \in sold}
  <2>1. \A o \in Offers(snapshot, Anything) : \E r \in sold : Key(o) = Key(r)
    BY <1>2, OffersHaveRows DEF sold
  <2>2. \A r \in sold : \E o \in Offers(snapshot, Anything) : Key(o) = Key(r)
    BY <1>2, RowsHaveOffers DEF sold
  <2> HIDE DEF Key
  <2>3. QED
    BY <2>1, <2>2
<1>7. ASSUME NEW key
      PROVE  PriceFor(snapshot, key).price = Min({r.price : r \in {q \in sold : Key(q) = key}})
  <2> DEFINE offered == {o.price : o \in OffersFor(snapshot, key)}
             charged == {r.price : r \in {q \in sold : Key(q) = key}}
  <2>1. \A o \in Offers(snapshot, Anything) : \E r \in sold : Key(r) = Key(o) /\ r.price = o.price
    BY <1>2, OffersHaveRows DEF sold
  <2>2. \A r \in sold : \E o \in Offers(snapshot, Anything) : Key(r) = Key(o) /\ r.price = o.price
    BY <1>2, RowsHaveOffers DEF sold
  <2>3. OffersFor(snapshot, key) = {o \in Offers(snapshot, Anything) : Key(o) = key}
    BY DEF OffersFor
  <2> HIDE DEF Key
  <2>4. offered = charged
    BY <2>1, <2>2, <2>3
  <2>5. PriceFor(snapshot, key).price = Min(offered)
    BY DEF PriceFor
  <2> HIDE DEF offered, charged
  <2>6. PriceFor(snapshot, key).price = Min(charged)
    BY <2>4, <2>5
  <2>7. QED
    BY <2>6 DEF charged
<1>8. \A p \in prices :
        /\ p.price = Min({r.price : r \in {q \in sold : Key(q) = p.key}})
        /\ EffectivePrices(snapshot, p.key) = {p}
        /\ ActivityRows(snapshot, p.key) = {r \in rows : Key(r) = p.key}
  <2>1. TAKE p \in prices
  <2>2. PICK o \in Offers(snapshot, Anything) : p = PriceFor(snapshot, Key(o))
    BY <1>3
  <2>3. p.key = Key(o)
    BY <1>4, <2>2
  <2>4. Names(Key(o))
    BY <1>2, OffersAreNamed
  <2>5. EffectivePrices(snapshot, p.key) = {p}
    BY <1>2, <2>2, <2>3, PriceOfOne
  <2>6. ActivityRows(snapshot, p.key) = {r \in rows : Key(r) = p.key}
    BY <2>3, <2>4, RowsOfOne
  <2>7. p.price = Min({r.price : r \in {q \in sold : Key(q) = p.key}})
    BY <1>7, <2>2, <2>3
  <2>8. QED
    BY <2>5, <2>6, <2>7
<1>9. QED
  BY <1>1, <1>5, <1>6, <1>8 DEF PagesAgree, snapshot

----------------------------------------------------------------------------
(* What a pull has, and what it has still to ask for *)

\* The members of a list behind a place.
Ahead(seq, place) == {seq[i] : i \in {n \in DOMAIN seq : n > place}}

\* currentSKCIDs, and the records that a batch of them has.
SKCsOf(enrollments) ==
  CurrentSKCs(SnapshotOf([enrollments |-> enrollments, goods |-> {}]))

RecordsOf(batch) == InOrder(Range(batch) \cap DOMAIN Goods)

RequestType ==
  [list : {"enrollments", "goods"}, page : Nat \ {0}, batch : Nat, received : Nat]

\* The enrollments of the pull that were listed all the time are in the draft
\* or on a page not asked for yet.
EnrollmentsKept ==
  (request.list = "enrollments") =>
    /\ draft.goods = {}
    /\ ~shrank => {e \in listed : IsCurrent(Deck[e])}
                    \subseteq Range(draft.enrollments)
                              \cup Ahead(listing, (request.page - 1) * EnrollmentPage)

\* All of them are in it when the goods are asked for, and the goods of each
\* SKC are in it, in a batch not begun or on a page not asked for.
GoodsKept ==
  (request.list = "goods") =>
    /\ ~shrank => {e \in listed : IsCurrent(Deck[e])} \subseteq Range(draft.enrollments)
    /\ request.batch \in 1..Len(Batches(draft.enrollments))
    /\ request.received = (request.page - 1) * GoodsPage
    /\ draft.goods \subseteq SKCsOf(draft.enrollments)
    /\ SKCsOf(draft.enrollments) \cap DOMAIN Goods
         \subseteq draft.goods \cup Ahead(InOrder(SKCsOf(draft.enrollments)),
                                          (request.batch - 1) * GoodsBatch)
    /\ LET batch == Batches(draft.enrollments)[request.batch]
       IN  Range(batch) \cap DOMAIN Goods
             \subseteq draft.goods \cup Ahead(RecordsOf(batch), (request.page - 1) * GoodsPage)

PullInv ==
  /\ listing \in Seq(Enroll)
  /\ request \in RequestType
  /\ draft \in [enrollments : Seq(Enroll), goods : SUBSET DOMAIN Goods]
  /\ published # NoSnapshot => published.enrollments \in Seq(Enroll)
  /\ pc # "idle" => EnrollmentsKept /\ GoodsKept

LEMMA AheadIs ==
  ASSUME NEW seq, NEW place, NEW x
  PROVE  x \in Ahead(seq, place) <=> \E n \in DOMAIN seq : n > place /\ seq[n] = x
BY DEF Ahead

LEMMA LeastOfTwo ==
  ASSUME NEW a \in Int, NEW b \in Int
  PROVE  Min({a, b}) = IF a <= b THEN a ELSE b
BY DEF Min

LEMMA StretchIs ==
  ASSUME NEW S, NEW seq \in Seq(S), NEW first \in Nat, NEW end \in Nat, end <= Len(seq)
  PROVE  LET it == SubSeq(seq, first + 1, end)
         IN  /\ it \in Seq(S) /\ Len(it) \in Nat /\ DOMAIN it = 1..Len(it)
             /\ Len(it) = IF first + 1 <= end THEN end - first ELSE 0
             /\ \A n \in first + 1 .. end : n - first \in DOMAIN it /\ it[n - first] = seq[n]
             /\ \A i \in DOMAIN it : i + first \in first + 1 .. end /\ it[i] = seq[i + first]
<1> DEFINE it == SubSeq(seq, first + 1, end)
<1>1. Len(seq) \in Nat /\ DOMAIN seq = 1..Len(seq)
  OBVIOUS
<1>2. \A n \in first + 1 .. end : n \in DOMAIN seq
  BY <1>1
<1>3. /\ it \in Seq(S)
      /\ Len(it) = IF first + 1 <= end THEN end - (first + 1) + 1 ELSE 0
      /\ \A i \in 1 .. end - (first + 1) + 1 : it[i] = seq[first + 1 + i - 1]
  BY <1>2, SubSeqProperties
<1> HIDE DEF it
<1>4. DOMAIN it = 1..Len(it) /\ Len(it) \in Nat
  BY <1>3
<1>5. Len(it) = IF first + 1 <= end THEN end - first ELSE 0
  BY <1>3
<1>6. ASSUME NEW i \in DOMAIN it PROVE i + first \in first + 1 .. end /\ it[i] = seq[i + first]
  <2>1. i \in 1..end - (first + 1) + 1 /\ first + 1 + i - 1 = i + first
    BY <1>4, <1>5
  <2>2. QED
    BY <1>3, <2>1
<1>7. ASSUME NEW n \in first + 1 .. end PROVE n - first \in DOMAIN it /\ it[n - first] = seq[n]
  <2>1. n - first \in 1..end - (first + 1) + 1 /\ first + 1 + (n - first) - 1 = n
    OBVIOUS
  <2>2. n - first \in DOMAIN it
    BY <1>4, <1>5
  <2>3. QED
    BY <1>3, <2>1, <2>2
<1>8. QED
  BY <1>3, <1>4, <1>5, <1>6, <1>7 DEF it

\* The places of a page.
LEMMA PageIs ==
  ASSUME NEW S, NEW seq \in Seq(S), NEW size \in Nat \ {0}, NEW page \in Nat \ {0}
  PROVE  /\ (page - 1) * size \in Nat /\ page * size = (page - 1) * size + size
         /\ PageOf(seq, size, page) \in Seq(S)
         /\ Range(PageOf(seq, size, page)) \subseteq Range(seq)
         /\ Len(PageOf(seq, size, page)) <= size
         /\ Ahead(seq, (page - 1) * size) \subseteq
              Range(PageOf(seq, size, page)) \cup Ahead(seq, page * size)
         /\ (Len(PageOf(seq, size, page)) < size \/ page * size >= Len(seq)) =>
              Ahead(seq, page * size) = {}
<1>1. (page - 1) * size \in Nat /\ page * size = (page - 1) * size + size
  <2>1. page - 1 \in Nat /\ page = (page - 1) + 1 /\ size \in Nat
    OBVIOUS
  <2>2. page * size = (page - 1) * size + size
    BY <2>1, OneMore
  <2>3. (page - 1) * size \in Nat
    BY <2>1
  <2>4. QED
    BY <2>2, <2>3
<1>2. PICK first \in Nat : first = (page - 1) * size
  BY <1>1
<1>3. PICK last \in Nat : last = page * size
  BY <1>1
<1>4. last = first + size /\ size \in Nat /\ Len(seq) \in Nat /\ DOMAIN seq = 1..Len(seq)
  BY <1>1, <1>2, <1>3
<1>5. PICK end \in Nat : end = Min({last, Len(seq)})
  BY <1>4, LeastOfTwo
<1>6. end \in {last, Len(seq)} /\ end <= last /\ end <= Len(seq)
  BY <1>4, <1>5, LeastOfTwo
<1> DEFINE it == SubSeq(seq, first + 1, end)
<1>7. PageOf(seq, size, page) = it
  BY <1>2, <1>3, <1>5 DEF PageOf
<1>8. /\ it \in Seq(S) /\ Len(it) \in Nat /\ DOMAIN it = 1..Len(it)
      /\ Len(it) = IF first + 1 <= end THEN end - first ELSE 0
      /\ \A n \in first + 1 .. end : n - first \in DOMAIN it /\ it[n - first] = seq[n]
      /\ \A i \in DOMAIN it : i + first \in first + 1 .. end /\ it[i] = seq[i + first]
  BY <1>6, StretchIs
<1> HIDE DEF it
<1>9. Len(it) <= size
  BY <1>2, <1>3, <1>4, <1>5, <1>6, <1>8
<1>10. Range(it) \subseteq Range(seq)
  <2>1. \A n \in first + 1 .. end : n \in DOMAIN seq
    BY <1>2, <1>4, <1>5, <1>6
  <2>2. QED
    BY <1>8, <2>1 DEF Range
<1>11. Ahead(seq, first) \subseteq Range(it) \cup Ahead(seq, last)
  <2>1. ASSUME NEW n \in DOMAIN seq, n > first PROVE seq[n] \in Range(it) \cup Ahead(seq, last)
    <3>1. CASE n > last
      BY <3>1, AheadIs
    <3>2. CASE ~(n > last)
      <4>1. n \in first + 1 .. end
        BY <1>2, <1>3, <1>4, <1>5, <1>6, <2>1, <3>2
      <4>2. QED
        BY <4>1, <1>8 DEF Range
    <3>3. QED
      BY <3>1, <3>2
  <2>2. QED
    BY <2>1, AheadIs
<1>12. ASSUME Len(it) < size \/ last >= Len(seq) PROVE Ahead(seq, last) = {}
  <2>1. last >= Len(seq)
    BY <1>2, <1>3, <1>4, <1>5, <1>6, <1>8, <1>12
  <2>2. \A n \in DOMAIN seq : ~(n > last)
    BY <1>3, <1>4, <2>1
  <2>3. QED
    BY <2>2, AheadIs
<1>13. QED
  BY <1>1, <1>2, <1>3, <1>7, <1>8, <1>9, <1>10, <1>11, <1>12

\* As many batches as it takes.
LEMMA Quotient ==
  ASSUME NEW a \in Nat, NEW b \in Nat \ {0}
  PROVE  (a + b - 1) \div b \in Nat /\ ((a + b - 1) \div b) * b >= a
OBVIOUS

----------------------------------------------------------------------------
(* The listing *)

LEMMA SomeListing ==
  ASSUME NEW S \in SUBSET Enroll
  PROVE  SetToSeq(S) \in Seq(Enroll)
<1>1. IsFiniteSet(S)
  BY PullAssumption, FS_Subset
<1>2. Cardinality(S) \in Nat /\ ExistsBijection(1..Cardinality(S), S)
  BY <1>1, FS_CardinalityType
<1>3. \E f \in [1..Cardinality(S) -> S] : IsInjective(f)
  BY <1>2 DEF ExistsBijection, Bijection, Injection
<1>4. SetToSeq(S) \in [1..Cardinality(S) -> S]
  <2> DEFINE Orders(f) == IsInjective(f)
  <2>1. SetToSeq(S) = CHOOSE f \in [1..Cardinality(S) -> S] : Orders(f)
    BY DEF SetToSeq
  <2>2. \E f \in [1..Cardinality(S) -> S] : Orders(f)
    BY <1>3
  <2> HIDE DEF Orders
  <2>3. QED
    BY <2>1, <2>2
<1>5. QED
  BY <1>2, <1>4

\* What comes into the listing moves no other enrollment forward.
LEMMA InsertAtIs ==
  ASSUME NEW seq \in Seq(Enroll), NEW i \in 1..Len(seq) + 1, NEW e \in Enroll
  PROVE  /\ InsertAt(seq, i, e) \in Seq(Enroll)
         /\ \A place \in Nat : Ahead(seq, place) \subseteq Ahead(InsertAt(seq, i, e), place)
<1> DEFINE before == SubSeq(seq, 0 + 1, i - 1)
           after == SubSeq(seq, (i - 1) + 1, Len(seq))
           all == InsertAt(seq, i, e)
<1>1. Len(seq) \in Nat /\ DOMAIN seq = 1..Len(seq) /\ i - 1 \in Nat /\ i - 1 <= Len(seq)
  OBVIOUS
<1>2. all = (before \o <<e>>) \o after
  <2>1. 0 + 1 = 1 /\ (i - 1) + 1 = i
    BY <1>1
  <2>2. QED
    BY <2>1, Zenon DEF InsertAt
<1>3. /\ before \in Seq(Enroll) /\ Len(before) = i - 1
      /\ \A n \in 1..i - 1 : before[n] = seq[n]
  <2>1. 0 \in Nat /\ i - 1 \in Nat /\ i - 1 <= Len(seq)
    BY <1>1
  <2>2. /\ before \in Seq(Enroll) /\ Len(before) = (IF 0 + 1 <= i - 1 THEN (i - 1) - 0 ELSE 0)
        /\ \A n \in 0 + 1..i - 1 : before[n - 0] = seq[n]
    BY <2>1, StretchIs
  <2> HIDE DEF before
  <2>3. QED
    BY <1>1, <2>2
<1>4. /\ after \in Seq(Enroll) /\ Len(after) = Len(seq) - (i - 1)
      /\ \A n \in i..Len(seq) : after[n - (i - 1)] = seq[n]
  <2>1. /\ after \in Seq(Enroll)
        /\ Len(after) = (IF (i - 1) + 1 <= Len(seq) THEN Len(seq) - (i - 1) ELSE 0)
        /\ \A n \in (i - 1) + 1..Len(seq) : after[n - (i - 1)] = seq[n]
    BY <1>1, StretchIs
  <2> HIDE DEF after
  <2>2. QED
    BY <1>1, <2>1
<1> HIDE DEF before, after
<1>5. /\ before \o <<e>> \in Seq(Enroll) /\ Len(before \o <<e>>) = i
      /\ \A n \in 1..i - 1 : (before \o <<e>>)[n] = seq[n]
  BY <1>1, <1>3
<1>6. /\ all \in Seq(Enroll) /\ Len(all) = Len(seq) + 1
      /\ \A n \in 1..i - 1 : all[n] = seq[n]
      /\ \A n \in i..Len(seq) : all[n + 1] = seq[n]
  <2> DEFINE start == before \o <<e>>
  <2>1. start \in Seq(Enroll) /\ Len(start) = i /\ all = start \o after
    BY <1>2, <1>5
  <2>2. \A n \in 1..i - 1 : start[n] = seq[n]
    BY <1>5
  <2> HIDE DEF start, all
  <2>3. all \in Seq(Enroll) /\ Len(all) = Len(seq) + 1
    <3>1. all \in Seq(Enroll) /\ Len(all) = Len(start) + Len(after)
      BY <1>4, <2>1, ConcatProperties
    <3>2. QED
      BY <1>1, <1>4, <2>1, <3>1
  <2>4. \A n \in 1..i - 1 : all[n] = seq[n]
    <3>1. TAKE n \in 1..i - 1
    <3>2. n \in 1..Len(start) + Len(after) /\ n <= Len(start)
      BY <1>1, <1>4, <2>1
    <3>3. all[n] = start[n]
      BY <1>4, <2>1, <3>2, ConcatProperties
    <3>4. QED
      BY <2>2, <3>3
  <2>5. ASSUME NEW n \in i..Len(seq) PROVE all[n + 1] = seq[n]
    <3>1. n + 1 \in 1..Len(start) + Len(after) /\ ~(n + 1 <= Len(start))
      BY <1>1, <1>4, <2>1
    <3>2. all[n + 1] = after[n + 1 - Len(start)]
      BY <1>4, <2>1, <3>1, ConcatProperties
    <3>3. n + 1 - Len(start) = n - (i - 1)
      BY <2>1
    <3>4. QED
      BY <1>4, <3>2, <3>3
  <2>6. QED
    BY <2>3, <2>4, <2>5
<1> HIDE DEF all
<1>7. ASSUME NEW place \in Nat, NEW n \in DOMAIN seq, n > place
      PROVE  seq[n] \in Ahead(all, place)
  <2>1. DOMAIN all = 1..Len(seq) + 1
    BY <1>6
  <2>2. CASE n <= i - 1
    BY <1>1, <1>6, <1>7, <2>1, <2>2, AheadIs
  <2>3. CASE ~(n <= i - 1)
    <3>1. n \in i..Len(seq) /\ n + 1 \in DOMAIN all /\ n + 1 > place
      BY <1>1, <1>7, <2>1, <2>3
    <3>2. QED
      BY <1>6, <3>1, AheadIs
  <2>4. QED
    BY <2>2, <2>3
<1>8. \A place \in Nat : Ahead(seq, place) \subseteq Ahead(all, place)
  BY <1>7, AheadIs
<1>9. QED
  BY <1>6, <1>8 DEF all

LEMMA RemoveAtIs ==
  ASSUME NEW seq \in Seq(Enroll), NEW i \in DOMAIN seq
  PROVE  RemoveAt(seq, i) \in Seq(Enroll)
<1>1. Len(seq) \in Nat /\ i \in 1..Len(seq)
  OBVIOUS
<1>2. 0 \in Nat /\ i - 1 \in Nat /\ i - 1 <= Len(seq) /\ i \in Nat
  BY <1>1
<1>3. SubSeq(seq, 0 + 1, i - 1) \in Seq(Enroll) /\ SubSeq(seq, i + 1, Len(seq)) \in Seq(Enroll)
  BY <1>1, <1>2, StretchIs
<1>4. QED
  BY <1>3 DEF RemoveAt

----------------------------------------------------------------------------
(* Batches of SKCs *)

LEMMA RangeIsFinite ==
  ASSUME NEW f, f = [x \in DOMAIN f |-> f[x]], IsFiniteSet(DOMAIN f)
  PROVE  IsFiniteSet(Range(f))
<1>1. f \in Surjection(DOMAIN f, Range(f))
  BY DEF Surjection, Range
<1>2. QED
  BY <1>1, FS_Surjection

LEMMA CurrentSKCsAre ==
  ASSUME NEW e \in Enroll
  PROVE  /\ IsFiniteSet({skc.skc : skc \in CurrentEnrollment(Deck[e]).skcs})
         /\ {skc.skc : skc \in CurrentEnrollment(Deck[e]).skcs} \subseteq Int
<1> DEFINE d == Deck[e]
           sites == ActiveSites(d)
           Priced(sku) == [sku EXCEPT !.prices = {p \in @ : p.site \in sites}]
           Listed(skc) == [skc EXCEPT !.skus = {Priced(sku) : sku \in @}]
           named == {skc.skc : skc \in d.skcs}
<1>1. d \in EnrollmentType /\ IsFiniteSet(d.skcs)
  BY PullAssumption
<1>2. CurrentEnrollment(d).skcs = {Listed(skc) : skc \in d.skcs}
  BY <1>1 DEF CurrentEnrollment, EnrollmentType
<1>3. ASSUME NEW skc \in d.skcs PROVE skc.skc \in Int /\ Listed(skc).skc = skc.skc
  <2>1. skc \in [skc : Int, skus : SUBSET [sku : Int, prices : SUBSET [site : Int, activity : Int]]]
    BY <1>1 DEF EnrollmentType
  <2>2. QED
    BY <2>1
<1>4. {skc.skc : skc \in CurrentEnrollment(d).skcs} = named
  <2> HIDE DEF d, Listed
  <2>1. QED
    BY <1>2, <1>3
<1>5. IsFiniteSet(named)
  <2> DEFINE naming == [skc \in d.skcs |-> skc.skc]
  <2>1. IsFiniteSet(Range(naming))
    BY <1>1, RangeIsFinite
  <2>2. Range(naming) = named
    BY DEF Range
  <2>3. QED
    BY <2>1, <2>2
<1>6. QED
  BY <1>3, <1>4, <1>5

\* currentSKCIDs
LEMMA SKCsOfAre ==
  ASSUME NEW enrollments \in Seq(Enroll)
  PROVE  IsFiniteSet(SKCsOf(enrollments)) /\ SKCsOf(enrollments) \subseteq Int
<1> DEFINE Named(e) == {skc.skc : skc \in CurrentEnrollment(Deck[e]).skcs}
           naming == [i \in DOMAIN enrollments |-> Named(enrollments[i])]
           whole == [i \in DOMAIN enrollments |-> CurrentEnrollment(Deck[enrollments[i]])]
<1>1. Len(enrollments) \in Nat /\ DOMAIN enrollments = 1..Len(enrollments)
  OBVIOUS
<1>2. \A i \in DOMAIN enrollments : enrollments[i] \in Enroll
  BY <1>1
<1>3. \A e \in Enroll : IsFiniteSet(Named(e)) /\ Named(e) \subseteq Int
  BY CurrentSKCsAre
<1>4. {{skc.skc : skc \in e.skcs} : e \in Range(whole)} = Range(naming)
  BY DEF Range
<1>5. SKCsOf(enrollments) = {k \in UNION Range(naming) : k # 0}
  <2>1. SnapshotOf([enrollments |-> enrollments, goods |-> {}]).enrollments = whole
    BY DEF SnapshotOf
  <2> HIDE DEF whole, naming
  <2>2. QED
    BY <1>4, <2>1 DEF SKCsOf, CurrentSKCs
<1> HIDE DEF Named, whole
<1>6. \A T \in Range(naming) : IsFiniteSet(T) /\ T \subseteq Int
  BY <1>2, <1>3 DEF Range
<1>7. IsFiniteSet(Range(naming))
  <2>1. IsFiniteSet(DOMAIN naming)
    BY <1>1, FS_Interval
  <2>2. QED
    BY <2>1, RangeIsFinite
<1> HIDE DEF naming
<1>8. IsFiniteSet(UNION Range(naming))
  BY <1>6, <1>7, FS_UNION
<1>9. QED
  BY <1>5, <1>6, <1>8, FS_Subset

\* The SKCs of a snapshot depend on its enrollments alone.
LEMMA SKCsOfSnapshot ==
  ASSUME NEW pulled
  PROVE  CurrentSKCs(SnapshotOf(pulled)) = SKCsOf(pulled.enrollments)
BY DEF CurrentSKCs, SnapshotOf, SKCsOf

\* A sequence in order has each member.
LEMMA InOrderHasAll ==
  ASSUME NEW S, IsFiniteSet(S), S \subseteq Int
  PROVE  /\ InOrder(S) \in Seq(S) /\ Range(InOrder(S)) = S
         /\ Ahead(InOrder(S), 0) = S
<1>1. /\ InOrder(S) \in Seq(S)
      /\ DOMAIN InOrder(S) = 1..Cardinality(S) /\ Cardinality(S) \in Nat
      /\ \A x \in S : \E n \in 1..Cardinality(S) : InOrder(S)[n] = x
  BY InOrderIs
<1>2. \A n \in DOMAIN InOrder(S) : InOrder(S)[n] \in S /\ n > 0
  BY <1>1
<1>3. Range(InOrder(S)) = S
  BY <1>1, <1>2 DEF Range
<1>4. Ahead(InOrder(S), 0) = Range(InOrder(S))
  BY <1>2 DEF Ahead, Range
<1>5. QED
  BY <1>1, <1>3, <1>4, Zenon

\* batches: each is a page of the SKCs, and the last one reaches their end.
LEMMA BatchesAre ==
  ASSUME NEW enrollments \in Seq(Enroll)
  PROVE  LET ids == InOrder(SKCsOf(enrollments))
             batches == Batches(enrollments)
         IN  /\ ids \in Seq(SKCsOf(enrollments))
             /\ Len(batches) \in Nat /\ DOMAIN batches = 1..Len(batches)
             /\ \A n \in 1..Len(batches) : batches[n] = PageOf(ids, GoodsBatch, n)
             /\ Ahead(ids, Len(batches) * GoodsBatch) = {}
<1> DEFINE ids == InOrder(SKCsOf(enrollments))
           batches == Batches(enrollments)
           number == (Len(ids) + GoodsBatch - 1) \div GoodsBatch
<1>1. ids \in Seq(SKCsOf(enrollments))
  BY SKCsOfAre, InOrderHasAll
<1>2. batches = [n \in 1..number |-> PageOf(ids, GoodsBatch, n)]
  BY DEF Batches, SKCsOf
<1>3. Len(ids) \in Nat /\ DOMAIN ids = 1..Len(ids) /\ GoodsBatch \in Nat \ {0}
  BY <1>1, PullAssumption
<1> HIDE DEF ids, batches
<1>4. number \in Nat /\ number * GoodsBatch >= Len(ids) /\ number * GoodsBatch \in Nat
  BY <1>3, Quotient
<1> HIDE DEF number
<1>5. Len(batches) = number /\ DOMAIN batches = 1..number
  BY <1>2, <1>4
<1>6. \A n \in DOMAIN ids : ~(n > number * GoodsBatch)
  BY <1>3, <1>4
<1>7. Ahead(ids, number * GoodsBatch) = {}
  BY <1>6, AheadIs
<1>8. QED
  BY <1>1, <1>2, <1>4, <1>5, <1>7 DEF ids, batches

----------------------------------------------------------------------------
(* Pulls *)

\* What there is to know of a draft before batch n of its goods is asked for,
\* the first n - 1 having arrived.
BatchesArrived(n, pulled) ==
  /\ pulled \in [enrollments : Seq(Enroll), goods : SUBSET DOMAIN Goods]
  /\ ~shrank => {e \in listed : IsCurrent(Deck[e])} \subseteq Range(pulled.enrollments)
  /\ n \in Nat \ {0} /\ n - 1 <= Len(Batches(pulled.enrollments))
  /\ pulled.goods \subseteq SKCsOf(pulled.enrollments)
  /\ SKCsOf(pulled.enrollments) \cap DOMAIN Goods
       \subseteq pulled.goods \cup Ahead(InOrder(SKCsOf(pulled.enrollments)),
                                         (n - 1) * GoodsBatch)

\* The step that completes a pull, and what it publishes.
NothingMissed ==
  (pc # "idle" /\ pc' = "idle" /\ result' = "complete")
    => /\ ~shrank => {e \in listed : IsCurrent(Deck[e])} \subseteq Range(published'.enrollments)
       /\ CurrentSKCs(SnapshotOf(published')) \cap DOMAIN Goods = published'.goods

LEMMA InitPull == Init => PullInv
<1>1. SUFFICES ASSUME Init PROVE PullInv
  OBVIOUS
<1>2. PICK S \in SUBSET Enroll : listing = SetToSeq(S)
  BY <1>1 DEF Init
<1>3. listing \in Seq(Enroll)
  BY <1>2, SomeListing
<1>4. /\ pc = "idle" /\ request = FirstPage /\ draft = EmptyDraft /\ published = NoSnapshot
  BY <1>1 DEF Init
<1>5. FirstPage \in RequestType
  BY DEF FirstPage, RequestType
<1>6. EmptyDraft \in [enrollments : Seq(Enroll), goods : SUBSET DOMAIN Goods]
  BY DEF EmptyDraft
<1>7. QED
  BY <1>3, <1>4, <1>5, <1>6 DEF PullInv

\* The end of a pull, or the first page of the next batch.
LEMMA NextBatch ==
  ASSUME PullInv, NEW n, NEW pulled, BatchesArrived(n, pulled),
         GoodsFrom(n, pulled), UNCHANGED worldVars
  PROVE  PullInv' /\ NothingMissed
<1> DEFINE ids == InOrder(SKCsOf(pulled.enrollments))
           batches == Batches(pulled.enrollments)
           skcs == SKCsOf(pulled.enrollments)
<1>1. /\ pulled \in [enrollments : Seq(Enroll), goods : SUBSET DOMAIN Goods]
      /\ pulled.enrollments \in Seq(Enroll)
      /\ n \in Nat \ {0} /\ n - 1 <= Len(batches)
      /\ pulled.goods \subseteq skcs
      /\ skcs \cap DOMAIN Goods \subseteq pulled.goods \cup Ahead(ids, (n - 1) * GoodsBatch)
      /\ ~shrank => {e \in listed : IsCurrent(Deck[e])} \subseteq Range(pulled.enrollments)
  BY DEF BatchesArrived
<1>2. UNCHANGED <<listing, listed, shrank>> /\ draft' = pulled /\ listing' \in Seq(Enroll)
  BY DEF worldVars, GoodsFrom, PullInv
<1>3. /\ ids \in Seq(skcs)
      /\ Len(batches) \in Nat /\ DOMAIN batches = 1..Len(batches)
      /\ \A i \in 1..Len(batches) : batches[i] = PageOf(ids, GoodsBatch, i)
      /\ Ahead(ids, Len(batches) * GoodsBatch) = {}
  BY <1>1, BatchesAre
<1>4. IsFiniteSet(skcs) /\ skcs \subseteq Int
  BY <1>1, SKCsOfAre
<1> HIDE DEF ids, batches, skcs
<1>5. CASE n > Len(batches)
  <2>1. Publish(pulled) /\ UNCHANGED request
    BY <1>5 DEF GoodsFrom, batches
  <2>2. /\ published' = [ok |-> TRUE, enrollments |-> pulled.enrollments, goods |-> pulled.goods]
        /\ pc' = "idle"
    BY <2>1 DEF Publish
  <2>3. PullInv'
    BY <1>1, <1>2, <2>1, <2>2 DEF PullInv
  <2>4. n - 1 = Len(batches)
    BY <1>1, <1>3, <1>5
  <2>5. skcs \cap DOMAIN Goods = pulled.goods
    BY <1>1, <1>3, <2>4
  <2>6. CurrentSKCs(SnapshotOf(published')) = skcs
    BY <2>2, SKCsOfSnapshot DEF skcs
  <2>7. NothingMissed
    BY <1>1, <2>2, <2>5, <2>6 DEF NothingMissed
  <2>8. QED
    BY <2>3, <2>7
<1>6. CASE ~(n > Len(batches))
  <2> DEFINE batch == batches[n]
  <2>1. /\ request' = [list |-> "goods", page |-> 1, batch |-> n, received |-> 0]
        /\ pc' = "call" /\ UNCHANGED <<published, result>>
    BY <1>6 DEF GoodsFrom, batches
  <2>2. n \in 1..Len(batches) /\ n \in Nat
    BY <1>1, <1>3, <1>6
  <2>3. request' \in RequestType
    BY <2>1, <2>2 DEF RequestType
  <2>4. Range(batch) \subseteq skcs
    <3>1. batch = PageOf(ids, GoodsBatch, n) /\ GoodsBatch \in Nat \ {0}
      BY <1>3, <2>2, PullAssumption
    <3>2. Range(batch) \subseteq Range(ids)
      BY <1>1, <1>3, <3>1, PageIs
    <3>3. Range(ids) = skcs
      BY <1>4, InOrderHasAll DEF ids, skcs
    <3>4. QED
      BY <3>2, <3>3
  <2>5. IsFiniteSet(Range(batch) \cap DOMAIN Goods) /\ Range(batch) \cap DOMAIN Goods \subseteq Int
    BY <1>4, <2>4, FS_Subset
  <2>6. Ahead(RecordsOf(batch), 0) = Range(batch) \cap DOMAIN Goods
    BY <2>5, InOrderHasAll DEF RecordsOf
  <2>7. (1 - 1) * GoodsPage = 0
    BY PullAssumption
  <2>8. GoodsKept'
    <3>1. request'.list = "goods" /\ request'.page = 1 /\ request'.batch = n /\ request'.received = 0
      BY <2>1
    <3>2. QED
      BY <1>1, <1>2, <2>2, <2>6, <2>7, <3>1 DEF GoodsKept, batches, skcs, ids
  <2>9. EnrollmentsKept'
    BY <2>1 DEF EnrollmentsKept
  <2>10. PullInv'
    BY <1>1, <1>2, <2>1, <2>3, <2>8, <2>9 DEF PullInv
  <2>11. NothingMissed
    BY <2>1 DEF NothingMissed
  <2>12. QED
    BY <2>10, <2>11
<1>7. QED
  BY <1>5, <1>6

LEMMA EnrollmentsArriveIs ==
  ASSUME PullInv, EnrollmentsArrive
  PROVE  PullInv' /\ NothingMissed
<1> DEFINE page == PageOf(listing, EnrollmentPage, request.page)
           pulled == [draft EXCEPT !.enrollments = @ \o Kept(page)]
           here == (request.page - 1) * EnrollmentPage
           next == request.page * EnrollmentPage
           wanted == {e \in listed : IsCurrent(Deck[e])}
<1>1. /\ pc = "sent" /\ request.list = "enrollments" /\ UNCHANGED worldVars
      /\ IF next >= Len(listing) \/ Len(page) < EnrollmentPage
           THEN GoodsFrom(1, pulled)
           ELSE draft' = pulled /\ AskNext([request EXCEPT !.page = @ + 1])
  BY DEF EnrollmentsArrive
<1>2. /\ listing \in Seq(Enroll) /\ request \in RequestType
      /\ draft \in [enrollments : Seq(Enroll), goods : SUBSET DOMAIN Goods]
      /\ published # NoSnapshot => published.enrollments \in Seq(Enroll)
      /\ draft.goods = {}
      /\ ~shrank => wanted \subseteq Range(draft.enrollments) \cup Ahead(listing, here)
  BY <1>1 DEF PullInv, EnrollmentsKept
<1>3. request.page \in Nat \ {0} /\ EnrollmentPage \in Nat \ {0}
  BY <1>2, PullAssumption DEF RequestType
<1>4. /\ page \in Seq(Enroll)
      /\ Ahead(listing, here) \subseteq Range(page) \cup Ahead(listing, next)
      /\ (Len(page) < EnrollmentPage \/ next >= Len(listing)) => Ahead(listing, next) = {}
  BY <1>2, <1>3, PageIs
<1> HIDE DEF here, next
<1>5. /\ Kept(page) \in Seq(Enroll)
      /\ \A e : e \in Range(Kept(page)) <=> e \in Range(page) /\ IsCurrent(Deck[e])
  BY <1>4, KeptIs
<1> DEFINE joined == draft.enrollments \o Kept(page)
<1>6. draft.enrollments \in Seq(Enroll)
  BY <1>2
<1> HIDE DEF page
<1>7. joined \in Seq(Enroll)
      /\ Range(joined) = Range(draft.enrollments) \cup Range(Kept(page))
  BY <1>5, <1>6, RangeConcatenation
<1>8. pulled.enrollments = joined /\ pulled.goods = {}
      /\ pulled \in [enrollments : Seq(Enroll), goods : SUBSET DOMAIN Goods]
  <2> HIDE DEF joined
  <2>1. pulled = [draft EXCEPT !.enrollments = joined]
    BY DEF joined
  <2>2. QED
    BY <1>2, <1>7, <2>1
<1> HIDE DEF pulled, joined
<1>9. ~shrank => wanted \subseteq Range(joined) \cup Ahead(listing, next)
  BY <1>2, <1>4, <1>5, <1>7
<1> HIDE DEF wanted
<1>10. CASE next >= Len(listing) \/ Len(page) < EnrollmentPage
  <2>1. GoodsFrom(1, pulled)
    BY <1>1, <1>10
  <2>2. ~shrank => wanted \subseteq Range(joined)
    BY <1>4, <1>9, <1>10
  <2>3. (1 - 1) * GoodsBatch = 0
    BY PullAssumption
  <2>4. Ahead(InOrder(SKCsOf(joined)), 0) = SKCsOf(joined)
    BY <1>7, SKCsOfAre, InOrderHasAll
  <2>5. Len(Batches(joined)) \in Nat
    BY <1>7, BatchesAre
  <2>6. BatchesArrived(1, pulled)
    BY <1>8, <2>2, <2>3, <2>4, <2>5 DEF BatchesArrived, wanted
  <2>7. QED
    BY <1>1, <2>1, <2>6, NextBatch
<1>11. CASE ~(next >= Len(listing) \/ Len(page) < EnrollmentPage)
  <2>1. /\ draft' = pulled /\ request' = [request EXCEPT !.page = @ + 1]
        /\ pc' = "call" /\ UNCHANGED <<published, result>>
    BY <1>1, <1>11 DEF AskNext
  <2>2. request' \in RequestType /\ request'.list = "enrollments" /\ request'.page = request.page + 1
    BY <1>1, <1>2, <2>1 DEF RequestType
  <2>3. (request'.page - 1) * EnrollmentPage = next
    BY <1>3, <2>2 DEF next
  <2>4. UNCHANGED <<listing, listed, shrank>>
    BY <1>1 DEF worldVars
  <2>5. EnrollmentsKept' /\ GoodsKept'
    BY <1>8, <1>9, <2>1, <2>2, <2>3, <2>4 DEF EnrollmentsKept, GoodsKept, wanted
  <2>6. PullInv'
    BY <1>2, <1>8, <2>1, <2>2, <2>4, <2>5 DEF PullInv
  <2>7. QED
    BY <2>1, <2>6 DEF NothingMissed
<1>12. QED
  BY <1>10, <1>11

LEMMA GoodsArriveIs ==
  ASSUME PullInv, GoodsArrive
  PROVE  PullInv' /\ NothingMissed
<1> DEFINE enrollments == draft.enrollments
           batches == Batches(enrollments)
           batch == batches[request.batch]
           records == RecordsOf(batch)
           page == PageOf(records, GoodsPage, request.page)
           received == request.received + Len(page)
           pulled == [draft EXCEPT !.goods = @ \cup Range(page)]
           skcs == SKCsOf(enrollments)
           ids == InOrder(skcs)
           here == (request.page - 1) * GoodsPage
           next == request.page * GoodsPage
           before == (request.batch - 1) * GoodsBatch
           after == request.batch * GoodsBatch
           wanted == {e \in listed : IsCurrent(Deck[e])}
<1>1. /\ pc = "sent" /\ request.list = "goods" /\ UNCHANGED worldVars
      /\ IF received >= Len(records) \/ Len(page) < GoodsPage
           THEN GoodsFrom(request.batch + 1, pulled)
           ELSE /\ draft' = pulled
                /\ AskNext([request EXCEPT !.page = @ + 1, !.received = received])
  BY DEF GoodsArrive, RecordsOf
<1>2. /\ listing \in Seq(Enroll) /\ request \in RequestType
      /\ draft \in [enrollments : Seq(Enroll), goods : SUBSET DOMAIN Goods]
      /\ published # NoSnapshot => published.enrollments \in Seq(Enroll)
      /\ ~shrank => wanted \subseteq Range(enrollments)
      /\ request.batch \in 1..Len(batches)
      /\ request.received = here
      /\ draft.goods \subseteq skcs
      /\ skcs \cap DOMAIN Goods \subseteq draft.goods \cup Ahead(ids, before)
      /\ Range(batch) \cap DOMAIN Goods \subseteq draft.goods \cup Ahead(records, here)
  BY <1>1 DEF PullInv, GoodsKept
<1>3. /\ request.page \in Nat \ {0} /\ request.received \in Nat
      /\ GoodsPage \in Nat \ {0} /\ GoodsBatch \in Nat \ {0}
      /\ enrollments \in Seq(Enroll) /\ draft.goods \subseteq DOMAIN Goods
  BY <1>2, PullAssumption DEF RequestType
<1>4. /\ ids \in Seq(skcs) /\ IsFiniteSet(skcs) /\ skcs \subseteq Int
      /\ Range(ids) = skcs
      /\ Len(batches) \in Nat /\ batch = PageOf(ids, GoodsBatch, request.batch)
  BY <1>2, <1>3, BatchesAre, SKCsOfAre, InOrderHasAll
<1>5. request.batch \in Nat \ {0} /\ request.batch <= Len(batches)
  BY <1>2, <1>4
<1>6. /\ Range(batch) \subseteq Range(ids)
      /\ Ahead(ids, before) \subseteq Range(batch) \cup Ahead(ids, after)
  BY <1>3, <1>4, <1>5, PageIs
<1> HIDE DEF ids, batch, batches, before
<1>7. /\ records \in Seq(Range(batch) \cap DOMAIN Goods)
      /\ Range(records) = Range(batch) \cap DOMAIN Goods
  <2>1. IsFiniteSet(Range(batch) \cap DOMAIN Goods) /\ Range(batch) \cap DOMAIN Goods \subseteq Int
    BY <1>4, <1>6, FS_Subset
  <2>2. QED
    BY <2>1, InOrderHasAll DEF RecordsOf
<1> HIDE DEF records
<1>8. /\ here \in Nat /\ next = here + GoodsPage
      /\ page \in Seq(Range(batch) \cap DOMAIN Goods) /\ Range(page) \subseteq Range(records)
      /\ Len(page) <= GoodsPage
      /\ Ahead(records, here) \subseteq Range(page) \cup Ahead(records, next)
      /\ (Len(page) < GoodsPage \/ next >= Len(records)) => Ahead(records, next) = {}
  BY <1>3, <1>7, PageIs
<1> HIDE DEF page, here, next
<1>9. Len(page) \in Nat /\ Len(records) \in Nat
  BY <1>7, <1>8
<1>10. /\ pulled.enrollments = enrollments /\ pulled.goods = draft.goods \cup Range(page)
       /\ pulled \in [enrollments : Seq(Enroll), goods : SUBSET DOMAIN Goods]
  BY <1>2, <1>7, <1>8
<1>11. pulled.goods \subseteq skcs
  BY <1>2, <1>4, <1>6, <1>7, <1>8, <1>10
<1> HIDE DEF pulled
<1>12. Range(batch) \cap DOMAIN Goods \subseteq pulled.goods \cup Ahead(records, next)
  BY <1>2, <1>8, <1>10
<1> HIDE DEF wanted
<1>13. CASE received >= Len(records) \/ Len(page) < GoodsPage
  <2>1. GoodsFrom(request.batch + 1, pulled)
    BY <1>1, <1>13
  <2>2. Ahead(records, next) = {}
    BY <1>2, <1>3, <1>8, <1>9, <1>13
  <2>3. skcs \cap DOMAIN Goods \subseteq pulled.goods \cup Ahead(ids, after)
    BY <1>2, <1>6, <1>10, <1>12, <2>2
  <2>4. request.batch + 1 \in Nat \ {0} /\ (request.batch + 1) - 1 = request.batch
    BY <1>5
  <2> HIDE DEF skcs
  <2>5. BatchesArrived(request.batch + 1, pulled)
    BY <1>2, <1>5, <1>10, <1>11, <2>3, <2>4 DEF BatchesArrived, ids, skcs, batches, wanted
  <2>6. QED
    BY <1>1, <2>1, <2>5, NextBatch
<1>14. CASE ~(received >= Len(records) \/ Len(page) < GoodsPage)
  <2>1. /\ draft' = pulled
        /\ request' = [request EXCEPT !.page = @ + 1, !.received = received]
        /\ pc' = "call" /\ UNCHANGED <<published, result>>
    BY <1>1, <1>14 DEF AskNext
  <2>2. Len(page) = GoodsPage
    BY <1>3, <1>8, <1>9, <1>14
  <2>3. received \in Nat /\ received = next
    BY <1>2, <1>3, <1>8, <1>9, <2>2
  <2> HIDE DEF received
  <2>4. /\ request' \in RequestType /\ request'.list = "goods"
        /\ request'.page = request.page + 1
        /\ request'.batch = request.batch /\ request'.received = received
    <3>1. request.page + 1 \in Nat \ {0}
      BY <1>3
    <3>2. QED
      BY <1>1, <1>2, <2>1, <2>3, <3>1 DEF RequestType
  <2>5. (request'.page - 1) * GoodsPage = next
    BY <1>3, <2>4 DEF next
  <2>6. UNCHANGED <<listing, listed, shrank>>
    BY <1>1 DEF worldVars
  <2>7. skcs \cap DOMAIN Goods \subseteq pulled.goods \cup Ahead(ids, before)
    BY <1>2, <1>10
  <2> HIDE DEF skcs
  <2>8. draft'.enrollments = enrollments /\ draft'.goods = pulled.goods
    BY <1>10, <2>1
  <2>9. GoodsKept'
    BY <1>2, <1>11, <1>12, <2>3, <2>4, <2>5, <2>6, <2>7, <2>8
       DEF GoodsKept, wanted, ids, skcs, batches, batch, records, before
  <2>10. EnrollmentsKept'
    BY <2>4 DEF EnrollmentsKept
  <2>11. PullInv'
    BY <1>2, <1>10, <2>1, <2>4, <2>6, <2>9, <2>10 DEF PullInv
  <2>12. QED
    BY <2>1, <2>11 DEF NothingMissed
<1>15. QED
  BY <1>13, <1>14

\* A step that changes neither the draft nor the listing, and publishes
\* nothing but the draft of a pull that failed.
LEMMA NothingArrives ==
  ASSUME PullInv, UNCHANGED <<listing, listed, shrank, request, draft>>,
         pc' # "idle" => pc # "idle",
         \/ published' = published
         \/ published'.enrollments = draft.enrollments,
         (pc # "idle" /\ pc' = "idle") => result' # "complete"
  PROVE  PullInv' /\ NothingMissed
<1>1. published' # NoSnapshot => published'.enrollments \in Seq(Enroll)
  BY DEF PullInv
<1>2. EnrollmentsKept => EnrollmentsKept'
  BY DEF EnrollmentsKept
<1>3. GoodsKept => GoodsKept'
  BY DEF GoodsKept
<1>4. PullInv'
  BY <1>1, <1>2, <1>3 DEF PullInv
<1>5. QED
  BY <1>4 DEF NothingMissed

LEMMA FailsIs ==
  ASSUME PullInv, NEW temporary, Fails(temporary), pc # "idle"
  PROVE  PullInv' /\ NothingMissed
<1>1. UNCHANGED <<listing, listed, shrank, request, draft>>
  BY DEF Fails, worldVars
<1>2. \/ pc' = "backoff" /\ published' = published
      \/ Finish
  BY DEF Fails
<1>3. CASE Finish
  <2>1. /\ result' = "error" /\ pc' = "idle"
        /\ \/ published' = published
           \/ published'.enrollments = draft.enrollments
    BY <1>3 DEF Finish
  <2>2. QED
    BY <1>1, <2>1, NothingArrives
<1>4. CASE pc' = "backoff" /\ published' = published
  BY <1>1, <1>4, NothingArrives
<1>5. QED
  BY <1>2, <1>3, <1>4

LEMMA ListingChangesIs ==
  ASSUME PullInv, ListingChanges
  PROVE  PullInv' /\ NothingMissed
<1>1. UNCHANGED <<pc, request, draft, published, result>>
  BY DEF ListingChanges, pageVars
<1>2. listing \in Seq(Enroll) /\ request \in RequestType
  BY DEF PullInv
<1>3. GoodsKept /\ UNCHANGED <<listed, shrank>> => GoodsKept'
  BY <1>1 DEF GoodsKept
<1>4. CASE \E e \in Enroll \ Range(listing), i \in 1..Len(listing) + 1 :
             listing' = InsertAt(listing, i, e) /\ UNCHANGED <<listed, shrank>>
  <2>1. PICK e \in Enroll, i \in 1..Len(listing) + 1 :
          listing' = InsertAt(listing, i, e) /\ UNCHANGED <<listed, shrank>>
    BY <1>4
  <2>2. /\ listing' \in Seq(Enroll)
        /\ \A place \in Nat : Ahead(listing, place) \subseteq Ahead(listing', place)
    BY <1>2, <2>1, InsertAtIs
  <2>3. (request.page - 1) * EnrollmentPage \in Nat
    BY <1>2, PageIs, PullAssumption DEF RequestType
  <2>4. EnrollmentsKept => EnrollmentsKept'
    BY <1>1, <2>1, <2>2, <2>3 DEF EnrollmentsKept
  <2>5. PullInv'
    BY <1>1, <1>3, <2>1, <2>2, <2>4 DEF PullInv
  <2>6. QED
    BY <1>1, <2>5 DEF NothingMissed
<1>5. CASE \E i \in DOMAIN listing : listing' = RemoveAt(listing, i) /\ shrank' = TRUE
  <2>1. listing' \in Seq(Enroll) /\ shrank' = TRUE
    BY <1>2, <1>5, RemoveAtIs
  <2>2. EnrollmentsKept => EnrollmentsKept'
    BY <1>1, <2>1 DEF EnrollmentsKept
  <2>3. GoodsKept => GoodsKept'
    BY <1>1, <2>1 DEF GoodsKept
  <2>4. PullInv'
    BY <1>1, <2>1, <2>2, <2>3 DEF PullInv
  <2>5. QED
    BY <1>1, <2>4 DEF NothingMissed
<1>6. QED
  BY <1>4, <1>5 DEF ListingChanges

LEMMA BeginIs ==
  ASSUME PullInv, Begin
  PROVE  PullInv' /\ NothingMissed
<1>1. /\ pc = "idle" /\ request' = FirstPage /\ draft' = EmptyDraft
      /\ listed' = Range(listing) /\ UNCHANGED <<listing, published>>
  BY DEF Begin
<1>2. request' \in RequestType /\ request'.list = "enrollments" /\ request'.page = 1
  BY <1>1 DEF FirstPage, RequestType
<1>3. draft' \in [enrollments : Seq(Enroll), goods : SUBSET DOMAIN Goods] /\ draft'.goods = {}
  BY <1>1 DEF EmptyDraft
<1>4. listing \in Seq(Enroll) /\ (1 - 1) * EnrollmentPage = 0
  BY PullAssumption DEF PullInv
<1>5. Range(listing) \subseteq Ahead(listing, 0)
  <2>1. \A n \in DOMAIN listing : n > 0
    BY <1>4
  <2>2. QED
    BY <2>1 DEF Ahead, Range
<1>6. EnrollmentsKept' /\ GoodsKept'
  BY <1>1, <1>2, <1>3, <1>4, <1>5 DEF EnrollmentsKept, GoodsKept
<1>7. PullInv'
  BY <1>1, <1>2, <1>3, <1>4, <1>6 DEF PullInv
<1>8. QED
  BY <1>1, <1>7 DEF NothingMissed

LEMMA NextPull ==
  ASSUME PullInv, [Next]_pullVars
  PROVE  PullInv' /\ [NothingMissed]_pullVars
<1>1. CASE ListingChanges
  BY <1>1, ListingChangesIs
<1>2. CASE Tick
  <2>1. UNCHANGED <<listing, listed, shrank, request, draft, pc, published>>
    BY <1>2 DEF Tick, pageVars, worldVars
  <2>2. QED
    BY <2>1, NothingArrives
<1>3. CASE Begin
  BY <1>3, BeginIs
<1>4. CASE Reserve \/ Send \/ Retry
  <2>1. /\ UNCHANGED <<listing, listed, shrank, request, draft, published>>
        /\ pc # "idle" /\ pc' # "idle"
    BY <1>4 DEF Reserve, Send, Retry, pageVars, worldVars
  <2>2. QED
    BY <2>1, NothingArrives
<1>5. CASE SlotExpires \/ RequestFails
  <2>1. pc # "idle" /\ \E temporary : Fails(temporary)
    BY <1>5 DEF SlotExpires, RequestFails
  <2>2. QED
    BY <2>1, FailsIs
<1>6. CASE BackoffExpires
  <2>1. /\ UNCHANGED <<listing, listed, shrank, request, draft>>
        /\ pc # "idle" /\ result' = "error" /\ pc' = "idle"
        /\ \/ published' = published
           \/ published'.enrollments = draft.enrollments
    BY <1>6 DEF BackoffExpires, Finish, worldVars
  <2>2. QED
    BY <2>1, NothingArrives
<1>7. CASE EnrollmentsArrive
  BY <1>7, EnrollmentsArriveIs
<1>8. CASE GoodsArrive
  BY <1>8, GoodsArriveIs
<1>9. CASE UNCHANGED pullVars
  <2>1. UNCHANGED <<listing, listed, shrank, request, draft, pc, published>>
    BY <1>9 DEF pullVars
  <2>2. QED
    BY <2>1, NothingArrives
<1>10. QED
  BY <1>1, <1>2, <1>3, <1>4, <1>5, <1>6, <1>7, <1>8, <1>9 DEF Next, Work

\* Sync: a pull that reports no error has each enrollment that was listed all
\* the time, unless one left, and the goods of each of its SKCs, for any sizes
\* of pages and batches, however often the listing changes between two of them
\* and whatever failed and was repeated on the way.
THEOREM PullsAreWhole == Spec => PullMissesNothing
<1>1. Spec => []PullInv
  BY InitPull, NextPull, PTL DEF Spec
<1>2. PullInv /\ [Next]_pullVars => [NothingMissed]_pullVars
  BY NextPull
<1>3. QED
  BY <1>1, <1>2, PTL DEF Spec, PullMissesNothing, NothingMissed

\* EffectivePrices and ActivityRows: of any complete snapshot that a pull
\* makes, the page of prices and the page of activities show the same offers,
\* provided that Temu leaves no identifier or price out.
THEOREM PagesShowTheSame ==
  ASSUME NothingLeftOut
  PROVE  Spec => []PagesAgree
<1>1. ASSUME PullInv PROVE PagesAgree
  <2>1. SUFFICES ASSUME published # NoSnapshot PROVE PagesAgree
    BY DEF PagesAgree
  <2> DEFINE enrollments == published.enrollments
  <2>2. enrollments \in Seq(Enroll)
    BY <1>1, <2>1 DEF PullInv
  <2>3. SnapshotOf(published).enrollments
          = [i \in DOMAIN enrollments |-> CurrentEnrollment(Deck[enrollments[i]])]
    BY DEF SnapshotOf
  <2> HIDE DEF enrollments
  <2>4. \A i \in DOMAIN enrollments : enrollments[i] \in Enroll
    BY <2>2
  <2>5. \A e \in Enroll : Whole(CurrentEnrollment(Deck[e]))
    BY CurrentIsWhole
  <2>6. AllWhole(SnapshotOf(published))
    BY <2>3, <2>4, <2>5 DEF AllWhole
  <2>7. QED
    BY <2>6, WholeSnapshotsAgree
<1>2. Spec => []PullInv
  BY InitPull, NextPull, PTL DEF Spec
<1>3. QED
  BY <1>1, <1>2, PTL

=============================================================================
