------------------------ MODULE MarketingSync_proofs ------------------------
(***************************************************************************)
(* Proofs about the observer and about the marketing loop that drives it,  *)
(* for any snapshots of the right shape and any number of pulls, failures  *)
(* and restarts: what a state or a price says is true of the capture it is *)
(* part of; the snapshot, the observer and the table never tell different  *)
(* stories for longer than one step of run(); and what the table says of   *)
(* the past is what was observed then, for good.                           *)
(***************************************************************************)
EXTENDS MarketingSync, FiniteSetTheorems, TLAPS

----------------------------------------------------------------------------
(* Sets *)

LEMMA LeastNatural ==
  ASSUME NEW S \in SUBSET Nat, S # {}
  PROVE  \E n \in S : \A m \in S : n <= m
<1> DEFINE Less == {p \in Nat \X Nat : p[1] < p[2]}
<1>1. IsWellFoundedOn(Less, Nat)
  BY NatLessThanWellFounded DEF OpToRel
<1>2. PICK n \in S : \A m \in S : <<m, n>> \notin Less
  <2> HIDE DEF Less
  <2>1. QED
    BY <1>1, WFMin
<1>3. \A m, k \in Nat : m < k => <<m, k>> \in Less
  OBVIOUS
<1>4. ASSUME NEW m \in S PROVE n <= m
  <2>1. ~ (m < n)
    BY <1>2, <1>3
  <2>2. QED
    BY <2>1
<1>5. QED
  BY <1>4

LEMMA GreatestNatural ==
  ASSUME NEW S \in SUBSET Nat, S # {}, NEW b \in Nat, \A m \in S : m <= b
  PROVE  \E n \in S : \A m \in S : m <= n
<1> DEFINE T == {x \in Nat : b - x \in S}
<1>1. \A m \in S : b - m \in Nat /\ b - (b - m) = m
  OBVIOUS
<1>2. \A m \in S : b - m \in T
  BY <1>1
<1>3. PICK x \in T : \A y \in T : x <= y
  <2>1. T \in SUBSET Nat /\ T # {}
    BY <1>2
  <2> HIDE DEF T
  <2>2. QED
    BY <2>1, LeastNatural
<1>4. b - x \in S
  OBVIOUS
<1>5. ASSUME NEW m \in S PROVE m <= b - x
  <2>1. x <= b - m
    BY <1>2, <1>3
  <2>2. QED
    BY <2>1
<1>6. QED
  BY <1>4, <1>5

LEMMA FiniteImage ==
  ASSUME NEW S, IsFiniteSet(S), NEW f
  PROVE  IsFiniteSet({f[x] : x \in S})
<1>1. [x \in S |-> f[x]] \in Surjection(S, {f[x] : x \in S})
  BY DEF Surjection
<1>2. QED
  BY <1>1, FS_Surjection

----------------------------------------------------------------------------
(* The state of an SKC *)

\* What a state may say when its SKC is in the enrollments current and the
\* last capture was at now.
Holds(s, now, current) ==
  /\ s \in StateType
  /\ s.status = Confirmed <=> s.active # NoEnroll
  /\ s.status = Confirmed =>
       /\ s.active \in current
       /\ s.evidence = {s.active}
       /\ s.lastEvidenceAt \in Nat
       /\ s.startedAt <= s.lastEvidenceAt
       /\ s.lastEvidenceAt <= now

StatesHold == \A k \in DOMAIN states : Holds(states[k], captured, Current(k))

LEMMA AtMostOne ==
  ASSUME NEW S, IsFiniteSet(S), Cardinality(S) <= 1, NEW x \in S, NEW y \in S
  PROVE  x = y
<1>1. Cardinality(S) \in Nat /\ Cardinality(S) # 0
  BY FS_CardinalityType, FS_EmptySet
<1>2. Cardinality(S) = 1
  BY <1>1
<1>3. PICK z : S = {z}
  BY <1>2, FS_Singleton
<1>4. QED
  BY <1>3

LEMMA OnlyElement ==
  ASSUME NEW S, IsFiniteSet(S), Cardinality(S) = 1
  PROVE  S = {TheOnly(S)}
<1>1. PICK x : S = {x}
  BY FS_Singleton
<1>2. QED
  BY <1>1 DEF TheOnly

LEMMA NamedState ==
  ASSUME NEW s \in StateType, NEW now \in Nat, NEW current,
         s.status = Confirmed, s.active \in Enroll, s.active \in current,
         s.evidence = {s.active}, s.startedAt <= now, s.lastEvidenceAt = now
  PROVE  Holds(s, now, current)
<1>1. s.active # NoEnroll
  BY ObserverAssumption
<1>2. QED
  BY <1>1 DEF Holds

\* Whichever branch decides it, the new state holds of the new points if the
\* old one held of the old ones.
LEMMA ResolvedHolds ==
  ASSUME NEW now \in Nat, NEW before \in Nat, before < now,
         NEW points, NEW prev, NEW old,
         IsFiniteSet(EnrollsOf(points)), EnrollsOf(points) \subseteq Enroll,
         prev # NoState => Holds(prev, before, old)
  PROVE  Holds(ResolveSKCActivityState(now, points, prev), now, EnrollsOf(points))
<1> DEFINE consuming == Consuming(points)
           positive  == Positive(points)
<1>1. /\ consuming \subseteq EnrollsOf(points) /\ IsFiniteSet(consuming)
      /\ positive \subseteq EnrollsOf(points) /\ IsFiniteSet(positive)
  <2>1. consuming \subseteq EnrollsOf(points) /\ positive \subseteq EnrollsOf(points)
    BY DEF Consuming, Positive, EnrollsOf
  <2>2. QED
    BY <2>1, FS_Subset
<1>2. Confirmed # Warning /\ NoEnroll \notin EnrollsOf(points)
  BY ObserverAssumption DEF Confirmed, Warning
<1>3. /\ Undecided(now, points, prev) \in StateType
      /\ Undecided(now, points, prev).status = Warning
      /\ Undecided(now, points, prev).active = NoEnroll
      /\ Undecided(now, points, prev).startedAt = now
      /\ Undecided(now, {}, NoState) \in StateType
      /\ Undecided(now, {}, NoState).status = Warning
      /\ Undecided(now, {}, NoState).active = NoEnroll
  <2>1. PreviousActive(prev) \in Enroll \cup {NoEnroll} /\ PreviousActive(NoState) = NoEnroll
    BY DEF PreviousActive, Holds, StateType
  <2>2. EnrollsOf(points) \in SUBSET Enroll /\ EnrollsOf({}) \in SUBSET Enroll
    BY DEF EnrollsOf
  <2>3. ASSUME NEW previous \in Enroll \cup {NoEnroll}, NEW candidates \in SUBSET Enroll
        PROVE  [ status |-> Warning, active |-> NoEnroll, previousActive |-> previous,
                 candidates |-> candidates, evidence |-> {}, startedAt |-> now,
                 lastEvidenceAt |-> Never, carried |-> FALSE,
                 reason |-> "initial_no_consumption" ] \in StateType
    BY DEF StateType, StateReasons
  <2>4. QED
    BY <2>1, <2>2, <2>3 DEF Undecided
<1> DEFINE base  == Undecided(now, points, prev)
           empty == Undecided(now, {}, NoState)
<1>b. /\ base \in StateType /\ base.status = Warning
      /\ base.active = NoEnroll /\ base.startedAt = now
  BY <1>3
<1>e. empty \in StateType /\ empty.status = Warning /\ empty.active = NoEnroll
  BY <1>3
<1> HIDE DEF base, empty
<1>4. Holds(NoCurrentActivity(now, prev), now, EnrollsOf(points))
  <2> DEFINE again == /\ prev # NoState
                      /\ prev.status = Warning
                      /\ prev.reason = "no_current_activity"
             start == IF again THEN prev.startedAt ELSE now
  <2>1. start \in Nat /\ again \in BOOLEAN
    BY DEF Holds, StateType
  <2>2. NoCurrentActivity(now, prev)
          = [ empty EXCEPT !.startedAt = start, !.carried = again,
                           !.reason = "no_current_activity" ]
    BY DEF NoCurrentActivity, empty
  <2> HIDE DEF again, start
  <2>3. QED
    BY <1>2, <1>e, <2>1, <2>2 DEF Holds, StateType, StateReasons
<1>5. ASSUME Cardinality(consuming) = 1
      PROVE  Holds(UniqueConsumption(now, points, prev), now, EnrollsOf(points))
  <2> DEFINE enroll == TheOnly(consuming)
             same   == prev # NoState /\ prev.status = Confirmed /\ prev.active = enroll
             start  == IF same THEN prev.startedAt ELSE now
  <2>1. enroll \in EnrollsOf(points) /\ enroll # NoEnroll /\ enroll \in Enroll
    BY <1>1, <1>2, <1>5, OnlyElement
  <2>2. start \in Nat /\ start <= now
    BY DEF Holds, StateType
  <2>3. UniqueConsumption(now, points, prev)
          = [ base EXCEPT
                !.status = Confirmed, !.active = enroll, !.evidence = {enroll},
                !.startedAt = start, !.lastEvidenceAt = now,
                !.reason = "interval_unique_consumption" ]
    BY DEF UniqueConsumption, base
  <2> HIDE DEF enroll, start
  <2>4. "interval_unique_consumption" \in StateReasons
    BY DEF StateReasons
  <2> DEFINE s == UniqueConsumption(now, points, prev)
  <2> HIDE DEF s
  <2>5. s = [ base EXCEPT
                !.status = Confirmed, !.active = enroll, !.evidence = {enroll},
                !.startedAt = start, !.lastEvidenceAt = now,
                !.reason = "interval_unique_consumption" ]
    BY <2>3 DEF s
  <2>6. /\ s.status = Confirmed /\ s.active = enroll /\ s.evidence = {enroll}
        /\ s.startedAt = start /\ s.lastEvidenceAt = now
    BY <1>b, <2>5 DEF StateType
  <2>7. s \in StateType
    BY <1>b, <2>1, <2>2, <2>4, <2>5 DEF StateType
  <2>8. QED
    BY <2>1, <2>2, <2>6, <2>7, NamedState DEF s
<1>6. Holds(MultipleConsumption(now, points, prev), now, EnrollsOf(points))
  <2> DEFINE s == MultipleConsumption(now, points, prev)
  <2>1. s = [base EXCEPT !.evidence = consuming, !.reason = "interval_multiple_consumption"]
    BY DEF MultipleConsumption, base
  <2> HIDE DEF s, consuming, base
  <2>2. s \in StateType /\ s.status = base.status /\ s.active = base.active
    BY <1>1, <1>2, <1>b, <2>1 DEF StateType, StateReasons
  <2>3. QED
    BY <1>b, <2>2 DEF Holds, s, Confirmed, Warning
<1>7. ASSUME prev # NoState, NEW reason \in StateReasons
      PROVE  LET q == Carried(now, points, prev, reason)
             IN  /\ q \in StateType /\ q.active = NoEnroll
                 /\ q.status = prev.status /\ q.evidence = prev.evidence
                 /\ q.startedAt = prev.startedAt /\ q.lastEvidenceAt = prev.lastEvidenceAt
  <2>1. prev \in StateType
    BY <1>7 DEF Holds
  <2>2. Carried(now, points, prev, reason)
          = [ base EXCEPT
                !.status = prev.status, !.evidence = prev.evidence,
                !.startedAt = prev.startedAt, !.lastEvidenceAt = prev.lastEvidenceAt,
                !.carried = TRUE, !.reason = reason ]
    BY DEF Carried, base
  <2>3. QED
    BY <1>b, <2>1, <2>2 DEF StateType
<1>8. ASSUME CarriesConfirmed(points, prev), NEW reason \in StateReasons
      PROVE  Holds([Carried(now, points, prev, reason) EXCEPT !.active = prev.active],
                   now, EnrollsOf(points))
  <2> DEFINE q == Carried(now, points, prev, reason)
  <2>1. /\ q \in StateType
        /\ q.status = prev.status /\ q.evidence = prev.evidence
        /\ q.startedAt = prev.startedAt /\ q.lastEvidenceAt = prev.lastEvidenceAt
    BY <1>7, <1>8 DEF CarriesConfirmed
  <2>2. prev.status = Confirmed /\ prev.active \in EnrollsOf(points)
        /\ Holds(prev, before, old)
    BY <1>8 DEF CarriesConfirmed
  <2> HIDE DEF q
  <2>3. Holds([q EXCEPT !.active = prev.active], now, EnrollsOf(points))
    BY <1>2, <2>1, <2>2 DEF Holds, StateType
  <2>4. QED
    BY <2>3 DEF q
<1>9. ASSUME prev # NoState, prev.status = Warning, NEW reason \in StateReasons,
             NEW evidence \in SUBSET Enroll
      PROVE  /\ Holds(Carried(now, points, prev, reason), now, EnrollsOf(points))
             /\ Holds([Carried(now, points, prev, reason) EXCEPT !.evidence = evidence],
                      now, EnrollsOf(points))
  <2> DEFINE q == Carried(now, points, prev, reason)
  <2>1. q \in StateType /\ q.status = Warning /\ q.active = NoEnroll
    BY <1>7, <1>9
  <2> HIDE DEF q
  <2>2. Holds(q, now, EnrollsOf(points))
        /\ Holds([q EXCEPT !.evidence = evidence], now, EnrollsOf(points))
    BY <1>2, <2>1 DEF Holds, StateType
  <2>3. QED
    BY <2>2 DEF q
<1>10. Holds(ResolveInitialState(now, points, prev), now, EnrollsOf(points))
  <2> DEFINE fresh == [base EXCEPT !.evidence = positive]
  <2>1. CASE Cardinality(positive) = 1
    <3> DEFINE only == TheOnly(positive)
    <3>1. positive = {only}
      BY <1>1, <2>1, OnlyElement
    <3>2. only \in EnrollsOf(points) /\ only # NoEnroll /\ only \in Enroll
      BY <1>1, <1>2, <3>1
    <3>3. ResolveInitialState(now, points, prev)
            = [ fresh EXCEPT
                  !.status = Confirmed, !.active = only,
                  !.lastEvidenceAt = now,
                  !.reason = "initial_unique_cumulative_consumption" ]
      <4>1. ~ (Cardinality(positive) > 1) /\ positive # {}
        BY <2>1, <3>1
      <4>2. QED
        BY <2>1, <4>1 DEF ResolveInitialState, base
    <3> HIDE DEF positive, only
    <3>4. ResolveInitialState(now, points, prev)
            = [ base EXCEPT
                  !.status = Confirmed, !.active = only, !.evidence = {only},
                  !.startedAt = now, !.lastEvidenceAt = now,
                  !.reason = "initial_unique_cumulative_consumption" ]
      BY <1>b, <3>1, <3>3 DEF StateType
    <3>5. "initial_unique_cumulative_consumption" \in StateReasons
      BY DEF StateReasons
    <3> DEFINE s == ResolveInitialState(now, points, prev)
    <3> HIDE DEF s
    <3>6. s = [ base EXCEPT
                  !.status = Confirmed, !.active = only, !.evidence = {only},
                  !.startedAt = now, !.lastEvidenceAt = now,
                  !.reason = "initial_unique_cumulative_consumption" ]
      BY <3>4 DEF s
    <3>7. /\ s.status = Confirmed /\ s.active = only /\ s.evidence = {only}
          /\ s.startedAt = now /\ s.lastEvidenceAt = now
      BY <1>b, <3>6 DEF StateType
    <3>8. s \in StateType
      BY <1>b, <3>2, <3>5, <3>6 DEF StateType
    <3>9. QED
      BY <3>2, <3>7, <3>8, NamedState DEF s
  <2>2. CASE Cardinality(positive) # 1
    <3>1. Cardinality(positive) \in Nat /\ (Cardinality(positive) = 0 <=> positive = {})
      BY <1>1, FS_CardinalityType, FS_EmptySet
    <3>2. base \in StateType /\ base.status = Warning /\ base.active = NoEnroll
          /\ positive \subseteq Enroll
      BY <1>1, <1>b
    <3>3. CASE positive = {}
      <4>1. ResolveInitialState(now, points, prev) = fresh
        BY <2>2, <3>1, <3>3 DEF ResolveInitialState, base
      <4> HIDE DEF positive
      <4>2. QED
        BY <1>2, <3>2, <4>1 DEF Holds, StateType, StateReasons
    <3>4. CASE positive # {}
      <4>1. ResolveInitialState(now, points, prev)
              = [ fresh EXCEPT
                    !.lastEvidenceAt = now,
                    !.reason = "initial_multiple_cumulative_consumption" ]
        BY <2>2, <3>1, <3>4 DEF ResolveInitialState, base
      <4> HIDE DEF positive
      <4>2. QED
        BY <1>2, <3>2, <4>1 DEF Holds, StateType, StateReasons
    <3>5. QED
      BY <3>3, <3>4
  <2>3. QED
    BY <2>1, <2>2
<1> DEFINE r1 == "carry_forward_no_consumption"
              r2 == "carry_forward_conflict"
              r3 == "carry_forward_warning"
<1>12. r1 \in StateReasons /\ r2 \in StateReasons /\ r3 \in StateReasons
  BY DEF StateReasons
<1>13. CASE CarriesConfirmed(points, prev)
  BY <1>4, <1>5, <1>6, <1>8, <1>12, <1>13 DEF ResolveSKCActivityState
<1>14. CASE ~ CarriesConfirmed(points, prev) /\ CarriesConflict(points, prev)
  <2>1. /\ prev # NoState /\ prev.status = Warning
        /\ prev.evidence \cap EnrollsOf(points) \in SUBSET Enroll
    BY <1>14 DEF CarriesConflict
  <2>2. Holds([Carried(now, points, prev, r2)
                 EXCEPT !.evidence = prev.evidence \cap EnrollsOf(points)],
              now, EnrollsOf(points))
    BY <1>9, <1>12, <2>1
  <2>3. QED
    BY <1>4, <1>5, <1>6, <1>14, <2>2 DEF ResolveSKCActivityState
<1>15. CASE /\ ~ CarriesConfirmed(points, prev) /\ ~ CarriesConflict(points, prev)
            /\ CarriesWarning(points, prev)
  <2>1. prev # NoState /\ prev.status = Warning
    BY <1>15 DEF CarriesWarning
  <2>2. Holds(Carried(now, points, prev, r3), now, EnrollsOf(points))
    BY <1>9, <1>12, <2>1
  <2>3. QED
    BY <1>4, <1>5, <1>6, <1>15, <2>2 DEF ResolveSKCActivityState
<1>16. CASE /\ ~ CarriesConfirmed(points, prev) /\ ~ CarriesConflict(points, prev)
            /\ ~ CarriesWarning(points, prev)
  BY <1>4, <1>5, <1>6, <1>10, <1>16 DEF ResolveSKCActivityState
<1>17. QED
  BY <1>13, <1>14, <1>15, <1>16

----------------------------------------------------------------------------
(* Snapshots *)

Indexed(s) == Len(s) \in Nat /\ DOMAIN s = 1..Len(s) /\ IsFiniteSet(DOMAIN s)

ListedPrice ==
  [sku : SKU, currency : Currency \cup {NoCurrency}, daily : Nat, activity : Nat]

LEMMA SnapshotShape ==
  ASSUME NEW snapshot \in Snapshots
  PROVE  /\ Indexed(snapshot)
         /\ \A i \in DOMAIN snapshot :
              /\ snapshot[i].enroll \in Enroll
              /\ snapshot[i].stock \in Nat /\ snapshot[i].remaining \in Nat
              /\ Indexed(snapshot[i].skcs)
              /\ \A j \in DOMAIN snapshot[i].skcs :
                   /\ snapshot[i].skcs[j].skc \in SKC
                   /\ Indexed(snapshot[i].skcs[j].prices)
                   /\ \A k \in DOMAIN snapshot[i].skcs[j].prices :
                        snapshot[i].skcs[j].prices[k] \in ListedPrice
<1> DEFINE price == ListedPrice
           skc   == [skc : SKC, prices : Seq(price)]
           entry == [enroll : Enroll, stock : Nat, remaining : Nat, skcs : Seq(skc)]
<1>1. \A S, s : s \in Seq(S) => Indexed(s) /\ \A i \in DOMAIN s : s[i] \in S
  <2> SUFFICES ASSUME NEW S, NEW s \in Seq(S)
               PROVE  Indexed(s) /\ \A i \in DOMAIN s : s[i] \in S
    OBVIOUS
  <2>1. DOMAIN s = 1..Len(s) /\ Len(s) \in Nat
    OBVIOUS
  <2>2. QED
    BY <2>1, FS_Interval DEF Indexed
<1>2. snapshot \in Seq(entry)
  BY ObserverAssumption DEF SnapshotType, ListedPrice
<1> HIDE DEF price
<1>3. \A x \in skc : x.skc \in SKC /\ x.prices \in Seq(price)
  OBVIOUS
<1> HIDE DEF skc
<1>4. \A x \in entry : /\ x.enroll \in Enroll /\ x.stock \in Nat /\ x.remaining \in Nat
                       /\ x.skcs \in Seq(skc)
  OBVIOUS
<1> HIDE DEF entry
<1>5. Indexed(snapshot) /\ \A i \in DOMAIN snapshot : snapshot[i] \in entry
  BY <1>1, <1>2
<1>6. ASSUME NEW i \in DOMAIN snapshot
      PROVE  /\ snapshot[i].enroll \in Enroll
             /\ snapshot[i].stock \in Nat /\ snapshot[i].remaining \in Nat
             /\ Indexed(snapshot[i].skcs)
             /\ \A j \in DOMAIN snapshot[i].skcs : snapshot[i].skcs[j] \in skc
  BY <1>1, <1>4, <1>5
<1>7. ASSUME NEW i \in DOMAIN snapshot, NEW j \in DOMAIN snapshot[i].skcs
      PROVE  /\ snapshot[i].skcs[j].skc \in SKC
             /\ Indexed(snapshot[i].skcs[j].prices)
             /\ \A k \in DOMAIN snapshot[i].skcs[j].prices :
                  snapshot[i].skcs[j].prices[k] \in price
  BY <1>1, <1>3, <1>6
<1>8. QED
  BY <1>5, <1>6, <1>7 DEF price

\* Where an SKC is listed, and what is observed there.
LEMMA PlacesShape ==
  ASSUME NEW snapshot \in Snapshots, NEW remaining
  PROVE  /\ IsFiniteSet(Places(snapshot))
         /\ DOMAIN Observations(snapshot, remaining) = Places(snapshot)
         /\ \A p \in Places(snapshot) :
              /\ p \in Nat \X Nat
              /\ p[1] \in DOMAIN snapshot /\ p[2] \in DOMAIN snapshot[p[1]].skcs
              /\ Observations(snapshot, remaining)[p]
                   = StockObservation(StockEntry(snapshot, p), remaining)
              /\ Observations(snapshot, remaining)[p].enroll = snapshot[p[1]].enroll
              /\ Observations(snapshot, remaining)[p].skc = snapshot[p[1]].skcs[p[2]].skc
<1> DEFINE At == [i \in DOMAIN snapshot |-> {i} \X DOMAIN snapshot[i].skcs]
<1>1. \A i \in DOMAIN snapshot : i \in Nat /\ DOMAIN snapshot[i].skcs \subseteq Nat
                                 /\ IsFiniteSet(DOMAIN snapshot[i].skcs)
  BY SnapshotShape DEF Indexed
<1>2. Places(snapshot) = UNION {At[i] : i \in DOMAIN snapshot}
  BY DEF Places
<1>3. \A i \in DOMAIN snapshot : IsFiniteSet(At[i])
  BY <1>1, FS_Product, FS_Singleton
<1>4. IsFiniteSet({At[i] : i \in DOMAIN snapshot})
  <2> HIDE DEF At
  <2>1. QED
    BY SnapshotShape, FiniteImage DEF Indexed
<1>5. IsFiniteSet(Places(snapshot))
  <2> HIDE DEF At
  <2>1. QED
    BY <1>2, <1>3, <1>4, FS_UNION
<1>6. ASSUME NEW p \in Places(snapshot)
      PROVE  /\ p \in Nat \X Nat
             /\ p[1] \in DOMAIN snapshot /\ p[2] \in DOMAIN snapshot[p[1]].skcs
  <2>1. PICK i \in DOMAIN snapshot : p \in {i} \X DOMAIN snapshot[i].skcs
    BY DEF Places
  <2>2. QED
    BY <1>1, <2>1
<1>7. DOMAIN Observations(snapshot, remaining) = Places(snapshot)
  BY DEF Observations
<1>8. ASSUME NEW p \in Places(snapshot)
      PROVE  /\ Observations(snapshot, remaining)[p]
                  = StockObservation(StockEntry(snapshot, p), remaining)
             /\ Observations(snapshot, remaining)[p].enroll = snapshot[p[1]].enroll
             /\ Observations(snapshot, remaining)[p].skc = snapshot[p[1]].skcs[p[2]].skc
  <2>1. Observations(snapshot, remaining)[p]
          = StockObservation(StockEntry(snapshot, p), remaining)
    BY DEF Observations
  <2>2. /\ StockObservation(StockEntry(snapshot, p), remaining).enroll
             = StockEntry(snapshot, p).enroll
        /\ StockObservation(StockEntry(snapshot, p), remaining).skc
             = StockEntry(snapshot, p).skc
    BY DEF StockObservation
  <2>3. QED
    BY <2>1, <2>2 DEF StockEntry
<1>9. QED
  BY <1>5, <1>6, <1>7, <1>8

\* What is remembered of an enrollment and SKC is their last listing.
LEMMA LastListing ==
  ASSUME NEW snapshot \in Snapshots, NEW remaining,
         NEW key \in DOMAIN LastOfEachKey(Observations(snapshot, remaining))
  PROVE  LET observations == Observations(snapshot, remaining)
         IN  \E p \in Places(snapshot) :
               /\ LastOfEachKey(observations)[key] = observations[p]
               /\ KeyOf(observations[p]) = key
               /\ \A q \in Places(snapshot) :
                    Before(p, q) => KeyOf(observations[q]) # key
<1> DEFINE observations == Observations(snapshot, remaining)
           own == {p \in Places(snapshot) : KeyOf(observations[p]) = key}
           IsLast(p) == /\ KeyOf(observations[p]) = key
                        /\ \A q \in DOMAIN observations :
                             Before(p, q) => KeyOf(observations[q]) # key
<1>1. /\ DOMAIN observations = Places(snapshot)
      /\ \A p \in Places(snapshot) :
           /\ p \in Nat \X Nat /\ p = <<p[1], p[2]>>
           /\ p[1] \in DOMAIN snapshot /\ p[2] \in DOMAIN snapshot[p[1]].skcs
  BY PlacesShape
<1> HIDE DEF observations
<1>2. own # {}
  BY <1>1 DEF LastOfEachKey, Range, observations
<1> HIDE DEF own
<1>3. own \subseteq Places(snapshot)
  BY DEF own
<1>4. PICK i \in {p[1] : p \in own} : \A m \in {p[1] : p \in own} : m <= i
  <2>1. \A p \in own : p[1] \in Nat /\ p[1] <= Len(snapshot)
    BY <1>1, <1>3, SnapshotShape DEF Indexed
  <2>2. Len(snapshot) \in Nat
    BY SnapshotShape DEF Indexed
  <2>3. {p[1] : p \in own} \in SUBSET Nat /\ {p[1] : p \in own} # {}
    BY <1>2, <2>1
  <2>4. \A m \in {p[1] : p \in own} : m <= Len(snapshot)
    BY <2>1
  <2>5. QED
    BY <2>2, <2>3, <2>4, GreatestNatural
<1> DEFINE there == {p \in own : p[1] = i}
<1>5. PICK j \in {p[2] : p \in there} : \A m \in {p[2] : p \in there} : m <= j
  <2>1. \A p \in there : p[2] \in Nat /\ p[2] <= Len(snapshot[i].skcs)
    BY <1>1, <1>3, SnapshotShape DEF Indexed
  <2>2. Len(snapshot[i].skcs) \in Nat
    BY <1>1, <1>3, SnapshotShape DEF Indexed
  <2>3. {p[2] : p \in there} \in SUBSET Nat /\ {p[2] : p \in there} # {}
    BY <2>1
  <2>4. \A m \in {p[2] : p \in there} : m <= Len(snapshot[i].skcs)
    BY <2>1
  <2>5. QED
    BY <2>2, <2>3, <2>4, GreatestNatural
<1>6. <<i, j>> \in own
  BY <1>1, <1>3
<1>7. \A q \in own : ~ Before(<<i, j>>, q)
  <2> SUFFICES ASSUME NEW q \in own, Before(<<i, j>>, q) PROVE FALSE
    OBVIOUS
  <2>1. q[1] \in Nat /\ q[2] \in Nat /\ i \in Nat /\ j \in Nat
    BY <1>1, <1>3, <1>6
  <2>2. q[1] <= i
    BY <1>4
  <2>3. q[1] = i /\ j < q[2]
    BY <2>1, <2>2 DEF Before
  <2>4. q[2] <= j
    BY <1>5, <2>3
  <2>5. QED
    BY <2>1, <2>3, <2>4
<1>8. IsLast(<<i, j>>) /\ <<i, j>> \in DOMAIN observations
  BY <1>1, <1>3, <1>6, <1>7 DEF own
<1>9. LastOfEachKey(observations)[key]
        = observations[CHOOSE p \in DOMAIN observations : IsLast(p)]
  BY DEF LastOfEachKey, observations
<1> HIDE DEF IsLast
<1>10. PICK p \in DOMAIN observations :
         IsLast(p) /\ LastOfEachKey(observations)[key] = observations[p]
  BY <1>8, <1>9
<1>11. QED
  BY <1>1, <1>10 DEF IsLast, observations

RemainingIsCounted == \A key \in DOMAIN previousRemaining : previousRemaining[key] \in Nat

\* Without restocks between pages, what is remembered of the enrollments shows
\* which of them lost stock.
LEMMA LostIsDropped ==
  ASSUME NoRestockInPull, RemainingIsCounted, NEW snapshot \in Snapshots, NEW k
  PROVE  LET observations == Observations(snapshot, previousRemaining)
             last == LastOfEachKey(observations)
         IN  Consuming(StockPointsOf(k, observations))
               = {e \in Enroll : <<e, k>> \in DOMAIN last /\ last[<<e, k>>].consumed > 0}
<1> DEFINE observations == Observations(snapshot, previousRemaining)
           last == LastOfEachKey(observations)
           Entry(p) == StockEntry(snapshot, p)
           Lost(p) == observations[p].consumed > 0
<1>1. /\ DOMAIN observations = Places(snapshot)
      /\ \A p \in Places(snapshot) :
           /\ p \in Nat \X Nat /\ p = <<p[1], p[2]>>
           /\ observations[p] = StockObservation(Entry(p), previousRemaining)
           /\ KeyOf(observations[p]) = KeyOf(Entry(p))
           /\ KeyOf(observations[p]) = <<observations[p].enroll, observations[p].skc>>
           /\ observations[p].enroll \in Enroll
           /\ Entry(p).remaining \in Nat
  <2>1. DOMAIN observations = Places(snapshot)
    BY PlacesShape
  <2>2. ASSUME NEW p \in Places(snapshot)
        PROVE  /\ p \in Nat \X Nat /\ p = <<p[1], p[2]>>
               /\ observations[p] = StockObservation(Entry(p), previousRemaining)
               /\ observations[p].enroll \in Enroll
               /\ p[1] \in DOMAIN snapshot
    BY PlacesShape, SnapshotShape
  <2>3. ASSUME NEW p \in Places(snapshot)
        PROVE  /\ KeyOf(observations[p]) = KeyOf(Entry(p))
               /\ KeyOf(observations[p]) = <<observations[p].enroll, observations[p].skc>>
    <3>1. /\ StockObservation(Entry(p), previousRemaining).enroll = Entry(p).enroll
          /\ StockObservation(Entry(p), previousRemaining).skc = Entry(p).skc
      BY DEF StockObservation
    <3> HIDE DEF observations, Entry
    <3>2. QED
      BY <2>2, <3>1 DEF KeyOf
  <2>4. ASSUME NEW p \in Places(snapshot) PROVE Entry(p).remaining \in Nat
    BY <2>2, SnapshotShape DEF StockEntry
  <2> HIDE DEF observations, Entry
  <2>5. QED
    BY <2>1, <2>2, <2>3, <2>4
<1>2. \A p \in Places(snapshot) : Lost(p) <=>
        /\ KeyOf(Entry(p)) \in DOMAIN previousRemaining
        /\ previousRemaining[KeyOf(Entry(p))] > Entry(p).remaining
  <2> SUFFICES ASSUME NEW p \in Places(snapshot)
               PROVE  Lost(p) <=> /\ KeyOf(Entry(p)) \in DOMAIN previousRemaining
                                  /\ previousRemaining[KeyOf(Entry(p))] > Entry(p).remaining
    OBVIOUS
  <2> DEFINE before == IF KeyOf(Entry(p)) \in DOMAIN previousRemaining
                         THEN previousRemaining[KeyOf(Entry(p))] ELSE Entry(p).remaining
  <2>1. observations[p].consumed = Positive0(before - Entry(p).remaining)
    BY <1>1 DEF StockObservation
  <2>2. before \in Nat /\ Entry(p).remaining \in Nat
    BY <1>1 DEF RemainingIsCounted
  <2> HIDE DEF observations, Entry
  <2>3. QED
    BY <2>1, <2>2 DEF Positive0
<1>3. Consuming(StockPointsOf(k, observations))
        = {o.enroll : o \in {obs \in Range(observations) : obs.skc = k /\ obs.consumed > 0}}
  <2> DEFINE own == {obs \in Range(observations) : obs.skc = k}
             Point(o) == [ enroll |-> o.enroll, cumulative |-> o.cumulative,
                           interval |-> o.consumed ]
  <2>1. StockPointsOf(k, observations) = {Point(o) : o \in own}
    BY DEF StockPointsOf
  <2>2. \A o \in own : Point(o).enroll = o.enroll /\ Point(o).interval = o.consumed
    OBVIOUS
  <2> HIDE DEF own, Point
  <2>3. Consuming({Point(o) : o \in own}) = {o.enroll : o \in {obs \in own : obs.consumed > 0}}
    BY <2>2 DEF Consuming, EnrollsOf
  <2>4. {obs \in own : obs.consumed > 0}
          = {obs \in Range(observations) : obs.skc = k /\ obs.consumed > 0}
    BY DEF own
  <2>5. QED
    BY <2>1, <2>3, <2>4
<1> HIDE DEF observations
<1>4. \A e : e \in Consuming(StockPointsOf(k, observations)) <=>
        \E p \in Places(snapshot) : KeyOf(observations[p]) = <<e, k>> /\ Lost(p)
  BY <1>1, <1>3 DEF Range
<1>5. \A e : <<e, k>> \in DOMAIN last <=>
        \E p \in Places(snapshot) : KeyOf(observations[p]) = <<e, k>>
  <2>1. DOMAIN last = {KeyOf(o) : o \in Range(observations)}
    BY DEF LastOfEachKey
  <2>2. QED
    BY <1>1, <2>1 DEF Range
<1>6. ASSUME NEW e, <<e, k>> \in DOMAIN last
      PROVE  e \in Consuming(StockPointsOf(k, observations)) <=> last[<<e, k>>].consumed > 0
  <2>1. PICK p \in Places(snapshot) :
          /\ last[<<e, k>>] = observations[p] /\ KeyOf(observations[p]) = <<e, k>>
          /\ \A q \in Places(snapshot) : Before(p, q) => KeyOf(observations[q]) # <<e, k>>
    BY <1>6, LastListing DEF observations
  <2>2. ASSUME NEW q \in Places(snapshot), KeyOf(observations[q]) = <<e, k>>, Lost(q)
        PROVE  Lost(p)
    <3>1. CASE q = p
      BY <2>2, <3>1
    <3>2. CASE q # p
      <4>1. Before(q, p)
        <5>1. ~ Before(p, q)
          BY <2>1, <2>2
        <5>2. p \in Nat \X Nat /\ q \in Nat \X Nat /\ (q[1] # p[1] \/ q[2] # p[2])
          BY <1>1, <3>2
        <5>3. QED
          BY <5>1, <5>2 DEF Before
      <4>2. Entry(p).remaining <= Entry(q).remaining
        <5>1. KeyOf(Entry(q)) = KeyOf(Entry(p))
          BY <1>1, <2>1, <2>2
        <5>2. QED
          BY <4>1, <5>1 DEF NoRestockInPull
      <4>3. KeyOf(Entry(p)) = KeyOf(Entry(q))
        BY <1>1, <2>1, <2>2
      <4>4. /\ KeyOf(Entry(q)) \in DOMAIN previousRemaining
            /\ previousRemaining[KeyOf(Entry(q))] > Entry(q).remaining
        BY <1>2, <2>2
      <4>5. /\ previousRemaining[KeyOf(Entry(q))] \in Nat
            /\ Entry(p).remaining \in Nat /\ Entry(q).remaining \in Nat
        BY <1>1, <4>4 DEF RemainingIsCounted
      <4> HIDE DEF Entry, Lost
      <4>6. QED
        BY <1>2, <4>2, <4>3, <4>4, <4>5
    <3>3. QED
      BY <3>1, <3>2
  <2> HIDE DEF last
  <2>3. QED
    BY <1>4, <2>1, <2>2
<1>7. \A e : <<e, k>> \in DOMAIN last => e \in Enroll
  <2> HIDE DEF last
  <2>1. QED
    BY <1>1, <1>5
<1>8. \A e \in Consuming(StockPointsOf(k, observations)) : <<e, k>> \in DOMAIN last
  <2> HIDE DEF last
  <2>1. QED
    BY <1>4, <1>5
<1>9. Consuming(StockPointsOf(k, observations))
        = {e \in Enroll : <<e, k>> \in DOMAIN last /\ last[<<e, k>>].consumed > 0}
  <2> HIDE DEF last
  <2>1. QED
    BY <1>6, <1>7, <1>8
<1>10. QED
  BY <1>9 DEF observations

----------------------------------------------------------------------------
(* Prices of a snapshot *)

PointType ==
  [ enroll : Enroll, skc : SKC, sku : SKU, currency : Currency \cup {NoCurrency},
    daily : Nat, activity : Nat ]

ListingPlaces == (Nat \X Nat) \X Nat

\* Where a price is listed, and what is listed there.
LEMMA PricePlacesShape ==
  ASSUME NEW snapshot \in Snapshots
  PROVE  /\ IsFiniteSet(PricePlaces(snapshot))
         /\ DOMAIN PricePoints(snapshot) = PricePlaces(snapshot)
         /\ \A l \in PricePlaces(snapshot) :
              /\ l \in ListingPlaces
              /\ l[1] \in Places(snapshot)
              /\ l[2] \in DOMAIN snapshot[l[1][1]].skcs[l[1][2]].prices
              /\ PricePoints(snapshot)[l] = PricePoint(snapshot, l)
              /\ PricePoint(snapshot, l) \in PointType
<1> DEFINE Prices(p) == snapshot[p[1]].skcs[p[2]].prices
           At == [p \in Places(snapshot) |-> {p} \X DOMAIN Prices(p)]
<1>1. ASSUME NEW p \in Places(snapshot)
      PROVE  /\ p \in Nat \X Nat
             /\ snapshot[p[1]].enroll \in Enroll
             /\ snapshot[p[1]].skcs[p[2]].skc \in SKC
             /\ Indexed(Prices(p))
             /\ \A k \in DOMAIN Prices(p) :
                  Prices(p)[k] \in ListedPrice
  BY PlacesShape, SnapshotShape
<1>2. PricePlaces(snapshot) = UNION {At[p] : p \in Places(snapshot)}
  BY DEF PricePlaces
<1>3. \A p \in Places(snapshot) : IsFiniteSet(At[p])
  BY <1>1, FS_Product, FS_Singleton DEF Indexed
<1>4. IsFiniteSet({At[p] : p \in Places(snapshot)})
  <2> HIDE DEF At
  <2>1. QED
    BY PlacesShape, FiniteImage
<1>5. IsFiniteSet(PricePlaces(snapshot))
  <2> HIDE DEF At
  <2>1. QED
    BY <1>2, <1>3, <1>4, FS_UNION
<1>6. ASSUME NEW l \in PricePlaces(snapshot)
      PROVE  /\ l \in ListingPlaces
             /\ l[1] \in Places(snapshot)
             /\ l[2] \in DOMAIN Prices(l[1])
             /\ PricePoints(snapshot)[l] = PricePoint(snapshot, l)
             /\ PricePoint(snapshot, l) \in PointType
  <2>1. PICK p \in Places(snapshot) : l \in {p} \X DOMAIN Prices(p)
    BY DEF PricePlaces
  <2>2. l[1] = p /\ l[2] \in DOMAIN Prices(p) /\ l = <<l[1], l[2]>>
    BY <2>1
  <2>3. p \in Nat \X Nat /\ l[2] \in Nat
    BY <1>1, <2>2 DEF Indexed
  <2>4. PricePoints(snapshot)[l] = PricePoint(snapshot, l)
    BY DEF PricePoints
  <2>5. PricePoint(snapshot, l) \in PointType
    <3> DEFINE price == Prices(p)[l[2]]
    <3>1. price \in ListedPrice
      BY <1>1, <2>2
    <3>2. PricePoint(snapshot, l)
            = [ enroll |-> snapshot[p[1]].enroll, skc |-> snapshot[p[1]].skcs[p[2]].skc,
                sku |-> price.sku, currency |-> price.currency,
                daily |-> price.daily, activity |-> price.activity ]
      BY <2>2 DEF PricePoint
    <3> HIDE DEF price
    <3>3. QED
      BY <1>1, <3>1, <3>2 DEF PointType, ListedPrice
  <2>6. QED
    BY <2>2, <2>3, <2>4, <2>5 DEF ListingPlaces
<1>7. QED
  BY <1>5, <1>6 DEF PricePoints

\* The point that leads some places is listed at one of them.
LEMMA LeadingIsListed ==
  ASSUME NEW points, NEW L, L \subseteq ListingPlaces, L # {}
  PROVE  Leading(points, L) \in {points[l] : l \in L}
<1> DEFINE A == {l[1][1] : l \in L}
<1>1. \A l \in L : l[1][1] \in Nat /\ l[1][2] \in Nat /\ l[2] \in Nat
                   /\ l = <<<<l[1][1], l[1][2]>>, l[2]>>
  BY DEF ListingPlaces
<1>2. PICK a \in A : \A x \in A : a <= x
  <2>1. A \in SUBSET Nat /\ A # {}
    BY <1>1
  <2> HIDE DEF A
  <2>2. QED
    BY <2>1, LeastNatural
<1> DEFINE B == {l[1][2] : l \in {m \in L : m[1][1] = a}}
<1>3. PICK b \in B : \A x \in B : b <= x
  <2>1. B \in SUBSET Nat /\ B # {}
    BY <1>1, <1>2
  <2> HIDE DEF B
  <2>2. QED
    BY <2>1, LeastNatural
<1> DEFINE C == {l[2] : l \in {m \in L : m[1][1] = a /\ m[1][2] = b}}
<1>4. PICK c \in C : \A x \in C : c <= x
  <2>1. C \in SUBSET Nat /\ C # {}
    BY <1>1, <1>3
  <2> HIDE DEF C
  <2>2. QED
    BY <2>1, LeastNatural
<1>5. PICK l \in L : l[1][1] = a /\ l[1][2] = b /\ l[2] = c
  BY <1>4
<1>6. ASSUME NEW m \in L \ {l} PROVE PriceBefore(l, m)
  <2>1. a <= m[1][1]
    BY <1>2
  <2>2. m[1][1] = a => b <= m[1][2]
    BY <1>3
  <2>3. m[1][1] = a /\ m[1][2] = b => c <= m[2]
    BY <1>4
  <2>4. /\ m[1][1] \in Nat /\ m[1][2] \in Nat /\ m[2] \in Nat
        /\ a \in Nat /\ b \in Nat /\ c \in Nat
        /\ m = <<<<m[1][1], m[1][2]>>, m[2]>> /\ l = <<<<a, b>>, c>> /\ l[1] = <<a, b>>
        /\ m[1] = <<m[1][1], m[1][2]>>
    BY <1>1, <1>5
  <2>5. ~ (m[1][1] = a /\ m[1][2] = b /\ m[2] = c)
    BY <2>4
  <2>6. CASE m[1][1] # a
    BY <1>5, <2>1, <2>4, <2>6 DEF PriceBefore, Before
  <2>7. CASE m[1][1] = a /\ m[1][2] # b
    BY <1>5, <2>2, <2>4, <2>7 DEF PriceBefore, Before
  <2>8. CASE m[1][1] = a /\ m[1][2] = b
    <3>1. m[1] = l[1] /\ c < m[2]
      BY <2>3, <2>4, <2>5, <2>8
    <3>2. QED
      BY <1>5, <3>1 DEF PriceBefore
  <2>9. QED
    BY <2>6, <2>7, <2>8
<1> DEFINE first == CHOOSE x \in L : \A m \in L \ {x} : PriceBefore(x, m)
<1>7. first \in L
  BY <1>5, <1>6
<1>8. Leading(points, L) = points[first]
  BY DEF Leading
<1> HIDE DEF first
<1>9. QED
  BY <1>7, <1>8

\* The first point of an SKU is one of its points, and the first currency one
\* of the currencies they name, if they name any.
LEMMA FirstIsListed ==
  ASSUME NEW points, DOMAIN points \subseteq ListingPlaces,
         NEW sku, PlacesListing(points, sku) # {}
  PROVE  /\ FirstListed(points, sku) \in PointsOf(points, sku)
         /\ IF CurrenciesNamed(points, sku) = {}
              THEN FirstCurrency(points, sku) = NoCurrency
              ELSE FirstCurrency(points, sku) \in CurrenciesNamed(points, sku)
<1> DEFINE L == PlacesListing(points, sku)
           N == PlacesNaming(points, sku)
<1>1. /\ L \subseteq ListingPlaces /\ N \subseteq L
      /\ \A l \in N : points[l].currency # NoCurrency
      /\ \A l \in L \ N : points[l].currency = NoCurrency
  BY DEF PlacesListing, PlacesNaming
<1>2. FirstListed(points, sku) \in PointsOf(points, sku)
  BY <1>1, LeadingIsListed DEF FirstListed, PointsOf
<1> HIDE DEF L, N
<1>3. CurrenciesNamed(points, sku) = {points[l].currency : l \in N}
  <2>1. \A c : c \in CurrenciesNamed(points, sku)
                <=> c # NoCurrency /\ \E l \in L : c = points[l].currency
    BY DEF CurrenciesNamed, PointsOf, L
  <2>2. \A c : c \in CurrenciesNamed(points, sku) <=> \E l \in N : c = points[l].currency
    BY <1>1, <2>1
  <2>3. QED
    BY <2>2
<1>4. CASE N = {}
  <2>1. FirstCurrency(points, sku) = NoCurrency
    BY <1>4 DEF FirstCurrency, N
  <2>2. CurrenciesNamed(points, sku) = {}
    BY <1>3, <1>4
  <2>3. QED
    BY <1>2, <2>1, <2>2
<1>5. CASE N # {}
  <2>1. Leading(points, N) \in {points[l] : l \in N}
    BY <1>1, <1>5, LeadingIsListed
  <2>2. FirstCurrency(points, sku) = Leading(points, N).currency
    BY <1>5 DEF FirstCurrency, N
  <2>3. FirstCurrency(points, sku) \in CurrenciesNamed(points, sku)
    BY <1>3, <2>1, <2>2
  <2>4. QED
    BY <1>2, <2>3
<1>6. QED
  BY <1>4, <1>5

\* The points of an SKU: finitely many, and each of it.
LEMMA PointsShape ==
  ASSUME NEW snapshot \in Snapshots, NEW sku
  PROVE  LET points == PricePoints(snapshot)
         IN  /\ IsFiniteSet(PointsOf(points, sku))
             /\ IsFiniteSet(SKCsListing(points, sku))
             /\ \A p \in PointsOf(points, sku) : p \in PointType /\ p.sku = sku
             /\ PlacesListing(points, sku) # {} =>
                  /\ FirstListed(points, sku) \in PointsOf(points, sku)
                  /\ FirstCurrency(points, sku) \in Currency \cup {NoCurrency}
<1> DEFINE points == PricePoints(snapshot)
           L == PlacesListing(points, sku)
<1>1. DOMAIN points = PricePlaces(snapshot) /\ IsFiniteSet(PricePlaces(snapshot))
      /\ \A l \in PricePlaces(snapshot) : points[l] \in PointType /\ l \in ListingPlaces
  BY PricePlacesShape
<1> HIDE DEF points
<1>2. IsFiniteSet(L) /\ L \subseteq PricePlaces(snapshot)
      /\ \A l \in L : points[l].sku = sku
  <2>1. L \subseteq PricePlaces(snapshot) /\ \A l \in L : points[l].sku = sku
    BY <1>1 DEF PlacesListing
  <2>2. QED
    BY <1>1, <2>1, FS_Subset
<1>3. PointsOf(points, sku) = {points[l] : l \in L}
  BY DEF PointsOf
<1>4. IsFiniteSet(PointsOf(points, sku))
  BY <1>2, <1>3, FiniteImage
<1>5. IsFiniteSet(SKCsListing(points, sku))
  <2> DEFINE skc == [p \in PointsOf(points, sku) |-> p.skc]
  <2>1. SKCsListing(points, sku) = {skc[p] : p \in PointsOf(points, sku)}
    BY DEF SKCsListing
  <2> HIDE DEF skc
  <2>2. QED
    BY <1>4, <2>1, FiniteImage
<1>6. \A p \in PointsOf(points, sku) : p \in PointType /\ p.sku = sku
  BY <1>1, <1>2, <1>3
<1>7. CurrenciesNamed(points, sku) \subseteq Currency
  BY <1>6 DEF CurrenciesNamed, PointType
<1>8. L # {} => /\ FirstListed(points, sku) \in PointsOf(points, sku)
                /\ FirstCurrency(points, sku) \in Currency \cup {NoCurrency}
  <2>1. DOMAIN points \subseteq ListingPlaces
    BY <1>1
  <2>2. QED
    BY <1>7, <2>1, FirstIsListed
<1>9. QED
  BY <1>4, <1>5, <1>6, <1>8 DEF points

----------------------------------------------------------------------------
(* The price of an SKU *)

LEMMA OnlyPriceIsPrice ==
  ASSUME NEW S \in SUBSET Nat, IsFiniteSet(S)
  PROVE  /\ OnlyPrice(S) \in Nat
         /\ Cardinality(S) = 1 => TheOnly(S) \in Nat
         /\ Cardinality(S) \in Nat /\ (Cardinality(S) = 0 => S = {})
<1>1. Cardinality(S) = 1 => TheOnly(S) \in S
  BY OnlyElement
<1>2. Cardinality(S) \in Nat /\ (Cardinality(S) = 0 <=> S = {})
  BY FS_CardinalityType, FS_EmptySet
<1>3. QED
  BY <1>1, <1>2 DEF OnlyPrice, NoPrice

LEMMA PricesOfPoints ==
  ASSUME NEW points, IsFiniteSet(points), \A p \in points : p \in PointType
  PROVE  /\ DailyPrices(points) \in SUBSET Nat /\ IsFiniteSet(DailyPrices(points))
         /\ ActivityPrices(points) \in SUBSET Nat /\ IsFiniteSet(ActivityPrices(points))
<1> DEFINE daily == [p \in points |-> p.daily]
           activity == [p \in points |-> p.activity]
<1>1. \A p \in points : p.daily \in Nat /\ p.activity \in Nat
  BY DEF PointType
<1>2. /\ DailyPrices(points) \subseteq {daily[p] : p \in points}
      /\ ActivityPrices(points) \subseteq {activity[p] : p \in points}
      /\ DailyPrices(points) \in SUBSET Nat /\ ActivityPrices(points) \in SUBSET Nat
  BY <1>1 DEF DailyPrices, ActivityPrices
<1> HIDE DEF daily, activity
<1>3. IsFiniteSet({daily[p] : p \in points}) /\ IsFiniteSet({activity[p] : p \in points})
  BY FiniteImage
<1>4. QED
  BY <1>2, <1>3, FS_Subset

\* What becomes of the price of an SKU that several SKCs list.
Unnamed(price) ==
  [ price EXCEPT !.status = Warning, !.active = NoEnroll,
                 !.reason = <<"sku_multiple_skc">> ]

\* A price state is of the types the table stores, whichever price was found.
LEMMA ResolvedPrice ==
  ASSUME NEW skcState, skcState.status \in {Confirmed, Warning},
         skcState.active \in Enroll \cup {NoEnroll},
         NEW first \in PointType, NEW currency \in Currency \cup {NoCurrency},
         NEW points, IsFiniteSet(points), \A p \in points : p \in PointType
  PROVE  LET price == ResolveSKUPriceState(skcState, first, currency, points)
         IN  /\ PriceKey(price) \in PriceKeyType
             /\ PriceKey(Unnamed(price)) \in PriceKeyType
<1> DEFINE price    == ResolveSKUPriceState(skcState, first, currency, points)
           daily    == DailyPrices(points)
           named    == skcState.status = Confirmed /\ skcState.active # NoEnroll
           selected == ActivePoints(points, skcState.active)
           prices   == ActivityPrices(selected)
           active   == IF named THEN skcState.active ELSE NoEnroll
           only     == OnlyPrice(daily)
           why      == WhyNoActivityPrice(skcState, prices)
           outcome  == DailyOutcome(daily)
           backup   == IF only = NoPrice THEN OnlyPrice(DailyPrices(selected)) ELSE only
           source   == IF Cardinality(daily) = 1 THEN "daily" ELSE "unresolved"
<1>1. IsFiniteSet(selected) /\ \A p \in selected : p \in PointType
  <2>1. selected \subseteq points
    BY DEF ActivePoints
  <2>2. QED
    BY <2>1, FS_Subset
<1>2. /\ daily \in SUBSET Nat /\ IsFiniteSet(daily)
      /\ prices \in SUBSET Nat /\ IsFiniteSet(prices)
      /\ DailyPrices(selected) \in SUBSET Nat /\ IsFiniteSet(DailyPrices(selected))
  BY <1>1, PricesOfPoints
<1>3. /\ only \in Nat /\ backup \in Nat
      /\ Cardinality(prices) = 1 => TheOnly(prices) \in Nat
      /\ Cardinality(daily) \in Nat /\ (Cardinality(daily) = 0 => daily = {})
  <2> HIDE DEF daily, prices
  <2>1. QED
    BY <1>2, OnlyPriceIsPrice
<1>4. /\ why \in {"skc_state_warning", "confirmed_activity_price_conflict",
                  "confirmed_activity_price_missing"}
      /\ outcome \in {"daily_fallback", "daily_price_conflict", "daily_price_missing"}
  <2>1. why \in {"skc_state_warning", "confirmed_activity_price_conflict",
                 "confirmed_activity_price_missing"}
    BY DEF WhyNoActivityPrice
  <2>2. Cardinality(daily) = 1 \/ Cardinality(daily) > 1 \/ daily = {}
    BY <1>3
  <2>3. outcome \in {"daily_fallback", "daily_price_conflict", "daily_price_missing"}
    BY <2>2 DEF DailyOutcome
  <2>4. QED
    BY <2>1, <2>3
<1>5. /\ first.skc \in SKC
      /\ EnrollsOf(points) \in SUBSET Enroll
      /\ active \in Enroll \cup {NoEnroll}
      /\ source \in PriceSources
  BY DEF PointType, EnrollsOf, PriceSources
<1>6. \/ price = [ sku |-> first.sku, skc |-> first.skc, status |-> Confirmed,
                   active |-> active, candidates |-> EnrollsOf(points), currency |-> currency,
                   daily |-> backup, activity |-> TheOnly(prices),
                   price |-> TheOnly(prices), source |-> "activity",
                   reason |-> <<"confirmed_activity_price">> ]
         /\ Cardinality(prices) = 1
      \/ price = [ sku |-> first.sku, skc |-> first.skc, status |-> Warning,
                   active |-> active, candidates |-> EnrollsOf(points), currency |-> currency,
                   daily |-> only, activity |-> NoPrice,
                   price |-> only, source |-> source,
                   reason |-> <<why, outcome>> ]
  BY DEF ResolveSKUPriceState
<1> HIDE DEF price, daily, named, selected, prices, active, only, why, outcome, backup, source
<1>7. /\ price.skc \in SKC /\ price.active \in Enroll \cup {NoEnroll}
      /\ price.candidates \in SUBSET Enroll
      /\ price.currency \in Currency \cup {NoCurrency}
      /\ price.daily \in Nat /\ price.activity \in Nat /\ price.price \in Nat
      /\ price.source \in PriceSources /\ price.status \in {Confirmed, Warning}
      /\ price.status = Confirmed \/ price.reason \in PriceReasons
      /\ LET moved == [ price EXCEPT !.status = Warning, !.active = NoEnroll,
                                     !.reason = <<"sku_multiple_skc">> ]
         IN  /\ moved.skc = price.skc /\ moved.active = NoEnroll
             /\ moved.candidates = price.candidates
             /\ moved.currency = price.currency /\ moved.daily = price.daily
             /\ moved.activity = price.activity /\ moved.price = price.price
             /\ moved.source = price.source /\ moved.status = Warning
             /\ moved.reason = <<"sku_multiple_skc">>
  <2>1. CASE /\ price = [ sku |-> first.sku, skc |-> first.skc, status |-> Confirmed,
                          active |-> active, candidates |-> EnrollsOf(points), currency |-> currency,
                          daily |-> backup, activity |-> TheOnly(prices),
                          price |-> TheOnly(prices), source |-> "activity",
                          reason |-> <<"confirmed_activity_price">> ]
             /\ Cardinality(prices) = 1
    BY <1>3, <1>5, <2>1 DEF PriceSources
  <2>2. CASE price = [ sku |-> first.sku, skc |-> first.skc, status |-> Warning,
                       active |-> active, candidates |-> EnrollsOf(points), currency |-> currency,
                       daily |-> only, activity |-> NoPrice,
                       price |-> only, source |-> source,
                       reason |-> <<why, outcome>> ]
    <3>1. <<why, outcome>> \in PriceReasons
      BY <1>4 DEF PriceReasons
    <3>2. QED
      BY <1>3, <1>5, <2>2, <3>1 DEF NoPrice
  <2>3. QED
    BY <1>6, <2>1, <2>2
<1>8. << >> \in PriceReasons /\ <<"sku_multiple_skc">> \in PriceReasons
  BY DEF PriceReasons
<1>9. PriceKey(price) \in PriceKeyType
  BY <1>7, <1>8 DEF PriceKey, PriceKeyType
<1>10. PriceKey(Unnamed(price)) \in PriceKeyType
  <2> DEFINE moved == [ price EXCEPT !.status = Warning, !.active = NoEnroll,
                                     !.reason = <<"sku_multiple_skc">> ]
  <2>1. /\ moved.skc = price.skc /\ moved.active = NoEnroll
        /\ moved.candidates = price.candidates
             /\ moved.currency = price.currency /\ moved.daily = price.daily
        /\ moved.activity = price.activity /\ moved.price = price.price
        /\ moved.source = price.source /\ moved.status = Warning
        /\ moved.reason = <<"sku_multiple_skc">>
    BY <1>7
  <2> HIDE DEF moved
  <2>2. PriceKey(moved) \in PriceKeyType
    BY <1>7, <1>8, <2>1 DEF PriceKey, PriceKeyType
  <2>3. QED
    BY <2>2 DEF moved, Unnamed
<1>11. QED
  BY <1>9, <1>10 DEF price

PriceShape(sku, skc, currency, candidates, status, active,
           daily, price, source, activity, reason) ==
  [ sku |-> sku, skc |-> skc, status |-> status, active |-> active,
    candidates |-> candidates, currency |-> currency, daily |-> daily,
    activity |-> activity, price |-> price, source |-> source, reason |-> reason ]

LEMMA UnnamedShape ==
  ASSUME NEW sku, NEW skc, NEW currency, NEW candidates, NEW status, NEW active,
         NEW daily, NEW price, NEW source, NEW activity, NEW reason,
         NEW p, p = PriceShape(sku, skc, currency, candidates, status, active,
                               daily, price, source, activity, reason)
  PROVE  Unnamed(p) = PriceShape(sku, skc, currency, candidates, Warning, NoEnroll,
                                 daily, price, source, activity, <<"sku_multiple_skc">>)
<1> DEFINE q == Unnamed(p)
<1>1. q = Unnamed(p)
  OBVIOUS
<1> HIDE DEF q
<1>2. q = PriceShape(sku, skc, currency, candidates, Warning, NoEnroll,
                     daily, price, source, activity, <<"sku_multiple_skc">>)
  BY <1>1 DEF PriceShape, Unnamed
<1>3. QED
  BY <1>2 DEF q

LEMMA SameShape ==
  ASSUME NEW sku, NEW candidates, NEW status, NEW active,
         NEW daily, NEW price, NEW source, NEW activity, NEW reason,
         NEW k1, NEW k2, NEW c1, NEW c2,
         NEW p1, p1 = PriceShape(sku, k1, c1, candidates, status, active,
                                 daily, price, source, activity, reason),
         NEW p2, p2 = PriceShape(sku, k2, c2, candidates, status, active,
                                 daily, price, source, activity, reason)
  PROVE  /\ SamePrice(p1, p2)
         /\ p1.skc = k1 /\ p1.currency = c1 /\ p2.skc = k2 /\ p2.currency = c2
<1> DEFINE q == [p1 EXCEPT !.skc = p2.skc, !.currency = p2.currency]
<1>1. q = [p1 EXCEPT !.skc = p2.skc, !.currency = p2.currency]
  OBVIOUS
<1> HIDE DEF q
<1>2. p1.skc = k1 /\ p1.currency = c1 /\ p2.skc = k2 /\ p2.currency = c2
  BY DEF PriceShape
<1>3. q = PriceShape(sku, k2, c2, candidates, status, active,
                     daily, price, source, activity, reason)
  BY <1>1, <1>2 DEF PriceShape
<1>4. q = p2
  BY <1>3
<1>5. QED
  BY <1>2, <1>4 DEF SamePrice, q

\* Of the point that comes first, a price state takes its SKU and its SKC, and
\* of all the currencies the first.
LEMMA ResolvedInOtherOrder ==
  ASSUME NEW skcState, NEW points, NEW f1, NEW f2, f1.sku = f2.sku, NEW c1, NEW c2,
         NEW p1, p1 = ResolveSKUPriceState(skcState, f1, c1, points),
         NEW p2, p2 = ResolveSKUPriceState(skcState, f2, c2, points)
  PROVE  /\ SamePrice(p1, p2) /\ SamePrice(Unnamed(p1), Unnamed(p2))
         /\ p1.skc = f1.skc /\ p1.currency = c1
         /\ Unnamed(p1).skc = f1.skc /\ Unnamed(p1).currency = c1
         /\ p2.skc = f2.skc /\ p2.currency = c2
         /\ Unnamed(p2).skc = f2.skc /\ Unnamed(p2).currency = c2
<1>1. PICK candidates, status, active, daily, price, source, activity, reason :
        /\ p1 = PriceShape(f1.sku, f1.skc, c1, candidates, status, active,
                           daily, price, source, activity, reason)
        /\ p2 = PriceShape(f1.sku, f2.skc, c2, candidates, status, active,
                           daily, price, source, activity, reason)
  <2> DEFINE named    == skcState.status = Confirmed /\ skcState.active # NoEnroll
             selected == ActivePoints(points, skcState.active)
             prices   == ActivityPrices(selected)
             active   == IF named THEN skcState.active ELSE NoEnroll
             only     == OnlyPrice(DailyPrices(points))
             backup   == IF only = NoPrice THEN OnlyPrice(DailyPrices(selected)) ELSE only
             source   == IF Cardinality(DailyPrices(points)) = 1 THEN "daily" ELSE "unresolved"
             reason   == << WhyNoActivityPrice(skcState, prices),
                            DailyOutcome(DailyPrices(points)) >>
             Found(f, c) == PriceShape(f.sku, f.skc, c, EnrollsOf(points), Confirmed, active,
                                       backup, TheOnly(prices), "activity",
                                       TheOnly(prices), <<"confirmed_activity_price">>)
             Missing(f, c) == PriceShape(f.sku, f.skc, c, EnrollsOf(points), Warning, active,
                                         only, only, source, NoPrice, reason)
  <2>1. \A f, c : ResolveSKUPriceState(skcState, f, c, points)
                    = IF named /\ Cardinality(prices) = 1 THEN Found(f, c) ELSE Missing(f, c)
    <3> SUFFICES ASSUME NEW f, NEW c
                 PROVE  ResolveSKUPriceState(skcState, f, c, points)
                          = IF named /\ Cardinality(prices) = 1 THEN Found(f, c) ELSE Missing(f, c)
      OBVIOUS
    <3>1. CASE named /\ Cardinality(prices) = 1
      <4>1. ResolveSKUPriceState(skcState, f, c, points)
              = [ sku |-> f.sku, skc |-> f.skc, status |-> Confirmed,
                  active |-> active, candidates |-> EnrollsOf(points),
                  currency |-> c, daily |-> backup, activity |-> TheOnly(prices),
                  price |-> TheOnly(prices), source |-> "activity",
                  reason |-> <<"confirmed_activity_price">> ]
        BY <3>1 DEF ResolveSKUPriceState
      <4>2. QED
        BY <3>1, <4>1 DEF PriceShape
    <3>2. CASE ~ (named /\ Cardinality(prices) = 1)
      <4>1. ResolveSKUPriceState(skcState, f, c, points)
              = [ sku |-> f.sku, skc |-> f.skc, status |-> Warning,
                  active |-> active, candidates |-> EnrollsOf(points),
                  currency |-> c, daily |-> only, activity |-> NoPrice,
                  price |-> only, source |-> source, reason |-> reason ]
        BY <3>2 DEF ResolveSKUPriceState
      <4>2. QED
        BY <3>2, <4>1 DEF PriceShape
    <3>3. QED
      BY <3>1, <3>2
  <2>2. CASE named /\ Cardinality(prices) = 1
    <3>1. p1 = Found(f1, c1) /\ p2 = Found(f2, c2)
      BY <2>1, <2>2
    <3>2. QED
      BY <3>1
  <2>3. CASE ~ (named /\ Cardinality(prices) = 1)
    <3>1. p1 = Missing(f1, c1) /\ p2 = Missing(f2, c2)
      BY <2>1, <2>3
    <3>2. QED
      BY <3>1
  <2>4. QED
    BY <2>2, <2>3
<1>2. /\ SamePrice(p1, p2)
      /\ p1.skc = f1.skc /\ p1.currency = c1 /\ p2.skc = f2.skc /\ p2.currency = c2
  BY <1>1, SameShape
<1>3. /\ Unnamed(p1) = PriceShape(f1.sku, f1.skc, c1, candidates, Warning, NoEnroll,
                                  daily, price, source, activity, <<"sku_multiple_skc">>)
      /\ Unnamed(p2) = PriceShape(f1.sku, f2.skc, c2, candidates, Warning, NoEnroll,
                                  daily, price, source, activity, <<"sku_multiple_skc">>)
  BY <1>1, UnnamedShape
<1>4. /\ SamePrice(Unnamed(p1), Unnamed(p2))
      /\ Unnamed(p1).skc = f1.skc /\ Unnamed(p1).currency = c1
      /\ Unnamed(p2).skc = f2.skc /\ Unnamed(p2).currency = c2
  BY <1>3, SameShape
<1>5. QED
  BY <1>2, <1>4

----------------------------------------------------------------------------
(* A snapshot pulled in another order *)

\* It lists the same stock and the same prices, at other places.
LEMMA ReorderedLists ==
  ASSUME NEW snapshot \in Snapshots, NEW other \in Reordered(snapshot), NEW remaining
  PROVE  /\ Range(Observations(other, remaining)) = Range(Observations(snapshot, remaining))
         /\ DOMAIN PricePoints(other) \subseteq ListingPlaces
         /\ \A sku : PointsOf(PricePoints(other), sku) = PointsOf(PricePoints(snapshot), sku)
<1> DEFINE n == Len(snapshot)
           flip(g, p) == <<g[p[1]], p[2]>>
           turn(g, l) == <<flip(g, l[1]), l[2]>>
           Moves(g, s, u) == /\ DOMAIN s = 1..n /\ DOMAIN u = 1..n
                             /\ g \in [1..n -> 1..n]
                             /\ \A i \in 1..n : u[g[i]] = s[i]
<1>1. PICK f \in [1..n -> 1..n], h \in [1..n -> 1..n] :
        /\ n \in Nat /\ DOMAIN snapshot = 1..n /\ DOMAIN other = 1..n
        /\ \A i \in 1..n : other[i] = snapshot[f[i]]
        /\ \A j \in 1..n : f[h[j]] = j
  <2>1. n \in Nat /\ DOMAIN snapshot = 1..n
    BY SnapshotShape DEF Indexed
  <2> HIDE DEF n
  <2>2. PICK f \in Rearrangements(1..n) : other = [i \in 1..n |-> snapshot[f[i]]]
    BY <2>1 DEF Reordered
  <2>3. f \in [1..n -> 1..n] /\ \A j \in 1..n : \E i \in 1..n : f[i] = j
    BY DEF Rearrangements
  <2> DEFINE h == [j \in 1..n |-> CHOOSE i \in 1..n : f[i] = j]
  <2>4. h \in [1..n -> 1..n] /\ \A j \in 1..n : f[h[j]] = j
    BY <2>3
  <2> HIDE DEF h
  <2>5. DOMAIN other = 1..n /\ \A i \in 1..n : other[i] = snapshot[f[i]]
    BY <2>2
  <2>6. QED
    BY <2>1, <2>3, <2>4, <2>5
<1>2. Moves(f, other, snapshot) /\ Moves(h, snapshot, other)
  BY <1>1
<1> HIDE DEF n, Moves
<1>3. ASSUME NEW s, NEW p, DOMAIN s = 1..n
      PROVE  p \in Places(s) <=> /\ p = <<p[1], p[2]>>
                                 /\ p[1] \in 1..n /\ p[2] \in DOMAIN s[p[1]].skcs
  <2>1. ASSUME p \in Places(s)
        PROVE  p = <<p[1], p[2]>> /\ p[1] \in 1..n /\ p[2] \in DOMAIN s[p[1]].skcs
    <3>1. PICK i \in 1..n : p \in {i} \X DOMAIN s[i].skcs
      BY <1>3, <2>1 DEF Places
    <3>2. QED
      BY <3>1
  <2>2. ASSUME p = <<p[1], p[2]>>, p[1] \in 1..n, p[2] \in DOMAIN s[p[1]].skcs
        PROVE  p \in Places(s)
    <3>1. p \in {p[1]} \X DOMAIN s[p[1]].skcs
      BY <2>2
    <3>2. QED
      BY <1>3, <2>2, <3>1 DEF Places
  <2>3. QED
    BY <2>1, <2>2
<1>4. ASSUME NEW s, NEW u, NEW g, Moves(g, s, u), NEW p \in Places(s)
      PROVE  /\ flip(g, p) \in Places(u)
             /\ StockEntry(u, flip(g, p)) = StockEntry(s, p)
             /\ u[flip(g, p)[1]] = s[p[1]] /\ flip(g, p)[2] = p[2]
  <2>1. p[1] \in 1..n /\ p[2] \in DOMAIN s[p[1]].skcs
    BY <1>3, <1>4 DEF Moves
  <2>2. flip(g, p)[1] \in 1..n /\ flip(g, p)[2] = p[2] /\ flip(g, p) = <<flip(g, p)[1], flip(g, p)[2]>>
    BY <1>4, <2>1 DEF Moves
  <2>3. u[flip(g, p)[1]] = s[p[1]]
    BY <1>4, <2>1 DEF Moves
  <2>4. flip(g, p) \in Places(u)
    <3> DEFINE q == flip(g, p)
    <3>1. q = <<q[1], q[2]>> /\ q[1] \in 1..n /\ q[2] \in DOMAIN u[q[1]].skcs
      BY <2>1, <2>2, <2>3
    <3> HIDE DEF q
    <3>2. q \in Places(u)
      BY <1>3, <1>4, <3>1 DEF Moves
    <3>3. QED
      BY <3>2 DEF q
  <2>5. StockEntry(u, flip(g, p)) = StockEntry(s, p)
    <3> HIDE DEF flip
    <3>1. QED
      BY <2>2, <2>3 DEF StockEntry
  <2>6. QED
    BY <2>2, <2>3, <2>4, <2>5
<1>5. ASSUME NEW s, NEW u, NEW g, Moves(g, s, u)
      PROVE  Range(Observations(s, remaining)) \subseteq Range(Observations(u, remaining))
  <2> SUFFICES ASSUME NEW p \in Places(s)
               PROVE  Observations(s, remaining)[p] \in Range(Observations(u, remaining))
    BY DEF Range, Observations
  <2> HIDE DEF flip, turn
  <2>1. flip(g, p) \in Places(u) /\ StockEntry(u, flip(g, p)) = StockEntry(s, p)
    BY <1>4, <1>5
  <2>2. Observations(u, remaining)[flip(g, p)] = Observations(s, remaining)[p]
        /\ flip(g, p) \in DOMAIN Observations(u, remaining)
    BY <2>1 DEF Observations
  <2>3. QED
    BY <2>2 DEF Range
<1>6. ASSUME NEW s, NEW u, NEW g, Moves(g, s, u), NEW l \in PricePlaces(s)
      PROVE  /\ l[1] \in Places(s)
             /\ turn(g, l) \in PricePlaces(u)
             /\ PricePoints(u)[turn(g, l)] = PricePoints(s)[l]
  <2>1. PICK p \in Places(s) : l \in {p} \X DOMAIN s[p[1]].skcs[p[2]].prices
    BY <1>6 DEF PricePlaces
  <2>2. l[1] = p /\ l[2] \in DOMAIN s[p[1]].skcs[p[2]].prices
    BY <2>1
  <2>3. /\ flip(g, p) \in Places(u)
        /\ u[flip(g, p)[1]] = s[p[1]] /\ flip(g, p)[2] = p[2]
    <3>1. flip(g, p) \in Places(u)
      BY <1>4, <1>6
    <3>2. p[1] \in 1..n
      BY <1>3, <1>6 DEF Moves
    <3>3. QED
      BY <1>6, <3>1, <3>2 DEF Moves
  <2> HIDE DEF flip
  <2>4. turn(g, l) = <<flip(g, p), l[2]>>
    BY <2>2
  <2>5. turn(g, l) \in {flip(g, p)} \X DOMAIN u[flip(g, p)[1]].skcs[flip(g, p)[2]].prices
    BY <2>2, <2>3, <2>4
  <2>6. turn(g, l) \in PricePlaces(u)
    BY <2>3, <2>5 DEF PricePlaces
  <2>7. turn(g, l)[1] = flip(g, p) /\ turn(g, l)[2] = l[2]
    BY <2>4
  <2> HIDE DEF turn
  <2>8. PricePoint(u, turn(g, l)) = PricePoint(s, l)
    BY <2>2, <2>3, <2>7 DEF PricePoint
  <2>9. QED
    BY <1>6, <2>2, <2>6, <2>8 DEF PricePoints
<1> HIDE DEF turn
<1>7. ASSUME NEW s, NEW u, NEW g, Moves(g, s, u), NEW sku
      PROVE  PointsOf(PricePoints(s), sku) \subseteq PointsOf(PricePoints(u), sku)
  <2> SUFFICES ASSUME NEW l \in PlacesListing(PricePoints(s), sku)
               PROVE  PricePoints(s)[l] \in PointsOf(PricePoints(u), sku)
    BY DEF PointsOf
  <2>1. l \in PricePlaces(s) /\ PricePoints(s)[l].sku = sku
    BY DEF PlacesListing, PricePoints
  <2>2. turn(g, l) \in PricePlaces(u) /\ PricePoints(u)[turn(g, l)] = PricePoints(s)[l]
    BY <1>6, <1>7, <2>1
  <2>3. DOMAIN PricePoints(u) = PricePlaces(u)
    BY DEF PricePoints
  <2>4. turn(g, l) \in PlacesListing(PricePoints(u), sku)
    BY <2>1, <2>2, <2>3 DEF PlacesListing
  <2>5. QED
    BY <2>2, <2>4 DEF PointsOf
<1>8. Range(Observations(other, remaining)) = Range(Observations(snapshot, remaining))
  <2>1. Range(Observations(other, remaining)) \subseteq Range(Observations(snapshot, remaining))
    BY <1>2, <1>5
  <2>2. Range(Observations(snapshot, remaining)) \subseteq Range(Observations(other, remaining))
    BY <1>2, <1>5
  <2>3. QED
    BY <2>1, <2>2
<1>9. ASSUME NEW sku
      PROVE  PointsOf(PricePoints(other), sku) = PointsOf(PricePoints(snapshot), sku)
  <2>1. PointsOf(PricePoints(other), sku) \subseteq PointsOf(PricePoints(snapshot), sku)
    BY <1>2, <1>7
  <2>2. PointsOf(PricePoints(snapshot), sku) \subseteq PointsOf(PricePoints(other), sku)
    BY <1>2, <1>7
  <2>3. QED
    BY <2>1, <2>2
<1>10. DOMAIN PricePoints(other) \subseteq ListingPlaces
  <2> SUFFICES ASSUME NEW l \in PricePlaces(other) PROVE l \in ListingPlaces
    BY DEF PricePoints
  <2>1. PICK p \in Places(other) : l \in {p} \X DOMAIN other[p[1]].skcs[p[2]].prices
    BY DEF PricePlaces
  <2>2. turn(f, l) \in PricePlaces(snapshot)
    BY <1>2, <1>6
  <2>3. turn(f, l) \in ListingPlaces
    BY <2>2, PricePlacesShape
  <2>4. turn(f, l)[2] = l[2] /\ turn(f, l)[1][2] = p[2] /\ l = <<p, l[2]>>
    BY <2>1 DEF turn
  <2>5. p = <<p[1], p[2]>> /\ p[1] \in 1..n
    BY <1>1, <1>3
  <2>6. QED
    BY <1>1, <2>3, <2>4, <2>5 DEF ListingPlaces
<1>11. QED
  BY <1>8, <1>9, <1>10

----------------------------------------------------------------------------
(* One capture *)

\* The points of an SKC are of the enrollments the capture leaves remaining
\* stock for.
LEMMA PointsAreCurrent ==
  ASSUME NEW snapshot \in Snapshots, NEW remaining, NEW k
  PROVE  LET observations == Observations(snapshot, remaining)
             enrolls == EnrollsOf(StockPointsOf(k, observations))
         IN  /\ enrolls = {e \in Enroll : <<e, k>> \in DOMAIN LastOfEachKey(observations)}
             /\ IsFiniteSet(enrolls)
<1> DEFINE observations == Observations(snapshot, remaining)
           enrolls == EnrollsOf(StockPointsOf(k, observations))
           Listed(e) == \E p \in Places(snapshot) :
                          observations[p].enroll = e /\ observations[p].skc = k
<1>1. /\ DOMAIN observations = Places(snapshot)
      /\ IsFiniteSet(Places(snapshot))
      /\ \A p \in Places(snapshot) : observations[p].enroll \in Enroll
  BY PlacesShape, SnapshotShape
<1>2. enrolls = {o.enroll : o \in {obs \in Range(observations) : obs.skc = k}}
  <2> DEFINE own == {obs \in Range(observations) : obs.skc = k}
             Point(o) == [ enroll |-> o.enroll, cumulative |-> o.cumulative,
                           interval |-> o.consumed ]
  <2>1. StockPointsOf(k, observations) = {Point(o) : o \in own}
    BY DEF StockPointsOf
  <2>2. \A o \in own : Point(o).enroll = o.enroll
    OBVIOUS
  <2> HIDE DEF own, Point
  <2>3. EnrollsOf({Point(o) : o \in own}) = {o.enroll : o \in own}
    BY <2>2 DEF EnrollsOf
  <2>4. QED
    BY <2>1, <2>3 DEF own
<1> HIDE DEF observations
<1>3. \A e : e \in enrolls <=> Listed(e)
  <2> HIDE DEF enrolls
  <2>1. QED
    BY <1>1, <1>2 DEF Range
<1>4. \A e : <<e, k>> \in DOMAIN LastOfEachKey(observations) <=> Listed(e)
  <2>1. DOMAIN LastOfEachKey(observations) = {KeyOf(o) : o \in Range(observations)}
    BY DEF LastOfEachKey
  <2>2. \A e : <<e, k>> \in {KeyOf(o) : o \in Range(observations)} <=> Listed(e)
    BY <1>1 DEF Range, KeyOf
  <2>3. QED
    BY <2>1, <2>2
<1> HIDE DEF enrolls
<1>5. enrolls \subseteq Enroll
  BY <1>1, <1>3
<1>6. IsFiniteSet(enrolls)
  <2> DEFINE at == [p \in Places(snapshot) |-> observations[p].enroll]
  <2>1. \A p \in Places(snapshot) : at[p] = observations[p].enroll
    OBVIOUS
  <2> HIDE DEF at
  <2>2. IsFiniteSet({at[p] : p \in Places(snapshot)})
    BY <1>1, FiniteImage
  <2>3. enrolls \subseteq {at[p] : p \in Places(snapshot)}
    BY <1>3, <2>1
  <2>4. QED
    BY <2>2, <2>3, FS_Subset
<1>7. enrolls = {e \in Enroll : <<e, k>> \in DOMAIN LastOfEachKey(observations)}
  BY <1>3, <1>4, <1>5
<1>8. QED
  BY <1>6, <1>7 DEF enrolls, observations

PrevState(k) == IF k \in DOMAIN states THEN states[k] ELSE NoState

\* What a capture makes of the state of an SKC, and of its enrollments.
LEMMA CapturedState ==
  ASSUME NEW now, NEW snapshot \in Snapshots, Observe(now, snapshot)
  PROVE  LET Points(k) == StockPointsOf(k, Observations(snapshot, previousRemaining))
         IN  /\ captured' = now
             /\ DOMAIN states' = TrackedSKCs(Observations(snapshot, previousRemaining), states)
             /\ \A k \in DOMAIN states' :
                  states'[k] = ResolveSKCActivityState(now, Points(k), PrevState(k))
             /\ \A k : /\ EnrollsOf(Points(k)) = Current(k)'
                       /\ IsFiniteSet(EnrollsOf(Points(k)))
<1> DEFINE observations == Observations(snapshot, previousRemaining)
           Points(k) == StockPointsOf(k, observations)
<1>1. /\ captured' = now
      /\ states' = SKCStates(now, observations, states)
      /\ enrollments' = LastOfEachKey(observations)
      /\ DOMAIN previousRemaining' = DOMAIN enrollments'
  BY DEF Observe
<1>2. DOMAIN states' = TrackedSKCs(observations, states)
  BY <1>1 DEF SKCStates
<1>3. ASSUME NEW k \in DOMAIN states'
      PROVE  states'[k] = ResolveSKCActivityState(now, Points(k), PrevState(k))
  BY <1>1, <1>3 DEF SKCStates, PrevState
<1>4. ASSUME NEW k
      PROVE  /\ EnrollsOf(Points(k)) = Current(k)'
             /\ IsFiniteSet(EnrollsOf(Points(k)))
  BY <1>1, PointsAreCurrent DEF Current
<1>5. QED
  BY <1>1, <1>2, <1>3, <1>4

LEMMA ObserveHolds ==
  ASSUME StatesHold, captured \in Nat, NEW now \in Nat, captured < now,
         NEW snapshot \in Snapshots, Observe(now, snapshot)
  PROVE  StatesHold'
<1> DEFINE Points(k) == StockPointsOf(k, Observations(snapshot, previousRemaining))
<1> SUFFICES ASSUME NEW k \in DOMAIN states'
             PROVE  Holds(states'[k], captured', Current(k)')
  BY DEF StatesHold
<1>1. /\ captured' = now
      /\ states'[k] = ResolveSKCActivityState(now, Points(k), PrevState(k))
      /\ EnrollsOf(Points(k)) = Current(k)' /\ IsFiniteSet(EnrollsOf(Points(k)))
  BY CapturedState
<1>2. EnrollsOf(Points(k)) \subseteq Enroll
  BY <1>1 DEF Current
<1>3. PrevState(k) # NoState => Holds(PrevState(k), captured, Current(k))
  BY DEF StatesHold, PrevState
<1> HIDE DEF Points
<1>4. Holds(ResolveSKCActivityState(now, Points(k), PrevState(k)), now, EnrollsOf(Points(k)))
  BY <1>1, <1>2, <1>3, ResolvedHolds
<1>5. QED
  BY <1>1, <1>4

LEMMA ObserveCounts ==
  ASSUME NEW now, NEW snapshot \in Snapshots, Observe(now, snapshot)
  PROVE  RemainingIsCounted'
<1> DEFINE observations == Observations(snapshot, previousRemaining)
<1>1. /\ enrollments' = LastOfEachKey(observations)
      /\ previousRemaining' = [key \in DOMAIN enrollments' |-> enrollments'[key].remaining]
  BY DEF Observe
<1>2. ASSUME NEW key \in DOMAIN enrollments' PROVE enrollments'[key].remaining \in Nat
  <2>1. PICK p \in Places(snapshot) : enrollments'[key] = observations[p]
    BY <1>1, LastListing
  <2>2. /\ observations[p] = StockObservation(StockEntry(snapshot, p), previousRemaining)
        /\ p[1] \in DOMAIN snapshot
    BY PlacesShape
  <2>3. StockObservation(StockEntry(snapshot, p), previousRemaining).remaining
          = snapshot[p[1]].remaining
    BY DEF StockObservation, StockEntry
  <2>4. snapshot[p[1]].remaining \in Nat
    BY <2>2, SnapshotShape
  <2>5. QED
    BY <2>1, <2>2, <2>3, <2>4
<1>3. QED
  BY <1>1, <1>2 DEF RemainingIsCounted

PricesAreTyped ==
  \A s \in DOMAIN skuPrices : s \in SKU /\ PriceKey(skuPrices[s]) \in PriceKeyType

\* Each SKU of the snapshot is priced from the state of its SKC, which the
\* same capture has decided.
LEMMA ObserveTypes ==
  ASSUME NEW now, NEW snapshot \in Snapshots, Observe(now, snapshot), StatesHold'
  PROVE  PricesAreTyped'
<1> DEFINE observations == Observations(snapshot, previousRemaining)
           points == PricePoints(snapshot)
<1>1. skuPrices' = SKUPrices(snapshot, states') /\ DOMAIN states' = TrackedSKCs(observations, states)
  BY CapturedState DEF Observe
<1>2. ASSUME NEW s \in DOMAIN skuPrices'
      PROVE  s \in SKU /\ PriceKey(skuPrices'[s]) \in PriceKeyType
  <2> DEFINE first == FirstListed(points, s)
             own == PointsOf(points, s)
             several == Cardinality(SKCsListing(points, s)) > 1
             skcState == IF several THEN MultipleSKCState ELSE states'[first.skc]
             currency == FirstCurrency(points, s)
             price == ResolveSKUPriceState(skcState, first, currency, own)
  <2>1. s \in {points[l].sku : l \in DOMAIN points}
        /\ skuPrices'[s] = SKUPriceOf(s, points, states')
    BY <1>1 DEF SKUPrices
  <2>2. PlacesListing(points, s) # {}
    BY <2>1 DEF PlacesListing
  <2>3. /\ IsFiniteSet(own) /\ \A p \in own : p \in PointType /\ p.sku = s
        /\ first \in own /\ currency \in Currency \cup {NoCurrency}
    BY <2>2, PointsShape
  <2>4. s \in SKU
    BY <2>3 DEF PointType
  <2>5. first.skc \in DOMAIN states'
    <3>1. PICK l \in PricePlaces(snapshot) : first = PricePoint(snapshot, l)
      BY <2>3, PricePlacesShape DEF PointsOf, PlacesListing
    <3>2. l[1] \in Places(snapshot)
      BY PricePlacesShape
    <3>3. /\ l[1] \in DOMAIN observations
          /\ observations[l[1]].skc = first.skc
      <4>1. /\ DOMAIN observations = Places(snapshot)
            /\ observations[l[1]].skc = snapshot[l[1][1]].skcs[l[1][2]].skc
        BY <3>2, PlacesShape
      <4>2. first.skc = snapshot[l[1][1]].skcs[l[1][2]].skc
        <5>1. PricePoint(snapshot, l).skc = snapshot[l[1][1]].skcs[l[1][2]].skc
          BY DEF PricePoint
        <5> HIDE DEF first
        <5>2. QED
          BY <3>1, <5>1
      <4>3. QED
        BY <3>2, <4>1, <4>2
    <3> HIDE DEF first, observations
    <3>4. QED
      BY <1>1, <3>3 DEF TrackedSKCs, Range
  <2>6. skcState.status \in {Confirmed, Warning} /\ skcState.active \in Enroll \cup {NoEnroll}
    <3>1. states'[first.skc] \in StateType
      BY <2>5 DEF StatesHold, Holds
    <3>2. MultipleSKCState.status = Warning /\ MultipleSKCState.active = NoEnroll
      BY DEF MultipleSKCState
    <3>3. states'[first.skc].status \in {Confirmed, Warning}
          /\ states'[first.skc].active \in Enroll \cup {NoEnroll}
      BY <3>1 DEF StateType
    <3>4. QED
      BY <3>2, <3>3
  <2>7. SKUPriceOf(s, points, states')
          = IF several THEN Unnamed(price) ELSE price
    BY DEF SKUPriceOf, Unnamed
  <2> HIDE DEF first, own, several, skcState, currency
  <2>8. PriceKey(SKUPriceOf(s, points, states')) \in PriceKeyType
    <3>1. first \in PointType
      BY <2>3
    <3>2. PriceKey(price) \in PriceKeyType /\ PriceKey(Unnamed(price)) \in PriceKeyType
      <4>1. IsFiniteSet(own) /\ \A p \in own : p \in PointType
        BY <2>3
      <4>2. QED
        BY <2>3, <2>6, <3>1, <4>1, ResolvedPrice
    <3> HIDE DEF price
    <3>3. QED
      BY <2>7, <3>2
  <2>9. QED
    BY <2>1, <2>4, <2>8
<1>3. QED
  BY <1>2 DEF PricesAreTyped, PriceKey

LEMMA ForgottenHolds ==
  ASSUME ObserverRestart
  PROVE  StatesHold' /\ RemainingIsCounted'
BY DEF StatesHold, RemainingIsCounted, ObserverRestart, Nothing

LEMMA SameStatesHold ==
  ASSUME StatesHold, RemainingIsCounted, UNCHANGED observerVars
  PROVE  StatesHold' /\ RemainingIsCounted'
BY DEF StatesHold, RemainingIsCounted, Current, observerVars

\* A capture names another activity only for a reason.
LEMMA SwitchOfCapture ==
  ASSUME StatesHold, RemainingIsCounted, NoRestockInPull,
         NEW now, NEW snapshot \in Snapshots, Observe(now, snapshot),
         NEW k \in DOMAIN states, k \in DOMAIN states',
         states[k].status = Confirmed, states'[k].status = Confirmed,
         states'[k].active # states[k].active
  PROVE  Dropped(k)' = {states'[k].active} \/ states[k].active \notin Current(k)'
<1> DEFINE Points == StockPointsOf(k, Observations(snapshot, previousRemaining))
<1>1. /\ states'[k] = ResolveSKCActivityState(now, Points, states[k])
      /\ EnrollsOf(Points) = Current(k)' /\ IsFiniteSet(EnrollsOf(Points))
  BY CapturedState DEF PrevState
<1>2. Dropped(k)' = Consuming(Points)
  BY LostIsDropped DEF Dropped, Observe
<1>3. IsFiniteSet(Consuming(Points))
  <2>1. Consuming(Points) \subseteq EnrollsOf(Points)
    BY DEF Consuming, EnrollsOf
  <2>2. QED
    BY <1>1, <2>1, FS_Subset
<1> HIDE DEF Points
<1>4. Confirmed # Warning
  BY DEF Confirmed, Warning
<1>5. CASE Cardinality(Consuming(Points)) = 1
  <2>1. states'[k] = UniqueConsumption(now, Points, states[k])
    <3>1. NoCurrentActivity(now, states[k]).status = Warning
      BY DEF NoCurrentActivity, Undecided
    <3>2. QED
      BY <1>1, <1>4, <1>5, <3>1 DEF ResolveSKCActivityState
  <2>2. UniqueConsumption(now, Points, states[k]).active = TheOnly(Consuming(Points))
    BY DEF UniqueConsumption, Undecided
  <2>3. QED
    BY <1>2, <1>3, <1>5, <2>1, <2>2, OnlyElement
<1>6. CASE CarriesConfirmed(Points, states[k]) /\ Cardinality(Consuming(Points)) # 1
  BY <1>1, <1>4, <1>6
     DEF ResolveSKCActivityState, NoCurrentActivity, MultipleConsumption, Carried, Undecided
<1>7. CASE ~ CarriesConfirmed(Points, states[k]) /\ Cardinality(Consuming(Points)) # 1
  <2>1. states[k] # NoState /\ states[k].active \notin EnrollsOf(Points)
    BY <1>7, ObserverAssumption DEF CarriesConfirmed, StatesHold, Holds
  <2>2. QED
    BY <1>1, <2>1
<1>8. QED
  BY <1>5, <1>6, <1>7

\* A capture ends a conflict only for a reason.
LEMMA ConflictOfCapture ==
  ASSUME StatesHold, RemainingIsCounted, NoRestockInPull,
         NEW now, NEW snapshot \in Snapshots, Observe(now, snapshot),
         NEW k \in DOMAIN states, k \in DOMAIN states',
         states[k].status = Warning, Cardinality(states[k].evidence) > 1,
         states'[k].status = Confirmed
  PROVE  \/ Dropped(k)' = {states'[k].active}
         \/ Cardinality(states[k].evidence \cap Current(k)') < 2
<1> DEFINE Points == StockPointsOf(k, Observations(snapshot, previousRemaining))
<1>1. /\ states'[k] = ResolveSKCActivityState(now, Points, states[k])
      /\ EnrollsOf(Points) = Current(k)' /\ IsFiniteSet(EnrollsOf(Points))
  BY CapturedState DEF PrevState
<1>2. Dropped(k)' = Consuming(Points)
  BY LostIsDropped DEF Dropped, Observe
<1>3. IsFiniteSet(Consuming(Points))
  <2>1. Consuming(Points) \subseteq EnrollsOf(Points)
    BY DEF Consuming, EnrollsOf
  <2>2. QED
    BY <1>1, <2>1, FS_Subset
<1> HIDE DEF Points
<1>4. Confirmed # Warning
  BY DEF Confirmed, Warning
<1>5. NoCurrentActivity(now, states[k]).status = Warning
  BY DEF NoCurrentActivity, Undecided
<1>6. states[k] # NoState /\ ~ CarriesConfirmed(Points, states[k])
  BY <1>4, ObserverAssumption DEF CarriesConfirmed, StatesHold, Holds
<1>7. CASE Cardinality(Consuming(Points)) = 1
  <2>1. states'[k] = UniqueConsumption(now, Points, states[k])
    BY <1>1, <1>4, <1>5, <1>7 DEF ResolveSKCActivityState
  <2>2. UniqueConsumption(now, Points, states[k]).active = TheOnly(Consuming(Points))
    BY DEF UniqueConsumption, Undecided
  <2>3. QED
    BY <1>2, <1>3, <1>7, <2>1, <2>2, OnlyElement
<1>8. CASE Cardinality(Consuming(Points)) # 1
  <2>1. MultipleConsumption(now, Points, states[k]).status = Warning
    BY DEF MultipleConsumption, Undecided
  <2>2. [Carried(now, Points, states[k], "carry_forward_conflict")
           EXCEPT !.evidence = states[k].evidence \cap EnrollsOf(Points)].status = Warning
    BY DEF Carried, Undecided
  <2>3. ~ CarriesConflict(Points, states[k])
    BY <1>1, <1>4, <1>5, <1>6, <1>8, <2>1, <2>2 DEF ResolveSKCActivityState
  <2>4. ~ (Cardinality(states[k].evidence \cap EnrollsOf(Points)) > 1)
    BY <1>6, <2>3 DEF CarriesConflict
  <2>5. Cardinality(states[k].evidence \cap EnrollsOf(Points)) \in Nat
    BY <1>1, FS_Intersection, FS_CardinalityType
  <2>6. QED
    BY <1>1, <2>4, <2>5
<1>9. QED
  BY <1>7, <1>8

----------------------------------------------------------------------------
(* The observer by itself *)

ObserverTimes ==
  /\ clock \in Nat
  /\ captured \in Nat
  /\ captured <= clock

ObserverInv == ObserverTimes /\ StatesHold /\ RemainingIsCounted

LEMMA ObserverInitially == Init => ObserverInv
BY DEF Init, ObserverInit, Nothing, ObserverInv, ObserverTimes, StatesHold, RemainingIsCounted

LEMMA ObserverStep == ObserverInv /\ [Next]_vars => ObserverInv'
<1> SUFFICES ASSUME ObserverInv, [Next]_vars PROVE ObserverInv'
  OBVIOUS
<1>1. ASSUME NEW snapshot \in Snapshots, Capture(snapshot) PROVE ObserverInv'
  <2>1. /\ clock' = clock + 1 /\ captured' = clock + 1
        /\ Observe(clock + 1, snapshot)
        /\ clock + 1 \in Nat /\ captured \in Nat /\ captured < clock + 1
    BY <1>1 DEF Capture, Observe, ObserverInv, ObserverTimes
  <2>2. ObserverTimes'
    BY <2>1 DEF ObserverTimes
  <2>3. StatesHold' /\ RemainingIsCounted'
    BY <2>1, ObserveHolds, ObserveCounts DEF ObserverInv
  <2>4. QED
    BY <2>2, <2>3 DEF ObserverInv
<1>2. CASE Restart
  BY <1>2, ForgottenHolds DEF Restart, ObserverRestart, ObserverInv, ObserverTimes
<1>3. CASE UNCHANGED vars
  BY <1>3, SameStatesHold DEF vars, observerVars, ObserverInv, ObserverTimes
<1>4. QED
  BY <1>1, <1>2, <1>3 DEF Next

LEMMA ObserverInvariance == Spec => []ObserverInv
BY ObserverInitially, ObserverStep, PTL DEF Spec

\* An SKC is confirmed exactly when it names an activity, and the activity it
\* names is one the last snapshot enrols it in, however many captures the
\* state has been carried over and whenever the process restarted.
THEOREM ConfirmedStaysCurrent == Spec => []ConfirmedIsCurrent
<1>1. ObserverInv => ConfirmedIsCurrent
  BY DEF ObserverInv, StatesHold, Holds, ConfirmedIsCurrent
<1>2. QED
  BY <1>1, ObserverInvariance, PTL

\* A confirmed state shows the evidence for the activity it names, no older
\* than the state and no younger than the last capture.
THEOREM ConfirmedKeepsEvidence == Spec => []ConfirmedHasEvidence
<1>1. ObserverInv => ConfirmedHasEvidence
  BY ObserverAssumption DEF ObserverInv, StatesHold, Holds, StateType, ConfirmedHasEvidence
<1>2. QED
  BY <1>1, ObserverInvariance, PTL

\* The activity an SKC names changes only because the new one alone lost stock
\* in the interval or because the old one has ended, however the captures,
\* the conflicts and the carried states came before, as long as no pull lists
\* an enrollment again with stock that was filled up in between.
THEOREM SwitchNeedsEvidence ==
  ASSUME NoRestockInPull
  PROVE  Spec => SwitchHasEvidence
<1> DEFINE Switch(k) == /\ BothKnown(k)
                        /\ states[k].status = Confirmed
                        /\ states'[k].status = Confirmed
                        /\ states'[k].active # states[k].active
           Reason(k) == \/ Dropped(k)' = {states'[k].active}
                        \/ states[k].active \notin Current(k)'
           A == \A k \in SKC : Switch(k) => Reason(k)
<1>1. ObserverInv /\ [Next]_vars => [A]_vars
  <2> SUFFICES ASSUME ObserverInv, Next, NEW k \in SKC, Switch(k) PROVE Reason(k)
    OBVIOUS
  <2>1. ASSUME NEW snapshot \in Snapshots, Capture(snapshot) PROVE Reason(k)
    BY <2>1, SwitchOfCapture DEF Capture, ObserverInv, BothKnown
  <2>2. CASE Restart
    BY <2>2 DEF Restart, ObserverRestart, Nothing, BothKnown
  <2>3. QED
    BY <2>1, <2>2 DEF Next
<1>2. QED
  BY <1>1, ObserverInvariance, PTL DEF Spec, SwitchHasEvidence

\* A conflict between activities that both lost stock ends only by an interval
\* in which one of them alone lost stock, or when fewer than two of them are
\* left, under the same condition on the pulls.
THEOREM ConflictLastsUntilDecided ==
  ASSUME NoRestockInPull
  PROVE  Spec => ConflictIsSticky
<1> DEFINE End(k) == /\ BothKnown(k)
                     /\ states[k].status = Warning
                     /\ Cardinality(states[k].evidence) > 1
                     /\ states'[k].status = Confirmed
           Reason(k) == \/ Dropped(k)' = {states'[k].active}
                        \/ Cardinality(states[k].evidence \cap Current(k)') < 2
           A == \A k \in SKC : End(k) => Reason(k)
<1>1. ObserverInv /\ [Next]_vars => [A]_vars
  <2> SUFFICES ASSUME ObserverInv, Next, NEW k \in SKC, End(k) PROVE Reason(k)
    OBVIOUS
  <2>1. ASSUME NEW snapshot \in Snapshots, Capture(snapshot) PROVE Reason(k)
    BY <2>1, ConflictOfCapture DEF Capture, ObserverInv, BothKnown
  <2>2. CASE Restart
    BY <2>2 DEF Restart, ObserverRestart, Nothing, BothKnown
  <2>3. QED
    BY <2>1, <2>2 DEF Next
<1>2. QED
  BY <1>1, ObserverInvariance, PTL DEF Spec, ConflictIsSticky

\* The order in which the enrollments of a snapshot were pulled decides no
\* state and no price, in whatever state the observer is: it can only choose
\* the SKC of an SKU that several list, and the currency of one whose points
\* name several.
THEOREM OrderOfPullDecidesNoPrice == Spec => []PullOrderDecidesNoPrice
<1>1. ASSUME NEW snapshot \in Snapshots, NEW other \in Reordered(snapshot)
      PROVE  StatesFrom(other) = StatesFrom(snapshot)
  <2> DEFINE o == Observations(snapshot, previousRemaining)
             b == Observations(other, previousRemaining)
  <2>1. Range(b) = Range(o)
    BY ReorderedLists
  <2> HIDE DEF o, b
  <2>2. TrackedSKCs(o, states) = TrackedSKCs(b, states)
    BY <2>1 DEF TrackedSKCs
  <2>3. \A k : StockPointsOf(k, o) = StockPointsOf(k, b)
    BY <2>1 DEF StockPointsOf
  <2>4. SKCStates(clock + 1, o, states) = SKCStates(clock + 1, b, states)
    BY <2>2, <2>3 DEF SKCStates
  <2>5. QED
    BY <2>4 DEF StatesFrom, o, b
<1>2. ASSUME NEW snapshot \in Snapshots, NEW other \in Reordered(snapshot), NEW skcStates
      PROVE  LET points == PricePoints(snapshot)
                 here   == SKUPrices(snapshot, skcStates)
                 there  == SKUPrices(other, skcStates)
             IN  /\ DOMAIN there = DOMAIN here
                 /\ \A s \in DOMAIN here :
                      /\ SamePrice(here[s], there[s])
                      /\ Cardinality(SKCsListing(points, s)) = 1
                           => there[s].skc = here[s].skc
                      /\ Cardinality(CurrenciesNamed(points, s)) <= 1
                           => there[s].currency = here[s].currency
  <2> DEFINE points == PricePoints(snapshot)
             moved  == PricePoints(other)
             here   == SKUPrices(snapshot, skcStates)
             there  == SKUPrices(other, skcStates)
  <2>1. /\ DOMAIN points \subseteq ListingPlaces
        /\ DOMAIN moved \subseteq ListingPlaces
        /\ \A sku : PointsOf(moved, sku) = PointsOf(points, sku)
    BY ReorderedLists, PricePlacesShape
  <2>2. /\ here = [s \in {points[l].sku : l \in DOMAIN points} |->
                     SKUPriceOf(s, points, skcStates)]
        /\ there = [s \in {moved[l].sku : l \in DOMAIN moved} |->
                      SKUPriceOf(s, moved, skcStates)]
    BY DEF SKUPrices
  <2> HIDE DEF points, moved, here, there
  <2>3. \A s : /\ s \in DOMAIN here <=> PlacesListing(points, s) # {}
               /\ s \in DOMAIN there <=> PlacesListing(moved, s) # {}
               /\ PlacesListing(points, s) # {} <=> PlacesListing(moved, s) # {}
    <3>1. ASSUME NEW s
          PROVE  PlacesListing(points, s) # {} <=> PlacesListing(moved, s) # {}
      <4>1. \A p : PlacesListing(p, s) # {} <=> PointsOf(p, s) # {}
        BY DEF PointsOf
      <4>2. QED
        BY <2>1, <4>1
    <3>2. QED
      BY <2>2, <3>1 DEF PlacesListing
  <2>4. DOMAIN there = DOMAIN here
    BY <2>2, <2>3
  <2>5. ASSUME NEW s \in DOMAIN here
        PROVE  /\ SamePrice(here[s], there[s])
               /\ Cardinality(SKCsListing(points, s)) = 1 => there[s].skc = here[s].skc
               /\ Cardinality(CurrenciesNamed(points, s)) <= 1
                    => there[s].currency = here[s].currency
    <3> DEFINE own == PointsOf(points, s)
               f1 == FirstListed(points, s)
               f2 == FirstListed(moved, s)
               c1 == FirstCurrency(points, s)
               c2 == FirstCurrency(moved, s)
               several == Cardinality(SKCsListing(points, s)) > 1
    <3>1. /\ here[s] = SKUPriceOf(s, points, skcStates)
          /\ there[s] = SKUPriceOf(s, moved, skcStates)
      BY <2>2, <2>3
    <3>2. SKCsListing(moved, s) = SKCsListing(points, s)
          /\ CurrenciesNamed(moved, s) = CurrenciesNamed(points, s)
      BY <2>1 DEF SKCsListing, CurrenciesNamed
    <3>3. f1 \in own /\ f2 \in own
      BY <2>1, <2>3, FirstIsListed
    <3>4. IF CurrenciesNamed(points, s) = {}
            THEN c1 = NoCurrency /\ c2 = NoCurrency
            ELSE c1 \in CurrenciesNamed(points, s) /\ c2 \in CurrenciesNamed(points, s)
      BY <2>1, <2>3, <3>2, FirstIsListed
    <3>5. /\ IsFiniteSet(SKCsListing(points, s)) /\ IsFiniteSet(own)
          /\ \A p \in own : p.sku = s
      BY PointsShape DEF points
    <3>6. ~ several => f1.skc = f2.skc
      <4>1. f1.skc \in SKCsListing(points, s) /\ f2.skc \in SKCsListing(points, s)
        BY <3>3 DEF SKCsListing
      <4>2. ~ several => Cardinality(SKCsListing(points, s)) <= 1
        BY <3>5, FS_CardinalityType
      <4> HIDE DEF several, f1, f2
      <4>3. QED
        BY <3>5, <4>1, <4>2, AtMostOne
    <3>7. Cardinality(CurrenciesNamed(points, s)) <= 1 => c1 = c2
      <4>1. IsFiniteSet(CurrenciesNamed(points, s))
        <5> DEFINE currency == [p \in own |-> p.currency]
        <5>1. CurrenciesNamed(points, s) \subseteq {currency[p] : p \in own}
          BY DEF CurrenciesNamed
        <5> HIDE DEF currency, own
        <5>2. IsFiniteSet({currency[p] : p \in own})
          BY <3>5, FiniteImage
        <5>3. QED
          BY <5>1, <5>2, FS_Subset
      <4>2. QED
        BY <3>4, <4>1, AtMostOne
    <3> HIDE DEF own, f1, f2, c1, c2, several
    <3>8. PICK state : state = IF several THEN MultipleSKCState ELSE skcStates[f1.skc]
      OBVIOUS
    <3> DEFINE p1 == ResolveSKUPriceState(state, f1, c1, own)
               p2 == ResolveSKUPriceState(state, f2, c2, own)
    <3>9. /\ here[s] = IF several THEN Unnamed(p1) ELSE p1
          /\ there[s] = IF several THEN Unnamed(p2) ELSE p2
      <4>1. here[s] = IF several THEN Unnamed(p1) ELSE p1
        BY <3>1, <3>8 DEF SKUPriceOf, Unnamed, own, f1, c1, several
      <4>2. there[s] = IF several THEN Unnamed(p2) ELSE p2
        <5>1. state = IF several THEN MultipleSKCState ELSE skcStates[f2.skc]
          BY <3>6, <3>8
        <5>2. QED
          BY <2>1, <3>1, <3>2, <5>1 DEF SKUPriceOf, Unnamed, own, f2, c2, several
      <4>3. QED
        BY <4>1, <4>2
    <3>10. /\ SamePrice(p1, p2) /\ SamePrice(Unnamed(p1), Unnamed(p2))
           /\ p1.skc = f1.skc /\ p1.currency = c1
           /\ Unnamed(p1).skc = f1.skc /\ Unnamed(p1).currency = c1
           /\ p2.skc = f2.skc /\ p2.currency = c2
           /\ Unnamed(p2).skc = f2.skc /\ Unnamed(p2).currency = c2
      <4>1. f1.sku = f2.sku
        BY <3>3, <3>5
      <4>2. QED
        BY <4>1, ResolvedInOtherOrder
    <3> HIDE DEF p1, p2
    <3>11. /\ here[s].skc = f1.skc /\ here[s].currency = c1
           /\ there[s].skc = f2.skc /\ there[s].currency = c2
           /\ SamePrice(here[s], there[s])
      BY <3>9, <3>10
    <3>12. Cardinality(SKCsListing(points, s)) = 1 => ~ several
      BY DEF several
    <3>13. QED
      BY <3>6, <3>7, <3>11, <3>12
  <2>6. QED
    BY <2>4, <2>5 DEF points, here, there
<1>3. PullOrderDecidesNoPrice
  <2> SUFFICES ASSUME NEW snapshot \in Snapshots, NEW other \in Reordered(snapshot)
               PROVE  LET points    == PricePoints(snapshot)
                          skcStates == StatesFrom(snapshot)
                          here      == SKUPrices(snapshot, skcStates)
                          there     == SKUPrices(other, skcStates)
                      IN  /\ StatesFrom(other) = skcStates
                          /\ DOMAIN there = DOMAIN here
                          /\ \A s \in DOMAIN here :
                               /\ SamePrice(here[s], there[s])
                               /\ Cardinality(SKCsListing(points, s)) = 1
                                    => there[s].skc = here[s].skc
                               /\ Cardinality(CurrenciesNamed(points, s)) <= 1
                                    => there[s].currency = here[s].currency
    BY DEF PullOrderDecidesNoPrice
  <2>1. StatesFrom(other) = StatesFrom(snapshot)
    BY <1>1
  <2> DEFINE skcStates == StatesFrom(snapshot)
  <2> HIDE DEF skcStates
  <2>2. StatesFrom(other) = skcStates
    BY <2>1 DEF skcStates
  <2>3. QED
    BY <1>2, <2>2 DEF skcStates
<1>4. QED
  BY <1>3, PTL

----------------------------------------------------------------------------
(* The answers of the history *)

\* What is proved about the table, for the keys and the times of the loop.
Table == INSTANCE PriceIntervals_proofs WITH Key <- PriceKeyType, MaxTime <- MaxPulls

LEMMA TableConstants == NULL \notin Nat /\ MaxPulls \in Nat
BY SyncAssumption, ObserverAssumption

LEMMA SameTransaction ==
  ASSUME NEW t, NEW prices
  PROVE  Intervals!Persist(t, prices) <=> Table!Persist(t, prices)
BY DEF Intervals!Persist, Table!Persist, Intervals!UpdatedRow, Table!UpdatedRow,
       Intervals!NewRow, Table!NewRow, Intervals!Changed, Table!Changed,
       Intervals!SameInterval, Table!SameInterval, Intervals!IsOpen, Table!IsOpen,
       Intervals!Closed, Table!Closed

\* A table whose rows have bounds and, by SKU, do not overlap.
History(R, last) ==
  /\ R \subseteq Table!Row
  /\ \A r \in R : /\ r.start <= last
                  /\ r.start <= r.update
                  /\ r.end # NULL => r.end = r.update /\ r.start < r.end
  /\ \A r, q \in R : r.sku = q.sku /\ r # q => Table!Before(r, q) \/ Table!Before(q, r)

KeysOf(R, s, at) == {r.key : r \in {q \in R : q.sku = s /\ Table!Covers(q, at)}}

LEMMA CoversIsInside ==
  ASSUME NEW r, NEW at
  PROVE  Table!Covers(r, at) <=> Query!InsideRow(r, at)
BY DEF Table!Covers, Table!IsOpen, Query!InsideRow

\* Outside the row that holds an instant, if there is one, rows are ordered by
\* their distance and their start, and no two are level: the query has a row
\* to pick.
LEMMA NearestExists ==
  ASSUME NEW R, NEW last \in Nat, History(R, last), NEW s, NEW at \in Nat,
         NEW own, own = {r \in R : r.sku = s}, own # {}
  PROVE  /\ Query!Nearest(own, at) \in own
         /\ \A q \in own \ {Query!Nearest(own, at)} :
              Query!Precedes(Query!Nearest(own, at), q, at)
<1> DEFINE Inside(r) == Query!InsideRow(r, at)
           D(r) == Query!Distance(r, at)
<1>1. \A r \in own : /\ r \in Table!Row /\ r.start \in Nat /\ r.update \in Nat
                     /\ r.end = NULL \/ r.end \in Nat
                     /\ r.start <= last /\ r.start <= r.update
                     /\ r.end # NULL => r.end = r.update /\ r.start < r.end
  BY DEF History, Table!Row
<1>2. \A r, q \in own : r # q => Table!Before(r, q) \/ Table!Before(q, r)
  BY DEF History
<1>3. \A r, q \in own : Inside(r) /\ Inside(q) => r = q
  BY <1>1, <1>2, TableConstants DEF Query!InsideRow, Table!Before, Table!IsOpen
<1>4. \A r, q \in own : r.start = q.start => r = q
  BY <1>1, <1>2, TableConstants DEF Table!Before, Table!IsOpen
<1>5. \A r \in own : ~ Inside(r) => D(r) \in Nat
  <2> SUFFICES ASSUME NEW r \in own, ~ Inside(r) PROVE D(r) \in Nat
    OBVIOUS
  <2>1. CASE at < r.start
    BY <1>1, <2>1 DEF Query!Distance
  <2>2. CASE r.start <= at
    <3>1. r.end \in Nat /\ r.end <= at /\ r.end # NULL
      BY <1>1, <2>2, TableConstants DEF Query!InsideRow
    <3>2. D(r) = at - r.end
      BY <1>1, <2>2, <3>1 DEF Query!Distance, Query!EndOrUpdate
    <3>3. QED
      BY <3>1, <3>2
  <2>3. QED
    BY <1>1, <2>1, <2>2
<1> HIDE DEF Inside, D
<1>6. \A r, q : Query!Precedes(r, q, at) <=>
        \/ Inside(r) /\ ~ Inside(q)
        \/ /\ Inside(r) <=> Inside(q)
           /\ D(r) < D(q) \/ (D(r) = D(q) /\ r.start > q.start)
  BY DEF Query!Precedes, Inside, D
<1>7. \E r \in own : \A q \in own \ {r} : Query!Precedes(r, q, at)
  <2>1. CASE \E r \in own : Inside(r)
    BY <1>3, <1>6, <2>1
  <2>2. CASE \A r \in own : ~ Inside(r)
    <3> DEFINE distances == {D(r) : r \in own}
    <3>1. PICK d \in distances : \A e \in distances : d <= e
      <4>1. distances \in SUBSET Nat /\ distances # {}
        BY <1>5, <2>2
      <4> HIDE DEF distances
      <4>2. QED
        BY <4>1, LeastNatural
    <3> DEFINE starts == {r.start : r \in {q \in own : D(q) = d}}
    <3>2. PICK b \in starts : \A e \in starts : e <= b
      <4>1. starts \in SUBSET Nat /\ starts # {} /\ \A e \in starts : e <= last
        BY <1>1, <3>1
      <4> HIDE DEF starts
      <4>2. QED
        BY <4>1, GreatestNatural
    <3>3. PICK r \in own : D(r) = d /\ r.start = b
      BY <3>2
    <3>4. ASSUME NEW q \in own \ {r} PROVE Query!Precedes(r, q, at)
      <4>1. d <= D(q) /\ d \in Nat /\ D(q) \in Nat
        BY <1>5, <2>2, <3>1, <3>3
      <4>2. D(q) = d => q.start <= b
        BY <3>2
      <4>3. q.start # b /\ q.start \in Nat /\ b \in Nat
        BY <1>1, <1>4, <3>3
      <4>4. D(r) < D(q) \/ (D(r) = D(q) /\ r.start > q.start)
        BY <3>3, <4>1, <4>2, <4>3
      <4>5. QED
        BY <1>6, <2>2, <4>4
    <3>5. QED
      BY <3>4
  <2>3. QED
    BY <2>1, <2>2
<1>8. QED
  BY <1>7 DEF Query!Nearest

\* An instant some row covers is answered with that row and without a warning;
\* any other is answered with a warning.
LEMMA HistoricalAnswer ==
  ASSUME NEW R, NEW last \in Nat, History(R, last), NEW s, NEW at \in Nat
  PROVE  LET answer == Query!HistoricalPrice(R, s, at)
         IN  /\ KeysOf(R, s, at) = {} =>
                  answer.match # "exact_interval" /\ answer.status = Warning
             /\ KeysOf(R, s, at) # {} =>
                  /\ answer.match = "exact_interval"
                  /\ \E key : /\ KeysOf(R, s, at) = {key}
                              /\ answer.price = {key} /\ answer.status = key.status
<1> DEFINE own == {r \in R : r.sku = s}
           near == Query!Nearest(own, at)
           answer == Query!HistoricalPrice(R, s, at)
           method == Query!MatchMethod(near, at)
<1>1. CASE own = {}
  <2>1. answer = Query!Unmatched("unmatched")
    BY <1>1 DEF Query!HistoricalPrice
  <2>2. KeysOf(R, s, at) = {}
    BY <1>1 DEF KeysOf
  <2>3. QED
    BY <2>1, <2>2 DEF Query!Unmatched, Query!WarnedPrice, Warning
<1>2. CASE own # {}
  <2>1. /\ near \in own
        /\ \A q \in own \ {near} : Query!Precedes(near, q, at)
    BY <1>2, NearestExists
  <2>2. KeysOf(R, s, at) = {r.key : r \in {q \in own : Query!InsideRow(q, at)}}
    BY CoversIsInside DEF KeysOf
  <2>3. /\ answer.match = method
        /\ answer.price = {near.key}
        /\ answer.status = IF method = "exact_interval" THEN near.key.status ELSE Warning
    BY <1>2 DEF Query!HistoricalPrice, Query!WarnedPrice, Warning
  <2>4. method = "exact_interval" <=> Query!InsideRow(near, at)
    BY DEF Query!MatchMethod
  <2>5. \A q \in own : Query!InsideRow(q, at) => q = near
    <3> SUFFICES ASSUME NEW q \in own, Query!InsideRow(q, at) PROVE q = near
      OBVIOUS
    <3>1. CASE ~ Query!InsideRow(near, at)
      BY <2>1, <3>1 DEF Query!Precedes
    <3>2. CASE Query!InsideRow(near, at)
      <4>1. q # near => Table!Before(q, near) \/ Table!Before(near, q)
        BY <2>1 DEF History
      <4>2. /\ q.start \in Nat /\ near.start \in Nat
            /\ q.end = NULL \/ q.end \in Nat
            /\ near.end = NULL \/ near.end \in Nat
        BY <2>1 DEF History, Table!Row
      <4>3. QED
        BY <3>2, <4>1, <4>2, TableConstants DEF Query!InsideRow, Table!Before, Table!IsOpen
    <3>3. QED
      BY <3>1, <3>2
  <2> HIDE DEF own, near, answer, method
  <2>6. CASE Query!InsideRow(near, at)
    <3>1. KeysOf(R, s, at) = {near.key}
      BY <2>1, <2>2, <2>5, <2>6
    <3>2. QED
      BY <2>3, <2>4, <2>6, <3>1 DEF answer
  <2>7. CASE ~ Query!InsideRow(near, at)
    <3>1. KeysOf(R, s, at) = {}
      BY <2>1, <2>2, <2>5, <2>7
    <3>2. QED
      BY <2>3, <2>4, <2>7, <3>1 DEF answer
  <2>8. QED
    BY <2>6, <2>7
<1>3. QED
  BY <1>1, <1>2

----------------------------------------------------------------------------
(* The loop *)

Good == published # NoSnapshot /\ published.ok

LoopTimes ==
  /\ {clock, captured, persistedAt} \subseteq Nat
  /\ captured <= clock
  /\ persistedAt <= clock
  /\ clock <= MaxPulls
  /\ phase \in {"idle", "pulled", "observed"}

\* The step run() is at decides which of the three is behind, and a capture
\* that is still to come is later than all that is recorded.
InStep ==
  /\ phase # "idle" => Good
  /\ ~ Good => captured = 0
  /\ Good => /\ published.at \in Nat
             /\ published.at <= clock
             /\ published.enrollments \in Snapshots
             /\ IF phase = "pulled"
                  THEN captured < published.at /\ persistedAt < published.at
                  ELSE captured = published.at
  /\ phase = "observed" => persistedAt < captured

TableHolds == Table!TypeOK /\ Table!RowBounds /\ Table!Disjoint

\* The table says of a recorded capture what was seen, and the capture that is
\* about to be recorded was seen to be what is in memory.
SeenIsRecorded ==
  /\ phase = "observed" => captured \in DOMAIN seen /\ seen[captured] = PriceKeys(skuPrices)
  /\ \A t \in recorded :
       /\ t \in 0..persistedAt /\ t \in DOMAIN seen
       /\ \A s \in SKU : Table!KeysAt(s, t) = SeenAt(t, s)

IInv ==
  /\ LoopTimes
  /\ InStep
  /\ StatesHold
  /\ PricesAreTyped
  /\ TableHolds
  /\ TableMatchesMemory
  /\ SeenIsRecorded

LEMMA InitInStep == SyncInit => IInv
<1> SUFFICES ASSUME SyncInit PROVE IInv
  OBVIOUS
<1>1. /\ clock = 0 /\ captured = 0 /\ persistedAt = 0 /\ rows = {} /\ recorded = {}
      /\ published = NoSnapshot /\ phase = "idle" /\ states = Nothing /\ skuPrices = Nothing
  BY DEF SyncInit, Init, ObserverInit, Intervals!Init
<1>2. LoopTimes /\ InStep /\ SeenIsRecorded /\ TableMatchesMemory
  BY <1>1, TableConstants DEF LoopTimes, InStep, Good, SeenIsRecorded, TableMatchesMemory
<1>3. StatesHold /\ PricesAreTyped
  BY <1>1 DEF StatesHold, PricesAreTyped, Nothing
<1>4. TableHolds
  BY <1>1, TableConstants DEF TableHolds, Table!TypeOK, Table!RowBounds, Table!Disjoint
<1>5. QED
  BY <1>2, <1>3, <1>4 DEF IInv

\* The observer as it was: what is said of its states stays true.
LEMMA SameObserver ==
  ASSUME IInv, UNCHANGED observerVars
  PROVE  StatesHold' /\ PricesAreTyped'
<1>1. StatesHold'
  BY DEF IInv, StatesHold, Current, observerVars
<1>2. PricesAreTyped'
  BY DEF IInv, PricesAreTyped, PriceKey, observerVars
<1>3. QED
  BY <1>1, <1>2

LEMMA SameTable ==
  ASSUME IInv, UNCHANGED intervalVars
  PROVE  TableHolds' /\ \A s, at : Table!KeysAt(s, at)' = Table!KeysAt(s, at)
<1>1. rows' = rows /\ persistedAt' = persistedAt
  BY DEF intervalVars
<1>2. TableHolds'
  BY <1>1 DEF IInv, TableHolds, Table!TypeOK, Table!RowBounds, Table!Disjoint,
              Table!Before, Table!IsOpen
<1>3. \A s, at : Table!KeysAt(s, at)' = Table!KeysAt(s, at)
  BY <1>1 DEF Table!KeysAt, Table!Covers, Table!IsOpen
<1>4. QED
  BY <1>2, <1>3

LEMMA SameMemoryAndTable ==
  ASSUME IInv, UNCHANGED <<observerVars, intervalVars>>
  PROVE  TableMatchesMemory'
<1>1. /\ rows' = rows /\ persistedAt' = persistedAt
      /\ captured' = captured /\ skuPrices' = skuPrices
  BY DEF intervalVars, observerVars
<1>2. \A s : OpenKeys(s)' = OpenKeys(s)
  BY <1>1 DEF OpenKeys, Intervals!IsOpen
<1>3. \A s : Query!CurrentPrice(skuPrices, s)' = Query!CurrentPrice(skuPrices, s)
  BY <1>1 DEF Query!CurrentPrice, Query!Unmatched, Query!WarnedPrice
<1>4. QED
  BY <1>1, <1>2, <1>3 DEF IInv, TableMatchesMemory

\* Neither the table nor what was seen and recorded has changed, and no capture
\* is waiting that was not before.
LEMMA SameHistory ==
  ASSUME IInv, UNCHANGED <<intervalVars, seen, recorded>>,
         phase' = "observed" => phase = "observed" /\ UNCHANGED observerVars
  PROVE  SeenIsRecorded'
<1>1. \A s, at : Table!KeysAt(s, at)' = Table!KeysAt(s, at)
  BY SameTable
<1>2. persistedAt' = persistedAt /\ seen' = seen /\ recorded' = recorded
  BY DEF intervalVars
<1>3. \A at, s : SeenAt(at, s)' = SeenAt(at, s)
  BY <1>2 DEF SeenAt
<1>4. phase' = "observed" => captured' \in DOMAIN seen' /\ seen'[captured'] = PriceKeys(skuPrices)'
  BY <1>2 DEF IInv, SeenIsRecorded, observerVars, PriceKeys, PriceKey
<1>5. QED
  BY <1>1, <1>2, <1>3, <1>4 DEF IInv, SeenIsRecorded

LEMMA PullSucceedsInStep ==
  ASSUME IInv, NEW snapshot \in Snapshots, PullSucceeds(snapshot)
  PROVE  IInv'
<1>1. /\ clock' = clock + 1 /\ clock < MaxPulls /\ phase' = "pulled"
      /\ published' = [ok |-> TRUE, at |-> clock + 1, enrollments |-> snapshot]
      /\ UNCHANGED <<observerVars, intervalVars, seen, recorded>>
      /\ captured' = captured /\ persistedAt' = persistedAt
  BY DEF PullSucceeds, observerVars, intervalVars
<1>2. LoopTimes'
  BY <1>1, TableConstants DEF IInv, LoopTimes
<1>3. Good' /\ published'.at = clock + 1 /\ published'.enrollments = snapshot
  <2>1. published' \in [ok : BOOLEAN, at : Nat, enrollments : Snapshots]
    BY <1>1 DEF IInv, LoopTimes
  <2>2. QED
    BY <1>1, <2>1, SyncAssumption DEF Good
<1>4. InStep'
  BY <1>1, <1>3 DEF IInv, LoopTimes, InStep
<1>5. QED
  BY <1>1, <1>2, <1>4, SameObserver, SameTable, SameMemoryAndTable, SameHistory DEF IInv

LEMMA PullFailsInStep ==
  ASSUME IInv, NEW snapshot \in Snapshots, PullFails(snapshot)
  PROVE  IInv'
<1>1. /\ phase = "idle" /\ phase' = phase /\ clock < MaxPulls
      /\ UNCHANGED <<observerVars, intervalVars, seen, recorded>>
      /\ captured' = captured /\ persistedAt' = persistedAt
  BY DEF PullFails, observerVars, intervalVars
<1>2. LoopTimes' /\ InStep'
  <2>1. CASE Good
    <3>1. published' = published /\ clock' = clock
      BY <2>1 DEF PullFails, Good
    <3>2. QED
      BY <1>1, <3>1 DEF IInv, LoopTimes, InStep, Good
  <2>2. CASE ~ Good
    <3>1. /\ clock' = clock + 1
          /\ published' = [ok |-> FALSE, at |-> clock + 1, enrollments |-> snapshot]
      BY <2>2 DEF PullFails, Good
    <3>2. ~ Good' /\ captured = 0
      BY <2>2, <3>1 DEF Good, IInv, InStep
    <3>3. QED
      BY <1>1, <3>1, <3>2, TableConstants DEF IInv, LoopTimes, InStep
  <2>3. QED
    BY <2>1, <2>2
<1>3. QED
  BY <1>1, <1>2, SameObserver, SameTable, SameMemoryAndTable, SameHistory DEF IInv

\* The observer goes ahead of the table: it is not recorded yet.
LEMMA ObserveInStep ==
  ASSUME IInv, ObservePull
  PROVE  IInv'
<1>1. /\ phase = "pulled" /\ phase' = "observed"
      /\ captured' = published.at /\ published' = published /\ clock' = clock
      /\ persistedAt' = persistedAt /\ recorded' = recorded
      /\ UNCHANGED intervalVars
      /\ Observe(published.at, published.enrollments)
  BY DEF ObservePull, Observe, intervalVars
<1>2. /\ Good /\ published.at \in Nat /\ published.at <= clock
      /\ persistedAt < published.at /\ captured < published.at
      /\ published.enrollments \in Snapshots
  BY <1>1 DEF IInv, InStep
<1>3. LoopTimes' /\ InStep'
  BY <1>1, <1>2 DEF IInv, LoopTimes, InStep, Good
<1>4. TableMatchesMemory'
  BY <1>1, <1>2 DEF IInv, LoopTimes, TableMatchesMemory
<1>5. StatesHold'
  BY <1>1, <1>2, ObserveHolds DEF IInv, LoopTimes
<1>6. PricesAreTyped'
  BY <1>1, <1>2, <1>5, ObserveTypes
<1>7. SeenIsRecorded'
  <2> DEFINE at == published.at
             keys == PriceKeys(skuPrices')
  <2>1. PriceKeys(skuPrices)' = keys
    BY DEF PriceKeys, PriceKey
  <2> HIDE DEF keys
  <2>2. seen' = [u \in DOMAIN seen \cup {at} |-> IF u = at THEN keys ELSE seen[u]]
    BY DEF ObservePull, keys
  <2>3. captured' \in DOMAIN seen' /\ seen'[captured'] = PriceKeys(skuPrices)'
    BY <1>1, <2>1, <2>2
  <2>4. ASSUME NEW u \in recorded'
        PROVE  /\ u \in 0..persistedAt' /\ u \in DOMAIN seen'
               /\ \A s \in SKU : Table!KeysAt(s, u)' = SeenAt(u, s)'
    <3>1. /\ u \in 0..persistedAt /\ u \in DOMAIN seen
          /\ \A s \in SKU : Table!KeysAt(s, u) = SeenAt(u, s)
      BY <1>1 DEF IInv, SeenIsRecorded
    <3>2. u # at
      BY <1>2, <3>1 DEF IInv, LoopTimes
    <3>3. u \in DOMAIN seen' /\ seen'[u] = seen[u]
      BY <2>2, <3>1, <3>2
    <3>4. \A s : SeenAt(u, s)' = SeenAt(u, s)
      BY <3>3 DEF SeenAt
    <3>5. QED
      BY <1>1, <3>1, <3>3, <3>4, SameTable
  <2>5. QED
    BY <2>3, <2>4 DEF SeenIsRecorded
<1>8. QED
  BY <1>1, <1>3, <1>4, <1>5, <1>6, <1>7, SameTable DEF IInv

\* A commit is a transaction of PriceIntervals.
LEMMA CommitIsTransaction ==
  ASSUME IInv, PersistCommits
  PROVE  /\ Table!Transaction(captured, PriceKeys(skuPrices))
         /\ persistedAt' = captured
<1>1. phase = "observed" /\ Table!Persist(captured, PriceKeys(skuPrices))
  BY SameTransaction DEF PersistCommits
<1>2. captured \in (persistedAt + 1)..MaxPulls
  BY <1>1, TableConstants DEF IInv, LoopTimes, InStep
<1>3. PriceKeys(skuPrices) \in [DOMAIN skuPrices -> PriceKeyType] /\ DOMAIN skuPrices \in SUBSET SKU
  BY DEF IInv, PricesAreTyped, PriceKeys
<1>4. QED
  BY <1>1, <1>2, <1>3 DEF Table!Transaction, Table!Persist

\* The table catches up with the observer.
LEMMA PersistInStep ==
  ASSUME IInv, PersistCommits
  PROVE  IInv'
<1> DEFINE prices == PriceKeys(skuPrices)
<1>1. /\ phase = "observed" /\ phase' = "idle"
      /\ published' = published /\ clock' = clock
      /\ captured' = captured /\ skuPrices' = skuPrices
      /\ seen' = seen /\ recorded' = recorded \cup {captured}
      /\ UNCHANGED observerVars
  BY DEF PersistCommits, observerVars
<1>2. Table!Transaction(captured, prices) /\ persistedAt' = captured
  BY CommitIsTransaction
<1>3. Table!TypeOK /\ Table!RowBounds /\ Table!Disjoint
  BY DEF IInv, TableHolds
<1>4. LoopTimes' /\ InStep'
  BY <1>1, <1>2 DEF IInv, LoopTimes, InStep, Good
<1>5. StatesHold' /\ PricesAreTyped'
  BY <1>1, SameObserver
<1> HIDE DEF prices
<1>6. Table!TypeOK' /\ Table!RowBounds' /\ Table!Disjoint'
  BY <1>2, <1>3, TableConstants, Table!TypeStep, Table!BoundsStep, Table!DisjointStep
<1>7. \A s \in SKU : Table!KeysAt(s, captured)' = IF s \in DOMAIN prices THEN {prices[s]} ELSE {}
  <2>1. PICK now : now = captured
    OBVIOUS
  <2>2. Table!Transaction(now, prices)
    BY <1>2, <2>1
  <2>3. \A s \in SKU : Table!KeysAt(s, now)' = Table!Curve!Observed(prices, s)
    BY <1>3, <2>2, TableConstants, Table!CaptureIsRecorded
  <2>4. \A s \in SKU : Table!KeysAt(s, captured)' = Table!KeysAt(s, now)'
    BY <1>1, <2>1 DEF Table!KeysAt, Table!Covers, Table!IsOpen
  <2>5. QED
    BY <2>3, <2>4 DEF Table!Curve!Observed
<1>8. \A s \in SKU, u \in 0..persistedAt : Table!KeysAt(s, u)' = Table!KeysAt(s, u)
  BY <1>2, <1>3, TableConstants, Table!PastIsKept
<1>9. TableMatchesMemory'
  <2> SUFFICES ASSUME NEW s \in SKU
               PROVE  OpenKeys(s)' = {PriceKey(p) : p \in Query!CurrentPrice(skuPrices, s)'.price}
    BY DEF TableMatchesMemory, PriceKey
  <2>1. \A q \in rows' : Table!Covers(q, captured) <=> Intervals!IsOpen(q)
    <3> SUFFICES ASSUME NEW q \in rows'
                 PROVE  Table!Covers(q, captured) <=> Intervals!IsOpen(q)
      OBVIOUS
    <3>1. /\ q \in Table!Row
          /\ q.start <= q.update /\ q.update <= captured
          /\ q.end # NULL => q.end = q.update
      BY <1>2, <1>6 DEF Table!TypeOK, Table!RowBounds, Table!IsOpen
    <3>2. captured \in Nat
      BY DEF IInv, LoopTimes
    <3>3. q.start \in Nat /\ q.update \in Nat
      BY <3>1 DEF Table!Row
    <3>4. QED
      BY <3>1, <3>2, <3>3, TableConstants DEF Table!Covers, Table!IsOpen, Intervals!IsOpen
  <2>2. OpenKeys(s)' = Table!KeysAt(s, captured)'
    <3>1. OpenKeys(s)' = {q.key : q \in {p \in rows' : Intervals!IsOpen(p) /\ p.sku = s}}
      BY DEF OpenKeys, Intervals!IsOpen
    <3>2. Table!KeysAt(s, captured)'
            = {q.key : q \in {p \in rows' : p.sku = s /\ Table!Covers(p, captured)}}
      BY <1>1 DEF Table!KeysAt, Table!Covers, Table!IsOpen
    <3>3. QED
      BY <2>1, <3>1, <3>2
  <2>3. (IF s \in DOMAIN prices THEN {prices[s]} ELSE {})
           = {PriceKey(p) : p \in Query!CurrentPrice(skuPrices, s).price}
    BY DEF prices, PriceKeys, Query!CurrentPrice, Query!Unmatched
  <2>4. Query!CurrentPrice(skuPrices, s)' = Query!CurrentPrice(skuPrices, s)
    BY <1>1 DEF Query!CurrentPrice, Query!Unmatched, Query!WarnedPrice
  <2>5. QED
    BY <1>7, <2>2, <2>3, <2>4
<1>10. SeenIsRecorded'
  <2>1. captured \in DOMAIN seen /\ seen[captured] = prices
    BY <1>1 DEF IInv, SeenIsRecorded, prices
  <2>2. \A u, s : SeenAt(u, s)' = SeenAt(u, s)
    BY <1>1 DEF SeenAt
  <2>3. persistedAt \in Nat /\ captured \in Nat /\ persistedAt < captured
    BY <1>1 DEF IInv, LoopTimes, InStep
  <2>4. ASSUME NEW u \in recorded'
        PROVE  /\ u \in 0..persistedAt' /\ u \in DOMAIN seen'
               /\ \A s \in SKU : Table!KeysAt(s, u)' = SeenAt(u, s)'
    <3>1. CASE u = captured
      <4>1. \A s \in SKU : SeenAt(u, s) = IF s \in DOMAIN prices THEN {prices[s]} ELSE {}
        BY <2>1, <3>1 DEF SeenAt
      <4>2. \A s \in SKU : Table!KeysAt(s, u)' = Table!KeysAt(s, captured)'
        BY <1>1, <3>1 DEF Table!KeysAt, Table!Covers, Table!IsOpen
      <4>3. QED
        BY <1>1, <1>2, <1>7, <2>1, <2>2, <2>3, <3>1, <4>1, <4>2
    <3>2. CASE u \in recorded
      <4>1. /\ u \in 0..persistedAt /\ u \in DOMAIN seen
            /\ \A s \in SKU : Table!KeysAt(s, u) = SeenAt(u, s)
        BY <3>2 DEF IInv, SeenIsRecorded
      <4>2. u \in 0..persistedAt'
        BY <1>2, <2>3, <4>1
      <4>3. QED
        BY <1>1, <1>8, <2>2, <4>1, <4>2
    <3>3. QED
      BY <1>1, <3>1, <3>2
  <2>5. QED
    BY <1>1, <2>4 DEF SeenIsRecorded
<1>11. QED
  BY <1>4, <1>5, <1>6, <1>9, <1>10 DEF IInv, TableHolds

LEMMA PersistFailsInStep ==
  ASSUME IInv, PersistFails
  PROVE  IInv'
<1>1. /\ phase = "observed" /\ phase' = "idle"
      /\ published' = published /\ clock' = clock
      /\ captured' = captured /\ persistedAt' = persistedAt
      /\ UNCHANGED <<observerVars, intervalVars, seen, recorded>>
  BY DEF PersistFails, observerVars, intervalVars
<1>2. LoopTimes' /\ InStep'
  BY <1>1 DEF IInv, LoopTimes, InStep, Good
<1>3. QED
  BY <1>1, <1>2, SameObserver, SameTable, SameMemoryAndTable, SameHistory DEF IInv

LEMMA RestartInStep ==
  ASSUME IInv, ProcessRestart
  PROVE  IInv'
<1>1. /\ captured' = 0 /\ published' = NoSnapshot /\ phase' = "idle" /\ clock' = clock
      /\ persistedAt' = persistedAt /\ skuPrices' = Nothing
      /\ UNCHANGED <<intervalVars, seen, recorded>> /\ ObserverRestart
  BY DEF ProcessRestart, ObserverRestart, intervalVars
<1>2. LoopTimes' /\ InStep' /\ TableMatchesMemory'
  BY <1>1 DEF IInv, LoopTimes, InStep, Good, TableMatchesMemory
<1>3. StatesHold' /\ PricesAreTyped'
  BY <1>1, ForgottenHolds DEF PricesAreTyped, Nothing
<1>4. QED
  BY <1>1, <1>2, <1>3, SameTable, SameHistory DEF IInv

LEMMA StutterInStep ==
  ASSUME IInv, UNCHANGED syncVars
  PROVE  IInv'
<1>1. /\ captured' = captured /\ phase' = phase
      /\ published' = published /\ clock' = clock /\ persistedAt' = persistedAt
      /\ UNCHANGED <<observerVars, intervalVars, seen, recorded>>
  BY DEF syncVars, observerVars, intervalVars
<1>2. LoopTimes' /\ InStep'
  BY <1>1 DEF IInv, LoopTimes, InStep, Good
<1>3. QED
  BY <1>1, <1>2, SameObserver, SameTable, SameMemoryAndTable, SameHistory DEF IInv

LEMMA Invariance == SyncSpec => []IInv
<1>1. ASSUME IInv, [SyncNext]_syncVars PROVE IInv'
  BY <1>1, PullSucceedsInStep, PullFailsInStep, ObserveInStep, PersistInStep,
     PersistFailsInStep, RestartInStep, StutterInStep DEF SyncNext
<1>2. QED
  BY <1>1, InitInStep, PTL DEF SyncSpec

----------------------------------------------------------------------------

\* Wherever run() stops, fails or restarts, the observer has judged exactly the
\* snapshot that is published, or is one step behind it, and never one that a
\* pull gave up on.
THEOREM ObserverKeepsUp == SyncSpec => []ObserverMatchesSnapshot
<1>1. IInv => ObserverMatchesSnapshot
  BY DEF IInv, LoopTimes, InStep, Good, ObserverMatchesSnapshot
<1>2. QED
  BY <1>1, Invariance, PTL

\* Whatever was lost on the way, once a capture is recorded the open rows of
\* the table are the prices the observer holds in memory.
THEOREM TableCatchesUp == SyncSpec => []TableMatchesMemory
BY Invariance, PTL DEF IInv

LEMMA TableIsHistory ==
  ASSUME Table!TypeOK, Table!RowBounds, Table!Disjoint, persistedAt \in Nat
  PROVE  History(rows, persistedAt)
<1>1. ASSUME NEW r \in rows
      PROVE  /\ r \in Table!Row
             /\ r.start <= persistedAt
             /\ r.start <= r.update
             /\ r.end # NULL => r.end = r.update /\ r.start < r.end
  BY DEF Table!TypeOK, Table!RowBounds, Table!Row, Table!IsOpen
<1>2. QED
  BY <1>1 DEF History, Table!Disjoint

\* The history answers every capture that was recorded with exactly the price
\* that was observed then, and with a warning where none was, however many
\* captures failed, were lost in a restart or changed the price since.
THEOREM RecordedCapturesStayExact == SyncSpec => []RecordedCapturesAreExact
<1>1. IInv => RecordedCapturesAreExact
  <2> SUFFICES ASSUME IInv, NEW t \in recorded, NEW s \in SKU
               PROVE  LET answer == Query!HistoricalPrice(rows, s, t)
                      IN  IF SeenAt(t, s) = {}
                            THEN answer.status = "warning" /\ answer.match # "exact_interval"
                            ELSE answer.match = "exact_interval" /\ answer.price = SeenAt(t, s)
    BY DEF RecordedCapturesAreExact
  <2>1. /\ persistedAt \in Nat /\ t \in Nat
        /\ Table!KeysAt(s, t) = SeenAt(t, s)
    BY DEF IInv, SeenIsRecorded, LoopTimes
  <2>2. History(rows, persistedAt)
    BY <2>1, TableIsHistory DEF IInv, TableHolds
  <2>3. KeysOf(rows, s, t) = SeenAt(t, s)
    BY <2>1 DEF KeysOf, Table!KeysAt
  <2>4. QED
    BY <2>1, <2>2, <2>3, HistoricalAnswer DEF Warning
<1>2. QED
  BY <1>1, Invariance, PTL

\* An answer without a warning about an instant that is already recorded past
\* is final: no later capture, failure or restart changes it, so a backfill
\* that is repeated gives an order the price it already has.
THEOREM ConfirmedAnswersStayFinal == SyncSpec => ConfirmedAnswersAreFinal
<1> DEFINE before(s, at) == Query!HistoricalPrice(rows, s, at)
           after(s, at) == Query!HistoricalPrice(rows', s, at)
           Final == \A s \in SKU, at \in 0..persistedAt :
                      at < persistedAt /\ before(s, at).status = "confirmed"
                        => after(s, at).price = before(s, at).price
                           /\ after(s, at).status = "confirmed"
<1>1. IInv /\ [SyncNext]_syncVars => [Final]_syncVars
  <2> SUFFICES ASSUME IInv, [SyncNext]_syncVars,
                      NEW s \in SKU, NEW at \in 0..persistedAt,
                      before(s, at).status = "confirmed"
               PROVE  after(s, at).price = before(s, at).price
                      /\ after(s, at).status = "confirmed"
    OBVIOUS
  <2>1. CASE rows' = rows
    BY <2>1
  <2>2. CASE PersistCommits
    <3>1. Table!Transaction(captured, PriceKeys(skuPrices)) /\ persistedAt' = captured
      BY <2>2, CommitIsTransaction
    <3>2. IInv'
      BY <2>2, PersistInStep
    <3>3. /\ persistedAt \in Nat /\ persistedAt' \in Nat /\ at \in Nat
          /\ Table!TypeOK /\ Table!RowBounds /\ Table!Disjoint
          /\ Table!TypeOK' /\ Table!RowBounds' /\ Table!Disjoint'
      BY <3>2 DEF IInv, LoopTimes, TableHolds
    <3>4. History(rows, persistedAt)
      BY <3>3, TableIsHistory
    <3>5. History(rows', persistedAt')
      <4>1. ASSUME NEW r \in rows'
            PROVE  /\ r \in Table!Row
                   /\ r.start <= persistedAt'
                   /\ r.start <= r.update
                   /\ r.end # NULL => r.end = r.update /\ r.start < r.end
        BY <3>3 DEF Table!TypeOK, Table!RowBounds, Table!Row, Table!IsOpen
      <4>2. QED
        BY <3>3, <4>1 DEF History, Table!Disjoint, Table!Before, Table!IsOpen
    <3>6. KeysOf(rows', s, at) = KeysOf(rows, s, at)
      <4>1. Table!KeysAt(s, at)' = Table!KeysAt(s, at)
        BY <3>1, <3>3, TableConstants, Table!PastIsKept
      <4>2. Table!KeysAt(s, at) = KeysOf(rows, s, at)
        BY DEF KeysOf, Table!KeysAt
      <4>3. Table!KeysAt(s, at)' = KeysOf(rows', s, at)
        BY DEF KeysOf, Table!KeysAt, Table!Covers, Table!IsOpen
      <4>4. QED
        BY <4>1, <4>2, <4>3
    <3>7. "confirmed" # Warning
      BY DEF Warning
    <3> HIDE DEF before, after
    <3>8. KeysOf(rows, s, at) # {}
      BY <3>3, <3>4, <3>7, HistoricalAnswer DEF before
    <3>9. PICK key : /\ KeysOf(rows, s, at) = {key}
                     /\ before(s, at).price = {key} /\ before(s, at).status = key.status
      BY <3>3, <3>4, <3>8, HistoricalAnswer DEF before
    <3>10. PICK new : /\ KeysOf(rows', s, at) = {new}
                      /\ after(s, at).price = {new} /\ after(s, at).status = new.status
      BY <3>3, <3>5, <3>6, <3>8, HistoricalAnswer DEF after
    <3>11. new = key
      BY <3>6, <3>9, <3>10
    <3>12. QED
      BY <3>9, <3>10, <3>11
  <2>3. CASE \/ \E snapshot \in Snapshots : PullSucceeds(snapshot) \/ PullFails(snapshot)
             \/ ObservePull \/ PersistFails \/ ProcessRestart \/ UNCHANGED syncVars
    BY <2>1, <2>3 DEF PullSucceeds, PullFails, ObservePull, PersistFails, ProcessRestart,
                      syncVars, intervalVars
  <2>4. QED
    BY <2>2, <2>3 DEF SyncNext
<1>2. QED
  BY <1>1, Invariance, PTL DEF SyncSpec, ConfirmedAnswersAreFinal

\* Every step of the loop that touches the table is one of the transactions
\* PriceIntervals allows, so what is proved of the table there holds of the
\* table the loop writes.
THEOREM LoopDrivesTheTable == SyncSpec => ImplementsIntervals
<1> DEFINE Step == intervalVars' # intervalVars =>
        /\ persistedAt' \in (persistedAt + 1)..MaxPulls
        /\ \A s \in DOMAIN skuPrices : s \in SKU /\ PriceKey(skuPrices[s]) \in PriceKeyType
        /\ Intervals!Persist(persistedAt', PriceKeys(skuPrices))
<1>1. IInv /\ [SyncNext]_syncVars => [Step]_syncVars
  <2> SUFFICES ASSUME IInv, [SyncNext]_syncVars, intervalVars' # intervalVars PROVE Step
    OBVIOUS
  <2>1. PersistCommits
    BY DEF SyncNext, PullSucceeds, PullFails, ObservePull, PersistFails, ProcessRestart,
           syncVars
  <2>2. Table!Transaction(captured, PriceKeys(skuPrices)) /\ persistedAt' = captured
    BY <2>1, CommitIsTransaction
  <2>3. QED
    BY <2>1, <2>2 DEF PersistCommits, Table!Transaction, IInv, PricesAreTyped
<1>2. QED
  BY <1>1, Invariance, PTL DEF SyncSpec, ImplementsIntervals

=============================================================================
