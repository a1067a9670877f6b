-------------------------- MODULE ActivityObserver --------------------------
(***************************************************************************)
(* internal/marketing/activity_observer.go: the in-memory observer that    *)
(* turns each complete activity snapshot into an SKC state and an SKU      *)
(* price.  It remembers the remaining stock of the previous capture and    *)
(* the SKC states it gave then, nothing else, and forgets everything when  *)
(* the process restarts.                                                   *)
(*                                                                         *)
(* A snapshot is the sequence of enrollments in the order they were pulled *)
(*    [ enroll, stock, remaining,                                          *)
(*      skcs : Seq([ skc,                                                  *)
(*                   prices : Seq([sku, currency, daily, activity]) ]) ]   *)
(* where the currency is the one of the SKU, of its SKC or of the          *)
(* enrollment, whichever is named first (observerFirstNonEmpty).  The      *)
(* sequence matters: an enrollment that was listed on two pages comes      *)
(* twice, the later occurrence overwrites the remembered stock, the first  *)
(* SKC that lists an SKU is the one its price is filed under, and the      *)
(* first currency that is named is the one of the price.                   *)
(***************************************************************************)
EXTENDS SKUPrice, SequencesExt

CONSTANTS
  Enroll,      \* enrollment identifiers
  SKC,         \* SKC identifiers
  SKU,         \* SKU identifiers
  Currency,    \* currencies a listed price may name
  Snapshots,   \* the snapshots a pull may deliver
  MaxPulls     \* bound: completed pulls in one behaviour

SnapshotType ==
  Seq([ enroll : Enroll, stock : Nat, remaining : Nat,
        skcs : Seq([ skc : SKC,
                     prices : Seq([ sku : SKU, currency : Currency \cup {NoCurrency},
                                    daily : Nat, activity : Nat ]) ]) ])

StateReasons ==
  { "no_current_activity", "interval_unique_consumption",
    "interval_multiple_consumption", "carry_forward_no_consumption",
    "carry_forward_conflict", "carry_forward_warning",
    "initial_unique_cumulative_consumption",
    "initial_multiple_cumulative_consumption", "initial_no_consumption" }

\* SKCActivityState
StateType ==
  [ status : {Confirmed, Warning}, active : Enroll \cup {NoEnroll},
    previousActive : Enroll \cup {NoEnroll}, candidates : SUBSET Enroll,
    evidence : SUBSET Enroll, startedAt : Nat, lastEvidenceAt : Nat \cup {Never},
    carried : BOOLEAN, reason : StateReasons ]

ASSUME ObserverAssumption ==
  /\ Snapshots \subseteq SnapshotType
  /\ NoState \notin StateType
  /\ NoEnroll \notin Enroll
  /\ Never \notin Nat
  /\ MaxPulls \in Nat \ {0}

VARIABLES
  captured,           \* latest.CapturedAt, 0 before the first capture
  enrollments,        \* latest.Enrollments: what each (enroll, skc) did
  previousRemaining,  \* remaining stock of the previous capture
  states,             \* SKC states, = latest.States
  skuPrices           \* latest.SKUPrices, by SKU

observerVars ==
  <<captured, enrollments, previousRemaining, states, skuPrices>>

VARIABLE clock  \* the time of the last completed pull

vars == <<observerVars, clock>>

----------------------------------------------------------------------------
\* What Observe computes from a snapshot.

Nothing == [x \in {} |-> 0]

\* Where a snapshot lists an SKC: in which enrollment, and where in it.
Places(snapshot) ==
  UNION {{i} \X DOMAIN snapshot[i].skcs : i \in DOMAIN snapshot}

\* The order of the pull.
Before(p, q) == p[1] < q[1] \/ (p[1] = q[1] /\ p[2] < q[2])

\* One stock entry per SKC of each enrollment.
StockEntry(snapshot, p) ==
  [ enroll    |-> snapshot[p[1]].enroll,
    skc       |-> snapshot[p[1]].skcs[p[2]].skc,
    stock     |-> snapshot[p[1]].stock,
    remaining |-> snapshot[p[1]].remaining ]

\* Where a snapshot lists a price: at which place, and where in its prices.
PricePlaces(snapshot) ==
  UNION {{p} \X DOMAIN snapshot[p[1]].skcs[p[2]].prices : p \in Places(snapshot)}

PriceBefore(l, m) == Before(l[1], m[1]) \/ (l[1] = m[1] /\ l[2] < m[2])

\* One price point per listed price.
PricePoint(snapshot, l) ==
  LET price == snapshot[l[1][1]].skcs[l[1][2]].prices[l[2]]
  IN  [ enroll   |-> snapshot[l[1][1]].enroll,
        skc      |-> snapshot[l[1][1]].skcs[l[1][2]].skc,
        sku      |-> price.sku,
        currency |-> price.currency,
        daily    |-> price.daily,
        activity |-> price.activity ]

PricePoints(snapshot) == [l \in PricePlaces(snapshot) |-> PricePoint(snapshot, l)]

KeyOf(entry) == <<entry.enroll, entry.skc>>

Positive0(n) == IF n > 0 THEN n ELSE 0

\* What one entry shows when the previous capture left remaining[key].
StockObservation(entry, remaining) ==
  LET before == IF KeyOf(entry) \in DOMAIN remaining
                  THEN remaining[KeyOf(entry)] ELSE entry.remaining
  IN  [ enroll     |-> entry.enroll,
        skc        |-> entry.skc,
        remaining  |-> entry.remaining,
        known      |-> KeyOf(entry) \in DOMAIN remaining,
        cumulative |-> Positive0(entry.stock - entry.remaining),
        consumed   |-> Positive0(before - entry.remaining),
        increased  |-> Positive0(entry.remaining - before) ]

Observations(snapshot, remaining) ==
  [p \in Places(snapshot) |-> StockObservation(StockEntry(snapshot, p), remaining)]

\* The map the observations leave: the last one of a key wins.
LastOfEachKey(observations) ==
  [ key \in {KeyOf(o) : o \in Range(observations)} |->
      observations[ CHOOSE p \in DOMAIN observations :
        /\ KeyOf(observations[p]) = key
        /\ \A q \in DOMAIN observations :
             Before(p, q) => KeyOf(observations[q]) # key ] ]

StockPointsOf(skc, observations) ==
  { [ enroll |-> o.enroll, cumulative |-> o.cumulative, interval |-> o.consumed ] :
      o \in {obs \in Range(observations) : obs.skc = skc} }

\* SKCs to resolve: those of the snapshot, and those that still had an
\* activity at the previous capture.
TrackedSKCs(observations, prevStates) ==
  {o.skc : o \in Range(observations)}
    \cup {k \in DOMAIN prevStates : prevStates[k].reason # "no_current_activity"}

SKCStates(now, observations, prevStates) ==
  [ k \in TrackedSKCs(observations, prevStates) |->
      ResolveSKCActivityState(now, StockPointsOf(k, observations),
        IF k \in DOMAIN prevStates THEN prevStates[k] ELSE NoState) ]

PlacesListing(points, sku) == {l \in DOMAIN points : points[l].sku = sku}

\* The point at the first of some places, in the order of the pull.
Leading(points, places) ==
  points[CHOOSE l \in places : \A m \in places \ {l} : PriceBefore(l, m)]

\* candidates[0]
FirstListed(points, sku) == Leading(points, PlacesListing(points, sku))

PlacesNaming(points, sku) ==
  {l \in PlacesListing(points, sku) : points[l].currency # NoCurrency}

\* firstPriceCurrency
FirstCurrency(points, sku) ==
  IF PlacesNaming(points, sku) = {} THEN NoCurrency
  ELSE Leading(points, PlacesNaming(points, sku)).currency

PointsOf(points, sku) == {points[l] : l \in PlacesListing(points, sku)}

SKCsListing(points, sku) == {p.skc : p \in PointsOf(points, sku)}

MultipleSKCState == [status |-> Warning, active |-> NoEnroll]

\* Seeded bug: an SKU of several SKCs is priced by the state of the first.
SKUPriceOfFirst(sku, points, skcStates) ==
  LET first == FirstListed(points, sku)
  IN  ResolveSKUPriceState(skcStates[first.skc], first, FirstCurrency(points, sku),
                           PointsOf(points, sku))

SKUPriceOf(sku, points, skcStates) ==
  LET first    == FirstListed(points, sku)
      several  == Cardinality(SKCsListing(points, sku)) > 1
      skcState == IF several THEN MultipleSKCState ELSE skcStates[first.skc]
      price    == ResolveSKUPriceState(skcState, first, FirstCurrency(points, sku),
                                       PointsOf(points, sku))
  IN  IF several
        THEN [price EXCEPT !.status = Warning, !.active = NoEnroll,
                           !.reason = <<"sku_multiple_skc">>]
        ELSE price

SKUPrices(snapshot, skcStates) ==
  LET points == PricePoints(snapshot)
  IN  [ sku \in {points[l].sku : l \in DOMAIN points} |->
          SKUPriceOf(sku, points, skcStates) ]

----------------------------------------------------------------------------

ObserverInit ==
  /\ captured = 0
  /\ enrollments = Nothing
  /\ previousRemaining = Nothing
  /\ states = Nothing
  /\ skuPrices = Nothing

\* One capture, under the observer's lock, of the snapshot that was completed
\* at now.
Observe(now, snapshot) ==
  LET observations == Observations(snapshot, previousRemaining)
      skcStates    == SKCStates(now, observations, states)
  IN  /\ captured' = now
      /\ enrollments' = LastOfEachKey(observations)
      /\ previousRemaining' =
           [key \in DOMAIN enrollments' |-> enrollments'[key].remaining]
      /\ states' = skcStates
      /\ skuPrices' = SKUPrices(snapshot, skcStates)

\* The process restarts: NewActivityObserver.
ObserverRestart ==
  /\ captured' = 0
  /\ enrollments' = Nothing
  /\ previousRemaining' = Nothing
  /\ states' = Nothing
  /\ skuPrices' = Nothing

----------------------------------------------------------------------------
\* The observer by itself: a pull completes and is observed, or the process
\* restarts.

Init == ObserverInit /\ clock = 0

Capture(snapshot) ==
  /\ clock < MaxPulls
  /\ clock' = clock + 1
  /\ Observe(clock + 1, snapshot)

Restart ==
  /\ captured # 0
  /\ ObserverRestart
  /\ UNCHANGED clock

Next ==
  \/ \E snapshot \in Snapshots : Capture(snapshot)
  \/ Restart

Spec == Init /\ [][Next]_vars

----------------------------------------------------------------------------
\* Properties.

Current(k) == {e \in Enroll : <<e, k>> \in DOMAIN previousRemaining}

\* An SKC is confirmed exactly when it names an activity, and the one it
\* names is one the last snapshot enrols it in: a state carried forward never
\* outlives its activity (activity_state.go:79-90).
ConfirmedIsCurrent ==
  \A k \in DOMAIN states :
    /\ states[k].status = Confirmed <=> states[k].active # NoEnroll
    /\ states[k].status = Confirmed => states[k].active \in Current(k)

\* The evidence a confirmed state shows is the evidence for the activity it
\* names, and it was seen no earlier than the state began, however many
\* captures it has been carried over since.
ConfirmedHasEvidence ==
  \A k \in DOMAIN states :
    LET s == states[k]
    IN  s.status = Confirmed =>
          /\ s.evidence = {s.active}
          /\ s.lastEvidenceAt # Never
          /\ s.startedAt <= s.lastEvidenceAt
          /\ s.lastEvidenceAt <= captured

Dropped(k) ==
  {e \in Enroll : <<e, k>> \in DOMAIN enrollments
                  /\ enrollments[<<e, k>>].consumed > 0}

BothKnown(k) == k \in DOMAIN states /\ k \in DOMAIN states'

\* A pull that lists an enrollment on two pages saw no restock in between:
\* otherwise the last listing, which is the one that is remembered, hides what
\* the enrollment lost.
NoRestockInPull ==
  \A snapshot \in Snapshots : \A p, q \in Places(snapshot) :
    /\ KeyOf(StockEntry(snapshot, p)) = KeyOf(StockEntry(snapshot, q))
    /\ Before(p, q)
    => StockEntry(snapshot, q).remaining <= StockEntry(snapshot, p).remaining

\* The named activity of an SKC changes only because the new one alone lost
\* stock in the interval, or because the old one is no longer current, unless
\* there are restocks within a pull (NoRestockInPull).
SwitchHasEvidence ==
  [][ \A k \in SKC :
        /\ BothKnown(k)
        /\ states[k].status = Confirmed
        /\ states'[k].status = Confirmed
        /\ states'[k].active # states[k].active
        => \/ Dropped(k)' = {states'[k].active}
           \/ states[k].active \notin Current(k)'
    ]_vars

\* A conflict between activities that both lost stock is not forgotten: it
\* ends by a later interval in which one of them alone lost stock, or when
\* fewer than two of them are still current (activity_state.go:91-102).
ConflictIsSticky ==
  [][ \A k \in SKC :
        /\ BothKnown(k)
        /\ states[k].status = Warning
        /\ Cardinality(states[k].evidence) > 1
        /\ states'[k].status = Confirmed
        => \/ Dropped(k)' = {states'[k].active}
           \/ Cardinality(states[k].evidence \cap Current(k)') < 2
    ]_vars

\* What the next capture would make of a snapshot.
StatesFrom(snapshot) ==
  SKCStates(clock + 1, Observations(snapshot, previousRemaining), states)

Rearrangements(S) == {f \in [S -> S] : \A x \in S : \E y \in S : f[y] = x}

\* The same enrollments, pulled in every order the pages can have.
Reordered(snapshot) ==
  { [i \in DOMAIN snapshot |-> snapshot[f[i]]] : f \in Rearrangements(DOMAIN snapshot) }

CurrenciesNamed(points, sku) ==
  {p.currency : p \in PointsOf(points, sku)} \ {NoCurrency}

\* The same price state, but for its SKC and its currency.
SamePrice(p, q) == q = [p EXCEPT !.skc = q.skc, !.currency = q.currency]

\* The order in which the enrollments were pulled decides no state and no price
\* of the capture: of what is stored and compared for an SKU
\* (activity_store.go:90-97) it can change the SKC alone, and that only if
\* several SKCs list the SKU, and the currency, and that only if its points name
\* several.  (Of an enrollment that comes twice it also chooses the stock that
\* the next capture is compared with.)
PullOrderDecidesNoPrice ==
  clock < MaxPulls => \A snapshot \in Snapshots :
    LET points    == PricePoints(snapshot)
        skcStates == StatesFrom(snapshot)
        here      == SKUPrices(snapshot, skcStates)
    IN  \A other \in Reordered(snapshot) \ {snapshot} :
          LET there == SKUPrices(other, skcStates)
          IN  /\ StatesFrom(other) = skcStates
              /\ DOMAIN there = DOMAIN here
              /\ \A s \in DOMAIN here :
                   /\ SamePrice(here[s], there[s])
                   /\ Cardinality(SKCsListing(points, s)) = 1
                        => there[s].skc = here[s].skc
                   /\ Cardinality(CurrenciesNamed(points, s)) <= 1
                        => there[s].currency = here[s].currency

=============================================================================
