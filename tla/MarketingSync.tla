--------------------------- MODULE MarketingSync ---------------------------
(***************************************************************************)
(* scheduleMarketingSync (main.go): the loop that, every minute, pulls a   *)
(* snapshot (marketing.Syncer.Sync), lets the observer judge it (Observe)  *)
(* and records the prices (updateTemuSKUPriceIntervals).  The three steps  *)
(* are separate: HTTP handlers read the published snapshot, the observer   *)
(* and the table in between, each step may be the last one before the      *)
(* process stops, and a pull or a transaction may fail.  A failed          *)
(* transaction is only logged; nothing repeats it.                         *)
(*                                                                         *)
(* The table survives a restart.  The snapshot and the observer do not.    *)
(***************************************************************************)
EXTENDS ActivityObserver

CONSTANTS
  NULL,       \* end_at of an open row
  NoSnapshot  \* Syncer.snapshot before the first pull ended

ASSUME SyncAssumption ==
  /\ NULL \notin Nat
  /\ NoSnapshot \notin [ok : BOOLEAN, at : Nat, enrollments : Snapshots]

VARIABLES
  \* PriceIntervals
  rows, persistedAt,
  \* the loop
  published,  \* Syncer.snapshot: [ok, at, enrollments], or NoSnapshot
  phase,      \* where run() is
  \* history
  seen,       \* what each capture observed: its time -> SKU -> price key
  recorded    \* the captures whose transaction committed

intervalVars == <<rows, persistedAt>>
syncVars == <<observerVars, clock, intervalVars, published, phase, seen, recorded>>

\* The columns of a price state that are stored and compared; the reason is
\* kept for a warning only (updateTemuSKUPriceIntervals).
PriceKey(p) ==
  [ skc |-> p.skc, status |-> p.status, active |-> p.active,
    candidates |-> p.candidates, currency |-> p.currency, daily |-> p.daily,
    activity |-> p.activity, price |-> p.price, source |-> p.source,
    reason |-> IF p.status = Confirmed THEN << >> ELSE p.reason ]

PriceKeys(prices) == [s \in DOMAIN prices |-> PriceKey(prices[s])]

PriceReasons ==
  {<< >>, <<"sku_multiple_skc">>}
    \cup {"skc_state_warning", "confirmed_activity_price_conflict",
          "confirmed_activity_price_missing"}
         \X {"daily_fallback", "daily_price_conflict", "daily_price_missing"}

PriceKeyType ==
  [ skc : SKC, status : {Confirmed, Warning}, active : Enroll \cup {NoEnroll},
    candidates : SUBSET Enroll, currency : Currency \cup {NoCurrency},
    daily : Nat, activity : Nat, price : Nat, source : PriceSources,
    reason : PriceReasons ]

Intervals == INSTANCE PriceIntervals WITH Key <- PriceKeyType, MaxTime <- MaxPulls

Query == INSTANCE PriceQuery

----------------------------------------------------------------------------

SyncInit ==
  /\ Init
  /\ Intervals!Init
  /\ published = NoSnapshot
  /\ phase = "idle"
  /\ seen = [t \in {} |-> 0]
  /\ recorded = {}

\* Sync returns a complete snapshot, and has published it.
PullSucceeds(snapshot) ==
  /\ phase = "idle"
  /\ clock < MaxPulls
  /\ clock' = clock + 1
  /\ published' = [ok |-> TRUE, at |-> clock + 1, enrollments |-> snapshot]
  /\ phase' = "pulled"
  /\ UNCHANGED <<observerVars, intervalVars, seen, recorded>>

\* Seeded bug: run() goes on after the error with the snapshot that is up.
PullFailsGoingOn(snapshot) ==
  /\ phase = "idle"
  /\ clock < MaxPulls
  /\ IF published # NoSnapshot /\ published.ok
       THEN UNCHANGED <<published, clock>>
       ELSE /\ clock' = clock + 1
            /\ published' = [ok |-> FALSE, at |-> clock + 1, enrollments |-> snapshot]
  /\ phase' = "pulled"
  /\ UNCHANGED <<observerVars, intervalVars, seen, recorded>>

\* Sync gives up with what it had pulled so far (finish), and run() returns.
\* A partial snapshot replaces only one that was not successful either.
PullFails(snapshot) ==
  /\ phase = "idle"
  /\ clock < MaxPulls
  /\ IF published # NoSnapshot /\ published.ok
       THEN UNCHANGED <<published, clock>>
       ELSE /\ clock' = clock + 1
            /\ published' = [ok |-> FALSE, at |-> clock + 1, enrollments |-> snapshot]
  /\ UNCHANGED <<observerVars, intervalVars, phase, seen, recorded>>

\* observer.Observe(snapshot)
ObservePull ==
  /\ phase = "pulled"
  /\ Observe(published.at, published.enrollments)
  /\ phase' = "observed"
  /\ seen' = [t \in DOMAIN seen \cup {published.at} |->
                IF t = published.at THEN PriceKeys(skuPrices') ELSE seen[t]]
  /\ UNCHANGED <<clock, intervalVars, published, recorded>>

\* Seeded bug: the capture is dated to the start of its pull.
PersistCommitsAtStart ==
  /\ phase = "observed"
  /\ Intervals!Persist(captured - 1, PriceKeys(skuPrices))
  /\ phase' = "idle"
  /\ recorded' = recorded \cup {captured}
  /\ UNCHANGED <<observerVars, clock, published, seen>>

PersistCommits ==
  /\ phase = "observed"
  /\ Intervals!Persist(captured, PriceKeys(skuPrices))
  /\ phase' = "idle"
  /\ recorded' = recorded \cup {captured}
  /\ UNCHANGED <<observerVars, clock, published, seen>>

PersistFails ==
  /\ phase = "observed"
  /\ phase' = "idle"
  /\ UNCHANGED <<observerVars, clock, intervalVars, published, seen, recorded>>

\* The process stops, at any point of run(), and starts again.
ProcessRestart ==
  /\ published # NoSnapshot
  /\ ObserverRestart
  /\ published' = NoSnapshot
  /\ phase' = "idle"
  /\ UNCHANGED <<clock, intervalVars, seen, recorded>>

SyncNext ==
  \/ \E snapshot \in Snapshots : PullSucceeds(snapshot)
  \/ \E snapshot \in Snapshots : PullFails(snapshot)
  \/ ObservePull
  \/ PersistCommits
  \/ PersistFails
  \/ ProcessRestart

SyncSpec == SyncInit /\ [][SyncNext]_syncVars

----------------------------------------------------------------------------
\* Properties.

OpenKeys(s) == {r.key : r \in {q \in rows : Intervals!IsOpen(q) /\ q.sku = s}}

SeenAt(t, s) == IF s \in DOMAIN seen[t] THEN {seen[t][s]} ELSE {}

\* Unless a capture is under way, the observer judged exactly the snapshot the
\* page shows rows of; while one is, it is behind it.  The snapshot itself is
\* never one that was given up.
ObserverMatchesSnapshot ==
  LET good == published # NoSnapshot /\ published.ok
  IN  /\ captured > 0 => good
      /\ good => IF phase = "pulled" THEN captured < published.at
                                     ELSE captured = published.at

\* Whatever was lost on the way, once a capture is recorded the open rows are
\* the prices in memory: the price list read from the table and the current
\* price read from memory agree (skuPriceSnapshot, skuCurrentPrice).
TableMatchesMemory ==
  (captured > 0 /\ captured = persistedAt) =>
    \A s \in SKU :
      OpenKeys(s) = {PriceKey(p) : p \in Query!CurrentPrice(skuPrices, s).price}

\* The history answers a capture that was recorded with exactly the price it
\* observed, however many later captures failed, were lost or changed it.
RecordedCapturesAreExact ==
  \A t \in recorded, s \in SKU :
    LET answer == Query!HistoricalPrice(rows, s, t)
    IN  IF SeenAt(t, s) = {}
          THEN answer.status = "warning" /\ answer.match # "exact_interval"
          ELSE answer.match = "exact_interval" /\ answer.price = SeenAt(t, s)

\* What the history says of an instant it has already recorded past is final
\* when it says it without a warning: an order priced from it keeps its price
\* (backfillOrderPriceEstimates can be repeated).
ConfirmedAnswersAreFinal ==
  [][ \A s \in SKU, at \in 0..persistedAt :
        LET before == Query!HistoricalPrice(rows, s, at)
            after  == Query!HistoricalPrice(rows', s, at)
        IN  at < persistedAt /\ before.status = "confirmed"
              => after.price = before.price /\ after.status = "confirmed"
    ]_syncVars

\* The loop drives the interval table the way PriceIntervals lets it be driven:
\* each transaction is of a later capture than the one before, and of prices
\* that are all of the table's type, whatever failed or restarted in between.
ImplementsIntervals ==
  [][ intervalVars' # intervalVars =>
        /\ persistedAt' \in (persistedAt + 1)..MaxPulls
        /\ \A s \in DOMAIN skuPrices : s \in SKU /\ PriceKey(skuPrices[s]) \in PriceKeyType
        /\ Intervals!Persist(persistedAt', PriceKeys(skuPrices)) ]_syncVars

=============================================================================
