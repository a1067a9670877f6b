# A TLA+ model of pangu-sales-manager

The service keeps two pictures of the outside world up to date: what each Temu SKU sells
at (every minute, from the marketing API) and what was ordered (every minute, from the
databases of the shops). People read both from HTTP pages, press a button to sync at once,
edit SKU mappings and upload profit spreadsheets. This directory models the parts whose
correctness depends on an order of events: state that survives a restart and state that
does not, steps that fail halfway, goroutines that meet, rows that are extended for days.

## 1. Inventory

| Part | Source | State it keeps | Operations | Interacts with |
|---|---|---|---|---|
| SKC activity resolution | `internal/marketing/activity_state.go` | none (pure) | `ResolveSKCActivityState` | called by the observer |
| SKU price resolution | `internal/marketing/sku_price_state.go` | none (pure) | `ResolveSKUPriceState` | called by the observer |
| Activity observer | `internal/marketing/activity_observer.go` | in memory: the stock of the previous capture, SKC states, the last observation | `Observe`, `Latest` | fed by the loop, read by handlers |
| Marketing pull | `internal/marketing/syncer.go` | in memory: the last published snapshot | `Sync`, `Snapshot` | Temu API, the loop, handlers |
| Marketing loop | `main.go` `scheduleMarketingSync` | none | pull, observe, persist | the three parts above and below |
| Price intervals | `activity_store.go`, table `temu_sku_price_intervals` | database rows | `updateTemuSKUPriceIntervals`, reads | the loop, the query, the backfill |
| Price query | `sku_price_query.go` | none | current price from memory, historical price from the table | pages, backfill |
| Order price backfill | `order_price_backfill.go` | database: estimates, unit prices | preview, write | price query, order lines |
| Sync scheduler | `main.go` `scheduleSync`, `server.go` `startSync` | a counter, a timer | run, defer, back off | `Syncer.Run` |
| Order sync | `syncer.go`, `temu_sales_source.go`, `store.go` | an atomic flag; database: `sync_runs`, orders, lines | `Run`, `planSync`, `upsertSourceBatch`, `finishSync` | source databases, mappings |
| SKU mappings | `store.go`, `xlwms_mapping_sync.go`, `server.go` | database: `sku_mappings`, factors copied to lines | infer from an order, import from XLWMS, PATCH | order sync, XLWMS API |
| Inventory | `syncer.go`, `store.go` | database: warehouses, inventory | `replaceInventory` | XLWMS database |
| Temu client | `internal/temu/` | in memory: next request slot | `Call`, `waitForRequestSlot`, pages | marketing pull |
| Activity pages | `effective_prices.go`, `activity_rows.go` | none | projections of a snapshot | handlers |
| Profit import | `profit_http.go`, `profit_import.go`, `profit_store.go` | an atomic flag; database rows | upload, upsert, finish | handlers |
| Profit reports | `profit_*summary.go`, `profit_report.go` | none | daily, SKU and unsettled summary | handlers; reads orders and profit tables |
| Analytics | `analytics.go`, `restock_export.go` | none | dashboard: windows, buckets, forecast | handlers; reads orders and inventory |
| Web interface, configuration | `web/`, `config.go` | none | | |

### What is hard here, and what must hold

*Marketing.* The observer is a small state machine driven by snapshots that change under
it: activities begin, sell, are restocked and end, and an enrollment may be listed twice.
A state is carried over for as long as nothing happens. It must not outlive its activity,
must not be confirmed without evidence, must keep a conflict until something resolves it.
The table is written by a transaction a minute, which can fail after the observer has
moved on, and is read for instants inside, between and after its rows. The rows of an SKU
must be disjoint, must never be rewritten, and must give back each capture that was
recorded. The snapshot that pages read must be a complete one once there was one.

*Orders.* `Run` has two kinds of callers and one flag; its row in `sync_runs` decides what
the next run does. The flag must be released on every way out, the row must tell the truth,
a full sync must be neither repeated too soon nor forgotten. The watermark of a shop is
read from the orders themselves: whatever fails, no update may fall between two of them.

*Mappings, backfill.* Writers of the same rows that do not know of each other.

*Pull.* The listing moves while its pages are read, requests are rate-limited, repeated and cut
off by a deadline. What is published as complete must be complete, whatever fails must not
replace it, and the loop must come back.

*Profit import.* A multipart upload becomes the rows of eleven tables, some of them merged
across lines of a sheet, in one transaction under the context of a client that may be gone.
The tables must hold what the committed uploads say last, the list of runs must be honest, and
the next upload must not be refused for ever.

*Pages.* Eleven statements of one page are read without a transaction, each with its own idea of
what a day, an expense or a sale is. Their sums must agree with one another and with the tables.

## 2. Modules

| Module | Models | Extends / instantiates |
|---|---|---|
| `SKCActivity` | `ResolveSKCActivityState`: one operator per branch | |
| `SKUPrice` | `ResolveSKUPriceState` | `SKCActivity` |
| `ActivityObserver` | `Observe` and a restart | `SKUPrice` |
| `PriceCurve` | the abstract promise of the table: for each SKU and instant, the state on record | |
| `PriceIntervals` | the rows and the transaction | refines `PriceCurve` |
| `PriceQuery` | the two ways to answer a query | |
| `ActivityPages` | `currentEnrollment`, the prices in effect and the rows of the activity page, as operators on a snapshot | |
| `MarketingPull` | `Sync` page by page, `retry`, `waitForRequestSlot`, `publish` and `finish` | `ActivityPages` |
| `MarketingSync` | the loop: pull, observe, persist, each of which may fail or be the last | extends `ActivityObserver`, instantiates the table and the query |
| `SyncScheduler` | who is in `Run`, in which mode, and what `sync_runs` says | |
| `OrderSync` | watermarks, reads and batches against sources with late writers | |
| `SKUMapping` | the three writers of `sku_mappings`, the lines they leave and the pairings at xlwms | |
| `OrderPriceBackfill` | the three steps of a backfill against a table and orders that go on | instantiates `PriceIntervals` and `PriceQuery` |
| `ProfitSheets` | what an upload is recognised as and which records it has, as operators | |
| `ProfitImport` | `importProfit`: the flag, the row of the run, the transaction | `ProfitSheets` |
| `Calendar` | days, zones, windows and buckets | |
| `ProfitPages` | the statements of the daily and the SKU summary and what is made of their answers | `Calendar` |
| `Dashboard` | the statements of the dashboard, `buildDashboard` and `forecastDemand` | `ProfitPages` |
| `Reports` | the transactions that write what pages read, and pages read one statement at a time | `Dashboard` |
| `UnsettledSummary` | the merge of pending fees into the rows of the unsettled summary | |
| `MC…` | constants for TLC | the module they are named after |
| `…_proofs` | theorems (those about `ActivityObserver` are in `MarketingSync_proofs`) | the module they are named after |

How state corresponds to code is said in the comments of the `VARIABLES`; `PROJECT.json`
maps every definition to its lines. Operators named in a comment "Seeded bug" are not part
of a specification: each is a plausible mistake in one definition, and a run with that
definition replaced must violate the property the mistake is about.

### How state and actions correspond to the code

*`SKCActivity`, `SKUPrice`.* Each `if` of the two Go functions that returns is an operator
with a guard (`CarriesConfirmed`, `CarriesConflict`, ...) and an outcome (`Carried`, ...);
`ResolveSKCActivityState` and `ResolveSKUPriceState` put them in the order of the returns.
Slices of identifiers, which the code keeps sorted and unique, are sets.

*`ActivityObserver`.* `captured`, `enrollments`, `previousRemaining`, `states` and
`skuPrices` are the fields of the struct and of its `latest`; `Observe` is the method, whole,
since it runs under the observer's lock. A snapshot is a sequence: the order of pages, an
enrollment that comes twice, the first SKC that lists an SKU and the first currency that is named
all matter to the code.

*`PriceIntervals`.* `rows` is the table; `Persist` is the transaction. The columns that
`sameSKUPriceInterval` compares are one value, `Key`. `Covers` is the condition the
historical query uses; `PriceQuery` has the query itself with its three `ORDER BY` keys.

*`MarketingSync`.* One iteration of `scheduleMarketingSync` is three steps, `PullSucceeds`
(or `PullFails`), `ObservePull`, `PersistCommits` (or `PersistFails`), because handlers read
between them and the process may stop there. `seen` and `recorded` are history: what each
capture observed, and which captures are in the table. `PersistFails` also stands for the
timeout of the one context that `main.go:103-110` uses for the pull and the transaction.

*`MarketingPull`, `ActivityPages`.* `listing` is what Temu lists, `request` and `draft` are the
page asked for and the snapshot being made, locals of `Sync`; `pc` is where the request stands
between `waitForRequestSlot`, the answer and the wait of `retry`. `slot` is `nextRequestAt`,
counted from now, `age` the time the context has used up, `published` what `Snapshot` returns.
A whole answer is one step (`EnrollmentsArrive`, `GoodsArrive`), and so is giving up (`Finish`).
`MarketingSync` has the same pull as two steps, `PullSucceeds` and `PullFails`, so that its
snapshots can be chosen freely. `EffectivePrices` and `ActivityRows` are the two pages.

*`SyncScheduler`.* `pc` is where a caller stands in `Run`; between any two of its steps any
other caller, the clock or a restart may come. `sinceFull` is the age of the last full row of
`sync_runs`, `lastRun` its last row, `failures` and `wait` the scheduler's local counter and
timer. `Returns` is what `scheduleSync` does with each outcome.

*`OrderSync`.* `source` is what a reader of a shop's database sees, `writing` what its writers have
stamped and not committed; `Moves` changes the warehouse of an order, which the queries join, without
a stamp. `since` is `plan.Since`; `batch`, `image` and `lines` are what a read has returned (which
orders, their rows, of which version their lines are); `local` is the table `normalized_orders` with
the version its lines came from. `Plan`, `ReadTemu`, `Upsert` and `ShopFails` are the stages of `Run`.
SHEIN is read in two steps, `ReadSheinOrders` and `ReadSheinLines`, and the first may end before any
id, since nothing asks `rows.Err()`. `owed` is history: the orders such a read has lost. `Stored` is
the upsert of an order with its lines, in which a warehouse or price that says nothing keeps the old
one. Lines are abstracted to the version of the order they were read from; the warehouse of a Temu
line is that of its order, the one of a SHEIN line part of its payload.

*`SKUMapping`.* `mapping` and `lines` are the tables. `OrderBatch` is the transaction of
`upsertSourceBatch` with `upsertMapping` and, for a Temu shop, the zeroing of the lines the
order no longer has. `listing`/`listed` is `ListMappings` in progress, account by account;
`Apply` is the transaction that follows. `edit` is a PATCH in progress: which account is
asked, then `StoreEdit`. Transactions are single steps because a batch and a PATCH both lock
the `sku_mappings` row first; listing, applying and batches belong to one sequential `Run`.

*`OrderPriceBackfill`.* `request` holds what each HTTP request has read so far: its targets with
the times of their orders, then the answers. `Write` is its transaction, which puts an estimate
beside each line and a price, a source and a status on it. `Capture` and `SyncOrder` stand for the
marketing loop and the order sync, which write what the request reads.

*`ProfitImport`, `ProfitSheets`.* `importing` is the flag, `alive` the context of each request,
`staged` what its transaction sees and the counts it has so far, `runs` the table of runs, `db`
the profit tables by business key. `ParseUpload` decides what a file is (by a hint, its name,
its sheets, its headers, in this order) and yields records in the order of the code; `Stored`
is the upsert of one of them, with the `DELETE` and `INSERT`s of an order's SKUs. `Commit` may
lose its answer. A cell is text, a number, or something that cannot be read.

*`Reports`, `ProfitPages`, `Dashboard`, `Calendar`.* `orders`, `money` and `stock` are the tables;
`StoreOrder`, `Import` and `ReplaceStock` their transactions. `page` is a request: its parameters,
the answers so far and the number of the next statement. A column of a statement says which rows
it takes and what of them (`Column`), so that a new table or sign is one entry; `DailyPage`,
`SKUPage` and `Dashboard` are what the code makes of the answers. Amounts are whole numbers and a
forecast is a multiple of `1/Unit`, exact for a denominator that divides all of the code's.

*`UnsettledSummary`.* `memory` is every array the slice `result` ever lived in, `slice` the
one it lives in now, `byShop` the map of pointers; `WriteFee` and `AppendShop` are the two
ways through the body of the range over the map.

## 3. Runs

| Run | Question | Instance |
|---|---|---|
| `ActivityObserver` | May a state outlive its activity, be confirmed without evidence, forget a conflict, switch without evidence; may the order of pages decide a state or a price? | 3 activities, 2 SKCs, 1 SKU, 2 currencies, 4 captures, restarts anywhere |
| `PriceIntervals` | Do rows stay disjoint and final, and do they implement `PriceCurve`? | 2 SKUs, 2 states, captures at up to 5 instants |
| `MarketingPull` | Does a complete snapshot have what was listed all along, does it stay, do the two pages of it agree; are requests spaced; does every pull end? | 3 enrollments, 3 SKCs, pages of one, 2 attempts, a deadline of 6, any number of pulls |
| `MarketingSync_loop` | With failures and restarts between any two steps, do memory and table agree when they should, and are recorded captures answered exactly and for good? | 2 activities, 1 SKC, 2 SKUs, 5 snapshots, 4 pulls |
| `SyncScheduler` | One run at a time, an honest last row, full syncs spaced; does the flag come down, does the scheduler go on, do full syncs recur? | scheduler and 2 manual syncs, 2 restarts |
| `OrderSync` | Is every update that is not stored yet found by the next sync, whatever was read in two statements, lost or failed before? | a SHEIN and a Temu shop with 2 orders, 3 writes, 1 change of a warehouse, 3 instants |
| `SKUMapping_temu` | Do rows claim only what xlwms accepted, does a steady listing heal, do lines count as the manual mapping says? | 1 SKU, 3 factors, 2 accounts, 2 PATCHes, failures and outside edits |
| `SKUMapping_overwritten` | Does a manual row agree with what the next sync applies? (no) | 1 account, 1 PATCH, no failures |
| `OrderPriceBackfill_audit` | Is a line's price always the one its estimate accounts for? (no) | 1 SKU, 1 line, 1 request, 4 instants |
| `ProfitImport` | One import at a time; do the tables hold what was committed last, are runs honest, are counts right, does a repeated upload change nothing, does every request return? | 2 requests, 5 uploads, 2 of them stored, 1 crash, statements that fail anywhere |
| `Reports` | Do rows, columns and totals of three pages agree with each other and with the tables, what bounds a forecast, and when are there days of cover? | 3 orders with 7 versions, 3 uploads, 2 days of reading, 2 transactions between any statements |
| `UnsettledSummary` | Is every pending fee in the summary? (no) | 3 shops, 2 amounts |

### Why the bounds are enough

- *Observer.* What a capture decides depends on the previous one only, through `states` and
  `previousRemaining`, and a state has few shapes (confirmed, conflict, other warning, none).
  Three captures reach each shape and leave it; the fourth carries it once more. Three
  activities are needed so that a conflict between two can meet a change of candidates. Snapshots
  name none, one or two currencies for an SKU of one SKC and of two.
- *Intervals.* A row of an SKU interacts with the row before and after it: five instants give
  more than three rows of one SKU, with or without gaps. The theorems hold for every bound.
- *Loop.* A lost capture shows when the one after it equals the one before it: three
  captures; the fourth closes the row. The snapshots hold every outcome of the observer.
- *Pull.* Pages of one enrollment and one record put a page boundary between any two of them; two
  goods batches need three SKCs. `PageOf`, `Batches` and the ends of both loops do not mention
  their sizes otherwise. One change of the listing per behaviour can hit each boundary, and two
  pulls in a row show that a failed one leaves the snapshot of the first. `MaxAttempts` 2 has a
  repeated attempt and a last one; a deadline of 6 expires in every phase of a pull.
- *Scheduler.* The code compares ages with two thresholds, so ages stop at the larger and
  time need not be bounded. `MaxBackoff` 3 is not a power of two of `Interval`, as the 30
  minutes are not of the configured one. Two manual syncs can both pass the check of the
  handler before either takes the flag. Two restarts let an abandoned row be followed by
  another. Counting failures up to `FailureCap` is harmless because the delay has stopped
  growing there, which is an `ASSUME` that TLC evaluates.
- *Orders.* `MaxTime` 2 with lateness and overlap of 1 lets a row become visible after a
  read that already saw a later stamp; the second order of a shop carries that stamp. Two orders
  also let a read break off between them, and three writes update one of them between the two
  statements of SHEIN. `Blank` makes the first place and the price of the second version ones that
  do not replace what is stored. `NothingIsForgotten` without the exemption of `owed` is violated
  in this instance, by a read that broke off.
- *Mappings.* One SKU is enough for TLC: each mapping is a row of its own, and that a line may
  move between SKUs is covered by the theorems, which are for any number of them and for the
  SHEIN shop as well. Factors are one, one and a half, two:
  a fraction is what the PATCH refuses for Temu shops and the sources never suggest.

- *Imports.* Two uploads that are stored can be any two of five, also the same one twice, which is
  what an upsert can tell apart: a key that is new, known, twice in a file, or in two files. The
  zip has an order that comes back with other SKUs after another order and a blank row. More
  requests than two would wait for the same flag.
- *Pages.* Sums are over rows, so each row matters by its date, shop and kind only: the instance has
  rows on both sides of each boundary (the first and last hour of a day in the zone, days at the
  ends of windows and months, a date to come, a missing date, a row older than 180 days) and of
  each column. Two transactions suffice for an order to lose a line, be cancelled or be dated anew
  before or between the statements.

`CHECK_DEADLOCK FALSE` stands only where a bounded history ends (captures, pulls, instants,
uploads) or a request is answered (`UnsettledSummary`).

### Where the code and its documents disagree

1. `SKUMapping_overwritten`. The comment at `store.go:357` expects a manual row to agree with
   the next sync. A PATCH between the listing and its application is overwritten by the
   older pairing, while the lines keep the new one.
2. `OrderPriceBackfill_audit`. README:59 says a backfill keeps, for audit, how a price was found.
   When a line is estimated again and the nearest row has no price by then, the estimate and the
   label say unmatched, and the earlier unit price stays and goes on being counted.
3. `UnsettledSummary`. A bug: `append` may move `result` while `byShop` points into the old
   array, so the fee of a shop with unsettled orders is lost when a shop without any comes
   before it in the random order of the map.

## 4. Fairness

`SyncScheduler` assumes weak fairness of `Tick` (time passes), `TimerFires` (a Go timer delivers)
and `RunStep` of every caller (Go schedules runnable goroutines, and each step of `Run` returns,
since a run is bounded by a context of ten minutes and finishing it by one of its own). Nothing
is assumed of the button, of restarts or of success: `FlagIsReleased` and `SchedulerNeverStops`
hold when every sync fails. `FullSyncsRecur` is conditional on runs that get as far as their row,
because a database that is away for ever lets nothing begin.

`MarketingPull` assumes weak fairness of `Tick` and of `Work`, the steps of the one goroutine that
pulls. An answer need never come: a request that is out ends with its timeout or the deadline.
`PullsEnd` holds whatever fails and however the listing changes.

`ProfitImport` assumes weak fairness of each request's `Handle`: its handler goes on. A body that
does not arrive, a statement that fails and a context that ended all let it return, and nothing is
assumed of success or of the client: a body that does not arrive is ended by the `ReadTimeout` of three
minutes, an answer that is not taken by the `WriteTimeout` (`main.go:74-75`). `UploadsEnd` says that the flag is released on each of these paths.

The other specifications have no fairness and no liveness properties.

## 5. Theorems

What is proved holds for every value of the constants that satisfies the named assumptions.

*`PriceIntervals_proofs`*, from `IntervalsAssumption`. `Disjoint` is not inductive by itself:
that an inserted row starts after every row of its SKU needs `RowBounds` (an open row was
updated by the last transaction), and `RowsThatMeetDiffer` needs to know that a row closed now
meets only the one inserted now. The invariant is their conjunction with `TypeOK`. From it
follow `HistoryIsFinal` (an unchanged row is still there, an open one is extended or closed)
and the refinement: `PastIsKept`, `StateIsHeld` and `CaptureIsRecorded` say what the new rows
answer before, between and at captures, and together that a transaction is a `Record` of
`PriceCurve`.

*`MarketingSync_proofs`*, the observer by itself, from `ObserverAssumption`, that is for any
snapshots of the right shape. `ResolvedHolds` goes through the seven outcomes of
`ResolveSKCActivityState`: what a state says is true of the new points if the old state was true of
the old ones, and for that a state must also be dated no later than its capture. `PointsAreCurrent`
says that the points of an SKC are of the enrollments whose stock the capture remembers.
`ConfirmedStaysCurrent` and `ConfirmedKeepsEvidence` follow for any number of captures and restarts.
`LostIsDropped` compares what the listings of one capture lost with what the observation shows of
it; it holds when no pull lists an enrollment again with stock that was filled up in between
(`NoRestockInPull`), and under that hypothesis, which the snapshots TLC is given satisfy,
`SwitchNeedsEvidence` and `ConflictLastsUntilDecided` say what may end a confirmed state and a
conflict. `OrderOfPullDecidesNoPrice` needs no invariant: a snapshot and a rearrangement of it have
the same points of each SKC and of each SKU (`ReorderedLists`), and of these `ResolveSKUPriceState`
takes only the SKC and the currency from the first (`ResolvedInOtherOrder`).

*`MarketingSync_proofs`*, the loop, from `SyncAssumption`. `InStep` says what is behind what at each
step of `run()`: the observer behind the snapshot after a pull, the table behind the observer until
the transaction commits. The table is what `PriceIntervals_proofs` says it is: after a
transaction the rows answer its instant with the prices it was given, whatever rows it found
(`CaptureIsRecorded`). `ObserverKeepsUp` and `TableCatchesUp` follow. That
every price is of the type the table stores (`PricesAreTyped`) goes through the branches of
`ResolveSKUPriceState` and makes a commit a transaction of `PriceIntervals` (`LoopDrivesTheTable`),
so that the theorems about the table hold of the table the loop writes. `HistoricalAnswer` says what
the query with its three `ORDER BY` keys returns from disjoint rows, and `SeenIsRecorded` that the
rows say of each recorded capture what was seen: together they are `RecordedCapturesStayExact`, and
with `HistoryIsFinal` `ConfirmedAnswersStayFinal`.

*`SyncScheduler_proofs`*, from `SchedulerAssumption`. Mutual exclusion, honesty of the last
row and `PlanIsValid` are proved together: a row is honest because only one caller can have
written it, and a full sync is spaced because the plan it was made from still holds when it
begins, orders never being deleted and ages only growing while nobody else is inside.

*`OrderSync_proofs`*, from `OrderSyncAssumption`, that is `Lateness <= Overlap`, and
`NoBatchAssumption`. `NothingIsForgotten` says that an update which is not stored yet is due under the
watermark the next sync will use, and the watermark is the latest stamp that is stored, less `Overlap`.
So it needs `News`: when an order has changed since it was stored, no order of its shop is stored
with a stamp more than `Lateness` later than the one it has now. To carry that through a run it is
also said of what has been read (`News` for `image`), with `Writers` (a writer that has not committed
was stamped at most `Lateness` ago), `Stamps` and `Reading` (stored, read and source lie in this order,
by version and by stamp, and orders are never newer than their lines), `Watermarks` (the run uses the
watermark of what is stored now) and `Unread` (what a query left out is stored as it is in the
source, unless a broken read owes it). `OrdersMoveForward` follows from the order in `Reading`.

*`SKUMapping_proofs`*, from `SKUMappingAssumption`. Four invariants: `TypeInv` (types, and that a
PATCH under way in a Temu shop has a whole factor, so truncation changes nothing); `LinesInv`
(demand, manual reach and snapshots, line by line); `ClaimsInv` (what is listed, and what a PATCH
is about to store, was accepted); `ListInv` (while nothing changes at xlwms, the list is what the
accounts read so far hold, the last one winning). `SteadySyncHeals` follows from the last.

*`MarketingPull_proofs`*, from `PullAssumption`. `SlotsAreSpaced` compares requests sent with the age
of the context. It is inductive with `Timers` (what is left of a wait is a number) and `SlotsGiven`:
the slot that is given next lies at least `sent` intervals after the beginning of the pull, and so
does the one that a waiting request holds, with the next an interval after it. What a former pull
left reserved only adds to the distance. `CompletenessStays` is an action property, with one case
for each action that writes `published`.
`PullsAreWhole` is the theorem of `PullMissesNothing`. Its invariant `PullInv` says where everything is
that a pull still owes: an enrollment that was listed all the time is in the draft or on a page not
asked for (`EnrollmentsKept`); once goods are asked for all of them are in it, and the goods of each SKC
are in it, in a batch not begun, or on a page of the batch not asked for (`GoodsKept`). `PageIs` says that a
page holds what lies between two multiples of its size and that a short page, or one that reaches
the total, is the last; `BatchesAre` that the batches reach the end of the sorted SKCs; `InsertAtIs` that
an enrollment that comes moves no other forward. What is sorted is `InOrder` of a finite set, whose
properties (`InOrderIs`) follow by induction on ranks, so that page sizes, batch sizes and tables are arbitrary.
`PagesShowTheSame` is the theorem of `PagesAgree`: what a pull keeps of an enrollment has current
sessions only and a session for the site of each price (`CurrentIsWhole`), so each offer has a row and
each row on sale an offer of the same price (`OffersHaveRows`, `RowsHaveOffers`), and a filter that names an
SKU and a site selects its offers and rows and no others (`OffersOfOne`, `RowsOfOne`). It has the
hypothesis `NothingLeftOut`, see *Missing identifiers* below.

*`ProfitImport_proofs`*, from `ImportAssumption` and `ContentAssumption` (files have sheets and sheets
have rows, in an order, and a workbook is one file). `Honest` relates a request to its row: a
request that works holds the flag, its row is the one it began and still says running, no commit
is of a row that does not exist, a request that is about to finish as succeeded has one commit,
and one that failed has none unless its answer was lost. `ImportsAreExclusive` and
`RunsTellTheTruth` follow for any number of requests, uploads and crashes.
`TablesAreWhole`, the theorem of `TablesHoldWhatWasCommitted`, has three parts.
- The parsers. `ParsedWell`: an upload that can be read is read into batches of records, and the orders
  of a sheet are the blocks of its rows (`NestedAreBlocks`). The parser keeps an order open while it
  goes down the rows, `Blocks` cuts the sheet at the rows with a number; that both give the same is an
  induction over the rows, in which the open order is the last block of those read so far.
- The records. `StoreStages`: if the tables that a transaction sees hold what was committed followed by
  the first records of the upload, then after `Store` they hold that and one record more; the upsert
  changes the row of one key, the deletion and insertion of lines those of one order. The counts grow
  with it: rows inserted are rows added.
- The transactions. `StoringInv`: the committed tables hold what the commits say, and each transaction
  these and its records so far. That no commit comes in between is `OneImportAtATime`, and so the proof
  stands on the invariant before (`StoringStays`).

`RepeatedUploadsAreHarmless` follows since what a table holds determines it (`TablesAreDetermined`) and
a thing said twice in a row is said as once (`AgainIsTheSame`); `InsertedRowsAreCounted` from the counts
of a transaction with no record left (`CommitCounts`). The operators on sequences that the model takes
from the community modules are recursive functions; that these exist, and what they compute, is
proved by well-founded induction on sets of numbers.

*`Reports_proofs`*, from `CalendarAssumption`, `ReportsAssumption` (rows are what the columns of
`schema.sql` can hold, tables are finite) and `MonthsReachBack` (the calendar has the months of two
windows). The first part is about sums. The library sums with a recursive function, so what a sum is
must be derived once from the definition of recursion on finite sets, by well-founded induction on
the size of the set (`IterExists`, `SumUnfolds`); then sums can be split (`SumUnion`), grouped
(`SumPartition`), counted by other names (`SumReindex`) and confined to what is not zero
(`SumSupport`). The invariant is `TablesHold` (the rows are rows), `SaidHolds` (the lines that are
stored are what the source said last, and for a Temu order no more than that) and `PageHolds`: a page
that was read without a commit in between holds, statement by statement, what the tables hold.
- `DatedRowsAreShown`: the columns take each row once, and the range of the page begins early enough.
- `BalanceIsExplained`: no two fee columns take the same kind of row (`FeesHaveOneColumn`), so the
  balance is the sum of its columns.
- `PagesSellWhatIsSaid`: the daily page counts orders by day, the SKU page lines by SKU and the
  dashboard lines by platform and group, and each is a sum over the lines the source said last.
- `DashboardsAddUp`: curve, SKUs, platforms and growth are groupings of the lines of the same window;
  that the buckets tile the window, and that both windows have their 14 days, 12 weeks or 6 months,
  is proved from the ranks of months (`WindowsAre`), for every calendar.
- `ForecastsAreBounded` bounds `forecastDemand` by its cap and, when the slope is not positive, by the run
  rate, as they are rounded for the page (`TenthsAre`), and says which sales are enough for days of
  cover after the rate has been rounded.

`PagesSellWhatIsSaid` and `DashboardsAddUp` assume `ZoneOffset >= 0`. The hypothesis is needed, see
*Zones* below, and true of the default zone.

### What is only model-checked

Liveness (`FlagIsReleased`, `SchedulerNeverStops`, `FullSyncsRecur`, `PullsEnd`, `UploadsEnd`), which
the prover cannot do, and what the recursive `RetryDelay` of `SyncScheduler` computes. The theorems
on `OrderSync`, `SKUMapping` and `ProfitImport` assume that a committed transaction is atomic, as the
models do.

## 6. What is abstracted, and what was noticed

- Time is counted in captures or units; the clock is assumed not to go back. One process
  writes: `-sync-once` in a second process shares neither flag nor counter and is not modelled.
- The branch of `activity_state.go:41-44`, an SKC without candidates whose previous state had none
  either, cannot be reached through `Observe`, which stops tracking an SKC after one such state.
- A conflict (`interval_multiple_consumption`) leaves `LastEvidenceAt` nil; the state's evidence
  is of its own capture.
- *The order of a pull.* An SKU that two SKCs list takes its `SKCID`, and a price whose points name several
  currencies its currency, from what was pulled first (`activity_observer.go:125`,
  `sku_price_state.go:44,138-145`). The table compares both (`activity_store.go:91-93`), so pages in
  another order may close a row and open one at the same price. `PullOrderDecidesNoPrice` says that
  the order can do nothing else to the prices and states of a capture.
- An enrollment that two pages list is counted with both listings for the state and with the last
  one only in `latest.Enrollments`. If it is restocked in between, a state can be confirmed by
  consumption the observation no longer shows; `SwitchHasEvidence` and `ConflictIsSticky` are checked and
  proved without that case (`NoRestockInPull`).
- `EffectivePrices` leaves out SKUs that are off shelf and `Observe` does not, so the pages and the
  table differ in which SKUs they list.
- The activity page reads the snapshot and then the observer (`server.go:91,102`): while a capture
  is under way they are of different pulls. `ObserverMatchesSnapshot` says exactly when.
- `errSyncRunning` resets the scheduler's counter of failures; a POST answered 202 may still be
  turned away by the flag.
- When the inventory cannot be read, sources suggest SKUs that are not normalised, and these
  overwrite mappings that were inferred: `OrderBatch` lets a batch suggest any warehouse SKU.
- A PATCH and a batch may lock two rows in opposite orders. PostgreSQL aborts one, which the model
  has as a batch that did not happen or a PATCH that was cut short.
- `backfillOrderPriceEstimates` looks at the error of `rows.Close` and not at `rows.Err`, so a
  reading of targets that breaks off is taken for a complete one (`ReadTargets` with a shorter
  interval).
- Identity and inferred mappings are one status. A bundle at xlwms counts as no pairing. Pages of
  one account are read in one step. The rounding of factors to four decimals is left out.
- Pairings that are removed at xlwms stay mapped here, and `Apply` leaves lines as they are; only
  a PATCH or a later batch rewrites them. No document promises otherwise.
- `ImplementsIntervals` is stated as an action property, step by step, since the type of a stored
  price state is infinite and TLC could not enumerate the next-state relation of `PriceIntervals`.

- *Read as documents.* README:33 says that an SKC without a fall in stock keeps its state; when the
  candidates of an SKC in warning change, it is resolved anew from cumulative consumption and may
  be confirmed (`activity_state.go:103-114`). README:35 says that the price curve can be recovered; a
  capture whose transaction fails is lost, and the next equal price extends the old row over it.
  README:59 says that inference outside an interval carries a warning; an open row is read as
  reaching to infinity, so a time after the last capture counts as inside. `RecordedCapturesAreExact`
  and `ConfirmedAnswersAreFinal` say what does hold: for captures that were recorded, and up to them.
- *Pull.* An enrollment that leaves the listing between two pages moves the others up, and one of
  them may be missing in a snapshot that reports no error. Nothing in the answers tells, and the
  next pull a minute later has it again. `PullMissesNothing` says that this is the only way.
- *Missing identifiers.* Temu's answers are decoded with 0 for what is not there, and the two pages treat 0
  differently: `rowsForSessions` shows a price without a site at the site of every session, while
  `EffectivePrices` offers it to sessions without a site alone. `PagesAgree` is checked and proved for answers
  that name the SKC, the SKU, the site and the activity price (`NothingLeftOut`, an `ASSUME` of the instance
  that TLC evaluates); sessions without a site are among them.
- *Orders.* `readShein` closes the rows of its orders without asking `rows.Err()` (`syncer.go:248`). A read
  that breaks off commits the orders before it, by id; the watermark may then pass the others, which
  wait until they are stamped again or for the daily full sync (README:27). A warehouse that is
  chosen later, in a joined table, does not stamp the order (`syncer.go:220-227`,
  `temu_sales_source.go:26-29`) and stays as it was for as long; when both come, `Kept` keeps the
  stored one if the new one is empty (`store.go:178`). Updates of an order itself are not affected:
  that is `NothingIsForgotten`.
- *Forecasts.* The run rate is rounded to a tenth before days of cover are computed (`analytics.go:382,584`): a
  few units sold more than a week ago are forecast, with a rate of 0.0 and no cover. `Rounded` works
  on exact fractions, and the code on binary ones: at a tie they may differ by a tenth (four units in
  weeks two to four give 0.05, which the code rounds to 0.0), on which no property depends. Units
  are whole numbers here.
- *Imports.* A failed run reports the files and rows that were rolled back. A run whose client is gone
  when it finishes says running for ever, since `finishProfitImport` uses the context of the request.
  An order that comes twice in a file keeps the SKUs of its last block only. A hint is applied to
  every file of a zip. A cell that reads `NaN` is accepted as a number, and the sums that have it
  cannot be written as JSON. The summary page reads its counts, the latest run and the flag one
  after the other.
- *Pages.* Statements are read without a transaction, so that a page may have columns from before and
  after an import; only rows and totals agree then, and the other properties of `Reports` are
  stated for pages during which nothing was committed. The daily page counts refunded orders, the
  SKU page refunded lines. An order with lines of one SKU in two warehouses counts twice in that
  SKU's orders. Lines of a SHEIN order that vanish are never zeroed, and zeroed lines of a Temu order
  still count in the total of estimated sales. Settled flows without an SKU, and all fees, are in no
  row of the SKU page.
- *Zones.* `analytics.go` compares a date, which the driver returns as a midnight in UTC, with a
  midnight of the configured zone. West of UTC the first day of each window falls out of it: with
  `ZoneOffset = -5` the run `Reports` fails, and the two theorems about sales assume a zone that is not
  west of UTC. The default, Asia/Shanghai, lies east.

### Not modelled

The web interface, configuration and wiring, request validation and formatting; the signing of
Temu requests; the text of spreadsheets and JSON; the export of restock lists, which is layout; the
status page of `profit_report.go` and the quality of mappings, which select and count; `readXLWMS`
and the matching of warehouse names and status codes in the readers of `syncer.go` and
`temu_sales_source.go`, whose outcome `OrderSync`, `SKUMapping` and `Reports` choose freely. In the
activity page the counters of the summary and the sort order are left out; in the dashboard
the percentage of the trend, names and labels.

## 7. Plan

Everything up to here is written. What is left, in order:

1. `OrderPriceBackfill`: a run of what does hold: an estimate that is confirmed for time that was
   recorded when it was resolved stays what the table answers, also with two requests under way.
2. `SourceOrders` (`syncer.go`, `temu_sales_source.go`): the matching of warehouses and status codes as
   operators, feeding the batches of `SKUMapping`.
3. The remaining statements of `profit_report.go` and `analytics.go` in `ProfitPages` and
   `Dashboard`, and what can still be said of a page that is torn by a commit.
