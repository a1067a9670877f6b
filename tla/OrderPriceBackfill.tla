------------------------- MODULE OrderPriceBackfill -------------------------
(***************************************************************************)
(* order_price_backfill.go: POST order-price-estimates/backfill gives the  *)
(* lines of Temu orders a price from the interval table.  It reads the     *)
(* lines and the times of their orders, asks the table what their SKUs     *)
(* cost then, and writes, in a transaction of its own, an estimate and the *)
(* unit price of every line.  Between the three the minute loop records    *)
(* captures, the order sync moves orders in time, and other requests do    *)
(* the same.                                                               *)
(*                                                                         *)
(* The table is PriceIntervals' and the answer PriceQuery's.  A request    *)
(* has fewer lines than one batch of queries takes.  Currency passes       *)
(* through unread.                                                         *)
(***************************************************************************)
EXTENDS Integers, FiniteSets

CONSTANTS
  SKU,
  Line,      \* lines of Temu orders
  SKUOf,     \* SKUOf[line]: its product SKU, or NULL when the order has none
  Price,     \* the price states: [status, price], price 0 when unresolved
  Request,   \* requests that may be under way at once
  NULL,
  MaxTime    \* bound: the clock

VARIABLES
  now,
  rows, persistedAt,  \* PriceIntervals
  occurredAt,         \* occurred_at of the line's order, NULL before its sync
  unitPrice,          \* unit_price, NULL or a number
  label,              \* unit_price_source and unit_price_status
  estimate,           \* temu_order_line_price_estimates, by line
  request             \* the requests under way: [targets, answers]

vars == <<now, rows, persistedAt, occurredAt, unitPrice, label, estimate, request>>

tableVars == <<rows, persistedAt>>
lineVars  == <<unitPrice, label, estimate>>

Intervals == INSTANCE PriceIntervals WITH Key <- Price

Query == INSTANCE PriceQuery

Init ==
  /\ now = 0
  /\ Intervals!Init
  /\ occurredAt = [l \in Line |-> NULL]
  /\ unitPrice = [l \in Line |-> NULL]
  /\ label = [l \in Line |-> NULL]
  /\ estimate = [l \in Line |-> NULL]
  /\ request = [q \in Request |-> NULL]

Tick ==
  /\ now < MaxTime
  /\ now' = now + 1
  /\ UNCHANGED <<tableVars, occurredAt, lineVars, request>>

\* The minute loop records a capture.
Capture ==
  /\ now > persistedAt
  /\ \E S \in SUBSET SKU : \E prices \in [S -> Price] :
       Intervals!Persist(now, prices)
  /\ UNCHANGED <<now, occurredAt, lineVars, request>>

\* upsertSourceBatch inserts the order of a line, or finds another time for
\* it; a Temu source has no unit price.
SyncOrder(l, at) ==
  /\ at <= now
  /\ occurredAt' = [occurredAt EXCEPT ![l] = at]
  /\ UNCHANGED <<now, tableVars, lineVars, request>>

\* The lines whose orders occurred between the two times asked for.
ReadTargets(q, from, to) ==
  /\ request[q] = NULL
  /\ from < to
  /\ LET found == {l \in Line : occurredAt[l] # NULL
                                /\ from <= occurredAt[l] /\ occurredAt[l] < to}
     IN  request' = [request EXCEPT ![q] =
           [targets |-> [l \in found |-> occurredAt[l]], answers |-> NULL]]
  /\ UNCHANGED <<now, tableVars, occurredAt, lineVars>>

Answer(l, at) ==
  IF SKUOf[l] = NULL THEN Query!Unmatched("unmatched")
                     ELSE Query!HistoricalPrice(rows, SKUOf[l], at)

\* resolveSKUPriceQueries, one query for all targets.
Resolve(q) ==
  /\ request[q] # NULL /\ request[q].answers = NULL
  /\ LET targets == request[q].targets
     IN  request' = [request EXCEPT ![q].answers =
           [l \in DOMAIN targets |-> Answer(l, targets[l])]]
  /\ UNCHANGED <<now, tableVars, occurredAt, lineVars>>

\* result.Price
Amount(answer) ==
  IF answer.price = {} THEN 0 ELSE (CHOOSE p \in answer.price : TRUE).price

Matched(answer) == answer.match # "unmatched" /\ Amount(answer) > 0

LabelOf(answer) ==
  IF Matched(answer)
  THEN [match |-> answer.match,
        status |-> IF answer.match = "exact_interval" THEN answer.status ELSE "warning"]
  ELSE [match |-> "unmatched", status |-> "unmatched"]

\* The transaction: an estimate replaces the one before it, a price replaces
\* the one before it only when there is one.
Write(q) ==
  /\ request[q] # NULL /\ request[q].answers # NULL
  /\ LET targets == request[q].targets
         answers == request[q].answers
         written == DOMAIN targets
     IN  /\ estimate' = [l \in Line |-> IF l \notin written THEN estimate[l] ELSE
                [at |-> targets[l], price |-> Amount(answers[l]), label |-> LabelOf(answers[l])]]
         /\ unitPrice' = [l \in Line |->
              IF l \in written /\ Amount(answers[l]) > 0 THEN Amount(answers[l])
                                                         ELSE unitPrice[l]]
         /\ label' = [l \in Line |->
              IF l \in written THEN LabelOf(answers[l]) ELSE label[l]]
  /\ request' = [request EXCEPT ![q] = NULL]
  /\ UNCHANGED <<now, tableVars, occurredAt>>

\* A dry run has been answered, the client is gone, a statement or the
\* process failed.
EndsWithoutWriting(q) ==
  /\ request[q] # NULL
  /\ request' = [request EXCEPT ![q] = NULL]
  /\ UNCHANGED <<now, tableVars, occurredAt, lineVars>>

Next ==
  \/ Tick
  \/ Capture
  \/ \E l \in Line, at \in 0..MaxTime : SyncOrder(l, at)
  \/ \E q \in Request, from, to \in 0..(MaxTime + 1) : ReadTargets(q, from, to)
  \/ \E q \in Request : Resolve(q) \/ Write(q) \/ EndsWithoutWriting(q)

Spec == Init /\ [][Next]_vars

----------------------------------------------------------------------------
\* Properties.

\* README.md:59 says the backfill keeps where a price came from, how it was
\* matched and to which interval, for audit: a line that has a unit price has
\* an estimate of just that price, which says how it was matched.
PricesAreAudited ==
  \A l \in Line : unitPrice[l] # NULL =>
    /\ estimate[l] # NULL
    /\ estimate[l].price = unitPrice[l]
    /\ estimate[l].label.match # "unmatched"

=============================================================================
