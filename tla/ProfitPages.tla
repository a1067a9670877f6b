---------------------------- MODULE ProfitPages ----------------------------
(***************************************************************************)
(* The profit pages: the statements of profitDailySummary                  *)
(* (profit_daily_summary.go, profit_report.go) and of profitSKUSummary     *)
(* (profit_sku_summary.go), and what is made of their answers.             *)
(*                                                                         *)
(* A statement sums columns of rows.  Rows of all tables have a source, a  *)
(* pair of table and kind, and a column says what it takes of the rows of  *)
(* each source it is made of.                                              *)
(***************************************************************************)
EXTENDS Calendar, Functions, Sequences, TLC

CONSTANT OrderKey \* platform and shop of each order: Order -> [platform, shop]

Everywhere == "" \* no filter

----------------------------------------------------------------------------
(* Rows *)

Sale   == {<<"line", "sale">>}
Refund == {<<"order", "refund">>}
Flows  == {"flow"} \X {"sale", "freight", "sale back", "freight back", "other"}
Posted == {<<"shipping", "posted">>}
Pending == {<<"shipping", "pending">>}
Merchant == {<<"return", "merchant">>}
ThirdParty == {<<"return", "third">>}
Delay == {<<"violation", "delay">>}
FalseShip == {<<"violation", "false_ship">>}
Chargebacks == {<<"chargeback", "">>}
PlatformFees == {<<"platform", "">>}
Disposals == {<<"disposal", "">>}

\* What the pages read of normalized_orders and their lines: one row for each
\* Temu order and one for each of its lines.
OrderKind(order) == IF order.eligible THEN "sale" ELSE "refund"

OrderRow(o, order) ==
  [ source |-> <<"order", OrderKind(order)>>, id |-> <<o, "">>, shop |-> OrderKey[o].shop,
    at |-> order.at, amount |-> 0, price |-> 0, sku |-> "" ]

LineRow(o, order, k) ==
  [ source |-> <<"line", OrderKind(order)>>, id |-> <<o, k>>, shop |-> OrderKey[o].shop,
    at |-> order.at, amount |-> order.lines[k].units, price |-> order.lines[k].price,
    sku |-> order.lines[k].sku ]

TemuRows(orders) ==
  LET temu == {o \in DOMAIN orders : OrderKey[o].platform = "temu"}
  IN  {OrderRow(o, orders[o]) : o \in temu}
        \cup UNION {{LineRow(o, orders[o], k) : k \in DOMAIN orders[o].lines} : o \in temu}

\* The rows of the profit tables, by business key.
MoneyRow(k, row) ==
  [ source |-> row.source, id |-> k, shop |-> row.shop, at |-> row.at,
    amount |-> row.amount, price |-> 0, sku |-> row.sku ]

MoneyRows(money) == {MoneyRow(k, money[k]) : k \in DOMAIN money}

Rows(orders, money) == TemuRows(orders) \cup MoneyRows(money)

----------------------------------------------------------------------------
(* Columns *)

\* Of a row: whether it is there, its amount, or its amount as an expense; of
\* a line, what it costs, when it has a price.
Value(take, row) ==
  CASE take = "one"     -> 1
    [] take = "amount"  -> row.amount
    [] take = "expense" -> IF row.amount > 0 THEN -row.amount ELSE row.amount
    [] take = "priced"  -> IF row.price > 0 THEN 1 ELSE 0
    [] take = "revenue" -> row.amount * row.price

Taking(sources, take) == [s \in sources |-> take]

FeesAsTheyAre == Posted \cup Merchant \cup ThirdParty \cup PlatformFees
Expenses == Delay \cup FalseShip \cup Chargebacks \cup Disposals
Fees == FeesAsTheyAre \cup Expenses

\* Seeded bug: labels that are not posted count.
BalanceOfPending ==
  [s \in Fees \cup Pending |-> IF s \in Expenses THEN "expense" ELSE "amount"]

\* amount of the ledger in queryProfitDailyLedgerCoverage
Balance == [s \in Fees |-> IF s \in Expenses THEN "expense" ELSE "amount"]

Flow(kinds) == {"flow"} \X kinds

Column ==
  [ units               |-> Taking(Sale, "amount"),
    refundOrders        |-> Taking(Refund, "one"),
    salesBacks          |-> Taking(Flow({"sale back"}), "one"),
    freightBacks        |-> Taking(Flow({"freight back"}), "one"),
    payback             |-> Taking(Flows, "amount"),
    salesReceipts       |-> Taking(Flow({"sale"}), "amount"),
    freightReceipts     |-> Taking(Flow({"freight"}), "amount"),
    salesBackAmounts    |-> Taking(Flow({"sale back"}), "amount"),
    freightBackAmounts  |-> Taking(Flow({"freight back"}), "amount"),
    buyerBacks          |-> Taking(Chargebacks, "one"),
    buyerBackAmounts    |-> Taking(Chargebacks, "expense"),
    delays              |-> Taking(Delay, "expense"),
    falseShips          |-> Taking(FalseShip, "expense"),
    shipping            |-> Taking(Posted, "amount"),
    merchantReturns     |-> Taking(Merchant, "amount"),
    thirdPartyReturns   |-> Taking(ThirdParty, "amount"),
    platformFees        |-> Taking(PlatformFees, "amount"),
    estimate            |-> Taking(Sale, "revenue"),
    priced              |-> Taking(Sale, "priced"),
    lines               |-> Taking(Sale, "one"),
    settledRows         |-> Taking(Flows, "one"),
    feeRows             |-> Taking(Fees, "one"),
    feeBalance          |-> Balance,
    disposals           |-> Taking(Disposals, "expense"),
    refundLines         |-> Taking({<<"line", "refund">>}, "one") ]

\* The columns of each statement of profitDailySummary and profitSKUSummary.
FlowColumns ==
  {"salesBacks", "freightBacks", "payback", "salesReceipts", "freightReceipts",
   "salesBackAmounts", "freightBackAmounts"}

DailyStatements ==
  << {"units"}, {"refundOrders"}, FlowColumns, {"buyerBacks", "buyerBackAmounts"},
     {"delays", "falseShips"}, {"shipping"}, {"merchantReturns", "thirdPartyReturns"},
     {"platformFees"}, {"estimate", "priced", "lines"},
     {"settledRows", "feeRows", "feeBalance", "disposals"} >>

SKUStatements ==
  << {"units", "estimate", "priced", "lines"}, {"refundLines"},
     FlowColumns \cup {"settledRows"} >>

SumOf(c, rows) == SumFunction([r \in rows |-> Value(Column[c][r.source], r)])

\* The rows of a column in a shop, dated from a midnight to another.
Hits(c, rows, from, to, shop) ==
  {r \in rows : /\ r.source \in DOMAIN Column[c]
                /\ r.at # NoTime
                /\ r.at >= Midnight(from) /\ r.at < Midnight(to)
                /\ shop \in {Everywhere, r.shop}}

\* GROUP BY date, and by SKU; a settled flow without an SKU belongs to none.
Daily(c, rows, from, to, shop) ==
  LET hits == Hits(c, rows, from, to, shop)
  IN  [d \in {DateOf(r.at) : r \in hits} |-> SumOf(c, {r \in hits : DateOf(r.at) = d})]

BySKU(c, rows, from, to, shop) ==
  LET hits == {r \in Hits(c, rows, from, to, shop) : r.source \in Flows => r.sku # ""}
  IN  [k \in {r.sku : r \in hits} |-> SumOf(c, {r \in hits : r.sku = k})]

\* Seeded bug: a table that was added later is not looked at.
RangeSourcesButDisposals ==
  {<<"order", "sale">>} \cup Refund \cup Flows \cup (Fees \ Disposals)

\* queryProfitDataRangeStart: the day of the earliest row, or today.
RangeSources == {<<"order", "sale">>} \cup Refund \cup Flows \cup Fees

RangeStart(rows, shop, today) ==
  LET dated == {r.at : r \in {q \in rows : /\ q.source \in RangeSources
                                           /\ q.at # NoTime
                                           /\ shop \in {Everywhere, q.shop}}}
  IN  IF dated = {} THEN today ELSE DateOf(Min(dated))

----------------------------------------------------------------------------
(* Pages *)

PlatformBalance(row) == row.payback + row.feeBalance

DailyColumns == UNION Range(DailyStatements)

\* The loop begins with the bucket of the first day, also when that day is after
\* the last.
PageBuckets(period, from, to) ==
  Buckets(period, from, to) \cup {b \in {BucketStart(period, from)} : b < to}

\* The rows and totals of profitDailySummary: an answer is added to the row of
\* its bucket and to the totals, or to neither when there is no such row.
DailyPage(period, from, to, read) ==
  LET buckets == PageBuckets(period, from, to)
      In(c, b) == {d \in DOMAIN read[c] : BucketStart(period, d) = b}
      Shown(c) == {d \in DOMAIN read[c] : BucketStart(period, d) \in buckets}
  IN  [ rows   |-> [b \in buckets |-> [c \in DailyColumns |-> SumFunctionOnSet(read[c], In(c, b))]],
        totals |-> [c \in DailyColumns |-> SumFunctionOnSet(read[c], Shown(c))] ]

\* The rows of profitSKUSummary.
SKUColumns == UNION Range(SKUStatements)

SKUPage(read) ==
  [k \in UNION {DOMAIN read[c] : c \in SKUColumns} |->
    [c \in SKUColumns |-> IF k \in DOMAIN read[c] THEN read[c][k] ELSE 0]]

=============================================================================
