------------------------------ MODULE Reports ------------------------------
(***************************************************************************)
(* The pages that sum orders, profit tables and stock, and the             *)
(* transactions that write these: upsertSourceBatch and replaceInventory   *)
(* (store.go) and the imports, each of which commits at once.  A page is   *)
(* read statement by statement, outside of any transaction, while others   *)
(* commit; then it is built from the answers.                              *)
(*                                                                         *)
(* A batch has one order.  No day passes while a page is read: its         *)
(* statements use the time it began with.                                  *)
(***************************************************************************)
EXTENDS Dashboard

CONSTANTS
  Says,       \* what the source can say of each order: Order -> set of versions
  Uploads,    \* what an import can store: business key -> row
  Stocks,     \* what the warehouses can report: <<warehouse, SKU>> -> quantity
  Todays,     \* the days on which pages may be read
  Shops,      \* the shops a profit page may be asked for, or Everywhere
  Filters,    \* the filters of dashboards
  SKUDays,    \* the days an SKU summary may be asked for, counted back
  MaxWrites   \* bound: transactions in one behaviour

\* Of the schema: an order has a time; a quantity is not negative, and a
\* conversion factor is positive.
IsLine(line) ==
  /\ DOMAIN line = {"sku", "item", "units", "factor", "price", "place"}
  /\ line.units \in Nat /\ line.factor \in Nat \ {0} /\ line.price \in Int

IsOrder(order) ==
  /\ order.at \in Int /\ order.eligible \in BOOLEAN
  /\ IsFiniteSet(DOMAIN order.lines)
  /\ \A k \in DOMAIN order.lines : IsLine(order.lines[k])

IsMoney(row) ==
  /\ row.source \in Flows \cup Fees \cup Pending
  /\ row.at \in Int \cup {NoTime} /\ row.amount \in Int

ASSUME ReportsAssumption ==
  /\ \A o \in DOMAIN Says : \A version \in Says[o] : IsOrder(version)
  /\ \A upload \in Uploads :
       IsFiniteSet(DOMAIN upload) /\ \A k \in DOMAIN upload : IsMoney(upload[k])
  /\ Todays \subseteq Int /\ SKUDays \subseteq Int
  /\ MaxWrites \in Nat

\* The calendar has the months of the two windows of a dashboard.
ASSUME MonthsReachBack ==
  /\ IsFiniteSet(MonthStarts)
  /\ \A day \in Todays : Cardinality({m \in MonthStarts : m <= day}) >= 12

VARIABLES
  today,
  orders,  \* normalized_orders with their lines: order -> [at, eligible, lines]
  money,   \* the rows of the profit tables, by business key
  stock,   \* warehouse_inventory
  page,    \* the page that is read: its parameters, what it has read, and the
           \* next statement
  writes,  \* transactions so far
  \* history
  said,    \* what the source said last of each order
  quiet    \* no transaction was committed since the page began

vars == <<today, orders, money, stock, page, writes, said, quiet>>
tableVars == <<orders, money, stock, writes, said>>

NoPage == [kind |-> "none", next |-> 1]

Statements(kind) ==
  CASE kind = "none"      -> 0
    [] kind = "profit"    -> Len(DailyStatements)
    [] kind = "sku"       -> Len(SKUStatements)
    [] kind = "dashboard" -> 3

Built(kind) == page.kind = kind /\ page.next > Statements(kind)

Init ==
  /\ today \in Todays
  /\ orders = << >> /\ money = << >> /\ stock = << >> /\ said = << >>
  /\ page = NoPage
  /\ writes = 0
  /\ quiet = TRUE

----------------------------------------------------------------------------
(* Transactions *)

Commits ==
  /\ writes < MaxWrites
  /\ writes' = writes + 1
  /\ quiet' = FALSE
  /\ UNCHANGED <<today, page>>

\* INSERT ... ON CONFLICT: what is there and what is new, which replaces it.
Upsert(old, new) ==
  [k \in DOMAIN old \cup DOMAIN new |-> IF k \in DOMAIN new THEN new[k] ELSE old[k]]

LinesOf(o) == IF o \in DOMAIN orders THEN orders[o].lines ELSE << >>

\* Seeded bug: lines that are gone stay what they were.
StoredLinesKept(o, lines) == Upsert(LinesOf(o), lines)

\* The lines of an order after a batch: a price or a warehouse that is not
\* said is kept, and a line that a Temu order no longer has is zeroed.
StoredLines(o, lines) ==
  LET old == LinesOf(o)
      Upserted(k) ==
        IF k \notin DOMAIN old THEN lines[k]
        ELSE [lines[k] EXCEPT !.price = IF @ = 0 THEN old[k].price ELSE @,
                              !.place = IF @ = "" THEN old[k].place ELSE @]
      Gone(k) ==
        IF OrderKey[o].platform = "temu" THEN [old[k] EXCEPT !.units = 0] ELSE old[k]
  IN  [k \in DOMAIN old \cup DOMAIN lines |->
        IF k \in DOMAIN lines THEN Upserted(k) ELSE Gone(k)]

\* upsertSourceBatch
StoreOrder ==
  /\ Commits
  /\ \E o \in DOMAIN Says : \E version \in Says[o] :
       LET stored == [ at |-> version.at, eligible |-> version.eligible,
                       lines |-> StoredLines(o, version.lines) ]
       IN  /\ orders' = Upsert(orders, [x \in {o} |-> stored])
           /\ said' = Upsert(said, [x \in {o} |-> version])
  /\ UNCHANGED <<money, stock>>

\* applyProfitImport: rows with a known key are overwritten.
Import ==
  /\ Commits
  /\ \E upload \in Uploads : money' = Upsert(money, upload)
  /\ UNCHANGED <<orders, stock, said>>

\* replaceInventory: all there was is deleted.
ReplaceStock ==
  /\ Commits
  /\ stock' \in Stocks
  /\ UNCHANGED <<orders, money, said>>

----------------------------------------------------------------------------
(* Pages *)

Begin(new) ==
  /\ page.next > Statements(page.kind)
  /\ page' = new
  /\ quiet' = TRUE
  /\ UNCHANGED <<today, tableVars>>

\* profitDailySummary: its first statement gives the day it starts at.
BeginProfit ==
  \E shop \in Shops :
    Begin([ kind |-> "profit", shop |-> shop, next |-> 1, read |-> << >>,
            from |-> RangeStart(Rows(orders, money), shop, today), to |-> today + 1 ])

\* profitSKUSummary, of days the request names or of the last thirty.
BeginSKU ==
  \E shop \in Shops, days \in SKUDays :
    Begin([ kind |-> "sku", shop |-> shop, next |-> 1, read |-> << >>,
            from |-> today + 1 - days, to |-> today + 1 ])

\* dashboard
BeginDashboard ==
  \E period \in Period, filter \in Filters :
    Begin([ kind |-> "dashboard", filter |-> filter, period |-> period, next |-> 1,
            read |-> << >>, from |-> QueryStart(period, today), to |-> today + 1 ])

Reading(kind) == page.kind = kind /\ page.next <= Statements(kind)

Answered(answer) ==
  /\ page' = [page EXCEPT !.read = Upsert(@, answer), !.next = @ + 1]
  /\ UNCHANGED <<today, tableVars, quiet>>

ReadProfit ==
  /\ Reading("profit")
  /\ Answered([c \in DailyStatements[page.next] |->
       Daily(c, Rows(orders, money), page.from, page.to, page.shop)])

ReadSKU ==
  /\ Reading("sku")
  /\ Answered([c \in SKUStatements[page.next] |->
       BySKU(c, Rows(orders, money), page.from, page.to, page.shop)])

ReadDashboard ==
  /\ Reading("dashboard")
  /\ \/ /\ page.next = 1
        /\ Answered([rows |-> DailySKUs(orders, page.from, page.to, page.filter)])
     \/ /\ page.next = 2
        /\ Answered([totals |-> DailyTotals(orders, page.from, page.to, page.filter)])
     \/ /\ page.next = 3
        /\ Answered([stock |-> StockRows(stock, page.filter)])

\* A statement fails, or the time of the request is over: there is no page.
Fail ==
  /\ page.next <= Statements(page.kind)
  /\ page' = NoPage
  /\ quiet' = TRUE
  /\ UNCHANGED <<today, tableVars>>

Next ==
  \/ StoreOrder \/ Import \/ ReplaceStock
  \/ BeginProfit \/ BeginSKU \/ BeginDashboard
  \/ ReadProfit \/ ReadSKU \/ ReadDashboard \/ Fail

Spec == Init /\ [][Next]_vars

----------------------------------------------------------------------------
(* Properties *)

Profit(period) == DailyPage(period, page.from, page.to, page.read)

View == Dashboard(page.period, today, page.read.rows, page.read.totals, page.read.stock)

\* profitDailySummary: by day, by week and by month the rows add up to the same
\* totals, whatever was committed between two statements; and when nothing was,
\* the totals have every row that is dated up to today, however old and from
\* whichever table, and nothing twice.
EveryDatedRowIsShown ==
  Built("profit") =>
    \A period \in Period, c \in DailyColumns :
      LET view  == Profit(period)
          dated == {r \in Rows(orders, money) :
                      /\ r.source \in DOMAIN Column[c] /\ r.at # NoTime
                      /\ DateOf(r.at) <= today /\ page.shop \in {Everywhere, r.shop}}
      IN  /\ view.totals[c] = SumFunction([b \in DOMAIN view.rows |-> view.rows[b][c]])
          /\ quiet => view.totals[c] = SumOf(c, dated)

FeeColumns ==
  {"shipping", "merchantReturns", "thirdPartyReturns", "delays", "falseShips",
   "buyerBackAmounts", "platformFees", "disposals"}

\* "Costs and taxes that have no source remain absent" (profit_report.go:217):
\* when nothing is committed between two statements the balance of the fees,
\* which a statement of its own reads, is the sum of the columns that eight
\* others show, in every row, and the platform balance their sum with payback.
FeesExplainTheBalance ==
  Built("profit") /\ quiet =>
    \A period \in Period :
      LET view == Profit(period)
      IN  \A row \in Range(view.rows) \cup {view.totals} :
            PlatformBalance(row) = row.payback + SumFunctionOnSet(row, FeeColumns)

\* The units the source says an order has now, of orders that count.
SaidUnits(from, to, shop, factors) ==
  LET counting == {o \in DOMAIN said : /\ OrderKey[o].platform = "temu" /\ said[o].eligible
                                        /\ shop \in {Everywhere, OrderKey[o].shop}
                                        /\ DateOf(said[o].at) \in from..to - 1}
      UnitsOf(ok) == LET line == said[ok[1]].lines[ok[2]]
                    IN  line.units * (IF factors THEN line.factor ELSE 1)
  IN  SumFunction([ok \in UNION {{o} \X DOMAIN said[o].lines : o \in counting} |-> UnitsOf(ok)])

\* Orders are cancelled, dated anew and lose lines between two batches.  Each of
\* the three pages sells what the source says last of Temu orders, and not what
\* it once said.
UnitsFollowTheSource ==
  quiet =>
    /\ Built("profit") =>
         Profit("day").totals.units = SaidUnits(page.from, page.to, page.shop, FALSE)
    /\ Built("sku") =>
         LET view == SKUPage(page.read)
         IN  SumFunction([k \in DOMAIN view |-> view[k].units])
               = SaidUnits(page.from, page.to, page.shop, FALSE)
    /\ (Built("dashboard") /\ page.filter.warehouse = Everywhere) =>
         (IF "temu" \in DOMAIN View.platforms THEN View.platforms["temu"].stored ELSE 0)
           = IF page.filter.platform \in {Everywhere, "temu"}
             THEN SaidUnits(CurrentStart(page.period, today), today + 1,
                            page.filter.shop, TRUE)
             ELSE 0

Windows == [day |-> 14, week |-> 12, month |-> 6]

\* buildDashboard: the window and the one before it have their 14 days, 12 weeks
\* or 6 months, from the first midnight in the zone of the business to the end
\* of today.  When nothing is committed between two statements, the curve, the
\* SKUs and the platforms add up to what was sold in the one, and the growth
\* compares it with what was sold in the other.
DashboardAddsUp ==
  Built("dashboard") =>
    LET current  == CurrentStart(page.period, today)
        previous == PreviousStart(page.period, today)
        sold(from, to) == Stored(Sold(orders, from, to, page.filter))
        Sum(f)   == SumFunction([k \in DOMAIN f |-> f[k].stored])
    IN  /\ Cardinality(DOMAIN View.series) = Windows[page.period]
        /\ Cardinality(Buckets(page.period, previous, current)) = Windows[page.period]
        /\ quiet =>
             /\ View.stored = sold(current, today + 1)
             /\ View.total = View.stored
             /\ View.prior = sold(previous, current)
             /\ Sum(View.series) = View.stored
             /\ Sum(View.skus) = View.stored
             /\ Sum(View.platforms) = View.stored

\* forecastDemand: of sales that rise, fall or came all at once, the forecast is
\* never negative, grows with its days and stays below what its cap allows, and
\* of sales that fall, below what their average would give.  What was not sold
\* for four weeks is not forecast; what was sold in the last week, or more than
\* four times in four, has a rate and days of cover, though they are computed of
\* a rate that is rounded first.
ForecastIsBounded ==
  Built("dashboard") =>
    \A k \in DOMAIN View.skus :
      LET series    == Series(Of(page.read.rows, k), today)
          forecast  == View.skus[k].forecast
          week      == SumUnits(series, LastDays(7))
          fourWeeks == SumUnits(series, LastDays(28))
      IN  /\ 0 <= forecast.next7 /\ forecast.next7 <= forecast.next30
          /\ forecast.next30 <= Tenths(30 * Cap(series))
          /\ Slope(series) <= 0 => forecast.next30 <= Tenths(30 * RunRate(series))
          /\ fourWeeks = 0 => forecast.next30 = 0 /\ View.skus[k].cover = {}
          /\ week > 0 \/ fourWeeks > 4 => View.skus[k].cover # {}

=============================================================================
