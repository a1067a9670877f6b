------------------------------ MODULE Dashboard ------------------------------
(***************************************************************************)
(* The sales dashboard (analytics.go): the statements that read orders and *)
(* stock, buildDashboard and forecastDemand.  Units are whole.             *)
(* Percentages, forecasts and days of cover are in tenths, as they are     *)
(* shown (round1); what a forecast is made of is in multiples of 1/Unit.   *)
(***************************************************************************)
EXTENDS ProfitPages

Placed(code, filter) == filter.warehouse \in {Everywhere, code}

\* The lines that queryDailySKUs and queryDailyTotals read.
Sold(orders, from, to, filter) ==
  LET Counts(o, k) ==
        /\ orders[o].eligible
        /\ orders[o].at >= Midnight(from) /\ orders[o].at < Midnight(to)
        /\ filter.platform \in {Everywhere, OrderKey[o].platform}
        /\ filter.shop \in {Everywhere, OrderKey[o].shop}
        /\ Placed(orders[o].lines[k].place, filter)
      Line(o, k) ==
        LET line == orders[o].lines[k]
        IN  [ order |-> o, key |-> k, date |-> DateOf(orders[o].at),
              platform |-> OrderKey[o].platform, sku |-> line.item, place |-> line.place,
              units |-> line.units, stored |-> line.units * line.factor ]
  IN  UNION {{Line(o, k) : k \in {l \in DOMAIN orders[o].lines : Counts(o, l)}}
               : o \in DOMAIN orders}

Units(lines) == SumFunction([l \in lines |-> l.units])
Stored(lines) == SumFunction([l \in lines |-> l.stored])
Orders(lines) == Cardinality({l.order : l \in lines})
OrdersIn(rows) == SumFunction([r \in rows |-> r.orders])

\* GROUP BY date, SKU, platform and warehouse
Group(l) == [date |-> l.date, sku |-> l.sku, platform |-> l.platform, place |-> l.place]

SKURow(g, lines) ==
  [ date |-> g.date, sku |-> g.sku, platform |-> g.platform, place |-> g.place,
    units |-> Units(lines), stored |-> Stored(lines), orders |-> Orders(lines) ]

DailySKUs(orders, from, to, filter) ==
  LET sold == Sold(orders, from, to, filter)
  IN  {SKURow(g, {l \in sold : Group(l) = g}) : g \in {Group(l) : l \in sold}}

\* GROUP BY date
DayRow(d, lines) ==
  [date |-> d, units |-> Units(lines), stored |-> Stored(lines), orders |-> Orders(lines)]

DailyTotals(orders, from, to, filter) ==
  LET sold == Sold(orders, from, to, filter)
  IN  {DayRow(d, {l \in sold : l.date = d}) : d \in {l.date : l \in sold}}

\* queryInventoryTotals: by warehouse and SKU
StockRows(stock, filter) ==
  {[place |-> p[1], sku |-> p[2], available |-> stock[p]]
     : p \in {q \in DOMAIN stock : Placed(q[1], filter)}}

Available(rows) == SumFunction([r \in rows |-> r.available])

\* The first day buildDashboard gets rows of.
ForecastStart(today) == today - 89

\* Seeded bug: nothing is read that the forecast does not need.
QueryStartOfForecast(period, today) == ForecastStart(today)

QueryStart(period, today) == Min({PreviousStart(period, today), ForecastStart(today)})

----------------------------------------------------------------------------
(* forecastDemand, of the units of the last 90 days, 0..89 *)

\* n / d, rounded half away from zero; d is positive
Rounded(n, d) == IF n < 0 THEN -((d - 2 * n) \div (2 * d)) ELSE (2 * n + d) \div (2 * d)

\* A multiple of the denominators 7 and 28 of the averages, 20 of the weights
\* and 51156 of the slope.
Unit == 146160

\* round1, of a multiple of 1/Unit
Tenths(value) == Rounded(value, Unit \div 10)

LastDays(n) == 90 - n .. 89

SumUnits(series, days) == SumFunctionOnSet(series, days)

Average(series, n) == (Unit \div n) * SumUnits(series, LastDays(n))

\* 0.65 and 0.35 of the averages of a week and of four
RunRate(series) ==
  (13 * (Average(series, 7) \div 20)) + (7 * (Average(series, 28) \div 20))

\* linearSlope over four weeks, of x = 0..27
Slope(series) ==
  LET SumXY == SumFunction([i \in LastDays(28) |-> (i - 62) * series[i]])
  IN  40 * (2 * SumXY - 27 * SumUnits(series, LastDays(28)))

Cap(series) == Max({3 * Average(series, 7), 3 * Average(series, 28), Unit})

\* Seeded bug: what falls goes on falling.
DemandUnclamped(series, day) ==
  LET demand == RunRate(series) + Slope(series) * day
  IN  Min({demand, Cap(series)})

\* The demand of a day to come, not below zero and not above the cap.
Demand(series, day) ==
  LET demand == RunRate(series) + Slope(series) * day
  IN  Max({0, Min({demand, Cap(series)})})

ForecastSum(series, days) == SumFunction([d \in 1..days |-> Demand(series, d)])

Forecast(series) ==
  LET active  == {i \in 0..89 : series[i] > 0}
      history == IF active = {} THEN 0 ELSE 90 - Min(active)
  IN  [ rate       |-> Tenths(RunRate(series)),
        next7      |-> Tenths(ForecastSum(series, 7)),
        next30     |-> Tenths(ForecastSum(series, 30)),
        history    |-> history,
        confidence |-> CASE history >= 42 /\ Cardinality(active) >= 14 -> "high"
                         [] history >= 14 /\ Cardinality(active) >= 5
                            /\ ~(history >= 42 /\ Cardinality(active) >= 14) -> "medium"
                         [] history = 0 -> "insufficient"
                         [] OTHER -> "low" ]

----------------------------------------------------------------------------
(* buildDashboard *)

PercentChange(current, previous) ==
  IF previous = 0 THEN IF current > 0 THEN 1000 ELSE 0
  ELSE Rounded((current - previous) * 1000, previous)

Share(value, total) == IF total = 0 THEN 0 ELSE Rounded(value * 1000, total)

\* How long the stock lasts at the rate that is shown; nothing, without a rate.
DaysOfCover(stock, rate) == IF rate > 0 THEN {Rounded(100 * stock, rate)} ELSE {}

\* The rows of a window, of an SKU, and the last 90 days of such rows.
Since(rows, d) == {r \in rows : ~Before(r.date, d)}
Until(rows, d) == {r \in rows : Before(r.date, d)}
Of(rows, sku) == {r \in rows : r.sku = sku}
Series(rows, today) ==
  [i \in 0..89 |-> Stored({r \in rows : r.date = ForecastStart(today) + i})]

Dashboard(period, today, rows, totals, stock) ==
  LET current   == CurrentStart(period, today)
      previous  == PreviousStart(period, today)
      Now(set)  == Since(set, current)
      Then(set) == Until(Since(set, previous), current)
      skus      == {k \in {r.sku : r \in rows} : Stored(Now(Of(rows, k))) > 0}
      buckets   == Buckets(period, current, today + 1)
      In(b)     == {r \in Now(totals) : BucketStart(period, r.date) = b}
      total     == Stored(Now(totals))
      places    == ({r.place : r \in stock} \cup {r.place : r \in Now(rows)}) \ {""}
  IN  [ series |-> [b \in buckets |->
          [ units |-> Units(In(b)), stored |-> Stored(In(b)),
            orders |-> OrdersIn(In(b)) ]],
        skus |-> [k \in skus |->
          LET mine == Of(rows, k)
              forecast == Forecast(Series(mine, today))
          IN  [ units |-> Units(Now(mine)), stored |-> Stored(Now(mine)),
                prior |-> Stored(Then(mine)),
                orders |-> OrdersIn(Now(mine)),
                growth |-> PercentChange(Stored(Now(mine)), Stored(Then(mine))),
                stock |-> Available(Of(stock, k)),
                places |-> Cardinality({r.place : r \in {q \in Of(stock, k) : q.available # 0}}),
                forecast |-> forecast,
                cover |-> DaysOfCover(Available(Of(stock, k)), forecast.rate) ]],
        platforms |-> [p \in {r.platform : r \in Now(rows)} |->
          LET units == Stored({r \in Now(rows) : r.platform = p})
          IN  [stored |-> units, share |-> Share(units, total)]],
        warehouses |-> [w \in places |->
          [ stock  |-> Available({r \in stock : r.place = w}),
            stored |-> Stored({r \in Now(rows) : r.place = w}),
            active |-> Cardinality({r \in stock : r.place = w /\ r.available # 0}) ]],
        units  |-> SumFunction([k \in skus |-> Units(Now(Of(rows, k)))]),
        stored |-> SumFunction([k \in skus |-> Stored(Now(Of(rows, k)))]),
        orders |-> OrdersIn(Now(totals)),
        available |-> Available(stock),
        growth |-> PercentChange(total, Stored(Then(totals))),
        total  |-> total,
        prior  |-> Stored(Then(totals)) ]

=============================================================================
