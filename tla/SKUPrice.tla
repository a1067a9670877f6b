------------------------------ MODULE SKUPrice ------------------------------
(***************************************************************************)
(* internal/marketing/sku_price_state.go: the price an SKU sells at, from  *)
(* the state of its SKC and the prices the current enrollments list for    *)
(* it.  A price point (SKUActivityPricePoint) is a record                  *)
(*    [enroll, skc, sku, currency, daily, activity]                        *)
(* one per site; the site itself plays no part in the decision and is left *)
(* out.  A price of 0 is a price that is not listed.  Of the order of the  *)
(* candidates two things are read: the SKC of the answer is that of the    *)
(* first one, and its currency is the first that any of them names.        *)
(***************************************************************************)
EXTENDS SKCActivity

CONSTANT NoCurrency  \* Currency = ""

NoPrice == 0

PriceSources == {"activity", "daily", "unresolved"}

\* uniquePositivePrices, for each of the two columns.
DailyPrices(points)    == {p.daily    : p \in points} \ {NoPrice}
ActivityPrices(points) == {p.activity : p \in points} \ {NoPrice}

\* prices[0] when there is exactly one of them.
OnlyPrice(prices) == IF Cardinality(prices) = 1 THEN TheOnly(prices) ELSE NoPrice

ActivePoints(points, active) == {p \in points : p.enroll = active}

\* The reason is a pair: what kept the activity price away, and how the
\* fallback to the daily price went.
WhyNoActivityPrice(skcState, activityPrices) ==
  CASE ~ (skcState.status = Confirmed /\ skcState.active # NoEnroll) ->
         "skc_state_warning"
    [] OTHER -> IF Cardinality(activityPrices) > 1
                  THEN "confirmed_activity_price_conflict"
                  ELSE "confirmed_activity_price_missing"

DailyOutcome(dailyPrices) ==
  CASE Cardinality(dailyPrices) = 1 -> "daily_fallback"
    [] Cardinality(dailyPrices) > 1 -> "daily_price_conflict"
    [] dailyPrices = {}             -> "daily_price_missing"

\* first is candidates[0], currency the answer of firstPriceCurrency.
ResolveSKUPriceState(skcState, first, currency, points) ==
  LET daily    == DailyPrices(points)
      named    == skcState.status = Confirmed /\ skcState.active # NoEnroll
      selected == ActivePoints(points, skcState.active)
      activity == ActivityPrices(selected)
      base     == [ sku        |-> first.sku,
                    skc        |-> first.skc,
                    status     |-> Warning,
                    active     |-> IF named THEN skcState.active ELSE NoEnroll,
                    candidates |-> EnrollsOf(points),
                    currency   |-> currency,
                    daily      |-> OnlyPrice(daily),
                    activity   |-> NoPrice,
                    price      |-> NoPrice,
                    source     |-> "unresolved",
                    reason     |-> << >> ]
  IN  IF named /\ Cardinality(activity) = 1
        THEN [ base EXCEPT
                 !.status   = Confirmed,
                 !.daily    = IF @ = NoPrice
                                THEN OnlyPrice(DailyPrices(selected)) ELSE @,
                 !.activity = TheOnly(activity),
                 !.price    = TheOnly(activity),
                 !.source   = "activity",
                 !.reason   = <<"confirmed_activity_price">> ]
        ELSE [ base EXCEPT
                 !.price  = OnlyPrice(daily),
                 !.source = IF Cardinality(daily) = 1 THEN "daily" ELSE @,
                 !.reason = << WhyNoActivityPrice(skcState, activity),
                               DailyOutcome(daily) >> ]

=============================================================================
