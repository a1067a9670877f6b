----------------------------- MODULE PriceQuery -----------------------------
(***************************************************************************)
(* sku_price_query.go: the answer to "what did this SKU cost", from the    *)
(* observer's memory when no time is given and from the interval table     *)
(* when one is.  An answer is a record [match, status, price, distance];   *)
(* price is the whole price state the answer shows ({} or a singleton),    *)
(* whose columns other than the status pass through unread.                *)
(***************************************************************************)
EXTENDS Integers, FiniteSets

CONSTANTS NULL  \* end_at of an open row

WarnedPrice == "warning"

Unmatched(match) ==
  [match |-> match, status |-> WarnedPrice, price |-> {}, distance |-> 0]

\* COALESCE(end_at,update_at)
EndOrUpdate(r) == IF r.end = NULL THEN r.update ELSE r.end

\* Seeded bug: the instant at which a row was closed is still inside.
InsideRowClosed(r, at) == r.start <= at /\ (r.end = NULL \/ at <= r.end)

InsideRow(r, at) == r.start <= at /\ (r.end = NULL \/ at < r.end)

\* The second ORDER BY key.
Distance(r, at) == IF at < r.start THEN r.start - at ELSE at - EndOrUpdate(r)

\* r precedes q in the ORDER BY of the lateral subquery: rows that contain the
\* instant first, then the nearest, then the latest start.
Precedes(r, q, at) ==
  LET outside(x) == IF InsideRow(x, at) THEN 0 ELSE 1
  IN  \/ outside(r) < outside(q)
      \/ /\ outside(r) = outside(q)
         /\ \/ Distance(r, at) < Distance(q, at)
            \/ Distance(r, at) = Distance(q, at) /\ r.start > q.start

MatchMethod(r, at) ==
  IF InsideRow(r, at) THEN "exact_interval"
  ELSE IF at < r.start THEN "nearest_after" ELSE "nearest_before"

\* The row the query picks (LIMIT 1).
Nearest(own, at) == CHOOSE r \in own : \A q \in own \ {r} : Precedes(r, q, at)

\* resolveHistoricalSKUPrices, for one item.
HistoricalPrice(rows, sku, at) ==
  LET own == {r \in rows : r.sku = sku}
      r   == Nearest(own, at)
      method == MatchMethod(r, at)
  IN  IF own = {} THEN Unmatched("unmatched")
      ELSE [ match    |-> method,
             status   |-> IF method = "exact_interval" THEN r.key.status
                                                       ELSE WarnedPrice,
             price    |-> {r.key},
             distance |-> IF method = "exact_interval" THEN 0 ELSE Distance(r, at) ]

\* resolveSKUPriceQueries, for an item without a time.
CurrentPrice(prices, sku) ==
  IF sku \notin DOMAIN prices THEN Unmatched("current_memory")
  ELSE [ match    |-> "current_memory",
         status   |-> prices[sku].status,
         price    |-> {prices[sku]},
         distance |-> 0 ]

=============================================================================
