--------------------------- MODULE PriceIntervals ---------------------------
(***************************************************************************)
(* activity_store.go: the table temu_sku_price_intervals, and the one      *)
(* transaction that writes it, updateTemuSKUPriceIntervals.                *)
(*                                                                         *)
(* A row says that an SKU was in one price state from start on; update is  *)
(* the last capture that found it so; end is NULL while the row is open,   *)
(* and otherwise the capture that found something else.  The columns the   *)
(* code compares in sameSKUPriceInterval are one value, key.  The id of a  *)
(* row is left out: no two rows share their sku and start (Disjoint).      *)
(***************************************************************************)
EXTENDS Naturals

CONSTANTS
  SKU,
  Key,      \* the columns sameSKUPriceInterval compares
  NULL,     \* end_at of an open row
  MaxTime   \* bound: the last capture time

ASSUME IntervalsAssumption ==
  /\ NULL \notin Nat
  /\ MaxTime \in Nat

VARIABLES
  rows,        \* temu_sku_price_intervals
  persistedAt  \* history: capturedAt of the last committed transaction

intervalVars == <<rows, persistedAt>>

Row == [ sku : SKU, key : Key, start : Nat, update : Nat, end : Nat \cup {NULL} ]

IsOpen(r) == r.end = NULL

Closed(r, t) == [r EXCEPT !.update = t, !.end = t]

SameInterval(r, prices) == r.sku \in DOMAIN prices /\ r.key = prices[r.sku]

\* Seeded bug: the row of an SKU that is missing stays open.
UpdatedRowOfPresent(r, t, prices) ==
  IF ~ IsOpen(r) \/ r.sku \notin DOMAIN prices THEN r
  ELSE IF SameInterval(r, prices) THEN [r EXCEPT !.update = t]
  ELSE Closed(r, t)

\* Seeded bug: WHERE end_at IS NULL is forgotten.
UpdatedRowOfAnyAge(r, t, prices) ==
  IF SameInterval(r, prices) THEN [r EXCEPT !.update = t]
  ELSE Closed(r, t)

\* Seeded bug: an open row takes the new state in place.
UpdatedRowInPlace(r, t, prices) ==
  IF ~ IsOpen(r) THEN r
  ELSE IF r.sku \in DOMAIN prices
    THEN [r EXCEPT !.update = t, !.key = prices[r.sku]]
  ELSE Closed(r, t)

\* An open row is extended when its SKU is still in its state, and closed when
\* the state changed or the SKU is missing from the capture.
UpdatedRow(r, t, prices) ==
  IF ~ IsOpen(r) THEN r
  ELSE IF SameInterval(r, prices) THEN [r EXCEPT !.update = t]
  ELSE Closed(r, t)

\* Seeded bug: every capture inserts.
ChangedAlways(prices) == DOMAIN prices

\* SKUs whose state has no open row to extend: an INSERT each.
Changed(prices) ==
  {s \in DOMAIN prices :
     ~ \E r \in rows : IsOpen(r) /\ r.sku = s /\ SameInterval(r, prices)}

\* Seeded bug: the new state is dated back to the capture before.
NewRowBackdated(s, t, prices) ==
  [sku |-> s, key |-> prices[s], start |-> persistedAt, update |-> t, end |-> NULL]

NewRow(s, t, prices) ==
  [sku |-> s, key |-> prices[s], start |-> t, update |-> t, end |-> NULL]

Init ==
  /\ rows = {}
  /\ persistedAt = 0

\* updateTemuSKUPriceIntervals, committed.  (A transaction that fails leaves
\* the table as it was.)
Persist(t, prices) ==
  /\ rows' = {UpdatedRow(r, t, prices) : r \in rows}
               \cup {NewRow(s, t, prices) : s \in Changed(prices)}
  /\ persistedAt' = t

\* Captures are persisted in the order they were made: one goroutine makes
\* and persists them, and the clock does not go back.
Next ==
  \E t \in (persistedAt + 1)..MaxTime, S \in SUBSET SKU :
    \E prices \in [S -> Key] : Persist(t, prices)

Spec == Init /\ [][Next]_intervalVars

----------------------------------------------------------------------------
\* Properties.

\* Rows have the columns of the table.
TypeOK ==
  /\ rows \subseteq Row
  /\ persistedAt \in 0..MaxTime

\* No row reaches beyond the last capture, a closed row ends where it was last
\* updated and spans some time, and an open row was confirmed by the very last
\* capture that was persisted: none is left behind.
RowBounds ==
  \A r \in rows :
    /\ r.start <= r.update
    /\ r.update <= persistedAt
    /\ r.start > 0
    /\ IF IsOpen(r) THEN r.update = persistedAt
                    ELSE r.end = r.update /\ r.start < r.end

Before(r, q) == ~ IsOpen(r) /\ r.end <= q.start

\* Two rows of one SKU never overlap, so an SKU has at most one open row (the
\* partial unique index temu_sku_price_intervals_open_idx never rejects an
\* INSERT) and an instant is covered by at most one row.
Disjoint ==
  \A r, q \in rows : r.sku = q.sku /\ r # q => Before(r, q) \/ Before(q, r)

OneOpenRow ==
  \A r, q \in rows : r.sku = q.sku /\ IsOpen(r) /\ IsOpen(q) => r = q

\* A new row is started only by a change: rows that meet differ (README.md:35).
RowsThatMeetDiffer ==
  \A r, q \in rows : r.sku = q.sku /\ r.end = q.start => r.key # q.key

\* History is append-only: a closed row is never touched again, and an open
\* one keeps the state and the start it was inserted with.
HistoryIsFinal ==
  [][ \A r \in rows :
        IF IsOpen(r)
          THEN \E q \in rows' : q.sku = r.sku /\ q.key = r.key /\ q.start = r.start
          ELSE r \in rows'
    ]_intervalVars

\* The row that covers an instant, as the historical query looks for it.
Covers(r, at) == r.start <= at /\ (IsOpen(r) \/ at < r.end)

KeysAt(s, at) == {r.key : r \in {q \in rows : q.sku = s /\ Covers(q, at)}}

\* The table implements the price curve.
Curve == INSTANCE PriceCurve WITH
           curve <- [s \in SKU |-> [u \in 0..persistedAt |-> KeysAt(s, u)]],
           last  <- persistedAt

ImplementsPriceCurve == Curve!Spec

=============================================================================
