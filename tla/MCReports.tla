----------------------------- MODULE MCReports -----------------------------
(***************************************************************************)
(* An instance of Reports for TLC.  Days are counted from Monday           *)
(* 2025-06-30; pages are read on Friday 2026-08-21 and on the Monday and   *)
(* first of a month 2026-06-01.  Rows lie at the edges of the windows.     *)
(***************************************************************************)
EXTENDS Reports

CONSTANTS o1, o2, o3

Months ==
  {1, 32, 63, 93, 124, 154, 185, 216, 244, 275, 305, 336, 366, 397, 428}

TwoDays == {417, 336}

Keys == (o1 :> [platform |-> "temu", shop |-> "s1"]) @@
        (o2 :> [platform |-> "temu", shop |-> "s2"]) @@
        (o3 :> [platform |-> "shein", shop |-> "s1"])

Line(sku, units, factor, price, place) ==
  [ sku |-> sku, item |-> sku, units |-> units, factor |-> factor, price |-> price,
    place |-> place ]
Version(at, eligible, lines) == [at |-> at, eligible |-> eligible, lines |-> lines]

\* The first and the last hour of a day in the zone.
Early(d) == Midnight(d)
Late(d) == Midnight(d + 1) - 1

\* An order that loses a line, is dated anew and is cancelled; one of the day
\* before a window; one of another platform with a warehouse.
Versions ==
  (o1 :> { Version(Early(404), TRUE,
             [l1 |-> Line("a", 2, 1, 3, ""), l2 |-> Line("b", 1, 2, 0, "w1")]),
           Version(Late(335), TRUE, [l2 |-> Line("a", 5, 1, 0, "")]),
           Version(Early(404), FALSE, [l1 |-> Line("a", 2, 1, 3, "")]) }) @@
  (o2 :> { Version(Late(403), TRUE, [l1 |-> Line("a", 3, 1, 0, "w2")]),
           Version(Early(417), TRUE, [l1 |-> Line("a", 4, 1, 2, "")]) }) @@
  (o3 :> { Version(Early(244), TRUE, [l1 |-> Line("b", 3, 1, 0, "w1")]),
           Version(Late(321), TRUE, [l1 |-> Line("b", 3, 1, 0, "")]) })

Row(table, kind, shop, at, amount, sku) ==
  [source |-> <<table, kind>>, shop |-> shop, at |-> at, amount |-> amount, sku |-> sku]

Batches ==
  { [ f1 |-> Row("flow", "sale", "s1", Early(404), 7, "a"),
      f2 |-> Row("flow", "sale back", "s1", Late(403), -2, ""),
      d1 |-> Row("disposal", "", "s1", Late(200), 4, ""),
      p1 |-> Row("shipping", "posted", "s2", Early(336), -3, ""),
      p2 |-> Row("shipping", "pending", "s2", Early(336), -3, "") ],
    [ f1 |-> Row("flow", "sale", "s1", Late(335), 6, "a"),
      f3 |-> Row("flow", "freight", "s2", Early(336), 1, "b"),
      v1 |-> Row("violation", "delay", "s1", Early(244), -5, ""),
      v2 |-> Row("violation", "false_ship", "s1", Late(243), 5, ""),
      c1 |-> Row("chargeback", "", "s2", Early(404), 2, "") ],
    [ p1 |-> Row("shipping", "posted", "s2", NoTime, -3, ""),
      m1 |-> Row("return", "merchant", "s1", Late(417), -1, ""),
      t1 |-> Row("return", "third", "s1", Early(418), -1, ""),
      q1 |-> Row("platform", "", "s2", Late(335), 8, "") ] }

TwoStocks == { (<<"w1", "a">> :> 5) @@ (<<"w2", "a">> :> 0), (<<"w2", "b">> :> 1) }

SomeShops == {Everywhere, "s1"}

SomeFilters ==
  { [platform |-> "", shop |-> "", warehouse |-> ""],
    [platform |-> "temu", shop |-> "s1", warehouse |-> ""],
    [platform |-> "", shop |-> "", warehouse |-> "w1"] }

SomeDays == {30, 14}

=============================================================================
