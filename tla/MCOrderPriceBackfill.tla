------------------------ MODULE MCOrderPriceBackfill ------------------------
(***************************************************************************)
(* Values of OrderPriceBackfill's constants for model checking: one SKU    *)
(* whose activity price is confirmed, or unresolved, and one line of it.   *)
(***************************************************************************)
EXTENDS OrderPriceBackfill

CONSTANTS s1, l1

OneSKU == [l \in Line |-> s1]

Prices == {[status |-> "confirmed", price |-> 5], [status |-> "warning", price |-> 0]}

=============================================================================
