----------------------------- MODULE PriceCurve -----------------------------
(***************************************************************************)
(* What the interval table promises (README.md:35): from it the price      *)
(* curve of every SKU can be recovered.  The curve says, for each SKU and  *)
(* each instant up to the last recorded capture, which price state held    *)
(* then: a singleton, or the empty set where nothing was on record.  A     *)
(* capture extends the curve: since the one before it each SKU held its    *)
(* state, and at the capture it takes the state observed then.  What the   *)
(* curve already says never changes.                                       *)
(***************************************************************************)
EXTENDS Naturals

CONSTANTS
  SKU,
  Key,     \* the contents of a price state, as sameSKUPriceInterval sees it
  MaxTime  \* bound: the last capture time

VARIABLES
  curve,  \* curve[sku][instant]: {} or the singleton of a Key
  last    \* the last recorded capture

curveVars == <<curve, last>>

Init ==
  /\ last = 0
  /\ curve = [s \in SKU |-> [u \in 0..0 |-> {}]]

Observed(prices, s) == IF s \in DOMAIN prices THEN {prices[s]} ELSE {}

Record(t, prices) ==
  /\ last' = t
  /\ curve' = [s \in SKU |-> [u \in 0..t |->
                 IF u <= last THEN curve[s][u]
                 ELSE IF u < t THEN curve[s][last]
                 ELSE Observed(prices, s)]]

Next ==
  \E t \in (last + 1)..MaxTime, S \in SUBSET SKU :
    \E prices \in [S -> Key] : Record(t, prices)

Spec == Init /\ [][Next]_curveVars

=============================================================================
