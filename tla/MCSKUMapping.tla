--------------------------- MODULE MCSKUMapping ---------------------------
(***************************************************************************)
(* Values of SKUMapping's constants for model checking.  A factor of two   *)
(* units is the factor one, so that three is one and a half.               *)
(***************************************************************************)
EXTENDS SKUMapping

CONSTANTS a1, a2

OneAccount  == <<a1>>
TwoAccounts == <<a1, a2>>

===========================================================================
