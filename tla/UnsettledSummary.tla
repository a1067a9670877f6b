-------------------------- MODULE UnsettledSummary --------------------------
(***************************************************************************)
(* profit_unsettled_summary.go: the rollup of what is not settled yet, one *)
(* row per shop.  The amounts of unsettled orders and the pending label    *)
(* fees come from two queries; the second is merged into the rows of the   *)
(* first through a map of pointers into the slice that is returned.  An    *)
(* append that outgrows the slice moves it to a new array, and the         *)
(* pointers go on pointing into the old one.                               *)
(*                                                                         *)
(* Bounds: the sets Shop and Fee.  Amounts other than the pending fee ride *)
(* along with the row and are left out.                                    *)
(***************************************************************************)
EXTENDS Naturals, Sequences, SequencesExt

CONSTANTS
  Shop,  \* shop keys
  Fee    \* the sums of pending fees that can occur, numbers

VARIABLES
  fees,    \* what the second query returned: a sum per shop that has fees
  todo,    \* the shops the range over that map has not reached yet
  memory,  \* the arrays that were allocated for the result, oldest first
  slice,   \* the result: the array it is in and its capacity
  byShop   \* by shop, the element of memory its row was in

vars == <<fees, todo, memory, slice, byShop>>

NewRow(shop) == [shop |-> shop, fee |-> 0]

Result == memory[slice.array]

\* A capacity of zero grows to one, any other doubles.
Grown(capacity) == IF capacity = 0 THEN 1 ELSE 2 * capacity

\* Both queries have answered and the rows of the first have been copied and
\* indexed; a shop may be in either answer, in both or in none.
Init ==
  \E unsettled \in SUBSET Shop, pending \in SUBSET Shop :
    LET shops == SetToSeq(unsettled)
    IN  /\ fees \in [pending -> Fee]
        /\ todo = pending
        /\ memory = << [i \in DOMAIN shops |-> NewRow(shops[i])] >>
        /\ slice = [array |-> 1, capacity |-> Len(shops)]
        /\ byShop = [s \in unsettled |->
                       [array |-> 1,
                        index |-> CHOOSE i \in DOMAIN shops : shops[i] = s]]

\* The shop has a row: its fee goes where the map points.
WriteFee(shop) ==
  /\ shop \in todo \cap DOMAIN byShop
  /\ memory' = [memory EXCEPT ![byShop[shop].array][byShop[shop].index].fee
                              = fees[shop]]
  /\ todo' = todo \ {shop}
  /\ UNCHANGED <<fees, slice, byShop>>

\* The shop has none: one is appended, with its fee, in place while the array
\* has room and in a copy of the array otherwise.
AppendShop(shop) ==
  LET rows == Append(Result, [NewRow(shop) EXCEPT !.fee = fees[shop]])
  IN  /\ shop \in todo \ DOMAIN byShop
      /\ IF Len(Result) < slice.capacity
           THEN /\ memory' = [memory EXCEPT ![slice.array] = rows]
                /\ UNCHANGED slice
           ELSE /\ memory' = Append(memory, rows)
                /\ slice' = [array    |-> Len(memory) + 1,
                             capacity |-> Grown(slice.capacity)]
      /\ byShop' = [s \in DOMAIN byShop \cup {shop} |->
                      IF s = shop
                        THEN [array |-> slice'.array, index |-> Len(rows)]
                        ELSE byShop[s]]
      /\ todo' = todo \ {shop}
      /\ UNCHANGED fees

\* A range over a Go map visits the shops in any order.
Next == \E shop \in Shop : WriteFee(shop) \/ AppendShop(shop)

Spec == Init /\ [][Next]_vars

----------------------------------------------------------------------------
\* Properties.

\* Every shop's pending fee is in the rollup that is returned: the comment at
\* profit_unsettled_summary.go:5-7 calls the row a per-shop rollup of the
\* unsettled amounts and of the label fees not yet posted.
FeesAreShown ==
  todo = {} =>
    \A shop \in DOMAIN fees :
      \E i \in DOMAIN Result : Result[i] = [shop |-> shop, fee |-> fees[shop]]

=============================================================================
