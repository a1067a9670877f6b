------------------------- MODULE MCActivityObserver -------------------------
(***************************************************************************)
(* Instances of ActivityObserver for TLC.                                  *)
(***************************************************************************)
EXTENDS ActivityObserver

CONSTANTS e1, e2, e3, k1, k2, s1, s2, cny, usd

ListingIn(currency, skc, sku, daily, activity) ==
  [skc |-> skc, prices |-> <<[sku |-> sku, currency |-> currency,
                              daily |-> daily, activity |-> activity]>>]

Listing(skc, sku, daily, activity) == ListingIn(cny, skc, sku, daily, activity)

Enrollment(e, stock, remaining, skcs) ==
  [enroll |-> e, stock |-> stock, remaining |-> remaining, skcs |-> skcs]

\* Stock: three enrollments of one SKC, the first two anywhere between full
\* and empty, the third with stock already used; any subset of them is
\* current, and the first may come twice with stock sold in between.
First(r)  == <<Enrollment(e1, 2, r, <<Listing(k1, s1, 9, 5)>>)>>
Second(r) == <<Enrollment(e2, 2, r, <<Listing(k1, s1, 9, 6)>>)>>
Third     == <<Enrollment(e3, 2, 1, <<Listing(k1, s1, 8, 7)>>)>>

StockSnapshots ==
  {a \o b \o c :
     a \in {<< >>, First(2) \o First(1)} \cup {First(r) : r \in 0..2},
     b \in {<< >>} \cup {Second(r) : r \in 0..2},
     c \in {<< >>, Third}}

\* Prices: two SKCs that may list the same SKU, at prices that agree, differ
\* or are missing.
PriceSnapshots ==
  {<<Enrollment(e1, 2, r, <<x>>), Enrollment(e2, 2, 2, <<y>>)>> :
     r \in 1..2,
     x \in {Listing(k1, s1, 9, 0), Listing(k1, s1, 9, 5), Listing(k1, s1, 0, 5)},
     y \in {Listing(k, s1, d, a) : k \in {k1, k2}, d \in {0, 8, 9}, a \in {0, 5}}}
  \cup {<<Enrollment(e1, 2, r, <<Listing(k1, s1, 9, 5), Listing(k1, s1, 9, 6)>>)>> :
          r \in 1..2}

\* Currencies: one, two or none are named, by one SKC or by two.
CurrencySnapshots ==
  {<<Enrollment(e1, 2, 1, <<ListingIn(c, k1, s1, 9, 5)>>),
     Enrollment(e2, 2, 2, <<ListingIn(d, k, s1, 9, 0)>>),
     Enrollment(e3, 2, 2, <<ListingIn(usd, k1, s1, 9, 0)>>)>> :
     c, d \in {NoCurrency, cny, usd}, k \in {k1, k2}}

AllSnapshots == StockSnapshots \cup PriceSnapshots \cup CurrencySnapshots

ASSUME NoRestock == NoRestockInPull

=============================================================================
