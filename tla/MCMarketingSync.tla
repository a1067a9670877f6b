-------------------------- MODULE MCMarketingSync --------------------------
(***************************************************************************)
(* Instances of MarketingSync for TLC.                                     *)
(***************************************************************************)
EXTENDS MarketingSync

CONSTANTS e1, e2, k1, s1, s2, cny, usd

Listings(sku, currency, activity) ==
  <<[skc |-> k1, prices |-> <<[sku |-> sku, currency |-> currency,
                               daily |-> 9, activity |-> activity]>>]>>

EnrollmentIn(currency, e, remaining, sku, activity) ==
  [enroll |-> e, stock |-> 2, remaining |-> remaining,
   skcs |-> Listings(sku, currency, activity)]

Enrollment(e, remaining, sku, activity) == EnrollmentIn(cny, e, remaining, sku, activity)

\* Nothing current, one activity at two prices, one that sells nothing, two
\* that compete in two currencies, and a second SKU of the same SKC in place
\* of the first.
FewSnapshots ==
  { << >>,
    <<Enrollment(e1, 1, s1, 5)>>,
    <<Enrollment(e1, 1, s1, 6)>>,
    <<Enrollment(e1, 2, s1, 5), EnrollmentIn(usd, e2, 2, s1, 7)>>,
    <<Enrollment(e2, 1, s2, 7)>> }

=============================================================================
