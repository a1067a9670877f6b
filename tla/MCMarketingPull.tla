-------------------------- MODULE MCMarketingPull --------------------------
(***************************************************************************)
(* An instance of MarketingPull for TLC: three enrollments of three        *)
(* SKCs, up to three pages of enrollments and two batches of goods.        *)
(***************************************************************************)
EXTENDS MarketingPull

CONSTANTS e1, e2, e3

Session(n, status, site) == [session |-> n, status |-> status, site |-> site]
Price(site, activity) == [site |-> site, activity |-> activity]
SKUs(u, prices) == {[sku |-> u, prices |-> prices]}

\* One at two sites of which one has ended, and at one it does not name, beside an SKC without SKUs; one
\* that undercuts it and has an SKU that is off shelf; one that only waits.
ThreeEnrollments ==
  (e1 :> [ enroll |-> 1, sessions |-> {Session(11, 2, 1), Session(12, 3, 2), Session(13, 2, 0)},
           skcs |-> {[skc |-> 1, skus |-> SKUs(1, {Price(1, 5), Price(2, 6)})],
                     [skc |-> 2, skus |-> {}]} ]) @@
  (e2 :> [ enroll |-> 2, sessions |-> {Session(21, 2, 1), Session(22, 2, 2)},
           skcs |-> {[skc |-> 1, skus |-> SKUs(1, {Price(1, 4), Price(2, 7)})],
                     [skc |-> 2, skus |-> SKUs(2, {Price(2, 8)})],
                     [skc |-> 3, skus |-> SKUs(3, {Price(2, 3)})]} ]) @@
  (e3 :> [ enroll |-> 3, sessions |-> {Session(31, 1, 1)},
           skcs |-> {[skc |-> 2, skus |-> SKUs(2, {Price(1, 2)})]} ])

\* SKC 3 has left the shelf; an SKU of SKC 2 has come that no one enrolled.
ThreeSKCs ==
  [k \in 1..3 |-> [status |-> IF k = 3 THEN 2 ELSE 1, skus |-> {k, 4}]]

ASSUME NothingIsLeftOut == NothingLeftOut

=============================================================================
