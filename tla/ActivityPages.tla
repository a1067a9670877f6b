---------------------------- MODULE ActivityPages ----------------------------
(***************************************************************************)
(* What the pages make of a pulled snapshot: currentEnrollment, applied to *)
(* every enrollment as it is pulled (syncer.go), the prices in effect      *)
(* (effective_prices.go) and the rows of the activity page                 *)
(* (activity_rows.go).                                                     *)
(*                                                                         *)
(* A snapshot is [enrollments |-> a sequence, goods |-> SKC -> goods].     *)
(* Lists that the code sorts are sets here; "at", the position of an       *)
(* enrollment in the snapshot, keeps apart two entries of one that the     *)
(* pull met twice.  0 is an identifier that Temu left out.                 *)
(* An SKC belongs to one product, whose id is left out of the keys.        *)
(***************************************************************************)
EXTENDS Integers, Sequences, FiniteSets, FiniteSetsExt, Functions

Current == 2      \* temu.CurrentSessionStatus
OnShelf == 1      \* temu.SKCSiteStatusOnShelf

\* MarketingEnrollment, of which a pull keeps what is current.
EnrollmentType ==
  [ enroll : Int,
    sessions : SUBSET [session : Int, status : Int, site : Int],
    skcs : SUBSET [ skc : Int,
                    skus : SUBSET [ sku : Int,
                                    prices : SUBSET [site : Int, activity : Int] ] ] ]

NoSession == [session |-> 0, status |-> 0, site |-> 0]
NoSitePrice == [site |-> 0, activity |-> 0]

\* A filter; 0 stands for any.
Anything == [skc |-> 0, sku |-> 0, site |-> 0]
Passes(wanted, id) == wanted \in {0, id}

\* The sessions that are current, and the sites they sell on.
CurrentSessions(enrollment) ==
  {s \in enrollment.sessions : s.status = Current}

ActiveSites(enrollment) == {s.site : s \in CurrentSessions(enrollment)}

\* An enrollment is kept for its current sessions, and its prices for the
\* sites of these; one without any is left out of the snapshot.
IsCurrent(enrollment) == CurrentSessions(enrollment) # {}

CurrentEnrollment(enrollment) ==
  [ enrollment EXCEPT
      !.sessions = CurrentSessions(enrollment),
      !.skcs = {[ skc EXCEPT !.skus =
                    {[ sku EXCEPT !.prices =
                         {p \in @ : p.site \in ActiveSites(enrollment)} ]
                       : sku \in @} ]
                  : skc \in @} ]

CurrentSKCs(snapshot) ==
  {k \in UNION {{skc.skc : skc \in e.skcs} : e \in Range(snapshot.enrollments)} : k # 0}

----------------------------------------------------------------------------
(* Effective prices *)

SKUListed(snapshot, k, u) ==
  /\ k \in DOMAIN snapshot.goods
  /\ u \in snapshot.goods[k].skus

\* Seeded bug: the status of the SKC is not looked at.
SKUOnAnyShelf(snapshot, k, u) ==
  SKUListed(snapshot, k, u) /\ snapshot.goods[k].status # 0

SKUOnShelf(snapshot, k, u) ==
  SKUListed(snapshot, k, u) /\ snapshot.goods[k].status = OnShelf

\* One pass through the innermost loop of EffectivePrices: a current session,
\* an SKU on shelf and the price of the session's site.
OffersOf(snapshot, i, filter) ==
  LET e == snapshot.enrollments[i]
  IN  UNION {UNION {{ [ at |-> i, enroll |-> e.enroll, session |-> s.session,
                        skc |-> skc.skc, sku |-> sku.sku, site |-> p.site,
                        price |-> p.activity ]
                      : p \in {q \in sku.prices : /\ q.site = s.site
                                                  /\ Passes(filter.site, q.site)} }
                    : sku \in {u \in skc.skus : /\ Passes(filter.sku, u.sku)
                                                /\ SKUOnShelf(snapshot, skc.skc, u.sku)},
                      s \in {t \in e.sessions : t.status = Current}}
               : skc \in {k \in e.skcs : Passes(filter.skc, k.skc)}}

Offers(snapshot, filter) ==
  UNION {OffersOf(snapshot, i, filter) : i \in DOMAIN snapshot.enrollments}

OfferKey(offer) == [skc |-> offer.skc, sku |-> offer.sku, site |-> offer.site]

\* EffectivePrices: for each SKU and site all offers, the lowest price and
\* the offers that have it.
EffectivePrices(snapshot, filter) ==
  LET offers == Offers(snapshot, filter)
      Of(key) == {o \in offers : OfferKey(o) = key}
      Lowest(key) == Min({o.price : o \in Of(key)})
  IN  {[ key |-> key, price |-> Lowest(key), active |-> Of(key),
         winning |-> {o \in Of(key) : o.price = Lowest(key)} ]
         : key \in {OfferKey(o) : o \in offers}}

----------------------------------------------------------------------------
(* Rows of the activity page *)

\* A session and a price belong together unless they name different sites.
SameSite(session, price) ==
  session.site = 0 \/ price.site = 0 \/ session.site = price.site

\* rowsForSessions: each pair that belongs together, and each session and
\* price that is left alone.
Pairs(sessions, prices) ==
  LET met      == {sp \in sessions \X prices : SameSite(sp[1], sp[2])}
      priceless == {s \in sessions : ~ \E p \in prices : SameSite(s, p)}
      unsold    == {p \in prices : ~ \E s \in sessions : SameSite(s, p)}
      pairs     == met \cup (priceless \X {NoSitePrice}) \cup ({NoSession} \X unsold)
  IN  IF pairs = {} THEN {<<NoSession, NoSitePrice>>} ELSE pairs

\* activityRowWithSessionAndPrice, for the columns that identify a row and
\* those taken from the goods.
Row(snapshot, i, k, u, session, price) ==
  [ at |-> i, enroll |-> snapshot.enrollments[i].enroll, skc |-> k, sku |-> u,
    session |-> session.session, status |-> session.status,
    site |-> IF price.site = 0 THEN session.site ELSE price.site,
    price |-> price.activity,
    listed |-> SKUListed(snapshot, k, u),
    shelf |-> IF k \in DOMAIN snapshot.goods THEN snapshot.goods[k].status ELSE 0 ]

RowsFor(snapshot, i, k, u, prices) ==
  {Row(snapshot, i, k, u, sp[1], sp[2])
     : sp \in Pairs(snapshot.enrollments[i].sessions, prices)}

\* enrollmentRows, before filteredRows: an enrollment without SKCs and an SKC
\* without SKUs have rows of their own.
EnrollmentRows(snapshot, i, filter) ==
  LET e == snapshot.enrollments[i]
      SKCRows(skc) ==
        IF skc.skus = {} THEN RowsFor(snapshot, i, skc.skc, 0, {})
        ELSE UNION {RowsFor(snapshot, i, skc.skc, sku.sku, sku.prices)
                      : sku \in {u \in skc.skus : Passes(filter.sku, u.sku)}}
  IN  IF e.skcs = {} THEN RowsFor(snapshot, i, 0, 0, {})
      ELSE UNION {SKCRows(skc) : skc \in {k \in e.skcs : Passes(filter.skc, k.skc)}}

FilteredRows(rows, filter) ==
  {r \in rows : /\ Passes(filter.skc, r.skc)
                /\ Passes(filter.sku, r.sku)
                /\ Passes(filter.site, r.site)}

ActivityRows(snapshot, filter) ==
  UNION {FilteredRows(EnrollmentRows(snapshot, i, filter), filter)
           : i \in DOMAIN snapshot.enrollments}

=============================================================================
