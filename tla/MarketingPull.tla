---------------------------- MODULE MarketingPull ----------------------------
(***************************************************************************)
(* One pull of the marketing API: Syncer.Sync (internal/marketing/         *)
(* syncer.go) over Client.Call (internal/temu/client.go).  The enrollments *)
(* are read page by page, then the goods of their SKCs in batches, page by *)
(* page.  Every request takes a slot (waitForRequestSlot), is sent, and is *)
(* repeated twice when it failed for a while (retry).  Everything happens  *)
(* under a context with a deadline (scheduleMarketingSync).                *)
(*                                                                         *)
(* The listing changes between two pages.  Time is discrete.  Sync has a   *)
(* single caller, the loop, so that runMu and requestMu are never waited   *)
(* for.                                                                    *)
(***************************************************************************)
EXTENDS ActivityPages, SequencesExt

CONSTANTS
  Enroll,         \* enrollments
  Deck,           \* what Temu says of each of them
  Goods,          \* what Temu says of SKCs: SKC -> [status, skus]
  EnrollmentPage, \* enrollmentPageSize
  GoodsPage,      \* goodsPageSize
  GoodsBatch,     \* goodsSKCBatchSize
  MaxAttempts,    \* maxRetryAttempts
  Interval,       \* TEMU_MARKETING_REQUEST_INTERVAL
  RequestTimeout, \* timeout of one HTTP request
  Deadline,       \* timeout of one pull
  MaxChanges,     \* bound: changes of the listing in one behaviour
  NoSnapshot      \* Syncer.snapshot before the first pull ended

ASSUME PullAssumption ==
  /\ {EnrollmentPage, GoodsPage, GoodsBatch, MaxAttempts, RequestTimeout, Deadline}
       \subseteq Nat \ {0}
  /\ {Interval, MaxChanges} \subseteq Nat
  /\ IsFiniteSet(Enroll)
  /\ Deck \in [Enroll -> EnrollmentType]
  /\ \A e \in Enroll : IsFiniteSet(Deck[e].skcs)

VARIABLES
  listing,    \* the enrollments Temu lists, in the order of its pages
  changes,    \* changes of the listing so far
  slot,       \* Client.nextRequestAt, counted from now; 0 when it has passed
  age,        \* time since the context of this pull was made
  pc,         \* where the pull is: "idle", "call", "slot", "sent", "backoff"
  wait,       \* what is left of the timer, or of the request's timeout
  attempt,    \* attempt of retry
  request,    \* the page asked for, and the records of the batch received
  draft,      \* the snapshot being made
  published,  \* Syncer.snapshot
  result,     \* what the last Sync returned
  \* history, of the pull under way
  listed,     \* the enrollments that were listed all the time
  shrank,     \* whether an enrollment has left the listing
  sent        \* requests sent

pullVars == <<listing, changes, slot, age, pc, wait, attempt, request, draft,
              published, result, listed, shrank, sent>>
pageVars == <<request, draft, published, result>>
worldVars == <<listing, changes, listed, shrank>>

Expired == age = Deadline

\* Enrollments by number; the snapshot has what Temu says of them.
SnapshotOf(pulled) ==
  [ enrollments |-> [i \in DOMAIN pulled.enrollments |->
                       CurrentEnrollment(Deck[pulled.enrollments[i]])],
    goods |-> [k \in pulled.goods |-> Goods[k]] ]

FirstPage == [list |-> "enrollments", page |-> 1, batch |-> 0, received |-> 0]
EmptyDraft == [enrollments |-> << >>, goods |-> {}]

Init ==
  /\ listing \in {SetToSeq(S) : S \in SUBSET Enroll}
  /\ changes = 0 /\ slot = 0 /\ age = 0 /\ wait = 0 /\ attempt = 0 /\ sent = 0
  /\ pc = "idle"
  /\ request = FirstPage
  /\ draft = EmptyDraft
  /\ published = NoSnapshot
  /\ result = "none"
  /\ listed = {}
  /\ shrank = FALSE

----------------------------------------------------------------------------
(* The world *)

\* An activity begins, anywhere in the listing, or ends.
ListingChanges ==
  /\ changes < MaxChanges
  /\ changes' = changes + 1
  /\ \/ \E e \in Enroll \ Range(listing), i \in 1..Len(listing) + 1 :
          /\ listing' = InsertAt(listing, i, e)
          /\ UNCHANGED <<listed, shrank>>
     \/ \E i \in DOMAIN listing :
          /\ listing' = RemoveAt(listing, i)
          /\ listed' = listed \ {listing[i]}
          /\ shrank' = TRUE
  /\ UNCHANGED <<slot, age, pc, wait, attempt, sent, pageVars>>

\* Time passes; a request that is out ends with its timeout or the deadline.
Tick ==
  /\ pc = "sent" => wait > 0 /\ ~Expired
  /\ pc = "idle" => slot > 0
  /\ ~Expired
  /\ slot' = IF slot = 0 THEN 0 ELSE slot - 1
  /\ wait' = IF wait = 0 THEN 0 ELSE wait - 1
  /\ age' = IF pc = "idle" THEN age ELSE age + 1
  /\ UNCHANGED <<pc, attempt, sent, pageVars, worldVars>>

----------------------------------------------------------------------------
(* The pull *)

\* Sync, called by the loop with a new context.
Begin ==
  /\ pc = "idle"
  /\ pc' = "call"
  /\ age' = 0
  /\ attempt' = 0
  /\ sent' = 0
  /\ request' = FirstPage
  /\ draft' = EmptyDraft
  /\ listed' = Range(listing)
  /\ shrank' = FALSE
  /\ UNCHANGED <<listing, changes, slot, wait, published, result>>

\* Seeded bug: the next slot is counted from now.
ReserveFromNow ==
  /\ pc = "call"
  /\ wait' = slot
  /\ slot' = Interval
  /\ pc' = "slot"
  /\ UNCHANGED <<age, attempt, sent, pageVars, worldVars>>

\* The first half of waitForRequestSlot: the slot after the last one that was
\* given, or now.
Reserve ==
  /\ pc = "call"
  /\ wait' = slot
  /\ slot' = slot + Interval
  /\ pc' = "slot"
  /\ UNCHANGED <<age, attempt, sent, pageVars, worldVars>>

\* Its second half, and the request; nothing is sent under a context that
\* has ended.
Send ==
  /\ pc = "slot"
  /\ wait = 0
  /\ ~Expired
  /\ pc' = "sent"
  /\ wait' = RequestTimeout
  /\ sent' = sent + 1
  /\ UNCHANGED <<slot, age, attempt, pageVars, worldVars>>

\* Seeded bug: what was pulled is published whatever is there.
FinishPublishing ==
  /\ result' = "error"
  /\ published' = [ok |-> FALSE, enrollments |-> draft.enrollments, goods |-> draft.goods]
  /\ pc' = "idle"
  /\ wait' = 0

\* Seeded bug: an error is waited out and the request made again.
FinishRetrying ==
  /\ result' = "error"
  /\ pc' = "backoff"
  /\ wait' = 1
  /\ UNCHANGED published

\* finish: a snapshot that is not complete replaces only its like.
Finish ==
  /\ result' = "error"
  /\ published' = IF published # NoSnapshot /\ published.ok THEN published
                  ELSE [ok |-> FALSE, enrollments |-> draft.enrollments, goods |-> draft.goods]
  /\ pc' = "idle"
  /\ wait' = 0

\* The delay before the attempt after this one.
Backoff == 2^attempt

\* The call returned an error: retry waits and repeats it, unless the error is
\* permanent, was the last allowed, or the context has ended (the wait returns).
Fails(temporary) ==
  /\ IF temporary /\ attempt < MaxAttempts - 1 /\ ~Expired
       THEN /\ pc' = "backoff"
            /\ wait' = Backoff
            /\ UNCHANGED <<published, result>>
       ELSE Finish
  /\ UNCHANGED <<slot, age, attempt, sent, request, draft, worldVars>>

\* The context ends while the slot is waited for: a temporary error.
SlotExpires ==
  /\ pc = "slot"
  /\ Expired
  /\ Fails(TRUE)

\* Temu answers with an error, the connection breaks or a timeout ends it.
RequestFails ==
  /\ pc = "sent"
  /\ \E temporary \in BOOLEAN : Fails(temporary)

\* The wait of retry is over.
Retry ==
  /\ pc = "backoff"
  /\ wait = 0
  /\ attempt' = attempt + 1
  /\ pc' = "call"
  /\ UNCHANGED <<slot, age, wait, sent, pageVars, worldVars>>

BackoffExpires ==
  /\ pc = "backoff"
  /\ Expired
  /\ Finish
  /\ UNCHANGED <<slot, age, attempt, sent, request, draft, worldVars>>

----------------------------------------------------------------------------
(* Answers *)

PageOf(seq, size, page) ==
  SubSeq(seq, (page - 1) * size + 1, Min({page * size, Len(seq)}))

\* The numbers of a finite set, the least first.
InOrder(S) ==
  [n \in 1..Cardinality(S) |-> CHOOSE x \in S : Cardinality({y \in S : y < x}) = n - 1]

\* The enrollments of a page that are current, in the order of the page.
Kept(page) ==
  LET places == InOrder({i \in DOMAIN page : IsCurrent(Deck[page[i]])})
  IN  [n \in DOMAIN places |-> page[places[n]]]

\* batches(currentSKCIDs(...), goodsSKCBatchSize)
Batches(enrollments) ==
  LET ids == InOrder(CurrentSKCs(SnapshotOf([enrollments |-> enrollments, goods |-> {}])))
  IN  [n \in 1..((Len(ids) + GoodsBatch - 1) \div GoodsBatch) |-> PageOf(ids, GoodsBatch, n)]

\* publish
Publish(pulled) ==
  /\ published' = [ok |-> TRUE, enrollments |-> pulled.enrollments, goods |-> pulled.goods]
  /\ result' = "complete"
  /\ pc' = "idle"

\* The next page to ask for, or the end of the pull when there is no batch n.
GoodsFrom(n, pulled) ==
  /\ draft' = pulled
  /\ IF n > Len(Batches(pulled.enrollments))
       THEN Publish(pulled) /\ UNCHANGED request
       ELSE /\ request' = [list |-> "goods", page |-> 1, batch |-> n, received |-> 0]
            /\ pc' = "call"
            /\ UNCHANGED <<published, result>>

AskNext(next) ==
  /\ request' = next
  /\ pc' = "call"
  /\ UNCHANGED <<published, result>>

\* Seeded bug: pages end one early.
EnrollmentsArriveEarly ==
  /\ pc = "sent" /\ request.list = "enrollments"
  /\ LET page   == PageOf(listing, EnrollmentPage, request.page)
         pulled == [draft EXCEPT !.enrollments = @ \o Kept(page)]
     IN  IF \/ (request.page + 1) * EnrollmentPage >= Len(listing)
            \/ Len(page) < EnrollmentPage
           THEN GoodsFrom(1, pulled)
           ELSE draft' = pulled /\ AskNext([request EXCEPT !.page = @ + 1])
  /\ wait' = 0
  /\ attempt' = 0
  /\ UNCHANGED <<slot, age, sent, worldVars>>

\* CurrentMarketingEnrollmentPage returns: those that are current are kept.
\* The listing ends with a page that reaches the total or is not full.
EnrollmentsArrive ==
  /\ pc = "sent" /\ request.list = "enrollments"
  /\ LET page   == PageOf(listing, EnrollmentPage, request.page)
         pulled == [draft EXCEPT !.enrollments = @ \o Kept(page)]
     IN  IF \/ request.page * EnrollmentPage >= Len(listing)
            \/ Len(page) < EnrollmentPage
           THEN GoodsFrom(1, pulled)
           ELSE draft' = pulled /\ AskNext([request EXCEPT !.page = @ + 1])
  /\ wait' = 0
  /\ attempt' = 0
  /\ UNCHANGED <<slot, age, sent, worldVars>>

\* GoodsPage returns a page of the records of the batch.
GoodsArrive ==
  /\ pc = "sent" /\ request.list = "goods"
  /\ LET batch    == Batches(draft.enrollments)[request.batch]
         records  == InOrder(Range(batch) \cap DOMAIN Goods)
         page     == PageOf(records, GoodsPage, request.page)
         received == request.received + Len(page)
         pulled   == [draft EXCEPT !.goods = @ \cup Range(page)]
     IN  IF received >= Len(records) \/ Len(page) < GoodsPage
           THEN GoodsFrom(request.batch + 1, pulled)
           ELSE /\ draft' = pulled
                /\ AskNext([request EXCEPT !.page = @ + 1, !.received = received])
  /\ wait' = 0
  /\ attempt' = 0
  /\ UNCHANGED <<slot, age, sent, worldVars>>

Work ==
  \/ Reserve \/ Send \/ SlotExpires \/ RequestFails \/ Retry \/ BackoffExpires
  \/ EnrollmentsArrive \/ GoodsArrive

Next == ListingChanges \/ Tick \/ Begin \/ Work

Spec == Init /\ [][Next]_pullVars /\ WF_pullVars(Tick) /\ WF_pullVars(Work)

----------------------------------------------------------------------------
(* Properties *)

\* waitForRequestSlot keeps the account below its rate: whatever fails, ends
\* early or is repeated, n requests take n - 1 intervals.
SlotsAreSpaced == sent > 0 => (sent - 1) * Interval <= age

\* Snapshot is "the latest complete activity pull" (syncer.go:23): a pull that
\* reports no error has every enrollment that was listed from its beginning to
\* its end, although pages shift under it, and the goods of all of its SKCs.
\* Only an enrollment that left meanwhile can have hidden one: the pages after
\* it move up, and nothing in the answers tells.
PullMissesNothing ==
  [][ (pc # "idle" /\ pc' = "idle" /\ result' = "complete")
      => /\ ~shrank => {e \in listed : IsCurrent(Deck[e])} \subseteq Range(published'.enrollments)
         /\ CurrentSKCs(SnapshotOf(published')) \cap DOMAIN Goods = published'.goods
    ]_pullVars

\* Syncer.finish: once there was a complete snapshot there is one, whatever
\* fails (README: the service keeps the latest complete snapshot).
CompleteSnapshotStays ==
  [][ (published # NoSnapshot /\ published.ok) => published'.ok ]_pullVars

\* Sync returns: neither retries nor a listing that keeps changing, nor an API
\* that never answers, hold the loop longer than its deadline.
PullsEnd == pc # "idle" ~> pc = "idle"

\* What Temu says of an enrollment names the SKC, the SKU and the site of each
\* price; 0 means that it left something out.
NothingLeftOut ==
  \A e \in Enroll : \A skc \in Deck[e].skcs :
    /\ skc.skc # 0
    /\ \A sku \in skc.skus :
         /\ sku.sku # 0
         /\ \A p \in sku.prices : p.site # 0 /\ p.activity # 0

\* The two pages show the same offers, when nothing is left out of them: the price in effect of an SKU at a site
\* is the lowest among the rows of the activity page that are current, listed
\* and on shelf, and an SKU has such a price exactly when it has such a row.
\* Asked for one SKU or one site, a page shows what it shows without a filter.
PagesAgree ==
  (published # NoSnapshot /\ published.ok) =>
    LET snapshot == SnapshotOf(published)
        prices   == EffectivePrices(snapshot, Anything)
        rows     == ActivityRows(snapshot, Anything)
        sold     == {r \in rows : r.status = Current /\ r.listed /\ r.shelf = OnShelf
                                  /\ r.price # 0}
    IN  /\ {p.key : p \in prices} = {OfferKey(r) : r \in sold}
        /\ \A p \in prices :
             p.price = Min({r.price : r \in {q \in sold : OfferKey(q) = p.key}})
        /\ \A p \in prices :
             LET filter == p.key
             IN  /\ EffectivePrices(snapshot, filter) = {p}
                 /\ ActivityRows(snapshot, filter) = {r \in rows : OfferKey(r) = p.key}

=============================================================================
