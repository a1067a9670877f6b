------------------------ MODULE PriceIntervals_proofs ------------------------
(***************************************************************************)
(* What PriceIntervals guarantees for every set of SKUs, of price states   *)
(* and every number of captures.                                           *)
(*                                                                         *)
(* The inductive invariant is IInv.  RowBounds is what makes Disjoint      *)
(* inductive: a row inserted at t lies after every closed row because no   *)
(* row reaches beyond persistedAt < t, and after the open one because that *)
(* one is closed at t by the same transaction.                             *)
(***************************************************************************)
EXTENDS PriceIntervals, TLAPS

IInv == TypeOK /\ RowBounds /\ Disjoint /\ RowsThatMeetDiffer

\* The inputs of one transaction.
Transaction(t, prices) ==
  /\ t \in (persistedAt + 1)..MaxTime
  /\ \E S \in SUBSET SKU : prices \in [S -> Key]
  /\ Persist(t, prices)

\* What the columns of a row become.
LEMMA UpdatedColumns ==
  ASSUME TypeOK, NEW r \in rows, NEW t \in Nat, NEW prices
  PROVE  LET q == UpdatedRow(r, t, prices)
         IN  /\ q.sku = r.sku /\ q.key = r.key /\ q.start = r.start
             /\ q \in Row
             /\ ~ IsOpen(r) => q = r
             /\ IsOpen(r) => q.update = t
             /\ IsOpen(r) /\ SameInterval(r, prices) => q.end = NULL
             /\ IsOpen(r) /\ ~ SameInterval(r, prices) => q.end = t
<1>1. r \in Row
  BY DEF TypeOK
<1>2. CASE ~ IsOpen(r)
  BY <1>1, <1>2 DEF UpdatedRow, Row
<1>3. CASE IsOpen(r) /\ SameInterval(r, prices)
  BY <1>1, <1>3 DEF UpdatedRow, Row, IsOpen
<1>4. CASE IsOpen(r) /\ ~ SameInterval(r, prices)
  <2>1. UpdatedRow(r, t, prices) = [[r EXCEPT !.update = t] EXCEPT !.end = t]
    BY <1>1, <1>4 DEF UpdatedRow, Closed, Row
  <2>2. QED
    BY <1>1, <1>4, <2>1 DEF Row
<1>5. QED
  BY <1>2, <1>3, <1>4

\* What an inserted row looks like.
LEMMA NewColumns ==
  ASSUME NEW t \in Nat, NEW prices, \E S \in SUBSET SKU : prices \in [S -> Key],
         NEW s \in Changed(prices)
  PROVE  LET q == NewRow(s, t, prices)
         IN  /\ q \in Row /\ IsOpen(q)
             /\ q.sku = s /\ q.key = prices[s] /\ q.start = t /\ q.update = t
BY DEF NewRow, Row, IsOpen, Changed

\* A row of the new table is an old one, updated, or an inserted one.
LEMMA RowsAfter ==
  ASSUME NEW t, NEW prices, Persist(t, prices), NEW q \in rows'
  PROVE  \/ \E r \in rows : q = UpdatedRow(r, t, prices)
         \/ \E s \in Changed(prices) : q = NewRow(s, t, prices)
BY DEF Persist

\* The times of a transaction.
LEMMA Times ==
  ASSUME TypeOK, NEW t, NEW prices, Transaction(t, prices)
  PROVE  /\ t \in Nat /\ t # NULL /\ persistedAt \in Nat /\ persistedAt < t
         /\ t <= MaxTime /\ persistedAt' = t
         /\ \E S \in SUBSET SKU : prices \in [S -> Key]
         /\ Persist(t, prices)
BY IntervalsAssumption DEF TypeOK, Transaction, Persist

\* The table keeps its type.
LEMMA TypeStep ==
  ASSUME TypeOK, NEW t, NEW prices, Transaction(t, prices)
  PROVE  TypeOK'
<1>1. ASSUME NEW q \in rows' PROVE q \in Row
  <2>1. ASSUME NEW r \in rows, q = UpdatedRow(r, t, prices) PROVE q \in Row
    BY <2>1, Times, UpdatedColumns
  <2>2. ASSUME NEW s \in Changed(prices), q = NewRow(s, t, prices) PROVE q \in Row
    BY <2>2, Times, NewColumns
  <2>3. QED
    BY <2>1, <2>2, RowsAfter, Times
<1>2. persistedAt' \in 0..MaxTime
  BY Times, IntervalsAssumption
<1>3. QED
  BY <1>1, <1>2 DEF TypeOK

\* The bounds of the rows move with the capture.
LEMMA BoundsStep ==
  ASSUME TypeOK, RowBounds, NEW t, NEW prices, Transaction(t, prices)
  PROVE  RowBounds'
<1> DEFINE Bounds(q) == /\ q.start <= q.update
                        /\ q.update <= t
                        /\ q.start > 0
                        /\ IF IsOpen(q) THEN q.update = t
                                        ELSE q.end = q.update /\ q.start < q.end
<1>1. ASSUME NEW q \in rows' PROVE Bounds(q)
  <2>1. ASSUME NEW r \in rows, q = UpdatedRow(r, t, prices) PROVE Bounds(q)
    BY <2>1, Times, UpdatedColumns DEF TypeOK, RowBounds, Row, IsOpen
  <2>2. ASSUME NEW s \in Changed(prices), q = NewRow(s, t, prices)
        PROVE  Bounds(q)
    BY <2>2, Times, NewColumns
  <2>3. QED
    BY <2>1, <2>2, RowsAfter, Times
<1>2. QED
  BY <1>1, Times DEF RowBounds, IsOpen

\* An inserted row lies after every row its SKU already had.
LEMMA InsertedIsLast ==
  ASSUME TypeOK, RowBounds, NEW t, NEW prices, Transaction(t, prices),
         NEW r \in rows, NEW s \in Changed(prices), r.sku = s
  PROVE  /\ Before(UpdatedRow(r, t, prices), NewRow(s, t, prices))
         /\ UpdatedRow(r, t, prices).end = t => r.key # prices[s]
<1>1. NewRow(s, t, prices).start = t
  BY Times, NewColumns
<1>2. CASE ~ IsOpen(r)
  BY <1>1, <1>2, Times, UpdatedColumns DEF TypeOK, RowBounds, Row, Before, IsOpen
<1>3. CASE IsOpen(r)
  <2>1. ~ SameInterval(r, prices) /\ r.key # prices[s]
    BY <1>3 DEF Changed, SameInterval
  <2>2. QED
    BY <1>1, <1>3, <2>1, Times, UpdatedColumns DEF Before, IsOpen
<1>4. QED
  BY <1>2, <1>3

\* Rows stay disjoint.
LEMMA DisjointStep ==
  ASSUME TypeOK, RowBounds, Disjoint, NEW t, NEW prices, Transaction(t, prices)
  PROVE  Disjoint'
<1> SUFFICES ASSUME NEW p \in rows', NEW q \in rows', p.sku = q.sku, p # q
             PROVE  Before(p, q) \/ Before(q, p)
  BY DEF Disjoint, Before, IsOpen
<1>1. ASSUME NEW r \in rows, p = UpdatedRow(r, t, prices),
             NEW o \in rows, q = UpdatedRow(o, t, prices)
      PROVE  Before(p, q) \/ Before(q, p)
  <2>1. r # o /\ r.sku = o.sku /\ p.start = r.start /\ q.start = o.start
    BY <1>1, Times, UpdatedColumns
  <2>2. Before(r, o) \/ Before(o, r)
    BY <2>1 DEF Disjoint
  <2>3. QED
    BY <1>1, <2>1, <2>2, Times, UpdatedColumns DEF Before
<1>2. ASSUME NEW r \in rows, p = UpdatedRow(r, t, prices),
             NEW s \in Changed(prices), q = NewRow(s, t, prices)
      PROVE  Before(p, q)
  BY <1>2, Times, UpdatedColumns, NewColumns, InsertedIsLast
<1>3. ASSUME NEW s \in Changed(prices), p = NewRow(s, t, prices),
             NEW r \in rows, q = UpdatedRow(r, t, prices)
      PROVE  Before(q, p)
  BY <1>3, Times, UpdatedColumns, NewColumns, InsertedIsLast
<1>4. ASSUME NEW s \in Changed(prices), p = NewRow(s, t, prices),
             NEW u \in Changed(prices), q = NewRow(u, t, prices)
      PROVE  FALSE
  BY <1>4, Times, NewColumns
<1>5. QED
  BY <1>1, <1>2, <1>3, <1>4, RowsAfter, Times

\* Rows that meet keep differing.
LEMMA MeetStep ==
  ASSUME TypeOK, RowBounds, RowsThatMeetDiffer,
         NEW t, NEW prices, Transaction(t, prices)
  PROVE  RowsThatMeetDiffer'
<1> SUFFICES ASSUME NEW p \in rows', NEW q \in rows', p.sku = q.sku,
                    p.end = q.start
             PROVE  p.key # q.key
  BY DEF RowsThatMeetDiffer
<1>1. ASSUME NEW r \in rows, p = UpdatedRow(r, t, prices),
             NEW o \in rows, q = UpdatedRow(o, t, prices)
      PROVE  p.key # q.key
  <2>1. q.start = o.start /\ o.start < t /\ o.start # NULL
    BY <1>1, Times, UpdatedColumns, IntervalsAssumption DEF TypeOK, RowBounds, Row
  <2>2. ~ IsOpen(r)
    BY <1>1, <2>1, Times, UpdatedColumns
  <2>3. QED
    BY <1>1, <2>1, <2>2, Times, UpdatedColumns DEF RowsThatMeetDiffer
<1>2. ASSUME NEW r \in rows, p = UpdatedRow(r, t, prices),
             NEW s \in Changed(prices), q = NewRow(s, t, prices)
      PROVE  p.key # q.key
  BY <1>2, Times, UpdatedColumns, NewColumns, InsertedIsLast
<1>3. ASSUME NEW s \in Changed(prices), p = NewRow(s, t, prices) PROVE FALSE
  <2>1. p.end = NULL
    BY <1>3 DEF NewRow
  <2>2. q.start \in Nat
    BY TypeStep DEF TypeOK, Row
  <2>3. QED
    BY <2>1, <2>2, IntervalsAssumption
<1>4. QED
  BY <1>1, <1>2, <1>3, RowsAfter, Times

\* Every step of the specification is a transaction or changes nothing.
LEMMA StepIsTransaction ==
  ASSUME Next PROVE \E t, prices : Transaction(t, prices)
BY DEF Next, Transaction

LEMMA IInvStep == IInv /\ [Next]_intervalVars => IInv'
<1> SUFFICES ASSUME IInv, [Next]_intervalVars PROVE IInv'
  OBVIOUS
<1>1. CASE Next
  <2>1. PICK t, prices : Transaction(t, prices)
    BY <1>1, StepIsTransaction
  <2>2. TypeOK'
    BY <2>1, TypeStep DEF IInv
  <2>3. RowBounds'
    BY <2>1, BoundsStep DEF IInv
  <2>4. Disjoint'
    BY <2>1, DisjointStep DEF IInv
  <2>5. RowsThatMeetDiffer'
    BY <2>1, MeetStep DEF IInv
  <2>6. QED
    BY <2>2, <2>3, <2>4, <2>5 DEF IInv
<1>2. CASE UNCHANGED intervalVars
  BY <1>2 DEF intervalVars, IInv, TypeOK, RowBounds, Disjoint,
              RowsThatMeetDiffer, Before, IsOpen
<1>3. QED
  BY <1>1, <1>2

\* The inductive invariant holds in every reachable state.
THEOREM Invariance == Spec => []IInv
<1>1. Init => IInv
  BY IntervalsAssumption DEF Init, IInv, TypeOK, RowBounds, Disjoint, RowsThatMeetDiffer
<1>2. QED
  BY <1>1, IInvStep, PTL DEF Spec

\* The table keeps its columns' types, whatever is captured.
THEOREM TypeCorrect == Spec => []TypeOK
BY Invariance, PTL DEF IInv

\* However captures come and go, the rows of an SKU never overlap: the
\* unique index on open rows never rejects an INSERT of
\* updateTemuSKUPriceIntervals, and the query that takes the row covering an
\* instant has at most one to take.
THEOREM RowsAreDisjoint == Spec => []Disjoint
BY Invariance, PTL DEF IInv

\* A row is never left open and stale: every open row was confirmed by the
\* last persisted capture, and no row reaches beyond it.
THEOREM RowsAreBounded == Spec => []RowBounds
BY Invariance, PTL DEF IInv

\* A new row starts only where the price state changed.
THEOREM RowsStartAtChanges == Spec => []RowsThatMeetDiffer
BY Invariance, PTL DEF IInv

\* An SKU has at most one open row.
THEOREM OneOpenRowEach == Spec => []OneOpenRow
<1>1. IInv => OneOpenRow
  BY DEF IInv, Disjoint, OneOpenRow, Before
<1>2. QED
  BY <1>1, Invariance, PTL

\* A transaction never touches a closed row, and leaves an open one its state
\* and its start.
LEMMA FinalStep ==
  ASSUME TypeOK, NEW t, NEW prices, Transaction(t, prices), NEW r \in rows
  PROVE  IF IsOpen(r)
           THEN \E q \in rows' : q.sku = r.sku /\ q.key = r.key /\ q.start = r.start
           ELSE r \in rows'
<1>1. UpdatedRow(r, t, prices) \in rows'
  BY Times DEF Persist
<1>2. QED
  BY <1>1, Times, UpdatedColumns

\* History is append-only in every behaviour: what an estimate or a price query
\* was answered with stays in the table.
THEOREM HistoryNeverChanges == Spec => HistoryIsFinal
<1> DEFINE Final == \A r \in rows :
      IF IsOpen(r)
        THEN \E q \in rows' : q.sku = r.sku /\ q.key = r.key /\ q.start = r.start
        ELSE r \in rows'
<1>1. IInv /\ [Next]_intervalVars => [Final]_intervalVars
  BY StepIsTransaction, FinalStep DEF IInv
<1>2. QED
  BY <1>1, Invariance, PTL DEF Spec, HistoryIsFinal

-----------------------------------------------------------------------------
\* The table implements the price curve.

\* What was on record up to the previous capture stays as it was.
LEMMA PastIsKept ==
  ASSUME TypeOK, RowBounds, NEW t, NEW prices, Transaction(t, prices),
         NEW s \in SKU, NEW u \in 0..persistedAt
  PROVE  KeysAt(s, u)' = KeysAt(s, u)
<1>0. u \in Nat /\ u <= persistedAt
  BY Times
<1>1. ASSUME NEW r \in rows
      PROVE  Covers(UpdatedRow(r, t, prices), u) <=> Covers(r, u)
  BY <1>0, <1>1, Times, UpdatedColumns DEF Covers, IsOpen, TypeOK, Row
<1>2. ASSUME NEW c \in Changed(prices) PROVE ~ Covers(NewRow(c, t, prices), u)
  BY <1>0, <1>2, Times, NewColumns DEF Covers
<1>3. ASSUME NEW k \in KeysAt(s, u)' PROVE k \in KeysAt(s, u)
  <2>1. PICK q \in rows' : q.sku = s /\ Covers(q, u) /\ k = q.key
    BY <1>3 DEF KeysAt, Covers, IsOpen
  <2>2. PICK r \in rows : q = UpdatedRow(r, t, prices)
    BY <1>2, <2>1, RowsAfter, Times
  <2>3. QED
    BY <1>1, <2>1, <2>2, Times, UpdatedColumns DEF KeysAt
<1>4. ASSUME NEW k \in KeysAt(s, u) PROVE k \in KeysAt(s, u)'
  <2>1. PICK r \in rows : r.sku = s /\ Covers(r, u) /\ k = r.key
    BY <1>4 DEF KeysAt
  <2> DEFINE q == UpdatedRow(r, t, prices)
  <2>2. q \in rows' /\ q.sku = s /\ Covers(q, u) /\ q.key = k
    BY <1>1, <2>1, Times, UpdatedColumns DEF Persist
  <2>3. QED
    BY <2>2 DEF KeysAt, Covers, IsOpen
<1>5. QED
  BY <1>3, <1>4

\* Between two captures an SKU holds the state of the earlier one.
LEMMA StateIsHeld ==
  ASSUME TypeOK, RowBounds, NEW t, NEW prices, Transaction(t, prices),
         NEW s \in SKU, NEW u \in Nat, persistedAt < u, u < t
  PROVE  KeysAt(s, u)' = KeysAt(s, persistedAt)
<1>1. ASSUME NEW r \in rows
      PROVE  Covers(UpdatedRow(r, t, prices), u) <=> Covers(r, persistedAt)
  <2>1. r.start \in Nat /\ r.start <= persistedAt
    BY Times DEF TypeOK, RowBounds, Row
  <2>2. CASE IsOpen(r)
    BY <2>1, <2>2, Times, UpdatedColumns DEF Covers, IsOpen
  <2>3. CASE ~ IsOpen(r)
    BY <2>1, <2>3, Times, UpdatedColumns DEF Covers, IsOpen, TypeOK, RowBounds, Row
  <2>4. QED
    BY <2>2, <2>3
<1>2. ASSUME NEW c \in Changed(prices) PROVE ~ Covers(NewRow(c, t, prices), u)
  BY <1>2, Times, NewColumns DEF Covers
<1>3. ASSUME NEW k \in KeysAt(s, u)' PROVE k \in KeysAt(s, persistedAt)
  <2>1. PICK q \in rows' : q.sku = s /\ Covers(q, u) /\ k = q.key
    BY <1>3 DEF KeysAt, Covers, IsOpen
  <2>2. PICK r \in rows : q = UpdatedRow(r, t, prices)
    BY <1>2, <2>1, RowsAfter, Times
  <2>3. QED
    BY <1>1, <2>1, <2>2, Times, UpdatedColumns DEF KeysAt
<1>4. ASSUME NEW k \in KeysAt(s, persistedAt) PROVE k \in KeysAt(s, u)'
  <2>1. PICK r \in rows : r.sku = s /\ Covers(r, persistedAt) /\ k = r.key
    BY <1>4 DEF KeysAt
  <2> DEFINE q == UpdatedRow(r, t, prices)
  <2>2. q \in rows' /\ q.sku = s /\ Covers(q, u) /\ q.key = k
    BY <1>1, <2>1, Times, UpdatedColumns DEF Persist
  <2>3. QED
    BY <2>2 DEF KeysAt, Covers, IsOpen
<1>5. QED
  BY <1>3, <1>4

\* At the capture itself an SKU takes the state that was observed.
LEMMA CaptureIsRecorded ==
  ASSUME TypeOK, RowBounds, NEW t, NEW prices, Transaction(t, prices), NEW s \in SKU
  PROVE  KeysAt(s, t)' = Curve!Observed(prices, s)
<1>1. ASSUME NEW r \in rows
      PROVE  Covers(UpdatedRow(r, t, prices), t) <=> IsOpen(r) /\ SameInterval(r, prices)
  <2>1. r.start \in Nat /\ r.start <= persistedAt
    BY Times DEF TypeOK, RowBounds, Row
  <2>2. CASE IsOpen(r)
    BY <2>1, <2>2, Times, UpdatedColumns DEF Covers, IsOpen
  <2>3. CASE ~ IsOpen(r)
    BY <2>1, <2>3, Times, UpdatedColumns DEF Covers, IsOpen, TypeOK, RowBounds, Row
  <2>4. QED
    BY <2>2, <2>3
<1>2. ASSUME NEW k \in KeysAt(s, t)' PROVE k \in Curve!Observed(prices, s)
  <2>1. PICK q \in rows' : q.sku = s /\ Covers(q, t) /\ k = q.key
    BY <1>2 DEF KeysAt, Covers, IsOpen
  <2>2. ASSUME NEW r \in rows, q = UpdatedRow(r, t, prices)
        PROVE  k \in Curve!Observed(prices, s)
    BY <1>1, <2>1, <2>2, Times, UpdatedColumns DEF SameInterval, Curve!Observed
  <2>3. ASSUME NEW c \in Changed(prices), q = NewRow(c, t, prices)
        PROVE  k \in Curve!Observed(prices, s)
    BY <2>1, <2>3, Times, NewColumns DEF Changed, Curve!Observed
  <2>4. QED
    BY <2>2, <2>3, RowsAfter, Times
<1>3. ASSUME NEW k \in Curve!Observed(prices, s) PROVE k \in KeysAt(s, t)'
  <2>1. s \in DOMAIN prices /\ k = prices[s]
    BY <1>3 DEF Curve!Observed
  <2>2. CASE s \in Changed(prices)
    <3>1. NewRow(s, t, prices) \in rows'
      BY <2>2, Times DEF Persist
    <3>2. QED
      BY <2>1, <2>2, <3>1, Times, NewColumns DEF KeysAt, Covers, IsOpen
  <2>3. CASE s \notin Changed(prices)
    <3>1. PICK r \in rows : IsOpen(r) /\ r.sku = s /\ r.key = k
      BY <2>1, <2>3 DEF Changed, SameInterval
    <3> DEFINE q == UpdatedRow(r, t, prices)
    <3>2. q \in rows' /\ q.sku = s /\ q.key = k /\ Covers(q, t)
      BY <1>1, <2>1, <3>1, Times, UpdatedColumns DEF Persist, SameInterval
    <3>3. QED
      BY <3>2 DEF KeysAt, Covers, IsOpen
  <2>4. QED
    BY <2>2, <2>3
<1>4. QED
  BY <1>2, <1>3

CurveOf == [s \in SKU |-> [u \in 0..persistedAt |-> KeysAt(s, u)]]

\* A transaction records one capture on the curve.
LEMMA TransactionRecords ==
  ASSUME TypeOK, RowBounds, NEW t, NEW prices, Transaction(t, prices)
  PROVE  Curve!Record(t, prices)
<1>1. \A s \in SKU : \A u \in 0..t :
        KeysAt(s, u)' = IF u <= persistedAt THEN KeysAt(s, u)
                        ELSE IF u < t THEN KeysAt(s, persistedAt)
                        ELSE Curve!Observed(prices, s)
  <2> SUFFICES ASSUME NEW s \in SKU, NEW u \in 0..t
               PROVE  KeysAt(s, u)' = IF u <= persistedAt THEN KeysAt(s, u)
                                      ELSE IF u < t THEN KeysAt(s, persistedAt)
                                      ELSE Curve!Observed(prices, s)
    OBVIOUS
  <2>1. u \in Nat /\ u <= t
    BY Times
  <2>2. CASE u <= persistedAt
    <3>1. u \in 0..persistedAt
      BY <2>1, <2>2, Times
    <3>2. QED
      BY <2>2, <3>1, PastIsKept
  <2>3. CASE persistedAt < u /\ u < t
    BY <2>1, <2>3, Times, StateIsHeld
  <2>4. CASE u = t
    BY <2>4, Times, CaptureIsRecorded
  <2>5. QED
    BY <2>1, <2>2, <2>3, <2>4, Times
<1>2. CurveOf' = [s \in SKU |-> [u \in 0..t |-> KeysAt(s, u)']]
  BY Times DEF CurveOf
<1>3. \A s \in SKU : \A u \in 0..persistedAt : CurveOf[s][u] = KeysAt(s, u)
  BY DEF CurveOf
<1>4. persistedAt \in 0..persistedAt
  BY Times
<1>5. CurveOf' = [s \in SKU |-> [u \in 0..t |->
                   IF u <= persistedAt THEN CurveOf[s][u]
                   ELSE IF u < t THEN CurveOf[s][persistedAt]
                   ELSE Curve!Observed(prices, s)]]
  <2>1. ASSUME NEW s \in SKU, NEW u \in 0..t
        PROVE  KeysAt(s, u)' = IF u <= persistedAt THEN CurveOf[s][u]
                               ELSE IF u < t THEN CurveOf[s][persistedAt]
                               ELSE Curve!Observed(prices, s)
    BY <1>1, <1>3, <1>4, Times
  <2>2. QED
    BY <1>2, <2>1
<1>6. QED
  BY <1>5, Times DEF Curve!Record, CurveOf

\* From the table the price curve of every SKU can be recovered, and what it
\* says of the past never changes: every behaviour of the table is one of
\* PriceCurve.
THEOREM TableImplementsCurve == Spec => ImplementsPriceCurve
<1>1. Init => Curve!Init
  BY DEF Init, Curve!Init, KeysAt
<1>2. IInv /\ [Next]_intervalVars => [Curve!Next]_Curve!curveVars
  <2> SUFFICES ASSUME IInv, [Next]_intervalVars
               PROVE  [Curve!Next]_Curve!curveVars
    OBVIOUS
  <2>1. CASE Next
    <3>1. PICK t, prices : Transaction(t, prices)
      BY <2>1, StepIsTransaction
    <3>2. PICK S \in SUBSET SKU : prices \in [S -> Key]
      BY <3>1 DEF Transaction
    <3>3. t \in (persistedAt + 1)..MaxTime
      BY <3>1 DEF Transaction
    <3>4. Curve!Record(t, prices)
      BY <3>1, TransactionRecords DEF IInv
    <3>5. QED
      BY <3>2, <3>3, <3>4 DEF Curve!Next
  <2>2. CASE UNCHANGED intervalVars
    BY <2>2 DEF intervalVars, Curve!curveVars, KeysAt, Covers, IsOpen
  <2>3. QED
    BY <2>1, <2>2
<1>3. QED
  BY <1>1, <1>2, Invariance, PTL DEF Spec, ImplementsPriceCurve, Curve!Spec

=============================================================================
