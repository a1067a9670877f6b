-------------------------- MODULE OrderSync_proofs --------------------------
(***************************************************************************)
(* That normalized_orders forgets no update of its sources, for every      *)
(* number of shops and orders and every overlap that is at least the       *)
(* lateness of the writers.                                                *)
(*                                                                         *)
(* The argument is News: a row that changed after it was read is stamped   *)
(* at most Lateness before anything that was stamped when it was read,     *)
(* because its writer had not committed then.  The watermark is the newest *)
(* stamp that was stored, less the overlap, and so not after such a row:   *)
(* what a query leaves out has not changed since it was stored.            *)
(***************************************************************************)
EXTENDS OrderSync, WellFoundedInduction, TLAPS

Writers ==
  \A s \in Shop, o \in Order : writing[s][o] # NoTime =>
    /\ source[s][o].stamp <= writing[s][o]
    /\ writing[s][o] <= now /\ now <= writing[s][o] + Lateness

\* A stored order is not newer than its lines, and neither than the source.
Stamps ==
  \A s \in Shop, o \in Order :
    /\ local[s][o].version <= local[s][o].lines
    /\ local[s][o].lines <= source[s][o].version
    /\ local[s][o].stamp <= source[s][o].stamp
    /\ source[s][o].stamp <= now

\* What has been read lies between what is stored and the source.
Reading ==
  \A s \in Shop, o \in Order :
    /\ batch[s] # NoBatch =>
         /\ local[s][o].version <= image[s][o].version
         /\ image[s][o].version <= source[s][o].version
         /\ local[s][o].stamp <= image[s][o].stamp
         /\ image[s][o].stamp <= source[s][o].stamp
    /\ batch[s] # NoBatch /\ lines[s] # NoBatch =>
         /\ image[s][o].version <= lines[s][o]
         /\ local[s][o].lines <= lines[s][o]
         /\ lines[s][o] <= source[s][o].version

News ==
  \A s \in Shop, o, p \in Order :
    /\ o \notin owed[s] /\ local[s][o].version # source[s][o].version =>
         local[s][p].stamp <= source[s][o].stamp + Lateness
    /\ batch[s] # NoBatch /\ image[s][o].version # source[s][o].version =>
         image[s][p].stamp <= source[s][o].stamp + Lateness

Watermarks ==
  \A s \in todo : since[s] # NoTime => since[s] = Watermark(local[s])

\* What the query left out is stored as it is in the source.
Unread ==
  \A s \in Shop : batch[s] # NoBatch =>
    \A o \in Order \ (owed[s] \cup Due(image[s], since[s])) :
      local[s][o].version = image[s][o].version

IInv ==
  TypeOK /\ Writers /\ Stamps /\ Reading /\ News /\ Watermarks /\ Unread

LEMMA InitIInv == Init => IInv
<1> SUFFICES ASSUME Init PROVE IInv
  OBVIOUS
<1> USE OrderSyncAssumption DEF Init, NoRow, NoRows, NoOrder
<1>1. TypeOK
  <2>1. NoRow \in Row /\ NoOrder \in OrderRow
    BY DEF Row, OrderRow
  <2>2. source \in [Shop -> [Order -> Row]] /\ local \in [Shop -> [Order -> OrderRow]]
        /\ image \in [Shop -> [Order -> Row]]
    BY <2>1
  <2>3. QED
    BY <2>2 DEF TypeOK
<1>2. Writers /\ Stamps /\ Reading /\ News /\ Watermarks /\ Unread
  BY DEF Writers, Stamps, Reading, News, Watermarks, Unread
<1>3. QED
  BY <1>1, <1>2 DEF IInv

\* The numbers of the rows of an order.
LEMMA RowTypes ==
  ASSUME TypeOK, NEW s \in Shop, NEW o \in Order
  PROVE  /\ source[s][o] \in Row /\ local[s][o] \in OrderRow /\ image[s][o] \in Row
         /\ source[s][o].version \in Nat /\ source[s][o].stamp \in Nat
         /\ local[s][o].version \in Nat /\ local[s][o].lines \in Nat
         /\ local[s][o].stamp \in Nat
         /\ image[s][o].version \in Nat /\ image[s][o].stamp \in Nat
<1>1. source[s][o] \in Row /\ local[s][o] \in OrderRow /\ image[s][o] \in Row
  BY DEF TypeOK
<1>2. /\ source[s][o].version \in Nat /\ source[s][o].stamp \in Nat
      /\ image[s][o].version \in Nat /\ image[s][o].stamp \in Nat
  BY <1>1 DEF Row
<1>3. /\ local[s][o].version \in Nat /\ local[s][o].lines \in Nat
      /\ local[s][o].stamp \in Nat
  BY <1>1 DEF OrderRow
<1>4. QED
  BY <1>1, <1>2, <1>3

\* A set of times that is not empty and has a bound has a latest one.
LEMMA LatestExists ==
  ASSUME NEW T \in SUBSET Nat, T # {}, NEW t \in Nat, \A x \in T : x <= t
  PROVE  \E m \in T : \A x \in T : x <= m
<1> DEFINE Gaps == {n \in Nat : \E x \in T : n = t - x}
<1>1. Gaps \subseteq Nat /\ Gaps # {}
  <2>1. PICK x \in T : TRUE
    OBVIOUS
  <2>2. t - x \in Nat
    BY <2>1
  <2>3. QED
    BY <2>1, <2>2
<1>2. \E n \in Gaps : \A k \in Gaps : ~ (<<k, n>> \in OpToRel(<, Nat))
  <2> HIDE DEF Gaps
  <2>1. QED
    BY <1>1, NatLessThanWellFounded, WFMin
<1>3. PICK n \in Gaps : \A k \in Gaps : ~ (k < n)
  BY <1>2 DEF OpToRel
<1>4. PICK m \in T : n = t - m
  OBVIOUS
<1>5. ASSUME NEW x \in T PROVE x <= m
  <2>1. t - x \in Gaps
    OBVIOUS
  <2>2. ~ (t - x < t - m)
    BY <1>3, <1>4, <2>1
  <2>3. QED
    BY <2>2
<1>6. QED
  BY <1>5

\* The watermark of a shop is a time, and the overlap before its newest stamp.
LEMMA WatermarkBound ==
  ASSUME NEW r \in [Order -> OrderRow], NEW t \in Nat,
         \A o \in Order : r[o].stamp <= t, Watermark(r) # NoTime
  PROVE  Watermark(r) \in Int /\ Watermark(r) + Overlap <= t
<1> DEFINE T == {r[o].stamp : o \in {p \in Order : Present(r[p])}}
<1>1. T \in SUBSET Nat /\ \A x \in T : x <= t
  BY DEF OrderRow
<1>2. T # {}
  BY DEF Watermark
<1>3. \E m \in T : \A x \in T : x <= m
  <2> HIDE DEF T
  <2>1. QED
    BY <1>1, <1>2, LatestExists
<1> DEFINE m == CHOOSE m \in T : \A x \in T : x <= m
<1>4. m \in T
  <2> HIDE DEF T
  <2>1. QED
    BY <1>3
<1>5. Watermark(r) = m - Overlap
  BY <1>2 DEF Watermark
<1> HIDE DEF m, T
<1>6. QED
  BY <1>1, <1>4, <1>5, OrderSyncAssumption

\* The invariant gives the property: the watermark that the stored orders have
\* is not after a row whose version is not stored.
LEMMA NothingForgotten == IInv => NothingIsForgotten
<1> SUFFICES ASSUME IInv, NEW s \in Shop, NEW o \in Order \ owed[s],
                    local[s][o].version # source[s][o].version
             PROVE  o \in Due(source[s], Watermark(local[s]))
  <2> SUFFICES ASSUME IInv, NEW s \in Shop, NEW o \in Order \ owed[s],
                      local[s][o].version = source[s][o].version
               PROVE  local[s][o].lines = source[s][o].version
    BY DEF NothingIsForgotten
  <2>1. local[s][o] \in OrderRow /\ source[s][o] \in Row
    BY DEF IInv, TypeOK
  <2>2. QED
    BY <2>1 DEF IInv, Stamps, OrderRow, Row
<1> USE OrderSyncAssumption DEF IInv
<1>1. local[s] \in [Order -> OrderRow] /\ source[s][o] \in Row
  BY DEF TypeOK
<1>2. Present(source[s][o])
  <2>1. local[s][o] \in OrderRow
    BY <1>1
  <2>2. QED
    BY <1>1, <2>1 DEF Stamps, Present, Row, OrderRow
<1>3. source[s][o].stamp \in Nat /\ source[s][o].stamp + Lateness \in Nat
  BY <1>1 DEF Row
<1>4. \A p \in Order : local[s][p].stamp <= source[s][o].stamp + Lateness
  BY DEF News
<1>5. Watermark(local[s]) # NoTime =>
        Watermark(local[s]) \in Int
        /\ Watermark(local[s]) + Overlap <= source[s][o].stamp + Lateness
  BY <1>1, <1>3, <1>4, WatermarkBound
<1>6. Watermark(local[s]) # NoTime => source[s][o].stamp >= Watermark(local[s])
  BY <1>3, <1>5
<1>7. QED
  BY <1>2, <1>6 DEF Due

\* Another program starts to write a row: nothing that is read changes.
LEMMA StartsStep ==
  ASSUME IInv, NEW s \in Shop, NEW o \in Order, StartsWriting(s, o)
  PROVE  IInv'
<1> USE OrderSyncAssumption DEF IInv, StartsWriting, syncVars
<1>1. TypeOK'
  BY DEF TypeOK
<1>2. Writers'
  BY DEF Writers, TypeOK, Stamps
<1>3. Stamps' /\ Reading' /\ News'
  BY DEF Stamps, Reading, News
<1>4. Watermarks' /\ Unread'
  BY DEF Watermarks, Unread
<1>5. QED
  BY <1>1, <1>2, <1>3, <1>4

\* It commits: the row is stamped when its writer started, at most Lateness ago,
\* and nothing is stamped after now.
LEMMA CommitsStep ==
  ASSUME IInv, NEW s \in Shop, NEW o \in Order, CommitsWriting(s, o)
  PROVE  IInv'
<1> USE OrderSyncAssumption DEF IInv, CommitsWriting, syncVars
<1> DEFINE row == [version |-> source[s][o].version + 1, stamp |-> writing[s][o],
                   place |-> source[s][o].place]
<1>1. source[s][o] \in Row /\ writing[s][o] \in Nat
  BY DEF TypeOK
<1>2. /\ row \in Row
      /\ row.version = source[s][o].version + 1
      /\ row.stamp = writing[s][o]
  BY <1>1 DEF Row
<1>3. source' = [source EXCEPT ![s][o] = row]
  OBVIOUS
<1> HIDE DEF row
<1>4. \A t \in Shop, p \in Order :
        source'[t][p] = IF t = s /\ p = o THEN row ELSE source[t][p]
  BY <1>3 DEF TypeOK
<1>5. TypeOK'
  <2>1. source' \in [Shop -> [Order -> Row]]
    BY <1>2, <1>3 DEF TypeOK
  <2>2. writing' \in [Shop -> [Order -> Nat \cup {NoTime}]]
    BY DEF TypeOK
  <2>3. QED
    BY <2>1, <2>2 DEF TypeOK
<1>6. Writers'
  BY <1>1 DEF Writers, TypeOK
<1>7. row.stamp <= now /\ now <= row.stamp + Lateness /\ row.stamp \in Nat
      /\ source[s][o].stamp <= row.stamp
  BY <1>1, <1>2 DEF Writers
<1>8. Stamps'
  BY <1>1, <1>2, <1>4, <1>7 DEF Stamps, TypeOK, Row, OrderRow
<1>9. Reading'
  BY <1>1, <1>2, <1>4, <1>7 DEF Reading, TypeOK, Row, OrderRow
<1>10. News'
  <2>1. ASSUME NEW p \in Order
        PROVE  /\ local[s][p].stamp <= row.stamp + Lateness
               /\ batch[s] # NoBatch => image[s][p].stamp <= row.stamp + Lateness
    <3>1. local[s][p].stamp \in Nat /\ image[s][p].stamp \in Nat
          /\ source[s][p].stamp \in Nat /\ now \in Nat
      BY DEF TypeOK, Row, OrderRow
    <3>2. QED
      BY <1>7, <3>1 DEF Stamps, Reading
  <2>2. QED
    BY <1>4, <2>1 DEF News
<1>11. Watermarks' /\ Unread'
  BY DEF Watermarks, Unread
<1>12. QED
  BY <1>5, <1>6, <1>8, <1>9, <1>10, <1>11

\* A change of the place touches neither versions nor stamps.
LEMMA MovesStep ==
  ASSUME IInv, NEW s \in Shop, NEW o \in Order, Moves(s, o)
  PROVE  IInv'
<1> USE OrderSyncAssumption DEF IInv, Moves, syncVars
<1> DEFINE row == [version |-> source[s][o].version, stamp |-> source[s][o].stamp,
                   place |-> source[s][o].place + 1]
<1>1. source[s][o] \in Row
  BY DEF TypeOK
<1>2. /\ row \in Row
      /\ row.version = source[s][o].version /\ row.stamp = source[s][o].stamp
  BY <1>1 DEF Row
<1>3. source' = [source EXCEPT ![s][o] = row]
  OBVIOUS
<1> HIDE DEF row
<1>4. \A t \in Shop, p \in Order :
        /\ source'[t][p].version = source[t][p].version
        /\ source'[t][p].stamp = source[t][p].stamp
  BY <1>2, <1>3 DEF TypeOK
<1>5. TypeOK'
  <2>1. source' \in [Shop -> [Order -> Row]]
    BY <1>2, <1>3 DEF TypeOK
  <2>2. QED
    BY <2>1 DEF TypeOK
<1>6. Writers' /\ Watermarks' /\ Unread'
  BY DEF Writers, Watermarks, Unread
<1>7. Stamps' /\ Reading' /\ News'
  BY <1>4 DEF Stamps, Reading, News
<1>8. QED
  BY <1>5, <1>6, <1>7

LEMMA TickStep == IInv /\ Tick => IInv'
<1> SUFFICES ASSUME IInv, Tick PROVE IInv'
  OBVIOUS
<1> USE OrderSyncAssumption DEF IInv, Tick, syncVars
<1>1. TypeOK'
  BY DEF TypeOK
<1>2. Stamps'
  <2>1. ASSUME NEW s \in Shop, NEW o \in Order PROVE source[s][o].stamp <= now + 1
    <3>1. source[s][o].stamp \in Nat /\ now \in Nat /\ source[s][o].stamp <= now
      BY RowTypes DEF TypeOK, Stamps
    <3>2. QED
      BY <3>1
  <2>2. QED
    BY <2>1 DEF Stamps
<1>3. Writers'
  <2>1. ASSUME NEW s \in Shop, NEW o \in Order, writing[s][o] # NoTime
        PROVE  writing[s][o] <= now + 1
    <3>1. writing[s][o] \in Nat /\ now \in Nat /\ writing[s][o] <= now
      BY <2>1 DEF TypeOK, Writers
    <3>2. QED
      BY <3>1
  <2>2. QED
    BY <2>1 DEF Writers
<1>4. Reading' /\ News' /\ Watermarks' /\ Unread'
  BY DEF Reading, News, Watermarks, Unread
<1>5. QED
  BY <1>1, <1>2, <1>3, <1>4

\* No run is under way, so nothing is read.
LEMMA PlanStep ==
  ASSUME IInv, NEW full \in BOOLEAN, Plan(full)
  PROVE  IInv'
<1> USE OrderSyncAssumption DEF IInv, Plan, worldVars
<1>1. \A s \in Shop : batch[s] = NoBatch
  BY DEF TypeOK
<1>2. ASSUME NEW s \in Shop, since'[s] # NoTime
      PROVE  since'[s] \in Int /\ since'[s] = Watermark(local[s])
  <2>1. since'[s] = Watermark(local[s])
    BY <1>2
  <2>2. local[s] \in [Order -> OrderRow] /\ now \in Nat
    BY DEF TypeOK
  <2>3. \A o \in Order : local[s][o].stamp <= now
    <3>1. ASSUME NEW o \in Order
          PROVE  local[s][o].stamp \in Nat /\ source[s][o].stamp \in Nat
      BY DEF TypeOK, Row, OrderRow
    <3>2. QED
      BY <2>2, <3>1 DEF Stamps
  <2>4. QED
    BY <1>2, <2>1, <2>2, <2>3, WatermarkBound
<1>3. TypeOK'
  BY <1>2 DEF TypeOK
<1>4. Watermarks'
  BY <1>2 DEF Watermarks
<1>5. Writers' /\ Stamps' /\ Reading' /\ News'
  BY DEF Writers, Stamps, Reading, News
<1>6. Unread'
  BY <1>1 DEF Unread
<1>7. QED
  BY <1>3, <1>4, <1>5, <1>6

\* The orders are read: what the query leaves out is as it was stored, by the
\* property itself.
LEMMA OrdersStep ==
  ASSUME IInv, NEW s \in Shop, NEW found \in SUBSET Order, ReadsOrders(s, found),
         lines' \in [Shop -> [Order -> Nat] \cup {NoBatch}],
         \A t \in Shop : t # s => lines'[t] = lines[t],
         lines'[s] # NoBatch => lines'[s] = [o \in Order |-> source[s][o].version]
  PROVE  IInv'
<1> USE OrderSyncAssumption DEF IInv, ReadsOrders, worldVars
<1>1. TypeOK'
  BY NoBatchAssumption DEF TypeOK
<1>2. \A t \in Shop : image'[t] = IF t = s THEN source[t] ELSE image[t]
  BY DEF TypeOK
<1>3. \A t \in Shop : t # s => batch'[t] = batch[t]
  BY DEF TypeOK
<1>4. Writers' /\ Stamps' /\ Watermarks'
  BY DEF Writers, Stamps, Watermarks
<1>5. Reading'
  <2>1. ASSUME NEW o \in Order
        PROVE  /\ source[s][o].version \in Nat /\ source[s][o].stamp \in Nat
               /\ local[s][o].version \in Nat /\ local[s][o].lines \in Nat
               /\ local[s][o].stamp \in Nat
               /\ local[s][o].version <= source[s][o].version
               /\ local[s][o].lines <= source[s][o].version
               /\ local[s][o].stamp <= source[s][o].stamp
    <3>1. /\ local[s][o].version <= local[s][o].lines
          /\ local[s][o].lines <= source[s][o].version
          /\ local[s][o].stamp <= source[s][o].stamp
      BY DEF Stamps
    <3>2. QED
      BY <3>1, RowTypes
  <2>2. QED
    BY <1>2, <1>3, <2>1 DEF Reading
<1>6. News'
  BY <1>2, <1>3 DEF News
<1>7. ASSUME NEW o \in Order \ (owed[s] \cup Due(source[s], since[s]))
      PROVE  local[s][o].version = source[s][o].version
  <2>1. CASE since[s] = NoTime
    <3>1. ~ Present(source[s][o])
      BY <1>7, <2>1 DEF Due
    <3>2. source[s][o].version = 0
      <4>1. source[s][o].version \in Nat
        BY RowTypes
      <4>2. QED
        BY <3>1, <4>1 DEF Present
    <3>3. /\ local[s][o].version <= local[s][o].lines
          /\ local[s][o].lines <= source[s][o].version
      BY DEF Stamps
    <3>4. QED
      BY <3>2, <3>3, RowTypes
  <2>2. CASE since[s] # NoTime
    BY <1>7, <2>2, NothingForgotten DEF Watermarks, NothingIsForgotten
  <2>3. QED
    BY <2>1, <2>2
<1>8. Unread'
  <2> SUFFICES ASSUME NEW t \in Shop, batch'[t] # NoBatch,
                      NEW o \in Order \ (owed[t] \cup Due(image'[t], since[t]))
               PROVE  local[t][o].version = image'[t][o].version
    BY DEF Unread, Due
  <2>1. CASE t = s
    BY <1>2, <1>7, <2>1
  <2>2. CASE t # s
    BY <1>2, <1>3, <2>2 DEF Unread
  <2>3. QED
    BY <2>1, <2>2
<1>9. QED
  BY <1>1, <1>4, <1>5, <1>6, <1>8

\* readTemu, and the first statement of readShein.
LEMMA ReadStep ==
  ASSUME IInv, NEW s \in Shop, ReadTemu(s) \/ ReadSheinOrders(s)
  PROVE  IInv'
<1> DEFINE due == Due(source[s], since[s])
<1>1. due \in SUBSET Order /\ \A end \in due : {o \in due : o < end} \in SUBSET Order
  BY DEF Due
<1>2. lines \in [Shop -> [Order -> Nat] \cup {NoBatch}]
      /\ source \in [Shop -> [Order -> Row]]
  BY DEF IInv, TypeOK
<1> HIDE DEF due
<1>3. CASE ReadTemu(s)
  <2>1. ReadsOrders(s, due)
    BY <1>3 DEF ReadTemu, due
  <2>2. \A o \in Order : source[s][o].version \in Nat
    BY <1>2 DEF Row
  <2>3. /\ lines' \in [Shop -> [Order -> Nat] \cup {NoBatch}]
        /\ \A t \in Shop : t # s => lines'[t] = lines[t]
        /\ lines'[s] = [o \in Order |-> source[s][o].version]
    BY <1>2, <1>3, <2>2 DEF ReadTemu
  <2>4. QED
    BY <1>1, <2>1, <2>3, OrdersStep
<1>4. CASE ReadSheinOrders(s)
  <2>1. lines' = lines
    BY <1>4 DEF ReadSheinOrders
  <2>2. PICK found \in SUBSET Order : ReadsOrders(s, found)
    BY <1>1, <1>4 DEF ReadSheinOrders, due
  <2>3. lines[s] = NoBatch
    BY <2>2 DEF ReadsOrders, IInv, TypeOK
  <2>4. QED
    BY <1>2, <2>1, <2>2, <2>3, OrdersStep
<1>5. QED
  BY <1>3, <1>4

\* The lines are read later, and cannot be older than the orders.
LEMMA LinesStep ==
  ASSUME IInv, NEW s \in Shop, ReadSheinLines(s)
  PROVE  IInv'
<1> USE OrderSyncAssumption DEF IInv, ReadSheinLines, worldVars
<1>1. \A o \in Order : source[s][o].version \in Nat
  BY DEF TypeOK, Row
<1>2. \A t \in Shop :
        lines'[t] = IF t = s THEN [q \in Order |-> source[s][q].version] ELSE lines[t]
  BY DEF TypeOK
<1>3. TypeOK'
  BY <1>1 DEF TypeOK
<1>4. Writers' /\ Stamps' /\ News' /\ Watermarks' /\ Unread'
  BY DEF Writers, Stamps, News, Watermarks, Unread
<1>5. Reading'
  <2>1. ASSUME NEW o \in Order
        PROVE  /\ lines'[s][o] = source[s][o].version
               /\ local[s][o].lines <= source[s][o].version
               /\ source[s][o].version <= source[s][o].version
    <3>1. lines'[s] = [q \in Order |-> source[s][q].version]
      BY <1>2
    <3>2. source[s][o].version \in Nat /\ local[s][o].lines <= source[s][o].version
      BY <1>1 DEF Stamps
    <3>3. QED
      BY <3>1, <3>2
  <2>2. QED
    BY <1>2, <2>1 DEF Reading
<1>6. QED
  BY <1>3, <1>4, <1>5

\* A shop is dealt with; the others are as they were.
LEMMA DropsEffect ==
  ASSUME TypeOK, NEW shops \in SUBSET Shop, Drops(shops)
  PROVE  /\ todo' \subseteq todo /\ todo' \cap shops = {}
         /\ since' \in [Shop -> Int \cup {NoTime}]
         /\ batch' \in [Shop -> (SUBSET Order) \cup {NoBatch}]
         /\ lines' \in [Shop -> [Order -> Nat] \cup {NoBatch}]
         /\ image' \in [Shop -> [Order -> Row]]
         /\ \A t \in shops : batch'[t] = NoBatch /\ lines'[t] = NoBatch
         /\ \A t \in Shop \ shops :
              /\ since'[t] = since[t] /\ batch'[t] = batch[t]
              /\ lines'[t] = lines[t] /\ image'[t] = image[t]
<1>1. NoRows \in [Order -> Row]
  BY DEF NoRows, NoRow, Row
<1>2. QED
  BY <1>1 DEF TypeOK, Drops

\* A batch is stored: with what the query left out, it makes the whole image, but
\* for the orders that a read has lost.
LEMMA UpsertStep ==
  ASSUME IInv, NEW s \in Shop, Upsert(s)
  PROVE  IInv'
<1> USE OrderSyncAssumption DEF IInv
<1>1. /\ Drops({s}) /\ UNCHANGED <<now, source, writing>> /\ s \in todo
      /\ batch[s] \in SUBSET Order /\ lines[s] \in [Order -> Nat] /\ batch[s] # NoBatch
      /\ lines[s] # NoBatch
  BY DEF Upsert, worldVars, TypeOK
<1>2. /\ \A t \in Shop \ {s} : local'[t] = local[t] /\ owed'[t] = owed[t]
      /\ owed'[s] = (owed[s] \cup Due(image[s], since[s])) \ batch[s]
      /\ \A o \in Order : local'[s][o] =
           IF o \in batch[s] THEN Stored(local[s][o], image[s][o], lines[s][o])
           ELSE local[s][o]
      /\ owed' \in [Shop -> SUBSET Order]
  BY DEF Upsert, TypeOK, Due
<1>3. ASSUME NEW o \in Order
      PROVE  LET q == Stored(local[s][o], image[s][o], lines[s][o])
             IN  /\ q \in OrderRow
                 /\ q.version = image[s][o].version /\ q.stamp = image[s][o].stamp
                 /\ q.lines = lines[s][o]
  <2>1. local[s][o] \in OrderRow /\ image[s][o] \in Row /\ lines[s][o] \in Nat
    BY <1>1 DEF TypeOK
  <2>2. QED
    BY <2>1 DEF Stored, Kept, OrderRow, Row
<1>4. local' \in [Shop -> [Order -> OrderRow]]
  <2>1. ASSUME NEW o \in Order PROVE local'[s][o] \in OrderRow
    BY <1>2, <1>3, RowTypes
  <2>2. local' = [local EXCEPT ![s] = [o \in Order |-> local'[s][o]]]
    BY DEF Upsert, TypeOK
  <2>3. QED
    BY <2>1, <2>2 DEF TypeOK
<1>5. TypeOK /\ {s} \in SUBSET Shop
  OBVIOUS
<1>6. /\ todo' \subseteq todo /\ s \notin todo'
      /\ since' \in [Shop -> Int \cup {NoTime}]
      /\ batch' \in [Shop -> (SUBSET Order) \cup {NoBatch}]
      /\ lines' \in [Shop -> [Order -> Nat] \cup {NoBatch}]
      /\ image' \in [Shop -> [Order -> Row]]
      /\ batch'[s] = NoBatch /\ lines'[s] = NoBatch
      /\ \A t \in Shop \ {s} :
           /\ since'[t] = since[t] /\ batch'[t] = batch[t]
           /\ lines'[t] = lines[t] /\ image'[t] = image[t]
  BY <1>1, <1>5, DropsEffect
<1>7. \A t \in todo : t # s => t \in todo'
  BY <1>1 DEF Drops
<1>8. TypeOK'
  <2>1. \A t \in Shop : /\ batch'[t] # NoBatch => t \in todo'
                        /\ lines'[t] # NoBatch => batch'[t] # NoBatch
    BY <1>6, <1>7 DEF TypeOK
  <2>2. QED
    BY <1>1, <1>2, <1>4, <1>6, <2>1 DEF TypeOK
<1>9. Writers'
  BY <1>1 DEF Writers
<1>10. ASSUME NEW o \in Order
       PROVE  /\ local'[s][o].version \in {local[s][o].version, image[s][o].version}
              /\ local'[s][o].version <= local'[s][o].lines
              /\ local'[s][o].lines <= source[s][o].version
              /\ local'[s][o].stamp \in {local[s][o].stamp, image[s][o].stamp}
              /\ o \notin owed'[s] => local'[s][o].version = image[s][o].version
  BY <1>1, <1>2, <1>3 DEF Stamps, Reading, Unread
<1>11. ASSUME NEW o \in Order
       PROVE  /\ local[s][o].stamp \in Nat /\ image[s][o].stamp \in Nat
              /\ source[s][o].stamp \in Nat
  BY RowTypes
<1>12. Stamps'
  <2>1. \A o \in Order : local'[s][o].stamp <= source[s][o].stamp
    BY <1>1, <1>10, <1>11 DEF Stamps, Reading
  <2>2. QED
    BY <1>1, <1>2, <1>10, <2>1 DEF Stamps
<1>13. /\ source' = source /\ batch'[s] = NoBatch
       /\ \A t \in Shop \ {s} :
            /\ local'[t] = local[t] /\ owed'[t] = owed[t] /\ image'[t] = image[t]
            /\ since'[t] = since[t] /\ batch'[t] = batch[t] /\ lines'[t] = lines[t]
  BY <1>1, <1>2, <1>6
<1>14. Reading'
  BY <1>13 DEF Reading
<1>15. ASSUME NEW o \in Order, NEW p \in Order, o \notin owed'[s],
              local'[s][o].version # source[s][o].version
       PROVE  local'[s][p].stamp <= source[s][o].stamp + Lateness
  <2>1. image[s][p].stamp <= source[s][o].stamp + Lateness
    BY <1>1, <1>10, <1>15 DEF News
  <2>2. local[s][p].stamp <= image[s][p].stamp
    BY <1>1 DEF Reading
  <2>3. QED
    BY <1>10, <1>11, <2>1, <2>2
<1>16. News'
  BY <1>13, <1>15 DEF News
<1>17. Watermarks'
  BY <1>2, <1>6 DEF Watermarks, TypeOK
<1>18. Unread'
  <2> SUFFICES ASSUME NEW t \in Shop, batch'[t] # NoBatch,
                      NEW o \in Order \ (owed'[t] \cup Due(image'[t], since'[t]))
               PROVE  local'[t][o].version = image'[t][o].version
    BY DEF Unread, Due
  <2>1. t # s
    BY <1>13
  <2>2. QED
    BY <1>13, <2>1 DEF Unread
<1>19. QED
  BY <1>8, <1>9, <1>12, <1>14, <1>16, <1>17, <1>18

LEMMA FailStep ==
  ASSUME IInv, (\E s \in Shop : ShopFails(s)) \/ Restart
  PROVE  IInv'
<1> USE DEF IInv
<1>1. PICK shops \in SUBSET Shop : Drops(shops) /\ UNCHANGED <<worldVars, local, owed>>
  BY DEF ShopFails, Restart
<1>2. /\ todo' \subseteq todo /\ todo' \cap shops = {}
      /\ since' \in [Shop -> Int \cup {NoTime}]
      /\ batch' \in [Shop -> (SUBSET Order) \cup {NoBatch}]
      /\ lines' \in [Shop -> [Order -> Nat] \cup {NoBatch}]
      /\ image' \in [Shop -> [Order -> Row]]
      /\ \A t \in shops : batch'[t] = NoBatch /\ lines'[t] = NoBatch
      /\ \A t \in Shop \ shops :
           /\ since'[t] = since[t] /\ batch'[t] = batch[t]
           /\ lines'[t] = lines[t] /\ image'[t] = image[t]
  BY <1>1, DropsEffect
<1>3. todo' = todo \ shops
  BY <1>1 DEF Drops
<1>4. TypeOK'
  BY <1>1, <1>2, <1>3 DEF TypeOK, worldVars
<1>5. Writers' /\ Stamps'
  BY <1>1 DEF Writers, Stamps, worldVars
<1>6. Reading' /\ News'
  BY <1>1, <1>2 DEF Reading, News, worldVars
<1>7. Watermarks'
  BY <1>1, <1>2, <1>3 DEF Watermarks, TypeOK
<1>8. Unread'
  BY <1>1, <1>2 DEF Unread
<1>9. QED
  BY <1>4, <1>5, <1>6, <1>7, <1>8

LEMMA StutterStep == IInv /\ UNCHANGED vars => IInv'
BY DEF IInv, TypeOK, Writers, Stamps, Reading, News, Watermarks, Unread,
       vars, worldVars, syncVars

\* The inductive invariant.
THEOREM Invariance == Spec => []IInv
<1>1. IInv /\ [Next]_vars => IInv'
  BY StartsStep, CommitsStep, MovesStep, TickStep, PlanStep, ReadStep, LinesStep,
     UpsertStep, FailStep, StutterStep DEF Next
<1>2. QED
  BY InitIInv, <1>1, PTL DEF Spec

\* Every variable keeps its type.
THEOREM TypeCorrect == Spec => []TypeOK
BY Invariance, PTL DEF IInv

\* The next sync finds every update that is not stored, but for those of orders
\* that a broken read has lost.
THEOREM NoUpdateIsMissed == Spec => []NothingIsForgotten
BY Invariance, NothingForgotten, PTL

\* No order goes back to an older version, and neither do its lines.
THEOREM OrdersMoveForward == Spec => VersionsDoNotGoBack
<1> DEFINE Forward == \A s \in Shop, o \in Order :
                        /\ local'[s][o].version >= local[s][o].version
                        /\ local'[s][o].lines >= local[s][o].lines
<1>1. IInv /\ [Next]_vars => Forward
  <2> SUFFICES ASSUME IInv, [Next]_vars, NEW s \in Shop, NEW o \in Order
               PROVE  /\ local'[s][o].version >= local[s][o].version
                      /\ local'[s][o].lines >= local[s][o].lines
    OBVIOUS
  <2> USE DEF IInv
  <2>1. /\ local[s][o].version \in Nat /\ local[s][o].lines \in Nat
        /\ image[s][o] \in Row
    BY DEF TypeOK, OrderRow
  <2>2. local'[s][o] = local[s][o] =>
          /\ local'[s][o].version >= local[s][o].version
          /\ local'[s][o].lines >= local[s][o].lines
    BY <2>1
  <2>3. ASSUME NEW t \in Shop, Upsert(t)
        PROVE  /\ local'[s][o].version >= local[s][o].version
               /\ local'[s][o].lines >= local[s][o].lines
    <3>1. CASE s = t /\ o \in batch[s]
      <4>1. local'[s][o] = Stored(local[s][o], image[s][o], lines[s][o])
        BY <2>3, <3>1 DEF Upsert, TypeOK
      <4>2. batch[s] # NoBatch /\ lines[s] # NoBatch /\ lines[s][o] \in Nat
        BY <2>3, <3>1 DEF Upsert, TypeOK
      <4>3. /\ local'[s][o].version = image[s][o].version
            /\ local'[s][o].lines = lines[s][o]
        BY <4>1 DEF Stored
      <4>4. QED
        BY <2>1, <4>2, <4>3 DEF Reading, Row
    <3>2. CASE ~ (s = t /\ o \in batch[s])
      <4>1. local'[s][o] = local[s][o]
        BY <2>3, <3>2 DEF Upsert, TypeOK
      <4>2. QED
        BY <2>2, <4>1
    <3>3. QED
      BY <3>1, <3>2
  <2>4. local' # local => \E t \in Shop : Upsert(t)
    <3>1. ASSUME NEW t \in Shop, NEW q \in Order,
                 StartsWriting(t, q) \/ CommitsWriting(t, q) \/ Moves(t, q)
          PROVE  local' = local
      BY <3>1 DEF StartsWriting, CommitsWriting, Moves, syncVars
    <3>2. Tick \/ (\E full \in BOOLEAN : Plan(full)) => local' = local
      BY DEF Tick, Plan, syncVars
    <3>3. ASSUME NEW t \in Shop, ReadTemu(t) \/ ReadSheinOrders(t) \/ ReadSheinLines(t)
          PROVE  local' = local
      BY <3>3 DEF ReadTemu, ReadSheinOrders, ReadsOrders, ReadSheinLines
    <3>4. (\E t \in Shop : ShopFails(t)) \/ Restart \/ UNCHANGED vars => local' = local
      BY DEF ShopFails, Restart, vars, syncVars
    <3>5. QED
      BY <3>1, <3>2, <3>3, <3>4 DEF Next
  <2>5. QED
    BY <2>2, <2>3, <2>4
<1>2. IInv /\ [Next]_vars => [Forward]_vars
  BY <1>1
<1>3. QED
  BY Invariance, <1>2, PTL DEF VersionsDoNotGoBack, Spec

=============================================================================
