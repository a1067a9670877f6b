----------------------------- MODULE OrderSync -----------------------------
(***************************************************************************)
(* How normalized_orders follows the source databases: planSync's          *)
(* watermarks (store.go), the reads of readShein and readTemu and the      *)
(* order of the steps of Run (syncer.go), and the transaction per shop of  *)
(* upsertSourceBatch.                                                      *)
(*                                                                         *)
(* A row of a source has a version, which is all an update changes here,   *)
(* and a stamp, its updated_at.  Sources are written by other programs: a  *)
(* row is stamped when its writer starts and can be read only when the     *)
(* writer commits, up to Lateness later.  The place of an order, its       *)
(* warehouse, comes from tables the query joins and changes without a      *)
(* stamp.  A read delivers the rows whose stamp is not before a watermark, *)
(* and an order is never deleted.                                          *)
(*                                                                         *)
(* Temu answers with orders and lines in one statement.  SHEIN is asked    *)
(* for the orders, by id, and then for the lines; a connection that breaks *)
(* under the orders ends them without an error.                            *)
(***************************************************************************)
EXTENDS Integers, FiniteSets

CONSTANTS
  Shop,       \* the shops, each with a source
  Shein,      \* those read with two statements
  Order,      \* orders, by their id in the source
  Blank,      \* places and prices that say nothing: '' and NULL
  Overlap,    \* the five minutes planSync takes off a watermark
  Lateness,   \* how long a writer of a source may take to commit
  NoTime,     \* no watermark: read everything
  NoBatch,    \* a shop whose source has not been read in this run
  MaxTime,    \* bound: the clock
  MaxVersion, \* bound: updates of one order
  MaxWrites,  \* bound: updates of all orders
  MaxMoves    \* bound: changes of a place, of all orders

ASSUME OrderSyncAssumption ==
  /\ Shein \subseteq Shop /\ Order \subseteq Nat /\ Blank \subseteq Nat
  /\ Overlap \in Nat /\ Lateness \in Nat /\ Lateness <= Overlap
  /\ NoTime \notin Int
  /\ MaxTime \in Nat /\ MaxVersion \in Nat /\ MaxWrites \in Nat /\ MaxMoves \in Nat

ASSUME NoBatchAssumption == \A found \in SUBSET Order : found # NoBatch

VARIABLES
  now,
  source,   \* source[shop][order]: the row a reader sees
  writing,  \* writing[shop][order]: the stamp of a writer that has not committed
  local,    \* normalized_orders, by shop and order
  todo,     \* the shops whose source this run has still to deal with
  since,    \* plan.Since, by shop
  batch,    \* batch[shop]: the orders read and not yet written
  lines,    \* lines[shop]: of which version of each order the lines read are
  image,    \* image[shop]: the rows of the source when the batch was read
  owed      \* history, owed[shop]: orders a read lost, and none has brought since

worldVars == <<now, source, writing>>
syncVars  == <<local, todo, since, batch, lines, image>>
vars == <<worldVars, syncVars, owed>>

\* A place is the number of changes of it; the price of a line is known by the
\* version that names it.
NoRow   == [version |-> 0, stamp |-> 0, place |-> 0]
NoRows  == [o \in Order |-> NoRow]
NoOrder == [version |-> 0, stamp |-> 0, place |-> 0, lines |-> 0, price |-> 0]

Row      == [version : Nat, stamp : Nat, place : Nat]
OrderRow == [version : Nat, stamp : Nat, place : Nat, lines : Nat, price : Nat]

Present(row) == row.version > 0

\* Seeded bug: no overlap.
WatermarkWithoutOverlap(rows) ==
  LET stamps == {rows[o].stamp : o \in {p \in Order : Present(rows[p])}}
  IN  IF stamps = {} THEN NoTime
      ELSE CHOOSE m \in stamps : \A x \in stamps : x <= m

\* MAX(source_updated_at) of a shop, less the overlap; none without an order.
Watermark(rows) ==
  LET stamps == {rows[o].stamp : o \in {p \in Order : Present(rows[p])}}
  IN  IF stamps = {} THEN NoTime
      ELSE (CHOOSE m \in stamps : \A x \in stamps : x <= m) - Overlap

\* The orders a query with this watermark selects.
Due(rows, mark) ==
  { o \in Order : Present(rows[o]) /\ (mark # NoTime => rows[o].stamp >= mark) }

\* A place or price that says nothing does not replace the one that is stored.
Kept(new, old) == IF new \in Blank THEN old ELSE new

\* An order and its lines stored over the row that is there.
Stored(old, row, version) ==
  [version |-> row.version, stamp |-> row.stamp, place |-> Kept(row.place, old.place),
   lines |-> version, price |-> Kept(version, old.price)]

----------------------------------------------------------------------------

Init ==
  /\ now = 0
  /\ source = [s \in Shop |-> NoRows]
  /\ writing = [s \in Shop |-> [o \in Order |-> NoTime]]
  /\ local = [s \in Shop |-> [o \in Order |-> NoOrder]]
  /\ todo = {}
  /\ since = [s \in Shop |-> NoTime]
  /\ batch = [s \in Shop |-> NoBatch]
  /\ lines = [s \in Shop |-> NoBatch]
  /\ image = [s \in Shop |-> NoRows]
  /\ owed = [s \in Shop |-> {}]

\* The updates of a row that were committed or are under way, and of all rows.
WritesOf(s, o) ==
  {s} \X {o} \X (1 .. IF writing[s][o] = NoTime THEN source[s][o].version
                      ELSE source[s][o].version + 1)

Writes == UNION {WritesOf(s, o) : s \in Shop, o \in Order}

PlacesOf(s, o) == {s} \X {o} \X (1 .. source[s][o].place)

\* Another program writes a row of the source.
StartsWriting(s, o) ==
  /\ writing[s][o] = NoTime
  /\ source[s][o].version < MaxVersion
  /\ Cardinality(Writes) < MaxWrites
  /\ writing' = [writing EXCEPT ![s][o] = now]
  /\ UNCHANGED <<now, source, syncVars, owed>>

CommitsWriting(s, o) ==
  /\ writing[s][o] # NoTime
  /\ source' = [source EXCEPT ![s][o] =
       [version |-> source[s][o].version + 1, stamp |-> writing[s][o],
        place |-> source[s][o].place]]
  /\ writing' = [writing EXCEPT ![s][o] = NoTime]
  /\ UNCHANGED <<now, syncVars, owed>>

\* Another warehouse is chosen for an order, in a table the query joins.
Moves(s, o) ==
  /\ Present(source[s][o])
  /\ Cardinality(UNION {PlacesOf(q, p) : q \in Shop, p \in Order}) < MaxMoves
  /\ source' = [source EXCEPT ![s][o] =
       [version |-> source[s][o].version, stamp |-> source[s][o].stamp,
        place |-> source[s][o].place + 1]]
  /\ UNCHANGED <<now, writing, syncVars, owed>>

\* Writers are never later than Lateness.
Tick ==
  /\ now < MaxTime
  /\ \A s \in Shop, o \in Order :
       writing[s][o] # NoTime => now + 1 <= writing[s][o] + Lateness
  /\ now' = now + 1
  /\ UNCHANGED <<source, writing, syncVars, owed>>

\* planSync: no run is under way.  A full sync has no watermark; an
\* incremental one has one for each shop that has orders, and is planned only
\* when some shop has.
Plan(full) ==
  /\ todo = {}
  /\ full \/ \E s \in Shop, o \in Order : Present(local[s][o])
  /\ todo' = Shop
  /\ since' = [s \in Shop |-> IF full THEN NoTime ELSE Watermark(local[s])]
  /\ UNCHANGED <<worldVars, local, batch, lines, image, owed>>

\* The orders of a source, as a query finds them.  Run deals with one source
\* after the other; which one comes first makes no difference here.
ReadsOrders(s, found) ==
  /\ s \in todo
  /\ \A q \in Shop : batch[q] = NoBatch
  /\ batch' = [batch EXCEPT ![s] = found]
  /\ image' = [image EXCEPT ![s] = source[s]]
  /\ UNCHANGED <<worldVars, local, todo, since, owed>>

\* readTemu: one statement for orders and lines; one that breaks is an error.
ReadTemu(s) ==
  /\ s \notin Shein
  /\ ReadsOrders(s, Due(source[s], since[s]))
  /\ lines' = [lines EXCEPT ![s] = [o \in Order |-> source[s][o].version]]

\* readShein, the first statement.  rows.Next ends the same way after the last
\* row and when the connection breaks, rows.Close has nothing left to report,
\* and nobody asks rows.Err: the orders may stop before any id.
ReadSheinOrders(s) ==
  /\ s \in Shein
  /\ \/ ReadsOrders(s, Due(source[s], since[s]))
     \/ \E end \in Due(source[s], since[s]) :
          ReadsOrders(s, {o \in Due(source[s], since[s]) : o < end})
  /\ UNCHANGED lines

\* The second statement: the source may have changed.  It selects every order of
\* the batch, whose stamp can only have grown.
ReadSheinLines(s) ==
  /\ s \in Shein
  /\ batch[s] # NoBatch
  /\ lines[s] = NoBatch
  /\ lines' = [lines EXCEPT ![s] = [o \in Order |-> source[s][o].version]]
  /\ UNCHANGED <<worldVars, local, todo, since, batch, image, owed>>

\* What the run knows of a shop is gone when it has dealt with it.
Drops(shops) ==
  /\ todo' = todo \ shops
  /\ since' = [s \in Shop |-> IF s \in shops THEN NoTime ELSE since[s]]
  /\ batch' = [s \in Shop |-> IF s \in shops THEN NoBatch ELSE batch[s]]
  /\ lines' = [s \in Shop |-> IF s \in shops THEN NoBatch ELSE lines[s]]
  /\ image' = [s \in Shop |-> IF s \in shops THEN NoRows ELSE image[s]]

\* upsertSourceBatch, committed; lines of an order that was not read are skipped.
Upsert(s) ==
  /\ s \in todo
  /\ batch[s] # NoBatch
  /\ lines[s] # NoBatch
  /\ local' = [local EXCEPT ![s] = [o \in Order |->
       IF o \in batch[s] THEN Stored(local[s][o], image[s][o], lines[s][o])
       ELSE local[s][o]]]
  /\ Drops({s})
  /\ owed' = [owed EXCEPT ![s] = (@ \cup Due(image[s], since[s])) \ batch[s]]
  /\ UNCHANGED worldVars

\* A statement fails, one order of the batch cannot be parsed, or the
\* transaction is rolled back; the run goes on with the other shops.
ShopFails(s) ==
  /\ s \in todo
  /\ Drops({s})
  /\ UNCHANGED <<worldVars, local, owed>>

\* The process stops and starts.
Restart ==
  /\ todo # {}
  /\ Drops(Shop)
  /\ UNCHANGED <<worldVars, local, owed>>

Next ==
  \/ \E s \in Shop, o \in Order : StartsWriting(s, o)
  \/ \E s \in Shop, o \in Order : CommitsWriting(s, o)
  \/ \E s \in Shop, o \in Order : Moves(s, o)
  \/ Tick
  \/ \E full \in BOOLEAN : Plan(full)
  \/ \E s \in Shop : ReadTemu(s)
  \/ \E s \in Shop : ReadSheinOrders(s)
  \/ \E s \in Shop : ReadSheinLines(s)
  \/ \E s \in Shop : Upsert(s)
  \/ \E s \in Shop : ShopFails(s)
  \/ Restart

Spec == Init /\ [][Next]_vars

----------------------------------------------------------------------------
\* Properties.

\* Every variable has its type; a batch belongs to the run that is under way.
TypeOK ==
  /\ now \in Nat
  /\ source \in [Shop -> [Order -> Row]]
  /\ writing \in [Shop -> [Order -> Nat \cup {NoTime}]]
  /\ local \in [Shop -> [Order -> OrderRow]]
  /\ todo \subseteq Shop
  /\ since \in [Shop -> Int \cup {NoTime}]
  /\ batch \in [Shop -> (SUBSET Order) \cup {NoBatch}]
  /\ \A s \in Shop : /\ batch[s] # NoBatch => s \in todo
                     /\ lines[s] # NoBatch => batch[s] # NoBatch
  /\ lines \in [Shop -> [Order -> Nat] \cup {NoBatch}]
  /\ image \in [Shop -> [Order -> Row]]
  /\ owed \in [Shop -> SUBSET Order]

\* An update that the local order or its lines do not have yet is found by the
\* next sync: the watermark it will use is not after the stamp of the order.
\* Rows that became visible late, updates between the two statements of SHEIN,
\* reads that broke, other shops failing and runs cut short do not change that;
\* only an order that a broken read has lost may have to wait for a full sync.
NothingIsForgotten ==
  \A s \in Shop : \A o \in Order \ owed[s] :
    \/ local[s][o].version = source[s][o].version
       /\ local[s][o].lines = source[s][o].version
    \/ o \in Due(source[s], Watermark(local[s]))

\* Orders and their lines do not go back: no run, however it is mixed with
\* others that failed, replaces a version by an older one.
VersionsDoNotGoBack ==
  [][ \A s \in Shop, o \in Order :
        /\ local'[s][o].version >= local[s][o].version
        /\ local'[s][o].lines >= local[s][o].lines ]_vars

=============================================================================
