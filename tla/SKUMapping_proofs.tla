------------------------- MODULE SKUMapping_proofs -------------------------
(***************************************************************************)
(* What is true of a shop's mappings and lines for every number of SKUs,   *)
(* orders, accounts and PATCHes under way.  Three invariants are proved    *)
(* beside each other, each by induction with the types:                    *)
(*   LinesInv   what lines say of their mapping and their snapshot;        *)
(*   ClaimsInv  whatever is on its way to sku_mappings, in the listing or  *)
(*              in a PATCH that some account accepted, was at xlwms;       *)
(*   ListInv    a steady listing is, up to the account it has reached,     *)
(*              what xlwms has now.                                        *)
(***************************************************************************)
EXTENDS SKUMapping, TLAPS

\* A PATCH that is still asked of xlwms has a factor that xlwms can hold.
EditsAreWhole ==
  \A e \in Editor : edit[e] # None /\ edit[e].account # 0 => Whole(edit[e].pair.factor)

TypeInv == TypeOK /\ EditsAreWhole

LinesInv == WarehouseQuantityFits /\ ManualReachesEveryLine /\ LinesFollowSnapshot

ListedWereAccepted ==
  \A s \in SKU :
    /\ \A a \in Accounts : remote[a][s] # None => remote[a][s] \in accepted[s]
    /\ listed[s] # None => listed[s] \in accepted[s]

EditsWereAccepted ==
  Temu => \A e \in Editor :
    edit[e] # None /\ edit[e].account = 0 => edit[e].pair \in accepted[edit[e].sku]

ClaimsInv == ClaimsWereAccepted /\ ListedWereAccepted /\ EditsWereAccepted

\* What a listing that has gone through the accounts below n says of s.
ListedBelow(n, s) ==
  \/ /\ listed[s] = None
     /\ \A a \in Accounts : a < n => remote[a][s] = None
  \/ \E a \in Accounts :
       /\ a < n /\ remote[a][s] # None /\ listed[s] = remote[a][s]
       /\ \A b \in Accounts : a < b /\ b < n => remote[b][s] = None

ListInv == steady /\ listing # 0 => \A s \in SKU : ListedBelow(listing, s)

----------------------------------------------------------------------------
\* Operators.

LEMMA WholeIsKept ==
  ASSUME NEW pair \in Pair, Whole(pair.factor)
  PROVE  Truncated(pair) = pair
<1> USE SKUMappingAssumption
<1>1. pair.factor \in Nat /\ Unit \in Nat \ {0}
  BY DEF Pair
<1>2. (pair.factor \div Unit) * Unit = pair.factor
  BY <1>1 DEF Whole
<1>3. QED
  BY <1>2 DEF Truncated, Pair

LEMMA UpsertedType ==
  ASSUME NEW m \in Mapping \cup {None}, NEW w \in WarehouseSKU
  PROVE  /\ Upserted(m, w) \in Mapping
         /\ Upserted(m, w) # None
         /\ Protected(m) <=> Protected(Upserted(m, w))
         /\ Protected(m) => Upserted(m, w) = m
<1> USE SKUMappingAssumption
<1>1. MappingTo([warehouse |-> w, factor |-> Unit], "source") \in Mapping
  BY DEF MappingTo, Mapping
<1>2. ~ Protected(MappingTo([warehouse |-> w, factor |-> Unit], "source"))
  BY DEF Protected, MappingTo
<1>3. None \notin Mapping
  BY DEF Mapping
<1>4. Protected(m) => m \in Mapping
  BY DEF Protected
<1>5. QED
  BY <1>1, <1>2, <1>3, <1>4 DEF Upserted

LEMMA MappingToType ==
  ASSUME NEW pair \in Pair, NEW status \in {"source", "mapped", "manual"}
  PROVE  /\ MappingTo(pair, status) \in Mapping
         /\ MappingTo(pair, status) # None
         /\ PairOf(MappingTo(pair, status)) = pair
         /\ MappingTo(pair, status).status = status
<1> USE SKUMappingAssumption
<1>1. MappingTo(pair, status) \in Mapping
  BY DEF MappingTo, Mapping, Pair
<1>2. QED
  BY <1>1 DEF MappingTo, Mapping, Pair, PairOf

LEMMA LineTypes ==
  ASSUME NEW line \in Line \cup {None}
  PROVE  /\ LeftOut(line) \in Line \cup {None}
         /\ \A s \in SKU, pair \in Pair : Remapped(line, s, pair) \in Line \cup {None}
         /\ \A item \in SourceLine, m \in Mapping : UpsertedLine(item, m) \in Line
<1> USE SKUMappingAssumption
<1>1. LeftOut(line) \in Line \cup {None}
  BY DEF LeftOut, Line
<1>2. ASSUME NEW s \in SKU, NEW pair \in Pair
      PROVE  Remapped(line, s, pair) \in Line \cup {None}
  <2>1. CASE line # None /\ line.sku = s
    <3>1. line.quantity \in Nat /\ pair.factor \in Nat
      BY <2>1 DEF Line, Pair
    <3>2. line.quantity * pair.factor \in Nat
      BY <3>1
    <3>3. QED
      BY <2>1, <3>2 DEF Remapped, Line, Pair
  <2>2. QED
    BY <2>1 DEF Remapped
<1>3. ASSUME NEW item \in SourceLine, NEW m \in Mapping
      PROVE  UpsertedLine(item, m) \in Line
  <2>1. item.quantity \in Nat /\ m.factor \in Nat
    BY DEF SourceLine, Mapping
  <2>2. item.quantity * m.factor \in Nat
    BY <2>1
  <2>3. QED
    BY <2>1, <2>2 DEF UpsertedLine, SourceLine, Mapping, Line
<1>4. QED
  BY <1>1, <1>2, <1>3

\* The mappings and lines of a batch, without its LET.
LEMMA BatchEffect ==
  ASSUME TypeOK, NEW o \in Order, NEW items \in [LineKey -> SourceLine \cup {None}],
         NEW suggested \in [SKU -> WarehouseSKU], OrderBatch(o, items, suggested)
  PROVE  /\ DOMAIN mapping' = SKU /\ mapping' = [s \in SKU |-> mapping'[s]]
         /\ \A s \in SKU : \/ mapping'[s] = mapping[s]
                           \/ mapping'[s] = Upserted(mapping[s], suggested[s])
         /\ \A k \in LineKey : items[k] # None =>
              /\ items[k].sku \in SKU
              /\ mapping'[items[k].sku]
                   = Upserted(mapping[items[k].sku], suggested[items[k].sku])
         /\ lines' = [lines EXCEPT ![o] = [k \in LineKey |->
              IF items[k] # None THEN UpsertedLine(items[k], mapping'[items[k].sku])
              ELSE LeftOut(lines[o][k])]]
         /\ shown' = [shown EXCEPT ![o] = items]
<1> DEFINE named == {items[k].sku : k \in {j \in LineKey : items[j] # None}}
           upserted == [s \in SKU |-> IF s \in named THEN Upserted(mapping[s], suggested[s])
                                      ELSE mapping[s]]
<1>1. mapping' = upserted
  BY DEF OrderBatch
<1>2. \A k \in LineKey : items[k] # None => items[k].sku \in named /\ items[k].sku \in SKU
  BY DEF SourceLine
<1>3. lines' = [lines EXCEPT ![o] = [k \in LineKey |->
        IF items[k] # None THEN UpsertedLine(items[k], upserted[items[k].sku])
        ELSE LeftOut(lines[o][k])]]
  BY DEF OrderBatch
<1>4. shown' = [shown EXCEPT ![o] = items]
  BY DEF OrderBatch
<1>5. DOMAIN upserted = SKU /\ upserted = [s \in SKU |-> upserted[s]]
      /\ \A s \in SKU : upserted[s] =
        IF s \in named THEN Upserted(mapping[s], suggested[s]) ELSE mapping[s]
  OBVIOUS
<1> HIDE DEF named, upserted
<1>6. lines' = [lines EXCEPT ![o] = [k \in LineKey |->
        IF items[k] # None THEN UpsertedLine(items[k], mapping'[items[k].sku])
        ELSE LeftOut(lines[o][k])]]
  BY <1>1, <1>3
<1>7. /\ \A s \in SKU : \/ mapping'[s] = mapping[s]
                        \/ mapping'[s] = Upserted(mapping[s], suggested[s])
      /\ \A k \in LineKey : items[k] # None =>
           mapping'[items[k].sku] = Upserted(mapping[items[k].sku], suggested[items[k].sku])
  BY <1>1, <1>2, <1>5
<1>8. QED
  BY <1>1, <1>2, <1>4, <1>5, <1>6, <1>7

----------------------------------------------------------------------------
\* Types.

LEMMA InitType == Init => TypeInv
<1> SUFFICES ASSUME Init PROVE TypeInv
  OBVIOUS
<1>1. mapping \in [SKU -> Mapping \cup {None}] /\ listed \in [SKU -> Pair \cup {None}]
  BY DEF Init
<1>2. lines \in [Order -> [LineKey -> Line \cup {None}]]
  BY DEF Init
<1>3. remote \in [Accounts -> [SKU -> Pair \cup {None}]]
  BY DEF Init
<1>4. shown \in [Order -> [LineKey -> SourceLine \cup {None}]]
  BY DEF Init
<1>5. /\ edit \in [Editor -> Edit \cup {None}]
      /\ \A e \in Editor : edit[e] = None
  BY DEF Init
<1>6. accepted \in [SKU -> SUBSET Pair] /\ steady \in BOOLEAN
  BY DEF Init
<1>7. listing \in 0 .. Len(Account) + 1
  BY SKUMappingAssumption DEF Init
<1>8. QED
  BY <1>1, <1>2, <1>3, <1>4, <1>5, <1>6, <1>7 DEF TypeInv, TypeOK, EditsAreWhole

LEMMA RemotelyType ==
  ASSUME TypeOK, NEW a \in Accounts, NEW s \in SKU, NEW pair \in Pair \cup {None},
         Remotely(a, s, pair)
  PROVE  /\ remote' \in [Accounts -> [SKU -> Pair \cup {None}]]
         /\ accepted' \in [SKU -> SUBSET Pair]
         /\ steady' \in BOOLEAN
<1>1. remote' \in [Accounts -> [SKU -> Pair \cup {None}]]
  BY DEF TypeOK, Remotely
<1>2. accepted' = [accepted EXCEPT ![s] = IF pair = None THEN accepted[s]
                                          ELSE accepted[s] \cup {pair}]
  BY DEF Remotely
<1>3. accepted' \in [SKU -> SUBSET Pair]
  BY <1>2 DEF TypeOK
<1>4. QED
  BY <1>1, <1>3 DEF Remotely

\* What an account stores is the pairing it was asked for.
LEMMA AskedPair ==
  ASSUME TypeInv, NEW e \in Editor, edit[e] # None, edit[e].account # 0
  PROVE  /\ edit[e].account \in Accounts /\ edit[e].sku \in SKU
         /\ edit[e].pair \in Pair /\ Truncated(edit[e].pair) = edit[e].pair
<1>1. edit[e] \in Edit
  BY DEF TypeInv, TypeOK
<1>2. edit[e].account \in 0 .. Len(Account) /\ Whole(edit[e].pair.factor)
  BY DEF TypeInv, TypeOK, EditsAreWhole
<1>3. edit[e].pair \in Pair /\ edit[e].sku \in SKU
  BY <1>1 DEF Edit
<1>4. edit[e].account \in Accounts
  BY <1>2, SKUMappingAssumption DEF Accounts
<1>5. QED
  BY <1>2, <1>3, <1>4, WholeIsKept

LEMMA TriedType ==
  ASSUME TypeInv, NEW e \in Editor, edit[e] # None, edit[e].account # 0, Tried(e)
  PROVE  /\ edit' \in [Editor -> Edit \cup {None}]
         /\ \A d \in Editor : edit'[d] # None => edit'[d].account \in 0 .. Len(Account)
         /\ EditsAreWhole'
         /\ \A d \in Editor : edit'[d] # None /\ edit'[d].account = 0
              => edit'[d] = edit[d]
<1> DEFINE later == [edit[e] EXCEPT !.account = edit[e].account + 1]
<1>1. edit[e] \in Edit /\ edit[e].account \in 1 .. Len(Account)
  BY SKUMappingAssumption DEF TypeInv, TypeOK
<1>2. edit' = [edit EXCEPT ![e] = IF edit[e].account < Len(Account) THEN later ELSE None]
  BY DEF Tried
<1>3. /\ later \in Edit /\ later.account = edit[e].account + 1
      /\ later.pair = edit[e].pair
  BY <1>1 DEF Edit
<1>4. edit[e].account < Len(Account) =>
        later.account \in 1 .. Len(Account) /\ Whole(later.pair.factor)
  BY <1>1, <1>3, SKUMappingAssumption DEF TypeInv, EditsAreWhole
<1> HIDE DEF later
<1>5. \A d \in Editor :
        edit'[d] = IF d # e THEN edit[d]
                   ELSE IF edit[e].account < Len(Account) THEN later ELSE None
  BY <1>2 DEF TypeInv, TypeOK
<1>6. edit' \in [Editor -> Edit \cup {None}]
  BY <1>2, <1>3 DEF TypeInv, TypeOK
<1>7. \A d \in Editor : edit'[d] # None => edit'[d].account \in 0 .. Len(Account)
  BY <1>4, <1>5, SKUMappingAssumption DEF TypeInv, TypeOK
<1>8. EditsAreWhole'
  BY <1>4, <1>5 DEF TypeInv, EditsAreWhole
<1>9. \A d \in Editor : edit'[d] # None /\ edit'[d].account = 0 => edit'[d] = edit[d]
  BY <1>4, <1>5, SKUMappingAssumption
<1>10. QED
  BY <1>6, <1>7, <1>8, <1>9

LEMMA NextType == TypeInv /\ [Next]_vars => TypeInv'
<1> SUFFICES ASSUME TypeInv, [Next]_vars PROVE TypeInv'
  OBVIOUS
<1> USE SKUMappingAssumption
<1>t. TypeOK
  BY DEF TypeInv
<1>1. ASSUME NEW o \in Order, NEW items \in [LineKey -> SourceLine \cup {None}],
             NEW suggested \in [SKU -> WarehouseSKU], OrderBatch(o, items, suggested)
      PROVE  TypeInv'
  <2>1. \A s \in SKU : mapping[s] \in Mapping \cup {None} /\ suggested[s] \in WarehouseSKU
    BY <1>t DEF TypeOK
  <2>2. \A s \in SKU : Upserted(mapping[s], suggested[s]) \in Mapping
    BY <2>1, UpsertedType
  <2>3. mapping' \in [SKU -> Mapping \cup {None}]
    BY <1>t, <1>1, <2>1, <2>2, BatchEffect
  <2>4. \A k \in LineKey :
          /\ items[k] # None => UpsertedLine(items[k], mapping'[items[k].sku]) \in Line
          /\ LeftOut(lines[o][k]) \in Line \cup {None}
    <3> TAKE k \in LineKey
    <3>1. lines[o][k] \in Line \cup {None}
      BY <1>t DEF TypeOK
    <3>2. items[k] # None => items[k] \in SourceLine
      OBVIOUS
    <3>3. items[k] # None => mapping'[items[k].sku] \in Mapping
      BY <1>t, <1>1, <2>2, BatchEffect
    <3>4. QED
      BY <3>1, <3>2, <3>3, LineTypes
  <2> DEFINE row == [k \in LineKey |->
               IF items[k] # None THEN UpsertedLine(items[k], mapping'[items[k].sku])
               ELSE LeftOut(lines[o][k])]
  <2>5. row \in [LineKey -> Line \cup {None}]
    BY <2>4
  <2>6. lines' = [lines EXCEPT ![o] = row] /\ shown' = [shown EXCEPT ![o] = items]
    BY <1>t, <1>1, BatchEffect
  <2> HIDE DEF row
  <2>7. lines' \in [Order -> [LineKey -> Line \cup {None}]]
    BY <1>t, <2>5, <2>6 DEF TypeOK
  <2>8. shown' \in [Order -> [LineKey -> SourceLine \cup {None}]]
    BY <1>t, <2>6 DEF TypeOK
  <2>9. UNCHANGED <<remote, listing, listed, edit, accepted, steady>>
    BY <1>1 DEF OrderBatch
  <2>10. QED
    BY <2>3, <2>7, <2>8, <2>9 DEF TypeInv, TypeOK, EditsAreWhole
<1>2. CASE BeginListing
  BY <1>2 DEF BeginListing, TypeInv, TypeOK, EditsAreWhole
<1>3. CASE ListAccount
  BY <1>3 DEF ListAccount, TypeInv, TypeOK, EditsAreWhole, Accounts
<1>4. CASE Apply
  <2>1. \A s \in SKU : Applied(mapping[s], listed[s]) \in Mapping \cup {None}
    BY <1>t, MappingToType DEF TypeOK, Applied
  <2>2. QED
    BY <1>4, <2>1 DEF Apply, TypeInv, TypeOK, EditsAreWhole
<1>5. CASE ListingFails
  BY <1>5 DEF ListingFails, TypeInv, TypeOK, EditsAreWhole
<1>6. ASSUME NEW e \in Editor, EditStep(e)
      PROVE  TypeInv'
  <2>1. ASSUME NEW s \in SKU, NEW pair \in Pair, StartEdit(e, s, pair)
        PROVE  TypeInv'
    <3> DEFINE new == [sku |-> s, pair |-> pair, account |-> IF Temu THEN 1 ELSE 0]
    <3>1. new \in Edit /\ new.account \in 0 .. Len(Account)
      BY DEF Edit
    <3>2. new.account # 0 => Whole(new.pair.factor)
      BY <2>1 DEF StartEdit
    <3>3. edit' = [edit EXCEPT ![e] = new]
      BY <2>1 DEF StartEdit
    <3> HIDE DEF new
    <3>4. edit' \in [Editor -> Edit \cup {None}]
      BY <1>t, <3>1, <3>3 DEF TypeOK
    <3>5. \A d \in Editor : edit'[d] = IF d = e THEN new ELSE edit[d]
      BY <1>t, <3>3 DEF TypeOK
    <3>6. QED
      BY <2>1, <3>1, <3>2, <3>4, <3>5 DEF StartEdit, TypeInv, TypeOK, EditsAreWhole
  <2>2. CASE Accepts(e)
    <3>1. edit[e] # None /\ edit[e].account # 0
      BY <2>2 DEF Accepts
    <3>2. Remotely(edit[e].account, edit[e].sku, edit[e].pair)
      BY <2>2, <3>1, AskedPair DEF Accepts
    <3>3. /\ remote' \in [Accounts -> [SKU -> Pair \cup {None}]]
          /\ accepted' \in [SKU -> SUBSET Pair] /\ steady' \in BOOLEAN
      BY <1>t, <3>1, <3>2, AskedPair, RemotelyType
    <3>4. edit[e] \in Edit
      BY <1>t, <3>1 DEF TypeOK
    <3>5. edit' = [edit EXCEPT ![e] = [edit[e] EXCEPT !.account = 0]]
      BY <2>2 DEF Accepts
    <3>6. [edit[e] EXCEPT !.account = 0] \in Edit
          /\ [edit[e] EXCEPT !.account = 0].account = 0
      BY <3>4 DEF Edit
    <3>7. edit' \in [Editor -> Edit \cup {None}]
      BY <1>t, <3>5, <3>6 DEF TypeOK
    <3>8. \A d \in Editor : IF d = e THEN edit'[d].account = 0 ELSE edit'[d] = edit[d]
      BY <1>t, <3>5, <3>6 DEF TypeOK
    <3>9. QED
      BY <2>2, <3>3, <3>7, <3>8 DEF Accepts, TypeInv, TypeOK, EditsAreWhole
  <2>3. CASE Rejects(e)
    BY <2>3, TriedType DEF Rejects, TypeInv, TypeOK
  <2>4. CASE AnswerIsLost(e)
    <3>1. edit[e] # None /\ edit[e].account # 0
      BY <2>4 DEF AnswerIsLost
    <3>2. Remotely(edit[e].account, edit[e].sku, edit[e].pair)
      BY <2>4, <3>1, AskedPair DEF AnswerIsLost
    <3>3. /\ remote' \in [Accounts -> [SKU -> Pair \cup {None}]]
          /\ accepted' \in [SKU -> SUBSET Pair] /\ steady' \in BOOLEAN
      BY <1>t, <3>1, <3>2, AskedPair, RemotelyType
    <3>4. QED
      BY <2>4, <3>1, <3>3, TriedType DEF AnswerIsLost, TypeInv, TypeOK
  <2>5. CASE StoreEdit(e)
    <3>1. edit[e] \in Edit
      BY <1>t, <2>5 DEF StoreEdit, TypeOK
    <3>2. edit[e].sku \in SKU /\ edit[e].pair \in Pair
      BY <3>1 DEF Edit
    <3>3. mapping' \in [SKU -> Mapping \cup {None}]
      BY <1>t, <2>5, <3>2, MappingToType DEF StoreEdit, TypeOK
    <3>4. \A o \in Order, k \in LineKey :
            Remapped(lines[o][k], edit[e].sku, edit[e].pair) \in Line \cup {None}
      <4> TAKE o \in Order, k \in LineKey
      <4>1. lines[o][k] \in Line \cup {None}
        BY <1>t DEF TypeOK
      <4>2. QED
        BY <3>2, <4>1, LineTypes
    <3>5. lines' \in [Order -> [LineKey -> Line \cup {None}]]
      BY <1>t, <2>5, <3>4 DEF StoreEdit, TypeOK
    <3>6. QED
      BY <2>5, <3>3, <3>5 DEF StoreEdit, TypeInv, TypeOK, EditsAreWhole
  <2>6. CASE EditIsCutShort(e)
    BY <2>6 DEF EditIsCutShort, TypeInv, TypeOK, EditsAreWhole
  <2>7. QED
    BY <1>6, <2>1, <2>2, <2>3, <2>4, <2>5, <2>6 DEF EditStep
<1>7. ASSUME NEW a \in Accounts, NEW s \in SKU, NEW pair \in Pair \cup {None},
             RemoteEdit(a, s, pair)
      PROVE  TypeInv'
  BY <1>t, <1>7, RemotelyType DEF RemoteEdit, TypeInv, TypeOK, EditsAreWhole
<1>8. CASE UNCHANGED vars
  BY <1>8 DEF vars, TypeInv, TypeOK, EditsAreWhole
<1>9. QED
  BY <1>1, <1>2, <1>3, <1>4, <1>5, <1>6, <1>7, <1>8 DEF Next

LEMMA TypeInvariant == Spec => []TypeInv
<1> QED
  BY InitType, NextType, PTL DEF Spec

\* The rows of the three tables, the listing and the PATCHes keep their types.
THEOREM TypeCorrect == Spec => []TypeOK
<1>1. TypeInv => TypeOK
  BY DEF TypeInv
<1> QED
  BY <1>1, TypeInvariant, PTL

----------------------------------------------------------------------------
\* Lines.

Manual(m) == m # None /\ m.status = "manual"

\* The part of LinesInv that is about one line.
LineInv(line, map, item) ==
  line # None =>
    /\ line.warehouseQuantity = line.quantity * line.factor
    /\ Manual(map[line.sku]) => PairOf(line) = PairOf(map[line.sku])
    /\ Temu => line.quantity = IF item = None THEN 0 ELSE item.quantity

LEMMA LinesInvByLine ==
  /\ LinesInv <=> \A o \in Order, k \in LineKey :
                    LineInv(lines[o][k], mapping, shown[o][k])
  /\ LinesInv' <=> \A o \in Order, k \in LineKey :
                     LineInv(lines'[o][k], mapping', shown'[o][k])
BY Zenon DEF LinesInv, LineInv, WarehouseQuantityFits, ManualReachesEveryLine,
   LinesFollowSnapshot, Manual

\* A line keeps LineInv when no row of its SKU becomes manual or, being manual,
\* changes.
LEMMA LineInvKept ==
  ASSUME NEW line \in Line \cup {None}, NEW item, NEW map, NEW map2,
         LineInv(line, map, item),
         \A s \in SKU : Manual(map2[s]) => map2[s] = map[s]
  PROVE  LineInv(line, map2, item)
<1>1. line # None => line.sku \in SKU
  BY DEF Line
<1>2. QED
  BY <1>1 DEF LineInv

LEMMA InitLines == Init => LinesInv
BY DEF Init, LinesInv, WarehouseQuantityFits, ManualReachesEveryLine, LinesFollowSnapshot

LEMMA BatchLines ==
  ASSUME TypeOK, LinesInv, NEW o \in Order,
         NEW items \in [LineKey -> SourceLine \cup {None}],
         NEW suggested \in [SKU -> WarehouseSKU], OrderBatch(o, items, suggested)
  PROVE  LinesInv'
<1> USE SKUMappingAssumption
<1>1. \A s \in SKU :
        /\ Upserted(mapping[s], suggested[s]) \in Mapping
        /\ Protected(mapping[s]) <=> Protected(Upserted(mapping[s], suggested[s]))
        /\ Protected(mapping[s]) => Upserted(mapping[s], suggested[s]) = mapping[s]
  <2> TAKE s \in SKU
  <2>1. mapping[s] \in Mapping \cup {None} /\ suggested[s] \in WarehouseSKU
    BY DEF TypeOK
  <2>2. QED
    BY <2>1, UpsertedType
<1>2. \A m : Manual(m) => Protected(m)
  BY DEF Manual, Protected
<1>3. \A s \in SKU : Manual(mapping'[s]) => mapping'[s] = mapping[s]
  <2> TAKE s \in SKU
  <2>1. CASE mapping'[s] = mapping[s]
    BY <2>1
  <2>2. CASE mapping'[s] = Upserted(mapping[s], suggested[s])
    BY <1>1, <1>2, <2>2
  <2>3. QED
    BY <2>1, <2>2, BatchEffect
<1>4. ASSUME NEW p \in Order, NEW k \in LineKey
      PROVE  LineInv(lines'[p][k], mapping', shown'[p][k])
  <2>1. lines[p][k] \in Line \cup {None} /\ LineInv(lines[p][k], mapping, shown[p][k])
    BY LinesInvByLine DEF TypeOK
  <2>2. LineInv(lines[p][k], mapping', shown[p][k])
    BY <1>3, <2>1, LineInvKept
  <2>3. lines'[p][k] = IF p # o THEN lines[p][k]
                       ELSE IF items[k] # None
                         THEN UpsertedLine(items[k], mapping'[items[k].sku])
                         ELSE LeftOut(lines[o][k])
    <3> DEFINE row == [j \in LineKey |->
                 IF items[j] # None THEN UpsertedLine(items[j], mapping'[items[j].sku])
                 ELSE LeftOut(lines[o][j])]
    <3>1. lines' = [lines EXCEPT ![o] = row]
      BY BatchEffect
    <3>2. row[k] = IF items[k] # None
                   THEN UpsertedLine(items[k], mapping'[items[k].sku])
                   ELSE LeftOut(lines[o][k])
      OBVIOUS
    <3> HIDE DEF row
    <3>3. lines'[p] = IF p # o THEN lines[p] ELSE row
      BY <3>1 DEF TypeOK
    <3>4. QED
      BY <3>2, <3>3
  <2>4. shown'[p][k] = IF p # o THEN shown[p][k] ELSE items[k]
    BY BatchEffect DEF TypeOK
  <2>5. CASE p # o
    BY <2>2, <2>3, <2>4, <2>5
  <2>6. CASE p = o /\ items[k] # None
    <3>1. items[k] \in SourceLine /\ mapping'[items[k].sku] \in Mapping
      BY <1>1, <2>6, BatchEffect
    <3> DEFINE m == mapping'[items[k].sku]
    <3>2. lines'[p][k] = UpsertedLine(items[k], m)
      BY <2>3, <2>6
    <3>3. /\ lines'[p][k].sku = items[k].sku
          /\ lines'[p][k].quantity = items[k].quantity
          /\ lines'[p][k].factor = m.factor /\ lines'[p][k].warehouse = m.warehouse
          /\ lines'[p][k].warehouseQuantity = items[k].quantity * m.factor
      BY <3>2 DEF UpsertedLine
    <3>4. PairOf(lines'[p][k]) = PairOf(mapping'[lines'[p][k].sku])
      BY <3>3 DEF PairOf
    <3>5. QED
      BY <2>4, <2>6, <3>3, <3>4 DEF LineInv
  <2>7. CASE p = o /\ items[k] = None
    <3>1. CASE ~ Temu \/ lines[o][k] = None
      BY <2>2, <2>3, <2>7, <3>1 DEF LeftOut, LineInv
    <3>2. CASE Temu /\ lines[o][k] # None
      <4> DEFINE line == lines[o][k]
      <4>1. line \in Line
        BY <2>1, <2>7, <3>2
      <4>2. lines'[p][k] = [line EXCEPT !.quantity = 0, !.warehouseQuantity = 0]
        BY <2>3, <2>7, <3>2 DEF LeftOut
      <4>3. /\ lines'[p][k].sku = line.sku
            /\ lines'[p][k].quantity = 0 /\ lines'[p][k].warehouseQuantity = 0
            /\ lines'[p][k].factor = line.factor
            /\ lines'[p][k].warehouse = line.warehouse
            /\ line.factor \in Nat
        BY <4>1, <4>2 DEF Line
      <4>4. PairOf(lines'[p][k]) = PairOf(line)
        BY <4>3 DEF PairOf
      <4>5. Manual(mapping'[line.sku]) => PairOf(line) = PairOf(mapping'[line.sku])
        BY <2>2, <2>7, <3>2 DEF LineInv
      <4>6. 0 = 0 * line.factor
        BY <4>3
      <4>7. QED
        BY <2>4, <2>7, <4>3, <4>4, <4>5, <4>6 DEF LineInv
    <3>3. QED
      BY <3>1, <3>2
  <2>8. QED
    BY <2>5, <2>6, <2>7
<1>5. QED
  BY <1>4, LinesInvByLine

LEMMA StoreLines ==
  ASSUME TypeOK, LinesInv, NEW e \in Editor, StoreEdit(e)
  PROVE  LinesInv'
<1> DEFINE s == edit[e].sku
           pair == edit[e].pair
<1>1. s \in SKU /\ pair \in Pair
  <2>1. edit[e] \in Edit
    BY DEF StoreEdit, TypeOK
  <2>2. QED
    BY <2>1 DEF Edit
<1>2. CASE mapping[s] = None
  BY <1>2 DEF StoreEdit, LinesInv, WarehouseQuantityFits, ManualReachesEveryLine,
     LinesFollowSnapshot
<1>3. CASE mapping[s] # None
  <2>1. \A r \in SKU : mapping'[r] = IF r = s THEN MappingTo(pair, "manual")
                                     ELSE mapping[r]
    BY <1>3 DEF StoreEdit, TypeOK
  <2>2. shown' = shown
    BY DEF StoreEdit
  <2>3. ASSUME NEW o \in Order, NEW k \in LineKey
        PROVE  LineInv(lines'[o][k], mapping', shown[o][k])
    <3> DEFINE line == lines[o][k]
    <3>1. lines'[o][k] = Remapped(line, s, pair)
      BY <1>3 DEF StoreEdit, TypeOK
    <3>2. line \in Line \cup {None} /\ LineInv(line, mapping, shown[o][k])
      BY LinesInvByLine DEF TypeOK
    <3>3. CASE line # None /\ line.sku = s
      <4>1. lines'[o][k] = [line EXCEPT !.warehouse = pair.warehouse,
              !.factor = pair.factor, !.warehouseQuantity = line.quantity * pair.factor]
        BY <3>1, <3>3 DEF Remapped
      <4>2. /\ lines'[o][k].sku = s /\ lines'[o][k].quantity = line.quantity
            /\ lines'[o][k].warehouse = pair.warehouse
            /\ lines'[o][k].factor = pair.factor
            /\ lines'[o][k].warehouseQuantity = line.quantity * pair.factor
        BY <3>2, <3>3, <4>1 DEF Line
      <4>3. PairOf(lines'[o][k]) = PairOf(mapping'[s])
        BY <1>1, <2>1, <4>2 DEF PairOf, MappingTo
      <4> HIDE DEF s, pair, line
      <4>4. QED
        BY <3>2, <3>3, <4>2, <4>3 DEF LineInv
    <3>4. CASE ~ (line # None /\ line.sku = s)
      <4>1. lines'[o][k] = line
        BY <3>1, <3>4 DEF Remapped
      <4>2. line # None => line.sku \in SKU /\ mapping'[line.sku] = mapping[line.sku]
        BY <2>1, <3>2, <3>4 DEF Line
      <4> HIDE DEF s, pair, line
      <4>3. QED
        BY <3>2, <4>1, <4>2 DEF LineInv
    <3>5. QED
      BY <3>3, <3>4
  <2>4. QED
    BY <2>2, <2>3, LinesInvByLine
<1>4. QED
  BY <1>2, <1>3

LEMMA NextLines == TypeOK /\ LinesInv /\ [Next]_vars => LinesInv'
<1> SUFFICES ASSUME TypeOK, LinesInv, [Next]_vars PROVE LinesInv'
  OBVIOUS
<1>1. CASE UNCHANGED <<mapping, lines, shown>>
  BY <1>1 DEF LinesInv, WarehouseQuantityFits, ManualReachesEveryLine, LinesFollowSnapshot
<1>2. CASE Apply
  <2>1. \A s \in SKU : mapping'[s] = Applied(mapping[s], listed[s])
    BY <1>2 DEF Apply
  <2>2. \A s \in SKU : Manual(mapping'[s]) => mapping'[s] = mapping[s]
    <3>1. \A pair : ~ Manual(MappingTo(pair, "mapped"))
      BY DEF Manual, MappingTo
    <3>2. QED
      BY <2>1, <3>1 DEF Applied
  <2>3. UNCHANGED <<lines, shown>>
    BY <1>2 DEF Apply
  <2>4. ASSUME NEW o \in Order, NEW k \in LineKey
        PROVE  LineInv(lines[o][k], mapping', shown[o][k])
    <3>1. lines[o][k] \in Line \cup {None} /\ LineInv(lines[o][k], mapping, shown[o][k])
      BY LinesInvByLine DEF TypeOK
    <3>2. QED
      BY <2>2, <3>1, LineInvKept
  <2>5. QED
    BY <2>3, <2>4, LinesInvByLine
<1>3. ASSUME NEW e \in Editor, EditStep(e) PROVE LinesInv'
  BY <1>1, <1>3, StoreLines DEF EditStep, StartEdit, Accepts, Rejects, AnswerIsLost,
     EditIsCutShort
<1>4. QED
  BY <1>1, <1>2, <1>3, BatchLines DEF Next, BeginListing, ListAccount, ListingFails,
     RemoteEdit, vars

LEMMA LinesInvariant == Spec => []LinesInv
<1>1. TypeInv => TypeOK
  BY DEF TypeInv
<1> QED
  BY <1>1, InitLines, NextLines, TypeInvariant, PTL DEF Spec

\* The demand of every line is its quantity at its own factor.
THEOREM DemandFits == Spec => []WarehouseQuantityFits
<1>1. LinesInv => WarehouseQuantityFits
  BY DEF LinesInv
<1> QED
  BY <1>1, LinesInvariant, PTL

\* A mapping made by hand counts for every line of its SKU, also for those that
\* are written, moved to the SKU or left out later.
THEOREM ManualIsEverywhere == Spec => []ManualReachesEveryLine
<1>1. LinesInv => ManualReachesEveryLine
  BY DEF LinesInv
<1> QED
  BY <1>1, LinesInvariant, PTL

\* Temu lines count what the last snapshot of their order shows.
THEOREM SnapshotsCount == Spec => []LinesFollowSnapshot
<1>1. LinesInv => LinesFollowSnapshot
  BY DEF LinesInv
<1> QED
  BY <1>1, LinesInvariant, PTL

----------------------------------------------------------------------------
\* Claims.

LEMMA InitClaims == Init => ClaimsInv
BY DEF Init, ClaimsInv, ClaimsWereAccepted, ListedWereAccepted, EditsWereAccepted,
   Protected

\* What xlwms once held stays accepted; the pairing that it gets now is, too.
LEMMA RemotelyAccepted ==
  ASSUME TypeOK, ListedWereAccepted, NEW a \in Accounts, NEW s \in SKU,
         NEW pair \in Pair \cup {None}, Remotely(a, s, pair), UNCHANGED listed
  PROVE  /\ ListedWereAccepted'
         /\ \A r \in SKU : accepted[r] \subseteq accepted'[r]
         /\ pair # None => pair \in accepted'[s]
<1>1. \A r \in SKU : accepted'[r] = IF r = s /\ pair # None THEN accepted[s] \cup {pair}
                                    ELSE accepted[r]
  BY DEF Remotely, TypeOK
<1>2. \A b \in Accounts, r \in SKU :
        remote'[b][r] = IF b = a /\ r = s THEN pair ELSE remote[b][r]
  BY DEF Remotely, TypeOK
<1>3. QED
  BY <1>1, <1>2 DEF ListedWereAccepted

LEMMA NextClaims == TypeInv /\ ClaimsInv /\ [Next]_vars => ClaimsInv'
<1> SUFFICES ASSUME TypeInv, ClaimsInv, [Next]_vars PROVE ClaimsInv'
  OBVIOUS
<1> USE DEF ClaimsInv
<1>t. TypeOK
  BY DEF TypeInv
<1>1. ASSUME NEW o \in Order, NEW items \in [LineKey -> SourceLine \cup {None}],
             NEW suggested \in [SKU -> WarehouseSKU], OrderBatch(o, items, suggested)
      PROVE  ClaimsInv'
  <2>1. \A s \in SKU : Protected(mapping'[s]) => mapping'[s] = mapping[s]
    <3> TAKE s \in SKU
    <3>1. mapping[s] \in Mapping \cup {None} /\ suggested[s] \in WarehouseSKU
      BY <1>t DEF TypeOK
    <3>2. \/ mapping'[s] = mapping[s]
          \/ mapping'[s] = Upserted(mapping[s], suggested[s])
      BY <1>t, <1>1, BatchEffect
    <3>3. QED
      BY <3>1, <3>2, UpsertedType
  <2>2. UNCHANGED <<remote, listing, listed, edit, accepted, steady>>
    BY <1>1 DEF OrderBatch
  <2>3. QED
    BY <2>1, <2>2 DEF ClaimsWereAccepted, ListedWereAccepted, EditsWereAccepted
<1>2. CASE BeginListing
  BY <1>2 DEF BeginListing, ClaimsWereAccepted, ListedWereAccepted, EditsWereAccepted
<1>3. CASE ListAccount
  <2>1. listing \in Accounts /\ \A s \in SKU :
          listed'[s] = IF remote[listing][s] # None THEN remote[listing][s] ELSE listed[s]
    BY <1>3 DEF ListAccount
  <2>2. UNCHANGED <<mapping, remote, edit, accepted>>
    BY <1>3 DEF ListAccount
  <2>3. QED
    BY <2>1, <2>2 DEF ClaimsWereAccepted, ListedWereAccepted, EditsWereAccepted
<1>4. CASE Apply
  <2>1. \A s \in SKU : mapping'[s] = IF listed[s] # None
                                     THEN MappingTo(listed[s], "mapped") ELSE mapping[s]
    BY <1>4 DEF Apply, Applied
  <2>2. \A s \in SKU : listed[s] # None =>
          PairOf(MappingTo(listed[s], "mapped")) \in accepted[s]
    BY <1>t, MappingToType DEF ListedWereAccepted, TypeOK
  <2>3. UNCHANGED <<remote, listed, edit, accepted>>
    BY <1>4 DEF Apply
  <2>4. QED
    BY <2>1, <2>2, <2>3 DEF ClaimsWereAccepted, ListedWereAccepted, EditsWereAccepted
<1>5. CASE ListingFails
  BY <1>5 DEF ListingFails, ClaimsWereAccepted, ListedWereAccepted, EditsWereAccepted
<1>6. ASSUME NEW e \in Editor, EditStep(e)
      PROVE  ClaimsInv'
  <2>1. ASSUME NEW s \in SKU, NEW pair \in Pair, StartEdit(e, s, pair)
        PROVE  ClaimsInv'
    <3>1. edit' = [edit EXCEPT ![e] =
            [sku |-> s, pair |-> pair, account |-> IF Temu THEN 1 ELSE 0]]
      BY <2>1 DEF StartEdit
    <3>2. Temu => edit'[e].account # 0
      BY <1>t, <3>1 DEF TypeOK
    <3>3. \A d \in Editor : d # e => edit'[d] = edit[d]
      BY <1>t, <3>1 DEF TypeOK
    <3>4. UNCHANGED <<mapping, remote, listed, accepted>>
      BY <2>1 DEF StartEdit
    <3>5. QED
      BY <3>2, <3>3, <3>4 DEF ClaimsWereAccepted, ListedWereAccepted, EditsWereAccepted
  <2>2. ASSUME Accepts(e) \/ AnswerIsLost(e)
        PROVE  ClaimsInv'
    <3>1. edit[e] # None /\ edit[e].account # 0
      BY <2>2 DEF Accepts, AnswerIsLost
    <3>2. /\ edit[e].account \in Accounts /\ edit[e].sku \in SKU
          /\ edit[e].pair \in Pair
      BY <3>1, AskedPair
    <3>3. Remotely(edit[e].account, edit[e].sku, edit[e].pair)
      BY <2>2, <3>1, AskedPair DEF Accepts, AnswerIsLost
    <3>4. UNCHANGED <<mapping, listed>>
      BY <2>2 DEF Accepts, AnswerIsLost
    <3>5. /\ ListedWereAccepted' /\ \A r \in SKU : accepted[r] \subseteq accepted'[r]
          /\ edit[e].pair # None => edit[e].pair \in accepted'[edit[e].sku]
      BY <1>t, <3>2, <3>3, <3>4, RemotelyAccepted
    <3>6. ClaimsWereAccepted'
      BY <3>4, <3>5 DEF ClaimsWereAccepted
    <3>7. edit[e].pair \in accepted'[edit[e].sku]
      BY <3>2, <3>5, SKUMappingAssumption DEF Pair
    <3>8. CASE Accepts(e)
      <4>1. /\ edit'[e].sku = edit[e].sku /\ edit'[e].pair = edit[e].pair
            /\ \A d \in Editor : d # e => edit'[d] = edit[d]
        <5>1. edit[e] \in Edit
          BY <1>t, <3>1 DEF TypeOK
        <5>2. edit' = [edit EXCEPT ![e] = [edit[e] EXCEPT !.account = 0]]
          BY <3>8 DEF Accepts
        <5>3. QED
          BY <1>t, <5>1, <5>2 DEF TypeOK, Edit
      <4>2. \A d \in Editor : edit[d] # None => edit[d].sku \in SKU
        BY <1>t DEF TypeOK, Edit
      <4>3. EditsWereAccepted'
        BY <3>5, <3>7, <4>1, <4>2 DEF EditsWereAccepted
      <4>4. QED
        BY <3>5, <3>6, <4>3
    <3>9. CASE AnswerIsLost(e)
      <4>1. \A d \in Editor : edit'[d] # None /\ edit'[d].account = 0
              => edit'[d] = edit[d]
        BY <3>1, <3>9, TriedType DEF AnswerIsLost
      <4>2. \A d \in Editor : edit[d] # None => edit[d].sku \in SKU
        BY <1>t DEF TypeOK, Edit
      <4>3. EditsWereAccepted'
        BY <3>5, <4>1, <4>2 DEF EditsWereAccepted
      <4>4. QED
        BY <3>5, <3>6, <4>3
    <3>10. QED
      BY <2>2, <3>8, <3>9
  <2>3. CASE Rejects(e)
    <3>1. \A d \in Editor : edit'[d] # None /\ edit'[d].account = 0 => edit'[d] = edit[d]
      BY <2>3, TriedType DEF Rejects
    <3>2. QED
      BY <2>3, <3>1 DEF Rejects, ClaimsWereAccepted, ListedWereAccepted, EditsWereAccepted
  <2>4. CASE StoreEdit(e)
    <3>1. edit[e] \in Edit /\ edit[e].account = 0
      BY <1>t, <2>4 DEF StoreEdit, TypeOK
    <3>2. edit[e].sku \in SKU /\ edit[e].pair \in Pair
      BY <3>1 DEF Edit
    <3>3. Temu => edit[e].pair \in accepted[edit[e].sku]
      BY <2>4, <3>1 DEF StoreEdit, EditsWereAccepted
    <3>4. \A s \in SKU : \/ mapping'[s] = mapping[s]
                         \/ /\ s = edit[e].sku
                            /\ mapping'[s] = MappingTo(edit[e].pair, "manual")
      BY <1>t, <2>4 DEF StoreEdit, TypeOK
    <3>5. PairOf(MappingTo(edit[e].pair, "manual")) = edit[e].pair
      BY <3>2, MappingToType
    <3>6. UNCHANGED <<remote, listed, accepted>>
      BY <2>4 DEF StoreEdit
    <3>7. ClaimsWereAccepted'
      BY <3>3, <3>4, <3>5, <3>6 DEF ClaimsWereAccepted
    <3>8. \A d \in Editor : edit'[d] = IF d = e THEN None ELSE edit[d]
      BY <1>t, <2>4 DEF StoreEdit, TypeOK
    <3>9. QED
      BY <3>6, <3>7, <3>8 DEF ListedWereAccepted, EditsWereAccepted
  <2>5. CASE EditIsCutShort(e)
    <3>1. \A d \in Editor : edit'[d] = IF d = e THEN None ELSE edit[d]
      BY <1>t, <2>5 DEF EditIsCutShort, TypeOK
    <3>2. QED
      BY <2>5, <3>1 DEF EditIsCutShort, ClaimsWereAccepted, ListedWereAccepted,
         EditsWereAccepted
  <2>6. QED
    BY <1>6, <2>1, <2>2, <2>3, <2>4, <2>5 DEF EditStep
<1>7. ASSUME NEW a \in Accounts, NEW s \in SKU, NEW pair \in Pair \cup {None},
             RemoteEdit(a, s, pair)
      PROVE  ClaimsInv'
  <2>1. UNCHANGED <<mapping, listed, edit>> /\ Remotely(a, s, pair)
    BY <1>7 DEF RemoteEdit
  <2>2. ListedWereAccepted' /\ \A r \in SKU : accepted[r] \subseteq accepted'[r]
    BY <1>t, <2>1, RemotelyAccepted
  <2>3. \A d \in Editor : edit[d] # None => edit[d].sku \in SKU
    BY <1>t DEF TypeOK, Edit
  <2>4. QED
    BY <2>1, <2>2, <2>3 DEF ClaimsWereAccepted, EditsWereAccepted
<1>8. CASE UNCHANGED vars
  BY <1>8 DEF vars, ClaimsWereAccepted, ListedWereAccepted, EditsWereAccepted
<1>9. QED
  BY <1>1, <1>2, <1>3, <1>4, <1>5, <1>6, <1>7, <1>8 DEF Next

LEMMA ClaimsInvariant == Spec => []ClaimsInv
<1> QED
  BY InitClaims, NextClaims, TypeInvariant, PTL DEF Spec

\* Nothing that a Temu shop's rows say is mapped was refused by xlwms.
THEOREM ClaimsAreHonest == Spec => []ClaimsWereAccepted
<1>1. ClaimsInv => ClaimsWereAccepted
  BY DEF ClaimsInv
<1> QED
  BY <1>1, ClaimsInvariant, PTL

----------------------------------------------------------------------------
\* Listings.

LEMMA NextList == TypeInv /\ ListInv /\ [Next]_vars => ListInv'
<1> SUFFICES ASSUME TypeInv, ListInv, [Next]_vars, steady', listing' # 0, NEW s \in SKU
             PROVE  ListedBelow(listing, s)'
  BY DEF ListInv
<1>t. TypeOK
  BY DEF TypeInv
<1>1. CASE UNCHANGED <<remote, listing, listed, steady>>
  BY <1>1 DEF ListInv, ListedBelow
<1>2. CASE BeginListing
  BY <1>2, SKUMappingAssumption DEF BeginListing, ListedBelow, Accounts
<1>3. CASE ListAccount
  <2>1. /\ listing \in Accounts /\ listing \in Nat /\ listing # 0
        /\ listing' = listing + 1 /\ remote' = remote
    BY <1>3, SKUMappingAssumption DEF ListAccount, Accounts
  <2>2. listed'[s] = IF remote[listing][s] # None THEN remote[listing][s] ELSE listed[s]
    BY <1>3 DEF ListAccount
  <2>3. ListedBelow(listing, s)
    <3>1. steady' <=> steady
      BY <1>3 DEF ListAccount
    <3>2. steady /\ listing # 0
      BY <2>1, <3>1
    <3>3. QED
      BY <3>2 DEF ListInv
  <2>4. \A a \in Accounts : a \in Nat /\ (a < listing + 1 <=> a < listing \/ a = listing)
    BY <2>1, SKUMappingAssumption DEF Accounts
  <2>5. CASE remote[listing][s] # None
    <3>1. listing < listing' /\ \A b \in Accounts : ~ (listing < b /\ b < listing')
      BY <2>1, <2>4
    <3>2. remote'[listing][s] # None /\ listed'[s] = remote'[listing][s]
      BY <2>1, <2>2, <2>5
    <3>3. QED
      BY <2>1, <3>1, <3>2 DEF ListedBelow
  <2>6. CASE remote[listing][s] = None
    <3>1. CASE listed[s] = None /\ \A a \in Accounts : a < listing => remote[a][s] = None
      <4>1. /\ listed'[s] = None
            /\ \A a \in Accounts : a < listing' => remote'[a][s] = None
        BY <2>1, <2>2, <2>4, <2>6, <3>1
      <4>2. QED
        BY <4>1 DEF ListedBelow
    <3>2. ASSUME NEW a \in Accounts, a < listing, remote[a][s] # None,
                 listed[s] = remote[a][s],
                 \A b \in Accounts : a < b /\ b < listing => remote[b][s] = None
          PROVE  ListedBelow(listing, s)'
      <4>1. /\ a < listing' /\ remote'[a][s] # None /\ listed'[s] = remote'[a][s]
            /\ \A b \in Accounts : a < b /\ b < listing' => remote'[b][s] = None
        BY <2>1, <2>2, <2>4, <2>6, <3>2
      <4>2. QED
        BY <4>1 DEF ListedBelow
    <3>3. QED
      BY <2>3, <3>1, <3>2 DEF ListedBelow
  <2>7. QED
    BY <2>5, <2>6
<1>4. CASE Apply \/ ListingFails
  BY <1>4 DEF Apply, ListingFails
<1>5. ASSUME NEW e \in Editor, EditStep(e) PROVE ListedBelow(listing, s)'
  BY <1>1, <1>5 DEF EditStep, StartEdit, Accepts, Rejects, AnswerIsLost, StoreEdit,
     EditIsCutShort, Remotely
<1>6. ASSUME NEW a \in Accounts, NEW r \in SKU, NEW pair \in Pair \cup {None},
             RemoteEdit(a, r, pair)
      PROVE  ListedBelow(listing, s)'
  BY <1>6 DEF RemoteEdit, Remotely
<1>7. ASSUME NEW o \in Order, NEW items \in [LineKey -> SourceLine \cup {None}],
             NEW suggested \in [SKU -> WarehouseSKU], OrderBatch(o, items, suggested)
      PROVE  ListedBelow(listing, s)'
  BY <1>1, <1>7 DEF OrderBatch
<1>8. QED
  BY <1>1, <1>2, <1>3, <1>4, <1>5, <1>6, <1>7 DEF Next, vars

LEMMA ListInvariant == Spec => []ListInv
<1>1. Init => ListInv
  BY DEF Init, ListInv
<1> QED
  BY <1>1, NextList, TypeInvariant, PTL DEF Spec

\* What a complete, steady listing says of an SKU is the pairing that counts.
LEMMA ListedIsPair ==
  ASSUME TypeOK, ListInv, steady, listing > Len(Account), NEW s \in SKU
  PROVE  listed[s] = PairAtXLWMS(s)
<1> DEFINE holders == {a \in Accounts : remote[a][s] # None}
<1>1. listing # 0 /\ \A a \in Accounts : a \in Nat /\ a < listing
  BY SKUMappingAssumption DEF TypeOK, Accounts
<1>2. ListedBelow(listing, s)
  BY <1>1 DEF ListInv
<1>3. CASE holders = {}
  BY <1>2, <1>3 DEF ListedBelow, PairAtXLWMS
<1>4. CASE holders # {}
  <2>1. PICK a \in Accounts :
          /\ remote[a][s] # None /\ listed[s] = remote[a][s]
          /\ \A b \in Accounts : a < b => remote[b][s] = None
    BY <1>1, <1>2, <1>4 DEF ListedBelow
  <2>2. a \in holders /\ \A b \in holders : b <= a
    BY <1>1, <2>1
  <2>3. \A c \in holders : (\A b \in holders : b <= c) => c = a
    BY <1>1, <2>2
  <2>4. (CHOOSE c \in holders : \A b \in holders : b <= c) = a
    BY <2>2, <2>3
  <2>5. QED
    BY <1>4, <2>1, <2>4 DEF PairAtXLWMS
<1>5. QED
  BY <1>3, <1>4

\* A sync that no change at xlwms overtook leaves no mapping that differs.
THEOREM SteadySyncHeals == Spec => SteadySyncAgrees
<1>1. ASSUME TypeOK, ListInv, [Next]_vars, Apply, steady, NEW s \in SKU,
             PairAtXLWMS(s) # None
      PROVE  mapping'[s] # None /\ PairOf(mapping'[s]) = PairAtXLWMS(s)
  <2>1. listed[s] = PairAtXLWMS(s)
    BY <1>1, ListedIsPair DEF Apply
  <2>2. mapping'[s] = MappingTo(listed[s], "mapped")
    BY <1>1, <2>1 DEF Apply, Applied
  <2>3. listed[s] \in Pair
    BY <1>1, <2>1 DEF TypeOK
  <2>4. QED
    BY <2>1, <2>2, <2>3, MappingToType
<1>2. TypeInv /\ ListInv /\ [Next]_vars =>
        [Apply /\ steady => \A s \in SKU : PairAtXLWMS(s) # None =>
           mapping'[s] # None /\ PairOf(mapping'[s]) = PairAtXLWMS(s)]_vars
  BY <1>1 DEF TypeInv
<1> QED
  BY <1>2, TypeInvariant, ListInvariant, PTL DEF Spec, SteadySyncAgrees

============================================================================
