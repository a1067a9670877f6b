----------------------------- MODULE SKUMapping -----------------------------
(***************************************************************************)
(* The mapping of one shop's platform SKUs to warehouse SKUs and what it   *)
(* makes of the shop's order lines.  Three writers meet here: the batches  *)
(* of the order sync (upsertSourceBatch, upsertMapping), the pairings that *)
(* the same run lists at xlwms and applies later (syncXLWMSMappings), and  *)
(* the operator's PATCH (updateMapping, updateManualMapping), which writes *)
(* to xlwms first.                                                         *)
(*                                                                         *)
(* A transaction is one step.  A batch and a PATCH lock the row of         *)
(* sku_mappings before they touch a line of its SKU, and a line that both  *)
(* change is locked by the first, so those that commit have an order.      *)
(*                                                                         *)
(* xlwms is not part of this program: an account accepts, rejects, or      *)
(* accepts and loses its answer.                                           *)
(***************************************************************************)
EXTENDS Integers, Sequences

CONSTANTS
  SKU,           \* platform SKUs of the shop
  WarehouseSKU,
  Factor,        \* conversion factors, in fractions of Unit
  Unit,          \* the factor one
  Order, LineKey,
  Quantity,      \* of a line
  Account,       \* the xlwms accounts, in the order ListAccounts returns them
  Editor,        \* PATCH requests that may be under way at once
  Temu,          \* a shop of temuStoreCodes; otherwise the SHEIN shop
  RemoteEdits,   \* whether pairings are also edited at xlwms itself
  Failures,      \* whether PATCHes are cut short and answers are lost
  None           \* no mapping, no line, no pairing, no request

ASSUME SKUMappingAssumption ==
  /\ Unit \in Nat \ {0} /\ Unit \in Factor
  /\ Factor \subseteq Nat \ {0} /\ Quantity \subseteq Nat
  /\ Len(Account) \in Nat \ {0}
  /\ Temu \in BOOLEAN /\ RemoteEdits \in BOOLEAN /\ Failures \in BOOLEAN
  /\ None \notin [warehouse : WarehouseSKU, factor : Factor]
  /\ None \notin [warehouse : WarehouseSKU, factor : Factor,
                  status : {"source", "mapped", "manual"}]

VARIABLES
  mapping,  \* sku_mappings, by platform SKU
  lines,    \* normalized_order_lines, by order and source_line_key
  remote,   \* remote[account][sku]: the single-item pairing at xlwms
  listing,  \* 0: no listing; n: account n is next; above Len(Account): apply
  listed,   \* ListMappings' result so far
  edit,     \* edit[e]: the PATCH under way
  \* history
  accepted, \* accepted[sku]: the pairings xlwms ever held
  shown,    \* shown[order]: the lines of the order's last snapshot
  steady    \* no pairing has changed at xlwms since the listing began

vars == <<mapping, lines, remote, listing, listed, edit, accepted, shown, steady>>

Accounts == 1 .. Len(Account)

Pair == [warehouse : WarehouseSKU, factor : Factor]

\* Statuses 'identity' and 'inferred' are one: "source".
Mapping == [warehouse : WarehouseSKU, factor : Factor,
            status : {"source", "mapped", "manual"}]

Line == [sku : SKU, warehouse : WarehouseSKU, factor : Factor,
         quantity : Nat, warehouseQuantity : Nat]

\* A line as a source shows it.
SourceLine == [sku : SKU, quantity : Quantity]

\* edit.account is the account to try next, 0 when the mapping can be stored.
Edit == [sku : SKU, pair : Pair, account : Nat]

PairOf(m) == [warehouse |-> m.warehouse, factor |-> m.factor]

MappingTo(pair, status) ==
  [warehouse |-> pair.warehouse, factor |-> pair.factor, status |-> status]

\* What a platform order cannot change.
Protected(m) == m # None /\ m.status \in {"manual", "mapped"}

Init ==
  /\ mapping = [s \in SKU |-> None]
  /\ lines = [o \in Order |-> [k \in LineKey |-> None]]
  /\ remote = [a \in Accounts |-> [s \in SKU |-> None]]
  /\ listing = 0
  /\ listed = [s \in SKU |-> None]
  /\ edit = [e \in Editor |-> None]
  /\ accepted = [s \in SKU |-> {}]
  /\ shown = [o \in Order |-> [k \in LineKey |-> None]]
  /\ steady = FALSE

----------------------------------------------------------------------------
\* Batches of the order sync.

\* upsertMapping: the sources suggest a warehouse SKU, always with factor one.
Upserted(m, warehouse) ==
  IF Protected(m) THEN m
  ELSE MappingTo([warehouse |-> warehouse, factor |-> Unit], "source")

\* Seeded bug: the line takes the factor of the source, not the one returned.
UpsertedLineAtOne(item, m) ==
  [sku |-> item.sku, warehouse |-> m.warehouse, factor |-> Unit,
   quantity |-> item.quantity, warehouseQuantity |-> item.quantity * Unit]

\* The row of a line, with the mapping that upsertMapping returned.
UpsertedLine(item, m) ==
  [sku |-> item.sku, warehouse |-> m.warehouse, factor |-> m.factor,
   quantity |-> item.quantity, warehouseQuantity |-> item.quantity * m.factor]

\* Temu snapshots are complete: lines they do not have count zero from now on.
LeftOut(line) ==
  IF Temu /\ line # None
  THEN [line EXCEPT !.quantity = 0, !.warehouseQuantity = 0]
  ELSE line

\* One order of a batch of upsertSourceBatch: its items by line key, and the
\* warehouse SKU that is suggested for each platform SKU.  A run writes batches
\* before it lists pairings.
OrderBatch(o, items, suggested) ==
  LET named == {items[k].sku : k \in {j \in LineKey : items[j] # None}}
      upserted == [s \in SKU |-> IF s \in named THEN Upserted(mapping[s], suggested[s])
                                 ELSE mapping[s]]
  IN  /\ listing = 0
      /\ mapping' = upserted
      /\ lines' = [lines EXCEPT ![o] = [k \in LineKey |->
           IF items[k] # None THEN UpsertedLine(items[k], upserted[items[k].sku])
           ELSE LeftOut(lines[o][k])]]
      /\ shown' = [shown EXCEPT ![o] = items]
      /\ UNCHANGED <<remote, listing, listed, edit, accepted, steady>>

----------------------------------------------------------------------------
\* syncXLWMSMappings, for this shop.

BeginListing ==
  /\ Temu
  /\ listing = 0
  /\ listing' = 1
  /\ listed' = [s \in SKU |-> None]
  /\ steady' = TRUE
  /\ UNCHANGED <<mapping, lines, remote, edit, accepted, shown>>

\* ListMappings goes from account to account; of two pairings of one SKU the
\* later account's counts.
ListAccount ==
  /\ listing \in Accounts
  /\ listed' = [s \in SKU |-> IF remote[listing][s] # None THEN remote[listing][s]
                              ELSE listed[s]]
  /\ listing' = listing + 1
  /\ UNCHANGED <<mapping, lines, remote, edit, accepted, shown, steady>>

\* Seeded bug: rows edited by hand are kept.
AppliedUnlessManual(m, pair) ==
  IF pair # None /\ (m # None => m.status # "manual")
  THEN MappingTo(pair, "mapped") ELSE m

\* upsertXLWMSMapping overwrites whatever the row says.
Applied(m, pair) == IF pair # None THEN MappingTo(pair, "mapped") ELSE m

\* applyXLWMSMappings: the order lines stay as they are.
Apply ==
  /\ listing > Len(Account)
  /\ mapping' = [s \in SKU |-> Applied(mapping[s], listed[s])]
  /\ listing' = 0
  /\ UNCHANGED <<lines, remote, listed, edit, accepted, shown, steady>>

\* One account cannot be listed, the transaction fails, or the process stops:
\* nothing is applied.
ListingFails ==
  /\ listing # 0
  /\ listing' = 0
  /\ UNCHANGED <<mapping, lines, remote, listed, edit, accepted, shown, steady>>

----------------------------------------------------------------------------
\* PATCH of a mapping.

\* Quantities are integers at xlwms.
Whole(factor) == factor % Unit = 0

\* int(ConversionFactor).
Truncated(pair) == [pair EXCEPT !.factor = (pair.factor \div Unit) * Unit]

\* Seeded bug: fractions are not refused.
StartEditOfAnyFactor(e, s, pair) ==
  /\ edit[e] = None
  /\ edit' = [edit EXCEPT ![e] =
       [sku |-> s, pair |-> pair, account |-> IF Temu THEN 1 ELSE 0]]
  /\ UNCHANGED <<mapping, lines, remote, listing, listed, accepted, shown, steady>>

StartEdit(e, s, pair) ==
  /\ edit[e] = None
  /\ Temu => Whole(pair.factor)
  /\ edit' = [edit EXCEPT ![e] =
       [sku |-> s, pair |-> pair, account |-> IF Temu THEN 1 ELSE 0]]
  /\ UNCHANGED <<mapping, lines, remote, listing, listed, accepted, shown, steady>>

\* The pairing of account a and SKU s becomes pair.
Remotely(a, s, pair) ==
  /\ remote' = [remote EXCEPT ![a][s] = pair]
  /\ accepted' = [accepted EXCEPT ![s] = IF pair = None THEN @ ELSE @ \cup {pair}]
  /\ steady' = FALSE

\* CreateMapping is content with the first account that accepts.
Accepts(e) ==
  /\ edit[e] # None /\ edit[e].account # 0
  /\ Remotely(edit[e].account, edit[e].sku, Truncated(edit[e].pair))
  /\ edit' = [edit EXCEPT ![e].account = 0]
  /\ UNCHANGED <<mapping, lines, listing, listed, shown>>

\* After an error the next account is tried; after the last one the answer is
\* 502 and nothing is stored.
Tried(e) ==
  edit' = [edit EXCEPT ![e] =
    IF edit[e].account < Len(Account) THEN [edit[e] EXCEPT !.account = @ + 1] ELSE None]

Rejects(e) ==
  /\ edit[e] # None /\ edit[e].account # 0
  /\ Tried(e)
  /\ UNCHANGED <<mapping, lines, remote, listing, listed, accepted, shown, steady>>

\* The account accepted, but its answer did not arrive.
AnswerIsLost(e) ==
  /\ Failures
  /\ edit[e] # None /\ edit[e].account # 0
  /\ Remotely(edit[e].account, edit[e].sku, Truncated(edit[e].pair))
  /\ Tried(e)
  /\ UNCHANGED <<mapping, lines, listing, listed, shown>>

\* Seeded bug: the demand is not computed anew.
RemappedOnly(line, s, pair) ==
  IF line # None /\ line.sku = s
  THEN [line EXCEPT !.warehouse = pair.warehouse, !.factor = pair.factor]
  ELSE line

\* The row of a line after its SKU was mapped by hand.
Remapped(line, s, pair) ==
  IF line # None /\ line.sku = s
  THEN [line EXCEPT !.warehouse = pair.warehouse, !.factor = pair.factor,
                    !.warehouseQuantity = line.quantity * pair.factor]
  ELSE line

\* updateManualMapping: the mapping and every line of the SKU; 404 without a
\* mapping.
StoreEdit(e) ==
  /\ edit[e] # None /\ edit[e].account = 0
  /\ LET s == edit[e].sku
         pair == edit[e].pair
     IN  IF mapping[s] = None
         THEN UNCHANGED <<mapping, lines>>
         ELSE /\ mapping' = [mapping EXCEPT ![s] = MappingTo(pair, "manual")]
              /\ lines' = [o \in Order |-> [k \in LineKey |->
                             Remapped(lines[o][k], s, pair)]]
  /\ edit' = [edit EXCEPT ![e] = None]
  /\ UNCHANGED <<remote, listing, listed, accepted, shown, steady>>

\* The ten seconds are over, the client is gone, the transaction fails or the
\* process stops, before or after xlwms accepted.
EditIsCutShort(e) ==
  /\ Failures
  /\ edit[e] # None
  /\ edit' = [edit EXCEPT ![e] = None]
  /\ UNCHANGED <<mapping, lines, remote, listing, listed, accepted, shown, steady>>

\* xlwms' own users change, remove or bundle a pairing.
RemoteEdit(a, s, pair) ==
  /\ RemoteEdits
  /\ pair # None => Whole(pair.factor)
  /\ Remotely(a, s, pair)
  /\ UNCHANGED <<mapping, lines, listing, listed, edit, shown>>

EditStep(e) ==
  \/ \E s \in SKU, pair \in Pair : StartEdit(e, s, pair)
  \/ Accepts(e) \/ Rejects(e) \/ AnswerIsLost(e)
  \/ StoreEdit(e) \/ EditIsCutShort(e)

Next ==
  \/ \E o \in Order, items \in [LineKey -> SourceLine \cup {None}],
        suggested \in [SKU -> WarehouseSKU] : OrderBatch(o, items, suggested)
  \/ BeginListing \/ ListAccount \/ Apply \/ ListingFails
  \/ \E e \in Editor : EditStep(e)
  \/ \E a \in Accounts, s \in SKU, pair \in Pair \cup {None} : RemoteEdit(a, s, pair)

Spec == Init /\ [][Next]_vars

----------------------------------------------------------------------------
\* Properties.

\* Every variable has its type.
TypeOK ==
  /\ mapping \in [SKU -> Mapping \cup {None}]
  /\ lines \in [Order -> [LineKey -> Line \cup {None}]]
  /\ remote \in [Accounts -> [SKU -> Pair \cup {None}]]
  /\ listing \in 0 .. Len(Account) + 1
  /\ listed \in [SKU -> Pair \cup {None}]
  /\ edit \in [Editor -> Edit \cup {None}]
  /\ \A e \in Editor : edit[e] # None => edit[e].account \in 0 .. Len(Account)
  /\ accepted \in [SKU -> SUBSET Pair]
  /\ shown \in [Order -> [LineKey -> SourceLine \cup {None}]]
  /\ steady \in BOOLEAN

\* The demand of a line is its quantity times its own factor, whoever wrote the
\* line last and whichever of the two changed.
WarehouseQuantityFits ==
  \A o \in Order, k \in LineKey :
    lines[o][k] # None =>
      lines[o][k].warehouseQuantity = lines[o][k].quantity * lines[o][k].factor

\* While an SKU is mapped by hand, every line of it is counted by that mapping:
\* the lines there were, those that came later, those that changed their SKU
\* and those a snapshot left out.
ManualReachesEveryLine ==
  \A o \in Order, k \in LineKey :
    LET line == lines[o][k]
    IN  line # None /\ mapping[line.sku] # None /\ mapping[line.sku].status = "manual"
        => PairOf(line) = PairOf(mapping[line.sku])

\* "The local sku_mappings row is just a cache and must not claim 'mapped' unless
\* xlwms actually accepted the pairing" (server.go:416): what a Temu shop has
\* mapped or edited by hand was at some time a pairing at xlwms.
ClaimsWereAccepted ==
  Temu => \A s \in SKU :
    Protected(mapping[s]) => PairOf(mapping[s]) \in accepted[s]

\* A Temu order counts what its last snapshot shows: no quantity is left of a
\* line that was cancelled out of it, whatever mappings did in between.
LinesFollowSnapshot ==
  Temu => \A o \in Order, k \in LineKey :
    lines[o][k] # None =>
      lines[o][k].quantity = IF shown[o][k] = None THEN 0 ELSE shown[o][k].quantity

\* The pairing that counts, when an SKU has one at several accounts.
PairAtXLWMS(s) ==
  LET holders == {a \in Accounts : remote[a][s] # None}
  IN  IF holders = {} THEN None
      ELSE remote[CHOOSE a \in holders : \A b \in holders : b <= a][s]

\* A listing during which no pairing changed at xlwms brings the mappings back in
\* line with it, whatever PATCHes that failed halfway or crossed each other have
\* left behind.
SteadySyncAgrees ==
  [][ Apply /\ steady =>
        \A s \in SKU : PairAtXLWMS(s) # None =>
          mapping'[s] # None /\ PairOf(mapping'[s]) = PairAtXLWMS(s) ]_vars

\* "A manual row and an xlwms row should already agree by the next sync"
\* (store.go:357): what a sync applies to a row that was edited by hand, with no
\* PATCH under way, is what the row says.
NextSyncAgrees ==
  [][ Apply /\ (\A e \in Editor : edit[e] = None) =>
        \A s \in SKU : mapping[s] # None /\ mapping[s].status = "manual" =>
          PairOf(mapping'[s]) = PairOf(mapping[s]) ]_vars

=============================================================================
