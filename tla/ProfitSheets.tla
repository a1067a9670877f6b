---------------------------- MODULE ProfitSheets ----------------------------
(***************************************************************************)
(* What an upload of profit tables is parsed into (profit_import.go), and  *)
(* what each record is stored under (profit_store.go).                     *)
(*                                                                         *)
(* An upload is [ext, content, entries, shop, hint]: the extension of its  *)
(* name, what its bytes are ("workbook", "archive" or "other"), the        *)
(* workbook, or the entries of the archive.  An entry is [path, words,     *)
(* sheets]: a path of any sort but "sheet" is left out of a zip, and words *)
(* are those of its name that tell its kind.  A sheet is [title, heading,  *)
(* words, rows]: the columns its header row names, the words in it that    *)
(* tell a kind, and its rows.  A row has the cells of its layout by name;  *)
(* ok says whether the numbers and times in it can be read, blank that no  *)
(* cell is filled, and "" is an empty cell.                                *)
(***************************************************************************)
EXTENDS Integers, Sequences, FiniteSets, SequencesExt

CONSTANT Bad  \* the result of parsing what cannot be read

Flat == {"shipping", "return", "chargeback", "violation", "platform", "disposal", "flow"}
Nested == {"parent", "unsettle"}
Tables == Flat \cup Nested

\* profitFileLabels
Kinds == {"posted", "pending", "merchant", "third", "fund", "flow", "parent", "unsettle"}

Failed(parsed) == parsed = Bad

\* What a sequence has at some of its places.
Chosen(seq, places) ==
  LET kept[n \in 0..Len(seq)] ==
        IF n = 0 THEN << >>
        ELSE IF n \in places THEN Append(kept[n - 1], seq[n]) ELSE kept[n - 1]
  IN  kept[Len(seq)]

----------------------------------------------------------------------------
(* Which kind a file is *)

\* detectUploadSourceKind
SourceKind(upload) ==
  IF upload.ext \in {"xlsx", "zip"} THEN upload.ext
  ELSE IF upload.content = "workbook" THEN "xlsx"
  ELSE IF upload.content = "archive" THEN "zip"
  ELSE ""

\* The first kind of a list all of whose words are there.
FirstKind(list, words) ==
  LET found == SelectSeq(list, LAMBDA entry : entry[1] \subseteq words)
  IN  IF found = << >> THEN "" ELSE found[1][2]

KindFromName(words) ==
  FirstKind(<< <<{"parent"}, "parent">>, <<{"flow"}, "flow">>, <<{"unsettle"}, "unsettle">>,
               <<{"fund"}, "fund">>, <<{"label", "posted"}, "posted">>,
               <<{"label", "pending"}, "pending">>, <<{"merchant"}, "merchant">>,
               <<{"third"}, "third">> >>, words)

KindFromSheets(sheets) ==
  IF \E i \in DOMAIN sheets :
       sheets[i].title \in {"chargebacks", "settled", "violations1", "violations2",
                            "violations", "platform"}
    THEN "fund" ELSE ""

KindFromHeaders(words) ==
  FirstKind(<< <<{"flow id"}, "flow">>, <<{"po", "item code"}, "parent">>,
               <<{"po", "sales receipt"}, "unsettle">> >>, words)

\* detectProfitFileKind: a hint, the name, the titles of the sheets, or the
\* headers of the first, in this order.
FileKind(hint, entry) ==
  LET guesses == <<KindFromName(entry.words), KindFromSheets(entry.sheets),
                   KindFromHeaders(entry.sheets[1].words)>>
      made    == SelectSeq(guesses, LAMBDA kind : kind # "")
  IN  IF hint # "" THEN IF hint \in Kinds THEN hint ELSE Bad
      ELSE IF made = << >> THEN Bad ELSE made[1]

----------------------------------------------------------------------------
(* Flat sheets *)

\* The key and the value of a record, by table; the shop comes first in
\* every key.
ShippingItem(phase, r) ==
  [key |-> <<phase, r.package, r.tracking, r.type, r.remark>>, value |-> <<r.amount>>]
ReturnItem(destination, r) == [key |-> <<r.bill>>, value |-> <<destination, r.amount>>]
ChargebackItem(r) == [key |-> <<r.no>>, value |-> <<r.amount>>]
ViolationItem(sheet, r) == [key |-> <<r.no>>, value |-> <<sheet, r.amount>>]
PlatformItem(r) == [key |-> <<r.order, r.remark>>, value |-> <<r.amount>>]
DisposalItem(r) == [key |-> <<r.sku, r.tracking>>, value |-> <<r.amount>>]
FlowItem(r) == [key |-> <<r.flow>>, value |-> <<r.amount>>]

\* The rows of a sheet that are not empty.
Filled(sheet) == {i \in DOMAIN sheet.rows : ~sheet.rows[i].blank}

\* The rows that are read: a row without its first cells is passed over.
Keyed(sheet, cells) ==
  Chosen(sheet.rows, {i \in Filled(sheet) : \E c \in cells : sheet.rows[i][c] # ""})

\* A sheet has the columns of its table, and its rows the numbers and times
\* they need: the first that has not fails the file.
Readable(sheet, heading, rows) ==
  sheet.heading = heading /\ \A i \in DOMAIN rows : rows[i].ok

\* parseShippingLabelFees reads a row before it looks for its numbers.
ShippingItems(sheet, phase) ==
  LET rows == Keyed(sheet, {"package", "tracking"})
  IN  IF Readable(sheet, "shipping", Chosen(sheet.rows, Filled(sheet)))
        THEN [i \in DOMAIN rows |-> ShippingItem(phase, rows[i])]
        ELSE Bad

ReturnItems(sheet, destination) ==
  LET rows == Keyed(sheet, {"bill"})
  IN  IF Readable(sheet, "return", rows)
        THEN [i \in DOMAIN rows |-> ReturnItem(destination, rows[i])]
        ELSE Bad

ChargebackItems(sheet) ==
  LET rows == Keyed(sheet, {"no"})
  IN  IF Readable(sheet, "chargeback", rows)
        THEN [i \in DOMAIN rows |-> ChargebackItem(rows[i])]
        ELSE Bad

ViolationItems(sheet, source) ==
  LET rows == Keyed(sheet, {"no"})
  IN  IF Readable(sheet, "violation", rows)
        THEN [i \in DOMAIN rows |-> ViolationItem(source, rows[i])]
        ELSE Bad

PlatformItems(sheet) ==
  LET rows == Keyed(sheet, {"order"})
  IN  IF Readable(sheet, "platform", rows)
        THEN [i \in DOMAIN rows |-> PlatformItem(rows[i])]
        ELSE Bad

DisposalItems(sheet) ==
  LET rows == Keyed(sheet, {"sku"})
  IN  IF Readable(sheet, "disposal", rows)
        THEN [i \in DOMAIN rows |-> DisposalItem(rows[i])]
        ELSE Bad

FlowItems(sheet) ==
  LET rows == Keyed(sheet, {"flow"})
  IN  IF Readable(sheet, "flow", rows)
        THEN [i \in DOMAIN rows |-> FlowItem(rows[i])]
        ELSE Bad

----------------------------------------------------------------------------
(* Orders with their SKUs in merged cells *)

\* Seeded bug: a row without a PO continues the first order.
NestedItemsOfFirst(sheet) ==
  LET Line(r) == IF r.sku = "" THEN << >> ELSE <<r.sku>>
      Begun(items, r) ==
        Append(items, [key |-> <<r.po>>, value |-> <<r.amount>>, lines |-> Line(r)])
      Continued(items, r) ==
        [items EXCEPT ![1].lines = Append(@, r.sku)]
      Step(items, r) ==
        IF items = <<Bad>> \/ r.blank THEN items
        ELSE IF ~r.ok \/ (r.po = "" /\ (items = << >> \/ r.sku = "")) THEN <<Bad>>
        ELSE IF r.po # "" THEN Begun(items, r) ELSE Continued(items, r)
      items[n \in 0..Len(sheet.rows)] ==
        IF n = 0 THEN << >> ELSE Step(items[n - 1], sheet.rows[n])
      all == items[Len(sheet.rows)]
  IN  IF sheet.heading # "orders" \/ all = <<Bad>> THEN Bad ELSE all

\* A row with a PO begins an order, with a first SKU when it names one; a row
\* without continues the order before it.  Parents and unsettled orders have
\* the same two columns in front.
NestedItems(sheet) ==
  LET Line(r) == IF r.sku = "" THEN << >> ELSE <<r.sku>>
      Begun(items, r) ==
        Append(items, [key |-> <<r.po>>, value |-> <<r.amount>>, lines |-> Line(r)])
      Continued(items, r) ==
        [items EXCEPT ![Len(items)].lines = Append(@, r.sku)]
      Step(items, r) ==
        IF items = <<Bad>> \/ r.blank THEN items
        ELSE IF ~r.ok \/ (r.po = "" /\ (items = << >> \/ r.sku = "")) THEN <<Bad>>
        ELSE IF r.po # "" THEN Begun(items, r) ELSE Continued(items, r)
      items[n \in 0..Len(sheet.rows)] ==
        IF n = 0 THEN << >> ELSE Step(items[n - 1], sheet.rows[n])
      all == items[Len(sheet.rows)]
  IN  IF sheet.heading # "orders" \/ all = <<Bad>> THEN Bad ELSE all

----------------------------------------------------------------------------
(* Files *)

NoItems == [t \in Tables |-> << >>]

\* parseFundDetailWorkbook: its sheets by their titles; those it does not
\* know are skipped.  Violations are collected from two of them.
FundItems(sheets) ==
  LET Known == {"chargebacks", "violations1", "violations2", "platform", "disposals", "settled"}
      TableOf == [chargebacks |-> "chargeback", violations1 |-> "violation",
                  violations2 |-> "violation", platform |-> "platform",
                  disposals |-> "disposal", settled |-> "flow"]
      Read(s) ==
        CASE s.title = "chargebacks" -> ChargebackItems(s)
          [] s.title = "violations1" -> ViolationItems(s, "delay")
          [] s.title = "violations2" -> ViolationItems(s, "false_ship")
          [] s.title = "platform"    -> PlatformItems(s)
          [] s.title = "disposals"   -> DisposalItems(s)
          [] s.title = "settled"     -> FlowItems(s)
      known == {i \in DOMAIN sheets : sheets[i].title \in Known}
      batch[n \in 0..Len(sheets)] ==
        IF n = 0 THEN NoItems
        ELSE IF n \in known
          THEN [batch[n - 1] EXCEPT ![TableOf[sheets[n].title]] = @ \o Read(sheets[n])]
        ELSE batch[n - 1]
  IN  IF known = {} \/ \E i \in known : Failed(Read(sheets[i])) THEN Bad
      ELSE batch[Len(sheets)]

\* parseProfitWorkbook: a batch of items for each table.
ParseWorkbook(hint, entry) ==
  LET kind  == FileKind(hint, entry)
      first == entry.sheets[1]
      Only(table, items) ==
        IF Failed(items) THEN Bad ELSE [NoItems EXCEPT ![table] = items]
  IN  IF entry.sheets = << >> THEN Bad
      ELSE CASE kind \in {"posted", "pending"} -> Only("shipping", ShippingItems(first, kind))
             [] kind \in {"merchant", "third"} -> Only("return", ReturnItems(first, kind))
             [] kind = "flow"                  -> Only("flow", FlowItems(first))
             [] kind \in Nested                -> Only(kind, NestedItems(first))
             [] kind = "fund"                  -> FundItems(entry.sheets)
             [] OTHER                          -> Bad

\* skipProfitZipEntry: the files of an archive that are read.
SheetFiles(entries) ==
  Chosen(entries, {i \in DOMAIN entries : entries[i].path = "sheet"})

\* parseProfitZip
ParseZip(hint, entries) ==
  LET kept    == SheetFiles(entries)
      batches == [i \in DOMAIN kept |-> ParseWorkbook(hint, kept[i])]
  IN  IF kept = << >> \/ \E i \in DOMAIN batches : Failed(batches[i]) THEN Bad ELSE batches

\* parseProfitUpload: the batches of an upload, one for each file.
ParseUpload(upload) ==
  LET source == SourceKind(upload)
      book   == ParseWorkbook(upload.hint, upload.entries[1])
  IN  IF source = "zip"
        THEN ParseZip(upload.hint,
                      IF upload.content = "archive" THEN upload.entries ELSE << >>)
      ELSE IF source = "" \/ upload.content # "workbook" \/ Failed(book) THEN Bad
      ELSE <<book>>

=============================================================================
