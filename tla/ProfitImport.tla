---------------------------- MODULE ProfitImport ----------------------------
(***************************************************************************)
(* Imports of profit tables: POST /api/profit/import (importProfit,        *)
(* profit_http.go) and the transaction that stores an upload               *)
(* (profit_store.go).  A request takes the flag profitImporting, parses    *)
(* what was uploaded, adds a row to the list of runs, stores the records   *)
(* one by one in one transaction, and completes the row.  All of it        *)
(* happens under a context that ends after four minutes or when the client *)
(* goes away; any statement may fail, and the answer to a COMMIT be lost.  *)
(*                                                                         *)
(* There is no other writer of these tables, so that a transaction sees    *)
(* what was committed when it began and what it has stored itself.         *)
(***************************************************************************)
EXTENDS ProfitSheets

CONSTANTS
  Request,     \* handlers
  Upload,      \* uploads
  Content,     \* what each of them holds: Upload -> an upload of ProfitSheets
  NoUpload,
  MaxUploads,  \* bound: requests that get as far as the flag
  MaxCrashes   \* bound: crashes in one behaviour

ASSUME ImportAssumption ==
  /\ NoUpload \notin Upload
  /\ MaxUploads \in Nat /\ MaxCrashes \in Nat

IsSequence(s) == s \in Seq(Range(s))

\* Files have sheets and sheets have rows, in an order; a workbook is one file.
ASSUME ContentAssumption ==
  \A u \in Upload :
    LET entries == Content[u].entries
    IN  /\ IsSequence(entries)
        /\ Content[u].content = "workbook" => entries # << >>
        /\ \A i \in DOMAIN entries :
             /\ IsSequence(entries[i].sheets)
             /\ \A j \in DOMAIN entries[i].sheets : IsSequence(entries[i].sheets[j].rows)

VARIABLES
  importing,  \* profitImporting
  pc,         \* where each request is
  upload,     \* what it uploads
  alive,      \* its context has not ended
  parsed,     \* the records it is to store, and the number of their files
  staged,     \* the profit tables as its transaction sees them, and its counts
  outcome,    \* what applyProfitImport returned to it
  run,        \* its row among the runs
  runs,       \* temu_profit_import_runs
  db,         \* the committed rows of the profit tables
  \* history
  commits,    \* committed uploads, with their runs
  lost,       \* runs whose commit was not answered
  crashes

importVars == <<importing, pc, upload, alive, parsed, staged, outcome, run, runs, db,
                 commits, lost, crashes>>

Working(r) == pc[r] # "idle"

NothingParsed == [records |-> << >>, files |-> 0]
NothingStaged == [db |-> NoUpload, inserted |-> 0, updated |-> 0, records |-> 0]

Init ==
  /\ importing = FALSE
  /\ pc = [r \in Request |-> "idle"]
  /\ upload = [r \in Request |-> NoUpload]
  /\ alive = [r \in Request |-> FALSE]
  /\ parsed = [r \in Request |-> NothingParsed]
  /\ staged = [r \in Request |-> NothingStaged]
  /\ outcome = [r \in Request |-> "none"]
  /\ run = [r \in Request |-> 0]
  /\ runs = << >>
  /\ db = [rows |-> [t \in Tables |-> << >>], lines |-> {}]
  /\ commits = << >>
  /\ lost = {}
  /\ crashes = 0

----------------------------------------------------------------------------
(* Storing an upload *)

\* The key of an item, with the shop of the upload (coalesceShop).
KeyOf(shop, item) == <<shop>> \o item.key

\* A table with a row that is new, or overwritten.
Overwritten(table, key, value) ==
  [k \in {key} \cup DOMAIN table |-> IF k = key THEN value ELSE table[k]]

\* Seeded bug: a row that stays what it was counts as inserted.
UpsertedByValue(acc, t, key, item) ==
  LET changed == key \in DOMAIN acc.db.rows[t] /\ acc.db.rows[t][key] # item.value
  IN  [acc EXCEPT !.db.rows[t] = Overwritten(@, key, item.value),
                  !.inserted = IF changed THEN @ ELSE @ + 1,
                  !.updated = IF changed THEN @ + 1 ELSE @]

\* INSERT ... ON CONFLICT DO UPDATE of one record.  acc is what is stored so
\* far, and how many rows were inserted and updated (scanInserted, tally).
Upserted(acc, t, key, item) ==
  LET known == key \in DOMAIN acc.db.rows[t]
  IN  [acc EXCEPT !.db.rows[t] = Overwritten(@, key, item.value),
                  !.inserted = IF known THEN @ ELSE @ + 1,
                  !.updated = IF known THEN @ + 1 ELSE @]

\* Seeded bug: the SKUs of a file are put after those that are there.
RelinedAfter(acc, t, key, item) ==
  LET there == Cardinality({l \in acc.db.lines : l.table = t /\ l.order = key})
  IN  [acc EXCEPT !.db.lines = @ \cup
         {[table |-> t, order |-> key, no |-> there + n, sku |-> item.lines[n]]
            : n \in DOMAIN item.lines}]

\* The SKUs of an order are deleted and those of the file inserted.
Relined(acc, t, key, item) ==
  [acc EXCEPT !.db.lines = {l \in @ : l.table # t \/ l.order # key} \cup
     {[table |-> t, order |-> key, no |-> n, sku |-> item.lines[n]] : n \in DOMAIN item.lines}]

TableOrder == <<"shipping", "return", "chargeback", "violation", "platform", "disposal",
                "flow", "parent", "unsettle">>

\* The batches of each upload, or Bad.
Parsed == [u \in Upload |-> ParseUpload(Content[u])]

\* The records of file f in the order of upsertProfitBatch, and those of an
\* upload in the order of applyProfitImport.
FileRecords(batches, f) ==
  FlattenSeq([n \in DOMAIN TableOrder |->
    LET items == batches[f][TableOrder[n]]
    IN  [i \in DOMAIN items |-> [file |-> f, table |-> TableOrder[n], item |-> items[i]]]])

RecordsOf(batches) ==
  [ records |-> FlattenSeq([f \in DOMAIN batches |-> FileRecords(batches, f)]),
    files |-> Len(batches) ]

\* The statements for one record.
Stored(acc, shop, record) ==
  LET t   == record.table
      key == KeyOf(shop, record.item)
      now == Upserted(acc, t, key, record.item)
  IN  [ IF t \in Nested THEN Relined(now, t, key, record.item) ELSE now
          EXCEPT !.records = @ + 1 ]

\* The files and records a result counts: those of files that are complete.
FilesDone(r) ==
  IF staged[r].records = Len(parsed[r].records) THEN parsed[r].files
  ELSE parsed[r].records[staged[r].records + 1].file - 1

RecordsDone(r) ==
  Cardinality({i \in DOMAIN parsed[r].records : parsed[r].records[i].file <= FilesDone(r)})

----------------------------------------------------------------------------
(* The handler *)

Started == Len(runs) + Cardinality({r \in Request : pc[r] \in {"entered", "begin"}})

\* Seeded bug: the flag is set without a look at it.
EnterAnyway(r) ==
  /\ pc[r] = "idle"
  /\ Started < MaxUploads
  /\ importing' = TRUE
  /\ pc' = [pc EXCEPT ![r] = "entered"]
  /\ \E u \in Upload : upload' = [upload EXCEPT ![r] = u]
  /\ alive' = [alive EXCEPT ![r] = TRUE]
  /\ UNCHANGED <<parsed, staged, outcome, run, runs, db, commits, lost, crashes>>

\* The flag is taken; a request that finds it taken is refused.
Enter(r) ==
  /\ pc[r] = "idle"
  /\ ~importing
  /\ Started < MaxUploads
  /\ importing' = TRUE
  /\ pc' = [pc EXCEPT ![r] = "entered"]
  /\ \E u \in Upload : upload' = [upload EXCEPT ![r] = u]
  /\ alive' = [alive EXCEPT ![r] = TRUE]
  /\ UNCHANGED <<parsed, staged, outcome, run, runs, db, commits, lost, crashes>>

\* The handler returns: the deferred release of the flag.
Return(r) ==
  /\ importing' = FALSE
  /\ pc' = [pc EXCEPT ![r] = "idle"]
  /\ upload' = [upload EXCEPT ![r] = NoUpload]
  /\ alive' = [alive EXCEPT ![r] = FALSE]
  /\ parsed' = [parsed EXCEPT ![r] = NothingParsed]
  /\ staged' = [staged EXCEPT ![r] = NothingStaged]
  /\ outcome' = [outcome EXCEPT ![r] = "none"]
  /\ run' = [run EXCEPT ![r] = 0]

\* The form is not complete, its body does not arrive, or it cannot be parsed.
Reject(r) ==
  /\ pc[r] = "entered"
  /\ Return(r)
  /\ UNCHANGED <<runs, db, commits, lost, crashes>>

Accept(r) ==
  /\ pc[r] = "entered"
  /\ ~Failed(Parsed[upload[r]])
  /\ parsed' = [parsed EXCEPT ![r] = RecordsOf(Parsed[upload[r]])]
  /\ pc' = [pc EXCEPT ![r] = "begin"]
  /\ UNCHANGED <<importing, upload, alive, staged, outcome, run, runs, db,
                 commits, lost, crashes>>

NewRun(u) == [upload |-> u, status |-> "running", files |-> 0, rows |-> 0]

\* beginProfitImport, and BEGIN.
BeginRun(r) ==
  /\ pc[r] = "begin"
  /\ alive[r]
  /\ runs' = Append(runs, NewRun(upload[r]))
  /\ run' = [run EXCEPT ![r] = Len(runs) + 1]
  /\ staged' = [staged EXCEPT ![r].db = db]
  /\ pc' = [pc EXCEPT ![r] = "apply"]
  /\ UNCHANGED <<importing, upload, alive, parsed, outcome, db, commits,
                 lost, crashes>>

\* It fails; the row may be there all the same when only its answer is lost.
BeginFails(r) ==
  /\ pc[r] = "begin"
  /\ \/ UNCHANGED runs
     \/ alive[r] /\ runs' = Append(runs, NewRun(upload[r]))
  /\ Return(r)
  /\ UNCHANGED <<db, commits, lost, crashes>>

\* The next record is stored.
Store(r) ==
  /\ pc[r] = "apply"
  /\ alive[r]
  /\ staged[r].records < Len(parsed[r].records)
  /\ staged' = [staged EXCEPT ![r] =
                  Stored(@, Content[upload[r]].shop, parsed[r].records[@.records + 1])]
  /\ UNCHANGED <<importing, pc, upload, alive, parsed, outcome, run, runs, db, commits,
                 lost, crashes>>

\* Seeded bug: a context that ended is not noticed.
ApplyFailsAlive(r) ==
  /\ pc[r] = "apply"
  /\ alive[r]
  /\ outcome' = [outcome EXCEPT ![r] = "failed"]
  /\ pc' = [pc EXCEPT ![r] = "finish"]
  /\ UNCHANGED <<importing, upload, alive, parsed, staged, run, runs, db, commits,
                 lost, crashes>>

\* A statement fails, the COMMIT among them: everything is rolled back.
ApplyFails(r) ==
  /\ pc[r] = "apply"
  /\ outcome' = [outcome EXCEPT ![r] = "failed"]
  /\ pc' = [pc EXCEPT ![r] = "finish"]
  /\ UNCHANGED <<importing, upload, alive, parsed, staged, run, runs, db, commits,
                 lost, crashes>>

\* COMMIT, answered or not.
Commit(r) ==
  /\ pc[r] = "apply"
  /\ alive[r]
  /\ staged[r].records = Len(parsed[r].records)
  /\ db' = staged[r].db
  /\ commits' = Append(commits, [upload |-> upload[r], run |-> run[r]])
  /\ \/ /\ outcome' = [outcome EXCEPT ![r] = "succeeded"]
        /\ UNCHANGED lost
     \/ /\ outcome' = [outcome EXCEPT ![r] = "failed"]
        /\ lost' = lost \cup {run[r]}
  /\ pc' = [pc EXCEPT ![r] = "finish"]
  /\ UNCHANGED <<importing, upload, alive, parsed, staged, run, runs, crashes>>

\* A row that is completed with what was stored.
Completed(row, status, r) ==
  [upload |-> row.upload, status |-> status, files |-> FilesDone(r), rows |-> RecordsDone(r)]

\* Seeded bug: the row is completed as if nothing could have failed.
FinishSucceeded(r) ==
  /\ pc[r] = "finish"
  /\ alive[r]
  /\ runs' = [runs EXCEPT ![run[r]] = Completed(@, "succeeded", r)]
  /\ Return(r)
  /\ UNCHANGED <<db, commits, lost, crashes>>

\* finishProfitImport: what was stored is counted, also when it was rolled
\* back.
Finish(r) ==
  /\ pc[r] = "finish"
  /\ alive[r]
  /\ runs' = [runs EXCEPT ![run[r]] = Completed(@, outcome[r], r)]
  /\ Return(r)
  /\ UNCHANGED <<db, commits, lost, crashes>>

\* It fails, or the context has ended: logged only, and the row stays.
FinishFails(r) ==
  /\ pc[r] = "finish"
  /\ Return(r)
  /\ UNCHANGED <<runs, db, commits, lost, crashes>>

\* The client goes away, or four minutes are over.
ContextEnds(r) ==
  /\ Working(r)
  /\ alive[r]
  /\ alive' = [alive EXCEPT ![r] = FALSE]
  /\ UNCHANGED <<importing, pc, upload, parsed, staged, outcome, run, runs, db,
                 commits, lost, crashes>>

\* The process stops and starts again; the database rolls back.
Crash ==
  /\ crashes < MaxCrashes
  /\ crashes' = crashes + 1
  /\ importing' = FALSE
  /\ pc' = [r \in Request |-> "idle"]
  /\ upload' = [r \in Request |-> NoUpload]
  /\ alive' = [r \in Request |-> FALSE]
  /\ parsed' = [r \in Request |-> NothingParsed]
  /\ staged' = [r \in Request |-> NothingStaged]
  /\ outcome' = [r \in Request |-> "none"]
  /\ run' = [r \in Request |-> 0]
  /\ UNCHANGED <<runs, db, commits, lost>>

Handle(r) ==
  \/ Reject(r) \/ BeginFails(r) \/ ApplyFails(r) \/ FinishFails(r)
  \/ Accept(r) \/ BeginRun(r) \/ Store(r) \/ Commit(r) \/ Finish(r)

Next ==
  \/ \E r \in Request : Enter(r) \/ Handle(r) \/ ContextEnds(r)
  \/ Crash

Spec == Init /\ [][Next]_importVars /\ \A r \in Request : WF_importVars(Handle(r))

----------------------------------------------------------------------------
(* What the uploads say *)

\* The orders of a sheet, each with the SKUs from its row to the next one that
\* names a PO.
Blocks(sheet) ==
  LET rows   == sheet.rows
      starts == Chosen([i \in DOMAIN rows |-> i], {i \in Filled(sheet) : rows[i].po # ""})
      End(n) == IF n = Len(starts) THEN Len(rows) ELSE starts[n + 1] - 1
      Named(n) ==
        Chosen(rows, {i \in Filled(sheet) : i \in starts[n]..End(n) /\ rows[i].sku # ""})
  IN  [n \in DOMAIN starts |->
         [ key |-> <<rows[starts[n]].po>>, value |-> <<rows[starts[n]].amount>>,
           lines |-> [i \in DOMAIN Named(n) |-> Named(n)[i].sku] ]]

\* Items, each with the key its row is stored under.
Entered(shop, items) ==
  [i \in DOMAIN items |-> [key |-> KeyOf(shop, items[i]), item |-> items[i]]]

\* All that an upload says of a table, in the order of its files.
SaidBy(u, t) ==
  LET files == IF SourceKind(Content[u]) = "zip" THEN SheetFiles(Content[u].entries)
               ELSE <<Content[u].entries[1]>>
      Of(f) == IF t \in Nested /\ Parsed[u][f][t] # << >> THEN Blocks(files[f].sheets[1])
               ELSE Parsed[u][f][t]
  IN  Entered(Content[u].shop, FlattenSeq([f \in DOMAIN Parsed[u] |-> Of(f)]))

Said(t) == FlattenSeq([c \in DOMAIN commits |-> SaidBy(commits[c].upload, t)])

LinesOf(base, t, key) == {l \in base.lines : l.table = t /\ l.order = key}

\* A table has the last of what was said of each key, and nothing else.
Holds(base, t, said) ==
  LET Keys == {said[i].key : i \in DOMAIN said}
      Final(key) == said[Max({i \in DOMAIN said : said[i].key = key})].item
  IN  /\ DOMAIN base.rows[t] = Keys
      /\ \A key \in Keys : base.rows[t][key] = Final(key).value
      /\ t \in Nested =>
           /\ \A l \in base.lines : l.table = t => l.order \in Keys
           /\ \A key \in Keys :
                {<<l.no, l.sku>> : l \in LinesOf(base, t, key)}
                  = {<<n, Final(key).lines[n]>> : n \in DOMAIN Final(key).lines}

----------------------------------------------------------------------------
(* Properties *)

\* profitImporting: it is set exactly while a request works, and no two do,
\* on whatever path the one before returned.
OneImportAtATime ==
  /\ importing <=> \E r \in Request : Working(r)
  /\ \A r, s \in Request : Working(r) /\ Working(s) => r = s

\* "Uploading the same business key again overwrites amount, state and time;
\* old rows that do not appear are kept" (README:57): whatever failed, was cut
\* off or answered wrongly in between, each table holds for each key what the
\* last committed upload that names it says last, and nothing else.  An order
\* has the SKUs of its last block, numbered from 1 in the order of the file.
TablesHoldWhatWasCommitted == \A t \in Tables : Holds(db, t, Said(t))

\* The list of runs: one that succeeded is committed, and once; one that
\* failed is not, unless only the answer to its COMMIT was lost.
RunsAreHonest ==
  \A id \in DOMAIN runs :
    LET mine == {c \in DOMAIN commits : commits[c].run = id}
    IN  /\ \A c, d \in mine : c = d
        /\ runs[id].status = "succeeded" =>
             \E c \in mine : commits[c].upload = runs[id].upload
        /\ runs[id].status = "failed" => mine = {} \/ id \in lost

\* Uploading a file again, after an answer that got lost or was an error,
\* changes nothing and inserts nothing.
UploadingAgainChangesNothing ==
  [][ \A r \in Request :
        (Commit(r) /\ commits # << >> /\ commits[Len(commits)].upload = upload[r])
          => db' = db /\ staged[r].inserted = 0 ]_importVars

\* The rows of all tables that profitTableCounts counts, without SKUs.
TableCount(base) == Cardinality(UNION {{t} \X DOMAIN base.rows[t] : t \in Tables})

\* The records an upload has.
RecordCount(u) == Cardinality(UNION {{t} \X DOMAIN SaidBy(u, t) : t \in Tables})

\* An import that commits reports all of its records, and as inserted those
\* by which the tables grow, even when a file names a key twice or two files
\* share one.
InsertedRowsAreNew ==
  [][ \A r \in Request : Commit(r) =>
        /\ TableCount(db') = TableCount(db) + staged[r].inserted
        /\ FilesDone(r) = Len(Parsed[upload[r]])
        /\ RecordsDone(r) = staged[r].inserted + staged[r].updated
        /\ RecordsDone(r) = RecordCount(upload[r])
    ]_importVars

\* Every request that took the flag returns, whatever fails and whenever its
\* client goes, so that the next upload is not refused for ever.
UploadsEnd == \A r \in Request : Working(r) ~> ~Working(r)

=============================================================================
