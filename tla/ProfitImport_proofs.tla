------------------------- MODULE ProfitImport_proofs -------------------------
(***************************************************************************)
(* Proofs about ProfitImport, for any requests and uploads: no two imports *)
(* at a time; the list of runs says what became of each of them; and the   *)
(* tables hold what was committed.                                         *)
(*                                                                         *)
(* The last is proved in three parts.  The parsers: an upload that can be  *)
(* read is read into batches of records, and the orders of a sheet are the *)
(* blocks of its rows (ParsedWell).  The records: storing the next one     *)
(* keeps the tables of a transaction at what the upload says up to it      *)
(* (StoreStages).  The transactions: every step keeps the committed tables *)
(* at what the commits say, and each transaction at these and its own      *)
(* records (StoringStays).                                                 *)
(***************************************************************************)
EXTENDS ProfitImport, FiniteSetTheorems, SequenceTheorems, WellFoundedInduction, TLAPS

PCs == {"idle", "entered", "begin", "apply", "finish"}

\* The rows of temu_profit_import_runs; what they count is left open.
RunRow(Counts) ==
  [ upload : Upload, status : {"running", "succeeded", "failed"},
    files : Counts, rows : Counts ]

RunList == \E Counts : runs \in Seq(RunRow(Counts))

\* Types, of what the properties are about.
TypeOK ==
  /\ importing \in BOOLEAN
  /\ pc \in [Request -> PCs]
  /\ upload \in [Request -> Upload \cup {NoUpload}]
  /\ outcome \in [Request -> {"none", "succeeded", "failed"}]
  /\ run \in [Request -> Nat]
  /\ RunList
  /\ commits \in Seq([upload : Upload, run : Nat])
  /\ \A r \in Request : Working(r) => upload[r] \in Upload

\* A request that has a row owns one that is still running and is its own.
RunOwned ==
  \A r \in Request : pc[r] \in {"apply", "finish"} =>
    /\ run[r] \in DOMAIN runs
    /\ runs[run[r]].status = "running"
    /\ runs[run[r]].upload = upload[r]
    /\ pc[r] = "finish" => outcome[r] \in {"succeeded", "failed"}

\* What is known of the uploads that committed: each has a row of its own; a
\* request that has not reached its COMMIT has none, and one that has knows,
\* unless the answer was lost.
CommitsKnown ==
  /\ \A c \in DOMAIN commits : commits[c].run \in DOMAIN runs
  /\ \A c, d \in DOMAIN commits : commits[c].run = commits[d].run => c = d
  /\ \A r \in Request : pc[r] = "apply" =>
       \A c \in DOMAIN commits : commits[c].run # run[r]
  /\ \A r \in Request : pc[r] = "finish" =>
       /\ outcome[r] = "succeeded" =>
            \E c \in DOMAIN commits : commits[c].run = run[r] /\ commits[c].upload = upload[r]
       /\ outcome[r] = "failed" =>
            \/ \A c \in DOMAIN commits : commits[c].run # run[r]
            \/ run[r] \in lost

IInv == TypeOK /\ OneImportAtATime /\ RunOwned /\ CommitsKnown /\ RunsAreHonest

----------------------------------------------------------------------------
(* Types *)

\* A sequence of rows of some set is one of rows of a larger one.
LEMMA MoreRows ==
  ASSUME NEW S, NEW T, S \subseteq T, NEW rows \in Seq(S)
  PROVE  rows \in Seq(T)
<1>1. \A i \in 1..Len(rows) : rows[i] \in T
  OBVIOUS
<1>2. rows = [i \in 1..Len(rows) |-> rows[i]] /\ Len(rows) \in Nat
  OBVIOUS
<1>3. QED BY <1>1, <1>2

\* The initial state is well typed.
LEMMA InitTypes == Init => TypeOK
<1>1. SUFFICES ASSUME Init PROVE TypeOK
  OBVIOUS
<1>2. runs \in Seq(RunRow({}))
  BY <1>1 DEF Init
<1>3. RunList
  BY <1>2 DEF RunList
<1>4. commits \in Seq([upload : Upload, run : Nat])
  BY <1>1 DEF Init
<1>5. QED BY <1>1, <1>3, <1>4 DEF Init, TypeOK, PCs, Working

\* A row more, or one that is completed.
LEMMA RunsGrow ==
  ASSUME NEW u \in Upload, RunList, runs' = Append(runs, NewRun(u))
  PROVE  /\ RunList'
         /\ DOMAIN runs' = 1..Len(runs) + 1
         /\ DOMAIN runs = 1..Len(runs)
         /\ Len(runs) \in Nat
         /\ \A i \in DOMAIN runs : runs'[i] = runs[i]
         /\ runs'[Len(runs) + 1] = NewRun(u)
<1>1. PICK Counts : runs \in Seq(RunRow(Counts))
  BY DEF RunList
<1> DEFINE More == Counts \cup {0}
<1>2. RunRow(Counts) \subseteq RunRow(More)
  BY DEF RunRow
<1>3. runs \in Seq(RunRow(More))
  BY <1>1, <1>2, MoreRows
<1>4. NewRun(u) \in RunRow(More)
  BY DEF NewRun, RunRow
<1>5. runs' \in Seq(RunRow(More))
  BY <1>3, <1>4
<1>6. RunList'
  BY <1>5 DEF RunList, RunRow
<1>7. QED BY <1>3, <1>4, <1>6

\* Completing a row changes that row only, and not its upload.
LEMMA RunCompleted ==
  ASSUME NEW i \in DOMAIN runs, NEW s \in {"succeeded", "failed"}, NEW r, RunList,
         runs' = [runs EXCEPT ![i] = Completed(@, s, r)]
  PROVE  /\ RunList'
         /\ DOMAIN runs' = DOMAIN runs
         /\ \A j \in DOMAIN runs : j # i => runs'[j] = runs[j]
         /\ runs'[i].status = s
         /\ runs'[i].upload = runs[i].upload
<1>1. PICK Counts : runs \in Seq(RunRow(Counts))
  BY DEF RunList
<1> DEFINE More == Counts \cup {FilesDone(r), RecordsDone(r)}
<1> DEFINE row == Completed(runs[i], s, r)
<1>2. RunRow(Counts) \subseteq RunRow(More)
  BY DEF RunRow
<1>3. runs \in Seq(RunRow(More))
  BY <1>1, <1>2, MoreRows
<1>4. runs[i] \in RunRow(Counts)
  BY <1>1
<1>5. row \in RunRow(More) /\ row.status = s /\ row.upload = runs[i].upload
  BY <1>4 DEF RunRow, Completed
<1>6. runs' = [runs EXCEPT ![i] = row]
  OBVIOUS
<1> HIDE DEF row, More
<1>7. runs' \in Seq(RunRow(More))
  BY <1>3, <1>5, <1>6
<1>8. RunList'
  BY <1>7 DEF RunList, RunRow
<1>9. QED BY <1>3, <1>5, <1>6, <1>8

\* Every step keeps the types.
LEMMA TypesStay ==
  ASSUME TypeOK, RunOwned, [Next]_importVars
  PROVE  TypeOK'
<1> USE DEF TypeOK, PCs, Working
<1>1. ASSUME UNCHANGED importVars PROVE TypeOK'
  BY <1>1 DEF importVars, RunList, RunRow
<1>2. ASSUME NEW r \in Request, Enter(r) PROVE TypeOK'
  BY <1>2 DEF Enter, RunList, RunRow
<1>3. ASSUME NEW r \in Request, Reject(r) PROVE TypeOK'
  BY <1>3 DEF Reject, Return, RunList, RunRow
<1>4. ASSUME NEW r \in Request, Accept(r) PROVE TypeOK'
  BY <1>4 DEF Accept, RunList, RunRow
<1>5. ASSUME NEW r \in Request, BeginRun(r) PROVE TypeOK'
  <2>1. upload[r] \in Upload
    BY <1>5 DEF BeginRun
  <2>2. RunList' /\ Len(runs) \in Nat
    BY <1>5, <2>1, RunsGrow DEF BeginRun
  <2>3. QED BY <1>5, <2>2 DEF BeginRun
<1>6. ASSUME NEW r \in Request, BeginFails(r) PROVE TypeOK'
  <2>1. upload[r] \in Upload
    BY <1>6 DEF BeginFails
  <2>2. CASE UNCHANGED runs
    BY <1>6, <2>2 DEF BeginFails, Return, RunList, RunRow
  <2>3. CASE runs' = Append(runs, NewRun(upload[r]))
    <3>1. RunList'
      BY <2>1, <2>3, RunsGrow
    <3>2. QED BY <1>6, <3>1 DEF BeginFails, Return
  <2>4. QED BY <1>6, <2>2, <2>3 DEF BeginFails
<1>7. ASSUME NEW r \in Request, Store(r) PROVE TypeOK'
  BY <1>7 DEF Store, RunList, RunRow
<1>8. ASSUME NEW r \in Request, ApplyFails(r) PROVE TypeOK'
  BY <1>8 DEF ApplyFails, RunList, RunRow
<1>9. ASSUME NEW r \in Request, Commit(r) PROVE TypeOK'
  <2>1. upload[r] \in Upload /\ run[r] \in Nat
    BY <1>9 DEF Commit
  <2>2. commits' \in Seq([upload : Upload, run : Nat])
    BY <1>9, <2>1 DEF Commit
  <2>3. RunList'
    BY <1>9 DEF Commit, RunList, RunRow
  <2>4. outcome' \in [Request -> {"none", "succeeded", "failed"}]
    BY <1>9 DEF Commit
  <2>5. QED BY <1>9, <2>2, <2>3, <2>4 DEF Commit
<1>10. ASSUME NEW r \in Request, Finish(r) PROVE TypeOK'
  <2>1. RunList'
    BY <1>10, RunCompleted DEF Finish, RunOwned
  <2>2. QED BY <1>10, <2>1 DEF Finish, Return
<1>11. ASSUME NEW r \in Request, FinishFails(r) PROVE TypeOK'
  BY <1>11 DEF FinishFails, Return, RunList, RunRow
<1>12. ASSUME NEW r \in Request, ContextEnds(r) PROVE TypeOK'
  BY <1>12 DEF ContextEnds, RunList, RunRow
<1>13. ASSUME Crash PROVE TypeOK'
  BY <1>13 DEF Crash, RunList, RunRow
<1>14. QED
  BY <1>1, <1>2, <1>3, <1>4, <1>5, <1>6, <1>7, <1>8, <1>9, <1>10, <1>11, <1>12, <1>13
  DEF Next, Handle

----------------------------------------------------------------------------
(* One import at a time *)

\* Every step keeps imports apart.
LEMMA OneImportStays ==
  ASSUME TypeOK, OneImportAtATime, [Next]_importVars
  PROVE  OneImportAtATime'
<1> USE DEF TypeOK, OneImportAtATime, Working, PCs
<1>1. ASSUME UNCHANGED importVars PROVE OneImportAtATime'
  BY <1>1 DEF importVars
<1>2. ASSUME NEW r \in Request, Enter(r) PROVE OneImportAtATime'
  BY <1>2 DEF Enter
\* Whoever returns is the only one that works.
<1>3. ASSUME NEW r \in Request, pc[r] # "idle", Return(r) PROVE OneImportAtATime'
  BY <1>3 DEF Return
\* A step of the one that works leaves it at work.
<1>4. ASSUME NEW r \in Request, pc[r] # "idle", importing' = importing,
             NEW next \in PCs \ {"idle"}, pc' = [pc EXCEPT ![r] = next]
      PROVE  OneImportAtATime'
  BY <1>4
<1>5. ASSUME UNCHANGED <<importing, pc>> PROVE OneImportAtATime'
  BY <1>5
<1>6. ASSUME NEW r \in Request, Handle(r) PROVE OneImportAtATime'
  <2>1. CASE Reject(r)
    BY <1>3, <2>1 DEF Reject
  <2>2. CASE BeginFails(r)
    BY <1>3, <2>2 DEF BeginFails
  <2>3. CASE ApplyFails(r)
    BY <1>4, <2>3 DEF ApplyFails
  <2>4. CASE FinishFails(r)
    BY <1>3, <2>4 DEF FinishFails
  <2>5. CASE Accept(r)
    BY <1>4, <2>5 DEF Accept
  <2>6. CASE BeginRun(r)
    BY <1>4, <2>6 DEF BeginRun
  <2>7. CASE Store(r)
    BY <1>5, <2>7 DEF Store
  <2>8. CASE Commit(r)
    BY <1>4, <2>8 DEF Commit
  <2>9. CASE Finish(r)
    BY <1>3, <2>9 DEF Finish
  <2>10. QED
    BY <1>6, <2>1, <2>2, <2>3, <2>4, <2>5, <2>6, <2>7, <2>8, <2>9 DEF Handle
<1>7. ASSUME NEW r \in Request, ContextEnds(r) PROVE OneImportAtATime'
  BY <1>5, <1>7 DEF ContextEnds
<1>8. ASSUME Crash PROVE OneImportAtATime'
  BY <1>8 DEF Crash
<1>9. QED BY <1>1, <1>2, <1>6, <1>7, <1>8 DEF Next

----------------------------------------------------------------------------
(* The list of runs *)

Honest == RunOwned /\ CommitsKnown /\ RunsAreHonest

\* The list and the commits stay, and so does whoever works on them, or it has
\* left; also when it begins to work, before it has a row.
LEMMA HonestWithout ==
  ASSUME Honest, UNCHANGED <<runs, commits, lost>>,
         \A r \in Request :
           \/ pc'[r] \notin {"apply", "finish"}
           \/ UNCHANGED <<pc[r], run[r], upload[r], outcome[r]>>
  PROVE  Honest'
BY DEF Honest, RunOwned, CommitsKnown, RunsAreHonest

\* A row more, that nobody owns yet.
LEMMA HonestWithRow ==
  ASSUME TypeOK, Honest, NEW u \in Upload, runs' = Append(runs, NewRun(u)),
         UNCHANGED <<commits, lost>>
  PROVE  /\ \A c \in DOMAIN commits : commits[c].run \in DOMAIN runs'
         /\ \A c \in DOMAIN commits : commits[c].run # Len(runs) + 1
         /\ \A i \in DOMAIN runs : i \in DOMAIN runs' /\ runs'[i] = runs[i]
         /\ Len(runs) + 1 \in DOMAIN runs'
         /\ runs'[Len(runs) + 1] = NewRun(u)
         /\ RunsAreHonest'
<1>1. /\ DOMAIN runs' = 1..Len(runs) + 1
      /\ DOMAIN runs = 1..Len(runs)
      /\ Len(runs) \in Nat
      /\ \A i \in DOMAIN runs : runs'[i] = runs[i]
      /\ runs'[Len(runs) + 1] = NewRun(u)
  BY RunsGrow DEF TypeOK
<1>2. \A c \in DOMAIN commits : commits[c].run \in 1..Len(runs)
  BY <1>1 DEF Honest, CommitsKnown
<1>3. RunsAreHonest'
  BY <1>1, <1>2 DEF Honest, RunsAreHonest, NewRun
<1>4. QED BY <1>1, <1>2, <1>3

\* Every step keeps the list of runs honest.
LEMMA HonestStays ==
  ASSUME TypeOK, OneImportAtATime, Honest, [Next]_importVars
  PROVE  Honest'
<1> USE DEF TypeOK, Working, PCs
<1>1. CASE UNCHANGED importVars
  BY <1>1, HonestWithout DEF importVars
<1>2. ASSUME NEW r \in Request, Enter(r) PROVE Honest'
  BY <1>2, HonestWithout DEF Enter
<1>3. ASSUME NEW r \in Request, Reject(r) PROVE Honest'
  BY <1>3, HonestWithout DEF Reject, Return
<1>4. ASSUME NEW r \in Request, Accept(r) PROVE Honest'
  BY <1>4, HonestWithout DEF Accept
<1>5. ASSUME NEW r \in Request, BeginRun(r) PROVE Honest'
  <2>1. upload[r] \in Upload /\ runs' = Append(runs, NewRun(upload[r]))
    BY <1>5 DEF BeginRun
  <2>2. \A q \in Request : q # r => pc'[q] = "idle"
    BY <1>5 DEF BeginRun, OneImportAtATime
  <2>3. UNCHANGED <<commits, lost, upload, outcome>>
    BY <1>5 DEF BeginRun
  <2>4. pc'[r] = "apply" /\ run'[r] = Len(runs) + 1
    BY <1>5 DEF BeginRun
  <2>5. RunOwned'
    <3>1. run'[r] \in DOMAIN runs' /\ runs'[run'[r]] = NewRun(upload[r])
      BY <2>1, <2>3, <2>4, HonestWithRow
    <3>2. (runs[run[r]].status = "running" /\ runs[run[r]].upload = upload[r])'
      BY <2>3, <3>1 DEF NewRun
    <3> HIDE DEF TypeOK
    <3>3. QED BY <2>2, <2>4, <3>1, <3>2 DEF RunOwned
  <2>6. CommitsKnown'
    BY <2>1, <2>2, <2>3, <2>4, HonestWithRow DEF CommitsKnown, Honest
  <2>7. QED BY <2>1, <2>3, <2>5, <2>6, HonestWithRow DEF Honest
<1>6. ASSUME NEW r \in Request, BeginFails(r) PROVE Honest'
  <2>1. upload[r] \in Upload
    BY <1>6 DEF BeginFails
  <2>2. \A q \in Request : pc'[q] = "idle"
    BY <1>6 DEF BeginFails, Return, OneImportAtATime
  <2>3. UNCHANGED <<commits, lost>>
    BY <1>6 DEF BeginFails
  <2>4. CASE UNCHANGED runs
    BY <2>2, <2>3, <2>4, HonestWithout
  <2>5. CASE runs' = Append(runs, NewRun(upload[r]))
    BY <2>1, <2>2, <2>3, <2>5, HonestWithRow DEF RunOwned, CommitsKnown, Honest
  <2>6. QED BY <1>6, <2>4, <2>5 DEF BeginFails
<1>7. ASSUME NEW r \in Request, Store(r) PROVE Honest'
  BY <1>7, HonestWithout DEF Store
<1>8. ASSUME NEW r \in Request, ApplyFails(r) PROVE Honest'
  BY <1>8 DEF ApplyFails, Honest, RunOwned, CommitsKnown, RunsAreHonest
<1>9. ASSUME NEW r \in Request, Commit(r) PROVE Honest'
  <2>1. /\ pc[r] = "apply" /\ pc'[r] = "finish"
        /\ UNCHANGED <<runs, run, upload>>
        /\ commits' = Append(commits, [upload |-> upload[r], run |-> run[r]])
    BY <1>9 DEF Commit
  <2>2. \A q \in Request : q # r => pc'[q] = "idle"
    BY <1>9 DEF Commit, OneImportAtATime
  <2>3. /\ DOMAIN commits = 1..Len(commits) /\ Len(commits) \in Nat
        /\ DOMAIN commits' = 1..Len(commits) + 1
        /\ \A c \in DOMAIN commits : commits'[c] = commits[c]
        /\ commits'[Len(commits) + 1] = [upload |-> upload[r], run |-> run[r]]
    BY <2>1
  <2>4. \/ outcome'[r] = "succeeded" /\ lost' = lost
        \/ outcome'[r] = "failed" /\ lost' = lost \cup {run[r]}
    BY <1>9 DEF Commit
  <2>5. /\ run[r] \in DOMAIN runs /\ runs[run[r]].status = "running"
        /\ runs[run[r]].upload = upload[r]
        /\ \A c \in DOMAIN commits : commits[c].run # run[r]
    BY <2>1 DEF Honest, RunOwned, CommitsKnown
  <2> HIDE DEF TypeOK
  <2>6. RunOwned'
    BY <2>1, <2>2, <2>4, <2>5 DEF RunOwned
  <2>7. CommitsKnown'
    <3>1. (\A c \in DOMAIN commits : commits[c].run \in DOMAIN runs)'
      BY <2>1, <2>3, <2>5 DEF Honest, CommitsKnown
    <3>2. (\A c, d \in DOMAIN commits : commits[c].run = commits[d].run => c = d)'
      BY <2>3, <2>5 DEF Honest, CommitsKnown
    <3>3. \E c \in DOMAIN commits' :
            commits'[c].run = run'[r] /\ commits'[c].upload = upload'[r]
      BY <2>1, <2>3
    <3>4. outcome'[r] = "failed" => run'[r] \in lost'
      BY <2>1, <2>4
    <3>5. QED BY <2>1, <2>2, <3>1, <3>2, <3>3, <3>4 DEF CommitsKnown
  <2>8. RunsAreHonest'
    <3>1. \A c \in DOMAIN commits' :
            \/ c \in DOMAIN commits /\ commits'[c] = commits[c]
            \/ commits'[c].run = run[r]
      BY <2>3
    <3>2. SUFFICES ASSUME NEW id \in DOMAIN runs
                   PROVE  LET mine == {c \in DOMAIN commits' : commits'[c].run = id}
                          IN  /\ \A c, d \in mine : c = d
                              /\ runs[id].status = "succeeded" =>
                                   \E c \in mine : commits'[c].upload = runs[id].upload
                              /\ runs[id].status = "failed" => mine = {} \/ id \in lost'
      BY <2>1 DEF RunsAreHonest
    <3>3. \A c, d \in DOMAIN commits' : commits'[c].run = commits'[d].run => c = d
      BY <2>7 DEF CommitsKnown
    <3>4. CASE id = run[r]
      BY <2>5, <3>3, <3>4
    <3>5. CASE id # run[r]
      <4>1. {c \in DOMAIN commits' : commits'[c].run = id}
              = {c \in DOMAIN commits : commits[c].run = id}
        BY <2>3, <3>1, <3>5
      <4>2. lost \subseteq lost'
        BY <2>4
      <4>3. QED BY <2>3, <3>3, <4>1, <4>2 DEF Honest, RunsAreHonest
    <3>6. QED BY <3>4, <3>5
  <2>9. QED BY <2>6, <2>7, <2>8 DEF Honest
<1>10. ASSUME NEW r \in Request, Finish(r) PROVE Honest'
  <2>1. /\ pc[r] = "finish"
        /\ runs' = [runs EXCEPT ![run[r]] = Completed(@, outcome[r], r)]
        /\ UNCHANGED <<commits, lost>>
    BY <1>10 DEF Finish
  <2>2. \A q \in Request : pc'[q] = "idle"
    BY <1>10 DEF Finish, Return, OneImportAtATime
  <2>3. /\ run[r] \in DOMAIN runs
        /\ outcome[r] \in {"succeeded", "failed"}
        /\ runs[run[r]].upload = upload[r]
    BY <2>1 DEF Honest, RunOwned
  <2>4. /\ DOMAIN runs' = DOMAIN runs
        /\ \A j \in DOMAIN runs : j # run[r] => runs'[j] = runs[j]
        /\ runs'[run[r]].status = outcome[r]
        /\ runs'[run[r]].upload = upload[r]
    BY <2>1, <2>3, RunCompleted
  <2>5. RunOwned' /\ CommitsKnown'
    BY <2>1, <2>2, <2>4 DEF Honest, RunOwned, CommitsKnown
  <2>6. RunsAreHonest'
    <3> HIDE DEF TypeOK
    <3>1. /\ outcome[r] = "succeeded" =>
               \E c \in DOMAIN commits : commits[c].run = run[r] /\ commits[c].upload = upload[r]
          /\ outcome[r] = "failed" =>
               \/ \A c \in DOMAIN commits : commits[c].run # run[r]
               \/ run[r] \in lost
      BY <2>1 DEF Honest, CommitsKnown
    <3>2. SUFFICES ASSUME NEW id \in DOMAIN runs
                   PROVE  LET mine == {c \in DOMAIN commits : commits[c].run = id}
                          IN  /\ \A c, d \in mine : c = d
                              /\ runs'[id].status = "succeeded" =>
                                   \E c \in mine : commits[c].upload = runs'[id].upload
                              /\ runs'[id].status = "failed" => mine = {} \/ id \in lost
      BY <2>1, <2>4 DEF RunsAreHonest
    <3>3. CASE id = run[r]
      BY <2>4, <3>1, <3>3 DEF Honest, CommitsKnown
    <3>4. CASE id # run[r]
      BY <2>4, <3>4 DEF Honest, RunsAreHonest
    <3>5. QED BY <3>3, <3>4
  <2>7. QED BY <2>5, <2>6 DEF Honest
<1>11. ASSUME NEW r \in Request, FinishFails(r) PROVE Honest'
  BY <1>11, HonestWithout DEF FinishFails, Return
<1>12. ASSUME NEW r \in Request, ContextEnds(r) PROVE Honest'
  BY <1>12, HonestWithout DEF ContextEnds
<1>13. ASSUME Crash PROVE Honest'
  BY <1>13, HonestWithout DEF Crash
<1>14. QED
  BY <1>1, <1>2, <1>3, <1>4, <1>5, <1>6, <1>7, <1>8, <1>9, <1>10, <1>11, <1>12, <1>13
  DEF Next, Handle

----------------------------------------------------------------------------

\* The invariant holds at the start.
LEMMA InitInvariant == Init => IInv
<1>1. SUFFICES ASSUME Init PROVE IInv
  OBVIOUS
<1>2. TypeOK
  BY <1>1, InitTypes
<1>3. DOMAIN runs = {} /\ DOMAIN commits = {}
  BY <1>1 DEF Init
<1>4. \A r \in Request : pc[r] = "idle"
  BY <1>1 DEF Init
<1>5. OneImportAtATime
  BY <1>1, <1>4 DEF Init, OneImportAtATime, Working
<1>6. RunOwned /\ CommitsKnown /\ RunsAreHonest
  BY <1>3, <1>4 DEF RunOwned, CommitsKnown, RunsAreHonest
<1>7. QED BY <1>2, <1>5, <1>6 DEF IInv

\* The inductive invariant holds in every behaviour of ProfitImport.
THEOREM Invariant == Spec => []IInv
<1>1. Init => IInv
  BY InitInvariant
<1>2. IInv /\ [Next]_importVars => IInv'
  BY TypesStay, OneImportStays, HonestStays DEF IInv, Honest
<1>3. QED BY <1>1, <1>2, PTL DEF Spec

\* Of any number of requests no two import at the same time, and the flag is
\* set exactly while one does, on whatever path the one before it returned.
THEOREM ImportsAreExclusive == Spec => []OneImportAtATime
BY Invariant, PTL DEF IInv

\* What the list of runs says of any import is true: one that succeeded was
\* committed once, and one that failed was not, or its answer was lost.
THEOREM RunsTellTheTruth == Spec => []RunsAreHonest
BY Invariant, PTL DEF IInv

----------------------------------------------------------------------------
(* Induction, and the functions that are defined by it *)

Below == {p \in Nat \X Nat : p[1] < p[2]}

\* Induction over the numbers, for a set of them.
LEMMA NatSetInduction ==
  ASSUME NEW S \in SUBSET Nat, 0 \in S, \A n \in S : n + 1 \in S
  PROVE  S = Nat
<1>1. IsWellFoundedOn(Below, Nat)
  BY NatLessThanWellFounded DEF OpToRel, Below
<1>2. SUFFICES ASSUME Nat \ S # {} PROVE FALSE
  OBVIOUS
<1>3. PICK x \in Nat \ S : \A y \in Nat \ S : <<y, x>> \notin Below
  BY <1>1, <1>2, WFMin
<1>4. x # 0 /\ x - 1 \in Nat /\ <<x - 1, x>> \in Below
  BY DEF Below
<1>5. x - 1 \in S
  BY <1>3, <1>4
<1>6. QED
  BY <1>4, <1>5

\* One step of Chosen.
Take(seq, places, kept, n) ==
  IF n = 0 THEN << >>
  ELSE IF n \in places THEN Append(kept[n - 1], seq[n]) ELSE kept[n - 1]
Taken(seq, places) == CHOOSE kept : kept = [n \in 0..Len(seq) |-> Take(seq, places, kept, n)]

\* Chosen is the last value of the function it defines.
LEMMA ChosenIsTaken ==
  ASSUME NEW seq, NEW places
  PROVE  Chosen(seq, places) = Taken(seq, places)[Len(seq)]
BY DEF Chosen, Taken, Take

\* That function exists.
LEMMA TakenExists ==
  ASSUME NEW seq, NEW places, Len(seq) \in Nat
  PROVE  Taken(seq, places) = [n \in 0..Len(seq) |-> Take(seq, places, Taken(seq, places), n)]
<1> DEFINE Ends == {k \in Nat : \E g : g = [n \in 0..k |-> Take(seq, places, g, n)]}
<1>1. 0 \in Ends
  <2> DEFINE g == [n \in 0..0 |-> << >>]
  <2>1. g = [n \in 0..0 |-> Take(seq, places, g, n)]
    BY DEF Take
  <2>2. QED BY <2>1
<1>2. ASSUME NEW k \in Ends PROVE k + 1 \in Ends
  <2>1. PICK g : g = [n \in 0..k |-> Take(seq, places, g, n)]
    OBVIOUS
  <2> DEFINE h == [n \in 0..k + 1 |-> IF n <= k THEN g[n] ELSE Take(seq, places, g, n)]
  <2>2. \A n \in 0..k + 1 : Take(seq, places, h, n) = Take(seq, places, g, n)
    BY DEF Take
  <2>3. \A n \in 0..k + 1 : h[n] = Take(seq, places, g, n)
    BY <2>1
  <2>4. h = [n \in 0..k + 1 |-> Take(seq, places, h, n)]
    BY <2>2, <2>3
  <2> HIDE DEF h
  <2>5. QED BY <2>4
<1>3. Ends = Nat
  <2> HIDE DEF Ends
  <2>1. Ends \in SUBSET Nat
    BY DEF Ends
  <2>2. QED BY <1>1, <1>2, <2>1, NatSetInduction
<1>4. \E g : g = [n \in 0..Len(seq) |-> Take(seq, places, g, n)]
  BY <1>3
<1>5. QED BY <1>4 DEF Taken

\* kept[n] is what is chosen from the first n.
Takes(kept, seq, places) ==
  /\ kept[0] = << >>
  /\ \A n \in 0..Len(seq) - 1 :
       kept[n + 1] = IF n + 1 \in places THEN Append(kept[n], seq[n + 1]) ELSE kept[n]

\* Chosen is the last of a row of sequences, each made from the one before.
LEMMA ChosenTakes ==
  ASSUME NEW seq, NEW places, Len(seq) \in Nat
  PROVE  \E kept : Takes(kept, seq, places) /\ Chosen(seq, places) = kept[Len(seq)]
<1> DEFINE f == Taken(seq, places)
<1>1. f = [n \in 0..Len(seq) |-> Take(seq, places, f, n)] /\ Chosen(seq, places) = f[Len(seq)]
  BY TakenExists, ChosenIsTaken
<1> HIDE DEF f
<1>2. f[0] = << >>
  BY <1>1 DEF Take
<1>3. ASSUME NEW n \in 0..Len(seq) - 1
      PROVE  f[n + 1] = IF n + 1 \in places THEN Append(f[n], seq[n + 1]) ELSE f[n]
  <2>1. n + 1 \in 0..Len(seq) /\ n + 1 # 0 /\ (n + 1) - 1 = n
    OBVIOUS
  <2>2. f[n + 1] = Take(seq, places, f, n + 1)
    BY <1>1, <2>1
  <2>3. QED BY <2>1, <2>2 DEF Take
<1>4. Takes(f, seq, places)
  BY <1>2, <1>3 DEF Takes
<1>5. QED BY <1>1, <1>4

\* Sequences made by appending what a sequence has are of its kind.
LEMMA KeptType ==
  ASSUME NEW S, NEW seq \in Seq(S), NEW places, NEW kept, kept[0] = << >>,
         \A n \in 0..Len(seq) - 1 : kept[n + 1] \in {kept[n], Append(kept[n], seq[n + 1])}
  PROVE  \A n \in 0..Len(seq) : kept[n] \in Seq(S)
<1> DEFINE N == {n \in Nat : n <= Len(seq) => kept[n] \in Seq(S)}
<1>1. 0 \in N
  <2>1. << >> \in Seq(S) /\ 0 \in Nat
    OBVIOUS
  <2>2. QED BY <2>1, Zenon
<1>2. ASSUME NEW n \in N PROVE n + 1 \in N
  <2>1. SUFFICES ASSUME n + 1 <= Len(seq) PROVE kept[n + 1] \in Seq(S)
    OBVIOUS
  <2>2. n \in 0..Len(seq) - 1 /\ n + 1 \in 1..Len(seq) /\ kept[n] \in Seq(S)
    BY <2>1
  <2>3. kept[n + 1] \in {kept[n], Append(kept[n], seq[n + 1])}
    BY <2>2
  <2>4. Append(kept[n], seq[n + 1]) \in Seq(S)
    BY <2>2
  <2>5. QED BY <2>2, <2>3, <2>4
<1>3. N = Nat
  <2> HIDE DEF N
  <2>1. N \in SUBSET Nat
    BY DEF N
  <2>2. QED BY <1>1, <1>2, <2>1, NatSetInduction
<1>4. QED BY <1>3

\* So are those Chosen is made from.
LEMMA TakesType ==
  ASSUME NEW S, NEW seq \in Seq(S), NEW places, NEW kept, Takes(kept, seq, places)
  PROVE  \A n \in 0..Len(seq) : kept[n] \in Seq(S)
<1>1. kept[0] = << >>
  BY DEF Takes
<1>2. \A n \in 0..Len(seq) - 1 : kept[n + 1] \in {kept[n], Append(kept[n], seq[n + 1])}
  BY DEF Takes
<1>3. QED BY <1>1, <1>2, KeptType

\* What is chosen from a sequence is a sequence.
LEMMA ChosenType ==
  ASSUME NEW S, NEW seq \in Seq(S), NEW places
  PROVE  Chosen(seq, places) \in Seq(S)
<1>1. Len(seq) \in 0..Len(seq)
  OBVIOUS
<1>2. QED BY <1>1, TakesType, ChosenTakes

\* Nothing is chosen beyond the last place.
LEMMA NoneAfter ==
  ASSUME NEW seq, Len(seq) \in Nat, NEW places, NEW kept, Takes(kept, seq, places),
         NEW n \in 0..Len(seq), \A i \in (n + 1)..Len(seq) : i \notin places
  PROVE  kept[Len(seq)] = kept[n]
<1> DEFINE N == {m \in Nat : n + m <= Len(seq) => kept[n + m] = kept[n]}
<1>1. 0 \in N
  OBVIOUS
<1>2. ASSUME NEW m \in N PROVE m + 1 \in N
  <2>1. SUFFICES ASSUME n + (m + 1) <= Len(seq) PROVE kept[n + (m + 1)] = kept[n]
    OBVIOUS
  <2>2. n + m \in 0..Len(seq) - 1 /\ (n + m) + 1 = n + (m + 1) /\ (n + m) + 1 \notin places
    BY <2>1
  <2>3. kept[(n + m) + 1] = kept[n + m]
    BY <2>2 DEF Takes
  <2>4. QED BY <2>1, <2>2, <2>3
<1>3. N = Nat
  <2> HIDE DEF N
  <2>1. N \in SUBSET Nat
    BY DEF N
  <2>2. QED BY <1>1, <1>2, <2>1, NatSetInduction
<1>4. Len(seq) - n \in N /\ n + (Len(seq) - n) = Len(seq)
  <2>1. Len(seq) - n \in Nat /\ n + (Len(seq) - n) = Len(seq)
    OBVIOUS
  <2> HIDE DEF N
  <2>2. QED BY <1>3, <2>1
<1>5. QED BY <1>4

\* Up to some place it makes no difference what is chosen after it, or what
\* follows there.
LEMMA SameBefore ==
  ASSUME NEW seq, NEW other, Len(seq) \in Nat, Len(other) \in Nat, NEW places, NEW others,
         NEW kept, Takes(kept, seq, places), NEW held, Takes(held, other, others),
         NEW n \in 0..Len(seq), n <= Len(other),
         \A i \in 1..n : other[i] = seq[i] /\ (i \in places <=> i \in others)
  PROVE  held[n] = kept[n]
<1> DEFINE N == {m \in Nat : m <= n => held[m] = kept[m]}
<1>1. 0 \in N
  BY DEF Takes
<1>2. ASSUME NEW m \in N PROVE m + 1 \in N
  <2>1. SUFFICES ASSUME m + 1 <= n PROVE held[m + 1] = kept[m + 1]
    OBVIOUS
  <2>2. m \in 0..Len(seq) - 1 /\ m \in 0..Len(other) - 1 /\ m + 1 \in 1..n
    BY <2>1
  <2>3. held[m] = kept[m]
    BY <2>1
  <2>4. QED BY <2>2, <2>3 DEF Takes
<1>3. N = Nat
  <2> HIDE DEF N
  <2>1. N \in SUBSET Nat
    BY DEF N
  <2>2. QED BY <1>1, <1>2, <2>1, NatSetInduction
<1>4. n \in N
  <2> HIDE DEF N
  <2>1. QED BY <1>3
<1>5. QED BY <1>4

\* A place more, after those that are chosen.
LEMMA ChosenGrows ==
  ASSUME NEW seq, Len(seq) \in Nat, NEW places, NEW more, NEW n \in 0..Len(seq) - 1,
         \A i \in 1..n : i \in more <=> i \in places,
         n + 1 \in more,
         \A i \in (n + 1)..Len(seq) : i \notin places,
         \A i \in (n + 2)..Len(seq) : i \notin more
  PROVE  Chosen(seq, more) = Append(Chosen(seq, places), seq[n + 1])
<1>1. PICK kept : Takes(kept, seq, places) /\ Chosen(seq, places) = kept[Len(seq)]
  BY ChosenTakes
<1>2. PICK held : Takes(held, seq, more) /\ Chosen(seq, more) = held[Len(seq)]
  BY ChosenTakes
<1>3. n \in 0..Len(seq) /\ n + 1 \in 0..Len(seq) /\ (n + 1) + 1 = n + 2
  OBVIOUS
<1>4. Chosen(seq, places) = kept[n]
  BY <1>1, <1>3, NoneAfter
<1>5. Chosen(seq, more) = held[n + 1]
  BY <1>2, <1>3, NoneAfter
<1>6. held[n] = kept[n]
  BY <1>1, <1>2, <1>3, SameBefore
<1>7. QED BY <1>2, <1>4, <1>5, <1>6 DEF Takes

\* Where no place is chosen, nothing is.
LEMMA ChosenNone ==
  ASSUME NEW seq, Len(seq) \in Nat, NEW places, \A i \in 1..Len(seq) : i \notin places
  PROVE  Chosen(seq, places) = << >>
<1>1. PICK kept : Takes(kept, seq, places) /\ Chosen(seq, places) = kept[Len(seq)]
  BY ChosenTakes
<1>2. 0 \in 0..Len(seq) /\ 0 + 1 = 1
  OBVIOUS
<1>3. kept[Len(seq)] = kept[0]
  BY <1>1, <1>2, NoneAfter
<1>4. QED BY <1>1, <1>3 DEF Takes

\* Of a sequence with one more.
LEMMA ChosenOfAppend ==
  ASSUME NEW S, NEW seq \in Seq(S), NEW x \in S, NEW places, NEW others,
         \A i \in 1..Len(seq) : i \in places <=> i \in others
  PROVE  Chosen(Append(seq, x), others) =
           IF Len(seq) + 1 \in others THEN Append(Chosen(seq, places), x)
           ELSE Chosen(seq, places)
<1> DEFINE more == Append(seq, x)
<1>1. Len(more) = Len(seq) + 1 /\ Len(seq) \in Nat /\ more[Len(seq) + 1] = x
      /\ \A i \in 1..Len(seq) : more[i] = seq[i]
  OBVIOUS
<1> HIDE DEF more
<1>2. PICK kept : Takes(kept, seq, places) /\ Chosen(seq, places) = kept[Len(seq)]
  BY <1>1, ChosenTakes
<1>3. PICK held : Takes(held, more, others) /\ Chosen(more, others) = held[Len(more)]
  BY <1>1, ChosenTakes
<1>4. Len(seq) \in 0..Len(seq) /\ Len(seq) <= Len(more) /\ Len(seq) \in 0..Len(more) - 1
  BY <1>1
<1>5. held[Len(seq)] = kept[Len(seq)]
  BY <1>1, <1>2, <1>3, <1>4, SameBefore
<1>6. QED BY <1>1, <1>2, <1>3, <1>4, <1>5 DEF Takes, more

\* Induction over the sequences of a set, for a set of them.
LEMMA SeqSetInduction ==
  ASSUME NEW S, NEW P \in SUBSET Seq(S), << >> \in P,
         \A s \in P, x \in S : Append(s, x) \in P
  PROVE  P = Seq(S)
<1> DEFINE N == {n \in Nat : \A s \in Seq(S) : Len(s) = n => s \in P}
<1>1. 0 \in N
  <2>1. \A s \in Seq(S) : Len(s) = 0 => s = << >>
    OBVIOUS
  <2>2. QED BY <2>1
<1>2. ASSUME NEW n \in N PROVE n + 1 \in N
  <2>1. SUFFICES ASSUME NEW s \in Seq(S), Len(s) = n + 1 PROVE s \in P
    OBVIOUS
  <2>2. n \in Nat /\ \A r \in Seq(S) : Len(r) = n => r \in P
    OBVIOUS
  <2> HIDE DEF N
  <2> DEFINE front == [i \in 1..n |-> s[i]]
  <2>3. front \in Seq(S) /\ Len(front) = n /\ s[n + 1] \in S
    BY <2>1, <2>2
  <2>4. s = Append(front, s[n + 1])
    BY <2>1, <2>2, <2>3
  <2> HIDE DEF front
  <2>5. QED BY <2>2, <2>3, <2>4
<1>3. N = Nat
  <2> HIDE DEF N
  <2>1. N \in SUBSET Nat
    BY DEF N
  <2>2. QED BY <1>1, <1>2, <2>1, NatSetInduction
<1>4. \A s \in Seq(S) : Len(s) \in N
  <2> HIDE DEF N
  <2>1. QED BY <1>3
<1>5. QED BY <1>4

----------------------------------------------------------------------------
(* Sequences of sequences *)

Join(seqs, joined, n) == IF n = 1 THEN seqs[n] ELSE joined[n - 1] \o seqs[n]
Joined(seqs) == CHOOSE joined : joined = [n \in 1..Len(seqs) |-> Join(seqs, joined, n)]

\* FlattenSeq is the last value of the function it defines.
LEMMA FlattenIsJoined ==
  ASSUME NEW seqs, Len(seqs) # 0
  PROVE  FlattenSeq(seqs) = Joined(seqs)[Len(seqs)]
BY DEF FlattenSeq, Joined, Join

\* joined[n] is all of the first n.
Joins(joined, seqs) ==
  /\ joined[1] = seqs[1]
  /\ \A n \in 1..Len(seqs) - 1 : joined[n + 1] = joined[n] \o seqs[n + 1]

\* FlattenSeq is the last of a row of sequences, each made from the one before.
LEMMA FlattenJoins ==
  ASSUME NEW seqs, Len(seqs) \in Nat \ {0}
  PROVE  \E joined : Joins(joined, seqs) /\ FlattenSeq(seqs) = joined[Len(seqs)]
<1> DEFINE Ends == {k \in Nat : \E g : g = [n \in 1..k |-> Join(seqs, g, n)]}
<1>1. 0 \in Ends
  <2> DEFINE g == [n \in 1..0 |-> << >>]
  <2>1. g = [n \in 1..0 |-> Join(seqs, g, n)]
    OBVIOUS
  <2>2. QED BY <2>1
<1>2. ASSUME NEW k \in Ends PROVE k + 1 \in Ends
  <2>1. PICK g : g = [n \in 1..k |-> Join(seqs, g, n)]
    OBVIOUS
  <2> DEFINE h == [n \in 1..k + 1 |-> IF n <= k THEN g[n] ELSE Join(seqs, g, n)]
  <2>2. \A n \in 1..k + 1 : Join(seqs, h, n) = Join(seqs, g, n)
    BY DEF Join
  <2>3. \A n \in 1..k + 1 : h[n] = Join(seqs, g, n)
    BY <2>1
  <2>4. h = [n \in 1..k + 1 |-> Join(seqs, h, n)]
    BY <2>2, <2>3
  <2> HIDE DEF h
  <2>5. QED BY <2>4
<1>3. Ends = Nat
  <2> HIDE DEF Ends
  <2>1. Ends \in SUBSET Nat
    BY DEF Ends
  <2>2. QED BY <1>1, <1>2, <2>1, NatSetInduction
<1>4. \E g : g = [n \in 1..Len(seqs) |-> Join(seqs, g, n)]
  BY <1>3
<1> DEFINE f == Joined(seqs)
<1>5. f = [n \in 1..Len(seqs) |-> Join(seqs, f, n)] /\ FlattenSeq(seqs) = f[Len(seqs)]
  BY <1>4, FlattenIsJoined DEF Joined
<1> HIDE DEF f
<1>6. f[1] = seqs[1]
  BY <1>5 DEF Join
<1>7. ASSUME NEW n \in 1..Len(seqs) - 1 PROVE f[n + 1] = f[n] \o seqs[n + 1]
  <2>1. n + 1 \in 1..Len(seqs) /\ n + 1 # 1 /\ (n + 1) - 1 = n
    OBVIOUS
  <2>2. f[n + 1] = Join(seqs, f, n + 1)
    BY <1>5, <2>1
  <2>3. QED BY <2>1, <2>2 DEF Join
<1>8. Joins(f, seqs)
  BY <1>6, <1>7 DEF Joins
<1>9. QED BY <1>5, <1>8

\* What follows makes no difference to what was joined before it.
LEMMA JoinsSame ==
  ASSUME NEW seqs, NEW more, Len(seqs) \in Nat, Len(more) \in Nat, Len(seqs) <= Len(more),
         NEW joined, Joins(joined, seqs), NEW f, Joins(f, more),
         \A i \in 1..Len(seqs) : more[i] = seqs[i]
  PROVE  \A n \in 1..Len(seqs) : f[n] = joined[n]
<1> DEFINE N == {m \in Nat : m + 1 <= Len(seqs) => f[m + 1] = joined[m + 1]}
<1>1. 0 \in N
  BY DEF Joins
<1>2. ASSUME NEW m \in N PROVE m + 1 \in N
  <2>1. SUFFICES ASSUME (m + 1) + 1 <= Len(seqs) PROVE f[(m + 1) + 1] = joined[(m + 1) + 1]
    OBVIOUS
  <2>2. m + 1 \in 1..Len(seqs) - 1 /\ m + 1 \in 1..Len(more) - 1 /\ (m + 1) + 1 \in 1..Len(seqs)
    BY <2>1
  <2>3. f[m + 1] = joined[m + 1]
    BY <2>1
  <2>4. QED BY <2>2, <2>3 DEF Joins
<1>3. N = Nat
  <2> HIDE DEF N
  <2>1. N \in SUBSET Nat
    BY DEF N
  <2>2. QED BY <1>1, <1>2, <2>1, NatSetInduction
<1>4. ASSUME NEW n \in 1..Len(seqs) PROVE f[n] = joined[n]
  <2>1. n - 1 \in N /\ (n - 1) + 1 = n /\ n <= Len(seqs)
    <3> HIDE DEF N
    <3>1. n - 1 \in Nat /\ (n - 1) + 1 = n /\ n <= Len(seqs)
      OBVIOUS
    <3>2. QED BY <1>3, <3>1
  <2>2. QED BY <2>1
<1>5. QED BY <1>4

\* No sequences make an empty one.
LEMMA FlattenEmpty == FlattenSeq(<< >>) = << >>
BY DEF FlattenSeq

\* One sequence more.
LEMMA FlattenOfAppend ==
  ASSUME NEW S, NEW seqs \in Seq(Seq(S)), NEW s \in Seq(S)
  PROVE  FlattenSeq(Append(seqs, s)) =
           IF seqs = << >> THEN s ELSE FlattenSeq(seqs) \o s
<1> DEFINE more == Append(seqs, s)
<1>1. /\ Len(seqs) \in Nat /\ Len(more) = Len(seqs) + 1 /\ more[Len(seqs) + 1] = s
      /\ \A i \in 1..Len(seqs) : more[i] = seqs[i]
  OBVIOUS
<1>2. seqs = << >> <=> Len(seqs) = 0
  OBVIOUS
<1> HIDE DEF more
<1>3. PICK f : Joins(f, more) /\ FlattenSeq(more) = f[Len(more)]
  BY <1>1, FlattenJoins
<1>4. CASE Len(seqs) = 0
  BY <1>1, <1>2, <1>3, <1>4 DEF Joins, more
<1>5. CASE Len(seqs) # 0
  <2>1. PICK joined : Joins(joined, seqs) /\ FlattenSeq(seqs) = joined[Len(seqs)]
    BY <1>1, <1>5, FlattenJoins
  <2>2. Len(seqs) \in 1..Len(seqs) /\ Len(seqs) \in 1..Len(more) - 1 /\ Len(seqs) <= Len(more)
        /\ Len(more) \in Nat
    BY <1>1, <1>5
  <2>3. f[Len(seqs)] = joined[Len(seqs)]
    BY <1>1, <1>3, <2>1, <2>2, JoinsSame
  <2>4. f[Len(seqs) + 1] = f[Len(seqs)] \o more[Len(seqs) + 1]
    BY <1>3, <2>2 DEF Joins
  <2>5. QED BY <1>1, <1>2, <1>3, <1>5, <2>1, <2>3, <2>4 DEF more
<1>6. QED BY <1>4, <1>5

\* Joined sequences of a set are a sequence of it.
LEMMA FlattenType ==
  ASSUME NEW S, NEW seqs \in Seq(Seq(S))
  PROVE  FlattenSeq(seqs) \in Seq(S)
<1> DEFINE P == {ss \in Seq(Seq(S)) : FlattenSeq(ss) \in Seq(S)}
<1>1. << >> \in P
  <2>1. << >> \in Seq(Seq(S)) /\ << >> \in Seq(S)
    OBVIOUS
  <2>2. QED BY <2>1, FlattenEmpty, Zenon
<1>2. ASSUME NEW ss \in P, NEW s \in Seq(S) PROVE Append(ss, s) \in P
  <2>1. Append(ss, s) \in Seq(Seq(S)) /\ FlattenSeq(ss) \in Seq(S)
    OBVIOUS
  <2>2. FlattenSeq(Append(ss, s)) \in {s, FlattenSeq(ss) \o s}
    BY FlattenOfAppend
  <2>3. FlattenSeq(ss) \o s \in Seq(S)
    BY <2>1, ConcatProperties
  <2>4. QED BY <2>1, <2>2, <2>3, Zenon
<1>3. P = Seq(Seq(S))
  <2> HIDE DEF P
  <2>1. P \in SUBSET Seq(Seq(S))
    BY DEF P
  <2>2. QED BY <1>1, <1>2, <2>1, SeqSetInduction
<1>4. QED BY <1>3

\* One sequence more is put after the others.
LEMMA FlattenGrows ==
  ASSUME NEW S, NEW seqs \in Seq(Seq(S)), NEW s \in Seq(S)
  PROVE  FlattenSeq(Append(seqs, s)) = FlattenSeq(seqs) \o s
<1>1. FlattenSeq(Append(seqs, s)) = IF seqs = << >> THEN s ELSE FlattenSeq(seqs) \o s
  BY FlattenOfAppend
<1>2. << >> \o s = s
  BY ConcatEmptySeq
<1>3. QED BY <1>1, <1>2, FlattenEmpty

----------------------------------------------------------------------------
(* The records of one table *)

Only(records, t) == Chosen(records, {i \in DOMAIN records : records[i].table = t})

\* The records of one table are records.
LEMMA OnlyType ==
  ASSUME NEW R, NEW records \in Seq(R), NEW t
  PROVE  Only(records, t) \in Seq(R)
BY ChosenType DEF Only

\* No records have none of any table.
LEMMA OnlyEmpty ==
  ASSUME NEW t
  PROVE  Only(<< >>, t) = << >>
<1>1. Len(<< >>) \in Nat /\ \A i \in 1..Len(<< >>) : i \notin {j \in DOMAIN << >> : << >>[j].table = t}
  OBVIOUS
<1>2. QED BY <1>1, ChosenNone DEF Only

\* A record more is one more of its own table only.
LEMMA OnlyOfAppend ==
  ASSUME NEW R, NEW records \in Seq(R), NEW x \in R, NEW t
  PROVE  Only(Append(records, x), t) =
           IF x.table = t THEN Append(Only(records, t), x) ELSE Only(records, t)
<1> DEFINE more == Append(records, x)
<1> DEFINE places == {i \in DOMAIN records : records[i].table = t}
<1> DEFINE others == {i \in DOMAIN more : more[i].table = t}
<1>1. /\ Len(more) = Len(records) + 1 /\ Len(records) \in Nat /\ more[Len(records) + 1] = x
      /\ DOMAIN more = 1..Len(records) + 1 /\ DOMAIN records = 1..Len(records)
      /\ \A i \in 1..Len(records) : more[i] = records[i]
  OBVIOUS
<1>2. \A i \in 1..Len(records) : i \in places <=> i \in others
  <2> HIDE DEF more
  <2>1. QED BY <1>1
<1>3. Len(records) + 1 \in others <=> x.table = t
  <2> HIDE DEF more
  <2>1. QED BY <1>1
<1>4. Chosen(more, others) =
        IF Len(records) + 1 \in others THEN Append(Chosen(records, places), x)
        ELSE Chosen(records, places)
  <2> HIDE DEF places, others
  <2>1. QED BY <1>2, ChosenOfAppend
<1>5. QED BY <1>3, <1>4 DEF Only

\* The records of a table, of two parts.
LEMMA OnlyOfConcat ==
  ASSUME NEW R, NEW first \in Seq(R), NEW second \in Seq(R), NEW t
  PROVE  Only(first \o second, t) = Only(first, t) \o Only(second, t)
<1> DEFINE P == {s \in Seq(R) : Only(first \o s, t) = Only(first, t) \o Only(s, t)}
<1>1. << >> \in P
  <2>1. first \o << >> = first /\ Only(first, t) \o << >> = Only(first, t) /\ << >> \in Seq(R)
    BY OnlyType, ConcatEmptySeq
  <2>2. QED BY <2>1, OnlyEmpty, Zenon
<1>2. ASSUME NEW s \in P, NEW x \in R PROVE Append(s, x) \in P
  <2>1. s \in Seq(R) /\ Only(first \o s, t) = Only(first, t) \o Only(s, t)
    OBVIOUS
  <2> HIDE DEF P
  <2>2. first \o s \in Seq(R) /\ Append(s, x) \in Seq(R)
        /\ first \o Append(s, x) = Append(first \o s, x)
    BY <2>1
  <2>3. Only(first, t) \in Seq(R) /\ Only(s, t) \in Seq(R)
    BY <2>1, OnlyType
  <2>4. Only(first, t) \o Append(Only(s, t), x) = Append(Only(first, t) \o Only(s, t), x)
    <3> DEFINE a == Only(first, t)
    <3> DEFINE b == Only(s, t)
    <3>1. a \in Seq(R) /\ b \in Seq(R)
      BY <2>3
    <3> HIDE DEF a, b
    <3>2. a \o Append(b, x) = Append(a \o b, x)
      BY <3>1
    <3>3. QED BY <3>2 DEF a, b
  <2>5. Only(Append(first \o s, x), t) =
          IF x.table = t THEN Append(Only(first \o s, t), x) ELSE Only(first \o s, t)
    BY <2>2, OnlyOfAppend
  <2>6. Only(Append(s, x), t) = IF x.table = t THEN Append(Only(s, t), x) ELSE Only(s, t)
    BY <2>1, OnlyOfAppend
  <2>7. Only(first \o Append(s, x), t) = Only(first, t) \o Only(Append(s, x), t)
    <3>1. CASE x.table = t
      BY <3>1, <2>1, <2>2, <2>4, <2>5, <2>6, Zenon
    <3>2. CASE x.table # t
      BY <3>2, <2>1, <2>2, <2>5, <2>6, Zenon
    <3>3. QED BY <3>1, <3>2
  <2>8. QED BY <2>2, <2>7, Zenon DEF P
<1>3. P = Seq(R)
  <2> HIDE DEF P
  <2>1. P \in SUBSET Seq(R)
    BY DEF P
  <2>2. QED BY <1>1, <1>2, <2>1, SeqSetInduction
<1>4. QED BY <1>3

\* Records that are all of one table.
LEMMA OnlyAll ==
  ASSUME NEW R, NEW records \in Seq(R), NEW t, \A i \in DOMAIN records : records[i].table = t
  PROVE  Only(records, t) = records
<1> DEFINE P == {s \in Seq(R) : (\A i \in DOMAIN s : s[i].table = t) => Only(s, t) = s}
<1>1. << >> \in P
  <2>1. << >> \in Seq(R)
    OBVIOUS
  <2>2. QED BY <2>1, OnlyEmpty, Zenon
<1>2. ASSUME NEW s \in P, NEW x \in R PROVE Append(s, x) \in P
  <2>1. s \in Seq(R) /\ ((\A i \in DOMAIN s : s[i].table = t) => Only(s, t) = s)
    OBVIOUS
  <2> HIDE DEF P
  <2> DEFINE more == Append(s, x)
  <2>2. more \in Seq(R) /\ DOMAIN more = 1..Len(s) + 1 /\ DOMAIN s = 1..Len(s) /\ Len(s) \in Nat
        /\ more[Len(s) + 1] = x /\ \A i \in 1..Len(s) : more[i] = s[i]
    BY <2>1
  <2>3. Only(more, t) = IF x.table = t THEN Append(Only(s, t), x) ELSE Only(s, t)
    BY <2>1, OnlyOfAppend
  <2>4. ASSUME \A i \in DOMAIN more : more[i].table = t PROVE Only(more, t) = more
    <3> DEFINE all == \A i \in DOMAIN s : s[i].table = t
    <3>1. all /\ x.table = t
      <4> HIDE DEF more
      <4>1. QED BY <2>2, <2>4
    <3>2. Only(s, t) = s
      BY <2>1, <3>1, Zenon
    <3>3. QED BY <2>3, <3>1, <3>2, Zenon
  <2>5. QED BY <2>2, <2>4, Zenon DEF P
<1>3. P = Seq(R)
  <2> HIDE DEF P
  <2>1. P \in SUBSET Seq(R)
    BY DEF P
  <2>2. QED BY <1>1, <1>2, <2>1, SeqSetInduction
<1>4. QED BY <1>3

\* Records none of which is of a table.
LEMMA OnlyNone ==
  ASSUME NEW R, NEW records \in Seq(R), NEW t, \A i \in DOMAIN records : records[i].table # t
  PROVE  Only(records, t) = << >>
<1> DEFINE places == {i \in DOMAIN records : records[i].table = t}
<1>1. Len(records) \in Nat /\ \A i \in 1..Len(records) : i \notin places
  OBVIOUS
<1> HIDE DEF places
<1>2. Chosen(records, places) = << >>
  BY <1>1, ChosenNone
<1>3. QED BY <1>2 DEF Only, places

\* The records of a table, of one part more.
LEMMA OnlyGrows ==
  ASSUME NEW R, NEW ss \in Seq(Seq(R)), NEW s \in Seq(R), NEW t
  PROVE  Only(FlattenSeq(Append(ss, s)), t) = Only(FlattenSeq(ss), t) \o Only(s, t)
<1>1. FlattenSeq(Append(ss, s)) = FlattenSeq(ss) \o s
  BY FlattenGrows
<1>2. ASSUME NEW flat \in Seq(R) PROVE Only(flat \o s, t) = Only(flat, t) \o Only(s, t)
  BY OnlyOfConcat
<1>3. FlattenSeq(ss) \in Seq(R)
  BY FlattenType
<1>4. QED BY <1>1, <1>2, <1>3, Zenon

\* In what order the tables follow, all of one are together.
LEMMA OnlyTogether ==
  ASSUME NEW R, NEW seqs \in Seq(Seq(R)), NEW t, NEW k \in DOMAIN seqs,
         \A i \in DOMAIN seqs[k] : seqs[k][i].table = t,
         \A n \in DOMAIN seqs : n # k => \A i \in DOMAIN seqs[n] : seqs[n][i].table # t
  PROVE  Only(FlattenSeq(seqs), t) = seqs[k]
<1> DEFINE Apart(ss) == \A n \in DOMAIN ss : \A i \in DOMAIN ss[n] : ss[n][i].table = t <=> n = k
<1> DEFINE P == {ss \in Seq(Seq(R)) : Apart(ss) =>
                   Only(FlattenSeq(ss), t) = IF k \in DOMAIN ss THEN ss[k] ELSE << >>}
<1>1. << >> \in P
  <2>1. << >> \in Seq(Seq(R)) /\ k \notin DOMAIN << >>
    OBVIOUS
  <2>2. QED BY <2>1, FlattenEmpty, OnlyEmpty, Zenon
<1>2. ASSUME NEW ss \in P, NEW s \in Seq(R) PROVE Append(ss, s) \in P
  <2>1. ss \in Seq(Seq(R))
    OBVIOUS
  <2>2. Apart(ss) => Only(FlattenSeq(ss), t) = IF k \in DOMAIN ss THEN ss[k] ELSE << >>
    BY Zenon
  <2> HIDE DEF P
  <2> DEFINE more == Append(ss, s)
  <2>3. /\ more \in Seq(Seq(R)) /\ Len(ss) \in Nat
        /\ DOMAIN more = 1..Len(ss) + 1 /\ DOMAIN ss = 1..Len(ss)
        /\ more[Len(ss) + 1] = s /\ \A i \in 1..Len(ss) : more[i] = ss[i]
    BY <2>1
  <2>4. FlattenSeq(more) = FlattenSeq(ss) \o s /\ FlattenSeq(ss) \in Seq(R)
    BY <2>1, FlattenGrows, FlattenType
  <2>5. Only(FlattenSeq(more), t) = Only(FlattenSeq(ss), t) \o Only(s, t)
    BY <2>1, OnlyGrows
  <2> HIDE DEF more
  <2>6. ASSUME Apart(more)
        PROVE  Only(FlattenSeq(more), t) = IF k \in DOMAIN more THEN more[k] ELSE << >>
    <3>1. Apart(ss)
      BY <2>3, <2>6
    <3>2. \A i \in DOMAIN s : s[i].table = t <=> Len(ss) + 1 = k
      <4> DEFINE n == Len(ss) + 1
      <4>1. n \in DOMAIN more /\ more[n] = s
        BY <2>3
      <4> HIDE DEF n
      <4>2. \A i \in DOMAIN more[n] : more[n][i].table = t <=> n = k
        BY <2>6, <4>1, Zenon
      <4>3. \A i \in DOMAIN s : s[i].table = t <=> n = k
        BY <4>1, <4>2
      <4>4. QED BY <4>3 DEF n
    <3>3. CASE k = Len(ss) + 1
      <4>1. Only(s, t) = s
        BY <3>2, <3>3, OnlyAll
      <4>2. k \notin DOMAIN ss /\ k \in DOMAIN more /\ more[k] = s
        BY <2>3, <3>3
      <4>3. Only(FlattenSeq(ss), t) = << >>
        BY <2>2, <3>1, <4>2, Zenon
      <4>4. << >> \o s = s
        BY ConcatEmptySeq
      <4>5. QED BY <2>5, <4>1, <4>2, <4>3, <4>4, Zenon
    <3>4. CASE k # Len(ss) + 1
      <4>1. Only(s, t) = << >>
        BY <3>2, <3>4, OnlyNone
      <4>2. (k \in DOMAIN ss <=> k \in DOMAIN more) /\ (k \in DOMAIN ss => more[k] = ss[k])
        BY <2>3, <3>4
      <4>3. Only(FlattenSeq(ss), t) = IF k \in DOMAIN ss THEN ss[k] ELSE << >>
        BY <2>2, <3>1, Zenon
      <4>4. Only(FlattenSeq(ss), t) \o << >> = Only(FlattenSeq(ss), t)
        BY <2>4, OnlyType, ConcatEmptySeq
      <4>5. QED BY <2>5, <4>1, <4>2, <4>3, <4>4, Zenon
    <3>5. QED BY <3>3, <3>4
  <2>7. QED BY <2>3, <2>6, Zenon DEF P, more
<1>3. P = Seq(Seq(R))
  <2> HIDE DEF P
  <2>1. P \in SUBSET Seq(Seq(R))
    BY DEF P
  <2>2. QED BY <1>1, <1>2, <2>1, SeqSetInduction
<1>4. Apart(seqs)
  OBVIOUS
<1>5. seqs \in P
  <2> HIDE DEF P
  <2>1. QED BY <1>3
<1>6. QED BY <1>4, <1>5, Zenon

----------------------------------------------------------------------------
(* What an upload says *)

\* Batches of items of I, and the records of a file.
Batches(I) == [Tables -> Seq(I)]
RecordSet(Files, I) == [file : Files, table : Tables, item : I]
Marked(f, t, items) == [i \in DOMAIN items |-> [file |-> f, table |-> t, item |-> items[i]]]

\* upsertProfitBatch goes through every table, and once.
LEMMA TablesInOrder ==
  /\ DOMAIN TableOrder = 1..9 /\ Len(TableOrder) = 9
  /\ \A n \in 1..9 : TableOrder[n] \in Tables
  /\ \A t \in Tables : \E k \in 1..9 :
       TableOrder[k] = t /\ \A n \in 1..9 : n # k => TableOrder[n] # t
<1>1. DOMAIN TableOrder = 1..9 /\ Len(TableOrder) = 9
  BY DEF TableOrder
<1>2. /\ TableOrder[1] = "shipping" /\ TableOrder[2] = "return" /\ TableOrder[3] = "chargeback"
      /\ TableOrder[4] = "violation" /\ TableOrder[5] = "platform" /\ TableOrder[6] = "disposal"
      /\ TableOrder[7] = "flow" /\ TableOrder[8] = "parent" /\ TableOrder[9] = "unsettle"
  BY DEF TableOrder
<1>3. \A n \in 1..9 : n \in {1, 2, 3, 4, 5, 6, 7, 8, 9}
  OBVIOUS
<1>4. \A n \in 1..9 : TableOrder[n] \in Tables
  BY <1>2, <1>3 DEF Tables, Flat, Nested
<1>5. \A m, n \in 1..9 : TableOrder[m] = TableOrder[n] => m = n
  BY <1>2, <1>3
<1>6. \A t \in Tables : \E k \in 1..9 : TableOrder[k] = t
  <2>1. SUFFICES ASSUME NEW t \in Tables PROVE \E k \in 1..9 : TableOrder[k] = t
    OBVIOUS
  <2>2. t \in {TableOrder[1], TableOrder[2], TableOrder[3], TableOrder[4], TableOrder[5],
               TableOrder[6], TableOrder[7], TableOrder[8], TableOrder[9]}
    BY <1>2 DEF Tables, Flat, Nested
  <2>3. QED BY <2>2
<1>7. QED BY <1>1, <1>4, <1>5, <1>6

\* The images of what a sequence has.
Images(g, seq) == [i \in DOMAIN seq |-> g[seq[i]]]

\* Sequences with the same length and places are the same.
LEMMA SameSequence ==
  ASSUME NEW A, NEW s \in Seq(A), NEW p \in Seq(A), Len(s) = Len(p),
         \A i \in 1..Len(s) : s[i] = p[i]
  PROVE  s = p
OBVIOUS

\* Images are a sequence of images.
LEMMA ImagesType ==
  ASSUME NEW g, NEW A, NEW seq \in Seq(A)
  PROVE  Images(g, seq) \in Seq({g[x] : x \in A})
BY DEF Images

\* Images are as many as what they are of.
LEMMA ImagesLen ==
  ASSUME NEW g, NEW A, NEW seq \in Seq(A)
  PROVE  Len(Images(g, seq)) = Len(seq)
BY DEF Images

\* Each image is of what is at its place.
LEMMA ImagesAt ==
  ASSUME NEW g, NEW A, NEW seq \in Seq(A), NEW i \in 1..Len(seq)
  PROVE  Images(g, seq)[i] = g[seq[i]]
BY DEF Images

\* Images of a sequence with one more.
LEMMA ImagesOfAppend ==
  ASSUME NEW g, NEW A, NEW seq \in Seq(A), NEW x \in A
  PROVE  Images(g, Append(seq, x)) = Append(Images(g, seq), g[x])
<1> DEFINE B == {g[y] : y \in A}
<1> DEFINE i1 == Images(g, Append(seq, x))
<1> DEFINE i2 == Images(g, seq)
<1>1. /\ Append(seq, x) \in Seq(A) /\ Len(Append(seq, x)) = Len(seq) + 1
      /\ \A i \in 1..Len(seq) : Append(seq, x)[i] = seq[i]
      /\ Append(seq, x)[Len(seq) + 1] = x
      /\ Len(seq) \in Nat
  OBVIOUS
<1>2. /\ i1 \in Seq(B) /\ Len(i1) = Len(seq) + 1
      /\ \A i \in 1..Len(seq) : i1[i] = g[seq[i]]
      /\ i1[Len(seq) + 1] = g[x]
  <2>1. /\ i1 \in Seq(B) /\ Len(i1) = Len(Append(seq, x))
        /\ \A i \in 1..Len(Append(seq, x)) : i1[i] = g[Append(seq, x)[i]]
    <3>1. i1 \in Seq(B)
      BY <1>1, ImagesType, Zenon
    <3>2. Len(i1) = Len(Append(seq, x))
      BY <1>1, ImagesLen, Zenon
    <3>3. \A i \in 1..Len(Append(seq, x)) : i1[i] = g[Append(seq, x)[i]]
      <4> DEFINE more == Append(seq, x)
      <4>1. more \in Seq(A)
        BY <1>1
      <4> HIDE DEF more
      <4>2. \A i \in 1..Len(more) : Images(g, more)[i] = g[more[i]]
        BY <4>1, ImagesAt, SMT
      <4>3. QED BY <4>2 DEF more
    <3>4. QED BY <3>1, <3>2, <3>3
  <2> HIDE DEF i1, B
  <2>2. QED BY <1>1, <2>1
<1>3. /\ i2 \in Seq(B) /\ Len(i2) = Len(seq) /\ \A i \in 1..Len(seq) : i2[i] = g[seq[i]]
  <2>1. i2 \in Seq(B)
    BY ImagesType, Zenon
  <2>2. Len(i2) = Len(seq)
    BY ImagesLen, Zenon
  <2>3. \A i \in 1..Len(seq) : i2[i] = g[seq[i]]
    BY ImagesAt, SMT
  <2>4. QED BY <2>1, <2>2, <2>3
<1>4. g[x] \in B
  OBVIOUS
<1> HIDE DEF i1, i2, B
<1>5. /\ Append(i2, g[x]) \in Seq(B) /\ Len(Append(i2, g[x])) = Len(seq) + 1
      /\ \A i \in 1..Len(seq) : Append(i2, g[x])[i] = i2[i]
      /\ Append(i2, g[x])[Len(seq) + 1] = g[x]
  BY <1>3, <1>4
<1>6. \A i \in 1..Len(i1) : i1[i] = Append(i2, g[x])[i]
  BY <1>1, <1>2, <1>3, <1>5
<1>7. i1 = Append(i2, g[x])
  BY <1>2, <1>5, <1>6, SameSequence
<1>8. QED BY <1>7 DEF i1, i2

\* Images of two sequences in a row.
LEMMA ImagesOfConcat ==
  ASSUME NEW g, NEW A, NEW one \in Seq(A), NEW two \in Seq(A)
  PROVE  Images(g, one \o two) = Images(g, one) \o Images(g, two)
<1> DEFINE B == {g[x] : x \in A}
<1> DEFINE all == one \o two
<1> DEFINE i1 == Images(g, one)
<1> DEFINE i2 == Images(g, two)
<1> DEFINE i3 == Images(g, all)
<1>1. /\ all \in Seq(A) /\ Len(all) = Len(one) + Len(two)
      /\ \A i \in 1..Len(one) : all[i] = one[i]
      /\ \A i \in 1..Len(two) : all[Len(one) + i] = two[i]
      /\ Len(one) \in Nat /\ Len(two) \in Nat
  OBVIOUS
<1> HIDE DEF all
<1>2. /\ i1 \in Seq(B) /\ Len(i1) = Len(one) /\ \A i \in 1..Len(one) : i1[i] = g[one[i]]
  <2>1. i1 \in Seq(B)
    BY ImagesType, Zenon
  <2>2. Len(i1) = Len(one)
    BY ImagesLen, Zenon
  <2>3. \A i \in 1..Len(one) : i1[i] = g[one[i]]
    BY ImagesAt, SMT
  <2>4. QED BY <2>1, <2>2, <2>3
<1>3. /\ i2 \in Seq(B) /\ Len(i2) = Len(two) /\ \A i \in 1..Len(two) : i2[i] = g[two[i]]
  <2>1. i2 \in Seq(B)
    BY ImagesType, Zenon
  <2>2. Len(i2) = Len(two)
    BY ImagesLen, Zenon
  <2>3. \A i \in 1..Len(two) : i2[i] = g[two[i]]
    BY ImagesAt, SMT
  <2>4. QED BY <2>1, <2>2, <2>3
<1>4. /\ i3 \in Seq(B) /\ Len(i3) = Len(all) /\ \A i \in 1..Len(all) : i3[i] = g[all[i]]
  <2>1. i3 \in Seq(B)
    BY <1>1, ImagesType, Zenon
  <2>2. Len(i3) = Len(all)
    BY <1>1, ImagesLen, Zenon
  <2>3. \A i \in 1..Len(all) : i3[i] = g[all[i]]
    BY <1>1, ImagesAt, SMT
  <2>4. QED BY <2>1, <2>2, <2>3
<1> HIDE DEF i1, i2, i3, B
<1>5. /\ i1 \o i2 \in Seq(B) /\ Len(i1 \o i2) = Len(one) + Len(two)
      /\ \A i \in 1..Len(one) : (i1 \o i2)[i] = i1[i]
      /\ \A i \in 1..Len(two) : (i1 \o i2)[Len(one) + i] = i2[i]
  <2>1. /\ i1 \o i2 \in Seq(B) /\ Len(i1 \o i2) = Len(i1) + Len(i2)
        /\ \A i \in 1..Len(i1) : (i1 \o i2)[i] = i1[i]
        /\ \A i \in 1..Len(i2) : (i1 \o i2)[Len(i1) + i] = i2[i]
    <3>1. i1 \in Seq(B) /\ i2 \in Seq(B)
      BY <1>2, <1>3
    <3>2. QED BY <3>1
  <2>2. QED BY <1>2, <1>3, <2>1, Zenon
<1>6. ASSUME NEW i \in 1..Len(i3) PROVE i3[i] = (i1 \o i2)[i]
  <2>1. i \in 1..Len(one) \/ \E j \in 1..Len(two) : i = Len(one) + j
    <3>1. CASE i \in 1..Len(one)
      BY <3>1
    <3>2. CASE i \notin 1..Len(one)
      <4>1. i - Len(one) \in 1..Len(two) /\ i = Len(one) + (i - Len(one))
        BY <1>1, <1>4, <3>2
      <4>2. QED BY <4>1
    <3>3. QED BY <3>1, <3>2
  <2>2. i \in 1..Len(all)
    BY <1>4
  <2>3. i3[i] = g[all[i]]
    BY <1>4, <2>2
  <2>4. CASE i \in 1..Len(one)
    BY <1>1, <1>2, <1>5, <2>3, <2>4
  <2>5. ASSUME NEW j \in 1..Len(two), i = Len(one) + j PROVE i3[i] = (i1 \o i2)[i]
    BY <1>1, <1>3, <1>5, <2>3, <2>5
  <2>6. QED BY <2>1, <2>4, <2>5
<1>7. i3 = i1 \o i2
  BY <1>1, <1>4, <1>5, <1>6, SameSequence
<1>8. QED BY <1>7 DEF i1, i2, i3, all

\* Images are in the range of the function.
LEMMA ImagesIn ==
  ASSUME NEW A, NEW B, NEW g \in [A -> B], NEW seq \in Seq(A)
  PROVE  Images(g, seq) \in Seq(B)
BY DEF Images

\* A function over 1..n is a sequence.
LEMMA FunctionIsSequence ==
  ASSUME NEW T, NEW n \in Nat, NEW p \in [1..n -> T]
  PROVE  p \in Seq(T) /\ DOMAIN p = 1..n /\ Len(p) = n
OBVIOUS

\* Items that are marked with their file and their table.
LEMMA MarkedType ==
  ASSUME NEW I, NEW items \in Seq(I), NEW f, NEW t \in Tables
  PROVE  /\ Marked(f, t, items) \in Seq(RecordSet({f}, I))
         /\ \A i \in DOMAIN Marked(f, t, items) : Marked(f, t, items)[i].table = t
<1> DEFINE g == [x \in I |-> [file |-> f, table |-> t, item |-> x]]
<1>1. \A i \in DOMAIN items : items[i] \in I
  OBVIOUS
<1>2. g \in [I -> RecordSet({f}, I)]
  BY DEF RecordSet
<1>3. Marked(f, t, items) = Images(g, items)
  BY <1>1 DEF Marked, Images
<1> HIDE DEF g
<1>4. Images(g, items) \in Seq(RecordSet({f}, I))
  BY <1>2, ImagesIn, Zenon
<1>5. \A i \in DOMAIN Marked(f, t, items) : Marked(f, t, items)[i].table = t
  BY DEF Marked
<1>6. QED BY <1>3, <1>4, <1>5, Zenon

\* A file has, for each table, a record for each of its items.
LEMMA FileRecordsAre ==
  ASSUME NEW I, NEW batches, NEW f, batches[f] \in Batches(I)
  PROVE  /\ FileRecords(batches, f) \in Seq(RecordSet({f}, I))
         /\ \A t \in Tables : Only(FileRecords(batches, f), t) = Marked(f, t, batches[f][t])
<1> DEFINE R == RecordSet({f}, I)
<1> DEFINE parts == [n \in 1..9 |-> Marked(f, TableOrder[n], batches[f][TableOrder[n]])]
<1>1. \A t \in Tables : batches[f][t] \in Seq(I)
  BY DEF Batches
<1>2. FileRecords(batches, f) = FlattenSeq(parts)
  BY TablesInOrder, Zenon DEF FileRecords, Marked
<1>3. ASSUME NEW n \in 1..9
      PROVE  /\ parts[n] \in Seq(R)
             /\ \A i \in DOMAIN parts[n] : parts[n][i].table = TableOrder[n]
  <2> DEFINE items == batches[f][TableOrder[n]]
  <2>1. TableOrder[n] \in Tables /\ items \in Seq(I)
    BY <1>1, TablesInOrder
  <2>2. parts[n] = Marked(f, TableOrder[n], items)
    OBVIOUS
  <2> HIDE DEF items, parts, R
  <2>3. QED BY <2>1, <2>2, MarkedType DEF R
<1>4. parts \in Seq(Seq(R)) /\ DOMAIN parts = 1..9
  <2>1. DOMAIN parts = 1..9 /\ parts = [n \in 1..9 |-> parts[n]]
    OBVIOUS
  <2> HIDE DEF parts, R
  <2>2. parts \in [1..9 -> Seq(R)]
    BY <1>3, <2>1, Zenon
  <2>3. 9 \in Nat
    OBVIOUS
  <2>4. QED BY <2>1, <2>2, <2>3, FunctionIsSequence, Zenon
<1>5. ASSUME NEW t \in Tables PROVE Only(FlattenSeq(parts), t) = Marked(f, t, batches[f][t])
  <2>1. PICK k \in 1..9 : TableOrder[k] = t /\ \A n \in 1..9 : n # k => TableOrder[n] # t
    BY TablesInOrder
  <2>2. parts[k] = Marked(f, t, batches[f][t])
    BY <2>1
  <2> HIDE DEF parts, R
  <2>3. \A i \in DOMAIN parts[k] : parts[k][i].table = t
    BY <1>3, <2>1
  <2>4. \A n \in DOMAIN parts : n # k => \A i \in DOMAIN parts[n] : parts[n][i].table # t
    BY <1>3, <1>4, <2>1
  <2>5. k \in DOMAIN parts
    BY <1>4
  <2>6. Only(FlattenSeq(parts), t) = parts[k]
    BY <1>4, <2>3, <2>4, <2>5, OnlyTogether
  <2>7. QED BY <2>2, <2>6
<1>6. FlattenSeq(parts) \in Seq(R)
  <2> HIDE DEF parts, R
  <2>1. QED BY <1>4, FlattenType
<1>7. QED BY <1>2, <1>5, <1>6, Zenon

\* The items of records.
ItemsOf(records) == [i \in DOMAIN records |-> records[i].item]

\* The items of records, and of more of them.
LEMMA ItemsAre ==
  ASSUME NEW Files, NEW I, NEW records \in Seq(RecordSet(Files, I))
  PROVE  /\ ItemsOf(records) \in Seq(I)
         /\ Len(ItemsOf(records)) = Len(records)
         /\ \A x \in RecordSet(Files, I) :
              ItemsOf(Append(records, x)) = Append(ItemsOf(records), x.item)
         /\ \A more \in Seq(RecordSet(Files, I)) :
              ItemsOf(records \o more) = ItemsOf(records) \o ItemsOf(more)
<1> DEFINE R == RecordSet(Files, I)
<1> DEFINE g == [x \in R |-> x.item]
<1>1. g \in [R -> I]
  BY DEF RecordSet
<1>2. ASSUME NEW s \in Seq(R) PROVE ItemsOf(s) = Images(g, s)
  <2>1. \A i \in DOMAIN s : s[i] \in R
    BY <1>2
  <2>2. QED BY <2>1 DEF ItemsOf, Images
<1>3. \A x \in R : g[x] = x.item
  OBVIOUS
<1> HIDE DEF g, R
<1>4. records \in Seq(R)
  BY DEF R
<1>5. ItemsOf(records) \in Seq(I) /\ Len(ItemsOf(records)) = Len(records)
  <2>1. Images(g, records) \in Seq(I)
    BY <1>1, <1>4, ImagesIn, Zenon
  <2>2. Len(Images(g, records)) = Len(records)
    BY <1>4, ImagesLen, Zenon
  <2>3. QED BY <1>2, <1>4, <2>1, <2>2, Zenon
<1>6. ASSUME NEW x \in R PROVE ItemsOf(Append(records, x)) = Append(ItemsOf(records), x.item)
  <2>1. Append(records, x) \in Seq(R)
    BY <1>4, AppendProperties
  <2>2. Images(g, Append(records, x)) = Append(Images(g, records), g[x])
    BY <1>4, ImagesOfAppend, Zenon
  <2>3. QED BY <1>2, <1>3, <1>4, <2>1, <2>2, Zenon
<1>7. ASSUME NEW more \in Seq(R) PROVE ItemsOf(records \o more) = ItemsOf(records) \o ItemsOf(more)
  <2>1. records \o more \in Seq(R)
    BY <1>4, ConcatProperties
  <2>2. Images(g, records \o more) = Images(g, records) \o Images(g, more)
    BY <1>4, ImagesOfConcat, Zenon
  <2>3. QED BY <1>2, <1>4, <2>1, <2>2, Zenon
<1>8. QED BY <1>5, <1>6, <1>7 DEF R

\* The items of two parts.
LEMMA ItemsOfConcat ==
  ASSUME NEW Files, NEW I, NEW records \in Seq(RecordSet(Files, I)),
         NEW more \in Seq(RecordSet(Files, I))
  PROVE  ItemsOf(records \o more) = ItemsOf(records) \o ItemsOf(more)
BY ItemsAre

\* The items of records that were made of items.
LEMMA ItemsOfMarked ==
  ASSUME NEW I, NEW items \in Seq(I), NEW f, NEW t
  PROVE  ItemsOf(Marked(f, t, items)) = items
BY DEF ItemsOf, Marked

\* What is said with items of I: a key, and an item.
Sayings(shop, I) == [key : {KeyOf(shop, x) : x \in I}, item : I]
Saying(shop, x) == [key |-> KeyOf(shop, x), item |-> x]

\* Items with their keys, and with more of them.
LEMMA EnteredIs ==
  ASSUME NEW I, NEW items \in Seq(I), NEW shop
  PROVE  /\ Entered(shop, items) \in Seq(Sayings(shop, I))
         /\ Len(Entered(shop, items)) = Len(items)
         /\ DOMAIN Entered(shop, items) = DOMAIN items
         /\ \A i \in DOMAIN items : Entered(shop, items)[i] = Saying(shop, items[i])
         /\ \A x \in I : Entered(shop, Append(items, x)) = Append(Entered(shop, items), Saying(shop, x))
         /\ \A more \in Seq(I) :
              Entered(shop, items \o more) = Entered(shop, items) \o Entered(shop, more)
<1> DEFINE E == Sayings(shop, I)
<1> DEFINE g == [x \in I |-> Saying(shop, x)]
<1>1. g \in [I -> E]
  BY DEF Sayings, Saying
<1>2. ASSUME NEW s \in Seq(I) PROVE Entered(shop, s) = Images(g, s)
  <2>1. \A i \in DOMAIN s : s[i] \in I
    BY <1>2
  <2>2. QED BY <2>1 DEF Entered, Saying, Images
<1>3. \A x \in I : g[x] = Saying(shop, x)
  OBVIOUS
<1> HIDE DEF g, E
<1>4. Entered(shop, items) \in Seq(E) /\ Len(Entered(shop, items)) = Len(items)
  <2>1. Images(g, items) \in Seq(E)
    BY <1>1, ImagesIn, Zenon
  <2>2. Len(Images(g, items)) = Len(items)
    BY ImagesLen, Zenon
  <2>3. QED BY <1>2, <2>1, <2>2, Zenon
<1>5. /\ DOMAIN Entered(shop, items) = DOMAIN items
      /\ \A i \in DOMAIN items : Entered(shop, items)[i] = Saying(shop, items[i])
  BY DEF Entered, Saying
<1>6. ASSUME NEW x \in I
      PROVE  Entered(shop, Append(items, x)) = Append(Entered(shop, items), Saying(shop, x))
  <2>1. Append(items, x) \in Seq(I)
    BY AppendProperties
  <2>2. Images(g, Append(items, x)) = Append(Images(g, items), g[x])
    BY ImagesOfAppend, Zenon
  <2>3. QED BY <1>2, <1>3, <2>1, <2>2, Zenon
<1>7. ASSUME NEW more \in Seq(I)
      PROVE  Entered(shop, items \o more) = Entered(shop, items) \o Entered(shop, more)
  <2>1. items \o more \in Seq(I)
    BY ConcatProperties
  <2>2. Images(g, items \o more) = Images(g, items) \o Images(g, more)
    BY ImagesOfConcat, Zenon
  <2>3. QED BY <1>2, <2>1, <2>2, Zenon
<1>8. QED BY <1>4, <1>5, <1>6, <1>7, Zenon DEF E

----------------------------------------------------------------------------
(* What the records of an upload say *)

FilesOf(batches) == [f \in DOMAIN batches |-> FileRecords(batches, f)]
BatchesOf(batches, t) == [f \in DOMAIN batches |-> batches[f][t]]

\* What the files have for a table are sequences of items.
LEMMA BatchesAre ==
  ASSUME NEW I, NEW batches \in Seq(Batches(I)), NEW t \in Tables
  PROVE  BatchesOf(batches, t) \in Seq(Seq(I))
<1>1. \A f \in DOMAIN batches : batches[f] \in Batches(I)
  OBVIOUS
<1>2. \A f \in DOMAIN batches : batches[f][t] \in Seq(I)
  BY <1>1 DEF Batches
<1>3. Len(batches) \in Nat /\ DOMAIN batches = 1..Len(batches)
  OBVIOUS
<1>4. BatchesOf(batches, t) \in [1..Len(batches) -> Seq(I)]
  <2> DEFINE S == Seq(I)
  <2>1. \A f \in DOMAIN batches : batches[f][t] \in S
    BY <1>2
  <2> HIDE DEF S
  <2>2. BatchesOf(batches, t) \in [1..Len(batches) -> S]
    BY <1>3, <2>1, Zenon DEF BatchesOf
  <2>3. QED BY <2>2 DEF S
<1>5. QED BY <1>3, <1>4, FunctionIsSequence, Zenon

\* The records of the files are records of the upload.
LEMMA FilesAre ==
  ASSUME NEW I, NEW batches \in Seq(Batches(I))
  PROVE  FilesOf(batches) \in Seq(Seq(RecordSet(1..Len(batches), I)))
<1> DEFINE R == RecordSet(1..Len(batches), I)
<1>1. \A f \in DOMAIN batches : batches[f] \in Batches(I)
  OBVIOUS
<1>2. Len(batches) \in Nat /\ DOMAIN batches = 1..Len(batches)
  OBVIOUS
<1>3. ASSUME NEW f \in DOMAIN batches PROVE FileRecords(batches, f) \in Seq(R)
  <2>1. FileRecords(batches, f) \in Seq(RecordSet({f}, I))
    BY <1>1, FileRecordsAre
  <2>2. RecordSet({f}, I) \subseteq R
    BY <1>2 DEF RecordSet
  <2> DEFINE R1 == RecordSet({f}, I)
  <2> DEFINE s == FileRecords(batches, f)
  <2>3. s \in Seq(R1) /\ R1 \subseteq R
    BY <2>1, <2>2
  <2> HIDE DEF R1, R, s
  <2>4. s \in Seq(R)
    BY <2>3
  <2>5. QED BY <2>4 DEF s
<1>4. FilesOf(batches) \in [1..Len(batches) -> Seq(R)]
  <2> DEFINE S == Seq(R)
  <2>1. \A f \in DOMAIN batches : FileRecords(batches, f) \in S
    BY <1>3
  <2> HIDE DEF S, R
  <2>2. FilesOf(batches) \in [1..Len(batches) -> S]
    BY <1>2, <2>1, Zenon DEF FilesOf
  <2>3. QED BY <2>2 DEF S
<1>5. QED BY <1>2, <1>4, FunctionIsSequence, Zenon

\* One more at the end, when the others stay.
LEMMA ExtendedFunction ==
  ASSUME NEW T, NEW s, NEW p, NEW n \in Nat, NEW x,
         s \in Seq(T), Len(s) = n, p \in Seq(T), Len(p) = n + 1, x \in T,
         p[n + 1] = x, \A i \in 1..n : p[i] = s[i]
  PROVE  p = Append(s, x)
OBVIOUS

\* One file more leaves the records of the others as they are.
LEMMA FilesGrow ==
  ASSUME NEW I, NEW batches \in Seq(Batches(I)), NEW b \in Batches(I)
  PROVE  LET more == Append(batches, b)
             one  == FileRecords(more, Len(batches) + 1)
         IN  /\ one \in Seq(RecordSet({Len(batches) + 1}, I))
             /\ \A t \in Tables : ItemsOf(Only(one, t)) = b[t]
             /\ FilesOf(more) = Append(FilesOf(batches), one)
             /\ \A t \in Tables : BatchesOf(more, t) = Append(BatchesOf(batches, t), b[t])
<1> DEFINE more == Append(batches, b)
<1> DEFINE n == Len(batches)
<1> DEFINE one == FileRecords(more, n + 1)
<1>1. /\ n \in Nat /\ DOMAIN batches = 1..n /\ more \in Seq(Batches(I))
      /\ Len(more) = n + 1 /\ DOMAIN more = 1..(n + 1) /\ more[n + 1] = b
      /\ \A f \in 1..n : more[f] = batches[f]
  OBVIOUS
<1> HIDE DEF more
<1>2. one \in Seq(RecordSet({n + 1}, I)) /\ \A t \in Tables : Only(one, t) = Marked(n + 1, t, b[t])
  <2>1. more[n + 1] \in Batches(I)
    BY <1>1
  <2> DEFINE m == n + 1
  <2> HIDE DEF m
  <2>2. \A bs, f : bs[f] \in Batches(I) =>
          /\ FileRecords(bs, f) \in Seq(RecordSet({f}, I))
          /\ \A t \in Tables : Only(FileRecords(bs, f), t) = Marked(f, t, bs[f][t])
    BY FileRecordsAre, Zenon
  <2>3. more[m] \in Batches(I)
    BY <2>1 DEF m
  <2>4. /\ FileRecords(more, m) \in Seq(RecordSet({m}, I))
        /\ \A t \in Tables : Only(FileRecords(more, m), t) = Marked(m, t, more[m][t])
    BY <2>2, <2>3, Zenon
  <2>5. QED BY <1>1, <2>4, Zenon DEF m
<1>3. \A t \in Tables : ItemsOf(Only(one, t)) = b[t]
  <2>1. \A t \in Tables : b[t] \in Seq(I)
    BY DEF Batches
  <2>2. QED BY <1>2, <2>1, ItemsOfMarked, Zenon
<1>4. FilesOf(more) = Append(FilesOf(batches), one)
  <2> DEFINE R == RecordSet(1..n + 1, I)
  <2>1. FilesOf(more) \in Seq(Seq(R))
    BY <1>1, FilesAre
  <2>2. FilesOf(batches) \in Seq(Seq(R))
    <3> DEFINE R1 == RecordSet(1..n, I)
    <3>1. FilesOf(batches) \in Seq(Seq(R1))
      BY FilesAre
    <3>2. R1 \subseteq R
      BY <1>1 DEF RecordSet
    <3> HIDE DEF R1, R
    <3>3. Seq(R1) \subseteq Seq(R)
      BY <3>2
    <3>4. \A S1, S : S1 \subseteq S => Seq(S1) \subseteq Seq(S)
      OBVIOUS
    <3>5. Seq(Seq(R1)) \subseteq Seq(Seq(R))
      BY <3>3, <3>4, Zenon
    <3>6. QED BY <3>1, <3>5, Zenon
  <2>3. one \in Seq(R)
    <3> DEFINE R1 == RecordSet({n + 1}, I)
    <3>1. one \in Seq(R1) /\ R1 \subseteq R
      BY <1>1, <1>2 DEF RecordSet
    <3> HIDE DEF R1, R, one
    <3>2. QED BY <3>1
  <2>4. \A f \in 1..n : FileRecords(more, f) = FileRecords(batches, f)
    BY <1>1, Zenon DEF FileRecords
  <2>5. /\ Len(FilesOf(batches)) = n /\ Len(FilesOf(more)) = n + 1 /\ FilesOf(more)[n + 1] = one
        /\ \A f \in 1..n : FilesOf(more)[f] = FilesOf(batches)[f]
    <3>1. \A f \in 1..n : f \in 1..(n + 1)
      BY <1>1
    <3>2. n + 1 \in 1..(n + 1)
      BY <1>1
    <3>3. FilesOf(more)[n + 1] = one /\ \A f \in 1..n : FilesOf(more)[f] = FilesOf(batches)[f]
      <4> HIDE DEF n
      <4>1. FilesOf(more)[n + 1] = FileRecords(more, n + 1)
        BY <1>1, <3>2, Zenon DEF FilesOf
      <4>2. ASSUME NEW f \in 1..n PROVE FilesOf(more)[f] = FilesOf(batches)[f]
        <5>1. FilesOf(more)[f] = FileRecords(more, f)
          BY <1>1, <3>1, Zenon DEF FilesOf
        <5>2. FilesOf(batches)[f] = FileRecords(batches, f)
          BY <1>1, Zenon DEF FilesOf
        <5>3. QED BY <2>4, <5>1, <5>2
      <4>3. QED BY <4>1, <4>2, Zenon
    <3>4. DOMAIN FilesOf(batches) = 1..n /\ DOMAIN FilesOf(more) = 1..(n + 1)
      BY <1>1 DEF FilesOf
    <3>5. Len(FilesOf(batches)) = n /\ Len(FilesOf(more)) = n + 1
      <4> DEFINE s == FilesOf(batches)
      <4> DEFINE p == FilesOf(more)
      <4> DEFINE S == Seq(R)
      <4>1. s \in Seq(S) /\ p \in Seq(S) /\ DOMAIN s = 1..n /\ DOMAIN p = 1..(n + 1)
        BY <2>1, <2>2, <3>4
      <4> HIDE DEF s, p, S, n
      <4>2. Len(s) = n /\ Len(p) = n + 1
        BY <1>1, <4>1
      <4>3. QED BY <4>2 DEF s, p
    <3>6. QED BY <3>3, <3>5
  <2> DEFINE s == FilesOf(batches)
  <2> DEFINE p == FilesOf(more)
  <2> DEFINE S == Seq(R)
  <2> HIDE DEF s, p, S, n, one
  <2>6. n \in Nat /\ s \in Seq(S) /\ Len(s) = n /\ p \in Seq(S) /\ Len(p) = n + 1 /\ one \in S
    BY <1>1, <2>1, <2>2, <2>3, <2>5 DEF s, p, S
  <2>7. p[n + 1] = one /\ \A i \in 1..n : p[i] = s[i]
    BY <2>5 DEF s, p
  <2>8. p = Append(s, one)
    BY <2>6, <2>7, ExtendedFunction, Zenon
  <2>9. QED BY <2>8 DEF s, p
<1>5. ASSUME NEW t \in Tables PROVE BatchesOf(more, t) = Append(BatchesOf(batches, t), b[t])
  <2> DEFINE s == BatchesOf(batches, t)
  <2> DEFINE p == BatchesOf(more, t)
  <2> DEFINE S == Seq(I)
  <2>1. s \in Seq(S) /\ p \in Seq(S)
    BY <1>1, BatchesAre
  <2>2. b[t] \in S
    BY DEF Batches
  <2>3. /\ DOMAIN s = 1..n /\ DOMAIN p = 1..(n + 1)
        /\ \A i \in 1..(n + 1) : p[i] = more[i][t]
        /\ \A i \in 1..n : s[i] = batches[i][t]
    BY <1>1 DEF BatchesOf
  <2> HIDE DEF s, p, S, n
  <2>4. Len(s) = n /\ Len(p) = n + 1
    BY <1>1, <2>1, <2>3
  <2>5. p[n + 1] = b[t] /\ \A i \in 1..n : p[i] = s[i]
    BY <1>1, <2>3
  <2>6. p = Append(s, b[t])
    BY <1>1, <2>1, <2>2, <2>4, <2>5, ExtendedFunction, Zenon
  <2>7. QED BY <2>6 DEF s, p
<1>6. QED BY <1>2, <1>3, <1>4, <1>5 DEF more

\* The records of an upload, with the numbers of their files.
LEMMA RecordsAre ==
  ASSUME NEW I, NEW batches \in Seq(Batches(I))
  PROVE  RecordsOf(batches).records \in Seq(RecordSet(1..Len(batches), I))
<1>1. RecordsOf(batches).records = FlattenSeq(FilesOf(batches))
  BY DEF RecordsOf, FilesOf
<1>2. QED BY <1>1, FilesAre, FlattenType

\* The records of a table are what the files have for it, in their order.
LEMMA RecordsSaid ==
  ASSUME NEW I, NEW batches \in Seq(Batches(I)), NEW t \in Tables
  PROVE  ItemsOf(Only(RecordsOf(batches).records, t)) = FlattenSeq(BatchesOf(batches, t))
<1> DEFINE Said1(bs) == ItemsOf(Only(FlattenSeq(FilesOf(bs)), t)) = FlattenSeq(BatchesOf(bs, t))
<1> DEFINE P == {bs \in Seq(Batches(I)) : Said1(bs)}
<1>1. << >> \in P
  <2>1. FilesOf(<< >>) = << >> /\ BatchesOf(<< >>, t) = << >>
    BY DEF FilesOf, BatchesOf
  <2>2. ItemsOf(<< >>) = << >>
    BY DEF ItemsOf
  <2>3. << >> \in Seq(Batches(I))
    OBVIOUS
  <2>4. Said1(<< >>)
    BY <2>1, <2>2, FlattenEmpty, OnlyEmpty, Zenon
  <2>5. QED BY <2>3, <2>4
<1>2. ASSUME NEW bs \in P, NEW b \in Batches(I) PROVE Append(bs, b) \in P
  <2> DEFINE more == Append(bs, b)
  <2> DEFINE n == Len(bs)
  <2> DEFINE one == FileRecords(more, n + 1)
  <2> DEFINE R == RecordSet(Nat, I)
  <2>1. bs \in Seq(Batches(I)) /\ n \in Nat /\ more \in Seq(Batches(I)) /\ Said1(bs)
    OBVIOUS
  <2>2. /\ one \in Seq(RecordSet({n + 1}, I)) /\ ItemsOf(Only(one, t)) = b[t]
        /\ FilesOf(more) = Append(FilesOf(bs), one)
        /\ BatchesOf(more, t) = Append(BatchesOf(bs, t), b[t])
    BY <2>1, FilesGrow
  <2>3. FilesOf(bs) \in Seq(Seq(RecordSet(1..n, I)))
    BY <2>1, FilesAre
  <2>4. one \in Seq(R)
    <3> DEFINE R1 == RecordSet({n + 1}, I)
    <3>1. one \in Seq(R1) /\ R1 \subseteq R
      BY <2>1, <2>2 DEF RecordSet
    <3> HIDE DEF R1, R, one
    <3>2. QED BY <3>1
  <2>5. FilesOf(bs) \in Seq(Seq(R))
    <3> DEFINE R1 == RecordSet(1..n, I)
    <3>1. R1 \subseteq R
      BY <2>1 DEF RecordSet
    <3>2. FilesOf(bs) \in Seq(Seq(R1))
      BY <2>3
    <3> HIDE DEF R1, R
    <3>3. Seq(R1) \subseteq Seq(R)
      BY <3>1
    <3>4. \A S1, S : S1 \subseteq S => Seq(S1) \subseteq Seq(S)
      OBVIOUS
    <3>5. Seq(Seq(R1)) \subseteq Seq(Seq(R))
      BY <3>3, <3>4, Zenon
    <3>6. QED BY <3>2, <3>5, Zenon
  <2> DEFINE before == FlattenSeq(FilesOf(bs))
  <2>6. Only(FlattenSeq(FilesOf(more)), t) = Only(before, t) \o Only(one, t)
    <3> DEFINE ss == FilesOf(bs)
    <3>1. ss \in Seq(Seq(R)) /\ one \in Seq(R) /\ FilesOf(more) = Append(ss, one)
      BY <2>2, <2>4, <2>5
    <3> HIDE DEF R, one, more, ss, before
    <3>2. Only(FlattenSeq(Append(ss, one)), t) = Only(FlattenSeq(ss), t) \o Only(one, t)
      BY <3>1, OnlyGrows, Zenon
    <3>3. QED BY <3>1, <3>2, Zenon DEF before, ss
  <2>7. before \in Seq(R)
    BY <2>5, FlattenType
  <2>8. Only(before, t) \in Seq(R) /\ Only(one, t) \in Seq(R)
    BY <2>4, <2>7, OnlyType
  <2>9. ItemsOf(Only(before, t) \o Only(one, t)) = ItemsOf(Only(before, t)) \o ItemsOf(Only(one, t))
    <3> DEFINE o1 == Only(before, t)
    <3> DEFINE o2 == Only(one, t)
    <3>1. o1 \in Seq(R) /\ o2 \in Seq(R)
      BY <2>8
    <3> HIDE DEF o1, o2
    <3>2. ItemsOf(o1 \o o2) = ItemsOf(o1) \o ItemsOf(o2)
      BY <3>1, ItemsOfConcat
    <3>3. QED BY <3>2 DEF o1, o2
  <2>10. FlattenSeq(BatchesOf(more, t)) = FlattenSeq(BatchesOf(bs, t)) \o b[t]
    <3>1. BatchesOf(bs, t) \in Seq(Seq(I)) /\ b[t] \in Seq(I)
      BY <2>1, BatchesAre DEF Batches
    <3>2. QED BY <2>2, <3>1, FlattenGrows, Zenon
  <2>11. Said1(more)
    <3> HIDE DEF one, more, before
    <3>1. ItemsOf(Only(before, t)) = FlattenSeq(BatchesOf(bs, t))
      BY <2>1, Zenon DEF before
    <3>2. QED BY <2>2, <2>6, <2>9, <2>10, <3>1, Zenon
  <2>12. QED BY <2>1, <2>11
<1>3. P = Seq(Batches(I))
  <2>1. P \in SUBSET Seq(Batches(I))
    OBVIOUS
  <2> HIDE DEF P
  <2>2. QED BY <1>1, <1>2, <2>1, SeqSetInduction
<1>4. Said1(batches)
  BY <1>3
<1>5. QED BY <1>4, Zenon DEF RecordsOf, FilesOf

\* Records are counted table by table.
Counted(records) == UNION {{t} \X (1..Len(Only(records, t))) : t \in Tables}

\* Counting the records by table counts each of them once.
LEMMA CountedByTable ==
  ASSUME NEW Files, NEW I, NEW records \in Seq(RecordSet(Files, I))
  PROVE  IsFiniteSet(Counted(records)) /\ Cardinality(Counted(records)) = Len(records)
<1> DEFINE R == RecordSet(Files, I)
<1> DEFINE Right(s) == IsFiniteSet(Counted(s)) /\ Cardinality(Counted(s)) = Len(s)
<1> DEFINE P == {s \in Seq(R) : Right(s)}
<1>1. << >> \in P
  <2>1. \A t \in Tables : Only(<< >>, t) = << >>
    BY OnlyEmpty, Zenon
  <2>2. Counted(<< >>) = {}
    BY <2>1 DEF Counted
  <2>3. Right(<< >>)
    BY <2>2, FS_EmptySet
  <2>4. QED BY <2>3
<1>2. ASSUME NEW s \in P, NEW x \in R PROVE Append(s, x) \in P
  <2> DEFINE k == Len(Only(s, x.table)) + 1
  <2>1. s \in Seq(R) /\ Right(s) /\ Len(s) \in Nat
    OBVIOUS
  <2>2. x.table \in Tables
    BY DEF RecordSet
  <2>3. \A t \in Tables : Only(s, t) \in Seq(R)
    BY <2>1, OnlyType
  <2>4. \A t \in Tables : Len(Only(Append(s, x), t)) = IF x.table = t THEN k ELSE Len(Only(s, t))
    <3> SUFFICES ASSUME NEW t \in Tables
                 PROVE  Len(Only(Append(s, x), t)) = IF x.table = t THEN k ELSE Len(Only(s, t))
      OBVIOUS
    <3> DEFINE o == Only(s, t)
    <3>1. Only(Append(s, x), t) = IF x.table = t THEN Append(o, x) ELSE o
      BY <2>1, OnlyOfAppend
    <3>2. o \in Seq(R)
      BY <2>3
    <3> HIDE DEF o, R
    <3>3. Len(Append(o, x)) = Len(o) + 1
      BY <3>2
    <3>4. QED BY <3>1, <3>3 DEF o
  <2>5. \A t \in Tables : Len(Only(s, t)) \in Nat
    <3> SUFFICES ASSUME NEW t \in Tables PROVE Len(Only(s, t)) \in Nat
      OBVIOUS
    <3> DEFINE o == Only(s, t)
    <3>1. o \in Seq(R)
      BY <2>3
    <3> HIDE DEF o, R
    <3>2. Len(o) \in Nat
      BY <3>1
    <3>3. QED BY <3>2 DEF o
  <2> DEFINE l == [t \in Tables |-> Len(Only(s, t))]
  <2> DEFINE l2 == [t \in Tables |-> Len(Only(Append(s, x), t))]
  <2> DEFINE t0 == x.table
  <2>6. /\ l \in [Tables -> Nat] /\ t0 \in Tables /\ k = l[t0] + 1
        /\ \A t \in Tables : l2[t] = IF t0 = t THEN k ELSE l[t]
        /\ Counted(s) = UNION {{t} \X (1..l[t]) : t \in Tables}
        /\ Counted(Append(s, x)) = UNION {{t} \X (1..l2[t]) : t \in Tables}
    <3>1. l \in [Tables -> Nat] /\ k = l[t0] + 1
      BY <2>2, <2>5
    <3>2. \A t \in Tables : l2[t] = IF t0 = t THEN k ELSE l[t]
      BY <2>4
    <3>3. Counted(s) = UNION {{t} \X (1..l[t]) : t \in Tables}
      BY DEF Counted
    <3>4. Counted(Append(s, x)) = UNION {{t} \X (1..l2[t]) : t \in Tables}
      BY DEF Counted
    <3>5. QED BY <2>2, <3>1, <3>2, <3>3, <3>4
  <2> HIDE DEF l, l2, t0, k
  <2>7. Counted(Append(s, x)) = Counted(s) \cup {<<t0, k>>} /\ <<t0, k>> \notin Counted(s)
    <3>1. ASSUME NEW p PROVE p \in Counted(Append(s, x)) <=> p \in Counted(s) \cup {<<t0, k>>}
      <4>1. p \in Counted(Append(s, x)) <=> \E t \in Tables : \E i \in 1..l2[t] : p = <<t, i>>
        BY <2>6
      <4>2. p \in Counted(s) <=> \E t \in Tables : \E i \in 1..l[t] : p = <<t, i>>
        BY <2>6
      <4>3. \A t \in Tables : \A i : i \in 1..l2[t] <=> i \in 1..l[t] \/ (t = t0 /\ i = k)
        BY <2>6
      <4>4. QED BY <2>6, <4>1, <4>2, <4>3
    <3>2. <<t0, k>> \notin Counted(s)
      BY <2>6
    <3>3. QED BY <3>1, <3>2
  <2>8. Right(Append(s, x))
    <3>1. IsFiniteSet(Counted(s)) /\ Cardinality(Counted(s)) = Len(s)
      BY <2>1
    <3>2. /\ IsFiniteSet(Counted(s) \cup {<<t0, k>>})
          /\ Cardinality(Counted(s) \cup {<<t0, k>>}) = Cardinality(Counted(s)) + 1
      BY <2>7, <3>1, FS_AddElement
    <3>3. Len(Append(s, x)) = Len(s) + 1
      BY <2>1
    <3>4. QED BY <2>7, <3>1, <3>2, <3>3
  <2>9. Append(s, x) \in Seq(R)
    BY <2>1
  <2>10. QED BY <2>8, <2>9
<1>3. P = Seq(R)
  <2>1. P \in SUBSET Seq(R)
    OBVIOUS
  <2> HIDE DEF P, R
  <2>2. QED BY <1>1, <1>2, <2>1, SeqSetInduction
<1>4. QED BY <1>3

----------------------------------------------------------------------------
(* The last of what is said of a key *)

LastPlace(said, key) == Max({i \in DOMAIN said : said[i].key = key})
KeysOf(said) == {said[i].key : i \in DOMAIN said}
Final(said, key) == said[LastPlace(said, key)].item

\* A largest member is the maximum.
LEMMA MaxIs ==
  ASSUME NEW S \in SUBSET Nat, NEW m \in S, \A y \in S : m >= y
  PROVE  Max(S) = m
<1>1. Max(S) \in S /\ \A y \in S : Max(S) >= y
  BY DEF Max
<1>2. Max(S) >= m /\ m >= Max(S) /\ m \in Nat /\ Max(S) \in Nat
  BY <1>1
<1>3. QED BY <1>2

\* A part of 1..n has a maximum.
LEMMA MaxOfPart ==
  ASSUME NEW n \in Nat, NEW S \in SUBSET (1..n), S # {}
  PROVE  Max(S) \in S /\ \A y \in S : Max(S) >= y
<1> DEFINE N == {k \in Nat : \A T \in SUBSET (1..k) : T # {} => \E m \in T : \A y \in T : m >= y}
<1>1. 0 \in N
  <2>1. \A T \in SUBSET (1..0) : T = {}
    OBVIOUS
  <2>2. QED BY <2>1
<1>2. ASSUME NEW k \in N PROVE k + 1 \in N
  <2>1. k \in Nat
    OBVIOUS
  <2>2. ASSUME NEW T \in SUBSET (1..k + 1), T # {} PROVE \E m \in T : \A y \in T : m >= y
    <3>1. CASE k + 1 \in T
      BY <2>1, <3>1
    <3>2. CASE k + 1 \notin T
      <4>1. T \in SUBSET (1..k)
        BY <2>1, <3>2
      <4>2. QED BY <2>2, <4>1
    <3>3. QED BY <3>1, <3>2
  <2>3. QED BY <2>1, <2>2
<1>3. N = Nat
  <2>1. N \in SUBSET Nat
    OBVIOUS
  <2> HIDE DEF N
  <2>2. QED BY <1>1, <1>2, <2>1, NatSetInduction
<1>4. \E m \in S : \A y \in S : m >= y
  BY <1>3
<1>5. QED BY <1>4 DEF Max

\* The last place where a key is named.
LEMMA LastIs ==
  ASSUME NEW E, NEW said \in Seq(E), NEW key \in KeysOf(said)
  PROVE  /\ LastPlace(said, key) \in DOMAIN said
         /\ said[LastPlace(said, key)].key = key
         /\ \A i \in DOMAIN said : said[i].key = key => LastPlace(said, key) >= i
<1> DEFINE S == {i \in DOMAIN said : said[i].key = key}
<1>1. Len(said) \in Nat /\ S \in SUBSET (1..Len(said)) /\ S # {}
  BY DEF KeysOf
<1>2. Max(S) \in S /\ \A y \in S : Max(S) >= y
  <2> HIDE DEF S
  <2>1. QED BY <1>1, MaxOfPart
<1>3. QED BY <1>2 DEF LastPlace

\* A place that names a key and has none after it is its last.
LEMMA LastIf ==
  ASSUME NEW E, NEW said \in Seq(E), NEW m \in DOMAIN said, NEW key, said[m].key = key,
         \A i \in DOMAIN said : said[i].key = key => m >= i
  PROVE  key \in KeysOf(said) /\ LastPlace(said, key) = m
<1> DEFINE S == {i \in DOMAIN said : said[i].key = key}
<1>1. S \in SUBSET Nat /\ m \in S /\ \A y \in S : m >= y
  OBVIOUS
<1>2. Max(S) = m
  <2> HIDE DEF S
  <2>1. QED BY <1>1, MaxIs
<1>3. QED BY <1>1, <1>2 DEF LastPlace, KeysOf

\* One thing more is said.
LEMMA FinalOfAppend ==
  ASSUME NEW E, NEW said \in Seq(E), NEW x \in E
  PROVE  /\ KeysOf(Append(said, x)) = KeysOf(said) \cup {x.key}
         /\ \A key \in KeysOf(Append(said, x)) :
              Final(Append(said, x), key) = IF key = x.key THEN x.item ELSE Final(said, key)
<1> DEFINE more == Append(said, x)
<1> DEFINE n == Len(said)
<1>1. /\ n \in Nat /\ DOMAIN said = 1..n /\ DOMAIN more = 1..(n + 1) /\ more \in Seq(E)
      /\ \A i \in 1..n : more[i] = said[i]
      /\ more[n + 1] = x
  OBVIOUS
<1> HIDE DEF more, n
<1>2. KeysOf(more) = KeysOf(said) \cup {x.key}
  <2>1. \A i \in 1..(n + 1) : i \in 1..n \/ i = n + 1
    BY <1>1
  <2>2. 1..n \subseteq 1..(n + 1) /\ n + 1 \in 1..(n + 1)
    BY <1>1
  <2>3. QED BY <1>1, <2>1, <2>2 DEF KeysOf
<1>3. LastPlace(more, x.key) = n + 1
  BY <1>1, LastIf
<1>4. Final(more, x.key) = x.item
  BY <1>1, <1>3 DEF Final
<1>5. ASSUME NEW key \in KeysOf(more), key # x.key
      PROVE  Final(more, key) = Final(said, key)
  <2>1. key \in KeysOf(said)
    BY <1>2, <1>5
  <2> DEFINE m == LastPlace(said, key)
  <2>2. /\ m \in DOMAIN said /\ said[m].key = key
        /\ \A i \in DOMAIN said : said[i].key = key => m >= i
    BY <2>1, LastIs
  <2> HIDE DEF m
  <2>3. /\ m \in DOMAIN more /\ more[m].key = key
        /\ \A i \in DOMAIN more : more[i].key = key => m >= i
    BY <1>1, <1>5, <2>2
  <2>4. LastPlace(more, key) = m
    BY <1>1, <2>3, LastIf
  <2>5. QED BY <1>1, <2>2, <2>4 DEF Final, m
<1>6. QED BY <1>2, <1>4, <1>5 DEF more

\* What is said again changes nothing.
LEMMA FinalOfAgain ==
  ASSUME NEW E, NEW before \in Seq(E), NEW said \in Seq(E)
  PROVE  /\ KeysOf((before \o said) \o said) = KeysOf(before \o said)
         /\ \A key \in KeysOf(before \o said) :
              Final((before \o said) \o said, key) = Final(before \o said, key)
<1> DEFINE one == before \o said
<1> DEFINE two == one \o said
<1> DEFINE b == Len(before)
<1> DEFINE n == Len(said)
<1>1. /\ b \in Nat /\ n \in Nat /\ one \in Seq(E) /\ DOMAIN one = 1..(b + n) /\ Len(one) = b + n
      /\ \A i \in 1..n : one[b + i] = said[i]
  OBVIOUS
<1>2. /\ two \in Seq(E) /\ DOMAIN two = 1..(b + n + n)
      /\ \A i \in 1..(b + n) : two[i] = one[i]
      /\ \A i \in 1..n : two[b + n + i] = said[i]
  <2> HIDE DEF one, n, b
  <2>1. DOMAIN two = 1..(Len(one) + Len(said)) /\ two \in Seq(E)
    BY <1>1
  <2>2. \A i \in 1..Len(one) : two[i] = one[i]
    BY <1>1
  <2>3. \A i \in 1..Len(said) : two[Len(one) + i] = said[i]
    BY <1>1
  <2>4. QED BY <1>1, <2>1, <2>2, <2>3 DEF n
<1> HIDE DEF one, two, b, n
<1>3. \A i \in DOMAIN two :
        \/ i \in 1..(b + n) /\ two[i] = one[i]
        \/ \E j \in 1..n : i = b + n + j
  <2> SUFFICES ASSUME NEW i \in DOMAIN two, i \notin 1..(b + n) PROVE \E j \in 1..n : i = b + n + j
    BY <1>2
  <2>1. i - (b + n) \in 1..n /\ i = b + n + (i - (b + n))
    BY <1>1, <1>2
  <2>2. QED BY <2>1
<1>4. ASSUME NEW j \in 1..n
      PROVE  /\ b + j \in 1..(b + n) /\ b + n + j \in DOMAIN two
             /\ two[b + n + j] = one[b + j]
  <2>1. b + j \in 1..(b + n) /\ b + n + j \in 1..(b + n + n)
    BY <1>1
  <2>2. two[b + n + j] = said[j] /\ one[b + j] = said[j]
    BY <1>1, <1>2
  <2>3. QED BY <1>2, <2>1, <2>2
<1>5. KeysOf(two) = KeysOf(one)
  <2>1. \A i \in DOMAIN one : i \in DOMAIN two /\ two[i] = one[i]
    BY <1>1, <1>2
  <2>2. ASSUME NEW i \in DOMAIN two PROVE \E j \in DOMAIN one : two[i] = one[j]
    <3>1. CASE i \in 1..(b + n) /\ two[i] = one[i]
      BY <1>1, <3>1
    <3>2. CASE \E j \in 1..n : i = b + n + j
      BY <1>1, <1>4, <3>2
    <3>3. QED BY <1>3, <3>1, <3>2
  <2>3. QED BY <2>1, <2>2 DEF KeysOf
<1>6. ASSUME NEW key \in KeysOf(one) PROVE Final(two, key) = Final(one, key)
  <2> DEFINE m == LastPlace(one, key)
  <2>1. /\ m \in DOMAIN one /\ one[m].key = key
        /\ \A i \in DOMAIN one : one[i].key = key => m >= i
    BY <1>1, LastIs
  <2>2. Final(one, key) = one[m].item
    BY DEF Final
  <2> HIDE DEF m
  <2>3. CASE m <= b
    <3>1. \A j \in 1..n : one[b + j].key # key
      BY <1>1, <1>4, <2>1, <2>3
    <3>2. m \in DOMAIN two /\ two[m] = one[m]
      BY <1>1, <1>2, <2>1
    <3>3. \A i \in DOMAIN two : two[i].key = key => m >= i
      <4> SUFFICES ASSUME NEW i \in DOMAIN two, two[i].key = key PROVE m >= i
        OBVIOUS
      <4>1. CASE i \in 1..(b + n) /\ two[i] = one[i]
        BY <1>1, <2>1, <4>1
      <4>2. CASE \E j \in 1..n : i = b + n + j
        <5>1. PICK j \in 1..n : i = b + n + j
          BY <4>2
        <5>2. one[b + j].key = key
          BY <1>4, <5>1
        <5>3. QED BY <3>1, <5>2
      <4>3. QED BY <1>3, <4>1, <4>2
    <3>4. LastPlace(two, key) = m
      BY <1>2, <2>1, <3>2, <3>3, LastIf
    <3>5. QED BY <2>2, <3>2, <3>4 DEF Final
  <2>4. CASE m > b
    <3> DEFINE p == m - b
    <3>1. p \in 1..n /\ b + p = m
      BY <1>1, <2>1, <2>4
    <3> HIDE DEF p
    <3>2. b + n + p \in DOMAIN two /\ two[b + n + p] = one[m]
      BY <1>4, <3>1
    <3>3. \A i \in DOMAIN two : two[i].key = key => b + n + p >= i
      <4> SUFFICES ASSUME NEW i \in DOMAIN two, two[i].key = key PROVE b + n + p >= i
        OBVIOUS
      <4>1. CASE i \in 1..(b + n)
        BY <1>1, <3>1, <4>1
      <4>2. CASE \E j \in 1..n : i = b + n + j
        <5>1. PICK j \in 1..n : i = b + n + j
          BY <4>2
        <5>2. one[b + j].key = key /\ b + j \in DOMAIN one
          BY <1>1, <1>4, <5>1
        <5>3. m >= b + j
          BY <2>1, <5>2
        <5>4. QED BY <1>1, <3>1, <5>1, <5>3
      <4>3. QED BY <1>3, <4>1, <4>2
    <3>4. two[b + n + p].key = key
      BY <2>1, <3>2
    <3>5. LastPlace(two, key) = b + n + p
      <4> DEFINE q == b + n + p
      <4>1. q \in DOMAIN two /\ two[q].key = key /\ \A i \in DOMAIN two : two[i].key = key => q >= i
        BY <3>2, <3>3, <3>4
      <4> HIDE DEF q
      <4>2. LastPlace(two, key) = q
        BY <1>2, <4>1, LastIf
      <4>3. QED BY <4>2 DEF q
    <3>6. QED BY <2>2, <3>2, <3>5, Zenon DEF Final
  <2>5. QED BY <1>1, <2>1, <2>3, <2>4
<1>7. QED BY <1>5, <1>6 DEF one, two

----------------------------------------------------------------------------
(* Storing one record *)

RowsOf(base) == UNION {{t} \X DOMAIN base.rows[t] : t \in Tables}

\* The tables as they are stored, however far: finitely many rows, and SKUs of
\* orders only.
IsBase(base) ==
  /\ base = [rows |-> base.rows, lines |-> base.lines]
  /\ base.rows = [t \in Tables |-> base.rows[t]]
  /\ \A t \in Tables : base.rows[t] = [k \in DOMAIN base.rows[t] |-> base.rows[t][k]]
  /\ \A l \in base.lines :
       /\ l = [table |-> l.table, order |-> l.order, no |-> l.no, sku |-> l.sku]
       /\ l.table \in Nested
  /\ IsFiniteSet(RowsOf(base))

IsAcc(acc) ==
  acc = [db |-> acc.db, inserted |-> acc.inserted, updated |-> acc.updated,
         records |-> acc.records]

\* What the tables are after a record of table t.
LinesPut(lines, t, key, item) ==
  {l \in lines : l.table # t \/ l.order # key} \cup
    {[table |-> t, order |-> key, no |-> n, sku |-> item.lines[n]] : n \in DOMAIN item.lines}

\* An upsert overwrites one row of one table, and counts once.
LEMMA UpsertedIs ==
  ASSUME NEW acc, IsAcc(acc), IsBase(acc.db), NEW t \in Tables, NEW key, NEW item
  PROVE  LET now == Upserted(acc, t, key, item)
             known == key \in DOMAIN acc.db.rows[t]
         IN  /\ IsAcc(now)
             /\ now.records = acc.records
             /\ now.inserted = IF known THEN acc.inserted ELSE acc.inserted + 1
             /\ now.updated = IF known THEN acc.updated + 1 ELSE acc.updated
             /\ now.db = [rows |-> now.db.rows, lines |-> acc.db.lines]
             /\ now.db.rows = [s \in Tables |-> IF s = t THEN Overwritten(acc.db.rows[t], key, item.value)
                                                ELSE acc.db.rows[s]]
<1> DEFINE put == Overwritten(acc.db.rows[t], key, item.value)
<1> DEFINE known == key \in DOMAIN acc.db.rows[t]
<1>1. Upserted(acc, t, key, item) =
        [acc EXCEPT !.db.rows[t] = put,
                    !.inserted = IF known THEN @ ELSE @ + 1,
                    !.updated = IF known THEN @ + 1 ELSE @]
  BY DEF Upserted
<1> DEFINE d == acc.db
<1> DEFINE i == acc.inserted
<1> DEFINE u == acc.updated
<1> DEFINE n == acc.records
<1> DEFINE rows == acc.db.rows
<1> DEFINE lines == acc.db.lines
<1>2. /\ acc = [db |-> d, inserted |-> i, updated |-> u, records |-> n]
      /\ d = [rows |-> rows, lines |-> lines]
      /\ rows = [s \in Tables |-> rows[s]]
  BY DEF IsAcc, IsBase
<1> HIDE DEF put, known, d, i, u, n, rows, lines
<1>3. [acc EXCEPT !.db.rows[t] = put,
                    !.inserted = IF known THEN @ ELSE @ + 1,
                    !.updated = IF known THEN @ + 1 ELSE @]
       = [db |-> [rows |-> [rows EXCEPT ![t] = put], lines |-> lines],
          inserted |-> IF known THEN i ELSE i + 1,
          updated |-> IF known THEN u + 1 ELSE u, records |-> n]
  <2>1. acc.db = d /\ acc.inserted = i /\ acc.updated = u
    BY <1>2
  <2>2. [acc.db EXCEPT !.rows[t] = put] = [rows |-> [rows EXCEPT ![t] = put], lines |-> lines]
    <3>1. [d EXCEPT !.rows[t] = put] = [d EXCEPT !.rows = [d.rows EXCEPT ![t] = put]]
      OBVIOUS
    <3> DEFINE w == [rows EXCEPT ![t] = put]
    <3>2. d.rows = rows
      BY <1>2
    <3> HIDE DEF w
    <3>3. [d EXCEPT !.rows = w] = [rows |-> w, lines |-> lines]
      BY <1>2
    <3>4. QED BY <2>1, <3>1, <3>2, <3>3, Zenon DEF w
  <2> DEFINE d2 == [acc.db EXCEPT !.rows[t] = put]
  <2> DEFINE i2 == IF known THEN i ELSE i + 1
  <2> DEFINE u2 == IF known THEN u + 1 ELSE u
  <2>3. [acc EXCEPT !.db.rows[t] = put,
                    !.inserted = IF known THEN @ ELSE @ + 1,
                    !.updated = IF known THEN @ + 1 ELSE @]
         = [db |-> d2, inserted |-> i2, updated |-> u2, records |-> n]
    <3> DEFINE a == [acc EXCEPT !.db = d2]
    <3>1. [acc EXCEPT !.db.rows[t] = put] = a
      OBVIOUS
    <3>2. [acc EXCEPT !.db.rows[t] = put,
                      !.inserted = IF known THEN @ ELSE @ + 1,
                      !.updated = IF known THEN @ + 1 ELSE @]
            = [a EXCEPT !.inserted = IF known THEN @ ELSE @ + 1,
                        !.updated = IF known THEN @ + 1 ELSE @]
      BY <3>1, Zenon
    <3> HIDE DEF d2
    <3>3. a = [db |-> d2, inserted |-> i, updated |-> u, records |-> n]
      <4>1. acc = [db |-> d, inserted |-> i, updated |-> u, records |-> n]
        BY <1>2
      <4>2. \A e : [acc EXCEPT !.db = e] = [db |-> e, inserted |-> i, updated |-> u, records |-> n]
        BY <4>1
      <4>3. QED BY <4>2
    <3> HIDE DEF a
    <3>4. [a EXCEPT !.inserted = IF known THEN @ ELSE @ + 1,
                    !.updated = IF known THEN @ + 1 ELSE @]
            = [db |-> d2, inserted |-> i2, updated |-> u2, records |-> n]
      <4>1. \A x, y : [a EXCEPT !.inserted = x, !.updated = y]
                       = [db |-> d2, inserted |-> x, updated |-> y, records |-> n]
        <5> TAKE x, y
        <5>1. [a EXCEPT !.inserted = x] = [db |-> d2, inserted |-> x, updated |-> u, records |-> n]
          BY <3>3
        <5>2. [[a EXCEPT !.inserted = x] EXCEPT !.updated = y]
                = [db |-> d2, inserted |-> x, updated |-> y, records |-> n]
          <6> DEFINE e == [a EXCEPT !.inserted = x]
          <6>1. e = [db |-> d2, inserted |-> x, updated |-> u, records |-> n]
            BY <5>1
          <6> HIDE DEF e
          <6>2. [e EXCEPT !.updated = y] = [db |-> d2, inserted |-> x, updated |-> y, records |-> n]
            BY <6>1
          <6>3. QED BY <6>2 DEF e
        <5>3. [a EXCEPT !.inserted = x, !.updated = y]
                = [[a EXCEPT !.inserted = x] EXCEPT !.updated = y]
          OBVIOUS
        <5>4. QED BY <5>2, <5>3
      <4>2. a.inserted = i /\ a.updated = u
        BY <3>3
      <4>3. (IF known THEN a.inserted ELSE a.inserted + 1) = i2
        BY <4>2
      <4>4. (IF known THEN a.updated + 1 ELSE a.updated) = u2
        BY <4>2
      <4> HIDE DEF i2, u2
      <4>5. QED BY <4>1, <4>3, <4>4, Zenon
    <3>5. QED BY <3>2, <3>4, Zenon
  <2>4. QED BY <2>2, <2>3, Zenon DEF d2, i2, u2
<1>4. [rows EXCEPT ![t] = put] = [s \in Tables |-> IF s = t THEN put ELSE rows[s]]
  BY <1>2
<1>5. Upserted(acc, t, key, item)
       = [db |-> [rows |-> [s \in Tables |-> IF s = t THEN put ELSE rows[s]], lines |-> lines],
          inserted |-> IF known THEN i ELSE i + 1,
          updated |-> IF known THEN u + 1 ELSE u, records |-> n]
  BY <1>1, <1>3, <1>4, Zenon
<1>6. QED BY <1>5 DEF IsAcc, put, known, d, i, u, n, rows, lines

\* What is counted for a record with this key.
Tallied(now, acc, t, key) ==
  LET known == key \in DOMAIN acc.db.rows[t]
  IN  /\ IsAcc(now)
      /\ now.records = acc.records + 1
      /\ now.inserted = IF known THEN acc.inserted ELSE acc.inserted + 1
      /\ now.updated = IF known THEN acc.updated + 1 ELSE acc.updated

\* A record that is stored is counted once and changes its own table only.
LEMMA StoredIs ==
  ASSUME NEW acc, IsAcc(acc), IsBase(acc.db), NEW shop, NEW record, record.table \in Tables
  PROVE  LET now   == Stored(acc, shop, record)
             t     == record.table
             item  == record.item
             key   == KeyOf(shop, item)
         IN  /\ Tallied(now, acc, t, key)
             /\ now.db = [rows |-> now.db.rows, lines |-> now.db.lines]
             /\ now.db.rows = [s \in Tables |-> IF s = t THEN Overwritten(acc.db.rows[t], key, item.value)
                                                ELSE acc.db.rows[s]]
             /\ now.db.lines = IF t \in Nested THEN LinesPut(acc.db.lines, t, key, item)
                               ELSE acc.db.lines
<1> DEFINE t     == record.table
<1> DEFINE item  == record.item
<1> DEFINE key   == KeyOf(shop, item)
<1> DEFINE up    == Upserted(acc, t, key, item)
<1> DEFINE rows  == [s \in Tables |-> IF s = t THEN Overwritten(acc.db.rows[t], key, item.value)
                                      ELSE acc.db.rows[s]]
<1> DEFINE known == key \in DOMAIN acc.db.rows[t]
<1>1. /\ IsAcc(up)
      /\ up.records = acc.records
      /\ up.inserted = IF known THEN acc.inserted ELSE acc.inserted + 1
      /\ up.updated = IF known THEN acc.updated + 1 ELSE acc.updated
      /\ up.db = [rows |-> up.db.rows, lines |-> acc.db.lines]
      /\ up.db.rows = rows
  BY UpsertedIs
<1>2. Stored(acc, shop, record) =
        [IF t \in Nested THEN Relined(up, t, key, item) ELSE up EXCEPT !.records = @ + 1]
  BY DEF Stored
<1>3. Relined(up, t, key, item) = [up EXCEPT !.db.lines = LinesPut(@, t, key, item)]
  BY DEF Relined, LinesPut
<1> HIDE DEF up, rows, key, item, t, known
<1>4. [up EXCEPT !.db.lines = LinesPut(@, t, key, item)]
        = [db |-> [rows |-> rows, lines |-> LinesPut(acc.db.lines, t, key, item)],
           inserted |-> up.inserted, updated |-> up.updated, records |-> acc.records]
  BY <1>1 DEF IsAcc
<1>5. up = [db |-> [rows |-> rows, lines |-> acc.db.lines],
            inserted |-> up.inserted, updated |-> up.updated, records |-> acc.records]
  BY <1>1 DEF IsAcc
<1>6. Stored(acc, shop, record)
        = [db |-> [rows |-> rows,
                   lines |-> IF t \in Nested THEN LinesPut(acc.db.lines, t, key, item)
                             ELSE acc.db.lines],
           inserted |-> up.inserted, updated |-> up.updated, records |-> acc.records + 1]
  <2> DEFINE mid == IF t \in Nested THEN Relined(up, t, key, item) ELSE up
  <2> DEFINE lines == IF t \in Nested THEN LinesPut(acc.db.lines, t, key, item)
                      ELSE acc.db.lines
  <2> DEFINE d == [rows |-> rows, lines |-> lines]
  <2>1. mid = [db |-> d, inserted |-> up.inserted, updated |-> up.updated,
               records |-> acc.records]
    <3>1. CASE t \in Nested
      BY <1>3, <1>4, <3>1, Zenon
    <3>2. CASE t \notin Nested
      BY <1>5, <3>2, Zenon
    <3>3. QED BY <3>1, <3>2
  <2>2. Stored(acc, shop, record) = [mid EXCEPT !.records = @ + 1]
    BY <1>2
  <2> HIDE DEF mid, d
  <2>3. [mid EXCEPT !.records = @ + 1]
          = [db |-> d, inserted |-> up.inserted, updated |-> up.updated,
             records |-> acc.records + 1]
    BY <2>1
  <2>4. QED BY <2>2, <2>3 DEF d
<1>7. QED BY <1>1, <1>6 DEF Tallied, IsAcc, key, item, t, known, rows

----------------------------------------------------------------------------
(* What a table holds *)

Numbered(lines) == {<<n, lines[n]>> : n \in DOMAIN lines}
Pairs(lines) == {<<l.no, l.sku>> : l \in lines}

HoldsRows(base, t, said) ==
  /\ DOMAIN base.rows[t] = KeysOf(said)
  /\ \A key \in KeysOf(said) : base.rows[t][key] = Final(said, key).value

HoldsLines(base, t, said) ==
  /\ \A l \in base.lines : l.table = t => l.order \in KeysOf(said)
  /\ \A key \in KeysOf(said) :
       Pairs(LinesOf(base, t, key)) = Numbered(Final(said, key).lines)

\* What a table holds, as its rows and its lines.
LEMMA HoldsIs ==
  ASSUME NEW base, NEW t, NEW said
  PROVE  Holds(base, t, said) <=>
           HoldsRows(base, t, said) /\ (t \in Nested => HoldsLines(base, t, said))
BY Zenon DEF Holds, HoldsRows, HoldsLines, KeysOf, Final, LastPlace, Pairs, Numbered

\* Overwriting a row keeps up with what is said.
LEMMA RowsGrow ==
  ASSUME NEW E, NEW said \in Seq(E), NEW x \in E, NEW base, NEW more, NEW t,
         more.rows[t] = Overwritten(base.rows[t], x.key, x.item.value),
         HoldsRows(base, t, said)
  PROVE  HoldsRows(more, t, Append(said, x))
<1> DEFINE after == Append(said, x)
<1>1. /\ KeysOf(after) = KeysOf(said) \cup {x.key}
      /\ \A key \in KeysOf(after) :
           Final(after, key) = IF key = x.key THEN x.item ELSE Final(said, key)
  BY FinalOfAppend
<1> HIDE DEF after
<1>2. DOMAIN more.rows[t] = KeysOf(after)
  BY <1>1 DEF Overwritten, HoldsRows
<1>3. ASSUME NEW key \in KeysOf(after) PROVE more.rows[t][key] = Final(after, key).value
  <2>1. CASE key = x.key
    BY <1>1, <2>1 DEF Overwritten
  <2>2. CASE key # x.key
    BY <1>1, <2>2 DEF Overwritten, HoldsRows
  <2>3. QED BY <2>1, <2>2
<1>4. QED BY <1>2, <1>3 DEF HoldsRows, after

Relines(more, base, t, key, item) == more.lines = LinesPut(base.lines, t, key, item)

\* The lines of one order are replaced, and no others.
LEMMA LinesOfPut ==
  ASSUME NEW base, NEW more, NEW t, NEW key, NEW item, Relines(more, base, t, key, item)
  PROVE  /\ Pairs(LinesOf(more, t, key)) = Numbered(item.lines)
         /\ \A other : other # key => LinesOf(more, t, other) = LinesOf(base, t, other)
         /\ \A s, k : s # t => LinesOf(more, s, k) = LinesOf(base, s, k)
         /\ \A l \in more.lines : l \in base.lines \/ (l.table = t /\ l.order = key)
<1> DEFINE new == {[table |-> t, order |-> key, no |-> n, sku |-> item.lines[n]] :
                     n \in DOMAIN item.lines}
<1>1. \A l : l \in more.lines <=>
        (l \in base.lines /\ (l.table # t \/ l.order # key)) \/ l \in new
  BY DEF Relines, LinesPut
<1>2. \A l \in new : /\ l.table = t /\ l.order = key
                     /\ l.no \in DOMAIN item.lines /\ l.sku = item.lines[l.no]
  OBVIOUS
<1>3. \A n \in DOMAIN item.lines :
        \E l \in new : l.no = n /\ l.sku = item.lines[n]
  <2> TAKE n \in DOMAIN item.lines
  <2>1. [table |-> t, order |-> key, no |-> n, sku |-> item.lines[n]] \in new
    OBVIOUS
  <2>2. QED BY <2>1
<1> HIDE DEF new
<1>4. LinesOf(more, t, key) = new
  BY <1>1, <1>2 DEF LinesOf
<1>5. Pairs(new) = Numbered(item.lines)
  BY <1>2, <1>3 DEF Pairs, Numbered
<1>6. \A other : other # key => LinesOf(more, t, other) = LinesOf(base, t, other)
  BY <1>1, <1>2 DEF LinesOf
<1>7. \A s, k : s # t => LinesOf(more, s, k) = LinesOf(base, s, k)
  BY <1>1, <1>2 DEF LinesOf
<1>8. QED BY <1>1, <1>2, <1>4, <1>5, <1>6, <1>7

\* Replacing the lines of an order keeps up with what is said.
LEMMA LinesGrow ==
  ASSUME NEW E, NEW said \in Seq(E), NEW x \in E, NEW base, NEW more, NEW t,
         more.lines = LinesPut(base.lines, t, x.key, x.item),
         HoldsLines(base, t, said)
  PROVE  HoldsLines(more, t, Append(said, x))
<1> DEFINE after == Append(said, x)
<1>1. /\ KeysOf(after) = KeysOf(said) \cup {x.key}
      /\ \A key \in KeysOf(after) :
           Final(after, key) = IF key = x.key THEN x.item ELSE Final(said, key)
  BY FinalOfAppend
<1> HIDE DEF after
<1>2. /\ Pairs(LinesOf(more, t, x.key)) = Numbered(x.item.lines)
      /\ \A other : other # x.key => LinesOf(more, t, other) = LinesOf(base, t, other)
      /\ \A l \in more.lines : l \in base.lines \/ (l.table = t /\ l.order = x.key)
  <2> DEFINE k == x.key
  <2> DEFINE i == x.item
  <2>1. Relines(more, base, t, k, i)
    BY DEF Relines
  <2> HIDE DEF k, i
  <2>2. /\ Pairs(LinesOf(more, t, k)) = Numbered(i.lines)
        /\ \A other : other # k => LinesOf(more, t, other) = LinesOf(base, t, other)
        /\ \A l \in more.lines : l \in base.lines \/ (l.table = t /\ l.order = k)
    BY <2>1, LinesOfPut
  <2>3. QED BY <2>2 DEF k, i
<1>3. \A l \in more.lines : l.table = t => l.order \in KeysOf(after)
  BY <1>1, <1>2 DEF HoldsLines
<1>4. ASSUME NEW key \in KeysOf(after)
      PROVE  Pairs(LinesOf(more, t, key)) = Numbered(Final(after, key).lines)
  <2>1. CASE key = x.key
    BY <1>1, <1>2, <2>1
  <2>2. CASE key # x.key
    BY <1>1, <1>2, <2>2 DEF HoldsLines
  <2>3. QED BY <2>1, <2>2
<1>5. QED BY <1>3, <1>4 DEF HoldsLines, after

\* Other tables stay.
LEMMA OthersStay ==
  ASSUME NEW base, NEW more, NEW t, NEW said, Holds(base, t, said),
         more.rows[t] = base.rows[t],
         \A key : LinesOf(more, t, key) = LinesOf(base, t, key)
  PROVE  Holds(more, t, said)
<1>1. HoldsRows(base, t, said) /\ (t \in Nested => HoldsLines(base, t, said))
  BY HoldsIs
<1>2. HoldsRows(more, t, said)
  BY <1>1 DEF HoldsRows
<1>3. t \in Nested => HoldsLines(more, t, said)
  <2> SUFFICES ASSUME t \in Nested PROVE HoldsLines(more, t, said)
    OBVIOUS
  <2>1. \A l \in more.lines : l.table = t => l \in base.lines
    <3>1. \A l \in more.lines : l.table = t => l \in LinesOf(more, t, l.order)
      BY DEF LinesOf
    <3>2. \A l, key : l \in LinesOf(base, t, key) => l \in base.lines
      BY DEF LinesOf
    <3>3. QED BY <3>1, <3>2
  <2>2. QED BY <1>1, <2>1 DEF HoldsLines
<1>4. QED BY <1>2, <1>3, HoldsIs

\* Two that hold the same are the same.
LEMMA HoldsDetermines ==
  ASSUME NEW one, NEW two, IsBase(one), IsBase(two), NEW s1, NEW s2,
         \A t \in Tables : Holds(one, t, s1[t]) /\ Holds(two, t, s2[t]),
         \A t \in Tables : KeysOf(s1[t]) = KeysOf(s2[t]),
         \A t \in Tables : \A key \in KeysOf(s1[t]) : Final(s1[t], key) = Final(s2[t], key)
  PROVE  one = two
<1>1. \A t \in Tables :
        /\ HoldsRows(one, t, s1[t]) /\ (t \in Nested => HoldsLines(one, t, s1[t]))
        /\ HoldsRows(two, t, s2[t]) /\ (t \in Nested => HoldsLines(two, t, s2[t]))
  BY HoldsIs
<1>2. ASSUME NEW t \in Tables PROVE one.rows[t] = two.rows[t]
  <2>1. DOMAIN one.rows[t] = DOMAIN two.rows[t]
    BY <1>1 DEF HoldsRows
  <2>2. \A k \in DOMAIN one.rows[t] : one.rows[t][k] = two.rows[t][k]
    BY <1>1 DEF HoldsRows
  <2>3. /\ one.rows[t] = [k \in DOMAIN one.rows[t] |-> one.rows[t][k]]
        /\ two.rows[t] = [k \in DOMAIN two.rows[t] |-> two.rows[t][k]]
    BY DEF IsBase
  <2>4. QED BY <2>1, <2>2, <2>3
<1>3. one.rows = two.rows
  BY <1>2 DEF IsBase
<1>4. one.lines = two.lines
  <2>1. \A b, l : l \in b.lines <=> l \in b.lines /\ l \in LinesOf(b, l.table, l.order)
    BY DEF LinesOf
  <2>2. ASSUME NEW a, NEW b, IsBase(a), IsBase(b), NEW p1, NEW p2,
               \A t \in Nested : HoldsLines(a, t, p1[t]) /\ HoldsLines(b, t, p2[t]),
               \A t \in Nested : KeysOf(p1[t]) = KeysOf(p2[t]),
               \A t \in Nested : \A key \in KeysOf(p1[t]) : Final(p1[t], key) = Final(p2[t], key),
               NEW l \in a.lines
        PROVE  l \in b.lines
    <3> DEFINE t == l.table
    <3> DEFINE key == l.order
    <3>1. t \in Nested /\ l = [table |-> t, order |-> key, no |-> l.no, sku |-> l.sku]
      BY <2>2 DEF IsBase
    <3>2. key \in KeysOf(p1[t]) /\ key \in KeysOf(p2[t])
      BY <2>2, <3>1 DEF HoldsLines
    <3>3. Pairs(LinesOf(a, t, key)) = Pairs(LinesOf(b, t, key))
      BY <2>2, <3>1, <3>2 DEF HoldsLines
    <3>4. <<l.no, l.sku>> \in Pairs(LinesOf(a, t, key))
      BY <2>2 DEF Pairs, LinesOf
    <3>5. PICK m \in LinesOf(b, t, key) : <<m.no, m.sku>> = <<l.no, l.sku>>
      BY <3>3, <3>4 DEF Pairs
    <3>6. m \in b.lines /\ m.table = t /\ m.order = key /\ m.no = l.no /\ m.sku = l.sku
      BY <3>5 DEF LinesOf
    <3>7. m = [table |-> m.table, order |-> m.order, no |-> m.no, sku |-> m.sku]
      BY <2>2, <3>6 DEF IsBase
    <3>8. m = l
      BY <3>1, <3>6, <3>7
    <3>9. QED BY <3>6, <3>8
  <2>3. \A t \in Nested : t \in Tables
    BY DEF Tables
  <2>4. \A l \in one.lines : l \in two.lines
    BY <1>1, <2>2, <2>3
  <2>5. \A l \in two.lines : l \in one.lines
    BY <1>1, <2>2, <2>3
  <2>6. QED BY <2>4, <2>5
<1>5. QED BY <1>3, <1>4 DEF IsBase

\* One record is stored.
LEMMA OneStored ==
  ASSUME NEW acc, IsAcc(acc), IsBase(acc.db), NEW shop, NEW record, record.table \in Tables,
         NEW E, Saying(shop, record.item) \in E, NEW said,
         \A t \in Tables : said[t] \in Seq(E) /\ Holds(acc.db, t, said[t])
  PROVE  LET now == Stored(acc, shop, record)
         IN  /\ IsBase(now.db)
             /\ \A t \in Tables :
                  Holds(now.db, t, IF t = record.table
                                     THEN Append(said[t], Saying(shop, record.item))
                                     ELSE said[t])
             /\ RowsOf(now.db)
                  = RowsOf(acc.db) \cup {<<record.table, KeyOf(shop, record.item)>>}
<1> DEFINE now  == Stored(acc, shop, record)
<1> DEFINE t    == record.table
<1> DEFINE item == record.item
<1> DEFINE key  == KeyOf(shop, item)
<1> DEFINE x    == Saying(shop, item)
<1>1. /\ now.db = [rows |-> now.db.rows, lines |-> now.db.lines]
      /\ now.db.rows = [s \in Tables |-> IF s = t THEN Overwritten(acc.db.rows[t], key, item.value)
                                         ELSE acc.db.rows[s]]
      /\ now.db.lines = IF t \in Nested THEN LinesPut(acc.db.lines, t, key, item)
                        ELSE acc.db.lines
  BY StoredIs
<1>2. x.key = key /\ x.item = item /\ x \in E /\ t \in Tables
  BY DEF Saying
<1> DEFINE base == acc.db
<1> DEFINE more == now.db
<1>3. /\ more = [rows |-> more.rows, lines |-> more.lines]
      /\ more.rows = [s \in Tables |-> more.rows[s]]
      /\ more.rows[t] = Overwritten(base.rows[t], key, item.value)
      /\ \A s \in Tables : s # t => more.rows[s] = base.rows[s]
      /\ t \in Nested => Relines(more, base, t, key, item)
      /\ t \notin Nested => more.lines = base.lines
  BY <1>1, <1>2 DEF Relines
<1>4. IsBase(base) /\ \A s \in Tables : said[s] \in Seq(E) /\ Holds(base, s, said[s])
  OBVIOUS
<1> HIDE DEF x, key, item, t, base, more
<1>5. Holds(more, t, Append(said[t], x))
  <2> DEFINE s == said[t]
  <2>1. s \in Seq(E) /\ HoldsRows(base, t, s) /\ (t \in Nested => HoldsLines(base, t, s))
    BY <1>2, <1>4, HoldsIs
  <2> HIDE DEF s
  <2>2. more.rows[t] = Overwritten(base.rows[t], x.key, x.item.value)
    BY <1>2, <1>3
  <2>3. HoldsRows(more, t, Append(s, x))
    BY <1>2, <2>1, <2>2, RowsGrow
  <2>4. t \in Nested => HoldsLines(more, t, Append(s, x))
    <3> SUFFICES ASSUME t \in Nested PROVE HoldsLines(more, t, Append(s, x))
      OBVIOUS
    <3>1. more.lines = LinesPut(base.lines, t, x.key, x.item)
      BY <1>2, <1>3 DEF Relines
    <3>2. QED BY <1>2, <2>1, <3>1, LinesGrow
  <2>5. QED BY <2>3, <2>4, HoldsIs DEF s
<1>6. \A s, k : s # t => LinesOf(more, s, k) = LinesOf(base, s, k)
  <2>1. CASE t \in Nested
    <3>1. \A s, k : s # t => LinesOf(more, s, k) = LinesOf(base, s, k)
      BY <1>3, <2>1, LinesOfPut
    <3>2. QED BY <3>1
  <2>2. CASE t \notin Nested
    BY <1>3, <2>2 DEF LinesOf
  <2>3. QED BY <2>1, <2>2
<1>7. ASSUME NEW s \in Tables, s # t PROVE Holds(more, s, said[s])
  <2>1. more.rows[s] = base.rows[s] /\ \A k : LinesOf(more, s, k) = LinesOf(base, s, k)
    BY <1>3, <1>6, <1>7
  <2>2. Holds(base, s, said[s])
    BY <1>4
  <2>3. QED BY <2>1, <2>2, OthersStay
<1>8. RowsOf(more) = RowsOf(base) \cup {<<t, key>>}
  <2>1. DOMAIN more.rows[t] = {key} \cup DOMAIN base.rows[t]
    BY <1>3 DEF Overwritten
  <2>2. \A p : p \in RowsOf(more) <=> \E s \in Tables : \E k \in DOMAIN more.rows[s] : p = <<s, k>>
    BY DEF RowsOf
  <2>3. \A p : p \in RowsOf(base) <=> \E s \in Tables : \E k \in DOMAIN base.rows[s] : p = <<s, k>>
    BY DEF RowsOf
  <2>4. ASSUME NEW p \in RowsOf(more) PROVE p \in RowsOf(base) \cup {<<t, key>>}
    <3>1. PICK s \in Tables : \E k \in DOMAIN more.rows[s] : p = <<s, k>>
      BY <2>2, <2>4
    <3>2. PICK k \in DOMAIN more.rows[s] : p = <<s, k>>
      BY <3>1
    <3>3. CASE s = t
      BY <2>1, <2>3, <3>2, <3>3
    <3>4. CASE s # t
      BY <1>3, <2>3, <3>2, <3>4
    <3>5. QED BY <3>3, <3>4
  <2>5. ASSUME NEW p \in RowsOf(base) PROVE p \in RowsOf(more)
    <3>1. PICK s \in Tables : \E k \in DOMAIN base.rows[s] : p = <<s, k>>
      BY <2>3, <2>5
    <3>2. PICK k \in DOMAIN base.rows[s] : p = <<s, k>>
      BY <3>1
    <3>3. k \in DOMAIN more.rows[s]
      BY <1>3, <2>1, <3>2
    <3>4. QED BY <2>2, <3>2, <3>3
  <2>6. <<t, key>> \in RowsOf(more)
    BY <1>2, <2>1, <2>2
  <2>7. QED BY <2>4, <2>5, <2>6
<1>9. IsBase(more)
  <2>1. IsFiniteSet(RowsOf(more))
    <3>1. IsFiniteSet(RowsOf(base))
      BY <1>4 DEF IsBase
    <3>2. QED BY <1>8, <3>1, FS_AddElement
  <2>2. ASSUME NEW s \in Tables PROVE more.rows[s] = [k \in DOMAIN more.rows[s] |-> more.rows[s][k]]
    <3>1. CASE s = t
      <4>1. more.rows[s] = Overwritten(base.rows[t], key, item.value)
        BY <1>3, <3>1
      <4>2. QED BY <4>1 DEF Overwritten
    <3>2. CASE s # t
      BY <1>3, <1>4, <3>2 DEF IsBase
    <3>3. QED BY <3>1, <3>2
  <2>3. ASSUME NEW l \in more.lines
        PROVE  /\ l = [table |-> l.table, order |-> l.order, no |-> l.no, sku |-> l.sku]
               /\ l.table \in Nested
    <3>1. CASE l \in base.lines
      BY <1>4, <3>1 DEF IsBase
    <3>2. CASE l \notin base.lines
      <4>1. t \in Nested /\ more.lines = LinesPut(base.lines, t, key, item)
        BY <1>3, <3>2 DEF Relines
      <4>2. \E n \in DOMAIN item.lines :
              l = [table |-> t, order |-> key, no |-> n, sku |-> item.lines[n]]
        BY <3>2, <4>1 DEF LinesPut
      <4>3. QED BY <4>1, <4>2
    <3>3. QED BY <3>1, <3>2
  <2>4. QED BY <1>3, <2>1, <2>2, <2>3 DEF IsBase
<1>10. QED BY <1>5, <1>7, <1>8, <1>9 DEF x, key, item, t, base, more

\* It counts as inserted when the tables grow by it.
LEMMA OneCounted ==
  ASSUME NEW acc, IsAcc(acc), IsBase(acc.db), NEW shop, NEW record, record.table \in Tables,
         acc.inserted \in Nat, acc.updated \in Nat, acc.records \in Nat,
         acc.inserted + acc.updated = acc.records,
         NEW before \in Nat, TableCount(acc.db) = before + acc.inserted
  PROVE  LET now == Stored(acc, shop, record)
         IN  /\ IsAcc(now)
             /\ now.records = acc.records + 1
             /\ now.inserted \in Nat /\ now.updated \in Nat
             /\ now.inserted + now.updated = now.records
             /\ RowsOf(now.db) = RowsOf(acc.db) \cup {<<record.table, KeyOf(shop, record.item)>>} =>
                  TableCount(now.db) = before + now.inserted
<1> DEFINE now  == Stored(acc, shop, record)
<1> DEFINE t    == record.table
<1> DEFINE key  == KeyOf(shop, record.item)
<1> DEFINE known == key \in DOMAIN acc.db.rows[t]
<1>1. /\ IsAcc(now)
      /\ now.records = acc.records + 1
      /\ now.inserted = IF known THEN acc.inserted ELSE acc.inserted + 1
      /\ now.updated = IF known THEN acc.updated + 1 ELSE acc.updated
  <2>1. Tallied(now, acc, t, key)
    BY StoredIs
  <2> HIDE DEF now, t, key
  <2>2. QED BY <2>1 DEF Tallied
<1>2. known <=> <<t, key>> \in RowsOf(acc.db)
  <2> DEFINE d == DOMAIN acc.db.rows[t]
  <2>1. \A p : p \in RowsOf(acc.db) <=> \E s \in Tables : \E k \in DOMAIN acc.db.rows[s] : p = <<s, k>>
    BY DEF RowsOf
  <2> HIDE DEF key
  <2>2. QED BY <2>1
<1>3. /\ IsFiniteSet(RowsOf(acc.db))
      /\ TableCount(acc.db) = Cardinality(RowsOf(acc.db))
      /\ TableCount(now.db) = Cardinality(RowsOf(now.db))
  BY DEF TableCount, RowsOf, IsBase
<1> HIDE DEF now, t, key, known
<1>4. ASSUME RowsOf(now.db) = RowsOf(acc.db) \cup {<<t, key>>}
      PROVE  TableCount(now.db) = before + now.inserted
  <2>1. Cardinality(RowsOf(now.db))
          = IF <<t, key>> \in RowsOf(acc.db) THEN Cardinality(RowsOf(acc.db))
            ELSE Cardinality(RowsOf(acc.db)) + 1
    BY <1>3, <1>4, FS_AddElement
  <2>2. QED BY <1>1, <1>2, <1>3, <2>1
<1>5. now.inserted \in Nat /\ now.updated \in Nat /\ now.inserted + now.updated = now.records
  BY <1>1
<1>6. QED BY <1>1, <1>4, <1>5 DEF now, t, key

----------------------------------------------------------------------------
(* What uploads say, and have said *)

Item ==
  UNION {UNION {UNION {{Parsed[u][f][t][i] : i \in DOMAIN Parsed[u][f][t]} : t \in Tables}
                  : f \in DOMAIN Parsed[u]} : u \in Upload}

\* An upload that can be read: what is said of an order is what its parser
\* collected.
WellParsed(u) ==
  /\ u \in Upload
  /\ Parsed[u] \in Seq(Batches(Item))
  /\ \A t \in Tables :
       SaidBy(u, t) = Entered(Content[u].shop, FlattenSeq(BatchesOf(Parsed[u], t)))

AllSayings == UNION {Sayings(Content[u].shop, Item) : u \in Upload}

Records(u) == RecordsOf(Parsed[u]).records

SaidSoFar(u, n, t) == Entered(Content[u].shop, ItemsOf(Only(SubSeq(Records(u), 1, n), t)))

\* The records of an upload that can be read.
LEMMA RecordsType ==
  ASSUME NEW u, WellParsed(u)
  PROVE  Records(u) \in Seq(RecordSet(1..Len(Parsed[u]), Item))
BY RecordsAre DEF WellParsed, Records

\* The first places of a sequence.
LEMMA PartsOfSequence ==
  ASSUME NEW R, NEW s \in Seq(R)
  PROVE  /\ SubSeq(s, 1, 0) = << >>
         /\ SubSeq(s, 1, Len(s)) = s
         /\ \A n \in 0..Len(s) : SubSeq(s, 1, n) \in Seq(R)
         /\ \A n \in 0..Len(s) - 1 :
              s[n + 1] \in R /\ SubSeq(s, 1, n + 1) = Append(SubSeq(s, 1, n), s[n + 1])
<1>1. SubSeq(s, 1, 0) = << >>
  OBVIOUS
<1>2. SubSeq(s, 1, Len(s)) = s
  OBVIOUS
<1>3. \A n \in 0..Len(s) : SubSeq(s, 1, n) \in Seq(R)
  OBVIOUS
<1>4. ASSUME NEW n \in 0..Len(s) - 1
      PROVE  s[n + 1] \in R /\ SubSeq(s, 1, n + 1) = Append(SubSeq(s, 1, n), s[n + 1])
  <2>1. s[n + 1] \in R
    OBVIOUS
  <2>2. SubSeq(s, 1, n + 1) = Append(SubSeq(s, 1, n), s[n + 1])
    OBVIOUS
  <2>3. QED BY <2>1, <2>2
<1>5. QED BY <1>1, <1>2, <1>3, <1>4

\* What one upload may say is among what uploads may say.
LEMMA SayingsAreAll ==
  ASSUME NEW u \in Upload
  PROVE  /\ Sayings(Content[u].shop, Item) \subseteq AllSayings
         /\ Seq(Sayings(Content[u].shop, Item)) \subseteq Seq(AllSayings)
<1>1. Sayings(Content[u].shop, Item) \subseteq AllSayings
  BY DEF AllSayings
<1>2. \A S, T : S \subseteq T => Seq(S) \subseteq Seq(T)
  OBVIOUS
<1>3. QED BY <1>1, <1>2, Zenon

\* What the first records say are sayings.
LEMMA SaidSoFarType ==
  ASSUME NEW u, WellParsed(u), NEW t, NEW n \in 0..Len(Records(u))
  PROVE  SaidSoFar(u, n, t) \in Seq(AllSayings)
<1> DEFINE F == 1..Len(Parsed[u])
<1> DEFINE R == RecordSet(F, Item)
<1> DEFINE part == SubSeq(Records(u), 1, n)
<1>1. part \in Seq(R)
  <2> DEFINE s == Records(u)
  <2>1. s \in Seq(R) /\ n \in 0..Len(s)
    BY RecordsType
  <2> HIDE DEF s, R
  <2>2. SubSeq(s, 1, n) \in Seq(R)
    BY <2>1, PartsOfSequence
  <2>3. QED BY <2>2 DEF s
<1> HIDE DEF part, F
<1>2. Only(part, t) \in Seq(R)
  BY <1>1, OnlyType
<1>3. ItemsOf(Only(part, t)) \in Seq(Item)
  <2> DEFINE o == Only(part, t)
  <2>1. o \in Seq(RecordSet(F, Item))
    BY <1>2
  <2> HIDE DEF o
  <2>2. ItemsOf(o) \in Seq(Item)
    BY <2>1, ItemsAre
  <2>3. QED BY <2>2 DEF o
<1>4. Entered(Content[u].shop, ItemsOf(Only(part, t))) \in Seq(Sayings(Content[u].shop, Item))
  BY <1>3, EnteredIs
<1>5. u \in Upload
  BY DEF WellParsed
<1>6. QED BY <1>4, <1>5, SayingsAreAll, Zenon DEF SaidSoFar, part

\* The next record adds what it says to its own table only.
LEMMA SaidSoFarGrows ==
  ASSUME NEW u, WellParsed(u), NEW t, NEW n \in 0..Len(Records(u)) - 1
  PROVE  LET x == Records(u)[n + 1]
         IN  /\ x.table \in Tables
             /\ Saying(Content[u].shop, x.item) \in AllSayings
             /\ SaidSoFar(u, n + 1, t) =
                  IF t = x.table THEN Append(SaidSoFar(u, n, t), Saying(Content[u].shop, x.item))
                  ELSE SaidSoFar(u, n, t)
<1> DEFINE F == 1..Len(Parsed[u])
<1> DEFINE R == RecordSet(F, Item)
<1> DEFINE part == SubSeq(Records(u), 1, n)
<1> DEFINE more == SubSeq(Records(u), 1, n + 1)
<1> DEFINE x == Records(u)[n + 1]
<1> DEFINE shop == Content[u].shop
<1>1. part \in Seq(R) /\ x \in R /\ more = Append(part, x)
  <2> DEFINE s == Records(u)
  <2>1. s \in Seq(R) /\ n \in 0..Len(s) - 1 /\ Len(s) \in Nat
    BY RecordsType
  <2> HIDE DEF s, R
  <2>2. n \in 0..Len(s)
    BY <2>1
  <2>3. /\ SubSeq(s, 1, n) \in Seq(R) /\ s[n + 1] \in R
        /\ SubSeq(s, 1, n + 1) = Append(SubSeq(s, 1, n), s[n + 1])
    BY <2>1, <2>2, PartsOfSequence
  <2>4. QED BY <2>3 DEF s
<1>2. x.table \in Tables /\ x.item \in Item
  BY <1>1 DEF RecordSet
<1>3. Saying(shop, x.item) \in AllSayings
  <2>1. Saying(shop, x.item) \in Sayings(shop, Item)
    BY <1>2 DEF Saying, Sayings
  <2>2. u \in Upload
    BY DEF WellParsed
  <2>3. QED BY <2>1, <2>2, SayingsAreAll, Zenon
<1> HIDE DEF part, more, x, F, shop
<1>4. Only(more, t) = IF x.table = t THEN Append(Only(part, t), x) ELSE Only(part, t)
  <2> HIDE DEF R
  <2>1. QED BY <1>1, OnlyOfAppend
<1> DEFINE o == Only(part, t)
<1>5. o \in Seq(RecordSet(F, Item))
  BY <1>1, OnlyType
<1> HIDE DEF o
<1>6. ItemsOf(o) \in Seq(Item) /\ ItemsOf(Append(o, x)) = Append(ItemsOf(o), x.item)
  BY <1>1, <1>5, ItemsAre
<1>7. Entered(shop, Append(ItemsOf(o), x.item)) = Append(Entered(shop, ItemsOf(o)), Saying(shop, x.item))
  <2> DEFINE i == ItemsOf(o)
  <2> DEFINE y == x.item
  <2>1. i \in Seq(Item) /\ y \in Item
    BY <1>2, <1>6
  <2> HIDE DEF i, y
  <2>2. Entered(shop, Append(i, y)) = Append(Entered(shop, i), Saying(shop, y))
    BY <2>1, EnteredIs
  <2>3. QED BY <2>2 DEF i, y
<1>8. /\ SaidSoFar(u, n, t) = Entered(shop, ItemsOf(o))
      /\ SaidSoFar(u, n + 1, t) = Entered(shop, ItemsOf(Only(more, t)))
  BY DEF SaidSoFar, o, more, part, shop
<1>9. CASE t = x.table
  <2>1. Only(more, t) = Append(o, x)
    BY <1>4, <1>9 DEF o
  <2>2. SaidSoFar(u, n + 1, t) = Append(SaidSoFar(u, n, t), Saying(shop, x.item))
    BY <1>6, <1>7, <1>8, <2>1, Zenon
  <2>3. QED BY <1>2, <1>3, <1>9, <2>2 DEF x, shop
<1>10. CASE t # x.table
  <2>1. Only(more, t) = o
    BY <1>4, <1>10 DEF o
  <2>2. SaidSoFar(u, n + 1, t) = SaidSoFar(u, n, t)
    BY <1>8, <2>1, Zenon
  <2>3. QED BY <1>2, <1>3, <1>10, <2>2 DEF x, shop
<1>11. QED BY <1>9, <1>10

\* Before the first record nothing is said.
LEMMA NothingSaidYet ==
  ASSUME NEW u, WellParsed(u), NEW t
  PROVE  SaidSoFar(u, 0, t) = << >>
<1>1. SubSeq(Records(u), 1, 0) = << >>
  BY RecordsType, PartsOfSequence
<1>2. ItemsOf(<< >>) = << >>
  BY DEF ItemsOf
<1>3. Entered(Content[u].shop, << >>) = << >>
  BY DEF Entered
<1>4. Only(<< >>, t) = << >>
  BY OnlyEmpty
<1>5. QED BY <1>1, <1>2, <1>3, <1>4, Zenon DEF SaidSoFar

\* All records together say what the upload says.
LEMMA AllSaid ==
  ASSUME NEW u, WellParsed(u), NEW t \in Tables
  PROVE  SaidSoFar(u, Len(Records(u)), t) = SaidBy(u, t) /\ SaidBy(u, t) \in Seq(AllSayings)
<1>1. SubSeq(Records(u), 1, Len(Records(u))) = Records(u) /\ Len(Records(u)) \in Nat
  <2> DEFINE R == RecordSet(1..Len(Parsed[u]), Item)
  <2> DEFINE s == Records(u)
  <2>1. s \in Seq(R)
    BY RecordsType
  <2> HIDE DEF s, R
  <2>2. SubSeq(s, 1, Len(s)) = s /\ Len(s) \in Nat
    BY <2>1, PartsOfSequence
  <2>3. QED BY <2>2 DEF s
<1>2. ItemsOf(Only(Records(u), t)) = FlattenSeq(BatchesOf(Parsed[u], t))
  BY RecordsSaid DEF WellParsed, Records
<1>3. SaidSoFar(u, Len(Records(u)), t) = SaidBy(u, t)
  BY <1>1, <1>2, Zenon DEF SaidSoFar, WellParsed
<1>4. Len(Records(u)) \in 0..Len(Records(u))
  BY <1>1
<1>5. QED BY <1>3, <1>4, SaidSoFarType, Zenon

\* What an upload says is as much as its records.
LEMMA RecordsCounted ==
  ASSUME NEW u, WellParsed(u)
  PROVE  RecordCount(u) = Len(Records(u))
<1>1. \A t \in Tables : DOMAIN SaidBy(u, t) = 1..Len(Only(Records(u), t))
  <2> SUFFICES ASSUME NEW t \in Tables PROVE DOMAIN SaidBy(u, t) = 1..Len(Only(Records(u), t))
    OBVIOUS
  <2> DEFINE o == Only(Records(u), t)
  <2>1. ItemsOf(o) = FlattenSeq(BatchesOf(Parsed[u], t))
    BY RecordsSaid DEF WellParsed, Records
  <2>2. SaidBy(u, t) = Entered(Content[u].shop, ItemsOf(o))
    BY <2>1, Zenon DEF WellParsed
  <2>3. o \in Seq(RecordSet(1..Len(Parsed[u]), Item))
    BY RecordsType, OnlyType
  <2> HIDE DEF o
  <2>4. DOMAIN o = 1..Len(o)
    BY <2>3
  <2>5. DOMAIN Entered(Content[u].shop, ItemsOf(o)) = DOMAIN o
    BY DEF Entered, ItemsOf
  <2>6. QED BY <2>2, <2>4, <2>5 DEF o
<1>2. RecordCount(u) = Cardinality(Counted(Records(u)))
  BY <1>1 DEF RecordCount, Counted
<1>3. Cardinality(Counted(Records(u))) = Len(Records(u))
  BY RecordsType, CountedByTable
<1>4. QED BY <1>2, <1>3

----------------------------------------------------------------------------
(* What the parsers return *)

\* A sequence of any set is a sequence.
LEMMA SequenceOf ==
  ASSUME NEW S, NEW s \in Seq(S)
  PROVE  IsSequence(s)
<1>1. s \in [1..Len(s) -> S] /\ Len(s) \in Nat
  OBVIOUS
<1> DEFINE R == {s[i] : i \in DOMAIN s}
<1>2. s \in [1..Len(s) -> R]
  BY <1>1
<1> HIDE DEF R
<1>3. s \in Seq(R)
  BY <1>1, <1>2
<1>4. QED BY <1>3 DEF R, IsSequence, Range

\* The places of a sequence.
LEMMA SequenceHas ==
  ASSUME NEW s, IsSequence(s)
  PROVE  Len(s) \in Nat /\ DOMAIN s = 1..Len(s) /\ \A i \in 1..Len(s) : s[i] \in Range(s)
BY DEF IsSequence

\* The empty sequence is one.
LEMMA EmptySequence == IsSequence(<< >>)
<1>1. << >> \in Seq({})
  OBVIOUS
<1>2. QED BY <1>1, SequenceOf

\* Two sequences in a row are one.
LEMMA SequencesJoined ==
  ASSUME NEW s, IsSequence(s), NEW p, IsSequence(p)
  PROVE  IsSequence(s \o p)
<1> DEFINE S == Range(s) \cup Range(p)
<1>1. \A A, B, x : A \subseteq B /\ x \in Seq(A) => x \in Seq(B)
  OBVIOUS
<1>2. Range(s) \subseteq S /\ Range(p) \subseteq S
  OBVIOUS
<1> HIDE DEF S
<1>3. s \in Seq(S) /\ p \in Seq(S)
  BY <1>1, <1>2, Zenon DEF IsSequence
<1>4. s \o p \in Seq(S)
  BY <1>3
<1>5. QED BY <1>4, SequenceOf

\* What is chosen from a sequence is one.
LEMMA ChosenIsSequence ==
  ASSUME NEW s, IsSequence(s), NEW places
  PROVE  IsSequence(Chosen(s, places))
<1>1. Chosen(s, places) \in Seq(Range(s))
  BY ChosenType DEF IsSequence
<1>2. QED BY <1>1, SequenceOf

\* As long as a sequence, and with some value at each place.
Alongside(f, rows) == f = [i \in DOMAIN rows |-> f[i]]

\* What is as long as a sequence is one.
LEMMA AlongsideIsSequence ==
  ASSUME NEW rows, IsSequence(rows), NEW f, Alongside(f, rows)
  PROVE  IsSequence(f)
<1>1. DOMAIN rows = 1..Len(rows) /\ Len(rows) \in Nat
  BY SequenceHas
<1>2. f = [i \in 1..Len(rows) |-> f[i]]
  BY <1>1 DEF Alongside
<1> DEFINE R == {f[i] : i \in DOMAIN f}
<1>3. f \in [1..Len(rows) -> R]
  BY <1>2
<1> HIDE DEF R
<1>4. f \in Seq(R)
  BY <1>1, <1>3
<1>5. QED BY <1>4 DEF R, IsSequence, Range

\* The rows that are read are in an order.
LEMMA KeyedIsSequence ==
  ASSUME NEW sheet, IsSequence(sheet.rows), NEW cells
  PROVE  IsSequence(Keyed(sheet, cells))
BY ChosenIsSequence DEF Keyed

\* parseShippingLabelFees returns records in an order.
LEMMA ShippingIsSequence ==
  ASSUME NEW sheet, IsSequence(sheet.rows), NEW phase, ~Failed(ShippingItems(sheet, phase))
  PROVE  IsSequence(ShippingItems(sheet, phase))
<1> DEFINE rows == Keyed(sheet, {"package", "tracking"})
<1>1. IsSequence(rows)
  BY KeyedIsSequence
<1>2. ShippingItems(sheet, phase) = [i \in DOMAIN rows |-> ShippingItem(phase, rows[i])]
  BY DEF ShippingItems, Failed
<1> HIDE DEF rows
<1>3. Alongside(ShippingItems(sheet, phase), rows)
  BY <1>2 DEF Alongside
<1>4. QED BY <1>1, <1>3, AlongsideIsSequence

\* So do the parser of return labels,
LEMMA ReturnIsSequence ==
  ASSUME NEW sheet, IsSequence(sheet.rows), NEW to, ~Failed(ReturnItems(sheet, to))
  PROVE  IsSequence(ReturnItems(sheet, to))
<1> DEFINE rows == Keyed(sheet, {"bill"})
<1>1. IsSequence(rows)
  BY KeyedIsSequence
<1>2. ReturnItems(sheet, to) = [i \in DOMAIN rows |-> ReturnItem(to, rows[i])]
  BY DEF ReturnItems, Failed
<1> HIDE DEF rows
<1>3. Alongside(ReturnItems(sheet, to), rows)
  BY <1>2 DEF Alongside
<1>4. QED BY <1>1, <1>3, AlongsideIsSequence

\* of chargebacks,
LEMMA ChargebackIsSequence ==
  ASSUME NEW sheet, IsSequence(sheet.rows), ~Failed(ChargebackItems(sheet))
  PROVE  IsSequence(ChargebackItems(sheet))
<1> DEFINE rows == Keyed(sheet, {"no"})
<1>1. IsSequence(rows)
  BY KeyedIsSequence
<1>2. ChargebackItems(sheet) = [i \in DOMAIN rows |-> ChargebackItem(rows[i])]
  BY DEF ChargebackItems, Failed
<1> HIDE DEF rows
<1>3. Alongside(ChargebackItems(sheet), rows)
  BY <1>2 DEF Alongside
<1>4. QED BY <1>1, <1>3, AlongsideIsSequence

\* of violations,
LEMMA ViolationIsSequence ==
  ASSUME NEW sheet, IsSequence(sheet.rows), NEW source, ~Failed(ViolationItems(sheet, source))
  PROVE  IsSequence(ViolationItems(sheet, source))
<1> DEFINE rows == Keyed(sheet, {"no"})
<1>1. IsSequence(rows)
  BY KeyedIsSequence
<1>2. ViolationItems(sheet, source) = [i \in DOMAIN rows |-> ViolationItem(source, rows[i])]
  BY DEF ViolationItems, Failed
<1> HIDE DEF rows
<1>3. Alongside(ViolationItems(sheet, source), rows)
  BY <1>2 DEF Alongside
<1>4. QED BY <1>1, <1>3, AlongsideIsSequence

\* of fees the platform bears,
LEMMA PlatformIsSequence ==
  ASSUME NEW sheet, IsSequence(sheet.rows), ~Failed(PlatformItems(sheet))
  PROVE  IsSequence(PlatformItems(sheet))
<1> DEFINE rows == Keyed(sheet, {"order"})
<1>1. IsSequence(rows)
  BY KeyedIsSequence
<1>2. PlatformItems(sheet) = [i \in DOMAIN rows |-> PlatformItem(rows[i])]
  BY DEF PlatformItems, Failed
<1> HIDE DEF rows
<1>3. Alongside(PlatformItems(sheet), rows)
  BY <1>2 DEF Alongside
<1>4. QED BY <1>1, <1>3, AlongsideIsSequence

\* of disposals,
LEMMA DisposalIsSequence ==
  ASSUME NEW sheet, IsSequence(sheet.rows), ~Failed(DisposalItems(sheet))
  PROVE  IsSequence(DisposalItems(sheet))
<1> DEFINE rows == Keyed(sheet, {"sku"})
<1>1. IsSequence(rows)
  BY KeyedIsSequence
<1>2. DisposalItems(sheet) = [i \in DOMAIN rows |-> DisposalItem(rows[i])]
  BY DEF DisposalItems, Failed
<1> HIDE DEF rows
<1>3. Alongside(DisposalItems(sheet), rows)
  BY <1>2 DEF Alongside
<1>4. QED BY <1>1, <1>3, AlongsideIsSequence

\* and of settled flows.
LEMMA FlowIsSequence ==
  ASSUME NEW sheet, IsSequence(sheet.rows), ~Failed(FlowItems(sheet))
  PROVE  IsSequence(FlowItems(sheet))
<1> DEFINE rows == Keyed(sheet, {"flow"})
<1>1. IsSequence(rows)
  BY KeyedIsSequence
<1>2. FlowItems(sheet) = [i \in DOMAIN rows |-> FlowItem(rows[i])]
  BY DEF FlowItems, Failed
<1> HIDE DEF rows
<1>3. Alongside(FlowItems(sheet), rows)
  BY <1>2 DEF Alongside
<1>4. QED BY <1>1, <1>3, AlongsideIsSequence

----------------------------------------------------------------------------
(* The account workbook *)

FundTitles == {"chargebacks", "violations1", "violations2", "platform", "disposals", "settled"}
FundTable == [chargebacks |-> "chargeback", violations1 |-> "violation",
              violations2 |-> "violation", platform |-> "platform",
              disposals |-> "disposal", settled |-> "flow"]
FundRead(s) ==
  CASE s.title = "chargebacks" -> ChargebackItems(s)
    [] s.title = "violations1" -> ViolationItems(s, "delay")
    [] s.title = "violations2" -> ViolationItems(s, "false_ship")
    [] s.title = "platform"    -> PlatformItems(s)
    [] s.title = "disposals"   -> DisposalItems(s)
    [] s.title = "settled"     -> FlowItems(s)
FundKnown(sheets) == {i \in DOMAIN sheets : sheets[i].title \in FundTitles}

\* One step of FundItems.
FundStep(sheets, batch, n) ==
  IF n = 0 THEN NoItems
  ELSE IF n \in FundKnown(sheets)
    THEN [batch[n - 1] EXCEPT ![FundTable[sheets[n].title]] = @ \o FundRead(sheets[n])]
  ELSE batch[n - 1]
FundBatches(sheets) ==
  CHOOSE batch : batch = [n \in 0..Len(sheets) |-> FundStep(sheets, batch, n)]

\* FundItems is the last value of the function it defines.
LEMMA FundIsBatches ==
  ASSUME NEW sheets
  PROVE  FundItems(sheets) =
           IF FundKnown(sheets) = {} \/ \E i \in FundKnown(sheets) : Failed(FundRead(sheets[i]))
             THEN Bad ELSE FundBatches(sheets)[Len(sheets)]
BY DEF FundItems, FundKnown, FundRead, FundBatches, FundStep, FundTable, FundTitles

\* That function exists.
LEMMA FundBatchesExist ==
  ASSUME NEW sheets, Len(sheets) \in Nat
  PROVE  FundBatches(sheets) =
           [n \in 0..Len(sheets) |-> FundStep(sheets, FundBatches(sheets), n)]
<1> DEFINE Ends == {k \in Nat : \E g : g = [n \in 0..k |-> FundStep(sheets, g, n)]}
<1>1. 0 \in Ends
  <2> DEFINE g == [n \in 0..0 |-> NoItems]
  <2>1. g = [n \in 0..0 |-> FundStep(sheets, g, n)]
    BY DEF FundStep
  <2>2. QED BY <2>1
<1>2. ASSUME NEW k \in Ends PROVE k + 1 \in Ends
  <2>1. PICK g : g = [n \in 0..k |-> FundStep(sheets, g, n)]
    OBVIOUS
  <2> DEFINE h == [n \in 0..k + 1 |-> IF n <= k THEN g[n] ELSE FundStep(sheets, g, n)]
  <2>2. \A n \in 0..k + 1 : FundStep(sheets, h, n) = FundStep(sheets, g, n)
    <3>1. ASSUME NEW n \in 0..k + 1, n # 0 PROVE h[n - 1] = g[n - 1]
      BY <3>1
    <3> HIDE DEF h
    <3>2. QED BY <3>1 DEF FundStep
  <2>3. \A n \in 0..k + 1 : h[n] = FundStep(sheets, g, n)
    BY <2>1
  <2>4. h = [n \in 0..k + 1 |-> FundStep(sheets, h, n)]
    BY <2>2, <2>3
  <2> HIDE DEF h
  <2>5. QED BY <2>4
<1>3. Ends = Nat
  <2> HIDE DEF Ends
  <2>1. Ends \in SUBSET Nat
    BY DEF Ends
  <2>2. QED BY <1>1, <1>2, <2>1, NatSetInduction
<1>4. \E g : g = [n \in 0..Len(sheets) |-> FundStep(sheets, g, n)]
  BY <1>3
<1>5. QED BY <1>4 DEF FundBatches

\* Items for each table, in order.
IsBatch(batch) ==
  /\ batch = [t \in Tables |-> batch[t]]
  /\ \A t \in Tables : IsSequence(batch[t])

OnlyFlat(batch) == IsBatch(batch) /\ \A t \in Nested : batch[t] = << >>

\* A sheet of the account workbook is read into one flat table.
LEMMA FundReadIsSequence ==
  ASSUME NEW s, s.title \in FundTitles, IsSequence(s.rows), ~Failed(FundRead(s))
  PROVE  IsSequence(FundRead(s)) /\ FundTable[s.title] \in Tables \ Nested
<1>1. CASE s.title = "chargebacks"
  BY <1>1, ChargebackIsSequence DEF FundRead, FundTable, Tables, Flat, Nested
<1>2. CASE s.title = "violations1"
  BY <1>2, ViolationIsSequence DEF FundRead, FundTable, Tables, Flat, Nested
<1>3. CASE s.title = "violations2"
  BY <1>3, ViolationIsSequence DEF FundRead, FundTable, Tables, Flat, Nested
<1>4. CASE s.title = "platform"
  BY <1>4, PlatformIsSequence DEF FundRead, FundTable, Tables, Flat, Nested
<1>5. CASE s.title = "disposals"
  BY <1>5, DisposalIsSequence DEF FundRead, FundTable, Tables, Flat, Nested
<1>6. CASE s.title = "settled"
  BY <1>6, FlowIsSequence DEF FundRead, FundTable, Tables, Flat, Nested
<1>7. QED BY <1>1, <1>2, <1>3, <1>4, <1>5, <1>6 DEF FundTitles

\* An empty batch has no orders.
LEMMA NoItemsAreFlat == OnlyFlat(NoItems)
<1> DEFINE b == NoItems
<1>1. \A t \in Tables : b[t] = << >>
  BY DEF NoItems
<1>2. b = [t \in Tables |-> b[t]]
  BY DEF NoItems
<1> HIDE DEF b
<1>3. \A t \in Tables : IsSequence(b[t])
  BY <1>1, EmptySequence, Zenon
<1>4. \A t \in Nested : b[t] = << >>
  BY <1>1 DEF Tables
<1>5. OnlyFlat(b)
  BY <1>2, <1>3, <1>4, Zenon DEF OnlyFlat, IsBatch
<1>6. QED BY <1>5 DEF b

\* Nor has one with more items for a flat table.
LEMMA FlatGrows ==
  ASSUME NEW batch, OnlyFlat(batch), NEW t \in Tables \ Nested, NEW items, IsSequence(items)
  PROVE  OnlyFlat([batch EXCEPT ![t] = @ \o items])
<1> DEFINE all == batch[t] \o items
<1> DEFINE more == [batch EXCEPT ![t] = all]
<1>1. IsSequence(all)
  BY SequencesJoined DEF OnlyFlat, IsBatch
<1> HIDE DEF all
<1>2. /\ more = [x \in Tables |-> more[x]]
      /\ \A x \in Tables : more[x] = IF x = t THEN all ELSE batch[x]
  BY DEF OnlyFlat, IsBatch
<1> HIDE DEF more
<1>3. OnlyFlat(more)
  BY <1>1, <1>2 DEF OnlyFlat, IsBatch, Tables
<1>4. QED BY <1>3 DEF more, all

\* parseFundDetailWorkbook returns no orders.
LEMMA FundIsFlat ==
  ASSUME NEW sheets, IsSequence(sheets), \A i \in DOMAIN sheets : IsSequence(sheets[i].rows),
         ~Failed(FundItems(sheets))
  PROVE  OnlyFlat(FundItems(sheets))
<1> DEFINE b == FundBatches(sheets)
<1>1. Len(sheets) \in Nat /\ DOMAIN sheets = 1..Len(sheets)
  BY SequenceHas
<1>2. b = [n \in 0..Len(sheets) |-> FundStep(sheets, b, n)]
  BY <1>1, FundBatchesExist
<1>3. /\ FundItems(sheets) = b[Len(sheets)]
      /\ \A i \in FundKnown(sheets) : ~Failed(FundRead(sheets[i]))
  <2> HIDE DEF b
  <2>1. QED BY FundIsBatches DEF Failed, b
<1> HIDE DEF b
<1> DEFINE N == {n \in Nat : n <= Len(sheets) => OnlyFlat(b[n])}
<1>4. 0 \in N
  <2>1. b[0] = NoItems
    BY <1>1, <1>2 DEF FundStep
  <2>2. QED BY <2>1, NoItemsAreFlat
<1>5. ASSUME NEW n \in N PROVE n + 1 \in N
  <2>1. SUFFICES ASSUME n + 1 <= Len(sheets) PROVE OnlyFlat(b[n + 1])
    OBVIOUS
  <2>2. OnlyFlat(b[n]) /\ n + 1 \in DOMAIN sheets /\ n + 1 \in 0..Len(sheets) /\ n + 1 # 0
        /\ (n + 1) - 1 = n
    BY <1>1, <2>1
  <2> DEFINE s == sheets[n + 1]
  <2> DEFINE at == n + 1
  <2>3. b[at] = IF at \in FundKnown(sheets)
                  THEN [b[n] EXCEPT ![FundTable[s.title]] = @ \o FundRead(s)] ELSE b[n]
    BY <1>2, <2>2 DEF FundStep
  <2>4. CASE at \in FundKnown(sheets)
    <3>1. s.title \in FundTitles /\ IsSequence(s.rows) /\ ~Failed(FundRead(s))
      BY <1>3, <2>2, <2>4 DEF FundKnown
    <3> HIDE DEF s, at
    <3>2. IsSequence(FundRead(s)) /\ FundTable[s.title] \in Tables \ Nested
      BY <3>1, FundReadIsSequence
    <3>3. OnlyFlat([b[n] EXCEPT ![FundTable[s.title]] = @ \o FundRead(s)])
      BY <2>2, <3>2, FlatGrows
    <3>4. QED BY <2>3, <2>4, <3>3 DEF at
  <2>5. CASE at \notin FundKnown(sheets)
    BY <2>2, <2>3, <2>5
  <2>6. QED BY <2>4, <2>5
<1>6. N = Nat
  <2> HIDE DEF N
  <2>1. N \in SUBSET Nat
    BY DEF N
  <2>2. QED BY <1>4, <1>5, <2>1, NatSetInduction
<1>7. Len(sheets) \in N
  <2> HIDE DEF N
  <2>1. QED BY <1>1, <1>6
<1>8. QED BY <1>1, <1>3, <1>7

----------------------------------------------------------------------------
(* Orders with their SKUs in merged cells *)

\* What is chosen is at the places that are chosen.
LEMMA ChosenFrom ==
  ASSUME NEW S, NEW seq \in Seq(S), NEW places
  PROVE  Chosen(seq, places) \in Seq({seq[i] : i \in places \cap (1..Len(seq))})
<1> DEFINE T == {seq[i] : i \in places \cap (1..Len(seq))}
<1>1. Len(seq) \in Nat
  OBVIOUS
<1>2. PICK kept : Takes(kept, seq, places) /\ Chosen(seq, places) = kept[Len(seq)]
  BY <1>1, ChosenTakes
<1> DEFINE N == {n \in Nat : n <= Len(seq) => kept[n] \in Seq(T)}
<1>3. 0 \in N
  <2>1. << >> \in Seq(T) /\ 0 \in Nat
    OBVIOUS
  <2>2. kept[0] = << >>
    BY <1>2 DEF Takes
  <2>3. QED BY <2>1, <2>2, Zenon
<1>4. ASSUME NEW n \in N PROVE n + 1 \in N
  <2>1. SUFFICES ASSUME n + 1 <= Len(seq) PROVE kept[n + 1] \in Seq(T)
    OBVIOUS
  <2>2. n \in 0..Len(seq) - 1 /\ n + 1 \in 1..Len(seq) /\ kept[n] \in Seq(T)
    BY <1>1, <2>1
  <2>3. kept[n + 1] = IF n + 1 \in places THEN Append(kept[n], seq[n + 1]) ELSE kept[n]
    BY <1>2, <2>2 DEF Takes
  <2>4. n + 1 \in places => seq[n + 1] \in T
    BY <2>2
  <2> HIDE DEF T
  <2>5. QED BY <2>2, <2>3, <2>4
<1>5. N = Nat
  <2> HIDE DEF N
  <2>1. N \in SUBSET Nat
    BY DEF N
  <2>2. QED BY <1>3, <1>4, <2>1, NatSetInduction
<1>6. Len(seq) \in N
  <2> HIDE DEF N
  <2>1. QED BY <1>1, <1>5
<1>7. QED BY <1>1, <1>2, <1>6

\* The rows that begin an order, among the first n, and where each ends.
Places(rows) == [i \in DOMAIN rows |-> i]
Begins(sheet) == {i \in Filled(sheet) : sheet.rows[i].po # ""}
Names(sheet) == {i \in Filled(sheet) : sheet.rows[i].sku # ""}
StartsOf(sheet, n) == Chosen(Places(sheet.rows), Begins(sheet) \cap (1..n))
EndOf(starts, n, k) == IF k = Len(starts) THEN n ELSE starts[k + 1] - 1
NamedBy(sheet, starts, n, k) ==
  Chosen(sheet.rows, Names(sheet) \cap (starts[k]..EndOf(starts, n, k)))
SkusOf(rows) == [i \in DOMAIN rows |-> rows[i].sku]
Block(sheet, starts, n, k) ==
  [ key |-> <<sheet.rows[starts[k]].po>>, value |-> <<sheet.rows[starts[k]].amount>>,
    lines |-> SkusOf(NamedBy(sheet, starts, n, k)) ]

\* The orders of the first n rows.
BlocksTo(sheet, n) ==
  [k \in DOMAIN StartsOf(sheet, n) |-> Block(sheet, StartsOf(sheet, n), n, k)]

\* The blocks of a sheet are those of all of its rows.
LEMMA BlocksAreAll ==
  ASSUME NEW sheet, IsSequence(sheet.rows)
  PROVE  Blocks(sheet) = BlocksTo(sheet, Len(sheet.rows))
<1> DEFINE rows == sheet.rows
<1>1. Len(rows) \in Nat /\ DOMAIN rows = 1..Len(rows)
  BY SequenceHas
<1>2. {i \in Filled(sheet) : rows[i].po # ""} = Begins(sheet) \cap (1..Len(rows))
  <2>1. Filled(sheet) \subseteq 1..Len(rows)
    BY <1>1 DEF Filled
  <2>2. QED BY <2>1 DEF Begins
<1>3. \A S : {i \in Filled(sheet) : i \in S /\ rows[i].sku # ""} = Names(sheet) \cap S
  BY DEF Names
<1> DEFINE starts == StartsOf(sheet, Len(rows))
<1>4. Blocks(sheet) =
        [k \in DOMAIN starts |->
           LET named == Chosen(rows, {i \in Filled(sheet) :
                          i \in starts[k]..EndOf(starts, Len(rows), k) /\ rows[i].sku # ""})
           IN  [ key |-> <<rows[starts[k]].po>>, value |-> <<rows[starts[k]].amount>>,
                 lines |-> SkusOf(named) ]]
  BY <1>2 DEF Blocks, StartsOf, EndOf, SkusOf, Places
<1> HIDE DEF starts
<1>5. ASSUME NEW k
      PROVE  NamedBy(sheet, starts, Len(rows), k)
               = Chosen(rows, {i \in Filled(sheet) :
                          i \in starts[k]..EndOf(starts, Len(rows), k) /\ rows[i].sku # ""})
  <2> DEFINE S == starts[k]..EndOf(starts, Len(rows), k)
  <2>1. NamedBy(sheet, starts, Len(rows), k) = Chosen(rows, Names(sheet) \cap S)
    BY DEF NamedBy
  <2> HIDE DEF S
  <2>2. NamedBy(sheet, starts, Len(rows), k)
          = Chosen(rows, {i \in Filled(sheet) : i \in S /\ rows[i].sku # ""})
    BY <1>3, <2>1
  <2>3. QED BY <2>2 DEF S
<1>6. Blocks(sheet) = [k \in DOMAIN starts |-> Block(sheet, starts, Len(rows), k)]
  BY <1>4, <1>5 DEF Block
<1>7. QED BY <1>6 DEF BlocksTo, starts

\* A sheet whose rows are in order, and how many there are.
LEMMA StartsType ==
  ASSUME NEW sheet, IsSequence(sheet.rows), NEW n \in 0..Len(sheet.rows)
  PROVE  /\ StartsOf(sheet, n) \in Seq(1..n)
         /\ Places(sheet.rows) \in Seq(1..Len(sheet.rows))
         /\ Len(Places(sheet.rows)) = Len(sheet.rows)
         /\ \A i \in 1..Len(sheet.rows) : Places(sheet.rows)[i] = i
         /\ Len(sheet.rows) \in Nat /\ DOMAIN sheet.rows = 1..Len(sheet.rows)
<1> DEFINE L == Len(sheet.rows)
<1> DEFINE p == Places(sheet.rows)
<1> DEFINE places == Begins(sheet) \cap (1..n)
<1>1. L \in Nat /\ DOMAIN sheet.rows = 1..L
  BY SequenceHas
<1> HIDE DEF L
<1>2. p = [i \in 1..L |-> i]
  BY <1>1 DEF Places
<1> HIDE DEF p
<1>3. p \in Seq(1..L) /\ Len(p) = L /\ \A i \in 1..L : p[i] = i
  BY <1>1, <1>2
<1>4. places \subseteq 1..n /\ n \in 0..L
  BY DEF L
<1> HIDE DEF places
<1>5. {p[i] : i \in places \cap (1..Len(p))} \subseteq 1..n
  BY <1>1, <1>3, <1>4
<1>6. \A A, B, x : A \subseteq B /\ x \in Seq(A) => x \in Seq(B)
  OBVIOUS
<1>7. Chosen(p, places) \in Seq({p[i] : i \in places \cap (1..Len(p))})
  BY <1>3, ChosenFrom
<1>8. Chosen(p, places) \in Seq(1..n)
  BY <1>5, <1>6, <1>7, Zenon
<1>9. QED BY <1>1, <1>3, <1>8 DEF StartsOf, p, L, places

IsList(s, n) == n \in Nat /\ s = [k \in 1..n |-> s[k]]
SameTo(s, p, n) == \A k \in 1..n : p[k] = s[k]

\* A list that goes on for one place more.
LEMMA OneMore ==
  ASSUME NEW n, NEW m, m = n + 1, NEW s, IsList(s, n), NEW p, IsList(p, m), SameTo(s, p, n)
  PROVE  p = Append(s, p[m])
<1> DEFINE x == p[m]
<1> DEFINE T == {s[k] : k \in 1..n} \cup {x}
<1>1. n \in Nat /\ s = [k \in 1..n |-> s[k]] /\ p = [k \in 1..m |-> p[k]]
      /\ \A k \in 1..n : p[k] = s[k]
  BY DEF IsList, SameTo
<1>2. s \in [1..n -> T] /\ p \in [1..m -> T] /\ x \in T
  <2>1. \A k \in 1..n : s[k] \in T
    OBVIOUS
  <2>2. \A k \in 1..m : k \in 1..n \/ k = m
    BY <1>1
  <2>3. x \in T
    OBVIOUS
  <2>4. \A k \in 1..m : p[k] \in T
    <3> HIDE DEF T
    <3>1. QED BY <1>1, <2>1, <2>2, <2>3
  <2> HIDE DEF T, x
  <2>5. QED BY <1>1, <2>1, <2>3, <2>4
<1> HIDE DEF T
<1>3. s \in Seq(T) /\ Len(s) = n /\ p \in Seq(T) /\ Len(p) = n + 1 /\ p[n + 1] = x
  BY <1>1, <1>2
<1> HIDE DEF x
<1>4. p = Append(s, x)
  BY <1>1, <1>2, <1>3, ExtendedFunction, Zenon
<1>5. QED BY <1>4 DEF x

\* Row n + 1 of a sheet comes.
NextRow(sheet, n) == IsSequence(sheet.rows) /\ n + 1 \in 1..Len(sheet.rows)
RowAfter(sheet, n) == sheet.rows[n + 1]

NoPo(row) == row.po = ""
NoSku(row) == row.sku = ""

\* The next row is within the sheet.
LEMMA RowIsThere ==
  ASSUME NEW sheet, NEW n \in Nat, NextRow(sheet, n)
  PROVE  /\ n \in 0..Len(sheet.rows) /\ n + 1 \in 0..Len(sheet.rows)
         /\ n \in 0..Len(sheet.rows) - 1 /\ n + 1 \in 1..Len(sheet.rows)
         /\ Len(sheet.rows) \in Nat
         /\ IsSequence(sheet.rows)
<1> DEFINE L == Len(sheet.rows)
<1>1. L \in Nat /\ n + 1 \in 1..L
  BY SequenceHas DEF NextRow
<1> HIDE DEF L
<1>2. n \in 0..L /\ n + 1 \in 0..L /\ n \in 0..L - 1
  BY <1>1
<1>3. QED BY <1>1, <1>2 DEF L, NextRow

\* The next row begins an order if it names a PO, and names a SKU if it has one.
LEMMA RowBegins ==
  ASSUME NEW sheet, NEW n \in Nat, NextRow(sheet, n)
  PROVE  /\ n + 1 \in Begins(sheet) <=> ~RowAfter(sheet, n).blank /\ ~NoPo(RowAfter(sheet, n))
         /\ n + 1 \in Names(sheet) <=> ~RowAfter(sheet, n).blank /\ ~NoSku(RowAfter(sheet, n))
<1>1. n + 1 \in DOMAIN sheet.rows
  BY SequenceHas DEF NextRow
<1> DEFINE i == n + 1
<1> HIDE DEF i
<1>2. /\ i \in Begins(sheet)
           <=> (i \in DOMAIN sheet.rows /\ ~sheet.rows[i].blank /\ ~NoPo(sheet.rows[i]))
      /\ i \in Names(sheet)
           <=> (i \in DOMAIN sheet.rows /\ ~sheet.rows[i].blank /\ ~NoSku(sheet.rows[i]))
  BY Zenon DEF Begins, Names, Filled, NoPo, NoSku
<1>3. QED BY <1>1, <1>2 DEF i, RowAfter

\* Between a place and the next one.
LEMMA OnePlaceMore ==
  ASSUME NEW B, NEW a \in Nat, NEW n \in Nat, NEW L \in Nat, n + 1 \in 1..L, a <= n + 1
  PROVE  /\ \A i \in 1..n : i \in B \cap (a..n + 1) <=> i \in B \cap (a..n)
         /\ n + 1 \in B \cap (a..n + 1) <=> n + 1 \in B
         /\ \A i \in (n + 1)..L : i \notin B \cap (a..n)
         /\ \A i \in (n + 2)..L : i \notin B \cap (a..n + 1)
         /\ n + 1 \notin B => B \cap (a..n + 1) = B \cap (a..n)
OBVIOUS

\* A place that is not chosen makes no difference.
LEMMA NoPlaceMore ==
  ASSUME NEW B, NEW a \in Nat, NEW n \in Nat, n + 1 \notin B
  PROVE  B \cap (a..n + 1) = B \cap (a..n)
<1>1. \A i \in a..n + 1 : i \in a..n \/ i = n + 1
  OBVIOUS
<1>2. \A i \in a..n : i \in a..n + 1
  OBVIOUS
<1>3. QED BY <1>1, <1>2

Between(B, a, n) == B \cap (a..n)

\* The next place is chosen.
LEMMA ChosenOneMore ==
  ASSUME NEW seq, Len(seq) \in Nat, NEW B, NEW a \in Nat, NEW n \in Nat,
         NEW m \in 1..Len(seq), m = n + 1, a <= m, m \in B
  PROVE  Chosen(seq, Between(B, a, m)) = Append(Chosen(seq, Between(B, a, n)), seq[m])
<1> DEFINE one == B \cap (a..n)
<1> DEFINE two == B \cap (a..n + 1)
<1>1. /\ \A i \in 1..n : i \in two <=> i \in one
      /\ n + 1 \in two
      /\ \A i \in (n + 1)..Len(seq) : i \notin one
      /\ \A i \in (n + 2)..Len(seq) : i \notin two
  BY OnePlaceMore
<1> HIDE DEF one, two
<1>2. n \in 0..Len(seq) - 1
  OBVIOUS
<1>3. Chosen(seq, two) = Append(Chosen(seq, one), seq[n + 1])
  BY <1>1, <1>2, ChosenGrows
<1>4. QED BY <1>3 DEF one, two, Between

\* A row without a PO begins no order.
LEMMA StartsStay ==
  ASSUME NEW sheet, NEW n \in Nat, NextRow(sheet, n),
         RowAfter(sheet, n).blank \/ NoPo(RowAfter(sheet, n))
  PROVE  StartsOf(sheet, n + 1) = StartsOf(sheet, n)
<1>1. n + 1 \notin Begins(sheet)
  BY RowBegins
<1>2. Begins(sheet) \cap (1..n + 1) = Begins(sheet) \cap (1..n)
  <2>1. 1 \in Nat
    OBVIOUS
  <2>2. QED BY <1>1, <2>1, NoPlaceMore
<1>3. QED BY <1>2 DEF StartsOf

\* A row with a PO begins one.
LEMMA StartsGrow ==
  ASSUME NEW sheet, NEW n \in Nat, NextRow(sheet, n),
         ~RowAfter(sheet, n).blank, ~NoPo(RowAfter(sheet, n))
  PROVE  StartsOf(sheet, n + 1) = Append(StartsOf(sheet, n), n + 1)
<1> DEFINE p == Places(sheet.rows)
<1> DEFINE B == Begins(sheet)
<1>1. n + 1 \in B
  BY RowBegins
<1>2. n \in 0..Len(sheet.rows) /\ IsSequence(sheet.rows) /\ n + 1 \in 1..Len(sheet.rows)
  BY RowIsThere
<1>3. Len(p) = Len(sheet.rows) /\ Len(p) \in Nat /\ p[n + 1] = n + 1
  BY <1>2, StartsType
<1> HIDE DEF p, B
<1> DEFINE m == n + 1
<1>4. 1 \in Nat /\ m \in 1..Len(p) /\ 1 <= m /\ m \in B /\ m = n + 1
  BY <1>1, <1>2, <1>3
<1> HIDE DEF m
<1>5. Chosen(p, Between(B, 1, m)) = Append(Chosen(p, Between(B, 1, n)), p[m])
  BY <1>3, <1>4, ChosenOneMore
<1>6. QED BY <1>3, <1>5 DEF StartsOf, p, B, m, Between

\* The orders of the first n rows, one for each start.
LEMMA BlocksAre ==
  ASSUME NEW sheet, IsSequence(sheet.rows), NEW n \in 0..Len(sheet.rows),
         NEW starts, starts = StartsOf(sheet, n)
  PROVE  /\ starts \in Seq(1..n) /\ Len(starts) \in Nat /\ DOMAIN starts = 1..Len(starts)
         /\ BlocksTo(sheet, n) = [k \in 1..Len(starts) |-> Block(sheet, starts, n, k)]
         /\ \A k \in 1..Len(starts) : starts[k] \in 1..n
<1>1. starts \in Seq(1..n)
  BY StartsType
<1>2. QED BY <1>1 DEF BlocksTo

\* The blocks of the first rows, one for each start.
LEMMA BlocksHave ==
  ASSUME NEW sheet, IsSequence(sheet.rows), NEW n \in 0..Len(sheet.rows),
         NEW starts, starts = StartsOf(sheet, n)
  PROVE  BlocksTo(sheet, n) = [k \in 1..Len(starts) |-> Block(sheet, starts, n, k)]
BY BlocksAre

\* An order that has ended does not change.
LEMMA EndedStays ==
  ASSUME NEW sheet, NEW starts, NEW n, NEW k, k # Len(starts)
  PROVE  Block(sheet, starts, n + 1, k) = Block(sheet, starts, n, k)
BY DEF Block, NamedBy, EndOf

\* A blank row changes nothing.
LEMMA BlocksStay ==
  ASSUME NEW sheet, NEW n \in Nat, NextRow(sheet, n), RowAfter(sheet, n).blank
  PROVE  BlocksTo(sheet, n + 1) = BlocksTo(sheet, n)
<1> DEFINE s == StartsOf(sheet, n)
<1>1. n \in 0..Len(sheet.rows) /\ n + 1 \in 0..Len(sheet.rows) /\ IsSequence(sheet.rows)
  BY RowIsThere
<1>2. s = StartsOf(sheet, n + 1) /\ n + 1 \notin Names(sheet)
  BY StartsStay, RowBegins
<1>3. /\ BlocksTo(sheet, n) = [k \in 1..Len(s) |-> Block(sheet, s, n, k)]
      /\ Len(s) \in Nat
      /\ \A k \in 1..Len(s) : s[k] \in 1..n
  BY <1>1, BlocksAre
<1> HIDE DEF s
<1>4. BlocksTo(sheet, n + 1) = [k \in 1..Len(s) |-> Block(sheet, s, n + 1, k)]
  BY <1>1, <1>2, BlocksHave
<1>5. ASSUME NEW k \in 1..Len(s) PROVE Block(sheet, s, n + 1, k) = Block(sheet, s, n, k)
  <2>1. CASE k # Len(s)
    BY <2>1, EndedStays
  <2>2. CASE k = Len(s)
    <3>1. EndOf(s, n, k) = n /\ EndOf(s, n + 1, k) = n + 1
      BY <2>2 DEF EndOf
    <3>2. s[k] \in Nat /\ s[k] <= n + 1
      BY <1>3
    <3> DEFINE a == s[k]
    <3> DEFINE B == Names(sheet)
    <3> HIDE DEF a, B
    <3>3. a \in Nat /\ a <= n + 1 /\ n + 1 \notin B
      BY <1>2, <3>2 DEF a, B
    <3>4. B \cap (a..n + 1) = B \cap (a..n)
      BY <3>3, NoPlaceMore
    <3>5. NamedBy(sheet, s, n + 1, k) = NamedBy(sheet, s, n, k)
      BY <3>1, <3>4 DEF NamedBy, a, B
    <3>6. QED BY <3>5 DEF Block
  <2>3. QED BY <2>1, <2>2
<1>6. QED BY <1>3, <1>4, <1>5

\* A list that is not empty has a place.
LEMMA NotEmpty ==
  ASSUME NEW n \in Nat, NEW b, b = [k \in 1..n |-> b[k]], b # << >>
  PROVE  Len(b) = n /\ n # 0
<1> DEFINE T == {b[k] : k \in 1..n}
<1>1. b \in [1..n -> T]
  OBVIOUS
<1> HIDE DEF T
<1>2. b \in Seq(T) /\ Len(b) = n
  BY <1>1
<1>3. QED BY <1>2

\* A row without a PO adds its SKU to the last order.
LEMMA BlocksContinue ==
  ASSUME NEW sheet, NEW n \in Nat, NextRow(sheet, n), ~RowAfter(sheet, n).blank,
         NoPo(RowAfter(sheet, n)), ~NoSku(RowAfter(sheet, n)), BlocksTo(sheet, n) # << >>
  PROVE  BlocksTo(sheet, n + 1) =
           [BlocksTo(sheet, n) EXCEPT
              ![Len(BlocksTo(sheet, n))].lines = Append(@, RowAfter(sheet, n).sku)]
<1> DEFINE s == StartsOf(sheet, n)
<1> DEFINE L == Len(s)
<1> DEFINE r == RowAfter(sheet, n)
<1> DEFINE a == NamedBy(sheet, s, n, L)
<1>1. n \in 0..Len(sheet.rows) /\ n + 1 \in 0..Len(sheet.rows) /\ IsSequence(sheet.rows)
      /\ n + 1 \in 1..Len(sheet.rows) /\ Len(sheet.rows) \in Nat
  BY RowIsThere
<1>2. s = StartsOf(sheet, n + 1) /\ n + 1 \in Names(sheet)
  BY StartsStay, RowBegins
<1>3. /\ BlocksTo(sheet, n) = [k \in 1..L |-> Block(sheet, s, n, k)]
      /\ L \in Nat
      /\ \A k \in 1..L : s[k] \in 1..n
  BY <1>1, BlocksAre
<1> HIDE DEF s
<1>4. BlocksTo(sheet, n + 1) = [k \in 1..L |-> Block(sheet, s, n + 1, k)]
  BY <1>1, <1>2, BlocksHave
<1>5. L # 0 /\ L \in 1..L /\ Len(BlocksTo(sheet, n)) = L
  <2> DEFINE b == BlocksTo(sheet, n)
  <2> HIDE DEF L
  <2>1. b = [k \in 1..L |-> b[k]]
    BY <1>3
  <2>2. b # << >> /\ L \in Nat
    BY <1>3
  <2> HIDE DEF b
  <2>3. Len(b) = L /\ L # 0
    BY <2>1, <2>2, NotEmpty, Zenon
  <2>4. L \in 1..L
    BY <2>2, <2>3
  <2>5. QED BY <2>3, <2>4 DEF b
<1>6. NamedBy(sheet, s, n + 1, L) = Append(a, r)
  <2>1. EndOf(s, n, L) = n /\ EndOf(s, n + 1, L) = n + 1
    BY DEF EndOf
  <2> DEFINE at == s[L]
  <2> DEFINE B == Names(sheet)
  <2> DEFINE rows == sheet.rows
  <2>2. at \in Nat /\ at <= n + 1
    BY <1>3, <1>5
  <2> DEFINE m == n + 1
  <2>3. m \in 1..Len(rows) /\ Len(rows) \in Nat /\ m \in B /\ m = n + 1
    BY <1>1, <1>2
  <2> HIDE DEF at, B, rows, L, m
  <2>4. Chosen(rows, Between(B, at, m)) = Append(Chosen(rows, Between(B, at, n)), rows[m])
    BY <2>2, <2>3, ChosenOneMore
  <2>5. QED BY <2>1, <2>3, <2>4 DEF NamedBy, at, B, rows, RowAfter, Between
<1>7. a \in Seq(Range(sheet.rows)) /\ r \in Range(sheet.rows)
  <2> DEFINE rows == sheet.rows
  <2> DEFINE places == Names(sheet) \cap (s[L]..EndOf(s, n, L))
  <2> HIDE DEF L, rows, places
  <2>1. rows \in Seq(Range(rows)) /\ n + 1 \in 1..Len(rows)
    BY <1>1 DEF rows, IsSequence
  <2>2. Chosen(rows, places) \in Seq(Range(rows))
    BY <2>1, ChosenType
  <2>3. rows[n + 1] \in Range(rows)
    BY <2>1
  <2>4. QED BY <2>2, <2>3 DEF rows, places, NamedBy, RowAfter
<1> HIDE DEF a, r
<1>8. SkusOf(Append(a, r)) = Append(SkusOf(a), r.sku)
  <2> DEFINE R == Range(sheet.rows)
  <2> DEFINE more == Append(a, r)
  <2> HIDE DEF R
  <2>1. /\ Len(a) \in Nat /\ DOMAIN a = 1..Len(a) /\ DOMAIN more = 1..Len(a) + 1
        /\ more[Len(a) + 1] = r /\ \A i \in 1..Len(a) : more[i] = a[i]
    BY <1>7
  <2> HIDE DEF more
  <2> DEFINE f == SkusOf(a)
  <2> DEFINE g == SkusOf(more)
  <2> DEFINE n1 == Len(a)
  <2> DEFINE n2 == Len(a) + 1
  <2>2. f = [i \in 1..n1 |-> a[i].sku] /\ g = [i \in 1..n2 |-> more[i].sku] /\ n2 \in 1..n2
    BY <2>1 DEF SkusOf
  <2>3. n1 \in Nat /\ n2 \in Nat /\ n2 = n1 + 1 /\ more[n2] = r
        /\ \A i \in 1..n1 : i \in 1..n2 /\ more[i] = a[i]
    BY <2>1
  <2> HIDE DEF f, g, n1, n2
  <2>4. IsList(f, n1) /\ IsList(g, n2) /\ SameTo(f, g, n1) /\ g[n2] = r.sku
    BY <2>2, <2>3 DEF IsList, SameTo
  <2>5. g = Append(f, g[n2])
    BY <2>3, <2>4, OneMore
  <2>6. QED BY <2>4, <2>5 DEF f, g, more
<1>9. Block(sheet, s, n + 1, L)
        = [Block(sheet, s, n, L) EXCEPT !.lines = Append(@, r.sku)]
  <2> DEFINE K == <<sheet.rows[s[L]].po>>
  <2> DEFINE V == <<sheet.rows[s[L]].amount>>
  <2> DEFINE X == SkusOf(a)
  <2>1. Block(sheet, s, n, L) = [key |-> K, value |-> V, lines |-> X]
    BY DEF Block, a
  <2>2. Block(sheet, s, n + 1, L) = [key |-> K, value |-> V, lines |-> Append(X, r.sku)]
    BY <1>6, <1>8 DEF Block
  <2> HIDE DEF K, V, X, L
  <2>3. QED BY <2>1, <2>2
<1> HIDE DEF L
<1>10. \A k \in 1..L : k # L => Block(sheet, s, n + 1, k) = Block(sheet, s, n, k)
  BY EndedStays DEF L
<1> DEFINE b1 == BlocksTo(sheet, n)
<1> DEFINE b2 == BlocksTo(sheet, n + 1)
<1>11. /\ b1 = [k \in 1..L |-> b1[k]] /\ b2 = [k \in 1..L |-> b2[k]]
       /\ \A k \in 1..L : k # L => b2[k] = b1[k]
       /\ b2[L] = [b1[L] EXCEPT !.lines = Append(@, r.sku)]
  <2> HIDE DEF r
  <2>1. b1 = [k \in 1..L |-> b1[k]]
    BY <1>3
  <2>2. b2 = [k \in 1..L |-> b2[k]]
    BY <1>4
  <2>3. \A k \in 1..L : b1[k] = Block(sheet, s, n, k)
    BY <1>3
  <2>4. \A k \in 1..L : b2[k] = Block(sheet, s, n + 1, k)
    BY <1>4
  <2> HIDE DEF b1, b2
  <2>5. \A k \in 1..L : k # L => b2[k] = b1[k]
    BY <2>3, <2>4, <1>10
  <2>6. b1[L] = Block(sheet, s, n, L) /\ b2[L] = Block(sheet, s, n + 1, L)
    BY <1>5, <2>3, <2>4
  <2>7. b2[L] = [b1[L] EXCEPT !.lines = Append(@, r.sku)]
    BY <1>9, <2>6, Zenon
  <2>8. QED BY <2>1, <2>2, <2>5, <2>7
<1>12. Len(b1) = L
  BY <1>5
<1> HIDE DEF b1, b2
<1>13. b2 = [b1 EXCEPT ![L] = [b1[L] EXCEPT !.lines = Append(@, r.sku)]]
  BY <1>5, <1>11
<1>14. [b1 EXCEPT ![L].lines = Append(@, r.sku)]
         = [b1 EXCEPT ![L] = [b1[L] EXCEPT !.lines = Append(@, r.sku)]]
  OBVIOUS
<1>15. b2 = [b1 EXCEPT ![Len(b1)].lines = Append(@, r.sku)]
  BY <1>12, <1>13, <1>14
<1>16. QED BY <1>15 DEF b1, b2, r

\* A row with a PO begins an order with the SKU it names.
LEMMA BlocksBegin ==
  ASSUME NEW sheet, NEW n \in Nat, NextRow(sheet, n), ~RowAfter(sheet, n).blank,
         ~NoPo(RowAfter(sheet, n))
  PROVE  BlocksTo(sheet, n + 1) =
           Append(BlocksTo(sheet, n),
                  [ key |-> <<RowAfter(sheet, n).po>>, value |-> <<RowAfter(sheet, n).amount>>,
                    lines |-> IF NoSku(RowAfter(sheet, n)) THEN << >>
                              ELSE <<RowAfter(sheet, n).sku>> ])
<1> DEFINE s == StartsOf(sheet, n)
<1> DEFINE z == StartsOf(sheet, n + 1)
<1> DEFINE L == Len(s)
<1> DEFINE r == RowAfter(sheet, n)
<1> DEFINE m == n + 1
<1>1. n \in 0..Len(sheet.rows) /\ m \in 0..Len(sheet.rows) /\ IsSequence(sheet.rows)
      /\ m \in 1..Len(sheet.rows) /\ Len(sheet.rows) \in Nat /\ m = n + 1
  BY RowIsThere
<1>2. z = Append(s, n + 1)
  BY StartsGrow
<1>3. /\ BlocksTo(sheet, n) = [k \in 1..L |-> Block(sheet, s, n, k)]
      /\ s \in Seq(1..n) /\ L \in Nat
  BY <1>1, BlocksAre
<1>4. BlocksTo(sheet, m) = [k \in 1..Len(z) |-> Block(sheet, z, m, k)]
  <2> HIDE DEF m
  <2>1. z = StartsOf(sheet, m)
    BY DEF m
  <2> HIDE DEF z
  <2>2. QED BY <1>1, <2>1, BlocksHave
<1> HIDE DEF s, z
<1>5. Len(z) = L + 1 /\ z[L + 1] = n + 1 /\ \A k \in 1..L : z[k] = s[k]
  BY <1>2, <1>3
<1> DEFINE M == L + 1
<1>6. ASSUME NEW k \in 1..L PROVE Block(sheet, z, m, k) = Block(sheet, s, n, k)
  <2>1. z[k] = s[k]
    BY <1>5
  <2>2. EndOf(z, m, k) = EndOf(s, n, k)
    <3>1. CASE k = L
      <4>1. k # Len(z) /\ z[k + 1] - 1 = n
        BY <1>1, <1>3, <1>5, <3>1
      <4>2. EndOf(z, m, k) = z[k + 1] - 1 /\ EndOf(s, n, k) = n
        <5> HIDE DEF m
        <5>1. QED BY <3>1, <4>1 DEF EndOf
      <4>3. QED BY <4>1, <4>2
    <3>2. CASE k # L
      <4>1. k # Len(z) /\ z[k + 1] = s[k + 1]
        BY <1>3, <1>5, <3>2
      <4> HIDE DEF m
      <4>2. QED BY <3>2, <4>1 DEF EndOf
    <3>3. QED BY <3>1, <3>2
  <2>3. NamedBy(sheet, z, m, k) = NamedBy(sheet, s, n, k)
    BY <2>1, <2>2 DEF NamedBy
  <2>4. QED BY <2>1, <2>3 DEF Block
<1>7. SkusOf(NamedBy(sheet, z, m, M)) = IF NoSku(r) THEN << >> ELSE <<r.sku>>
  <2> DEFINE B == Names(sheet)
  <2> DEFINE rows == sheet.rows
  <2> DEFINE named == NamedBy(sheet, z, m, M)
  <2>1. z[M] = m /\ EndOf(z, m, M) = m
    <3>1. M = Len(z) /\ z[M] = n + 1
      BY <1>5
    <3> HIDE DEF M
    <3>2. QED BY <1>1, <3>1 DEF EndOf
  <2>2. named = Chosen(rows, Between(B, m, m))
    <3> HIDE DEF m, M
    <3>1. QED BY <2>1 DEF NamedBy, Between
  <2>3. m \in B <=> ~NoSku(r)
    BY RowBegins
  <2>4. n \in Nat /\ m \in Nat /\ m \in 1..Len(rows) /\ m = n + 1 /\ m <= m /\ Len(rows) \in Nat
    BY <1>1
  <2>5. r = rows[m]
    BY DEF RowAfter
  <2> HIDE DEF B, rows, r, named, m, M
  <2>6. CASE NoSku(r)
    <3>1. \A i \in 1..Len(rows) : i \notin Between(B, m, m)
      <4>1. \A i \in m..m : i = m
        BY <2>4
      <4>2. QED BY <2>3, <2>6, <4>1 DEF Between
    <3>2. named = << >>
      BY <2>2, <2>4, <3>1, ChosenNone
    <3>3. SkusOf(<< >>) = << >>
      BY DEF SkusOf
    <3>4. QED BY <2>6, <3>2, <3>3 DEF named
  <2>7. CASE ~NoSku(r)
    <3>1. Chosen(rows, Between(B, m, m)) = Append(Chosen(rows, Between(B, m, n)), rows[m])
      BY <2>3, <2>4, <2>7, ChosenOneMore
    <3>2. \A i \in 1..Len(rows) : i \notin Between(B, m, n)
      <4>1. \A i \in m..n : FALSE
        BY <2>4
      <4>2. QED BY <4>1 DEF Between
    <3>3. Chosen(rows, Between(B, m, n)) = << >>
      BY <2>4, <3>2, ChosenNone
    <3>4. named = <<r>>
      BY <2>2, <2>5, <3>1, <3>3
    <3>5. SkusOf(<<r>>) = <<r.sku>>
      BY DEF SkusOf
    <3>6. QED BY <2>7, <3>4, <3>5 DEF named
  <2>8. QED BY <2>6, <2>7
<1> DEFINE x == [ key |-> <<r.po>>, value |-> <<r.amount>>,
                  lines |-> IF NoSku(r) THEN << >> ELSE <<r.sku>> ]
<1>8. Block(sheet, z, m, M) = x
  <2>1. sheet.rows[z[M]] = r
    BY <1>5 DEF RowAfter
  <2> HIDE DEF m, M, r
  <2>2. QED BY <1>7, <2>1 DEF Block
<1> DEFINE b1 == BlocksTo(sheet, n)
<1> DEFINE b2 == BlocksTo(sheet, m)
<1>9. M = Len(z) /\ M = L + 1 /\ M \in 1..M /\ L \in Nat
  BY <1>3, <1>5
<1>10. \A k \in 1..L : k \in 1..M
  BY <1>3
<1> HIDE DEF m, M, x, L
<1>11. IsList(b1, L) /\ IsList(b2, M)
  <2>1. b1 = [k \in 1..L |-> b1[k]]
    BY <1>3
  <2>2. b2 = [k \in 1..M |-> b2[k]]
    BY <1>4, <1>9
  <2>3. L \in Nat /\ M \in Nat
    BY <1>9
  <2> HIDE DEF b1, b2
  <2>4. QED BY <2>1, <2>2, <2>3 DEF IsList
<1>12. \A k \in 1..L : b1[k] = Block(sheet, s, n, k)
  BY <1>3
<1>13. \A k \in 1..M : b2[k] = Block(sheet, z, m, k)
  BY <1>4, <1>9
<1> HIDE DEF b1, b2
<1>14. SameTo(b1, b2, L) /\ b2[M] = x
  BY <1>6, <1>8, <1>9, <1>10, <1>12, <1>13 DEF SameTo
<1>15. b2 = Append(b1, b2[M])
  BY <1>9, <1>11, <1>14, OneMore
<1>16. b2 = Append(b1, x)
  BY <1>14, <1>15
<1>17. QED BY <1>16 DEF b1, b2, x, m

\* One row of NestedItems.
OrderLine(r) == IF NoSku(r) THEN << >> ELSE <<r.sku>>
OrderBegun(items, r) ==
  Append(items, [key |-> <<r.po>>, value |-> <<r.amount>>, lines |-> OrderLine(r)])
OrderContinued(items, r) == [items EXCEPT ![Len(items)].lines = Append(@, r.sku)]
OrderRow(items, r) ==
  IF items = <<Bad>> \/ r.blank THEN items
  ELSE IF ~r.ok \/ (NoPo(r) /\ (items = << >> \/ NoSku(r))) THEN <<Bad>>
  ELSE IF ~NoPo(r) THEN OrderBegun(items, r) ELSE OrderContinued(items, r)

OrderStep(rows, items, n) == IF n = 0 THEN << >> ELSE OrderRow(items[n - 1], rows[n])
OrdersOf(rows) == CHOOSE items : items = [n \in 0..Len(rows) |-> OrderStep(rows, items, n)]

\* NestedItems is the last value of the function it defines.
LEMMA NestedIsOrders ==
  ASSUME NEW sheet
  PROVE  NestedItems(sheet) =
           IF sheet.heading # "orders" \/ OrdersOf(sheet.rows)[Len(sheet.rows)] = <<Bad>>
             THEN Bad ELSE OrdersOf(sheet.rows)[Len(sheet.rows)]
BY DEF NestedItems, OrdersOf, OrderStep, OrderRow, OrderBegun, OrderContinued, OrderLine,
       NoPo, NoSku

\* That function exists.
LEMMA OrdersExist ==
  ASSUME NEW rows, Len(rows) \in Nat
  PROVE  OrdersOf(rows) = [n \in 0..Len(rows) |-> OrderStep(rows, OrdersOf(rows), n)]
<1> DEFINE Ends == {k \in Nat : \E g : g = [n \in 0..k |-> OrderStep(rows, g, n)]}
<1>1. 0 \in Ends
  <2> DEFINE g == [n \in 0..0 |-> << >>]
  <2>1. g = [n \in 0..0 |-> OrderStep(rows, g, n)]
    BY DEF OrderStep
  <2>2. QED BY <2>1
<1>2. ASSUME NEW k \in Ends PROVE k + 1 \in Ends
  <2>1. PICK g : g = [n \in 0..k |-> OrderStep(rows, g, n)]
    OBVIOUS
  <2> DEFINE h == [n \in 0..k + 1 |-> IF n <= k THEN g[n] ELSE OrderStep(rows, g, n)]
  <2>2. \A n \in 0..k + 1 : OrderStep(rows, h, n) = OrderStep(rows, g, n)
    <3>1. ASSUME NEW n \in 0..k + 1, n # 0 PROVE h[n - 1] = g[n - 1]
      BY <3>1
    <3> HIDE DEF h
    <3>2. QED BY <3>1 DEF OrderStep
  <2>3. \A n \in 0..k + 1 : h[n] = OrderStep(rows, g, n)
    BY <2>1
  <2>4. h = [n \in 0..k + 1 |-> OrderStep(rows, h, n)]
    BY <2>2, <2>3
  <2> HIDE DEF h
  <2>5. QED BY <2>4
<1>3. Ends = Nat
  <2> HIDE DEF Ends
  <2>1. Ends \in SUBSET Nat
    BY DEF Ends
  <2>2. QED BY <1>1, <1>2, <2>1, NatSetInduction
<1>4. \E g : g = [n \in 0..Len(rows) |-> OrderStep(rows, g, n)]
  BY <1>3
<1>5. QED BY <1>4 DEF OrdersOf

\* A row does to the orders before it what it does to the blocks.
LEMMA RowContinuesBlocks ==
  ASSUME NEW sheet, NEW n \in Nat, NextRow(sheet, n)
  PROVE  OrderRow(BlocksTo(sheet, n), RowAfter(sheet, n)) \in {<<Bad>>, BlocksTo(sheet, n + 1)}
<1> DEFINE r == RowAfter(sheet, n)
<1> DEFINE b == BlocksTo(sheet, n)
<1> DEFINE more == BlocksTo(sheet, n + 1)
<1>1. r.blank => more = b
  BY BlocksStay
<1>2. ~r.blank /\ ~NoPo(r) => more = OrderBegun(b, r)
  BY BlocksBegin DEF OrderBegun, OrderLine
<1>3. ~r.blank /\ NoPo(r) /\ ~NoSku(r) /\ b # << >> => more = OrderContinued(b, r)
  BY BlocksContinue DEF OrderContinued
<1> HIDE DEF r, b, more
<1>4. OrderRow(b, r) \in {<<Bad>>, more}
  BY <1>1, <1>2, <1>3 DEF OrderRow
<1>5. QED BY <1>4 DEF r, b, more

\* No rows have no blocks.
LEMMA NoBlocks ==
  ASSUME NEW sheet, IsSequence(sheet.rows)
  PROVE  BlocksTo(sheet, 0) = << >>
<1> DEFINE p == Places(sheet.rows)
<1> DEFINE places == Begins(sheet) \cap (1..0)
<1>1. Len(sheet.rows) \in Nat
  BY SequenceHas
<1>2. 0 \in 0..Len(sheet.rows)
  BY <1>1
<1>3. Len(p) \in Nat
  BY <1>1, <1>2, StartsType
<1>4. \A i \in 1..Len(p) : i \notin places
  OBVIOUS
<1> HIDE DEF p, places
<1>5. Chosen(p, places) = << >>
  BY <1>3, <1>4, ChosenNone
<1>6. StartsOf(sheet, 0) = << >>
  BY <1>5 DEF StartsOf, p, places
<1>7. QED BY <1>6 DEF BlocksTo

\* The orders of a sheet that can be read are its blocks.
LEMMA NestedAreBlocks ==
  ASSUME NEW sheet, IsSequence(sheet.rows), ~Failed(NestedItems(sheet))
  PROVE  NestedItems(sheet) = Blocks(sheet) /\ IsSequence(NestedItems(sheet))
<1> DEFINE rows == sheet.rows
<1> DEFINE L == Len(rows)
<1> DEFINE f == OrdersOf(rows)
<1>1. L \in Nat
  BY SequenceHas
<1>2. f = [n \in 0..L |-> OrderStep(rows, f, n)]
  BY <1>1, OrdersExist
<1>3. NestedItems(sheet) = f[L] /\ f[L] # <<Bad>>
  <2> DEFINE orders == sheet.heading = "orders"
  <2>1. NestedItems(sheet) = IF ~orders \/ f[L] = <<Bad>> THEN Bad ELSE f[L]
    BY NestedIsOrders, Zenon
  <2> HIDE DEF orders, f, L
  <2>2. QED BY <2>1 DEF Failed
<1> DEFINE N == {n \in Nat : n <= L => f[n] \in {<<Bad>>, BlocksTo(sheet, n)}}
<1>4. 0 \in N
  <2>1. 0 \in 0..L
    BY <1>1
  <2> HIDE DEF f, L
  <2>2. f[0] = << >>
    BY <1>2, <2>1 DEF OrderStep
  <2>3. QED BY <2>2, NoBlocks
<1>5. ASSUME NEW n \in N PROVE n + 1 \in N
  <2> HIDE DEF f
  <2>1. SUFFICES ASSUME n + 1 <= L PROVE f[n + 1] \in {<<Bad>>, BlocksTo(sheet, n + 1)}
    OBVIOUS
  <2>2. n \in Nat /\ n <= L /\ n + 1 \in 0..L /\ n + 1 # 0 /\ (n + 1) - 1 = n /\ n + 1 \in 1..L
    BY <1>1, <2>1
  <2>3. f[n] \in {<<Bad>>, BlocksTo(sheet, n)}
    BY <2>2
  <2>4. f[n + 1] = OrderRow(f[n], rows[n + 1])
    <3> HIDE DEF L, rows
    <3>1. f[n + 1] = OrderStep(rows, f, n + 1)
      BY <1>2, <2>2
    <3>2. QED BY <2>2, <3>1 DEF OrderStep
  <2>5. NextRow(sheet, n) /\ rows[n + 1] = RowAfter(sheet, n)
    BY <2>2 DEF NextRow, RowAfter
  <2> DEFINE r == rows[n + 1]
  <2>6. OrderRow(BlocksTo(sheet, n), r) \in {<<Bad>>, BlocksTo(sheet, n + 1)}
    BY <2>2, <2>5, RowContinuesBlocks
  <2>7. OrderRow(<<Bad>>, r) = <<Bad>>
    BY DEF OrderRow
  <2> HIDE DEF r
  <2>8. QED BY <2>3, <2>4, <2>6, <2>7 DEF r
<1>6. N = Nat
  <2> HIDE DEF N
  <2>1. N \in SUBSET Nat
    BY DEF N
  <2>2. QED BY <1>4, <1>5, <2>1, NatSetInduction
<1>7. f[L] \in {<<Bad>>, BlocksTo(sheet, L)}
  <2>1. L \in N
    <3> HIDE DEF N
    <3>1. QED BY <1>1, <1>6
  <2> HIDE DEF f, L
  <2>2. QED BY <1>1, <2>1
<1>8. NestedItems(sheet) = Blocks(sheet)
  BY <1>3, <1>7, BlocksAreAll
<1>9. IsSequence(BlocksTo(sheet, L))
  <2> DEFINE s == StartsOf(sheet, L)
  <2> DEFINE b == BlocksTo(sheet, L)
  <2>1. L \in 0..L
    BY <1>1
  <2>2. s \in Seq(1..L)
    BY <2>1, StartsType
  <2>3. b = [k \in DOMAIN s |-> Block(sheet, s, L, k)]
    BY DEF BlocksTo
  <2> HIDE DEF s, b, L
  <2>4. IsSequence(s)
    BY <2>2, SequenceOf
  <2>5. Alongside(b, s)
    BY <2>3 DEF Alongside
  <2>6. IsSequence(b)
    BY <2>4, <2>5, AlongsideIsSequence
  <2>7. QED BY <2>6 DEF b
<1>10. QED BY <1>8, <1>9, BlocksAreAll

----------------------------------------------------------------------------
(* Files and uploads *)

\* A file whose sheets, and their rows, are in an order.
IsFile(entry) ==
  /\ IsSequence(entry.sheets)
  /\ \A j \in DOMAIN entry.sheets : IsSequence(entry.sheets[j].rows)

\* Orders are those of the first sheet.
WellRead(batch, entry) ==
  /\ IsBatch(batch)
  /\ \A t \in Nested : batch[t] # << >> => batch[t] = Blocks(entry.sheets[1])

\* Items for one table.
OnlyOf(table, items) ==
  IF Failed(items) THEN Bad ELSE [NoItems EXCEPT ![table] = items]

\* A batch of items for one table.
LEMMA OnlyIsWellRead ==
  ASSUME NEW entry, NEW table \in Tables, NEW items, ~Failed(OnlyOf(table, items)),
         ~Failed(items) => IsSequence(items),
         table \in Nested /\ ~Failed(items) => items = Blocks(entry.sheets[1])
  PROVE  WellRead(OnlyOf(table, items), entry)
<1> DEFINE b == OnlyOf(table, items)
<1>1. ~Failed(items) /\ b = [NoItems EXCEPT ![table] = items]
  BY DEF OnlyOf, Failed
<1> DEFINE blocks == Blocks(entry.sheets[1])
<1>2. table \in Nested => items = blocks
  BY <1>1
<1> HIDE DEF b, blocks
<1>3. /\ b = [t \in Tables |-> b[t]]
      /\ \A t \in Tables : b[t] = IF t = table THEN items ELSE << >>
  BY <1>1 DEF NoItems
<1>4. IsBatch(b)
  BY <1>1, <1>3, EmptySequence DEF IsBatch
<1>5. \A t \in Nested : b[t] # << >> => b[t] = blocks
  BY <1>2, <1>3 DEF Tables
<1>6. QED BY <1>4, <1>5 DEF WellRead, b, blocks

\* A batch without orders.
LEMMA FlatIsWellRead ==
  ASSUME NEW entry, NEW batch, OnlyFlat(batch)
  PROVE  WellRead(batch, entry)
BY DEF OnlyFlat, WellRead

\* What parseProfitWorkbook returns comes from one of its parsers.
LEMMA WorkbookIs ==
  ASSUME NEW hint, NEW entry, ~Failed(ParseWorkbook(hint, entry))
  PROVE  \E kind :
           LET b     == ParseWorkbook(hint, entry)
               first == entry.sheets[1]
           IN  \/ b = OnlyOf("shipping", ShippingItems(first, kind))
               \/ b = OnlyOf("return", ReturnItems(first, kind))
               \/ b = OnlyOf("flow", FlowItems(first))
               \/ kind \in Nested /\ b = OnlyOf(kind, NestedItems(first))
               \/ b = FundItems(entry.sheets)
<1> DEFINE kind == FileKind(hint, entry)
<1>1. entry.sheets # << >>
  BY DEF ParseWorkbook, Failed
<1> DEFINE first == entry.sheets[1]
<1> DEFINE b == ParseWorkbook(hint, entry)
<1>2. b = CASE kind \in {"posted", "pending"} -> OnlyOf("shipping", ShippingItems(first, kind))
            [] kind \in {"merchant", "third"} -> OnlyOf("return", ReturnItems(first, kind))
            [] kind = "flow"                  -> OnlyOf("flow", FlowItems(first))
            [] kind \in Nested                -> OnlyOf(kind, NestedItems(first))
            [] kind = "fund"                  -> FundItems(entry.sheets)
            [] OTHER                          -> Bad
  BY <1>1 DEF ParseWorkbook, OnlyOf
<1>3. b # Bad
  BY DEF Failed
<1> HIDE DEF kind, first, b
<1>4. \/ b = OnlyOf("shipping", ShippingItems(first, kind))
      \/ b = OnlyOf("return", ReturnItems(first, kind))
      \/ b = OnlyOf("flow", FlowItems(first))
      \/ kind \in Nested /\ b = OnlyOf(kind, NestedItems(first))
      \/ b = FundItems(entry.sheets)
  BY <1>2, <1>3
<1>5. QED BY <1>4 DEF b, first

\* A workbook that can be read is read well.
LEMMA WorkbookIsWellRead ==
  ASSUME NEW hint, NEW entry, IsFile(entry), ~Failed(ParseWorkbook(hint, entry))
  PROVE  WellRead(ParseWorkbook(hint, entry), entry)
<1> DEFINE first == entry.sheets[1]
<1> DEFINE b == ParseWorkbook(hint, entry)
<1>1. IsSequence(first.rows)
  <2>1. entry.sheets # << >>
    BY DEF ParseWorkbook, Failed
  <2> DEFINE s == entry.sheets
  <2>2. IsSequence(s) /\ s # << >>
    BY <2>1 DEF IsFile
  <2> HIDE DEF s
  <2>3. 1 \in DOMAIN s
    BY <2>2 DEF IsSequence
  <2>4. QED BY <2>3 DEF s, IsFile
<1>2. PICK kind :
        \/ b = OnlyOf("shipping", ShippingItems(first, kind))
        \/ b = OnlyOf("return", ReturnItems(first, kind))
        \/ b = OnlyOf("flow", FlowItems(first))
        \/ kind \in Nested /\ b = OnlyOf(kind, NestedItems(first))
        \/ b = FundItems(entry.sheets)
  BY WorkbookIs
<1>3. ~Failed(b)
  OBVIOUS
<1> HIDE DEF first, b
<1>4. "shipping" \in Tables \ Nested /\ "return" \in Tables \ Nested /\ "flow" \in Tables \ Nested
      /\ Nested \subseteq Tables
  BY DEF Tables, Flat, Nested
<1>5. CASE b = OnlyOf("shipping", ShippingItems(first, kind))
  <2> DEFINE items == ShippingItems(first, kind)
  <2>1. ~Failed(items) => IsSequence(items)
    BY <1>1, ShippingIsSequence
  <2> HIDE DEF items
  <2>2. WellRead(OnlyOf("shipping", items), entry)
    BY <1>3, <1>4, <1>5, <2>1, OnlyIsWellRead DEF items
  <2>3. QED BY <1>5, <2>2 DEF items, b
<1>6. CASE b = OnlyOf("return", ReturnItems(first, kind))
  <2> DEFINE items == ReturnItems(first, kind)
  <2>1. ~Failed(items) => IsSequence(items)
    BY <1>1, ReturnIsSequence
  <2> HIDE DEF items
  <2>2. WellRead(OnlyOf("return", items), entry)
    BY <1>3, <1>4, <1>6, <2>1, OnlyIsWellRead DEF items
  <2>3. QED BY <1>6, <2>2 DEF items, b
<1>7. CASE b = OnlyOf("flow", FlowItems(first))
  <2> DEFINE items == FlowItems(first)
  <2>1. ~Failed(items) => IsSequence(items)
    BY <1>1, FlowIsSequence
  <2> HIDE DEF items
  <2>2. WellRead(OnlyOf("flow", items), entry)
    BY <1>3, <1>4, <1>7, <2>1, OnlyIsWellRead DEF items
  <2>3. QED BY <1>7, <2>2 DEF items, b
<1>8. CASE kind \in Nested /\ b = OnlyOf(kind, NestedItems(first))
  <2> DEFINE items == NestedItems(first)
  <2>1. ~Failed(items) => IsSequence(items) /\ items = Blocks(entry.sheets[1])
    BY <1>1, NestedAreBlocks DEF first
  <2> HIDE DEF items
  <2>2. WellRead(OnlyOf(kind, items), entry)
    BY <1>3, <1>4, <1>8, <2>1, OnlyIsWellRead DEF items
  <2>3. QED BY <1>8, <2>2 DEF items, b
<1>9. CASE b = FundItems(entry.sheets)
  <2>1. OnlyFlat(b)
    BY <1>3, <1>9, FundIsFlat DEF IsFile
  <2>2. QED BY <2>1, FlatIsWellRead DEF b
<1>10. QED BY <1>2, <1>5, <1>6, <1>7, <1>8, <1>9

\* The files of an upload that are read.
FilesRead(u) ==
  IF SourceKind(Content[u]) = "zip" THEN SheetFiles(Content[u].entries)
  ELSE <<Content[u].entries[1]>>

\* Each file of an upload is read.
AllRead(batches, files) ==
  /\ IsSequence(batches)
  /\ \A f \in DOMAIN batches : WellRead(batches[f], files[f])

\* So is each of the files of an archive.
LEMMA ArchiveIsRead ==
  ASSUME NEW hint, NEW entries, IsSequence(entries),
         \A i \in DOMAIN entries : IsFile(entries[i]), ~Failed(ParseZip(hint, entries))
  PROVE  AllRead(ParseZip(hint, entries), SheetFiles(entries))
<1> DEFINE kept == SheetFiles(entries)
<1> DEFINE b == [i \in DOMAIN kept |-> ParseWorkbook(hint, kept[i])]
<1>1. ParseZip(hint, entries) = b /\ \A i \in DOMAIN b : ~Failed(b[i])
  <2>1. ParseZip(hint, entries) =
          IF kept = << >> \/ \E i \in DOMAIN b : Failed(b[i]) THEN Bad ELSE b
    BY DEF ParseZip
  <2> HIDE DEF b, kept
  <2>2. QED BY <2>1 DEF Failed
<1> DEFINE S == {e \in Range(entries) : IsFile(e)}
<1>2. kept \in Seq(S)
  <2>1. entries \in Seq(Range(entries)) /\ \A e \in Range(entries) : IsFile(e)
    BY DEF IsSequence, Range
  <2>2. S = Range(entries)
    BY <2>1
  <2> HIDE DEF S
  <2>3. entries \in Seq(S)
    BY <2>1, <2>2
  <2>4. QED BY <2>3, ChosenType DEF SheetFiles
<1>3. \A i \in DOMAIN kept : IsFile(kept[i])
  <2>1. \A e \in S : IsFile(e)
    OBVIOUS
  <2> HIDE DEF S, kept
  <2>2. \A i \in DOMAIN kept : kept[i] \in S
    BY <1>2
  <2>3. QED BY <2>1, <2>2
<1>4. IsSequence(b)
  <2> HIDE DEF kept, S
  <2>1. IsSequence(kept)
    BY <1>2, SequenceOf
  <2>2. Alongside(b, kept)
    BY DEF Alongside
  <2> HIDE DEF b
  <2>3. QED BY <2>1, <2>2, AlongsideIsSequence
<1>5. ASSUME NEW i \in DOMAIN b PROVE WellRead(b[i], kept[i])
  <2> HIDE DEF kept
  <2>1. i \in DOMAIN kept /\ b[i] = ParseWorkbook(hint, kept[i]) /\ ~Failed(b[i])
    BY <1>1, <1>5
  <2> HIDE DEF b
  <2>2. IsFile(kept[i]) /\ ~Failed(ParseWorkbook(hint, kept[i]))
    BY <1>3, <2>1
  <2>3. QED BY <2>1, <2>2, WorkbookIsWellRead
<1> HIDE DEF b, kept
<1>6. AllRead(b, kept)
  BY <1>4, <1>5 DEF AllRead
<1>7. QED BY <1>1, <1>6 DEF kept

\* An archive that cannot be opened has no files, and fails.
LEMMA NoArchive ==
  ASSUME NEW hint
  PROVE  Failed(ParseZip(hint, << >>))
<1> DEFINE none == << >>
<1> DEFINE places == {i \in DOMAIN none : none[i].path = "sheet"}
<1>1. Len(none) \in Nat /\ \A i \in 1..Len(none) : i \notin places
  OBVIOUS
<1> HIDE DEF places
<1>2. Chosen(none, places) = << >>
  BY <1>1, ChosenNone
<1>3. SheetFiles(<< >>) = << >>
  BY <1>2 DEF SheetFiles, places
<1>4. QED BY <1>3 DEF ParseZip, Failed

\* An upload that can be read is read well, file by file.
LEMMA UploadIsRead ==
  ASSUME NEW u \in Upload, ~Failed(Parsed[u])
  PROVE  AllRead(Parsed[u], FilesRead(u))
<1> DEFINE c == Content[u]
<1> DEFINE e == c.entries
<1>1. /\ IsSequence(e)
      /\ c.content = "workbook" => e # << >>
      /\ \A i \in DOMAIN e : IsFile(e[i])
  BY ContentAssumption DEF IsFile
<1>2. Parsed[u] = ParseUpload(c)
  BY DEF Parsed
<1> HIDE DEF c
<1>3. CASE SourceKind(c) = "zip"
  <2>1. ParseUpload(c) = ParseZip(c.hint, IF c.content = "archive" THEN e ELSE << >>)
    BY <1>3 DEF ParseUpload
  <2>2. c.content = "archive"
    BY <1>2, <2>1, NoArchive
  <2>3. Parsed[u] = ParseZip(c.hint, e)
    BY <1>2, <2>1, <2>2
  <2> HIDE DEF e
  <2>4. AllRead(ParseZip(c.hint, e), SheetFiles(e))
    BY <1>1, <2>3, ArchiveIsRead
  <2>5. QED BY <1>3, <2>3, <2>4 DEF FilesRead, c, e
<1>4. CASE SourceKind(c) # "zip"
  <2> DEFINE book == ParseWorkbook(c.hint, e[1])
  <2>1. ParseUpload(c) = IF SourceKind(c) = "" \/ c.content # "workbook" \/ Failed(book)
                           THEN Bad ELSE <<book>>
    BY <1>4, Zenon DEF ParseUpload
  <2> HIDE DEF book
  <2>2. c.content = "workbook" /\ ~Failed(book) /\ Parsed[u] = <<book>>
    BY <1>2, <2>1, Zenon DEF Failed
  <2> HIDE DEF e
  <2>3. 1 \in DOMAIN e
    BY <1>1, <2>2 DEF IsSequence
  <2>4. WellRead(book, e[1])
    BY <1>1, <2>2, <2>3, WorkbookIsWellRead DEF book
  <2>5. <<book>> \in Seq({book})
    OBVIOUS
  <2>6. IsSequence(<<book>>)
    BY <2>5, SequenceOf
  <2>7. AllRead(<<book>>, <<e[1]>>)
    BY <2>4, <2>6 DEF AllRead
  <2>8. QED BY <1>4, <2>2, <2>7 DEF FilesRead, c, e
<1>5. QED BY <1>3, <1>4

\* What is said of an order is what its parser collected.
LEMMA ParsedWell == \A u \in Upload : ~Failed(Parsed[u]) => WellParsed(u)
<1> SUFFICES ASSUME NEW u \in Upload, ~Failed(Parsed[u]) PROVE WellParsed(u)
  OBVIOUS
<1> DEFINE b == Parsed[u]
<1>1. AllRead(b, FilesRead(u))
  BY UploadIsRead
<1>2. \A f \in DOMAIN b : \A t \in Tables : \A i \in DOMAIN b[f][t] : b[f][t][i] \in Item
  BY DEF Item
<1>3. \A t \in Tables :
        SaidBy(u, t) =
          Entered(Content[u].shop, FlattenSeq(
            [f \in DOMAIN b |-> IF t \in Nested /\ b[f][t] # << >>
                                  THEN Blocks(FilesRead(u)[f].sheets[1]) ELSE b[f][t]]))
  BY DEF SaidBy, FilesRead
<1> HIDE DEF b
<1>4. ASSUME NEW f \in DOMAIN b PROVE b[f] \in Batches(Item)
  <2>1. b[f] = [t \in Tables |-> b[f][t]] /\ \A t \in Tables : IsSequence(b[f][t])
    BY <1>1 DEF AllRead, WellRead, IsBatch
  <2>2. ASSUME NEW t \in Tables PROVE b[f][t] \in Seq(Item)
    <3> DEFINE s == b[f][t]
    <3>1. s \in Seq(Range(s))
      BY <2>1 DEF IsSequence
    <3>2. Range(s) \subseteq Item
      BY <1>2 DEF Range
    <3> HIDE DEF s
    <3>3. s \in Seq(Item)
      BY <3>1, <3>2
    <3>4. QED BY <3>3 DEF s
  <2>3. QED BY <2>1, <2>2 DEF Batches
<1>5. b \in Seq(Batches(Item))
  <2>1. IsSequence(b)
    BY <1>1 DEF AllRead
  <2> DEFINE B == Batches(Item)
  <2>2. Range(b) \subseteq B
    BY <1>4 DEF Range
  <2> HIDE DEF B
  <2>3. b \in Seq(B)
    BY <2>1, <2>2 DEF IsSequence
  <2>4. QED BY <2>3 DEF B
<1>6. ASSUME NEW t \in Tables, NEW f \in DOMAIN b
      PROVE  (IF t \in Nested /\ b[f][t] # << >>
                THEN Blocks(FilesRead(u)[f].sheets[1]) ELSE b[f][t]) = b[f][t]
  BY <1>1 DEF AllRead, WellRead
<1>7. ASSUME NEW t \in Tables
      PROVE  SaidBy(u, t) = Entered(Content[u].shop, FlattenSeq(BatchesOf(b, t)))
  BY <1>3, <1>6 DEF BatchesOf
<1>8. QED BY <1>5, <1>7 DEF WellParsed, b


----------------------------------------------------------------------------
(* The transaction *)

\* What is stored so far of upload u, in tables that had as many rows as
\* before says and held what said says.
Staging(acc, u, before, said) ==
  /\ IsAcc(acc)
  /\ acc.records \in 0..Len(Records(u))
  /\ acc.inserted \in Nat /\ acc.updated \in Nat
  /\ acc.inserted + acc.updated = acc.records
  /\ IsBase(acc.db)
  /\ TableCount(acc.db) = before + acc.inserted
  /\ \A t \in Tables : Holds(acc.db, t, said[t] \o SaidSoFar(u, acc.records, t))

\* Appending to the second of two parts appends to the whole.
LEMMA ConcatAppend ==
  ASSUME NEW E, NEW s \in Seq(E), NEW p \in Seq(E), NEW x \in E
  PROVE  s \o Append(p, x) = Append(s \o p, x)
OBVIOUS

\* The tables have a number of rows.
LEMMA CountIsNatural ==
  ASSUME NEW base, IsBase(base)
  PROVE  TableCount(base) \in Nat /\ TableCount(base) = Cardinality(RowsOf(base))
<1>1. TableCount(base) = Cardinality(RowsOf(base)) /\ IsFiniteSet(RowsOf(base))
  BY DEF TableCount, RowsOf, IsBase
<1>2. QED BY <1>1, FS_CardinalityType

\* A transaction begins with the tables as they are.
LEMMA BeginStages ==
  ASSUME NEW u, WellParsed(u), NEW base, IsBase(base), NEW said,
         \A t \in Tables : said[t] \in Seq(AllSayings) /\ Holds(base, t, said[t])
  PROVE  Staging([NothingStaged EXCEPT !.db = base], u, TableCount(base), said)
<1> DEFINE acc == [NothingStaged EXCEPT !.db = base]
<1>1. acc = [db |-> base, inserted |-> 0, updated |-> 0, records |-> 0]
  BY DEF NothingStaged
<1>2. \A t \in Tables : SaidSoFar(u, 0, t) = << >>
  BY NothingSaidYet
<1>3. \A t \in Tables : said[t] \o << >> = said[t]
  BY ConcatEmptySeq
<1>4. Len(Records(u)) \in Nat
  <2> DEFINE R == RecordSet(1..Len(Parsed[u]), Item)
  <2> DEFINE s == Records(u)
  <2>1. s \in Seq(R)
    BY RecordsType
  <2> HIDE DEF s, R
  <2>2. Len(s) \in Nat
    BY <2>1
  <2>3. QED BY <2>2 DEF s
<1> HIDE DEF acc
<1>5. /\ acc.db = base /\ acc.inserted = 0 /\ acc.updated = 0 /\ acc.records = 0
      /\ IsAcc(acc)
  BY <1>1 DEF IsAcc
<1>6. TableCount(base) = TableCount(base) + 0
  BY CountIsNatural
<1>7. \A t \in Tables : Holds(acc.db, t, said[t] \o SaidSoFar(u, acc.records, t))
  <2> TAKE t \in Tables
  <2>1. said[t] \o SaidSoFar(u, acc.records, t) = said[t]
    BY <1>2, <1>3, <1>5, Zenon
  <2>2. QED BY <1>5, <2>1, Zenon
<1>8. acc.records \in 0..Len(Records(u)) /\ acc.inserted + acc.updated = acc.records
  BY <1>4, <1>5
<1>9. acc.inserted \in Nat /\ acc.updated \in Nat
  BY <1>5
<1>10. IsBase(acc.db) /\ TableCount(acc.db) = TableCount(base) + acc.inserted
  BY <1>5, <1>6, Zenon
<1>11. Staging(acc, u, TableCount(base), said)
  BY <1>5, <1>7, <1>8, <1>9, <1>10, Zenon DEF Staging
<1>12. QED BY <1>11 DEF acc

\* Storing the next record keeps up with what the upload says.
LEMMA StoreStages ==
  ASSUME NEW u, WellParsed(u), NEW before \in Nat, NEW said,
         \A t \in Tables : said[t] \in Seq(AllSayings),
         NEW acc, Staging(acc, u, before, said), acc.records < Len(Records(u))
  PROVE  Staging(Stored(acc, Content[u].shop, Records(u)[acc.records + 1]), u, before, said)
<1> DEFINE n == acc.records
<1> DEFINE record == Records(u)[n + 1]
<1> DEFINE shop == Content[u].shop
<1> DEFINE x == Saying(shop, record.item)
<1> DEFINE now == Stored(acc, shop, record)
<1> DEFINE held == [t \in Tables |-> said[t] \o SaidSoFar(u, n, t)]
<1>1. Len(Records(u)) \in Nat
  <2> DEFINE R == RecordSet(1..Len(Parsed[u]), Item)
  <2> DEFINE s == Records(u)
  <2>1. s \in Seq(R)
    BY RecordsType
  <2> HIDE DEF s, R
  <2>2. Len(s) \in Nat
    BY <2>1
  <2>3. QED BY <2>2 DEF s
<1>2. /\ n \in 0..Len(Records(u)) - 1 /\ n \in 0..Len(Records(u))
      /\ n + 1 \in 0..Len(Records(u)) /\ n \in Nat
  BY <1>1 DEF Staging
<1>3. \A t \in Tables : SaidSoFar(u, n, t) \in Seq(AllSayings)
  BY <1>2, SaidSoFarType
<1>4. /\ record.table \in Tables /\ x \in AllSayings
      /\ \A t \in Tables :
           SaidSoFar(u, n + 1, t) = IF t = record.table THEN Append(SaidSoFar(u, n, t), x)
                                    ELSE SaidSoFar(u, n, t)
  <2>1. ASSUME NEW t
        PROVE  /\ record.table \in Tables /\ x \in AllSayings
               /\ SaidSoFar(u, n + 1, t) = IF t = record.table THEN Append(SaidSoFar(u, n, t), x)
                                           ELSE SaidSoFar(u, n, t)
    BY <1>2, SaidSoFarGrows
  <2>2. QED BY <2>1
<1>5. \A t \in Tables : held[t] \in Seq(AllSayings) /\ Holds(acc.db, t, held[t])
  <2> TAKE t \in Tables
  <2> DEFINE s == said[t]
  <2> DEFINE p == SaidSoFar(u, n, t)
  <2>1. held[t] = s \o p /\ s \in Seq(AllSayings) /\ p \in Seq(AllSayings)
    BY <1>3
  <2>2. Holds(acc.db, t, held[t])
    BY <2>1 DEF Staging
  <2> HIDE DEF s, p, held
  <2>3. s \o p \in Seq(AllSayings)
    BY <2>1, ConcatProperties
  <2>4. QED BY <2>1, <2>2, <2>3
<1>6. IsAcc(acc) /\ IsBase(acc.db)
  BY DEF Staging
<1> HIDE DEF held, record, shop
<1>7. /\ IsBase(now.db)
      /\ \A t \in Tables :
           Holds(now.db, t, IF t = record.table THEN Append(held[t], x) ELSE held[t])
      /\ RowsOf(now.db) = RowsOf(acc.db) \cup {<<record.table, KeyOf(shop, record.item)>>}
  BY <1>4, <1>5, <1>6, OneStored
<1>8. /\ IsAcc(now) /\ now.records = n + 1
      /\ now.inserted \in Nat /\ now.updated \in Nat
      /\ now.inserted + now.updated = now.records
      /\ RowsOf(now.db) = RowsOf(acc.db) \cup {<<record.table, KeyOf(shop, record.item)>>} =>
           TableCount(now.db) = before + now.inserted
  <2>1. /\ acc.inserted \in Nat /\ acc.updated \in Nat /\ acc.records \in Nat
        /\ acc.inserted + acc.updated = acc.records
        /\ TableCount(acc.db) = before + acc.inserted
    BY <1>2 DEF Staging
  <2>2. QED BY <1>4, <1>6, <2>1, OneCounted
<1> HIDE DEF now, x
<1>9. ASSUME NEW t \in Tables
      PROVE  Holds(now.db, t, said[t] \o SaidSoFar(u, now.records, t))
  <2> DEFINE s == said[t]
  <2> DEFINE p == SaidSoFar(u, n, t)
  <2>1. s \in Seq(AllSayings) /\ p \in Seq(AllSayings) /\ x \in AllSayings
    BY <1>3, <1>4
  <2>2. held[t] = s \o p
    BY DEF held
  <2> HIDE DEF s, p
  <2>3. s \o Append(p, x) = Append(s \o p, x)
    <3> DEFINE E == AllSayings
    <3>1. s \in Seq(E) /\ p \in Seq(E) /\ x \in E
      BY <2>1
    <3> HIDE DEF E
    <3>2. QED BY <3>1, ConcatAppend
  <2>4. CASE t = record.table
    <3>1. Holds(now.db, t, Append(s \o p, x))
      BY <1>7, <2>2, <2>4, Zenon
    <3>2. SaidSoFar(u, n + 1, t) = Append(p, x)
      BY <1>4, <2>4 DEF p
    <3>3. QED BY <1>8, <2>3, <3>1, <3>2, Zenon DEF s
  <2>5. CASE t # record.table
    <3>1. Holds(now.db, t, s \o p)
      BY <1>7, <2>2, <2>5, Zenon
    <3>2. SaidSoFar(u, n + 1, t) = p
      BY <1>4, <2>5 DEF p
    <3>3. QED BY <1>8, <3>1, <3>2, Zenon DEF s
  <2>6. QED BY <2>4, <2>5
<1>10. Staging(now, u, before, said)
  <2>1. now.records \in 0..Len(Records(u))
    BY <1>2, <1>8
  <2>2. TableCount(now.db) = before + now.inserted
    BY <1>7, <1>8
  <2>3. QED BY <1>7, <1>8, <1>9, <2>1, <2>2, Zenon DEF Staging
<1>11. QED BY <1>10 DEF now, record, shop

----------------------------------------------------------------------------
(* What was said by what was committed *)

SaidIn(cs, t) == FlattenSeq([c \in DOMAIN cs |-> SaidBy(cs[c].upload, t)])

WellCommitted == {x \in [upload : Upload, run : Nat] : WellParsed(x.upload)}

\* What a list of commits says, and one with a commit more.
LEMMA SaidInIs ==
  ASSUME NEW cs \in Seq(WellCommitted), NEW t \in Tables
  PROVE  /\ SaidIn(cs, t) \in Seq(AllSayings)
         /\ \A x \in WellCommitted : SaidIn(Append(cs, x), t) = SaidIn(cs, t) \o SaidBy(x.upload, t)
<1> DEFINE g == [x \in WellCommitted |-> SaidBy(x.upload, t)]
<1> DEFINE S == Seq(AllSayings)
<1>1. g \in [WellCommitted -> S]
  BY AllSaid DEF WellCommitted
<1>2. ASSUME NEW s \in Seq(WellCommitted) PROVE SaidIn(s, t) = FlattenSeq(Images(g, s))
  <2>1. \A c \in DOMAIN s : s[c] \in WellCommitted
    BY <1>2
  <2>2. Images(g, s) = [c \in DOMAIN s |-> SaidBy(s[c].upload, t)]
    BY <2>1 DEF Images
  <2>3. QED BY <2>2, Zenon DEF SaidIn
<1>3. \A x \in WellCommitted : g[x] = SaidBy(x.upload, t)
  OBVIOUS
<1> HIDE DEF g, S
<1>4. Images(g, cs) \in Seq(S)
  BY <1>1, ImagesIn, Zenon
<1>5. SaidIn(cs, t) \in Seq(AllSayings)
  <2>1. FlattenSeq(Images(g, cs)) \in Seq(AllSayings)
    BY <1>4, FlattenType DEF S
  <2>2. QED BY <1>2, <2>1, Zenon
<1>6. ASSUME NEW x \in WellCommitted
      PROVE  SaidIn(Append(cs, x), t) = SaidIn(cs, t) \o SaidBy(x.upload, t)
  <2>1. Append(cs, x) \in Seq(WellCommitted)
    BY AppendProperties
  <2>2. Images(g, Append(cs, x)) = Append(Images(g, cs), g[x])
    BY ImagesOfAppend, Zenon
  <2>3. g[x] \in Seq(AllSayings)
    BY <1>1 DEF S
  <2> DEFINE i == Images(g, cs)
  <2> DEFINE y == g[x]
  <2>4. i \in Seq(Seq(AllSayings)) /\ y \in Seq(AllSayings)
    BY <1>4, <2>3 DEF S
  <2> HIDE DEF i, y
  <2>5. FlattenSeq(Append(i, y)) = FlattenSeq(i) \o y
    BY <2>4, FlattenGrows, Zenon
  <2>6. QED BY <1>2, <1>3, <2>1, <2>2, <2>5, Zenon DEF i, y
<1>7. QED BY <1>5, <1>6

SaidAll == [t \in Tables |-> Said(t)]

CommitsParsed == \A c \in DOMAIN commits : ~Failed(Parsed[commits[c].upload])

\* What was said is what the commits say, each of an upload that can be read.
LEMMA SaidIs ==
  ASSUME TypeOK, CommitsParsed
  PROVE  /\ commits \in Seq(WellCommitted)
         /\ \A t \in Tables : Said(t) = SaidIn(commits, t) /\ SaidAll[t] = Said(t)
         /\ \A t \in Tables : SaidAll[t] \in Seq(AllSayings)
<1>1. commits \in Seq([upload : Upload, run : Nat])
  BY DEF TypeOK
<1>2. \A c \in DOMAIN commits : commits[c] \in WellCommitted
  <2> DEFINE C == [upload : Upload, run : Nat]
  <2>1. \A c \in DOMAIN commits : commits[c] \in C
    <3>1. commits \in Seq(C)
      BY <1>1
    <3> HIDE DEF C
    <3>2. QED BY <3>1
  <2>2. ASSUME NEW c \in DOMAIN commits PROVE commits[c] \in WellCommitted
    <3>1. commits[c].upload \in Upload
      BY <2>1
    <3>2. ~Failed(Parsed[commits[c].upload])
      BY DEF CommitsParsed
    <3> DEFINE u == commits[c].upload
    <3>3. WellParsed(u)
      <4>1. u \in Upload /\ ~Failed(Parsed[u])
        BY <3>1, <3>2
      <4> HIDE DEF u
      <4>2. QED BY <4>1, ParsedWell, Zenon
    <3>4. commits[c] \in [upload : Upload, run : Nat]
      BY <2>1
    <3>5. QED BY <3>3, <3>4, Zenon DEF WellCommitted
  <2>3. QED BY <2>2
<1>3. commits \in Seq(WellCommitted)
  <2> DEFINE W == WellCommitted
  <2>1. \A c \in DOMAIN commits : commits[c] \in W
    BY <1>2
  <2> HIDE DEF W
  <2>2. commits \in Seq(W)
    BY <1>1, <2>1
  <2>3. QED BY <2>2 DEF W
<1>4. \A t \in Tables : Said(t) = SaidIn(commits, t) /\ SaidAll[t] = Said(t)
  BY DEF Said, SaidIn, SaidAll
<1>5. QED BY <1>3, <1>4, SaidInIs

----------------------------------------------------------------------------
(* The invariant of the transaction *)

RowsNamed(r) ==
  /\ ~Failed(Parsed[upload[r]])
  /\ parsed[r] = RecordsOf(Parsed[upload[r]])

StoringInv ==
  /\ DOMAIN staged = Request /\ DOMAIN parsed = Request
  /\ \A r \in Request : pc[r] \in {"idle", "entered", "begin"} => staged[r] = NothingStaged
  /\ \A r \in Request : pc[r] \in {"begin", "apply"} => RowsNamed(r)
  /\ \A r \in Request : pc[r] = "apply" =>
       Staging(staged[r], upload[r], TableCount(db), SaidAll)
  /\ IsBase(db)
  /\ CommitsParsed
  /\ TablesHoldWhatWasCommitted

\* The tables and the commits stay, and so does whoever works on them, or it
\* has left.
LEMMA StoringWithout ==
  ASSUME StoringInv, UNCHANGED <<db, commits>>,
         DOMAIN staged' = Request, DOMAIN parsed' = Request,
         \A r \in Request :
           \/ pc'[r] = "finish"
           \/ pc'[r] = "idle" /\ staged'[r] = NothingStaged
           \/ pc'[r] = "entered" /\ pc[r] = "idle" /\ staged'[r] = staged[r]
           \/ UNCHANGED <<pc[r], staged[r], parsed[r], upload[r]>>
  PROVE  StoringInv'
<1>1. \A t : Said(t)' = Said(t)
  BY DEF Said
<1>2. SaidAll' = SaidAll
  BY <1>1 DEF SaidAll
<1>3. TablesHoldWhatWasCommitted'
  BY <1>1 DEF TablesHoldWhatWasCommitted, StoringInv
<1>4. CommitsParsed' /\ IsBase(db)'
  BY DEF CommitsParsed, StoringInv
<1>5. \A r \in Request : pc'[r] \in {"idle", "entered", "begin"} => staged'[r] = NothingStaged
  BY DEF StoringInv
<1>6. \A r \in Request : pc'[r] \in {"begin", "apply"} => RowsNamed(r)'
  BY DEF StoringInv, RowsNamed
<1>7. \A r \in Request : pc'[r] = "apply" => Staging(staged'[r], upload'[r], TableCount(db'), SaidAll')
  BY <1>2 DEF StoringInv
<1>8. QED BY <1>3, <1>4, <1>5, <1>6, <1>7 DEF StoringInv

\* Empty tables hold what nobody said.
LEMMA EmptyTablesHoldNothing ==
  ASSUME Init
  PROVE  StoringInv
<1>1. commits = << >> /\ DOMAIN commits = {}
  BY DEF Init
<1>2. \A t \in Tables : Said(t) = << >>
  <2>1. \A t \in Tables : [c \in DOMAIN commits |-> SaidBy(commits[c].upload, t)] = << >>
    BY <1>1
  <2>2. QED BY <2>1, FlattenEmpty DEF Said
<1>3. db.rows = [t \in Tables |-> << >>] /\ db.lines = {} /\ db = [rows |-> db.rows, lines |-> db.lines]
  BY DEF Init
<1>4. \A t \in Tables : DOMAIN db.rows[t] = {} /\ db.rows[t] = [k \in DOMAIN db.rows[t] |-> db.rows[t][k]]
  BY <1>3
<1>5. RowsOf(db) = {}
  BY <1>4 DEF RowsOf
<1>6. IsBase(db)
  BY <1>3, <1>4, <1>5, FS_EmptySet DEF IsBase
<1>7. TablesHoldWhatWasCommitted
  <2>1. KeysOf(<< >>) = {}
    BY DEF KeysOf
  <2>2. \A t \in Tables : HoldsRows(db, t, << >>) /\ HoldsLines(db, t, << >>)
    BY <1>3, <1>4, <2>1 DEF HoldsRows, HoldsLines
  <2>3. QED BY <1>2, <2>2, HoldsIs DEF TablesHoldWhatWasCommitted
<1>8. CommitsParsed
  BY <1>1 DEF CommitsParsed
<1>9. /\ DOMAIN staged = Request /\ DOMAIN parsed = Request
      /\ \A r \in Request : pc[r] = "idle" /\ staged[r] = NothingStaged
  BY DEF Init
<1>10. QED BY <1>6, <1>7, <1>8, <1>9 DEF StoringInv

\* A request that reached its COMMIT.
LEMMA AllStaged ==
  ASSUME TypeOK, StoringInv, NEW r \in Request, Commit(r)
  PROVE  LET u == upload[r]
         IN  /\ WellParsed(u) /\ u \in Upload
             /\ parsed[r] = RecordsOf(Parsed[u])
             /\ Staging(staged[r], u, TableCount(db), SaidAll)
             /\ staged[r].records = Len(Records(u))
             /\ \A t \in Tables : Holds(staged[r].db, t, Said(t) \o SaidBy(u, t))
<1> DEFINE u == upload[r]
<1>1. pc[r] = "apply" /\ staged[r].records = Len(parsed[r].records)
  BY DEF Commit
<1>2. u \in Upload /\ ~Failed(Parsed[u]) /\ parsed[r] = RecordsOf(Parsed[u])
  BY <1>1 DEF TypeOK, Working, StoringInv, RowsNamed
<1>3. WellParsed(u)
  BY <1>2, ParsedWell
<1>4. Staging(staged[r], u, TableCount(db), SaidAll)
  BY <1>1 DEF StoringInv
<1>5. staged[r].records = Len(Records(u))
  BY <1>1, <1>2 DEF Records
<1>6. ASSUME NEW t \in Tables PROVE Holds(staged[r].db, t, Said(t) \o SaidBy(u, t))
  <2>1. Holds(staged[r].db, t, SaidAll[t] \o SaidSoFar(u, staged[r].records, t))
    BY <1>4 DEF Staging
  <2>2. SaidSoFar(u, staged[r].records, t) = SaidBy(u, t)
    BY <1>3, <1>5, AllSaid
  <2>3. SaidAll[t] = Said(t)
    BY DEF SaidAll
  <2>4. QED BY <2>1, <2>2, <2>3
<1>7. QED BY <1>2, <1>3, <1>4, <1>5, <1>6

\* A commit says what its upload says.
LEMMA CommittedIsSaid ==
  ASSUME TypeOK, StoringInv, NEW r \in Request, Commit(r)
  PROVE  /\ \A t \in Tables : Said(t)' = Said(t) \o SaidBy(upload[r], t)
         /\ CommitsParsed'
<1> DEFINE x == [upload |-> upload[r], run |-> run[r]]
<1>1. commits' = Append(commits, x)
  BY DEF Commit
<1>2. upload[r] \in Upload /\ WellParsed(upload[r]) /\ ~Failed(Parsed[upload[r]])
  BY AllStaged DEF StoringInv, RowsNamed, Commit
<1>3. x \in WellCommitted
  BY <1>2 DEF WellCommitted, TypeOK
<1>4. commits \in Seq(WellCommitted) /\ \A t \in Tables : Said(t) = SaidIn(commits, t)
  BY SaidIs DEF StoringInv
<1>5. x.upload = upload[r]
  OBVIOUS
<1> HIDE DEF x
<1>6. \A t \in Tables : Said(t)' = Said(t) \o SaidBy(upload[r], t)
  <2> TAKE t \in Tables
  <2>1. Said(t)' = SaidIn(commits', t)
    BY DEF Said, SaidIn
  <2>2. SaidIn(Append(commits, x), t) = SaidIn(commits, t) \o SaidBy(x.upload, t)
    BY <1>3, <1>4, SaidInIs
  <2>3. QED BY <1>1, <1>4, <1>5, <2>1, <2>2, Zenon
<1>7. CommitsParsed'
  <2>1. \A c \in DOMAIN commits' : \/ c \in DOMAIN commits /\ commits'[c] = commits[c]
                                   \/ commits'[c] = x
    <3> DEFINE W == WellCommitted
    <3>1. commits \in Seq(W) /\ x \in W
      BY <1>3, <1>4
    <3> HIDE DEF W
    <3>2. QED BY <1>1, <3>1
  <2>2. QED BY <1>2, <1>5, <2>1 DEF CommitsParsed, StoringInv
<1>8. QED BY <1>6, <1>7

\* Every step keeps the tables whole.
LEMMA StoringStays ==
  ASSUME TypeOK, OneImportAtATime, StoringInv, [Next]_importVars
  PROVE  StoringInv'
<1>1. CASE UNCHANGED importVars
  BY <1>1, StoringWithout DEF importVars, StoringInv
<1>2. ASSUME NEW r \in Request, Enter(r) PROVE StoringInv'
  BY <1>2, StoringWithout DEF Enter, StoringInv, TypeOK
\* Whoever returns has nothing staged.
<1>3. ASSUME NEW r \in Request, Return(r), UNCHANGED <<db, commits>> PROVE StoringInv'
  BY <1>3, StoringWithout DEF Return, StoringInv, TypeOK
<1>4. ASSUME NEW r \in Request, Accept(r) PROVE StoringInv'
  <2>1. /\ pc[r] = "entered" /\ pc' = [pc EXCEPT ![r] = "begin"]
        /\ parsed' = [parsed EXCEPT ![r] = RecordsOf(Parsed[upload[r]])]
        /\ ~Failed(Parsed[upload[r]])
        /\ UNCHANGED <<upload, staged, db, commits>>
    BY <1>4 DEF Accept
  <2>2. \A q \in Request : q # r => pc'[q] = "idle" /\ pc[q] = "idle"
    BY <2>1 DEF OneImportAtATime, Working, TypeOK
  <2>3. pc'[r] = "begin" /\ parsed'[r] = RecordsOf(Parsed[upload[r]])
    BY <2>1 DEF TypeOK, StoringInv
  <2>4. \A t : Said(t)' = Said(t)
    BY <2>1 DEF Said
  <2>5. CommitsParsed' /\ IsBase(db)' /\ TablesHoldWhatWasCommitted'
    BY <2>1, <2>4 DEF StoringInv, CommitsParsed, TablesHoldWhatWasCommitted
  <2>6. \A q \in Request : pc'[q] \in {"idle", "entered", "begin"} => staged'[q] = NothingStaged
    BY <2>1, <2>2 DEF StoringInv
  <2>7. \A q \in Request : pc'[q] \in {"begin", "apply"} => RowsNamed(q)'
    BY <2>1, <2>2, <2>3 DEF RowsNamed
  <2>8. \A q \in Request : pc'[q] # "apply"
    BY <2>2, <2>3
  <2>9. DOMAIN staged' = Request /\ DOMAIN parsed' = Request
    BY <2>1 DEF StoringInv
  <2>10. QED BY <2>5, <2>6, <2>7, <2>8, <2>9 DEF StoringInv
<1>5. ASSUME NEW r \in Request, BeginRun(r) PROVE StoringInv'
  <2>1. /\ pc[r] = "begin" /\ pc' = [pc EXCEPT ![r] = "apply"]
        /\ staged' = [staged EXCEPT ![r].db = db]
        /\ UNCHANGED <<upload, parsed, db, commits>>
    BY <1>5 DEF BeginRun
  <2>2. \A q \in Request : q # r => pc'[q] = "idle" /\ pc[q] = "idle" /\ staged'[q] = staged[q]
    BY <2>1 DEF OneImportAtATime, Working, TypeOK, StoringInv
  <2>3. pc'[r] = "apply" /\ staged'[r] = [NothingStaged EXCEPT !.db = db]
    <3>1. pc'[r] = "apply" /\ staged[r] = NothingStaged
      BY <2>1 DEF TypeOK, StoringInv
    <3>2. staged'[r] = [staged[r] EXCEPT !.db = db]
      BY <2>1 DEF StoringInv
    <3>3. QED BY <3>1, <3>2
  <2>4. \A t : Said(t)' = Said(t)
    BY <2>1 DEF Said
  <2>5. CommitsParsed' /\ IsBase(db)' /\ TablesHoldWhatWasCommitted' /\ SaidAll' = SaidAll
    BY <2>1, <2>4 DEF StoringInv, CommitsParsed, TablesHoldWhatWasCommitted, SaidAll
  <2>6. RowsNamed(r) /\ RowsNamed(r)'
    BY <2>1 DEF StoringInv, RowsNamed
  <2>7. WellParsed(upload[r])
    BY <2>1, <2>6, ParsedWell DEF TypeOK, Working, RowsNamed
  <2>8. \A t \in Tables : SaidAll[t] \in Seq(AllSayings) /\ Holds(db, t, SaidAll[t])
    BY SaidIs DEF StoringInv, TablesHoldWhatWasCommitted
  <2>9. Staging(staged'[r], upload[r], TableCount(db), SaidAll)
    <3>1. Staging([NothingStaged EXCEPT !.db = db], upload[r], TableCount(db), SaidAll)
      BY <2>7, <2>8, BeginStages DEF StoringInv
    <3>2. QED BY <2>3, <3>1, Zenon
  <2>10. \A q \in Request : pc'[q] = "apply" =>
           Staging(staged'[q], upload'[q], TableCount(db'), SaidAll')
    <3> TAKE q \in Request
    <3>1. CASE q = r
      BY <2>1, <2>5, <2>9, <3>1
    <3>2. CASE q # r
      BY <2>2, <3>2
    <3>3. QED BY <3>1, <3>2
  <2>11. \A q \in Request : pc'[q] \in {"idle", "entered", "begin"} => staged'[q] = NothingStaged
    BY <2>2, <2>3 DEF StoringInv
  <2>12. \A q \in Request : pc'[q] \in {"begin", "apply"} => RowsNamed(q)'
    BY <2>2, <2>6
  <2>13. DOMAIN staged' = Request /\ DOMAIN parsed' = Request
    BY <2>1 DEF StoringInv
  <2>14. QED BY <2>5, <2>10, <2>11, <2>12, <2>13 DEF StoringInv
<1>6. ASSUME NEW r \in Request, Store(r) PROVE StoringInv'
  <2>1. /\ pc[r] = "apply" /\ staged[r].records < Len(parsed[r].records)
        /\ staged' = [staged EXCEPT ![r] =
                        Stored(staged[r], Content[upload[r]].shop,
                               parsed[r].records[staged[r].records + 1])]
        /\ UNCHANGED <<pc, upload, parsed, db, commits>>
    BY <1>6 DEF Store
  <2> DEFINE u == upload[r]
  <2>2. RowsNamed(r) /\ Staging(staged[r], u, TableCount(db), SaidAll)
    BY <2>1 DEF StoringInv
  <2>3. WellParsed(u)
    BY <2>1, <2>2, ParsedWell DEF TypeOK, Working, RowsNamed
  <2>4. parsed[r].records = Records(u)
    BY <2>2 DEF RowsNamed, Records
  <2>5. staged'[r] = Stored(staged[r], Content[u].shop, Records(u)[staged[r].records + 1])
    BY <2>1, <2>4 DEF StoringInv
  <2>6. staged[r].records < Len(Records(u))
    BY <2>1, <2>4
  <2>7. TableCount(db) \in Nat
    BY CountIsNatural DEF StoringInv
  <2>8. \A t \in Tables : SaidAll[t] \in Seq(AllSayings)
    BY SaidIs DEF StoringInv
  <2>9. Staging(staged'[r], u, TableCount(db), SaidAll)
    BY <2>2, <2>3, <2>5, <2>6, <2>7, <2>8, StoreStages
  <2>10. \A t : Said(t)' = Said(t)
    BY <2>1 DEF Said
  <2>11. CommitsParsed' /\ IsBase(db)' /\ TablesHoldWhatWasCommitted' /\ SaidAll' = SaidAll
    BY <2>1, <2>10 DEF StoringInv, CommitsParsed, TablesHoldWhatWasCommitted, SaidAll
  <2>12. \A q \in Request : q # r => pc'[q] = pc[q] /\ staged'[q] = staged[q]
    BY <2>1 DEF StoringInv
  <2>13. \A q \in Request : pc'[q] = "apply" =>
           Staging(staged'[q], upload'[q], TableCount(db'), SaidAll')
    <3> TAKE q \in Request
    <3>1. CASE q = r
      BY <2>1, <2>9, <2>11, <3>1
    <3>2. CASE q # r
      BY <2>1, <2>11, <2>12, <3>2 DEF StoringInv
    <3>3. QED BY <3>1, <3>2
  <2>14. \A q \in Request : pc'[q] \in {"idle", "entered", "begin"} => staged'[q] = NothingStaged
    BY <2>1, <2>12 DEF StoringInv
  <2>15. \A q \in Request : pc'[q] \in {"begin", "apply"} => RowsNamed(q)'
    BY <2>1 DEF StoringInv, RowsNamed
  <2>16. DOMAIN staged' = Request /\ DOMAIN parsed' = Request
    BY <2>1 DEF StoringInv
  <2>17. QED BY <2>11, <2>13, <2>14, <2>15, <2>16 DEF StoringInv
<1>7. ASSUME NEW r \in Request, ApplyFails(r) PROVE StoringInv'
  BY <1>7, StoringWithout DEF ApplyFails, StoringInv, TypeOK
<1>8. ASSUME NEW r \in Request, Commit(r) PROVE StoringInv'
  <2>1. /\ pc[r] = "apply" /\ pc' = [pc EXCEPT ![r] = "finish"]
        /\ db' = staged[r].db
        /\ UNCHANGED <<upload, parsed, staged>>
    BY <1>8 DEF Commit
  <2>2. \A q \in Request : pc'[q] = IF q = r THEN "finish" ELSE "idle"
    BY <2>1 DEF OneImportAtATime, Working, TypeOK
  <2>3. \A q \in Request : q # r => pc[q] = "idle"
    BY <2>1 DEF OneImportAtATime, Working, TypeOK
  <2>4. \A t \in Tables : Holds(staged[r].db, t, Said(t) \o SaidBy(upload[r], t))
    BY <1>8, AllStaged
  <2>5. Staging(staged[r], upload[r], TableCount(db), SaidAll)
    BY <1>8, AllStaged
  <2>6. IsBase(db)'
    BY <2>1, <2>5 DEF Staging
  <2>7. TablesHoldWhatWasCommitted'
    <3>1. \A t \in Tables : Said(t)' = Said(t) \o SaidBy(upload[r], t)
      BY <1>8, CommittedIsSaid
    <3>2. ASSUME NEW t \in Tables PROVE Holds(db, t, Said(t))'
      <4>1. Holds(db', t, Said(t)')
        BY <2>1, <2>4, <3>1, Zenon
      <4>2. QED BY <4>1 DEF Holds, LinesOf
    <3>3. QED BY <3>2 DEF TablesHoldWhatWasCommitted
  <2>8. CommitsParsed'
    BY <1>8, CommittedIsSaid
  <2>9. \A q \in Request : pc'[q] \in {"idle", "entered", "begin"} => staged'[q] = NothingStaged
    BY <2>1, <2>2, <2>3 DEF StoringInv
  <2>10. \A q \in Request : pc'[q] \notin {"begin", "apply"}
    BY <2>2
  <2>11. DOMAIN staged' = Request /\ DOMAIN parsed' = Request
    BY <2>1 DEF StoringInv
  <2>12. QED BY <2>6, <2>7, <2>8, <2>9, <2>10, <2>11 DEF StoringInv
<1>9. ASSUME NEW r \in Request, ContextEnds(r) PROVE StoringInv'
  BY <1>9, StoringWithout DEF ContextEnds, StoringInv
<1>10. ASSUME Crash PROVE StoringInv'
  BY <1>10, StoringWithout DEF Crash, StoringInv
<1>11. ASSUME NEW r \in Request, Reject(r) \/ BeginFails(r) \/ FinishFails(r) \/ Finish(r)
       PROVE  StoringInv'
  BY <1>3, <1>11 DEF Reject, BeginFails, FinishFails, Finish
<1>12. QED
  BY <1>1, <1>2, <1>4, <1>5, <1>6, <1>7, <1>8, <1>9, <1>10, <1>11 DEF Next, Handle

\* In every state the tables, and those each transaction sees, are whole.
LEMMA StoringInvariant == Spec => [](IInv /\ StoringInv)
<1>1. Init => IInv /\ StoringInv
  BY InitInvariant, EmptyTablesHoldNothing
<1>2. IInv /\ StoringInv /\ [Next]_importVars => (IInv /\ StoringInv)'
  BY TypesStay, OneImportStays, HonestStays, StoringStays DEF IInv, Honest
<1>3. QED BY <1>1, <1>2, PTL DEF Spec

\* After any imports, with any failures and crashes in between, each table has
\* the last of what was said of each key by the uploads that committed.
THEOREM TablesAreWhole == Spec => []TablesHoldWhatWasCommitted
<1>1. StoringInv => TablesHoldWhatWasCommitted
  BY DEF StoringInv
<1>2. QED BY <1>1, StoringInvariant, PTL

----------------------------------------------------------------------------
(* Importing again *)

AllHeld(base, said) == \A t \in Tables : Holds(base, t, said[t])

SayTheSame(s1, s2) ==
  \A t \in Tables : /\ KeysOf(s1[t]) = KeysOf(s2[t])
                    /\ \A key \in KeysOf(s1[t]) : Final(s1[t], key) = Final(s2[t], key)

\* Tables that hold the same are the same.
LEMMA TablesAreDetermined ==
  ASSUME NEW one, NEW two, IsBase(one), IsBase(two), NEW s1, NEW s2,
         AllHeld(one, s1), AllHeld(two, s2), SayTheSame(s1, s2)
  PROVE  one = two
BY HoldsDetermines DEF AllHeld, SayTheSame

\* A commit of what the commit before it was of changes nothing.
LEMMA AgainIsTheSame ==
  ASSUME TypeOK, StoringInv, NEW r \in Request, Commit(r),
         commits # << >>, commits[Len(commits)].upload = upload[r]
  PROVE  db' = db /\ staged[r].inserted = 0
<1> DEFINE u == upload[r]
<1> DEFINE W == WellCommitted
<1> DEFINE n == Len(commits) - 1
<1> DEFINE front == SubSeq(commits, 1, n)
<1>1. /\ WellParsed(u)
      /\ Staging(staged[r], u, TableCount(db), SaidAll)
      /\ \A t \in Tables : Holds(staged[r].db, t, Said(t) \o SaidBy(u, t))
  BY AllStaged
<1>2. db' = staged[r].db
  BY DEF Commit
<1>3. commits \in Seq(W) /\ \A t \in Tables : Said(t) = SaidIn(commits, t)
  BY SaidIs DEF StoringInv
<1>4. front \in Seq(W) /\ commits[n + 1] \in W /\ commits = Append(front, commits[n + 1])
  <2> HIDE DEF W
  <2>1. n \in 0..Len(commits) - 1 /\ n \in 0..Len(commits) /\ n + 1 = Len(commits)
    BY <1>3
  <2> HIDE DEF n
  <2>2. /\ SubSeq(commits, 1, Len(commits)) = commits
        /\ SubSeq(commits, 1, n) \in Seq(W)
        /\ commits[n + 1] \in W
        /\ SubSeq(commits, 1, n + 1) = Append(SubSeq(commits, 1, n), commits[n + 1])
    BY <1>3, <2>1, PartsOfSequence
  <2>3. QED BY <2>1, <2>2
<1>5. commits[n + 1].upload = u
  <2>1. n + 1 = Len(commits)
    BY <1>3
  <2>2. QED BY <2>1
<1> HIDE DEF W, front, n
<1>6. \A t \in Tables : Said(t) = SaidIn(front, t) \o SaidBy(u, t)
  <2> TAKE t \in Tables
  <2> DEFINE x == commits[n + 1]
  <2>1. front \in Seq(WellCommitted) /\ x \in WellCommitted /\ x.upload = u /\ commits = Append(front, x)
    BY <1>4, <1>5 DEF W
  <2> HIDE DEF x, u
  <2>2. SaidIn(Append(front, x), t) = SaidIn(front, t) \o SaidBy(x.upload, t)
    BY <2>1, SaidInIs
  <2>3. QED BY <1>3, <2>1, <2>2, Zenon
<1> DEFINE s1 == SaidAll
<1> DEFINE s2 == [t \in Tables |-> Said(t) \o SaidBy(u, t)]
<1>7. \A t \in Tables : /\ KeysOf(s1[t]) = KeysOf(s2[t])
                        /\ \A key \in KeysOf(s1[t]) : Final(s1[t], key) = Final(s2[t], key)
  <2> TAKE t \in Tables
  <2> DEFINE before == SaidIn(front, t)
  <2> DEFINE said == SaidBy(u, t)
  <2>1. before \in Seq(AllSayings) /\ said \in Seq(AllSayings)
    BY <1>1, <1>4, SaidInIs, AllSaid DEF W
  <2>2. s1[t] = before \o said /\ s2[t] = (before \o said) \o said
    BY <1>6 DEF SaidAll
  <2> HIDE DEF before, said, s1, s2
  <2>3. /\ KeysOf((before \o said) \o said) = KeysOf(before \o said)
        /\ \A key \in KeysOf(before \o said) :
             Final((before \o said) \o said, key) = Final(before \o said, key)
    BY <2>1, FinalOfAgain
  <2>4. QED BY <2>2, <2>3
<1>8. IsBase(db) /\ IsBase(staged[r].db)
  BY <1>1 DEF StoringInv, Staging
<1>9. \A t \in Tables : Holds(db, t, s1[t]) /\ Holds(staged[r].db, t, s2[t])
  BY <1>1 DEF StoringInv, TablesHoldWhatWasCommitted, SaidAll
<1>10. db = staged[r].db
  <2>1. AllHeld(db, s1) /\ AllHeld(staged[r].db, s2)
    BY <1>9 DEF AllHeld
  <2>2. SayTheSame(s1, s2)
    BY <1>7 DEF SayTheSame
  <2> HIDE DEF s1, s2
  <2>3. QED BY <1>8, <2>1, <2>2, TablesAreDetermined, Zenon
<1>11. staged[r].inserted = 0
  <2>1. TableCount(db) = TableCount(db) + staged[r].inserted /\ staged[r].inserted \in Nat
    BY <1>1, <1>10 DEF Staging
  <2>2. TableCount(db) \in Nat
    BY <1>8, CountIsNatural
  <2>3. QED BY <2>1, <2>2
<1>12. QED BY <1>2, <1>10, <1>11

\* An upload that is imported twice in a row leaves every table as it is, and
\* nothing of it counts as inserted, whatever happened between the two.
THEOREM RepeatedUploadsAreHarmless == Spec => UploadingAgainChangesNothing
<1>1. IInv /\ StoringInv /\ [Next]_importVars =>
        [\A r \in Request :
           (Commit(r) /\ commits # << >> /\ commits[Len(commits)].upload = upload[r])
             => db' = db /\ staged[r].inserted = 0]_importVars
  BY AgainIsTheSame DEF IInv
<1>2. QED BY <1>1, StoringInvariant, PTL DEF Spec, UploadingAgainChangesNothing

\* What a commit counts.
LEMMA CommitCounts ==
  ASSUME TypeOK, StoringInv, NEW r \in Request, Commit(r)
  PROVE  /\ TableCount(db') = TableCount(db) + staged[r].inserted
         /\ FilesDone(r) = Len(Parsed[upload[r]])
         /\ RecordsDone(r) = staged[r].inserted + staged[r].updated
         /\ RecordsDone(r) = RecordCount(upload[r])
<1> DEFINE u == upload[r]
<1>1. /\ WellParsed(u)
      /\ parsed[r] = RecordsOf(Parsed[u])
      /\ Staging(staged[r], u, TableCount(db), SaidAll)
      /\ staged[r].records = Len(Records(u))
  BY AllStaged
<1>2. TableCount(db') = TableCount(db) + staged[r].inserted
  BY <1>1 DEF Commit, Staging
<1>3. parsed[r].records = Records(u) /\ parsed[r].files = Len(Parsed[u])
  BY <1>1 DEF Records, RecordsOf
<1>4. FilesDone(r) = Len(Parsed[u])
  BY <1>1, <1>3 DEF FilesDone
<1>5. \A i \in DOMAIN Records(u) : Records(u)[i].file <= Len(Parsed[u])
  <2>1. Records(u) \in Seq(RecordSet(1..Len(Parsed[u]), Item)) /\ Len(Parsed[u]) \in Nat
    BY <1>1, RecordsType DEF WellParsed
  <2> DEFINE s == Records(u)
  <2> DEFINE F == 1..Len(Parsed[u])
  <2>2. \A i \in DOMAIN s : s[i] \in RecordSet(F, Item)
    <3> DEFINE R == RecordSet(F, Item)
    <3>1. s \in Seq(R)
      BY <2>1
    <3> HIDE DEF R, s
    <3>2. \A i \in DOMAIN s : s[i] \in R
      BY <3>1
    <3>3. QED BY <3>2 DEF R
  <2>3. \A i \in DOMAIN s : s[i].file \in F
    <3> HIDE DEF F, s
    <3>1. QED BY <2>2 DEF RecordSet
  <2>4. QED BY <2>1, <2>3
<1>6. DOMAIN Records(u) = 1..Len(Records(u)) /\ Len(Records(u)) \in Nat
  <2> DEFINE s == Records(u)
  <2> DEFINE R == RecordSet(1..Len(Parsed[u]), Item)
  <2>1. s \in Seq(R)
    BY <1>1, RecordsType
  <2> HIDE DEF s, R
  <2>2. DOMAIN s = 1..Len(s) /\ Len(s) \in Nat
    BY <2>1
  <2>3. QED BY <2>2 DEF s
<1>7. RecordsDone(r) = Len(Records(u))
  <2>1. {i \in DOMAIN parsed[r].records : parsed[r].records[i].file <= FilesDone(r)}
          = 1..Len(Records(u))
    BY <1>3, <1>4, <1>5, <1>6
  <2>2. Cardinality(1..Len(Records(u))) = Len(Records(u))
    BY <1>6, FS_Interval
  <2>3. QED BY <2>1, <2>2 DEF RecordsDone
<1>8. RecordCount(u) = Len(Records(u))
  BY <1>1, RecordsCounted
<1>9. staged[r].inserted + staged[r].updated = Len(Records(u))
  BY <1>1 DEF Staging
<1>10. QED BY <1>2, <1>4, <1>7, <1>8, <1>9

\* An import that commits counts all of its files and records, and as inserted
\* as many as the tables grow by.
THEOREM InsertedRowsAreCounted == Spec => InsertedRowsAreNew
<1>1. IInv /\ StoringInv /\ [Next]_importVars =>
        [\A r \in Request : Commit(r) =>
           /\ TableCount(db') = TableCount(db) + staged[r].inserted
           /\ FilesDone(r) = Len(Parsed[upload[r]])
           /\ RecordsDone(r) = staged[r].inserted + staged[r].updated
           /\ RecordsDone(r) = RecordCount(upload[r])]_importVars
  BY CommitCounts DEF IInv
<1>2. QED BY <1>1, StoringInvariant, PTL DEF Spec, InsertedRowsAreNew

=============================================================================
