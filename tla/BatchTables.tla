---------------------------- MODULE BatchTables ----------------------------
(***************************************************************************)
(* The tables of one workflow run, one per upload batch, from extraction   *)
(* to the destination module: batchTableSnapshots.ts and                   *)
(* tablePayloadMerge.ts with the handlers of NodeWorkspace.tsx that call   *)
(* them.  A payload is a sheet (rows as extracted) and a list (the rows    *)
(* the tables show and edit: arapTransactions or bankTransactions).  A row *)
(* carries its file, its number, the extraction it comes from and whether  *)
(* the user gave it an account code.  A payload is a set of rows, where    *)
(* the code has a sequence: a move puts rows beside others without looking *)
(* whether they are there already.                                         *)
(***************************************************************************)
EXTENDS Naturals, FiniteSets

CONSTANTS File,
          Batches,      \* upload batches 1 .. Batches, in the order of their upload
          Name,         \* [File -> original_filename]
          Placed,       \* [File -> the batch it was uploaded with]
          MaxRow,       \* [File -> Nat]: rows of a file are 1 .. MaxRow[f]
          Returns,      \* a file that was moved may be moved again
          MaxBatchActs  \* bound on what the user does

Batch == 1 .. Batches

ASSUME BatchAssumption ==
  /\ Batches \in Nat \ {0} /\ Placed \in [File -> Batch]
  /\ MaxRow \in [File -> Nat \ {0}] /\ Returns \in BOOLEAN /\ MaxBatchActs \in Nat

VARIABLES bank,          \* processing_mode is BANK
          status,        \* run_status: "executing", "awaiting_review", "completed"
          batchOf,       \* upload_batch_id of the run's files
          ocr,           \* node_states: [File -> [v, rows]], the extraction of a file
          payloads,      \* batchTablePayloads of the open page
          snapshots,     \* ocr-batch-* messages at the server
          approvedTable, \* approved_payload of the run
          saves,         \* snapshots being persisted, each with the one awaited after it
          page,          \* "node", "books" or "none"
          batchActs

tables ==
  <<bank, status, batchOf, ocr, payloads, snapshots, approvedTable, saves, page, batchActs>>

Empty == [sheet |-> {}, list |-> {}, saved |-> FALSE]
None == [sheet |-> {}, list |-> {}, saved |-> FALSE, none |-> TRUE]
Files(b) == {f \in File : batchOf[f] = b}
BatchAct == batchActs < MaxBatchActs /\ batchActs' = batchActs + 1

HasRows(p) == p.list # {} \/ (~ bank /\ p.sheet # {})
Key(r) == <<r.f, r.n>>
Count(p) == IF p.list # {} THEN Cardinality(p.list) ELSE Cardinality(p.sheet)

-----------------------------------------------------------------------------
(* the payload algorithms *)

Extracted(f) == {[f |-> f, n |-> n, v |-> ocr[f].v, code |-> FALSE] : n \in ocr[f].rows}

\* buildIncomingForFiles
Incoming(fs) ==
  LET rows == UNION {Extracted(f) : f \in fs} IN [sheet |-> rows, list |-> rows, saved |-> FALSE]

\* bankRowsForFile: rows of a bank table know their file by its name alone
OfFile(rows, f) == {r \in rows : IF bank THEN Name[r.f] = Name[f] ELSE r.f = f}

\* (bug) the rows of the file are appended to the old ones
Appended(rows, new, fs) == rows \cup {r \in new : r.f \in fs}

\* mergeSpreadsheetRowsForFile: the rows of a file are replaced
Replaced(rows, new, fs) ==
  {r \in rows : \A f \in fs : r.f # f} \cup {r \in new : r.f \in fs}

\* mergeArapPreservingEdits: codes go over by key, rows without a successor stay
KeepingCodes(old, new) ==
  LET coded(r) == [r EXCEPT !.code = @ \/ \E o \in old : Key(o) = Key(r) /\ o.code] IN
  {coded(r) : r \in new} \cup {o \in old : \A r \in new : Key(r) # Key(o)}

\* mergeTablePayload
MergePayload(base, new, fs) ==
  LET sheet == Replaced(base.sheet, new.sheet, fs) IN
  [sheet |-> sheet, saved |-> FALSE,
   list  |-> IF bank
             THEN LET kept == base.list \ UNION {OfFile(base.list, f) : f \in fs}
                      rows == kept \cup UNION {OfFile(new.list, f) : f \in fs} IN
                  {[r EXCEPT !.code = @ \/ \E o \in base.list : Key(o) = Key(r) /\ o.code] : r \in rows}
             ELSE KeepingCodes(base.list, sheet)]

\* resolveBatchTablePayloadAfterVlm
Resolved(base, fs) ==
  LET new == Incoming(fs) IN
  IF ~ HasRows(new) THEN base
  ELSE IF ~ HasRows(base) THEN new ELSE MergePayload(base, new, fs)

Built == [b \in Batch |-> Resolved(Empty, Files(b))]

\* mergeBatchTablePayloads
Filled(first, second) ==
  [b \in Batch |-> IF Files(b) = {} THEN Empty
                   ELSE IF HasRows(first[b]) THEN first[b]
                   ELSE IF HasRows(second[b]) THEN second[b] ELSE Empty]

\* batchPayloadFromCombined: the sheet's rows win over the approved list
Slice(p, b) ==
  LET sheet == {r \in p.sheet : r.f \in Files(b)}
      own   == UNION {OfFile(p.list, f) : f \in Files(b)} IN
  [sheet |-> sheet, list |-> IF bank \/ sheet = {} THEN own ELSE sheet, saved |-> FALSE]

\* mapCombinedPayloadToBatches: a run with one batch keeps the payload whole
Mapped(p) ==
  IF \E b \in Batch : Files(b) = File
  THEN [b \in Batch |-> IF Files(b) = File THEN p ELSE Empty]
  ELSE [b \in Batch |-> Slice(p, b)]

\* loadAllBatchTablePayloads: module saves over the approved payload, else the snapshots
Loaded ==
  IF approvedTable # None
  THEN [b \in Batch |-> IF snapshots[b].saved THEN snapshots[b] ELSE Mapped(approvedTable)[b]]
  ELSE snapshots

\* reconcileBatchPayloadsWithRun: a snapshot with fewer rows than the extraction gives way
Reconciled(P) ==
  IF approvedTable # None THEN P
  ELSE [b \in Batch |-> IF ~ P[b].saved /\ Count(Built[b]) > Count(P[b]) THEN Built[b] ELSE P[b]]

\* combineBatchTablePayloads: the batches are merged in upload order
Combined(P) ==
  LET sum[k \in 0 .. Batches] ==
        IF k = 0 THEN Empty
        ELSE IF HasRows(P[k]) THEN MergePayload(sum[k - 1], P[k], Files(k)) ELSE sum[k - 1]
  IN sum[Batches]

\* rowsForBatchFile
SheetOf(p, f) == {r \in p.sheet : r.f = f}

\* The rows that go along when a file is moved: those known to be of the file; where the user
\* has deleted these, those at the places its rows have in the sheet (arapRowsForSpreadsheetRows),
\* whosever they are.
Moving(p, f) ==
  LET own == OfFile(p.list, f) IN
  IF bank \/ own # {} THEN {own}
  ELSE {S \in SUBSET p.list : Cardinality(S) <= Cardinality(SheetOf(p, f))}

\* moveRowsBetweenBatches, when no row goes along: both lists are made anew from their sheets
Relisted(p, sheet) == [p EXCEPT !.sheet = sheet, !.list = sheet]

\* moveFileRowsBetweenBatches; a bank table has no sheet
Less(p, sheet, list) == [p EXCEPT !.sheet = @ \ sheet, !.list = @ \ list]
More(p, sheet, list) == [p EXCEPT !.sheet = @ \cup sheet, !.list = @ \cup list]

Moved(P, f, from, to, gone) ==
  LET sheet == IF bank THEN {} ELSE SheetOf(P[from], f) IN
  IF gone # {}
  THEN [P EXCEPT ![from] = Less(@, sheet, gone), ![to] = More(@, sheet, gone)]
  ELSE IF sheet # {}
  THEN [P EXCEPT ![from] = Relisted(@, @.sheet \ sheet), ![to] = Relisted(@, @.sheet \cup sheet)]
  ELSE P

-----------------------------------------------------------------------------
TablesInit ==
  /\ bank \in BOOLEAN /\ status = "awaiting_review" /\ batchOf = Placed
  /\ ocr = [f \in File |-> [v |-> 1, rows |-> 1 .. MaxRow[f]]]
  /\ payloads = [b \in Batch |-> Empty] /\ snapshots = payloads /\ approvedTable = None
  /\ saves = {} /\ page = "none" /\ batchActs = 0

SaveBatch(b, p, next) == saves' = saves \cup {[b |-> b, p |-> p, next |-> next]}

\* activateRun and its effects, once the run and its messages have arrived
OpenNode ==
  /\ page = "none" /\ page' = "node"
  /\ payloads' = Reconciled(Filled(Loaded, Built))
  /\ BatchAct /\ UNCHANGED <<bank, status, batchOf, ocr, snapshots, approvedTable, saves>>

\* the Books module of the run's mode opens the approved run
OpenBooks ==
  /\ page = "none" /\ status = "completed" /\ page' = "books"
  /\ payloads' = Loaded
  /\ BatchAct /\ UNCHANGED <<bank, status, batchOf, ocr, snapshots, approvedTable, saves>>

\* selectRun, another page, and persistBatchTablesOnUnload when the tab goes
Leave ==
  /\ page # "none" /\ page' = "none" /\ payloads' = [b \in Batch |-> Empty]
  /\ \E hidden \in {page = "node", FALSE} :
       LET left == {b \in Batch : Files(b) # {} /\ HasRows(payloads[b])} IN
       saves' = IF hidden THEN saves \cup {[b |-> b, p |-> payloads[b], next |-> {}] : b \in left}
                ELSE saves
  /\ UNCHANGED <<bank, status, batchOf, ocr, snapshots, approvedTable, batchActs>>

\* onTableChange of a batch's table: a code is chosen or deployed, or a row deleted
RowChanged(p, r) == {[p EXCEPT !.list = (@ \ {r}) \cup {[r EXCEPT !.code = TRUE]}],
                  [p EXCEPT !.list = @ \ {r}]}

\* onBatchTableChange
EditNode ==
  /\ page = "node"
  /\ \E b \in Batch : \E r \in payloads[b].list : \E p \in RowChanged(payloads[b], r) :
       payloads' = [payloads EXCEPT ![b] = p] /\ SaveBatch(b, p, {})
  /\ BatchAct /\ UNCHANGED <<bank, status, batchOf, ocr, snapshots, approvedTable, page>>

\* an edit in the module and its Save, persisted with moduleSavedAt
SaveModule ==
  /\ page = "books"
  /\ \E b \in Batch : \E r \in payloads[b].list : \E q \in RowChanged(payloads[b], r) :
       LET p == [q EXCEPT !.saved = TRUE] IN
       payloads' = [payloads EXCEPT ![b] = p] /\ snapshots' = [snapshots EXCEPT ![b] = p]
  /\ BatchAct /\ UNCHANGED <<bank, status, batchOf, ocr, approvedTable, saves, page>>

\* persistBatchTableSnapshot answered; the awaited next one is sent
Persisted ==
  \E s \in saves :
    /\ snapshots' = [snapshots EXCEPT ![s.b] = s.p]
    /\ saves' = (saves \ {s}) \cup s.next
    /\ UNCHANGED <<bank, status, batchOf, ocr, payloads, approvedTable, page, batchActs>>

\* a snapshot that fails takes the ones after it along
PersistFailed ==
  \E s \in saves :
    /\ saves' = saves \ {s}
    /\ UNCHANGED <<bank, status, batchOf, ocr, payloads, snapshots, approvedTable, page, batchActs>>

\* handleMoveFileToBatch, once the server has moved the file
MoveFile ==
  /\ page = "node"
  /\ \E f \in File : \E to \in Batch \ {batchOf[f]} : \E gone \in Moving(payloads[batchOf[f]], f) :
       LET from == batchOf[f]
           next == Moved(payloads, f, from, to, gone) IN
       /\ Returns \/ from = Placed[f]
       /\ batchOf' = [batchOf EXCEPT ![f] = to] /\ payloads' = next
       /\ SaveBatch(from, next[from], {[b |-> to, p |-> next[to], next |-> {}]})
  /\ BatchAct /\ UNCHANGED <<bank, status, ocr, snapshots, approvedTable, page>>

\* handleReVlm: an approved run is locked; the new extraction appears at the run
ReVlm ==
  /\ page = "node" /\ status = "awaiting_review"
  /\ \E f \in File : \E k \in 1 .. MaxRow[f] :
       /\ ocr[f].v = 1 /\ ocr' = [ocr EXCEPT ![f] = [v |-> 2, rows |-> 1 .. k]]
  /\ status' = "executing"
  /\ BatchAct /\ UNCHANGED <<bank, batchOf, payloads, snapshots, approvedTable, saves, page>>

\* applyTableAfterVlm: the snapshots of the server over what is shown, then the merge
ReVlmAnswered ==
  /\ status = "executing" /\ status' = "awaiting_review"
  /\ \E f \in {f \in File : ocr[f].v = 2} :
       LET b == batchOf[f]
           base == [c \in Batch |-> IF snapshots[c] # Empty THEN snapshots[c] ELSE payloads[c]]
           next == [base EXCEPT ![b] = Resolved(base[b], {f})] IN
       IF page = "node"
       THEN payloads' = next /\ SaveBatch(b, next[b], {})
       ELSE UNCHANGED <<payloads, saves>>
  /\ UNCHANGED <<bank, batchOf, ocr, snapshots, approvedTable, page, batchActs>>

\* syncTableFromRun on an event or a poll: no batch shrinks while the run awaits review
Sync ==
  /\ page = "node" /\ status \in {"executing", "awaiting_review"}
  /\ LET new(b) == Resolved(payloads[b], Files(b))
         up == {b \in Batch : /\ Files(b) # {} /\ HasRows(new(b))
                              /\ Count(new(b)) > Count(payloads[b]) \/ ~ HasRows(payloads[b])
                                 \/ status = "executing"} IN
     /\ up # {}
     /\ payloads' = [b \in Batch |-> IF b \in up THEN new(b) ELSE payloads[b]]
     /\ saves' = IF status = "executing" THEN saves
                 ELSE saves \cup {[b |-> b, p |-> payloads'[b], next |-> {}] : b \in up}
  /\ payloads' # payloads
  /\ UNCHANGED <<bank, status, batchOf, ocr, snapshots, approvedTable, page, batchActs>>

\* handleApprove of the node workspace: combine, then resume
ApproveNode ==
  /\ page = "node" /\ status = "awaiting_review"
  /\ approvedTable' = Combined(payloads) /\ HasRows(approvedTable')
  /\ status' = "completed"
  /\ BatchAct /\ UNCHANGED <<bank, batchOf, ocr, payloads, snapshots, saves, page>>

\* approve of the processing page: the combined sheet with the list the user edited
ApproveProcessing ==
  /\ page = "none" /\ status = "awaiting_review"
  /\ LET all == Combined(Reconciled(Filled(Loaded, Built))) IN
     \E r \in all.list : \E p \in RowChanged(all, r) \cup {all} :
       HasRows(p) /\ approvedTable' = p
  /\ status' = "completed"
  /\ BatchAct /\ UNCHANGED <<bank, batchOf, ocr, payloads, snapshots, saves, page>>

\* the completed run's effect: module saves first, then the approved package
ShowCompleted ==
  /\ page = "node" /\ status = "completed"
  /\ payloads' = Filled(Loaded, Filled(Mapped(approvedTable), Built)) /\ payloads' # payloads
  /\ UNCHANGED <<bank, status, batchOf, ocr, snapshots, approvedTable, saves, page, batchActs>>

\* its catch: the extraction is shown again
CompletedFailed ==
  /\ page = "node" /\ status = "completed"
  /\ payloads' = Built /\ payloads' # payloads
  /\ UNCHANGED <<bank, status, batchOf, ocr, snapshots, approvedTable, saves, page, batchActs>>

TablesNext ==
  \/ OpenNode \/ OpenBooks \/ Leave \/ EditNode \/ SaveModule
  \/ Persisted \/ PersistFailed \/ MoveFile \/ ReVlm \/ ReVlmAnswered \/ Sync
  \/ ApproveNode \/ ApproveProcessing \/ ShowCompleted \/ CompletedFailed

TablesSpec == TablesInit /\ [][TablesNext]_tables

-----------------------------------------------------------------------------
\* No row of a document is approved twice, as long as no file is moved a second time: an old
\* and a new extraction of it, or the copies a move left in two batches, never reach the
\* module together (mergeTablePayload, combineBatchTablePayloads).
ApprovedOnce ==
  \A r, q \in approvedTable.list : Key(r) = Key(q) => r = q

=============================================================================
