----------------------------- MODULE TaskCodes -----------------------------
(***************************************************************************)
(* One AR or AP table of the classic workspace and its account codes, in   *)
(* their four places: on screen (the task's message), in the message's     *)
(* snapshot (PATCH, debounced), in the books' rows (bulk save, debounced   *)
(* apart) and in ocrLastPersistedAccountCodesRef, what was last sent.      *)
(* The table changes by edits, by Deploy Codes (handleDeployCodes), by the *)
(* patches of an AI chat answer and by the retry of a page that OCR could  *)
(* not read, which builds it anew (all in WorkspaceApp.tsx).               *)
(* A row of a posted voucher is locked once the workspace has been told.   *)
(***************************************************************************)
EXTENDS Naturals, Sequences, FiniteSets

CONSTANTS Row, Code, NoCode,
          IdNumber,       \* [Row -> id_number]: what Deploy Codes and the chat key their answers by
          FailedRow,      \* the row of the page that can be retried
          MaxActs         \* bound: user commands

CodesAssumption == NoCode \notin Code /\ FailedRow \in Row /\ MaxActs \in Nat

VARIABLES table,          \* on screen: rows, their codes, whether they carry ids of the books
          posted,         \* rows known to be of a posted voucher (glPosted...LockKeys)
          snap, due, reqs,\* the saved snapshot, the debounced one, PATCHes in the order sent
          drift,          \* (history) the snapshot cannot follow the screen until the next change
          books, codeDue, codeReqs, sent,
          deploy,         \* a Deploy Codes run
          chat, retries,  \* aiThinkingTaskIds; page retries under way
          acts
codes == <<table, posted, snap, due, reqs, drift, books, codeDue, codeReqs, sent,
           deploy, chat, retries, acts>>
shot  == <<snap, reqs>>
bulk  == <<books, codeReqs, sent>>

Blank == [r \in Row |-> NoCode]
NoRun == [stage |-> "none", of |-> [rows |-> {}, codes |-> Blank, linked |-> FALSE],
          locked |-> {}, got |-> [n \in {} |-> NoCode]]
UserAct == acts < MaxActs /\ acts' = acts + 1
Free    == table.rows \ posted

CodesInit ==
    /\ table = [rows |-> Row, codes |-> Blank, linked |-> TRUE] /\ posted = {}
    /\ snap = table /\ due = <<>> /\ reqs = <<>> /\ drift = FALSE
    /\ books = Blank /\ codeDue = FALSE /\ codeReqs = {} /\ sent = Blank
    /\ deploy = NoRun /\ chat = FALSE /\ retries = 0 /\ acts = 0

(* ------------------------------- the table ------------------------------ *)
\* setMessages, and debouncedSaveSnapshot with the same table
Show(t) == table' = t /\ due' = <<t>> /\ drift' = FALSE
Pick ==             \* updateAccountCode, onDataChange
    /\ UserAct
    /\ \E r \in Free, c \in Code : c # table.codes[r] /\ Show([table EXCEPT !.codes[r] = c])
    /\ codeDue' = TRUE
    /\ UNCHANGED <<posted, shot, bulk, deploy, chat, retries>>
DeleteRow ==
    /\ UserAct
    /\ \E r \in Free : Show([table EXCEPT !.rows = @ \ {r}, !.codes[r] = NoCode])
    /\ codeDue' = TRUE
    /\ UNCHANGED <<posted, shot, bulk, deploy, chat, retries>>
PostedLearned ==    \* a voucher is posted in RECON, its group's status arrives
    /\ UserAct /\ \E r \in Free : posted' = posted \cup {r}
    /\ UNCHANGED <<table, due, drift, codeDue, shot, bulk, deploy, chat, retries>>

(* ----------------------------- the snapshot ----------------------------- *)
SnapFires ==
    /\ due # <<>> /\ reqs' = Append(reqs, [t |-> due[1], late |-> FALSE]) /\ due' = <<>>
    /\ UNCHANGED <<table, posted, snap, drift, bulk, codeDue, deploy, chat, retries, acts>>

\* PATCHes are not sequenced: any of those under way is served next, or lost with only a
\* warning.  One served after a newer one, or after a reload, is late.
Newer(i) == due # <<>> \/ \E j \in i + 1..Len(reqs) : ~reqs[j].late
Others(i, lateTo) ==
    [j \in 1..Len(reqs) - 1 |-> IF j < i THEN [reqs[j] EXCEPT !.late = @ \/ j <= lateTo] ELSE reqs[j + 1]]
SnapSaved(i) ==
    /\ snap' = reqs[i].t /\ reqs' = Others(i, i)
    /\ drift' = (drift \/ (reqs[i].late /\ ~Newer(i)))
    /\ UNCHANGED <<table, posted, due, bulk, codeDue, deploy, chat, retries, acts>>
SnapLost(i) ==
    /\ reqs' = Others(i, 0)
    /\ drift' = (drift \/ (~reqs[i].late /\ ~Newer(i)))
    /\ UNCHANGED <<table, posted, snap, due, bulk, codeDue, deploy, chat, retries, acts>>

(* --------------------------- the books' codes --------------------------- *)
Updates  == {r \in Free : table.linked /\ table.codes[r] # sent[r]}
Pruned   == IF table.linked THEN table.codes ELSE Blank       \* prunedNext
CodesFire ==        \* flushOcrAccountCodePersist
    /\ codeDue /\ codeDue' = FALSE
    /\ IF Updates = {} THEN sent' = Pruned /\ UNCHANGED codeReqs
       ELSE codeReqs' = codeReqs \cup {[upd |-> Updates, codes |-> table.codes, kept |-> FALSE, page |-> TRUE]}
            /\ UNCHANGED sent
    /\ UNCHANGED <<table, posted, shot, due, drift, books, deploy, chat, retries, acts>>
Written(b, S, f) == [r \in Row |-> IF r \in S THEN f[r] ELSE b[r]]
CodesKept(q) ==     \* the server, which refuses all when one row is posted
    /\ ~q.kept /\ q.upd \cap posted = {} /\ books' = Written(books, q.upd, q.codes)
    /\ codeReqs' = (codeReqs \ {q}) \cup {[q EXCEPT !.kept = TRUE]}
    /\ UNCHANGED <<table, posted, shot, due, drift, codeDue, sent, deploy, chat, retries, acts>>
\* applyAccountCategorySyncFromDb: what was sent is shown again, over a code picked since
Synced(q) == LET S == {r \in q.upd \cap table.rows : table.linked /\ q.codes[r] # NoCode}
             IN [table EXCEPT !.codes = Written(@, S, q.codes)]
CodesAnswered(q) ==
    /\ q.kept /\ q.page /\ codeReqs' = codeReqs \ {q} /\ sent' = q.codes /\ table' = Synced(q)
    /\ drift' = (drift \/ table' # table)
    /\ UNCHANGED <<posted, shot, due, books, codeDue, deploy, chat, retries, acts>>
CodesFailed(q) ==   \* refused, or no answer, or the page is gone
    /\ codeReqs' = codeReqs \ {q}
    /\ UNCHANGED <<table, posted, shot, due, drift, books, codeDue, sent, deploy, chat, retries, acts>>

(* ------------------------------ Deploy Codes ---------------------------- *)
Deploy ==           \* table and locks as the click sees them; no second run is modelled
    /\ UserAct /\ deploy = NoRun /\ Free # {}
    /\ deploy' = [NoRun EXCEPT !.stage = "asked", !.of = table, !.locked = posted]
    /\ UNCHANGED <<table, posted, due, drift, codeDue, shot, bulk, chat, retries>>
Suggested ==        \* codeMap: one entry per id_number
    /\ deploy.stage = "asked"
    /\ \E f \in [{IdNumber[r] : r \in deploy.of.rows} -> Code \cup {NoCode}] :
          deploy' = [deploy EXCEPT !.stage = "saving", !.got = f]
    /\ UNCHANGED <<table, posted, due, drift, codeDue, shot, bulk, chat, retries, acts>>
\* the unlocked rows of S that got a code, and those codes
Coded(S) == {r \in S \ deploy.locked :
                IdNumber[r] \in DOMAIN deploy.got /\ deploy.got[IdNumber[r]] # NoCode}
GotCode  == [r \in Row |-> IF r \in Coded(Row) THEN deploy.got[IdNumber[r]] ELSE NoCode]
BulkSaved ==        \* persistFiltered, written or not
    \/ UNCHANGED books
    \/ LET S == Coded(deploy.of.rows)
       IN deploy.of.linked /\ S \cap posted = {} /\ books' = Written(books, S, GotCode)
Patched(t) == [t EXCEPT !.codes = Written(@, Coded(t.rows), GotCode)]
\* the snapshot is taken inside the updater of setMessages, from the table it patches
PatchedNow   == Patched(table)
PatchedClick == Patched(deploy.of)          \* (bug) from the table of the click
SavedTable   == PatchedNow
DeployDone ==
    /\ deploy.stage = "saving" /\ deploy' = NoRun
    /\ BulkSaved
    /\ sent' = [r \in Row |-> IF r \notin deploy.of.rows \/ ~deploy.of.linked THEN sent[r]
                              ELSE IF r \in deploy.locked THEN deploy.of.codes[r] ELSE GotCode[r]]
    /\ table' = Patched(table) /\ due' = <<SavedTable>> /\ drift' = FALSE
    /\ UNCHANGED <<posted, shot, codeDue, codeReqs, chat, retries, acts>>
DeployFailed ==
    /\ deploy.stage = "asked" /\ deploy' = NoRun
    /\ UNCHANGED <<table, posted, due, drift, codeDue, shot, bulk, chat, retries, acts>>

(* ----------------------- AI chat and page retries ----------------------- *)
ChatSent ==
    /\ UserAct /\ ~chat /\ chat' = TRUE
    /\ UNCHANGED <<table, posted, due, drift, codeDue, shot, bulk, deploy, retries>>
ChatAnswered ==     \* table_patches by id_number, with the locks of now; no save of codes
    /\ chat /\ chat' = FALSE
    /\ \E n \in {IdNumber[r] : r \in Row}, c \in Code :
          Show([table EXCEPT !.codes = [r \in Row |-> IF r \in Free /\ IdNumber[r] = n THEN c ELSE @[r]]])
    /\ UNCHANGED <<posted, codeDue, shot, bulk, deploy, retries, acts>>
ChatFailed ==
    /\ chat /\ chat' = FALSE
    /\ UNCHANGED <<table, posted, due, drift, codeDue, shot, bulk, deploy, retries, acts>>

RetryPage ==        \* handleRetryOcrFailedPage
    /\ UserAct /\ FailedRow \in table.rows /\ retries' = retries + 1
    /\ UNCHANGED <<table, posted, due, drift, codeDue, shot, bulk, deploy, chat>>
\* All rows of the batch's files come back as they were read, without codes and ids.  The
\* message is looked up in the task open by now: in another one it is not found.
Rebuilt == [rows |-> Row, codes |-> Blank, linked |-> FALSE]
RetryAnswered ==
    /\ retries > 0 /\ retries' = retries - 1
    /\ \/ Show(Rebuilt)
       \/ due' = <<Rebuilt>> /\ drift' = TRUE /\ UNCHANGED table
    /\ UNCHANGED <<posted, codeDue, shot, bulk, deploy, chat, acts>>
RetryFailed ==
    /\ retries > 0 /\ retries' = retries - 1
    /\ UNCHANGED <<table, posted, due, drift, codeDue, shot, bulk, deploy, chat, acts>>

Reload ==           \* timers, answers and refs are gone; the table is the snapshot
    /\ UserAct /\ table' = snap /\ due' = <<>> /\ drift' = FALSE /\ codeDue' = FALSE
    /\ reqs' = [i \in DOMAIN reqs |-> [reqs[i] EXCEPT !.late = TRUE]]
    /\ codeReqs' = {[q EXCEPT !.page = FALSE] : q \in codeReqs}
    /\ IF deploy.stage = "saving" THEN BulkSaved ELSE UNCHANGED books
    /\ sent' = Blank /\ deploy' = NoRun /\ chat' = FALSE /\ retries' = 0
    /\ UNCHANGED <<posted, snap>>

Command == Pick \/ DeleteRow \/ PostedLearned \/ Deploy \/ ChatSent \/ RetryPage \/ Reload
Saved   == \E i \in DOMAIN reqs : SnapSaved(i) \/ SnapLost(i)
Bulk(q) == CodesKept(q) \/ CodesAnswered(q) \/ CodesFailed(q)
Answers == Suggested \/ DeployDone \/ DeployFailed \/ ChatAnswered \/ ChatFailed \/ RetryAnswered \/ RetryFailed
CodesNext == Command \/ SnapFires \/ Saved \/ CodesFire \/ Answers \/ \E q \in codeReqs : Bulk(q)
CodesSpec == CodesInit /\ [][CodesNext]_codes

(* ------------------------------- properties ----------------------------- *)
\* When no snapshot is due or under way, the saved one is the table on screen: the same
\* rows and the same codes, however edits, Deploy Codes, chat answers and page retries
\* overlapped.  Excepted, until the next change is saved, is what the code lets pass: the
\* newest PATCH lost or overtaken by an older one, the answer of a save of codes that puts
\* an older code back on screen, and a retry answered while another task is open.
SnapshotFollows == due = <<>> /\ reqs = <<>> /\ ~drift => snap = table

============================================================================
