----------------------------- MODULE WorkflowRun -----------------------------
(***************************************************************************)
(* One BANK document run (graph/workflow_service.py behind                 *)
(* api/workflows.py, driven by graph/executor.py): its files go through    *)
(* OCR in a loop, the reviewer marks or retries pages, and approves.       *)
(*                                                                         *)
(* The backend is one event loop, and a loop suspends while it awaits OCR  *)
(* (pc ocr) or sends a snapshot to the browsers (pc check): a step is what *)
(* one request does in between.  Nothing keeps two requests from looping   *)
(* over one run, so Loop is a set of request slots.  A cancel sets its     *)
(* flag and resets the run without suspending, so loops see the new run    *)
(* status, never the flag, and the flag is not kept.  A file has one page. *)
(***************************************************************************)
EXTENDS Naturals, FiniteSets

CONSTANTS
  File,        \* uploads of the run
  Loop,        \* slots for requests that loop over files
  NoFile,
  NoRetry,
  MaxRetries,  \* maxRetries of the VLM node, whose timeout is set as well
  Features     \* what an instance has besides uploads, execute, cancel and resume

ASSUME WorkflowAssumption ==
  /\ IsFiniteSet(File) /\ NoFile \notin File
  /\ MaxRetries \in Nat
  /\ Features \subseteq {"rerun", "reVlm", "rebuild", "partial", "capped", "timeout", "recover",
                         "crash", "mark", "retry"}

VARIABLES
  runStatus,   \* WorkflowRun.run_status
  approved,    \* node_states_json has an approved_payload with rows
  table,       \* node_states_json has stored review rows (merged_ocr)
  fileStatus,  \* WorkflowRunFile.file_status
  committed,   \* WorkflowRunFile.batch_committed_at is set
  page,        \* the page in WorkflowRunFile.result_summary_json
  loop,        \* the request in each slot
  retry,       \* a page retry that awaits OCR, with the rows it has read
  overwrote    \* history: a page retry has written over newer rows

run == <<runStatus, approved, table>>
files == <<fileStatus, committed, page>>
vars == <<runStatus, approved, table, fileStatus, committed, page, loop, retry, overwrote>>

RunStatus == {"draft", "executing", "awaiting_review", "completed"}
FileStatus == {"absent", "pending", "running", "ok", "warning", "failed", "stopped", "cancelled"}
Answer == {"rows", "empty", "error"}       \* what OCR says of a page
Page == Answer \union {"none", "reviewed"}

Request ==
  [pc : {"idle", "check", "ocr"}, kind : {"execute", "reVlm"}, todo : SUBSET File,
   file : File \union {NoFile}, got : BOOLEAN, tries : 0 .. MaxRetries]
Returned ==
  [pc |-> "idle", kind |-> "execute", todo |-> {}, file |-> NoFile,
   got |-> FALSE, tries |-> 0]
Started(kind, S) ==
  [pc |-> "check", kind |-> kind, todo |-> S, file |-> NoFile, got |-> FALSE, tries |-> 0]

Snapshot ==
  [file : File, status : FileStatus, page : Page,
   run : RunStatus, approved : BOOLEAN, table : BOOLEAN]

TypeOK ==
  /\ runStatus \in RunStatus
  /\ approved \in BOOLEAN /\ table \in BOOLEAN /\ overwrote \in BOOLEAN
  /\ fileStatus \in [File -> FileStatus]
  /\ committed \in [File -> BOOLEAN]
  /\ page \in [File -> Page]
  /\ loop \in [Loop -> Request]
  /\ retry \in Snapshot \union {NoRetry}

Init ==
  /\ runStatus = "draft" /\ approved = FALSE /\ table = FALSE
  /\ fileStatus = [f \in File |-> "absent"]
  /\ committed = [f \in File |-> FALSE]
  /\ page = [f \in File |-> "none"]
  /\ loop = [l \in Loop |-> Returned]
  /\ retry = NoRetry
  /\ overwrote = FALSE

Executing == runStatus = "executing"
Locked == runStatus = "completed" /\ approved
LiveRows(st, pg) == \E f \in File : st[f] \in {"ok", "running", "warning"} /\ pg[f] = "rows"

UploadRunFile(f) ==
  /\ fileStatus[f] = "absent"
  /\ fileStatus' = [fileStatus EXCEPT ![f] = "pending"]
  /\ UNCHANGED <<run, committed, page, loop, retry, overwrote>>

-----------------------------------------------------------------------------
(* Starting: which files a request will loop over.                         *)

Processable(st, cm) ==
  {f \in File : st[f] \in {"pending", "warning", "failed", "stopped", "cancelled"} /\ ~ cm[f]}

DraftReset(s, st, cm) ==
  [f \in File |->
     IF s = "draft" /\ (st[f] \in {"running", "stopped", "cancelled"} \/ (st[f] = "ok" /\ ~ cm[f]))
     THEN "pending" ELSE st[f]]

(* prepare_run_files_for_execute on a run in status s; an empty batch is   *)
(* answered with 400, after the reopening has been committed.              *)
Prepared(s, st, cm) ==
  LET reset == DraftReset(s, st, cm)
      open  == IF Processable(reset, cm) # {} THEN cm
               ELSE [f \in File |-> cm[f] /\ reset[f] = "ok"]
      batch == Processable(reset, open)
  IN  [status |-> reset, committed |-> [f \in File |-> open[f] \/ f \in batch], batch |-> batch]

(* The VLM node of a graph prepares the files again, after its Files node. *)
PreparedTwice(s, st, cm) ==
  LET p == Prepared(s, st, cm)
  IN  IF p.batch = {} THEN p ELSE Prepared(s, p.status, p.committed)

(* What execute does to a run with status s and files st, cm; executing    *)
(* again while another request loops is not refused.                       *)
StartExecute(l, s, st, cm) ==
  LET p == PreparedTwice(s, st, cm)
  IN  /\ fileStatus' = p.status
      /\ committed' = p.committed
      /\ \/ p.batch = {} /\ runStatus' = s /\ UNCHANGED loop
         \/ /\ p.batch # {}
            /\ runStatus' = "executing"
            /\ loop' = [loop EXCEPT ![l] = Started("execute", p.batch)]

Execute(l) ==
  /\ loop[l].pc = "idle"
  /\ StartExecute(l, runStatus, fileStatus, committed)
  /\ UNCHANGED <<approved, table, page, retry, overwrote>>

(* POST rerun: node states and file statuses go, stored pages stay.        *)
Rerun(l) ==
  /\ "rerun" \in Features
  /\ loop[l].pc = "idle"
  /\ StartExecute(l, "draft", [f \in File |-> IF fileStatus[f] = "absent" THEN "absent" ELSE "pending"],
                  [f \in File |-> FALSE])
  /\ approved' = FALSE /\ table' = FALSE
  /\ UNCHANGED <<page, retry, overwrote>>

StartReVlm(l, S) ==
  /\ loop[l].pc = "idle"
  /\ ~ Locked
  /\ S # {} /\ \A f \in S : fileStatus[f] # "absent"
  /\ runStatus' = "executing"
  /\ loop' = [loop EXCEPT ![l] = Started("reVlm", S)]
  /\ UNCHANGED <<committed, retry, overwrote>>

ReVlmFiles(l, S) ==
  /\ "reVlm" \in Features
  /\ StartReVlm(l, S)
  /\ UNCHANGED <<approved, table, fileStatus, page>>

RebuildReview(l, S) ==
  /\ "rebuild" \in Features
  /\ StartReVlm(l, S)
  /\ fileStatus' = [f \in File |-> IF f \in S THEN "pending" ELSE fileStatus[f]]
  /\ page' = [f \in File |-> IF f \in S THEN "none" ELSE page[f]]
  /\ approved' = FALSE /\ table' = FALSE

-----------------------------------------------------------------------------
(* The loop.                                                               *)

LeaveOnDraft(l) ==   \* mutant: only a run that is back in draft ends the loop
  /\ loop[l].pc = "check" /\ runStatus = "draft"
  /\ loop' = [loop EXCEPT ![l] = Returned]
  /\ UNCHANGED <<run, files, retry, overwrote>>

(* The stop check before a file: a run that is not executing ends the loop. *)
Leave(l) ==
  /\ loop[l].pc = "check" /\ ~ Executing
  /\ loop' = [loop EXCEPT ![l] = Returned]
  /\ UNCHANGED <<run, files, retry, overwrote>>

(* The node's call budget for a file is used up: the file is passed over.  *)
SkipCapped(l, f) ==
  /\ "capped" \in Features
  /\ loop[l].pc = "check" /\ Executing /\ loop[l].kind = "execute"
  /\ f \in loop[l].todo
  /\ loop' = [loop EXCEPT ![l].todo = @ \ {f}, ![l].got = TRUE]
  /\ UNCHANGED <<run, files, retry, overwrote>>

BeginFile(l, f) ==
  /\ loop[l].pc = "check" /\ Executing
  /\ f \in loop[l].todo
  /\ fileStatus' = [fileStatus EXCEPT ![f] = "running"]
  /\ loop' = [loop EXCEPT ![l].pc = "ocr", ![l].file = f]
  /\ UNCHANGED <<run, committed, page, retry, overwrote>>

(* An acknowledged page is kept, whatever OCR says of it.                  *)
MergedLate(f, p) == p   \* mutant: the answer replaces the stored pages
Merged(f, p) == IF page[f] = "reviewed" THEN "reviewed" ELSE p

(* persist_workflow_ocr_partial: the page goes to the first running file.  *)
PersistPartial(l) ==
  /\ "partial" \in Features
  /\ loop[l].pc = "ocr" /\ Executing
  /\ \E g \in File, p \in Answer :
       /\ fileStatus[g] = "running"
       /\ page' = [page EXCEPT ![g] = Merged(g, p)]
  /\ table' = (table \/ LiveRows(fileStatus, page'))
  /\ UNCHANGED <<runStatus, approved, fileStatus, committed, loop, retry, overwrote>>

StatusAlwaysOk(f, p) == "ok"   \* mutant: a finished file passes
StatusOf(f, p) ==
  IF p = "empty" THEN "warning" ELSE IF fileStatus[f] = "failed" THEN "failed" ELSE "ok"

AnswerStored(f) ==
  \E p \in Answer :
    /\ page' = [page EXCEPT ![f] = Merged(f, p)]
    /\ fileStatus' = [fileStatus EXCEPT ![f] = StatusOf(f, Merged(f, p))]

(* An exception fails the file; an HTTP error also drops the stored pages.  *)
(* Neither looks at the run.                                               *)
CallFailed(f) ==
  /\ \E p \in {"none", page[f]} : page' = [page EXCEPT ![f] = p]
  /\ fileStatus' = [fileStatus EXCEPT ![f] = "failed"]

StopUnseen(f) == AnswerStored(f)   \* mutant: the run is not read after the await
AnswerDropped(f) ==
  /\ fileStatus' = [fileStatus EXCEPT ![f] = "stopped"]
  /\ UNCHANGED page

(* OCR returns.  The run is read again: is it not executing, an answer is  *)
(* dropped and the request returns.                                        *)
FinishFile(l) ==
  LET f == loop[l].file
  IN  /\ loop[l].pc = "ocr"
      /\ \/ /\ Executing
            /\ AnswerStored(f) \/ CallFailed(f)
            /\ table' = (table \/ LiveRows(fileStatus', page'))
            /\ loop' = [loop EXCEPT ![l].pc = "check", ![l].file = NoFile,
                                    ![l].todo = @ \ {f},
                                    ![l].got = @ \/ fileStatus'[f] \in {"ok", "warning"}]
         \/ /\ ~ Executing
            /\ AnswerDropped(f) \/ CallFailed(f)
            /\ loop' = [loop EXCEPT ![l] = Returned]
            /\ UNCHANGED table
      /\ UNCHANGED <<runStatus, approved, committed, retry, overwrote>>

MayRetry(l) == loop[l].tries < MaxRetries

(* The executor calls the VLM node again from its start; without files to  *)
(* process it gives up, and the 400 is answered without a recovery.        *)
NodeRetried(l, s) ==
  LET p == Prepared(s, fileStatus, committed)
  IN  /\ fileStatus' = p.status
      /\ committed' = p.committed
      /\ runStatus' = IF p.batch = {} THEN s ELSE "executing"
      /\ loop' = [loop EXCEPT ![l] =
                    IF p.batch = {} THEN Returned
                    ELSE [Started("execute", p.batch) EXCEPT !.tries = loop[l].tries + 1]]

(* After the last file; an execute without any result goes back to draft.  *)
NoResults(l) ==
  /\ loop[l].kind = "execute" /\ ~ loop[l].got
  /\ \E f \in File : fileStatus[f] = "pending"

FinishLoop(l) ==
  /\ loop[l].pc = "check" /\ Executing /\ loop[l].todo = {}
  /\ \/ /\ ~ NoResults(l)
        /\ runStatus' = "awaiting_review"
        /\ table' = (table \/ LiveRows(fileStatus, page))
        /\ loop' = [loop EXCEPT ![l] = Returned]
        /\ UNCHANGED files
     \/ /\ NoResults(l) /\ ~ MayRetry(l)
        /\ runStatus' = "draft"
        /\ loop' = [loop EXCEPT ![l] = Returned]
        /\ UNCHANGED <<table, files>>
     \/ /\ NoResults(l) /\ MayRetry(l)
        /\ NodeRetried(l, "draft")
        /\ UNCHANGED <<table, page>>
  /\ UNCHANGED <<approved, retry, overwrote>>

-----------------------------------------------------------------------------
(* Stop, recovery, node timeouts and crashes.                              *)

(* recover_stuck_execution                                                 *)
Recovered ==
  /\ runStatus' = IF ~ Executing THEN runStatus
                  ELSE IF table \/ LiveRows(fileStatus, page) THEN "awaiting_review" ELSE "draft"
  /\ table' = (table \/ (Executing /\ LiveRows(fileStatus, page)))
  /\ fileStatus' = [f \in File |-> IF fileStatus[f] = "running" THEN "pending" ELSE fileStatus[f]]
  /\ UNCHANGED <<approved, committed, page, retry, overwrote>>

RecoverStuck == "recover" \in Features /\ Recovered /\ UNCHANGED loop

(* wait_for cancels the VLM node while it awaits OCR: its file stays       *)
(* running.  After the last try the timeout itself is answered, recovered.  *)
NodeTimeout(l) ==
  /\ loop[l].pc = "ocr" /\ loop[l].kind = "execute"
  /\ "timeout" \in Features
  /\ \/ /\ MayRetry(l)
        /\ NodeRetried(l, runStatus)
        /\ UNCHANGED <<approved, table, page, retry, overwrote>>
     \/ /\ ~ MayRetry(l)
        /\ Recovered
        /\ loop' = [loop EXCEPT ![l] = Returned]

(* request_run_cancel of an executing run.                                 *)
Stopped ==
  LET st == [f \in File |-> CASE fileStatus[f] = "running" -> "stopped"
                              [] fileStatus[f] = "pending" -> "cancelled"
                              [] OTHER -> fileStatus[f]]
      some == \E f \in File : st[f] \in {"ok", "warning"}
  IN  /\ fileStatus' = st
      /\ runStatus' = IF some THEN "awaiting_review" ELSE "draft"
      /\ table' = (table \/ (some /\ LiveRows(st, page)))

CancelRun ==
  \/ Executing /\ Stopped /\ UNCHANGED <<approved, committed, page, loop, retry, overwrote>>
  \/ ~ Executing /\ Recovered /\ UNCHANGED loop

Crash ==
  /\ "crash" \in Features
  /\ loop' = [l \in Loop |-> Returned]
  /\ retry' = NoRetry
  /\ UNCHANGED <<run, files, overwrote>>

-----------------------------------------------------------------------------
(* Review.                                                                 *)

(* mark_bank_page_reviewed_with_no_rows                                    *)
MarkReviewed(f) ==
  /\ "mark" \in Features
  /\ ~ Locked
  /\ page[f] = "empty"
  /\ page' = [page EXCEPT ![f] = "reviewed"]
  /\ fileStatus' = IF fileStatus[f] = "failed" \/ (Executing /\ fileStatus[f] \in {"running", "pending"})
                   THEN fileStatus ELSE [fileStatus EXCEPT ![f] = "ok"]
  /\ runStatus' = IF Executing THEN runStatus ELSE "awaiting_review"
  /\ table' = (table \/ (~ Executing /\ LiveRows(fileStatus', page')))
  /\ UNCHANGED <<approved, committed, loop, retry, overwrote>>

(* retry_bank_empty_extract_page reads the rows, then awaits OCR.          *)
StartRetry(f) ==
  /\ "retry" \in Features
  /\ retry = NoRetry
  /\ ~ Locked
  /\ page[f] \in {"empty", "error"}
  /\ retry' = [file |-> f, status |-> fileStatus[f], page |-> page[f],
               run |-> runStatus, approved |-> approved, table |-> table]
  /\ UNCHANGED <<run, files, loop, overwrote>>

StaleRetry ==
  \/ retry.status # fileStatus[retry.file] \/ retry.page # page[retry.file]
  \/ retry.run # runStatus \/ retry.approved # approved

(* It writes back what it has read, with the new page.  The session        *)
(* updates a plain column only when it differs from the value it read.     *)
FinishRetry(p) ==
  LET f == retry.file
      target == IF p = "empty" THEN "warning" ELSE IF retry.status = "failed" THEN "failed" ELSE "ok"
  IN  /\ retry # NoRetry
      /\ page' = [page EXCEPT ![f] = p]
      /\ fileStatus' = IF target = retry.status THEN fileStatus
                       ELSE [fileStatus EXCEPT ![f] = target]
      /\ runStatus' = IF retry.run = "awaiting_review" THEN runStatus ELSE "awaiting_review"
      /\ approved' = retry.approved
      /\ table' = (retry.table \/ LiveRows([fileStatus EXCEPT ![f] = target], page'))
      /\ overwrote' = (overwrote \/ StaleRetry)
      /\ retry' = NoRetry
      /\ UNCHANGED <<committed, loop>>

FailRetry ==
  /\ retry # NoRetry
  /\ retry' = NoRetry
  /\ UNCHANGED <<run, files, loop, overwrote>>

NoPendingPage == \A f \in File : page[f] # "empty"

ResumeUnchecked ==   \* mutant: pages that need a retry are not looked for
  /\ runStatus = "awaiting_review"
  /\ approved' = TRUE /\ runStatus' = "completed"
  /\ UNCHANGED <<table, files, loop, retry, overwrote>>

(* resume_run: a draft with rows is promoted first; the approved payload   *)
(* is committed before the save node runs, which may fail.                 *)
ResumeRun ==
  /\ \/ runStatus = "awaiting_review"
     \/ runStatus = "draft" /\ (table \/ LiveRows(fileStatus, page))
  /\ table' = (table \/ runStatus = "draft")
  /\ \/ runStatus = "draft" /\ runStatus' = "awaiting_review" /\ UNCHANGED approved
     \/ NoPendingPage /\ approved' = TRUE /\ runStatus' \in {"awaiting_review", "completed"}
  /\ UNCHANGED <<files, loop, retry, overwrote>>

-----------------------------------------------------------------------------
LoopStep(l) ==
  \/ Leave(l)
  \/ \E f \in File : BeginFile(l, f) \/ SkipCapped(l, f)
  \/ FinishFile(l)
  \/ FinishLoop(l)

Next ==
  \/ \E f \in File : UploadRunFile(f) \/ MarkReviewed(f) \/ StartRetry(f)
  \/ \E l \in Loop :
       \/ Execute(l) \/ Rerun(l)
       \/ \E S \in SUBSET File : ReVlmFiles(l, S) \/ RebuildReview(l, S)
       \/ LoopStep(l) \/ PersistPartial(l) \/ NodeTimeout(l)
  \/ RecoverStuck \/ CancelRun \/ Crash
  \/ \E p \in {"rows", "empty"} : FinishRetry(p)
  \/ FailRetry
  \/ ResumeRun

Spec == Init /\ [][Next]_vars
FairSpec == Spec /\ \A l \in Loop : WF_vars(LoopStep(l))
-----------------------------------------------------------------------------
(* A file is never Passed while its page still needs a retry (comment at   *)
(* workflow_service.py:1598), except after a page retry wrote over newer   *)
(* rows: that retry may leave the status to a column it did not update.    *)
PassedHidesNothing ==
  overwrote \/ \A f \in File : fileStatus[f] = "ok" => page[f] # "empty"

(* An approved table has no page that needs a retry, however loops, stops, *)
(* restarts and marks interleave with the approval; only a page retry that *)
(* wrote over newer rows may break it.                                     *)
ApprovedIsComplete ==
  overwrote \/ (Locked => NoPendingPage)

(* OCR that answers after the run was stopped, finished or approved brings *)
(* no rows in: stored rows and run status stay, no page gets new content   *)
(* (a failing call may drop one) and no file is reported as done.          *)
LateAnswerIsDropped ==
  [][\A l \in Loop :
       loop[l].pc = "ocr" /\ loop'[l] # loop[l] /\ ~ Executing /\ ~ Executing'
       => /\ table' = table /\ runStatus' = runStatus
          /\ \A f \in File :
               /\ page'[f] \in {page[f], "none"}
               /\ fileStatus'[f] \in {"ok", "warning"} => fileStatus'[f] = fileStatus[f]]_vars

(* "Mark wins" (bank_empty_extract.py:451): no OCR answer, late or partial, *)
(* turns an acknowledged page back; a rebuild or a failing file drops the   *)
(* stored pages altogether, and a page retry overwrites the mark.           *)
MarkWins ==
  [][\A f \in File :
       page[f] = "reviewed" =>
         \/ page'[f] \in {"reviewed", "none"}
         \/ retry # NoRetry /\ retry.file = f /\ retry' = NoRetry]_vars

(* Every request that loops over files returns, whatever is stopped,       *)
(* restarted or marked meanwhile, if its own steps and OCR go on.          *)
RequestsReturn ==
  \A l \in Loop : loop[l].pc # "idle" ~> loop[l].pc = "idle"

(* "Re-VLM is disabled to avoid conflicting updates" once a table is       *)
(* approved (RE_VLM_LOCKED_DETAIL, workflow_service.py:354): the pages and *)
(* the approval of a locked run stay until somebody executes it again.     *)
LockedTableFrozen ==
  [][Locked /\ ~ Executing' /\ runStatus' # "draft" => page' = page /\ Locked']_vars

=============================================================================
