------------------------- MODULE WorkflowRun_proofs -------------------------
(***************************************************************************)
(* Theorems about WorkflowRun, for any number of files, looping requests   *)
(* and node tries, and any part of the API.                                *)
(***************************************************************************)
EXTENDS WorkflowRun, TLAPS

StatusTable == [File -> FileStatus]
CommitTable == [File -> BOOLEAN]

(* A table of statuses in which no file has become done.                   *)
NoNewPass(st, su) == \A f \in File : su[f] \in {"ok", "warning"} => su[f] = st[f]

-----------------------------------------------------------------------------
(* Preparing the files.                                                    *)

(* A file that is reset was not, and is not, Passed by the reset.          *)
LEMMA DraftResetType ==
  ASSUME NEW st \in StatusTable, NEW cm \in CommitTable, NEW s
  PROVE  DraftReset(s, st, cm) \in StatusTable /\ NoNewPass(st, DraftReset(s, st, cm))
BY DEF DraftReset, StatusTable, FileStatus, NoNewPass

(* One preparation keeps the tables well formed and passes no file.        *)
LEMMA PreparedType ==
  ASSUME NEW st \in StatusTable, NEW cm \in CommitTable, NEW s
  PROVE  /\ Prepared(s, st, cm).status \in StatusTable
         /\ Prepared(s, st, cm).committed \in CommitTable
         /\ Prepared(s, st, cm).batch \in SUBSET File
         /\ NoNewPass(st, Prepared(s, st, cm).status)
<1> DEFINE reset == DraftReset(s, st, cm)
           open == IF Processable(reset, cm) # {} THEN cm
                   ELSE [f \in File |-> cm[f] /\ reset[f] = "ok"]
           batch == Processable(reset, open)
           committedNow == [f \in File |-> open[f] \/ f \in batch]
<1>1. Prepared(s, st, cm) = [status |-> reset, committed |-> committedNow, batch |-> batch]
  BY DEF Prepared
<1>2. reset \in StatusTable /\ NoNewPass(st, reset)
  BY DraftResetType
<1>3. batch \in SUBSET File
  BY DEF Processable
<1>4. open \in CommitTable
  <2>1. [f \in File |-> cm[f] /\ reset[f] = "ok"] \in CommitTable
    BY Zenon DEF CommitTable
  <2>2. QED
    BY <2>1
<1>5. committedNow \in CommitTable
  <2> HIDE DEF open, batch
  <2>1. \A f \in File : (open[f] \/ f \in batch) \in BOOLEAN
    OBVIOUS
  <2>2. QED
    BY <2>1, Zenon DEF CommitTable
<1>6. QED
  <2> HIDE DEF reset, open, batch, committedNow
  <2>1. QED
    BY <1>1, <1>2, <1>3, <1>5

(* So do the two preparations of one execution.                            *)
LEMMA PreparedTwiceType ==
  ASSUME NEW st \in StatusTable, NEW cm \in CommitTable, NEW s
  PROVE  /\ PreparedTwice(s, st, cm).status \in StatusTable
         /\ PreparedTwice(s, st, cm).committed \in CommitTable
         /\ PreparedTwice(s, st, cm).batch \in SUBSET File
         /\ NoNewPass(st, PreparedTwice(s, st, cm).status)
<1> DEFINE p == Prepared(s, st, cm)
           q == Prepared(s, p.status, p.committed)
<1>1. PreparedTwice(s, st, cm) = IF p.batch = {} THEN p ELSE q
  BY DEF PreparedTwice
<1>2. /\ p.status \in StatusTable /\ p.committed \in CommitTable
      /\ p.batch \in SUBSET File /\ NoNewPass(st, p.status)
  BY PreparedType
<1>3. /\ q.status \in StatusTable /\ q.committed \in CommitTable
      /\ q.batch \in SUBSET File /\ NoNewPass(p.status, q.status)
  <2> HIDE DEF p
  <2>1. QED
    BY <1>2, PreparedType
<1>4. NoNewPass(st, q.status)
  <2> HIDE DEF p, q
  <2>1. QED
    BY <1>2, <1>3 DEF NoNewPass
<1>5. QED
  <2> HIDE DEF p, q
  <2>1. QED
    BY <1>1, <1>2, <1>3, <1>4

(* The shapes a request slot is set to.                                    *)
LEMMA RequestType ==
  /\ Returned \in Request
  /\ \A kind \in {"execute", "reVlm"}, S \in SUBSET File : Started(kind, S) \in Request
<1>1. 0 \in 0 .. MaxRetries
  BY WorkflowAssumption
<1>2. Returned \in Request
  BY <1>1 DEF Returned, Request
<1>3. ASSUME NEW kind \in {"execute", "reVlm"}, NEW S \in SUBSET File
      PROVE  Started(kind, S) \in Request
  BY <1>1, <1>3 DEF Started, Request
<1>4. QED
  BY <1>2, <1>3

-----------------------------------------------------------------------------
(* Typing.                                                                 *)

LoopTable == [Loop -> Request]
PageTable == [File -> Page]
RunType == runStatus \in RunStatus /\ approved \in BOOLEAN /\ table \in BOOLEAN
FilesType == fileStatus \in StatusTable /\ committed \in CommitTable /\ page \in PageTable
RestType == loop \in LoopTable /\ retry \in Snapshot \union {NoRetry} /\ overwrote \in BOOLEAN

(* The type invariant in three parts, for steps that touch one of them.    *)
LEMMA TypeParts == TypeOK <=> RunType /\ FilesType /\ RestType
BY DEF TypeOK, RunType, FilesType, RestType, StatusTable, CommitTable, PageTable, LoopTable

(* A run just created has a legal shape.                                   *)
LEMMA TypeInit == Init => TypeOK
<1> SUFFICES ASSUME Init PROVE RunType /\ FilesType /\ RestType
  BY TypeParts
<1>1. RunType
  BY DEF Init, RunType, RunStatus
<1>2. FilesType
  BY DEF Init, FilesType, StatusTable, CommitTable, PageTable, FileStatus, Page
<1>3. RestType
  BY RequestType DEF Init, RestType, LoopTable
<1>4. QED
  BY <1>1, <1>2, <1>3

(* What starting an execution does to tables and slots.                    *)
LEMMA StartExecuteType ==
  ASSUME loop \in LoopTable, NEW l \in Loop, NEW s \in RunStatus,
         NEW st \in StatusTable, NEW cm \in CommitTable, StartExecute(l, s, st, cm)
  PROVE  /\ fileStatus' \in StatusTable /\ committed' \in CommitTable
         /\ NoNewPass(st, fileStatus')
         /\ runStatus' \in {s, "executing"}
         /\ loop' \in LoopTable
         /\ \A k \in Loop : k # l => loop'[k] = loop[k]
<1> DEFINE p == PreparedTwice(s, st, cm)
<1>1. /\ fileStatus' = p.status /\ committed' = p.committed
      /\ \/ runStatus' = s /\ loop' = loop
         \/ runStatus' = "executing" /\ loop' = [loop EXCEPT ![l] = Started("execute", p.batch)]
  BY DEF StartExecute
<1>2. /\ p.status \in StatusTable /\ p.committed \in CommitTable
      /\ p.batch \in SUBSET File /\ NoNewPass(st, p.status)
  BY PreparedTwiceType
<1> HIDE DEF p
<1>3. Started("execute", p.batch) \in Request
  BY <1>2, RequestType
<1>4. QED
  BY <1>1, <1>2, <1>3 DEF LoopTable

(* What another try of the VLM node does.                                  *)
LEMMA NodeRetriedType ==
  ASSUME TypeOK, NEW l \in Loop, NEW s \in RunStatus, MayRetry(l), NodeRetried(l, s)
  PROVE  /\ fileStatus' \in StatusTable /\ committed' \in CommitTable
         /\ NoNewPass(fileStatus, fileStatus')
         /\ runStatus' \in {s, "executing"}
         /\ loop' \in LoopTable
         /\ \A k \in Loop : k # l => loop'[k] = loop[k]
<1> USE TypeParts
<1> DEFINE p == Prepared(s, fileStatus, committed)
           new == [Started("execute", p.batch) EXCEPT !.tries = loop[l].tries + 1]
<1>1. /\ fileStatus' = p.status /\ committed' = p.committed
      /\ runStatus' \in {s, "executing"}
      /\ loop' = [loop EXCEPT ![l] = IF p.batch = {} THEN Returned ELSE new]
  BY DEF NodeRetried
<1>2. /\ p.status \in StatusTable /\ p.committed \in CommitTable
      /\ p.batch \in SUBSET File /\ NoNewPass(fileStatus, p.status)
  BY PreparedType DEF FilesType
<1>3. loop[l] \in Request
  BY DEF RestType, LoopTable
<1>4. new \in Request
  <2> HIDE DEF p
  <2>1. loop[l].tries + 1 \in 0 .. MaxRetries
    BY <1>3, WorkflowAssumption DEF MayRetry, Request
  <2>2. Started("execute", p.batch) \in Request
    BY <1>2, RequestType
  <2>3. QED
    BY <2>1, <2>2 DEF Request
<1> HIDE DEF p, new
<1>5. QED
  BY <1>1, <1>2, <1>4, RequestType DEF RestType, LoopTable

(* What a recovery does.                                                   *)
LEMMA RecoveredType ==
  ASSUME TypeOK, Recovered
  PROVE  /\ RunType' /\ FilesType'
         /\ NoNewPass(fileStatus, fileStatus')
         /\ runStatus' \in {runStatus, "awaiting_review", "draft"}
         /\ UNCHANGED <<approved, page, retry, overwrote>>
<1> USE TypeParts
<1>1. runStatus' \in {runStatus, "awaiting_review", "draft"}
  BY DEF Recovered
<1>2. table' \in BOOLEAN
  BY Zenon DEF Recovered
<1>3. fileStatus' \in StatusTable /\ NoNewPass(fileStatus, fileStatus')
  BY DEF Recovered, FilesType, StatusTable, FileStatus, NoNewPass
<1>4. UNCHANGED <<approved, committed, page, retry, overwrote>>
  BY DEF Recovered
<1>5. QED
  BY <1>1, <1>2, <1>3, <1>4 DEF RunType, FilesType, RunStatus

(* Each operation keeps the types: uploading and starting.                 *)
LEMMA TypeStarts ==
  ASSUME TypeOK,
         \/ \E f \in File : UploadRunFile(f)
         \/ \E l \in Loop : \/ Execute(l) \/ Rerun(l)
                            \/ \E S \in SUBSET File : ReVlmFiles(l, S) \/ RebuildReview(l, S)
  PROVE  TypeOK'
<1> USE TypeParts
<1> SUFFICES RunType' /\ FilesType' /\ RestType'
  BY DEF TypeOK, RunType, FilesType, RestType, StatusTable, CommitTable, PageTable, LoopTable
<1>1. ASSUME NEW f \in File, UploadRunFile(f)
      PROVE  RunType' /\ FilesType' /\ RestType'
  BY <1>1 DEF UploadRunFile, run, RunType, FilesType, RestType, StatusTable, FileStatus
<1>2. ASSUME NEW l \in Loop, Execute(l)
      PROVE  RunType' /\ FilesType' /\ RestType'
  <2>1. UNCHANGED <<approved, table, page, retry, overwrote>>
    BY <1>2 DEF Execute
  <2>2. /\ fileStatus' \in StatusTable /\ committed' \in CommitTable
        /\ runStatus' \in {runStatus, "executing"} /\ loop' \in LoopTable
    BY <1>2, StartExecuteType DEF Execute, RunType, FilesType, RestType
  <2>3. QED
    BY <2>1, <2>2 DEF RunType, FilesType, RestType, RunStatus
<1>3. ASSUME NEW l \in Loop, Rerun(l)
      PROVE  RunType' /\ FilesType' /\ RestType'
  <2> DEFINE st == [f \in File |-> IF fileStatus[f] = "absent" THEN "absent" ELSE "pending"]
             cm == [f \in File |-> FALSE]
  <2>1. /\ approved' = FALSE /\ table' = FALSE /\ UNCHANGED <<page, retry, overwrote>>
        /\ StartExecute(l, "draft", st, cm)
    BY <1>3 DEF Rerun
  <2>2. st \in StatusTable /\ cm \in CommitTable /\ "draft" \in RunStatus
    BY DEF StatusTable, CommitTable, FileStatus, RunStatus
  <2> HIDE DEF st, cm
  <2>3. /\ fileStatus' \in StatusTable /\ committed' \in CommitTable
        /\ runStatus' \in {"draft", "executing"} /\ loop' \in LoopTable
    BY <2>1, <2>2, StartExecuteType DEF RestType
  <2>4. QED
    BY <2>1, <2>3 DEF RunType, FilesType, RestType, RunStatus
<1>4. ASSUME NEW l \in Loop, NEW S \in SUBSET File, ReVlmFiles(l, S) \/ RebuildReview(l, S)
      PROVE  RunType' /\ FilesType' /\ RestType'
  <2>1. /\ runStatus' = "executing" /\ UNCHANGED <<committed, retry, overwrote>>
        /\ loop' = [loop EXCEPT ![l] = Started("reVlm", S)]
    BY <1>4 DEF ReVlmFiles, RebuildReview, StartReVlm
  <2>2. loop' \in LoopTable
    BY <2>1, RequestType DEF RestType, LoopTable
  <2>3. approved' \in BOOLEAN /\ table' \in BOOLEAN
    BY <1>4 DEF ReVlmFiles, RebuildReview, RunType
  <2>4. fileStatus' \in StatusTable /\ page' \in PageTable
    BY <1>4 DEF ReVlmFiles, RebuildReview, FilesType, StatusTable, PageTable, FileStatus, Page
  <2>5. QED
    BY <2>1, <2>2, <2>3, <2>4 DEF RunType, FilesType, RestType, RunStatus
<1>5. QED
  BY <1>1, <1>2, <1>3, <1>4

(* What the end of an OCR call does to the tables, whatever it answers.    *)
LEMMA AnswerType ==
  ASSUME TypeOK, NEW f \in File \union {NoFile},
         AnswerStored(f) \/ CallFailed(f) \/ AnswerDropped(f)
  PROVE  fileStatus' \in StatusTable /\ page' \in PageTable
<1> USE TypeParts DEF FilesType, StatusTable, PageTable, FileStatus, Page, Answer
<1>1. CASE AnswerStored(f)
  <2>1. PICK p \in Answer : /\ page' = [page EXCEPT ![f] = Merged(f, p)]
                            /\ fileStatus' = [fileStatus EXCEPT ![f] = StatusOf(f, Merged(f, p))]
    BY <1>1 DEF AnswerStored
  <2>2. Merged(f, p) \in Page /\ StatusOf(f, Merged(f, p)) \in FileStatus
    BY DEF Merged, StatusOf
  <2>3. QED
    BY <2>1, <2>2
<1>2. CASE CallFailed(f)
  <2>1. PICK p \in {"none", page[f]} : page' = [page EXCEPT ![f] = p]
    BY <1>2 DEF CallFailed
  <2>2. QED
    BY <1>2, <2>1 DEF CallFailed
<1>3. CASE AnswerDropped(f)
  BY <1>3 DEF AnswerDropped
<1>4. QED
  BY <1>1, <1>2, <1>3

(* The steps of a loop.                                                    *)
LEMMA TypeLoops ==
  ASSUME TypeOK, NEW l \in Loop, LoopStep(l) \/ PersistPartial(l) \/ NodeTimeout(l)
  PROVE  TypeOK'
<1> USE TypeParts
<1> SUFFICES RunType' /\ FilesType' /\ RestType'
  BY DEF TypeOK, RunType, FilesType, RestType, StatusTable, CommitTable, PageTable, LoopTable
<1>0. loop[l] \in Request
  BY DEF RestType, LoopTable
<1>1. CASE Leave(l)
  BY <1>1, RequestType DEF Leave, run, files, RunType, FilesType, RestType, LoopTable
<1>2. ASSUME NEW f \in File, SkipCapped(l, f)
      PROVE  RunType' /\ FilesType' /\ RestType'
  BY <1>0, <1>2 DEF SkipCapped, run, files, RunType, FilesType, RestType, LoopTable, Request
<1>3. ASSUME NEW f \in File, BeginFile(l, f)
      PROVE  RunType' /\ FilesType' /\ RestType'
  <2>1. loop' \in LoopTable
    BY <1>0, <1>3 DEF BeginFile, RestType, LoopTable, Request
  <2>2. QED
    BY <2>1, <1>3 DEF BeginFile, run, RunType, FilesType, RestType, StatusTable, FileStatus
<1>4. CASE FinishFile(l)
  <2>1. loop[l].file \in File \union {NoFile}
    BY <1>0 DEF Request
  <2>2. fileStatus' \in StatusTable /\ page' \in PageTable
    BY <1>4, <2>1, AnswerType DEF FinishFile
  <2>3. UNCHANGED <<runStatus, approved, committed, retry, overwrote>>
    BY <1>4 DEF FinishFile
  <2>4. table' \in BOOLEAN
    BY <1>4, Zenon DEF FinishFile, RunType
  <2>5. loop' \in LoopTable
    <3>1. \/ loop' = [loop EXCEPT ![l] = Returned]
          \/ loop' = [loop EXCEPT ![l].pc = "check", ![l].file = NoFile,
                                  ![l].todo = @ \ {loop[l].file},
                                  ![l].got = @ \/ fileStatus'[loop[l].file] \in {"ok", "warning"}]
      BY <1>4 DEF FinishFile
    <3>2. (loop[l].got \/ fileStatus'[loop[l].file] \in {"ok", "warning"}) \in BOOLEAN
      OBVIOUS
    <3>3. QED
      BY <1>0, <3>1, <3>2, RequestType DEF RestType, LoopTable, Request
  <2>6. QED
    BY <2>2, <2>3, <2>4, <2>5 DEF RunType, FilesType, RestType
<1>5. CASE FinishLoop(l)
  <2>1. UNCHANGED <<approved, retry, overwrote, page>>
    BY <1>5 DEF FinishLoop, files
  <2>2. table' \in BOOLEAN
    BY <1>5, Zenon DEF FinishLoop, RunType
  <2>3. \/ /\ runStatus' \in {"draft", "awaiting_review"}
           /\ loop' = [loop EXCEPT ![l] = Returned]
           /\ UNCHANGED files
        \/ MayRetry(l) /\ NodeRetried(l, "draft")
    BY <1>5 DEF FinishLoop
  <2>4. runStatus' \in RunStatus /\ fileStatus' \in StatusTable /\ committed' \in CommitTable
        /\ loop' \in LoopTable
    BY <2>3, RequestType, NodeRetriedType DEF files, RunStatus, FilesType, RestType, LoopTable
  <2>5. QED
    BY <2>1, <2>2, <2>4 DEF RunType, FilesType, RestType
<1>6. CASE PersistPartial(l)
  <2>1. PICK g \in File, p \in Answer : page' = [page EXCEPT ![g] = Merged(g, p)]
    BY <1>6 DEF PersistPartial
  <2>2. page' \in PageTable
    BY <2>1 DEF Merged, FilesType, PageTable, Page, Answer
  <2>3. table' \in BOOLEAN
    BY <1>6, Zenon DEF PersistPartial
  <2>4. QED
    BY <1>6, <2>2, <2>3 DEF PersistPartial, RunType, FilesType, RestType
<1>7. CASE NodeTimeout(l)
  <2>1. CASE /\ MayRetry(l) /\ NodeRetried(l, runStatus)
             /\ UNCHANGED <<approved, table, page, retry, overwrote>>
    BY <2>1, NodeRetriedType DEF RunType, FilesType, RestType, RunStatus
  <2>2. CASE Recovered /\ loop' = [loop EXCEPT ![l] = Returned]
    BY <2>2, RecoveredType, RequestType DEF RestType, LoopTable
  <2>3. QED
    BY <1>7, <2>1, <2>2 DEF NodeTimeout
<1>8. QED
  BY <1>1, <1>2, <1>3, <1>4, <1>5, <1>6, <1>7 DEF LoopStep

(* Stops, crashes and the review.                                          *)
LEMMA TypeReview ==
  ASSUME TypeOK,
         \/ RecoverStuck \/ CancelRun \/ Crash
         \/ \E f \in File : MarkReviewed(f) \/ StartRetry(f)
         \/ \E p \in {"rows", "empty"} : FinishRetry(p)
         \/ FailRetry \/ ResumeRun
  PROVE  TypeOK'
<1> USE TypeParts
<1> SUFFICES RunType' /\ FilesType' /\ RestType'
  BY DEF TypeOK, RunType, FilesType, RestType, StatusTable, CommitTable, PageTable, LoopTable
<1>1. CASE RecoverStuck
  BY <1>1, RecoveredType DEF RecoverStuck, RestType
<1>2. CASE CancelRun
  <2>1. CASE Recovered /\ UNCHANGED loop
    BY <2>1, RecoveredType DEF RestType
  <2>2. CASE Stopped /\ UNCHANGED <<approved, committed, page, loop, retry, overwrote>>
    <3>1. runStatus' \in {"awaiting_review", "draft"} /\ fileStatus' \in StatusTable
      BY <2>2 DEF Stopped, FilesType, StatusTable, FileStatus
    <3>2. table' \in BOOLEAN
      BY <2>2, Zenon DEF Stopped
    <3>3. QED
      BY <2>2, <3>1, <3>2 DEF RunType, FilesType, RestType, RunStatus
  <2>3. QED
    BY <1>2, <2>1, <2>2 DEF CancelRun
<1>3. CASE Crash
  BY <1>3, RequestType DEF Crash, run, files, RunType, FilesType, RestType, LoopTable
<1>4. ASSUME NEW f \in File, MarkReviewed(f)
      PROVE  RunType' /\ FilesType' /\ RestType'
  <2>1. table' \in BOOLEAN
    BY <1>4, Zenon DEF MarkReviewed
  <2>2. page' \in PageTable /\ fileStatus' \in StatusTable
    BY <1>4 DEF MarkReviewed, FilesType, PageTable, Page, StatusTable, FileStatus
  <2>3. runStatus' \in RunStatus /\ UNCHANGED <<approved, committed, loop, retry, overwrote>>
    BY <1>4 DEF MarkReviewed, RunType, RunStatus
  <2>4. QED
    BY <2>1, <2>2, <2>3 DEF RunType, FilesType, RestType
<1>5. ASSUME NEW f \in File, StartRetry(f)
      PROVE  RunType' /\ FilesType' /\ RestType'
  <2>1. retry' \in Snapshot
    BY <1>5 DEF StartRetry, Snapshot, RunType, FilesType, StatusTable, PageTable
  <2>2. QED
    BY <1>5, <2>1 DEF StartRetry, run, files, RunType, FilesType, RestType
<1>6. ASSUME NEW p \in {"rows", "empty"}, FinishRetry(p)
      PROVE  RunType' /\ FilesType' /\ RestType'
  <2>1. retry \in Snapshot /\ retry' = NoRetry /\ UNCHANGED <<committed, loop>>
    BY <1>6 DEF FinishRetry, RestType
  <2>2. table' \in BOOLEAN /\ overwrote' \in BOOLEAN
    BY <1>6, Zenon DEF FinishRetry
  <2>3. page' \in PageTable /\ fileStatus' \in StatusTable
    BY <1>6, <2>1 DEF FinishRetry, Snapshot, FilesType, PageTable, Page, Answer, StatusTable, FileStatus
  <2>4. runStatus' \in RunStatus /\ approved' \in BOOLEAN
    BY <1>6, <2>1 DEF FinishRetry, Snapshot, RunType, RunStatus
  <2>5. QED
    BY <2>1, <2>2, <2>3, <2>4 DEF RunType, FilesType, RestType
<1>7. CASE FailRetry
  BY <1>7 DEF FailRetry, run, files, RunType, FilesType, RestType
<1>8. CASE ResumeRun
  <2>1. table' \in BOOLEAN
    BY <1>8, Zenon DEF ResumeRun
  <2>2. QED
    BY <1>8, <2>1 DEF ResumeRun, files, RunType, FilesType, RestType, RunStatus
<1>9. QED
  BY <1>1, <1>2, <1>3, <1>4, <1>5, <1>6, <1>7, <1>8

(* Every step keeps the types.                                             *)
LEMMA TypeStep == TypeOK /\ [Next]_vars => TypeOK'
<1> SUFFICES ASSUME TypeOK, [Next]_vars PROVE TypeOK'
  OBVIOUS
<1>1. CASE Next
  BY <1>1, TypeStarts, TypeLoops, TypeReview DEF Next
<1>2. CASE UNCHANGED vars
  BY <1>2 DEF vars, TypeOK
<1>3. QED
  BY <1>1, <1>2

(* A run, its files, its requests and a page retry keep a legal shape; a   *)
(* node is never tried more often than maxRetries allows.                  *)
THEOREM RunTypeCorrect == Spec => []TypeOK
BY TypeInit, TypeStep, PTL DEF Spec

-----------------------------------------------------------------------------
(* Passed files and approved tables.                                       *)

(* A page retry is refused on a locked run, so the run it has read is open. *)
RetryUnlocked == retry # NoRetry => ~ (retry.run = "completed" /\ retry.approved)

RunInv == TypeOK /\ PassedHidesNothing /\ ApprovedIsComplete /\ RetryUnlocked

(* A step that passes no file whose page needs a retry.                    *)
NoHiddenPage ==
  \A f \in File : fileStatus'[f] = "ok" /\ page'[f] = "empty" => fileStatus[f] = "ok" /\ page[f] = "empty"

(* A step that leaves a locked table locked only as it was.                *)
NoLockedGap ==
  runStatus' = "completed" /\ approved' =>
    Locked /\ \A f \in File : page'[f] = "empty" => page[f] = "empty"

(* The three properties survive a step that hides no page, approves no     *)
(* table with such a page and leaves a waiting page retry its run          *)
(* unlocked.                                                               *)
LEMMA RunInvKept ==
  ASSUME RunInv, TypeOK', NoHiddenPage, NoLockedGap, UNCHANGED <<retry, overwrote>>
  PROVE  RunInv'
<1>1. PassedHidesNothing'
  BY DEF RunInv, PassedHidesNothing, NoHiddenPage
<1>2. ApprovedIsComplete'
  BY DEF RunInv, ApprovedIsComplete, NoLockedGap, Locked, NoPendingPage
<1>3. RetryUnlocked'
  BY DEF RunInv, RetryUnlocked
<1>4. QED
  BY <1>1, <1>2, <1>3 DEF RunInv

(* When statuses only leave Passed and pages stay, nothing is hidden.      *)
LEMMA NothingHidden ==
  ASSUME NoNewPass(fileStatus, fileStatus'), page' = page
  PROVE  NoHiddenPage
BY DEF NoNewPass, NoHiddenPage

(* The invariant survives uploads and starting requests.                   *)
LEMMA RunInvStarts ==
  ASSUME RunInv, TypeOK',
         \/ \E f \in File : UploadRunFile(f)
         \/ \E l \in Loop : \/ Execute(l) \/ Rerun(l)
                            \/ \E S \in SUBSET File : ReVlmFiles(l, S) \/ RebuildReview(l, S)
  PROVE  RunInv'
<1> USE TypeParts DEF RunInv
<1>1. ASSUME NEW f \in File, UploadRunFile(f)
      PROVE  NoHiddenPage /\ NoLockedGap /\ UNCHANGED <<retry, overwrote>>
  BY <1>1 DEF UploadRunFile, run, NoHiddenPage, NoLockedGap, Locked, FilesType, StatusTable
<1>2. ASSUME NEW l \in Loop, Execute(l)
      PROVE  NoHiddenPage /\ NoLockedGap /\ UNCHANGED <<retry, overwrote>>
  <2>1. UNCHANGED <<approved, table, page, retry, overwrote>>
    BY <1>2 DEF Execute
  <2>2. NoNewPass(fileStatus, fileStatus') /\ runStatus' \in {runStatus, "executing"}
    BY <1>2, StartExecuteType DEF Execute, RunType, FilesType, RestType
  <2>3. QED
    BY <2>1, <2>2, NothingHidden DEF NoLockedGap, Locked
<1>3. ASSUME NEW l \in Loop, Rerun(l)
      PROVE  NoHiddenPage /\ NoLockedGap /\ UNCHANGED <<retry, overwrote>>
  <2> DEFINE st == [f \in File |-> IF fileStatus[f] = "absent" THEN "absent" ELSE "pending"]
             cm == [f \in File |-> FALSE]
  <2>1. /\ approved' = FALSE /\ table' = FALSE /\ UNCHANGED <<page, retry, overwrote>>
        /\ StartExecute(l, "draft", st, cm)
    BY <1>3 DEF Rerun
  <2>2. /\ st \in StatusTable /\ cm \in CommitTable /\ "draft" \in RunStatus
        /\ \A f \in File : st[f] # "ok"
    BY DEF StatusTable, CommitTable, FileStatus, RunStatus
  <2> HIDE DEF st, cm
  <2>3. NoNewPass(st, fileStatus')
    BY <2>1, <2>2, StartExecuteType DEF RestType
  <2>4. QED
    BY <2>1, <2>2, <2>3 DEF NoNewPass, NoHiddenPage, NoLockedGap
<1>4. ASSUME NEW l \in Loop, NEW S \in SUBSET File, ReVlmFiles(l, S) \/ RebuildReview(l, S)
      PROVE  NoHiddenPage /\ NoLockedGap /\ UNCHANGED <<retry, overwrote>>
  <2>1. NoHiddenPage
    BY <1>4 DEF ReVlmFiles, RebuildReview, NoHiddenPage
  <2>2. QED
    BY <1>4, <2>1 DEF ReVlmFiles, RebuildReview, StartReVlm, NoLockedGap
<1>5. QED
  BY <1>1, <1>2, <1>3, <1>4, RunInvKept

(* The invariant survives the steps of a loop: an answer that needs a      *)
(* retry never passes its file.                                            *)
LEMMA RunInvLoops ==
  ASSUME RunInv, TypeOK', NEW l \in Loop, LoopStep(l) \/ PersistPartial(l) \/ NodeTimeout(l)
  PROVE  RunInv'
<1> USE TypeParts DEF RunInv
<1> SUFFICES NoHiddenPage /\ NoLockedGap /\ UNCHANGED <<retry, overwrote>>
  BY RunInvKept
<1>1. CASE Leave(l) \/ \E f \in File : SkipCapped(l, f)
  <2>1. UNCHANGED <<run, files, retry, overwrote>>
    BY <1>1 DEF Leave, SkipCapped
  <2>2. QED
    BY <2>1 DEF run, files, NoHiddenPage, NoLockedGap, Locked
<1>2. ASSUME NEW f \in File, BeginFile(l, f)
      PROVE  NoHiddenPage /\ NoLockedGap /\ UNCHANGED <<retry, overwrote>>
  BY <1>2 DEF BeginFile, run, NoHiddenPage, NoLockedGap, Locked, FilesType, StatusTable
<1>3. CASE FinishFile(l)
  <2> DEFINE f == loop[l].file
  <2>1. UNCHANGED <<runStatus, approved, retry, overwrote>>
    BY <1>3 DEF FinishFile
  <2>2. CASE AnswerStored(f) /\ Executing
    <3>1. PICK p \in Answer : /\ page' = [page EXCEPT ![f] = Merged(f, p)]
                              /\ fileStatus' = [fileStatus EXCEPT ![f] = StatusOf(f, Merged(f, p))]
      BY <2>2 DEF AnswerStored
    <3>2. NoHiddenPage
      <4> HIDE DEF f
      <4>1. QED
        BY <3>1 DEF NoHiddenPage, StatusOf, FilesType, StatusTable, PageTable
    <3>3. NoLockedGap
      BY <2>1, <2>2 DEF NoLockedGap, Executing
    <3>4. QED
      BY <2>1, <3>2, <3>3
  <2>3. CASE CallFailed(f)
    <3>1. PICK p \in {"none", page[f]} : page' = [page EXCEPT ![f] = p]
      BY <2>3 DEF CallFailed
    <3>2. fileStatus' = [fileStatus EXCEPT ![f] = "failed"]
      BY <2>3 DEF CallFailed
    <3> HIDE DEF f
    <3>3. NoHiddenPage /\ NoLockedGap
      BY <2>1, <3>1, <3>2 DEF NoHiddenPage, NoLockedGap, Locked, FilesType, StatusTable, PageTable
    <3>4. QED
      BY <2>1, <3>3
  <2>4. CASE AnswerDropped(f)
    <3> HIDE DEF f
    <3>1. QED
      BY <2>1, <2>4 DEF AnswerDropped, NoHiddenPage, NoLockedGap, Locked, FilesType, StatusTable
  <2>5. (AnswerStored(f) /\ Executing) \/ CallFailed(f) \/ AnswerDropped(f)
    BY <1>3 DEF FinishFile
  <2>6. QED
    BY <2>2, <2>3, <2>4, <2>5
<1>4. CASE FinishLoop(l)
  <2>1. UNCHANGED <<approved, retry, overwrote, page>>
    BY <1>4 DEF FinishLoop, files
  <2>2. \/ runStatus' \in {"draft", "awaiting_review"} /\ UNCHANGED files
        \/ MayRetry(l) /\ NodeRetried(l, "draft")
    BY <1>4 DEF FinishLoop
  <2>3. runStatus' # "completed" /\ NoNewPass(fileStatus, fileStatus')
    BY <2>2, NodeRetriedType DEF files, RunStatus, NoNewPass
  <2>4. QED
    BY <2>1, <2>3, NothingHidden DEF NoLockedGap
<1>5. CASE PersistPartial(l)
  <2>1. PICK g \in File, p \in Answer :
          fileStatus[g] = "running" /\ page' = [page EXCEPT ![g] = Merged(g, p)]
    BY <1>5 DEF PersistPartial
  <2>2. NoHiddenPage
    BY <1>5, <2>1 DEF PersistPartial, NoHiddenPage, FilesType, PageTable
  <2>3. QED
    BY <1>5, <2>2 DEF PersistPartial, Executing, NoLockedGap
<1>6. CASE NodeTimeout(l)
  <2>1. /\ UNCHANGED <<approved, page, retry, overwrote>>
        /\ runStatus' \in {runStatus, "executing", "awaiting_review", "draft"}
        /\ NoNewPass(fileStatus, fileStatus')
    BY <1>6, NodeRetriedType, RecoveredType DEF NodeTimeout, RunType
  <2>2. QED
    BY <2>1, NothingHidden DEF NoLockedGap, Locked
<1>7. QED
  BY <1>1, <1>2, <1>3, <1>4, <1>5, <1>6 DEF LoopStep

(* The invariant survives stops, recoveries, crashes and the review.       *)
LEMMA RunInvReview ==
  ASSUME RunInv, TypeOK',
         \/ RecoverStuck \/ CancelRun \/ Crash
         \/ \E f \in File : MarkReviewed(f) \/ StartRetry(f)
         \/ \E p \in {"rows", "empty"} : FinishRetry(p)
         \/ FailRetry \/ ResumeRun
  PROVE  RunInv'
<1> USE TypeParts DEF RunInv
<1>1. ASSUME Recovered
      PROVE  RunInv'
  <2>1. NoHiddenPage /\ NoLockedGap /\ UNCHANGED <<retry, overwrote>>
    BY <1>1, RecoveredType, NothingHidden DEF NoLockedGap, Locked
  <2>2. QED
    BY <2>1, RunInvKept
<1>2. ASSUME Stopped, UNCHANGED <<approved, committed, page, loop, retry, overwrote>>
      PROVE  RunInv'
  <2>1. runStatus' # "completed" /\ NoNewPass(fileStatus, fileStatus')
    BY <1>2 DEF Stopped, NoNewPass
  <2>2. NoHiddenPage /\ NoLockedGap
    BY <1>2, <2>1, NothingHidden DEF NoLockedGap
  <2>3. QED
    BY <1>2, <2>2, RunInvKept
<1>3. ASSUME Crash \/ FailRetry
      PROVE  RunInv'
  <2>1. UNCHANGED <<run, files, overwrote>> /\ retry' = NoRetry
    BY <1>3 DEF Crash, FailRetry
  <2>2. PassedHidesNothing' /\ ApprovedIsComplete' /\ RetryUnlocked'
    BY <2>1 DEF run, files, PassedHidesNothing, ApprovedIsComplete, Locked, NoPendingPage, RetryUnlocked
  <2>3. QED
    BY <2>2
<1>4. ASSUME NEW f \in File, MarkReviewed(f)
      PROVE  RunInv'
  <2>1. NoHiddenPage
    BY <1>4 DEF MarkReviewed, NoHiddenPage, FilesType, PageTable, StatusTable
  <2>2. NoLockedGap /\ UNCHANGED <<retry, overwrote>>
    BY <1>4 DEF MarkReviewed, NoLockedGap, Executing
  <2>3. QED
    BY <2>1, <2>2, RunInvKept
<1>5. ASSUME NEW f \in File, StartRetry(f)
      PROVE  RunInv'
  <2>1. UNCHANGED <<run, files, overwrote>> /\ RetryUnlocked'
    BY <1>5 DEF StartRetry, Locked, RetryUnlocked
  <2>2. PassedHidesNothing' /\ ApprovedIsComplete'
    BY <2>1 DEF run, files, PassedHidesNothing, ApprovedIsComplete, Locked, NoPendingPage
  <2>3. QED
    BY <2>1, <2>2
<1>6. ASSUME NEW p \in {"rows", "empty"}, FinishRetry(p)
      PROVE  RunInv'
  <2>1. retry' = NoRetry /\ retry \in Snapshot /\ overwrote' = (overwrote \/ StaleRetry)
    BY <1>6 DEF FinishRetry, RestType
  <2>2. CASE StaleRetry
    BY <2>1, <2>2 DEF PassedHidesNothing, ApprovedIsComplete, RetryUnlocked
  <2>3. CASE ~ StaleRetry
    <3>1. /\ retry.status = fileStatus[retry.file] /\ retry.run = runStatus /\ retry.approved = approved
          /\ overwrote' = overwrote /\ retry.file \in File
      BY <2>1, <2>3 DEF StaleRetry, Snapshot, RestType
    <3>2. PassedHidesNothing'
      BY <1>6, <3>1 DEF FinishRetry, PassedHidesNothing, FilesType, PageTable, StatusTable
    <3>3. runStatus' = "awaiting_review"
      BY <1>6, <3>1 DEF FinishRetry
    <3>4. QED
      BY <2>1, <3>2, <3>3 DEF ApprovedIsComplete, Locked, RetryUnlocked
  <2>4. QED
    BY <2>2, <2>3
<1>7. ASSUME ResumeRun
      PROVE  RunInv'
  <2>1. UNCHANGED <<files, retry, overwrote>>
    BY <1>7 DEF ResumeRun
  <2>2. runStatus' = "completed" => NoPendingPage
    BY <1>7 DEF ResumeRun
  <2>3. QED
    BY <2>1, <2>2 DEF files, PassedHidesNothing, ApprovedIsComplete, Locked, NoPendingPage, RetryUnlocked
<1>8. QED
  BY <1>1, <1>2, <1>3, <1>4, <1>5, <1>6, <1>7 DEF RecoverStuck, CancelRun

(* The invariant is inductive.                                             *)
LEMMA RunInvStep == RunInv /\ [Next]_vars => RunInv'
<1> SUFFICES ASSUME RunInv, [Next]_vars PROVE RunInv'
  OBVIOUS
<1>0. TypeOK'
  BY TypeStep DEF RunInv
<1>1. CASE Next
  BY <1>0, <1>1, RunInvStarts, RunInvLoops, RunInvReview DEF Next
<1>2. CASE UNCHANGED vars
  BY <1>0, <1>2 DEF vars, RunInv, PassedHidesNothing, ApprovedIsComplete, Locked, NoPendingPage, RetryUnlocked
<1>3. QED
  BY <1>1, <1>2

(* The invariant holds in every reachable state.                           *)
LEMMA RunInvariance == Spec => []RunInv
<1>1. Init => RunInv
  BY TypeInit DEF Init, RunInv, PassedHidesNothing, ApprovedIsComplete, Locked, RetryUnlocked
<1>2. QED
  BY <1>1, RunInvStep, PTL DEF Spec

(* Between stops, restarts, marks, partial pages and any number of looping *)
(* requests, no file passes while its page needs a retry.                  *)
THEOREM PassedAlways == Spec => []PassedHidesNothing
<1>1. RunInv => PassedHidesNothing
  BY DEF RunInv
<1>2. QED
  BY <1>1, RunInvariance, PTL

(* Nor is such a page ever part of an approved table.                      *)
THEOREM ApprovedAlways == Spec => []ApprovedIsComplete
<1>1. RunInv => ApprovedIsComplete
  BY DEF RunInv
<1>2. QED
  BY <1>1, RunInvariance, PTL

-----------------------------------------------------------------------------
(* Marks.                                                                  *)

(* A step that turns no acknowledged page back.                            *)
MarksKept == \A f \in File : page[f] = "reviewed" => page'[f] \in {"reviewed", "none"}

(* Nothing a looping request stores turns an acknowledged page back.       *)
LEMMA LoopsKeepMarks ==
  ASSUME TypeOK, NEW l \in Loop, LoopStep(l) \/ PersistPartial(l) \/ NodeTimeout(l)
  PROVE  MarksKept
<1> USE TypeParts
<1>1. CASE UNCHANGED page
  BY <1>1 DEF MarksKept
<1>2. CASE FinishFile(l)
  <2> DEFINE f == loop[l].file
  <2>1. AnswerStored(f) \/ CallFailed(f) \/ AnswerDropped(f)
    BY <1>2 DEF FinishFile
  <2> HIDE DEF f
  <2>2. QED
    BY <2>1 DEF AnswerStored, CallFailed, AnswerDropped, Merged, MarksKept, FilesType, PageTable
<1>3. CASE PersistPartial(l)
  BY <1>3 DEF PersistPartial, Merged, MarksKept, FilesType, PageTable
<1>4. CASE NodeTimeout(l)
  BY <1>1, <1>4 DEF NodeTimeout, Recovered
<1>5. QED
  BY <1>1, <1>2, <1>3, <1>4 DEF LoopStep, Leave, BeginFile, SkipCapped, FinishLoop, files

(* "Mark wins": whatever loops, answers and interruptions do, only a page  *)
(* retry of the same file writes over an acknowledged page.                *)
THEOREM MarksWin == Spec => MarkWins
<1>1. ASSUME TypeOK, Next
      PROVE  \/ MarksKept
             \/ retry # NoRetry /\ retry' = NoRetry /\ \A f \in File : f # retry.file => page'[f] = page[f]
  <2>1. CASE \E l \in Loop : LoopStep(l) \/ PersistPartial(l) \/ NodeTimeout(l)
    BY <1>1, <2>1, LoopsKeepMarks
  <2>2. CASE \E l \in Loop, S \in SUBSET File : ReVlmFiles(l, S) \/ RebuildReview(l, S)
    BY <2>2 DEF ReVlmFiles, RebuildReview, MarksKept
  <2>3. CASE \E p \in {"rows", "empty"} : FinishRetry(p)
    BY <1>1, <2>3, TypeParts DEF FinishRetry, FilesType, PageTable
  <2>4. CASE \E f \in File : MarkReviewed(f)
    BY <1>1, <2>4, TypeParts DEF MarkReviewed, MarksKept, FilesType, PageTable
  <2>5. CASE UNCHANGED page
    BY <2>5 DEF MarksKept
  <2>6. QED
    BY <1>1, <2>1, <2>2, <2>3, <2>4, <2>5
    DEF Next, UploadRunFile, StartRetry, Execute, Rerun, RecoverStuck, Recovered, CancelRun, Crash,
        FailRetry, ResumeRun, files
<1>2. TypeOK /\ [Next]_vars =>
        [\A f \in File :
           page[f] = "reviewed" =>
             \/ page'[f] \in {"reviewed", "none"}
             \/ retry # NoRetry /\ retry.file = f /\ retry' = NoRetry]_vars
  BY <1>1 DEF MarksKept
<1>3. QED
  BY <1>2, RunTypeCorrect, PTL DEF Spec, MarkWins

-----------------------------------------------------------------------------
(* Late answers.                                                           *)

(* A step that brings no rows in.                                          *)
NothingArrives ==
  /\ table' = table /\ runStatus' = runStatus
  /\ \A f \in File :
       /\ page'[f] \in {page[f], "none"}
       /\ fileStatus'[f] \in {"ok", "warning"} => fileStatus'[f] = fileStatus[f]

(* Only the end of an OCR call moves a suspended request of a run that is  *)
(* and stays stopped, and it brings nothing in.                            *)
LEMMA LateStep ==
  ASSUME TypeOK, Next, ~ Executing, ~ Executing',
         NEW l \in Loop, loop[l].pc = "ocr", loop'[l] # loop[l]
  PROVE  NothingArrives
<1> USE TypeParts
<1>1. CASE FinishFile(l)
  <2> DEFINE f == loop[l].file
  <2>1. /\ CallFailed(f) \/ AnswerDropped(f)
        /\ UNCHANGED <<runStatus, table>>
    BY <1>1 DEF FinishFile
  <2> HIDE DEF f
  <2>2. QED
    BY <2>1 DEF CallFailed, AnswerDropped, NothingArrives, FilesType, PageTable, StatusTable
<1>2. CASE NodeTimeout(l)
  <2>1. CASE Recovered
    <3>1. UNCHANGED <<runStatus, page>> /\ NoNewPass(fileStatus, fileStatus')
      BY <2>1, RecoveredType DEF Recovered
    <3>2. table' = table
      <4>1. table' = (table \/ (Executing /\ LiveRows(fileStatus, page)))
        BY <2>1 DEF Recovered
      <4>2. QED
        BY <4>1, Zenon DEF RunType
    <3>3. QED
      BY <3>1, <3>2 DEF NothingArrives, NoNewPass
  <2>2. CASE MayRetry(l) /\ NodeRetried(l, runStatus) /\ UNCHANGED <<approved, table, page>>
    <3>1. runStatus' \in {runStatus, "executing"} /\ NoNewPass(fileStatus, fileStatus')
      BY <2>2, NodeRetriedType DEF RunType
    <3>2. QED
      BY <2>2, <3>1 DEF Executing, NothingArrives, NoNewPass
  <2>3. QED
    BY <1>2, <2>1, <2>2 DEF NodeTimeout
<1>3. CASE Crash
  BY <1>3 DEF Crash, run, files, NothingArrives
<1>4. ASSUME NEW k \in Loop, k # l, LoopStep(k) \/ NodeTimeout(k) \/ Execute(k) \/ Rerun(k)
      PROVE  FALSE
  <2>1. CASE Leave(k) \/ FinishFile(k) \/ \E f \in File : BeginFile(k, f) \/ SkipCapped(k, f)
    BY <1>4, <2>1 DEF Leave, FinishFile, BeginFile, SkipCapped, RestType, LoopTable
  <2>2. CASE FinishLoop(k)
    BY <2>2 DEF FinishLoop
  <2>3. CASE NodeTimeout(k)
    <3>1. CASE MayRetry(k) /\ NodeRetried(k, runStatus)
      BY <1>4, <3>1, NodeRetriedType DEF RunType
    <3>2. CASE loop' = [loop EXCEPT ![k] = Returned]
      BY <1>4, <3>2 DEF RestType, LoopTable
    <3>3. QED
      BY <2>3, <3>1, <3>2 DEF NodeTimeout
  <2>4. CASE Execute(k)
    BY <1>4, <2>4, StartExecuteType DEF Execute, RunType, FilesType, RestType
  <2>5. CASE Rerun(k)
    <3> DEFINE st == [f \in File |-> IF fileStatus[f] = "absent" THEN "absent" ELSE "pending"]
               cm == [f \in File |-> FALSE]
    <3>1. StartExecute(k, "draft", st, cm)
      BY <2>5 DEF Rerun
    <3>2. st \in StatusTable /\ cm \in CommitTable /\ "draft" \in RunStatus
      BY DEF StatusTable, CommitTable, FileStatus, RunStatus
    <3> HIDE DEF st, cm
    <3>3. QED
      BY <1>4, <3>1, <3>2, StartExecuteType DEF RestType
  <2>6. QED
    BY <1>4, <2>1, <2>2, <2>3, <2>4, <2>5 DEF LoopStep
<1>5. ~ Leave(l) /\ ~ FinishLoop(l) /\ ~ Execute(l) /\ ~ Rerun(l)
  BY DEF Leave, FinishLoop, Execute, Rerun
<1>6. \A f \in File : ~ BeginFile(l, f) /\ ~ SkipCapped(l, f)
  BY DEF BeginFile, SkipCapped
<1>7. \A k \in Loop, S \in SUBSET File : ~ ReVlmFiles(k, S) /\ ~ RebuildReview(k, S)
  BY DEF ReVlmFiles, RebuildReview, StartReVlm, Executing
<1>8. \A k \in Loop : ~ PersistPartial(k)
  BY DEF PersistPartial
<1>9. \A f \in File : ~ UploadRunFile(f) /\ ~ MarkReviewed(f) /\ ~ StartRetry(f)
  BY DEF UploadRunFile, MarkReviewed, StartRetry
<1>10. \A p \in {"rows", "empty"} : ~ FinishRetry(p)
  BY DEF FinishRetry
<1>11. ~ RecoverStuck /\ ~ CancelRun /\ ~ FailRetry /\ ~ ResumeRun
  BY DEF RecoverStuck, CancelRun, FailRetry, ResumeRun
<1>12. CASE \E k \in Loop : LoopStep(k) \/ NodeTimeout(k) \/ Execute(k) \/ Rerun(k)
  <2>1. LoopStep(l) \/ NodeTimeout(l) \/ Execute(l) \/ Rerun(l)
    BY <1>4, <1>12
  <2>2. QED
    BY <1>1, <1>2, <1>5, <1>6, <2>1 DEF LoopStep
<1>13. QED
  BY <1>3, <1>7, <1>8, <1>9, <1>10, <1>11, <1>12 DEF Next

(* Once a run has been stopped, finished or approved, the answer of a call *)
(* that was still on its way changes no row, no status of the run, and     *)
(* reports no file as done, for any number of requests and interruptions.  *)
THEOREM LateAnswersDropped == Spec => LateAnswerIsDropped
<1>1. TypeOK /\ [Next]_vars =>
        [\A l \in Loop :
           loop[l].pc = "ocr" /\ loop'[l] # loop[l] /\ ~ Executing /\ ~ Executing'
           => /\ table' = table /\ runStatus' = runStatus
              /\ \A f \in File :
                   /\ page'[f] \in {page[f], "none"}
                   /\ fileStatus'[f] \in {"ok", "warning"} => fileStatus'[f] = fileStatus[f]]_vars
  BY LateStep DEF NothingArrives
<1>2. QED
  BY <1>1, RunTypeCorrect, PTL DEF Spec, LateAnswerIsDropped
=============================================================================
