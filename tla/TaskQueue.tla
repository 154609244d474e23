----------------------------- MODULE TaskQueue -----------------------------
(***************************************************************************)
(* The upload queue of the classic workspace (WorkspaceApp.tsx): an upload *)
(* is a batch of files queued in a task; an effect that runs after every   *)
(* change of the tasks starts files within two caps, puts a batch whose    *)
(* files have all ended into one table on the server (finalizeTask) and    *)
(* ends the task.  A bank task runs its files one after another instead    *)
(* and writes one table at the end (handleBankStatementUpload).            *)
(*                                                                         *)
(* `stale` says the effect has yet to run for the tasks as they are; a     *)
(* pipeline is at "pages" while it waits for the page count and at "job"   *)
(* while it waits for the background job.                                  *)
(***************************************************************************)
EXTENDS Naturals, FiniteSets

CONSTANTS Task, BankTask, NoTask, File,
          TaskCap, FileCap, TotalCap,   \* MAX_CONCURRENT_TASKS, .._OCR_FILES, MAX_GLOBAL_CONCURRENT_OCR_FILES
          Outcome,                      \* how a job may end: subset of {"ok", "fail", "gate"}
          MaxActs                       \* bound: user commands

QueueAssumption ==
    /\ BankTask \subseteq Task /\ NoTask \notin Task /\ {TaskCap, FileCap, TotalCap, MaxActs} \subseteq Nat
    /\ Outcome \subseteq {"ok", "fail", "gate"}

VARIABLES
    status, plan,                       \* of a task; what createNewTask decided before the create
    owner, batch, fstate, added, submitted,   \* of a file
    pipe, loops,                        \* pipelines of OCR files, runs of handleBankStatementUpload
    stale, finals,                      \* finalizeTask under way: files in the append, batches left, isAllDone
    saves,                              \* server: tables that hold the file's rows
    held, cards,                        \* pendingDupUploadRef, the confirm cards on screen
    acts

file  == <<owner, batch, fstate, added, submitted>>
final == <<finals, saves>>
dup   == <<held, cards>>
tasks == <<status, plan, file, pipe, loops, stale, final, dup, acts>>

Ended      == {"completed", "failed", "cancelled"}
Running    == {t \in Task : status[t] = "processing"}
FilesOf(t) == {f \in File : owner[f] = t}
AllEnded(t) == FilesOf(t) # {} /\ \A f \in FilesOf(t) : fstate[f] \in Ended
NoDup      == [id |-> 0, files |-> {}, task |-> NoTask]
UserAct    == acts < MaxActs /\ acts' = acts + 1
Changed    == stale' = TRUE             \* setTasks: the effect runs again

QueueInit ==
    /\ status = [t \in Task |-> "none"] /\ plan = [t \in Task |-> "none"]
    /\ owner = [f \in File |-> NoTask] /\ batch = [f \in File |-> 0]
    /\ fstate = [f \in File |-> "none"] /\ added = {} /\ submitted = {}
    /\ pipe = [f \in File |-> "none"] /\ loops = {} /\ stale = FALSE
    /\ finals = {} /\ saves = [f \in File |-> 0]
    /\ held = NoDup /\ cards = {} /\ acts = 0

(* ---------------------------------- uploading -------------------------------- *)
Slot      == IF Cardinality(Running) < TaskCap THEN "processing" ELSE "queued"
Fresh     == {f \in File : owner[f] = NoTask}
\* the files join the task's queue as one batch
Queue(S, t) ==
    /\ owner' = [f \in File |-> IF f \in S THEN t ELSE owner[f]]
    /\ batch' = [f \in File |-> IF f \in S THEN acts' ELSE batch[f]]
    /\ fstate' = [f \in File |-> IF f \in S THEN "pending" ELSE fstate[f]]

\* A task of its own: what it will be is decided before the create is awaited.
NewTask(S, t) == /\ status[t] = "none" /\ S # {}
                 /\ status' = [status EXCEPT ![t] = "creating"] /\ plan' = [plan EXCEPT ![t] = Slot]
                 /\ Queue(S, t)
Upload ==
    /\ UserAct /\ \E t \in Task, S \in SUBSET Fresh : NewTask(S, t)
    /\ UNCHANGED <<added, submitted, pipe, loops, stale, final, dup>>

Created(t) ==
    /\ status[t] = "creating" /\ status' = [status EXCEPT ![t] = plan[t]] /\ Changed
    /\ UNCHANGED <<plan, file, pipe, loops, final, dup, acts>>
CreateFailed(t) ==
    /\ status[t] = "creating" /\ status' = [status EXCEPT ![t] = "failed"] /\ Changed
    /\ fstate' = [f \in File |-> IF owner[f] = t THEN "failed" ELSE fstate[f]]
    /\ UNCHANGED <<plan, owner, batch, added, submitted, pipe, loops, final, dup, acts>>

\* A second upload of the day joins the task there is; a running one may be queued again.
Append ==
    /\ UserAct
    /\ \E t \in Task \ BankTask, S \in SUBSET Fresh :
          /\ status[t] \notin {"none", "creating", "failed"} /\ S # {}
          /\ status' = [status EXCEPT ![t] = Slot] /\ Queue(S, t)
    /\ Changed /\ UNCHANGED <<plan, added, submitted, pipe, loops, final, dup>>

\* Files added to the open task: it starts again, or waits when no slot is free.
Restarted(t) == IF status[t] \in {"completed", "failed"} THEN Slot ELSE status[t]
Joins(t, S)  == /\ status[t] \notin {"none", "creating"} /\ S # {}
                /\ status' = [status EXCEPT ![t] = Restarted(t)] /\ Queue(S, t) /\ Changed
Attach ==
    /\ UserAct /\ \E t \in Task, S \in SUBSET Fresh : Joins(t, S)
    /\ UNCHANGED <<plan, added, submitted, pipe, loops, final, dup>>

\* A bank statement of a known name waits for a confirmation; one upload is held at a time.
AskDuplicate ==
    /\ UserAct
    /\ \E S \in SUBSET Fresh, t \in BankTask \cup {NoTask} :
          /\ S # {} /\ t # NoTask => status[t] \notin {"none", "creating"}
          /\ held' = [id |-> acts', files |-> S, task |-> t] /\ cards' = cards \cup {acts'}
    /\ UNCHANGED <<status, plan, file, pipe, loops, stale, final>>
ConfirmDuplicate ==
    /\ held.id \in cards /\ UserAct
    /\ held.files \subseteq Fresh
    /\ \/ /\ held.task = NoTask
          /\ \E t \in BankTask : NewTask(held.files, t)
          /\ UNCHANGED stale
       \/ held.task # NoTask /\ Joins(held.task, held.files) /\ UNCHANGED plan
    /\ cards' = cards \ {held.id} /\ held' = NoDup
    /\ UNCHANGED <<added, submitted, pipe, loops, final>>
CancelDuplicate ==
    /\ held.id \in cards /\ UserAct
    /\ cards' = cards \ {held.id} /\ held' = NoDup
    /\ UNCHANGED <<status, plan, file, pipe, loops, stale, final>>

(* --------------------------- the effect on the tasks ------------------------- *)
\* Step 1: waiting tasks take the free slots, and the effect runs again
Waiting == {t \in Task : status[t] = "queued"}
Promote ==
    /\ stale /\ Cardinality(Running) < TaskCap
    /\ \E S \in SUBSET Waiting :
          /\ S # {} /\ Cardinality(S) <= TaskCap - Cardinality(Running)
          /\ S # Waiting => Cardinality(S) = TaskCap - Cardinality(Running)
          /\ status' = [t \in Task |-> IF t \in S THEN "processing" ELSE status[t]]
    /\ UNCHANGED <<plan, file, pipe, loops, stale, final, dup, acts>>

Startable(t) == {f \in FilesOf(t) : fstate[f] = "pending" /\ f \notin submitted}
Active(t)    == {f \in FilesOf(t) : fstate[f] = "processing"}
OcrTasks     == Running \ BankTask
\* Step 3: as many pending files as both caps allow, of the files already "processing"
Started(S) ==
    LET total == Cardinality(UNION {Active(t) : t \in OcrTasks})
        mine(t) == Cardinality(S \cap FilesOf(t))
    IN /\ S \subseteq UNION {Startable(t) : t \in OcrTasks}
       /\ Cardinality(S) + total <= TotalCap \/ S = {}
       /\ \A t \in OcrTasks : mine(t) + Cardinality(Active(t)) <= FileCap \/ mine(t) = 0
       /\ \A t \in OcrTasks : \/ Startable(t) \subseteq S
                              \/ mine(t) + Cardinality(Active(t)) >= FileCap
                              \/ Cardinality(S) + total >= TotalCap

\* finalizeTask up to its first await
Unsaved(t)  == {f \in FilesOf(t) : fstate[f] = "completed" /\ f \notin added}
Batches(t)  == {batch[f] : f \in Unsaved(t)}
Ready(t)    == {b \in Batches(t) : \A f \in FilesOf(t) : batch[f] = b => fstate[f] \in Ended}
Busy(t)     == \E r \in finals : r.task = t          \* finalizingTasksRef
Blocked(t)  == Busy(t)
Finalizes   == {t \in OcrTasks : ~Blocked(t) /\ (AllEnded(t) \/ Unsaved(t) # {})}
Saves       == {t \in Finalizes : Ready(t) # {}}
NothingLeft(t)      == AllEnded(t)                  \* finalizeTask with no batch to save
NothingLeftEarly(t) == FALSE                        \* (bug) its early return leaves the status alone
Closed(t)           == NothingLeft(t)
BatchFiles(t, b) == {f \in Unsaved(t) : batch[f] = b}

\* Steps 2 and 3: the effect with no slot to give away
Manage ==
    /\ stale /\ (Waiting = {} \/ Cardinality(Running) >= TaskCap)
    /\ LET bank == UNION {Startable(t) : t \in Running \cap BankTask}
           next == [t \in Saves |-> CHOOSE b \in Ready(t) : TRUE]
           done == {t \in Finalizes \ Saves : Closed(t)}
       IN \E S \in SUBSET File :
          /\ Started(S)
          /\ submitted' = submitted \cup S \cup bank
          /\ pipe' = [f \in File |-> IF f \in S THEN "pages" ELSE pipe[f]]
          /\ fstate' = [f \in File |-> IF f \in bank THEN "processing" ELSE fstate[f]]
          /\ loops' = loops \cup {[task |-> t, left |-> Startable(t), rows |-> {}, failed |-> FALSE,
                                    stage |-> "files", all |-> FALSE] :
                                   t \in {u \in Running \cap BankTask : Startable(u) # {}}}
          /\ finals' = finals \cup {[task |-> t, files |-> BatchFiles(t, next[t]), todo |-> Ready(t) \ {next[t]},
                                      all |-> AllEnded(t), nr |-> Cardinality(finals)] : t \in Saves}
          /\ status' = [t \in Task |-> IF t \in done THEN "completed" ELSE status[t]]
          /\ stale' = (bank # {} \/ done # {})
    /\ UNCHANGED <<plan, owner, batch, added, saves, dup, acts>>

\* finalizeTask's append: the files count as added whether it succeeded or not; then the
\* next ready batch, and the task's end when all its files had ended at the start.
SaveEnds(r, ok) ==
    /\ Changed
    /\ saves' = [f \in File |-> IF ok /\ f \in r.files THEN saves[f] + 1 ELSE saves[f]]
    /\ added' = added \cup r.files
    /\ IF r.todo # {}
         THEN /\ \E b \in r.todo :
                    finals' = (finals \ {r}) \cup
                        {[r EXCEPT !.files = BatchFiles(r.task, b) \ added', !.todo = @ \ {b}, !.all = @ /\ ok]}
              /\ UNCHANGED status
         ELSE /\ finals' = finals \ {r}
              /\ status' = IF r.all /\ ok THEN [status EXCEPT ![r.task] = "completed"] ELSE status
    /\ UNCHANGED <<plan, owner, batch, fstate, submitted, pipe, loops, dup, acts>>
Saved(r)      == SaveEnds(r, TRUE)
SaveFailed(r) == SaveEnds(r, FALSE)

(* -------------------------------- one OCR file ------------------------------- *)
\* processFile: the file is "processing" once its pages are counted
PagesKnown(f) ==
    /\ pipe[f] = "pages" /\ pipe' = [pipe EXCEPT ![f] = "job"]
    /\ fstate' = [fstate EXCEPT ![f] = "processing"] /\ Changed
    /\ UNCHANGED <<status, plan, owner, batch, added, submitted, loops, final, dup, acts>>

PipeEnds(f, how) ==
    /\ pipe[f] = "job" /\ how \in Outcome
    /\ pipe' = [pipe EXCEPT ![f] = "none"] /\ Changed
    /\ fstate' = [fstate EXCEPT ![f] = CASE how = "ok" -> "completed" [] how = "fail" -> "failed"
                                         [] OTHER -> fstate[f]]      \* a gate card: the file stays as it is
    /\ UNCHANGED <<status, plan, owner, batch, added, submitted, loops, final, dup, acts>>
JobDone(f)   == PipeEnds(f, "ok")
JobFailed(f) == PipeEnds(f, "fail")
JobGated(f)  == PipeEnds(f, "gate")

\* markUploadCancelled: a task whose files have all ended is ended here and now
CancelledIn(t, f) ==
    /\ fstate' = [fstate EXCEPT ![f] = "cancelled"] /\ submitted' = submitted \ {f}
    /\ status' = IF \A g \in FilesOf(t) \ {f} : fstate[g] \in Ended
                   THEN [status EXCEPT ![t] = IF \E g \in FilesOf(t) \ {f} : fstate[g] = "completed"
                                                THEN "completed" ELSE "failed"]
                 ELSE status
    /\ Changed
BankRuns(f) == \E l \in loops : f \in l.left /\ l.stage = "files"
Cancel ==
    /\ UserAct
    /\ \E f \in File : /\ fstate[f] = "processing" /\ (pipe[f] = "job" \/ BankRuns(f))
                       /\ CancelledIn(owner[f], f)
    /\ UNCHANGED <<plan, owner, batch, added, pipe, loops, final, dup>>
\* the wait for a cancelled job ends
JobAborted(f) ==
    /\ pipe[f] = "job" /\ fstate[f] = "cancelled"
    /\ pipe' = [pipe EXCEPT ![f] = "none"] /\ CancelledIn(owner[f], f)
    /\ UNCHANGED <<plan, owner, batch, added, loops, final, dup, acts>>

\* handleRetryOcrFile
Retry ==
    /\ UserAct
    /\ \E f \in File :
          /\ fstate[f] = "failed" /\ owner[f] \notin BankTask /\ status[owner[f]] # "creating"
          /\ fstate' = [fstate EXCEPT ![f] = "pending"] /\ submitted' = submitted \ {f}
          /\ added' = added \ {f} /\ saves' = [saves EXCEPT ![f] = 0]
          /\ status' = [status EXCEPT ![owner[f]] = "processing"]
    /\ Changed
    /\ UNCHANGED <<plan, owner, batch, pipe, loops, finals, dup>>

(* -------------------------------- a bank upload ------------------------------ *)
BankFileEnds(l, f, how) ==
    /\ l.stage = "files" /\ f \in l.left /\ how \in Outcome \ {"gate"}
    /\ fstate' = [fstate EXCEPT ![f] = IF how = "ok" THEN "completed" ELSE "failed"]
    /\ status' = IF how = "fail" THEN status
                 ELSE [status EXCEPT ![l.task] =
                         IF \A g \in FilesOf(l.task) \ {f} : fstate[g] \in Ended THEN "completed" ELSE "processing"]
    /\ loops' = (loops \ {l}) \cup {[l EXCEPT !.left = @ \ {f}, !.rows = IF how = "ok" THEN @ \cup {f} ELSE @,
                                              !.failed = @ \/ how = "fail"]}
    /\ Changed
    /\ UNCHANGED <<plan, owner, batch, added, submitted, pipe, final, dup, acts>>
BankFileCancelled(l, f) ==
    /\ l.stage = "files" /\ f \in l.left /\ fstate[f] = "cancelled"
    /\ loops' = (loops \ {l}) \cup {[l EXCEPT !.left = @ \ {f}]}
    /\ CancelledIn(l.task, f)
    /\ UNCHANGED <<plan, owner, batch, added, pipe, final, dup, acts>>

\* the files are through: the table is sent, or the failure is told
BankBatchEnds(l) ==
    /\ l.stage = "files" /\ l.left = {}
    /\ IF l.rows # {}
         THEN /\ loops' = (loops \ {l}) \cup {[l EXCEPT !.stage = "append", !.all = AllEnded(l.task)]}
              /\ UNCHANGED <<status, stale>>
         ELSE /\ loops' = loops \ {l} /\ Changed
              /\ status' = IF l.failed /\ AllEnded(l.task) THEN [status EXCEPT ![l.task] = "failed"] ELSE status
    /\ UNCHANGED <<plan, file, pipe, final, dup, acts>>
BankSaved(l) ==
    /\ l.stage = "append" /\ loops' = loops \ {l} /\ Changed
    /\ saves' = [f \in File |-> IF f \in l.rows THEN saves[f] + 1 ELSE saves[f]]
    /\ status' = [status EXCEPT ![l.task] = IF l.all THEN "completed" ELSE "processing"]
    /\ UNCHANGED <<plan, file, pipe, finals, dup, acts>>
BankSaveFailed(l) ==     \* a warning in the console
    /\ l.stage = "append" /\ loops' = loops \ {l}
    /\ UNCHANGED <<status, plan, file, pipe, stale, final, dup, acts>>

(* -------------------------------- specification ------------------------------ *)
PipeStep(f) == PagesKnown(f) \/ JobDone(f) \/ JobFailed(f) \/ JobGated(f) \/ JobAborted(f)
SaveStep(r) == Saved(r) \/ SaveFailed(r)
LoopStep(l) == \/ \E f \in File : BankFileEnds(l, f, "ok") \/ BankFileEnds(l, f, "fail") \/ BankFileCancelled(l, f)
               \/ BankBatchEnds(l) \/ BankSaved(l) \/ BankSaveFailed(l)
CreateStep(t) == Created(t) \/ CreateFailed(t)
SaveOf(t) == \E r \in finals : r.task = t /\ SaveStep(r)
LoopRuns  == \E l \in loops : LoopStep(l)

QueueNext ==
    \/ Upload \/ Append \/ Attach \/ AskDuplicate \/ ConfirmDuplicate \/ CancelDuplicate \/ Cancel \/ Retry
    \/ Promote \/ Manage
    \/ \E t \in Task : CreateStep(t)
    \/ \E r \in finals : SaveStep(r)
    \/ \E f \in File : PipeStep(f)
    \/ \E l \in loops : LoopStep(l)

\* Effects run, and every request and every job ends (waitForBackgroundJob has a deadline).
Answers == /\ WF_tasks(Promote) /\ WF_tasks(Manage)
           /\ \A t \in Task : WF_tasks(CreateStep(t)) /\ WF_tasks(SaveOf(t))
           /\ \A f \in File : WF_tasks(PipeStep(f))
           /\ WF_tasks(LoopRuns)
QueueSpec == QueueInit /\ [][QueueNext]_tasks

(* --------------------------------- properties -------------------------------- *)

\* An OCR task whose files have all ended gives its slot back, also when its table could not
\* be saved (finalizeTask, effect on [tasks]); a waiting task would otherwise wait for ever.
HoldsSlot(t) == status[t] = "processing" /\ AllEnded(t)
SlotFreed == \A t \in Task \ BankTask : HoldsSlot(t) ~> ~HoldsSlot(t)

============================================================================
