------------------------------ MODULE TaskList -----------------------------
(***************************************************************************)
(* The sidebar of the classic workspace (WorkspaceApp.tsx,                 *)
(* taskLocalCache.ts): the tasks of a company, kept on the server, in the  *)
(* window and in a per-company cache in localStorage.  A task is shown as  *)
(* soon as its create is answered, while a taskApi.list() sent earlier may *)
(* still be under way; three sets of ids decide what the list's answer     *)
(* keeps: `pending` (created here, not seen in a list yet), `known` (on    *)
(* the server) and `deleted` (deleted in this session).                    *)
(*                                                                         *)
(* A list request has two steps, the server's snapshot and the arrival of  *)
(* the answer; every other request is served and answered at once.         *)
(***************************************************************************)
EXTENDS Naturals, FiniteSets

CONSTANTS Firm, NoFirm, Task, NoTask,
          Stored,        \* the tasks the server has at the start, all of Home
          Home, MaxTaskActs  \* the first company; bound: user commands

ASSUME TaskAssumption ==
    NoFirm \notin Firm /\ NoTask \notin Task /\ Stored \subseteq Task /\ Home \in Firm

VARIABLES
    row,                                     \* server: the company of a task's row
    company, tasks, msgs, openTask,            \* the window
    pending, deleted, known, listSeen,         \* refs; listed: a list has succeeded here
    cache, ocrJob,                              \* localStorage: tasks_v1_*, the company of a running OCR job
    typing, journal,                         \* the composer's create is under way, reconTaskIdRef
    used, journals,                          \* ids handed out, those made for the journal
    taskReqs, taskActs

refs  == <<pending, deleted, known, listSeen>>
cached == <<cache, ocrJob>>
ids   == <<used, journals>>
taskVars  == <<row, company, tasks, msgs, openTask, refs, cached, typing, journal, ids, taskReqs,
               taskActs>>

TaskReq(kind, t) == [kind |-> kind, task |-> t, co |-> company, snap |-> {}, by |-> "send"]
ListReq(c)   == [TaskReq("list", NoTask) EXCEPT !.co = c]
OnServer(c)  == {t \in Task : row[t] = c}
JobsOf(c)    == {t \in Task : ocrJob[t] = c}
TaskCommand      == taskActs < MaxTaskActs /\ taskActs' = taskActs + 1

TaskInit ==
    /\ row = [t \in Task |-> IF t \in Stored THEN Home ELSE NoFirm]
    /\ company = Home /\ tasks = {} /\ msgs = [t \in Task |-> "none"] /\ openTask = NoTask
    /\ pending = {} /\ deleted = {} /\ known = {} /\ listSeen = FALSE
    /\ cache = [c \in Firm |-> {}] /\ ocrJob = [t \in Task |-> NoFirm]
    /\ typing = FALSE /\ journal = NoTask /\ used = Stored /\ journals = {}
    /\ taskReqs = {ListReq(Home)} /\ taskActs = 0

(* ----------------------- the list of the open company ----------------------- *)
ListServed(r) ==
    /\ r.kind = "list"
    /\ taskReqs' = (taskReqs \ {r}) \cup {[r EXCEPT !.kind = "listed", !.snap = OnServer(r.co)]}
    /\ UNCHANGED <<row, company, tasks, msgs, openTask, refs, cached, typing, journal, ids, taskActs>>

Unsynced(snap) == {t \in tasks \ (snap \cup deleted) : t \in pending \/ t = openTask}
Ghosts(shown)  == JobsOf(company) \ shown        \* ghostChatTasksFromActiveOcrBgJobs
TaskListAnswered(r) ==
    /\ r.kind = "listed"
    /\ known' = r.snap /\ listSeen' = TRUE /\ pending' = pending \ r.snap
    /\ LET kept  == (r.snap \ deleted) \cup (Unsynced(r.snap) \cap (pending' \cup {openTask}))
           final == kept \cup Ghosts(kept)
       IN /\ tasks' = final
          /\ msgs' = [t \in Task |-> IF t \in tasks THEN msgs[t] ELSE IF t \in kept THEN "none" ELSE "seed"]
          /\ cache' = [cache EXCEPT ![company] = final]
          /\ openTask' = IF openTask \in final \cup pending' THEN openTask ELSE NoTask
    /\ taskReqs' = taskReqs \ {r}
    /\ UNCHANGED <<row, company, deleted, ocrJob, typing, journal, ids, taskActs>>

ListFailed(r) ==
    /\ r.kind \in {"list", "listed"} /\ taskReqs' = taskReqs \ {r}
    /\ UNCHANGED <<row, company, tasks, msgs, openTask, refs, cached, typing, journal, ids, taskActs>>

\* The layout effect on [user, company]: what the window shows before the list is there.
FirstShown(c) == /\ tasks' = cache[c] /\ msgs' = [t \in Task |-> "none"] /\ openTask' = NoTask
            /\ known' = {} /\ listSeen' = FALSE
Hidden   == {r \in taskReqs : r.kind \in {"list", "listed"}}     \* cancelled by the effect's cleanup

SwitchFirm ==
    /\ TaskCommand
    /\ \E c \in Firm \ {company} :
          /\ company' = c /\ FirstShown(c)
          /\ deleted' = {} /\ pending' = pending \cup JobsOf(c)
          /\ taskReqs' = (taskReqs \ Hidden) \cup {ListReq(c)}
    /\ UNCHANGED <<row, cached, typing, journal, ids>>

\* A reload forgets the refs and every request's continuation; what was sent may be served.
Sent(r, on) == r.kind = "create" /\ r.task \in on
ReloadTab ==
    /\ TaskCommand /\ FirstShown(company)
    /\ deleted' = {} /\ pending' = JobsOf(company)
    /\ typing' = FALSE /\ journal' = NoTask
    /\ \E on \in SUBSET {r.task : r \in {q \in taskReqs : q.kind \in {"create", "remove"}}} :
          row' = [t \in Task |-> IF \E r \in taskReqs : Sent(r, on) /\ r.task = t
                                   THEN (CHOOSE r \in taskReqs : Sent(r, on) /\ r.task = t).co
                                 ELSE IF t \in on THEN NoFirm ELSE row[t]]
    /\ taskReqs' = {ListReq(company)}
    /\ UNCHANGED <<company, cached, ids>>

\* Signing out and in again also empties the cached lists.
Relogin ==
    /\ TaskCommand /\ tasks' = {} /\ msgs' = [t \in Task |-> "none"] /\ openTask' = NoTask
    /\ known' = {} /\ listSeen' = FALSE /\ deleted' = {} /\ pending' = JobsOf(company)
    /\ cache' = [c \in Firm |-> {}] /\ typing' = FALSE /\ journal' = NoTask
    /\ taskReqs' = {ListReq(company)}
    /\ UNCHANGED <<row, company, ocrJob, ids>>

(* ------------------------------- creating a task ----------------------------- *)
\* persistTaskToServer: the id is pending before the request leaves
PendAtCreate(t)   == pending \cup {t}
PendAtNoCreate(t) == pending                          \* (bug) noted in no list
Pend(t)           == PendAtCreate(t)
Create(t, by) ==
    /\ t \in Task \ used /\ used' = used \cup {t} /\ pending' = Pend(t)
    /\ taskReqs' = taskReqs \cup {[TaskReq("create", t) EXCEPT !.by = by]}

\* ensureTaskSaved: the open task is used when the server knows it or it is pending
Anchored == openTask # NoTask /\ openTask \in known \cup pending

TypeFirst ==     \* the first letters on the welcome screen
    /\ TaskCommand /\ openTask = NoTask /\ ~typing
    /\ \E t \in Task : Create(t, "typing")
    /\ typing' = TRUE
    /\ UNCHANGED <<row, company, tasks, msgs, openTask, deleted, known, listSeen, cached, journal,
                   journals>>

SendMessage ==     \* a message: to the open task, or to a new one
    /\ TaskCommand
    /\ IF Anchored
         THEN /\ msgs' = [msgs EXCEPT ![openTask] = "said"]
              /\ UNCHANGED <<pending, taskReqs, used>>
         ELSE /\ \E t \in Task : Create(t, "send")
              /\ UNCHANGED msgs
    /\ UNCHANGED <<row, company, tasks, openTask, deleted, known, listSeen, cached, typing, journal,
                   journals>>

UploadFiles ==   \* createNewTask: a file always gets a task of its own
    /\ TaskCommand /\ \E t \in Task : Create(t, "upload")
    /\ UNCHANGED <<row, company, tasks, msgs, openTask, deleted, known, listSeen, cached, typing,
                   journal, journals>>

\* ensureReconTask: the session's journal task, made when there is none
OpenJournal ==
    /\ TaskCommand /\ journal = NoTask
    /\ \E t \in Task : Create(t, "journal") /\ journals' = journals \cup {t}
    /\ UNCHANGED <<row, company, tasks, msgs, openTask, deleted, known, listSeen, cached, typing,
                   journal>>

\* addPersistedTask: shown in whatever list is there now, cached under the list's company of then
Inserted(r) ==
    /\ tasks' = tasks \cup {r.task}
    /\ msgs' = [msgs EXCEPT ![r.task] = IF r.by = "send" THEN "said" ELSE "seed"]
    /\ cache' = [cache EXCEPT ![r.co] = tasks']
    /\ typing' = (typing /\ r.by # "typing")
    /\ openTask' = IF r.by = "journal" THEN openTask ELSE r.task
    /\ taskReqs' = taskReqs \ {r}

TaskCreated(r) ==
    /\ r.kind = "create" /\ Inserted(r)
    /\ row' = [row EXCEPT ![r.task] = r.co]
    /\ known' = known \cup {r.task} /\ listSeen' = TRUE
    /\ ocrJob' = IF r.by = "upload" THEN [ocrJob EXCEPT ![r.task] = r.co] ELSE ocrJob
    /\ journal' = IF r.by = "journal" THEN r.task ELSE journal
    /\ UNCHANGED <<company, pending, deleted, ids, taskActs>>

\* The task is shown as failed and stays pending; the server may have its row all the same.
CreateFailed(r) ==
    /\ r.kind = "create" /\ Inserted(r)
    /\ \E there \in BOOLEAN : row' = IF there THEN [row EXCEPT ![r.task] = r.co] ELSE row
    /\ UNCHANGED <<company, refs, ocrJob, journal, ids, taskActs>>

OcrJobEnds ==
    /\ \E t \in Task : ocrJob[t] # NoFirm /\ ocrJob' = [ocrJob EXCEPT ![t] = NoFirm]
    /\ UNCHANGED <<row, company, tasks, msgs, openTask, refs, cache, typing, journal, ids, taskReqs,
                   taskActs>>

(* --------------------------- opening and deleting one ------------------------ *)
\* handleLoadTask, and the effect that loads the messages of a task that has none
Open ==
    /\ TaskCommand
    /\ \E t \in tasks : /\ openTask' = t
                        /\ taskReqs' = IF msgs[t] = "none" THEN taskReqs \cup {TaskReq("msgs", t)} ELSE taskReqs
    /\ UNCHANGED <<row, company, tasks, msgs, refs, cached, typing, journal, ids>>

NewChat ==
    /\ TaskCommand /\ openTask # NoTask /\ openTask' = NoTask
    /\ UNCHANGED <<row, company, tasks, msgs, refs, cached, typing, journal, ids, taskReqs>>

\* the AR and AP tasks of the list are read ahead
Prefetch ==
    /\ \E t \in tasks \cap known : /\ msgs[t] = "none" /\ TaskReq("msgs", t) \notin taskReqs
                                   /\ taskReqs' = taskReqs \cup {TaskReq("msgs", t)}
    /\ UNCHANGED <<row, company, tasks, msgs, openTask, refs, cached, typing, journal, ids, taskActs>>

\* A load for the open task replaces its messages; one made ahead fills an empty task, unless
\* the list changed since (the effect was cleaned up).
MessagesAnswered(r) ==
    /\ r.kind = "msgs" /\ row[r.task] = r.co /\ taskReqs' = taskReqs \ {r}
    /\ \/ /\ r.co = company /\ r.task \in tasks /\ (openTask = r.task \/ msgs[r.task] = "none")
          /\ msgs' = [msgs EXCEPT ![r.task] = "real"] /\ cache' = [cache EXCEPT ![company] = tasks]
       \/ openTask # r.task /\ UNCHANGED <<msgs, cache>>
    /\ UNCHANGED <<row, company, tasks, openTask, refs, ocrJob, typing, journal, ids, taskActs>>

MessagesFailed(r) ==
    /\ r.kind = "msgs" /\ taskReqs' = taskReqs \ {r}
    /\ msgs' = IF r.task = openTask /\ msgs[r.task] = "none" THEN [msgs EXCEPT ![r.task] = "seed"] ELSE msgs
    /\ UNCHANGED <<row, company, tasks, openTask, refs, cached, typing, journal, ids, taskActs>>

\* pruneStaleEmptyCachedTask: 404, whatever list is shown by now
Prune(r) == r.task \in tasks \ pending /\ msgs[r.task] = "none"
MessagesMissing(r) ==
    /\ r.kind = "msgs" /\ row[r.task] # r.co /\ taskReqs' = taskReqs \ {r}
    /\ IF Prune(r)
         THEN /\ tasks' = tasks \ {r.task} /\ cache' = [cache EXCEPT ![r.co] = tasks']
              /\ openTask' = IF openTask = r.task THEN NoTask ELSE openTask
         ELSE UNCHANGED <<tasks, cache, openTask>>
    /\ UNCHANGED <<row, company, msgs, refs, ocrJob, typing, journal, ids, taskActs>>

\* _commitDeleteTask: gone here at once, the request is sent and forgotten
DeleteTask ==
    /\ TaskCommand
    /\ \E t \in tasks :
          /\ deleted' = deleted \cup {t} /\ pending' = pending \ {t} /\ known' = known \ {t}
          /\ tasks' = tasks \ {t} /\ cache' = [cache EXCEPT ![company] = tasks']
          /\ openTask' = IF openTask = t THEN NoTask ELSE openTask
          /\ journal' = IF journal = t THEN NoTask ELSE journal
          /\ taskReqs' = taskReqs \cup {TaskReq("remove", t)}
    /\ UNCHANGED <<row, company, msgs, listSeen, ocrJob, typing, ids>>

Removed(r) ==
    /\ r.kind = "remove" /\ taskReqs' = taskReqs \ {r}
    /\ \/ row' = [row EXCEPT ![r.task] = NoFirm]
       \/ row' = row                                  \* failed: a warning in the console
    /\ UNCHANGED <<company, tasks, msgs, openTask, refs, cached, typing, journal, ids, taskActs>>

(* ------------------------------- specification ------------------------------- *)
TaskNext ==
    \/ \E r \in taskReqs : \/ ListServed(r) \/ TaskListAnswered(r) \/ ListFailed(r)
                       \/ TaskCreated(r) \/ CreateFailed(r) \/ Removed(r)
                       \/ MessagesAnswered(r) \/ MessagesFailed(r) \/ MessagesMissing(r)
    \/ SwitchFirm \/ ReloadTab \/ Relogin
    \/ TypeFirst \/ SendMessage \/ UploadFiles \/ OpenJournal \/ OcrJobEnds
    \/ Open \/ NewChat \/ Prefetch \/ DeleteTask

TaskSpec == TaskInit /\ [][TaskNext]_taskVars

(* --------------------------------- properties -------------------------------- *)
\* A task of the open company that the server has leaves the list only when the user
\* deletes it, changes the company, reloads or signs in again: a list answered late, or a 404,
\* never takes it away (the ids of persistTaskToServer and the merge of taskApi.list()).  The
\* exception is a 404 for messages asked under another company: addPersistedTask caches the list
\* on screen under the company of its create, so after two switches a task can be opened under
\* a company it is not of, and pruneStaleEmptyCachedTask does not look where the answer lands.
Kept(t)    == t \in tasks => t \in tasks'
Foreign(t) == \E r \in taskReqs : r.kind = "msgs" /\ r.task = t /\ r.co # company
NotDroppedStep == \A t \in Task : \/ Kept(t) \/ row[t] # company \/ t \in deleted' \/ Foreign(t)
                                 \/ SwitchFirm \/ ReloadTab \/ Relogin
NotDropped == [][NotDroppedStep]_taskVars

============================================================================
