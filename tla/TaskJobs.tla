----------------------------- MODULE TaskJobs ------------------------------
(***************************************************************************)
(* Background OCR jobs of the classic workspace across company switches    *)
(* and reloads (WorkspaceApp.tsx): processFile waits for its job; an       *)
(* effect on [user, company] finds the jobs noted in localStorage, asks    *)
(* for each once and polls those that still run; a second loop mirrors the *)
(* company's running jobs into the tasks on screen.  Whoever learns of a   *)
(* result puts it into the task and removes the note, if the task is in    *)
(* the list at that moment.                                                *)
(*                                                                         *)
(* Every job is one of Home, in a task of its own.                         *)
(***************************************************************************)
EXTENDS Naturals, FiniteSets

CONSTANTS Job,
          Lossy,      \* a poll may be lost or refused
          MaxJobActs     \* bound: user commands

ASSUME JobsAssumption == Lossy \in BOOLEAN /\ MaxJobActs \in Nat

VARIABLES
    job,                           \* server: "none", "running", "done", "failed"
    key, inCache, cachedMirror,    \* localStorage: notes of jobs, tasks cached for Home, mirror bubbles in them
    home, onScreen, listing,         \* Home is open; jobs whose task is shown; a taskApi.list() is under way
    waiting, local,                \* processFile's waits; localBackgroundJobIdsRef
    gen, scans, polls, polling,    \* the effect's runs, its first questions, its loops, pollingBackgroundJobIdsRef
    mirror, prev, tick,            \* remote-bg bubbles, prevWorkspaceActivityKeysRef, the activity request
    delivered, told, jobActs          \* times a result entered its task, failures shown

jobStore  == <<key, inCache, cachedMirror>>
jobView   == <<home, onScreen, listing>>
resume == <<gen, scans, polls, polling>>
act    == <<mirror, prev, tick>>
jobs   == <<job, jobStore, jobView, waiting, local, resume, act, delivered, told, jobActs>>

Idle    == [on |-> FALSE, snap |-> {}]
JobAct == jobActs < MaxJobActs /\ jobActs' = jobActs + 1

JobsInit ==
    /\ job = [j \in Job |-> "none"] /\ key = {} /\ inCache = {} /\ cachedMirror = {}
    /\ home = TRUE /\ onScreen = {} /\ listing = FALSE /\ waiting = {} /\ local = {}
    /\ gen = 0 /\ scans = {} /\ polls = {} /\ polling = {}
    /\ mirror = {} /\ prev = {} /\ tick = Idle
    /\ delivered = [j \in Job |-> 0] /\ told = {} /\ jobActs = 0

(* -------------------------------- processFile -------------------------------- *)
StartJob ==
    /\ JobAct /\ home
    /\ \E j \in Job : /\ job[j] = "none" /\ job' = [job EXCEPT ![j] = "running"]
                      /\ key' = key \cup {j} /\ inCache' = inCache \cup {j} /\ onScreen' = onScreen \cup {j}
                      /\ waiting' = waiting \cup {j} /\ local' = local \cup {j}
    /\ UNCHANGED <<cachedMirror, home, listing, resume, act, delivered, told>>

JobEnds(j) ==     \* the server
    /\ job[j] = "running" /\ \E s \in {"done", "failed"} : job' = [job EXCEPT ![j] = s]
    /\ UNCHANGED <<jobStore, jobView, waiting, local, resume, act, delivered, told, jobActs>>

Shown(j)     == j \in onScreen                    \* tasksRef has the task
ShownAny(j)  == TRUE                            \* (bug) the note goes without a look at the list
Noted(j)     == Shown(j)
Deliver(j)   == delivered' = IF Shown(j) /\ delivered[j] < 2 THEN [delivered EXCEPT ![j] = @ + 1] ELSE delivered
Unnote(j)    == key' = IF Noted(j) THEN key \ {j} ELSE key

WaitDone(j) ==
    /\ j \in waiting /\ job[j] = "done"
    /\ waiting' = waiting \ {j} /\ local' = local \ {j} /\ Unnote(j) /\ Deliver(j)
    /\ UNCHANGED <<job, inCache, cachedMirror, jobView, resume, act, told, jobActs>>
WaitFailed(j) ==     \* the job failed, or one poll did
    /\ j \in waiting /\ (job[j] = "failed" \/ Lossy)
    /\ waiting' = waiting \ {j} /\ local' = local \ {j} /\ Unnote(j)
    /\ told' = IF Shown(j) THEN told \cup {j} ELSE told
    /\ UNCHANGED <<job, inCache, cachedMirror, jobView, resume, act, delivered, jobActs>>

(* ------------------------- the resume effect and its loops -------------------- *)
\* the effect's cleanup and its next run
Rescan == gen' = gen + 1 /\ scans' = key

Leave ==
    /\ JobAct /\ home /\ home' = FALSE /\ onScreen' = {} /\ listing' = TRUE /\ mirror' = {} /\ Rescan
    /\ UNCHANGED <<job, jobStore, waiting, local, polls, polling, prev, tick, delivered, told>>
Return ==
    /\ JobAct /\ ~home /\ home' = TRUE /\ onScreen' = inCache /\ listing' = TRUE
    /\ mirror' = cachedMirror \cap inCache /\ Rescan
    /\ UNCHANGED <<job, jobStore, waiting, local, polls, polling, prev, tick, delivered, told>>

\* a reload, or a new sign-in, which empties the cached lists first
ReloadPage ==
    /\ JobAct /\ inCache' \in {{}, inCache} /\ listing' = TRUE
    /\ onScreen' = IF home THEN inCache' ELSE {}
    /\ mirror' = cachedMirror \cap onScreen' /\ prev' = {} /\ tick' = Idle
    /\ waiting' = {} /\ local' = {} /\ polls' = {} /\ polling' = {} /\ Rescan
    /\ UNCHANGED <<job, key, cachedMirror, home, delivered, told>>

JobsListAnswered ==
    /\ listing /\ listing' = FALSE
    /\ onScreen' = IF home THEN {j \in Job : job[j] # "none"} ELSE {}
    /\ inCache' = IF home THEN onScreen' ELSE inCache
    /\ cachedMirror' = IF home THEN mirror ELSE cachedMirror
    /\ UNCHANGED <<job, key, home, waiting, local, resume, act, delivered, told, jobActs>>

\* the answer to the effect's first question
ScanDone(j) ==
    /\ j \in scans /\ scans' = scans \ {j} /\ job[j] = "done"
    /\ Unnote(j) /\ Deliver(j)
    /\ UNCHANGED <<job, inCache, cachedMirror, jobView, waiting, local, gen, polls, polling, act, told,
                   jobActs>>
ScanFailed(j) ==
    /\ j \in scans /\ scans' = scans \ {j}
    /\ \/ job[j] = "failed" /\ key' = key \ {j} /\ told' = told \cup {j}
       \/ Lossy /\ UNCHANGED <<key, told>>
    /\ UNCHANGED <<job, inCache, cachedMirror, jobView, waiting, local, gen, polls, polling, act,
                   delivered, jobActs>>
ScanRunning(j) ==
    /\ j \in scans /\ scans' = scans \ {j} /\ job[j] = "running"
    /\ IF j \in polling THEN UNCHANGED <<polls, polling>>
       ELSE polls' = polls \cup {[job |-> j, gen |-> gen]} /\ polling' = polling \cup {j}
    /\ UNCHANGED <<job, jobStore, jobView, waiting, local, gen, act, delivered, told, jobActs>>

Over(p) == polls' = polls \ {p} /\ polling' = polling \ {p.job}
PollDone(p) ==
    /\ p.gen = gen /\ job[p.job] = "done" /\ Over(p)
    /\ Unnote(p.job) /\ Deliver(p.job)
    /\ UNCHANGED <<job, inCache, cachedMirror, jobView, waiting, local, gen, scans, act, told, jobActs>>
PollFailed(p) ==     \* "resume failed": the note is removed
    /\ p.gen = gen /\ (job[p.job] = "failed" \/ Lossy) /\ Over(p)
    /\ key' = key \ {p.job} /\ told' = IF job[p.job] = "failed" THEN told \cup {p.job} ELSE told
    /\ UNCHANGED <<job, inCache, cachedMirror, jobView, waiting, local, gen, scans, act, delivered,
                   jobActs>>
PollCancelled(p) ==  \* a loop of an earlier run notices
    /\ p.gen # gen /\ Over(p)
    /\ UNCHANGED <<job, jobStore, jobView, waiting, local, gen, scans, act, delivered, told, jobActs>>

(* ----------------------------- the activity mirror --------------------------- *)
TickServed ==
    /\ ~tick.on /\ key # {}
    /\ tick' = [on |-> TRUE, snap |-> IF home THEN {j \in Job : job[j] = "running"} ELSE {}]
    /\ UNCHANGED <<job, jobStore, jobView, waiting, local, resume, mirror, prev, delivered, told,
                   jobActs>>
TickAnswered ==
    /\ tick.on /\ tick' = Idle /\ prev' = tick.snap
    /\ mirror' = (mirror \ (prev \ tick.snap)) \cup ((tick.snap \ local) \cap onScreen)
    /\ UNCHANGED <<job, jobStore, jobView, waiting, local, resume, delivered, told, jobActs>>
CacheWritten ==      \* any change that goes through _writeLocalCache
    /\ home /\ (inCache # onScreen \/ cachedMirror # mirror) /\ inCache' = onScreen /\ cachedMirror' = mirror
    /\ UNCHANGED <<job, key, jobView, waiting, local, resume, act, delivered, told, jobActs>>

(* ------------------------------- specification ------------------------------- *)
JobStep(j)  == WaitDone(j) \/ WaitFailed(j)
ScanStep(j) == ScanDone(j) \/ ScanFailed(j) \/ ScanRunning(j)
PollStep(p) == PollDone(p) \/ PollFailed(p) \/ PollCancelled(p)
JobsNext ==
    \/ StartJob \/ Leave \/ Return \/ ReloadPage \/ JobsListAnswered \/ CacheWritten \/ TickServed \/ TickAnswered
    \/ \E j \in Job : JobEnds(j) \/ JobStep(j) \/ ScanStep(j)
    \/ \E p \in polls : PollStep(p)

JobsSpec == JobsInit /\ [][JobsNext]_jobs

(* --------------------------------- properties -------------------------------- *)
\* The note of a job goes only with its result put into the task, or with a failure the user
\* can see: a result is never out of reach because the task was not on screen when it came
\* (processFile, pollUntilDone and the first question all look at tasksRef).
NoteKept == \A j \in Job : job[j] = "done" /\ j \notin key => delivered[j] > 0 \/ j \in told

============================================================================
