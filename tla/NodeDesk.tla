------------------------------ MODULE NodeDesk ------------------------------
(***************************************************************************)
(* The node workspace (NodeWorkspace.tsx over workflowRunStore.ts): the    *)
(* list of runs and the run that is open, its graph on the canvas with the *)
(* debounced save of every change, the polling while a run executes, stop  *)
(* and its guard.  A graph is the set of the nodes and settings it has.    *)
(***************************************************************************)
EXTENDS Naturals, FiniteSets

CONSTANTS Run, NoRun, CompanyOf, \* runs and the company of each
          Fresh,                 \* the runs that are created later
          Part,                  \* what can be added to a graph
          MaxActs                \* bound on what the user does

NodeDeskAssumption == NoRun \notin Run /\ MaxActs \in Nat

VARIABLES server,    \* [Run -> [g, st, gone]]: run, graph and run_status at the server
          company,   \* activeCompany
          store,     \* runsById: [loaded runs -> [g, st]]
          listed,    \* ids of summaries
          active,    \* activeRunId
          canvas,    \* the run whose nodes are in the nodes state
          pending,   \* pendingGraphRef: [r, g]
          timer,     \* graphPatchTimerRef is armed
          calls,     \* requests on their way, [k, r, c, g, st] and what they carry back
          busy,      \* busyRunId
          poll,      \* executePollRef: the run whose poll is set
          guard,     \* stopGuardRunIdRef
          error,     \* apiError is shown
          acts

desk == <<server, company, store, listed, active, canvas, pending, timer, calls, busy, poll, guard, error, acts>>

Company == {CompanyOf[r] : r \in Run}
NoGraph == [r |-> NoRun, g |-> {}]
Act == acts < MaxActs /\ acts' = acts + 1
Loaded(r) == r \in DOMAIN store
Open == active # NoRun /\ Loaded(active)    \* activeRun is not null

NodeInit ==
  /\ server = [r \in Run |-> [g |-> {}, st |-> "draft", gone |-> r \in Fresh]]
  /\ company \in Company
  /\ store = << >> /\ listed = {} /\ active = NoRun /\ canvas = NoRun
  /\ pending = NoGraph /\ timer = FALSE
  /\ calls = {[k |-> "list", r |-> NoRun, c |-> company, sent |-> TRUE]}
  /\ busy = NoRun /\ poll = NoRun /\ guard = NoRun /\ error = FALSE /\ acts = 0

Call(k, r) == [k |-> k, r |-> r, c |-> company, sent |-> TRUE]
Put(r, g, st) == [x \in DOMAIN store \cup {r} |-> IF x = r THEN [g |-> g, st |-> st] ELSE store[x]]

\* mergeServerRun: an edit that is not saved yet wins over the server's graph
Merged(r, g) == IF pending.r = r THEN pending.g ELSE g

\* shouldIgnoreRunRefreshAfterStop: a run that was stopped is not shown processing again
Ignored(r, st) == guard = r /\ st = "executing"

\* the effects of activeRun: its nodes are drawn when its status or files change
Drawn(r, new, old) == IF active = r /\ (~ Loaded(r) \/ new # old) THEN r ELSE canvas

\* set_full_run: the run is loaded and heads the list
SetFull(r, g, st) ==
  /\ store' = Put(r, g, st) /\ listed' = listed \cup {r}
  /\ canvas' = Drawn(r, st, IF Loaded(r) THEN store[r].st ELSE "none")

-----------------------------------------------------------------------------
(* the list and the open run *)

\* loadRuns answered: the run that was open stays, else the first is opened
ListAnswered ==
  \E k \in calls :
    /\ k.k = "list"
    /\ LET runs == {r \in Run : CompanyOf[r] = k.c /\ ~ server[r].gone} IN
       /\ listed' = runs
       /\ \E r \in IF active \in runs THEN {active} ELSE IF runs = {} THEN {NoRun} ELSE runs :
            /\ active' = r
            /\ canvas' = IF Loaded(r) THEN r ELSE canvas
            /\ calls' = (calls \ {k}) \cup (IF r = NoRun THEN {}
                                            ELSE {[k |-> "open", r |-> r, c |-> k.c, sent |-> TRUE]})
    /\ UNCHANGED <<server, company, store, pending, timer, busy, poll, guard, error, acts>>

\* activateRun: an answer for another company or a run no longer selected is dropped
OpenAnswered ==
  \E k \in calls :
    /\ k.k = "open" /\ calls' = calls \ {k}
    /\ IF CompanyOf[k.r] = company /\ active = k.r /\ ~ server[k.r].gone
       THEN SetFull(k.r, Merged(k.r, server[k.r].g), server[k.r].st) /\ UNCHANGED error
       ELSE UNCHANGED <<store, listed, canvas>> /\ error' = (error \/ server[k.r].gone)
    /\ UNCHANGED <<server, company, active, pending, timer, busy, poll, guard, acts>>

\* selectRun
SelectRun ==
  /\ \E r \in listed \ {active} :
       /\ CompanyOf[r] = company
       /\ active' = r /\ calls' = calls \cup {Call("open", r)}
       /\ canvas' = IF Loaded(r) THEN r ELSE canvas
  /\ Act /\ UNCHANGED <<server, company, store, listed, pending, timer, busy, poll, guard, error>>

\* the company effect: everything of the page is reset but the timer and the poll
SwitchCompany ==
  /\ \E c \in Company \ {company} :
       /\ company' = c
       /\ calls' = calls \cup {[k |-> "list", r |-> NoRun, c |-> c, sent |-> TRUE]}
  /\ store' = << >> /\ listed' = {} /\ active' = NoRun /\ canvas' = NoRun /\ pending' = NoGraph
  /\ Act /\ UNCHANGED <<server, timer, busy, poll, guard, error>>

\* archiveRun, deleteRun: the next run of the list is opened
RemoveRun ==
  /\ \E r \in listed :
       /\ server' = [server EXCEPT ![r].gone = TRUE]
       /\ listed' = listed \ {r}
       /\ store' = [x \in DOMAIN store \ {r} |-> store[x]]
       /\ IF active # r THEN UNCHANGED <<active, canvas, calls>>
          ELSE \E n \in IF listed = {r} THEN {NoRun} ELSE listed \ {r} :
                 /\ active' = n /\ canvas' = IF Loaded(n) THEN n ELSE canvas
                 /\ calls' = IF n = NoRun THEN calls ELSE calls \cup {Call("open", n)}
  /\ Act /\ UNCHANGED <<company, pending, timer, busy, poll, guard, error>>

\* createRun: the new run is opened with what the server answered
CreateRun ==
  /\ \E r \in Fresh :
       /\ CompanyOf[r] = company /\ server[r].gone /\ ~ Loaded(r)
       /\ server' = [server EXCEPT ![r].gone = FALSE]
       /\ store' = Put(r, {}, "draft") /\ listed' = listed \cup {r} /\ active' = r /\ canvas' = r
  /\ pending' = NoGraph
  /\ Act /\ UNCHANGED <<company, timer, calls, busy, poll, guard, error>>

\* renameRun: the meta's answer is shown as the run
Rename ==
  /\ \E r \in listed :
       ~ server[r].gone /\ (IF Ignored(r, server[r].st) THEN UNCHANGED <<store, listed, canvas>>
                            ELSE SetFull(r, Merged(r, server[r].g), server[r].st))
  /\ Act /\ UNCHANGED <<server, company, active, pending, timer, calls, busy, poll, guard, error>>

-----------------------------------------------------------------------------
(* the graph *)

Saved(r, g) == [k |-> "patch", r |-> r, c |-> company, g |-> g, then |-> FALSE, sent |-> TRUE]

\* persistGraphChange: shown at once, saved when the timer fires or, for a model, at once
Change(r, g, now) ==
  /\ store' = IF Loaded(r) THEN Put(r, g, store[r].st) ELSE store
  /\ pending' = [r |-> r, g |-> g]
  /\ timer' = ~ now
  /\ calls' = IF now THEN calls \cup {Saved(r, g)} ELSE calls
  /\ Act /\ UNCHANGED <<server, company, active, busy, poll, guard, error>>

\* patchGraphNode: the setting of a node, on the run that is open
PatchNode ==
  /\ Open
  /\ \E p \in Part \ store[active].g, now \in BOOLEAN : Change(active, store[active].g \cup {p}, now)
  /\ UNCHANGED <<listed, canvas>>

\* addCatalogNode, autoLayoutGraph
AddNode ==
  /\ Open /\ \E p \in Part \ store[active].g : Change(active, store[active].g \cup {p}, FALSE)
  /\ canvas' = active /\ UNCHANGED listed

\* removeGraphNodes
RemoveNodes ==
  /\ Open /\ \E p \in store[active].g : Change(active, store[active].g \ {p}, FALSE)
  /\ canvas' = active /\ UNCHANGED listed

\* the timer of persistGraphChange fires: whatever is pending goes out
TimerFires ==
  /\ timer /\ timer' = FALSE
  /\ calls' = IF pending = NoGraph THEN calls ELSE calls \cup {Saved(pending.r, pending.g)}
  /\ UNCHANGED <<server, company, store, listed, active, canvas, pending, busy, poll, guard, error, acts>>

\* (bug) the graph that was saved is compared with the one on the screen
PendingAfterOpen(k) == IF Loaded(active) /\ store[active].g = k.g THEN NoGraph ELSE pending

\* commitGraphPatch: only the pending graph that was saved is cleared
PendingAfter(k) == IF pending = [r |-> k.r, g |-> k.g] THEN NoGraph ELSE pending

\* commitGraphPatch: the saved graph is shown; only the pending one it saved is cleared
PatchAnswered ==
  \E k \in calls :
    /\ k.k = "patch" /\ ~ server[k.r].gone
    /\ server' = [server EXCEPT ![k.r].g = k.g]
    /\ store' = Put(k.r, k.g, server[k.r].st) /\ listed' = listed \cup {k.r}
    /\ canvas' = Drawn(k.r, server[k.r].st, IF Loaded(k.r) THEN store[k.r].st ELSE "none")
    /\ pending' = PendingAfter(k)
    /\ calls' = (calls \ {k}) \cup (IF k.then THEN {[k |-> "execute", r |-> k.r, c |-> k.c, sent |-> TRUE]} ELSE {})
    /\ UNCHANGED <<company, active, timer, busy, poll, guard, error, acts>>

\* its failure is reported; the run that waited for it starts all the same
PatchFailed ==
  \E k \in calls :
    /\ k.k = "patch" /\ error' = TRUE
    /\ calls' = (calls \ {k}) \cup (IF k.then THEN {[k |-> "execute", r |-> k.r, c |-> k.c, sent |-> TRUE]} ELSE {})
    /\ UNCHANGED <<server, company, store, listed, active, canvas, pending, timer, busy, poll, guard, acts>>

\* deployTemplateToRun: the template's graph replaces the run's, the timer is dropped
DeployTemplate ==
  /\ Open /\ timer' = FALSE
  /\ \/ /\ server' = [server EXCEPT ![active].g = Part] /\ pending' = NoGraph
        /\ store' = Put(active, Part, server[active].st) /\ canvas' = active /\ UNCHANGED error
     \/ error' = TRUE /\ UNCHANGED <<server, pending, store, canvas>>
  /\ Act /\ UNCHANGED <<company, listed, active, calls, busy, poll, guard>>

-----------------------------------------------------------------------------
(* executing *)

\* handleRun: the graph is saved first, the poll is set; Run is enabled while the run is a draft
StartRun ==
  /\ Open /\ busy # active /\ store[active].st \in {"draft", "awaiting_review"}
  /\ LET g == Merged(active, store[active].g) IN
     /\ pending' = [r |-> active, g |-> g] /\ timer' = FALSE
     /\ calls' = calls \cup {[Saved(active, g) EXCEPT !.then = TRUE]}
  /\ busy' = active /\ poll' = active
  /\ Act /\ UNCHANGED <<server, company, store, listed, active, canvas, guard, error>>

\* execute reaches the server; it answers when the extraction has ended
Executing ==
  \E k \in calls :
    /\ k.k = "execute" /\ k.sent
    /\ server' = [server EXCEPT ![k.r].st = "executing"]
    /\ calls' = (calls \ {k}) \cup {[k EXCEPT !.sent = FALSE]}
    /\ UNCHANGED <<company, store, listed, active, canvas, pending, timer, busy, poll, guard, error, acts>>

\* setFullRunFromServer: nothing of another company, no processing state after Stop
FromServer(r, st) ==
  IF CompanyOf[r] # company \/ Ignored(r, st) THEN UNCHANGED <<store, listed, canvas>>
  ELSE SetFull(r, Merged(r, server[r].g), st)

\* handleReVlm: shown running at once, asked for when the workflow settings are saved
ReVlm ==
  /\ Open /\ busy # active /\ store[active].st = "awaiting_review"
  /\ FromServer(active, "executing")
  /\ busy' = active /\ poll' = active
  /\ calls' = calls \cup {Call("execute", active)}
  /\ Act /\ UNCHANGED <<server, company, active, pending, timer, guard, error>>

\* handleApprove, handleResume: busy until resume answers; a completed run stays so
Resume ==
  /\ Open /\ busy # active /\ store[active].st = "awaiting_review"
  /\ busy' = active /\ calls' = calls \cup {Call("resume", active)}
  /\ Act /\ UNCHANGED <<server, company, store, listed, active, canvas, pending, timer, poll, guard, error>>

\* setBusyRunId(prev => prev === runId ? null : prev)
Released(r) == IF busy = r THEN NoRun ELSE busy

\* the extraction ends, or fails, and execute answers
ExecuteAnswered ==
  \E k \in calls :
    /\ k.k = "execute" /\ ~ k.sent /\ calls' = calls \ {k}
    /\ server' = [server EXCEPT ![k.r].st = IF @ = "executing" THEN "awaiting_review" ELSE @]
    /\ FromServer(k.r, server'[k.r].st)
    /\ poll' = NoRun /\ busy' = Released(k.r)
    /\ UNCHANGED <<company, active, pending, timer, guard, error, acts>>

ExecuteFailed ==
  \E k \in calls :
    /\ k.k = "execute" /\ calls' = calls \ {k}
    /\ server' = [server EXCEPT ![k.r].st = IF @ = "executing" THEN "draft" ELSE @]
    /\ poll' = NoRun /\ busy' = Released(k.r) /\ error' = TRUE
    /\ UNCHANGED <<company, store, listed, active, canvas, pending, timer, guard, acts>>

\* resume's answer is shown whatever is open by then
ResumeAnswered ==
  \E k \in calls :
    /\ k.k = "resume" /\ calls' = calls \ {k}
    /\ busy' = Released(k.r)
    /\ \/ /\ server[k.r].st = "awaiting_review"
          /\ server' = [server EXCEPT ![k.r].st = "completed"]
          /\ SetFull(k.r, server[k.r].g, "completed") /\ UNCHANGED error
       \/ error' = TRUE /\ UNCHANGED <<server, store, listed, canvas>>
    /\ UNCHANGED <<company, active, pending, timer, poll, guard, acts>>

\* uploadFiles, handleRemoveFile, onForceProcess: the run is read again afterwards
ChangeFiles ==
  /\ Open /\ calls' = calls \cup {Call("refresh", active)}
  /\ Act /\ UNCHANGED <<server, company, store, listed, active, canvas, pending, timer, busy, poll, guard, error>>

RefreshAnswered ==
  \E k \in calls :
    /\ k.k = "refresh" /\ calls' = calls \ {k}
    /\ IF CompanyOf[k.r] # company \/ server[k.r].gone THEN UNCHANGED <<store, listed, canvas>>
       ELSE /\ store' = Put(k.r, Merged(k.r, server[k.r].g), server[k.r].st)
            /\ listed' = listed \cup {k.r} /\ canvas' = k.r
    /\ UNCHANGED <<server, company, active, pending, timer, busy, poll, guard, error, acts>>

\* a tick of the poll: refreshRun, without the stop guard, then the run's nodes are drawn
PollAnswered ==
  /\ poll # NoRun /\ CompanyOf[poll] = company /\ ~ server[poll].gone
  /\ store' = Put(poll, Merged(poll, server[poll].g), server[poll].st)
  /\ listed' = listed \cup {poll} /\ canvas' = poll
  /\ UNCHANGED <<server, company, active, pending, timer, calls, busy, poll, guard, error, acts>>

\* useWorkflowRunEvents of the open run
EventAnswered ==
  /\ Open /\ CompanyOf[active] = company /\ ~ server[active].gone
  /\ FromServer(active, server[active].st)
  /\ UNCHANGED <<server, company, active, pending, timer, calls, busy, poll, guard, error, acts>>

\* performStop: the run is shown stopped before the server has answered
Stop ==
  /\ Open /\ (busy = active \/ store[active].st = "executing")
  /\ poll' = NoRun /\ busy' = Released(active) /\ guard' = active
  /\ SetFull(active, Merged(active, store[active].g), "draft")
  /\ calls' = calls \cup {Call("cancel", active)}
  /\ Act /\ UNCHANGED <<server, company, active, pending, timer, error>>

CancelAnswered ==
  \E k \in calls :
    /\ k.k = "cancel" /\ calls' = calls \ {k}
    /\ server' = [server EXCEPT ![k.r].st = IF @ = "executing" THEN "draft" ELSE @]
    /\ FromServer(k.r, server'[k.r].st)
    /\ guard' = NoRun
    /\ UNCHANGED <<company, active, pending, timer, busy, poll, error, acts>>

\* a cancel that fails reads the run again; a run still executing keeps the guard
CancelFailed ==
  \E k \in calls :
    /\ k.k = "cancel" /\ calls' = calls \ {k} /\ error' = TRUE
    /\ FromServer(k.r, server[k.r].st)
    /\ guard' = IF server[k.r].st = "executing" THEN guard ELSE NoRun
    /\ UNCHANGED <<server, company, active, pending, timer, busy, poll, acts>>

\* the error banner is closed
Dismiss ==
  /\ error /\ error' = FALSE
  /\ Act /\ UNCHANGED <<server, company, store, listed, active, canvas, pending, timer, calls, busy, poll, guard>>

NodeNext ==
  \/ ListAnswered \/ OpenAnswered \/ SelectRun \/ SwitchCompany \/ RemoveRun \/ CreateRun \/ Rename
  \/ PatchNode \/ AddNode \/ RemoveNodes \/ TimerFires \/ PatchAnswered \/ PatchFailed \/ DeployTemplate
  \/ StartRun \/ ReVlm \/ Resume \/ ResumeAnswered \/ ChangeFiles \/ RefreshAnswered
  \/ Executing \/ ExecuteAnswered \/ ExecuteFailed \/ PollAnswered \/ EventAnswered
  \/ Stop \/ CancelAnswered \/ CancelFailed \/ Dismiss

NodeSpec == NodeInit /\ [][NodeNext]_desk

Answers ==
  /\ WF_desk(TimerFires) /\ WF_desk(PatchAnswered \/ PatchFailed)
  /\ WF_desk(Executing) /\ WF_desk(ExecuteAnswered \/ ExecuteFailed) /\ WF_desk(ResumeAnswered)

-----------------------------------------------------------------------------
\* A change that waits for the timer does not wait for ever: it is saved, its failure is
\* reported, or it is dropped with its company (persistGraphChange,
\* commitGraphPatch, and the timers that other handlers clear).
EditWaits == pending # NoGraph /\ timer
EditOver  == pending = NoGraph \/ error
EditEnds  == EditWaits ~> EditOver

=============================================================================
