----------------------------- MODULE RunControl -----------------------------
(***************************************************************************)
(* Starting, stopping and following runs from the Processing screen        *)
(* (ProcessingView.tsx, processingActionGates.ts, workflowApi.ts,          *)
(* useWorkflowRunEvents.ts).  A start is one long request that is answered *)
(* when the extraction ends; meanwhile the screen polls.  Stop paints the  *)
(* run as stopped at once and leaves a guard that drops answers which      *)
(* still say executing.                                                    *)
(*                                                                         *)
(* A run is executing or idle; each request is [kind, run, st]: st is      *)
(* "sent", "live" (the extraction it started is going on) or the snapshot  *)
(* of the run its answer carries.                                          *)
(***************************************************************************)
EXTENDS Naturals, FiniteSets

CONSTANTS Runs, NoOne, MaxReqs

ASSUME ControlAssumption == NoOne \notin Runs /\ MaxReqs \in Nat

VARIABLES open,     \* activeRunId
          view,     \* activeRun: [id, st]
          listed,   \* runs: the status of every run in the rail
          busy,     \* busyRunId
          guard,    \* stopGuardRunIdRef
          modal,    \* showReVlm
          reqs,     \* requests in flight
          server,   \* the runs of the backend
          wanted    \* history: runs started here that nobody stopped since

cvars == <<open, view, listed, busy, guard, modal, reqs, server, wanted>>

Exec == "executing"
Snap == {"idle", Exec}
Starts == {"execute", "reVlm", "crops"}
Reads == {"poll", "get", "getForce", "getStop", "load", "list"}

ControlInit ==
  /\ open = NoOne /\ view = [id |-> NoOne, st |-> "idle"]
  /\ listed = [r \in Runs |-> "idle"] /\ server = [r \in Runs |-> "idle"]
  /\ busy = NoOne /\ guard = NoOne /\ modal = FALSE
  /\ reqs = {} /\ wanted = {}

Req(kind, r) == [kind |-> kind, run |-> r, st |-> "sent"]
Room == Cardinality({q \in reqs : q.kind # "poll"}) < MaxReqs

\* The polls and the socket's refreshes of a run that is executing end with it
Following(v, o, S) ==
  {q \in S : q.kind = "poll" => v.st = Exec /\ q.run = o}

\* (bug) the guard drops every answer of the run
IgnoredAlways(r, st) == guard = r

\* shouldIgnoreRunRefreshAfterStop
Ignored(r, st) == guard = r /\ st = Exec

\* applyRunFromServer: the rail always, the open run only if it is still open;
\* the new view, rail and requests
Apply(r, st, force, S) ==
  IF ~ force /\ Ignored(r, st)
  THEN /\ UNCHANGED <<view, listed>> /\ reqs' = S
  ELSE /\ listed' = [listed EXCEPT ![r] = st]
       /\ view' = IF r = open THEN [id |-> r, st |-> st] ELSE view
       /\ reqs' = Following(view', open, S)

\* applyRunReVlmLocally: the run is painted as executing before the request is sent
PaintReVlm(r, S) == Apply(r, Exec, FALSE, S)

\* anotherRunIsProcessing
AnotherRunProcessing ==
  \/ busy # NoOne /\ busy # open
  \/ \E r \in Runs \ {open} : listed[r] = Exec

\* canExecuteOnActiveRun, canReVlmOnActiveRun (files present, table not locked)
CanStart == /\ view.id # NoOne /\ view.st # Exec
            /\ ~ (open # NoOne /\ busy = open)
            /\ ~ AnotherRunProcessing

\* canStopActiveRun
CanStop == view.id # NoOne /\ view.st = Exec

\* canUploadOnActiveRun and the checks of handleUpload
CanUpload == view.id # NoOne /\ view.st # Exec /\ busy # open /\ busy # view.id

\* (bug) only a request that succeeded gives the run back
NotReleased(r) == busy

\* finally { setBusyRunId(prev => prev === runId ? null : prev) }
Released(r) == IF busy = r THEN NoOne ELSE busy

-----------------------------------------------------------------------------
\* A run is opened: the table is cleared and the run loaded
OpenRun(r) ==
  /\ r # open /\ Room /\ ~ modal
  /\ open' = r
  /\ reqs' = Following(view, r, reqs) \cup {Req("load", r)}
  /\ UNCHANGED <<view, listed, busy, guard, modal, server, wanted>>

\* loadActiveRun: not subject to the guard
Loaded(q) ==
  /\ q.kind = "load" /\ q.st \in Snap
  /\ view' = IF q.run = open THEN [id |-> q.run, st |-> q.st] ELSE view
  /\ reqs' = Following(view', open, reqs \ {q})
  /\ UNCHANGED <<open, listed, busy, guard, modal, server, wanted>>

\* loadActiveRun failed: the busy mark of the run goes, too
LoadLost(q) ==
  /\ q.kind = "load"
  /\ busy' = IF q.run = open THEN Released(q.run) ELSE busy
  /\ reqs' = reqs \ {q}
  /\ UNCHANGED <<open, view, listed, guard, modal, server, wanted>>

\* runAction("execute") with markRunExecuting
Execute ==
  /\ CanStart /\ Room
  /\ busy' = view.id
  /\ view' = [view EXCEPT !.st = Exec]
  /\ listed' = [listed EXCEPT ![view.id] = Exec]
  /\ reqs' = reqs \cup {Req("execute", view.id)}
  /\ wanted' = wanted \cup {view.id}
  /\ UNCHANGED <<open, guard, modal, server>>

\* openReVlmModal
OpenReVlm ==
  /\ CanStart /\ ~ modal
  /\ modal' = TRUE
  /\ UNCHANGED <<open, view, listed, busy, guard, reqs, server, wanted>>

\* handleReVlmConfirm: with changed settings the graph is patched first
ReVlmConfirm ==
  /\ modal /\ Room
  /\ modal' = FALSE
  /\ IF busy = view.id THEN UNCHANGED <<busy, view, listed, reqs, wanted>>
     ELSE /\ busy' = view.id
          /\ wanted' = wanted \cup {view.id}
          /\ \E kind \in {"patch", "reVlm"} :
               PaintReVlm(view.id, reqs \cup {Req(kind, view.id)})
  /\ UNCHANGED <<open, guard, server>>

ReVlmClosed ==
  /\ modal /\ modal' = FALSE
  /\ UNCHANGED <<open, view, listed, busy, guard, reqs, server, wanted>>

\* The patch was saved: paint the run as executing again and start it
PatchSaved(q) ==
  /\ q.kind = "patch" /\ q.st \in Snap
  /\ PaintReVlm(q.run, (reqs \ {q}) \cup {Req("reVlm", q.run)})
  /\ UNCHANGED <<open, busy, guard, modal, server, wanted>>

\* handleCropGateConfirm, handleCropGateSkip: the guard does not apply
ConfirmCrops ==
  /\ view.id # NoOne /\ view.st # Exec /\ Room
  /\ \A q \in reqs : q.kind # "crops"
  /\ busy' = view.id
  /\ wanted' = wanted \cup {view.id}
  /\ Apply(view.id, Exec, TRUE, reqs \cup {Req("crops", view.id)})
  /\ UNCHANGED <<open, guard, modal, server>>

\* A start was answered: the extraction ended, or was stopped
StartAnswered(q) ==
  /\ q.kind \in Starts /\ q.st \in Snap
  /\ Apply(q.run, q.st, q.kind = "crops", (reqs \ {q}) \cup {Req("list", q.run)})
  /\ busy' = Released(q.run)
  /\ UNCHANGED <<open, guard, modal, server, wanted>>

\* A start or its patch failed here, whatever became of it at the backend
StartLost(q) ==
  /\ q.kind \in Starts \cup {"patch"}
  /\ reqs' = (reqs \ {q}) \cup {Req(IF q.kind = "crops" THEN "getForce" ELSE "get", q.run)}
  /\ busy' = Released(q.run)
  /\ UNCHANGED <<open, view, listed, guard, modal, server, wanted>>

\* performStop with applyRunStoppedLocally
Stop ==
  /\ CanStop /\ Room
  /\ guard' = view.id
  /\ busy' = Released(view.id)
  /\ wanted' = wanted \ {view.id}
  /\ Apply(view.id, "idle", FALSE, reqs \cup {Req("cancel", view.id)})
  /\ UNCHANGED <<open, modal, server>>

\* The answer of a cancel that left the run idle lifts the guard, whosever it is
StopAnswered(q) ==
  /\ q.kind = "cancel" /\ q.st \in Snap
  /\ Apply(q.run, q.st, FALSE, (reqs \ {q}) \cup {Req("list", q.run)})
  /\ guard' = IF q.st = Exec THEN guard ELSE NoOne
  /\ UNCHANGED <<open, busy, modal, server, wanted>>

StopLost(q) ==
  /\ q.kind = "cancel"
  /\ reqs' = (reqs \ {q}) \cup {Req("getStop", q.run)}
  /\ UNCHANGED <<open, view, listed, busy, guard, modal, server, wanted>>

\* handleUpload: afterwards the run is loaded again
Upload ==
  /\ CanUpload /\ Room
  /\ busy' = view.id
  /\ reqs' = reqs \cup {Req("upload", view.id)}
  /\ UNCHANGED <<open, view, listed, guard, modal, server, wanted>>

Uploaded(q) ==
  /\ q.kind = "upload"
  /\ busy' = Released(q.run)
  /\ reqs' = (reqs \ {q}) \cup {Req("load", q.run)}
  /\ UNCHANGED <<open, view, listed, guard, modal, server, wanted>>

\* The timers and the socket follow a run only while its screen says executing
Poll ==
  /\ open # NoOne /\ view.st = Exec /\ Req("poll", open) \notin reqs
  /\ reqs' = reqs \cup {Req("poll", open)}
  /\ UNCHANGED <<open, view, listed, busy, guard, modal, server, wanted>>

\* The rail is refreshed while another run is processing
SiblingPoll ==
  /\ AnotherRunProcessing /\ Room
  /\ reqs' = reqs \cup {Req("list", NoOne)}
  /\ UNCHANGED <<open, view, listed, busy, guard, modal, server, wanted>>

GetAnswered(q) ==
  /\ q.kind \in {"poll", "get", "getForce", "getStop"} /\ q.st \in Snap
  /\ Apply(q.run, q.st, q.kind = "getForce", reqs \ {q})
  /\ guard' = IF q.kind = "getStop" /\ q.st # Exec THEN NoOne ELSE guard
  /\ UNCHANGED <<open, busy, modal, server, wanted>>

\* reloadRuns (a list is answered as it is read)
ListAnswered(q) ==
  /\ q.kind = "list"
  /\ listed' = server
  /\ reqs' = reqs \ {q}
  /\ UNCHANGED <<open, view, busy, guard, modal, server, wanted>>

ReadLost(q) ==
  /\ q.kind \in Reads \ {"load"}
  /\ reqs' = reqs \ {q}
  /\ UNCHANGED <<open, view, listed, busy, guard, modal, server, wanted>>

-----------------------------------------------------------------------------
\* The backend
Served(q) ==
  /\ q.st = "sent" /\ q.kind \notin {"list", "upload"}
  /\ LET to == CASE q.kind \in Starts  -> Exec
                 [] q.kind = "cancel" -> "idle"
                 [] OTHER             -> server[q.run]
         ended(p) == q.kind = "cancel" /\ p.run = q.run /\ p.st = "live"
     IN /\ server' = [server EXCEPT ![q.run] = to]
        /\ reqs' = {IF ended(p) THEN [p EXCEPT !.st = "idle"] ELSE p : p \in reqs \ {q}}
                   \cup {[q EXCEPT !.st = IF q.kind \in Starts THEN "live" ELSE to]}
  /\ UNCHANGED <<open, view, listed, busy, guard, modal, wanted>>

\* The extraction of a run ends and answers the requests that wait for it
Finished(r) ==
  /\ server[r] = Exec
  /\ server' = [server EXCEPT ![r] = "idle"]
  /\ reqs' = {IF q.run = r /\ q.st = "live" THEN [q EXCEPT !.st = "idle"] ELSE q : q \in reqs}
  /\ UNCHANGED <<open, view, listed, busy, guard, modal, wanted>>

ControlAnswer(q) ==
  \/ Loaded(q) \/ PatchSaved(q) \/ StartAnswered(q) \/ StopAnswered(q)
  \/ Uploaded(q) \/ GetAnswered(q) \/ ListAnswered(q)

ControlLost(q) == LoadLost(q) \/ StartLost(q) \/ StopLost(q) \/ ReadLost(q)

ControlNext ==
  \/ \E r \in Runs : OpenRun(r) \/ Finished(r)
  \/ Execute \/ OpenReVlm \/ ReVlmConfirm \/ ReVlmClosed \/ ConfirmCrops
  \/ Stop \/ Upload \/ Poll \/ SiblingPoll
  \/ \E q \in reqs : Served(q) \/ ControlAnswer(q) \/ ControlLost(q)

ControlSpec == ControlInit /\ [][ControlNext]_cvars

-----------------------------------------------------------------------------
PollServed   == \E q \in reqs : q.kind = "poll" /\ Served(q)
PollAnswered == \E q \in reqs : q.kind = "poll" /\ GetAnswered(q)

\* The timers go on, the backend serves them and an answer gets through now and then
PollFair ==
  WF_cvars(Poll) /\ SF_cvars(PollServed) /\ SF_cvars(PollAnswered)

\* A run is marked busy only while a request of its own is in flight that will
\* take the mark away: no button stays disabled (busyRunId, every finally)
BusyHasOwner ==
  busy # NoOne => \E q \in reqs : q.run = busy /\ q.kind \in Starts \cup {"patch", "upload"}

\* A spinner never outlives its run: the open run that is no longer executing is
\* eventually shown as such, whatever stale answers arrive and whether or not a
\* stop guard is set (the polls, shouldIgnoreRunRefreshAfterStop)
StaleSpinner == view = [id |-> open, st |-> Exec] /\ server[open] # Exec
SpinnerEnds  == StaleSpinner ~> ~StaleSpinner

\* Nothing starts a run once the user has stopped it; the stop dialog promises
\* that queued pages will not run
NoStartAfterStop ==
  [][\A q \in reqs' \ reqs : q.kind \in Starts /\ q.st = "sent" => q.run \in wanted']_cvars

=============================================================================
