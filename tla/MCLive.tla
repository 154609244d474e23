-------------------------------- MODULE MCLive --------------------------------
(***************************************************************************)
(* The components whose promise is that something ends, each in an         *)
(* instance of its own with the fairness its module states.  A behaviour   *)
(* is about the one `part` names: its variables, in the order of its       *)
(* module, are v1 and the following, and the rest stay 0.                  *)
(***************************************************************************)
EXTENDS Naturals

VARIABLES part,   \* the component this behaviour is about
          v1, v2, v3, v4, v5, v6, v7, v8, v9, v10, v11, v12, v13, v14, v15   \* its variables, in the order of its module

pvars == <<v1, v2, v3, v4, v5, v6, v7, v8, v9, v10, v11, v12, v13, v14, v15>>

Books == INSTANCE BooksGrid WITH
  Loaded <- {[k |-> "k2", b |-> "b1", v |-> 0]}, LockedKey <- {"k2"}, FreshKey <- {"n1"},
  ManualRun <- {"m1"}, NoBatch <- "", MaxVersion <- 2, MaxReloads <- 1, MaxClicks <- 4,
  store <- v1, manual <- v2, rows <- v3, dirty <- v4, known <- v5, pending <- v6,
  flags <- v7, reloads <- v8, ensure <- v9, save <- v10, dep <- v11, job <- v12,
  prov <- v13, clicks <- v14

Chat == INSTANCE ReconChat WITH
  Company <- {"A", "B"}, Bubble <- {"p", "q"}, MaxActs <- 4,
  active <- v1, page <- v2, stored <- v3, shown <- v4, meta <- v5, jobs <- v6, calls <- v7,
  history <- v8, acts <- v9

Node == INSTANCE NodeDesk WITH
  Run <- {"a", "b"}, NoRun <- "", CompanyOf <- [a |-> "A", b |-> "B"], Fresh <- {"b"},
  Part <- {"p", "q"}, MaxActs <- 3,
  server <- v1, company <- v2, store <- v3, listed <- v4, active <- v5, canvas <- v6,
  pending <- v7, timer <- v8, calls <- v9, busy <- v10, poll <- v11, guard <- v12,
  error <- v13, acts <- v14

Auth == INSTANCE AuthSession WITH
  Person <- {"p", "q"}, NoOne <- "", Caller <- {"c1", "c2"}, Axios <- {"c2"},
  MaxTicket <- 3, MaxActs <- 1,
  holder <- v1, stored <- v2, expired <- v3, cookie <- v4, token <- v5, user <- v6,
  isLoading <- v7, restore <- v8, signIn <- v9, byes <- v10, flight <- v11, cooling <- v12,
  call <- v13, issued <- v14, acts <- v15

Queue == INSTANCE TaskQueue WITH
  Task <- {"t1", "t2"}, BankTask <- {"t2"}, NoTask <- "", File <- {"f1", "f2"},
  TaskCap <- 1, FileCap <- 1, TotalCap <- 1, Outcome <- {"ok", "fail", "gate"},
  MaxActs <- 3,
  status <- v1, plan <- v2, owner <- v3, batch <- v4, fstate <- v5, added <- v6,
  submitted <- v7, pipe <- v8, loops <- v9, stale <- v10, finals <- v11, saves <- v12,
  held <- v13, cards <- v14, acts <- v15

Control == INSTANCE RunControl WITH
  Runs <- {"a"}, NoOne <- "", MaxReqs <- 1,
  open <- v1, view <- v2, listed <- v3, busy <- v4, guard <- v5, modal <- v6, reqs <- v7,
  server <- v8, wanted <- v9

ASSUME InstanceAssumption ==
  /\ Books!BooksAssumption /\ Chat!ChatAssumption /\ Node!NodeDeskAssumption
  /\ Auth!SessionAssumption /\ Queue!QueueAssumption /\ Control!ControlAssumption

InitPart ==
  \/ part = "books" /\ Books!BooksInit
       /\ v15 = 0
  \/ part = "chat" /\ Chat!ChatInit
       /\ v10 = 0 /\ v11 = 0 /\ v12 = 0 /\ v13 = 0 /\ v14 = 0 /\ v15 = 0
  \/ part = "node" /\ Node!NodeInit
       /\ v15 = 0
  \/ part = "auth" /\ Auth!SessionInit
  \/ part = "queue" /\ Queue!QueueInit
  \/ part = "control" /\ Control!ControlInit
       /\ v10 = 0 /\ v11 = 0 /\ v12 = 0 /\ v13 = 0 /\ v14 = 0 /\ v15 = 0

Init == InitPart

BooksStep == part = "books" /\ Books!BooksNext /\ UNCHANGED <<part, v15>>
ChatStep == part = "chat" /\ Chat!ChatNext /\ UNCHANGED <<part, v10, v11, v12, v13, v14, v15>>
NodeStep == part = "node" /\ Node!NodeNext /\ UNCHANGED <<part, v15>>
AuthStep == part = "auth" /\ Auth!SessionNext /\ UNCHANGED <<part>>
QueueStep == part = "queue" /\ Queue!QueueNext /\ UNCHANGED <<part>>
ControlStep == part = "control" /\ Control!ControlNext /\ UNCHANGED <<part, v10, v11, v12, v13,
                v14, v15>>

Next ==
  \/ BooksStep \/ ChatStep \/ NodeStep \/ AuthStep \/ QueueStep \/ ControlStep

vars == <<part, pvars>>

booksVars == Books!books
chatVars == Chat!chat
nodeVars == Node!desk
authVars == Auth!session
queueVars == Queue!tasks
controlVars == Control!cvars

Fairness ==
  /\ WF_booksVars(part = "books" /\ (Books!JobBatch \/ Books!JobOver))
  /\ WF_booksVars(part = "books" /\ Books!JobFinished)
  /\ WF_chatVars(part = "chat" /\ (Chat!HistoryAnswered \/ Chat!HistoryFailed))
  /\ WF_chatVars(part = "chat" /\ Chat!JobCreated)
  /\ WF_chatVars(part = "chat" /\ Chat!JobEnds)
  /\ WF_chatVars(part = "chat" /\ Chat!JobSeen)
  /\ WF_nodeVars(part = "node" /\ Node!TimerFires)
  /\ WF_nodeVars(part = "node" /\ (Node!PatchAnswered \/ Node!PatchFailed))
  /\ WF_nodeVars(part = "node" /\ Node!Executing)
  /\ WF_nodeVars(part = "node" /\ (Node!ExecuteAnswered \/ Node!ExecuteFailed))
  /\ WF_nodeVars(part = "node" /\ Node!ResumeAnswered)
  /\ \A c \in {"c1", "c2"} :
       WF_authVars(part = "auth" /\ (Auth!Send(c) \/ Auth!CallEnds(c) \/ Auth!RefusedCooling(c)
                                     \/ Auth!Refuse(c)))
  /\ SF_authVars(part = "auth" /\ \E c \in {"c1", "c2"} : Auth!RefusedCooling(c) \/ Auth!Refuse(c))
  /\ WF_authVars(part = "auth" /\ (Auth!Refreshed \/ Auth!RefreshFailed))
  /\ WF_authVars(part = "auth" /\ (Auth!RestoreRefreshed \/ Auth!RestoreFailed
                                   \/ Auth!RestoreMe \/ Auth!RestoreCompanies))
  /\ WF_queueVars(part = "queue" /\ Queue!Promote)
  /\ WF_queueVars(part = "queue" /\ Queue!Manage)
  /\ \A t \in {"t1", "t2"} :
       WF_queueVars(part = "queue" /\ Queue!CreateStep(t)) /\ WF_queueVars(part = "queue" /\ Queue!SaveOf(t))
  /\ \A f \in {"f1", "f2"} : WF_queueVars(part = "queue" /\ Queue!PipeStep(f))
  /\ WF_queueVars(part = "queue" /\ Queue!LoopRuns)
  /\ WF_controlVars(part = "control" /\ Control!Poll)
  /\ SF_controlVars(part = "control" /\ Control!PollServed)
  /\ SF_controlVars(part = "control" /\ Control!PollAnswered)

Spec == Init /\ [][Next]_vars /\ Fairness

\* While a deploy job is polled, the mode does not stay marked as deploying for ever:
\* finishCoaDeploy is reached from every end of waitForBackgroundJob.  (A page loaded again
\* whose only question about the job fails keeps the mark: erpBackgroundJobs.tsx:208.)
DeployEnds == (part = "books" /\ Books!DeployPolled) ~> (part = "books" => Books!DeployOver)

\* The answer a mounted call waits for, sent from this page or resumed from the recorded
\* job, replaces its bubble while the page stays open (sendAiChat, resumeOne).
AwaitedSettles ==
    \A b \in {"p", "q"} : (part = "chat" /\ Chat!Awaited(b)) ~> ~(part = "chat" /\ Chat!Waiting(b))

\* A change of a graph that waits for the timer does not wait for ever: it is saved, its
\* failure is reported, or it is dropped with its company (persistGraphChange,
\* commitGraphPatch, and the timers that other handlers clear).
EditEnds == (part = "node" /\ Node!EditWaits) ~> (part = "node" => Node!EditOver)

\* An expired access token does not stay: the next refused poll renews it, or the session
\* is cleared and the login page shown (refreshAccessTokenShared, apiFetch and the axios
\* interceptor of api.ts).
ExpiredIsReplaced ==
    \A t \in 1..3 : (part = "auth" /\ Auth!Expired(t)) ~> (part = "auth" => Auth!Replaced(t))

\* An OCR task whose files have all ended gives its slot back, also when its table could
\* not be saved (finalizeTask and the effect on tasks of WorkspaceApp.tsx).
SlotFreed == (part = "queue" /\ Queue!HoldsSlot("t1")) ~> ~(part = "queue" /\ Queue!HoldsSlot("t1"))

\* A spinner never outlives its run: the open run that is no longer executing is shown as
\* such in the end, whatever stale answers arrive and whether or not a stop guard is set
\* (the polls and shouldIgnoreRunRefreshAfterStop of ProcessingView.tsx).
SpinnerEnds == (part = "control" /\ Control!StaleSpinner) ~> ~(part = "control" /\ Control!StaleSpinner)
===============================================================================
