----------------------------- MODULE ReconChat -----------------------------
(***************************************************************************)
(* The assistant of the reconciliation page (useReconWorkspace.ts): a      *)
(* question becomes a bubble "Thinking" and a background job, the job's    *)
(* answer replaces the bubble.  The bubbles live in sessionStorage and in  *)
(* the component, the job's meta in localStorage, so that leaving the page *)
(* or reloading the tab resumes the wait; the history at the server is     *)
(* fetched when the page opens.                                            *)
(***************************************************************************)
EXTENDS Naturals, FiniteSets

CONSTANTS Company, Bubble,   \* companies; identities of the assistant's bubbles
          MaxActs            \* bound on what the user does

ChatAssumption == MaxActs \in Nat

VARIABLES active,    \* activeCompany
          page,      \* [mounted, thinking, resuming]: the component and its refs
          stored,    \* [company -> bubbles in sessionStorage], each [b, st]
          shown,     \* aiMessages
          meta,      \* job metas in localStorage: [c, b]
          jobs,      \* at the server: [c, b, st]
          calls,     \* sendAiChat and resumeOne in flight
          history,   \* getMessages in flight
          acts

chat == <<active, page, stored, shown, meta, jobs, calls, history, acts>>

Off == [mounted |-> FALSE, thinking |-> FALSE, resuming |-> FALSE]
NoHistory == [st |-> "none"]
Bubbles(M) == {m.b : m \in M}
Act == acts < MaxActs /\ acts' = acts + 1

ChatInit ==
  /\ active \in Company /\ page = Off
  /\ stored = [c \in Company |-> {}] /\ shown = {}
  /\ meta = {} /\ jobs = {} /\ calls = {} /\ history = NoHistory /\ acts = 0

\* setAiMessages: the component's list and the storage of the company it was made for
Put(c, M) == shown' = M /\ stored' = [stored EXCEPT ![c] = M]

\* applyAiChatResultToStoredMessages
Answered(M, b, st) == {IF m.b = b THEN [m EXCEPT !.st = st] ELSE m : m \in M}

Pending(c) == \E j \in meta : j.c = c

\* the history effect: nothing is fetched while a job of the company is pending
FetchHistory(c) ==
  history' = IF Pending(c) THEN NoHistory ELSE [st |-> "sent", c |-> c]

\* the resume effect; a loop that still waits keeps the next one from starting
Resume(c) ==
  IF ~ Pending(c) THEN calls' = {[k EXCEPT !.live = FALSE] : k \in calls}
  ELSE calls' = {[k EXCEPT !.live = FALSE] : k \in calls}
                \cup {[kind |-> "resume", c |-> j.c, b |-> j.b, st |-> "wait", live |-> TRUE] :
                        j \in {j \in meta : j.c = c}}

-----------------------------------------------------------------------------
Open ==
  /\ ~ page.mounted
  /\ page' = [mounted |-> TRUE, thinking |-> Pending(active), resuming |-> Pending(active)]
  /\ shown' = stored[active]
  /\ FetchHistory(active) /\ Resume(active)
  /\ Act /\ UNCHANGED <<active, stored, meta, jobs>>

\* another page: the sends go on and write the storage when they end
LeaveChat ==
  /\ page.mounted /\ page' = Off /\ shown' = {} /\ history' = NoHistory
  /\ calls' = {[k EXCEPT !.live = FALSE] : k \in {k \in calls : k.kind = "send"}}
  /\ Act /\ UNCHANGED <<active, stored, meta, jobs>>

\* the tab is reloaded: nothing of the component and its calls is left
Reload ==
  /\ page' = Off /\ shown' = {} /\ history' = NoHistory /\ calls' = {}
  /\ calls # {} /\ Act /\ UNCHANGED <<active, stored, meta, jobs>>

\* the company switcher: the effects run again in the same component
Switch ==
  /\ page.mounted
  /\ \E c \in Company \ {active} :
       /\ active' = c /\ shown' = stored[c] /\ FetchHistory(c)
       /\ IF page.resuming THEN /\ calls' = {k \in calls : k.kind = "send"}
                              /\ page' = [page EXCEPT !.resuming = FALSE]
          ELSE /\ calls' = calls \cup {[kind |-> "resume", c |-> j.c, b |-> j.b, st |-> "wait", live |-> TRUE] :
                                         j \in {j \in meta : j.c = c}}
               /\ page' = [page EXCEPT !.thinking = page.thinking \/ Pending(c),
                                       !.resuming = Pending(c)]
  /\ Act /\ UNCHANGED <<stored, meta, jobs>>

\* mapServerMsgsToReconAi: the answers the server kept; a conversation without any changes nothing
HistoryAnswered ==
  /\ history.st = "sent" /\ history' = NoHistory
  /\ LET kept == {[b |-> j.b, st |-> "reply"] : j \in {j \in jobs : j.c = history.c /\ j.st = "done"}} IN
     IF page.mounted /\ ~ Pending(history.c) /\ kept # {} THEN Put(history.c, kept)
     ELSE UNCHANGED <<shown, stored>>
  /\ UNCHANGED <<active, page, meta, jobs, calls, acts>>

HistoryFailed ==
  /\ history.st = "sent" /\ history' = NoHistory
  /\ UNCHANGED <<active, page, stored, shown, meta, jobs, calls, acts>>

-----------------------------------------------------------------------------
\* sendAiChat: the composer is closed while the assistant thinks
Send ==
  /\ page.mounted /\ ~ page.thinking
  /\ \E b \in Bubble \ ({j.b : j \in jobs} \cup UNION {Bubbles(stored[c]) : c \in Company} \cup {k.b : k \in calls}) :
       /\ Put(active, shown \cup {[b |-> b, st |-> "thinking"]})
       /\ calls' = calls \cup {[kind |-> "send", c |-> active, b |-> b, st |-> "create", live |-> TRUE]}
  /\ page' = [page EXCEPT !.thinking = TRUE]
  /\ Act /\ UNCHANGED <<active, meta, jobs, history>>

\* createAiChatBackgroundJob answered: the meta lets a later mount resume the job
JobCreated ==
  \E k \in calls :
    /\ k.st = "create"
    /\ jobs' = jobs \cup {[c |-> k.c, b |-> k.b, st |-> "running"]}
    /\ meta' = meta \cup {[c |-> k.c, b |-> k.b]}
    /\ calls' = (calls \ {k}) \cup {[k EXCEPT !.st = "wait"]}
    /\ UNCHANGED <<active, page, stored, shown, history, acts>>

JobEnds ==
  \E j \in jobs : /\ j.st = "running"
                  /\ \E st \in {"done", "failed"} : jobs' = (jobs \ {j}) \cup {[j EXCEPT !.st = st]}
  /\ UNCHANGED <<active, page, stored, shown, meta, calls, history, acts>>

\* (bug) a failed job leaves its bubble alone
OutcomeOfDone(j) == IF j.st = "done" THEN "reply" ELSE "thinking"

Outcome(j) == IF j.st = "done" THEN "reply" ELSE "failed"

\* the poll sees the end, or the create or poll fails: the bubble is answered in the
\* storage, the list is replaced where this component is mounted, and the meta goes
Settle(k, st) ==
  /\ stored' = [stored EXCEPT ![k.c] = Answered(stored[k.c], k.b, st)]
  /\ shown' = IF k.live THEN stored'[k.c] ELSE shown
  /\ meta' = meta \ {[c |-> k.c, b |-> k.b]}
  /\ calls' = calls \ {k}
  /\ page' = IF ~ k.live THEN page
             ELSE IF k.kind = "send" THEN [page EXCEPT !.thinking = FALSE]
             ELSE [page EXCEPT !.thinking = \E n \in calls \ {k} : n.kind = "resume",
                               !.resuming = \E n \in calls \ {k} : n.kind = "resume"]

JobSeen ==
  /\ \E k \in calls : /\ k.st = "wait"
                      /\ \E j \in jobs : j.c = k.c /\ j.b = k.b /\ j.st # "running" /\ Settle(k, Outcome(j))
  /\ UNCHANGED <<active, jobs, history, acts>>

CallFailed ==
  /\ \E k \in calls : Settle(k, "failed")
  /\ UNCHANGED <<active, jobs, history, acts>>

-----------------------------------------------------------------------------
ChatNext == Open \/ LeaveChat \/ Reload \/ Switch \/ HistoryAnswered \/ HistoryFailed
              \/ Send \/ JobCreated \/ JobEnds \/ JobSeen \/ CallFailed

ChatFair == /\ WF_chat(HistoryAnswered \/ HistoryFailed) /\ WF_chat(JobCreated)
            /\ WF_chat(JobEnds) /\ WF_chat(JobSeen)
ChatSpec == ChatInit /\ [][ChatNext]_chat /\ ChatFair

-----------------------------------------------------------------------------
Waiting(b) == [b |-> b, st |-> "thinking"] \in shown

\* The answer a mounted call waits for, sent from this page or resumed from the
\* recorded job, replaces its bubble while the page stays open.
Awaited(b) == Waiting(b) /\ \E k \in calls : k.b = b /\ k.live /\ k.st = "wait"
AwaitedSettles == \A b \in Bubble : Awaited(b) ~> ~ Waiting(b)

=============================================================================
