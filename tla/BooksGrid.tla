----------------------------- MODULE BooksGrid -----------------------------
(***************************************************************************)
(* The transaction grid of a Books module (useModuleTransactions.ts,       *)
(* ModuleTransactionGrid.tsx) and the Deploy Codes jobs behind it          *)
(* (erpBackgroundJobs.tsx): rows of several batches are loaded, edited,    *)
(* added, deleted and written back batch by batch, while a job rewrites    *)
(* the same batches and reloads overtake each other.                       *)
(*                                                                         *)
(* A row is [k, b, v]: its identity, its batch and how often the user      *)
(* changed it (the account code a job writes is not one of these changes). *)
(***************************************************************************)
EXTENDS Naturals, FiniteSets

CONSTANTS Loaded,       \* the rows stored when the story begins, of approved runs
          LockedKey,    \* rows matched in Recon (isModuleTxnLocked)
          FreshKey,     \* identities of rows the user may add
          ManualRun,    \* runs the user's Add Row may create
          NoBatch,
          MaxVersion,
          MaxReloads,   \* bound on the reloads in flight, that of a finished job apart
          MaxClicks     \* bound on what the user does

BooksAssumption == /\ MaxVersion \in Nat /\ MaxReloads \in Nat \ {0} /\ MaxClicks \in Nat
                   /\ NoBatch \notin ManualRun
                   /\ \A x, y \in Loaded : x.k = y.k => x = y
                   /\ FreshKey \cap {r.k : r \in Loaded} = {}

VARIABLES store,    \* the rows saved at the backend (ocr snapshots of the batches)
          manual,   \* per manual run: "none", "bare" (created) or "titled"
          rows, dirty, known, pending,   \* the hook: rows, dirty, batchInfoRef, pendingManualRef
          flags,    \* the hook: mounted, loading, saving, preparing
          reloads,  \* listRuns / getRun rounds in flight
          ensure,   \* the ensureManualBatch in flight
          save,     \* the saveAll in flight
          dep,      \* the deployCodes in flight
          job,      \* the background job at the backend
          prov,     \* the jobs provider: deployingModes, pollingRef, the job in localStorage
          clicks    \* how much the user did

books == <<store, manual, rows, dirty, known, pending, flags, reloads, ensure, save, dep, job, prov, clicks>>

\* isModuleTxnLocked
LockedRow(r) == r.k \in LockedKey

BatchesOf(R) == {r.b : r \in R}
Key(R) == {r.k : r \in R}
Idle == [st |-> "idle"]
NoJob == [st |-> "none"]
Gone == [mounted |-> FALSE, loading |-> FALSE, saving |-> FALSE, preparing |-> FALSE]

\* The batches listRuns and getRun lead to: those with rows, and titled manual containers
Listed(S, M) == BatchesOf(S) \cup {m \in ManualRun : M[m] = "titled"}

BooksInit ==
  /\ store = Loaded /\ manual = [m \in ManualRun |-> "none"]
  /\ rows = {} /\ dirty = {} /\ known = {} /\ pending = NoBatch
  /\ flags = [Gone EXCEPT !.mounted = TRUE, !.loading = TRUE]
  /\ reloads = {[st |-> "sent"]}
  /\ ensure = Idle /\ save = Idle /\ dep = Idle /\ job = NoJob
  /\ prov = [deploying |-> FALSE, polling |-> FALSE, stored |-> FALSE, resume |-> FALSE]
  /\ clicks = 0

\* One more thing the user does
Click == clicks < MaxClicks /\ clicks' = clicks + 1

-----------------------------------------------------------------------------
\* reload: setLoading and listRuns
ReloadFrom(F) == /\ reloads' = reloads \cup {[st |-> "sent"]}
                 /\ flags' = [F EXCEPT !.loading = TRUE]
RoomToReload == Cardinality(reloads) < MaxReloads \/ [st |-> "sent"] \in reloads

Search ==
  /\ flags.mounted /\ RoomToReload /\ ReloadFrom(flags)
  /\ Click /\ UNCHANGED <<store, manual, rows, dirty, known, pending, ensure, save, dep, job, prov>>

\* listRuns and the snapshots answered: the manual refs are dropped before the new maps are built
ReloadRead ==
  \E q \in reloads : /\ q.st = "sent"
                     /\ reloads' = (reloads \ {q}) \cup
                          {[st |-> "read", snap |-> store, list |-> Listed(store, manual)]}
  /\ pending' = NoBatch
  /\ UNCHANGED <<store, manual, rows, dirty, known, flags, ensure, save, dep, job, prov, clicks>>

\* the rest of reload: maps, rows, and no dirty batch is left
ReloadApplied ==
  \E q \in reloads :
    /\ q.st = "read" /\ reloads' = reloads \ {q}
    /\ rows' = q.snap /\ dirty' = {} /\ known' = q.list
    /\ flags' = [flags EXCEPT !.loading = FALSE]
    /\ IF q.list \cap ManualRun = {} THEN UNCHANGED pending
       ELSE pending' \in q.list \cap ManualRun
    /\ UNCHANGED <<store, manual, ensure, save, dep, job, prov, clicks>>

ReloadLost ==
  \E q \in reloads : /\ reloads' = reloads \ {q}
                     /\ flags' = [flags EXCEPT !.loading = FALSE]
  /\ UNCHANGED <<store, manual, rows, dirty, known, pending, ensure, save, dep, job, prov, clicks>>

-----------------------------------------------------------------------------

\* the guard of updateCell and its siblings
Editable(r) == ~ LockedRow(r) /\ r.v < MaxVersion

\* updateCell, updateRowFx, updateAccountCode, updateDebitCredit, updateBankAccountType
UpdateCell ==
  \E r \in rows : /\ Editable(r)
                  /\ rows' = (rows \ {r}) \cup {[r EXCEPT !.v = r.v + 1]}
                  /\ dirty' = dirty \cup {r.b}
  /\ flags.mounted
  /\ Click /\ UNCHANGED <<store, manual, known, pending, flags, reloads, ensure, save, dep, job, prov>>

\* onDelete and deleteRows: the locked rows of the selection stay
DeleteSelected ==
  \E K \in SUBSET Key(rows) :
    LET gone == {r \in rows : r.k \in K /\ ~ LockedRow(r)} IN
    /\ gone # {} /\ flags.mounted
    /\ rows' = rows \ gone /\ dirty' = dirty \cup BatchesOf(gone)
    /\ Click /\ UNCHANGED <<store, manual, known, pending, flags, reloads, ensure, save, dep, job, prov>>

\* the Add Row and Import CSV buttons
CanAdd == /\ flags.mounted /\ ~ flags.loading /\ ~ flags.saving /\ ~ flags.preparing
          /\ ~ prov.deploying

\* resolveAnchor: the batch of a selected row or of the latest one, else the batch found before
Anchors(b) == IF rows = {} THEN {b} ELSE BatchesOf(rows)

Placed(k, b, import, anchor) ==
  /\ rows' = rows \cup {[k |-> k, b |-> b, v |-> 1]}
  /\ dirty' = dirty \cup (IF import THEN {anchor} ELSE {b})

\* addRow when the module has rows
AddRow ==
  /\ CanAdd /\ rows # {}
  /\ \E k \in FreshKey \ (Key(rows) \cup Key(store)), b \in Anchors(NoBatch) : Placed(k, b, FALSE, b)
  /\ Click /\ UNCHANGED <<store, manual, known, pending, flags, reloads, ensure, save, dep, job, prov>>

\* addRow or importRows in an empty module: ensureManualBatch
EnsureManual(import) ==
  /\ CanAdd /\ rows = {} /\ ensure.st = "idle"
  /\ \/ /\ pending = NoBatch /\ known \cap ManualRun = {}
        /\ \E m \in ManualRun : manual[m] = "none" /\ manual' = [manual EXCEPT ![m] = "bare"]
                                /\ ensure' = [st |-> "created", run |-> m, live |-> TRUE, import |-> import]
        /\ UNCHANGED pending
     \/ \E m \in (IF pending # NoBatch THEN {pending} ELSE known \cap ManualRun) :
          /\ pending' = m /\ UNCHANGED manual
          /\ ensure' = [st |-> "found", run |-> m, live |-> TRUE, import |-> import]
  /\ flags' = [flags EXCEPT !.preparing = TRUE]
  /\ Click /\ UNCHANGED <<store, rows, dirty, known, reloads, save, dep, job, prov>>

\* patchRunMeta answered: the refs learn the new batch
EnsureTitled ==
  /\ ensure.st = "created"
  /\ manual' = [manual EXCEPT ![ensure.run] = "titled"]
  /\ ensure' = [ensure EXCEPT !.st = "found"]
  /\ IF ensure.live THEN /\ known' = known \cup {ensure.run} /\ pending' = ensure.run
                    ELSE UNCHANGED <<known, pending>>
  /\ UNCHANGED <<store, rows, dirty, flags, reloads, save, dep, job, prov, clicks>>

\* createRun or patchRunMeta failed: a bare run stays behind
EnsureLost ==
  /\ ensure.st = "created" /\ ensure' = Idle
  /\ flags' = IF ensure.live THEN [flags EXCEPT !.preparing = FALSE] ELSE flags
  /\ UNCHANGED <<store, manual, rows, dirty, known, pending, reloads, save, dep, job, prov, clicks>>

\* the rest of addRow and importRows
RowPlaced ==
  /\ ensure.st = "found" /\ ensure' = Idle
  /\ IF ensure.live
     THEN /\ flags' = [flags EXCEPT !.preparing = FALSE]
          /\ \E k \in FreshKey \ (Key(rows) \cup Key(store)), b \in Anchors(ensure.run) :
               Placed(k, b, ensure.import, ensure.run)
     ELSE UNCHANGED <<rows, dirty, flags>>
  /\ UNCHANGED <<store, manual, known, pending, reloads, save, dep, job, prov, clicks>>

-----------------------------------------------------------------------------
\* the Save button
CanSave == flags.mounted /\ dirty # {} /\ ~ flags.saving /\ ~ prov.deploying

\* saveAll works on the rows and the dirty batches of the render it was clicked in
Save ==
  /\ CanSave /\ save.st = "idle"
  /\ save' = [st |-> "saving", live |-> TRUE, rows |-> {r \in rows : r.b \in dirty}, left |-> dirty]
  /\ flags' = [flags EXCEPT !.saving = TRUE]
  /\ Click /\ UNCHANGED <<store, manual, rows, dirty, known, pending, reloads, ensure, dep, job, prov>>

\* one turn of its loop: persistBatchTableSnapshot replaces the batch, an unknown batch is skipped
SaveBatch ==
  /\ save.st = "saving"
  /\ \E b \in save.left :
       /\ save' = [save EXCEPT !.left = save.left \ {b}, !.rows = {r \in save.rows : r.b # b}]
       /\ store' = IF b \in known \/ ~ save.live
                   THEN {r \in store : r.b # b} \cup {r \in save.rows : r.b = b} ELSE store
  /\ UNCHANGED <<manual, rows, dirty, known, pending, flags, reloads, ensure, dep, job, prov, clicks>>

\* syncModulesToRecon returned: no batch counts as dirty any more
SaveDone ==
  /\ save.st = "saving" /\ save.left = {} /\ save' = Idle
  /\ IF save.live THEN dirty' = {} /\ flags' = [flags EXCEPT !.saving = FALSE]
                  ELSE UNCHANGED <<dirty, flags>>
  /\ UNCHANGED <<store, manual, rows, known, pending, reloads, ensure, dep, job, prov, clicks>>

SaveLost ==
  /\ save.st = "saving" /\ save' = Idle
  /\ flags' = IF save.live THEN [flags EXCEPT !.saving = FALSE] ELSE flags
  /\ UNCHANGED <<store, manual, rows, dirty, known, pending, reloads, ensure, dep, job, prov, clicks>>

-----------------------------------------------------------------------------
\* the Deploy Codes button
CanDeploy == /\ flags.mounted /\ rows # {} /\ ~ flags.saving /\ ~ flags.preparing
             /\ ~ prov.deploying

\* deployCodes, up to checkPostedGlLocks: the selected rows, or all of them
Deploy ==
  /\ CanDeploy /\ dep.st = "idle"
  /\ \E R \in (SUBSET rows) \ {{}} : dep' = [st |-> "locks", rows |-> R]
  /\ Click /\ UNCHANGED <<store, manual, rows, dirty, known, pending, flags, reloads, ensure, save, job, prov>>

\* the check answered: the user goes on (startCoaDeploy marks the mode), or not
DeployConfirmed ==
  /\ dep.st = "locks" /\ job.st \in {"none"} /\ BatchesOf(dep.rows) \cap known # {}
  /\ dep' = [dep EXCEPT !.st = "creating"]
  /\ prov' = [prov EXCEPT !.deploying = TRUE]
  /\ UNCHANGED <<store, manual, rows, dirty, known, pending, flags, reloads, ensure, save, job, clicks>>

DeployDropped ==
  /\ dep.st = "locks" /\ dep' = Idle
  /\ UNCHANGED <<store, manual, rows, dirty, known, pending, flags, reloads, ensure, save, job, prov, clicks>>

\* the job is created: startCoaDeploy polls it, deployCodes takes its batches as clean
JobCreated ==
  /\ dep.st = "creating" /\ dep' = Idle
  /\ job' = [st |-> "running", left |-> {r \in dep.rows : r.b \in known}]
  /\ prov' = [prov EXCEPT !.polling = TRUE, !.stored = TRUE]
  /\ dirty' = dirty \ BatchesOf(dep.rows)
  /\ UNCHANGED <<store, manual, rows, known, pending, flags, reloads, ensure, save, clicks>>

\* createCoaDeployBackgroundJob failed: the mode stays marked
JobRefused ==
  /\ dep.st = "creating" /\ dep' = Idle
  /\ UNCHANGED <<store, manual, rows, dirty, known, pending, flags, reloads, ensure, save, job, prov, clicks>>

\* the worker of the job replaces a batch by the rows it was sent, with codes
JobBatch ==
  /\ job.st = "running" /\ job.left # {}
  /\ \E b \in BatchesOf(job.left) :
       /\ store' = {r \in store : r.b # b} \cup {r \in job.left : r.b = b}
       /\ job' = [job EXCEPT !.left = {r \in job.left : r.b # b}]
  /\ UNCHANGED <<manual, rows, dirty, known, pending, flags, reloads, ensure, save, dep, prov, clicks>>

JobOver ==
  /\ job.st = "running"
  /\ LET over(st) == job' = IF prov.stored THEN [st |-> st, left |-> {}] ELSE NoJob     \* nobody asks
     IN  \/ job.left = {} /\ over("completed")
         \/ job.left # {} /\ over("failed")
  /\ UNCHANGED <<store, manual, rows, dirty, known, pending, flags, reloads, ensure, save, dep, prov, clicks>>

\* (bug) a failed job leaves the mode marked
FinishedKept(P) == [P EXCEPT !.polling = FALSE, !.stored = FALSE, !.resume = FALSE,
                             !.deploying = (job.st = "failed")]

\* finishCoaDeploy
Finished(P) == [P EXCEPT !.polling = FALSE, !.stored = FALSE, !.resume = FALSE, !.deploying = FALSE]

\* waitForBackgroundJob ended or the resumed job was over: the mounted grid reloads
JobFinished ==
  /\ prov.polling \/ prov.resume
  /\ job.st \in {"completed", "failed"} /\ job' = NoJob
  /\ prov' = Finished(prov)
  /\ IF flags.mounted THEN ReloadFrom(flags) ELSE UNCHANGED <<flags, reloads>>
  /\ UNCHANGED <<store, manual, rows, dirty, known, pending, ensure, save, dep, clicks>>

\* a request of the poll failed: the deploy is finished as failed, whatever the job does
PollLost ==
  /\ prov.polling /\ prov' = Finished(prov)
  /\ job' = IF job.st = "running" THEN job ELSE NoJob
  /\ IF flags.mounted THEN ReloadFrom(flags) ELSE UNCHANGED <<flags, reloads>>
  /\ UNCHANGED <<store, manual, rows, dirty, known, pending, ensure, save, dep, clicks>>

\* the resume effect: a job still running is polled again; a failed question is forgotten
Resumed ==
  /\ prov.resume
  /\ \E ok \in BOOLEAN : /\ ok => job.st = "running"
                         /\ prov' = [prov EXCEPT !.resume = FALSE, !.polling = ok]
  /\ UNCHANGED <<store, manual, rows, dirty, known, pending, flags, reloads, ensure, save, dep, job, clicks>>

-----------------------------------------------------------------------------
Detached == /\ reloads' = {}
            /\ ensure' = IF ensure.st = "idle" THEN Idle ELSE [ensure EXCEPT !.live = FALSE]
            /\ save' = IF save.st = "idle" THEN Idle ELSE [save EXCEPT !.live = FALSE]

\* another tab of the shell: the hook is gone, what it awaits goes on without it
Leave ==
  /\ flags.mounted /\ flags' = Gone
  /\ rows' = {} /\ dirty' = {} /\ known' = {} /\ pending' = NoBatch /\ Detached
  /\ Click /\ UNCHANGED <<store, manual, dep, job, prov>>

Open == /\ ~ flags.mounted /\ RoomToReload
        /\ ReloadFrom([flags EXCEPT !.mounted = TRUE])
        /\ Click /\ UNCHANGED <<store, manual, rows, dirty, known, pending, ensure, save, dep, job, prov>>

\* the page is loaded again: only localStorage and the backend remain
PageReload ==
  /\ rows' = {} /\ dirty' = {} /\ known' = {} /\ pending' = NoBatch
  /\ flags' = Gone /\ reloads' = {} /\ ensure' = Idle /\ save' = Idle /\ dep' = Idle
  /\ prov' = [deploying |-> prov.stored, polling |-> FALSE, stored |-> prov.stored, resume |-> prov.stored]
  /\ Click /\ UNCHANGED <<store, manual, job>>

BooksGridStep == \/ Search \/ ReloadRead \/ ReloadApplied \/ ReloadLost \/ UpdateCell \/ DeleteSelected
                 \/ AddRow \/ EnsureManual(TRUE) \/ EnsureManual(FALSE) \/ EnsureTitled \/ EnsureLost \/ RowPlaced
                 \/ Save \/ SaveBatch \/ SaveDone \/ SaveLost
                 \/ Deploy \/ DeployConfirmed \/ DeployDropped \/ JobCreated \/ JobRefused
                 \/ Leave \/ Open \/ PageReload
BooksJobStep == JobBatch \/ JobOver \/ JobFinished \/ PollLost \/ Resumed
BooksNext == BooksGridStep \/ BooksJobStep
BooksSpec == BooksInit /\ [][BooksNext]_books /\ WF_books(JobBatch \/ JobOver) /\ WF_books(JobFinished)

-----------------------------------------------------------------------------

\* While a deploy job is polled, the mode does not stay marked as deploying for ever
\* (finishCoaDeploy is reached from every end of waitForBackgroundJob), unless the page is
\* loaded again and its only question about the job fails.
DeployPolled == prov.polling
Unanswered   == prov.stored /\ ~ prov.polling /\ ~ prov.resume
DeployOver   == ~ prov.deploying \/ Unanswered
DeployEnds   == DeployPolled ~> DeployOver

=============================================================================
