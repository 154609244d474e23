---------------------------- MODULE ReviewSession ----------------------------
(***************************************************************************)
(* The Processing screen of the browser client (ProcessingView.tsx): which *)
(* run is open, whose rows its review table holds, and which answers of    *)
(* the backend may still change either.  Every request is a record in      *)
(* calls: it is sent, served by the backend (which takes the snapshot that *)
(* the answer carries) and answered or failed later, in any order, while   *)
(* the user opens other runs and other companies.                          *)
(*                                                                         *)
(* Rows are abstracted to [of, ver]: the run they were extracted for and   *)
(* the version of that run's extraction.                                   *)
(***************************************************************************)
EXTENDS Naturals, FiniteSets

CONSTANTS Run, NoRun, Company, CompanyOf,
          LookAlike,   \* pairs <<r, s>>: rows of r pass for rows of s (equal file names, or no marker)
          OtherModes,  \* which runs may have mode OTHER, whose records are assets
          FxOn,        \* a reporting currency is set and stored rows lack their company amount
          MaxCalls,    \* requests in flight before the user waits
          MaxVer       \* extractions of one run

ASSUME ReviewAssumption ==
  /\ NoRun \notin Run
  /\ CompanyOf \in [Run -> Company]
  /\ LookAlike \subseteq Run \X Run
  /\ OtherModes \subseteq SUBSET Run
  /\ FxOn \in BOOLEAN
  /\ MaxCalls \in Nat /\ MaxVer \in Nat

VARIABLES company,   \* activeCompany of the session
          rail,      \* runs: the ids in the left rail
          active,    \* activeRunId and activeRunIdRef
          shown,     \* activeRun: the run object on screen
          table,     \* tableBoundRunId, tableLoading, payloads, editedRows
          assets,    \* assetRecords: the run they belong to
          flags,     \* the busy flags approving, rebuilding, emptyExtractBusy that are set
          calls,     \* requests in flight
          srv        \* the backend's runs

rvars == <<company, rail, active, shown, table, assets, flags, calls, srv>>

NoRows == [of |-> NoRun, ver |-> 0]
OtherMode == {r \in Run : srv[r].other}
RowsOf(r, v) == [of |-> r, ver |-> v]
NoneShown == [id |-> NoRun, st |-> "review"]

Call(kind, r) == [kind |-> kind, run |-> r, co |-> company, served |-> FALSE,
                  st |-> "review", rows |-> NoRows]

ReviewInit ==
  /\ company \in Company
  /\ rail = {} /\ active = NoRun /\ shown = NoneShown /\ assets = NoRun
  /\ table = [bound |-> NoRun, loading |-> FALSE, rows |-> NoRows, edited |-> NoRows]
  /\ flags = {}
  /\ \E S \in OtherModes, first \in [Run -> {"executing", "review"}] :
       srv = [r \in Run |-> [exists |-> TRUE, st |-> first[r], ver |-> 1, other |-> r \in S]]
  /\ calls = {Call("first", NoRun)}

\* (bug) the table keeps rows and binding of the run that was open
NotCleared(next) == [table EXCEPT !.bound = next]

\* clearReviewTableOnRunSwitch: never flash the rows of the run that was open
Cleared(next) == [bound |-> NoRun, loading |-> next # NoRun, rows |-> NoRows, edited |-> NoRows]

\* bindEmptyReviewTableAfterLoadFailure
BindEmpty(r) == [bound |-> r, loading |-> FALSE, rows |-> NoRows, edited |-> NoRows]

\* applyPayloadsIfCurrentRun, as loadActiveRun inlines it
BindLoaded(r, rows) == [bound |-> r, loading |-> FALSE, rows |-> rows, edited |-> NoRows]

\* reviewTableShowingLoader, tableAwaitingLoad
Awaiting(t, f) == \/ "rebuilding" \in f
                  \/ active # NoRun /\ (t.loading \/ t.bound # active)

\* combineBatchTablePayloads looks the payloads up by the batches of the run on screen
Canonical(t, s) == IF t.rows.of = s.id THEN t.rows ELSE NoRows

\* resolveDisplayRowsForRun
Displayed == IF Awaiting(table, flags) \/ active = NoRun THEN NoRows
             ELSE IF table.edited # NoRows THEN table.edited ELSE Canonical(table, shown)

\* editedRowsSafeForApprove
OverlaySafe == /\ ~ Awaiting(table, flags)
               /\ table.edited # NoRows => active # NoRun /\ table.bound = active

\* rowBelongsToRunFiles, partitionRowsByRunOwnership: are these rows matched to the files of r?
Owned(rows, r) == rows.of = r \/ <<rows.of, r>> \in LookAlike

\* The effect that fills company amounts in: it runs when the run object, the
\* payloads or their binding change and replaces the whole overlay of edits.
Hydrated(t, s, f) ==
  IF FxOn /\ active # NoRun /\ s.id \notin OtherMode /\ ~ Awaiting(t, f) /\ Canonical(t, s) # NoRows
  THEN [t EXCEPT !.edited = Canonical(t, s)] ELSE t

\* Answers the effects of a run or company that was left drop (cancelled, closed)
Kept(S) == {c \in S : c.kind # "poll"}

\* The effect on activeRunId: clear the table, then load
Activate(r, S) ==
  /\ active' = r
  /\ IF r = active THEN UNCHANGED <<shown, table, assets>> /\ calls' = S
     ELSE /\ table' = Cleared(r) /\ assets' = NoRun
          /\ shown' = IF r = NoRun THEN NoneShown ELSE shown
          /\ calls' = Kept(S) \cup (IF r = NoRun THEN {} ELSE {Call("load", r)})

\* useLayoutEffect on companyId, followed by the initial load of the new company.
\* The answer of a first load of the old company no longer picks a run (cancelled).
SwitchCompany(co) ==
  /\ co # company /\ Cardinality(calls) < MaxCalls
  /\ company' = co
  /\ active' = NoRun /\ shown' = NoneShown /\ assets' = NoRun
  /\ table' = IF active = NoRun THEN [table EXCEPT !.rows = NoRows, !.edited = NoRows]
                                ELSE Cleared(NoRun)
  /\ calls' = {IF c.kind = "first" THEN [c EXCEPT !.kind = "list"] ELSE c : c \in Kept(calls)}
              \cup {[Call("first", NoRun) EXCEPT !.co = co]}
  /\ UNCHANGED <<rail, flags, srv>>

\* A row of the rail is clicked
SelectRun(r) ==
  /\ r \in rail /\ r # active /\ Cardinality(calls) < MaxCalls
  /\ Activate(r, calls)
  /\ UNCHANGED <<company, rail, flags, srv>>

Listed(co) == {r \in Run : CompanyOf[r] = co /\ srv[r].exists}

\* The run that stays or becomes open when a list of runs arrives (the rail's first one)
KeepOr(r, list) == IF r \in list THEN {r} ELSE IF list = {} THEN {NoRun} ELSE list

\* reloadRuns: whatever company is open by now, the list of the call is shown.
\* The first load also keeps the open run, or opens the first of the list.
ListAnswered(c) ==
  /\ c.kind \in {"list", "first"}
  /\ rail' = Listed(c.co)
  /\ IF c.kind = "first"
     THEN \E r \in KeepOr(active, Listed(c.co)) : Activate(r, calls \ {c})
     ELSE calls' = calls \ {c} /\ UNCHANGED <<active, shown, table, assets>>
  /\ UNCHANGED <<company, flags, srv>>

\* refreshAssetRecords: nothing to fetch unless the run has mode OTHER
AssetCall(r) == IF r \in OtherMode THEN {Call("assets", r)} ELSE {}

\* loadActiveRun after getRun
LoadAnswered(c) ==
  /\ c.kind = "load" /\ c.served
  /\ IF c.run # active THEN calls' = calls \ {c} /\ UNCHANGED <<shown, table>>
     ELSE IF CompanyOf[c.run] # c.co
          THEN /\ table' = BindEmpty(c.run) /\ calls' = calls \ {c} /\ UNCHANGED shown
          ELSE /\ shown' = [id |-> c.run, st |-> c.st]
               /\ table' = Hydrated(table, shown', flags)
               /\ calls' = (calls \ {c}) \cup {[Call("payload", c.run) EXCEPT !.st = c.st]}
  /\ UNCHANGED <<company, rail, active, assets, flags, srv>>

\* loadActiveRun after loadAllBatchTablePayloads, or after that failed
PayloadAnswered(c) ==
  /\ c.kind = "payload" /\ c.served
  /\ IF c.run # active THEN UNCHANGED table /\ calls' = calls \ {c}
     ELSE /\ table' = Hydrated(BindLoaded(c.run, c.rows), shown, flags)
          /\ calls' = (calls \ {c}) \cup AssetCall(c.run)
  /\ UNCHANGED <<company, rail, active, shown, assets, flags, srv>>

LoadFailed(c) ==
  /\ c.kind \in {"load", "payload"}
  /\ table' = IF c.run = active THEN BindEmpty(c.run) ELSE table
  /\ calls' = (calls \ {c}) \cup (IF c.kind = "payload" /\ c.run = active THEN AssetCall(c.run) ELSE {})
  /\ UNCHANGED <<company, rail, active, shown, assets, flags, srv>>

AssetsAnswered(c) ==
  /\ c.kind = "assets"
  /\ \E got \in {c.run, NoRun} : assets' = IF c.run # active THEN assets ELSE got
  /\ calls' = calls \ {c}
  /\ UNCHANGED <<company, rail, active, shown, table, flags, srv>>

\* applyRunFromServer: only the open run is painted, and its payloads are fetched again
ApplyRun(r, st, S, f) ==
  IF r # active THEN calls' = S /\ UNCHANGED <<shown, table>>
  ELSE /\ shown' = [id |-> r, st |-> st]
       /\ table' = Hydrated(table, shown', f)
       /\ calls' = (IF st # shown.st THEN Kept(S) ELSE S)
                   \cup {[Call("refresh", r) EXCEPT !.st = st]} \cup AssetCall(r)

\* The payload refresh of applyRunFromServer; a failed one is dropped silently
RefreshAnswered(c) ==
  /\ c.kind = "refresh" /\ c.served
  /\ table' = IF c.run # active THEN table
              ELSE Hydrated([table EXCEPT !.rows = c.rows, !.bound = c.run, !.loading = FALSE],
                            shown, flags)
  /\ calls' = calls \ {c}
  /\ UNCHANGED <<company, rail, active, shown, assets, flags, srv>>

RefreshFailed(c) ==
  /\ c.kind = "refresh"
  /\ calls' = calls \ {c}
  /\ UNCHANGED <<company, rail, active, shown, table, assets, flags, srv>>

\* The 2 s poll and the WebSocket refresh of a run that is executing
Poll ==
  /\ active # NoRun /\ shown.st = "executing" /\ shown.id = active /\ Cardinality(calls) < MaxCalls
  /\ calls' = calls \cup {Call("poll", active)}
  /\ UNCHANGED <<company, rail, active, shown, table, assets, flags, srv>>

PollAnswered(c) ==
  /\ c.kind = "poll" /\ c.served
  /\ ApplyRun(c.run, c.st, (calls \ {c}) \cup (IF c.st # "executing" THEN {Call("list", NoRun)} ELSE {}), flags)
  /\ UNCHANGED <<company, rail, active, assets, flags, srv>>

Quiet(c) == c.kind \in {"list", "first", "poll", "recover", "create", "remove"}

\* Failures that change nothing but an error text
FailQuietly(c) ==
  /\ Quiet(c)
  /\ calls' = calls \ {c}
  /\ UNCHANGED <<company, rail, active, shown, table, assets, flags, srv>>

-----------------------------------------------------------------------------
\* A cell of the grid is edited (onDataChange, off once the output is read-only)
EditRow ==
  /\ Displayed # NoRows /\ shown.st # "approved" /\ active \notin OtherMode
  /\ table' = [table EXCEPT !.edited = Displayed]
  /\ UNCHANGED <<company, rail, active, shown, assets, flags, calls, srv>>

\* patchGraph: node settings, a template or the cross-VLM switch
PatchGraph ==
  /\ shown.id # NoRun /\ shown.st # "executing" /\ Cardinality(calls) < MaxCalls
  /\ table' = Hydrated(table, shown, flags)
  /\ calls' = calls \cup {Call("patch", shown.id)}
  /\ UNCHANGED <<company, rail, active, shown, assets, flags, srv>>

\* setActiveRun(updated), whichever run is open by now
PatchAnswered(c) ==
  /\ c.kind = "patch"
  /\ calls' = calls \ {c}
  /\ IF ~ c.served THEN UNCHANGED <<shown, table>>
     ELSE /\ shown' = [id |-> c.run, st |-> c.st]
          /\ table' = Hydrated(table, shown', flags)
  /\ UNCHANGED <<company, rail, active, assets, flags, srv>>

\* canApproveTable; without rows the grid and its button are not rendered
CanApprove ==
  /\ shown.id # NoRun /\ shown.st = "review"
  /\ flags \cap {"approving", "rebuilding", "page"} = {}
  /\ Displayed # NoRows /\ Owned(Displayed, shown.id) /\ OverlaySafe
  /\ shown.id \notin OtherMode

Approve ==
  /\ CanApprove /\ Cardinality(calls) < MaxCalls
  /\ flags' = flags \cup {"approving"}
  /\ calls' = calls \cup {[Call("resume", shown.id) EXCEPT !.rows = Displayed]}
  /\ UNCHANGED <<company, rail, active, shown, table, assets, srv>>

\* mapCombinedPayloadToBatches files the approved rows under the batches of the run
ApproveAnswered(c) ==
  /\ c.kind = "resume"
  /\ flags' = flags \ {"approving"}
  /\ IF ~ c.served THEN calls' = calls \ {c} /\ UNCHANGED <<shown, table>>
     ELSE /\ shown' = [id |-> c.run, st |-> c.st]
          /\ table' = Hydrated([table EXCEPT !.rows = RowsOf(c.run, c.rows.ver),
                                             !.bound = c.run, !.edited = NoRows], shown', flags')
          /\ calls' = (calls \ {c}) \cup {Call("list", NoRun)}
  /\ UNCHANGED <<company, rail, active, assets, srv>>

\* rebuildFromRunFiles: the table is emptied before the request
Rebuild ==
  /\ Displayed # NoRows /\ shown.st = "review" /\ shown.id \notin OtherMode
  /\ flags = {} /\ Cardinality(calls) < MaxCalls
  /\ flags' = {"rebuilding"}
  /\ table' = Cleared(shown.id)
  /\ calls' = calls \cup {Call("rebuild", shown.id)}
  /\ UNCHANGED <<company, rail, active, shown, assets, srv>>

\* retryEmptyExtractPage, markEmptyExtractReviewed
PageAction ==
  /\ Displayed # NoRows /\ shown.st # "approved" /\ shown.id \notin OtherMode
  /\ flags \cap {"approving", "rebuilding", "page"} = {} /\ Cardinality(calls) < MaxCalls
  /\ flags' = flags \cup {"page"}
  /\ calls' = calls \cup {Call("page", shown.id)}
  /\ UNCHANGED <<company, rail, active, shown, table, assets, srv>>

FlagOf(c) == IF c.kind = "rebuild" THEN "rebuilding" ELSE "page"

ReviewAnswered(c) ==
  /\ c.kind \in {"rebuild", "page"} /\ c.served
  /\ flags' = flags \ {FlagOf(c)}
  /\ ApplyRun(c.run, c.st, (calls \ {c}) \cup {Call("list", NoRun)}, flags')
  /\ UNCHANGED <<company, rail, active, assets, srv>>

\* A failed rebuild asks for the run once more; a failed page action only reports
ReviewFailed(c) ==
  /\ c.kind \in {"rebuild", "page"}
  /\ flags' = flags \ {FlagOf(c)}
  /\ calls' = (calls \ {c}) \cup (IF c.kind = "rebuild" THEN {Call("recover", c.run)} ELSE {})
  /\ UNCHANGED <<company, rail, active, shown, table, assets, srv>>

RecoverAnswered(c) ==
  /\ c.kind = "recover" /\ c.served
  /\ ApplyRun(c.run, c.st, calls \ {c}, flags)
  /\ UNCHANGED <<company, rail, active, assets, flags, srv>>

\* handleUpload: once every file is up the run is loaded as if it had been opened
Upload ==
  /\ shown.id # NoRun /\ shown.st = "review" /\ Cardinality(calls) < MaxCalls
  /\ calls' = calls \cup {Call("upload", shown.id)}
  /\ UNCHANGED <<company, rail, active, shown, table, assets, flags, srv>>

UploadAnswered(c) ==
  /\ c.kind = "upload"
  /\ \E done \in BOOLEAN :
       calls' = (calls \ {c}) \cup (IF done THEN {Call("load", c.run)} ELSE {})
  /\ UNCHANGED <<company, rail, active, shown, table, assets, flags, srv>>

\* handleCreateRun, removeRun: both reload the rail, then open a run
CreateRun(r) ==
  /\ ~ srv[r].exists /\ CompanyOf[r] = company /\ Cardinality(calls) < MaxCalls
  /\ calls' = calls \cup {Call("create", r)}
  /\ UNCHANGED <<company, rail, active, shown, table, assets, flags, srv>>

RemoveRun(r) ==
  /\ r \in rail /\ Cardinality(calls) < MaxCalls
  /\ calls' = calls \cup {Call("remove", r)}
  /\ UNCHANGED <<company, rail, active, shown, table, assets, flags, srv>>

CreateAnswered(c) ==
  /\ c.kind = "create" /\ ~ srv[c.run].exists
  /\ srv' = [srv EXCEPT ![c.run].exists = TRUE, ![c.run].st = "review", ![c.run].ver = 1]
  /\ rail' = Listed(c.co) \cup {c.run}
  /\ Activate(c.run, calls \ {c})
  /\ UNCHANGED <<company, flags>>

\* removeRun compares with the run that was open when Remove was clicked; that
\* one is gone, so a run that is still open under its id is replaced
RemoveAnswered(c) ==
  /\ c.kind = "remove"
  /\ srv' = [srv EXCEPT ![c.run].exists = FALSE]
  /\ rail' = Listed(c.co) \ {c.run}
  /\ IF c.run # active THEN calls' = calls \ {c} /\ UNCHANGED <<active, shown, table, assets>>
     ELSE \E r \in KeepOr(NoRun, rail') : Activate(r, calls \ {c})
  /\ UNCHANGED <<company, flags>>

-----------------------------------------------------------------------------
\* The backend: what a request does when it is served, and the snapshot it answers with
Changed(c) ==
  CASE c.kind = "resume"  -> [srv EXCEPT ![c.run].st = "approved"]
    [] c.kind = "rebuild" -> [srv EXCEPT ![c.run].ver = @ + 1]
    [] c.kind = "page"    -> [srv EXCEPT ![c.run].ver = @ + 1]
    [] OTHER              -> srv

Refused(c) ==
  \/ ~ srv[c.run].exists
  \/ c.kind \in {"rebuild", "page", "resume"} /\ srv[c.run].st = "approved"
  \/ c.kind \in {"rebuild", "page"} /\ srv[c.run].ver >= MaxVer

Snapshots == {"load", "payload", "refresh", "poll", "patch", "resume", "rebuild", "recover", "page"}

Serve(c) ==
  /\ c.kind \in Snapshots /\ ~ c.served /\ ~ Refused(c)
  /\ srv' = Changed(c)
  /\ calls' = (calls \ {c}) \cup
       {[c EXCEPT !.served = TRUE,
                  !.st = IF c.kind \in {"payload", "refresh"} THEN @ ELSE srv'[c.run].st,
                  !.rows = IF c.kind \in {"payload", "refresh"} THEN RowsOf(c.run, srv[c.run].ver)
                           ELSE @]}
  /\ UNCHANGED <<company, rail, active, shown, table, assets, flags>>

\* An extraction that was under way ends and the run waits for review
ServerFinish(r) ==
  /\ srv[r].exists /\ srv[r].st = "executing"
  /\ srv' = [srv EXCEPT ![r].st = "review"]
  /\ UNCHANGED <<company, rail, active, shown, table, assets, flags, calls>>

Answered(c) ==
  \/ ListAnswered(c) \/ LoadAnswered(c) \/ PayloadAnswered(c) \/ LoadFailed(c)
  \/ AssetsAnswered(c) \/ RefreshAnswered(c) \/ RefreshFailed(c)
  \/ PollAnswered(c) \/ FailQuietly(c) \/ PatchAnswered(c) \/ ApproveAnswered(c)
  \/ ReviewAnswered(c) \/ ReviewFailed(c) \/ RecoverAnswered(c) \/ UploadAnswered(c)
  \/ CreateAnswered(c) \/ RemoveAnswered(c)

ReviewNext ==
  \/ \E co \in Company : SwitchCompany(co)
  \/ \E r \in Run : SelectRun(r) \/ CreateRun(r) \/ RemoveRun(r) \/ ServerFinish(r)
  \/ Poll \/ EditRow \/ PatchGraph \/ Approve \/ Rebuild \/ PageAction \/ Upload
  \/ \E c \in calls : Serve(c) \/ Answered(c)

-----------------------------------------------------------------------------
ReviewSpec == ReviewInit /\ [][ReviewNext]_rvars

\* The rows and the asset records on screen are those of the run that is open,
\* whatever answers arrive late (tableBoundRunId, cancelled effects, activeRunIdRef)
NothingOfAnotherRun ==
  /\ Displayed # NoRows => Displayed.of = active
  /\ assets # NoRun => assets = active

=============================================================================
