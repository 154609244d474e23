# Bookcomet-a: a verification development

TLA+ models of the browser client and the accounting core of Bookcomet-a, the
TLC instances that check them, and theorems about them that TLAPS checks. Paths
below are relative to `src/`; client files without a directory are under
`frontend/src/`.

## 1. The system

The backend is one FastAPI process with a single asyncio event loop
(`backend/run.py`). Documents are extracted by workflow runs; approved rows
become rows of the Books modules and are mirrored into a pool of bank and ledger
transactions; the user matches the two sides into reconciliation groups; every
group owns general-ledger journals (vouchers) that are posted, unposted and
reversed. The client is a React application with two shells, the ERP shell
(Processing, Books, Reconciliation, Journals, Settings) and the classic
workspace (chats with upload queues and tables). Most of its logic is in event
handlers that await requests while other handlers, timers and effects run.

| Component | State | Operations | Correct when |
|---|---|---|---|
| Processing: review (`features/erpShell/ProcessingView.tsx`) | open run, rail, table binding, payloads, edit overlay, calls in flight | open run or company, load, poll, edit, rebuild, upload, remove, approve | what is shown, edited and saved is the open run's |
| Processing: run control | busy mark, stop guard, polls | run, Re-VLM, confirm crops, stop, refresh | every mark and spinner ends with its run; nothing starts after Stop |
| Processing: crop gate (`features/mvduCropPreview/`) | boxes per page, memory per file, bootstrap key | draw, page, file, confirm, skip, cancel | edits survive until they are sent |
| Processing: company amounts (`utils/fxCurrency.ts`) | company currency, rates, dialog and queue | choose, keep printed, apply, exchange, approve | an amount is of its own row, at a rate of its own currency |
| Batch tables, review tables | snapshots per upload batch, local rows, selection, crops | merge, reconcile, move, delete, retry, approve | no document is booked twice; the panel shows the selected row |
| Books (`features/erpShell/useModuleTransactions.ts`) | rows of several batches, dirty batches, ticks, jobs | load, edit, add, import, delete, save, Deploy Codes | ticks name the user's rows; saving stores what is shown; jobs end |
| Books to reconciliation sync (`features/recon/syncModulesToRecon.ts`) | pool, locks, syncs side by side | read, purge, import, write back | the pool mirrors Books |
| Reconciliation desk, assistant | pool, selection, groups, bubbles and jobs | match, AI match, cancel, apply, ask | own pairs stay; every bubble ends |
| Vouchers, journals, reports | a voucher per group, drafts, statements | load, post, edit, generate | no older voucher over a newer one; others' changes stay; statements tie |
| Node workspace | run list, canvas, debounced save | edit, execute, stop, deploy | a change is saved or dropped knowingly |
| Classic workspace (`features/workspace/WorkspaceApp.tsx`) | tasks, caches, upload queue, jobs, codes, composer | create, delete, upload, retry, deploy, chat | tasks stay listed, slots are freed, results arrive, the saved snapshot follows the table |
| Settings, wizard, session, account | lists, memories, companies, tokens, secrets | load, edit, create, delete, switch, sign in | lists are of the active company; an account code once; a token is replaced |
| Reconciliation matching (`backend/app/services/reconciliation_service.py`) | transactions with a status, groups, match rows | match in four ways, unmatch, dissolve, import, purge, reset | a transaction has one group, statuses and vouchers agree after every commit |
| GL journals (`backend/app/services/gl_journal_service.py`) | journals and their lines | draft, edit, post, unpost, reverse, delete | one draft per group, reversals form a chain, a voucher books what its group matches |
| Workflow runs (`backend/app/graph/workflow_service.py`) | run, files, pages, looping requests | execute, cancel, recover, retry, mark, approve | no late result overwrites a decision |
| Server helpers, OCR and prompts, presentation | | | not modelled, section 8 |

How they meet: the client's calls; `localStorage` and `sessionStorage` between
tabs, reloads and components; the rows that approval writes into the modules and
the sync mirrors into the pool; and the journal service that matching calls
inside its own request.

### What is hard

* A handler reads state, awaits, and writes. Answers arrive after the run, file,
  module, task or company was changed. Some lists carry a sequence number, others
  a generation, others nothing.
* React effects run after the render they belong to, with that render's values.
* Deploys, OCR jobs and chat answers outlive the component that asked for them
  and are resumed from a note in `localStorage`.
* Matching and journal endpoints do not suspend, so requests do not interleave;
  but one request commits several times, and a crash or an error between two
  commits keeps the first. The session has `autoflush=False`: a query after a
  deletion on it still sees the deleted rows.
* Workflow runs do await, for minutes, and nothing keeps two requests from
  looping over one run.

PROJECT.json lists each of these as a hazard at its line.

## 2. Modules

Client, each a specification with variables, one action per handler, effect,
answer or timer, and its own properties:

| Module | Models |
|---|---|
| `ReviewSession` | which run is open on the Processing page, whose rows its table holds, every answer that may repaint it |
| `RunControl` | starting, stopping and following runs; the stop guard |
| `CropGate` | the gate with its per-file memory, polls below it, confirmation |
| `FxDesk` | company currency, rates, the rate dialog and the effect that prices rows |
| `BatchTables` | snapshots of a run's upload batches, their merge, approval and transfer |
| `ReviewTable` | the two editable tables: local ids, selection, crop panel, page retry |
| `BooksView` | a Books grid over switches of module: reloads, ticks, filter, saving |
| `BooksGrid` | the rows of one module with imports, Deploy Codes and its jobs |
| `BooksSync` | syncs of Books into the pool, request by request and side by side, with saves that store at once |
| `ReconDesk`, `ReconChat` | matching on the desk; the assistant's bubbles and jobs |
| `ReconVouchers`, `JournalDesk` | vouchers beside the desk; the journal page and its edit dialog |
| `FinancialReport` | the choice of journals, the postings and the three statements as functions |
| `NodeDesk` | run list, canvas, debounced save, execute poll |
| `TaskList`, `TaskQueue`, `TaskJobs`, `TaskCodes`, `TaskComposer` | the classic workspace |
| `SettingsDesk`, `KnowledgeDesk`, `CompanyWizard` | settings, rules and manual, the set-up wizard with the server's account creation |
| `AuthSession`, `AccountDesk` | session and call layer; account panel and workspace menu |

Server:

| Module | Models |
|---|---|
| `GlJournals` | the journal table, the transformers matching calls, the journal endpoints |
| `ReconGl` | extends it with the matching engine and housekeeping, composes both |
| `VoucherStack` | abstract: the vouchers of a group are a stack whose top alone may be open |
| `WorkflowRun` | one BANK run on the default graph: files, looping requests, page review, approval |

Model checking: `MCReconGl`, `MCWorkflowRun`, `MCProcessing`, `MCDesks`,
`MCLive`. Proofs: the modules ending in `_proofs` (section 6).

Client modules hold what a client meets of the server: a request is sent,
served (the snapshot its answer carries is taken then) and answered or lost. The
serving step stands for the endpoint under `backend/` that the map names; only
what no line of the repository does (the process ends) has no source.
Client and server modules meet only through rows and share no variable, so no
module composes the two sides; `BatchTables`, `BooksSync` and `CompanyWizard`
hold the part of the server their properties speak of.

### From code to model

* A variable is a piece of React state, a ref, a storage key or a server table;
  its comment names it. A request in flight is a record in a set, so answers come
  in any order.
* A step is what runs between two awaits, with the synchronous effects it causes.
* Rows, texts, amounts and lists are abstracted to what a property tells apart:
  a row is `[of, ver]` (whose extraction, which version), a list of settings the
  company it belongs to, a rate the command that typed it.
* History variables (`seen`, `wanted`, `mirrored`, `drift`, `overwrote`) record what a
  property needs and no guard reads, except where the module says so.
* Small pure helpers have no entry in the map where their lines lie within those
  of the definition that uses them.

Accounting core: `status[t]` is the status column ("absent" without a row),
`card[g]` the cardinality reduced to the classes the code branches on,
`members[g]` the match rows, `journal[j]` a `gl_journals` row with the
transactions its lines book and what they add up to, and `req` the matching
request in progress. A multi match is a chain of actions, one per commit:
`StartMultiMatch`, `Supersede`, `NextSide`, `CreateMatch`, `Prune`, `Rebuild`,
`MergeDrafts`, `FinishMatch`; the other ways of matching join it at
`MergeDrafts`. `RequestFails` and `Crash` may end it between two commits.
`Features` names the part of the API the clients of an instance use.

Workflow run: `loop[l]` is a looping request between two files or in OCR,
`retry` a page retry with what it read before its await. A cancel sets its flag,
resets the run and clears the flag without suspending, so no loop sees the flag
and it is no variable.

## 3. Runs

| Run | Instance | Shows |
|---|---|---|
| `recon_crash` | 2 bank, 2 ledger transactions, 3 groups, 2 journals, two currencies, crashes | `SoleOwner`, `StatusAgrees`, `BookedOnce`, `VoucherOneCurrency`, `PostedGroupFrozen` |
| `recon_edits` | the same in one currency, edited drafts, 2 groups | `ModuleDraftsCollapsed` |
| `vouchers` | 1 + 1 transactions, 3 journals, all deletions, manual vouchers, crashes | `OneDraftPerGroup`, `ReversedStaysPosted`, `VouchersFormStack` (refinement of `VoucherStack`) |
| `run_loops` | 2 files, 2 looping requests, 1 node retry | `PassedHidesNothing`, `ApprovedIsComplete`, `LateAnswerIsDropped`, `MarkWins` |
| `run_review` | 1 file, 1 request, the whole API | `RequestsReturn` under fairness |
| `processing` | the five components of the Processing page and the journal page | `NothingOfAnotherRun`, `NoEditLost`, `OwnAmount`, `ApprovedOnce`, `PanelOfSelected`, `OthersKept` |
| `desks` | fourteen components of the other pages | one property each: `BusyHasOwner`, `TicksFollowRows`, `BooksMirrored`, `AiKeepsOwn`, `GuardedNeverOlder`, `TiesUpToOpenings`, `NotDropped`, `NoteKept`, `SnapshotFollows`, `SwitchKeepsOptions`, `SecretIsPending`, `ListsOfCompany`, `AccountsOnce`, `OwnText` |
| `live` | the components that wait for something | `DeployEnds`, `AwaitedSettles`, `EditEnds`, `ExpiredIsReplaced`, `SlotFreed`, `SpinnerEnds` |
| `half_group`, `locked_table`, `books_save`, `stop` | violations | the findings of section 5 |

The client components do not share state, so a run bundles several: a variable
`part`, chosen at the start, names the one a behaviour is about and everything
else keeps its first value; the constant `Parts` of `MCDesks` says which it may
name in a run. TLC explores the sum of the components, not their
product. A component about which there is a theorem is *extended* by the bundle
(`ReviewSession`, `CropGate`, `FxDesk`, `BatchTables`, `ReviewTable`,
`JournalDesk` by `MCProcessing`; `RunControl`, `BooksView`, `BooksSync`,
`ReconDesk`, `ReconVouchers`, `TaskList`, `TaskJobs`, `TaskComposer`,
`SettingsDesk`, `AccountDesk`, `KnowledgeDesk`, `FinancialReport`,
`CompanyWizard` by `MCDesks`), so that the run and the theorem state the same
definition; the others are instances over the variables `v1`, `v2`, ... in the
order of their modules.

`CHECK_DEADLOCK FALSE` is said for the client runs only: their users have a
budget of commands (`MaxCalls`, `MaxReqs`, `MaxClicks`, `MaxTaps`, `MaxEdits`,
`MaxActs` and the `Max...Acts` of the other components), and when it is used up and everything is answered nothing is left to do.

### Bounds, and why they are enough

* Client: two of everything a stale answer can confuse (runs, files, companies,
  tasks, modules, rows of a batch) and as many commands as the longest hazard
  known in the component takes, usually three to six; the mutant of each
  property is found within them. Where the property is also a theorem the budget
  is smaller (journal page: two, what is typed in its dialog not counted; company
  amounts, reports, Books: four, with five for Books in `books_save`). Counters (`MaxVer`, `MaxVersion`, `MaxId`,
  `MaxTicket`) bound how often something is drawn anew; two are enough to be out
  of date by one.
* `processing` has mode OTHER for at most one run and no look-alike file names.
  Its toolbar does not offer the empty company currency: with it `OwnAmount`
  fails within five commands (section 5).
* `processing` moves a file out of the batch it was uploaded with only
  (`Returns = FALSE`): moved a second time, a file fails `ApprovedOnce` within
  six commands (section 5). The files of its bank tables have names of their own.
* `desks` has two syncs of Books with Recon at a time (`Slot`), two companies, one
  row key (a row of Books either has it or not) and four moves of the user. Saves
  store whatever is in flight.
* `desks` checks `NoteKept` with `Lossy = FALSE`: one failed poll drops the note
  of a job on purpose (`WorkspaceApp.tsx:4641`). `Stays` is a group that is in
  every list of matched groups: without one `GuardedNeverOlder` fails (section 5).
* `desks` has two codes for bank accounts, one of them that of a built-in
  account, so that the range fills up and the order of seeding and wizard shows.
  No nickname is the name of a built-in account.
* Accounting core: two transactions per side give every cardinality class, a
  match that takes members of two others, removals on both sides and a voucher
  of two bank rows; three journals a voucher, its reversal and the reversal of
  that. Groups and journals are symmetric; transactions are not, their amounts
  differ. An id is fresh when no row uses or mentions it; `RoomForMatch` lets a
  request start while ids are free.
* Workflow run: a step concerns one file and one request and sees the others only
  through the run's status and the first running file, so two of each give every
  order. More tries of a node add nothing to one.

The theorems of section 6 lift most of the safety properties beyond these bounds.

## 4. Fairness

`RequestsReturn`: weak fairness of each request's `LoopStep`. The event loop runs
a ready request, and an OCR call returns or raises (connect and read timeouts,
`backend/app/services/ai_enhance_client.py:136`).

`live`: weak fairness of the answers (a request is answered, refused or times
out), of timers and intervals, and of effects, never of users, stops, reloads,
company switches, losses or crashes:

* `DeployEnds`: the server's job proceeds and ends, and its result is handled.
* `AwaitedSettles`: jobs are created, end and are polled; the history is answered.
* `EditEnds`: the 300 ms timer fires, its request and an execution are answered.
* `ExpiredIsReplaced`: calls are sent and answered, the refresh and the silent
  restore end. A call with an expired token may end in a network error and start
  no refresh (`services/api.ts:222`); strong fairness says that not every refused
  poll does. Nothing is assumed of logins and logouts.
* `SlotFreed`: the effect on the tasks runs, every request and job ends
  (`waitForBackgroundJob` has a deadline).
* `SpinnerEnds`: polling goes on (weak fairness). A poll may be lost before or
  after it is served, but not every poll for ever: serving and answering one is
  strong fairness.

In the other modules every user command is optional and no liveness is stated.

## 5. Findings

Checked as violations, each at its line in PROJECT.json:

1. `half_group`: removing the last bank (or ledger) member of a two-sided match
   does not dissolve it: `remove_group_member` counts the rows it has just
   deleted, since the session does not flush.
2. `locked_table`: a page retry looks at the lock before it awaits OCR. If
   Approve comes in between, it replaces a page of the approved table and unlocks
   the run.
3. `books_save`: the Books grid stays mounted over a switch of module and saves
   the rows of the old module under the kind of the new one: they are not stored,
   and no longer marked as unsaved.
4. `stop`: Re-VLM saves a setting first. Stop, confirmed meanwhile, is answered,
   and then the Re-VLM request starts the run.

Seen while modelling or proving, and kept out of the runs by a bound or a
hypothesis that says so:

* Clearing the company currency (`FxDesk`, hypothesis `NeverCleared`): choose the
  empty currency, click an amount before the choice is answered and keep the
  amount printed on one document; the effect then returns early
  (`ProcessingView.tsx:1353`) and every row of that currency keeps the printed
  amount of that document (`ProcessingView.tsx:1589`). An instance that offers
  the empty currency finds it.
* A file moved to another batch and later moved again (`BatchTables`, `Returns`):
  `moveFileRowsBetweenBatches` puts the rows of the file after those of the
  target without looking whether these are there already, and neither a snapshot
  that was saved late nor a sheet whose list was emptied has lost them. With
  `Returns = TRUE` TLC approves a row in two versions after six commands.
* The rows of a bank table know their file by its name (`tablePayloadMerge.ts:11`).
  Two files of one name in two batches (hypothesis `NamesApart`) get each other's
  rows when one is extracted again; TLC needs five commands.
* A match starts a sync of Books with Recon and does not wait for it
  (`features/recon/useReconWorkspace.ts:775`); a save of Books starts another.
  When the first has read Books before the save, and the second has purged the
  pool, the first imports a row the save deleted: Recon has it until the next
  sync. `BooksMirrored` speaks of pools that no other sync has written between the
  reading and the import of the last one (`mirrored`).
* The write-back of a sync stores the whole of a batch as it has loaded it
  (`features/recon/syncModulesToRecon.ts:213`), over what was saved in between.
* The server sets the refresh cookie for the path `/auth/refresh`
  (`backend/app/api/auth.py:273`), so no logout carries it: the stored hash stays,
  though the docstring says "Clear the refresh token cookie and invalidate the
  stored token" (`backend/app/api/auth.py:394`). A refused refresh clears the
  cookie on a response that the exception after it replaces
  (`backend/app/api/auth.py:424`): the browser keeps the cookie. `AuthSession` has
  both.
* The retry of a page (`WorkspaceApp.tsx:1948`) builds the table anew from what OCR
  read: rows deleted since are back, and codes and the ids of the books are gone.
  Answered while another task is open, it changes the saved snapshot and not the
  table on screen. `TaskCodes` has both; `SnapshotFollows` leaves the second out
  until the next change.
* PATCHes of a snapshot are not sequenced (`hooks/useDebouncedOcrSnapshotSave.ts:50`):
  an older one served later stays, and a lost one is only warned of. The answer of
  a save of codes puts the code it has sent back on screen, over one picked since
  (`WorkspaceApp.tsx:1213`). `SnapshotFollows` leaves these out too (`drift`).
* Drafts of vouchers are stored without looking whether they balance
  (`backend/app/services/gl_journal_service.py:1613`), and the report lets a single
  draft of a group count: its trial balance then need not tie.
  `TiesUpToOpenings` says by how much the balance sheet follows.
* A list of matched groups that is empty for a moment starts the generations of
  the voucher loads again from 0 (`components/ReconGlSection.tsx:151`), and an
  answer from before passes as the latest (hypothesis `Stays # {}`). With
  `Stays = {}` TLC shows an older voucher over a newer one in five commands.
* A created task is put into the list cached under the company its create was
  sent in, though another may be on screen (`WorkspaceApp.tsx:1644`). Two
  switches later it can be opened under a company it is not of, and the 404 of
  its messages, answered late, takes it out of the list of its own company
  (`WorkspaceApp.tsx:1614`, `WorkspaceApp.tsx:2282`) until the next load.
  `NotDropped` leaves such a task out (`Foreign`).
* The session does not flush (`backend/app/database.py:34`), so the set-up wizard
  looks names up in the chart as it was before the post: two bank accounts of one
  nickname in one form are both added, though the docstring
  (`backend/app/api/company_manual.py:509`) says an existing name is skipped.
  `AccountsOnce` allows it (`by`).
* The built-in accounts of a chart are seeded when it is first read, by code
  (`backend/app/services/chart_of_accounts.py:91`). A wizard posted before that
  gives 1100 to the first bank account of its form, and the built-in Accounts
  Receivable, to which receivable journals go by that code, is never added. No
  property says that the built-in accounts are there (`CompanyWizard` has both orders).
* A match whose two sides come from one table (`sameMode`) leaves transactions in
  their former group; `purge-unreconciled` with the ids of matched transactions
  (`purgeByIds`) deletes their match rows: `SoleOwner` and `StatusAgrees` fail.
* Reset leaves posted vouchers of groups that are gone, and purge-except-kept
  removes members of posted matches: what a voucher books is then no longer among
  the members of its group (hypothesis `Calm`).
* With two currencies, a ledger-only match that was refused its merge keeps its
  group; unmatching a member makes it a match of one currency, a draft is made
  for it, and the module draft of the remaining transaction stays beside it
  (`backend/app/services/gl_journal_service.py:857`; hypothesis
  `OneCurrencyDesk`). A crash between the group commit and the merge does the
  same (hypothesis `ToEnd`).
* The reversal draft of a manual voucher can be neither posted nor deleted.
* Executing a second upload reopens the failed files of the first: the second
  preparation of the same execution finds nothing uncommitted.
* A node timeout after a stop puts the run back to executing; a single file whose
  try timed out leaves the next try without files, and its 400 leaves the run
  executing until it is cancelled or recovered; after a cancel and a new execute
  the answer of the first request still counts.

## 6. Theorems

TLAPS checks these for every value of the constants the named assumptions allow.
What a hypothesis excludes is said in section 5.

| Theorem | Statement | Hypotheses |
|---|---|---|
| `ReconGl_proofs`: `TypeCorrect` | rows keep a legal shape | |
| `OneDraftAlways`, `ReversalsHang` | `OneDraftPerGroup`; `ReversedStaysPosted` and one reversal per voucher | |
| `VouchersStack` | `Spec => VouchersFormStack`: `ReconGl` implements `VoucherStack` | `JournalsFinite` |
| `ReconGlRows_proofs`: `OneCurrencyAlways` | `VoucherOneCurrency` | |
| `OneOwnerAlways` | `SoleOwner` | `SidesApart` |
| `StatusAlways` | `StatusAgrees` | `SidesApart`, `ByPool` |
| `BookedOnceAlways`, `PostedFrozenAlways` | `BookedOnce`; the action property `PostedGroupFrozen` | `Calm` |
| `CollapsedAlways` | `ModuleDraftsCollapsed` | `Calm`, `ToEnd`, `OneCurrencyDesk` |
| `WorkflowRun_proofs`: `RunTypeCorrect`, `PassedAlways`, `ApprovedAlways`, `MarksWin`, `LateAnswersDropped` | `TypeOK`, `PassedHidesNothing`, `ApprovedIsComplete`, `MarkWins`, `LateAnswerIsDropped` | |
| `ReviewSession_proofs`: `NothingOfAnother` | `NothingOfAnotherRun` | |
| `ReviewPage_proofs`: `NoEditLostAlways`, `PanelFollows` | `NoEditLost` of the crop gate, `PanelOfSelected` of the review tables | |
| `OwnAmountAlways` | `OwnAmount` | `NeverCleared` |
| `RowsApprovedOnce` | `ApprovedOnce` of the batch tables | `~ Returns`, `NamesApart` |
| `Desks_proofs`: `BusyOwned`, `TicksFollow`, `ListsFollow`, `ReportTies`, `AccountsAddedOnce` | `BusyHasOwner`, `TicksFollowRows`, `ListsOfCompany`, `TiesUpToOpenings`, `AccountsOnce` | |
| `Ledger_proofs`: `AiMatchKeepsItsOwn`, `LinesOfOthersKept` | the action properties `AiKeepsOwn`, `OthersKept` | |
| `ShownNeverOlder` | the action property `GuardedNeverOlder` | `Stays # {}` |
| `PoolMirrors` | `BooksMirrored` | |
| `Workspace_proofs`: `SecretShown` | `SecretIsPending` | |
| `RuleKeepsText`, `ListKeepsTasks`, `OptionsKept` | the action properties `OwnText`, `NotDropped`, `SwitchKeepsOptions` | |
| `NotesKept` | `NoteKept` | `~ Lossy` |

The hypotheses name the part of the API an instance uses (`Features`) or what its
users may choose. `SidesApart`: no `sameMode`. `ByPool`: no `purgeByIds`. `Calm`:
neither of these, no reset and no purge-except-kept. `ToEnd`: no crash.
`OneCurrencyDesk`: one currency for all transactions. `JournalsFinite`: the
journal ids are a finite set, so that vouchers can be counted. `NeverCleared`:
the empty company currency is not offered. `Stays # {}`: some group stays in the
list of matched groups. `~ Lossy`: no poll of a background job is lost.
`~ Returns`: a file is moved out of the batch it was uploaded with only.
`NamesApart`: a bank run has no two files of one name. Each is true in the run
that checks the same property.

### The arguments

**Vouchers.** `IInv == TypeOK /\ Chained(journal)`. A *tip* is a live voucher no
other reverses; `Chained` says that a reversal hangs on a posted voucher of its
own group, alone, and that a group has one tip. A second draft is excluded
because drafts are tips, and deleting a draft hands its place to the voucher
below. The argument has three layers: what a table transformer does to a row
(`Shrinks`), what that does to the chain (`ShrinkChained`, `AddChained`,
`ReverseChained`, `RestatusChained`), and which of these each action uses. On the
way `PrunedIsIdentity` shows that `prune_extra_drafts_for_group` never deletes
anything.

**Refinement of `VoucherStack`.** The mapping counts the vouchers of a group
(`Depth`) and says whether one is a draft (`Opened`). Since drafts are tips and a
group has one tip, what a step drops of a group is its top (`ShrinkDrops`), what
it adds is a new one on a closed top (`NewPushes`), and posting or unposting
opens or closes the top (`RestatusStack`); every action is one of these for one
group, several at once for housekeeping, or a stutter.

**Owners and statuses.** `SoleOwner` is not inductive: between the commits of a
multi match, the request relies on what it has already removed. `RowsInv` adds
`Leaving`, which follows the removals still to do in `req.todo` commit by commit
(the bank side is empty before the ledger side begins), `MembersMatched`, and that
an absent group has no members. `StatusAgrees` needs `MatchedOwned` on top.

**What a voucher books.** `CurrencyInv` shows that a voucher is created for one
currency and that later rebuilds only ever shrink it or take members of that
currency. `LinesOwned` says that every line of a group's voucher books a member;
reset and the other purges break it, hence `Calm`. With `Firsts` (the match
voucher is the bottom of its stack) and `RowsInv` it gives `BookedOnce`: two
vouchers that book a transaction would need two owners of it. `ModuleInv` adds
that only the group a request has just created may still have module drafts.

**Workflow runs.** `RunInv` adds `RetryUnlocked` to typing and the two
properties: the run a waiting page retry has read was not locked. Without it a
page retry that finds nothing changed could lock a table by writing back what it
read. Only the end of an OCR call, a mark and a page retry have to be looked at.

**Run control.** A busy mark is set only together with a request that owns it;
polls that end with a run own no mark; whoever takes an owner out of the requests
takes the mark away or puts another owner of the same run in its place.

**Review session.** `SessionInv`: the payloads are of the run the table is bound
to (`PayloadsBound`), which need not be the open one, because an approval binds
the table to the run it approved; the overlay of edits has no binding of its own
and so must be of the open run (`OverlayOpen`), like the asset records; and an
answer carries rows of the run it was asked for (`AnswersOwn`).

**Crop gate.** `GateInv`: the open file shows what the user last saw while it
waits, its bootstrap key names the phase it is shown for, every file of the gate
that is not open is in its memory as it was seen, and polls never change the
boxes detected on a page.

**Company amounts.** "Keep printed" does price every row of a currency with one
document's amount. `FxInv` shows that this is always taken back: a printed amount
is only offered when some document has one, until approval no row the server
stores has been priced (`rated`), so the effect that follows `applyPairRate`
recomputes every row, and a request closed over rows only while they were each
row's own.

**Books grid.** `BooksInv`: every key in use (drawn, ticked, or in an answer still
to be applied) has a number below `seqRef`, and equal keys stand for the same row.
A reload numbers its rows by how many come before in the order its batches
happened to be read (`NumberedKeys`, a counting argument), from the present
number up; while the grid is mounted the number only grows.

**Settings.** `SettingsInv`: a load whose number is the present one is of the
active company. Every way to change the company, also the creation and deletion
of one answered late, draws the next number in the same step (`NextSeq`); all
else leaves number and company (`SameSeq`).

**Review tables.** `TableInv`: a crop still wanted for the panel is that of the
selected row, a cancelled one bears an older number of its pane, and the panel
says that it loads while one is wanted. Whatever changes rows or selection runs
the effect that cancels and asks again.

**Batch tables.** `TablesInv` speaks of every payload there is: shown, stored as a
snapshot or on its way to the server. In each, what a merge goes by (the list of a
bank table, the sheet of another) has one row for a row of a document (`Once`);
and until approval it has only rows of files that are, or were first, in its
batch. A merge keeps the first because it replaces a file's
rows as a whole (`MergeOk`), a move because the target cannot have rows of a file
that was never there. The table to approve folds the batches into one payload
(`Combined`); that it has a key only once (`CombinedOk`) is an induction over the
batches. The library's induction takes an operator as a parameter, so it is done
by least counterexample instead: a nonempty set of numbers has a least element
(`NatLeast`, from the well-foundedness of `<`), and the least batch after which
the sum is not sound contradicts `MergeOk`.

**Books to reconciliation.** `SyncInv`: a sync whose requests all went to its own
company, and that no other sync has overtaken (`home`), knows the pool up to
statuses from reading to purging (`SameRows`), since matching and cancelling leave
ids and keys alone (`FlipKeeps`); after the purge the pool has keys of Books only
and all that were matched when it was read (`WipedPool`), and the import adds the
rest (`ImportedPool`). Whatever another sync writes ends `home`, whatever a save
stores ends `mirrored`. No two rows have one id, so that keeping by id keeps the
rows meant.

**Financial reports.** The debits of all accounts are the debits of the lines, and
so the credits (`SumByClass`, `MovementsAddUp`). The statements show the accounts
by class: each row is its opening, if it is a balance sheet account, and what it
moved; what remains is the openings and debits less credits (`SheetTies`). Lines
of documents balance by posting (`OcrBalances`), those of vouchers one voucher at
a time when each that counts does (`BalancedParts`). `ReportInv` adds that the
lines are of accounts and that the sets of a generation are finite
(`IsFiniteSet(Doc)`, `IsFiniteSet(Journal)`). The sums are `SumFunctionOnSet` of the community
modules; that its recursion has one solution, that any element may be taken first,
and that sums add, split and sort by class is proved by least counterexample
(`SubsetInduction`), since the library's induction theorems cannot be used.

**Set-up wizard.** A post adds accounts whose codes and names the chart lacks,
each code once, and none named like a built-in account (`MayAdd`); the ranges of
banks, cash and director do not meet, so this holds of all it adds. `ChartOk` is
the property together with: a built-in name stands at the built-in code. The
second part is needed for seeding, which looks at codes only. The recursion over
the bank accounts of a form is solved by least counterexample (`BankSteps`).
`WizardConstants` excludes accounts of a form named like a built-in one: with one,
seeding gives a second account of that name.

**AI Match.** `AiInv`: the rows of the batch at work are in no pair of this run,
and the amounts still to do are those of no pair. So a step that makes a pair
takes its rows out of other groups only (`ApartStays`); the runs of one amount and of the
pool need the same of their batch.

**Vouchers beside the desk.** `VouchersInv`: nothing shown, seeded or answered is
newer than the server's voucher; no two guarded calls of a group bear one
generation; an answer of the latest generation is no older than what is shown.
The last holds because every write of what is shown either draws the next
generation or is the only call of the present one.

**Journal page.** `JournalInv`: in the dialog and in its save, a line that differs
from the one opened was typed or removed by hand. The merge sends nothing else.
Drafts of approved rows that a match takes over vanish whole, lines and all.

**Account panel.** `AccountInv`: a set-up, enable or disable in flight is the only
request of its section (`MfaOk`), and the secret in an answered set-up is the one
stored. So no answer is overtaken, and a lost one is shown as a failure.

**Rules.** `KnowledgeInv`: the text in the list, in the dialog and in a save
belongs to the rule whose id stands beside it. It needs that no id is given
twice, also after a deletion (`Erased`).

**Background jobs.** `JobsInv`: a job that runs has its note, so that the note
goes only where the job has ended.

**Task list.** `TaskListInv`: one list request at most, for the company on
screen; a task under way to the server is in `pending` and nowhere else; and what
an answered list lacks is pending or was deleted here (`Answers`). The merge
keeps the pending ones.

**Composer.** The first render after a task is opened keeps the old options under
the new task; the second loads what was kept there before and puts it back. The
property needs the composition of both, not either (`ComposerSteps`).

**What the proofs changed in the models.** A secret drawn again has a new number,
else a lost answer could pass for the present one; ids of deleted rules are not
used again, as on the server; the exception `Foreign` and the hypothesis
`Stays # {}` came from steps that could not be proved. The wizard looked names up
in the chart with the accounts it had just added, had no end to its codes and no
seeding: it now does what the session and `_seed_defaults` do, and `AccountsOnce`
says what holds of that.

### Only model-checked

* Liveness (`RequestsReturn` and the run `live`): out of the prover's reach.
* `SnapshotFollows`: the PATCHes under way are a sequence worked on by position;
  the run has two rows, one code and three commands.

32 of the 40 properties of the passing runs are stated by a theorem.

## 7. Plan

1. Server helpers: sliding windows and concurrency counters of
   `backend/app/services/distributed_limits.py`, branch routing of
   `backend/app/graph/branch_routing.py`.

## 8. Assumptions and what is not modelled

* One process and one event loop on the server; a request suspends only where the
  code awaits. `recover-stuck` runs in the thread pool and is one step.
* In the client modules the server's work and the arrival of its answer are one
  step where no property depends on what happens between them; each module's
  header says where.
* Accounting core: voucher numbers, line amounts and account codes beyond the
  balance classes, `sync_draft_journal_lines_to_transactions`, the score of
  automatic matching, the deprecated 1:1 match.
* Workflow run: one page per file, BANK runs on the default graph; AR and AP gates
  on the server, removing files, editing the graph, approvals without rows, the
  VLM cache.
* Client: layout, drawing, export, search, toasts, wording, pointer geometry,
  per-field validation, API keys, appearance; texts are abstracted to where they
  were typed.
* OCR, parsing, matching scores, prompts and skills: heuristics over data and
  model output. Rate limits, snapshots, event fan-out, bulk deletion and file
  storage on the server are not modelled; of job workers there is what a client
  meets: a batch that is saved, and the end of the job.

PROJECT.json gives the extent and the reason for each component.
