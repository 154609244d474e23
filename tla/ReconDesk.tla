----------------------------- MODULE ReconDesk -----------------------------
(***************************************************************************)
(* The reconciliation page (useReconWorkspace.ts, ReconPage.tsx): loading  *)
(* the Books mirror, selecting, Match, AI Match, Cancel match and Apply of *)
(* the assistant's actions.  Each handler is a chain of awaited requests;  *)
(* a request and its answer are one step here, everything else may happen  *)
(* between two requests, leaving the page included.                        *)
(***************************************************************************)
EXTENDS Naturals, FiniteSets

CONSTANTS Bank, Ledger,   \* rows of the two panels
          Amount,         \* [row -> absolute amount], at least 1
          Currency,       \* [row -> currency], NoCurrency when unknown
          NoCurrency,
          HasCode,        \* bank rows with an account category
          BatchSize,      \* RECON_AI_BATCH_SIZE
          MaxGroups, MaxTaps   \* bounds

ASSUME DeskAssumption ==
    Bank \cap Ledger = {} /\ MaxGroups \in Nat /\ MaxTaps \in Nat /\ BatchSize \in Nat \ {0}

Rows == Bank \cup Ledger

VARIABLES atServer, \* groups at the backend: [id, rows]
          posted,   \* ids of groups with a posted journal (ReconGlSection shows the same)
          groups,   \* reconMatchedGroups
          pool,     \* reconUnmatchedTxns
          picked,   \* selectedBankIds and selectedLedgerIds
          page,     \* mounted, loading, thinking
          loads,    \* loadTransactions in flight
          op,       \* a Match, Cancel or Apply in flight
          ai,       \* the AI Match in flight
          nextId, taps

reconDesk == <<atServer, posted, groups, pool, picked, page, loads, op, ai, nextId, taps>>

Matched(G) == UNION {g.rows : g \in G}
NoOp == [kind |-> "none"]
NoAi == [st |-> "none", made |-> {}]
Away == [mounted |-> FALSE, loading |-> FALSE, thinking |-> FALSE]
Tap == taps < MaxTaps /\ taps' = taps + 1

\* needsSelection hides the panels until the first load has begun
DeskInit ==
  /\ atServer = {} /\ posted = {} /\ groups = {} /\ pool = {} /\ picked = {}
  /\ page = Away /\ loads = {} /\ op = NoOp /\ ai = NoAi /\ nextId = 1 /\ taps = 0

-----------------------------------------------------------------------------
\* The backend (ReconGl has the details).  multi_manual_match takes the rows
\* out of the groups they are in, unless one of those is posted; a bank row
\* sent on the ledger side keeps its old group too.
HeldBy(S) == {g \in atServer : g.rows \cap S # {}}

\* remove_group_member: a group left with one side is dissolved
Without(G, S) == LET shrunk == {[id |-> g.id, rows |-> g.rows \ S] : g \in G} IN
                 {g \in shrunk : g \in G \/ (g.rows \cap Bank # {} /\ g.rows \cap Ledger # {})}

MatchAccepted(left, right) ==
  /\ nextId <= MaxGroups
  /\ \A g \in HeldBy(left \cup (right \cap Ledger)) : g.id \notin posted
  /\ \A x \in left, y \in right : NoCurrency \in {Currency[x], Currency[y]} \/ Currency[x] = Currency[y]

\* Equal totals; every match of this page pairs rows of one amount
SameAmount(left, right) == \A x \in left, y \in right : Amount[x] = Amount[y]

NewGroup(left, right) == [id |-> nextId, rows |-> left \cup right]

MultiManualMatch(left, right) ==
  /\ MatchAccepted(left, right) /\ SameAmount(left, right)
  /\ atServer' = Without(atServer, left \cup (right \cap Ledger)) \cup {NewGroup(left, right)}
  /\ nextId' = nextId + 1

\* gl-only-match, clear-bank, ledger-pending: an open row alone
SingleMatch(r) ==
  /\ nextId <= MaxGroups /\ r \notin Matched(atServer)
  /\ atServer' = atServer \cup {NewGroup({r}, {})} /\ nextId' = nextId + 1

\* applyMultiManualMatchResult
ApplyMatch(S) ==
  /\ pool' = pool \ S /\ picked' = {}
  /\ groups' = groups \cup {[id |-> nextId, rows |-> S]}

-----------------------------------------------------------------------------
\* mount, the session effect, the Recon button again, or Refresh
Load(mounting) ==
  /\ \/ mounting /\ ~ page.mounted /\ taps < MaxTaps
        /\ page' = [Away EXCEPT !.mounted = TRUE, !.loading = TRUE]
        /\ groups' = {} /\ pool' = {} /\ picked' = {} /\ loads' = {[st |-> "sync"]}
     \/ ~ mounting /\ page.mounted /\ Cardinality(loads) < 2
        /\ page' = [page EXCEPT !.loading = TRUE]
        /\ loads' = loads \cup {[st |-> "sync"]}
        /\ UNCHANGED <<groups, pool, picked>>
  /\ Tap /\ UNCHANGED <<atServer, posted, op, ai, nextId>>

\* the panels answered: rows, pool and an empty selection
LoadRows ==
  \E q \in loads :
    /\ q.st = "sync" /\ page.mounted
    /\ loads' = (loads \ {q}) \cup {[st |-> "groups"]}
    /\ pool' = Rows \ Matched(atServer) /\ picked' = {}
    /\ UNCHANGED <<atServer, posted, groups, page, op, ai, nextId, taps>>

\* refreshGroups, then the partial rows
LoadGroups ==
  \E q \in loads :
    /\ q.st = "groups" /\ page.mounted
    /\ loads' = loads \ {q} /\ groups' = atServer
    /\ page' = [page EXCEPT !.loading = FALSE]
    /\ UNCHANGED <<atServer, posted, pool, picked, op, ai, nextId, taps>>

LoadFailed ==
  \E q \in loads : /\ loads' = loads \ {q}
                   /\ page' = [page EXCEPT !.loading = FALSE]
  /\ page.mounted
  /\ UNCHANGED <<atServer, posted, groups, pool, picked, op, ai, nextId, taps>>

\* another page: the refs tell a running AI Match to stop
LeavePage ==
  /\ page.mounted /\ page' = Away
  /\ groups' = {} /\ pool' = {} /\ picked' = {} /\ loads' = {}
  /\ op' = NoOp   \* its remaining answers find nothing mounted
  /\ ai' = IF ai.st = "none" THEN ai ELSE [ai EXCEPT !.live = FALSE]
  /\ Tap /\ UNCHANGED <<atServer, posted, nextId>>

PageBusy == page.loading \/ page.thinking

\* the check boxes, select all and Clear
Select ==
  /\ page.mounted
  /\ \/ \E r \in Rows : picked' = (picked \cup {r}) \ (picked \cap {r})
     \/ \E S \in {Bank, Ledger} : picked' \in {picked \cup S, picked \ S}
     \/ ~ PageBusy /\ picked' = {}
  /\ picked' # picked
  /\ Tap /\ UNCHANGED <<atServer, posted, groups, pool, page, loads, op, ai, nextId>>

-----------------------------------------------------------------------------
Known(S) == {Currency[r] : r \in S} \ {NoCurrency}

\* sameCurrency
OneCurrency(S) == Cardinality(Known(S)) <= 1

\* handleMatch and its single-sided flows: both sides go to autoMatchSelected first
Match ==
  /\ page.mounted /\ ~ PageBusy /\ picked # {} /\ op = NoOp
  /\ OneCurrency(picked)
  /\ LET b == picked \cap Bank   l == picked \cap Ledger IN
     \/ b # {} /\ l # {} /\ op' = [kind |-> "match", left |-> b, right |-> l, auto |-> TRUE]
     \/ Cardinality(picked) = 1 /\ op' = [kind |-> "single", left |-> picked]
  /\ Tap /\ UNCHANGED <<atServer, posted, groups, pool, picked, page, loads, ai, nextId>>

\* the rules paired some rows of the selection: they are matched one pair at a time
AutoPair ==
  /\ op.kind = "match" /\ op.auto
  /\ \E x \in op.left, y \in op.right :
       /\ MultiManualMatch({x}, {y}) /\ ApplyMatch({x, y})
       /\ op' = [op EXCEPT !.left = op.left \ {x}, !.right = op.right \ {y}]
  /\ UNCHANGED <<posted, page, loads, ai, taps>>

AutoDone ==
  /\ op.kind = "match" /\ op.auto
  /\ op' \in {[kind |-> "refresh"]} \cup
             {[op EXCEPT !.auto = FALSE]}
  /\ UNCHANGED <<atServer, posted, groups, pool, picked, page, loads, ai, nextId, taps>>

ManualPair ==
  /\ op.kind = "match" /\ ~ op.auto
  /\ MultiManualMatch(op.left, op.right) /\ ApplyMatch(op.left \cup op.right)
  /\ op' = [kind |-> "refresh"]
  /\ UNCHANGED <<posted, page, loads, ai, taps>>

\* ledger-pending, GL-only or cleared
SingleDone ==
  /\ op.kind = "single"
  /\ \E r \in op.left : SingleMatch(r) /\ ApplyMatch({r})
  /\ op' = [kind |-> "refresh"]
  /\ UNCHANGED <<posted, page, loads, ai, taps>>

\* the cancelled group leaves the list, its rows return to the pool
Stripped(G, id) == {g \in G : g.id # id}
Restored == pool \cup op.group.rows

\* refreshGroups; a cancelled group is stripped again
Refreshed ==
  /\ op.kind = "refresh" /\ op' = NoOp
  /\ groups' = IF "gone" \in DOMAIN op THEN Stripped(atServer, op.gone) ELSE atServer
  /\ UNCHANGED <<atServer, posted, pool, picked, page, loads, ai, nextId, taps>>

OpFailed ==
  /\ op.kind # "none" /\ op' = NoOp
  /\ UNCHANGED <<atServer, posted, groups, pool, picked, page, loads, ai, nextId, taps>>

-----------------------------------------------------------------------------
\* handleCancelMatchedGroup: each member leaves until the group is dissolved,
\* else dissolve-group; the rows go back to the pool whatever the backend said
Cancel ==
  /\ page.mounted /\ op = NoOp
  /\ \E g \in groups : g.id \notin posted /\ op' = [kind |-> "cancel", group |-> g]
  /\ Tap /\ UNCHANGED <<atServer, posted, groups, pool, picked, page, loads, ai, nextId>>

CancelAnswered ==
  /\ op.kind = "cancel"
  /\ \/ op.group.id \notin posted /\ atServer' = Stripped(atServer, op.group.id)
     \/ UNCHANGED atServer
  /\ pool' = Restored /\ groups' = Stripped(groups, op.group.id)
  /\ op' = [kind |-> "refresh", gone |-> op.group.id]
  /\ UNCHANGED <<posted, picked, page, loads, ai, nextId, taps>>

\* ReconGlSection posts and unposts the journal of a group
Post ==
  /\ page.mounted /\ \E g \in groups : posted' \in {posted \cup {g.id}, posted \ {g.id}}
  /\ posted' # posted
  /\ Tap /\ UNCHANGED <<atServer, groups, pool, picked, page, loads, op, ai, nextId>>

\* handleApplyReconAiActions: one match or unmatch proposed by the assistant
ApplyActions ==
  /\ page.mounted /\ op = NoOp
  /\ \/ \E x \in Bank, y \in Ledger :
          op' = [kind |-> "match", left |-> {x}, right |-> {y}, auto |-> FALSE]
     \/ \E g \in groups : op' = [kind |-> "unmatch", group |-> g]
  /\ Tap /\ UNCHANGED <<atServer, posted, groups, pool, picked, page, loads, ai, nextId>>

\* unmatch deletes the draft journal and hides the group, which stays matched
UnmatchAnswered ==
  /\ op.kind = "unmatch"
  /\ groups' = Stripped(groups, op.group.id) /\ op' = [kind |-> "refresh"]
  /\ UNCHANGED <<atServer, posted, pool, picked, page, loads, ai, nextId, taps>>

-----------------------------------------------------------------------------
\* AI Match.  filterIdsByCurrency
OfCurrency(S, c) == {r \in S : Currency[r] \in {c, NoCurrency}}

\* resolveAiMatchCandidates: an unselected side means every row of that panel
Candidates ==
  LET b == picked \cap Bank   l == picked \cap Ledger
      wide == (IF b = {} THEN Bank ELSE b) \cup (IF l = {} THEN Ledger ELSE l)
      anchors == IF Known(picked) # {} THEN Known(picked) ELSE Known(wide) IN
  IF anchors = {} THEN {wide} ELSE {OfCurrency(wide, c) : c \in anchors}

AiStart ==
  /\ page.mounted /\ ~ PageBusy /\ picked # {} /\ ai.st = "none"
  /\ \E S \in Candidates :
       /\ OneCurrency(S)
       /\ S \cap Bank # {} /\ (Ledger = {} \/ S \cap Ledger # {})
       /\ ai' = [st |-> "batch", rows |-> S, made |-> {}, left |-> {Amount[r] : r \in S},
                 batch |-> {}, live |-> TRUE]
  /\ page' = [page EXCEPT !.thinking = TRUE]
  /\ Tap /\ UNCHANGED <<atServer, posted, groups, pool, picked, loads, op, nextId>>

\* (bug) usedBank is never filled
NotUsedAll == ai.rows \cap Bank

\* the bank rows this run has not matched yet (usedBank)
NotUsed == (ai.rows \cap Bank) \ Matched(ai.made)

Of(side, A) == {r \in ai.rows \cap side : Amount[r] \in A}

\* buildAiMatchBatches: whole amounts with rows on both sides, packed up to BatchSize
Fits(A) == \/ Cardinality(A) = 1
           \/ /\ Cardinality(Of(Bank, A)) <= BatchSize /\ Cardinality(Of(Ledger, A)) <= BatchSize

Batches == {A \in (SUBSET ai.left) \ {{}} :
              Fits(A) /\ \A a \in A : Of(Bank, {a}) # {} /\ Of(Ledger, {a}) # {}}

Stepping == UNCHANGED <<posted, page, loads, op, taps>>
Quiet == Stepping /\ UNCHANGED <<atServer, groups, pool, picked, nextId>>

\* a batch is sent; the answer proposes pairs of equal amount, each row at most once
AiBatch ==
  /\ ai.st = "batch" /\ ai.live
  /\ \E A \in Batches :
       ai' = [ai EXCEPT !.st = "pairs", !.left = ai.left \ A, !.batch = Of(Bank, A) \cup Of(Ledger, A)]
  /\ Quiet

AiPair ==
  /\ ai.st = "pairs" /\ ai.live
  /\ \E x \in ai.batch \cap Bank, y \in ai.batch \cap Ledger :
       /\ Amount[x] = Amount[y]
       /\ \/ MultiManualMatch({x}, {y})
             /\ ai' = [ai EXCEPT !.batch = ai.batch \ {x, y}, !.made = ai.made \cup {NewGroup({x}, {y})}]
             /\ ApplyMatch({x, y})
          \/ ai' = [ai EXCEPT !.batch = ai.batch \ {x, y}] /\ UNCHANGED <<atServer, nextId, groups,
                                                                          pool, picked>>
  /\ Stepping

\* the answer proposed nothing more, or the call failed
AiBatchDone ==
  /\ ai.st = "pairs" /\ ai' = [ai EXCEPT !.st = "batch", !.batch = {}]
  /\ Quiet

\* every batch is done: bank rows of one amount are paired among themselves
AiFallback ==
  /\ ai.st = "batch" /\ ai.live /\ Batches = {}
  /\ ai' = [ai EXCEPT !.st = "amount", !.left = {Amount[r] : r \in NotUsed}]
  /\ Quiet

AiAmount ==
  /\ ai.st = "amount" /\ ai.live
  /\ \E a \in ai.left :
       ai' = [ai EXCEPT !.st = "pool", !.left = ai.left \ {a}, !.batch = Of(Bank, {a}) \cap NotUsed]
  /\ Quiet

\* the inner loop runs on when the page is left
AiTransfer ==
  /\ ai.st = "pool" /\ Cardinality(ai.batch) >= 2
  /\ \E x, y \in ai.batch :
       /\ x # y
       /\ \/ MultiManualMatch({x}, {y})
             /\ ai' = [ai EXCEPT !.batch = ai.batch \ {x, y}, !.made = ai.made \cup {NewGroup({x}, {y})}]
             /\ IF ai.live THEN ApplyMatch({x, y}) ELSE UNCHANGED <<groups, pool, picked>>
          \/ ai' = [ai EXCEPT !.batch = ai.batch \ {x, y}] /\ UNCHANGED <<atServer, nextId, groups,
                                                                          pool, picked>>
  /\ Stepping

AiTransferDone ==
  /\ ai.st = "pool" /\ Cardinality(ai.batch) < 2
  /\ ai' = [ai EXCEPT !.st = "amount", !.batch = {}]
  /\ Quiet

\* what is left and has an account code becomes GL-only
AiCodes ==
  /\ ai.st = "amount" /\ ai.live /\ ai.left = {}
  /\ ai' = [ai EXCEPT !.st = "codes", !.batch = NotUsed \cap HasCode]
  /\ Quiet

AiCode ==
  /\ ai.st = "codes" /\ ai.live
  /\ \E x \in ai.batch :
       \/ SingleMatch(x) /\ ApplyMatch({x})
          /\ ai' = [ai EXCEPT !.batch = ai.batch \ {x}, !.made = ai.made \cup {NewGroup({x}, {})}]
       \/ ai' = [ai EXCEPT !.batch = ai.batch \ {x}] /\ UNCHANGED <<atServer, nextId, groups, pool,
                                                                    picked>>
  /\ Stepping

Rested(p) == [p EXCEPT !.thinking = FALSE]

\* refreshGroups, and the finally: thinking ends if this page is still there
AiEnd ==
  /\ \/ ai.st = "codes" /\ ai.batch = {}
     \/ ai.st \in {"batch", "pairs", "amount", "codes"} /\ ~ ai.live
  /\ ai' = NoAi
  /\ IF ai.live THEN /\ groups' \in {atServer, groups}
                     /\ page' = Rested(page)
     ELSE UNCHANGED <<groups, page>>
  /\ UNCHANGED <<atServer, posted, pool, picked, loads, op, nextId, taps>>

-----------------------------------------------------------------------------
LoadStep == Load(TRUE) \/ Load(FALSE) \/ LoadRows \/ LoadGroups \/ LoadFailed \/ LeavePage \/ Select
MatchStep == Match \/ AutoPair \/ AutoDone \/ ManualPair \/ SingleDone \/ Refreshed \/ OpFailed
GroupStep == Cancel \/ CancelAnswered \/ Post \/ ApplyActions \/ UnmatchAnswered
AiRun == AiBatch \/ AiPair \/ AiBatchDone \/ AiFallback \/ AiAmount \/ AiTransfer
           \/ AiTransferDone \/ AiCodes \/ AiCode \/ AiEnd
DeskNext == LoadStep \/ MatchStep \/ GroupStep \/ AiStart \/ AiRun

\* every request is answered, or fails, in the end
DeskFair == WF_reconDesk(LoadRows \/ LoadGroups \/ LoadFailed) /\ WF_reconDesk(AiRun)
DeskSpec == DeskInit /\ [][DeskNext]_reconDesk /\ DeskFair
-----------------------------------------------------------------------------
\* AI Match never takes apart a pair it has just made itself: its fallbacks
\* leave the bank rows of its earlier pairs alone (usedBank in handleAIMatch).
AiKeepsOwnStep == ai' # ai => \A g \in atServer : g \in ai.made => g \in atServer'
AiKeepsOwn == [][AiKeepsOwnStep]_reconDesk

=============================================================================
