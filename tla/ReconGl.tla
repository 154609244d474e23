------------------------------- MODULE ReconGl -------------------------------
(***************************************************************************)
(* Bank reconciliation (services/reconciliation_service.py and the         *)
(* matching and housekeeping endpoints of api/reconciliation*.py) together *)
(* with the journals its groups own (module GlJournals).                   *)
(*                                                                         *)
(* The backend is one event loop and these endpoints never suspend, so     *)
(* requests do not interleave.  A matching request however commits several *)
(* times, and a crash or an error answer between two commits keeps the     *)
(* first: req holds the running request and each of its commits is a step. *)
(***************************************************************************)
EXTENDS GlJournals

Init ==
  /\ status = [t \in Txn |-> "absent"]
  /\ card = [g \in Group |-> "absent"]
  /\ members = [g \in Group |-> {}]
  /\ journal = [j \in Journal |-> NoRow]
  /\ req = NoRequest

-----------------------------------------------------------------------------
(* Leaving a group.                                                        *)

FreedForgotten(S) == status   \* mutant: the status stays MATCHED

Freed(S) ==
  [t \in Txn |-> IF t \in S /\ status[t] # "absent" THEN "unreconciled" ELSE status[t]]

(* remove_group_member decides on the match rows it can query: the session *)
(* has autoflush off, so the rows it has just deleted are still among them. *)
Dissolves(g) ==
  LET bs == members[g] \intersect Bank
      ls == members[g] \intersect Ledger
  IN  \/ members[g] = {}
      \/ card[g] # "ledgerOnly" /\ bs = {}
      \/ card[g] \in {"ledgerOnly", "paired"} /\ ls = {}

(* All members become unreconciled and the drafts go.  Deleting the drafts *)
(* commits, so a crash there keeps an empty group row.                     *)
DissolveRows(g, c) ==
  /\ NoPostedJournal(journal, g)
  /\ \/ c = "absent"
     \/ c = card[g] /\ "crash" \in Features /\ Drafts(journal, g) # {}
  /\ status' = Freed(members[g])
  /\ members' = [members EXCEPT ![g] = {}]
  /\ journal' = DeleteGroupDrafts(journal, g)
  /\ card' = [card EXCEPT ![g] = c]

RemoveRows(g, t) ==
  /\ NoPostedJournal(journal, g)
  /\ ~ Dissolves(g)
  /\ status' = Freed({t})
  /\ members' = [members EXCEPT ![g] = @ \ {t}]
  /\ journal' = RebuildPrimary(journal, g, members[g] \ {t})
  /\ card' = [card EXCEPT ![g] = IF @ = "glOnly" THEN "bankOnly" ELSE @]

RemoveGroupMember(g, t) ==
  \/ Dissolves(g) /\ DissolveRows(g, "absent")
  \/ RemoveRows(g, t)

(* POST group-unmatch-member; the client also sends an id the group does   *)
(* not have, to get rid of a group without match rows.                     *)
GroupUnmatchMember(g) ==
  /\ Idle
  /\ card[g] # "absent"
  /\ \/ \E t \in members[g] : RemoveGroupMember(g, t)
     \/ members[g] = {} /\ DissolveRows(g, "absent")
     \/ Dissolves(g) /\ DissolveRows(g, card[g])
  /\ UNCHANGED req

(* POST dissolve-group                                                     *)
DissolveGroup(g) ==
  /\ Idle
  /\ card[g] # "absent"
  /\ \E c \in {"absent", card[g]} : DissolveRows(g, c)
  /\ UNCHANGED req

-----------------------------------------------------------------------------
(* multi_manual_match: the chosen transactions first leave the groups they *)
(* are in, one commit each, bank side first; then the group is created,    *)
(* orphan drafts are pruned, stale ones rebuilt, module drafts dropped and *)
(* the draft of the new group created, again with a commit each.           *)

(* Bound: a request that creates a group starts only while the id pools     *)
(* have a group and a journal left for it.                                 *)
RoomForMatch ==
  (\E g \in Group : FreshGroup(g)) /\ (\E j \in Journal : FreshJournal(journal, j))

PairsOfBank(S) == {p \in Group \X (S \intersect Bank) : p[2] \in members[p[1]]}   \* mutant
Pairs(S) == {p \in Group \X S : p[2] \in members[p[1]]}

StartMultiMatch(A, B) ==
  /\ Idle /\ RoomForMatch
  /\ A # {} /\ B # {} /\ A \intersect B = {}
  /\ "sameMode" \in Features \/ (A \subseteq Bank /\ B \subseteq Ledger)
  /\ \A t \in A \union B : status[t] # "absent"
  /\ Mergeable(journal, (A \intersect Bank) \union (B \intersect Ledger))
  /\ req' = [pc |-> "bankSide", a |-> A, b |-> B,
             todo |-> Pairs(A \intersect Bank), g |-> NoGroup]
  /\ UNCHANGED <<rows, journal>>

Superseding == req.pc \in {"bankSide", "ledgerSide"}

Supersede ==
  /\ Superseding
  /\ \E p \in req.todo :
       /\ card[p[1]] # "absent"
       /\ RemoveGroupMember(p[1], p[2])
       /\ req' = [req EXCEPT !.todo = @ \ {p}]

NextSide ==
  /\ req.pc = "bankSide" /\ req.todo = {}
  /\ req' = [req EXCEPT !.pc = "ledgerSide", !.todo = Pairs(req.b \intersect Ledger)]
  /\ UNCHANGED <<rows, journal>>

CreateGroup(S, c, then) ==
  \E g \in Group :
    /\ FreshGroup(g)
    /\ status' = [t \in Txn |-> IF t \in S THEN "matched" ELSE status[t]]
    /\ members' = [members EXCEPT ![g] = S]
    /\ card' = [card EXCEPT ![g] = c]
    /\ req' = [NoRequest EXCEPT !.pc = then, !.g = g]
    /\ UNCHANGED journal

Matchable(A, B) == Size(A) = Size(B) /\ OneCurrency(A \union B)

CreateMatch ==
  /\ req.pc = "ledgerSide" /\ req.todo = {}
  /\ Matchable(req.a, req.b)
  /\ CreateGroup(req.a \union req.b, "paired", "prune")

(* The other three ways of matching create their group in the first commit *)
(* and share the end of the request.                                       *)

Open(S) == {t \in S : status[t] = "unreconciled"}

ClearBankTransactions(S) ==
  /\ Idle /\ RoomForMatch
  /\ S \subseteq Bank /\ Open(S) # {}
  /\ Mergeable(journal, S)
  /\ CreateGroup(Open(S), "bankOnly", "merge")

GlOnlyMatch(t) ==
  /\ Idle /\ RoomForMatch
  /\ t \in Bank /\ Open({t}) # {}
  /\ Mergeable(journal, {t})
  /\ CreateGroup({t}, "glOnly", "merge")

LedgerPendingMatch(S) ==
  /\ Idle /\ RoomForMatch
  /\ S \subseteq Ledger /\ S # {} /\ Open(S) = S
  /\ Mergeable(journal, S)
  /\ CreateGroup(S, "ledgerOnly", "merge")

Prune ==
  /\ req.pc = "prune"
  /\ journal' = PruneOrphans(journal, card)
  /\ req' = [req EXCEPT !.pc = "rebuild"]
  /\ UNCHANGED rows

Rebuild ==
  /\ req.pc = "rebuild"
  /\ journal' = RebuildStale(journal, members[req.g])
  /\ req' = [req EXCEPT !.pc = "merge"]
  /\ UNCHANGED rows

(* merge_module_drafts_into_group up to its commit.                        *)
MergeDrafts ==
  /\ req.pc = "merge"
  /\ OneCurrency(members[req.g])
  /\ Mergeable(journal, members[req.g])
  /\ journal' = DeleteModuleDrafts(journal, members[req.g])
  /\ req' = [req EXCEPT !.pc = "ensure"]
  /\ UNCHANGED rows

FinishMatch ==
  /\ req.pc = "ensure"
  /\ EnsureDraftForGroup(req.g)
  /\ req' = NoRequest
  /\ UNCHANGED rows

(* A ValueError ends the request; what it had committed stays.             *)
Rejected ==
  \/ Superseding /\ \E p \in req.todo :
       card[p[1]] = "absent" \/ ~ NoPostedJournal(journal, p[1])
  \/ req.pc = "ledgerSide" /\ req.todo = {} /\ ~ Matchable(req.a, req.b)
  \/ req.pc = "merge" /\ ~ (/\ OneCurrency(members[req.g])
                            /\ Mergeable(journal, members[req.g]))

RequestFails ==
  /\ Rejected
  /\ req' = NoRequest
  /\ UNCHANGED <<rows, journal>>

(* The process dies between two commits; the request is not resumed.       *)
Crash ==
  /\ "crash" \in Features
  /\ ~ Idle
  /\ req' = NoRequest
  /\ \/ UNCHANGED <<rows, journal>>
     \/ Superseding /\ \E p \in req.todo :
          /\ card[p[1]] # "absent" /\ Dissolves(p[1])
          /\ DissolveRows(p[1], card[p[1]])

-----------------------------------------------------------------------------
(* Books sync and housekeeping.                                            *)

(* bank-import, ledger-import: a row is inserted, or an open one updated;  *)
(* a second commit refreshes its module draft, and its failure is logged.  *)
ImportTxn(t) ==
  /\ Idle
  /\ t \in Books
  /\ FreshTxn(t) \/ status[t] = "unreconciled"
  /\ status' = [status EXCEPT ![t] = "unreconciled"]
  /\ RefreshModuleDraft(t) \/ UNCHANGED journal
  /\ UNCHANGED <<card, members, req>>

(* _purge_txn_ids: the module drafts and match rows of every given id are  *)
(* deleted, the transactions only when still open if onlyOpen; nothing is  *)
(* committed unless some transaction was deleted.  Orphan drafts go in a   *)
(* commit of their own, which a crash may skip.                            *)
PurgeTxns(S, onlyOpen) ==
  LET purged == IF onlyOpen THEN Open(S) ELSE {t \in S : status[t] # "absent"}
  IN  /\ Idle
      /\ purged # {}
      /\ status' = [t \in Txn |-> IF t \in purged THEN "absent" ELSE status[t]]
      /\ members' = [g \in Group |-> members[g] \ S]
      /\ LET kept == DeleteModuleDrafts(journal, S)
         IN  \/ journal' = PruneOrphans(kept, card)
             \/ journal' = kept /\ "crash" \in Features
      /\ UNCHANGED <<card, req>>

ClearUnreconciledPool == \E S \in {Bank, Ledger, Txn} : PurgeTxns(Open(S), TRUE)

PurgeUnreconciled(S) == "purgeByIds" \in Features /\ PurgeTxns(S, TRUE)

PurgeExceptKept(K) == "purgeExceptKept" \in Features /\ PurgeTxns(Txn \ K, FALSE)

(* DELETE reset: every group, match row and group draft of the company.    *)
ResetRecon ==
  /\ Idle
  /\ "reset" \in Features
  /\ status' = Freed(Txn)
  /\ card' = [g \in Group |-> "absent"]
  /\ members' = [g \in Group |-> {}]
  /\ journal' = PruneOrphans(journal, card')
  /\ UNCHANGED req

-----------------------------------------------------------------------------
MatchRequest ==
  \/ \E A, B \in SUBSET Txn : StartMultiMatch(A, B)
  \/ \E S \in SUBSET Bank : ClearBankTransactions(S)
  \/ \E t \in Bank : GlOnlyMatch(t)
  \/ \E S \in SUBSET Ledger : LedgerPendingMatch(S)

MatchStep ==
  \/ Supersede \/ NextSide \/ CreateMatch
  \/ Prune \/ Rebuild \/ MergeDrafts \/ FinishMatch
  \/ RequestFails \/ Crash

UnmatchRequest == \E g \in Group : GroupUnmatchMember(g) \/ DissolveGroup(g)

JournalRequest ==
  \/ \E g \in Group : EnsureDraft(g) \/ DeleteDraftByGroup(g)
  \/ \E j \in Journal :
       \/ CreateManual(j) \/ UpdateDraft(j) \/ PostJournal(j) \/ PostGlOnly(j)
       \/ UnpostJournal(j) \/ CreateReversal(j)

BooksRequest ==
  \/ \E t \in Txn : ImportTxn(t) \/ RecodeTxn(t)
  \/ ClearUnreconciledPool
  \/ \E S \in SUBSET Txn : PurgeUnreconciled(S) \/ PurgeExceptKept(S)
  \/ ResetRecon

Next == MatchRequest \/ MatchStep \/ UnmatchRequest \/ JournalRequest \/ BooksRequest

Spec == Init /\ [][Next]_vars

-----------------------------------------------------------------------------
(* Properties.                                                             *)

(* Every row has a legal shape, and a request past the commit that creates *)
(* its group names it.                                                     *)
RequestPc == {"idle", "bankSide", "ledgerSide", "prune", "rebuild", "merge", "ensure"}

RequestRow ==
  {r \in [pc   : RequestPc,
          a    : SUBSET Txn,
          b    : SUBSET Txn,
          todo : SUBSET (Group \X Txn),
          g    : Group \union {NoGroup}] :
     r.pc \in {"prune", "rebuild", "merge", "ensure"} => r.g \in Group}

TypeOK ==
  /\ status \in [Txn -> TxnStatus]
  /\ card \in [Group -> Cardinalities]
  /\ members \in [Group -> SUBSET Txn]
  /\ journal \in [Journal -> JournalRow]
  /\ req \in RequestRow

(* A transaction belongs to at most one group (comment at the head of the  *)
(* supersede loops of multi_manual_match).                                 *)
SoleOwner ==
  \A g, h \in Group : g # h => members[g] \intersect members[h] = {}

(* A transaction is MATCHED exactly when some group has a match row for    *)
(* it, after every commit of every request.                                *)
StatusAgrees ==
  \A t \in Txn : status[t] = "matched" <=> \E g \in Group : t \in members[g]

(* No transaction is booked by the match vouchers of two groups, posted or *)
(* draft (list_for_report adds both up).                                   *)
BookedOnce ==
  \A j, k \in Journal :
    /\ j # k
    /\ journal[j].source = "recon_match" /\ journal[k].source = "recon_match"
    => journal[j].txns \intersect journal[k].txns = {}

(* Once a match is posted its rows do not change until the voucher is      *)
(* unposted, whatever other match asks for its transactions.               *)
PostedGroupFrozen ==
  [][\A g \in Group : Posted(journal, g) # {} =>
       members'[g] = members[g] /\ card'[g] = card[g]]_vars

(* When no request is running, a transaction has its module draft or a     *)
(* match voucher, never both: matching collapses the former into the       *)
(* latter (merge_module_drafts_into_group).                                *)
ModuleDraftsCollapsed ==
  Idle => \A g \in Group : \A j \in PrimaryDrafts(journal, g) \union Posted(journal, g) :
            ModuleJournals(journal, journal[j].txns) = {}

(* A group has at most one draft, however often a draft is ensured, a      *)
(* voucher is reversed or a group rebuilt.                                 *)
OneDraftPerGroup ==
  \A j, k \in Journal :
    /\ journal[j].status = "draft" /\ journal[k].status = "draft"
    /\ journal[j].group = journal[k].group /\ journal[j].group \in Group
    => j = k

(* A voucher some live voucher reverses is posted, in the same group, and  *)
(* has no second reversal: no reversal is left dangling over a draft or a  *)
(* deleted original.                                                       *)
ReversedStaysPosted ==
  \A j \in Journal : journal[j].rev \in Journal =>
    /\ journal[journal[j].rev].status = "posted"
    /\ journal[journal[j].rev].group = journal[j].group

OneReversalPerVoucher ==
  \A j, k \in Journal :
    journal[j].rev \in Journal /\ journal[j].rev = journal[k].rev => j = k

(* A voucher books transactions of one currency (resolve_txns_currency),   *)
(* although a bank-only or ledger-only match of several currencies keeps   *)
(* its group row when its voucher is refused.                              *)
VoucherOneCurrency == \A j \in Journal : OneCurrency(journal[j].txns)

(* What remove_group_member's docstring promises: when a two-sided match   *)
(* loses its last bank or its last ledger member, it is dissolved.         *)
LosingASideDissolves ==
  [][\A g \in Group :
       /\ card[g] = "paired"
       /\ members'[g] # members[g]
       /\ members'[g] \intersect Bank = {} \/ members'[g] \intersect Ledger = {}
       => card'[g] = "absent"]_vars

(* The vouchers of every group form a stack with at most the top one open. *)
Stack == INSTANCE VoucherStack WITH
  depth <- [g \in Group |->
              Cardinality({j \in Journal : journal[j].group = g})],
  open <- {g \in Group : Drafts(journal, g) # {}}

VouchersFormStack == Stack!Spec

=============================================================================
