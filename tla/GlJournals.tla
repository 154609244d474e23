------------------------------ MODULE GlJournals ------------------------------
(***************************************************************************)
(* The general-ledger journals of one company, as kept by                  *)
(* services/gl_journal_service.py: vouchers that are drafted from matched  *)
(* transactions or typed by hand, edited while draft, posted, unposted and *)
(* reversed.  The matching engine (module ReconGl) calls the operators of  *)
(* this module; the journal endpoints are the actions at its end.          *)
(*                                                                         *)
(* Identifiers (uuids in the code) come from finite pools: an id is fresh  *)
(* when no live row uses or mentions it, so the pools bound how many rows  *)
(* may be live at once and nothing else.                                   *)
(***************************************************************************)
EXTENDS Integers, FiniteSets, FiniteSetsExt

CONSTANTS
  Bank,       \* ids of bank_transactions rows
  Ledger,     \* ids of ledger_transactions rows (AR and AP)
  Group,      \* ids of reconciliation_groups rows
  Journal,    \* ids of gl_journals rows
  NoGroup,    \* reconciliation_group_id IS NULL
  NoJournal,  \* reversal_of_journal_id IS NULL
  Amount,     \* signed booked amount of each transaction (debit positive)
  Currency,   \* normalised currency of each transaction
  Books,      \* the transactions the Books module may import
  Features    \* the parts of the API the clients of this instance use

Txn == Bank \union Ledger

AllFeatures == {"crash", "edits", "sameMode", "manual", "purgeByIds", "purgeExceptKept",
                "reset"}

ASSUME IdsAssumption ==
  /\ Bank \intersect Ledger = {}
  /\ NoGroup \notin Group
  /\ NoJournal \notin Journal

ASSUME DataAssumption ==
  /\ Amount \in [Txn -> Int]
  /\ Books \subseteq Txn
  /\ Features \subseteq AllFeatures

VARIABLES
  status,   \* status of each transaction row, "absent" when there is no row
  card,     \* match_cardinality of each group row, "absent" when there is none
  members,  \* the transactions its reconciliation_matches rows name
  journal,  \* the journal rows with what their lines refer to
  req       \* the matching request the event loop is running, if any

vars == <<status, card, members, journal, req>>

-----------------------------------------------------------------------------
(* Rows.  Cardinality keeps the classes the code branches on: "N:0" is     *)
(* bankOnly, "GL:1" is glOnly, "0:N" is ledgerOnly, the two-sided ones     *)
(* ("1:1", "1:N", "N:1", "N:N") are paired.                                *)

TxnStatus == {"absent", "unreconciled", "matched"}
Cardinalities == {"absent", "bankOnly", "glOnly", "ledgerOnly", "paired"}
Source == {"none", "recon_match", "module_approve", "manual", "recon_unmatch"}

(* What the debits and credits of the lines add up to.  "placeholder" is   *)
(* even thanks to the suspense line the builder adds, with that suspense   *)
(* code as balancing account; "unselected" is the same line after the user *)
(* cleared the balancing account; "empty" has no lines.                    *)
Balance == {"empty", "even", "placeholder", "unselected", "uneven"}

JournalRow ==
  [status : {"absent", "draft", "posted"},
   group  : Group \union {NoGroup},
   rev    : Journal \union {NoJournal},
   source : Source,
   txns   : SUBSET Txn,
   bal    : Balance]

NoRow == [status |-> "absent", group |-> NoGroup, rev |-> NoJournal,
          source |-> "none", txns |-> {}, bal |-> "empty"]

NoRequest == [pc |-> "idle", a |-> {}, b |-> {}, todo |-> {}, g |-> NoGroup]
Idle == req = NoRequest

-----------------------------------------------------------------------------
(* Queries over a journal table jn.                                        *)

Drafts(jn, g) == {j \in Journal : jn[j].status = "draft" /\ jn[j].group = g}
PrimaryDrafts(jn, g) == {j \in Drafts(jn, g) : jn[j].rev = NoJournal}
Posted(jn, g) == {j \in Journal : jn[j].status = "posted" /\ jn[j].group = g}
Reversals(jn, j) == {k \in Journal : jn[k].status # "absent" /\ jn[k].rev = j}
ModuleJournals(jn, S) ==
  {j \in Journal : /\ jn[j].status # "absent"
                   /\ jn[j].source = "module_approve"
                   /\ jn[j].txns \intersect S # {}}

(* assert_module_journals_mergeable, assert_group_has_no_posted_journal    *)
Mergeable(jn, S) == \A j \in ModuleJournals(jn, S) : jn[j].status # "posted"
PostedIgnored(jn, g) == TRUE   \* mutant
NoPostedJournal(jn, g) == Posted(jn, g) = {}

FreshJournal(jn, j) == jn[j].status = "absent" /\ Reversals(jn, j) = {}
FreshGroup(g) == card[g] = "absent" /\ \A j \in Journal : journal[j].group # g
FreshTxn(t) ==
  /\ status[t] = "absent"
  /\ \A g \in Group : t \notin members[g]
  /\ \A j \in Journal : t \notin journal[j].txns

OneCurrency(S) == \A s, t \in S : Currency[s] = Currency[t]

-----------------------------------------------------------------------------
(* Lines.  A group that has both sides clears the ledger side against the  *)
(* sign of the bank net, with magnitudes; a one-sided group books each     *)
(* transaction with its own sign.                                          *)

Abs(n) == IF n < 0 THEN -n ELSE n
Net(S) == MapThenSumSet(LAMBDA t : Amount[t], S)
Size(S) == MapThenSumSet(LAMBDA t : Abs(Amount[t]), S)

LinesEven(S) ==
  LET bs == S \intersect Bank
      ls == S \intersect Ledger
  IN  \/ bs # {} /\ ls # {} /\ Abs(Net(bs)) = Size(ls)
      \/ (bs = {} \/ ls = {}) /\ Net(S) = 0

BuiltBalance(S) ==
  IF S = {} THEN "empty" ELSE IF LinesEven(S) THEN "even" ELSE "placeholder"

Rebuilt(row, S) == [row EXCEPT !.txns = S, !.bal = BuiltBalance(S)]

NewDraft(g, source, S) ==
  [status |-> "draft", group |-> g, rev |-> NoJournal, source |-> source,
   txns |-> S, bal |-> BuiltBalance(S)]

-----------------------------------------------------------------------------
(* Table transformers the matching engine and the endpoints call.          *)

DropRows(jn, S) == [j \in Journal |-> IF j \in S THEN NoRow ELSE jn[j]]

(* prune_extra_drafts_for_group: keep one draft (the newest) of a group.   *)
Pruned(jn, g) ==
  LET ds == Drafts(jn, g)
  IN  IF \E d, e \in ds : d # e
      THEN DropRows(jn, ds \ {CHOOSE d \in ds : TRUE})
      ELSE jn

(* rebuild_primary_draft_for_group, on the rows of ds.                     *)
RebuildRows(jn, ds, S) ==
  [j \in Journal |-> IF j \in ds THEN Rebuilt(jn[j], S) ELSE jn[j]]

RebuildPrimary(jn, g, S) ==
  LET p == Pruned(jn, g) IN RebuildRows(p, PrimaryDrafts(p, g), S)

DropGroupVouchers(jn, g) ==   \* mutant: not only the drafts
  DropRows(jn, {j \in Journal : jn[j].group = g})
KeepGroupDrafts(jn, g) == jn   \* mutant: dissolving keeps the drafts

DeleteGroupDrafts(jn, g) == DropRows(jn, Drafts(jn, g))

KeepModuleDrafts(jn, S) == jn   \* mutant

DeleteModuleDrafts(jn, S) ==
  DropRows(jn, {j \in ModuleJournals(jn, S) : jn[j].status = "draft"})

(* prune_orphan_recon_draft_journals, for the group table c.               *)
PruneOrphans(jn, c) ==
  DropRows(jn, {j \in Journal : /\ jn[j].status = "draft"
                                /\ jn[j].group \in Group
                                /\ c[jn[j].group] = "absent"})

(* _primary_draft_stale_for_group: lines outside the group, or no lines    *)
(* although the group has members, or a GL:1 draft that lost its cash line. *)
Stale(row, g) ==
  \/ ~ row.txns \subseteq members[g]
  \/ row.bal = "empty" /\ members[g] # {}
  \/ card[g] = "glOnly" /\ members[g] # {} /\ row.txns \intersect Bank = {}

RefreshPrimary(jn, g) ==
  LET p == Pruned(jn, g)
  IN  RebuildRows(p, {j \in PrimaryDrafts(p, g) : Stale(p[j], g)}, members[g])

(* rebuild_drafts_with_stale_gl_txn_refs: the groups whose primary draft   *)
(* still books a transaction of S that is no member of theirs.             *)
RebuildStale(jn, S) ==
  LET dirty == {g \in Group : /\ card[g] # "absent"
                              /\ \E j \in PrimaryDrafts(jn, g) :
                                   (jn[j].txns \intersect S) \ members[g] # {}}
  IN  [j \in Journal |->
         IF \E g \in dirty : j \in PrimaryDrafts(jn, g)
         THEN Rebuilt(jn[j], members[jn[j].group])
         ELSE jn[j]]

-----------------------------------------------------------------------------
(* Journal endpoints.  Each is one request, atomic on the event loop, and  *)
(* needs Idle.  A request the code answers with an error changes nothing   *)
(* here: the session rolls back.                                           *)

rows == <<status, card, members>>

(* Mutants: an existing draft is overlooked; the currencies are not compared. *)
EnsureIgnoresDrafts(g) ==
  /\ Posted(journal, g) = {}
  /\ OneCurrency(members[g])
  /\ \E j \in Journal :
       /\ FreshJournal(journal, j)
       /\ journal' = [journal EXCEPT ![j] = NewDraft(g, "recon_match", members[g])]

EnsureAnyCurrency(g) ==
  IF Drafts(journal, g) \union Posted(journal, g) # {} THEN journal' = journal
  ELSE \E j \in Journal :
         /\ FreshJournal(journal, j)
         /\ journal' = [journal EXCEPT ![j] = NewDraft(g, "recon_match", members[g])]

(* ensure_draft_for_group (also what GET gl/by-group does to an existing   *)
(* draft): a draft is refreshed when stale and returned, else a posted     *)
(* voucher is returned, else the draft is created from the match rows.     *)
EnsureDraftForGroup(g) ==
  LET jn == Pruned(journal, g)
  IN  \/ /\ Drafts(jn, g) # {}
         /\ journal' = RefreshPrimary(journal, g)
      \/ /\ Drafts(jn, g) = {}
         /\ Posted(jn, g) # {}
         /\ journal' = journal
      \/ /\ Drafts(jn, g) \union Posted(jn, g) = {}
         /\ OneCurrency(members[g])
         /\ \E j \in Journal :
              /\ FreshJournal(journal, j)
              /\ journal' = [journal EXCEPT
                               ![j] = NewDraft(g, "recon_match", members[g])]

EnsureDraft(g) ==
  /\ Idle
  /\ card[g] # "absent"
  /\ EnsureDraftForGroup(g)
  /\ UNCHANGED <<rows, req>>

(* rebuild_module_approve_draft_for_txn, then ensure_draft_for_txn when    *)
(* there was nothing to rebuild.                                           *)
RefreshModuleDraft(t) ==
  LET ds == {j \in ModuleJournals(journal, {t}) :
               journal[j].status = "draft" /\ journal[j].group = NoGroup}
  IN  \/ \E j \in ds : journal' = [journal EXCEPT ![j] = Rebuilt(@, {t})]
      \/ /\ ModuleJournals(journal, {t}) = {}
         /\ \E j \in Journal :
              /\ FreshJournal(journal, j)
              /\ journal' = [journal EXCEPT
                               ![j] = NewDraft(NoGroup, "module_approve", {t})]

(* create_manual_journal: balanced, no transaction behind its lines.       *)
CreateManual(j) ==
  /\ Idle
  /\ "manual" \in Features
  /\ FreshJournal(journal, j)
  /\ journal' = [journal EXCEPT
                   ![j] = [NewDraft(NoGroup, "manual", {}) EXCEPT !.bal = "even"]]
  /\ UNCHANGED <<rows, req>>

(* update_draft: lines may be dropped, amounts changed, lines added, the   *)
(* balancing account chosen (the suspense line takes it) or cleared.       *)
EditedBalances(row, S) ==
  {"even", "uneven"}
    \union (IF S = {} THEN {"empty"} ELSE {})
    \union (IF row.bal \in {"placeholder", "unselected"}
            THEN {"placeholder", "unselected"} ELSE {})

UpdateDraft(j) ==
  /\ Idle
  /\ "edits" \in Features
  /\ journal[j].status = "draft"
  /\ \E S \in SUBSET journal[j].txns : \E b \in EditedBalances(journal[j], S) :
       journal' = [journal EXCEPT ![j].txns = S, ![j].bal = b]
  /\ UNCHANGED <<rows, req>>

(* account-category-bulk and ledger-doc-type-bulk of one transaction:      *)
(* refused when a posted primary voucher of its group, or a posted module  *)
(* voucher, locks it; otherwise every primary draft that books it, and its *)
(* module draft, are rebuilt.                                              *)
LockedByPostedGl(t) ==
  \/ \E g \in Group : /\ t \in members[g]
                      /\ \E j \in Posted(journal, g) : journal[j].rev = NoJournal
  \/ ~ Mergeable(journal, {t})

RecodeTxn(t) ==
  /\ Idle
  /\ status[t] # "absent"
  /\ ~ LockedByPostedGl(t)
  /\ journal' = [j \in Journal |->
       IF journal[j].status # "draft" THEN journal[j]
       ELSE IF j \in ModuleJournals(journal, {t}) THEN Rebuilt(journal[j], {t})
       ELSE IF \E g \in Group : t \in members[g] /\ j \in PrimaryDrafts(journal, g)
       THEN Rebuilt(journal[j], members[journal[j].group])
       ELSE journal[j]]
  /\ UNCHANGED <<rows, req>>

(* _post_allowed and the balance checks of post_journal.                   *)
PostAllowed(row) == row.source = "manual" \/ row.group # NoGroup
Postable(row) == row.bal \in {"even", "placeholder", "empty"}

PostRow(j, row) == journal' = [journal EXCEPT ![j] = [row EXCEPT !.status = "posted"]]

PostJournal(j) ==
  /\ Idle
  /\ journal[j].status = "draft"
  /\ PostAllowed(journal[j])
  /\ journal[j].group \notin {g \in Group : card[g] = "glOnly"}
  /\ Postable(journal[j])
  /\ PostRow(j, journal[j])
  /\ UNCHANGED <<rows, req>>

(* finalize_gl_only_before_post: the voucher of a GL:1 group gets its      *)
(* counterpart row before it is posted.  A bank or cash offset creates a   *)
(* bank row of the opposite amount and rebuilds both lines; any other      *)
(* offset creates a ledger row, which takes over the suspense line or, if  *)
(* the user removed that line, is booked opposite the cash line.           *)
WithLedgerCounterpart(row, b, c) ==
  IF row.bal \in {"placeholder", "unselected"} \/ (row.bal = "uneven" /\ b \in row.txns)
  THEN {[row EXCEPT !.txns = @ \union {c}, !.bal = "even"]}
  ELSE IF row.bal \in {"even", "empty"} /\ b \notin row.txns THEN {row} ELSE {}

PostGlOnly(j) ==
  LET g == journal[j].group
  IN  /\ Idle
      /\ journal[j].status = "draft"
      /\ g \in Group
      /\ card[g] = "glOnly"
      /\ \E b \in Bank, c \in Txn :
           /\ members[g] \intersect Bank = {b}
           /\ FreshTxn(c) /\ Currency[c] = Currency[b]
           /\ \/ /\ c \in Bank /\ Amount[c] = -Amount[b]
                 /\ PostRow(j, [journal[j] EXCEPT !.txns = {b, c}, !.bal = "even"])
              \/ /\ c \in Ledger /\ Abs(Amount[c]) = Abs(Amount[b])
                 /\ \E row \in WithLedgerCounterpart(journal[j], b, c) : PostRow(j, row)
           /\ status' = [status EXCEPT ![c] = "matched"]
           /\ members' = [members EXCEPT ![g] = @ \union {c}]
      /\ card' = [card EXCEPT ![g] = "paired"]
      /\ UNCHANGED req

(* unpost_journal_to_draft: refused while any journal reverses this one.   *)
UnpostReversed(j) ==   \* mutant: reversals are not looked for
  /\ Idle
  /\ journal[j].status = "posted"
  /\ journal' = [journal EXCEPT ![j].status = "draft"]
  /\ UNCHANGED <<rows, req>>

UnpostJournal(j) ==
  /\ Idle
  /\ journal[j].status = "posted"
  /\ Reversals(journal, j) = {}
  /\ journal' = [journal EXCEPT ![j].status = "draft"]
  /\ UNCHANGED <<rows, req>>

(* create_reversal_draft: one posted reversal per voucher, and an existing *)
(* draft reversal is returned instead of a second one.                     *)
ReversalOf(j) ==
  [status |-> "draft", group |-> journal[j].group, rev |-> j,
   source |-> "recon_unmatch", txns |-> journal[j].txns,
   bal |-> IF journal[j].bal = "empty" THEN "empty" ELSE "even"]

CreateReversal(j) ==
  /\ Idle
  /\ journal[j].status = "posted"
  /\ Reversals(journal, j) = {}
  /\ \E k \in Journal : /\ FreshJournal(journal, k)
                        /\ journal' = [journal EXCEPT ![k] = ReversalOf(j)]
  /\ UNCHANGED <<rows, req>>

(* DELETE gl/draft-by-group                                                *)
DeleteDraftByGroup(g) ==
  /\ Idle
  /\ Drafts(journal, g) # {}
  /\ journal' = DeleteGroupDrafts(journal, g)
  /\ UNCHANGED <<rows, req>>

=============================================================================
