--------------------------- MODULE ReconGl_proofs ---------------------------
(***************************************************************************)
(* Theorems about ReconGl, for every value of its constants.               *)
(***************************************************************************)
EXTENDS ReconGl, FiniteSetTheorems, TLAPS

JournalTable == [Journal -> JournalRow]

-----------------------------------------------------------------------------
(* Typing of the table transformers.                                       *)

(* The blank row is a journal row.                                         *)
LEMMA NoRowType == NoRow \in JournalRow
BY DEF NoRow, JournalRow, Source, Balance

(* Rebuilding a row keeps its place and status.                            *)
LEMMA RebuiltType ==
  ASSUME NEW row \in JournalRow, NEW S \in SUBSET Txn
  PROVE  /\ Rebuilt(row, S) \in JournalRow
         /\ Rebuilt(row, S).status = row.status
         /\ Rebuilt(row, S).group = row.group
         /\ Rebuilt(row, S).rev = row.rev
         /\ Rebuilt(row, S).source = row.source
<1>1. BuiltBalance(S) \in Balance
  BY DEF BuiltBalance, Balance
<1>2. QED
  BY <1>1 DEF Rebuilt, JournalRow

(* A new draft belongs to the group it is made for and reverses nothing.   *)
LEMMA NewDraftType ==
  ASSUME NEW g \in Group \union {NoGroup}, NEW source \in Source,
         NEW S \in SUBSET Txn
  PROVE  /\ NewDraft(g, source, S) \in JournalRow
         /\ NewDraft(g, source, S).status = "draft"
         /\ NewDraft(g, source, S).group = g
         /\ NewDraft(g, source, S).rev = NoJournal
         /\ NewDraft(g, source, S).source = source
<1>1. BuiltBalance(S) \in Balance
  BY DEF BuiltBalance, Balance
<1>2. QED
  BY <1>1 DEF NewDraft, JournalRow

(* What a transformer that only deletes drafts and rewrites lines does.    *)
Shrinks(jn, jm) ==
  \A j \in Journal :
    \/ /\ jn[j].status # "posted"
       /\ jm[j].status = "absent"
       /\ jm[j].group = NoGroup
       /\ jm[j].rev = NoJournal
       /\ jm[j].source = "none"
    \/ /\ jm[j].status = jn[j].status
       /\ jm[j].group = jn[j].group
       /\ jm[j].rev = jn[j].rev
       /\ jm[j].source = jn[j].source

(* Deleting drafts.                                                        *)
LEMMA DropRowsShrinks ==
  ASSUME NEW jn \in JournalTable, NEW S,
         \A j \in S : jn[j].status = "draft"
  PROVE  DropRows(jn, S) \in JournalTable /\ Shrinks(jn, DropRows(jn, S))
BY NoRowType DEF DropRows, Shrinks, JournalTable, NoRow

(* Rewriting the lines of some drafts.                                     *)
LEMMA RebuildRowsShrinks ==
  ASSUME NEW jn \in JournalTable, NEW ds, NEW S \in SUBSET Txn
  PROVE  RebuildRows(jn, ds, S) \in JournalTable /\ Shrinks(jn, RebuildRows(jn, ds, S))
BY RebuiltType DEF RebuildRows, Shrinks, JournalTable

(* rebuild_drafts_with_stale_gl_txn_refs rewrites lines only.              *)
LEMMA RebuildStaleShrinks ==
  ASSUME NEW jn \in JournalTable, NEW S, members \in [Group -> SUBSET Txn]
  PROVE  RebuildStale(jn, S) \in JournalTable /\ Shrinks(jn, RebuildStale(jn, S))
<1> DEFINE dirty == {g \in Group : /\ card[g] # "absent"
                                   /\ \E j \in PrimaryDrafts(jn, g) :
                                        (jn[j].txns \intersect S) \ members[g] # {}}
           hit(j) == \E g \in dirty : j \in PrimaryDrafts(jn, g)
<1>1. RebuildStale(jn, S) =
        [j \in Journal |-> IF hit(j) THEN Rebuilt(jn[j], members[jn[j].group]) ELSE jn[j]]
  BY DEF RebuildStale
<1>2. \A j \in Journal : hit(j) => members[jn[j].group] \in SUBSET Txn
  BY DEF PrimaryDrafts, Drafts
<1> HIDE DEF hit
<1>3. QED
  BY <1>1, <1>2, RebuiltType DEF Shrinks, JournalTable

-----------------------------------------------------------------------------
(* The order of the vouchers of a group.  A tip is a live voucher that no  *)
(* live voucher reverses; Chained says that reversals hang on posted       *)
(* vouchers of the same group, one each, and that a group has one tip.     *)

IsTip(jn, j) == jn[j].status # "absent" /\ Reversals(jn, j) = {}

Chained(jn) ==
  /\ \A j \in Journal : jn[j].status = "absent" =>
       jn[j].rev = NoJournal /\ jn[j].group = NoGroup /\ jn[j].source = "none"
  /\ \A j \in Journal : jn[j].rev \in Journal =>
       jn[jn[j].rev].status = "posted" /\ jn[jn[j].rev].group = jn[j].group
  /\ \A j, k \in Journal : jn[j].rev \in Journal /\ jn[j].rev = jn[k].rev => j = k
  /\ \A j, k \in Journal :
       /\ jn[j].group \in Group /\ jn[j].group = jn[k].group
       /\ IsTip(jn, j) /\ IsTip(jn, k)
       => j = k

(* Drafts are tips, so a group has at most one: there is never an extra    *)
(* draft for prune_extra_drafts_for_group to delete.                       *)
LEMMA DraftIsTip ==
  ASSUME NEW jn \in JournalTable, Chained(jn), NEW j \in Journal,
         jn[j].status = "draft"
  PROVE  IsTip(jn, j)
BY DEF Chained, IsTip, Reversals

(* Two drafts of one group are the same draft.                             *)
LEMMA OneDraft ==
  ASSUME NEW jn \in JournalTable, Chained(jn), NEW j \in Journal, NEW k \in Journal,
         jn[j].status = "draft", jn[k].status = "draft",
         jn[j].group \in Group, jn[j].group = jn[k].group
  PROVE  j = k
<1>1. IsTip(jn, j) /\ IsTip(jn, k)
  BY DraftIsTip
<1>2. QED
  BY <1>1 DEF Chained

(* prune_extra_drafts_for_group changes nothing on a chained table.        *)
LEMMA PrunedIsIdentity ==
  ASSUME NEW jn \in JournalTable, Chained(jn), NEW g \in Group
  PROVE  Pruned(jn, g) = jn
<1>1. \A d, e \in Drafts(jn, g) : d = e
  BY OneDraft DEF Drafts
<1>2. QED
  BY <1>1 DEF Pruned

(* Deleting drafts and rewriting lines keeps the order: the voucher a      *)
(* deleted draft reversed becomes the tip in its place.                    *)
LEMMA ShrinkChained ==
  ASSUME NEW jn \in JournalTable, NEW jm \in JournalTable, Chained(jn), Shrinks(jn, jm)
  PROVE  Chained(jm)
<1> DEFINE Kept(j) == jm[j].status # "absent"
<1>1. ASSUME NEW j \in Journal, jm[j].rev \in Journal
      PROVE  /\ jn[j].rev = jm[j].rev /\ jn[j].group = jm[j].group
             /\ jm[jm[j].rev].status = "posted"
             /\ jm[jm[j].rev].group = jm[j].group
  BY <1>1, IdsAssumption DEF Chained, Shrinks
<1>2. \A j \in Journal : jm[j].status = "absent" =>
        jm[j].rev = NoJournal /\ jm[j].group = NoGroup /\ jm[j].source = "none"
  BY DEF Chained, Shrinks
<1>3. \A j, k \in Journal : jm[j].rev \in Journal /\ jm[j].rev = jm[k].rev => j = k
  BY <1>1 DEF Chained
<1>4. ASSUME NEW j \in Journal, NEW k \in Journal,
             jm[j].group \in Group, jm[j].group = jm[k].group,
             IsTip(jm, j), IsTip(jm, k)
      PROVE  j = k
  <2>1. ASSUME NEW i \in Journal, IsTip(jm, i), jm[i].group = jm[j].group
        PROVE  \E d \in Journal : /\ IsTip(jn, d) /\ jn[d].group = jm[j].group
                                  /\ d = i \/ (jn[d].rev = i /\ jm[d].status = "absent")
    <3>1. jn[i].status # "absent" /\ jn[i].group = jm[j].group
      BY <1>4, <2>1, IdsAssumption DEF IsTip, Shrinks, Chained
    <3>2. CASE Reversals(jn, i) = {}
      <4>1. IsTip(jn, i)
        BY <3>1, <3>2 DEF IsTip
      <4>2. QED
        BY <3>1, <4>1
    <3>3. CASE Reversals(jn, i) # {}
      <4>1. PICK d \in Journal : jn[d].status # "absent" /\ jn[d].rev = i
        BY <3>3 DEF Reversals
      <4>2. ~ (jm[d].status # "absent" /\ jm[d].rev = i)
        BY <2>1 DEF IsTip, Reversals
      <4>3. jm[d].status = "absent" /\ jn[d].status # "posted"
        BY <4>1, <4>2 DEF Shrinks
      <4>4. Reversals(jn, d) = {}
        BY <4>3 DEF Chained, Reversals
      <4>5. jn[d].group = jm[j].group
        BY <3>1, <4>1 DEF Chained
      <4>6. IsTip(jn, d)
        BY <4>1, <4>4 DEF IsTip
      <4>7. QED
        BY <4>1, <4>3, <4>5, <4>6
    <3>4. QED
      BY <3>2, <3>3
  <2>2. PICK d \in Journal : /\ IsTip(jn, d) /\ jn[d].group = jm[j].group
                             /\ d = j \/ (jn[d].rev = j /\ jm[d].status = "absent")
    BY <1>4, <2>1
  <2>3. PICK e \in Journal : /\ IsTip(jn, e) /\ jn[e].group = jm[j].group
                             /\ e = k \/ (jn[e].rev = k /\ jm[e].status = "absent")
    BY <1>4, <2>1
  <2>4. d = e
    BY <1>4, <2>2, <2>3 DEF Chained
  <2>5. QED
    BY <1>4, <2>2, <2>3, <2>4 DEF IsTip
<1>5. QED
  BY <1>1, <1>2, <1>3, <1>4 DEF Chained

(* A new voucher that reverses nothing keeps the order when its group has  *)
(* no voucher yet.                                                         *)
LEMMA AddChained ==
  ASSUME NEW jn \in JournalTable, Chained(jn), NEW k \in Journal, NEW row \in JournalRow,
         FreshJournal(jn, k),
         row.status = "draft", row.rev = NoJournal,
         row.group \in Group => \A j \in Journal : jn[j].group # row.group
  PROVE  [jn EXCEPT ![k] = row] \in JournalTable /\ Chained([jn EXCEPT ![k] = row])
<1> DEFINE jm == [jn EXCEPT ![k] = row]
<1>1. /\ jm \in JournalTable
      /\ jm[k] = row
      /\ \A j \in Journal : j # k => jm[j] = jn[j]
  BY DEF JournalTable
<1>2. \A j \in Journal : jn[j].rev # k
  BY IdsAssumption DEF FreshJournal, Reversals, Chained
<1>3. \A j \in Journal : j # k /\ IsTip(jm, j) => IsTip(jn, j)
  BY <1>1, IdsAssumption DEF IsTip, Reversals, FreshJournal
<1> HIDE DEF jm
<1>4. Chained(jm)
  <2>1. \A j \in Journal : jm[j].rev \in Journal => j # k /\ jm[j].rev # k
    BY <1>1, <1>2, IdsAssumption
  <2>2. \A j, i \in Journal :
          /\ jm[j].group \in Group /\ jm[j].group = jm[i].group
          /\ IsTip(jm, j) /\ IsTip(jm, i)
          => j = i
    BY <1>1, <1>3 DEF Chained
  <2>3. QED
    BY <1>1, <2>1, <2>2 DEF Chained
<1>5. QED
  BY <1>1, <1>4 DEF jm

(* A reversal of a posted tip becomes the tip of its group.                *)
LEMMA ReverseChained ==
  ASSUME NEW jn \in JournalTable, Chained(jn), NEW k \in Journal, NEW j \in Journal,
         NEW row \in JournalRow,
         FreshJournal(jn, k), jn[j].status = "posted", Reversals(jn, j) = {},
         row.status = "draft", row.rev = j, row.group = jn[j].group
  PROVE  [jn EXCEPT ![k] = row] \in JournalTable /\ Chained([jn EXCEPT ![k] = row])
<1> DEFINE jm == [jn EXCEPT ![k] = row]
<1>1. /\ jm \in JournalTable
      /\ jm[k] = row
      /\ \A i \in Journal : i # k => jm[i] = jn[i]
      /\ j # k
  BY DEF JournalTable, FreshJournal
<1>2. \A i \in Journal : jn[i].rev # k
  BY IdsAssumption DEF FreshJournal, Reversals, Chained
<1>3. \A i \in Journal : jn[i].rev # j
  BY IdsAssumption DEF Reversals, Chained
<1>4. ~ IsTip(jm, j)
  BY <1>1 DEF IsTip, Reversals
<1>5. IsTip(jn, j)
  BY DEF IsTip
<1>6. \A i \in Journal : i # k /\ IsTip(jm, i) => IsTip(jn, i)
  BY <1>1, IdsAssumption DEF IsTip, Reversals, FreshJournal
<1> HIDE DEF jm
<1>7. Chained(jm)
  <2>1. \A i \in Journal : jm[i].rev \in Journal => jm[i].rev # k
    BY <1>1, <1>2
  <2>2. \A i, h \in Journal : jm[i].rev \in Journal /\ jm[i].rev = jm[h].rev => i = h
    BY <1>1, <1>3 DEF Chained
  <2>3. \A i, h \in Journal :
          /\ jm[i].group \in Group /\ jm[i].group = jm[h].group
          /\ IsTip(jm, i) /\ IsTip(jm, h)
          => i = h
    BY <1>1, <1>4, <1>5, <1>6 DEF Chained
  <2>4. QED
    BY <1>1, <2>1, <2>2, <2>3 DEF Chained
<1>8. QED
  BY <1>1, <1>7 DEF jm

(* Posting a draft, and unposting a voucher nothing reverses.              *)
LEMMA RestatusChained ==
  ASSUME NEW jn \in JournalTable, Chained(jn), NEW j \in Journal, NEW row \in JournalRow,
         jn[j].status # "absent", row.status # "absent",
         row.status = "posted" \/ Reversals(jn, j) = {},
         row.rev = jn[j].rev, row.group = jn[j].group
  PROVE  [jn EXCEPT ![j] = row] \in JournalTable /\ Chained([jn EXCEPT ![j] = row])
<1> DEFINE jm == [jn EXCEPT ![j] = row]
<1>1. /\ jm \in JournalTable
      /\ jm[j] = row
      /\ \A i \in Journal : i # j => jm[i] = jn[i]
  BY DEF JournalTable
<1>2. \A i \in Journal : /\ jm[i].rev = jn[i].rev /\ jm[i].group = jn[i].group
                         /\ jm[i].status = "absent" <=> jn[i].status = "absent"
  BY <1>1
<1>3. \A i \in Journal : IsTip(jm, i) => IsTip(jn, i)
  BY <1>2 DEF IsTip, Reversals
<1>4. \A i \in Journal : jn[i].rev = j => row.status = "posted"
  BY IdsAssumption DEF Reversals, Chained
<1> HIDE DEF jm
<1>5. Chained(jm)
  <2>1. \A i \in Journal : jm[i].rev \in Journal =>
          jm[jm[i].rev].status = "posted" /\ jm[jm[i].rev].group = jm[i].group
    BY <1>1, <1>2, <1>4 DEF Chained
  <2>2. QED
    BY <1>1, <1>2, <1>3, <2>1 DEF Chained
<1>6. QED
  BY <1>1, <1>5 DEF jm

-----------------------------------------------------------------------------
(* What the endpoints do to the journal table, by the lemmas above.        *)

Good(jn) == jn \in JournalTable /\ Chained(jn)

(* rebuild_primary_draft_for_group keeps a good table good.                *)
LEMMA RebuildPrimaryGood ==
  ASSUME NEW jn, Good(jn), NEW g \in Group, NEW S \in SUBSET Txn
  PROVE  Good(RebuildPrimary(jn, g, S))
BY PrunedIsIdentity, RebuildRowsShrinks, ShrinkChained DEF Good, RebuildPrimary

(* So does the refresh of a stale primary draft.                           *)
LEMMA RefreshPrimaryGood ==
  ASSUME NEW jn, Good(jn), NEW g \in Group, members \in [Group -> SUBSET Txn]
  PROVE  Good(RefreshPrimary(jn, g))
<1>1. members[g] \in SUBSET Txn
  OBVIOUS
<1>2. QED
  BY <1>1, PrunedIsIdentity, RebuildRowsShrinks, ShrinkChained DEF Good, RefreshPrimary

(* Deleting a set of drafts keeps a good table good.                       *)
LEMMA DropRowsGood ==
  ASSUME NEW jn, Good(jn), NEW S, \A j \in S : jn[j].status = "draft"
  PROVE  Good(DropRows(jn, S))
BY DropRowsShrinks, ShrinkChained DEF Good

(* The three deletions of the service delete drafts only.                  *)
LEMMA DeletionsGood ==
  ASSUME NEW jn, Good(jn)
  PROVE  /\ \A g \in Group : Good(DeleteGroupDrafts(jn, g))
         /\ \A S : Good(DeleteModuleDrafts(jn, S))
         /\ \A c : Good(PruneOrphans(jn, c))
<1>1. \A g \in Group : Good(DeleteGroupDrafts(jn, g))
  BY DropRowsGood DEF DeleteGroupDrafts, Drafts
<1>2. \A S : Good(DeleteModuleDrafts(jn, S))
  BY DropRowsGood DEF DeleteModuleDrafts
<1>3. \A c : Good(PruneOrphans(jn, c))
  BY DropRowsGood DEF PruneOrphans
<1>4. QED
  BY <1>1, <1>2, <1>3

(* rebuild_drafts_with_stale_gl_txn_refs keeps a good table good.          *)
LEMMA RebuildStaleGood ==
  ASSUME NEW jn, Good(jn), NEW S, members \in [Group -> SUBSET Txn]
  PROVE  Good(RebuildStale(jn, S))
BY RebuildStaleShrinks, ShrinkChained DEF Good

(* Rewriting the lines of one draft keeps a good table good.               *)
LEMMA RewriteGood ==
  ASSUME NEW jn, Good(jn), NEW j \in Journal, NEW row \in JournalRow,
         row.status = jn[j].status, row.group = jn[j].group, row.rev = jn[j].rev,
         row.source = jn[j].source
  PROVE  Good([jn EXCEPT ![j] = row])
<1>1. [jn EXCEPT ![j] = row] \in JournalTable /\ Shrinks(jn, [jn EXCEPT ![j] = row])
  BY DEF Good, JournalTable, Shrinks
<1>2. QED
  BY <1>1, ShrinkChained DEF Good

(* Ensuring the draft of a group: an existing draft is refreshed, a posted *)
(* voucher is left alone, and only a group without any voucher gets one.   *)
LEMMA EnsureDraftGood ==
  ASSUME TypeOK, Chained(journal), NEW g \in Group, EnsureDraftForGroup(g)
  PROVE  Good(journal')
<1>1. Good(journal) /\ members \in [Group -> SUBSET Txn] /\ members[g] \in SUBSET Txn
  BY DEF TypeOK, Good, JournalTable
<1>2. Pruned(journal, g) = journal
  BY <1>1, PrunedIsIdentity DEF Good
<1>3. CASE journal' = RefreshPrimary(journal, g)
  BY <1>1, <1>3, RefreshPrimaryGood
<1>4. CASE journal' = journal
  BY <1>1, <1>4
<1>5. ASSUME Drafts(journal, g) \union Posted(journal, g) = {},
             NEW j \in Journal, FreshJournal(journal, j),
             journal' = [journal EXCEPT ![j] = NewDraft(g, "recon_match", members[g])]
      PROVE  Good(journal')
  <2>1. \A k \in Journal : journal[k].group # g
    BY <1>1, <1>5, IdsAssumption DEF Drafts, Posted, Good, JournalTable, JournalRow, Chained
  <2>2. "recon_match" \in Source
    BY DEF Source
  <2> DEFINE row == NewDraft(g, "recon_match", members[g])
  <2>3. /\ row \in JournalRow
        /\ row.status = "draft" /\ row.group = g /\ row.rev = NoJournal
    BY <1>1, <2>2, NewDraftType
  <2> HIDE DEF row
  <2>4. Good([journal EXCEPT ![j] = row])
    BY <1>1, <1>5, <2>1, <2>3, AddChained DEF Good
  <2>5. QED
    BY <1>5, <2>4 DEF row
<1>6. QED
  BY <1>2, <1>3, <1>4, <1>5 DEF EnsureDraftForGroup

(* Refreshing the draft of a module row, or creating it.                   *)
LEMMA ModuleDraftGood ==
  ASSUME TypeOK, Chained(journal), NEW t \in Txn, RefreshModuleDraft(t)
  PROVE  Good(journal')
<1>1. Good(journal)
  BY DEF TypeOK, Good, JournalTable
<1>2. ASSUME NEW j \in Journal, journal' = [journal EXCEPT ![j] = Rebuilt(@, {t})]
      PROVE  Good(journal')
  <2>1. journal[j] \in JournalRow /\ {t} \in SUBSET Txn
    BY <1>1 DEF Good, JournalTable
  <2>2. journal' = [journal EXCEPT ![j] = Rebuilt(journal[j], {t})]
    BY <1>1, <1>2 DEF Good, JournalTable
  <2>3. QED
    BY <1>1, <2>1, <2>2, RebuiltType, RewriteGood
<1>3. ASSUME NEW j \in Journal, FreshJournal(journal, j),
             journal' = [journal EXCEPT ![j] = NewDraft(NoGroup, "module_approve", {t})]
      PROVE  Good(journal')
  <2>1. "module_approve" \in Source /\ NoGroup \notin Group
    BY IdsAssumption DEF Source
  <2> DEFINE row == NewDraft(NoGroup, "module_approve", {t})
  <2>2. /\ row \in JournalRow
        /\ row.status = "draft" /\ row.group = NoGroup /\ row.rev = NoJournal
    BY <2>1, NewDraftType
  <2> HIDE DEF row
  <2>3. Good([journal EXCEPT ![j] = row])
    BY <1>1, <1>3, <2>1, <2>2, AddChained DEF Good
  <2>4. QED
    BY <1>3, <2>3 DEF row
<1>4. QED
  BY <1>2, <1>3 DEF RefreshModuleDraft, ModuleJournals

-----------------------------------------------------------------------------
(* The inductive invariant: the rows are typed and the vouchers of every   *)
(* group are chained.  Neither half is inductive alone: without the chain  *)
(* a reversal could be drafted on a draft, and OneDraftPerGroup would not  *)
(* survive the deletion of the draft that sits on a posted voucher.        *)

IInv == TypeOK /\ Chained(journal)

RowsTyped ==
  /\ status \in [Txn -> TxnStatus]
  /\ card \in [Group -> Cardinalities]
  /\ members \in [Group -> SUBSET Txn]

(* The invariant in the two parts the action lemmas establish.             *)
LEMMA IInvParts == IInv <=> RowsTyped /\ Good(journal) /\ req \in RequestRow
BY DEF IInv, TypeOK, RowsTyped, Good, JournalTable

(* Dissolving a group and removing one member keep rows and journals good. *)
LEMMA DissolveGood ==
  ASSUME IInv, NEW g \in Group, NEW c \in {"absent", card[g]}, DissolveRows(g, c)
  PROVE  RowsTyped' /\ Good(journal')
<1>1. RowsTyped /\ Good(journal)
  BY IInvParts
<1>2. Good(journal')
  BY <1>1, DeletionsGood DEF DissolveRows
<1>3. c \in Cardinalities
  BY <1>1 DEF RowsTyped, Cardinalities
<1>4. status' \in [Txn -> TxnStatus]
  BY <1>1 DEF DissolveRows, Freed, RowsTyped, TxnStatus
<1>5. card' \in [Group -> Cardinalities] /\ members' \in [Group -> SUBSET Txn]
  BY <1>1, <1>3 DEF DissolveRows, RowsTyped
<1>6. QED
  BY <1>2, <1>4, <1>5 DEF RowsTyped

(* Removing a member, which may dissolve the group.                        *)
LEMMA RemoveGood ==
  ASSUME IInv, NEW g \in Group, NEW t, RemoveGroupMember(g, t)
  PROVE  RowsTyped' /\ Good(journal')
<1>1. RowsTyped /\ Good(journal)
  BY IInvParts
<1>2. CASE DissolveRows(g, "absent")
  BY <1>2, DissolveGood
<1>3. CASE RemoveRows(g, t)
  <2>1. members[g] \ {t} \in SUBSET Txn
    BY <1>1 DEF RowsTyped
  <2>2. Good(journal')
    BY <1>1, <1>3, <2>1, RebuildPrimaryGood DEF RemoveRows
  <2>3. status' \in [Txn -> TxnStatus]
    BY <1>1, <1>3 DEF RemoveRows, Freed, RowsTyped, TxnStatus
  <2>4. card' \in [Group -> Cardinalities] /\ members' \in [Group -> SUBSET Txn]
    BY <1>1, <1>3, <2>1 DEF RemoveRows, RowsTyped, Cardinalities
  <2>5. QED
    BY <2>2, <2>3, <2>4 DEF RowsTyped
<1>4. QED
  BY <1>2, <1>3 DEF RemoveGroupMember

(* Creating a group leaves the journals alone.                             *)
LEMMA CreateGroupGood ==
  ASSUME IInv, NEW S \in SUBSET Txn, NEW c \in Cardinalities,
         NEW then \in {"prune", "merge"}, CreateGroup(S, c, then)
  PROVE  IInv'
<1>1. RowsTyped /\ Good(journal)
  BY IInvParts
<1>2. PICK g \in Group :
        /\ status' = [t \in Txn |-> IF t \in S THEN "matched" ELSE status[t]]
        /\ members' = [members EXCEPT ![g] = S]
        /\ card' = [card EXCEPT ![g] = c]
        /\ req' = [NoRequest EXCEPT !.pc = then, !.g = g]
        /\ journal' = journal
  BY DEF CreateGroup
<1>3. RowsTyped'
  BY <1>1, <1>2 DEF RowsTyped, TxnStatus
<1>4. req' \in RequestRow
  BY <1>2 DEF RequestRow, RequestPc, NoRequest
<1>5. Good(journal)'
  BY <1>1, <1>2
<1>6. QED
  BY <1>3, <1>4, <1>5 DEF IInv, TypeOK, RowsTyped, Good, JournalTable

(* The requests that start a match.                                        *)
LEMMA MatchRequestGood ==
  ASSUME IInv, MatchRequest
  PROVE  IInv'
<1>1. RowsTyped /\ Good(journal) /\ req \in RequestRow
  BY IInvParts
<1>2. ASSUME NEW A \in SUBSET Txn, NEW B \in SUBSET Txn, StartMultiMatch(A, B)
      PROVE  IInv'
  <2>1. req' \in RequestRow
    BY <1>2 DEF StartMultiMatch, Pairs, RequestRow, RequestPc
  <2>2. RowsTyped' /\ Good(journal)'
    BY <1>1, <1>2 DEF StartMultiMatch, rows, RowsTyped
  <2>3. QED
    BY <2>1, <2>2 DEF IInv, TypeOK, RowsTyped, Good, JournalTable
<1>3. \A S \in SUBSET Txn : Open(S) \in SUBSET Txn
  BY DEF Open
<1>4. Bank \subseteq Txn /\ Ledger \subseteq Txn
  BY DEF Txn
<1>5. {"bankOnly", "glOnly", "ledgerOnly"} \subseteq Cardinalities
  BY DEF Cardinalities
<1>6. ASSUME NEW S \in SUBSET Bank, ClearBankTransactions(S)
      PROVE  IInv'
  <2>1. Open(S) \in SUBSET Txn
    BY <1>3, <1>4
  <2>2. CreateGroup(Open(S), "bankOnly", "merge")
    BY <1>6 DEF ClearBankTransactions
  <2>3. QED
    BY <1>5, <2>1, <2>2, CreateGroupGood
<1>7. ASSUME NEW t \in Bank, GlOnlyMatch(t)
      PROVE  IInv'
  <2>1. {t} \in SUBSET Txn
    BY <1>4
  <2>2. CreateGroup({t}, "glOnly", "merge")
    BY <1>7 DEF GlOnlyMatch
  <2>3. QED
    BY <1>5, <2>1, <2>2, CreateGroupGood
<1>8. ASSUME NEW S \in SUBSET Ledger, LedgerPendingMatch(S)
      PROVE  IInv'
  <2>1. S \in SUBSET Txn
    BY <1>4
  <2>2. CreateGroup(S, "ledgerOnly", "merge")
    BY <1>8 DEF LedgerPendingMatch
  <2>3. QED
    BY <1>5, <2>1, <2>2, CreateGroupGood
<1>9. QED
  BY <1>2, <1>6, <1>7, <1>8 DEF MatchRequest

(* The commits of a match request, its failure and the crash.              *)
LEMMA MatchStepGood ==
  ASSUME IInv, MatchStep
  PROVE  IInv'
<1>1. RowsTyped /\ Good(journal) /\ req \in RequestRow
  BY IInvParts
<1> USE <1>1
<1>2. NoRequest \in RequestRow
  BY DEF NoRequest, RequestRow, RequestPc
<1>3. req.todo \subseteq Group \X Txn /\ req.a \union req.b \in SUBSET Txn
  BY DEF RequestRow
<1>4. SUFFICES RowsTyped' /\ Good(journal') /\ req' \in RequestRow
  BY DEF IInv, TypeOK, RowsTyped, Good, JournalTable
<1>5. CASE Supersede
  <2>1. PICK p \in req.todo : /\ RemoveGroupMember(p[1], p[2])
                              /\ req' = [req EXCEPT !.todo = @ \ {p}]
    BY <1>5 DEF Supersede
  <2>2. p[1] \in Group
    BY <1>3
  <2>3. RowsTyped' /\ Good(journal')
    BY <2>1, <2>2, RemoveGood
  <2>4. QED
    BY <1>3, <2>1, <2>3 DEF RequestRow
<1>6. CASE NextSide
  <2>1. req' \in RequestRow
    BY <1>6 DEF NextSide, Pairs, RequestRow, RequestPc
  <2>2. QED
    BY <1>6, <2>1 DEF NextSide, rows, RowsTyped
<1>7. CASE CreateMatch
  <2>1. "paired" \in Cardinalities /\ CreateGroup(req.a \union req.b, "paired", "prune")
    BY <1>7 DEF CreateMatch, Cardinalities
  <2>2. IInv'
    BY <1>3, <2>1, CreateGroupGood
  <2>3. QED
    BY <2>2 DEF IInv, TypeOK, RowsTyped, Good, JournalTable
<1>8. CASE Prune
  <2>1. Good(journal')
    BY <1>8, DeletionsGood DEF Prune
  <2>2. QED
    BY <1>8, <2>1 DEF Prune, rows, RowsTyped, RequestRow, RequestPc
<1>9. CASE Rebuild
  <2>1. Good(journal')
    BY <1>9, RebuildStaleGood DEF Rebuild, RowsTyped
  <2>2. QED
    BY <1>9, <2>1 DEF Rebuild, rows, RowsTyped, RequestRow, RequestPc
<1>10. CASE MergeDrafts
  <2>1. Good(journal')
    BY <1>10, DeletionsGood DEF MergeDrafts
  <2>2. QED
    BY <1>10, <2>1 DEF MergeDrafts, rows, RowsTyped, RequestRow, RequestPc
<1>11. CASE FinishMatch
  <2>1. req.g \in Group
    BY <1>11 DEF FinishMatch, RequestRow
  <2>2. Good(journal')
    BY <1>11, <2>1, EnsureDraftGood DEF FinishMatch, IInv
  <2>3. QED
    BY <1>2, <1>11, <2>2 DEF FinishMatch, rows, RowsTyped
<1>12. CASE RequestFails
  BY <1>2, <1>12 DEF RequestFails, rows, RowsTyped
<1>13. CASE Crash
  <2>1. CASE UNCHANGED <<rows, journal>>
    BY <1>2, <1>13, <2>1 DEF Crash, rows, RowsTyped
  <2>2. CASE \E p \in req.todo : DissolveRows(p[1], card[p[1]])
    <3>1. PICK p \in req.todo : DissolveRows(p[1], card[p[1]])
      BY <2>2
    <3>2. p[1] \in Group
      BY <1>3
    <3>3. RowsTyped' /\ Good(journal')
      BY <3>1, <3>2, DissolveGood
    <3>4. QED
      BY <1>2, <1>13, <3>3 DEF Crash
  <2>3. QED
    BY <1>13, <2>1, <2>2 DEF Crash
<1>14. QED
  BY <1>5, <1>6, <1>7, <1>8, <1>9, <1>10, <1>11, <1>12, <1>13 DEF MatchStep

(* Unmatching a member and dissolving a group.                             *)
LEMMA UnmatchRequestGood ==
  ASSUME IInv, UnmatchRequest
  PROVE  IInv'
<1>1. PICK g \in Group : GroupUnmatchMember(g) \/ DissolveGroup(g)
  BY DEF UnmatchRequest
<1>2. (\E t \in members[g] : RemoveGroupMember(g, t))
         \/ \E c \in {"absent", card[g]} : DissolveRows(g, c)
  BY <1>1 DEF GroupUnmatchMember, DissolveGroup
<1>3. RowsTyped' /\ Good(journal')
  BY <1>2, RemoveGood, DissolveGood
<1>4. req' = req
  BY <1>1 DEF GroupUnmatchMember, DissolveGroup
<1>5. QED
  BY <1>3, <1>4 DEF IInv, TypeOK, RowsTyped, Good, JournalTable

(* A journal endpoint that replaces one live row by a live row of the same *)
(* place in the chain.                                                     *)
LEMMA RestatusGood ==
  ASSUME Good(journal), NEW j \in Journal, NEW row \in JournalRow,
         journal[j].status # "absent", row.status # "absent",
         row.status = "posted" \/ Reversals(journal, j) = {},
         row.rev = journal[j].rev, row.group = journal[j].group
  PROVE  Good([journal EXCEPT ![j] = row])
BY RestatusChained DEF Good

(* Posting a row of a draft whose lines may have been completed.           *)
LEMMA PostRowGood ==
  ASSUME Good(journal), NEW j \in Journal, NEW row \in JournalRow,
         journal[j].status = "draft",
         row.rev = journal[j].rev, row.group = journal[j].group, PostRow(j, row)
  PROVE  Good(journal')
<1> DEFINE new == [row EXCEPT !.status = "posted"]
<1>1. /\ new \in JournalRow
      /\ new.status = "posted" /\ new.rev = row.rev /\ new.group = row.group
  BY DEF JournalRow
<1> HIDE DEF new
<1>2. Good([journal EXCEPT ![j] = new])
  BY <1>1, RestatusGood
<1>3. QED
  BY <1>2 DEF PostRow, new

(* The voucher of a GL:1 group gets its counterpart and is posted.         *)
LEMMA PostGlOnlyGood ==
  ASSUME IInv, NEW j \in Journal, PostGlOnly(j)
  PROVE  RowsTyped' /\ Good(journal')
<1>1. RowsTyped /\ Good(journal)
  BY IInvParts
<1>2. journal[j] \in JournalRow
  BY <1>1 DEF Good, JournalTable
<1> DEFINE g == journal[j].group
<1>3. PICK b \in Bank, c \in Txn :
        /\ \/ PostRow(j, [journal[j] EXCEPT !.txns = {b, c}, !.bal = "even"])
           \/ \E row \in WithLedgerCounterpart(journal[j], b, c) : PostRow(j, row)
        /\ status' = [status EXCEPT ![c] = "matched"]
        /\ members' = [members EXCEPT ![g] = @ \union {c}]
  BY DEF PostGlOnly
<1>4. journal[j].status = "draft" /\ g \in Group /\ card' = [card EXCEPT ![g] = "paired"]
  BY DEF PostGlOnly
<1>5. b \in Txn
  BY DEF Txn
<1>6. \A S \in SUBSET Txn :
        LET row == [journal[j] EXCEPT !.txns = S, !.bal = "even"]
        IN  row \in JournalRow /\ row.rev = journal[j].rev /\ row.group = journal[j].group
  BY <1>2 DEF JournalRow, Balance
<1>7. Good(journal')
  <2>1. CASE PostRow(j, [journal[j] EXCEPT !.txns = {b, c}, !.bal = "even"])
    <3> DEFINE row == [journal[j] EXCEPT !.txns = {b, c}, !.bal = "even"]
    <3>1. row \in JournalRow /\ row.rev = journal[j].rev /\ row.group = journal[j].group
      BY <1>5, <1>6
    <3> HIDE DEF row
    <3>2. PostRow(j, row)
      BY <2>1 DEF row
    <3>3. QED
      BY <1>1, <1>4, <3>1, <3>2, PostRowGood
  <2>2. ASSUME NEW row \in WithLedgerCounterpart(journal[j], b, c), PostRow(j, row)
        PROVE  Good(journal')
    <3>1. journal[j].txns \union {c} \in SUBSET Txn
      BY <1>2 DEF JournalRow
    <3>2. \/ row = [journal[j] EXCEPT !.txns = journal[j].txns \union {c}, !.bal = "even"]
          \/ row = journal[j]
      BY <1>2, <2>2 DEF WithLedgerCounterpart, JournalRow
    <3>3. row \in JournalRow /\ row.rev = journal[j].rev /\ row.group = journal[j].group
      BY <1>2, <1>6, <3>1, <3>2
    <3>4. QED
      BY <1>1, <1>4, <2>2, <3>3, PostRowGood
  <2>3. QED
    BY <1>3, <2>1, <2>2
<1>8. RowsTyped'
  BY <1>1, <1>3, <1>4 DEF RowsTyped, TxnStatus, Cardinalities
<1>9. QED
  BY <1>7, <1>8

(* The journal endpoints.                                                  *)
LEMMA JournalRequestGood ==
  ASSUME IInv, JournalRequest
  PROVE  IInv'
<1>1. RowsTyped /\ Good(journal) /\ req \in RequestRow
  BY IInvParts
<1>2. \A j \in Journal : journal[j] \in JournalRow
  BY <1>1 DEF Good, JournalTable
<1>3. SUFFICES RowsTyped' /\ Good(journal') /\ req' = req
  BY <1>1 DEF IInv, TypeOK, RowsTyped, Good, JournalTable
<1>4. ASSUME NEW g \in Group, EnsureDraft(g)
      PROVE  RowsTyped' /\ Good(journal') /\ req' = req
  <2>1. Good(journal')
    BY <1>4, EnsureDraftGood DEF EnsureDraft, IInv
  <2>2. QED
    BY <1>1, <1>4, <2>1 DEF EnsureDraft, rows, RowsTyped
<1>5. ASSUME NEW g \in Group, DeleteDraftByGroup(g)
      PROVE  RowsTyped' /\ Good(journal') /\ req' = req
  <2>1. Good(journal')
    BY <1>1, <1>5, DeletionsGood DEF DeleteDraftByGroup
  <2>2. QED
    BY <1>1, <1>5, <2>1 DEF DeleteDraftByGroup, rows, RowsTyped
<1>6. ASSUME NEW j \in Journal, CreateManual(j)
      PROVE  RowsTyped' /\ Good(journal') /\ req' = req
  <2> DEFINE row == [NewDraft(NoGroup, "manual", {}) EXCEPT !.bal = "even"]
  <2>1. /\ row \in JournalRow
        /\ row.status = "draft" /\ row.group = NoGroup /\ row.rev = NoJournal
    BY DEF NewDraft, JournalRow, Source, Balance
  <2> HIDE DEF row
  <2>2. Good([journal EXCEPT ![j] = row])
    BY <1>1, <1>6, <2>1, AddChained, IdsAssumption DEF CreateManual, Good
  <2>3. QED
    BY <1>1, <1>6, <2>2 DEF CreateManual, rows, RowsTyped, row
<1>7. ASSUME NEW j \in Journal, UpdateDraft(j)
      PROVE  RowsTyped' /\ Good(journal') /\ req' = req
  <2>1. PICK S \in SUBSET journal[j].txns : \E b \in EditedBalances(journal[j], S) :
          journal' = [journal EXCEPT ![j].txns = S, ![j].bal = b]
    BY <1>7 DEF UpdateDraft
  <2>2. PICK b \in EditedBalances(journal[j], S) :
          journal' = [journal EXCEPT ![j].txns = S, ![j].bal = b]
    BY <2>1
  <2>3. S \in SUBSET Txn /\ b \in Balance
    BY <1>2 DEF EditedBalances, Balance, JournalRow
  <2> DEFINE row == [journal[j] EXCEPT !.txns = S, !.bal = b]
  <2>4. /\ row \in JournalRow
        /\ row.status = journal[j].status /\ row.group = journal[j].group
        /\ row.rev = journal[j].rev /\ row.source = journal[j].source
    BY <1>2, <2>3 DEF JournalRow
  <2>5. journal' = [journal EXCEPT ![j] = row]
    BY <1>1, <1>2, <2>2 DEF Good, JournalTable, JournalRow
  <2> HIDE DEF row
  <2>6. Good(journal')
    BY <1>1, <2>4, <2>5, RewriteGood
  <2>7. QED
    BY <1>1, <1>7, <2>6 DEF UpdateDraft, rows, RowsTyped
<1>8. ASSUME NEW j \in Journal, PostJournal(j)
      PROVE  RowsTyped' /\ Good(journal') /\ req' = req
  <2>1. Good(journal')
    BY <1>1, <1>2, <1>8, PostRowGood DEF PostJournal
  <2>2. QED
    BY <1>1, <1>8, <2>1 DEF PostJournal, rows, RowsTyped
<1>9. ASSUME NEW j \in Journal, PostGlOnly(j)
      PROVE  RowsTyped' /\ Good(journal') /\ req' = req
  BY <1>9, PostGlOnlyGood DEF PostGlOnly
<1>10. ASSUME NEW j \in Journal, UnpostJournal(j)
       PROVE  RowsTyped' /\ Good(journal') /\ req' = req
  <2> DEFINE row == [journal[j] EXCEPT !.status = "draft"]
  <2>1. /\ row \in JournalRow /\ row.status = "draft"
        /\ row.group = journal[j].group /\ row.rev = journal[j].rev
    BY <1>2 DEF JournalRow
  <2>2. journal' = [journal EXCEPT ![j] = row]
    BY <1>1, <1>10 DEF UnpostJournal, Good, JournalTable
  <2> HIDE DEF row
  <2>3. Good(journal')
    BY <1>1, <1>10, <2>1, <2>2, RestatusGood DEF UnpostJournal
  <2>4. QED
    BY <1>1, <1>10, <2>3 DEF UnpostJournal, rows, RowsTyped
<1>11. ASSUME NEW j \in Journal, CreateReversal(j)
       PROVE  RowsTyped' /\ Good(journal') /\ req' = req
  <2>1. PICK k \in Journal : FreshJournal(journal, k)
                             /\ journal' = [journal EXCEPT ![k] = ReversalOf(j)]
    BY <1>11 DEF CreateReversal
  <2>2. /\ ReversalOf(j) \in JournalRow
        /\ ReversalOf(j).status = "draft" /\ ReversalOf(j).rev = j
        /\ ReversalOf(j).group = journal[j].group
    BY <1>2 DEF ReversalOf, JournalRow, Source, Balance
  <2>3. Good(journal')
    BY <1>1, <1>11, <2>1, <2>2, ReverseChained DEF CreateReversal, Good
  <2>4. QED
    BY <1>1, <1>11, <2>3 DEF CreateReversal, rows, RowsTyped
<1>12. QED
  BY <1>4, <1>5, <1>6, <1>7, <1>8, <1>9, <1>10, <1>11 DEF JournalRequest

(* The Books requests: import, recode, purge, reset.                       *)
LEMMA BooksRequestGood ==
  ASSUME IInv, BooksRequest
  PROVE  IInv'
<1>1. RowsTyped /\ Good(journal) /\ req \in RequestRow
  BY IInvParts
<1>2. SUFFICES RowsTyped' /\ Good(journal') /\ req' = req
  BY <1>1 DEF IInv, TypeOK, RowsTyped, Good, JournalTable
<1>3. ASSUME NEW t \in Txn, ImportTxn(t)
      PROVE  RowsTyped' /\ Good(journal') /\ req' = req
  <2>1. Good(journal')
    BY <1>1, <1>3, ModuleDraftGood DEF ImportTxn, IInv
  <2>2. QED
    BY <1>1, <1>3, <2>1 DEF ImportTxn, RowsTyped, TxnStatus
<1>4. ASSUME NEW t \in Txn, RecodeTxn(t)
      PROVE  RowsTyped' /\ Good(journal') /\ req' = req
  <2>1. \A j \in Journal : journal[j].group \in Group => members[journal[j].group] \in SUBSET Txn
    BY <1>1 DEF RowsTyped
  <2>2. \A g \in Group, j \in Journal : j \in PrimaryDrafts(journal, g) => journal[j].group = g
    BY DEF PrimaryDrafts, Drafts
  <2>3. \A j \in Journal :
          \/ journal'[j] = journal[j]
          \/ \E S \in SUBSET Txn : journal'[j] = Rebuilt(journal[j], S)
    BY <1>4, <2>1, <2>2 DEF RecodeTxn
  <2>4. journal' = [j \in Journal |-> journal'[j]]
    BY <1>4 DEF RecodeTxn
  <2>5. \A j \in Journal : journal[j] \in JournalRow
    BY <1>1 DEF Good, JournalTable
  <2>6. \A j \in Journal : /\ journal'[j] \in JournalRow
                            /\ journal'[j].status = journal[j].status
                            /\ journal'[j].group = journal[j].group
                            /\ journal'[j].rev = journal[j].rev
                            /\ journal'[j].source = journal[j].source
    BY <2>3, <2>5, RebuiltType
  <2>7. journal' \in JournalTable /\ Shrinks(journal, journal')
    BY <2>4, <2>6 DEF JournalTable, Shrinks
  <2>8. Good(journal')
    BY <1>1, <2>7, ShrinkChained DEF Good
  <2>9. QED
    BY <1>1, <1>4, <2>8 DEF RecodeTxn, rows, RowsTyped
<1>5. ASSUME NEW S \in SUBSET Txn, NEW onlyOpen \in BOOLEAN, PurgeTxns(S, onlyOpen)
      PROVE  RowsTyped' /\ Good(journal') /\ req' = req
  <2>1. Good(journal')
    BY <1>1, <1>5, DeletionsGood DEF PurgeTxns
  <2>2. RowsTyped'
    BY <1>1, <1>5 DEF PurgeTxns, RowsTyped, TxnStatus
  <2>3. QED
    BY <1>5, <2>1, <2>2 DEF PurgeTxns
<1>6. CASE ResetRecon
  <2>1. Good(journal')
    BY <1>1, <1>6, DeletionsGood DEF ResetRecon
  <2>2. RowsTyped'
    BY <1>1, <1>6 DEF ResetRecon, Freed, RowsTyped, TxnStatus, Cardinalities
  <2>3. QED
    BY <1>6, <2>1, <2>2 DEF ResetRecon
<1>7. CASE ClearUnreconciledPool
  <2>1. \A S \in {Bank, Ledger, Txn} : Open(S) \in SUBSET Txn
    BY DEF Open, Txn
  <2>2. QED
    BY <1>5, <1>7, <2>1 DEF ClearUnreconciledPool
<1>8. \A S \in SUBSET Txn : Txn \ S \in SUBSET Txn
  OBVIOUS
<1>9. QED
  BY <1>3, <1>4, <1>5, <1>6, <1>7, <1>8
  DEF BooksRequest, PurgeUnreconciled, PurgeExceptKept

-----------------------------------------------------------------------------
(* Theorems.                                                               *)

(* The invariant holds initially: there is no row at all.                  *)
LEMMA InitGood == Init => IInv
<1> SUFFICES ASSUME Init PROVE IInv
  OBVIOUS
<1>1. TypeOK
  BY NoRowType DEF Init, TypeOK, TxnStatus, Cardinalities, NoRequest, RequestRow, RequestPc
<1>2. \A j \in Journal : /\ journal[j].status = "absent" /\ journal[j].rev = NoJournal
                          /\ journal[j].group = NoGroup /\ journal[j].source = "none"
  BY DEF Init, NoRow
<1>3. Chained(journal)
  BY <1>2, IdsAssumption DEF Chained
<1>4. QED
  BY <1>1, <1>3 DEF IInv

(* Every step of every request keeps it.                                   *)
LEMMA StepGood == IInv /\ [Next]_vars => IInv'
<1> SUFFICES ASSUME IInv, [Next]_vars PROVE IInv'
  OBVIOUS
<1>1. CASE UNCHANGED vars
  BY <1>1 DEF vars, IInv, TypeOK, Chained, IsTip, Reversals
<1>2. CASE Next
  BY <1>2, MatchRequestGood, MatchStepGood, UnmatchRequestGood, JournalRequestGood,
     BooksRequestGood DEF Next
<1>3. QED
  BY <1>1, <1>2

(* What the invariant says of the vouchers.                                *)
LEMMA IInvOneDraft == IInv => OneDraftPerGroup
BY OneDraft DEF IInv, TypeOK, JournalTable, OneDraftPerGroup

(* The chain is what the two reversal properties ask for.                  *)
LEMMA IInvReversals == IInv => ReversedStaysPosted /\ OneReversalPerVoucher
BY DEF IInv, Chained, ReversedStaysPosted, OneReversalPerVoucher

(* Hence the invariant holds in every reachable state.                     *)
LEMMA Invariance == Spec => []IInv
BY InitGood, StepGood, PTL DEF Spec

(* Whatever the companies' transactions, groups and vouchers, and whatever *)
(* part of the API is used, the rows keep a legal shape and a request past *)
(* its creating commit names the group it created.                         *)
THEOREM TypeCorrect == Spec => []TypeOK
<1>1. IInv => TypeOK
  BY DEF IInv
<1>2. QED
  BY <1>1, Invariance, PTL

(* ensure_draft_for_group, the rebuilds and create_reversal_draft never    *)
(* leave two drafts in one group: prune_extra_drafts_for_group never finds *)
(* anything to delete.                                                     *)
THEOREM OneDraftAlways == Spec => []OneDraftPerGroup
BY Invariance, IInvOneDraft, PTL

(* A reversal always hangs on a posted voucher of its group, and is alone. *)
(* Deletions by purge, reset, dissolve or merge never leave one dangling.  *)
THEOREM ReversalsHang == Spec => [](ReversedStaysPosted /\ OneReversalPerVoucher)
BY Invariance, IInvReversals, PTL

-----------------------------------------------------------------------------
(* The vouchers of every match group form a stack: ReconGl implements      *)
(* VoucherStack, for every value of the constants with finitely many       *)
(* journals.  The chain above is what makes it true: a draft is a tip, and *)
(* a group has one tip.                                                    *)

JournalsFinite == IsFiniteSet(Journal)

(* The refinement mapping: what VoucherStack sees of the journal table.    *)
Of(jn, g) == {j \in Journal : jn[j].group = g}
Depth == [g \in Group |-> Cardinality({j \in Journal : journal[j].group = g})]
Opened == {g \in Group : Drafts(journal, g) # {}}

StackMoves == Stack!Next \/ UNCHANGED <<Depth, Opened>>

-----------------------------------------------------------------------------
(* Counting the vouchers of a group.                                       *)

(* The journals of a table are counted by naturals.                        *)
LEMMA Counted ==
  ASSUME JournalsFinite, NEW jn, NEW g
  PROVE  /\ IsFiniteSet(Of(jn, g)) /\ Cardinality(Of(jn, g)) \in Nat
         /\ Of(jn, g) # {} => Cardinality(Of(jn, g)) > 0
<1>1. IsFiniteSet(Of(jn, g))
  BY FS_Subset DEF Of, JournalsFinite
<1>2. QED
  BY <1>1, FS_CardinalityType, FS_EmptySet

(* A voucher on top of those of its group makes one more.                  *)
LEMMA OneMore ==
  ASSUME JournalsFinite, NEW jn, NEW jm, NEW g, NEW k \in Journal,
         k \notin Of(jn, g), Of(jm, g) = Of(jn, g) \union {k}
  PROVE  Cardinality(Of(jm, g)) = Cardinality(Of(jn, g)) + 1
BY Counted, FS_AddElement

(* A voucher taken off makes one less.                                     *)
LEMMA OneLess ==
  ASSUME JournalsFinite, NEW jn, NEW jm, NEW g, NEW k \in Journal,
         k \in Of(jn, g), Of(jm, g) = Of(jn, g) \ {k}
  PROVE  Cardinality(Of(jm, g)) = Cardinality(Of(jn, g)) - 1
BY Counted, FS_RemoveElement

(* Opened and Depth after a step, in terms of the tables.                  *)
LEMMA SameOf ==
  ASSUME \A g \in Group : Of(journal', g) = Of(journal, g)
  PROVE  Depth' = Depth
BY DEF Depth, Of

-----------------------------------------------------------------------------
(* The four ways in which a step changes the vouchers of groups.           *)

(* Deleting drafts and rewriting lines drops the tops it deletes.          *)
LEMMA ShrinkDrops ==
  ASSUME JournalsFinite, Good(journal), Good(journal'), Shrinks(journal, journal')
  PROVE  StackMoves
<1> DEFINE S == {g \in Group : Drafts(journal, g) # {} /\ Drafts(journal', g) = {}}
<1>1. \A g \in Group : g # NoGroup
  BY IdsAssumption
<1>2. ASSUME NEW g \in Group, NEW j \in Drafts(journal', g)
      PROVE  j \in Drafts(journal, g)
  BY <1>2 DEF Shrinks, Drafts
<1>3. ASSUME NEW g \in Group
      PROVE  Of(journal', g) \subseteq Of(journal, g)
  BY <1>1 DEF Shrinks, Of
<1>4. ASSUME NEW g \in Group, NEW j \in Of(journal, g), j \notin Of(journal', g)
      PROVE  j \in Drafts(journal, g) /\ Drafts(journal', g) = {}
  <2>1. /\ j \in Journal /\ journal[j] \in JournalRow /\ journal[j].group = g
        /\ journal[j].status # "posted" /\ journal'[j].status = "absent"
    BY <1>4 DEF Shrinks, Of, Good, JournalTable
  <2>2. j \in Drafts(journal, g)
    BY <1>1, <2>1 DEF Drafts, Good, Chained, JournalRow
  <2>3. ASSUME NEW i \in Drafts(journal', g) PROVE FALSE
    <3>1. i \in Drafts(journal, g) /\ journal'[i].status = "draft"
      BY <1>2, <2>3 DEF Drafts
    <3>2. i = j
      BY <2>2, <3>1, OneDraft DEF Drafts, Good
    <3>3. QED
      BY <2>1, <3>1, <3>2
  <2>4. QED
    BY <2>2, <2>3
<1>5. ASSUME NEW g \in Group, g \notin S
      PROVE  Of(journal', g) = Of(journal, g)
  BY <1>3, <1>4, <1>5
<1>6. ASSUME NEW g \in S
      PROVE  Cardinality(Of(journal', g)) = Cardinality(Of(journal, g)) - 1
  <2>1. PICK d \in Drafts(journal, g) : d \in Journal
    BY <1>6 DEF Drafts
  <2>2. g \in Group /\ d \in Of(journal, g) /\ d \notin Of(journal', g)
    <3>1. d \notin Drafts(journal', g) /\ journal[d].status = "draft" /\ journal[d].group = g
      BY <1>6, <2>1 DEF Drafts
    <3>2. journal'[d].group = NoGroup
      BY <2>1, <3>1 DEF Shrinks, Drafts
    <3>3. QED
      BY <1>1, <1>6, <2>1, <3>1, <3>2 DEF Of
  <2>3. ASSUME NEW j \in Of(journal, g), j \notin Of(journal', g)
        PROVE  j = d
    <3>1. j \in Drafts(journal, g)
      BY <1>4, <2>2, <2>3
    <3>2. QED
      BY <2>1, <2>2, <3>1, OneDraft DEF Drafts, Good
  <2>4. Of(journal', g) = Of(journal, g) \ {d}
    BY <1>3, <2>2, <2>3
  <2>5. QED
    BY <2>1, <2>2, <2>4, OneLess
<1>7. Depth' = [g \in Group |-> IF g \in S THEN Depth[g] - 1 ELSE Depth[g]]
  <2>1. ASSUME NEW g \in Group
        PROVE  Cardinality(Of(journal', g)) =
                 IF g \in S THEN Cardinality(Of(journal, g)) - 1 ELSE Cardinality(Of(journal, g))
    BY <1>5, <1>6
  <2> HIDE DEF S
  <2>2. QED
    BY <2>1 DEF Depth, Of
<1>8. S \subseteq Opened /\ Opened' = Opened \ S
  BY <1>2 DEF Opened
<1>9. S \in SUBSET Group
  OBVIOUS
<1> HIDE DEF S
<1>10. Stack!Drop(S)
  BY <1>7, <1>8 DEF Stack!Drop, Depth, Opened
<1>11. QED
  BY <1>9, <1>10 DEF StackMoves, Stack!Next

(* A new voucher of a group without a draft is pushed.                     *)
LEMMA NewPushes ==
  ASSUME JournalsFinite, Good(journal), NEW k \in Journal, FreshJournal(journal, k),
         NEW row, row.status = "draft", row.group \in Group,
         Drafts(journal, row.group) = {}, journal' = [journal EXCEPT ![k] = row]
  PROVE  StackMoves
<1> DEFINE g == row.group
<1>1. /\ journal'[k] = row
      /\ \A j \in Journal : j # k => journal'[j] = journal[j]
  BY DEF Good, JournalTable
<1>2. journal[k].group \notin Group
  BY IdsAssumption DEF FreshJournal, Good, Chained
<1>3. \A h \in Group : h # g => /\ Of(journal', h) = Of(journal, h)
                                /\ Drafts(journal', h) = Drafts(journal, h)
  BY <1>1, <1>2 DEF Of, Drafts
<1>4. k \notin Of(journal, g) /\ Of(journal', g) = Of(journal, g) \union {k}
  BY <1>1, <1>2 DEF Of
<1>5. k \in Drafts(journal', g)
  BY <1>1 DEF Drafts
<1>6. Cardinality(Of(journal', g)) = Cardinality(Of(journal, g)) + 1
  BY <1>4, OneMore
<1>7. Depth' = [Depth EXCEPT ![g] = @ + 1]
  BY <1>3, <1>6 DEF Depth, Of
<1>8. g \notin Opened /\ Opened' = Opened \union {g}
  BY <1>3, <1>5 DEF Opened
<1>9. Stack!Push(g)
  BY <1>7, <1>8 DEF Stack!Push, Depth, Opened
<1>10. QED
  BY <1>9 DEF StackMoves, Stack!Next

(* A new voucher of no group is on no stack.                               *)
LEMMA NewLoose ==
  ASSUME Good(journal), NEW k \in Journal, FreshJournal(journal, k),
         NEW row, row.group = NoGroup, journal' = [journal EXCEPT ![k] = row]
  PROVE  StackMoves
<1>1. /\ journal'[k] = row
      /\ \A j \in Journal : j # k => journal'[j] = journal[j]
  BY DEF Good, JournalTable
<1>2. journal[k].group \notin Group /\ row.group \notin Group
  BY IdsAssumption DEF FreshJournal, Good, Chained
<1>3. \A h \in Group : /\ Of(journal', h) = Of(journal, h)
                       /\ Drafts(journal', h) = Drafts(journal, h)
  BY <1>1, <1>2 DEF Of, Drafts
<1>4. QED
  BY <1>3, SameOf DEF StackMoves, Opened

(* A voucher nothing reverses, if posted, is the top of a closed stack.    *)
LEMMA ClosedTop ==
  ASSUME Good(journal), NEW j \in Journal, journal[j].status = "posted",
         Reversals(journal, j) = {}, journal[j].group \in Group
  PROVE  Drafts(journal, journal[j].group) = {}
<1>1. SUFFICES ASSUME NEW d \in Drafts(journal, journal[j].group) PROVE FALSE
  OBVIOUS
<1>2. IsTip(journal, j) /\ IsTip(journal, d) /\ d \in Journal
  BY <1>1, DraftIsTip DEF IsTip, Drafts, Good
<1>3. d = j
  BY <1>1, <1>2 DEF Good, Chained, Drafts
<1>4. QED
  BY <1>1, <1>3 DEF Drafts

(* Posting a draft closes its stack, unposting the top opens it.           *)
LEMMA RestatusStack ==
  ASSUME JournalsFinite, Good(journal), NEW j \in Journal, NEW row,
         row.group = journal[j].group, journal' = [journal EXCEPT ![j] = row],
         \/ journal[j].status = "draft" /\ row.status = "posted"
         \/ journal[j].status = "posted" /\ row.status = "draft" /\ Reversals(journal, j) = {}
  PROVE  StackMoves
<1> DEFINE g == row.group
<1>1. /\ journal'[j] = row
      /\ \A i \in Journal : i # j => journal'[i] = journal[i]
  BY DEF Good, JournalTable
<1>2. /\ \A h \in Group : Of(journal', h) = Of(journal, h)
      /\ \A h \in Group : h # g => Drafts(journal', h) = Drafts(journal, h)
  BY <1>1 DEF Of, Drafts
<1>3. Depth' = Depth
  BY <1>2, SameOf
<1>4. CASE g \notin Group
  BY <1>2, <1>3, <1>4 DEF StackMoves, Opened
<1>5. CASE g \in Group /\ journal[j].status = "draft" /\ row.status = "posted"
  <2>1. j \in Drafts(journal, g)
    BY <1>5 DEF Drafts
  <2>2. \A d \in Drafts(journal, g) : d = j
    BY <1>5, <2>1, OneDraft DEF Drafts, Good
  <2>3. Drafts(journal', g) = {}
    BY <1>1, <1>5, <2>2 DEF Drafts
  <2>4. g \in Opened /\ Opened' = Opened \ {g}
    BY <1>2, <1>5, <2>1, <2>3 DEF Opened
  <2>5. Stack!Post(g)
    BY <1>3, <2>4 DEF Stack!Post, Depth, Opened
  <2>6. QED
    BY <1>5, <2>5 DEF StackMoves, Stack!Next
<1>6. CASE /\ g \in Group /\ journal[j].status = "posted" /\ row.status = "draft"
           /\ Reversals(journal, j) = {}
  <2>1. Drafts(journal, g) = {} /\ j \in Drafts(journal', g)
    BY <1>1, <1>6, ClosedTop DEF Drafts
  <2>2. g \notin Opened /\ Opened' = Opened \union {g}
    BY <1>2, <1>6, <2>1 DEF Opened
  <2>3. Of(journal, g) # {}
    BY DEF Of
  <2>4. Depth[g] > 0
    <3>1. Cardinality(Of(journal, g)) > 0
      BY <2>3, Counted
    <3>2. QED
      BY <1>6, <3>1 DEF Depth, Of
  <2>5. Stack!Unpost(g)
    BY <1>3, <2>2, <2>4 DEF Stack!Unpost, Depth, Opened
  <2>6. QED
    BY <1>6, <2>5 DEF StackMoves, Stack!Next
<1>7. QED
  BY <1>4, <1>5, <1>6
-----------------------------------------------------------------------------
(* The steps of the requests.                                              *)

(* Steps that leave the journals alone.                                    *)
LEMMA SameStacks ==
  ASSUME UNCHANGED journal
  PROVE  StackMoves
BY DEF StackMoves, Depth, Opened, Drafts

(* The deletions of drafts.                                                *)
LEMMA DropStack ==
  ASSUME JournalsFinite, Good(journal), NEW S, \A j \in S : journal[j].status = "draft",
         journal' = DropRows(journal, S)
  PROVE  StackMoves
BY DropRowsShrinks, DropRowsGood, ShrinkDrops DEF Good

(* The rewriting of the lines of drafts.                                   *)
LEMMA RewriteStack ==
  ASSUME JournalsFinite, Good(journal), NEW j \in Journal, NEW row \in JournalRow,
         row.status = journal[j].status, row.group = journal[j].group,
         row.rev = journal[j].rev, row.source = journal[j].source,
         journal' = [journal EXCEPT ![j] = row]
  PROVE  StackMoves
<1>1. Shrinks(journal, journal')
  BY DEF Good, JournalTable, Shrinks
<1>2. QED
  BY <1>1, RewriteGood, ShrinkDrops

(* Dissolving a group.                                                     *)
LEMMA DissolveStack ==
  ASSUME JournalsFinite, IInv, NEW g \in Group, NEW c, DissolveRows(g, c)
  PROVE  StackMoves
BY IInvParts, DropStack DEF DissolveRows, DeleteGroupDrafts, Drafts

(* Removing a member, which may dissolve the group.                        *)
LEMMA RemoveStack ==
  ASSUME JournalsFinite, IInv, NEW g \in Group, NEW t, RemoveGroupMember(g, t)
  PROVE  StackMoves
<1>1. RowsTyped /\ Good(journal) /\ Good(journal')
  BY IInvParts, RemoveGood
<1>2. CASE DissolveRows(g, "absent")
  BY <1>2, DissolveStack
<1>3. CASE RemoveRows(g, t)
  <2>1. members[g] \ {t} \in SUBSET Txn
    BY <1>1 DEF RowsTyped
  <2>2. Shrinks(journal, journal')
    BY <1>1, <1>3, <2>1, PrunedIsIdentity, RebuildRowsShrinks DEF RemoveRows, RebuildPrimary, Good
  <2>3. QED
    BY <1>1, <2>2, ShrinkDrops
<1>4. QED
  BY <1>2, <1>3 DEF RemoveGroupMember

(* Ensuring the draft of a group pushes it only on an empty stack.         *)
LEMMA EnsureStack ==
  ASSUME JournalsFinite, IInv, NEW g \in Group, EnsureDraftForGroup(g)
  PROVE  StackMoves
<1>1. RowsTyped /\ Good(journal) /\ Good(journal')
  BY IInvParts, EnsureDraftGood DEF IInv
<1>2. Pruned(journal, g) = journal /\ members[g] \in SUBSET Txn
  BY <1>1, PrunedIsIdentity DEF Good, RowsTyped
<1>3. CASE journal' = RefreshPrimary(journal, g)
  <2>1. Shrinks(journal, journal')
    BY <1>1, <1>2, <1>3, RebuildRowsShrinks DEF RefreshPrimary, Good
  <2>2. QED
    BY <1>1, <2>1, ShrinkDrops
<1>4. CASE journal' = journal
  BY <1>4, SameStacks
<1>5. ASSUME Drafts(journal, g) \union Posted(journal, g) = {},
             NEW j \in Journal, FreshJournal(journal, j),
             journal' = [journal EXCEPT ![j] = NewDraft(g, "recon_match", members[g])]
      PROVE  StackMoves
  <2> DEFINE row == NewDraft(g, "recon_match", members[g])
  <2>1. row.status = "draft" /\ row.group = g
    BY DEF NewDraft
  <2>2. Drafts(journal, g) = {}
    BY <1>5
  <2> HIDE DEF row
  <2>3. journal' = [journal EXCEPT ![j] = row]
    BY <1>5 DEF row
  <2>4. QED
    BY <1>1, <1>5, <2>1, <2>2, <2>3, NewPushes
<1>6. QED
  BY <1>2, <1>3, <1>4, <1>5 DEF EnsureDraftForGroup

(* The draft of a module row is on no stack.                               *)
LEMMA ModuleStack ==
  ASSUME JournalsFinite, IInv, NEW t \in Txn, RefreshModuleDraft(t)
  PROVE  StackMoves
<1>1. Good(journal)
  BY IInvParts
<1>2. ASSUME NEW j \in Journal, journal' = [journal EXCEPT ![j] = Rebuilt(@, {t})]
      PROVE  StackMoves
  <2>1. journal[j] \in JournalRow /\ {t} \in SUBSET Txn
    BY <1>1 DEF Good, JournalTable
  <2>2. journal' = [journal EXCEPT ![j] = Rebuilt(journal[j], {t})]
    BY <1>1, <1>2 DEF Good, JournalTable
  <2>3. QED
    BY <1>1, <2>1, <2>2, RebuiltType, RewriteStack
<1>3. ASSUME NEW j \in Journal, FreshJournal(journal, j),
             journal' = [journal EXCEPT ![j] = NewDraft(NoGroup, "module_approve", {t})]
      PROVE  StackMoves
  <2>1. NewDraft(NoGroup, "module_approve", {t}).group = NoGroup
    BY DEF NewDraft
  <2>2. QED
    BY <1>1, <1>3, <2>1, NewLoose
<1>4. QED
  BY <1>2, <1>3 DEF RefreshModuleDraft, ModuleJournals

(* The matching requests leave the journals alone.                         *)
LEMMA MatchRequestStack ==
  ASSUME MatchRequest
  PROVE  StackMoves
BY SameStacks DEF MatchRequest, StartMultiMatch, ClearBankTransactions, GlOnlyMatch,
                  LedgerPendingMatch, CreateGroup

(* Their commits delete, rewrite and at last push.                         *)
LEMMA MatchStepStack ==
  ASSUME JournalsFinite, IInv, MatchStep
  PROVE  StackMoves
<1>1. RowsTyped /\ Good(journal) /\ req \in RequestRow
  BY IInvParts
<1>2. \A p \in req.todo : p[1] \in Group
  BY <1>1 DEF RequestRow
<1>3. CASE Supersede
  BY <1>2, <1>3, RemoveStack DEF Supersede
<1>4. CASE NextSide \/ CreateMatch \/ RequestFails
  BY <1>4, SameStacks DEF NextSide, CreateMatch, CreateGroup, RequestFails
<1>5. CASE Prune
  BY <1>1, <1>5, DropStack DEF Prune, PruneOrphans
<1>6. CASE Rebuild
  BY <1>1, <1>6, RebuildStaleShrinks, RebuildStaleGood, ShrinkDrops DEF Rebuild, RowsTyped, Good
<1>7. CASE MergeDrafts
  BY <1>1, <1>7, DropStack DEF MergeDrafts, DeleteModuleDrafts
<1>8. CASE FinishMatch
  <2>1. req.g \in Group
    BY <1>1, <1>8 DEF FinishMatch, RequestRow
  <2>2. QED
    BY <1>8, <2>1, EnsureStack DEF FinishMatch
<1>9. CASE Crash
  BY <1>2, <1>9, SameStacks, DissolveStack DEF Crash
<1>10. QED
  BY <1>3, <1>4, <1>5, <1>6, <1>7, <1>8, <1>9 DEF MatchStep

(* Unmatching a member and dissolving a group.                             *)
LEMMA UnmatchRequestStack ==
  ASSUME JournalsFinite, IInv, UnmatchRequest
  PROVE  StackMoves
BY RemoveStack, DissolveStack DEF UnmatchRequest, GroupUnmatchMember, DissolveGroup

(* The voucher of a GL:1 group keeps its place when it is posted.          *)
LEMMA PostGlOnlyStack ==
  ASSUME JournalsFinite, IInv, NEW j \in Journal, PostGlOnly(j)
  PROVE  StackMoves
<1>1. Good(journal) /\ journal[j] \in JournalRow /\ journal[j].status = "draft"
  BY IInvParts DEF Good, JournalTable, PostGlOnly
<1>2. ASSUME NEW S, NEW row, row = journal[j] \/ row = [journal[j] EXCEPT !.txns = S, !.bal = "even"],
             PostRow(j, row)
      PROVE  StackMoves
  <2> DEFINE new == [row EXCEPT !.status = "posted"]
  <2>1. new.group = journal[j].group /\ new.status = "posted"
    BY <1>1, <1>2 DEF JournalRow
  <2>2. journal' = [journal EXCEPT ![j] = new]
    BY <1>2 DEF PostRow
  <2> HIDE DEF new
  <2>3. QED
    BY <1>1, <2>1, <2>2, RestatusStack
<1>3. PICK b \in Bank, c \in Txn :
        \/ PostRow(j, [journal[j] EXCEPT !.txns = {b, c}, !.bal = "even"])
        \/ \E r \in WithLedgerCounterpart(journal[j], b, c) : PostRow(j, r)
  BY DEF PostGlOnly
<1>4. \A r \in WithLedgerCounterpart(journal[j], b, c) :
        \/ r = journal[j]
        \/ r = [journal[j] EXCEPT !.txns = journal[j].txns \union {c}, !.bal = "even"]
  BY <1>1 DEF WithLedgerCounterpart, JournalRow
<1>5. QED
  BY <1>2, <1>3, <1>4

(* The journal endpoints: each is one operation of the stack.              *)
LEMMA JournalRequestStack ==
  ASSUME JournalsFinite, IInv, JournalRequest
  PROVE  StackMoves
<1>1. Good(journal) /\ \A j \in Journal : journal[j] \in JournalRow
  BY IInvParts DEF Good, JournalTable
<1>2. ASSUME NEW g \in Group, EnsureDraft(g) PROVE StackMoves
  BY <1>2, EnsureStack DEF EnsureDraft
<1>3. ASSUME NEW g \in Group, DeleteDraftByGroup(g) PROVE StackMoves
  BY <1>1, <1>3, DropStack DEF DeleteDraftByGroup, DeleteGroupDrafts, Drafts
<1>4. ASSUME NEW j \in Journal, CreateManual(j) PROVE StackMoves
  <2> DEFINE row == [NewDraft(NoGroup, "manual", {}) EXCEPT !.bal = "even"]
  <2>1. row.group = NoGroup
    BY DEF NewDraft
  <2> HIDE DEF row
  <2>2. FreshJournal(journal, j) /\ journal' = [journal EXCEPT ![j] = row]
    BY <1>4 DEF CreateManual, row
  <2>3. QED
    BY <1>1, <2>1, <2>2, NewLoose
<1>5. ASSUME NEW j \in Journal, UpdateDraft(j) PROVE StackMoves
  <2>1. PICK S \in SUBSET journal[j].txns : \E b \in EditedBalances(journal[j], S) :
          journal' = [journal EXCEPT ![j].txns = S, ![j].bal = b]
    BY <1>5 DEF UpdateDraft
  <2>2. PICK b \in EditedBalances(journal[j], S) :
          journal' = [journal EXCEPT ![j].txns = S, ![j].bal = b]
    BY <2>1
  <2>3. S \in SUBSET Txn /\ b \in Balance
    BY <1>1 DEF EditedBalances, Balance, JournalRow
  <2> DEFINE row == [journal[j] EXCEPT !.txns = S, !.bal = b]
  <2>4. /\ row \in JournalRow
        /\ row.status = journal[j].status /\ row.group = journal[j].group
        /\ row.rev = journal[j].rev /\ row.source = journal[j].source
    BY <1>1, <2>3 DEF JournalRow
  <2>5. journal' = [journal EXCEPT ![j] = row]
    BY <1>1, <2>2 DEF Good, JournalTable, JournalRow
  <2> HIDE DEF row
  <2>6. QED
    BY <1>1, <2>4, <2>5, RewriteStack
<1>6. ASSUME NEW j \in Journal, PostJournal(j) PROVE StackMoves
  <2> DEFINE row == [journal[j] EXCEPT !.status = "posted"]
  <2>1. row.group = journal[j].group /\ row.status = "posted"
    BY <1>1 DEF JournalRow
  <2>2. journal' = [journal EXCEPT ![j] = row] /\ journal[j].status = "draft"
    BY <1>6 DEF PostJournal, PostRow
  <2> HIDE DEF row
  <2>3. QED
    BY <1>1, <2>1, <2>2, RestatusStack
<1>7. ASSUME NEW j \in Journal, PostGlOnly(j) PROVE StackMoves
  BY <1>7, PostGlOnlyStack
<1>8. ASSUME NEW j \in Journal, UnpostJournal(j) PROVE StackMoves
  <2> DEFINE row == [journal[j] EXCEPT !.status = "draft"]
  <2>1. row.group = journal[j].group /\ row.status = "draft"
    BY <1>1 DEF JournalRow
  <2>2. /\ journal' = [journal EXCEPT ![j] = row]
        /\ journal[j].status = "posted" /\ Reversals(journal, j) = {}
    BY <1>1, <1>8 DEF UnpostJournal, Good, JournalTable
  <2> HIDE DEF row
  <2>3. QED
    BY <1>1, <2>1, <2>2, RestatusStack
<1>9. ASSUME NEW j \in Journal, CreateReversal(j) PROVE StackMoves
  <2>1. PICK k \in Journal : FreshJournal(journal, k)
                             /\ journal' = [journal EXCEPT ![k] = ReversalOf(j)]
    BY <1>9 DEF CreateReversal
  <2>2. /\ ReversalOf(j).status = "draft" /\ ReversalOf(j).group = journal[j].group
        /\ journal[j].status = "posted" /\ Reversals(journal, j) = {}
    BY <1>9 DEF ReversalOf, CreateReversal
  <2>3. CASE journal[j].group \in Group
    BY <1>1, <2>1, <2>2, <2>3, ClosedTop, NewPushes
  <2>4. CASE journal[j].group = NoGroup
    BY <1>1, <2>1, <2>2, <2>4, NewLoose
  <2>5. QED
    BY <1>1, <2>3, <2>4 DEF JournalRow
<1>10. QED
  BY <1>2, <1>3, <1>4, <1>5, <1>6, <1>7, <1>8, <1>9 DEF JournalRequest

(* Import, recode, purge, reset.                                           *)
LEMMA BooksRequestStack ==
  ASSUME JournalsFinite, IInv, BooksRequest
  PROVE  StackMoves
<1>1. RowsTyped /\ Good(journal)
  BY IInvParts
<1>2. ASSUME NEW t \in Txn, ImportTxn(t) PROVE StackMoves
  BY <1>2, ModuleStack, SameStacks DEF ImportTxn
<1>3. ASSUME NEW t \in Txn, RecodeTxn(t) PROVE StackMoves
  <2>1. \A j \in Journal : journal[j].group \in Group => members[journal[j].group] \in SUBSET Txn
    BY <1>1 DEF RowsTyped
  <2>2. \A g \in Group, j \in Journal : j \in PrimaryDrafts(journal, g) => journal[j].group = g
    BY DEF PrimaryDrafts, Drafts
  <2>3. \A j \in Journal :
          \/ journal'[j] = journal[j]
          \/ \E S \in SUBSET Txn : journal'[j] = Rebuilt(journal[j], S)
    BY <1>3, <2>1, <2>2 DEF RecodeTxn
  <2>4. Shrinks(journal, journal')
    BY <1>1, <2>3, RebuiltType DEF Shrinks, Good, JournalTable
  <2>5. IInv'
    BY <1>3, BooksRequestGood DEF BooksRequest
  <2>6. Good(journal')
    BY <2>5 DEF IInv, TypeOK, Good, JournalTable
  <2>7. QED
    BY <1>1, <2>4, <2>6, ShrinkDrops
<1>4. ASSUME NEW S, NEW o, PurgeTxns(S, o) PROVE StackMoves
  <2> DEFINE D == {j \in ModuleJournals(journal, S) : journal[j].status = "draft"}
             kept == DropRows(journal, D)
  <2>1. Good(kept) /\ kept \in JournalTable /\ Shrinks(journal, kept)
    BY <1>1, DropRowsGood, DropRowsShrinks DEF Good
  <2>2. journal' = PruneOrphans(kept, card) \/ journal' = kept
    BY <1>4 DEF PurgeTxns, DeleteModuleDrafts
  <2> HIDE DEF kept
  <2>3. /\ \A j \in Journal : kept[j].status = "draft" => journal[j].status = "draft"
        /\ Shrinks(journal, PruneOrphans(kept, card)) /\ Good(PruneOrphans(kept, card))
    <3>1. Good(PruneOrphans(kept, card)) /\ Shrinks(kept, PruneOrphans(kept, card))
      BY <2>1, DeletionsGood, DropRowsShrinks DEF PruneOrphans, Good
    <3>2. QED
      BY <2>1, <3>1 DEF Shrinks
  <2>4. QED
    BY <1>1, <2>1, <2>2, <2>3, ShrinkDrops
<1>5. CASE ResetRecon
  BY <1>1, <1>5, DropStack DEF ResetRecon, PruneOrphans
<1>6. QED
  BY <1>2, <1>3, <1>4, <1>5
  DEF BooksRequest, ClearUnreconciledPool, PurgeUnreconciled, PurgeExceptKept

-----------------------------------------------------------------------------
(* Whatever is matched, unmatched, posted, reversed, purged or reset, the  *)
(* vouchers of a group are a stack of which only the top may be open: the  *)
(* journal service keeps the promise VoucherStack states, step by step.    *)
THEOREM VouchersStack == ASSUME JournalsFinite PROVE Spec => VouchersFormStack
<1>1. Init => Stack!Init
  <2>1. SUFFICES ASSUME Init PROVE Stack!Init
    OBVIOUS
  <2>2. \A g \in Group : Of(journal, g) = {} /\ Drafts(journal, g) = {}
    BY <2>1, IdsAssumption DEF Init, NoRow, Of, Drafts
  <2>3. \A g \in Group : Cardinality(Of(journal, g)) = 0
    BY <2>2, FS_EmptySet
  <2>4. QED
    BY <2>2, <2>3 DEF Stack!Init, Of
<1>2. IInv /\ [Next]_vars => StackMoves
  BY MatchRequestStack, MatchStepStack, UnmatchRequestStack, JournalRequestStack,
     BooksRequestStack, SameStacks DEF Next, vars
<1>3. QED
  BY <1>1, <1>2, Invariance, PTL DEF Spec, VouchersFormStack, Stack!Spec, StackMoves, Depth, Opened
=============================================================================
