-------------------------- MODULE ReconGlRows_proofs --------------------------
(***************************************************************************)
(* Theorems about the match rows of ReconGl: who owns a transaction, what  *)
(* its status says, what the vouchers of its group book, and what a posted *)
(* voucher freezes.                                                        *)
(***************************************************************************)
EXTENDS ReconGl_proofs

-----------------------------------------------------------------------------
(* The inductive invariant behind SoleOwner.  A request that creates a     *)
(* group must find its transactions in no other: those it takes from the   *)
(* open ones are there by MembersMatched; those of a multi-match have left *)
(* their groups by the time it creates one, which Leaving follows commit   *)
(* by commit (the bank side first, then the ledger side); the members      *)
(* still to be removed are there unless their group was dissolved.         *)

MembersMatched == \A g \in Group : \A t \in members[g] : status[t] = "matched"

EmptyWhenAbsent == \A g \in Group : card[g] = "absent" => members[g] = {}

Leaving ==
  /\ req.pc \in {"bankSide", "ledgerSide"} => req.a \subseteq Bank /\ req.b \subseteq Ledger
  /\ req.pc = "bankSide" => Pairs(req.a) \subseteq req.todo
  /\ req.pc = "ledgerSide" => Pairs(req.a) = {} /\ Pairs(req.b) \subseteq req.todo
  /\ Superseding => \A p \in req.todo : card[p[1]] # "absent" => p[2] \in members[p[1]]

Owned == SoleOwner /\ MembersMatched /\ EmptyWhenAbsent

(* The other half of StatusAgrees.                                         *)
MatchedOwned == \A t \in Txn : status[t] = "matched" => \E g \in Group : t \in members[g]

(* What the removal of match rows does to them.                            *)
MembersShrink == \A h \in Group : members'[h] \subseteq members[h]

(* Dissolving a group frees its members, which nobody else owns.           *)
LEMMA DissolveOwned ==
  ASSUME IInv, Owned, NEW g \in Group, NEW c, DissolveRows(g, c)
  PROVE  Owned' /\ (MatchedOwned => MatchedOwned') /\ MembersShrink /\ members'[g] = {}
<1>1. RowsTyped
  BY IInvParts
<1>2. /\ \A t \in Txn : status'[t] = IF t \in members[g] /\ status[t] # "absent"
                                     THEN "unreconciled" ELSE status[t]
      /\ \A h \in Group : members'[h] = IF h = g THEN {} ELSE members[h]
      /\ \A h \in Group : card'[h] = IF h = g THEN c ELSE card[h]
  BY <1>1 DEF DissolveRows, Freed, RowsTyped
<1>3. SoleOwner'
  BY <1>2 DEF Owned, SoleOwner
<1>4. MembersMatched'
  <2>1. SUFFICES ASSUME NEW h \in Group, NEW t \in members'[h]
                 PROVE  status'[t] = "matched"
    BY DEF MembersMatched
  <2>2. h # g /\ t \in members[h] /\ t \in Txn
    BY <1>1, <1>2, <2>1 DEF RowsTyped
  <2>3. t \notin members[g]
    BY <2>2 DEF Owned, SoleOwner
  <2>4. QED
    BY <1>2, <2>2, <2>3 DEF Owned, MembersMatched
<1>5. EmptyWhenAbsent'
  BY <1>2 DEF Owned, EmptyWhenAbsent
<1>6. ASSUME MatchedOwned PROVE MatchedOwned'
  <2>1. SUFFICES ASSUME NEW t \in Txn, status'[t] = "matched"
                 PROVE  \E h \in Group : t \in members'[h]
    BY DEF MatchedOwned
  <2>2. status[t] = "matched" /\ t \notin members[g]
    BY <1>2, <2>1
  <2>3. QED
    BY <1>2, <1>6, <2>2 DEF MatchedOwned
<1>7. QED
  BY <1>2, <1>3, <1>4, <1>5, <1>6 DEF Owned, MembersShrink

(* Removing one member frees that one.                                     *)
LEMMA RemoveRowsOwned ==
  ASSUME IInv, Owned, NEW g \in Group, card[g] # "absent", NEW t \in members[g],
         RemoveRows(g, t)
  PROVE  Owned' /\ (MatchedOwned => MatchedOwned') /\ MembersShrink /\ t \notin members'[g]
<1>1. RowsTyped
  BY IInvParts
<1>2. /\ \A u \in Txn : status'[u] = IF u = t /\ status[u] # "absent"
                                     THEN "unreconciled" ELSE status[u]
      /\ \A h \in Group : members'[h] = IF h = g THEN members[g] \ {t} ELSE members[h]
      /\ \A h \in Group : card'[h] = "absent" <=> card[h] = "absent"
  BY <1>1 DEF RemoveRows, Freed, RowsTyped
<1>3. SoleOwner'
  BY <1>2 DEF Owned, SoleOwner
<1>4. MembersMatched'
  <2>1. SUFFICES ASSUME NEW h \in Group, NEW u \in members'[h]
                 PROVE  status'[u] = "matched"
    BY DEF MembersMatched
  <2>2. u \in members[h] /\ u \in Txn
    BY <1>1, <1>2, <2>1 DEF RowsTyped
  <2>3. u # t
    BY <1>2, <2>1, <2>2 DEF Owned, SoleOwner
  <2>4. QED
    BY <1>2, <2>2, <2>3 DEF Owned, MembersMatched
<1>5. EmptyWhenAbsent'
  BY <1>2 DEF Owned, EmptyWhenAbsent
<1>6. ASSUME MatchedOwned PROVE MatchedOwned'
  <2>1. SUFFICES ASSUME NEW u \in Txn, status'[u] = "matched"
                 PROVE  \E h \in Group : u \in members'[h]
    BY DEF MatchedOwned
  <2>2. status[u] = "matched" /\ u # t
    BY <1>2, <2>1
  <2>3. PICK h \in Group : u \in members[h]
    BY <1>6, <2>2 DEF MatchedOwned
  <2>4. u \in members'[h]
    BY <1>2, <2>2, <2>3
  <2>5. QED
    BY <2>4
<1>7. QED
  BY <1>2, <1>3, <1>4, <1>5, <1>6 DEF Owned, MembersShrink

(* Either way remove_group_member takes the member out of its group, and   *)
(* adds to none.                                                           *)
LEMMA RemoveOwned ==
  ASSUME IInv, Owned, NEW g \in Group, card[g] # "absent", NEW t \in members[g],
         RemoveGroupMember(g, t)
  PROVE  Owned' /\ (MatchedOwned => MatchedOwned') /\ MembersShrink /\ t \notin members'[g]
<1>1. CASE DissolveRows(g, "absent")
  BY <1>1, DissolveOwned
<1>2. CASE RemoveRows(g, t)
  BY <1>2, RemoveRowsOwned
<1>3. QED
  BY <1>1, <1>2 DEF RemoveGroupMember

(* A group made of transactions that nobody owns is their sole owner.      *)
LEMMA CreateGroupOwned ==
  ASSUME IInv, Owned, NEW S \in SUBSET Txn, NEW c, c # "absent", NEW then,
         \A g \in Group : members[g] \intersect S = {}, CreateGroup(S, c, then)
  PROVE  Owned' /\ (MatchedOwned => MatchedOwned')
<1>1. RowsTyped
  BY IInvParts
<1>2. PICK g \in Group :
        /\ FreshGroup(g)
        /\ status' = [t \in Txn |-> IF t \in S THEN "matched" ELSE status[t]]
        /\ members' = [members EXCEPT ![g] = S]
        /\ card' = [card EXCEPT ![g] = c]
  BY DEF CreateGroup
<1>3. /\ \A t \in Txn : status'[t] = IF t \in S THEN "matched" ELSE status[t]
      /\ \A h \in Group : members'[h] = IF h = g THEN S ELSE members[h]
      /\ \A h \in Group : card'[h] = IF h = g THEN c ELSE card[h]
      /\ members[g] = {}
  BY <1>1, <1>2 DEF RowsTyped, FreshGroup, Owned, EmptyWhenAbsent
<1>4. SoleOwner'
  BY <1>3 DEF Owned, SoleOwner
<1>5. MembersMatched'
  <2>1. SUFFICES ASSUME NEW h \in Group, NEW t \in members'[h]
                 PROVE  status'[t] = "matched"
    BY DEF MembersMatched
  <2>2. t \in Txn /\ (t \in S \/ t \in members[h])
    BY <1>1, <1>3, <2>1 DEF RowsTyped
  <2>3. QED
    BY <1>3, <2>2 DEF Owned, MembersMatched
<1>6. EmptyWhenAbsent'
  BY <1>3 DEF Owned, EmptyWhenAbsent
<1>7. ASSUME MatchedOwned PROVE MatchedOwned'
  <2>1. SUFFICES ASSUME NEW t \in Txn, status'[t] = "matched"
                 PROVE  \E h \in Group : t \in members'[h]
    BY DEF MatchedOwned
  <2>2. CASE t \in S
    BY <1>3, <2>2
  <2>3. CASE t \notin S
    <3>1. PICK h \in Group : t \in members[h]
      BY <1>3, <1>7, <2>1, <2>3 DEF MatchedOwned
    <3>2. t \in members'[h]
      BY <1>3, <3>1
    <3>3. QED
      BY <3>2
  <2>4. QED
    BY <2>2, <2>3
<1>8. QED
  BY <1>4, <1>5, <1>6, <1>7 DEF Owned

-----------------------------------------------------------------------------
(* The invariant through the requests.  A multi-match takes its lists from *)
(* the two panels, bank rows and ledger rows; "sameMode" lets a client     *)
(* send others, and then two groups may share one (see README.md).         *)

RowsInv == Owned /\ Leaving

SidesApart == "sameMode" \notin Features
ByPool == "purgeByIds" \notin Features

(* What every step does to the rows.                                       *)
RowsKept == RowsInv' /\ (ByPool /\ MatchedOwned => MatchedOwned')

(* A step that leaves the rows alone and is no part of a multi-match.      *)
LEMMA RowsUnchanged ==
  ASSUME RowsInv, UNCHANGED rows, req'.pc \notin {"bankSide", "ledgerSide"} \/ UNCHANGED req
  PROVE  RowsKept
BY DEF RowsInv, RowsKept, Owned, SoleOwner, MembersMatched, EmptyWhenAbsent, MatchedOwned,
       Leaving, Superseding, Pairs, rows

(* The requests that start a match.                                        *)
LEMMA MatchRequestOwned ==
  ASSUME IInv, RowsInv, SidesApart, MatchRequest
  PROVE  RowsKept
<1>1. RowsTyped
  BY IInvParts
<1>2. \A S \in SUBSET Txn : \A g \in Group : members[g] \intersect Open(S) = {}
  BY DEF RowsInv, Owned, MembersMatched, Open
<1>3. ASSUME NEW S \in SUBSET Txn, NEW c, c # "absent",
             \A g \in Group : members[g] \intersect S = {}, CreateGroup(S, c, "merge")
      PROVE  RowsKept
  <2>1. Owned' /\ (MatchedOwned => MatchedOwned')
    BY <1>3, CreateGroupOwned DEF RowsInv
  <2>2. req'.pc = "merge"
    BY <1>3 DEF CreateGroup, NoRequest
  <2>3. QED
    BY <2>1, <2>2 DEF RowsKept, RowsInv, Leaving, Superseding
<1>4. ASSUME NEW A \in SUBSET Txn, NEW B \in SUBSET Txn, StartMultiMatch(A, B)
      PROVE  RowsKept
  <2>1. /\ A \subseteq Bank /\ B \subseteq Ledger
        /\ req' = [pc |-> "bankSide", a |-> A, b |-> B,
                   todo |-> Pairs(A \intersect Bank), g |-> NoGroup]
        /\ UNCHANGED rows
    BY <1>4 DEF StartMultiMatch, SidesApart
  <2>2. A \intersect Bank = A
    BY <2>1
  <2>3. Leaving'
    BY <2>1, <2>2 DEF Leaving, Superseding, Pairs, rows
  <2>4. QED
    BY <2>1, <2>3 DEF RowsInv, RowsKept, Owned, SoleOwner, MembersMatched,
                      EmptyWhenAbsent, MatchedOwned, rows
<1>5. Bank \subseteq Txn /\ Ledger \subseteq Txn
  BY DEF Txn
<1>6. ASSUME NEW S \in SUBSET Bank, ClearBankTransactions(S)
      PROVE  RowsKept
  <2>1. Open(S) \in SUBSET Txn /\ \A g \in Group : members[g] \intersect Open(S) = {}
    BY <1>2, <1>5 DEF Open
  <2>2. QED
    BY <1>3, <1>6, <2>1 DEF ClearBankTransactions
<1>7. ASSUME NEW t \in Bank, GlOnlyMatch(t)
      PROVE  RowsKept
  <2>1. {t} \in SUBSET Txn /\ {t} = Open({t})
    BY <1>5, <1>7 DEF GlOnlyMatch, Open
  <2>2. \A g \in Group : members[g] \intersect {t} = {}
    BY <1>2, <2>1
  <2>3. QED
    BY <1>3, <1>7, <2>1, <2>2 DEF GlOnlyMatch
<1>8. ASSUME NEW S \in SUBSET Ledger, LedgerPendingMatch(S)
      PROVE  RowsKept
  <2>1. S \in SUBSET Txn /\ S = Open(S)
    BY <1>5, <1>8 DEF LedgerPendingMatch
  <2>2. \A g \in Group : members[g] \intersect S = {}
    BY <1>2, <2>1
  <2>3. QED
    BY <1>3, <1>8, <2>1, <2>2 DEF LedgerPendingMatch
<1>9. QED
  BY <1>4, <1>6, <1>7, <1>8 DEF MatchRequest

(* While members only leave, what a multi-match still has to take out of   *)
(* its groups shrinks with them.                                           *)
LEMMA LeavingShrinks ==
  ASSUME Leaving, MembersShrink, NEW p, Superseding,
         req' = [req EXCEPT !.todo = @ \ {p}], p \notin Pairs({p[2]})',
         \A q \in req.todo \ {p} : card'[q[1]] # "absent" => q[2] \in members'[q[1]]
  PROVE  Leaving'
<1>1. \A S : Pairs(S)' \subseteq Pairs(S)
  BY DEF Pairs, MembersShrink
<1>2. \A S : p \notin Pairs(S)'
  BY DEF Pairs
<1>3. req'.pc = req.pc /\ req'.a = req.a /\ req'.b = req.b /\ req'.todo = req.todo \ {p}
  OBVIOUS
<1>4. QED
  BY <1>1, <1>2, <1>3 DEF Leaving, Superseding

(* One removal of a supersede loop.                                        *)
LEMMA SupersedeOwned ==
  ASSUME IInv, RowsInv, Supersede
  PROVE  RowsKept
<1>1. RowsTyped /\ req \in RequestRow
  BY IInvParts
<1>2. PICK p \in req.todo : /\ card[p[1]] # "absent"
                            /\ RemoveGroupMember(p[1], p[2])
                            /\ req' = [req EXCEPT !.todo = @ \ {p}]
  BY DEF Supersede
<1>3. \A q \in req.todo : q \in Group \X Txn /\ q = <<q[1], q[2]>>
  BY <1>1 DEF RequestRow
<1>4. p[1] \in Group /\ Superseding /\ p[2] \in members[p[1]]
  BY <1>2, <1>3 DEF Supersede, RowsInv, Leaving
<1>5. Owned' /\ (MatchedOwned => MatchedOwned') /\ MembersShrink /\ p[2] \notin members'[p[1]]
  BY <1>2, <1>4, RemoveOwned DEF RowsInv
<1>6. \/ \A h \in Group : /\ members'[h] = IF h = p[1] THEN members[h] \ {p[2]} ELSE members[h]
                          /\ card[h] = "absent" => card'[h] = "absent"
      \/ /\ card'[p[1]] = "absent"
         /\ \A h \in Group : h # p[1] => members'[h] = members[h] /\ card'[h] = card[h]
  BY <1>1, <1>2, <1>4 DEF RemoveGroupMember, RemoveRows, DissolveRows, RowsTyped
<1>7. ASSUME NEW q \in req.todo \ {p}, card'[q[1]] # "absent"
      PROVE  q[2] \in members'[q[1]]
  <2>1. q[1] \in Group /\ (q[1] # p[1] \/ q[2] # p[2])
    BY <1>3, <1>7
  <2>2. card[q[1]] # "absent" => q[2] \in members[q[1]]
    BY <1>4, <1>7 DEF RowsInv, Leaving
  <2>3. QED
    BY <1>6, <1>7, <2>1, <2>2
<1>8. p \notin Pairs({p[2]})'
  BY <1>5 DEF Pairs
<1>9. Leaving'
  BY <1>2, <1>4, <1>5, <1>7, <1>8, LeavingShrinks DEF RowsInv
<1>10. QED
  BY <1>5, <1>9 DEF RowsKept, RowsInv

(* The commits of a match request, its failure and the crash.              *)
LEMMA MatchStepOwned ==
  ASSUME IInv, RowsInv, MatchStep
  PROVE  RowsKept
<1>1. RowsTyped /\ req \in RequestRow
  BY IInvParts
<1>2. req.todo \subseteq Group \X Txn /\ req.a \union req.b \in SUBSET Txn
  BY <1>1 DEF RequestRow
<1>3. CASE NextSide
  <2>1. /\ UNCHANGED rows
        /\ req' = [req EXCEPT !.pc = "ledgerSide", !.todo = Pairs(req.b \intersect Ledger)]
        /\ req.b \intersect Ledger = req.b /\ req.a \subseteq Bank /\ Pairs(req.a) = {}
    BY <1>3 DEF NextSide, RowsInv, Leaving
  <2>2. /\ req'.pc = "ledgerSide" /\ req'.todo = Pairs(req.b)
        /\ req'.a = req.a /\ req'.b = req.b
    BY <1>1, <2>1 DEF RequestRow
  <2>3. Leaving'
    BY <1>3, <2>1, <2>2 DEF NextSide, RowsInv, Leaving, Superseding, Pairs, rows
  <2>4. QED
    BY <2>1, <2>3 DEF RowsInv, RowsKept, Owned, SoleOwner, MembersMatched,
                      EmptyWhenAbsent, MatchedOwned, rows
<1>4. CASE CreateMatch
  <2>1. \A g \in Group : members[g] \intersect (req.a \union req.b) = {}
    <3>1. Pairs(req.a) = {} /\ Pairs(req.b) = {}
      BY <1>4 DEF CreateMatch, RowsInv, Leaving
    <3>2. ASSUME NEW S, Pairs(S) = {}, NEW g \in Group, NEW t \in members[g], t \in S
          PROVE  FALSE
      <4>1. <<g, t>> \in Pairs(S)
        BY <3>2 DEF Pairs
      <4>2. QED
        BY <3>2, <4>1
    <3>3. QED
      BY <3>1, <3>2
  <2>2. Owned' /\ (MatchedOwned => MatchedOwned')
    BY <1>2, <1>4, <2>1, CreateGroupOwned DEF CreateMatch, RowsInv
  <2>3. req'.pc = "prune"
    BY <1>4 DEF CreateMatch, CreateGroup, NoRequest
  <2>4. QED
    BY <2>2, <2>3 DEF RowsKept, RowsInv, Leaving, Superseding
<1>5. CASE Prune \/ Rebuild \/ MergeDrafts \/ FinishMatch \/ RequestFails
  <2>1. UNCHANGED rows /\ req'.pc \notin {"bankSide", "ledgerSide"}
    BY <1>1, <1>5 DEF Prune, Rebuild, MergeDrafts, FinishMatch, RequestFails, NoRequest,
                      RequestRow
  <2>2. QED
    BY <2>1, RowsUnchanged
<1>6. CASE Crash
  <2>1. req'.pc = "idle"
    BY <1>6 DEF Crash, NoRequest
  <2>2. CASE UNCHANGED <<rows, journal>>
    BY <2>1, <2>2, RowsUnchanged
  <2>3. ASSUME NEW p \in req.todo, DissolveRows(p[1], card[p[1]])
        PROVE  RowsKept
    <3>1. p[1] \in Group
      BY <1>2
    <3>2. Owned' /\ (MatchedOwned => MatchedOwned')
      BY <2>3, <3>1, DissolveOwned DEF RowsInv
    <3>3. QED
      BY <2>1, <3>2 DEF RowsKept, RowsInv, Leaving, Superseding
  <2>4. QED
    BY <1>6, <2>2, <2>3 DEF Crash
<1>7. QED
  BY <1>3, <1>4, <1>5, <1>6, SupersedeOwned DEF MatchStep

(* Unmatching a member and dissolving a group, which wait for Idle.        *)
LEMMA UnmatchRequestOwned ==
  ASSUME IInv, RowsInv, UnmatchRequest
  PROVE  RowsKept
<1>1. PICK g \in Group : GroupUnmatchMember(g) \/ DissolveGroup(g)
  BY DEF UnmatchRequest
<1>2. req' = req /\ req.pc = "idle" /\ card[g] # "absent"
  BY <1>1 DEF GroupUnmatchMember, DissolveGroup, Idle, NoRequest
<1>3. \/ \E t \in members[g] : RemoveGroupMember(g, t)
      \/ \E c \in {"absent", card[g]} : DissolveRows(g, c)
  BY <1>1 DEF GroupUnmatchMember, DissolveGroup
<1>4. Owned' /\ (MatchedOwned => MatchedOwned')
  BY <1>2, <1>3, RemoveOwned, DissolveOwned DEF RowsInv
<1>5. QED
  BY <1>2, <1>4 DEF RowsKept, RowsInv, Leaving, Superseding

(* The journal endpoints touch no row but PostGlOnly, whose counterpart is *)
(* a transaction that did not exist before.                                *)
LEMMA JournalRequestOwned ==
  ASSUME IInv, RowsInv, JournalRequest
  PROVE  RowsKept
<1>1. RowsTyped /\ req \in RequestRow
  BY IInvParts
<1>2. ASSUME NEW j \in Journal, PostGlOnly(j)
      PROVE  RowsKept
  <2> DEFINE g == journal[j].group
  <2>1. PICK c \in Txn : /\ FreshTxn(c)
                         /\ status' = [status EXCEPT ![c] = "matched"]
                         /\ members' = [members EXCEPT ![g] = @ \union {c}]
    BY <1>2 DEF PostGlOnly
  <2>2. /\ g \in Group /\ card' = [card EXCEPT ![g] = "paired"]
        /\ req' = req /\ req.pc = "idle"
    BY <1>2 DEF PostGlOnly, Idle, NoRequest
  <2> HIDE DEF g
  <2>3. /\ \A t \in Txn : status'[t] = IF t = c THEN "matched" ELSE status[t]
        /\ \A h \in Group : members'[h] = IF h = g THEN members[g] \union {c} ELSE members[h]
        /\ \A h \in Group : card'[h] = IF h = g THEN "paired" ELSE card[h]
        /\ \A h \in Group : members[h] \subseteq Txn /\ c \notin members[h]
    BY <1>1, <2>1, <2>2 DEF RowsTyped, FreshTxn
  <2>4. SoleOwner'
    BY <2>3 DEF RowsInv, Owned, SoleOwner
  <2>5. MembersMatched'
    BY <2>3 DEF RowsInv, Owned, MembersMatched
  <2>6. EmptyWhenAbsent'
    BY <2>3 DEF RowsInv, Owned, EmptyWhenAbsent
  <2>7. ASSUME MatchedOwned PROVE MatchedOwned'
    <3>1. SUFFICES ASSUME NEW t \in Txn, status'[t] = "matched"
                   PROVE  \E h \in Group : t \in members'[h]
      BY DEF MatchedOwned
    <3>2. CASE t = c
      BY <2>2, <2>3, <3>2
    <3>3. CASE t # c
      <4>1. PICK h \in Group : t \in members[h]
        BY <2>3, <2>7, <3>1, <3>3 DEF MatchedOwned
      <4>2. t \in members'[h]
        BY <2>3, <4>1
      <4>3. QED
        BY <4>2
    <3>4. QED
      BY <3>2, <3>3
  <2>8. QED
    BY <2>2, <2>4, <2>5, <2>6, <2>7 DEF RowsKept, RowsInv, Owned, Leaving, Superseding
<1>3. CASE UNCHANGED rows /\ UNCHANGED req
  BY <1>3, RowsUnchanged
<1>4. QED
  BY <1>2, <1>3 DEF JournalRequest, EnsureDraft, DeleteDraftByGroup, CreateManual, UpdateDraft,
                    PostJournal, UnpostJournal, CreateReversal

(* The Books requests.  A purge takes the match rows of what it is given,  *)
(* whatever its status: only the one by ids can leave a matched row behind. *)
LEMMA BooksRequestOwned ==
  ASSUME IInv, RowsInv, BooksRequest
  PROVE  RowsKept
<1>1. RowsTyped
  BY IInvParts
<1>2. ASSUME NEW t \in Txn, ImportTxn(t)
      PROVE  RowsKept
  <2>1. /\ \A u \in Txn : status'[u] = IF u = t THEN "unreconciled" ELSE status[u]
        /\ members' = members /\ card' = card /\ req' = req /\ req.pc = "idle"
    BY <1>1, <1>2 DEF ImportTxn, RowsTyped, Idle, NoRequest
  <2>2. \A g \in Group : t \notin members[g]
    BY <1>2 DEF ImportTxn, FreshTxn, RowsInv, Owned, MembersMatched
  <2>3. MembersMatched'
    <3>1. SUFFICES ASSUME NEW g \in Group, NEW u \in members[g]
                   PROVE  status'[u] = "matched"
      BY <2>1 DEF MembersMatched
    <3>2. u \in Txn /\ u # t
      BY <1>1, <2>2 DEF RowsTyped
    <3>3. QED
      BY <2>1, <3>2 DEF RowsInv, Owned, MembersMatched
  <2>4. MatchedOwned => MatchedOwned'
    BY <2>1 DEF MatchedOwned
  <2>5. QED
    BY <2>1, <2>3, <2>4 DEF RowsKept, RowsInv, Owned, SoleOwner, EmptyWhenAbsent, Leaving,
                            Superseding
<1>3. ASSUME NEW t \in Txn, RecodeTxn(t)
      PROVE  RowsKept
  BY <1>3, RowsUnchanged DEF RecodeTxn
<1>4. ASSUME NEW S \in SUBSET Txn, NEW onlyOpen \in BOOLEAN, PurgeTxns(S, onlyOpen),
             onlyOpen /\ ByPool => S = Open(S)
      PROVE  RowsKept
  <2> DEFINE purged == IF onlyOpen THEN Open(S) ELSE {t \in S : status[t] # "absent"}
  <2>1. /\ status' = [t \in Txn |-> IF t \in purged THEN "absent" ELSE status[t]]
        /\ members' = [g \in Group |-> members[g] \ S]
        /\ card' = card /\ req' = req /\ req.pc = "idle"
    BY <1>4 DEF PurgeTxns, Idle, NoRequest
  <2>2. purged \subseteq S
    BY DEF Open
  <2>3. /\ \A t \in Txn : status'[t] = IF t \in purged THEN "absent" ELSE status[t]
        /\ \A g \in Group : members'[g] = members[g] \ S
    BY <2>1
  <2>4. MembersMatched'
    <3>1. SUFFICES ASSUME NEW g \in Group, NEW u \in members'[g]
                   PROVE  status'[u] = "matched"
      BY DEF MembersMatched
    <3>2. u \in Txn /\ u \in members[g] /\ u \notin purged
      BY <1>1, <2>2, <2>3, <3>1 DEF RowsTyped
    <3>3. QED
      BY <2>3, <3>2 DEF RowsInv, Owned, MembersMatched
  <2>5. SoleOwner' /\ EmptyWhenAbsent'
    BY <2>1, <2>3 DEF RowsInv, Owned, SoleOwner, EmptyWhenAbsent
  <2>6. ASSUME ByPool, MatchedOwned PROVE MatchedOwned'
    <3>1. SUFFICES ASSUME NEW t \in Txn, status'[t] = "matched"
                   PROVE  \E g \in Group : t \in members'[g]
      BY DEF MatchedOwned
    <3>2. status[t] = "matched" /\ t \notin purged
      BY <2>3, <3>1
    <3>3. t \notin S
      BY <1>4, <2>6, <3>2 DEF Open
    <3>4. PICK g \in Group : t \in members[g]
      BY <2>6, <3>2 DEF MatchedOwned
    <3>5. t \in members'[g]
      BY <2>3, <3>3, <3>4
    <3>6. QED
      BY <3>5
  <2>7. QED
    BY <2>1, <2>4, <2>5, <2>6 DEF RowsKept, RowsInv, Owned, Leaving, Superseding
<1>5. CASE ClearUnreconciledPool
  <2>1. PICK S \in {Bank, Ledger, Txn} : PurgeTxns(Open(S), TRUE)
    BY <1>5 DEF ClearUnreconciledPool
  <2>2. Open(S) \in SUBSET Txn /\ Open(Open(S)) = Open(S)
    BY DEF Open, Txn
  <2>3. QED
    BY <1>4, <2>1, <2>2
<1>6. ASSUME NEW S \in SUBSET Txn, PurgeUnreconciled(S)
      PROVE  RowsKept
  BY <1>4, <1>6 DEF PurgeUnreconciled, ByPool
<1>7. ASSUME NEW K \in SUBSET Txn, PurgeExceptKept(K)
      PROVE  RowsKept
  <2>1. Txn \ K \in SUBSET Txn
    OBVIOUS
  <2>2. QED
    BY <1>4, <1>7, <2>1 DEF PurgeExceptKept
<1>8. CASE ResetRecon
  <2>1. /\ \A t \in Txn : status'[t] # "matched"
        /\ \A g \in Group : members'[g] = {}
        /\ req' = req /\ req.pc = "idle"
    BY <1>8 DEF ResetRecon, Freed, Idle, NoRequest
  <2>2. QED
    BY <2>1 DEF RowsKept, RowsInv, Owned, SoleOwner, MembersMatched, EmptyWhenAbsent, Leaving,
                Superseding, MatchedOwned
<1>9. QED
  BY <1>2, <1>3, <1>5, <1>6, <1>7, <1>8 DEF BooksRequest

-----------------------------------------------------------------------------
(* The invariant behind VoucherOneCurrency, which needs no assumption on   *)
(* the clients: a group that has a voucher has members of one currency, so *)
(* that every rebuild of its draft may take them all; and a GL:1 group has *)
(* one bank member, which is all its drafts book until it is posted.       *)

OneCurrencyGroups ==
  \A j \in Journal : journal[j].group \in Group => OneCurrency(members[journal[j].group])

GroupOfOne(g) ==
  /\ Posted(journal, g) = {}
  /\ \E b \in Bank : /\ members[g] \subseteq {b}
                     /\ \A j \in Journal : journal[j].group = g => journal[j].txns \subseteq {b}

CurrencyInv ==
  /\ VoucherOneCurrency
  /\ OneCurrencyGroups
  /\ \A g \in Group : card[g] = "glOnly" => GroupOfOne(g)

(* What a step may do to the voucher j: leave it in its place in the chain *)
(* with fewer lines (Kept) or with the members of its group (Redrawn),     *)
(* delete it or make it one of no group (Loose), make it the reversal of a *)
(* voucher (Reverses), or the first of a group (First).                    *)

SamePlace(j) ==
  /\ journal'[j].group = journal[j].group
  /\ journal'[j].rev = journal[j].rev
  /\ journal'[j].source = journal[j].source

Kept(j) == SamePlace(j) /\ journal'[j].txns \subseteq journal[j].txns

Redrawn(j) ==
  /\ SamePlace(j)
  /\ journal'[j].group \in Group
  /\ journal'[j].txns \subseteq members'[journal'[j].group]
  /\ OneCurrency(members'[journal'[j].group])

Loose(j) ==
  /\ journal'[j].group = NoGroup
  /\ OneCurrency(journal'[j].txns)
  /\ \/ journal'[j].source \in {"none", "manual"}
     \/ /\ journal'[j].source = "module_approve" /\ journal'[j].status = "draft"
        /\ \E t \in Txn : journal'[j].txns = {t} /\ status'[t] = "unreconciled"

Reverses(j) ==
  \E i \in Journal : /\ journal'[j].group = journal[i].group
                     /\ journal'[j].rev = i
                     /\ journal'[j].source = "recon_unmatch"
                     /\ journal'[j].txns = journal[i].txns

First(j) ==
  /\ journal'[j].group \in Group
  /\ journal'[j].rev = NoJournal
  /\ journal'[j].source = "recon_match"
  /\ journal'[j].txns \subseteq members'[journal'[j].group]
  /\ OneCurrency(members'[journal'[j].group])
  /\ \A k \in Journal : /\ journal[k].group # journal'[j].group
                        /\ k # j => journal'[k].group # journal'[j].group

VouchersMove ==
  \A j \in Journal : Kept(j) \/ Redrawn(j) \/ Loose(j) \/ Reverses(j) \/ First(j)

(* What it may do to the members of a group, to a GL:1 group and to its    *)
(* vouchers.                                                               *)
MembersMove ==
  \A g \in Group : \/ members'[g] \subseteq members[g]
                   \/ \A j \in Journal : journal[j].group # g
                   \/ OneCurrency(members'[g])

OneStaysOne ==
  \A g \in Group : card'[g] = "glOnly" =>
    /\ \A j \in Posted(journal', g) : j \in Posted(journal, g)
    /\ \/ card[g] = "glOnly" /\ members'[g] \subseteq members[g]
       \/ /\ \E b \in Bank : members'[g] = {b}
          /\ \A j \in Journal : journal[j].group # g /\ journal'[j].group # g

(* Only what post_journal lets through is posted.                          *)
Posting ==
  \A j \in Journal : journal'[j].status = "posted" =>
    journal[j].status = "posted" \/ PostAllowed(journal[j])

Moved == VouchersMove /\ MembersMove /\ OneStaysOne /\ Posting

(* A subset of transactions of one currency is one.                        *)
LEMMA CurrencyShrinks ==
  ASSUME NEW S, NEW T, T \subseteq S, OneCurrency(S)
  PROVE  OneCurrency(T)
BY DEF OneCurrency

(* Such a step keeps the invariant.                                        *)
LEMMA MovedCurrency ==
  ASSUME CurrencyInv, Moved
  PROVE  CurrencyInv'
<1>1. ASSUME NEW g \in Group, NEW j \in Journal, journal[j].group = g
      PROVE  OneCurrency(members'[g])
  <2>1. OneCurrency(members[g])
    BY <1>1 DEF CurrencyInv, OneCurrencyGroups
  <2>2. members'[g] \subseteq members[g] \/ OneCurrency(members'[g])
    BY <1>1 DEF Moved, MembersMove
  <2>3. QED
    BY <2>1, <2>2, CurrencyShrinks
<1>2. OneCurrencyGroups'
  <2>1. SUFFICES ASSUME NEW j \in Journal, journal'[j].group \in Group
                 PROVE  OneCurrency(members'[journal'[j].group])
    BY DEF OneCurrencyGroups
  <2>2. CASE Kept(j) \/ Reverses(j)
    BY <1>1, <2>1, <2>2 DEF Kept, SamePlace, Reverses
  <2>3. CASE Redrawn(j) \/ First(j)
    BY <2>3 DEF Redrawn, First
  <2>4. CASE Loose(j)
    BY <2>1, <2>4, IdsAssumption DEF Loose
  <2>5. QED
    BY <2>2, <2>3, <2>4 DEF Moved, VouchersMove
<1>3. VoucherOneCurrency'
  <2>1. SUFFICES ASSUME NEW j \in Journal
                 PROVE  OneCurrency(journal'[j].txns)
    BY DEF VoucherOneCurrency
  <2>2. \A i \in Journal : OneCurrency(journal[i].txns)
    BY DEF CurrencyInv, VoucherOneCurrency
  <2>3. CASE Kept(j) \/ Reverses(j)
    BY <2>2, <2>3, CurrencyShrinks DEF Kept, Reverses
  <2>4. CASE Redrawn(j) \/ First(j)
    BY <2>4, CurrencyShrinks DEF Redrawn, First
  <2>5. CASE Loose(j)
    BY <2>5 DEF Loose
  <2>6. QED
    BY <2>3, <2>4, <2>5 DEF Moved, VouchersMove
<1>4. ASSUME NEW g \in Group, card'[g] = "glOnly"
      PROVE  GroupOfOne(g)'
  <2>1. /\ \A j \in Posted(journal', g) : j \in Posted(journal, g)
        /\ \/ card[g] = "glOnly" /\ members'[g] \subseteq members[g]
           \/ /\ \E b \in Bank : members'[g] = {b}
              /\ \A j \in Journal : journal[j].group # g /\ journal'[j].group # g
    BY <1>4 DEF Moved, OneStaysOne
  <2>2. CASE card[g] = "glOnly" /\ members'[g] \subseteq members[g]
    <3>1. Posted(journal, g) = {}
      BY <2>2 DEF CurrencyInv, GroupOfOne
    <3>2. PICK b \in Bank :
            /\ members[g] \subseteq {b}
            /\ \A j \in Journal : journal[j].group = g => journal[j].txns \subseteq {b}
      BY <2>2 DEF CurrencyInv, GroupOfOne
    <3>3. ASSUME NEW j \in Journal, journal'[j].group = g
          PROVE  journal'[j].txns \subseteq {b}
      <4>1. CASE Kept(j) \/ Reverses(j)
        BY <3>2, <3>3, <4>1 DEF Kept, SamePlace, Reverses
      <4>2. CASE Redrawn(j) \/ First(j)
        BY <2>2, <3>2, <3>3, <4>2 DEF Redrawn, First
      <4>3. CASE Loose(j)
        BY <3>3, <4>3, IdsAssumption DEF Loose
      <4>4. QED
        BY <4>1, <4>2, <4>3 DEF Moved, VouchersMove
    <3>4. QED
      BY <2>1, <2>2, <3>1, <3>2, <3>3 DEF GroupOfOne
  <2>3. CASE /\ \E b \in Bank : members'[g] = {b}
             /\ \A j \in Journal : journal[j].group # g /\ journal'[j].group # g
    BY <2>3 DEF GroupOfOne, Posted
  <2>4. QED
    BY <2>1, <2>2, <2>3
<1>5. QED
  BY <1>2, <1>3, <1>4 DEF CurrencyInv

-----------------------------------------------------------------------------
(* The steps of the requests, in these terms.                              *)

PostsStay ==
  \A j \in Journal : journal'[j].status = "posted" =>
    journal[j].status = "posted" /\ journal'[j].group = journal[j].group

(* Deleting and rewriting rows posts nothing.                              *)
LEMMA ShrinksPosts ==
  ASSUME Shrinks(journal, journal')
  PROVE  PostsStay
BY DEF Shrinks, PostsStay

(* Deleting drafts.                                                        *)
LEMMA DropMoves ==
  ASSUME IInv, NEW S, \A j \in S : journal[j].status = "draft",
         journal' = DropRows(journal, S)
  PROVE  VouchersMove /\ PostsStay
<1>1. journal \in JournalTable
  BY IInvParts DEF Good
<1>2. PostsStay
  BY <1>1, DropRowsShrinks, ShrinksPosts
<1>3. ASSUME NEW j \in Journal PROVE Kept(j) \/ Loose(j)
  <2>1. CASE j \in S
    BY <2>1 DEF DropRows, NoRow, Loose, OneCurrency
  <2>2. CASE j \notin S
    BY <2>2 DEF DropRows, Kept, SamePlace
  <2>3. QED
    BY <2>1, <2>2
<1>4. QED
  BY <1>2, <1>3 DEF VouchersMove

(* A rebuilt row keeps its place and books what it is given.               *)
LEMMA RebuiltLines ==
  ASSUME NEW row \in JournalRow, NEW S \in SUBSET Txn
  PROVE  /\ Rebuilt(row, S).txns = S /\ Rebuilt(row, S).status = row.status
         /\ Rebuilt(row, S).group = row.group /\ Rebuilt(row, S).rev = row.rev
         /\ Rebuilt(row, S).source = row.source
BY DEF Rebuilt, JournalRow

(* Rewriting drafts with the members of their groups.                      *)
LEMMA RebuildMoves ==
  ASSUME IInv, CurrencyInv, journal' \in JournalTable,
         \A g \in Group : members'[g] \subseteq members[g],
         \A j \in Journal :
           \/ journal'[j] = journal[j]
           \/ \E T \in SUBSET journal[j].txns : journal'[j] = Rebuilt(journal[j], T)
           \/ /\ journal[j].group \in Group
              /\ journal'[j] = Rebuilt(journal[j], members'[journal[j].group])
  PROVE  VouchersMove /\ PostsStay
<1>1. journal \in JournalTable /\ RowsTyped
  BY IInvParts DEF Good
<1>2. ASSUME NEW j \in Journal
      PROVE  (Kept(j) \/ Redrawn(j)) /\ journal'[j].status = journal[j].status
                /\ journal'[j].group = journal[j].group
  <2>1. journal[j] \in JournalRow /\ journal[j].txns \in SUBSET Txn
    BY <1>1 DEF JournalTable, JournalRow
  <2>2. CASE journal'[j] = journal[j]
    BY <2>2 DEF Kept, SamePlace
  <2>3. ASSUME NEW T \in SUBSET journal[j].txns, journal'[j] = Rebuilt(journal[j], T)
        PROVE  Kept(j) /\ journal'[j].status = journal[j].status
                  /\ journal'[j].group = journal[j].group
    <3>1. T \in SUBSET Txn
      BY <2>1
    <3>2. QED
      BY <2>1, <2>3, <3>1, RebuiltLines DEF Kept, SamePlace
  <2>4. ASSUME journal[j].group \in Group,
               journal'[j] = Rebuilt(journal[j], members'[journal[j].group])
        PROVE  Redrawn(j) /\ journal'[j].status = journal[j].status
                  /\ journal'[j].group = journal[j].group
    <3> DEFINE h == journal[j].group
    <3>1. members'[h] \in SUBSET Txn
      BY <1>1, <2>4 DEF RowsTyped
    <3>2. OneCurrency(members'[h])
      BY <2>4, CurrencyShrinks DEF CurrencyInv, OneCurrencyGroups
    <3>3. QED
      BY <2>1, <2>4, <3>1, <3>2, RebuiltLines DEF Redrawn, SamePlace
  <2>5. QED
    BY <2>2, <2>3, <2>4
<1>3. QED
  BY <1>2 DEF VouchersMove, PostsStay, Posted

(* Steps that leave the rows alone.                                        *)
LEMMA RowsAlone ==
  ASSUME UNCHANGED rows, VouchersMove, PostsStay
  PROVE  Moved
BY DEF Moved, MembersMove, OneStaysOne, PostsStay, Posted, Posting, rows

(* Steps that leave the vouchers alone.                                    *)
LEMMA VouchersAlone ==
  ASSUME UNCHANGED journal
  PROVE  VouchersMove /\ PostsStay
BY DEF VouchersMove, Kept, SamePlace, PostsStay, Posted

(* Dissolving a group.                                                     *)
LEMMA DissolveMoves ==
  ASSUME IInv, NEW g \in Group, NEW c \in {"absent", card[g]}, DissolveRows(g, c)
  PROVE  Moved
<1>1. RowsTyped
  BY IInvParts
<1>2. /\ \A h \in Group : members'[h] \subseteq members[h]
      /\ \A h \in Group : card'[h] \in {"absent", card[h]}
  BY <1>1 DEF DissolveRows, RowsTyped
<1>3. VouchersMove /\ PostsStay
  BY DropMoves DEF DissolveRows, DeleteGroupDrafts, Drafts
<1>4. QED
  BY <1>2, <1>3 DEF Moved, MembersMove, OneStaysOne, PostsStay, Posted, Posting

(* Removing a member, which may dissolve the group.                        *)
LEMMA RemoveMoves ==
  ASSUME IInv, CurrencyInv, NEW g \in Group, NEW t, RemoveGroupMember(g, t)
  PROVE  Moved
<1>1. RowsTyped /\ Good(journal)
  BY IInvParts
<1>2. CASE DissolveRows(g, "absent")
  BY <1>2, DissolveMoves
<1>3. CASE RemoveRows(g, t)
  <2>1. /\ \A h \in Group : members'[h] \subseteq members[h]
        /\ \A h \in Group : card'[h] = "glOnly" => card[h] = "glOnly"
        /\ members'[g] = members[g] \ {t}
    BY <1>1, <1>3 DEF RemoveRows, RowsTyped
  <2>2. journal' = RebuildRows(journal, PrimaryDrafts(journal, g), members'[g])
    BY <1>1, <1>3, <2>1, PrunedIsIdentity DEF RemoveRows, RebuildPrimary, Good
  <2>3. \A j \in Journal : \/ journal'[j] = journal[j]
                           \/ /\ journal[j].group = g
                              /\ journal'[j] = Rebuilt(journal[j], members'[g])
    BY <2>2 DEF RebuildRows, PrimaryDrafts, Drafts
  <2>4. journal' \in JournalTable
    BY <1>3, RemoveGood DEF RemoveGroupMember, Good
  <2>5. VouchersMove /\ PostsStay
    BY <2>1, <2>3, <2>4, RebuildMoves
  <2>6. QED
    BY <2>1, <2>5 DEF Moved, MembersMove, OneStaysOne, PostsStay, Posted, Posting
<1>4. QED
  BY <1>2, <1>3 DEF RemoveGroupMember

(* Creating a group.                                                       *)
LEMMA CreateGroupMoves ==
  ASSUME IInv, NEW S, NEW c, NEW then, CreateGroup(S, c, then),
         c = "glOnly" => \E b \in Bank : S = {b}
  PROVE  Moved
<1>1. RowsTyped
  BY IInvParts
<1>2. PICK g \in Group :
        /\ FreshGroup(g)
        /\ members' = [members EXCEPT ![g] = S]
        /\ card' = [card EXCEPT ![g] = c]
        /\ journal' = journal
  BY DEF CreateGroup
<1>3. /\ \A h \in Group : members'[h] = IF h = g THEN S ELSE members[h]
      /\ \A h \in Group : card'[h] = IF h = g THEN c ELSE card[h]
      /\ \A j \in Journal : journal[j].group # g
  BY <1>1, <1>2 DEF RowsTyped, FreshGroup
<1>4. VouchersMove /\ PostsStay
  BY <1>2, VouchersAlone
<1>5. MembersMove
  BY <1>3 DEF MembersMove
<1>6. OneStaysOne
  BY <1>2, <1>3, <1>4 DEF OneStaysOne, PostsStay, Posted
<1>7. QED
  BY <1>4, <1>5, <1>6 DEF Moved, PostsStay, Posting

(* Ensuring the draft of a group.                                          *)
LEMMA EnsureMoves ==
  ASSUME IInv, CurrencyInv, NEW g \in Group, EnsureDraftForGroup(g), UNCHANGED rows
  PROVE  VouchersMove /\ PostsStay
<1>1. RowsTyped /\ Good(journal) /\ Good(journal')
  BY IInvParts, EnsureDraftGood DEF IInv
<1>2. Pruned(journal, g) = journal /\ members' = members
  BY <1>1, PrunedIsIdentity DEF Good, rows
<1>3. CASE journal' = RefreshPrimary(journal, g)
  <2> DEFINE ds == {j \in PrimaryDrafts(journal, g) : Stale(journal[j], g)}
  <2>1. journal' = RebuildRows(journal, ds, members[g])
    BY <1>2, <1>3 DEF RefreshPrimary
  <2>2. \A j \in ds : journal[j].group = g
    BY DEF PrimaryDrafts, Drafts
  <2> HIDE DEF ds
  <2>3. \A j \in Journal : \/ journal'[j] = journal[j]
                           \/ /\ journal[j].group = g
                              /\ journal'[j] = Rebuilt(journal[j], members'[g])
    BY <1>2, <2>1, <2>2 DEF RebuildRows
  <2>4. QED
    BY <1>1, <1>2, <2>3, RebuildMoves DEF Good
<1>4. CASE journal' = journal
  BY <1>4, VouchersAlone
<1>5. ASSUME Drafts(journal, g) \union Posted(journal, g) = {}, OneCurrency(members[g]),
             NEW j \in Journal,
             journal' = [journal EXCEPT ![j] = NewDraft(g, "recon_match", members[g])]
      PROVE  VouchersMove /\ PostsStay
  <2>1. /\ journal'[j] = NewDraft(g, "recon_match", members[g])
        /\ \A k \in Journal : k # j => journal'[k] = journal[k]
    BY <1>1, <1>5 DEF Good, JournalTable
  <2>2. \A k \in Journal : journal[k].group # g
    BY <1>1, <1>5, IdsAssumption DEF Drafts, Posted, Good, JournalTable, JournalRow, Chained
  <2>3. /\ journal'[j].status = "draft" /\ journal'[j].group = g
        /\ journal'[j].rev = NoJournal /\ journal'[j].txns = members[g]
        /\ journal'[j].source = "recon_match"
    BY <2>1 DEF NewDraft
  <2>4. First(j)
    BY <1>2, <1>5, <2>1, <2>2, <2>3 DEF First
  <2>5. \A k \in Journal : k # j => Kept(k)
    BY <2>1 DEF Kept, SamePlace
  <2>6. PostsStay
    BY <2>1, <2>3 DEF PostsStay, Posted
  <2>7. QED
    BY <2>4, <2>5, <2>6 DEF VouchersMove
<1>6. QED
  BY <1>2, <1>3, <1>4, <1>5 DEF EnsureDraftForGroup

(* Rebuilding the stale drafts of other groups.                            *)
LEMMA StaleMoves ==
  ASSUME IInv, CurrencyInv, NEW S, journal' = RebuildStale(journal, S), UNCHANGED rows
  PROVE  VouchersMove /\ PostsStay
<1>1. RowsTyped /\ Good(journal)
  BY IInvParts
<1>2. journal' \in JournalTable
  BY <1>1, RebuildStaleShrinks DEF RowsTyped, Good
<1>3. \A j \in Journal :
        \/ journal'[j] = journal[j]
        \/ /\ journal[j].group \in Group
           /\ journal'[j] = Rebuilt(journal[j], members[journal[j].group])
  BY DEF RebuildStale, PrimaryDrafts, Drafts
<1>4. members' = members
  BY DEF rows
<1>5. QED
  BY <1>2, <1>3, <1>4, RebuildMoves

(* Refreshing or creating the draft of a module row.                       *)
LEMMA ModuleDraftMoves ==
  ASSUME IInv, NEW t \in Txn, RefreshModuleDraft(t), status'[t] = "unreconciled"
  PROVE  VouchersMove /\ PostsStay
<1>1. journal \in JournalTable
  BY IInvParts DEF Good
<1>2. ASSUME NEW j \in Journal, j \in ModuleJournals(journal, {t}),
             journal[j].status = "draft", journal' = [journal EXCEPT ![j] = Rebuilt(@, {t})]
      PROVE  VouchersMove /\ PostsStay
  <2>1. /\ journal'[j] = Rebuilt(journal[j], {t})
        /\ \A k \in Journal : k # j => journal'[k] = journal[k]
    BY <1>1, <1>2 DEF JournalTable
  <2>2. journal[j] \in JournalRow /\ {t} \in SUBSET Txn /\ {t} \subseteq journal[j].txns
    BY <1>1, <1>2 DEF JournalTable, ModuleJournals
  <2>3. Kept(j) /\ journal'[j].status = "draft"
    BY <1>2, <2>1, <2>2, RebuiltLines DEF Kept, SamePlace
  <2>4. \A k \in Journal : Kept(k)
    BY <2>1, <2>3 DEF Kept, SamePlace
  <2>5. PostsStay
    BY <2>1, <2>3 DEF PostsStay, Posted
  <2>6. QED
    BY <2>4, <2>5 DEF VouchersMove
<1>3. ASSUME NEW j \in Journal,
             journal' = [journal EXCEPT ![j] = NewDraft(NoGroup, "module_approve", {t})]
      PROVE  VouchersMove /\ PostsStay
  <2>1. /\ journal'[j] = NewDraft(NoGroup, "module_approve", {t})
        /\ \A k \in Journal : k # j => journal'[k] = journal[k]
    BY <1>1, <1>3 DEF JournalTable
  <2>2. /\ journal'[j].status = "draft" /\ journal'[j].group = NoGroup
        /\ journal'[j].source = "module_approve" /\ journal'[j].txns = {t}
    BY <2>1 DEF NewDraft
  <2>3. Loose(j)
    BY <2>2 DEF Loose, OneCurrency
  <2>4. \A k \in Journal : k # j => Kept(k)
    BY <2>1 DEF Kept, SamePlace
  <2>5. PostsStay
    BY <2>1, <2>2 DEF PostsStay, Posted
  <2>6. QED
    BY <2>3, <2>4, <2>5 DEF VouchersMove
<1>4. QED
  BY <1>2, <1>3 DEF RefreshModuleDraft, ModuleJournals

(* The matching requests and their commits.                                *)
LEMMA MatchRequestMoves ==
  ASSUME MatchRequest, IInv
  PROVE  Moved
<1>1. ASSUME NEW A, NEW B, StartMultiMatch(A, B)
      PROVE  Moved
  BY <1>1, VouchersAlone, RowsAlone DEF StartMultiMatch
<1>2. QED
  BY <1>1, CreateGroupMoves
  DEF MatchRequest, ClearBankTransactions, GlOnlyMatch, LedgerPendingMatch

(* The commits of a match request move rows and vouchers in these ways.    *)
LEMMA MatchStepMoves ==
  ASSUME IInv, CurrencyInv, MatchStep
  PROVE  Moved
<1>1. RowsTyped /\ req \in RequestRow
  BY IInvParts
<1>2. \A p \in req.todo : p[1] \in Group
  BY <1>1 DEF RequestRow
<1>3. CASE Supersede
  BY <1>2, <1>3, RemoveMoves DEF Supersede
<1>4. CASE NextSide \/ RequestFails
  BY <1>4, VouchersAlone, RowsAlone DEF NextSide, RequestFails
<1>5. CASE CreateMatch
  BY <1>5, CreateGroupMoves DEF CreateMatch
<1>6. CASE Prune
  BY <1>6, DropMoves, RowsAlone DEF Prune, PruneOrphans
<1>7. CASE Rebuild
  BY <1>7, StaleMoves, RowsAlone DEF Rebuild
<1>8. CASE MergeDrafts
  BY <1>8, DropMoves, RowsAlone DEF MergeDrafts, DeleteModuleDrafts
<1>9. CASE FinishMatch
  <2>1. req.g \in Group
    BY <1>1, <1>9 DEF FinishMatch, RequestRow
  <2>2. QED
    BY <1>9, <2>1, EnsureMoves, RowsAlone DEF FinishMatch
<1>10. CASE Crash
  <2>1. CASE UNCHANGED <<rows, journal>>
    BY <2>1, VouchersAlone, RowsAlone
  <2>2. ASSUME NEW p \in req.todo, DissolveRows(p[1], card[p[1]])
        PROVE  Moved
    BY <1>2, <2>2, DissolveMoves
  <2>3. QED
    BY <1>10, <2>1, <2>2 DEF Crash
<1>11. QED
  BY <1>3, <1>4, <1>5, <1>6, <1>7, <1>8, <1>9, <1>10 DEF MatchStep

(* And so do the unmatching of a member and the dissolution of a group.    *)
LEMMA UnmatchRequestMoves ==
  ASSUME IInv, CurrencyInv, UnmatchRequest
  PROVE  Moved
BY RemoveMoves, DissolveMoves DEF UnmatchRequest, GroupUnmatchMember, DissolveGroup

(* Posting a row changes its status and leaves the other rows alone.       *)
LEMMA PostRowFields ==
  ASSUME journal \in JournalTable, NEW j \in Journal, NEW row \in JournalRow, PostRow(j, row)
  PROVE  /\ journal'[j].status = "posted" /\ journal'[j].group = row.group
         /\ journal'[j].rev = row.rev /\ journal'[j].source = row.source
         /\ journal'[j].txns = row.txns
         /\ \A k \in Journal : k # j => journal'[k] = journal[k]
BY DEF PostRow, JournalTable, JournalRow

(* finalize_gl_only_before_post: the group of one becomes a pair of one    *)
(* currency, and its voucher books nothing but the two.                    *)
LEMMA PostGlOnlyMoves ==
  ASSUME IInv, CurrencyInv, NEW j \in Journal, PostGlOnly(j)
  PROVE  Moved /\ Posted(journal, journal[j].group) = {} /\ Redrawn(j)
<1> DEFINE g == journal[j].group
<1>1. RowsTyped /\ journal \in JournalTable
  BY IInvParts DEF Good
<1>2. journal[j] \in JournalRow
  BY <1>1 DEF JournalTable
<1>3. PICK b \in Bank, c \in Txn :
        /\ members[g] \intersect Bank = {b}
        /\ Currency[c] = Currency[b]
        /\ \/ PostRow(j, [journal[j] EXCEPT !.txns = {b, c}, !.bal = "even"])
           \/ \E row \in WithLedgerCounterpart(journal[j], b, c) : PostRow(j, row)
        /\ members' = [members EXCEPT ![g] = @ \union {c}]
  BY DEF PostGlOnly
<1>4. journal[j].status = "draft" /\ g \in Group /\ card[g] = "glOnly"
        /\ card' = [card EXCEPT ![g] = "paired"]
  BY DEF PostGlOnly
<1>5. GroupOfOne(g)
  BY <1>4 DEF CurrencyInv
<1>6. members[g] = {b} /\ journal[j].txns \subseteq {b} /\ Posted(journal, g) = {}
  BY <1>3, <1>5 DEF GroupOfOne
<1>7. members'[g] = {b, c} /\ OneCurrency({b, c})
  BY <1>1, <1>3, <1>4, <1>6 DEF RowsTyped, OneCurrency
<1>8. /\ journal'[j].group = g /\ SamePlace(j) /\ journal'[j].txns \subseteq {b, c}
      /\ \A k \in Journal : k # j => journal'[k] = journal[k]
  <2>1. ASSUME NEW row \in JournalRow, PostRow(j, row), row.txns \subseteq {b, c},
               row.group = g, row.rev = journal[j].rev, row.source = journal[j].source
        PROVE  /\ journal'[j].group = g /\ SamePlace(j) /\ journal'[j].txns \subseteq {b, c}
               /\ \A k \in Journal : k # j => journal'[k] = journal[k]
    BY <1>1, <2>1, PostRowFields DEF SamePlace
  <2>2. b \in Txn
    BY DEF Txn
  <2>3. \A S \in SUBSET Txn :
          LET row == [journal[j] EXCEPT !.txns = S, !.bal = "even"]
          IN  /\ row \in JournalRow /\ row.txns = S /\ row.group = g
              /\ row.rev = journal[j].rev /\ row.source = journal[j].source
    BY <1>2 DEF JournalRow, Balance
  <2> DEFINE Even(S) == [journal[j] EXCEPT !.txns = S, !.bal = "even"]
  <2>4. \A S \in SUBSET {b, c} : PostRow(j, Even(S)) =>
          /\ journal'[j].group = g /\ SamePlace(j) /\ journal'[j].txns \subseteq {b, c}
          /\ \A k \in Journal : k # j => journal'[k] = journal[k]
    <3>1. \A S \in SUBSET {b, c} : S \in SUBSET Txn
      BY <2>2
    <3>2. \A S \in SUBSET {b, c} :
            /\ Even(S) \in JournalRow /\ Even(S).txns = S /\ Even(S).group = g
            /\ Even(S).rev = journal[j].rev /\ Even(S).source = journal[j].source
      BY <2>3, <3>1
    <3> HIDE DEF Even
    <3>3. QED
      BY <2>1, <3>2
  <2>5. CASE PostRow(j, Even({b, c}))
    BY <2>4, <2>5
  <2>6. ASSUME NEW row \in WithLedgerCounterpart(journal[j], b, c), PostRow(j, row)
        PROVE  /\ journal'[j].group = g /\ SamePlace(j) /\ journal'[j].txns \subseteq {b, c}
               /\ \A k \in Journal : k # j => journal'[k] = journal[k]
    <3>1. journal[j].txns \union {c} \in SUBSET {b, c}
      BY <1>6
    <3>2. row = Even(journal[j].txns \union {c}) \/ row = journal[j]
      BY <1>2, <2>6 DEF WithLedgerCounterpart, JournalRow
    <3> HIDE DEF Even
    <3>3. CASE row = journal[j]
      BY <1>2, <1>6, <2>1, <2>6, <3>3
    <3>4. QED
      BY <2>4, <2>6, <3>1, <3>2, <3>3
  <2>7. QED
    BY <1>3, <2>5, <2>6
<1>9. Redrawn(j)
  BY <1>4, <1>7, <1>8 DEF Redrawn
<1>10. \A k \in Journal : k # j => Kept(k)
  BY <1>8 DEF Kept, SamePlace
<1>11. MembersMove
  BY <1>1, <1>3, <1>4, <1>7 DEF MembersMove, RowsTyped
<1>12. OneStaysOne
  <2>1. SUFFICES ASSUME NEW h \in Group, card'[h] = "glOnly"
                 PROVE  /\ \A k \in Posted(journal', h) : k \in Posted(journal, h)
                        /\ card[h] = "glOnly" /\ members'[h] \subseteq members[h]
    BY DEF OneStaysOne
  <2>2. h # g /\ card[h] = "glOnly" /\ members'[h] = members[h]
    BY <1>1, <1>3, <1>4, <2>1 DEF RowsTyped
  <2>3. QED
    BY <1>8, <2>2 DEF Posted
<1>13. Posting
  BY <1>4, <1>8, IdsAssumption DEF Posting, PostAllowed
<1>14. QED
  BY <1>6, <1>9, <1>10, <1>11, <1>12, <1>13 DEF Moved, VouchersMove

(* The journal endpoints.                                                  *)
LEMMA JournalRequestMoves ==
  ASSUME IInv, CurrencyInv, JournalRequest
  PROVE  Moved
<1>1. journal \in JournalTable /\ \A j \in Journal : journal[j] \in JournalRow
  BY IInvParts DEF Good, JournalTable
<1>2. ASSUME NEW g \in Group, EnsureDraft(g)
      PROVE  Moved
  BY <1>2, EnsureMoves, RowsAlone DEF EnsureDraft
<1>3. ASSUME NEW g \in Group, DeleteDraftByGroup(g)
      PROVE  Moved
  <2>1. \A j \in Drafts(journal, g) : journal[j].status = "draft"
    BY DEF Drafts
  <2>2. QED
    BY <1>3, <2>1, DropMoves, RowsAlone DEF DeleteDraftByGroup, DeleteGroupDrafts
<1>4. ASSUME NEW j \in Journal, NEW row, journal' = [journal EXCEPT ![j] = row],
             UNCHANGED rows, row.status # "posted",
             Kept(j) \/ Loose(j) \/ Reverses(j)
      PROVE  Moved
  <2>1. journal'[j] = row /\ \A k \in Journal : k # j => journal'[k] = journal[k]
    BY <1>1, <1>4 DEF JournalTable
  <2>2. \A k \in Journal : k # j => Kept(k)
    BY <2>1 DEF Kept, SamePlace
  <2>3. PostsStay
    BY <1>4, <2>1 DEF PostsStay, Posted
  <2>4. QED
    BY <1>4, <2>2, <2>3, RowsAlone DEF VouchersMove
<1>5. ASSUME NEW j \in Journal, CreateManual(j)
      PROVE  Moved
  <2> DEFINE row == [NewDraft(NoGroup, "manual", {}) EXCEPT !.bal = "even"]
  <2>1. /\ row.status = "draft" /\ row.group = NoGroup /\ row.source = "manual"
        /\ row.txns = {}
    BY DEF NewDraft
  <2>2. UNCHANGED rows /\ journal' = [journal EXCEPT ![j] = row]
    BY <1>5 DEF CreateManual
  <2> HIDE DEF row
  <2>3. Loose(j)
    BY <1>1, <2>1, <2>2 DEF Loose, OneCurrency, JournalTable
  <2>4. QED
    BY <1>4, <2>1, <2>2, <2>3
<1>6. ASSUME NEW j \in Journal, UpdateDraft(j)
      PROVE  Moved
  <2>1. PICK S \in SUBSET journal[j].txns : \E b \in EditedBalances(journal[j], S) :
          journal' = [journal EXCEPT ![j].txns = S, ![j].bal = b]
    BY <1>6 DEF UpdateDraft
  <2>2. PICK b : journal' = [journal EXCEPT ![j].txns = S, ![j].bal = b]
    BY <2>1
  <2> DEFINE row == [journal[j] EXCEPT !.txns = S, !.bal = b]
  <2>3. /\ row.status = journal[j].status /\ row.group = journal[j].group
        /\ row.rev = journal[j].rev /\ row.source = journal[j].source /\ row.txns = S
    BY <1>1 DEF JournalRow
  <2>4. journal' = [journal EXCEPT ![j] = row]
    BY <1>1, <2>2 DEF JournalTable, JournalRow
  <2> HIDE DEF row
  <2>5. Kept(j)
    BY <1>1, <2>1, <2>3, <2>4 DEF Kept, SamePlace, JournalTable
  <2>6. QED
    BY <1>4, <1>6, <2>3, <2>4, <2>5 DEF UpdateDraft
<1>7. ASSUME NEW j \in Journal, PostJournal(j)
      PROVE  Moved
  <2>1. /\ journal'[j].status = "posted" /\ SamePlace(j) /\ journal'[j].txns = journal[j].txns
        /\ \A k \in Journal : k # j => journal'[k] = journal[k]
    BY <1>1, <1>7, PostRowFields DEF PostJournal, SamePlace
  <2>2. \A k \in Journal : Kept(k)
    BY <2>1 DEF Kept, SamePlace
  <2>3. OneStaysOne
    BY <1>7, <2>1 DEF PostJournal, OneStaysOne, Posted, SamePlace, rows
  <2>4. Posting
    BY <1>7, <2>1 DEF PostJournal, Posting
  <2>5. QED
    BY <1>7, <2>2, <2>3, <2>4 DEF PostJournal, Moved, VouchersMove, MembersMove, rows
<1>8. ASSUME NEW j \in Journal, UnpostJournal(j)
      PROVE  Moved
  <2> DEFINE row == [journal[j] EXCEPT !.status = "draft"]
  <2>1. /\ row.status = "draft" /\ row.group = journal[j].group /\ row.rev = journal[j].rev
        /\ row.source = journal[j].source /\ row.txns = journal[j].txns
    BY <1>1 DEF JournalRow
  <2>2. journal' = [journal EXCEPT ![j] = row]
    BY <1>1, <1>8 DEF UnpostJournal, JournalTable
  <2> HIDE DEF row
  <2>3. Kept(j)
    BY <1>1, <2>1, <2>2 DEF Kept, SamePlace, JournalTable
  <2>4. QED
    BY <1>4, <1>8, <2>1, <2>2, <2>3 DEF UnpostJournal
<1>9. ASSUME NEW j \in Journal, CreateReversal(j)
      PROVE  Moved
  <2>1. PICK k \in Journal : journal' = [journal EXCEPT ![k] = ReversalOf(j)]
    BY <1>9 DEF CreateReversal
  <2>2. journal'[k] = ReversalOf(j)
    BY <1>1, <2>1 DEF JournalTable
  <2>3. Reverses(k) /\ ReversalOf(j).status = "draft"
    BY <2>2 DEF Reverses, ReversalOf
  <2>4. QED
    BY <1>4, <1>9, <2>1, <2>3 DEF CreateReversal
<1>10. QED
  BY <1>2, <1>3, <1>5, <1>6, <1>7, <1>8, <1>9, PostGlOnlyMoves DEF JournalRequest

(* The Books requests.                                                     *)
LEMMA BooksRequestMoves ==
  ASSUME IInv, CurrencyInv, BooksRequest
  PROVE  Moved
<1>1. RowsTyped /\ journal \in JournalTable /\ \A j \in Journal : journal[j] \in JournalRow
  BY IInvParts DEF Good, JournalTable
<1>2. ASSUME VouchersMove, PostsStay, \A g \in Group : members'[g] \subseteq members[g],
             \A g \in Group : card'[g] \in {"absent", card[g]}
      PROVE  Moved
  BY <1>2 DEF Moved, MembersMove, OneStaysOne, PostsStay, Posted, Posting
<1>3. ASSUME NEW t \in Txn, ImportTxn(t)
      PROVE  Moved
  <2>1. status'[t] = "unreconciled" /\ members' = members /\ card' = card
    BY <1>1, <1>3 DEF ImportTxn, RowsTyped
  <2>2. VouchersMove /\ PostsStay
    BY <1>3, <2>1, ModuleDraftMoves, VouchersAlone DEF ImportTxn
  <2>3. QED
    BY <1>2, <2>1, <2>2
<1>4. ASSUME NEW t \in Txn, RecodeTxn(t)
      PROVE  Moved
  <2>1. journal' \in JournalTable /\ members' = members
    BY <1>4, BooksRequestGood DEF BooksRequest, IInv, TypeOK, JournalTable, RecodeTxn, rows
  <2>2. \A j \in ModuleJournals(journal, {t}) : {t} \subseteq journal[j].txns
    BY DEF ModuleJournals
  <2>3. \A g \in Group : \A j \in PrimaryDrafts(journal, g) : journal[j].group = g
    BY DEF PrimaryDrafts, Drafts
  <2>4. \A j \in Journal :
          \/ journal'[j] = journal[j]
          \/ \E T \in SUBSET journal[j].txns : journal'[j] = Rebuilt(journal[j], T)
          \/ /\ journal[j].group \in Group
             /\ journal'[j] = Rebuilt(journal[j], members[journal[j].group])
    BY <1>4, <2>2, <2>3 DEF RecodeTxn
  <2>5. VouchersMove /\ PostsStay
    BY <2>1, <2>4, RebuildMoves
  <2>6. QED
    BY <1>4, <2>5, RowsAlone DEF RecodeTxn
<1>5. ASSUME NEW S, NEW onlyOpen, PurgeTxns(S, onlyOpen)
      PROVE  Moved
  <2> DEFINE M == {j \in ModuleJournals(journal, S) : journal[j].status = "draft"}
             kept == DropRows(journal, M)
             O == {j \in Journal : /\ kept[j].status = "draft"
                                   /\ kept[j].group \in Group
                                   /\ card[kept[j].group] = "absent"}
  <2>1. /\ journal' = kept \/ journal' = DropRows(kept, O)
        /\ card' = card /\ members' = [g \in Group |-> members[g] \ S]
    BY <1>5 DEF PurgeTxns, DeleteModuleDrafts, PruneOrphans
  <2>2. \A j \in O : journal[j].status = "draft"
    BY DEF DropRows, NoRow
  <2>3. DropRows(kept, O) = DropRows(journal, M \union O)
    BY DEF DropRows
  <2>4. \A j \in M \union O : journal[j].status = "draft"
    BY <2>2
  <2> HIDE DEF M, O
  <2>5. VouchersMove /\ PostsStay
    BY <2>1, <2>3, <2>4, DropMoves
  <2>6. QED
    BY <1>2, <2>1, <2>5
<1>6. CASE ResetRecon
  <2>1. VouchersMove /\ PostsStay
    BY <1>6, DropMoves DEF ResetRecon, PruneOrphans
  <2>2. QED
    BY <1>2, <1>6, <2>1 DEF ResetRecon
<1>7. QED
  BY <1>3, <1>4, <1>5, <1>6
  DEF BooksRequest, ClearUnreconciledPool, PurgeUnreconciled, PurgeExceptKept

-----------------------------------------------------------------------------
(* What the vouchers of a group book.  The clients of a company that never *)
(* resets its desk nor purges by ids or down to a kept set (Calm) find     *)
(* every line of a group's voucher among its members; and a posted voucher *)
(* freezes its group.                                                      *)

Calm == Features \intersect {"sameMode", "purgeByIds", "purgeExceptKept", "reset"} = {}

LinesOwned ==
  \A j \in Journal : journal[j].group \in Group => journal[j].txns \subseteq members[journal[j].group]

(* A match voucher is the first of its group, and a group has one first.   *)
MatchIsFirst ==
  \A j \in Journal : journal[j].source = "recon_match" =>
    journal[j].group \in Group /\ journal[j].rev = NoJournal

OneFirst ==
  \A j, k \in Journal :
    /\ journal[j].group \in Group /\ journal[j].group = journal[k].group
    /\ journal[j].rev = NoJournal /\ journal[k].rev = NoJournal
    => j = k

Firsts == MatchIsFirst /\ OneFirst

(* A step that moves vouchers as it may keeps them so.                     *)
LEMMA MovedFirsts ==
  ASSUME Firsts, Moved
  PROVE  Firsts'
<1>1. MatchIsFirst'
  <2>1. SUFFICES ASSUME NEW j \in Journal, journal'[j].source = "recon_match"
                 PROVE  journal'[j].group \in Group /\ journal'[j].rev = NoJournal
    BY DEF MatchIsFirst
  <2>2. CASE Kept(j) \/ Redrawn(j)
    BY <2>1, <2>2 DEF Kept, Redrawn, SamePlace, Firsts, MatchIsFirst
  <2>3. CASE Loose(j) \/ Reverses(j) \/ First(j)
    BY <2>1, <2>3 DEF Loose, Reverses, First
  <2>4. QED
    BY <2>2, <2>3 DEF Moved, VouchersMove
<1>2. ASSUME NEW j \in Journal, journal'[j].group \in Group, journal'[j].rev = NoJournal
      PROVE  SamePlace(j) \/ First(j)
  BY <1>2, IdsAssumption DEF Moved, VouchersMove, Kept, Redrawn, Loose, Reverses
<1>3. ASSUME NEW j \in Journal, NEW k \in Journal, journal'[j].group \in Group,
             journal'[j].group = journal'[k].group,
             journal'[j].rev = NoJournal, journal'[k].rev = NoJournal
      PROVE  j = k
  <2>1. CASE First(j) \/ First(k)
    BY <1>3, <2>1 DEF First
  <2>2. CASE SamePlace(j) /\ SamePlace(k)
    BY <1>3, <2>2 DEF SamePlace, Firsts, OneFirst
  <2>3. QED
    BY <1>2, <1>3, <2>1, <2>2
<1>4. QED
  BY <1>1, <1>3 DEF Firsts, OneFirst

(* What a step may do to the rows of a group under its vouchers.           *)
RowsHold ==
  \A g \in Group :
    \/ members[g] \subseteq members'[g]
    \/ \A j \in Journal : journal'[j].group = g => journal'[j].txns \subseteq members'[g]

PostedFrozen ==
  \A g \in Group : Posted(journal, g) # {} => members'[g] = members[g] /\ card'[g] = card[g]

Held == RowsHold /\ PostedFrozen

(* Then no voucher loses a line it books.                                  *)
LEMMA HeldLines ==
  ASSUME LinesOwned, Moved, RowsHold
  PROVE  LinesOwned'
<1>1. SUFFICES ASSUME NEW j \in Journal, journal'[j].group \in Group
               PROVE  journal'[j].txns \subseteq members'[journal'[j].group]
  BY DEF LinesOwned
<1> DEFINE g == journal'[j].group
<1>2. CASE members[g] \subseteq members'[g]
  <2>1. CASE Kept(j) \/ Reverses(j)
    BY <1>1, <1>2, <2>1 DEF Kept, SamePlace, Reverses, LinesOwned
  <2>2. CASE Redrawn(j) \/ First(j)
    BY <2>2 DEF Redrawn, First
  <2>3. CASE Loose(j)
    BY <1>1, <2>3, IdsAssumption DEF Loose
  <2>4. QED
    BY <2>1, <2>2, <2>3 DEF Moved, VouchersMove
<1>3. QED
  BY <1>1, <1>2 DEF RowsHold

(* Steps that leave the rows alone.                                        *)
LEMMA RowsHeld ==
  ASSUME UNCHANGED rows
  PROVE  Held
BY DEF Held, RowsHold, PostedFrozen, rows

(* In a group without a posted voucher every voucher is a primary draft.   *)
LEMMA OnlyDrafts ==
  ASSUME IInv, NEW g \in Group, NoPostedJournal(journal, g),
         NEW j \in Journal, journal[j].group = g
  PROVE  j \in PrimaryDrafts(journal, g)
<1>1. Good(journal) /\ journal[j] \in JournalRow
  BY IInvParts DEF Good, JournalTable
<1>2. journal[j].status = "draft"
  BY <1>1, IdsAssumption DEF NoPostedJournal, Posted, Good, Chained, JournalRow
<1>3. journal[j].rev = NoJournal
  BY <1>1 DEF NoPostedJournal, Posted, Good, Chained, JournalRow
<1>4. QED
  BY <1>2, <1>3 DEF PrimaryDrafts, Drafts

(* Dissolving a group leaves no voucher in it.                             *)
LEMMA DissolveHeld ==
  ASSUME IInv, NEW g \in Group, NEW c, DissolveRows(g, c)
  PROVE  Held
<1>1. RowsTyped
  BY IInvParts
<1>2. \A h \in Group : h # g => members'[h] = members[h] /\ card'[h] = card[h]
  BY <1>1 DEF DissolveRows, RowsTyped
<1>3. \A j \in Journal : journal'[j].group # g
  BY OnlyDrafts, IdsAssumption
  DEF DissolveRows, DeleteGroupDrafts, DropRows, NoRow, PrimaryDrafts
<1>4. QED
  BY <1>2, <1>3 DEF Held, RowsHold, PostedFrozen, DissolveRows, NoPostedJournal

(* Removing a member rebuilds the one voucher of its group.                *)
LEMMA RemoveHeld ==
  ASSUME IInv, NEW g \in Group, NEW t, RemoveGroupMember(g, t)
  PROVE  Held
<1>1. RowsTyped /\ Good(journal)
  BY IInvParts
<1>2. CASE DissolveRows(g, "absent")
  BY <1>2, DissolveHeld
<1>3. CASE RemoveRows(g, t)
  <2>1. /\ members'[g] = members[g] \ {t}
        /\ \A h \in Group : h # g => members'[h] = members[h] /\ card'[h] = card[h]
    BY <1>1, <1>3 DEF RemoveRows, RowsTyped
  <2>2. journal' = RebuildRows(journal, PrimaryDrafts(journal, g), members'[g])
    BY <1>1, <1>3, <2>1, PrunedIsIdentity DEF RemoveRows, RebuildPrimary, Good
  <2>3. members'[g] \in SUBSET Txn
    BY <1>1, <2>1 DEF RowsTyped
  <2>4. ASSUME NEW j \in Journal, journal'[j].group = g
        PROVE  journal'[j].txns \subseteq members'[g]
    <3>1. journal[j] \in JournalRow
      BY <1>1 DEF Good, JournalTable
    <3>2. journal[j].group = g
      BY <2>2, <2>3, <2>4, <3>1, RebuiltLines DEF RebuildRows
    <3>3. j \in PrimaryDrafts(journal, g)
      BY <1>3, <3>2, OnlyDrafts DEF RemoveRows
    <3>4. QED
      BY <2>2, <2>3, <3>1, <3>3, RebuiltLines DEF RebuildRows
  <2>5. QED
    BY <1>3, <2>1, <2>4 DEF Held, RowsHold, PostedFrozen, RemoveRows, NoPostedJournal
<1>4. QED
  BY <1>2, <1>3 DEF RemoveGroupMember

(* A new group has no voucher yet.                                         *)
LEMMA CreateGroupHeld ==
  ASSUME IInv, NEW S, NEW c, NEW then, CreateGroup(S, c, then)
  PROVE  Held
<1>1. RowsTyped
  BY IInvParts
<1>2. PICK g \in Group :
        /\ FreshGroup(g)
        /\ members' = [members EXCEPT ![g] = S]
        /\ card' = [card EXCEPT ![g] = c]
        /\ journal' = journal
  BY DEF CreateGroup
<1>3. /\ \A h \in Group : h # g => members'[h] = members[h] /\ card'[h] = card[h]
      /\ \A j \in Journal : journal'[j].group # g /\ journal[j].group # g
  BY <1>1, <1>2 DEF RowsTyped, FreshGroup
<1>4. QED
  BY <1>3 DEF Held, RowsHold, PostedFrozen, Posted

(* Every step of a calm desk holds the rows under the vouchers.            *)
LEMMA StepHeld ==
  ASSUME IInv, RowsInv, CurrencyInv, Calm, Next
  PROVE  Held
<1>1. RowsTyped /\ req \in RequestRow
  BY IInvParts
<1>2. \A p \in req.todo : p[1] \in Group
  BY <1>1 DEF RequestRow
<1>3. CASE MatchRequest
  BY <1>3, RowsHeld, CreateGroupHeld
  DEF MatchRequest, StartMultiMatch, ClearBankTransactions, GlOnlyMatch, LedgerPendingMatch
<1>4. CASE MatchStep
  <2>1. CASE Supersede
    BY <1>2, <2>1, RemoveHeld DEF Supersede
  <2>2. CASE CreateMatch
    BY <2>2, CreateGroupHeld DEF CreateMatch
  <2>3. CASE NextSide \/ Prune \/ Rebuild \/ MergeDrafts \/ FinishMatch \/ RequestFails
    BY <2>3, RowsHeld DEF NextSide, Prune, Rebuild, MergeDrafts, FinishMatch, RequestFails
  <2>4. CASE Crash
    BY <1>2, <2>4, RowsHeld, DissolveHeld DEF Crash
  <2>5. QED
    BY <1>4, <2>1, <2>2, <2>3, <2>4 DEF MatchStep
<1>5. CASE UnmatchRequest
  BY <1>5, RemoveHeld, DissolveHeld DEF UnmatchRequest, GroupUnmatchMember, DissolveGroup
<1>6. CASE JournalRequest
  <2>1. ASSUME NEW j \in Journal, PostGlOnly(j)
        PROVE  Held
    <3>1. Posted(journal, journal[j].group) = {}
      BY <2>1, PostGlOnlyMoves
    <3>2. /\ \A h \in Group : members[h] \subseteq members'[h]
          /\ \A h \in Group : h # journal[j].group => members'[h] = members[h]
                                                        /\ card'[h] = card[h]
      BY <1>1, <2>1 DEF PostGlOnly, RowsTyped
    <3>3. QED
      BY <3>1, <3>2 DEF Held, RowsHold, PostedFrozen
  <2>2. QED
    BY <1>6, <2>1, RowsHeld
    DEF JournalRequest, EnsureDraft, DeleteDraftByGroup, CreateManual, UpdateDraft,
        PostJournal, UnpostJournal, CreateReversal
<1>7. CASE BooksRequest
  <2>1. CASE ClearUnreconciledPool
    <3>1. PICK S : PurgeTxns(Open(S), TRUE)
      BY <2>1 DEF ClearUnreconciledPool
    <3>2. \A g \in Group : members'[g] = members[g] \ Open(S)
      BY <3>1 DEF PurgeTxns
    <3>3. \A g \in Group : members[g] \intersect Open(S) = {}
      BY DEF RowsInv, Owned, MembersMatched, Open
    <3>4. UNCHANGED card /\ \A g \in Group : members'[g] = members[g]
      BY <3>1, <3>2, <3>3 DEF PurgeTxns
    <3>5. QED
      BY <3>4 DEF Held, RowsHold, PostedFrozen
  <2>2. ASSUME NEW t \in Txn, ImportTxn(t) \/ RecodeTxn(t)
        PROVE  Held
    BY <2>2 DEF ImportTxn, RecodeTxn, rows, Held, RowsHold, PostedFrozen
  <2>3. QED
    BY <1>7, <2>1, <2>2
    DEF BooksRequest, PurgeUnreconciled, PurgeExceptKept, ResetRecon, Calm
<1>8. QED
  BY <1>3, <1>4, <1>5, <1>6, <1>7 DEF Next

-----------------------------------------------------------------------------
(* Collapsing module drafts into the voucher of a match.  On a calm desk   *)
(* of one currency whose requests run to their end, only the group a       *)
(* request has just created may still have module drafts on its members.   *)

ToEnd == "crash" \notin Features
OneCurrencyDesk == \A s, t \in Txn : Currency[s] = Currency[t]

ModulesUnposted ==
  \A j \in Journal : journal[j].source = "module_approve" =>
    journal[j].group = NoGroup /\ journal[j].status # "posted"

Creating(g) == g = req.g /\ req.pc \in {"prune", "rebuild", "merge"}

ModulesMerged ==
  \A g \in Group : Creating(g) \/ ModuleJournals(journal, members[g]) = {}

ModuleInv == ModulesUnposted /\ ModulesMerged

(* A module voucher stays one of no group and is never posted.             *)
LEMMA MovedUnposted ==
  ASSUME ModulesUnposted, Moved
  PROVE  ModulesUnposted'
<1>1. SUFFICES ASSUME NEW j \in Journal, journal'[j].source = "module_approve"
               PROVE  journal'[j].group = NoGroup /\ journal'[j].status # "posted"
  BY DEF ModulesUnposted
<1>2. CASE Kept(j) \/ Redrawn(j)
  <2>1. journal[j].source = "module_approve" /\ journal'[j].group = journal[j].group
    BY <1>1, <1>2 DEF Kept, Redrawn, SamePlace
  <2>2. ~ PostAllowed(journal[j]) /\ journal[j].status # "posted"
    BY <2>1 DEF ModulesUnposted, PostAllowed
  <2>3. QED
    BY <2>1, <2>2 DEF ModulesUnposted, Moved, Posting
<1>3. CASE Loose(j) \/ Reverses(j) \/ First(j)
  BY <1>1, <1>3 DEF Loose, Reverses, First
<1>4. QED
  BY <1>2, <1>3 DEF Moved, VouchersMove

(* Where the members of a group come from: they were its members, or no    *)
(* voucher booked them, or the group is being created.                     *)
MembersCome ==
  \A g \in Group :
    \/ Creating(g)'
    \/ \A t \in members'[g] : t \in members[g] \/ \A j \in Journal : t \notin journal[j].txns

(* Then a group outside its creation gets no module draft on its members:  *)
(* a new module draft is made for an open transaction.                     *)
LEMMA MergedStays ==
  ASSUME IInv, RowsInv', ModulesUnposted, Moved, MembersCome,
         NEW g \in Group, ModuleJournals(journal, members[g]) = {}
  PROVE  Creating(g)' \/ ModuleJournals(journal', members'[g]) = {}
<1>1. SUFFICES ASSUME ~ Creating(g)', NEW j \in ModuleJournals(journal', members'[g])
               PROVE  FALSE
  OBVIOUS
<1>2. PICK t \in members'[g] : t \in journal'[j].txns
  BY <1>1 DEF ModuleJournals
<1>3. j \in Journal /\ journal'[j].source = "module_approve"
  BY <1>1 DEF ModuleJournals
<1>4. CASE Kept(j)
  <2>1. /\ journal[j].source = "module_approve" /\ t \in journal[j].txns
        /\ journal[j].status # "absent"
    BY <1>2, <1>3, <1>4, IInvParts DEF Kept, SamePlace, Good, Chained
  <2>2. t \in members[g]
    BY <1>1, <1>2, <1>3, <2>1 DEF MembersCome
  <2>3. j \in ModuleJournals(journal, members[g])
    BY <1>3, <2>1, <2>2 DEF ModuleJournals
  <2>4. QED
    BY <2>3
<1>5. CASE Redrawn(j)
  <2>1. journal[j].source = "module_approve" /\ journal[j].group \in Group
    BY <1>3, <1>5 DEF Redrawn, SamePlace
  <2>2. QED
    BY <1>3, <2>1, IdsAssumption DEF ModulesUnposted
<1>6. CASE Loose(j)
  <2>1. status'[t] = "unreconciled"
    BY <1>2, <1>3, <1>6 DEF Loose
  <2>2. QED
    BY <1>2, <2>1 DEF RowsInv, Owned, MembersMatched
<1>7. CASE Reverses(j) \/ First(j)
  BY <1>3, <1>7 DEF Reverses, First
<1>8. QED
  BY <1>3, <1>4, <1>5, <1>6, <1>7 DEF Moved, VouchersMove

(* A removal takes a member out of its group and adds none to another.     *)
LEMMA RemoveCome ==
  ASSUME IInv, NEW g \in Group, NEW t, RemoveGroupMember(g, t)
  PROVE  MembersCome
<1>1. RowsTyped
  BY IInvParts
<1>2. \A h \in Group : members'[h] \subseteq members[h]
  BY <1>1 DEF RemoveGroupMember, RemoveRows, DissolveRows, RowsTyped
<1>3. QED
  BY <1>2 DEF MembersCome

(* The request goes on with the group it has created.                      *)
LEMMA CreateGroupCome ==
  ASSUME IInv, NEW S, NEW c, NEW then \in {"prune", "merge"}, CreateGroup(S, c, then)
  PROVE  MembersCome
<1>1. RowsTyped
  BY IInvParts
<1>2. PICK g \in Group : /\ members' = [members EXCEPT ![g] = S]
                         /\ req' = [NoRequest EXCEPT !.pc = then, !.g = g]
  BY DEF CreateGroup
<1>3. req'.pc = then /\ req'.g = g /\ \A h \in Group : h # g => members'[h] = members[h]
  BY <1>1, <1>2 DEF NoRequest, RowsTyped
<1>4. QED
  BY <1>3 DEF MembersCome, Creating

(* Members come from nowhere else.                                         *)
LEMMA StepCome ==
  ASSUME IInv, Calm, Next
  PROVE  MembersCome
<1>1. RowsTyped /\ req \in RequestRow
  BY IInvParts
<1>2. \A p \in req.todo : p[1] \in Group
  BY <1>1 DEF RequestRow
<1>3. ASSUME \A g \in Group : members'[g] \subseteq members[g] PROVE MembersCome
  BY <1>3 DEF MembersCome
<1>4. ASSUME NEW g \in Group, NEW c, DissolveRows(g, c) PROVE MembersCome
  BY <1>1, <1>3, <1>4 DEF DissolveRows, RowsTyped
<1>5. CASE UNCHANGED rows
  BY <1>3, <1>5 DEF rows
<1>6. CASE MatchRequest
  BY <1>5, <1>6, CreateGroupCome
  DEF MatchRequest, StartMultiMatch, ClearBankTransactions, GlOnlyMatch, LedgerPendingMatch
<1>7. CASE MatchStep
  <2>1. CASE Supersede
    BY <1>2, <2>1, RemoveCome DEF Supersede
  <2>2. CASE CreateMatch
    BY <2>2, CreateGroupCome DEF CreateMatch
  <2>3. CASE NextSide \/ Prune \/ Rebuild \/ MergeDrafts \/ FinishMatch \/ RequestFails
    BY <1>5, <2>3 DEF NextSide, Prune, Rebuild, MergeDrafts, FinishMatch, RequestFails
  <2>4. CASE Crash
    BY <1>2, <1>4, <1>5, <2>4 DEF Crash, rows
  <2>5. QED
    BY <1>7, <2>1, <2>2, <2>3, <2>4 DEF MatchStep
<1>8. CASE UnmatchRequest
  BY <1>4, <1>8, RemoveCome DEF UnmatchRequest, GroupUnmatchMember, DissolveGroup
<1>9. CASE JournalRequest
  <2>1. ASSUME NEW j \in Journal, PostGlOnly(j)
        PROVE  MembersCome
    <3> DEFINE g == journal[j].group
    <3>1. PICK c \in Txn : FreshTxn(c) /\ members' = [members EXCEPT ![g] = @ \union {c}]
      BY <2>1 DEF PostGlOnly
    <3> HIDE DEF g
    <3>2. \A h \in Group : members'[h] \subseteq members[h] \union {c}
      BY <1>1, <3>1 DEF RowsTyped
    <3>3. QED
      BY <3>1, <3>2 DEF MembersCome, FreshTxn
  <2>2. QED
    BY <1>5, <1>9, <2>1
    DEF JournalRequest, EnsureDraft, DeleteDraftByGroup, CreateManual, UpdateDraft,
        PostJournal, UnpostJournal, CreateReversal
<1>10. CASE BooksRequest
  <2>1. ASSUME NEW S, NEW o, PurgeTxns(S, o) PROVE MembersCome
    BY <1>3, <2>1 DEF PurgeTxns
  <2>2. ASSUME NEW t \in Txn, ImportTxn(t) \/ RecodeTxn(t) PROVE MembersCome
    BY <1>3, <2>2 DEF ImportTxn, RecodeTxn, rows
  <2>3. QED
    BY <1>10, <2>1, <2>2
    DEF BooksRequest, ClearUnreconciledPool, PurgeUnreconciled, PurgeExceptKept, ResetRecon, Calm
<1>11. QED
  BY <1>6, <1>7, <1>8, <1>9, <1>10 DEF Next

(* A request past the creation of its group goes on with it until it has   *)
(* collapsed the module drafts of the members, none of which is posted.    *)
LEMMA CreatingEnds ==
  ASSUME IInv, ModuleInv, ToEnd, OneCurrencyDesk, Next, NEW g \in Group, Creating(g)
  PROVE  Creating(g)' \/ ModuleJournals(journal', members'[g]) = {}
<1>1. journal \in JournalTable /\ members[g] \in SUBSET Txn /\ req \in RequestRow
  BY IInvParts DEF Good, RowsTyped
<1>2. /\ req.pc \in {"prune", "rebuild", "merge"} /\ req.g = g
      /\ ~ Idle
  BY DEF Creating, Idle, NoRequest
<1>3. OneCurrency(members[g]) /\ Mergeable(journal, members[g])
  BY <1>1 DEF OneCurrency, OneCurrencyDesk, Mergeable, ModuleJournals, ModuleInv, ModulesUnposted
<1>4. Prune \/ Rebuild \/ MergeDrafts
  <2>1. ~ MatchRequest /\ ~ UnmatchRequest
    BY <1>2 DEF MatchRequest, StartMultiMatch, ClearBankTransactions, GlOnlyMatch,
                LedgerPendingMatch, UnmatchRequest, GroupUnmatchMember, DissolveGroup
  <2>2. ~ JournalRequest
    BY <1>2 DEF JournalRequest, EnsureDraft, DeleteDraftByGroup, CreateManual, UpdateDraft,
                PostJournal, PostGlOnly, UnpostJournal, CreateReversal
  <2>3. ~ BooksRequest
    BY <1>2 DEF BooksRequest, ImportTxn, RecodeTxn, ClearUnreconciledPool, PurgeTxns,
                PurgeUnreconciled, PurgeExceptKept, ResetRecon
  <2>4. ~ Supersede /\ ~ NextSide /\ ~ CreateMatch /\ ~ FinishMatch /\ ~ RequestFails
    BY <1>2, <1>3 DEF Supersede, Superseding, NextSide, CreateMatch, FinishMatch,
                      RequestFails, Rejected
  <2>5. ~ Crash
    BY DEF Crash, ToEnd
  <2>6. QED
    BY <2>1, <2>2, <2>3, <2>4, <2>5 DEF Next, MatchStep
<1>5. CASE Prune \/ Rebuild
  BY <1>1, <1>2, <1>5 DEF Prune, Rebuild, Creating, RequestRow
<1>6. CASE MergeDrafts
  <2>1. journal' = DeleteModuleDrafts(journal, members[g]) /\ members' = members
    BY <1>2, <1>6 DEF MergeDrafts, rows
  <2>2. ASSUME NEW j \in ModuleJournals(journal, members[g])
        PROVE  journal[j].status = "draft"
    BY <1>1, <2>2 DEF ModuleInv, ModulesUnposted, ModuleJournals, JournalTable, JournalRow
  <2>3. \A j \in Journal :
          journal'[j] = IF j \in ModuleJournals(journal, members[g]) THEN NoRow ELSE journal[j]
    BY <2>1, <2>2 DEF DeleteModuleDrafts, DropRows
  <2>4. ASSUME NEW j \in Journal, j \in ModuleJournals(journal', members[g])
        PROVE  FALSE
    <3>1. journal'[j] # NoRow
      BY <2>4 DEF ModuleJournals, NoRow
    <3>2. journal'[j] = journal[j] /\ j \notin ModuleJournals(journal, members[g])
      BY <2>3, <3>1
    <3>3. QED
      BY <2>4, <3>2 DEF ModuleJournals
  <2>5. QED
    BY <2>1, <2>4 DEF ModuleJournals
<1>7. QED
  BY <1>4, <1>5, <1>6

(* So every step keeps the invariant.                                      *)
LEMMA StepMerged ==
  ASSUME IInv, RowsInv', ModuleInv, Moved, Calm, ToEnd, OneCurrencyDesk, Next
  PROVE  ModuleInv'
<1>1. MembersCome /\ ModulesUnposted'
  BY StepCome, MovedUnposted DEF ModuleInv
<1>2. ASSUME NEW g \in Group
      PROVE  Creating(g)' \/ ModuleJournals(journal', members'[g]) = {}
  <2>1. CASE Creating(g)
    BY <2>1, CreatingEnds
  <2>2. CASE ModuleJournals(journal, members[g]) = {}
    BY <1>1, <2>2, MergedStays DEF ModuleInv
  <2>3. QED
    BY <2>1, <2>2 DEF ModuleInv, ModulesMerged
<1>3. QED
  BY <1>1, <1>2 DEF ModuleInv, ModulesMerged

-----------------------------------------------------------------------------
(* Theorems.                                                               *)

(* There are no rows at first.                                             *)
LEMMA InitRows ==
  Init => RowsInv /\ MatchedOwned /\ CurrencyInv /\ Firsts /\ LinesOwned /\ ModuleInv
<1> SUFFICES ASSUME Init
             PROVE  RowsInv /\ MatchedOwned /\ CurrencyInv /\ Firsts /\ LinesOwned /\ ModuleInv
  OBVIOUS
<1>1. RowsInv /\ MatchedOwned
  BY DEF Init, RowsInv, Owned, SoleOwner, MembersMatched, EmptyWhenAbsent, Leaving,
         Superseding, NoRequest, MatchedOwned
<1>2. \A j \in Journal : /\ journal[j].group \notin Group /\ journal[j].txns = {}
                          /\ journal[j].source = "none"
  BY IdsAssumption DEF Init, NoRow
<1>3. CurrencyInv
  BY <1>2 DEF Init, CurrencyInv, VoucherOneCurrency, OneCurrencyGroups, OneCurrency
<1>4. Firsts /\ LinesOwned
  BY <1>2 DEF Firsts, MatchIsFirst, OneFirst, LinesOwned
<1>5. ModuleInv
  BY <1>2 DEF ModuleInv, ModulesUnposted, ModulesMerged, ModuleJournals
<1>6. QED
  BY <1>1, <1>3, <1>4, <1>5

(* Every step moves the vouchers as described above.                       *)
LEMMA StepMoves ==
  ASSUME IInv, CurrencyInv, Next
  PROVE  Moved
BY MatchRequestMoves, MatchStepMoves, UnmatchRequestMoves, JournalRequestMoves,
   BooksRequestMoves DEF Next

(* Every step keeps the rows owned.                                        *)
LEMMA StepOwned ==
  ASSUME IInv, RowsInv, SidesApart, Next
  PROVE  RowsKept
BY MatchRequestOwned, MatchStepOwned, UnmatchRequestOwned, JournalRequestOwned,
   BooksRequestOwned DEF Next

(* A stuttering step changes none of it.                                   *)
LEMMA Stutters ==
  ASSUME UNCHANGED vars
  PROVE  /\ RowsInv => RowsInv'
         /\ MatchedOwned => MatchedOwned'
         /\ CurrencyInv => CurrencyInv'
         /\ Firsts => Firsts'
         /\ LinesOwned => LinesOwned'
         /\ ModuleInv => ModuleInv'
         /\ PostedFrozen
<1> USE DEF vars
<1>1. (RowsInv => RowsInv') /\ (MatchedOwned => MatchedOwned')
  BY DEF RowsInv, Owned, SoleOwner, MembersMatched, EmptyWhenAbsent, Leaving, Superseding,
         Pairs, MatchedOwned
<1>2. CurrencyInv => CurrencyInv'
  BY DEF CurrencyInv, VoucherOneCurrency, OneCurrencyGroups, GroupOfOne, Posted
<1>3. (Firsts => Firsts') /\ (LinesOwned => LinesOwned') /\ PostedFrozen
  BY DEF Firsts, MatchIsFirst, OneFirst, LinesOwned, PostedFrozen
<1>4. ModuleInv => ModuleInv'
  BY DEF ModuleInv, ModulesUnposted, ModulesMerged, ModuleJournals, Creating
<1>5. QED
  BY <1>1, <1>2, <1>3, <1>4

(* For every company, group and voucher: however matches, removals, edits, *)
(* postings, purges and crashes follow each other, no voucher mixes        *)
(* currencies (resolve_txns_currency is asked only when a voucher is       *)
(* created, yet later rebuilds take whatever the group then has).          *)
THEOREM OneCurrencyAlways == Spec => []VoucherOneCurrency
<1>1. Init => CurrencyInv
  BY InitRows
<1>2. IInv /\ CurrencyInv /\ [Next]_vars => CurrencyInv'
  BY StepMoves, MovedCurrency, Stutters
<1>3. CurrencyInv => VoucherOneCurrency
  BY DEF CurrencyInv
<1>4. QED
  BY <1>1, <1>2, <1>3, Invariance, PTL DEF Spec

(* Unless a client sends the rows of one panel as both sides, a            *)
(* transaction is in one group at most, after every commit of every        *)
(* request: multi_manual_match has emptied the groups it takes from before *)
(* it creates its own, also when it crashes or fails on the way.           *)
THEOREM OneOwnerAlways == ASSUME SidesApart PROVE Spec => []SoleOwner
<1>1. Init => RowsInv
  BY InitRows
<1>2. IInv /\ RowsInv /\ [Next]_vars => RowsInv'
  BY StepOwned, Stutters DEF RowsKept
<1>3. RowsInv => SoleOwner
  BY DEF RowsInv, Owned
<1>4. QED
  BY <1>1, <1>2, <1>3, Invariance, PTL DEF Spec

(* If moreover nobody purges by ids, MATCHED is written on exactly the     *)
(* transactions that have a match row, after every commit.                 *)
THEOREM StatusAlways == ASSUME SidesApart, ByPool PROVE Spec => []StatusAgrees
<1>1. Init => RowsInv /\ MatchedOwned
  BY InitRows
<1>2. IInv /\ RowsInv /\ MatchedOwned /\ [Next]_vars => RowsInv' /\ MatchedOwned'
  BY StepOwned, Stutters DEF RowsKept
<1>3. RowsInv /\ MatchedOwned => StatusAgrees
  BY DEF RowsInv, Owned, MembersMatched, MatchedOwned, StatusAgrees
<1>4. QED
  BY <1>1, <1>2, <1>3, Invariance, PTL DEF Spec

(* The invariant of a calm desk, for the next two theorems.                *)
CalmInv == IInv /\ RowsInv /\ CurrencyInv /\ Firsts /\ LinesOwned

LEMMA CalmInvariance == ASSUME Calm PROVE Spec => []CalmInv
<1>1. Init => CalmInv
  BY InitRows, InitGood DEF CalmInv
<1>2. CalmInv /\ [Next]_vars => CalmInv'
  <2>1. SidesApart
    BY DEF Calm, SidesApart
  <2>2. SUFFICES ASSUME CalmInv, [Next]_vars PROVE CalmInv'
    OBVIOUS
  <2>3. IInv'
    BY <2>2, StepGood DEF CalmInv
  <2>4. CASE Next
    <3>1. Moved /\ RowsKept /\ Held
      BY <2>1, <2>2, <2>4, StepMoves, StepOwned, StepHeld DEF CalmInv
    <3>2. QED
      BY <2>2, <2>3, <3>1, MovedCurrency, MovedFirsts, HeldLines DEF CalmInv, RowsKept, Held
  <2>5. CASE UNCHANGED vars
    BY <2>2, <2>3, <2>5, Stutters DEF CalmInv
  <2>6. QED
    BY <2>2, <2>4, <2>5
<1>3. QED
  BY <1>1, <1>2, PTL DEF Spec

(* On a calm desk the match vouchers of two groups never book the same     *)
(* transaction: what a match takes from another group is out of that       *)
(* group's voucher in the same commit, and a stale draft is only ever      *)
(* smaller than its group.                                                 *)
THEOREM BookedOnceAlways == ASSUME Calm PROVE Spec => []BookedOnce
<1>1. CalmInv => BookedOnce
  <2>1. SUFFICES ASSUME CalmInv, NEW j \in Journal, NEW k \in Journal, j # k,
                        journal[j].source = "recon_match", journal[k].source = "recon_match"
                 PROVE  journal[j].txns \intersect journal[k].txns = {}
    BY DEF BookedOnce
  <2>2. /\ journal[j].group \in Group /\ journal[k].group \in Group
        /\ journal[j].group # journal[k].group
    BY <2>1 DEF CalmInv, Firsts, MatchIsFirst, OneFirst
  <2>3. /\ journal[j].txns \subseteq members[journal[j].group]
        /\ journal[k].txns \subseteq members[journal[k].group]
    BY <2>1, <2>2 DEF CalmInv, LinesOwned
  <2>4. members[journal[j].group] \intersect members[journal[k].group] = {}
    BY <2>1, <2>2 DEF CalmInv, RowsInv, Owned, SoleOwner
  <2>5. QED
    BY <2>3, <2>4
<1>2. QED
  BY <1>1, CalmInvariance, PTL

(* On a calm desk the rows of a posted match do not change until it is     *)
(* unposted, whatever other request runs.                                  *)
THEOREM PostedFrozenAlways == ASSUME Calm PROVE Spec => PostedGroupFrozen
<1>1. CalmInv /\ [Next]_vars => PostedFrozen
  BY StepHeld, Stutters DEF CalmInv, Held
<1>2. PostedFrozen => (\A g \in Group : Posted(journal, g) # {} =>
                         members'[g] = members[g] /\ card'[g] = card[g])
  BY DEF PostedFrozen
<1>3. QED
  BY <1>1, <1>2, CalmInvariance, PTL DEF Spec, PostedGroupFrozen

(* When moreover no process dies in the middle of a request and the books  *)
(* are of one currency, a transaction never has its module draft beside    *)
(* the voucher of its match once the request is over: the commit that      *)
(* collapses module drafts is reached before anybody sees the match.       *)
THEOREM CollapsedAlways ==
  ASSUME Calm, ToEnd, OneCurrencyDesk PROVE Spec => []ModuleDraftsCollapsed
<1>1. Init => ModuleInv
  BY InitRows
<1>2. CalmInv /\ CalmInv' /\ ModuleInv /\ [Next]_vars => ModuleInv'
  BY StepMoves, StepMerged, Stutters DEF CalmInv
<1>3. CalmInv /\ ModuleInv => ModuleDraftsCollapsed
  <2>1. SUFFICES ASSUME CalmInv, ModuleInv, Idle, NEW g \in Group,
                        NEW j \in PrimaryDrafts(journal, g) \union Posted(journal, g)
                 PROVE  ModuleJournals(journal, journal[j].txns) = {}
    BY DEF ModuleDraftsCollapsed
  <2>2. ModuleJournals(journal, members[g]) = {}
    BY <2>1 DEF ModuleInv, ModulesMerged, Creating, Idle, NoRequest
  <2>3. journal[j].txns \subseteq members[g]
    BY <2>1 DEF CalmInv, LinesOwned, PrimaryDrafts, Drafts, Posted
  <2>4. QED
    BY <2>2, <2>3 DEF ModuleJournals
<1>4. QED
  BY <1>1, <1>2, <1>3, CalmInvariance, PTL DEF Spec
=============================================================================
