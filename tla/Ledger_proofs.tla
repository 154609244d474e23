---------------------------- MODULE Ledger_proofs ----------------------------
(***************************************************************************)
(* Theorems about the reconciliation desk (ReconDesk), the vouchers beside *)
(* it (ReconVouchers), the journal page (JournalDesk) and the sync of      *)
(* Books with Recon (BooksSync), for every value of their constants.       *)
(***************************************************************************)
EXTENDS ReconDesk, ReconVouchers, JournalDesk, BooksSync, FiniteSetTheorems, TLAPS

-----------------------------------------------------------------------------
(* A run of AI Match: what it may still touch is apart from what it has    *)
(* made.  Its pairs have amounts it has done with, and within an amount    *)
(* the rows of its batch are those of no pair; a row that goes into a pair *)
(* leaves the batch.  The groups at the server and its own are records of  *)
(* an id and rows.                                                         *)
Shaped(G) == \A g \in G : g = [id |-> g.id, rows |-> g.rows]
Pairs  == [id : Nat, rows : SUBSET Rows]
AiRuns == [st : {"batch", "pairs", "amount", "pool", "codes"}, rows : SUBSET Rows, made : SUBSET Pairs,
           left : SUBSET {Amount[r] : r \in Rows}, batch : SUBSET Rows, live : BOOLEAN]

Apart(S, G) == \A g \in G : g.rows \cap S = {}
AiApart ==
    /\ ai.st = "batch" => \A g \in ai.made : \A r \in g.rows : Amount[r] \notin ai.left
    /\ ai.st = "pairs" => /\ Apart(ai.batch, ai.made)
                          /\ \A g \in ai.made : \A r \in g.rows : Amount[r] \notin ai.left
                          /\ \A r \in ai.batch : Amount[r] \notin ai.left
    /\ ai.st = "pool"  => Apart(ai.batch, ai.made) /\ ai.batch \subseteq Bank
AiTyped == (ai = NoAi \/ ai \in AiRuns) /\ nextId \in Nat /\ picked \subseteq Rows
AiInv   == AiTyped /\ Shaped(atServer) /\ AiApart

\* Rows which no group of G holds leave G as it is.
LEMMA WithoutKeeps ==
  ASSUME NEW G, NEW S, Shaped(G), NEW g \in G, g.rows \cap S = {}
  PROVE  g \in Without(G, S)
<1>1. g.rows \ S = g.rows
  OBVIOUS
<1>2. [id |-> g.id, rows |-> g.rows \ S] = g
  BY <1>1 DEF Shaped
<1> QED
  BY <1>2 DEF Without

LEMMA WithoutShaped ==
  ASSUME NEW G, NEW S
  PROVE  Shaped(Without(G, S))
  BY DEF Shaped, Without

LEMMA AiStarts == DeskInit => AiInv
  BY DEF DeskInit, AiInv, AiTyped, AiApart, NoAi, Shaped

LEMMA GroupsShaped ==
  ASSUME AiInv, [DeskNext]_reconDesk
  PROVE  Shaped(atServer')
<1>1. ASSUME NEW left, NEW right, MultiManualMatch(left, right)
      PROVE  Shaped(atServer')
  BY <1>1, WithoutShaped DEF MultiManualMatch, Shaped, NewGroup
<1>2. ASSUME NEW r, SingleMatch(r)
      PROVE  Shaped(atServer')
  BY <1>2 DEF SingleMatch, Shaped, NewGroup, AiInv
<1>3. ASSUME atServer' = atServer \/ \E i : atServer' = Stripped(atServer, i)
      PROVE  Shaped(atServer')
  BY <1>3 DEF Stripped, Shaped, AiInv
<1>4. CASE AutoPair \/ ManualPair
  BY <1>1, <1>4 DEF AutoPair, ManualPair
<1>5. CASE SingleDone
  BY <1>2, <1>5 DEF SingleDone
<1>6. CASE AiPair \/ AiTransfer
  BY <1>1, <1>3, <1>6 DEF AiPair, AiTransfer
<1>7. CASE AiCode
  BY <1>2, <1>3, <1>7 DEF AiCode
<1>8. CASE CancelAnswered
  BY <1>3, <1>8 DEF CancelAnswered
<1>9. CASE LoadStep \/ UNCHANGED reconDesk
  BY <1>3, <1>9 DEF LoadStep, Load, LoadRows, LoadGroups, LoadFailed, LeavePage, Select, reconDesk
<1>10. CASE Match \/ AutoDone \/ Refreshed \/ OpFailed
  BY <1>3, <1>10 DEF Match, AutoDone, Refreshed, OpFailed
<1>11. CASE Cancel \/ Post \/ ApplyActions \/ UnmatchAnswered \/ AiStart
  BY <1>3, <1>11 DEF Cancel, Post, ApplyActions, UnmatchAnswered, AiStart
<1>12. CASE AiBatch \/ AiBatchDone \/ AiFallback \/ AiAmount \/ AiTransferDone \/ AiCodes \/ AiEnd
  BY <1>3, <1>12 DEF AiBatch, AiBatchDone, AiFallback, AiAmount, AiTransferDone, AiCodes, AiEnd, Quiet
<1> QED
  BY <1>4, <1>5, <1>6, <1>7, <1>8, <1>9, <1>10, <1>11, <1>12 DEF DeskNext, MatchStep, GroupStep, AiRun

LEMMA IdsAndPicks ==
  ASSUME nextId \in Nat, picked \subseteq Rows, [DeskNext]_reconDesk
  PROVE  nextId' \in Nat /\ picked' \subseteq Rows
<1> USE DEF MultiManualMatch, SingleMatch, ApplyMatch, Rows
<1>1. CASE LoadStep \/ AiStart \/ UNCHANGED reconDesk
  BY <1>1 DEF LoadStep, Load, LoadRows, LoadGroups, LoadFailed, LeavePage, Select, AiStart, reconDesk
<1>2. CASE MatchStep
  <2>1. CASE Match
    BY <2>1 DEF Match
  <2>2. CASE AutoDone \/ Refreshed \/ OpFailed
    BY <2>2 DEF AutoDone, Refreshed, OpFailed
  <2>3. CASE AutoPair \/ ManualPair
    <3>1. nextId' = nextId + 1 /\ picked' = {}
      BY <2>3 DEF AutoPair, ManualPair
    <3> QED
      BY <3>1
  <2>4. CASE SingleDone
    BY <2>4 DEF SingleDone
  <2> QED
    BY <1>2, <2>1, <2>2, <2>3, <2>4 DEF MatchStep
<1>3. CASE GroupStep
  BY <1>3 DEF GroupStep, Cancel, CancelAnswered, Post, ApplyActions, UnmatchAnswered
<1>4. CASE AiRun
  <2>1. CASE AiPair \/ AiTransfer
    <3>1. (nextId' = nextId + 1 /\ picked' \in {{}, picked}) \/ UNCHANGED <<nextId, picked>>
      BY <2>1 DEF AiPair, AiTransfer
    <3> QED
      BY <3>1
  <2>2. CASE AiCode
    BY <2>2 DEF AiCode
  <2>3. CASE AiBatch \/ AiBatchDone \/ AiFallback \/ AiAmount \/ AiTransferDone \/ AiCodes \/ AiEnd
    BY <2>3 DEF AiBatch, AiBatchDone, AiFallback, AiAmount, AiTransferDone, AiCodes, AiEnd, Quiet
  <2> QED
    BY <1>4, <2>1, <2>2, <2>3 DEF AiRun
<1> QED
  BY <1>1, <1>2, <1>3, <1>4 DEF DeskNext

\* Two rows of the batch are proposed: they leave it, and may have become a pair.
LEMMA AiTakes ==
  ASSUME AiInv, ai \in AiRuns, ai.st # "batch", NEW x \in ai.batch, NEW y \in ai.batch,
         NEW made \in {{}, {NewGroup({x}, {y})}},
         ai' = [ai EXCEPT !.batch = ai.batch \ {x, y}, !.made = ai.made \cup made]
  PROVE  ai' \in AiRuns /\ AiApart'
<1> USE DEF AiInv
<1>1. x \in Rows /\ y \in Rows /\ ai.batch \subseteq Rows /\ ai.made \subseteq Pairs
  BY DEF AiRuns
<1>2. made \subseteq Pairs /\ \A g \in made : g.rows = {x, y}
  BY <1>1 DEF AiTyped, NewGroup, Pairs
<1>3. /\ ai' \in AiRuns /\ ai'.st = ai.st /\ ai'.left = ai.left
      /\ ai'.batch = ai.batch \ {x, y} /\ ai'.made = ai.made \cup made
  BY <1>1, <1>2 DEF AiRuns
<1>4. ASSUME Apart(ai.batch, ai.made)
      PROVE  Apart(ai'.batch, ai'.made)
  BY <1>2, <1>3, <1>4 DEF Apart
<1>5. AiApart'
  BY <1>2, <1>3, <1>4 DEF AiApart
<1> QED
  BY <1>3, <1>5

LEMMA AiSteps ==
  ASSUME AiInv, AiRun
  PROVE  (ai' = NoAi \/ ai' \in AiRuns) /\ AiApart'
<1> USE DEF AiInv, Quiet
<1>0. ai \in AiRuns
  <2>1. ai.st # "none"
    BY DEF AiRun, AiBatch, AiPair, AiBatchDone, AiFallback, AiAmount, AiTransfer, AiTransferDone,
           AiCodes, AiCode, AiEnd
  <2> QED
    BY <2>1 DEF AiTyped, NoAi
<1>1. CASE AiBatch
  <2>1. PICK A \in SUBSET ai.left :
          ai' = [ai EXCEPT !.st = "pairs", !.left = ai.left \ A, !.batch = Of(Bank, A) \cup Of(Ledger, A)]
    BY <1>1 DEF AiBatch, Batches
  <2>2. /\ Of(Bank, A) \cup Of(Ledger, A) \subseteq Rows
        /\ \A r \in Of(Bank, A) \cup Of(Ledger, A) : Amount[r] \in A
    BY DEF Of, Rows
  <2>3. /\ ai' \in AiRuns /\ ai'.st = "pairs" /\ ai'.made = ai.made /\ ai'.left = ai.left \ A
        /\ ai'.batch = Of(Bank, A) \cup Of(Ledger, A)
    BY <1>0, <2>1, <2>2 DEF AiRuns
  <2>4. \A g \in ai.made : \A r \in g.rows : Amount[r] \notin ai.left
    BY <1>1 DEF AiBatch, AiApart
  <2>5. Apart(ai'.batch, ai'.made)
    BY <2>2, <2>3, <2>4 DEF Apart
  <2>6. /\ \A g \in ai'.made : \A r \in g.rows : Amount[r] \notin ai'.left
        /\ \A r \in ai'.batch : Amount[r] \notin ai'.left
    BY <2>2, <2>3, <2>4
  <2> QED
    BY <2>3, <2>5, <2>6 DEF AiApart
<1>2. CASE AiPair
  <2>1. PICK x \in ai.batch, y \in ai.batch :
          \/ ai' = [ai EXCEPT !.batch = ai.batch \ {x, y}, !.made = ai.made \cup {NewGroup({x}, {y})}]
          \/ ai' = [ai EXCEPT !.batch = ai.batch \ {x, y}]
    BY <1>0, <1>2 DEF AiPair, AiRuns
  <2>2. PICK made \in {{}, {NewGroup({x}, {y})}} :
          ai' = [ai EXCEPT !.batch = ai.batch \ {x, y}, !.made = ai.made \cup made]
    BY <1>0, <2>1 DEF AiRuns
  <2> QED
    BY <1>0, <1>2, <2>2, AiTakes DEF AiPair
<1>3. CASE AiBatchDone
  <2>1. /\ ai' \in AiRuns /\ ai'.st = "batch" /\ ai'.made = ai.made /\ ai'.left = ai.left /\ ai.st = "pairs"
    BY <1>0, <1>3 DEF AiBatchDone, AiRuns
  <2> QED
    BY <2>1 DEF AiApart
<1>4. CASE AiFallback
  <2>1. {Amount[r] : r \in NotUsed} \subseteq {Amount[r] : r \in Rows}
    BY DEF NotUsed, Rows
  <2>2. ai' \in AiRuns /\ ai'.st = "amount"
    BY <1>0, <1>4, <2>1 DEF AiFallback, AiRuns
  <2> QED
    BY <2>2 DEF AiApart
<1>5. CASE AiAmount
  <2>1. PICK a \in ai.left :
          ai' = [ai EXCEPT !.st = "pool", !.left = ai.left \ {a}, !.batch = Of(Bank, {a}) \cap NotUsed]
    BY <1>5 DEF AiAmount
  <2>2. Of(Bank, {a}) \cap NotUsed \subseteq Bank /\ Apart(Of(Bank, {a}) \cap NotUsed, ai.made)
    BY DEF Of, NotUsed, Apart, Matched
  <2>3. ai' \in AiRuns /\ ai'.st = "pool" /\ ai'.made = ai.made /\ ai'.batch = Of(Bank, {a}) \cap NotUsed
    BY <1>0, <2>1, <2>2 DEF AiRuns, Rows
  <2> QED
    BY <2>2, <2>3 DEF AiApart
<1>6. CASE AiTransfer
  <2>1. PICK x \in ai.batch, y \in ai.batch :
          \/ ai' = [ai EXCEPT !.batch = ai.batch \ {x, y}, !.made = ai.made \cup {NewGroup({x}, {y})}]
          \/ ai' = [ai EXCEPT !.batch = ai.batch \ {x, y}]
    BY <1>0, <1>6 DEF AiTransfer
  <2>2. PICK made \in {{}, {NewGroup({x}, {y})}} :
          ai' = [ai EXCEPT !.batch = ai.batch \ {x, y}, !.made = ai.made \cup made]
    BY <1>0, <2>1 DEF AiRuns
  <2> QED
    BY <1>0, <1>6, <2>2, AiTakes DEF AiTransfer
<1>7. CASE AiTransferDone
  <2>1. ai' \in AiRuns /\ ai'.st = "amount"
    BY <1>0, <1>7 DEF AiTransferDone, AiRuns
  <2> QED
    BY <2>1 DEF AiApart
<1>8. CASE AiCodes
  <2>1. NotUsed \cap HasCode \subseteq Rows
    BY DEF NotUsed, Rows
  <2>2. ai' \in AiRuns /\ ai'.st = "codes"
    BY <1>0, <1>8, <2>1 DEF AiCodes, AiRuns
  <2> QED
    BY <2>2 DEF AiApart
<1>9. CASE AiCode
  <2>1. PICK x \in ai.batch :
          \/ ai' = [ai EXCEPT !.batch = ai.batch \ {x}, !.made = ai.made \cup {NewGroup({x}, {})}]
          \/ ai' = [ai EXCEPT !.batch = ai.batch \ {x}]
    BY <1>9 DEF AiCode
  <2>2. NewGroup({x}, {}) \in Pairs
    BY <1>0 DEF AiRuns, AiTyped, NewGroup, Pairs
  <2>3. ai.st = "codes" /\ ai.batch \ {x} \subseteq Rows /\ ai.made \cup {NewGroup({x}, {})} \subseteq Pairs
    BY <1>0, <1>9, <2>2 DEF AiCode, AiRuns
  <2>4. ai' \in AiRuns /\ ai'.st = "codes"
    BY <1>0, <2>1, <2>3 DEF AiRuns
  <2> QED
    BY <2>4 DEF AiApart
<1>10. CASE AiEnd
  BY <1>10 DEF AiEnd, AiApart, NoAi
<1> QED
  BY <1>1, <1>2, <1>3, <1>4, <1>5, <1>6, <1>7, <1>8, <1>9, <1>10 DEF AiRun

LEMMA AiHolds == DeskSpec => []AiInv
<1>1. ASSUME AiInv, [DeskNext]_reconDesk
      PROVE  AiInv'
  <2>1. Shaped(atServer') /\ nextId' \in Nat /\ picked' \subseteq Rows
    BY <1>1, GroupsShaped, IdsAndPicks DEF AiInv, AiTyped
  <2>2. CASE AiRun
    BY <1>1, <2>1, <2>2, AiSteps DEF AiInv, AiTyped
  <2>3. CASE AiStart
    <3>1. PICK S : ai' = [st |-> "batch", rows |-> S, made |-> {}, left |-> {Amount[r] : r \in S},
                          batch |-> {}, live |-> TRUE] /\ S \in Candidates
      BY <2>3 DEF AiStart
    <3>2. S \subseteq Rows
      BY <3>1, <1>1 DEF AiInv, AiTyped, Candidates, OfCurrency, Rows
    <3>3. ai' \in AiRuns /\ AiApart'
      BY <3>1, <3>2 DEF AiRuns, AiApart
    <3> QED
      BY <2>1, <3>3 DEF AiInv, AiTyped
  <2>4. CASE LeavePage
    <3>1. ai' = ai \/ (ai \in AiRuns /\ ai' = [ai EXCEPT !.live = FALSE])
      BY <1>1, <2>4 DEF LeavePage, AiInv, AiTyped, NoAi
    <3>2. /\ ai' = NoAi \/ ai' \in AiRuns
          /\ ai'.st = ai.st /\ ai'.made = ai.made
          /\ ai = NoAi \/ (ai'.left = ai.left /\ ai'.batch = ai.batch)
      BY <1>1, <3>1 DEF AiInv, AiTyped, AiRuns
    <3>3. AiApart'
      BY <1>1, <3>2 DEF AiInv, AiApart, NoAi
    <3> QED
      BY <2>1, <3>2, <3>3 DEF AiInv, AiTyped
  <2>5. CASE UNCHANGED ai
    BY <1>1, <2>1, <2>5 DEF AiInv, AiTyped, AiApart
  <2>6. CASE DeskNext /\ ~ AiRun /\ ~ AiStart /\ ~ LeavePage
    <3>1. UNCHANGED ai
      BY <2>6 DEF DeskNext, LoadStep, Load, LoadRows, LoadGroups, LoadFailed, Select, MatchStep,
         Match, AutoPair,
                  AutoDone, ManualPair, SingleDone, Refreshed, OpFailed, GroupStep, Cancel,
                  CancelAnswered, Post,
                  ApplyActions, UnmatchAnswered
    <3> QED
      BY <2>5, <3>1
  <2> QED
    BY <1>1, <2>2, <2>3, <2>4, <2>5, <2>6 DEF reconDesk
<1> QED
  BY <1>1, AiStarts, PTL DEF DeskSpec

\* AI Match never takes apart a pair it has made in the same run, for any rows, amounts,
\* currencies and size of its batches, whatever the user matches and cancels meanwhile
\* (usedBank in handleAIMatch of useReconWorkspace.ts).
THEOREM AiMatchKeepsItsOwn == DeskSpec => AiKeepsOwn
<1>1. ASSUME AiInv, [DeskNext]_reconDesk
      PROVE  [AiKeepsOwnStep]_reconDesk
  <2> SUFFICES ASSUME ai' # ai, NEW g \in atServer, g \in ai.made
               PROVE  g \in atServer'
    BY DEF AiKeepsOwnStep
  <2>1. ASSUME NEW x, NEW y, x \in ai.batch, y \in ai.batch, MultiManualMatch({x}, {y}),
               Apart(ai.batch, ai.made)
        PROVE  g \in atServer'
    <3>1. g.rows \cap ({x} \cup ({y} \cap Ledger)) = {}
      BY <2>1 DEF Apart
    <3> QED
      BY <1>1, <2>1, <3>1, WithoutKeeps DEF MultiManualMatch, AiInv
  <2>2. CASE AiPair
    <3>1. Apart(ai.batch, ai.made)
      BY <1>1, <2>2 DEF AiPair, AiInv, AiApart
    <3> QED
      BY <2>1, <2>2, <3>1 DEF AiPair
  <2>3. CASE AiTransfer
    <3>1. Apart(ai.batch, ai.made)
      BY <1>1, <2>3 DEF AiTransfer, AiInv, AiApart
    <3> QED
      BY <2>1, <2>3, <3>1 DEF AiTransfer
  <2>4. CASE AiCode
    BY <2>4 DEF AiCode, SingleMatch
  <2>5. CASE AiStart \/ LeavePage
    BY <2>5 DEF AiStart, LeavePage
  <2>6. CASE AiBatch \/ AiBatchDone \/ AiFallback \/ AiAmount \/ AiTransferDone \/ AiCodes \/ AiEnd
    BY <2>6 DEF AiBatch, AiBatchDone, AiFallback, AiAmount, AiTransferDone, AiCodes, AiEnd, Quiet
  <2>7. AiRun \/ AiStart \/ LeavePage
    BY <1>1 DEF DeskNext, LoadStep, Load, LoadRows, LoadGroups, LoadFailed, Select, MatchStep, Match,
       AutoPair,
                AutoDone, ManualPair, SingleDone, Refreshed, OpFailed, GroupStep, Cancel,
                CancelAnswered, Post,
                ApplyActions, UnmatchAnswered, reconDesk
  <2> QED
    BY <2>2, <2>3, <2>4, <2>5, <2>6, <2>7 DEF AiRun
<1> QED
  BY <1>1, AiHolds, PTL DEF DeskSpec, AiKeepsOwn

-----------------------------------------------------------------------------
(* The vouchers beside the reconciliation desk.  What is shown, seeded or  *)
(* answered is never newer than what the server has.  A guarded call bears *)
(* a generation no other call of its group bears, none above the group's;  *)
(* and an answer of the latest is no older than what is shown.  So what    *)
(* passes the test is no older than what it replaces.                      *)

Sts      == {"none", "draft", "posted"}
Ids2     == {"base", "rev"}
Voucher  == [id : Ids2, st : Sts, v : Nat]
Kept     == [base : Sts, rev : Sts, v : Nat]
Ops      == {"load", "refetch", "ai", "reload", "rebuild", "discard", "post", "cancel", "reverse", "save",
             "asked"} \cup Command
Asks     == {"get", "ensure", "delete", "post", "unpost", "reverse", "patch"}
Call     == [op : Ops, ask : Asks, g : Group, gen : Nat, run : Nat, id : Ids2, sure : BOOLEAN, n : Nat,
             got : {"open", "ok", "lost", "asks"}, ans : Voucher]
Worker   == [run : Nat, left : SUBSET Group]

VouchersTyped ==
  /\ srv \in [Group -> Kept] /\ matched \subseteq Group /\ voucherOf \in [Group -> Voucher]
  /\ fetchGen \in [Group -> Nat] /\ seeds \in [Group -> Voucher] /\ dlg \in [Command -> Group \cup {NoGroup}]
  /\ bulk \in Worker /\ signal \in Worker /\ calls \subseteq Call /\ voucherActs \in Nat

\* The calls whose answers are tested against the generation of their group
Guarded(r) == r.op \notin {"discard", "save", "ai"}
CallOk(r, s, f, w) ==
  /\ r.got = "ok" => r.ans.v <= s[r.g].v
  /\ Guarded(r) => r.gen <= f[r.g] /\ (r.got = "ok" /\ r.gen = f[r.g] => w[r.g].v <= r.ans.v)
  /\ r.op = "ai" => r.ask = "patch" /\ (r.got = "ok" => r.ans.v >= 1)
Rival(r, q) == Guarded(r) /\ Guarded(q) /\ r.g = q.g /\ r.gen = q.gen

VouchersInv ==
  /\ VouchersTyped
  /\ \A g \in Group : voucherOf[g].v <= srv[g].v /\ seeds[g].v <= srv[g].v
  /\ \A r \in calls : CallOk(r, srv, fetchGen, voucherOf)
  /\ \A r, q \in calls : Rival(r, q) => r = q

LEMMA NoneVoucher == None \in Voucher /\ None.v = 0 /\ None.st = "none"
BY DEF None, Voucher, Ids2, Sts

\* Every effect of a command on the server makes a newer version.
LEMMA PutGrows ==
  ASSUME NEW s \in Kept, NEW id \in Ids2, NEW st \in Sts
  PROVE  PutVoucher(s, id, st) \in Kept /\ PutVoucher(s, id, st).v = s.v + 1
<1> DEFINE n == s.v + 1
<1>1. n \in Nat BY DEF Kept
<1> HIDE DEF n
<1>2. /\ [s EXCEPT !.rev = st, !.v = n] \in Kept /\ [s EXCEPT !.rev = st, !.v = n].v = n
      /\ [s EXCEPT !.base = st, !.v = n] \in Kept /\ [s EXCEPT !.base = st, !.v = n].v = n
  BY <1>1 DEF Kept
<1> QED BY <1>2 DEF PutVoucher, n

LEMMA PrimaryKnown ==
  ASSUME NEW s \in Kept
  PROVE  Primary(s) \in Voucher /\ Primary(s).v = s.v
BY DEF Primary, Kept, Voucher, Ids2

LEMMA EffectGrows ==
  ASSUME NEW s \in Kept, NEW r \in Call, NEW t \in Effect(s, r)
  PROVE  t \in Kept /\ t.v >= s.v /\ (r.ask = "patch" => t.v >= 1)
<1>1. \A id \in Ids2, st \in Sts : PutVoucher(s, id, st) \in Kept /\ PutVoucher(s, id, st).v = s.v + 1
  BY PutGrows
<1>2. s.v \in Nat /\ r.id \in Ids2 /\ Primary(s).id \in Ids2 /\ "base" \in Ids2 /\ "rev" \in Ids2
  BY PrimaryKnown DEF Kept, Call, Voucher, Ids2
<1>3. "none" \in Sts /\ "draft" \in Sts /\ "posted" \in Sts BY DEF Sts
<1>4. t = s \/ \E id \in Ids2, st \in Sts : t = PutVoucher(s, id, st)
  BY <1>2, <1>3 DEF Effect, Ensured, Undrafted, Touched, Call, Asks
<1>5. r.ask = "patch" => \E id \in Ids2, st \in Sts : t = PutVoucher(s, id, st)
  BY <1>2, <1>3 DEF Effect, Touched
<1> QED BY <1>1, <1>2, <1>4, <1>5

LEMMA TouchedGrows ==
  ASSUME NEW s \in Kept
  PROVE  Touched(s, "base") \in Kept /\ Touched(s, "base").v >= s.v
<1>1. s.v \in Nat /\ "base" \in Ids2 /\ "draft" \in Sts BY DEF Kept, Ids2, Sts
<1>2. PutVoucher(s, "base", "draft") \in Kept /\ PutVoucher(s, "base", "draft").v = s.v + 1
  BY <1>1, PutGrows
<1> QED BY <1>1, <1>2 DEF Touched

(* requests *)
LEMMA RequestCall ==
  ASSUME VouchersTyped, NEW how \in Ops, NEW ask \in Asks, NEW g \in Group, NEW n \in Nat,
         NEW run \in Nat,
         NEW id \in Ids2
  PROVE  Request(how, ask, g, n, run, id) \in Call
BY NoneVoucher DEF Request, Call, VouchersTyped

LEMMA AgainCall ==
  ASSUME NEW r \in Call, NEW ask \in Asks
  PROVE  [r EXCEPT !.ask = ask, !.got = "open"] \in Call /\ [r EXCEPT !.sure = TRUE, !.got = "open"] \in Call
BY DEF Call

LEMMA UnservedCall ==
  ASSUME NEW r \in Call
  PROVE  [r EXCEPT !.got = "lost"] \in Call /\ [r EXCEPT !.got = "asks"] \in Call
BY DEF Call

LEMMA ServedCall ==
  ASSUME NEW r \in Call, NEW got \in {"ok", "lost"}, NEW j \in Voucher
  PROVE  [r EXCEPT !.got = got, !.ans = j] \in Call
BY DEF Call

LEMMA AskedCall ==
  ASSUME VouchersTyped, NEW c \in Command, NEW g \in Group
  PROVE  LET q == [Request("asked", "get", g, Next1(g), 0, "base") EXCEPT !.op = c]
         IN  q \in Call /\ q.op = c /\ q.got = "open" /\ q.g = g /\ q.gen = fetchGen[g] + 1
<1> DEFINE q == Request("asked", "get", g, Next1(g), 0, "base")
<1>1. Next1(g) \in Nat /\ "base" \in Ids2 /\ "asked" \in Ops /\ "get" \in Asks /\ c \in Ops
  BY DEF VouchersTyped, Next1, Ids2, Ops, Asks
<1>2. q \in Call BY <1>1, RequestCall
<1>3. q.got = "open" /\ q.g = g /\ q.gen = fetchGen[g] + 1 BY DEF Request, Next1
<1> HIDE DEF q
<1>4. [q EXCEPT !.op = c] \in Call BY <1>1, <1>2 DEF Call
<1>5. LET p == [q EXCEPT !.op = c] IN p.op = c /\ p.got = q.got /\ p.g = q.g /\ p.gen = q.gen
  BY <1>2 DEF Call
<1> QED BY <1>3, <1>4, <1>5 DEF q

LEMMA DiscardedCall ==
  ASSUME VouchersTyped, NEW r \in Call
  PROVE  LET q == [Request("reload", "get", r.g, Next1(r.g), 0, "base") EXCEPT !.n = r.n]
         IN  /\ q \in Call /\ q.op = "reload" /\ q.got = "open" /\ q.g = r.g /\ q.gen = fetchGen[r.g] + 1
<1> DEFINE q == Request("reload", "get", r.g, Next1(r.g), 0, "base")
<1>1. r.g \in Group /\ r.n \in Nat BY DEF Call
<1>2. Next1(r.g) \in Nat /\ "base" \in Ids2 /\ "reload" \in Ops /\ "get" \in Asks
  BY <1>1 DEF VouchersTyped, Next1, Ids2, Ops, Asks
<1>3. q \in Call BY <1>1, <1>2, RequestCall
<1>4. q.op = "reload" /\ q.got = "open" /\ q.g = r.g /\ q.gen = fetchGen[r.g] + 1
  BY DEF Request, Next1
<1> HIDE DEF q
<1>5. [q EXCEPT !.n = r.n] \in Call BY <1>1, <1>3 DEF Call
<1>6. LET p == [q EXCEPT !.n = r.n] IN p.op = q.op /\ p.got = q.got /\ p.g = q.g /\ p.gen = q.gen
  BY <1>3 DEF Call
<1> QED BY <1>4, <1>5, <1>6 DEF q

(* ------------------- what a step does to the vouchers ------------------- *)
\* K: the calls a step leaves, Q: those it makes
LEMMA Advances ==
  ASSUME VouchersInv, VouchersTyped', NEW K, NEW Q, K \subseteq calls, calls' = K \cup Q,
         \A g \in Group : srv[g].v <= srv'[g].v /\ fetchGen[g] <= fetchGen'[g],
         \A g \in Group : voucherOf'[g].v <= srv'[g].v /\ seeds'[g].v <= srv'[g].v,
         \A g \in Group : \/ voucherOf'[g].v <= voucherOf[g].v
                          \/ fetchGen'[g] > fetchGen[g]
                          \/ \A r \in K : Guarded(r) /\ r.g = g => r.gen # fetchGen[g],
         \A q \in Q : CallOk(q, srv', fetchGen', voucherOf'),
         \A q \in Q : \A r \in K : ~ Rival(r, q) /\ ~ Rival(q, r),
         \A q, p \in Q : Rival(q, p) => q = p
  PROVE  VouchersInv'
<1>1. ASSUME NEW r \in K PROVE CallOk(r, srv', fetchGen', voucherOf')
  <2>1. r \in Call /\ r \in calls BY DEF VouchersInv, VouchersTyped
  <2>2. r.g \in Group /\ r.gen \in Nat /\ r.ans.v \in Nat BY <2>1 DEF Call, Voucher
  <2>3. CallOk(r, srv, fetchGen, voucherOf) BY <2>1 DEF VouchersInv
  <2>4. /\ srv[r.g].v \in Nat /\ srv'[r.g].v \in Nat /\ fetchGen[r.g] \in Nat /\ fetchGen'[r.g] \in Nat
        /\ voucherOf[r.g].v \in Nat /\ voucherOf'[r.g].v \in Nat
    BY <2>2 DEF VouchersInv, VouchersTyped, Kept, Voucher
  <2> QED BY <2>2, <2>3, <2>4 DEF CallOk
<1>2. \A r \in calls' : CallOk(r, srv', fetchGen', voucherOf') BY <1>1
<1>3. \A r, q \in K : Rival(r, q) => r = q BY DEF VouchersInv
<1>4. \A r, q \in calls' : Rival(r, q) => r = q BY <1>3
<1> QED BY <1>2, <1>4 DEF VouchersInv

LEMMA VouchersTypes == VouchersTyped /\ [VouchersNext]_vouchers => VouchersTyped'
<1> SUFFICES ASSUME VouchersTyped, [VouchersNext]_vouchers PROVE VouchersTyped' OBVIOUS
<1> USE DEF section
<1>a. \A g \in Group : Next1(g) \in Nat /\ voucherOf[g].id \in Ids2 BY DEF VouchersTyped, Next1, Voucher
<1>b. None \in Voucher BY NoneVoucher
<1>1. ASSUME NEW r \in calls, Serve(r) PROVE VouchersTyped'
  <2>1. r \in Call /\ r.g \in Group /\ srv[r.g] \in Kept BY DEF VouchersTyped, Call
  <2>2. CASE UNCHANGED srv
    <3>1. calls' \subseteq calls \cup Call
      <4>1. [r EXCEPT !.got = "lost"] \in Call /\ [r EXCEPT !.got = "asks"] \in Call BY <2>1, UnservedCall
      <4>2. \A s \in Effect(srv[r.g], r) : Primary(s) \in Voucher BY <2>1, EffectGrows, PrimaryKnown
      <4>3. \A s \in Effect(srv[r.g], r), got \in {"ok", "lost"} : [r EXCEPT !.got = got, !.ans = Primary(s)] \in Call
        BY <2>1, <4>2, ServedCall
      <4>4. calls \ {r} \subseteq calls OBVIOUS
      <4>5. calls' = (calls \ {r}) \cup {[r EXCEPT !.got = "lost"]} => calls' \subseteq calls \cup Call
        BY <4>1
      <4>6. calls' = (calls \ {r}) \cup {[r EXCEPT !.got = "asks"]} => calls' \subseteq calls \cup Call
        BY <4>1
      <4>7. \A s \in Effect(srv[r.g], r), got \in {"ok", "lost"} :
              calls' = (calls \ {r}) \cup {[r EXCEPT !.got = got, !.ans = Primary(s)]} => calls' \subseteq calls \cup Call
        BY <4>3
      <4> QED BY <1>1, <4>5, <4>6, <4>7 DEF Serve
    <3> QED BY <1>1, <2>2, <3>1 DEF Serve, VouchersTyped
  <2>3. CASE ~ UNCHANGED srv
    <3>1. PICK s \in Effect(srv[r.g], r), got \in {"ok", "lost"} :
             /\ srv' = [srv EXCEPT ![r.g] = s]
             /\ calls' = (calls \ {r}) \cup {[r EXCEPT !.got = got, !.ans = Primary(s)]}
      BY <1>1, <2>3 DEF Serve
    <3>2. s \in Kept /\ Primary(s) \in Voucher BY <2>1, EffectGrows, PrimaryKnown
    <3>3. [r EXCEPT !.got = got, !.ans = Primary(s)] \in Call BY <2>1, <3>2, ServedCall
    <3>4. srv' \in [Group -> Kept] /\ calls' \subseteq Call BY <3>1, <3>2, <3>3 DEF VouchersTyped
    <3> QED BY <1>1, <3>4 DEF Serve, VouchersTyped
  <2> QED BY <2>2, <2>3
<1>c. /\ "base" \in Ids2 /\ \A x \in {"get", "ensure", "delete", "post", "unpost", "reverse", "patch"} : x \in Asks
      /\ \A x \in {"load", "refetch", "ai", "reload", "rebuild", "discard", "post", "cancel", "reverse", "save"} :
           x \in Ops
      /\ \A x \in Command : x \in Ops
  BY DEF Ids2, Asks, Ops
<1>d. \A how \in Ops, ask \in Asks, g \in Group, n \in Nat, run \in Nat, id \in Ids2 :
        Request(how, ask, g, n, run, id) \in Call
  BY RequestCall
<1>e. \A r \in calls : /\ r \in Call /\ r.g \in Group /\ r.ans \in Voucher /\ r.run \in Nat
                       /\ \A ask \in Asks : [r EXCEPT !.ask = ask, !.got = "open"] \in Call
                       /\ [r EXCEPT !.sure = TRUE, !.got = "open"] \in Call
  BY AgainCall DEF VouchersTyped, Call
<1>f. \A g \in Group, j \in Voucher : WithSeed(g, j) \in Voucher BY DEF WithSeed, VouchersTyped
<1>g. bulk.run \in Nat /\ signal.run \in Nat /\ bulk.left \subseteq Group /\ signal.left \subseteq Group
  BY DEF VouchersTyped, Worker
<1>h. \A g \in Group, j \in Voucher : [voucherOf EXCEPT ![g] = j] \in [Group -> Voucher]
  BY DEF VouchersTyped
<1>i. \A g \in Group, n \in Nat : [fetchGen EXCEPT ![g] = n] \in [Group -> Nat] BY DEF VouchersTyped
<1>j. \A g \in Group : fetchGen[g] \in Nat /\ fetchGen[g] + 1 \in Nat /\ fetchGen[g] + 2 \in Nat
  BY DEF VouchersTyped
<1>k. \A r, q \in Call : calls \ {r} \subseteq Call /\ (calls \ {r}) \cup {q} \subseteq Call /\ calls \cup {q} \subseteq Call
  BY DEF VouchersTyped
<1>l. \A g \in Group \cup {NoGroup}, c \in Command : [dlg EXCEPT ![c] = g] \in [Command -> Group \cup {NoGroup}]
  BY DEF VouchersTyped
<1>2. ASSUME NEW S \in SUBSET Group, Regroup(S) PROVE VouchersTyped'
  <2>1. S = {} => fetchGen' \in [Group -> Nat] /\ voucherOf' \in [Group -> Voucher] /\ bulk' \in Worker /\ calls' \subseteq Call
    BY <1>2, <1>g DEF Regroup, VouchersTyped, Worker
  <2>2. S # {} => fetchGen' \in [Group -> Nat] /\ voucherOf' \in [Group -> Voucher] /\ bulk' \in Worker /\ calls' \subseteq Call
    <3> SUFFICES ASSUME S # {}
                 PROVE  fetchGen' \in [Group -> Nat] /\ voucherOf' \in [Group -> Voucher] /\ bulk' \in Worker /\ calls' \subseteq Call
      OBVIOUS
    <3> DEFINE reseeded == {g \in Group : seeds[g] # None}
    <3>1. PICK first \in SUBSET S :
            /\ bulk' = [run |-> bulk.run + 1, left |-> S \ first]
            /\ calls' = calls \cup {Request("load", "get", g, Next1(g), bulk.run + 1, "base") : g \in first}
            /\ fetchGen' = [g \in Group |-> fetchGen[g] + (IF g \in first THEN 1 ELSE 0)
                                              + (IF g \in reseeded THEN 1 ELSE 0)]
            /\ voucherOf' = [g \in Group |-> WithSeed(g, voucherOf[g])]
      BY <1>2 DEF Regroup
    <3> HIDE DEF reseeded
    <3>2. fetchGen' \in [Group -> Nat] BY <3>1 DEF VouchersTyped
    <3>3. voucherOf' \in [Group -> Voucher] BY <3>1, <1>f DEF VouchersTyped
    <3>4. bulk' \in Worker BY <3>1, <1>g DEF Worker
    <3>5. \A g \in first : Request("load", "get", g, Next1(g), bulk.run + 1, "base") \in Call
      <4>1. bulk.run + 1 \in Nat BY <1>g
      <4> QED BY <4>1, <1>a, <1>c, <1>d
    <3>6. calls' \subseteq Call BY <3>1, <3>5 DEF VouchersTyped
    <3> QED BY <3>2, <3>3, <3>4, <3>6
  <2>3. voucherActs' \in Nat /\ matched' \subseteq Group BY <1>2 DEF Regroup, VouchersTyped
  <2> QED BY <1>2, <2>1, <2>2, <2>3 DEF Regroup, VouchersTyped
<1>3. ASSUME NEW r \in calls, ListLoaded(r) PROVE VouchersTyped'
  <2>1. voucherOf' \in [Group -> Voucher]
    <3>1. UNCHANGED voucherOf \/ voucherOf' = [voucherOf EXCEPT ![r.g] = WithSeed(r.g, r.ans)]
      BY <1>3 DEF ListLoaded
    <3>2. WithSeed(r.g, r.ans) \in Voucher BY <1>e, <1>f
    <3> QED BY <3>1, <3>2 DEF VouchersTyped
  <2>2. ASSUME NEW others, TakeNext(others), others \subseteq Call
        PROVE  calls' \subseteq Call /\ bulk' \in Worker /\ fetchGen' \in [Group -> Nat]
    <3>1. CASE bulk.left = {} BY <2>2, <3>1 DEF TakeNext, VouchersTyped
    <3>2. CASE bulk.left # {}
      <4>1. PICK g \in bulk.left :
              /\ bulk' = [bulk EXCEPT !.left = @ \ {g}] /\ fetchGen' = [fetchGen EXCEPT ![g] = @ + 1]
              /\ calls' = others \cup {Request("load", "get", g, Next1(g), bulk.run, "base")}
        BY <2>2, <3>2 DEF TakeNext
      <4>2. Request("load", "get", g, Next1(g), bulk.run, "base") \in Call BY <1>a, <1>c, <1>d, <1>g
      <4>3. bulk' \in Worker /\ fetchGen' \in [Group -> Nat] BY <4>1 DEF VouchersTyped, Worker
      <4> QED BY <2>2, <4>1, <4>2, <4>3
    <3> QED BY <3>1, <3>2
  <2>3. calls' \subseteq Call /\ bulk' \in Worker /\ fetchGen' \in [Group -> Nat]
    BY <1>3, <1>c, <1>e, <2>2 DEF ListLoaded, VouchersTyped
  <2> QED BY <1>3, <2>1, <2>3 DEF ListLoaded, VouchersTyped
<1>4. ASSUME NEW S \in SUBSET Group, CodesSaved(S) PROVE VouchersTyped'
  <2>1. srv' \in [Group -> Kept] BY <1>4, TouchedGrows DEF CodesSaved, VouchersTyped
  <2>2. calls' \subseteq Call /\ signal' \in Worker /\ fetchGen' \in [Group -> Nat] /\ voucherActs' \in Nat
    BY <1>4, <1>a, <1>c, <1>d, <1>g DEF CodesSaved, VouchersTyped, Worker
  <2> QED BY <1>4, <2>1, <2>2 DEF CodesSaved, VouchersTyped
<1>5. ASSUME NEW r \in calls, Refetched(r) PROVE VouchersTyped'
  <2>1. voucherOf' \in [Group -> Voucher]
    <3>1. UNCHANGED voucherOf \/ voucherOf' = [voucherOf EXCEPT ![r.g] = WithSeed(r.g, r.ans)]
      BY <1>5 DEF Refetched
    <3>2. WithSeed(r.g, r.ans) \in Voucher BY <1>e, <1>f
    <3> QED BY <3>1, <3>2 DEF VouchersTyped
  <2>2. \/ calls' = calls \ {r} /\ UNCHANGED <<signal, fetchGen>>
        \/ calls' = (calls \ {r}) \cup {[r EXCEPT !.ask = "ensure", !.got = "open"]} /\ UNCHANGED <<signal, fetchGen>>
        \/ \E g \in signal.left :
             /\ signal' = [signal EXCEPT !.left = @ \ {g}] /\ fetchGen' = [fetchGen EXCEPT ![g] = @ + 1]
             /\ calls' = (calls \ {r}) \cup {Request("refetch", "get", g, Next1(g), r.run, "base")}
    BY <1>5 DEF Refetched
  <2>3. ASSUME NEW g \in signal.left,
               signal' = [signal EXCEPT !.left = @ \ {g}], fetchGen' = [fetchGen EXCEPT ![g] = @ + 1],
               calls' = (calls \ {r}) \cup {Request("refetch", "get", g, Next1(g), r.run, "base")}
        PROVE  calls' \subseteq Call /\ signal' \in Worker /\ fetchGen' \in [Group -> Nat]
    <3>1. Request("refetch", "get", g, Next1(g), r.run, "base") \in Call BY <1>a, <1>c, <1>d, <1>e, <1>g
    <3>2. signal' \in Worker /\ fetchGen' \in [Group -> Nat] BY <2>3 DEF VouchersTyped, Worker
    <3> QED BY <2>3, <3>1, <3>2 DEF VouchersTyped
  <2>4. calls' \subseteq Call /\ signal' \in Worker /\ fetchGen' \in [Group -> Nat]
    BY <2>2, <2>3, <1>c, <1>e DEF VouchersTyped
  <2> QED BY <1>5, <2>1, <2>4 DEF Refetched, VouchersTyped
<1>6. ASSUME NEW g \in Group, AiApply(g) PROVE VouchersTyped'
  <2>1. calls' \subseteq Call /\ voucherActs' \in Nat BY <1>6, <1>a, <1>c, <1>d DEF AiApply, VouchersTyped
  <2> QED BY <1>6, <2>1 DEF AiApply, VouchersTyped
<1>7. ASSUME NEW r \in calls, AiApplied(r) PROVE VouchersTyped'
  <2>1. seeds' \in [Group -> Voucher]
    <3>1. UNCHANGED seeds \/ seeds' = [g \in Group |-> IF g = r.g THEN r.ans ELSE None]
      BY <1>7 DEF AiApplied
    <3> QED BY <3>1, <1>b, <1>e DEF VouchersTyped
  <2>2. voucherOf' \in [Group -> Voucher]
    <3>1. UNCHANGED voucherOf \/ voucherOf' = [voucherOf EXCEPT ![r.g] = r.ans] BY <1>7 DEF AiApplied
    <3> QED BY <3>1, <1>e, <1>h DEF VouchersTyped
  <2>3. fetchGen' \in [Group -> Nat] /\ signal' \in Worker
    <3>1. \/ UNCHANGED <<fetchGen, signal>>
          \/ fetchGen' = [fetchGen EXCEPT ![r.g] = @ + 2] /\ signal' = [run |-> signal.run + 1, left |-> {}]
      BY <1>7 DEF AiApplied
    <3>2. r.g \in Group /\ fetchGen[r.g] + 2 \in Nat BY <1>e, <1>j
    <3>3. fetchGen \in [Group -> Nat] BY DEF VouchersTyped
    <3>4. fetchGen' \in [Group -> Nat] BY <3>1, <3>2, <3>3
    <3>5. signal' \in Worker BY <3>1, <1>g DEF VouchersTyped, Worker
    <3> QED BY <3>4, <3>5
  <2> QED BY <1>7, <2>1, <2>2, <2>3 DEF AiApplied, VouchersTyped
<1>8. ASSUME NEW g \in Group, NEW c \in Command, Asked(g, c) PROVE VouchersTyped'
  <2>1. [Request("asked", "get", g, Next1(g), 0, "base") EXCEPT !.op = c] \in Call BY AskedCall
  <2>2. calls' \subseteq Call /\ fetchGen' \in [Group -> Nat] /\ voucherActs' \in Nat
    BY <1>8, <2>1 DEF Asked, VouchersTyped
  <2>3. dlg' \in [Command -> Group \cup {NoGroup}] BY <1>8 DEF Asked, VouchersTyped
  <2> QED BY <1>8, <2>2, <2>3 DEF Asked, VouchersTyped
<1>9. ASSUME NEW g \in Group, ReloadVoucher(g) \/ Rebuild(g) \/ Discard(g) PROVE VouchersTyped'
  <2>1. \A how \in {"reload", "rebuild"}, ask \in {"get", "delete"} : Request(how, ask, g, Next1(g), 0, voucherOf[g].id) \in Call
    BY <1>a, <1>c, <1>d
  <2>2. Request("discard", "delete", g, fetchGen[g], 0, "base") \in Call BY <1>c, <1>d, <1>j
  <2>3. calls' \subseteq Call /\ fetchGen' \in [Group -> Nat] /\ voucherActs' \in Nat
    BY <1>9, <2>1, <2>2, <1>i, <1>j, <1>k DEF ReloadVoucher, Rebuild, Discard, Begin, VoucherClick,
       VouchersTyped
  <2> QED BY <1>9, <2>3 DEF ReloadVoucher, Rebuild, Discard, VouchersTyped
<1>10. ASSUME NEW g \in Group, NEW c \in Command, OpenDialog(g, c) PROVE VouchersTyped'
  BY <1>10 DEF OpenDialog, VoucherClick, VouchersTyped
<1>11. ASSUME NEW c \in Command, Dismiss(c) PROVE VouchersTyped'
  BY <1>11 DEF Dismiss, VouchersTyped
<1>12. ASSUME NEW c \in Command, Confirm(c) PROVE VouchersTyped'
  <2>1. dlg[c] \in Group BY <1>12 DEF Confirm, DialogOpen, VouchersTyped
  <2>2. calls' \subseteq Call /\ fetchGen' \in [Group -> Nat] /\ voucherActs' \in Nat
    BY <1>12, <1>a, <1>c, <1>d, <2>1 DEF Confirm, Begin, VoucherClick, VouchersTyped
  <2> QED BY <1>12, <2>2 DEF Confirm, VouchersTyped
<1>13. ASSUME SaveEdit PROVE VouchersTyped'
  <2>1. dlg.edit \in Group BY <1>13 DEF SaveEdit, DialogOpen, VouchersTyped, Command
  <2>2. Request("save", "patch", dlg.edit, 0, 0, voucherOf[dlg.edit].id) \in Call
    BY <1>a, <1>c, <1>d, <2>1
  <2>3. calls' \subseteq Call /\ voucherActs' \in Nat
    BY <1>13, <2>2 DEF SaveEdit, VoucherClick, VouchersTyped
  <2> QED BY <1>13, <2>3 DEF SaveEdit, VouchersTyped
<1>14. ASSUME NEW r \in calls, Reloaded(r) PROVE VouchersTyped'
  <2>1. calls' \subseteq Call
    <3>1. \/ calls' = calls \ {r}
          \/ \E ask \in Asks : calls' = (calls \ {r}) \cup {[r EXCEPT !.ask = ask, !.got = "open"]}
      BY <1>14, <1>c DEF Reloaded, Rest, Again
    <3> QED BY <3>1, <1>e, <1>k
  <2>2. voucherOf' \in [Group -> Voucher]
    <3>1. UNCHANGED voucherOf \/ voucherOf' = [voucherOf EXCEPT ![r.g] = r.ans]
      BY <1>14 DEF Reloaded, Show
    <3> QED BY <3>1, <1>e, <1>h DEF VouchersTyped
  <2>3. dlg' \in [Command -> Group \cup {NoGroup}]
    <3>1. UNCHANGED dlg \/ (r.op \in Command /\ dlg' = [dlg EXCEPT ![r.op] = r.g]) BY <1>14 DEF Reloaded
    <3> QED BY <3>1, <1>e DEF VouchersTyped
  <2> QED BY <1>14, <2>1, <2>2, <2>3 DEF Reloaded, VouchersTyped
<1>15. ASSUME NEW r \in calls, Rebuilt(r) PROVE VouchersTyped'
  <2>1. calls' \subseteq Call
    <3>1. \/ calls' = calls \ {r}
          \/ \E ask \in Asks : calls' = (calls \ {r}) \cup {[r EXCEPT !.ask = ask, !.got = "open"]}
      BY <1>15, <1>c DEF Rebuilt, Unanswered, Rest, Again
    <3> QED BY <3>1, <1>e, <1>k
  <2>2. voucherOf' \in [Group -> Voucher]
    <3>1. \/ UNCHANGED voucherOf \/ voucherOf' = [voucherOf EXCEPT ![r.g] = r.ans]
          \/ voucherOf' = [voucherOf EXCEPT ![r.g] = None]
      BY <1>15 DEF Rebuilt, Unanswered, Show
    <3> QED BY <3>1, <1>b, <1>e, <1>h DEF VouchersTyped
  <2>3. UNCHANGED fetchGen /\ loadingGid' \in {loadingGid, NoGroup}
    BY <1>15 DEF Rebuilt, Unanswered, Rest
  <2> QED BY <1>15, <2>1, <2>2, <2>3 DEF Rebuilt, VouchersTyped
<1>16. ASSUME NEW r \in calls, Discarded(r) PROVE VouchersTyped'
  <2>1. [Request("reload", "get", r.g, Next1(r.g), 0, "base") EXCEPT !.n = r.n] \in Call
    BY <1>e, DiscardedCall
  <2>2. CASE Unanswered(r)
    <3>1. calls' \subseteq Call BY <2>2, <1>e DEF Unanswered, Rest
    <3> QED BY <1>16, <2>2, <3>1 DEF Discarded, Unanswered, VouchersTyped
  <2>3. CASE ~ Unanswered(r)
    <3>1. calls' \subseteq Call BY <1>16, <2>1, <2>3, <1>e, <1>k DEF Discarded
    <3>4. voucherOf' = [voucherOf EXCEPT ![r.g] = None] BY <1>16, <2>3 DEF Discarded, Show
    <3>2. voucherOf' \in [Group -> Voucher] BY <3>4, <1>b, <1>e DEF VouchersTyped
    <3>3. fetchGen' \in [Group -> Nat] BY <1>16, <2>3, <1>e, <1>i, <1>j DEF Discarded
    <3> QED BY <1>16, <3>1, <3>2, <3>3 DEF Discarded, VouchersTyped
  <2> QED BY <2>2, <2>3
<1>17. ASSUME NEW r \in calls, Posted(r) PROVE VouchersTyped'
  <2>1. calls' \subseteq Call
    <3>1. calls' = calls \ {r} \/ calls' = (calls \ {r}) \cup {[r EXCEPT !.sure = TRUE, !.got = "open"]}
      BY <1>17 DEF Posted, Rest
    <3> QED BY <3>1, <1>e, <1>k
  <2>2. voucherOf' \in [Group -> Voucher]
    <3>1. UNCHANGED voucherOf \/ voucherOf' = [voucherOf EXCEPT ![r.g] = r.ans] BY <1>17 DEF Posted, Show
    <3> QED BY <3>1, <1>e, <1>h DEF VouchersTyped
  <2>3. dlg' \in [Command -> Group \cup {NoGroup}] BY <1>17, <1>e, <1>l DEF Posted, VouchersTyped, Command
  <2> QED BY <1>17, <2>1, <2>2, <2>3 DEF Posted, VouchersTyped
<1>18. ASSUME NEW r \in calls, Undone(r) PROVE VouchersTyped'
  <2>1. calls' \subseteq Call
    <3>1. \/ calls' = calls \ {r}
          \/ \E ask \in Asks : calls' = (calls \ {r}) \cup {[r EXCEPT !.ask = ask, !.got = "open"]}
      BY <1>18, <1>c DEF Undone, Rest, Again
    <3> QED BY <3>1, <1>e, <1>k
  <2>2. voucherOf' \in [Group -> Voucher]
    <3>1. UNCHANGED voucherOf \/ voucherOf' = [voucherOf EXCEPT ![r.g] = r.ans] BY <1>18 DEF Undone, Show
    <3> QED BY <3>1, <1>e, <1>h DEF VouchersTyped
  <2>3. dlg' \in [Command -> Group \cup {NoGroup}] BY <1>18, <1>e, <1>l DEF Undone, VouchersTyped, Command
  <2> QED BY <1>18, <2>1, <2>2, <2>3 DEF Undone, VouchersTyped
<1>19. ASSUME NEW r \in calls, SavedEdit(r) PROVE VouchersTyped'
  <2>1. calls' \subseteq Call BY <1>19 DEF SavedEdit, VouchersTyped
  <2>2. voucherOf' \in [Group -> Voucher]
    <3>1. UNCHANGED voucherOf \/ voucherOf' = [voucherOf EXCEPT ![r.g] = r.ans]
      BY <1>19 DEF SavedEdit, Show
    <3> QED BY <3>1, <1>e, <1>h DEF VouchersTyped
  <2>3. dlg' \in [Command -> Group \cup {NoGroup}]
    BY <1>19, <1>e, <1>l DEF SavedEdit, VouchersTyped, Command
  <2>4. fetchGen' \in [Group -> Nat]
    <3>1. UNCHANGED fetchGen \/ fetchGen' = [fetchGen EXCEPT ![r.g] = @ + 1] BY <1>19 DEF SavedEdit
    <3>2. r.g \in Group /\ fetchGen[r.g] + 1 \in Nat BY <1>e, <1>j
    <3>3. fetchGen \in [Group -> Nat] BY DEF VouchersTyped
    <3> QED BY <3>1, <3>2, <3>3
  <2> QED BY <1>19, <2>1, <2>2, <2>3, <2>4 DEF SavedEdit, VouchersTyped
<1>20. CASE UNCHANGED vouchers BY <1>20 DEF vouchers, VouchersTyped
<1> QED
  BY <1>1, <1>2, <1>3, <1>4, <1>5, <1>6, <1>7, <1>8, <1>9, <1>10, <1>11, <1>12, <1>13, <1>14, <1>15,
     <1>16, <1>17,
     <1>18, <1>19, <1>20 DEF VouchersNext, VoucherAnswers

\* what a call made by a step looks like: open, and of a generation no other guarded call has
Open(q)  == q.got = "open" /\ (q.op = "ai" => q.ask = "patch")
New(q)   == Guarded(q) => q.gen = fetchGen[q.g] + 1 /\ q.gen <= fetchGen'[q.g]
\* it is made again by its own answer
Alike(q, r) == Guarded(r) /\ q.g = r.g /\ q.gen = r.gen
\* An answer changes what is shown for its group to nothing, with a generation of its own, or because it is
\* guarded and of the latest generation.
Painted(r)  == \A g \in Group :
  \/ voucherOf'[g] = voucherOf[g]
  \/ /\ g = r.g /\ voucherOf'[g].v <= srv[g].v
     /\ voucherOf'[g].v = 0 \/ fetchGen'[g] > fetchGen[g] \/ (Guarded(r) /\ r.gen = fetchGen[g])

LEMMA VoucherNumbers ==
  ASSUME VouchersTyped
  PROVE  /\ \A g \in Group : srv[g].v \in Nat /\ fetchGen[g] \in Nat /\ voucherOf[g].v \in Nat /\ seeds[g].v \in Nat
         /\ \A r \in calls : r \in Call /\ r.g \in Group /\ r.gen \in Nat /\ r.ans.v \in Nat
BY DEF VouchersTyped, Kept, Voucher, Call

\* A command makes calls of the next generations, whatever the server does meanwhile.
LEMMA CommandAdvances ==
  ASSUME VouchersInv, VouchersTyped', NEW Q, calls' = calls \cup Q, Q \subseteq Call, UNCHANGED seeds,
         \A g \in Group : srv[g].v <= srv'[g].v /\ fetchGen[g] <= fetchGen'[g],
         \A g \in Group : voucherOf'[g] = voucherOf[g] \/ (voucherOf'[g].v <= srv[g].v /\ fetchGen'[g] > fetchGen[g]),
         \A q \in Q : Open(q) /\ New(q),
         \A q, p \in Q : q.g = p.g => q = p
  PROVE  VouchersInv'
<1>1. VouchersTyped BY DEF VouchersInv
<1>2. \A r \in calls : r \in Call /\ r.g \in Group /\ r.gen \in Nat /\ (Guarded(r) => r.gen <= fetchGen[r.g])
  BY <1>1, VoucherNumbers DEF VouchersInv, CallOk
<1>3. \A g \in Group : srv[g].v \in Nat /\ srv'[g].v \in Nat /\ fetchGen[g] \in Nat /\ fetchGen'[g] \in Nat
                       /\ voucherOf[g].v \in Nat /\ voucherOf'[g].v \in Nat /\ seeds[g].v \in Nat
  BY <1>1, VoucherNumbers DEF VouchersTyped, Kept, Voucher
<1>4. \A g \in Group : voucherOf'[g].v <= srv'[g].v /\ seeds'[g].v <= srv'[g].v
  <2>1. \A g \in Group : voucherOf[g].v <= srv[g].v /\ seeds[g].v <= srv[g].v BY DEF VouchersInv
  <2> QED BY <2>1, <1>3
<1>5. \A g \in Group : voucherOf'[g].v <= voucherOf[g].v \/ fetchGen'[g] > fetchGen[g] BY <1>3
<1>6. \A q \in Q : q.g \in Group /\ q.gen \in Nat BY DEF Call
<1>7. \A q \in Q : CallOk(q, srv', fetchGen', voucherOf')
  BY <1>3, <1>6 DEF CallOk, Open, New
<1>8. \A q \in Q : \A r \in calls : ~ Rival(r, q) /\ ~ Rival(q, r)
  BY <1>2, <1>3, <1>6 DEF New, Rival
<1>9. \A q, p \in Q : Rival(q, p) => q = p BY DEF Rival
<1> QED BY <1>4, <1>5, <1>7, <1>8, <1>9, Advances

\* An answer ends its call.  It may make the call again, or new ones, and change what is shown for its group.
LEMMA AnswerAdvances ==
  ASSUME VouchersInv, VouchersTyped', NEW r \in calls, NEW Q, calls' = (calls \ {r}) \cup Q,
         Q \subseteq Call,
         UNCHANGED srv, \A g \in Group : seeds'[g].v <= srv[g].v,
         \A g \in Group : fetchGen[g] <= fetchGen'[g], Painted(r),
         \A q \in Q : Open(q) /\ (New(q) \/ Alike(q, r)),
         \A q, p \in Q : q.g = p.g => q = p
  PROVE  VouchersInv'
<1>1. VouchersTyped BY DEF VouchersInv
<1>2. \A k \in calls : k \in Call /\ k.g \in Group /\ k.gen \in Nat /\ (Guarded(k) => k.gen <= fetchGen[k.g])
  BY <1>1, VoucherNumbers DEF VouchersInv, CallOk
<1>3. \A g \in Group : srv[g].v \in Nat /\ fetchGen[g] \in Nat /\ fetchGen'[g] \in Nat
                       /\ voucherOf[g].v \in Nat /\ voucherOf'[g].v \in Nat /\ seeds[g].v \in Nat
  BY <1>1, VoucherNumbers DEF VouchersTyped, Kept, Voucher
<1>4. \A g \in Group : voucherOf'[g].v <= srv'[g].v /\ seeds'[g].v <= srv'[g].v
  <2>1. \A g \in Group : voucherOf[g].v <= srv[g].v BY DEF VouchersInv
  <2> QED BY <2>1, <1>3 DEF Painted
<1>5. \A k, q \in calls : Rival(k, q) => k = q BY DEF VouchersInv
<1>6. \A g \in Group : \/ voucherOf'[g].v <= voucherOf[g].v
                       \/ fetchGen'[g] > fetchGen[g]
                       \/ \A k \in calls \ {r} : Guarded(k) /\ k.g = g => k.gen # fetchGen[g]
  <2> SUFFICES ASSUME NEW g \in Group, g = r.g, Guarded(r), r.gen = fetchGen[g]
               PROVE  \A k \in calls \ {r} : Guarded(k) /\ k.g = g => k.gen # fetchGen[g]
    BY <1>3 DEF Painted
  <2> QED BY <1>5 DEF Rival
<1>7. \A q \in Q : q.g \in Group /\ q.gen \in Nat BY DEF Call
<1>8. \A q \in Q : CallOk(q, srv', fetchGen', voucherOf')
  <2> SUFFICES ASSUME NEW q \in Q PROVE Guarded(q) => q.gen <= fetchGen'[q.g] BY DEF CallOk, Open
  <2>1. New(q) => (Guarded(q) => q.gen <= fetchGen'[q.g]) BY DEF New
  <2>2. Alike(q, r) => q.gen <= fetchGen'[q.g]
    <3>1. Guarded(r) => r.gen <= fetchGen[r.g] BY <1>2
    <3>2. r.g \in Group /\ r.gen \in Nat BY <1>2
    <3>3. fetchGen[r.g] \in Nat /\ fetchGen'[r.g] \in Nat /\ fetchGen[r.g] <= fetchGen'[r.g] BY <3>2, <1>3
    <3> QED BY <3>1, <3>2, <3>3 DEF Alike
  <2> QED BY <2>1, <2>2
<1>9. \A q \in Q : \A k \in calls \ {r} : ~ Rival(k, q) /\ ~ Rival(q, k)
  <2> SUFFICES ASSUME NEW q \in Q, NEW k \in calls \ {r}, Guarded(q), Guarded(k), k.g = q.g, k.gen = q.gen
               PROVE  FALSE
    BY DEF Rival
  <2>1. ~ New(q)
    <3>1. k.g \in Group /\ k.gen \in Nat /\ k.gen <= fetchGen[k.g] /\ fetchGen[k.g] \in Nat BY <1>2, <1>3
    <3> QED BY <3>1 DEF New
  <2>2. ~ Alike(q, r) BY <1>5 DEF Alike, Rival
  <2> QED BY <2>1, <2>2
<1>10. \A q, p \in Q : Rival(q, p) => q = p BY DEF Rival
<1>11. calls \ {r} \subseteq calls /\ \A g \in Group : srv[g].v <= srv'[g].v BY <1>3
<1> QED BY <1>4, <1>6, <1>8, <1>9, <1>10, <1>11, Advances

LEMMA CommandMakes ==
  ASSUME VouchersInv, VouchersTyped', NEW q \in Call, calls' = calls \cup {q}, UNCHANGED <<srv,
         voucherOf, seeds>>,
         \A g \in Group : fetchGen[g] <= fetchGen'[g], Open(q), New(q)
  PROVE  VouchersInv'
<1>1. \A g \in Group : srv[g].v <= srv'[g].v BY VoucherNumbers DEF VouchersInv
<1> DEFINE Q == {q}
<1>2. /\ calls' = calls \cup Q /\ Q \subseteq Call /\ \A p \in Q : Open(p) /\ New(p)
      /\ \A x, p \in Q : x.g = p.g => x = p
  OBVIOUS
<1> HIDE DEF Q
<1> QED BY <1>1, <1>2, CommandAdvances

LEMMA AnswerMakes ==
  ASSUME VouchersInv, VouchersTyped', NEW r \in calls, NEW q \in Call, calls' = (calls \ {r}) \cup {q},
         UNCHANGED <<srv, seeds>>, \A g \in Group : fetchGen[g] <= fetchGen'[g], Painted(r),
         Open(q), New(q) \/ Alike(q, r)
  PROVE  VouchersInv'
<1>1. \A g \in Group : seeds'[g].v <= srv[g].v BY DEF VouchersInv
<1> DEFINE Q == {q}
<1>2. /\ calls' = (calls \ {r}) \cup Q /\ Q \subseteq Call /\ \A p \in Q : Open(p) /\ (New(p) \/ Alike(p, r))
      /\ \A x, p \in Q : x.g = p.g => x = p
  OBVIOUS
<1> HIDE DEF Q
<1> QED BY <1>1, <1>2, AnswerAdvances

LEMMA AnswerEnds ==
  ASSUME VouchersInv, VouchersTyped', NEW r \in calls, calls' = calls \ {r}, UNCHANGED srv,
         \A g \in Group : seeds'[g].v <= srv[g].v, \A g \in Group : fetchGen[g] <= fetchGen'[g],
         Painted(r)
  PROVE  VouchersInv'
<1> DEFINE Q == {}
<1>1. /\ calls' = (calls \ {r}) \cup Q /\ Q \subseteq Call /\ \A p \in Q : Open(p) /\ (New(p) \/ Alike(p, r))
      /\ \A x, p \in Q : x.g = p.g => x = p
  OBVIOUS
<1> HIDE DEF Q
<1> QED BY <1>1, AnswerAdvances

LEMMA VouchersStep ==
  ASSUME Stays # {}, VouchersInv, [VouchersNext]_vouchers
  PROVE  VouchersInv'
<1>1. VouchersTyped BY DEF VouchersInv
<1>2. VouchersTyped' BY <1>1, VouchersTypes
<1>3. \A g \in Group : /\ srv[g] \in Kept /\ srv[g].v \in Nat /\ fetchGen[g] \in Nat /\ voucherOf[g] \in Voucher
                       /\ voucherOf[g].v \in Nat /\ seeds[g].v \in Nat
  BY <1>1, VoucherNumbers DEF VouchersTyped
<1>4. \A r \in calls : r \in Call /\ r.g \in Group /\ r.gen \in Nat /\ r.ans \in Voucher /\ r.ans.v \in Nat
  BY <1>1, VoucherNumbers DEF Call
<1>5. \A g \in Group : voucherOf[g].v <= srv[g].v /\ seeds[g].v <= srv[g].v BY DEF VouchersInv
<1>6. \A r \in calls : /\ r.got = "ok" => r.ans.v <= srv[r.g].v
                       /\ Guarded(r) => r.gen <= fetchGen[r.g]
                       /\ r.op = "ai" => r.ask = "patch"
  BY DEF VouchersInv, CallOk
<1>7. \A g \in Group : srv[g].v <= srv[g].v /\ fetchGen[g] <= fetchGen[g] BY <1>3
<1>8. \A q \in calls' : q \in Call BY <1>2 DEF VouchersTyped
<1> USE DEF section
<1>10. ASSUME NEW r \in calls, Serve(r) PROVE VouchersInv'
  <2>1. r \in Call /\ r.g \in Group /\ srv[r.g] \in Kept BY <1>3, <1>4
  <2>2. PICK q \in Call : /\ calls' = (calls \ {r}) \cup {q}
                           /\ q.op = r.op /\ q.ask = r.ask /\ q.g = r.g /\ q.gen = r.gen
                           /\ \/ q.got # "ok" /\ UNCHANGED srv
                              \/ \E s \in Effect(srv[r.g], r) :
                                    srv' = [srv EXCEPT ![r.g] = s] /\ q.ans.v = s.v
    <3>1. CASE calls' = (calls \ {r}) \cup {[r EXCEPT !.got = "lost"]} /\ UNCHANGED srv
      <4> DEFINE q == [r EXCEPT !.got = "lost"]
      <4>1. q \in Call /\ q.op = r.op /\ q.ask = r.ask /\ q.g = r.g /\ q.gen = r.gen /\ q.got # "ok"
        BY <2>1, UnservedCall DEF Call
      <4> QED BY <3>1, <4>1
    <3>2. CASE calls' = (calls \ {r}) \cup {[r EXCEPT !.got = "asks"]} /\ UNCHANGED srv
      <4> DEFINE q == [r EXCEPT !.got = "asks"]
      <4>1. q \in Call /\ q.op = r.op /\ q.ask = r.ask /\ q.g = r.g /\ q.gen = r.gen /\ q.got # "ok"
        BY <2>1, UnservedCall DEF Call
      <4> QED BY <3>2, <4>1
    <3>3. CASE \E s \in Effect(srv[r.g], r), got \in {"ok", "lost"} :
                 /\ srv' = [srv EXCEPT ![r.g] = s]
                 /\ calls' = (calls \ {r}) \cup {[r EXCEPT !.got = got, !.ans = Primary(s)]}
      <4>1. PICK s \in Effect(srv[r.g], r), got \in {"ok", "lost"} :
                 /\ srv' = [srv EXCEPT ![r.g] = s]
                 /\ calls' = (calls \ {r}) \cup {[r EXCEPT !.got = got, !.ans = Primary(s)]}
        BY <3>3
      <4> DEFINE q == [r EXCEPT !.got = got, !.ans = Primary(s)]
      <4>2. s \in Kept /\ Primary(s) \in Voucher /\ Primary(s).v = s.v BY <2>1, EffectGrows, PrimaryKnown
      <4>3. q \in Call BY <2>1, <4>2, ServedCall
      <4>4. q.op = r.op /\ q.ask = r.ask /\ q.g = r.g /\ q.gen = r.gen /\ q.ans = Primary(s)
        BY <2>1 DEF Call
      <4> HIDE DEF q
      <4>5. q.ans.v = s.v BY <4>2, <4>4
      <4>6. calls' = (calls \ {r}) \cup {q} BY <4>1 DEF q
      <4> QED BY <4>1, <4>3, <4>4, <4>5, <4>6
    <3> QED BY <1>10, <3>1, <3>2, <3>3 DEF Serve
  <2>3. UNCHANGED <<voucherOf, fetchGen, seeds>> BY <1>10 DEF Serve
  <2>4. \A g \in Group : srv[g].v <= srv'[g].v
    <3>1. \A s \in Effect(srv[r.g], r) : s.v >= srv[r.g].v /\ s.v \in Nat BY <2>1, EffectGrows DEF Kept
    <3> QED BY <2>1, <2>2, <3>1, <1>1, <1>3 DEF VouchersTyped
  <2>5. q.got = "ok" => q.ans.v = srv'[q.g].v /\ (q.ask = "patch" => q.ans.v >= 1)
    <3>1. \A s \in Effect(srv[r.g], r) : r.ask = "patch" => s.v >= 1 BY <2>1, EffectGrows
    <3> QED BY <2>1, <2>2, <3>1, <1>1 DEF VouchersTyped
  <2>6. \A g \in Group : srv'[g].v \in Nat BY <1>2, VoucherNumbers DEF VouchersTyped, Kept
  <2>7. \A g \in Group : voucherOf'[g].v <= srv'[g].v /\ seeds'[g].v <= srv'[g].v
    BY <1>3, <1>5, <2>3, <2>4, <2>6
  <2>8. CallOk(q, srv', fetchGen', voucherOf')
    <3>1. q.got = "ok" => q.ans.v <= srv'[q.g].v BY <2>1, <2>2, <2>5, <2>6
    <3>2. Guarded(q) => q.gen <= fetchGen'[q.g] BY <1>6, <2>2, <2>3 DEF Guarded
    <3>3. q.got = "ok" => voucherOf'[q.g].v <= q.ans.v BY <2>1, <2>2, <2>5, <2>7
    <3>4. q.op = "ai" => q.ask = "patch" /\ (q.got = "ok" => q.ans.v >= 1) BY <1>6, <2>2, <2>5
    <3> QED BY <3>1, <3>2, <3>3, <3>4 DEF CallOk
  <2>9. \A k \in calls \ {r} : ~ Rival(k, q) /\ ~ Rival(q, k)
    <3>1. \A k, p \in calls : Rival(k, p) => k = p BY DEF VouchersInv
    <3>2. Guarded(q) <=> Guarded(r) BY <2>2 DEF Guarded
    <3> QED BY <2>2, <3>1, <3>2 DEF Rival
  <2> DEFINE K == calls \ {r}
             Q == {q}
  <2>10. K \subseteq calls /\ calls' = K \cup Q BY <2>2
  <2>11. \A g \in Group : voucherOf'[g].v <= voucherOf[g].v BY <1>3, <2>3
  <2>12. \A g \in Group : fetchGen[g] <= fetchGen'[g] BY <1>7, <2>3
  <2>13. \A p \in Q : CallOk(p, srv', fetchGen', voucherOf') BY <2>8
  <2>14. \A p \in Q : \A k \in K : ~ Rival(k, p) /\ ~ Rival(p, k) BY <2>9
  <2>15. \A x, p \in Q : Rival(x, p) => x = p OBVIOUS
  <2> HIDE DEF K, Q
  <2> QED BY <1>2, <2>4, <2>7, <2>10, <2>11, <2>12, <2>13, <2>14, <2>15, Advances
<1>9. \A how, ask, g, n, run, id : LET q == Request(how, ask, g, n, run, id)
                                  IN  q.op = how /\ q.ask = ask /\ q.g = g /\ q.gen = n /\ q.got = "open"
  BY DEF Request
<1>a. \A g \in Group, n \in Nat : n >= fetchGen[g] =>
        \A x \in Group : fetchGen[x] <= [fetchGen EXCEPT ![g] = n][x] /\ [fetchGen EXCEPT ![g] = n][g] = n
  BY <1>1, <1>3 DEF VouchersTyped
<1>b. \A g \in Group : fetchGen[g] + 1 \in Nat /\ fetchGen[g] + 1 >= fetchGen[g] /\ fetchGen[g] + 1 > fetchGen[g]
  BY <1>3
<1>11. ASSUME NEW S \in SUBSET Group, Regroup(S) PROVE VouchersInv'
  <2>1. S # {} BY <1>11 DEF Regroup
  <2> DEFINE reseeded == {g \in Group : seeds[g] # None}
  <2>2. PICK first \in SUBSET S :
          /\ calls' = calls \cup {Request("load", "get", g, Next1(g), bulk.run + 1, "base") : g \in first}
          /\ fetchGen' = [g \in Group |-> fetchGen[g] + (IF g \in first THEN 1 ELSE 0)
                                            + (IF g \in reseeded THEN 1 ELSE 0)]
          /\ voucherOf' = [g \in Group |-> WithSeed(g, voucherOf[g])]
    BY <1>11, <2>1 DEF Regroup
  <2> HIDE DEF reseeded
  <2> DEFINE Q == {Request("load", "get", g, Next1(g), bulk.run + 1, "base") : g \in first}
  <2>3. \A g \in Group : fetchGen[g] <= fetchGen'[g] /\ (g \in first => fetchGen[g] + 1 <= fetchGen'[g])
                         /\ (g \in reseeded => fetchGen'[g] > fetchGen[g])
    BY <1>3, <2>2
  <2>4. \A g \in Group : voucherOf'[g] = voucherOf[g] \/ (voucherOf'[g].v <= srv[g].v /\ fetchGen'[g] > fetchGen[g])
    <3> SUFFICES ASSUME NEW g \in Group
                 PROVE  voucherOf'[g] = voucherOf[g] \/ (voucherOf'[g].v <= srv[g].v /\ fetchGen'[g] > fetchGen[g])
      OBVIOUS
    <3>1. voucherOf'[g] = WithSeed(g, voucherOf[g]) BY <2>2
    <3>2. CASE g \in reseeded
      <4>1. voucherOf'[g] = seeds[g] BY <3>1, <3>2 DEF WithSeed, reseeded
      <4> QED BY <4>1, <3>2, <2>3, <1>5
    <3>3. CASE g \notin reseeded BY <3>1, <3>3 DEF WithSeed, reseeded
    <3> QED BY <3>2, <3>3
  <2>5. calls' = calls \cup Q /\ Q \subseteq Call BY <2>2, <1>8
  <2>6. ASSUME NEW q \in Q PROVE Open(q) /\ New(q)
    <3>1. PICK g \in first : q = Request("load", "get", g, Next1(g), bulk.run + 1, "base") OBVIOUS
    <3>2. q.op = "load" /\ q.got = "open" /\ q.g = g /\ q.gen = fetchGen[g] + 1 BY <3>1, <1>9 DEF Next1
    <3> QED BY <3>2, <2>3 DEF Open, New
  <2>7. ASSUME NEW q \in Q, NEW p \in Q, q.g = p.g PROVE q = p
    <3>1. PICK g \in first : q = Request("load", "get", g, Next1(g), bulk.run + 1, "base") OBVIOUS
    <3>2. PICK x \in first : p = Request("load", "get", x, Next1(x), bulk.run + 1, "base") OBVIOUS
    <3>3. g = x BY <2>7, <3>1, <3>2, <1>9
    <3> QED BY <3>1, <3>2, <3>3
  <2>8. UNCHANGED seeds /\ \A g \in Group : srv[g].v <= srv'[g].v BY <1>11, <1>7 DEF Regroup
  <2> HIDE DEF Q
  <2> QED BY <1>2, <2>3, <2>4, <2>5, <2>6, <2>7, <2>8, CommandAdvances
<1>12. ASSUME NEW S \in SUBSET Group, CodesSaved(S) PROVE VouchersInv'
  <2>1. PICK g \in Group : /\ fetchGen' = [fetchGen EXCEPT ![g] = @ + 1]
                           /\ calls' = calls \cup {Request("refetch", "get", g, Next1(g), signal.run + 1, "base")}
    BY <1>12 DEF CodesSaved
  <2> DEFINE q == Request("refetch", "get", g, Next1(g), signal.run + 1, "base")
             Q == {q}
  <2>2. q.op = "refetch" /\ q.got = "open" /\ q.g = g /\ q.gen = fetchGen[g] + 1 BY <1>9 DEF Next1
  <2>3. calls' = calls \cup Q /\ Q \subseteq Call BY <2>1, <1>8
  <2>4. (\A x \in Group : fetchGen[x] <= fetchGen'[x]) /\ fetchGen'[g] = fetchGen[g] + 1
    BY <2>1, <1>a, <1>b
  <2>5. \A x \in Group : srv[x].v <= srv'[x].v
    <3>1. \A x \in Group : srv'[x] = srv[x] \/ srv'[x] = Touched(srv[x], "base") BY <1>12 DEF CodesSaved
    <3> QED BY <3>1, <1>3, <1>7, TouchedGrows
  <2>6. Open(q) /\ New(q) BY <2>2, <2>4, <1>b DEF Open, New
  <2>7. UNCHANGED <<voucherOf, seeds>> BY <1>12 DEF CodesSaved
  <2>8. (\A p \in Q : Open(p) /\ New(p)) /\ (\A x, p \in Q : x.g = p.g => x = p) BY <2>6
  <2>9. \A x \in Group : voucherOf'[x] = voucherOf[x] \/ (voucherOf'[x].v <= srv[x].v /\ fetchGen'[x] > fetchGen[x])
    BY <2>7
  <2> HIDE DEF Q
  <2> QED BY <1>2, <2>3, <2>4, <2>5, <2>7, <2>8, <2>9, CommandAdvances
\* commands that begin one call of the next generation
<1>c. ASSUME NEW g \in Group, NEW q, Open(q), q.g = g, q.gen = fetchGen[g] + 1, calls' = calls \cup {q},
             fetchGen' = [fetchGen EXCEPT ![g] = @ + 1], UNCHANGED <<srv, voucherOf, seeds>>
      PROVE  VouchersInv'
  <2>1. q \in Call BY <1>8, <1>c
  <2>2. (\A x \in Group : fetchGen[x] <= fetchGen'[x]) /\ fetchGen'[g] = fetchGen[g] + 1
    BY <1>a, <1>b, <1>c
  <2>3. New(q) BY <2>2, <1>b, <1>c DEF New
  <2> QED BY <1>2, <1>c, <2>1, <2>2, <2>3, CommandMakes
\* those that change neither calls nor generations
<1>d. ASSUME UNCHANGED <<srv, voucherOf, seeds, fetchGen, calls>> PROVE VouchersInv'
  BY <1>2, <1>d DEF VouchersInv, CallOk
\* commands whose call has no generation of its own
<1>e. ASSUME NEW q, Open(q), ~ Guarded(q), calls' = calls \cup {q}, UNCHANGED <<srv, voucherOf,
             seeds, fetchGen>>
      PROVE  VouchersInv'
  <2>1. q \in Call /\ New(q) BY <1>8, <1>e DEF New
  <2> QED BY <1>2, <1>7, <1>e, <2>1, CommandMakes
<1>f. \A g \in Group : \A how, ask : Begin(how, ask, g) =>
        LET q == Request(how, ask, g, Next1(g), 0, voucherOf[g].id)
        IN  /\ calls' = calls \cup {q} /\ fetchGen' = [fetchGen EXCEPT ![g] = @ + 1]
            /\ q.op = how /\ q.ask = ask /\ q.g = g /\ q.gen = fetchGen[g] + 1 /\ q.got = "open"
  BY <1>9 DEF Begin, Next1
<1>13. ASSUME NEW g \in Group, AiApply(g) PROVE VouchersInv'
  <2> DEFINE q == Request("ai", "patch", g, 0, 0, voucherOf[g].id)
  <2>1. Open(q) /\ ~ Guarded(q) BY <1>9 DEF Open, Guarded
  <2> HIDE DEF q
  <2> QED BY <1>13, <1>e, <2>1 DEF AiApply, q
<1>14. ASSUME NEW g \in Group, NEW c \in Command, Asked(g, c) PROVE VouchersInv'
  <2>1. CASE UNCHANGED <<calls, fetchGen>> BY <1>14, <1>d, <2>1 DEF Asked
  <2>2. CASE ~ UNCHANGED <<calls, fetchGen>>
    <3> DEFINE q == [Request("asked", "get", g, Next1(g), 0, "base") EXCEPT !.op = c]
    <3>1. q.op = c /\ q.got = "open" /\ q.g = g /\ q.gen = fetchGen[g] + 1 BY <1>1, AskedCall
    <3>2. calls' = calls \cup {q} /\ fetchGen' = [fetchGen EXCEPT ![g] = @ + 1] BY <1>14, <2>2 DEF Asked
    <3> HIDE DEF q
    <3>3. Open(q) BY <3>1 DEF Open, Command
    <3>4. UNCHANGED <<srv, voucherOf, seeds>> BY <1>14 DEF Asked
    <3> QED BY <1>c, <3>1, <3>2, <3>3, <3>4
  <2> QED BY <2>1, <2>2
<1>15. ASSUME NEW g \in Group, NEW how, NEW ask, how # "ai", Begin(how, ask, g), UNCHANGED <<srv,
              voucherOf, seeds>>
       PROVE  VouchersInv'
  <2> DEFINE q == Request(how, ask, g, Next1(g), 0, voucherOf[g].id)
  <2>1. /\ calls' = calls \cup {q} /\ fetchGen' = [fetchGen EXCEPT ![g] = @ + 1]
        /\ q.op = how /\ q.g = g /\ q.gen = fetchGen[g] + 1 /\ q.got = "open"
    BY <1>15, <1>f
  <2> HIDE DEF q
  <2>2. Open(q) BY <2>1, <1>15 DEF Open
  <2> QED BY <1>c, <1>15, <2>1, <2>2
<1>16. ASSUME NEW g \in Group, ReloadVoucher(g) \/ Rebuild(g) PROVE VouchersInv'
  BY <1>15, <1>16 DEF ReloadVoucher, Rebuild
<1>17. ASSUME NEW g \in Group, Discard(g) PROVE VouchersInv'
  <2> DEFINE q == Request("discard", "delete", g, fetchGen[g], 0, "base")
  <2>1. Open(q) /\ ~ Guarded(q) BY <1>9 DEF Open, Guarded
  <2> HIDE DEF q
  <2> QED BY <1>17, <1>e, <2>1 DEF Discard, q
<1>18. ASSUME NEW c \in Command, Confirm(c) PROVE VouchersInv'
  <2>1. dlg[c] \in Group BY <1>1, <1>18 DEF Confirm, DialogOpen, VouchersTyped
  <2> QED BY <1>15, <1>18, <2>1 DEF Confirm
<1>19. ASSUME SaveEdit PROVE VouchersInv'
  <2> DEFINE q == Request("save", "patch", dlg.edit, 0, 0, voucherOf[dlg.edit].id)
  <2>1. Open(q) /\ ~ Guarded(q) BY <1>9 DEF Open, Guarded
  <2> HIDE DEF q
  <2> QED BY <1>19, <1>e, <2>1 DEF SaveEdit, q
<1>20. ASSUME NEW g \in Group, NEW c \in Command, OpenDialog(g, c) \/ Dismiss(c) PROVE VouchersInv'
  BY <1>20, <1>d DEF OpenDialog, Dismiss
<1>21. CASE UNCHANGED vouchers BY <1>21, <1>d DEF vouchers
\* answers
<1>g. \A r \in calls : \A ask : LET q == [r EXCEPT !.ask = ask, !.got = "open"]
                                IN  q.op = r.op /\ q.g = r.g /\ q.gen = r.gen /\ q.got = "open"
  BY <1>4 DEF Call
<1>i. ASSUME NEW r \in calls, UNCHANGED voucherOf PROVE Painted(r) BY <1>i DEF Painted
<1>j. ASSUME NEW r \in calls, NEW j, voucherOf' = [voucherOf EXCEPT ![r.g] = j], j.v <= srv[r.g].v,
             j.v = 0 \/ fetchGen'[r.g] > fetchGen[r.g] \/ (Guarded(r) /\ ~ Stale(r))
      PROVE  Painted(r)
  <2>1. voucherOf'[r.g] = j /\ \A x \in Group : x # r.g => voucherOf'[x] = voucherOf[x]
    BY <1>1, <1>4, <1>j DEF VouchersTyped
  <2> QED BY <1>j, <2>1 DEF Painted, Stale, Superseded
<1>k. ASSUME NEW r \in calls, r.got = "ok" PROVE WithSeed(r.g, r.ans).v <= srv[r.g].v
  BY <1>4, <1>5, <1>6, <1>k DEF WithSeed
<1>l. \A g \in Group : seeds[g].v <= srv[g].v BY <1>5
<1>m. ASSUME NEW r \in calls, NEW ask, Guarded(r), Painted(r), UNCHANGED <<srv, seeds, fetchGen>>,
             calls' = (calls \ {r}) \cup {[r EXCEPT !.ask = ask, !.got = "open"]}
      PROVE  VouchersInv'
  <2> DEFINE q == [r EXCEPT !.ask = ask, !.got = "open"]
  <2>1. q.op = r.op /\ q.g = r.g /\ q.gen = r.gen /\ q.got = "open" BY <1>g
  <2>2. calls' = (calls \ {r}) \cup {q} /\ q \in Call BY <1>m, <1>8
  <2> HIDE DEF q
  <2>3. Open(q) /\ Alike(q, r) BY <1>m, <2>1 DEF Open, Alike, Guarded
  <2> QED BY <1>2, <1>7, <1>m, <2>2, <2>3, AnswerMakes
<1>n. ASSUME NEW r \in calls, Painted(r), UNCHANGED <<srv, seeds, fetchGen>>,
             calls' = calls \ {r} PROVE VouchersInv'
  BY <1>2, <1>7, <1>l, <1>n, AnswerEnds
<1>o. ASSUME NEW r \in calls, NEW g \in Group, NEW q, Painted(r), UNCHANGED <<srv, seeds>>,
             Open(q), q.g = g, q.gen = fetchGen[g] + 1,
             calls' = (calls \ {r}) \cup {q}, fetchGen' = [fetchGen EXCEPT ![g] = @ + 1]
      PROVE  VouchersInv'
  <2>1. q \in Call BY <1>8, <1>o
  <2>2. (\A x \in Group : fetchGen[x] <= fetchGen'[x]) /\ fetchGen'[g] = fetchGen[g] + 1
    BY <1>a, <1>b, <1>o
  <2>3. New(q) BY <2>2, <1>b, <1>o DEF New
  <2> QED BY <1>2, <1>o, <2>1, <2>2, <2>3, AnswerMakes
\* what a load in order shows
<1>p. ASSUME NEW r \in calls, Guarded(r), ~ Stale(r),
             voucherOf' = IF r.got = "ok" THEN [voucherOf EXCEPT ![r.g] = WithSeed(r.g, r.ans)] ELSE voucherOf
      PROVE  Painted(r)
  <2>1. CASE r.got = "ok" BY <2>1, <1>j, <1>k, <1>p
  <2>2. CASE r.got # "ok" BY <2>2, <1>i, <1>p
  <2> QED BY <2>1, <2>2
\* what any other guarded answer shows
<1>q. ASSUME NEW r \in calls, Guarded(r),
             UNCHANGED voucherOf \/ (~ Stale(r) /\ r.got = "ok" /\ Show(r.g, r.ans))
      PROVE  Painted(r)
  <2>1. r.got = "ok" => r.ans.v <= srv[r.g].v BY <1>6
  <2> QED BY <2>1, <1>i, <1>j, <1>q DEF Show
<1>22. ASSUME NEW r \in calls, ListLoaded(r) PROVE VouchersInv'
  <2>1. Guarded(r) /\ UNCHANGED <<srv, seeds>> BY <1>22 DEF ListLoaded, Guarded
  <2>2. CASE calls' = calls \ {r} /\ UNCHANGED <<voucherOf, fetchGen>> BY <2>1, <2>2, <1>i, <1>n
  <2>3. CASE calls' = (calls \ {r}) \cup {[r EXCEPT !.ask = "ensure", !.got = "open"]} /\ UNCHANGED <<voucherOf, fetchGen>>
    BY <2>1, <2>3, <1>i, <1>m
  <2>4. CASE /\ TakeNext(calls \ {r}) /\ ~ Stale(r)
             /\ voucherOf' = IF r.got = "ok" THEN [voucherOf EXCEPT ![r.g] = WithSeed(r.g, r.ans)] ELSE voucherOf
    <3>1. Painted(r) BY <2>1, <2>4, <1>p
    <3>2. CASE calls' = calls \ {r} /\ UNCHANGED fetchGen BY <2>1, <3>1, <3>2, <1>n
    <3>3. CASE bulk.left # {}
      <4>1. PICK g \in bulk.left : /\ fetchGen' = [fetchGen EXCEPT ![g] = @ + 1]
              /\ calls' = (calls \ {r}) \cup {Request("load", "get", g, Next1(g), bulk.run, "base")}
        BY <2>4, <3>3 DEF TakeNext
      <4>2. g \in Group BY <1>1 DEF VouchersTyped, Worker
      <4> DEFINE q == Request("load", "get", g, Next1(g), bulk.run, "base")
      <4>3. Open(q) /\ q.g = g /\ q.gen = fetchGen[g] + 1 BY <1>9 DEF Next1, Open
      <4>4. calls' = (calls \ {r}) \cup {q} BY <4>1
      <4> HIDE DEF q
      <4> QED BY <2>1, <3>1, <4>1, <4>2, <4>3, <4>4, <1>o
    <3> QED BY <2>4, <3>2, <3>3 DEF TakeNext
  <2> QED BY <1>22, <2>2, <2>3, <2>4 DEF ListLoaded
<1>23. ASSUME NEW r \in calls, Refetched(r) PROVE VouchersInv'
  <2>1. Guarded(r) /\ UNCHANGED <<srv, seeds>> BY <1>23 DEF Refetched, Guarded
  <2>2. CASE calls' = calls \ {r} /\ UNCHANGED <<voucherOf, fetchGen>> BY <2>1, <2>2, <1>i, <1>n
  <2>3. CASE calls' = (calls \ {r}) \cup {[r EXCEPT !.ask = "ensure", !.got = "open"]} /\ UNCHANGED <<voucherOf, fetchGen>>
    BY <2>1, <2>3, <1>i, <1>m
  <2>4. CASE /\ ~ Stale(r)
             /\ voucherOf' = IF r.got = "ok" THEN [voucherOf EXCEPT ![r.g] = WithSeed(r.g, r.ans)] ELSE voucherOf
             /\ \/ calls' = calls \ {r} /\ UNCHANGED fetchGen
                \/ \E g \in signal.left : /\ fetchGen' = [fetchGen EXCEPT ![g] = @ + 1]
                       /\ calls' = (calls \ {r}) \cup {Request("refetch", "get", g, Next1(g), r.run, "base")}
    <3>1. Painted(r) BY <2>1, <2>4, <1>p
    <3>2. CASE calls' = calls \ {r} /\ UNCHANGED fetchGen BY <2>1, <3>1, <3>2, <1>n
    <3>3. ASSUME NEW g \in signal.left, fetchGen' = [fetchGen EXCEPT ![g] = @ + 1],
                 calls' = (calls \ {r}) \cup {Request("refetch", "get", g, Next1(g), r.run, "base")}
          PROVE  VouchersInv'
      <4>2. g \in Group BY <1>1 DEF VouchersTyped, Worker
      <4> DEFINE q == Request("refetch", "get", g, Next1(g), r.run, "base")
      <4>3. Open(q) /\ q.g = g /\ q.gen = fetchGen[g] + 1 BY <1>9 DEF Next1, Open
      <4>4. calls' = (calls \ {r}) \cup {q} BY <3>3
      <4> HIDE DEF q
      <4> QED BY <2>1, <3>1, <3>3, <4>2, <4>3, <4>4, <1>o
    <3> QED BY <2>4, <3>2, <3>3
  <2> QED BY <1>23, <2>2, <2>3, <2>4 DEF Refetched
<1>24. ASSUME NEW r \in calls, AiApplied(r) PROVE VouchersInv'
  <2>1. CASE r.got # "ok" BY <1>24, <2>1, <1>i, <1>n DEF AiApplied
  <2>2. CASE r.got = "ok"
    <3>1. /\ seeds' = [g \in Group |-> IF g = r.g THEN r.ans ELSE None]
          /\ fetchGen' = [fetchGen EXCEPT ![r.g] = @ + 2] /\ voucherOf' = [voucherOf EXCEPT ![r.g] = r.ans]
          /\ calls' = calls \ {r} /\ UNCHANGED srv
      BY <1>24, <2>2 DEF AiApplied
    <3>2. r.g \in Group /\ r.ans.v <= srv[r.g].v BY <1>4, <1>6, <2>2
    <3>3. fetchGen[r.g] + 2 \in Nat /\ fetchGen[r.g] + 2 >= fetchGen[r.g] /\ fetchGen[r.g] + 2 > fetchGen[r.g]
      BY <3>2, <1>3
    <3>4. (\A x \in Group : fetchGen[x] <= fetchGen'[x]) /\ fetchGen'[r.g] = fetchGen[r.g] + 2
      BY <3>1, <3>2, <3>3, <1>a
    <3>5. Painted(r) BY <3>1, <3>2, <3>3, <3>4, <1>j
    <3>6. \A g \in Group : seeds'[g].v <= srv[g].v BY <3>1, <3>2, <1>3, NoneVoucher
    <3> QED BY <1>2, <3>1, <3>4, <3>5, <3>6, AnswerEnds
  <2> QED BY <2>1, <2>2
<1>25. ASSUME NEW r \in calls, Reloaded(r) PROVE VouchersInv'
  <2>1. Guarded(r) /\ UNCHANGED <<srv, seeds, fetchGen>> BY <1>25 DEF Reloaded, Answered, Guarded, Command
  <2>2. UNCHANGED voucherOf \/ (~ Stale(r) /\ r.got = "ok" /\ Show(r.g, r.ans)) BY <1>25 DEF Reloaded
  <2>3. Painted(r) BY <2>1, <2>2, <1>q
  <2>4. Again(r, "ensure") \/ Rest(r) BY <1>25 DEF Reloaded
  <2> QED BY <2>1, <2>3, <2>4, <1>m, <1>n DEF Again, Rest
<1>26. ASSUME NEW r \in calls, Rebuilt(r) PROVE VouchersInv'
  <2>1. Guarded(r) /\ UNCHANGED <<srv, seeds, fetchGen>>
    BY <1>26 DEF Rebuilt, Unanswered, Answered, Guarded
  <2>4. CASE Unanswered(r)
    <3>1. UNCHANGED voucherOf /\ calls' = calls \ {r} BY <2>4 DEF Unanswered, Rest
    <3> QED BY <2>1, <3>1, <1>i, <1>n
  <2>2. CASE r.ask = "delete" /\ ~ Unanswered(r)
    <3>1. voucherOf' = [voucherOf EXCEPT ![r.g] = None] /\ Again(r, "ensure")
      BY <1>26, <2>2 DEF Rebuilt, Show
    <3>2. None.v <= srv[r.g].v BY <1>3, <1>4, NoneVoucher
    <3>3. Painted(r) BY <3>1, <3>2, <1>j, NoneVoucher
    <3> QED BY <2>1, <3>1, <3>3, <1>m DEF Again
  <2>3. CASE r.ask # "delete"
    <3>1. UNCHANGED voucherOf \/ (~ Stale(r) /\ r.got = "ok" /\ Show(r.g, r.ans))
      BY <1>26, <2>3 DEF Rebuilt, Unanswered
    <3>2. Painted(r) BY <2>1, <3>1, <1>q
    <3>3. Rest(r) BY <1>26, <2>3 DEF Rebuilt, Unanswered
    <3> QED BY <2>1, <3>2, <3>3, <1>n DEF Rest
  <2> QED BY <2>2, <2>3, <2>4
<1>27. ASSUME NEW r \in calls, Discarded(r) PROVE VouchersInv'
  <2> DEFINE q == [Request("reload", "get", r.g, Next1(r.g), 0, "base") EXCEPT !.n = r.n]
  <2>1. q.op = "reload" /\ q.got = "open" /\ q.g = r.g /\ q.gen = fetchGen[r.g] + 1
    BY <1>1, <1>4, DiscardedCall
  <2>2. UNCHANGED <<srv, seeds>> BY <1>27 DEF Discarded
  <2>3. CASE Unanswered(r)
    <3>1. UNCHANGED <<voucherOf, fetchGen>> /\ calls' = calls \ {r} BY <2>3 DEF Unanswered, Rest
    <3> QED BY <2>2, <3>1, <1>i, <1>n
  <2>4. CASE ~ Unanswered(r)
    <3>1. /\ calls' = (calls \ {r}) \cup {q} /\ fetchGen' = [fetchGen EXCEPT ![r.g] = @ + 1]
          /\ voucherOf' = [voucherOf EXCEPT ![r.g] = None]
      BY <1>27, <2>4 DEF Discarded, Show
    <3> HIDE DEF q
    <3>2. None.v <= srv[r.g].v BY <1>3, <1>4, NoneVoucher
    <3>3. Painted(r) BY <3>1, <3>2, <1>j, NoneVoucher
    <3>4. Open(q) /\ r.g \in Group BY <2>1, <1>4 DEF Open
    <3> QED BY <2>1, <2>2, <3>1, <3>3, <3>4, <1>o
  <2> QED BY <2>3, <2>4
<1>28. ASSUME NEW r \in calls, Posted(r) PROVE VouchersInv'
  <2>1. Guarded(r) /\ UNCHANGED <<srv, seeds, fetchGen>> BY <1>28 DEF Posted, Answered, Guarded
  <2>2. UNCHANGED voucherOf \/ (~ Stale(r) /\ r.got = "ok" /\ Show(r.g, r.ans)) BY <1>28 DEF Posted
  <2>3. Painted(r) BY <2>1, <2>2, <1>q
  <2>4. CASE calls' = calls \ {r} BY <2>1, <2>3, <2>4, <1>n
  <2>5. CASE calls' = (calls \ {r}) \cup {[r EXCEPT !.sure = TRUE, !.got = "open"]}
    <3> DEFINE q == [r EXCEPT !.sure = TRUE, !.got = "open"]
    <3>1. q.op = r.op /\ q.g = r.g /\ q.gen = r.gen /\ q.got = "open" BY <1>4 DEF Call
    <3>2. calls' = (calls \ {r}) \cup {q} /\ q \in Call BY <2>5, <1>8
    <3> HIDE DEF q
    <3>3. Open(q) /\ Alike(q, r) BY <2>1, <3>1 DEF Open, Alike, Guarded
    <3> QED BY <1>2, <1>7, <2>1, <2>3, <3>2, <3>3, AnswerMakes
  <2> QED BY <1>28, <2>4, <2>5 DEF Posted, Rest
<1>29. ASSUME NEW r \in calls, Undone(r) PROVE VouchersInv'
  <2>1. Guarded(r) /\ UNCHANGED <<srv, seeds, fetchGen>> BY <1>29 DEF Undone, Answered, Guarded
  <2>2. UNCHANGED voucherOf \/ (~ Stale(r) /\ r.got = "ok" /\ Show(r.g, r.ans)) BY <1>29 DEF Undone
  <2>3. Painted(r) BY <2>1, <2>2, <1>q
  <2>4. Again(r, "unpost") \/ Again(r, "reverse") \/ Rest(r) BY <1>29 DEF Undone
  <2> QED BY <2>1, <2>3, <2>4, <1>m, <1>n DEF Again, Rest
<1>30. ASSUME NEW r \in calls, SavedEdit(r) PROVE VouchersInv'
  <2>1. CASE r.got # "ok" BY <1>30, <2>1, <1>i, <1>n DEF SavedEdit
  <2>2. CASE r.got = "ok"
    <3>1. /\ fetchGen' = [fetchGen EXCEPT ![r.g] = @ + 1] /\ voucherOf' = [voucherOf EXCEPT ![r.g] = r.ans]
          /\ calls' = calls \ {r} /\ UNCHANGED <<srv, seeds>>
      BY <1>30, <2>2 DEF SavedEdit, Show
    <3>2. r.g \in Group /\ r.ans.v <= srv[r.g].v BY <1>4, <1>6, <2>2
    <3>3. (\A x \in Group : fetchGen[x] <= fetchGen'[x]) /\ fetchGen'[r.g] = fetchGen[r.g] + 1
      BY <3>1, <3>2, <1>a, <1>b
    <3>4. Painted(r) BY <3>1, <3>2, <3>3, <1>b, <1>j
    <3>5. \A g \in Group : seeds'[g].v <= srv[g].v BY <3>1, <1>l
    <3> QED BY <1>2, <3>1, <3>3, <3>4, <3>5, AnswerEnds
  <2> QED BY <2>1, <2>2
<1>31. CASE VoucherAnswers
  BY <1>31, <1>22, <1>23, <1>24, <1>25, <1>26, <1>27, <1>28, <1>29, <1>30 DEF VoucherAnswers
<1>32. CASE \E S \in SUBSET Group : Regroup(S) \/ CodesSaved(S) BY <1>32, <1>11, <1>12
<1>33. CASE \E g \in Group : \/ AiApply(g) \/ ReloadVoucher(g) \/ Rebuild(g) \/ Discard(g)
                           \/ \E c \in Command : Asked(g, c) \/ OpenDialog(g, c)
  BY <1>33, <1>13, <1>14, <1>16, <1>17, <1>20
<1>34. CASE \E c \in Command : Dismiss(c) \/ Confirm(c)
  <2>1. PICK c \in Command : Dismiss(c) \/ Confirm(c) BY <1>34
  <2>2. CASE Dismiss(c) BY <2>2, <1>d DEF Dismiss
  <2> QED BY <2>1, <2>2, <1>18
<1> QED BY <1>10, <1>19, <1>21, <1>31, <1>32, <1>33, <1>34 DEF VouchersNext

LEMMA VouchersStart == VouchersInit => VouchersInv
<1> SUFFICES ASSUME VouchersInit PROVE VouchersInv OBVIOUS
<1>1. VouchersTyped BY NoneVoucher DEF VouchersInit, VouchersTyped, Kept, Sts, Worker
<1>2. (\A g \in Group : voucherOf[g].v = 0 /\ seeds[g].v = 0 /\ srv[g].v = 0) /\ calls = {}
  BY NoneVoucher DEF VouchersInit
<1> QED BY <1>1, <1>2 DEF VouchersInv

\* A voucher is shown only from these places.
LEMMA ShownFrom ==
  ASSUME VouchersTyped, Stays # {}, VouchersNext, NEW g \in Group
  PROVE  \/ voucherOf'[g] = voucherOf[g] \/ voucherOf'[g] = WithSeed(g, voucherOf[g]) \/ voucherOf'[g] = None
         \/ \E r \in calls \ calls' : r.op = "save" /\ r.g = g
         \/ \E r \in calls : r.op = "ai" /\ r.got = "ok" /\ r.g = g /\ seeds'[g] = r.ans
         \/ \E r \in calls : /\ Guarded(r) /\ ~ Stale(r) /\ r.got = "ok" /\ r.g = g
                             /\ voucherOf'[g] = r.ans \/ voucherOf'[g] = WithSeed(g, r.ans)
<1> DEFINE From(r) == /\ Guarded(r) /\ ~ Stale(r) /\ r.got = "ok" /\ r.g = g
                      /\ voucherOf'[g] = r.ans \/ voucherOf'[g] = WithSeed(g, r.ans)
<1>1. \A r \in calls : r.g \in Group BY DEF VouchersTyped, Call
<1>2. \A x \in Group : \A j : voucherOf' = [voucherOf EXCEPT ![x] = j] => voucherOf'[g] = voucherOf[g] \/ (x = g /\ voucherOf'[g] = j)
  BY DEF VouchersTyped
<1>3. ASSUME NEW r \in calls, ListLoaded(r) \/ Refetched(r) PROVE voucherOf'[g] = voucherOf[g] \/ From(r)
  <2>1. \/ UNCHANGED voucherOf
        \/ ~ Stale(r) /\ r.got = "ok" /\ voucherOf' = [voucherOf EXCEPT ![r.g] = WithSeed(r.g, r.ans)]
    BY <1>3 DEF ListLoaded, Refetched
  <2>2. Guarded(r) BY <1>3 DEF ListLoaded, Refetched, Guarded
  <2> QED BY <1>1, <1>2, <2>1, <2>2
<1>4. ASSUME NEW r \in calls, Reloaded(r) \/ Rebuilt(r) \/ Posted(r) \/ Undone(r)
      PROVE  voucherOf'[g] = voucherOf[g] \/ voucherOf'[g] = None \/ From(r)
  <2>1. \/ UNCHANGED voucherOf \/ voucherOf' = [voucherOf EXCEPT ![r.g] = None]
        \/ ~ Stale(r) /\ r.got = "ok" /\ voucherOf' = [voucherOf EXCEPT ![r.g] = r.ans]
    BY <1>4 DEF Reloaded, Rebuilt, Unanswered, Posted, Undone, Show
  <2>2. Guarded(r) BY <1>4 DEF Reloaded, Rebuilt, Posted, Undone, Answered, Guarded, Command
  <2> QED BY <1>1, <1>2, <2>1, <2>2
<1>5. ASSUME NEW r \in calls, AiApplied(r)
      PROVE  voucherOf'[g] = voucherOf[g] \/ (r.op = "ai" /\ r.got = "ok" /\ r.g = g /\ seeds'[g] = r.ans)
  <2>1. r.op = "ai" BY <1>5 DEF AiApplied
  <2>2. \/ UNCHANGED voucherOf
        \/ /\ r.got = "ok" /\ voucherOf' = [voucherOf EXCEPT ![r.g] = r.ans]
           /\ seeds' = [x \in Group |-> IF x = r.g THEN r.ans ELSE None]
    BY <1>5 DEF AiApplied
  <2> QED BY <1>1, <1>2, <2>1, <2>2
<1>6. ASSUME NEW r \in calls, Discarded(r) PROVE voucherOf'[g] = voucherOf[g] \/ voucherOf'[g] = None
  BY <1>1, <1>2, <1>6 DEF Discarded, Unanswered, Show
<1>7. ASSUME NEW r \in calls, SavedEdit(r)
      PROVE  voucherOf'[g] = voucherOf[g] \/ (r \notin calls' /\ r.op = "save" /\ r.g = g)
  <2>1. r \notin calls' /\ r.op = "save" BY <1>7 DEF SavedEdit, Answered
  <2>2. UNCHANGED voucherOf \/ voucherOf' = [voucherOf EXCEPT ![r.g] = r.ans] BY <1>7 DEF SavedEdit, Show
  <2> QED BY <1>1, <1>2, <2>1, <2>2
<1>8. CASE VoucherAnswers
  <2>1. PICK r \in calls : \/ ListLoaded(r) \/ Refetched(r) \/ AiApplied(r) \/ Reloaded(r) \/ Rebuilt(r)
                           \/ Discarded(r) \/ Posted(r) \/ Undone(r) \/ SavedEdit(r)
    BY <1>8 DEF VoucherAnswers
  <2> QED BY <2>1, <1>3, <1>4, <1>5, <1>6, <1>7
<1>9. ASSUME NEW S \in SUBSET Group, Regroup(S) PROVE voucherOf'[g] = WithSeed(g, voucherOf[g])
  <2>1. S # {} BY <1>9 DEF Regroup
  <2>2. voucherOf' = [x \in Group |-> WithSeed(x, voucherOf[x])] BY <1>9, <2>1 DEF Regroup
  <2> QED BY <2>2
<1>10. ASSUME ~ VoucherAnswers, \A S \in SUBSET Group : ~ Regroup(S) PROVE UNCHANGED voucherOf
  BY <1>10 DEF VouchersNext, Serve, CodesSaved, AiApply, ReloadVoucher, Rebuild, Discard, Asked,
     OpenDialog, Dismiss,
               Confirm, SaveEdit, section
<1> QED BY <1>8, <1>9, <1>10

\* Whatever a step shows is no older than what was shown before, but for what the property leaves out.
LEMMA ShowsNoOlder ==
  ASSUME Stays # {}, VouchersInv, VouchersNext
  PROVE  GuardedNeverOlderStep
<1> SUFFICES ASSUME NEW g \in Group, seeds[g] = None, seeds'[g] = None, voucherOf'[g].st # "none",
                    ~ \E r \in calls \ calls' : r.op = "save" /\ r.g = g
             PROVE  voucherOf'[g].v >= voucherOf[g].v
  BY DEF GuardedNeverOlderStep
<1>1. VouchersTyped BY DEF VouchersInv
<1>2. voucherOf[g].v \in Nat /\ \A j : WithSeed(g, j) = j BY <1>1, VoucherNumbers DEF WithSeed
<1>3. voucherOf'[g] # None BY NoneVoucher
<1>4. \A r \in calls : r.op = "ai" /\ r.got = "ok" => r.ans # None
  <2>1. \A r \in calls : r.op = "ai" /\ r.got = "ok" => r.ans.v >= 1 BY DEF VouchersInv, CallOk
  <2> QED BY <2>1, NoneVoucher
<1>5. \A r \in calls : Guarded(r) /\ ~ Stale(r) /\ r.got = "ok" /\ r.g = g => voucherOf[g].v <= r.ans.v
  BY DEF VouchersInv, CallOk, Stale, Superseded
<1>6. \A r \in calls : r.ans.v \in Nat BY <1>1, VoucherNumbers
<1> QED BY <1>1, <1>2, <1>3, <1>4, <1>5, <1>6, ShownFrom

\* The voucher shown for a group never gives way to an older one, for any number of groups and
\* of loads at a time, with or without drafts seeded by the assistant, and in whatever order
\* loads and refetches are served, answered or lost (groupFetchGenRef of
\* ReconGlSection.tsx).  A group must stay in the list: a list that is empty for a moment starts
\* the generations again from 0.
THEOREM ShownNeverOlder ==
  ASSUME Stays # {}
  PROVE  VouchersSpec => GuardedNeverOlder
<1>1. VouchersInit => VouchersInv BY VouchersStart
<1>2. VouchersInv /\ [VouchersNext]_vouchers => VouchersInv' BY VouchersStep
<1>3. VouchersInv /\ [VouchersNext]_vouchers => [GuardedNeverOlderStep]_vouchers BY ShowsNoOlder
<1> QED BY <1>1, <1>2, <1>3, PTL DEF VouchersSpec, GuardedNeverOlder

-----------------------------------------------------------------------------
(* The lines of a journal.  A line that differs from the one the dialog    *)
(* was opened with was typed or removed there, and so was every line a     *)
(* save puts.                                                              *)

Amounts == [Line -> Nat]
Entry == [st : {"none", "draft", "posted"}, fromModule : BOOLEAN, matched : BOOLEAN, lines : Amounts, more : Nat]
Entries == [Journal -> Entry]
ByHand(v) == v > MaxChange

DlgTyped == voucherDlg \in [j : Journal \cup {NoJournal}, orig : Amounts, cur : Amounts, new : {0, 1}]
DlgByHand == \A l \in Line : voucherDlg.cur[l] = voucherDlg.orig[l] \/ ByHand(voucherDlg.cur[l])
LoadTyped(r) == r.ans \in Entries
PutByHand(r) == r.op = "save" => /\ r.cur \in Amounts /\ r.new \in {0, 1}
                                 /\ \A l \in r.put \cap Line : ByHand(r.cur[l])
JournalInv ==
  /\ entries \in Entries /\ list \in Entries /\ DlgTyped /\ DlgByHand
  /\ \A r \in listLoads : LoadTyped(r)
  /\ \A r \in commands : r.op \in {"post", "unpost", "save", "create"} /\ PutByHand(r)

LEMMA HandValues == ByHand(Gone) /\ ByHand(Typed) /\ Gone \in Nat /\ Typed \in Nat
BY JournalAssumption DEF ByHand, Gone, Typed

LEMMA AbsentTyped == Lines0 \in Amounts /\ Absent \in Entry
BY DEF Lines0, Amounts, Absent, Entry

LEMMA ListTyped == ASSUME entries \in Entries, NEW f PROVE Filtered(f) \in Entries
BY AbsentTyped DEF Filtered, Entries

LEMMA LoadsTyped ==
  ASSUME JournalInv, NEW f, NEW rests, ReloadList(f, rests)
  PROVE  \A r \in listLoads' : LoadTyped(r)
<1>1. LoadTyped(ListLoad(f, rests))
  BY AbsentTyped DEF LoadTyped, ListLoad, Entries
<1>2. QED
  BY <1>1 DEF JournalInv, ReloadList

(* What becomes of the journals when the server takes a command.           *)
KeepsOthers(r) == \A j \in Journal, l \in Line :
    entries'[j].lines[l] < entries[j].lines[l] => r.op = "save" /\ r.j = j /\ ByHand(r.cur[l])

LEMMA SaveServed ==
  ASSUME entries \in Entries, NEW r, PutByHand(r), r.op = "save", entries' \in Became(r)
  PROVE  entries' \in Entries /\ KeepsOthers(r)
<1> DEFINE ls == [l \in Line |-> IF l \in r.put THEN r.cur[l] ELSE entries[r.j].lines[l]]
           more == entries[r.j].more + r.new
<1>1. entries' = [entries EXCEPT ![r.j].lines = ls, ![r.j].more = more]
  BY DEF Became
<1>2. CASE r.j \notin Journal
  <2>1. entries' = entries
    BY <1>1, <1>2 DEF Entries
  <2>2. \A j \in Journal, l \in Line : entries[j].lines[l] \in Nat
    BY DEF Entries, Entry, Amounts
  <2>3. QED
    BY <2>1, <2>2 DEF KeepsOthers
<1>3. CASE r.j \in Journal
  <2>1. entries[r.j] \in Entry /\ entries[r.j].lines \in Amounts /\ entries[r.j].more \in Nat
    BY <1>3 DEF Entries, Entry
  <2>2. ls \in Amounts /\ more \in Nat
    BY <2>1 DEF PutByHand, Amounts
  <2>3. \A l \in Line : ls[l] = IF l \in r.put THEN r.cur[l] ELSE entries[r.j].lines[l]
    OBVIOUS
  <2> HIDE DEF ls, more
  <2>4. entries' \in Entries
    BY <1>1, <1>3, <2>1, <2>2 DEF Entries, Entry
  <2>5. \A j \in Journal : entries'[j].lines = IF j = r.j THEN ls ELSE entries[j].lines
    BY <1>1, <1>3, <2>1 DEF Entries, Entry
  <2>6. \A j \in Journal, l \in Line : entries[j].lines[l] \in Nat
    BY DEF Entries, Entry, Amounts
  <2>7. QED
    BY <2>3, <2>4, <2>5, <2>6 DEF KeepsOthers, PutByHand
<1>4. QED
  BY <1>2, <1>3

LEMMA OtherServed ==
  ASSUME entries \in Entries, NEW r, r.op \in {"post", "unpost", "create"}, entries' \in Became(r)
  PROVE  entries' \in Entries /\ KeepsOthers(r)
<1>1. \E j \in Journal \cup {r.j}, s \in {"draft", "posted"} : entries' = [entries EXCEPT ![j].st = s]
  <2>1. CASE r.op = "post"
    BY <2>1 DEF Became
  <2>2. CASE r.op = "unpost"
    BY <2>2 DEF Became
  <2>3. CASE r.op = "create"
    BY <2>3 DEF Became
  <2>4. QED
    BY <2>1, <2>2, <2>3
<1>2. entries' \in Entries
  BY <1>1 DEF Entries, Entry
<1>3. \A i \in Journal : entries'[i].lines = entries[i].lines
  BY <1>1 DEF Entries, Entry
<1>4. \A i \in Journal, l \in Line : entries[i].lines[l] \in Nat
  BY DEF Entries, Entry, Amounts
<1>5. QED
  BY <1>2, <1>3, <1>4 DEF KeepsOthers

LEMMA ServedKeeps ==
  ASSUME JournalInv, NEW r \in commands, ServeCommand(r)
  PROVE  JournalInv' /\ OthersKeptStep
<1>1. r.op \in {"post", "unpost", "save", "create"} /\ PutByHand(r) /\ entries \in Entries
  BY DEF JournalInv
<1>2. \A j \in Journal, l \in Line : entries[j].lines[l] \in Nat
  BY <1>1 DEF Entries, Entry, Amounts
<1>3. entries' \in Entries /\ (KeepsOthers(r) \/ UNCHANGED entries)
  BY <1>1, SaveServed, OtherServed DEF ServeCommand
<1>4. PICK got \in {"ok", "lost"} : commands' = (commands \ {r}) \cup {[r EXCEPT !.got = got]}
  BY DEF ServeCommand
<1> DEFINE s == [r EXCEPT !.got = got]
<1>5. s.op = r.op /\ s.put = r.put /\ s.cur = r.cur /\ s.new = r.new
  OBVIOUS
<1>6. PutByHand(s)
  BY <1>1, <1>5 DEF PutByHand
<1> HIDE DEF s
<1>7. \A q \in commands' : q.op \in {"post", "unpost", "save", "create"} /\ PutByHand(q)
  BY <1>1, <1>4, <1>5, <1>6 DEF s, JournalInv
<1>8. OthersKeptStep
  BY <1>2, <1>3 DEF OthersKeptStep, KeepsOthers, ByHand
<1>9. QED
  BY <1>3, <1>7, <1>8 DEF ServeCommand, journalPage, JournalInv, DlgTyped, DlgByHand

LEMMA JournalStep ==
  ASSUME JournalInv, [JournalNext]_journals
  PROVE  JournalInv' /\ OthersKeptStep
<1> DEFINE Loads == \A r \in listLoads' : LoadTyped(r)
           Reqs == \A r \in commands' : r.op \in {"post", "unpost", "save", "create"} /\ PutByHand(r)
<1>1. \A j \in Journal, l \in Line : entries[j].lines[l] \in Nat /\ ~ (entries[j].lines[l] < entries[j].lines[l])
  BY DEF JournalInv, Entries, Entry, Amounts
<1>2. ASSUME UNCHANGED entries, list' \in Entries, (DlgTyped /\ DlgByHand)', Loads, Reqs
      PROVE  JournalInv' /\ OthersKeptStep
  BY <1>1, <1>2 DEF JournalInv, OthersKeptStep
<1>3. (UNCHANGED voucherDlg => (DlgTyped /\ DlgByHand)') /\ (UNCHANGED listLoads => Loads)
      /\ (commands' \subseteq commands => Reqs) /\ (UNCHANGED list => list' \in Entries)
  BY DEF JournalInv, DlgTyped, DlgByHand
<1>4. ASSUME NEW f, NEW rests, ReloadList(f, rests) PROVE Loads
  BY <1>4, LoadsTyped
<1>5. ASSUME NEW how \in {"post", "unpost", "create"}, NEW j, SendCommand(Asking(how, j)) PROVE Reqs
  BY <1>5 DEF SendCommand, Asking, PutByHand, JournalInv
<1>6. ASSUME NEW f \in Filter, PickFilter(f) PROVE JournalInv' /\ OthersKeptStep
  BY <1>2, <1>3, <1>4, <1>6 DEF PickFilter
<1>7. CASE Refresh \/ CodesDeployed
  BY <1>2, <1>3, <1>4, <1>7 DEF Refresh, CodesDeployed
<1>8. CASE AddLine
  <2>1. (DlgTyped /\ DlgByHand)'
    BY <1>8 DEF AddLine, JournalInv, DlgTyped, DlgByHand
  <2>2. QED
    BY <1>2, <1>3, <1>8, <2>1 DEF AddLine
<1>9. (DlgTyped /\ DlgByHand)' \/ voucherDlg' # Closed
  BY AbsentTyped DEF Closed, DlgTyped, DlgByHand
<1>10. CASE CloseEdit
  BY <1>2, <1>3, <1>9, <1>10 DEF CloseEdit
<1>11. CASE Save
  <2> DEFINE r == [Asking("save", voucherDlg.j) EXCEPT !.put = Sent(voucherDlg), !.cur = voucherDlg.cur, !.new = voucherDlg.new]
  <2>1. r.op = "save" /\ r.put = Sent(voucherDlg) /\ r.cur = voucherDlg.cur /\ r.new = voucherDlg.new
    BY DEF Asking
  <2>2. PutByHand(r)
    BY <2>1 DEF PutByHand, Sent, Differing, JournalInv, DlgTyped, DlgByHand
  <2>3. commands' = commands \cup {r}
    BY <1>11 DEF Save, SendCommand
  <2> HIDE DEF r
  <2>4. Reqs
    BY <2>1, <2>2, <2>3 DEF JournalInv
  <2>5. QED
    BY <1>2, <1>3, <1>11, <2>4 DEF Save
<1>12. CASE OpenManual \/ CloseManual
  BY <1>2, <1>3, <1>12 DEF OpenManual, CloseManual
<1>13. CASE CreateManual
  BY <1>2, <1>3, <1>5, <1>13 DEF CreateManual, journalPage
<1>14. ASSUME NEW r \in listLoads, Read(r) PROVE JournalInv' /\ OthersKeptStep
  <2>1. LoadTyped(r) /\ entries \in Entries
    BY DEF JournalInv
  <2>2. CASE listLoads' = (listLoads \ {r}) \cup {[r EXCEPT !.got = "ok", !.ans = Filtered(r.f)]}
    <3> DEFINE s == [r EXCEPT !.got = "ok", !.ans = Filtered(r.f)]
    <3>1. s.ans = Filtered(r.f)
      OBVIOUS
    <3>2. LoadTyped(s)
      BY <2>1, <3>1, ListTyped DEF LoadTyped
    <3> HIDE DEF s
    <3>3. Loads
      BY <2>2, <3>2 DEF s, JournalInv
    <3>4. QED
      BY <1>2, <1>3, <1>14, <3>3 DEF Read
  <2>3. CASE listLoads' = (listLoads \ {r}) \cup {[r EXCEPT !.got = "lost"]}
    <3> DEFINE s == [r EXCEPT !.got = "lost"]
    <3>1. s.ans = r.ans
      OBVIOUS
    <3>2. LoadTyped(s)
      BY <2>1, <3>1 DEF LoadTyped
    <3> HIDE DEF s
    <3>3. Loads
      BY <2>3, <3>2 DEF s, JournalInv
    <3>4. QED
      BY <1>2, <1>3, <1>14, <3>3 DEF Read
  <2>4. QED
    BY <1>14, <2>2, <2>3 DEF Read
<1>15. ASSUME NEW r \in listLoads, ListShown(r) PROVE JournalInv' /\ OthersKeptStep
  <2>1. Loads /\ LoadTyped(r)
    BY <1>15 DEF ListShown, JournalInv
  <2>2. (DlgTyped /\ DlgByHand)'
    <3>1. CASE voucherDlg' = voucherDlg
      BY <1>3, <3>1
    <3>2. CASE voucherDlg' = [voucherDlg EXCEPT !.cur = voucherDlg.orig, !.new = 0]
      BY <3>2 DEF JournalInv, DlgTyped, DlgByHand
    <3>3. QED
      BY <1>15, <3>1, <3>2 DEF ListShown, Reset
  <2>3. QED
    BY <1>2, <1>3, <1>15, <2>1, <2>2 DEF ListShown, LoadTyped
<1>16. ASSUME NEW j \in Journal, Toggle(j) PROVE JournalInv' /\ OthersKeptStep
  BY <1>2, <1>3, <1>5, <1>16 DEF Toggle
<1>17. ASSUME NEW j \in Journal, OpenEdit(j) PROVE JournalInv' /\ OthersKeptStep
  <2>1. list[j].lines \in Amounts
    BY DEF JournalInv, Entries, Entry
  <2>2. voucherDlg' = [j |-> j, orig |-> list[j].lines, cur |-> list[j].lines, new |-> 0]
    BY <1>17 DEF OpenEdit
  <2>3. (DlgTyped /\ DlgByHand)'
    BY <2>1, <2>2 DEF DlgTyped, DlgByHand
  <2>4. QED
    BY <1>2, <1>3, <1>17, <2>3 DEF OpenEdit
<1>18. ASSUME NEW l \in Line, EditLine(l) PROVE JournalInv' /\ OthersKeptStep
  <2>1. PICK v \in {Typed, Gone} : voucherDlg' = [voucherDlg EXCEPT !.cur[l] = v]
    BY <1>18 DEF EditLine
  <2>2. v \in Nat /\ ByHand(v)
    BY HandValues
  <2>3. (DlgTyped /\ DlgByHand)'
    BY <2>1, <2>2 DEF JournalInv, DlgTyped, DlgByHand, Amounts
  <2>4. QED
    BY <1>2, <1>3, <1>18, <2>3 DEF EditLine
<1>19. ASSUME NEW j \in Journal, OtherMatch(j) PROVE JournalInv' /\ OthersKeptStep
  <2>1. \/ entries' = [entries EXCEPT ![j] = [@ EXCEPT !.st = "none"]]
        \/ entries' = [entries EXCEPT ![j] = [@ EXCEPT !.matched = TRUE]]
    BY <1>19 DEF OtherMatch
  <2>2. entries \in Entries /\ entries[j] \in Entry
    BY DEF JournalInv, Entries
  <2>3. PICK e \in Entry : entries' = [entries EXCEPT ![j] = e] /\ e.lines = entries[j].lines
    <3>1. CASE entries' = [entries EXCEPT ![j] = [@ EXCEPT !.st = "none"]]
      <4> DEFINE e == [entries[j] EXCEPT !.st = "none"]
      <4>1. e \in Entry /\ e.lines = entries[j].lines
        BY <2>2 DEF Entry
      <4>2. entries' = [entries EXCEPT ![j] = e]
        BY <3>1
      <4>3. QED
        BY <4>1, <4>2
    <3>2. CASE entries' = [entries EXCEPT ![j] = [@ EXCEPT !.matched = TRUE]]
      <4> DEFINE e == [entries[j] EXCEPT !.matched = TRUE]
      <4>1. e \in Entry /\ e.lines = entries[j].lines
        BY <2>2 DEF Entry
      <4>2. entries' = [entries EXCEPT ![j] = e]
        BY <3>2
      <4>3. QED
        BY <4>1, <4>2
    <3>3. QED
      BY <2>1, <3>1, <3>2
  <2>4. entries' \in Entries /\ \A i \in Journal : entries'[i].lines = entries[i].lines
    BY <2>2, <2>3 DEF Entries
  <2>5. QED
    BY <1>1, <1>3, <1>19, <2>4 DEF OtherMatch, journalPage, JournalInv, OthersKeptStep
<1>20. ASSUME NEW j \in Journal, NEW l \in Line, OtherChange(j, l) PROVE JournalInv' /\ OthersKeptStep
  <2> DEFINE n == entries[j].lines[l] + 1
  <2>1. entries' = [entries EXCEPT ![j].lines[l] = n]
    BY <1>20 DEF OtherChange
  <2>2. n \in Nat /\ ~ (n < entries[j].lines[l])
    BY <1>1
  <2> HIDE DEF n
  <2>3. entries' \in Entries
    BY <2>1, <2>2 DEF JournalInv, Entries, Entry, Amounts
  <2>4. \A i \in Journal, k \in Line :
            entries'[i].lines[k] = IF i = j /\ k = l THEN n ELSE entries[i].lines[k]
    BY <2>1 DEF JournalInv, Entries, Entry, Amounts
  <2>5. QED
    BY <1>1, <1>3, <1>20, <2>2, <2>3, <2>4 DEF OtherChange, journalPage, JournalInv, OthersKeptStep
<1>21. ASSUME NEW r \in commands, Toggled(r) PROVE JournalInv' /\ OthersKeptStep
  BY <1>2, <1>3, <1>4, <1>21 DEF Toggled, CommandAnswered
<1>22. ASSUME NEW r \in commands, Saved(r) PROVE JournalInv' /\ OthersKeptStep
  BY <1>2, <1>3, <1>4, <1>9, <1>22 DEF Saved, CommandAnswered
<1>23. ASSUME NEW r \in commands, ManualCreated(r) PROVE JournalInv' /\ OthersKeptStep
  BY <1>2, <1>3, <1>4, <1>23 DEF ManualCreated, CommandAnswered
<1>24. CASE UNCHANGED journals
  BY <1>2, <1>3, <1>24 DEF journals
<1>25. QED
  BY <1>6, <1>7, <1>8, <1>10, <1>11, <1>12, <1>13, <1>14, <1>15, <1>16, <1>17, <1>18, <1>19, <1>20,
     <1>21, <1>22,
     <1>23, <1>24, ServedKeeps DEF JournalNext

\* Whatever other users change in a draft while its dialog is open, and in whatever order saves,
\* reloads and matches are answered, a save of the dialog only takes back the lines the user
\* typed or removed (lineUnchanged of ReconGlJournalEditModal.tsx).
THEOREM LinesOfOthersKept == JournalSpec => OthersKept
<1>1. JournalInit => JournalInv
  <2> SUFFICES ASSUME JournalInit PROVE JournalInv
    OBVIOUS
  <2>1. ASSUME NEW s \in {"draft", "none"}, NEW b \in BOOLEAN
        PROVE  [Absent EXCEPT !.st = s, !.fromModule = b] \in Entry
    BY AbsentTyped DEF Absent, Entry
  <2>5. PICK approved \in SUBSET Stored :
            entries = [j \in Journal |-> [Absent EXCEPT !.st = IF j \in Stored THEN "draft" ELSE "none",
                                                        !.fromModule = j \in approved]]
    BY DEF JournalInit
  <2>6. \A j \in Journal : entries[j] \in Entry
    <3> TAKE j \in Journal
    <3> DEFINE s == IF j \in Stored THEN "draft" ELSE "none"
               b == j \in approved
    <3>1. s \in {"draft", "none"} /\ b \in BOOLEAN
      OBVIOUS
    <3>2. entries[j] = [Absent EXCEPT !.st = s, !.fromModule = b]
      BY <2>5
    <3> HIDE DEF s, b
    <3>3. QED
      BY <2>1, <3>1, <3>2
  <2>2. entries \in Entries /\ list \in Entries
    BY <2>5, <2>6, AbsentTyped DEF JournalInit, Entries
  <2>3. DlgTyped /\ DlgByHand
    BY AbsentTyped DEF JournalInit, Closed, DlgTyped, DlgByHand
  <2>4. commands = {} /\ \A r \in listLoads : r.ans = list
    <3>1. listLoads = {[n |-> 0, f |-> "all", got |-> "open", rests |-> FALSE, ans |-> list]}
      BY DEF JournalInit
    <3>2. commands = {}
      BY DEF JournalInit
    <3>3. QED
      BY <3>1, <3>2
  <2>7. QED
    BY <2>2, <2>3, <2>4 DEF JournalInv, LoadTyped
<1>2. JournalInv /\ [JournalNext]_journals => JournalInv' /\ [OthersKeptStep]_journals
  BY JournalStep
<1>3. QED
  BY <1>1, <1>2, PTL DEF JournalSpec, OthersKept

-----------------------------------------------------------------------------
(* The sync of Books with Recon.                                           *)

PoolRow == [id : Nat, k : Key, st : {"matched", "unreconciled"}]
\* no two rows have one id
IdsApart(R) == \A r, q \in R : r.id = q.id => r = q
\* the same rows, but for their statuses
SameRows(R, Q) == /\ \A r \in R : \E q \in Q : q.id = r.id /\ q.k = r.k
                  /\ \A q \in Q : \E r \in R : q.id = r.id /\ q.k = r.k

PoolOk(R, n) == R \in SUBSET PoolRow /\ IdsApart(R) /\ \A r \in R : r.id < n

Stages == {"free", "reading", "wiping", "importing", "rereading", "loading", "writing"}
SyncRow == [st : Stages, co : Entity \cup {""}, books : BOOLEAN, pool : BOOLEAN, home : BOOLEAN,
            keys : SUBSET Key, db : SUBSET PoolRow, matched : SUBSET Key, rows : SUBSET Key]

SyncTyped ==
  /\ modules \in [Entity -> SUBSET Key] /\ poolOf \in [Entity -> SUBSET PoolRow]
  /\ current \in Entity /\ nextRowId \in Nat /\ mirrored \in SUBSET Entity
  /\ \A c \in Entity : PoolOk(poolOf[c], nextRowId)
  /\ syncs \in [Slot -> SyncRow]

\* What a sync of company c knows, as long as its requests went to that company.
KnowsPool(x, R) ==
  /\ x.st \in {"reading", "wiping"} /\ x.pool /\ x.home => SameRows(x.db, R)
  /\ x.st = "importing" /\ x.home =>
       /\ KeysOf(R) \subseteq x.keys
       /\ \A r \in x.db : r.st = "matched" /\ r.k \in x.keys => r.k \in KeysOf(R)
SyncOk(x, P) ==
  /\ x.st = "free" \/ (x.co \in Entity /\ KnowsPool(x, P[x.co]))
  /\ x.st = "wiping" => x.pool

SyncInv == /\ SyncTyped /\ BooksMirrored
           /\ \A s \in Slot : SyncOk(syncs[s], poolOf)

LEMMA FlipKeeps ==
  ASSUME NEW R \in SUBSET PoolRow, NEW r \in R, IdsApart(R), NEW n, \A q \in R : q.id < n
  PROVE  LET Q == (R \ {r}) \cup {Flipped(r)} IN
         PoolOk(Q, n) /\ KeysOf(Q) = KeysOf(R) /\ SameRows(R, Q)
<1> DEFINE f == Flipped(r)
           Q == (R \ {r}) \cup {f}
<1>1. f \in PoolRow /\ f.id = r.id /\ f.k = r.k
  BY DEF Flipped, PoolRow
<1> HIDE DEF f
<1>2. Q \in SUBSET PoolRow /\ IdsApart(Q) /\ \A q \in Q : q.id < n
  BY <1>1 DEF IdsApart
<1>3. SameRows(R, Q)
  BY <1>1 DEF SameRows
<1>4. KeysOf(Q) = KeysOf(R)
  BY <1>1 DEF KeysOf
<1> QED BY <1>2, <1>3, <1>4 DEF PoolOk, f

LEMMA SameTrans ==
  ASSUME NEW R, NEW S, NEW T, SameRows(R, S), SameRows(S, T)
  PROVE  SameRows(R, T)
BY DEF SameRows

(* After the purge the pool has keys of Books only, and all that were matched. *)
LEMMA WipedPool ==
  ASSUME NEW D, NEW R \in SUBSET PoolRow, IdsApart(R), SameRows(D, R), NEW K
  PROVE  LET W == {r \in R : r.id \in KeepIds(D, K)} IN
         /\ KeysOf(W) \subseteq K
         /\ \A d \in D : d.st = "matched" /\ d.k \in K => d.k \in KeysOf(W)
<1> DEFINE W == {r \in R : r.id \in KeepIds(D, K)}
<1>1. ASSUME NEW r \in W PROVE r.k \in K
  <2>1. PICK d \in D : d.k \in K /\ d.id = r.id
    BY DEF KeepIds
  <2>2. PICK q \in R : q.id = d.id /\ q.k = d.k
    BY DEF SameRows
  <2>3. q = r
    BY <2>1, <2>2 DEF IdsApart
  <2> QED BY <2>1, <2>2, <2>3
<1>2. ASSUME NEW d \in D, d.st = "matched", d.k \in K PROVE d.k \in KeysOf(W)
  <2>1. d.id \in KeepIds(D, K)
    BY <1>2 DEF KeepIds
  <2>2. PICK q \in R : q.id = d.id /\ q.k = d.k
    BY DEF SameRows
  <2>3. q \in W
    BY <2>1, <2>2
  <2> QED BY <2>2, <2>3 DEF KeysOf
<1> QED BY <1>1, <1>2 DEF KeysOf

(* After the import it has all of them.                                    *)
LEMMA ImportedPool ==
  ASSUME NEW x, NEW R, KeysOf(R) \subseteq x.keys,
         \A r \in x.db : r.st = "matched" /\ r.k \in x.keys => r.k \in KeysOf(R),
         NEW f
  PROVE  KeysOf(R \cup {NewRow(f[k], k) : k \in Missing(R, Pending(x))}) = x.keys
<1> DEFINE new == Missing(R, Pending(x))
           Q == R \cup {NewRow(f[k], k) : k \in new}
<1>1. \A k \in new : k \in x.keys
  BY DEF Missing, Pending
<1>2. ASSUME NEW k \in x.keys PROVE k \in KeysOf(Q)
  <2>1. CASE k \in new
    <3>1. NewRow(f[k], k) \in Q /\ NewRow(f[k], k).k = k
      BY <2>1 DEF NewRow
    <3> HIDE DEF Q
    <3> QED BY <3>1 DEF KeysOf
  <2>2. CASE k \in KeysOf(WithStatus(R, "unreconciled"))
    <3>1. PICK r \in R : r.k = k
      BY <2>2 DEF KeysOf, WithStatus
    <3>2. r \in Q
      OBVIOUS
    <3> HIDE DEF Q
    <3> QED BY <3>1, <3>2 DEF KeysOf
  <2>3. CASE k \notin Pending(x)
    <3>1. PICK r \in x.db : r.st = "matched" /\ r.k = k
      BY <1>2, <2>3 DEF KeysOf, WithStatus, Pending
    <3>2. k \in KeysOf(R)
      BY <1>2, <3>1
    <3>3. PICK q \in R : q.k = k
      BY <3>2 DEF KeysOf
    <3>4. q \in Q
      OBVIOUS
    <3> HIDE DEF Q
    <3> QED BY <3>3, <3>4 DEF KeysOf
  <2>4. k \in new \/ k \notin Pending(x) \/ k \in KeysOf(WithStatus(R, "unreconciled"))
    BY DEF Missing
  <2> QED BY <2>1, <2>2, <2>3, <2>4
<1>3. ASSUME NEW q \in Q PROVE q.k \in x.keys
  BY <1>1 DEF KeysOf, NewRow
<1> QED BY <1>2, <1>3 DEF KeysOf

LEMMA ImportedOk ==
  ASSUME NEW R, NEW n \in Nat, PoolOk(R, n), NEW new \in SUBSET Key,
         NEW f \in [new -> n .. (n + Cardinality(new) - 1)],
         \A j, k \in new : f[j] = f[k] => j = k
  PROVE  /\ n + Cardinality(new) \in Nat /\ n <= n + Cardinality(new)
         /\ PoolOk(R \cup {NewRow(f[k], k) : k \in new}, n + Cardinality(new))
<1> DEFINE N == {NewRow(f[k], k) : k \in new}
<1>1. Cardinality(new) \in Nat
  BY SyncAssumption, FS_Subset, FS_CardinalityType
<1>2. \A k \in new : f[k] \in Nat /\ n <= f[k] /\ f[k] < n + Cardinality(new)
  BY <1>1
<1>3. \A q \in N : /\ q \in PoolRow /\ n <= q.id /\ q.id < n + Cardinality(new)
  BY <1>2 DEF NewRow, PoolRow
<1>4. IdsApart(N)
  BY DEF IdsApart, NewRow
<1> HIDE DEF N
<1>5. R \in SUBSET PoolRow /\ IdsApart(R) /\ \A r \in R : r.id < n /\ r.id \in Nat
  BY DEF PoolOk, PoolRow
<1>6. IdsApart(R \cup N)
  <2> SUFFICES ASSUME NEW r \in R \cup N, NEW q \in R \cup N, r.id = q.id PROVE r = q
    BY DEF IdsApart
  <2>1. (r \in R /\ q \in R) \/ (r \in N /\ q \in N)
    <3>1. r.id \in Nat /\ q.id \in Nat
      BY <1>3, <1>5 DEF PoolRow
    <3> QED BY <1>3, <1>5, <3>1
  <2> QED BY <1>4, <1>5, <2>1 DEF IdsApart
<1>7. \A r \in R \cup N : r.id < n + Cardinality(new)
  BY <1>1, <1>3, <1>5
<1> QED BY <1>1, <1>3, <1>5, <1>6, <1>7 DEF PoolOk, N

LEMMA SyncStarts == SyncInit => SyncInv
<1> SUFFICES ASSUME SyncInit PROVE SyncInv
  OBVIOUS
<1>1. \A c \in Entity : PoolOk(poolOf[c], nextRowId)
  BY DEF SyncInit, PoolOk, IdsApart
<1>2. SyncTyped
  <2>1. NoSync \in SyncRow
    BY DEF NoSync, SyncRow, Stages
  <2>2. syncs \in [Slot -> SyncRow]
    BY <2>1 DEF SyncInit
  <2>3. modules \in [Entity -> SUBSET Key] /\ poolOf \in [Entity -> SUBSET PoolRow]
    BY DEF SyncInit
  <2> QED BY <1>1, <2>2, <2>3 DEF SyncInit, SyncTyped
<1>3. \A s \in Slot : SyncOk(syncs[s], poolOf)
  BY DEF SyncInit, SyncOk, NoSync
<1> QED BY <1>2, <1>3 DEF SyncInit, SyncInv, BooksMirrored

(* A step of sync s that leaves the pools and the other syncs.             *)
LEMMA OwnStep ==
  ASSUME SyncInv, NEW s \in Slot, NEW x, Becomes(s, x),
         x \in SyncRow, SyncOk(x, poolOf'), BooksMirrored',
         modules' \in [Entity -> SUBSET Key], mirrored' \in SUBSET Entity,
         UNCHANGED <<poolOf, current, nextRowId>>
  PROVE  SyncInv'
<1>1. syncs' \in [Slot -> SyncRow]
  BY DEF SyncInv, SyncTyped, Becomes
<1>2. \A t \in Slot : SyncOk(syncs'[t], poolOf')
  <2> SUFFICES ASSUME NEW t \in Slot PROVE SyncOk(syncs'[t], poolOf')
    OBVIOUS
  <2>1. CASE t = s
    BY <2>1 DEF SyncInv, SyncTyped, Becomes
  <2>2. CASE t # s
    <3>1. syncs'[t] = syncs[t] /\ poolOf' = poolOf
      BY <2>2 DEF SyncInv, SyncTyped, Becomes
    <3> QED BY <3>1 DEF SyncInv
  <2> QED BY <2>1, <2>2
<1> QED BY <1>1, <1>2 DEF SyncInv, SyncTyped

(* A step of sync s that writes the pool of the active company: whoever    *)
(* read it before no longer knows it.                                      *)
LEMMA PoolStep ==
  ASSUME SyncInv, NEW s \in Slot, NEW x, Writes(s, x),
         x \in SyncRow, SyncOk(x, poolOf'), BooksMirrored',
         NEW R, poolOf' = [poolOf EXCEPT ![current] = R],
         \A c \in Entity : PoolOk(poolOf'[c], nextRowId'),
         nextRowId' \in Nat, mirrored' \in SUBSET Entity, UNCHANGED <<modules, current>>
  PROVE  SyncInv'
<1>0. /\ syncs \in [Slot -> SyncRow] /\ current \in Entity
      /\ poolOf \in [Entity -> SUBSET PoolRow] /\ modules \in [Entity -> SUBSET Key]
  BY DEF SyncInv, SyncTyped
<1>1. ASSUME NEW t \in Slot \ {s} PROVE syncs'[t] \in SyncRow /\ SyncOk(syncs'[t], poolOf')
  <2> DEFINE y == syncs[t]
  <2>1. y \in SyncRow /\ SyncOk(y, poolOf) /\ syncs'[t] = Overtaken(y)
    BY <1>0 DEF SyncInv, Writes
  <2> HIDE DEF y
  <2>2. CASE y.co # current
    <3>1. syncs'[t] = y
      BY <2>1, <2>2 DEF Overtaken
    <3>2. y.co \in Entity => poolOf'[y.co] = poolOf[y.co]
      BY <1>0, <2>2
    <3> QED BY <2>1, <3>1, <3>2 DEF SyncOk
  <2>3. CASE y.co = current
    <3> DEFINE z == [y EXCEPT !.home = FALSE]
    <3>1. syncs'[t] = z
      BY <2>1, <2>3 DEF Overtaken
    <3>2. z \in SyncRow /\ z.st = y.st /\ z.pool = y.pool /\ z.co = y.co /\ ~ z.home
      BY <2>1 DEF SyncRow
    <3> HIDE DEF z
    <3>3. SyncOk(z, poolOf')
      BY <2>1, <3>2 DEF SyncOk, KnowsPool
    <3> QED BY <3>1, <3>2, <3>3
  <2> QED BY <2>2, <2>3
<1>2. syncs' = [t \in Slot |-> IF t = s THEN x ELSE Overtaken(syncs[t])]
  BY DEF Writes
<1>3. \A t \in Slot : syncs'[t] \in SyncRow /\ SyncOk(syncs'[t], poolOf')
  BY <1>1, <1>2
<1>4. syncs' \in [Slot -> SyncRow]
  BY <1>2, <1>3
<1>5. poolOf' \in [Entity -> SUBSET PoolRow]
  BY <1>0 DEF PoolOk
<1> QED BY <1>0, <1>3, <1>4, <1>5 DEF SyncInv, SyncTyped

LEMMA SyncKeeps ==
  ASSUME SyncInv, [SyncNext]_svars
  PROVE  SyncInv'
<1>0. /\ SyncTyped /\ BooksMirrored
      /\ \A s \in Slot : syncs[s] \in SyncRow /\ SyncOk(syncs[s], poolOf)
      /\ modules \in [Entity -> SUBSET Key] /\ poolOf \in [Entity -> SUBSET PoolRow]
      /\ current \in Entity /\ nextRowId \in Nat /\ mirrored \in SUBSET Entity
      /\ \A c \in Entity : poolOf[c] \in SUBSET PoolRow /\ IdsApart(poolOf[c]) /\ modules[c] \in SUBSET Key
      /\ \A c \in Entity : PoolOk(poolOf[c], nextRowId)
  BY DEF SyncInv, SyncTyped, PoolOk
<1>s. ASSUME NEW c \in Entity
      PROVE  LET x == [NoSync EXCEPT !.st = "reading", !.co = c] IN
             x \in SyncRow /\ \A P : SyncOk(x, P)
  BY <1>s DEF SyncRow, NoSync, SyncOk, KnowsPool, Stages
<1>n. NoSync \in SyncRow /\ NoSync.st = "free" /\ \A P : SyncOk(NoSync, P)
  BY DEF SyncRow, NoSync, SyncOk, KnowsPool, Stages
<1>1. CASE UNCHANGED svars
  BY <1>0, <1>1 DEF svars, SyncInv, SyncTyped, BooksMirrored
<1>2. CASE SaveModule
  <2>1. PICK c \in Entity, K \in SUBSET Key :
          /\ modules' = [modules EXCEPT ![c] = K] /\ mirrored' = mirrored \ {c}
          /\ UNCHANGED <<poolOf, current, syncs, nextRowId>>
    BY <1>2 DEF SaveModule
  <2>2. BooksMirrored' /\ SyncTyped'
    BY <1>0, <2>1 DEF BooksMirrored, SyncTyped
  <2> QED BY <1>0, <2>1, <2>2 DEF SyncInv
<1>3. CASE StartSync
  <2>1. PICK s \in Slot, c \in Entity : Becomes(s, [NoSync EXCEPT !.st = "reading", !.co = c])
    BY <1>3 DEF StartSync
  <2>0. UNCHANGED <<modules, locked, poolOf, current, mirrored, nextRowId>>
    BY <1>3 DEF StartSync
  <2> DEFINE x == [NoSync EXCEPT !.st = "reading", !.co = c]
  <2>2. x \in SyncRow /\ SyncOk(x, poolOf')
    BY <1>s
  <2>3. Becomes(s, x)
    BY <2>1
  <2> HIDE DEF x
  <2>4. BooksMirrored'
    BY <1>0, <2>0 DEF BooksMirrored
  <2> QED BY <1>0, <2>0, <2>2, <2>3, <2>4, OwnStep
<1>4. CASE MatchRow
  <2>1. PICK r \in poolOf[current] :
          poolOf' = [poolOf EXCEPT ![current] = (@ \ {r}) \cup {Flipped(r)}]
    BY <1>4 DEF MatchRow
  <2>2. UNCHANGED <<modules, locked, current, syncs, mirrored, nextRowId>>
    BY <1>4 DEF MatchRow
  <2>3. current \in Entity /\ poolOf'[current] = (poolOf[current] \ {r}) \cup {Flipped(r)}
        /\ \A c \in Entity \ {current} : poolOf'[c] = poolOf[c]
    BY <1>0, <2>1 DEF SyncTyped
  <2>4. /\ PoolOk(poolOf'[current], nextRowId)
        /\ KeysOf(poolOf'[current]) = KeysOf(poolOf[current])
        /\ SameRows(poolOf[current], poolOf'[current])
    <3> DEFINE R == poolOf[current]
    <3>1. R \in SUBSET PoolRow /\ IdsApart(R) /\ \A q \in R : q.id < nextRowId
      BY <1>0, <2>3 DEF SyncTyped, PoolOk
    <3>2. r \in R /\ poolOf'[current] = (R \ {r}) \cup {Flipped(r)}
      BY <2>1, <2>3
    <3> HIDE DEF R
    <3>3. /\ PoolOk((R \ {r}) \cup {Flipped(r)}, nextRowId)
          /\ KeysOf((R \ {r}) \cup {Flipped(r)}) = KeysOf(R)
          /\ SameRows(R, (R \ {r}) \cup {Flipped(r)})
      BY <3>1, <3>2, FlipKeeps
    <3> QED BY <3>2, <3>3 DEF R
  <2>5. \A c \in Entity : SameRows(poolOf[c], poolOf[c])
    BY DEF SameRows
  <2>6. \A c \in Entity : /\ PoolOk(poolOf'[c], nextRowId)
                          /\ KeysOf(poolOf'[c]) = KeysOf(poolOf[c])
                          /\ SameRows(poolOf[c], poolOf'[c])
    BY <1>0, <2>3, <2>4, <2>5 DEF SyncTyped
  <2>7. SyncTyped' /\ BooksMirrored'
    BY <1>0, <2>1, <2>2, <2>6 DEF SyncTyped, BooksMirrored, PoolOk
  <2>8. ASSUME NEW s \in Slot PROVE SyncOk(syncs[s], poolOf')
    <3> DEFINE x == syncs[s]
    <3>1. CASE x.st = "free"
      BY <1>0, <3>1 DEF SyncOk
    <3>2. CASE x.st # "free"
      <4>1. x.co \in Entity /\ KnowsPool(x, poolOf[x.co])
        BY <1>0, <3>2 DEF SyncOk
      <4> HIDE DEF x
      <4>2. KnowsPool(x, poolOf'[x.co])
        <5>1. SameRows(x.db, poolOf[x.co]) => SameRows(x.db, poolOf'[x.co])
          BY <2>6, <4>1, SameTrans
        <5> QED BY <2>6, <4>1, <5>1 DEF KnowsPool
      <4> QED BY <1>0, <3>2, <4>2 DEF SyncOk, x
    <3> QED BY <3>1, <3>2
  <2> QED BY <1>0, <2>2, <2>7, <2>8 DEF SyncInv
<1>5. CASE SwitchEntity
  BY <1>0, <1>5 DEF SwitchEntity, SyncInv, SyncTyped, BooksMirrored
<1>6. ASSUME NEW s \in Slot, SyncStep(s) PROVE SyncInv'
  <2> DEFINE x == syncs[s]
  <2>0. x \in SyncRow /\ SyncOk(x, poolOf)
    BY <1>0
  <2>m. ASSUME x.st # "free"
        PROVE  x.co \in Entity /\ KnowsPool(x, poolOf[x.co]) /\ (x.st = "wiping" => x.pool)
    BY <2>0, <2>m, <1>n DEF SyncOk
  <2>1. CASE ReadModules(s)
    <3> DEFINE w == [x EXCEPT !.keys = modules[x.co], !.books = TRUE]
               y == BothRead(w)
    <3>1. x.st = "reading" /\ Becomes(s, y)
          /\ UNCHANGED <<modules, locked, poolOf, current, mirrored, nextRowId>>
      BY <2>1 DEF ReadModules
    <3>2. x.co \in Entity /\ KnowsPool(x, poolOf[x.co])
      BY <2>m, <3>1
    <3> HIDE DEF x
    <3>3. w \in SyncRow /\ w.st = "reading" /\ w.co = x.co /\ w.pool = x.pool /\ w.home = x.home /\ w.db = x.db
      BY <1>0, <2>0, <3>1, <3>2 DEF SyncRow
    <3> HIDE DEF w
    <3>4. /\ y \in SyncRow /\ y.st \in {"reading", "wiping"} /\ (y.st = "wiping" => y.pool)
          /\ y.co = w.co /\ y.pool = w.pool /\ y.home = w.home /\ y.db = w.db
      BY <3>3 DEF BothRead, SyncRow, Stages
    <3> HIDE DEF y
    <3>5. SyncOk(y, poolOf')
      BY <3>1, <3>2, <3>3, <3>4 DEF SyncOk, KnowsPool
    <3>6. BooksMirrored'
      BY <1>0, <3>1 DEF BooksMirrored
    <3> QED BY <1>0, <3>1, <3>4, <3>5, <3>6, OwnStep
  <2>2. CASE ReadPool(s)
    <3> DEFINE w == [x EXCEPT !.db = poolOf[current], !.pool = TRUE, !.home = (current = x.co)]
               y == BothRead(w)
    <3>1. x.st = "reading" /\ Becomes(s, y)
          /\ UNCHANGED <<modules, locked, poolOf, current, mirrored, nextRowId>>
      BY <2>2 DEF ReadPool
    <3>2. x.co \in Entity
      BY <2>m, <3>1
    <3> HIDE DEF x
    <3>3. w \in SyncRow /\ w.st = "reading" /\ w.co = x.co /\ w.pool /\ w.home = (current = x.co)
          /\ w.db = poolOf[current]
      BY <1>0, <2>0, <3>1, <3>2 DEF SyncRow
    <3> HIDE DEF w
    <3>4. /\ y \in SyncRow /\ y.st \in {"reading", "wiping"} /\ y.pool
          /\ y.co = w.co /\ y.home = w.home /\ y.db = w.db
      BY <3>3 DEF BothRead, SyncRow, Stages
    <3> HIDE DEF y
    <3>5. y.home => SameRows(y.db, poolOf[y.co])
      BY <3>3, <3>4 DEF SameRows
    <3>6. SyncOk(y, poolOf')
      BY <3>1, <3>2, <3>3, <3>4, <3>5 DEF SyncOk, KnowsPool
    <3>7. BooksMirrored'
      BY <1>0, <3>1 DEF BooksMirrored
    <3> QED BY <1>0, <3>1, <3>4, <3>6, <3>7, OwnStep
  <2>3. CASE Wipe(s)
    <3> DEFINE y == [x EXCEPT !.st = "importing", !.home = @ /\ current = x.co]
               W == {r \in poolOf[current] : r.id \in KeepIds(x.db, x.keys)}
    <3>1. /\ x.st = "wiping" /\ Writes(s, y)
          /\ poolOf' = [poolOf EXCEPT ![current] = W]
          /\ mirrored' = mirrored \ {current}
          /\ UNCHANGED <<modules, locked, current, nextRowId>>
      BY <2>3 DEF Wipe
    <3>2. x.co \in Entity /\ KnowsPool(x, poolOf[x.co]) /\ x.pool
      BY <2>m, <3>1
    <3> HIDE DEF x
    <3>3. y \in SyncRow /\ y.st = "importing" /\ y.co = x.co /\ y.home = (x.home /\ current = x.co)
          /\ y.db = x.db /\ y.keys = x.keys
      BY <2>0 DEF SyncRow, Stages
    <3> HIDE DEF y
    <3>4. /\ poolOf' \in [Entity -> SUBSET PoolRow]
          /\ \A c \in Entity : PoolOk(poolOf'[c], nextRowId)
      BY <1>0, <3>1 DEF PoolOk, IdsApart
    <3>5. ASSUME y.home
          PROVE  /\ KeysOf(poolOf'[y.co]) \subseteq y.keys
                 /\ \A r \in y.db : r.st = "matched" /\ r.k \in y.keys => r.k \in KeysOf(poolOf'[y.co])
      <4>1. current = x.co /\ SameRows(x.db, poolOf[current])
        BY <3>1, <3>2, <3>3, <3>5 DEF KnowsPool
      <4>2. poolOf'[y.co] = W
        BY <1>0, <3>1, <3>3, <4>1
      <4>3. /\ KeysOf(W) \subseteq x.keys
            /\ \A r \in x.db : r.st = "matched" /\ r.k \in x.keys => r.k \in KeysOf(W)
        BY <1>0, <4>1, WipedPool
      <4> QED BY <3>3, <4>2, <4>3
    <3>6. SyncOk(y, poolOf')
      BY <3>2, <3>3, <3>5 DEF SyncOk, KnowsPool
    <3>7. BooksMirrored'
      BY <1>0, <3>1 DEF BooksMirrored
    <3> QED BY <1>0, <3>1, <3>3, <3>4, <3>6, <3>7, PoolStep
  <2>4. CASE WipeFallback(s)
    <3> DEFINE y == [x EXCEPT !.st = "importing", !.home = FALSE]
    <3>1. /\ x.st = "wiping" /\ Writes(s, y)
          /\ \/ poolOf' = [poolOf EXCEPT ![current] = WithStatus(poolOf[current], "matched")]
             \/ poolOf' = [poolOf EXCEPT ![current] = poolOf[current]]
          /\ mirrored' = mirrored \ {current}
          /\ UNCHANGED <<modules, locked, current, nextRowId>>
      BY <1>0, <2>4 DEF WipeFallback
    <3>2. x.co \in Entity
      BY <2>m, <3>1
    <3> HIDE DEF x
    <3>3. y \in SyncRow /\ y.st = "importing" /\ y.co = x.co /\ ~ y.home
      BY <2>0 DEF SyncRow, Stages
    <3> HIDE DEF y
    <3>4. /\ poolOf' \in [Entity -> SUBSET PoolRow]
          /\ \A c \in Entity : PoolOk(poolOf'[c], nextRowId)
      BY <1>0, <3>1 DEF PoolOk, IdsApart, WithStatus
    <3>5. SyncOk(y, poolOf')
      BY <3>2, <3>3 DEF SyncOk, KnowsPool
    <3>6. BooksMirrored'
      BY <1>0, <3>1 DEF BooksMirrored
    <3> QED BY <1>0, <3>1, <3>3, <3>4, <3>5, <3>6, PoolStep
  <2>5. CASE Import(s)
    <3> DEFINE new == Missing(poolOf[current], Pending(x))
               top == nextRowId + Cardinality(new) - 1
    <3>0. \E f \in [new -> nextRowId .. top] :
            /\ \A j, k \in new : f[j] = f[k] => j = k
            /\ poolOf' = [poolOf EXCEPT
                           ![current] = poolOf[current] \cup {NewRow(f[k], k) : k \in new}]
      BY <2>5, Zenon DEF Import
    <3>2. PICK f \in [new -> nextRowId .. top] :
            /\ \A j, k \in new : f[j] = f[k] => j = k
            /\ poolOf' = [poolOf EXCEPT
                           ![current] = poolOf[current] \cup {NewRow(f[k], k) : k \in new}]
      BY <3>0, Zenon
    <3> DEFINE y == [NoSync EXCEPT !.st = "rereading", !.co = x.co]
               n == nextRowId + Cardinality(new)
               N == poolOf[current] \cup {NewRow(f[k], k) : k \in new}
    <3>1. /\ x.st = "importing" /\ Writes(s, y)
          /\ nextRowId' = n /\ UNCHANGED <<modules, locked, current>>
          /\ mirrored' = IF x.home /\ x.co = current /\ x.keys = modules[current]
                         THEN mirrored \cup {current} ELSE mirrored \ {current}
      BY <2>5 DEF Import
    <3>3. x.co \in Entity /\ KnowsPool(x, poolOf[x.co])
      BY <2>m, <3>1
    <3> HIDE DEF x
    <3>4. y \in SyncRow /\ y.st = "rereading" /\ y.co = x.co
      BY <3>3 DEF SyncRow, Stages, NoSync
    <3>5. new \in SUBSET Key
      BY <2>0 DEF Missing, Pending, SyncRow
    <3>6. SyncOk(y, poolOf')
      BY <3>3, <3>4 DEF SyncOk, KnowsPool
    <3> HIDE DEF y
    <3>7. n \in Nat /\ nextRowId <= n /\ PoolOk(N, n)
      <4> DEFINE R == poolOf[current]
                 i == nextRowId
      <4>1. PoolOk(R, i) /\ i \in Nat /\ new \in SUBSET Key
        BY <1>0, <3>5
      <4>2. f \in [new -> i .. (i + Cardinality(new) - 1)]
        OBVIOUS
      <4>4. \A j, k \in new : f[j] = f[k] => j = k
        BY <3>2
      <4> HIDE DEF new, R, i
      <4>3. /\ i + Cardinality(new) \in Nat /\ i <= i + Cardinality(new)
            /\ PoolOk(R \cup {NewRow(f[k], k) : k \in new}, i + Cardinality(new))
        BY <4>1, <4>2, <4>4, ImportedOk
      <4> QED BY <4>3 DEF R, i
    <3>8. x.home /\ x.co = current => KeysOf(N) = x.keys
      <4> SUFFICES ASSUME x.home, x.co = current PROVE KeysOf(N) = x.keys
        OBVIOUS
      <4>1. /\ KeysOf(poolOf[current]) \subseteq x.keys
            /\ \A r \in x.db : r.st = "matched" /\ r.k \in x.keys => r.k \in KeysOf(poolOf[current])
        BY <3>1, <3>3 DEF KnowsPool
      <4> QED BY <4>1, ImportedPool
    <3>12. poolOf' = [poolOf EXCEPT ![current] = N]
      BY <3>2
    <3> HIDE DEF new, N, n, top
    <3>9. /\ poolOf' \in [Entity -> SUBSET PoolRow]
          /\ \A c \in Entity : PoolOk(poolOf'[c], nextRowId')
      BY <1>0, <3>1, <3>12, <3>7 DEF PoolOk, PoolRow
    <3>10. BooksMirrored'
      BY <1>0, <3>1, <3>12, <3>8 DEF BooksMirrored
    <3>11. nextRowId' \in Nat /\ mirrored' \in SUBSET Entity /\ current' \in Entity
      BY <1>0, <3>1, <3>7
    <3> QED BY <1>0, <3>1, <3>4, <3>6, <3>9, <3>10, <3>11, <3>12, PoolStep
  <2>6. CASE Reread(s)
    <3> DEFINE y == [x EXCEPT !.st = "loading",
                              !.matched = KeysOf(WithStatus(poolOf[current], "matched"))]
    <3>1. x.st = "rereading" /\ Becomes(s, y)
          /\ UNCHANGED <<modules, locked, poolOf, current, mirrored, nextRowId>>
      BY <2>6 DEF Reread
    <3>2. x.co \in Entity
      BY <2>m, <3>1
    <3> HIDE DEF x
    <3>3. KeysOf(WithStatus(poolOf[current], "matched")) \in SUBSET Key
      BY <1>0 DEF KeysOf, WithStatus, PoolRow
    <3>4. y \in SyncRow /\ y.st = "loading" /\ y.co = x.co
      BY <2>0, <3>3 DEF SyncRow, Stages
    <3> HIDE DEF y
    <3>5. SyncOk(y, poolOf')
      BY <3>2, <3>4 DEF SyncOk, KnowsPool
    <3>6. BooksMirrored'
      BY <1>0, <3>1 DEF BooksMirrored
    <3> QED BY <1>0, <3>1, <3>4, <3>5, <3>6, OwnStep
  <2>7. CASE LoadPayload(s)
    <3> DEFINE y == [x EXCEPT !.st = "writing", !.rows = modules[x.co]]
    <3>1. x.st = "loading" /\ Becomes(s, y)
          /\ UNCHANGED <<modules, locked, poolOf, current, mirrored, nextRowId>>
      BY <2>7 DEF LoadPayload
    <3>2. x.co \in Entity
      BY <2>m, <3>1
    <3> HIDE DEF x
    <3>3. y \in SyncRow /\ y.st = "writing" /\ y.co = x.co /\ y.rows = modules[x.co]
      BY <1>0, <2>0, <3>2 DEF SyncRow, Stages
    <3> HIDE DEF y
    <3>4. SyncOk(y, poolOf')
      BY <3>1, <3>2, <3>3 DEF SyncOk, KnowsPool
    <3>5. BooksMirrored'
      BY <1>0, <3>1 DEF BooksMirrored
    <3> QED BY <1>0, <3>1, <3>3, <3>4, <3>5, OwnStep
  <2>8. CASE WriteBack(s)
    <3>1. /\ Becomes(s, NoSync) /\ UNCHANGED <<poolOf, current, nextRowId>>
          /\ \/ UNCHANGED <<modules, mirrored>>
             \/ /\ modules' = [modules EXCEPT ![x.co] = x.rows]
                /\ mirrored' = IF x.rows = modules[x.co] THEN mirrored ELSE mirrored \ {x.co}
      BY <2>8 DEF WriteBack
    <3>2. x.co \in Entity /\ x.rows \in SUBSET Key
      BY <2>0, <2>m, <2>8 DEF WriteBack, SyncRow
    <3> HIDE DEF x
    <3>3. modules' \in [Entity -> SUBSET Key] /\ mirrored' \in SUBSET Entity
      BY <1>0, <3>1, <3>2
    <3>4. BooksMirrored'
      BY <1>0, <3>1, <3>2 DEF BooksMirrored
    <3> QED BY <1>0, <1>n, <3>1, <3>3, <3>4, OwnStep
  <2>9. CASE SyncLost(s)
    <3>1. Becomes(s, NoSync)
          /\ UNCHANGED <<modules, locked, poolOf, current, mirrored, nextRowId>>
      BY <2>9 DEF SyncLost
    <3>2. BooksMirrored'
      BY <1>0, <3>1 DEF BooksMirrored
    <3> QED BY <1>0, <1>n, <3>1, <3>2, OwnStep
  <2> QED BY <1>6, <2>1, <2>2, <2>3, <2>4, <2>5, <2>6, <2>7, <2>8, <2>9 DEF SyncStep
<1> QED BY <1>1, <1>2, <1>3, <1>4, <1>5, <1>6 DEF SyncNext

\* However the user matches, cancels, saves and changes company, and however many syncs run
\* side by side, Recon has the rows of Books after a sync that read, purged and imported its
\* pool with no other sync writing it in between (syncModulesToRecon.ts).
THEOREM PoolMirrors == SyncSpec => []BooksMirrored
<1>1. SyncInit => SyncInv
  BY SyncStarts
<1>2. SyncInv /\ [SyncNext]_svars => SyncInv'
  BY SyncKeeps
<1>3. SyncInv => BooksMirrored
  BY DEF SyncInv
<1> QED BY <1>1, <1>2, <1>3, PTL DEF SyncSpec
==============================================================================
