---------------------------- MODULE ReconVouchers ----------------------------
(***************************************************************************)
(* The vouchers of the matched groups beside the reconciliation desk       *)
(* (ReconGlSection.tsx): which voucher is shown for a group, the loads     *)
(* after the group list or the account codes change, the commands and      *)
(* their dialogs.  Every load and command of a group takes the next        *)
(* generation of the group, and an answer of an older one is dropped.      *)
(***************************************************************************)
EXTENDS FiniteSets, Naturals

CONSTANTS Group, NoGroup,
          Stays,       \* groups which never leave the list
          Workers,     \* loads of one list at a time (3 in the code)
          Seeding,     \* BOOLEAN: AI actions which patch a draft are applied
          MaxVersion, MaxVoucherActs    \* bounds: changes of one voucher, user commands
ASSUME VouchersAssumption ==
    /\ NoGroup \notin Group /\ Stays \subseteq Group /\ Workers \in Nat \ {0}
    /\ Seeding \in BOOLEAN /\ MaxVersion \in Nat /\ MaxVoucherActs \in Nat

Command == {"edit", "approve", "unpost", "suspense"}
None == [id |-> "base", st |-> "none", v |-> 0]

VARIABLES srv,       \* [Group -> [base, rev : status, v]]: the voucher, its reversal, changes so far
          matched,   \* matchedGroups
          voucherOf, \* journalByGroup
          fetchGen,  \* groupFetchGenRef
          loadingGid,
          dlg,       \* [Command -> group of its dialog]
          seeds,     \* glApplyPatchSeeds
          bulk, signal,   \* the running list load and refetch: [run, left]
          calls, voucherActs
vouchers == <<srv, matched, voucherOf, fetchGen, loadingGid, dlg, seeds, bulk, signal, calls,
              voucherActs>>
section == <<voucherOf, fetchGen, loadingGid, dlg, seeds, bulk, signal>>

VouchersInit ==
    /\ \E st \in [Group -> {"none", "posted"}] :
         srv = [g \in Group |-> [base |-> st[g], rev |-> "none", v |-> 0]]
    /\ matched = {} /\ voucherOf = [g \in Group |-> None] /\ fetchGen = [g \in Group |-> 0] /\ loadingGid = NoGroup
    /\ dlg = [c \in Command |-> NoGroup] /\ seeds = [g \in Group |-> None]
    /\ bulk = [run |-> 0, left |-> {}] /\ signal = [run |-> 0, left |-> {}] /\ calls = {} /\ voucherActs = 0

(* -------------------------------- the server ---------------------------- *)
\* get_by_group: a draft first, then the newest voucher
Primary(s) ==
    IF s.base # "draft" /\ s.rev # "none"
    THEN [id |-> "rev", st |-> s.rev, v |-> s.v]
    ELSE [id |-> "base", st |-> s.base, v |-> s.v]
Status(s, id) == IF id = "rev" THEN s.rev ELSE s.base
PutVoucher(s, id, st) ==
    IF id = "rev" THEN [s EXCEPT !.rev = st, !.v = @ + 1] ELSE [s EXCEPT !.base = st, !.v = @ + 1]
Ensured(s)  == IF Primary(s).st = "none" THEN PutVoucher(s, "base", "draft") ELSE s
Undrafted(s) == IF Primary(s).st = "draft" THEN PutVoucher(s, Primary(s).id, "none") ELSE s
Touched(s, id) == IF Status(s, id) = "draft" THEN PutVoucher(s, id, "draft") ELSE s
\* what a request does there: {} is a refusal
Effect(s, r) ==
    CASE r.ask = "get"     -> {s}
      [] r.ask = "ensure"  -> {Ensured(s)}
      [] r.ask = "delete"  -> {Undrafted(s)}
      [] r.ask = "post"    -> IF Status(s, r.id) = "draft" THEN {PutVoucher(s, r.id, "posted")} ELSE {}
      [] r.ask = "unpost"  -> IF Status(s, r.id) = "posted" /\ (r.id = "rev" \/ s.rev = "none")
                              THEN {PutVoucher(s, r.id, "draft")} ELSE {}
      [] r.ask = "reverse" -> IF s.base # "posted" \/ s.rev = "posted" THEN {}
                              ELSE IF s.rev = "draft" THEN {s} ELSE {PutVoucher(s, "rev", "draft")}
      [] r.ask = "patch"   -> IF Status(s, r.id) = "draft" THEN {Touched(s, r.id)} ELSE {}
\* the request waits until it is served or lost; a served answer may be lost on its way back
Serve(r) ==
    /\ r \in calls /\ r.got = "open"
    /\ \/ \E s \in Effect(srv[r.g], r) :
            /\ s.v <= MaxVersion /\ srv' = [srv EXCEPT ![r.g] = s]
            /\ \E got \in {"ok", "lost"} :
                 calls' = (calls \ {r}) \cup {[r EXCEPT !.got = got, !.ans = Primary(s)]}
       \/ calls' = (calls \ {r}) \cup {[r EXCEPT !.got = "lost"]} /\ UNCHANGED srv
       \/ /\ r.ask = "post" /\ ~r.sure /\ UNCHANGED srv                \* CONFIRM_CREATE_BANK
          /\ calls' = (calls \ {r}) \cup {[r EXCEPT !.got = "asks"]}
    /\ UNCHANGED <<matched, section, voucherActs>>

(* ------------------------- requests and generations --------------------- *)
Request(op, ask, g, n, run, id) ==
    [op |-> op, ask |-> ask, g |-> g, gen |-> n, run |-> run, id |-> id, sure |-> FALSE, n |-> voucherActs,
     got |-> "open", ans |-> None]
Next1(g) == fetchGen[g] + 1       \* beginGroupJournalFetch
Superseded(r) == fetchGen[r.g] # r.gen
\* (bug) no answer is too old
SupersededNever(r) == FALSE
Stale(r) == Superseded(r)
WithSeed(g, j) == IF seeds[g] # None THEN seeds[g] ELSE j      \* pickJournalWithAiApplySeed

(* ------------------------ loads of the whole list ----------------------- *)
Regroup(S) ==        \* the groups change: the list effect, then the effect of the seeds
    /\ voucherActs < MaxVoucherActs /\ voucherActs' = voucherActs + 1
    /\ S # matched /\ Stays \subseteq S /\ matched' = S
    /\ LET reseeded == {g \in Group : seeds[g] # None}
       IN IF S = {}
          THEN /\ fetchGen' = [g \in Group |-> IF g \in reseeded THEN 1 ELSE 0]
               /\ voucherOf' = seeds /\ bulk' = [run |-> bulk.run + 1, left |-> {}] /\ UNCHANGED calls
          ELSE \E first \in SUBSET S :
                 /\ Cardinality(first) = IF Cardinality(S) < Workers THEN Cardinality(S) ELSE Workers
                 /\ bulk' = [run |-> bulk.run + 1, left |-> S \ first]
                 /\ calls' = calls \cup {Request("load", "get", g, Next1(g), bulk.run + 1, "base") : g \in first}
                 /\ fetchGen' = [g \in Group |-> fetchGen[g] + (IF g \in first THEN 1 ELSE 0)
                                                   + (IF g \in reseeded THEN 1 ELSE 0)]
                 /\ voucherOf' = [g \in Group |-> WithSeed(g, voucherOf[g])]
    /\ UNCHANGED <<srv, loadingGid, dlg, seeds, signal>>
\* the worker takes the next group; it ends where its answer is too old
TakeNext(others) ==
    IF bulk.left = {} THEN calls' = others /\ UNCHANGED <<bulk, fetchGen>>
    ELSE \E g \in bulk.left :
           /\ bulk' = [bulk EXCEPT !.left = @ \ {g}] /\ fetchGen' = [fetchGen EXCEPT ![g] = @ + 1]
           /\ calls' = others \cup {Request("load", "get", g, Next1(g), bulk.run, "base")}
ListLoaded(r) ==
    /\ r \in calls /\ r.op = "load" /\ r.got # "open"
    /\ LET others == calls \ {r}
       IN IF r.run # bulk.run \/ Stale(r) THEN calls' = others /\ UNCHANGED <<voucherOf, bulk, fetchGen>>
          ELSE IF r.got = "ok" /\ r.ans.st = "none"
          THEN /\ calls' = others \cup {[r EXCEPT !.ask = "ensure", !.got = "open"]}
               /\ UNCHANGED <<voucherOf, bulk, fetchGen>>
          ELSE /\ TakeNext(others)
               /\ voucherOf' = IF r.got = "ok" THEN [voucherOf EXCEPT ![r.g] = WithSeed(r.g, r.ans)] ELSE voucherOf
    /\ UNCHANGED <<srv, matched, loadingGid, dlg, seeds, signal, voucherActs>>

(* --------------- refetch after account codes were saved ----------------- *)
CodesSaved(S) ==     \* the server rebuilt these drafts
    /\ voucherActs < MaxVoucherActs /\ voucherActs' = voucherActs + 1 /\ S # {} /\ S \subseteq matched
    /\ srv' = [g \in Group |-> IF g \in S THEN Touched(srv[g], "base") ELSE srv[g]]
    /\ \A g \in S : srv[g].v < MaxVersion
    /\ \E g \in S :
         /\ signal' = [run |-> signal.run + 1, left |-> S \ {g}] /\ fetchGen' = [fetchGen EXCEPT ![g] = @ + 1]
         /\ calls' = calls \cup {Request("refetch", "get", g, Next1(g), signal.run + 1, "base")}
    /\ UNCHANGED <<matched, voucherOf, loadingGid, dlg, seeds, bulk>>
Refetched(r) ==      \* one group after another
    /\ r \in calls /\ r.op = "refetch" /\ r.got # "open"
    /\ LET others == calls \ {r}
       IN IF r.run # signal.run \/ Stale(r) THEN calls' = others /\ UNCHANGED <<voucherOf, signal,
                                                                                fetchGen>>
          ELSE IF r.got = "ok" /\ r.ans.st = "none"
          THEN /\ calls' = others \cup {[r EXCEPT !.ask = "ensure", !.got = "open"]}
               /\ UNCHANGED <<voucherOf, signal, fetchGen>>
          ELSE /\ voucherOf' = IF r.got = "ok" THEN [voucherOf EXCEPT ![r.g] = WithSeed(r.g, r.ans)] ELSE voucherOf
               /\ IF signal.left = {} THEN calls' = others /\ UNCHANGED <<signal, fetchGen>>
                  ELSE \E g \in signal.left :
                         /\ signal' = [signal EXCEPT !.left = @ \ {g}] /\ fetchGen' = [fetchGen EXCEPT ![g] = @ + 1]
                         /\ calls' = others \cup {Request("refetch", "get", g, Next1(g), r.run, "base")}
    /\ UNCHANGED <<srv, matched, loadingGid, dlg, seeds, bulk, voucherActs>>

(* --------------- the assistant's actions on a voucher ------------------- *)
AiApply(g) ==        \* handleApplyReconAiActions, op gl_draft_patch
    /\ Seeding /\ voucherActs < MaxVoucherActs /\ voucherActs' = voucherActs + 1
    /\ g \in matched /\ voucherOf[g].st = "draft"
    /\ calls' = calls \cup {Request("ai", "patch", g, 0, 0, voucherOf[g].id)}
    /\ UNCHANGED <<srv, matched, section>>
AiApplied(r) ==      \* the refetch effect, then the effect of the seeds, which outdates it
    /\ r \in calls /\ r.op = "ai" /\ r.got # "open" /\ calls' = calls \ {r}
    /\ IF r.got = "ok"
       THEN /\ seeds' = [g \in Group |-> IF g = r.g THEN r.ans ELSE None]
            /\ fetchGen' = [fetchGen EXCEPT ![r.g] = @ + 2] /\ voucherOf' = [voucherOf EXCEPT ![r.g] = r.ans]
            /\ signal' = [run |-> signal.run + 1, left |-> {}]
       ELSE UNCHANGED <<seeds, fetchGen, voucherOf, signal>>
    /\ UNCHANGED <<srv, matched, loadingGid, dlg, bulk, voucherActs>>
Asked(g, c) ==       \* actionRequest: with no voucher shown it is loaded first
    /\ voucherActs < MaxVoucherActs /\ voucherActs' = voucherActs + 1 /\ g \in matched /\ c # "suspense"
    /\ LET fits == voucherOf[g].st = IF c = "unpost" THEN "posted" ELSE "draft"
       IN IF voucherOf[g].st = "none"
          THEN /\ calls' = calls \cup {[Request("asked", "get", g, Next1(g), 0, "base") EXCEPT !.op = c]}
               /\ fetchGen' = [fetchGen EXCEPT ![g] = @ + 1] /\ loadingGid' = g /\ UNCHANGED dlg
          ELSE dlg' = [dlg EXCEPT ![c] = IF fits THEN g ELSE @] /\ UNCHANGED <<calls, fetchGen,
                                                                               loadingGid>>
    /\ UNCHANGED <<srv, matched, voucherOf, seeds, bulk, signal>>

(* ------------------------- commands of the user ------------------------- *)
DialogOpen(c) ==
    dlg[c] \in matched /\ voucherOf[dlg[c]].st = IF c \in {"edit", "approve"} THEN "draft" ELSE "posted"
Clear == \A c \in Command : ~DialogOpen(c)
Card(g) == Clear /\ g \in matched /\ voucherOf[g].st # "none" /\ loadingGid # g
VoucherClick == voucherActs < MaxVoucherActs /\ voucherActs' = voucherActs + 1
Begin(op, ask, g) ==
    /\ fetchGen' = [fetchGen EXCEPT ![g] = @ + 1] /\ loadingGid' = g
    /\ calls' = calls \cup {Request(op, ask, g, Next1(g), 0, voucherOf[g].id)}
ReloadVoucher(g) ==         \* loadOrCreate
    /\ VoucherClick /\ Card(g) /\ Begin("reload", "get", g)
    /\ UNCHANGED <<srv, matched, voucherOf, dlg, seeds, bulk, signal>>
Rebuild(g) ==
    /\ VoucherClick /\ Card(g) /\ voucherOf[g].st = "draft" /\ Begin("rebuild", "delete", g)
    /\ UNCHANGED <<srv, matched, voucherOf, dlg, seeds, bulk, signal>>
Discard(g) ==        \* discardGroupDraftsAndReload: no generation of its own
    /\ VoucherClick /\ Card(g) /\ voucherOf[g].st = "draft" /\ loadingGid' = g
    /\ calls' = calls \cup {Request("discard", "delete", g, fetchGen[g], 0, "base")}
    /\ UNCHANGED <<srv, matched, voucherOf, fetchGen, dlg, seeds, bulk, signal>>
OpenDialog(g, c) ==
    /\ VoucherClick /\ Card(g) /\ voucherOf[g].st = IF c \in {"edit", "approve"} THEN "draft" ELSE "posted"
    /\ dlg' = [dlg EXCEPT ![c] = g]
    /\ UNCHANGED <<srv, matched, voucherOf, fetchGen, loadingGid, seeds, bulk, signal, calls>>
Dismiss(c) ==
    /\ DialogOpen(c) /\ loadingGid # dlg[c] /\ dlg' = [dlg EXCEPT ![c] = NoGroup]
    /\ ~\E r \in calls : c = "edit" /\ r.op = "save"
    /\ UNCHANGED <<srv, matched, voucherOf, fetchGen, loadingGid, seeds, bulk, signal, calls,
                   voucherActs>>
Confirm(c) ==        \* postJournal, unpostPosted, suspenseReversePosted
    /\ VoucherClick /\ c # "edit" /\ DialogOpen(c) /\ loadingGid # dlg[c]
    /\ Begin(IF c = "approve" THEN "post" ELSE IF c = "unpost" THEN "cancel" ELSE "reverse",
             IF c = "approve" THEN "post" ELSE "get", dlg[c])
    /\ UNCHANGED <<srv, matched, voucherOf, dlg, seeds, bulk, signal>>
SaveEdit ==          \* handleOk of ReconGlJournalEditModal
    /\ VoucherClick /\ DialogOpen("edit") /\ loadingGid # dlg.edit /\ ~\E r \in calls : r.op = "save"
    /\ calls' = calls \cup {Request("save", "patch", dlg.edit, 0, 0, voucherOf[dlg.edit].id)}
    /\ UNCHANGED <<srv, matched, section>>

(* ---------------------------- their answers ----------------------------- *)
Show(g, j) == voucherOf' = [voucherOf EXCEPT ![g] = j]
Rest(r) == loadingGid' = NoGroup /\ calls' = calls \ {r}
Again(r, ask) == calls' = (calls \ {r}) \cup {[r EXCEPT !.ask = ask, !.got = "open"]}
Answered(r, ops) == r \in calls /\ r.op \in ops /\ r.got # "open"
Reloaded(r) ==       \* a dialog which waited for the voucher opens whatever came
    /\ Answered(r, {"reload"} \cup Command)
    /\ IF ~Stale(r) /\ r.got = "ok" /\ r.ans.st = "none"
       THEN Again(r, "ensure") /\ UNCHANGED <<voucherOf, loadingGid, dlg>>
       ELSE /\ Rest(r) /\ (IF ~Stale(r) /\ r.got = "ok" THEN Show(r.g, r.ans) ELSE UNCHANGED voucherOf)
            /\ dlg' = IF r.op \in Command THEN [dlg EXCEPT ![r.op] = r.g] ELSE dlg
    /\ UNCHANGED <<srv, matched, fetchGen, seeds, bulk, signal, voucherActs>>
\* a delete which is answered but refused is not noticed; one that is not answered ends the command
Unanswered(r) == r.ask = "delete" /\ r.got = "lost" /\ Rest(r) /\ UNCHANGED <<voucherOf, fetchGen>>
Rebuilt(r) ==
    /\ Answered(r, {"rebuild"})
    /\ \/ Unanswered(r)
       \/ /\ r.ask = "delete" /\ Again(r, "ensure") /\ Show(r.g, None)
          /\ UNCHANGED <<loadingGid, fetchGen>>
       \/ /\ r.ask # "delete" /\ Rest(r) /\ UNCHANGED fetchGen
          /\ IF ~Stale(r) /\ r.got = "ok" THEN Show(r.g, r.ans) ELSE UNCHANGED voucherOf
    /\ UNCHANGED <<srv, matched, dlg, seeds, bulk, signal, voucherActs>>
Discarded(r) ==
    /\ Answered(r, {"discard"})
    /\ \/ Unanswered(r)
       \/ /\ Show(r.g, None) /\ loadingGid' = r.g /\ fetchGen' = [fetchGen EXCEPT ![r.g] = @ + 1]
          /\ calls' = (calls \ {r})
                      \cup {[Request("reload", "get", r.g, Next1(r.g), 0, "base") EXCEPT !.n = r.n]}
    /\ UNCHANGED <<srv, matched, dlg, seeds, bulk, signal, voucherActs>>
Posted(r) ==
    /\ Answered(r, {"post"})
    /\ \/ /\ r.got = "asks"                                  \* window.confirm: yes
          /\ calls' = (calls \ {r}) \cup {[r EXCEPT !.sure = TRUE, !.got = "open"]}
          /\ UNCHANGED <<voucherOf, loadingGid, dlg>>
       \/ /\ Rest(r) /\ dlg' = [dlg EXCEPT !.approve = NoGroup]
          /\ IF ~Stale(r) /\ r.got = "ok" THEN Show(r.g, r.ans) ELSE UNCHANGED voucherOf
    /\ UNCHANGED <<srv, matched, fetchGen, seeds, bulk, signal, voucherActs>>
Undone(r) ==         \* the voucher is read again before it is unposted or reversed
    /\ Answered(r, {"cancel", "reverse"})
    /\ LET fresh == r.got = "ok" /\ r.ans.st = "posted" /\ r.ans.id = r.id
           c == IF r.op = "cancel" THEN "unpost" ELSE "suspense"
       IN IF r.ask = "get" /\ ~Stale(r) /\ fresh
          THEN /\ Again(r, IF r.op = "cancel" THEN "unpost" ELSE "reverse")
               /\ UNCHANGED <<voucherOf, loadingGid, dlg>>
          ELSE /\ Rest(r) /\ dlg' = [dlg EXCEPT ![c] = NoGroup]
               /\ IF ~Stale(r) /\ r.got = "ok" /\ r.ans.st # "none" THEN Show(r.g, r.ans) ELSE UNCHANGED voucherOf
    /\ UNCHANGED <<srv, matched, fetchGen, seeds, bulk, signal, voucherActs>>
SavedEdit(r) ==
    /\ Answered(r, {"save"}) /\ calls' = calls \ {r}
    /\ IF r.got = "ok"
       THEN /\ fetchGen' = [fetchGen EXCEPT ![r.g] = @ + 1] /\ Show(r.g, r.ans) /\ dlg' = [dlg EXCEPT !.edit = NoGroup]
       ELSE UNCHANGED <<fetchGen, voucherOf, dlg>>
    /\ UNCHANGED <<srv, matched, loadingGid, seeds, bulk, signal, voucherActs>>

VoucherAnswers == \E r \in calls :
    \/ ListLoaded(r) \/ Refetched(r) \/ AiApplied(r) \/ Reloaded(r) \/ Rebuilt(r) \/ Discarded(r)
    \/ Posted(r) \/ Undone(r) \/ SavedEdit(r)
VouchersNext ==
    \/ \E r \in calls : Serve(r)
    \/ VoucherAnswers
    \/ \E S \in SUBSET Group : Regroup(S) \/ CodesSaved(S)
    \/ \E g \in Group : AiApply(g) \/ ReloadVoucher(g) \/ Rebuild(g) \/ Discard(g)
                        \/ \E c \in Command : Asked(g, c) \/ OpenDialog(g, c)
    \/ \E c \in Command : Dismiss(c) \/ Confirm(c)
    \/ SaveEdit
VouchersSpec == VouchersInit /\ [][VouchersNext]_vouchers

(* ------------------------------ properties ------------------------------ *)

\* The voucher shown for a group never gives way to an older one, in whatever order bulk loads and single
\* refetches are answered (groupFetchGenRef, cancelled).  A saved edit and a patch applied by the assistant, whose
\* answers (onSaved, glApplyPatchSeeds) are shown without that test, are left out.  It needs a group which stays:
\* when the list of matched groups empties the generations start again (groupFetchGenRef.current = {}), and an
\* answer from before then can have the number of the latest.
GuardedNeverOlderStep ==
    \A g \in Group : (/\ seeds[g] = None /\ seeds'[g] = None /\ voucherOf'[g].st # "none"
                      /\ ~\E r \in calls \ calls' : r.op = "save" /\ r.g = g)
                     => voucherOf'[g].v >= voucherOf[g].v
GuardedNeverOlder == [][GuardedNeverOlderStep]_vouchers
=============================================================================
