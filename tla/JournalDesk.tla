----------------------------- MODULE JournalDesk -----------------------------
(***************************************************************************)
(* The journal page of the ERP shell (JournalPage.tsx) with the dialog     *)
(* which edits a draft (ReconGlJournalEditModal.tsx): the filtered list    *)
(* and its reloads, Post and Unpost of a row, a new manual journal, and    *)
(* the saving of edited lines as a difference to the lines the dialog was  *)
(* opened with, while other users of the books change the same drafts.     *)
(***************************************************************************)
EXTENDS FiniteSets, Naturals

CONSTANTS Journal, NoJournal,
          Line,        \* lines every journal has from the start
          Stored,      \* journals which exist; the others are the manual ones still to come
          MaxChange, MaxJournalActs     \* bounds: changes of one line, user commands
ASSUME JournalAssumption ==
    NoJournal \notin Journal /\ Stored \subseteq Journal /\ MaxChange \in Nat /\ MaxJournalActs \in Nat

Filter == {"all", "draft", "posted"}
Gone  == MaxChange + 1      \* value of a removed line
Typed == MaxChange + 2      \* value of a line typed anew

VARIABLES entries,       \* [Journal -> [st, fromModule, matched, lines, more]]: fromModule, the draft of an
                         \* approved row, posted only as the voucher of a match; more, lines added
          shownFor, list, listLoads, fetching,
          busyId,    \* the row whose command is under way
          voucherDlg,       \* editJournal with the lines it was opened with and those shown
          dlgSaving,
          manual,    \* the manual dialog is open
          commands, journalActs
journals == <<entries, shownFor, list, listLoads, fetching, busyId, voucherDlg, dlgSaving, manual,
              commands, journalActs>>
journalPage == <<shownFor, list, listLoads, fetching, busyId, voucherDlg, dlgSaving, manual>>

Lines0 == [l \in Line |-> 0]
Absent == [st |-> "none", fromModule |-> FALSE, matched |-> FALSE, lines |-> Lines0, more |-> 0]
Closed == [j |-> NoJournal, orig |-> Lines0, cur |-> Lines0, new |-> 0]
JournalInit ==
    /\ \E approved \in SUBSET Stored :
         entries = [j \in Journal |-> [Absent EXCEPT !.st = IF j \in Stored THEN "draft" ELSE "none",
                                                      !.fromModule = j \in approved]]
    /\ shownFor = "all" /\ list = [j \in Journal |-> Absent]
    /\ listLoads = {[n |-> 0, f |-> "all", got |-> "open", rests |-> FALSE, ans |-> list]} /\ fetching = TRUE
    /\ busyId = NoJournal /\ voucherDlg = Closed /\ dlgSaving = FALSE /\ manual = FALSE
    /\ commands = {} /\ journalActs = 0

(* ------------------------------- the list ------------------------------- *)
Filtered(f) == [j \in Journal |-> IF f = "all" \/ entries[j].st = f THEN entries[j] ELSE Absent]      \* glList
ListLoad(f, rests) == [n |-> journalActs, f |-> f, got |-> "open", rests |-> rests,
                   ans |-> [j \in Journal |-> Absent]]
ReloadList(f, rests) == listLoads' = listLoads \cup {ListLoad(f, rests)} /\ fetching' = TRUE
JournalAct == journalActs < MaxJournalActs /\ journalActs' = journalActs + 1
PageFree == voucherDlg.j = NoJournal /\ ~manual       \* no dialog covers the page
PickFilter(f) ==
    /\ JournalAct /\ PageFree /\ f # shownFor /\ shownFor' = f /\ ReloadList(f, FALSE)
    /\ UNCHANGED <<entries, list, busyId, voucherDlg, dlgSaving, manual, commands>>
Refresh ==
    /\ JournalAct /\ PageFree /\ ~fetching /\ ReloadList(shownFor, FALSE)
    /\ UNCHANGED <<entries, shownFor, list, busyId, voucherDlg, dlgSaving, manual, commands>>
CodesDeployed ==     \* ERP_COA_DEPLOY_COMPLETE
    /\ JournalAct /\ ReloadList(shownFor, FALSE)
    /\ UNCHANGED <<entries, shownFor, list, busyId, voucherDlg, dlgSaving, manual, commands>>
Read(r) ==
    /\ r \in listLoads /\ r.got = "open"
    /\ \/ listLoads' = (listLoads \ {r}) \cup {[r EXCEPT !.got = "ok", !.ans = Filtered(r.f)]}
       \/ listLoads' = (listLoads \ {r}) \cup {[r EXCEPT !.got = "lost"]}
    /\ UNCHANGED <<entries, shownFor, list, fetching, busyId, voucherDlg, dlgSaving, manual, commands,
                   journalActs>>
\* the accounts come with every reload, as a new list: the effect of the open dialog starts over
Reset(d) == IF d.j = NoJournal THEN d ELSE [d EXCEPT !.cur = d.orig, !.new = 0]
ListShown(r) ==
    /\ r \in listLoads /\ r.got # "open" /\ listLoads' = listLoads \ {r} /\ fetching' = FALSE
    /\ busyId' = IF r.rests THEN NoJournal ELSE busyId
    /\ IF r.got = "ok" THEN list' = r.ans /\ voucherDlg' = Reset(voucherDlg) ELSE UNCHANGED <<list, voucherDlg>>
    /\ UNCHANGED <<entries, shownFor, dlgSaving, manual, commands, journalActs>>

(* ------------------------------ the commands ---------------------------- *)
Listing(j) == PageFree /\ ~fetching /\ list[j].st # "none"
\* the reload after a command is the one of the page as it was when the command was given
Asking(op, j) == [op |-> op, j |-> j, f |-> shownFor, n |-> journalActs, got |-> "open",
                   put |-> {}, cur |-> Lines0, new |-> 0]
SendCommand(r) == commands' = commands \cup {r}
Toggle(j) ==         \* onPost, onUnpost
    /\ JournalAct /\ Listing(j) /\ ~list[j].fromModule /\ busyId # j /\ busyId' = j
    /\ SendCommand(Asking(IF list[j].st = "draft" THEN "post" ELSE "unpost", j))
    /\ UNCHANGED <<entries, shownFor, list, listLoads, fetching, voucherDlg, dlgSaving, manual>>
CanEdit(j) == list[j].st = "draft" /\ ~list[j].matched
OpenEdit(j) ==
    /\ JournalAct /\ Listing(j) /\ CanEdit(j) /\ busyId # j
    /\ voucherDlg' = [j |-> j, orig |-> list[j].lines, cur |-> list[j].lines, new |-> 0]
    /\ UNCHANGED <<entries, shownFor, list, listLoads, fetching, busyId, dlgSaving, manual, commands>>
Editing == voucherDlg.j # NoJournal /\ ~dlgSaving /\ busyId # voucherDlg.j
EditLine(l) ==       \* setDebit, setCredit, removeRow
    /\ Editing /\ voucherDlg.cur[l] # Gone
    /\ \E v \in {Typed, Gone} : voucherDlg' = [voucherDlg EXCEPT !.cur[l] = v]
    /\ UNCHANGED <<entries, shownFor, list, listLoads, fetching, busyId, dlgSaving, manual, commands,
                   journalActs>>
AddLine ==
    /\ Editing /\ voucherDlg.new = 0 /\ voucherDlg' = [voucherDlg EXCEPT !.new = 1]
    /\ UNCHANGED <<entries, shownFor, list, listLoads, fetching, busyId, dlgSaving, manual, commands,
                   journalActs>>
CloseEdit ==
    /\ Editing /\ voucherDlg' = Closed
    /\ UNCHANGED <<entries, shownFor, list, listLoads, fetching, busyId, dlgSaving, manual, commands,
                   journalActs>>
Differing(d) == {l \in Line : d.cur[l] # d.orig[l]}      \* lineUnchanged, deleted_line_ids
\* (bug) every line of the dialog is sent
EveryLine(d) == Line
Sent(d) == Differing(d)
Save ==              \* handleOk
    /\ JournalAct /\ Editing /\ dlgSaving' = TRUE
    /\ SendCommand([Asking("save", voucherDlg.j) EXCEPT
                      !.put = Sent(voucherDlg), !.cur = voucherDlg.cur, !.new = voucherDlg.new])
    /\ UNCHANGED <<entries, shownFor, list, listLoads, fetching, busyId, voucherDlg, manual>>
OpenManual == JournalAct /\ PageFree /\ manual' = TRUE
              /\ UNCHANGED <<entries, shownFor, list, listLoads, fetching, busyId, voucherDlg,
                             dlgSaving, commands>>
CloseManual == manual /\ manual' = FALSE
               /\ UNCHANGED <<entries, shownFor, list, listLoads, fetching, busyId, voucherDlg,
                              dlgSaving, commands, journalActs>>
CreateManual ==      \* the button is not disabled meanwhile
    /\ JournalAct /\ manual /\ SendCommand(Asking("create", NoJournal))
    /\ UNCHANGED <<entries, journalPage>>

(* ------------------------------- the server ----------------------------- *)
Became(r) ==         \* the journals after the request, none when it is refused
    CASE r.op = "post"   -> IF entries[r.j].st = "draft" /\ ~entries[r.j].fromModule
                            THEN {[entries EXCEPT ![r.j].st = "posted"]} ELSE {}
      [] r.op = "unpost" -> IF entries[r.j].st = "posted" THEN {[entries EXCEPT ![r.j].st = "draft"]} ELSE {}
      [] r.op = "save"   -> IF entries[r.j].st = "draft"
                            THEN {[entries EXCEPT ![r.j].lines = [l \in Line |-> IF l \in r.put THEN r.cur[l] ELSE @[l]],
                                                  ![r.j].more = @ + r.new]} ELSE {}
      [] r.op = "create" -> {[entries EXCEPT ![j].st = "draft"] : j \in {k \in Journal \ Stored : entries[k].st = "none"}}
ServeCommand(r) ==
    /\ r \in commands /\ r.got = "open"
    /\ \/ /\ entries' \in Became(r) /\ \A j \in Journal : entries'[j].more <= 2
          /\ \E got \in {"ok", "lost"} : commands' = (commands \ {r}) \cup {[r EXCEPT !.got = got]}
       \/ commands' = (commands \ {r}) \cup {[r EXCEPT !.got = "lost"]} /\ UNCHANGED entries
    /\ UNCHANGED <<journalPage, journalActs>>
OtherChange(j, l) == \* account codes deployed or changed elsewhere, another user
    /\ entries[j].st = "draft" /\ entries[j].lines[l] < MaxChange
    /\ entries' = [entries EXCEPT ![j].lines[l] = @ + 1]
    /\ UNCHANGED <<journalPage, commands, journalActs>>
\* its row is matched at the reconciliation desk, then the draft is merged into the voucher of the match
OtherMatch(j) ==
    /\ entries[j].fromModule /\ entries[j].st = "draft"
    /\ entries' = [entries EXCEPT ![j] = IF @.matched THEN [@ EXCEPT !.st = "none"] ELSE [@ EXCEPT !.matched = TRUE]]
    /\ UNCHANGED <<journalPage, commands, journalActs>>

CommandAnswered(r, ops) == r \in commands /\ r.op \in ops /\ r.got # "open" /\ commands' = commands \ {r}
Toggled(r) ==
    /\ CommandAnswered(r, {"post", "unpost"})
    /\ IF r.got = "ok" THEN ReloadList(r.f, TRUE) /\ UNCHANGED busyId
       ELSE busyId' = NoJournal /\ UNCHANGED <<listLoads, fetching>>
    /\ UNCHANGED <<entries, shownFor, list, voucherDlg, dlgSaving, manual, journalActs>>
Saved(r) ==
    /\ CommandAnswered(r, {"save"}) /\ dlgSaving' = FALSE
    /\ IF r.got = "ok" THEN voucherDlg' = Closed /\ ReloadList(r.f, FALSE) ELSE UNCHANGED <<voucherDlg,
                                                                                            listLoads, fetching>>
    /\ UNCHANGED <<entries, shownFor, list, busyId, manual, journalActs>>
ManualCreated(r) ==
    /\ CommandAnswered(r, {"create"})
    /\ IF r.got = "ok" THEN manual' = FALSE /\ ReloadList(r.f, FALSE) ELSE UNCHANGED <<manual, listLoads, fetching>>
    /\ UNCHANGED <<entries, shownFor, list, busyId, voucherDlg, dlgSaving, journalActs>>

JournalNext ==
    \/ \E f \in Filter : PickFilter(f)
    \/ Refresh \/ CodesDeployed \/ AddLine \/ CloseEdit \/ Save \/ OpenManual \/ CloseManual \/ CreateManual
    \/ \E r \in listLoads : Read(r) \/ ListShown(r)
    \/ \E j \in Journal : Toggle(j) \/ OpenEdit(j) \/ OtherMatch(j) \/ \E l \in Line : OtherChange(j, l)
    \/ \E l \in Line : EditLine(l)
    \/ \E r \in commands : ServeCommand(r) \/ Toggled(r) \/ Saved(r) \/ ManualCreated(r)
JournalSpec == JournalInit /\ [][JournalNext]_journals

(* ------------------------------ properties ------------------------------ *)
\* Saving the dialog never takes back what somebody else changed meanwhile in a line the user left alone:
\* only lines which differ from those the dialog was opened with are sent (lineUnchanged).
OthersKeptStep ==
    \A j \in Journal, l \in Line :
        entries'[j].lines[l] < entries[j].lines[l]
            => \E r \in commands : r.op = "save" /\ r.j = j /\ r.cur[l] > MaxChange
OthersKept == [][OthersKeptStep]_journals
=============================================================================
