---------------------------- MODULE TaskComposer ----------------------------
(***************************************************************************)
(* The composer of the classic workspace (WorkspaceApp.tsx): the text, its *)
(* draft per task, the AP options per task, the "chat blocked" dialog, the *)
(* processing mode, tasks made while typing, and the chat rounds sent.     *)
(*                                                                         *)
(* Handlers change `ui` and React then runs the effects of the component,  *)
(* each with the values of the render it belongs to, until nothing is      *)
(* changed any more: Pass is one commit with its effects in the order they *)
(* are declared, Settle the renders up to the last.  A text is named by    *)
(* the place where it was typed.                                           *)
(***************************************************************************)
EXTENDS FiniteSets, Naturals

CONSTANTS Chat, NoChat,   \* tasks; NoChat, "": the welcome screen
          StoredTasks,         \* tasks which exist already
          ModeOf,         \* [Task -> processingMode]
          MaxComposerActs         \* bound: user commands

Mode   == {"AR", "AP", "BANK", "OTHER", "REPORT"}
Option == {"none", "part", "full"}    \* AP receipt layout and table style: how many are chosen
ASSUME ComposerAssumption ==
    NoChat \notin Chat /\ StoredTasks \subseteq Chat /\ ModeOf \in [Chat -> Mode] /\ MaxComposerActs \in Nat

NoWords  == "-"
Welcome == "welcome"
Typed(a) == IF a = NoChat THEN Welcome ELSE a

VARIABLES ui,        \* mode, active, input, opts, dialog, skip; refs: drafts, stored (localStorage), pend
          chatTasks, modes,   \* the tasks of the sidebar and their modes
          makes,     \* task creations under way
          ocr,       \* tasks with files in OCR
          stash,     \* pendingApFollowUpChatByBatchKeyRef
          target,    \* bankChatTargetTaskId
          before,    \* preReportModeRef, preReportActiveTaskIdRef
          rounds, thinking, composerActs
composer == <<ui, chatTasks, modes, makes, ocr, stash, target, before, rounds, thinking, composerActs>>
chats == <<rounds, thinking>>

ComposerInit ==
    /\ ui = [mode |-> "AR", active |-> NoChat, input |-> NoWords, opts |-> "none", dialog |-> "none",
             skip |-> FALSE, pend |-> NoWords,
             drafts |-> [t \in Chat \cup {NoChat} |-> NoWords], stored |-> [t \in Chat |-> "none"]]
    /\ chatTasks = StoredTasks /\ modes = ModeOf /\ makes = {} /\ ocr = {} /\ stash = [t \in Chat |-> NoWords]
    /\ target = NoChat /\ before = [mode |-> "AR", active |-> NoChat]
    /\ rounds = [t \in Chat |-> 0] /\ thinking = {} /\ composerActs = 0

(* ------------------------------- the effects ---------------------------- *)
\* p, n: the render before and this one; was, busy: apActiveTaskOcrBusy of each
Held(n) == n.mode = "AP" /\ n.dialog = "blocked" /\ n.active # NoChat /\ n.input = NoWords /\ n.pend # NoWords
DraftOf(n) == IF Held(n) THEN n.pend ELSE n.input
Drafted(p, n) ==
    IF <<p.input, p.active, p.mode, p.dialog>> = <<n.input, n.active, n.mode, n.dialog>> THEN n.drafts
    ELSE [n.drafts EXCEPT ![n.active] = DraftOf(n)]
InAp(n) == n.mode = "AP" /\ n.active # NoChat
Moved(p, n) == p.mode # n.mode \/ p.active # n.active
Saved(n) == IF InAp(n) THEN [n.stored EXCEPT ![n.active] = n.opts] ELSE n.stored
LoadThenSave(p, n) == [opts |-> IF InAp(n) /\ Moved(p, n) THEN n.stored[n.active] ELSE n.opts, stored |-> Saved(n)]
\* (bug) the options are saved before they are loaded
SaveThenLoad(p, n) == [opts |-> IF InAp(n) /\ Moved(p, n) THEN Saved(n)[n.active] ELSE n.opts, stored |-> Saved(n)]
Chips(p, n) == LoadThenSave(p, n)
Blocks(p, n, was, busy) ==
    /\ <<p.mode, p.opts, p.input, p.dialog, was>> # <<n.mode, n.opts, n.input, n.dialog, busy>>
    /\ n.mode = "AP" /\ n.dialog = "none" /\ n.opts = "full" /\ n.input # NoWords /\ ~busy
Deselects(p, n) == p.mode # n.mode /\ "REPORT" \notin {p.mode, n.mode} /\ ~n.skip

Pass(p, n, was, busy) ==
    LET blocks == Blocks(p, n, was, busy)
        shown  == IF p.active # n.active THEN n.drafts[n.active] ELSE n.input   \* the layout effect
    IN [n EXCEPT !.input  = IF blocks THEN NoWords ELSE shown,
                 !.drafts = Drafted(p, n),
                 !.opts   = Chips(p, n).opts, !.stored = Chips(p, n).stored,
                 !.dialog = IF blocks THEN "blocked" ELSE @,
                 !.pend   = IF blocks THEN n.input ELSE @,
                 !.active = IF Deselects(p, n) THEN NoChat ELSE @,
                 !.skip   = IF p.mode # n.mode THEN FALSE ELSE @]
Busy(u, o)     == u.active \in o
Settle(p, n, o1, o2) ==
    LET a == Pass(p, n, Busy(p, o1), Busy(n, o2))
        b == Pass(n, a, Busy(n, o2), Busy(a, o2))
        c == Pass(a, b, Busy(a, o2), Busy(b, o2))
    IN Pass(b, c, Busy(b, o2), Busy(c, o2))
Render(n) == ui' = Settle(ui, n, ocr, ocr')
ComposerAct ==      \* a dialog covers the page
    composerActs < MaxComposerActs /\ composerActs' = composerActs + 1 /\ ui.dialog = "none"
DialogAct == composerActs < MaxComposerActs /\ composerActs' = composerActs + 1

(* ---------------------------- tasks and modes --------------------------- *)
Target(m) == IF m = "BANK" THEN target ELSE NoChat       \* useBankChatTargetTaskId
Restore(m) ==       \* where leaving REPORT leads back to
    [mode |-> m, active |-> IF ui.active # NoChat /\ modes[ui.active] = "REPORT" THEN NoChat ELSE ui.active]
OpenChat(t) ==          \* handleLoadTask
    /\ ComposerAct /\ t \in chatTasks /\ t # ui.active
    /\ target' = IF modes[t] = "BANK" THEN t ELSE NoChat
    /\ before' = IF modes[t] = "REPORT" /\ ui.mode # "REPORT"
                 THEN Restore(IF ui.mode = "OTHER" THEN "AR" ELSE ui.mode) ELSE before
    /\ UNCHANGED <<chatTasks, modes, makes, ocr, stash, chats>>
    /\ Render([ui EXCEPT !.active = t, !.mode = modes[t]])
ExitMode == IF ui.mode = "REPORT" THEN before.mode ELSE ui.mode
ChatAnew ==
    /\ ComposerAct /\ ui.active # NoChat /\ target' = Target(ExitMode)
    /\ UNCHANGED <<chatTasks, modes, makes, ocr, stash, before, chats>>
    /\ Render([ui EXCEPT !.active = NoChat, !.mode = ExitMode])
PickMode(m) ==      \* the composer's hub, which AP does not show, and the folders of the sidebar
    /\ ComposerAct /\ m \notin {ui.mode, "REPORT"} /\ target' = Target(m)
    /\ UNCHANGED <<chatTasks, modes, makes, ocr, stash, before, chats>>
    /\ \/ ui.mode # "AP" /\ Render([ui EXCEPT !.mode = m])
       \/ Render([ui EXCEPT !.mode = m, !.active = IF @ # NoChat /\ modes[@] = m THEN @ ELSE NoChat])

FreeTask == Chat \ (chatTasks \cup {k.id : k \in makes})
Making(m, how, text, opts) ==
    \E t \in FreeTask : makes' = makes \cup {[id |-> t, mode |-> m, how |-> how, text |-> text, opts |-> opts,
                                           old |-> Restore(ui.mode)]}
NewTask(m) ==       \* handleWelcomeNewTaskWithMode
    /\ ComposerAct /\ m # "REPORT" /\ Making(m, "menu", NoWords, "none") /\ target' = Target(ExitMode)
    /\ UNCHANGED <<chatTasks, modes, ocr, stash, before, chats>>
    /\ Render([ui EXCEPT !.skip = @ \/ m # ui.mode, !.mode = ExitMode,
                         !.active = IF ui.mode = "REPORT" THEN before.active ELSE @])
StartReport ==
    /\ ComposerAct /\ ui.mode # "REPORT" /\ Making("REPORT", "report", NoWords, "none")
    /\ UNCHANGED <<ui, chatTasks, modes, ocr, stash, target, before, chats>>
ChipsNow == IF ui.mode = "AP" THEN ui.opts ELSE "none"
\* ensureComposerTaskIfTyping: one creation at a time, which takes the last text
EnsureTask(how, text) ==
    LET open == {k \in makes : k.how \in {"typed", "blocked"}}
    IN IF ui.active # NoChat \/ text = NoWords \/ ui.mode = "REPORT" THEN UNCHANGED makes
       ELSE IF open # {} THEN makes' = (makes \ open) \cup {[k EXCEPT !.text = text, !.how = how] : k \in open}
       ELSE Making(ui.mode, how, text, ChipsNow)
\* addPersistedTask, also when the creation fails: the row is then shown as failed, and opened all the same
Made(k) ==
    /\ k \in makes /\ makes' = makes \ {k} /\ modes' = [modes EXCEPT ![k.id] = k.mode]
    /\ chatTasks' = chatTasks \cup {k.id}
    /\ UNCHANGED <<ocr, stash, composerActs>>
    /\ \E ok \in BOOLEAN :
         LET enters == k.how = "menu" \/ (k.how = "report" /\ ok)
             sends  == k.how = "send" /\ ok
         IN /\ rounds' = IF sends THEN [rounds EXCEPT ![k.id] = @ + 1] ELSE rounds
            /\ thinking' = IF sends THEN thinking \cup {k.id} ELSE thinking
            /\ target' = IF enters THEN Target(k.mode) ELSE target
            /\ before' = IF k.how = "report" THEN k.old ELSE before
            /\ Render([ui EXCEPT !.active = k.id, !.stored[k.id] = k.opts,
                                 !.mode = IF enters THEN k.mode ELSE @,
                                 !.input = IF sends /\ k.mode = "OTHER" THEN NoWords ELSE @,
                                 !.drafts[k.id] = IF k.how \in {"typed", "blocked"} /\ ok THEN k.text ELSE @,
                                 !.dialog = IF k.how = "blocked" THEN "blocked" ELSE @])

(* ---------------------- typing, options, the dialogs -------------------- *)
NotBusy == ~Busy(ui, ocr)
TypeText ==             \* handleComposerInputChange
    /\ ComposerAct /\ UNCHANGED <<chatTasks, modes, ocr, stash, target, before, chats>>
    /\ \E text \in {NoWords, Typed(ui.active)} :
         IF ui.mode = "AP" /\ ui.opts = "full" /\ text # NoWords /\ NotBusy
         THEN /\ EnsureTask("blocked", text)
              /\ Render([ui EXCEPT !.pend = text, !.dialog = IF ui.active # NoChat THEN "blocked" ELSE @])
         ELSE /\ text # ui.input /\ EnsureTask("typed", text) /\ Render([ui EXCEPT !.input = text])
Choose(o) ==        \* the chips of the composer, or the dialog which asks for them
    /\ DialogAct /\ ui.mode = "AP" /\ o # ui.opts /\ NotBusy
    /\ ui.dialog \in {"none", "incomplete"} /\ (ui.dialog = "incomplete" => o # "none")
    /\ UNCHANGED <<chatTasks, modes, makes, ocr, stash, target, before,
                   chats>> /\ Render([ui EXCEPT !.opts = o])
CloseBlocked ==
    /\ DialogAct /\ ui.dialog # "none" /\ UNCHANGED <<chatTasks, modes, makes, ocr, stash, target,
                                                      before, chats>>
    /\ \/ Render([ui EXCEPT !.dialog = "none", !.pend = IF ui.dialog = "blocked" THEN NoWords ELSE @])
       \/ ui.dialog = "blocked"      \* "Clear all options & restore text"
          /\ Render([ui EXCEPT !.dialog = "none", !.pend = NoWords, !.opts = "none", !.input = ui.pend])
Attach ==           \* AP files for the open task; what is typed follows when they are read
    /\ ComposerAct /\ ui.mode = "AP" /\ ui.active \in chatTasks
    /\ UNCHANGED <<chatTasks, modes, makes, target, before, chats>>
    /\ IF ui.opts # "full" THEN UNCHANGED <<ocr, stash>> /\ Render([ui EXCEPT !.dialog = "incomplete"])
       ELSE /\ ocr' = ocr \cup {ui.active}
            /\ stash' = IF ui.input = NoWords THEN stash ELSE [stash EXCEPT ![ui.active] = ui.input]
            /\ Render([ui EXCEPT !.input = NoWords])
RoundOn(t) == rounds[t] < 2 /\ rounds' = [rounds EXCEPT ![t] = @ + 1] /\ thinking' = thinking \cup {t}
OcrEnds(t) ==       \* finalizeTask; the follow-up is sent once its batch is saved
    /\ t \in ocr /\ ocr' = ocr \ {t} /\ UNCHANGED <<chatTasks, modes, makes, target, before,
                                                    composerActs>>
    /\ IF stash[t] = NoWords THEN UNCHANGED <<stash, chats>>
       ELSE \/ UNCHANGED <<stash, chats>>
            \/ RoundOn(t) /\ stash' = [stash EXCEPT ![t] = NoWords]
    /\ Render(ui)

(* --------------------------------- sending ------------------------------ *)
HasBody == ui.input # NoWords \/ (ui.mode = "AP" /\ ui.opts # "none")
SendBlocked ==
    /\ ComposerAct /\ ui.mode = "AP" /\ ui.opts = "full" /\ NotBusy
    /\ UNCHANGED <<chatTasks, modes, makes, ocr, stash, target, before, chats>>
    /\ Render([ui EXCEPT !.dialog = "blocked", !.pend = ui.input, !.input = NoWords])
SendChat ==             \* AR, AP: the composer keeps the text; OTHER clears it
    /\ ComposerAct /\ HasBody /\ ui.mode \in {"AR", "AP", "OTHER"} /\ ~(ui.mode = "AP" /\ ui.opts = "full" /\ NotBusy)
    /\ UNCHANGED <<chatTasks, modes, ocr, stash, target, before>>
    /\ IF ui.active = NoChat THEN Making(ui.mode, "send", NoWords, ChipsNow) /\ UNCHANGED <<ui, chats>>
       ELSE /\ RoundOn(ui.active) /\ UNCHANGED makes
            /\ Render([ui EXCEPT !.input = IF ui.mode = "OTHER" THEN NoWords ELSE @])
SendReport ==
    /\ ComposerAct /\ HasBody /\ ui.mode = "REPORT" /\ ui.active # NoChat /\ RoundOn(ui.active)
    /\ UNCHANGED <<chatTasks, modes, makes, ocr, stash, target, before>>
    /\ Render([ui EXCEPT !.input = NoWords])
BankTasks == {t \in chatTasks : modes[t] = "BANK"}
SendBank ==         \* to the chosen statement, or the picker
    /\ ComposerAct /\ HasBody /\ ui.mode = "BANK" /\ UNCHANGED <<chatTasks, modes, makes, ocr, stash,
                                                                 before>>
    /\ IF target \in BankTasks
       THEN RoundOn(target) /\ UNCHANGED <<ui, target>>
       ELSE /\ UNCHANGED chats /\ Render([ui EXCEPT !.input = NoWords])
            /\ target' \in BankTasks \cup {IF Cardinality(BankTasks) = 1 /\ target = NoChat
                                           THEN CHOOSE t \in BankTasks : TRUE ELSE target}
RoundEnds(t) ==     \* answered or failed: the bubble of the round is replaced in its task
    /\ rounds[t] > 0 /\ rounds' = [rounds EXCEPT ![t] = @ - 1]
    /\ thinking' = thinking \ {t}
    /\ UNCHANGED <<ui, chatTasks, modes, makes, ocr, stash, target, before, composerActs>>

ComposerNext ==
    \/ \E t \in Chat : OpenChat(t) \/ OcrEnds(t) \/ RoundEnds(t)
    \/ \E m \in Mode : PickMode(m) \/ NewTask(m)
    \/ \E o \in Option : Choose(o)
    \/ \E k \in makes : Made(k)
    \/ ChatAnew \/ StartReport \/ TypeText \/ CloseBlocked \/ Attach
    \/ SendBlocked \/ SendChat \/ SendReport \/ SendBank
ComposerSpec == ComposerInit /\ [][ComposerNext]_composer

(* ------------------------------- properties ----------------------------- *)
\* Going from one task to another of the same mode leaves the AP options kept for each of them alone: the
\* options of the last task, which the state still holds in the first render, are not kept under the next
\* (the effects of WorkspaceApp.tsx which load and save the chips).
SwitchKeepsOptionsStep ==
    ui'.active # ui.active /\ ui'.mode = ui.mode => \A t \in chatTasks : ui'.stored[t] = ui.stored[t]
SwitchKeepsOptions == [][SwitchKeepsOptionsStep]_composer
=============================================================================
