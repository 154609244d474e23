---------------------------- MODULE SettingsDesk ---------------------------
(***************************************************************************)
(* The settings of a company (SettingsProvider.tsx and its panels): lists  *)
(* loaded under a load sequence number, a skill memory per mode with an    *)
(* optimistic version, opening balances saved on blur, and the workspaces  *)
(* themselves, created and deleted here and switched in AuthContext.tsx.   *)
(*                                                                         *)
(* A list is abstracted to the company it belongs to, a memory's text to   *)
(* the company and mode it was written for.  The server's work and the     *)
(* arrival of the answer are one step; a request carries the company of    *)
(* its X-Company-ID header and whatever its handler closed over.           *)
(***************************************************************************)
EXTENDS Naturals, FiniteSets

CONSTANTS Company, NoCompany,
          NewCompany,    \* the company a user may add
          SkillMode, FirstMode,
          NoBalance, Balance,      \* no value, values of the one opening balance modelled per company
          MaxClicks      \* bound: user commands

ASSUME SettingsAssumption ==
    /\ NoCompany \notin Company /\ NewCompany \in Company /\ FirstMode \in SkillMode
    /\ NoBalance \notin Balance /\ MaxClicks \in Nat

List == {"coa", "summaries", "exclusions", "rules", "manual"}
NoText == [co |-> NoCompany, mode |-> FirstMode]     \* the empty draft

VARIABLES
    mine, memory, balance,                  \* server
    companies, active,                      \* AuthContext
    loadSeq, shown,                             \* settingsLoadSeq, the company each list shows
    memoryMode, content, version, draft, editing, dialog, savingSkill,
    item, bfDraft, typed,                   \* opening balance: listed, in the input, typed and not listed
    asked, clicks

kept == <<mine, memory, balance>>
auth   == <<companies, active>>
skill  == <<memoryMode, content, version, draft, editing, dialog, savingSkill>>
bf     == <<item, bfDraft, typed>>
desk   == <<kept, auth, loadSeq, shown, skill, bf, asked, clicks>>

Ask(kind) == [kind |-> kind, co |-> active, seq |-> loadSeq, mode |-> memoryMode, text |-> NoText,
              ver |-> 0, bal |-> NoBalance, typed |-> FALSE, chain |-> FALSE,
              list |-> "coa", companies |-> {}, was |-> active]

(* ------------------------------ opening, loading ---------------------------- *)
\* The effect on [enabled, activeCompanyId], started in the state that has `co` active:
\* a new sequence number, every company-scoped value reset, the account list first.
Opened(co) ==
    /\ loadSeq' = loadSeq + 1
    /\ shown' = [l \in List |-> NoCompany]
    /\ memoryMode' = FirstMode /\ content' = NoText /\ version' = 1 /\ draft' = NoText
    /\ editing' = FALSE /\ savingSkill' = FALSE
    /\ item' = NoBalance /\ bfDraft' = NoBalance /\ typed' = FALSE
    /\ asked' = asked \cup {[Ask("coa") EXCEPT !.co = co, !.seq = loadSeq + 1, !.chain = TRUE]}

SettingsInit ==
    /\ mine = Company \ {NewCompany} /\ companies = mine /\ active \in mine
    /\ memory = [c \in Company |-> [m \in SkillMode |-> [text |-> [co |-> c, mode |-> m], ver |-> 1]]]
    /\ balance = [c \in Company |-> CHOOSE v \in Balance : TRUE]
    /\ loadSeq = 1 /\ shown = [l \in List |-> NoCompany]
    /\ memoryMode = FirstMode /\ content = NoText /\ version = 1 /\ draft = NoText
    /\ editing = FALSE /\ dialog = FALSE /\ savingSkill = FALSE
    /\ item = NoBalance /\ bfDraft = NoBalance /\ typed = FALSE
    /\ asked = {[Ask("coa") EXCEPT !.chain = TRUE]}
    /\ clicks = 0

UserClick == clicks < MaxClicks /\ clicks' = clicks + 1
Current(s)    == s = loadSeq                                  \* isCurrentSettingsLoad
CurrentAny(s) == TRUE                                     \* (bug) no sequence check
Fresh(s)      == Current(s)
Shows(l, r)   == shown' = IF Fresh(r.seq) THEN [shown EXCEPT ![l] = r.co] ELSE shown
Send(rs)      == asked' = asked \cup rs

\* reloadCoA: an input that already holds a draft keeps it
CoaAnswered(r) ==
    /\ r.kind = "coa"
    /\ Shows("coa", r)
    /\ item' = IF Fresh(r.seq) THEN balance[r.co] ELSE item
    /\ bfDraft' = IF Fresh(r.seq) /\ bfDraft = NoBalance THEN balance[r.co] ELSE bfDraft
    /\ typed' = (typed /\ bfDraft' # item')
    /\ asked' = (asked \ {r}) \cup
           (IF r.chain THEN {[Ask("memory") EXCEPT !.seq = r.seq, !.mode = FirstMode, !.chain = TRUE]}
                       ELSE {})
    /\ UNCHANGED <<kept, auth, loadSeq, skill, clicks>>

\* what the effect starts once the first memory is there
Background(s) == {[Ask(k) EXCEPT !.seq = s, !.mode = FirstMode] : k \in List \ {"coa"}}

\* loadRuleMemory(mode)
MemoryAnswered(r) ==
    /\ r.kind = "memory"
    /\ IF Fresh(r.seq)
         THEN /\ memoryMode' = r.mode
              /\ content' = memory[r.co][r.mode].text /\ version' = memory[r.co][r.mode].ver
         ELSE UNCHANGED <<memoryMode, content, version>>
    /\ asked' = (asked \ {r}) \cup (IF r.chain THEN Background(r.seq) ELSE {})
    /\ UNCHANGED <<kept, auth, loadSeq, shown, draft, editing, dialog, savingSkill, bf, clicks>>

\* loadAllSummaries: the selected mode's text is shown, whatever mode is open by now
SummariesAnswered(r) ==
    /\ r.kind = "summaries"
    /\ Shows("summaries", r)
    /\ IF Fresh(r.seq)
         THEN content' = memory[r.co][r.mode].text /\ version' = memory[r.co][r.mode].ver
         ELSE UNCHANGED <<content, version>>
    /\ asked' = asked \ {r}
    /\ UNCHANGED <<kept, auth, loadSeq, memoryMode, draft, editing, dialog, savingSkill, bf, clicks>>

ListOf(l, r) ==
    /\ r.kind = l /\ Shows(l, r) /\ asked' = asked \ {r}
    /\ UNCHANGED <<kept, auth, loadSeq, skill, bf, clicks>>
ExclusionsAnswered(r) == ListOf("exclusions", r)
RulesAnswered(r)      == ListOf("rules", r)
ManualAnswered(r)     == ListOf("manual", r)

\* The first memory may fail to load; the rest is loaded all the same.  Any other load
\* that fails leaves its list as it was, as one that is never answered does.
FirstFailed(r) ==
    /\ r.kind = "memory" /\ r.chain
    /\ asked' = (asked \ {r}) \cup Background(r.seq)
    /\ UNCHANGED <<kept, auth, loadSeq, shown, skill, bf, clicks>>

(* ------------------------- rules, exclusions, accounts ---------------------- *)
\* A change is sent; its success reloads the list under the sequence number and the
\* company of that later moment.
Change(l) == /\ UserClick /\ shown[l] # NoCompany
             /\ Send({[Ask("change") EXCEPT !.list = l]})
             /\ UNCHANGED <<kept, auth, loadSeq, shown, skill, bf>>
ChangeExclusion == Change("exclusions")
SaveExclusion   == Change("exclusions")
ChangeRule      == Change("rules")
SaveRule        == Change("rules")
DeleteAccount   == Change("coa")
AddAccount      == Change("coa")
ToggleSkill     == Change("summaries")

Changed(r) ==
    /\ r.kind = "change"
    /\ asked' = (asked \ {r}) \cup {[Ask(r.list) EXCEPT !.mode = r.mode]}
    /\ UNCHANGED <<kept, auth, loadSeq, shown, skill, bf, clicks>>

(* ------------------------------- opening balance ---------------------------- *)
Put(v, t) == [Ask("balance") EXCEPT !.bal = v, !.typed = t]

EditAccount ==
    /\ UserClick /\ item # NoBalance
    /\ \E v \in Balance : v # item /\ Send({Put(v, TRUE)})
    /\ UNCHANGED <<kept, auth, loadSeq, shown, skill, bf>>

TypeBalance ==
    /\ UserClick /\ bfDraft # NoBalance
    /\ \E v \in Balance : v # bfDraft /\ bfDraft' = v
    /\ typed' = TRUE
    /\ UNCHANGED <<kept, auth, loadSeq, shown, skill, item, asked>>

BlurBalance ==
    /\ UserClick /\ bfDraft # NoBalance
    /\ asked' = IF bfDraft = item THEN asked ELSE asked \cup {Put(bfDraft, typed)}
    /\ UNCHANGED <<kept, auth, loadSeq, shown, skill, bf>>

BalanceSaved(r) ==
    /\ r.kind = "balance"
    /\ balance' = [balance EXCEPT ![r.co] = r.bal]
    /\ asked' = (asked \ {r}) \cup {Ask("coa")}
    /\ UNCHANGED <<mine, memory, auth, loadSeq, shown, skill, bf, clicks>>

(* -------------------------------- skill memory ------------------------------ *)
OpenSkill(m) ==
    /\ UserClick /\ ~dialog
    /\ dialog' = TRUE /\ memoryMode' = m /\ editing' = FALSE
    /\ Send({[Ask("memory") EXCEPT !.mode = m]})
    /\ UNCHANGED <<kept, auth, loadSeq, shown, content, version, draft, savingSkill, bf>>

SwitchMode(m) ==
    /\ UserClick /\ ~dialog /\ m # memoryMode
    /\ Send({[Ask("memory") EXCEPT !.mode = m]})
    /\ editing' = FALSE
    /\ UNCHANGED <<kept, auth, loadSeq, shown, memoryMode, content, version, draft, dialog, savingSkill, bf>>

\* Edit is offered before the memory of the mode has arrived
EditSkill ==
    /\ UserClick /\ dialog /\ ~editing
    /\ draft' = content /\ editing' = TRUE
    /\ UNCHANGED <<kept, auth, loadSeq, shown, memoryMode, content, version, dialog, savingSkill, bf, asked>>

CloseSkill ==
    /\ dialog /\ dialog' = FALSE /\ editing' = FALSE
    /\ UNCHANGED <<kept, auth, loadSeq, shown, memoryMode, content, version, draft, savingSkill, bf, asked, clicks>>

SaveSkill ==
    /\ UserClick /\ dialog /\ editing /\ ~savingSkill
    /\ savingSkill' = TRUE
    /\ Send({[Ask("save") EXCEPT !.text = draft, !.ver = version]})
    /\ UNCHANGED <<kept, auth, loadSeq, shown, memoryMode, content, version, draft, editing, dialog, bf>>

GenerateSkill ==
    /\ UserClick /\ ~dialog
    /\ Send({Ask("generate")})
    /\ UNCHANGED <<kept, auth, loadSeq, shown, skill, bf>>

TextStored(r, text) ==
    memory' = [memory EXCEPT ![r.co][r.mode] = [text |-> text, ver |-> @.ver + 1]]

\* handleSaveMemory, generateMemory: no sequence check on the answer
SkillStored(r) ==
    /\ \/ r.kind = "save" /\ memory[r.co][r.mode].ver = r.ver /\ TextStored(r, r.text) /\ content' = r.text
       \/ /\ r.kind = "generate"
          /\ TextStored(r, [co |-> r.co, mode |-> r.mode]) /\ content' = [co |-> r.co, mode |-> r.mode]
    /\ version' = memory[r.co][r.mode].ver + 1
    /\ editing' = FALSE
    /\ savingSkill' = IF r.kind = "save" THEN FALSE ELSE savingSkill
    /\ asked' = asked \ {r}
    /\ UNCHANGED <<mine, balance, auth, loadSeq, shown, memoryMode, draft, dialog, bf, clicks>>

\* a version conflict, or any other refusal
SkillRefused(r) ==
    /\ r.kind \in {"save", "generate"}
    /\ savingSkill' = IF r.kind = "save" THEN FALSE ELSE savingSkill
    /\ asked' = asked \ {r}
    /\ UNCHANGED <<kept, auth, loadSeq, shown, memoryMode, content, version, draft, editing, dialog, bf, clicks>>

\* handleRestoreLastVersion: history, confirmation and restore as one request
RestoreSkill ==
    /\ UserClick /\ dialog
    /\ Send({Ask("restore")})
    /\ UNCHANGED <<kept, auth, loadSeq, shown, skill, bf>>

SkillRestored(r) ==
    /\ r.kind = "restore"
    /\ TextStored(r, memory[r.co][r.mode].text)
    /\ asked' = (asked \ {r}) \cup {[Ask("memory") EXCEPT !.mode = r.mode],
                                  [Ask("summaries") EXCEPT !.mode = r.mode]}
    /\ UNCHANGED <<mine, balance, auth, loadSeq, shown, skill, bf, clicks>>

(* --------------------------------- workspaces ------------------------------- *)
\* switchCompany looks the id up in the companies its caller rendered with
Switched(co, rendered) == IF co \in rendered THEN co ELSE active

SwitchCompany(c) ==
    /\ UserClick
    /\ c \in companies /\ c # active
    /\ \A r \in asked : r.kind # "delete"                  \* its dialog covers the page
    /\ active' = c
    /\ Opened(c)
    /\ UNCHANGED <<kept, companies, dialog>>

CreateCompany ==
    /\ UserClick /\ NewCompany \notin mine
    /\ \A r \in asked : r.kind # "create"
    /\ Send({[Ask("create") EXCEPT !.companies = companies]})
    /\ UNCHANGED <<kept, auth, loadSeq, shown, skill, bf>>

DeleteCompany(c) ==
    /\ UserClick /\ c \in companies /\ Cardinality(companies) > 1
    /\ \A r \in asked : r.kind # "delete"
    /\ Send({[Ask("delete") EXCEPT !.co = c, !.companies = companies]})
    /\ UNCHANGED <<kept, auth, loadSeq, shown, skill, bf>>

\* refreshCompanies and resolveActiveCompany, then the handler's own switch
Resolved(saved) == IF saved \notin mine' /\ Cardinality(mine') = 1
                     THEN CHOOSE c \in mine' : TRUE ELSE active

WorkspaceDone(r, next) ==
    /\ companies' = mine'
    /\ active' = next
    /\ IF next # active
         THEN \* the effect runs after the answer is dealt with
              /\ loadSeq' = loadSeq + 1 /\ shown' = [l \in List |-> NoCompany]
              /\ memoryMode' = FirstMode /\ content' = NoText /\ version' = 1 /\ draft' = NoText
              /\ editing' = FALSE /\ savingSkill' = FALSE
              /\ item' = NoBalance /\ bfDraft' = NoBalance /\ typed' = FALSE
              /\ asked' = (asked \ {r}) \cup
                     {[Ask("coa") EXCEPT !.co = next, !.seq = loadSeq + 1, !.chain = TRUE]}
         ELSE asked' = asked \ {r} /\ UNCHANGED <<loadSeq, shown, memoryMode, content, version, draft,
                                               editing, savingSkill, bf>>
    /\ UNCHANGED <<memory, balance, dialog, clicks>>

CompanyCreated(r) ==
    /\ r.kind = "create"
    /\ mine' = mine \cup {NewCompany}
    /\ WorkspaceDone(r, Switched(NewCompany, r.companies))

CompanyDeleted(r) ==
    /\ r.kind = "delete" /\ r.co \in mine /\ Cardinality(mine) > 1
    /\ mine' = mine \ {r.co}
    /\ LET suggested == CHOOSE c \in mine' : TRUE
       IN WorkspaceDone(r, IF r.was = r.co THEN Switched(suggested, r.companies)
                                           ELSE Resolved(active))

\* done, but refreshCompanies is lost (or, for a deletion, refused)
WorkspaceFailed(r) ==
    /\ r.kind \in {"create", "delete"}
    /\ mine' = IF r.kind = "create" THEN mine \cup {NewCompany} ELSE mine
    /\ asked' = asked \ {r}
    /\ UNCHANGED <<memory, balance, auth, loadSeq, shown, skill, bf, clicks>>

SettingsNext ==
    \/ \E r \in asked :
          \/ CoaAnswered(r) \/ MemoryAnswered(r) \/ SummariesAnswered(r) \/ ExclusionsAnswered(r)
          \/ RulesAnswered(r) \/ ManualAnswered(r) \/ FirstFailed(r) \/ Changed(r) \/ BalanceSaved(r)
          \/ SkillStored(r) \/ SkillRefused(r) \/ SkillRestored(r)
          \/ CompanyCreated(r) \/ CompanyDeleted(r) \/ WorkspaceFailed(r)
    \/ ChangeExclusion \/ SaveExclusion \/ ChangeRule \/ SaveRule \/ DeleteAccount \/ AddAccount
    \/ ToggleSkill \/ EditAccount \/ TypeBalance \/ BlurBalance
    \/ \E m \in SkillMode : OpenSkill(m) \/ SwitchMode(m)
    \/ EditSkill \/ CloseSkill \/ SaveSkill \/ GenerateSkill \/ RestoreSkill
    \/ \E c \in Company : SwitchCompany(c) \/ DeleteCompany(c)
    \/ CreateCompany

SettingsSpec == SettingsInit /\ [][SettingsNext]_desk

(* --------------------------------- properties ------------------------------- *)
\* Whatever order loads, changes and company switches finish in, every list on the page
\* is the active company's (settingsLoadSeq, SettingsProvider.tsx).
ListsOfCompany == \A l \in List : shown[l] \in {NoCompany, active}

=============================================================================
