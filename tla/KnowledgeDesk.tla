---------------------------- MODULE KnowledgeDesk ---------------------------
(***************************************************************************)
(* What a company has taught the program, edited in the settings: rules    *)
(* (notes, classification hints, block rules) in one dialog, the business  *)
(* context in another (KnowledgePanel.tsx), and the company knowledge in   *)
(* CompanyProfilePanel.tsx, whose save writes the context and then the     *)
(* manual under its optimistic version (handleSaveManual).                 *)
(*                                                                         *)
(* A text is the number of the keystroke that made it and the rule it was  *)
(* typed for.  The lists themselves, and what a switch of company does to  *)
(* them, are SettingsDesk's.                                               *)
(***************************************************************************)
EXTENDS Naturals, FiniteSets

CONSTANTS Rule, NoRule, StoredRules,       \* rules there may be; those stored at first
          MaxRuleActs                     \* bound: commands of the users
ASSUME KnowledgeAssumption == NoRule \notin Rule /\ StoredRules \subseteq Rule /\ MaxRuleActs \in Nat

VARIABLES
    rules, context, handbook,           \* server: text of a rule, of the context, manual with its version
    listedRules, seenContext, seenVersion, \* what the client shows of them
    ruleDlg, ruleSaving,                   \* the dialog on screen; crSaving / contextSaving
    editor, manualSaving,             \* the editor of company knowledge
    ruleReqs, ruleActs

taught == <<rules, context, handbook>>
seen   == <<listedRules, seenContext, seenVersion>>
know   == <<taught, seen, ruleDlg, ruleSaving, editor, manualSaving, ruleReqs, ruleActs>>

Untyped    == [n |-> 0, of |-> NoRule]
Text(n, r) == [n |-> n, of |-> r]
Erased(r)  == Text(0, r)       \* in the place of a deleted rule: its uuid is not used again
NoDialog   == [kind |-> "none", id |-> NoRule, draft |-> Untyped]
NoEditor   == [open |-> FALSE, draft |-> Untyped]
RuleAct    == ruleActs < MaxRuleActs /\ ruleActs' = ruleActs + 1
RuleReq(k) == [kind |-> k, id |-> NoRule, text |-> Untyped, ver |-> 0, act |-> ruleActs']
Present(f) == {r \in Rule : f[r].n > 0}
Unused     == {r \in Rule : rules[r] = Untyped}

KnowledgeInit ==
    /\ rules = [r \in Rule |-> IF r \in StoredRules THEN Text(1, r) ELSE Untyped]
    /\ context = Text(1, NoRule) /\ handbook = [text |-> Text(1, NoRule), ver |-> 1]
    /\ listedRules = rules /\ seenContext = context /\ seenVersion = 1
    /\ ruleDlg = NoDialog /\ ruleSaving = FALSE
    /\ editor = NoEditor /\ manualSaving = FALSE /\ ruleReqs = {} /\ ruleActs = 1

(* --------------------------------- the dialogs -------------------------------- *)
\* "+ Add": a new rule, whatever was edited before
KeptId    == ruleDlg.id                \* (bug) crEditingId stays
NewId     == NoRule
DialogClosed == ruleDlg.kind = "none"
OpenNew   == /\ DialogClosed /\ RuleAct /\ ruleDlg' = [kind |-> "rule", id |-> NewId, draft |-> Untyped]
             /\ UNCHANGED <<taught, seen, ruleSaving, editor, manualSaving, ruleReqs>>
OpenRule  == /\ DialogClosed /\ RuleAct
             /\ \E r \in Present(listedRules) : ruleDlg' = [kind |-> "rule", id |-> r, draft |-> listedRules[r]]
             /\ UNCHANGED <<taught, seen, ruleSaving, editor, manualSaving, ruleReqs>>
OpenContext == /\ DialogClosed /\ RuleAct
               /\ ruleDlg' = [kind |-> "context", id |-> ruleDlg.id, draft |-> seenContext]
               /\ UNCHANGED <<taught, seen, ruleSaving, editor, manualSaving, ruleReqs>>
\* Typing gives the draft a text of its own; what rule it is meant for is what the user opened.
Meant     == IF ruleDlg.draft = Untyped \/ ruleDlg.kind = "context" THEN NoRule ELSE ruleDlg.draft.of
Type      == /\ ~DialogClosed /\ RuleAct /\ ruleDlg' = [ruleDlg EXCEPT !.draft = Text(ruleActs', Meant)]
             /\ UNCHANGED <<taught, seen, ruleSaving, editor, manualSaving, ruleReqs>>
\* The cross closes at any time and leaves crEditingId; a click beside waits for the save.
CloseDialog == /\ ~DialogClosed /\ RuleAct /\ ruleDlg' = [ruleDlg EXCEPT !.kind = "none"]
               /\ UNCHANGED <<taught, seen, ruleSaving, editor, manualSaving, ruleReqs>>
SaveDialog ==
    /\ ~DialogClosed /\ ~ruleSaving /\ ruleDlg.draft # Untyped /\ RuleAct
    /\ ruleSaving' = TRUE
    /\ ruleReqs' = ruleReqs \cup {[RuleReq(ruleDlg.kind) EXCEPT
                                   !.id = IF ruleDlg.kind = "rule" THEN ruleDlg.id ELSE NoRule,
                                   !.text = ruleDlg.draft]}
    /\ UNCHANGED <<taught, seen, ruleDlg, editor, manualSaving>>
ToggleRule ==
    /\ RuleAct
    /\ \E r \in Present(listedRules) : ruleReqs' = ruleReqs \cup {[RuleReq("toggle") EXCEPT !.id = r]}
    /\ UNCHANGED <<taught, seen, ruleDlg, ruleSaving, editor, manualSaving>>
Delete ==
    /\ RuleAct
    /\ \E r \in Present(listedRules) : ruleReqs' = ruleReqs \cup {[RuleReq("delete") EXCEPT !.id = r]}
    /\ UNCHANGED <<taught, seen, ruleDlg, ruleSaving, editor, manualSaving>>

(* ------------------------------- their answers -------------------------------- *)
ThenLoad(r) == ruleReqs' = (ruleReqs \ {r}) \cup {[r EXCEPT !.kind = "load"]}
\* createClassificationRule, patchClassificationRule: a rule deleted meanwhile is not found
PutRule(r) == IF r.id = NoRule THEN \E n \in Unused : rules' = [rules EXCEPT ![n] = r.text]
              ELSE r.id \in Present(rules) /\ rules' = [rules EXCEPT ![r.id] = r.text]
\* The answer closes the dialog of its kind that is on screen by now.
RuleSaved ==
    /\ \E r \in ruleReqs : r.kind = "rule" /\ PutRule(r) /\ ThenLoad(r)
    /\ ruleDlg' = IF ruleDlg.kind = "rule" THEN NoDialog ELSE [ruleDlg EXCEPT !.id = NoRule]
    /\ UNCHANGED <<context, handbook, seen, ruleSaving, editor, manualSaving, ruleActs>>
ContextSaved ==
    /\ \E r \in ruleReqs : r.kind = "context" /\ context' = r.text /\ ThenLoad(r)
    /\ ruleDlg' = IF ruleDlg.kind = "context" THEN [ruleDlg EXCEPT !.kind = "none"] ELSE ruleDlg
    /\ UNCHANGED <<rules, handbook, seen, ruleSaving, editor, manualSaving, ruleActs>>
RuleToggled ==
    /\ \E r \in ruleReqs : r.kind = "toggle" /\ r.id \in Present(rules) /\ ThenLoad(r)
    /\ UNCHANGED <<taught, seen, ruleDlg, ruleSaving, editor, manualSaving, ruleActs>>
Deleted ==
    /\ \E r \in ruleReqs : /\ r.kind = "delete" /\ r.id \in Present(rules)
                           /\ rules' = [rules EXCEPT ![r.id] = Erased(r.id)] /\ ThenLoad(r)
    /\ UNCHANGED <<context, handbook, seen, ruleDlg, ruleSaving, editor, manualSaving, ruleActs>>
\* A list that arrives ends the save that asked for it; saving is one flag.
RulesLoaded ==
    /\ \E r \in ruleReqs : r.kind = "load" /\ ruleReqs' = ruleReqs \ {r}
    /\ listedRules' = rules /\ seenContext' = context /\ ruleSaving' = FALSE
    /\ UNCHANGED <<taught, seenVersion, ruleDlg, editor, manualSaving, ruleActs>>
\* refused, or done and the answer lost
Fails ==
    /\ \E r \in ruleReqs : /\ r.kind \in {"rule", "context", "toggle", "delete", "load"}
                           /\ ruleReqs' = ruleReqs \ {r}
                           /\ ruleSaving' = (ruleSaving /\ r.kind \in {"toggle", "delete"})
                           /\ \/ UNCHANGED rules
                              \/ r.kind = "rule" /\ PutRule(r)
    /\ UNCHANGED <<context, handbook, seen, ruleDlg, editor, manualSaving, ruleActs>>

(* ---------------------------- the company knowledge --------------------------- *)
\* seeded from the context, not from the manual whose version is checked
StartEdit == /\ ~editor.open /\ RuleAct /\ editor' = [open |-> TRUE, draft |-> seenContext]
             /\ UNCHANGED <<taught, seen, ruleDlg, ruleSaving, manualSaving, ruleReqs>>
TypeKnowledge == /\ editor.open /\ ~manualSaving /\ RuleAct
                 /\ editor' = [editor EXCEPT !.draft = Text(ruleActs', NoRule)]
                 /\ UNCHANGED <<taught, seen, ruleDlg, ruleSaving, manualSaving, ruleReqs>>
CancelEdit == /\ editor.open /\ ~manualSaving /\ RuleAct /\ editor' = NoEditor
              /\ UNCHANGED <<taught, seen, ruleDlg, ruleSaving, manualSaving, ruleReqs>>
SaveKnowledge ==
    /\ editor.open /\ ~manualSaving /\ RuleAct /\ manualSaving' = TRUE
    /\ ruleReqs' = ruleReqs \cup {[RuleReq("know") EXCEPT !.text = editor.draft, !.ver = seenVersion]}
    /\ UNCHANGED <<taught, seen, ruleDlg, ruleSaving, editor>>
\* first the context, unconditionally
ContextFirst ==
    /\ \E r \in ruleReqs : /\ r.kind = "know" /\ context' = r.text
                       /\ ruleReqs' = (ruleReqs \ {r}) \cup {[r EXCEPT !.kind = "manual"]}
    /\ UNCHANGED <<rules, handbook, seen, ruleDlg, ruleSaving, editor, manualSaving, ruleActs>>
\* then the manual, if its version is still the one seen
ManualSaved ==
    /\ \E r \in ruleReqs : /\ r.kind = "manual" /\ r.ver = handbook.ver
                       /\ handbook' = [text |-> r.text, ver |-> r.ver + 1] /\ ThenLoad(r)
    /\ seenVersion' = handbook'.ver /\ editor' = NoEditor /\ manualSaving' = FALSE
    /\ UNCHANGED <<rules, context, listedRules, seenContext, ruleDlg, ruleSaving, ruleActs>>
KnowledgeFails ==
    /\ \E r \in ruleReqs : /\ r.kind = "know" \/ (r.kind = "manual" /\ r.ver # handbook.ver)
                       /\ ruleReqs' = ruleReqs \ {r}
    /\ manualSaving' = FALSE
    /\ UNCHANGED <<taught, seen, ruleDlg, ruleSaving, editor, ruleActs>>

\* Another session saves the knowledge or the set-up wizard rewrites it.
OtherEdits ==
    /\ RuleAct
    /\ context' = Text(ruleActs', NoRule) /\ handbook' = [text |-> context', ver |-> handbook.ver + 1]
    /\ UNCHANGED <<rules, seen, ruleDlg, ruleSaving, editor, manualSaving, ruleReqs>>

KnowledgeNext ==
    \/ OpenNew \/ OpenRule \/ OpenContext \/ Type \/ CloseDialog \/ SaveDialog \/ ToggleRule \/ Delete
    \/ RuleSaved \/ ContextSaved \/ RuleToggled \/ Deleted \/ RulesLoaded \/ Fails
    \/ StartEdit \/ TypeKnowledge \/ CancelEdit \/ SaveKnowledge
    \/ ContextFirst \/ ManualSaved \/ KnowledgeFails \/ OtherEdits
KnowledgeSpec == KnowledgeInit /\ [][KnowledgeNext]_know

(* --------------------------------- properties --------------------------------- *)
\* However dialogs are closed over a save, reopened and saved again, no rule is
\* overwritten by a text typed for another or for a new one (crEditingId in
\* KnowledgePanel.tsx and saveCrModal).
OwnTextStep == \A r \in Present(rules) : rules'[r].n > 0 => rules'[r].of = rules[r].of
OwnText == [][OwnTextStep]_know

=============================================================================
