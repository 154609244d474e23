---------------------------- MODULE CompanyWizard ---------------------------
(***************************************************************************)
(* The set-up wizard of a company: useCompanyOnboardingWizard asks the     *)
(* server whether the company has any knowledge and opens the wizard when  *)
(* it has none, OnboardingWizard.tsx collects the answers over its steps   *)
(* and posts them, and the server writes the manual, marks the wizard      *)
(* finished and adds accounts to the chart.  The client gives up after     *)
(* three minutes; the server then still finishes what it began.            *)
(*                                                                         *)
(* Of the answers the model keeps the company's name (given or not), the   *)
(* payment method and the nicknames of the bank accounts; "" is a blank.   *)
(* The steps that only take free text are left out: basics, bank, finalize *)
(* remain.  An account of the chart is [code, name, by], `by` (a history   *)
(* field) being the post that added it, 0 for the built-in ones.           *)
(***************************************************************************)
EXTENDS Naturals, Sequences, SequencesExt, TLC

CONSTANTS Business, Empty,             \* companies; those without any knowledge at first
          Nickname, MaxAccounts,       \* MaxAccounts: bound on the accounts of a form
          BankFirst, BankLast,         \* the codes of bank accounts: 1100 to 1199
          CashCodes, DirectorCodes,    \* 1000..1099, 2600..2699
          Builtin,                     \* [code, name] of the accounts seeded on first use
          MaxWizardActs                \* bound: commands of the user

BankCodes == BankFirst..BankLast
CodeName(k) == ToString(k)             \* the name of a bank account without a nickname
Director  == "Director"                \* the names of the two fixed accounts
Cash      == "Cash on Hand"
WizardAssumption ==
    /\ Empty \subseteq Business /\ "" \in Nickname /\ {MaxAccounts, MaxWizardActs} \subseteq Nat \ {0}
    /\ {BankFirst, BankLast} \cup CashCodes \cup DirectorCodes \subseteq Nat
    /\ BankCodes \cap CashCodes = {} /\ BankCodes \cap DirectorCodes = {} /\ CashCodes \cap DirectorCodes = {}
    /\ \A a, b \in Builtin : a.code = b.code \/ a.name = b.name => a = b
    \* no account is given the name of a built-in one
    /\ \A b \in Builtin : /\ b.name \notin Nickname \cup {Cash, Director}
                          /\ \A k \in BankCodes : b.name # CodeName(k)
ASSUME WizardConstants == WizardAssumption

VARIABLES
    informed, completed, chart,        \* server: knowledge, finished wizards, accounts of a company
    wizardCo, wizardOpen, form, submitting,    \* the company, the wizard on screen
    existAsks, posts, wizardActs       \* requests: does it exist, generate

onServer == <<informed, completed, chart>>
wizard   == <<onServer, wizardCo, wizardOpen, form, submitting, existAsks, posts, wizardActs>>

Step      == [basics |-> 0, bank |-> 1, finalize |-> 2]
EmptyForm == [step |-> Step.basics, inst |-> 0, named |-> FALSE, pay |-> "bank", names |-> <<"">>]
WizardAct == wizardActs < MaxWizardActs /\ wizardActs' = wizardActs + 1

WizardInit ==
    /\ informed = Business \ Empty /\ completed = {} /\ chart = [c \in Business |-> {}]
    /\ wizardCo \in Business /\ wizardOpen = FALSE /\ form = EmptyForm /\ submitting = FALSE
    /\ existAsks = {wizardCo} /\ posts = {} /\ wizardActs = 0

(* ------------------------------ opening and closing --------------------------- *)
\* a fresh instance of the component
WizardOpened == wizardOpen' = TRUE /\ form' = [EmptyForm EXCEPT !.inst = wizardActs'] /\ submitting' = FALSE
\* The answer is not tied to the company on screen.
ExistsAnswered ==
    /\ wizardActs' = wizardActs
    /\ \E c \in existAsks :
          /\ existAsks' = existAsks \ {c}
          /\ IF c \in informed \/ wizardOpen THEN UNCHANGED <<wizardOpen, form, submitting>> ELSE WizardOpened
    /\ UNCHANGED <<onServer, wizardCo, posts>>
ExistsFailed == /\ \E c \in existAsks : existAsks' = existAsks \ {c}
                /\ UNCHANGED <<onServer, wizardCo, wizardOpen, form, submitting, posts, wizardActs>>
OpenByHand == /\ ~wizardOpen /\ wizardCo \notin completed /\ WizardAct /\ WizardOpened
              /\ UNCHANGED <<onServer, wizardCo, existAsks, posts>>
Skip == /\ wizardOpen /\ WizardAct /\ wizardOpen' = FALSE
        /\ UNCHANGED <<onServer, wizardCo, form, submitting, existAsks, posts>>
SwitchBusiness ==
    /\ WizardAct /\ wizardCo' \in Business \ {wizardCo}
    /\ wizardOpen' = FALSE /\ existAsks' = existAsks \cup {wizardCo'}
    /\ UNCHANGED <<onServer, form, submitting, posts>>

(* --------------------------------- the steps ---------------------------------- *)
Fill(f) == /\ wizardOpen /\ WizardAct /\ form' = f
           /\ UNCHANGED <<onServer, wizardCo, wizardOpen, submitting, existAsks, posts>>
NameCompany == form.step = Step.basics /\ ~form.named /\ Fill([form EXCEPT !.named = TRUE])
CanProceed  == form.step = Step.basics => form.named
Forward == form.step < Step.finalize /\ CanProceed /\ Fill([form EXCEPT !.step = @ + 1])
Back  == form.step > Step.basics /\ ~submitting /\ Fill([form EXCEPT !.step = @ - 1])
BankStep     == form.step = Step.bank
HasAccounts  == form.pay \in {"bank", "both"}
PickPayment  == BankStep /\ \E p \in {"bank", "cash", "both"} \ {form.pay} : Fill([form EXCEPT !.pay = p])
NameBank     == /\ BankStep /\ HasAccounts
                /\ \E i \in DOMAIN form.names, n \in Nickname :
                      form.names[i] # n /\ Fill([form EXCEPT !.names[i] = n])
AddBank      == /\ BankStep /\ HasAccounts /\ Len(form.names) < MaxAccounts
                /\ Fill([form EXCEPT !.names = Append(@, "")])
RemoveBank   == /\ BankStep /\ HasAccounts /\ Len(form.names) > 1
                /\ \E i \in DOMAIN form.names : Fill([form EXCEPT !.names = RemoveAt(@, i)])

(* --------------------------------- generating --------------------------------- *)
PostAnswers ==
    /\ wizardOpen /\ form.step = Step.finalize /\ ~submitting /\ WizardAct
    /\ submitting' = TRUE
    /\ posts' = posts \cup {[co |-> wizardCo, form |-> form, waits |-> TRUE, act |-> wizardActs']}
    /\ UNCHANGED <<onServer, wizardCo, wizardOpen, form, existAsks>>
\* the end of a submission shows in the instance that sent it
Ended(g) == submitting' = (submitting /\ ~(g.waits /\ g.form.inst = form.inst))
TimesOut ==
    /\ \E g \in posts : /\ g.waits /\ Ended(g)
                        /\ posts' = (posts \ {g}) \cup {[g EXCEPT !.waits = FALSE]}
    /\ UNCHANGED <<onServer, wizardCo, wizardOpen, form, existAsks, wizardActs>>
Refused ==
    /\ \E g \in posts : posts' = posts \ {g} /\ Ended(g)
    /\ UNCHANGED <<onServer, wizardCo, wizardOpen, form, existAsks, wizardActs>>

(* _create_bank_coa_entries: an account of a name the chart has is left out, and *)
(* so is one for which its range has no code left.  The session does not flush:  *)
(* names and codes are looked up in the chart as it was before the post, to      *)
(* which the codes of the bank accounts just added are noted.                    *)
Has(acc, n)       == \E a \in acc : a.name = n
HasNever(acc, n)  == FALSE                        \* (bug)
NameTaken(acc, n) == Has(acc, n)
CodesOf(acc)      == {a.code : a \in acc}
Lowest(S)         == CHOOSE k \in S : \A m \in S : ~ (m < k)

\* b: the chart before, what is added, the next code to try, the post
NewBank(b, n) ==
    LET name == IF n = "" THEN CodeName(b.next) ELSE n
        free == (b.next..BankLast) \ CodesOf(b.old \cup b.new)
    IN  IF NameTaken(b.old, name) \/ free = {} THEN b
        ELSE [b EXCEPT !.new = @ \cup {[code |-> Lowest(free), name |-> name, by |-> b.by]},
                       !.next = Lowest(free) + 1]
BankAdded(acc, f, t) ==
    LET after[i \in 0..Len(f.names)] ==
            IF i = 0 THEN [old |-> acc, new |-> {}, next |-> BankFirst, by |-> t]
            ELSE NewBank(after[i - 1], f.names[i])
    IN  IF f.pay \in {"bank", "both"} THEN after[Len(f.names)].new ELSE {}
FixedAdded(acc, n, codes, t) ==
    LET free == codes \ CodesOf(acc)
    IN  IF NameTaken(acc, n) \/ free = {} THEN {} ELSE {[code |-> Lowest(free), name |-> n, by |-> t]}
CashAdded(acc, f, t) == IF f.pay \in {"cash", "both"} THEN FixedAdded(acc, Cash, CashCodes, t) ELSE {}
AccountsWith(acc, f, t) ==
    acc \cup BankAdded(acc, f, t) \cup CashAdded(acc, f, t) \cup FixedAdded(acc, Director, DirectorCodes, t)

ServerDone(g) ==
    /\ posts' = posts \ {g} /\ Ended(g)
    /\ informed' = informed \cup {g.co} /\ completed' = completed \cup {g.co}
    /\ chart' = [chart EXCEPT ![g.co] = AccountsWith(@, g.form, g.act)]
\* The answer closes whatever wizard is on screen; nothing hears it after the time-out.
Generated ==
    /\ \E g \in posts : ServerDone(g) /\ wizardOpen' = (wizardOpen /\ ~g.waits)
    /\ UNCHANGED <<wizardCo, form, existAsks, wizardActs>>
\* accounts may be there, the manual written, and the answer lost
AnswerLost ==
    /\ \E g \in posts : g.waits /\ ServerDone(g)
    /\ UNCHANGED <<wizardCo, wizardOpen, form, existAsks, wizardActs>>

\* The chart is read: the built-in accounts whose codes it lacks are added (_seed_defaults).
Unseeded(acc) == {[code |-> b.code, name |-> b.name, by |-> 0] : b \in {d \in Builtin : d.code \notin CodesOf(acc)}}
ReadChart ==
    /\ Unseeded(chart[wizardCo]) # {}
    /\ chart' = [chart EXCEPT ![wizardCo] = @ \cup Unseeded(@)]
    /\ UNCHANGED <<informed, completed, wizardCo, wizardOpen, form, submitting, existAsks, posts, wizardActs>>

WizardNext ==
    \/ ExistsAnswered \/ ExistsFailed \/ OpenByHand \/ Skip \/ SwitchBusiness
    \/ NameCompany \/ Forward \/ Back \/ PickPayment \/ NameBank \/ AddBank \/ RemoveBank
    \/ PostAnswers \/ TimesOut \/ Refused \/ Generated \/ AnswerLost \/ ReadChart
WizardSpec == WizardInit /\ [][WizardNext]_wizard

(* --------------------------------- properties --------------------------------- *)
\* However often the wizard is posted again after a time-out or a lost answer, whatever
\* the server still finishes behind it, and whenever the built-in accounts are seeded,
\* the chart has one account of a code, and two of a name only from one form that gave
\* the name twice (_create_bank_coa_entries: "idempotent re-sync").
AccountsOnce ==
    \A c \in Business : \A a, b \in chart[c] :
        a # b => a.code # b.code /\ (a.name = b.name => a.by = b.by)

=============================================================================
