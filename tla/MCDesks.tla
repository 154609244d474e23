------------------------------- MODULE MCDesks --------------------------------
(***************************************************************************)
(* The components of the other pages, each with variables of its own.  A   *)
(* behaviour is about the one `part` names.  Their modules are extended,   *)
(* but for TaskCodes, an instance with the variables v1 and the following  *)
(* in the order of its module.  What a part does not use stays as it was   *)
(* first.                                                                  *)
(***************************************************************************)
EXTENDS RunControl, BooksView, SettingsDesk, AccountDesk, KnowledgeDesk, TaskJobs, TaskList,
        TaskComposer, ReconDesk, ReconVouchers, BooksSync, FinancialReport,
        CompanyWizard, TLC

CONSTANT Parts   \* the components a run is about

\* the batches and rows of Books
BatchModule == [x |-> "AP", y |-> "AP", z |-> "BANK"]
RowBatch    == [a |-> "x", b |-> "x", c |-> "y", d |-> "z"]
RowPos      == [a |-> 1, b |-> 2, c |-> 1, d |-> 1]
RowStatus   == [a |-> "done", b |-> "review", c |-> "done", d |-> "open"]
StatusList  == [AP |-> {"done", "review"}, BANK |-> {"open"}]

\* the tasks of the composer, the last of them not made yet
ChatModes == [a |-> "AP", b |-> "AP", d |-> "AR"]

\* the rows of the reconciliation desk: two pairs of equal amounts, a bank row left over
RowAmount   == [b1 |-> 1, b2 |-> 1, b3 |-> 2, l1 |-> 1, l2 |-> 2]
RowCurrency == [b1 |-> "H", b2 |-> "", b3 |-> "H", l1 |-> "H", l2 |-> "H"]

\* the account every chart has, and its code among those of the banks
BuiltinAccounts == {[code |-> 10, name |-> "Receivable"]}

\* the chart of accounts of the reports, and three vouchers of a group, the
\* last of them a draft that cannot be posted: it does not balance and a line has no code
AccountClass   == [ar |-> "Asset", ap |-> "Liability", bank |-> "Asset", cash |-> "Asset",
                   sales |-> "Income", capital |-> "Equity"]
AccountOpening == [ar |-> 0, ap |-> 0, bank |-> 2, cash |-> 0, sales |-> 0, capital |-> 0 - 2]
KindOfDoc      == [d |-> "withdrawal"]
AmountOfDoc    == [d |-> 2]
VoucherGroup   == [i |-> "g", j |-> "g", k |-> "g"]
VoucherLines   ==
  LET L(o, a, dr, cr) == [of |-> o, no |-> a, acct |-> a, dr |-> dr, cr |-> cr]
  IN  [i |-> {L("i", "bank", 1, 0), L("i", "ar", 0, 1)},
       j |-> {L("j", "sales", 3, 0), L("j", "ap", 0, 3)},
       k |-> {L("k", "bank", 2, 0), L("k", "sales", 0, 1), L("k", NoCode, 0, 2)}]

VARIABLES part,   \* the component this behaviour is about
          v1, v2, v3, v4, v5, v6, v7, v8, v9, v10, v11, v12, v13,
          v14   \* the variables of an instance, in the order of its module

pvars == <<v1, v2, v3, v4, v5, v6, v7, v8, v9, v10, v11, v12, v13, v14>>

Codes == INSTANCE TaskCodes WITH
  Row <- {"r1", "r2"}, Code <- {"c1"}, NoCode <- "",
  IdNumber <- [r1 |-> "r1", r2 |-> "r2"], FailedRow <- "r2", MaxActs <- 3,
  table <- v1, posted <- v2, snap <- v3, due <- v4, reqs <- v5, drift <- v6, books <- v7,
  codeDue <- v8, codeReqs <- v9, sent <- v10, deploy <- v11, chat <- v12, retries <- v13,
  acts <- v14

ASSUME InstanceAssumption == Codes!CodesAssumption

InitPart ==
  \/ part # "codes"
       /\ v1 = 0 /\ v2 = 0 /\ v3 = 0 /\ v4 = 0 /\ v5 = 0 /\ v6 = 0 /\ v7 = 0 /\ v8 = 0
       /\ v9 = 0 /\ v10 = 0 /\ v11 = 0 /\ v12 = 0 /\ v13 = 0 /\ v14 = 0
  \/ part = "codes" /\ Codes!CodesInit

\* a desk the behaviour is not about has groups without vouchers
IdleVouchers == VouchersInit /\ \A g \in Group : srv[g].base = "none"

Init ==
  /\ part \in Parts /\ InitPart
  /\ ControlInit /\ BooksViewInit /\ SettingsInit /\ AccountInit /\ KnowledgeInit
  /\ JobsInit /\ TaskInit /\ ComposerInit /\ DeskInit
  /\ SyncInit /\ current = "A"   \* the companies are interchangeable
  /\ ReportInit /\ (part # "report" => code = [d \in Doc |-> NoCode])
  /\ WizardInit /\ (part # "wizard" => wizardCo = "A")
  /\ VouchersInit /\ (part # "vouchers" => IdleVouchers)

ControlStep ==
  part = "control" /\ ControlNext
    /\ UNCHANGED <<part, viewVars, desk, accountVars, know, jobs, taskVars, composer,
                   reconDesk, vouchers, svars, report, wizard, pvars>>
BooksStep ==
  part = "books" /\ BooksViewNext
    /\ UNCHANGED <<part, cvars, desk, accountVars, know, jobs, taskVars, composer,
                   reconDesk, vouchers, svars, report, wizard, pvars>>
SettingsStep ==
  part = "settings" /\ SettingsNext
    /\ UNCHANGED <<part, cvars, viewVars, accountVars, know, jobs, taskVars, composer,
                   reconDesk, vouchers, svars, report, wizard, pvars>>
AccountStep ==
  part = "account" /\ AccountNext
    /\ UNCHANGED <<part, cvars, viewVars, desk, know, jobs, taskVars, composer,
                   reconDesk, vouchers, svars, report, wizard, pvars>>
KnowledgeStep ==
  part = "knowledge" /\ KnowledgeNext
    /\ UNCHANGED <<part, cvars, viewVars, desk, accountVars, jobs, taskVars, composer,
                   reconDesk, vouchers, svars, report, wizard, pvars>>
JobsStep ==
  part = "jobs" /\ JobsNext
    /\ UNCHANGED <<part, cvars, viewVars, desk, accountVars, know, taskVars, composer,
                   reconDesk, vouchers, svars, report, wizard, pvars>>
TasksStep ==
  part = "tasks" /\ TaskNext
    /\ UNCHANGED <<part, cvars, viewVars, desk, accountVars, know, jobs, composer,
                   reconDesk, vouchers, svars, report, wizard, pvars>>
ComposerStep ==
  part = "composer" /\ ComposerNext
    /\ UNCHANGED <<part, cvars, viewVars, desk, accountVars, know, jobs, taskVars,
                   reconDesk, vouchers, svars, report, wizard, pvars>>
ReconStep ==
  part = "recon" /\ DeskNext
    /\ UNCHANGED <<part, cvars, viewVars, desk, accountVars, know, jobs, taskVars,
                   composer, vouchers, svars, report, wizard, pvars>>
VouchersStep ==
  part = "vouchers" /\ VouchersNext
    /\ UNCHANGED <<part, cvars, viewVars, desk, accountVars, know, jobs, taskVars,
                   composer, reconDesk, svars, report, wizard, pvars>>
MirrorStep ==
  part = "sync" /\ SyncNext
    /\ UNCHANGED <<part, cvars, viewVars, desk, accountVars, know, jobs, taskVars,
                   composer, reconDesk, vouchers, report, wizard, pvars>>

ReportStep ==
  part = "report" /\ ReportNext
    /\ UNCHANGED <<part, cvars, viewVars, desk, accountVars, know, jobs, taskVars,
                   composer, reconDesk, vouchers, svars, wizard, pvars>>
WizardStep ==
  part = "wizard" /\ WizardNext
    /\ UNCHANGED <<part, cvars, viewVars, desk, accountVars, know, jobs, taskVars,
                   composer, reconDesk, vouchers, svars, report, pvars>>

\* the variables of the extended modules
extended == <<cvars, viewVars, desk, accountVars, know, jobs, taskVars, composer, reconDesk, vouchers,
              svars, report, wizard>>

CodesStep == part = "codes" /\ Codes!CodesNext /\ UNCHANGED <<part, extended>>
Next ==
  \/ ControlStep \/ BooksStep \/ SettingsStep \/ AccountStep \/ KnowledgeStep
  \/ JobsStep \/ TasksStep \/ ComposerStep \/ ReconStep \/ VouchersStep
  \/ MirrorStep \/ ReportStep \/ CodesStep \/ WizardStep

vars == <<part, extended, pvars>>

Spec == Init /\ [][Next]_vars

\* When no snapshot of a classic table is due or under way, the saved one is the table on
\* screen, however edits, Deploy Codes, chat answers and page retries overlapped, but for
\* the losses and overtakings TaskCodes names.
SnapshotFollows == part = "codes" => Codes!SnapshotFollows

===============================================================================
