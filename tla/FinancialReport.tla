--------------------------- MODULE FinancialReport ---------------------------
(***************************************************************************)
(* The trial balance, profit or loss and balance sheet of the classic      *)
(* workspace: handleGenerateReport fetches the journals of the period,     *)
(* lets one voucher of a match group count (mergeGlJournalsForReport), and *)
(* builds the statements from those journals alone or, when there is none  *)
(* or the fetch fails, from the transactions of the loaded chats           *)
(* (useReportData).                                                        *)
(*                                                                         *)
(* A line debits or credits one account; accounts carry signed amounts,    *)
(* debits positive.  A transaction is posted by two lines of its amount; a *)
(* voucher has the lines its makers gave it, and a draft need not balance. *)
(* A generation keeps the transactions and options of its click and meets  *)
(* the journals as they are when the server answers.                       *)
(***************************************************************************)
EXTENDS Integers, FiniteSets, Functions

CONSTANTS
    Account, Suspense, NoCode,
    Category, Opening,             \* of an account: category, opening balance (debit positive)
    ArControl, ApControl, Banks, DefaultBank,   \* the offsetting accounts; the bank one is chosen
    Doc, DocKind, DocAmount,       \* transactions of the chats: "AR", "AP", "deposit", "withdrawal"
    Journal, GroupOf, Lines,       \* vouchers of the period and their lines
    NoReport, MaxReportActs        \* bound: commands of the users

Categories == {"Asset", "Liability", "Equity", "Income", "Expense"}
ReportAssumption ==
    /\ {ArControl, ApControl, DefaultBank} \cup Banks \subseteq Account /\ DefaultBank \in Banks
    /\ Category \in [Account -> Categories] /\ Opening \in [Account -> Int]
    /\ Suspense \notin Account /\ NoCode \notin Account
    /\ DocKind \in [Doc -> {"AR", "AP", "deposit", "withdrawal"}] /\ DocAmount \in [Doc -> Nat \ {0}]
    /\ \A j \in Journal : /\ IsFiniteSet(Lines[j])
                          /\ \A l \in Lines[j] : /\ l.of = j /\ l.acct \in Account \cup {NoCode}
                                                /\ l.dr \in Nat /\ l.cr \in Nat
    /\ DOMAIN GroupOf = Journal /\ Journal \cap Doc = {}
    /\ IsFiniteSet(Doc) /\ IsFiniteSet(Journal)
ASSUME ReportConstants == ReportAssumption

VARIABLES
    code, unmatched, loaded,       \* the transactions: code, unmatched ones, those of loaded chats
    glStatus, postedAt,            \* server: of a journal
    card, chosenBank,              \* the set-up card: "open", "sent", "done"; the bank account chosen
    gens, cards,                   \* generations under way, cards asking for a voucher
    latestReport,                  \* latestFinancialReportData
    reportActs

docs   == <<code, unmatched, loaded>>
books  == <<glStatus, postedAt>>
setup  == <<card, chosenBank>>
report == <<docs, books, setup, gens, cards, latestReport, reportActs>>

Groups  == {GroupOf[j] : j \in Journal}
NoPicks == [g \in Groups |-> {}]            \* glDraftPicks: at most one journal of a group
ReportAct == reportActs < MaxReportActs /\ reportActs' = reportActs + 1

ReportInit ==
    /\ code \in [Doc -> {NoCode} \cup Account] /\ unmatched = {} /\ loaded = {}
    /\ glStatus = [j \in Journal |-> "none"] /\ postedAt = [j \in Journal |-> 0]
    /\ card = "open" /\ chosenBank = DefaultBank
    /\ gens = {} /\ cards = {} /\ latestReport = NoReport /\ reportActs = 0

(* ------------------------ the statements (pure functions) -------------------- *)
\* A transaction without a code, or one reconciliation left unmatched, is posted to suspense.
Assigned(d, g) == IF g.code[d] = NoCode \/ d \in g.unmatched THEN Suspense ELSE g.code[d]
Line(o, a, dr, cr) == [of |-> o, acct |-> a, dr |-> dr, cr |-> cr]
Posting(d, debit, credit) == {Line(d, debit, DocAmount[d], 0), Line(d, credit, 0, DocAmount[d])}
OcrLines(d, g) ==
    CASE DocKind[d] = "AR"         -> Posting(d, ArControl, Assigned(d, g))
      [] DocKind[d] = "AP"         -> Posting(d, Assigned(d, g), ApControl)
      [] DocKind[d] = "deposit"    -> Posting(d, g.bank, Assigned(d, g))
      [] DocKind[d] = "withdrawal" -> Posting(d, Assigned(d, g), g.bank)
\* a line without a code, or without an amount, is passed over
GlLines(j) == {l \in Lines[j] : l.acct # NoCode /\ l.dr + l.cr > 0}

\* what the lines of E debit and credit, and what of it moves an account
Debits(E)      == SumFunction([e \in E |-> e.dr])
Credits(E)     == SumFunction([e \in E |-> e.cr])
LinesAt(a, E)  == {e \in E : e.acct = a}
MovDr(a, E)    == Debits(LinesAt(a, E))
MovCr(a, E)    == Credits(LinesAt(a, E))
\* Only an account that moved gets a row.
TrialRows(E)   == {e.acct : e \in E}
OpeningOf(a)   == IF a = Suspense THEN 0 ELSE Opening[a]
Close(a, E)    == OpeningOf(a) + MovDr(a, E) - MovCr(a, E)
TrialBalance(E) == [a \in TrialRows(E) |-> [dr |-> MovDr(a, E), cr |-> MovCr(a, E)]]
Classified(a)  == IF a = Suspense THEN "Asset" ELSE Category[a]
RowsOf(c, E)   == {a \in TrialRows(E) : Classified(a) = c}

\* what the accounts of a set earned, from movements alone, and what they hold
Earned(R, E)   == SumFunction([a \in R |-> MovCr(a, E) - MovDr(a, E)])
Carried(R, E)  == SumFunction([a \in R |-> Close(a, E)])
NetIncome(E)   == Earned(RowsOf("Income", E), E) + Earned(RowsOf("Expense", E), E)
AssetRowsNoSuspense(E) == RowsOf("Asset", E) \ {Suspense}   \* (bug)
AssetRows(E)   == RowsOf("Asset", E)            \* operating assets and suspense
TotalAsset(E)  == Carried(AssetRows(E), E)
TotalOf(c, E)  == 0 - Carried(RowsOf(c, E), E)

Statements(E, g, from) ==
    [from |-> from, bank |-> g.bank, of |-> {e.of : e \in E}, trial |-> TrialBalance(E),
     asset |-> TotalAsset(E), liability |-> TotalOf("Liability", E),
     equity |-> TotalOf("Equity", E), income |-> NetIncome(E)]
\* The items the suspense warning counts: those whose line in the suspense account does
\* not begin with a bracket, as the lines of bank movements do.
Counted(g)  == {d \in g.docs : Assigned(d, g) = Suspense /\ DocKind[d] \in {"AR", "AP"}}
Computed(g) == [statements |-> Statements(UNION {OcrLines(d, g) : d \in g.docs}, g, "ocr"),
                counted |-> Counted(g), superseded |-> {}]
GlOnly(J, S, g) == [statements |-> Statements(UNION {GlLines(j) : j \in J}, g, "gl"),
                    counted |-> {}, superseded |-> S]

(* -------------------- which voucher of a match group counts ------------------ *)
With(s, k)   == {j \in Journal : glStatus[j] = s /\ GroupOf[j] = k}
Latest(k)    == {j \in With("posted", k) : \A i \in With("posted", k) : postedAt[i] <= postedAt[j]}
Picked(k, g) == g.picks[k] \cap With("draft", k)
ActiveOf(k, g) ==
    IF With("posted", k) # {} THEN Latest(k)
    ELSE IF Cardinality(With("draft", k)) = 1 THEN With("draft", k)
    ELSE Picked(k, g)
Active(g)    == UNION {ActiveOf(k, g) : k \in Groups}
SupersededBy(g) == {j \in Journal : glStatus[j] # "none" /\ j \notin Active(g)}
Conflicts(g) == {k \in Groups : With("posted", k) = {} /\ Cardinality(With("draft", k)) > 1
                                   /\ Picked(k, g) = {}}

(* ------------------------------- the report task ----------------------------- *)
Collected == [code |-> code, unmatched |-> unmatched, docs |-> loaded]
Generation(b, p) == [code |-> Collected.code, unmatched |-> Collected.unmatched, docs |-> Collected.docs,
                     bank |-> b, picks |-> p]

ChooseBank ==
    /\ card = "open" /\ ReportAct /\ chosenBank' \in Banks \ {chosenBank}
    /\ UNCHANGED <<docs, books, card, gens, cards, latestReport>>
Submit == /\ card = "open" /\ ReportAct
          /\ card' = "sent" /\ gens' = gens \cup {Generation(chosenBank, NoPicks)}
          /\ UNCHANGED <<docs, books, chosenBank, cards, latestReport>>
\* "generate" or "regenerate" typed in the composer: the defaults of the card are used.
GenerateCommand ==
    /\ ReportAct /\ gens' = gens \cup {Generation(DefaultBank, NoPicks)}
    /\ UNCHANGED <<docs, books, setup, cards, latestReport>>
Pick == /\ ReportAct
        /\ \E c \in cards : \E k \in c.conflicts : \E j \in c.options :
              /\ GroupOf[j] = k
              /\ gens' = gens \cup {Generation(c.bank, [c.picks EXCEPT ![k] = {j}])}
        /\ UNCHANGED <<docs, books, setup, cards, latestReport>>
\* The task is left and opened again: the card starts afresh unless a report came.
Reopen == /\ card # "done" /\ ReportAct
          /\ card' = "open" /\ chosenBank' = DefaultBank
          /\ UNCHANGED <<docs, books, gens, cards, latestReport>>

ShowReport(g, r) == gens' = gens \ {g} /\ latestReport' = r /\ card' = "done" /\ UNCHANGED cards
ReportAnswer ==
    /\ \E g \in gens :
          \/ /\ Conflicts(g) # {}
             /\ gens' = gens \ {g}
             /\ cards' = cards \cup
                  {[bank |-> g.bank, picks |-> g.picks, conflicts |-> Conflicts(g),
                    options |-> UNION {With("draft", k) : k \in Conflicts(g)}]}
             /\ UNCHANGED <<latestReport, card>>
          \/ Conflicts(g) = {} /\ Active(g) # {} /\ ShowReport(g, GlOnly(Active(g), SupersededBy(g), g))
          \/ Conflicts(g) = {} /\ Active(g) = {} /\ ShowReport(g, Computed(g))
    /\ UNCHANGED <<docs, books, chosenBank, reportActs>>
FetchFails == /\ \E g \in gens : ShowReport(g, Computed(g))
              /\ UNCHANGED <<docs, books, chosenBank, reportActs>>

(* ------------------- what moves beside it: chats and server ------------------ *)
Recode == /\ ReportAct
          /\ \E d \in loaded, a \in Account : a # code[d] /\ code' = [code EXCEPT ![d] = a]
          /\ UNCHANGED <<unmatched, loaded, books, setup, gens, cards, latestReport>>
LoadChat  == /\ \E d \in Doc \ loaded : loaded' = loaded \cup {d}
             /\ UNCHANGED <<code, unmatched, books, setup, gens, cards, latestReport, reportActs>>
Reconcile == /\ ReportAct /\ unmatched' \in (SUBSET loaded) \ {unmatched}
             /\ UNCHANGED <<code, loaded, books, setup, gens, cards, latestReport>>
DraftJournal == /\ ReportAct
                /\ \E j \in Journal : glStatus[j] = "none" /\ glStatus' = [glStatus EXCEPT ![j] = "draft"]
                /\ UNCHANGED <<docs, postedAt, setup, gens, cards, latestReport>>
\* only a voucher whose lines balance and name accounts of the chart is posted
Postable(j) == Debits(Lines[j]) = Credits(Lines[j]) /\ \A l \in Lines[j] : l.acct \in Account
PostJournal ==
    /\ ReportAct
    /\ \E j \in Journal :
          /\ glStatus[j] = "draft" /\ Postable(j)
          /\ glStatus' = [glStatus EXCEPT ![j] = "posted"]
          /\ postedAt' = [postedAt EXCEPT ![j] = reportActs']
    /\ UNCHANGED <<docs, setup, gens, cards, latestReport>>

ReportNext == \/ ChooseBank \/ Submit \/ GenerateCommand \/ Pick \/ Reopen \/ ReportAnswer \/ FetchFails
              \/ Recode \/ LoadChat \/ Reconcile \/ DraftJournal \/ PostJournal
ReportSpec == ReportInit /\ [][ReportNext]_report

(* --------------------------------- properties -------------------------------- *)
Reported   == latestReport # NoReport
Sheet      == latestReport.statements
\* what the three statements show of their totals
Difference == Sheet.asset - (Sheet.liability + Sheet.equity + Sheet.income)
OnSheet    == {a \in DOMAIN Sheet.trial \ {Suspense} : Category[a] \notin {"Income", "Expense"}}
TrialDebits  == SumFunction([a \in DOMAIN Sheet.trial |-> Sheet.trial[a].dr])
TrialCredits == SumFunction([a \in DOMAIN Sheet.trial |-> Sheet.trial[a].cr])
\* the lines a report reads of a voucher balance
Whole(j) == Debits(GlLines(j)) = Credits(GlLines(j))

\* Whatever codes are missing, whatever was left unmatched and whichever vouchers
\* count, the balance sheet misses the tie by the opening balances of the accounts it shows
\* and by what the trial balance misses: all movement, suspense included, reaches one side of
\* it (materializeFinancialReport).  The trial balance ties unless a draft counts whose lines
\* do not balance (update_draft stores them unchecked).
TiesUpToOpenings ==
    Reported => /\ Difference = SumFunction([a \in OnSheet |-> OpeningOf(a)]) + (TrialDebits - TrialCredits)
                /\ (\A j \in Sheet.of \cap Journal : Whole(j)) => TrialDebits = TrialCredits

=============================================================================
