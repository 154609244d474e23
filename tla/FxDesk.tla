------------------------------- MODULE FxDesk -------------------------------
(***************************************************************************)
(* Company amounts in the review of a run: the company currency of the     *)
(* table, the exchange rates of the company profile and the dialog that    *)
(* asks for one (ProcessingView.tsx, fxCurrency.ts, ExchangeRateDialog.tsx)*)
(* One run of one company is reviewed.                                     *)
(*                                                                         *)
(* An amount in company currency is known by what it was made from: the    *)
(* row, the version n of its receipt amount, the pair of currencies and    *)
(* the rate (by): the same currency, printed on the document, or the rate  *)
(* of a command.  What a poll does to edits is ReviewSession's.            *)
(***************************************************************************)
EXTENDS Naturals

CONSTANTS Row, Cur, NoCur,            \* rows and currency codes; NoCur is the empty code
          Invented,                   \* the code an edit gives rows that have none
          Receipt,                    \* Receipt[r]: the currency read from the document
          PrintedIn,                  \* PrintedIn[r]: currency of a printed second amount, or NoCur
          Offered,                    \* what users choose in the toolbar of the table
          MaxActs                     \* bound: commands of the users

ASSUME FxAssumption ==
    /\ NoCur \notin Cur /\ Invented \in Cur /\ Offered \subseteq Cur \cup {NoCur} /\ MaxActs \in Nat
    /\ Receipt \in [Row -> Cur \cup {NoCur}] /\ PrintedIn \in [Row -> Cur \cup {NoCur}]

VARIABLES
    profile,                          \* server: reporting_currency and fx_rates of the company
    stored, approved,                 \* server: the rows of the run; whether it was approved
    reporting, tableCur, rates,       \* reportingCurrency, tableCompanyCurrency, fxRates
    edited,                           \* editedRows, and whether there are any
    dialog, queue,                    \* rateDialog, rateQueue
    reqs, acts

server == <<profile, stored, approved>>
client == <<reporting, tableCur, rates, edited, dialog, queue>>
fx     == <<server, client, reqs, acts>>

Same     == 0
Printed  == 1
NoRate   == [p \in Cur \X Cur |-> 0]
NoDialog == [from |-> NoCur, to |-> NoCur, printed |-> {}]
Amount(r, n, from, to, by) == {[row |-> r, n |-> n, from |-> from, to |-> to, by |-> by]}
PrintedOf(r) == IF PrintedIn[r] = NoCur THEN {} ELSE Amount(r, 0, Receipt[r], PrintedIn[r], Printed)
UserAct  == acts < MaxActs /\ acts' = acts + 1

FxInit ==
    /\ \E c \in Cur \cup {NoCur} : profile = [cur |-> c, rate |-> NoRate]
    /\ stored = [r \in Row |-> [cur |-> Receipt[r], n |-> 0, cc |-> PrintedIn[r], ca |-> PrintedOf(r), rated |-> FALSE]]
    /\ approved = FALSE
    /\ reporting = NoCur /\ tableCur = NoCur /\ rates = NoRate
    /\ edited = [on |-> FALSE, rows |-> stored] /\ dialog = NoDialog /\ queue = {}
    /\ acts = 1 /\ reqs = {[kind |-> "load", act |-> 0, cur |-> NoCur, rate |-> NoRate, keep |-> {}, from |-> NoCur,
                             rest |-> {}, rows |-> stored]}

Req(k, c, rt, keep, from, rest, rows) ==
    [kind |-> k, act |-> acts', cur |-> c, rate |-> rt, keep |-> keep, from |-> from, rest |-> rest, rows |-> rows]
Effective == IF reporting # NoCur THEN reporting ELSE tableCur
Shown     == IF edited.on THEN edited.rows ELSE stored

(* ------------------------------- row arithmetic ------------------------------- *)
\* applySavedRateToRow(row, company, rate, keepPrinted); rate 0 is none
Priced(row, r, to, rate, printed) ==
    IF row.cur = to THEN [row EXCEPT !.cc = to, !.ca = Amount(r, row.n, to, to, Same), !.rated = TRUE]
    ELSE IF printed # {} THEN [row EXCEPT !.cc = to, !.ca = printed, !.rated = TRUE]
    ELSE IF rate = 0 THEN [row EXCEPT !.cc = to]
    ELSE [row EXCEPT !.cc = to, !.ca = Amount(r, row.n, row.cur, to, rate), !.rated = TRUE]
RateOf(rt, from, to) == IF from = NoCur THEN 0 ELSE rt[<<from, to>>]
\* hydrateRowsForCompany
HydratedRows(rows, to, rt) ==
    [r \in Row |->
        IF rows[r].cur # to /\ PrintedOf(r) = {} /\ rows[r].ca # {} /\ rows[r].cc = to THEN rows[r]
        ELSE Priced(rows[r], r, to, RateOf(rt, rows[r].cur, to), PrintedOf(r))]
\* The effect on the currency, the rates and the stored rows replaces every edit.
EffectDeaf(ed, to, rt) == ed              \* (bug) the rates are not among its dependencies
Effect(ed, to, rt) ==
    IF to = NoCur \/ HydratedRows(stored, to, rt) = stored THEN ed
    ELSE [on |-> TRUE, rows |-> HydratedRows(stored, to, rt)]
\* rowReadyForBooks
Ready(row, company) ==
    LET c == IF row.cc # NoCur THEN row.cc ELSE company
    IN  (row.cur # NoCur /\ row.cur = c) \/ (c # NoCur /\ row.ca # {})
\* foreignReceiptCurrencies
Foreign(to) == IF to = NoCur THEN {} ELSE {Shown[r].cur : r \in Row} \ {NoCur, to}
\* rateDialogForPair: whichever currency the rows have first is next, and the printed
\* amount of a row of it is offered for all.
OpenQueued(q, to, rows) ==
    /\ queue' = q
    /\ \/ q \subseteq {to} /\ dialog' = NoDialog
       \/ \E from \in q \ {to} : \E sample \in {r \in Row : rows[r].cur = from} :
             dialog' = [from |-> from, to |-> to, printed |-> PrintedOf(sample)]

(* ----------------------------------- profile ---------------------------------- *)
\* The load of the profile when a run is opened
ProfileLoaded ==
    /\ \E q \in reqs : q.kind = "load" /\ reqs' = reqs \ {q}
    /\ reporting' = profile.cur /\ rates' = profile.rate
    /\ tableCur' = IF profile.cur # NoCur THEN profile.cur ELSE tableCur
    /\ edited' = Effect(edited, IF profile.cur # NoCur THEN profile.cur ELSE tableCur, profile.rate)
    /\ UNCHANGED <<server, dialog, queue, acts>>
ProfileLost == /\ \E q \in reqs : q.kind = "load" /\ reqs' = reqs \ {q}
             /\ UNCHANGED <<server, client, acts>>
\* The run is left and opened again: its rows as stored, its dialog gone.
OpenRun == /\ UserAct /\ reqs' = {q \in reqs : q.kind # "load"} \cup {Req("load", NoCur, NoRate, {}, NoCur, {}, stored)}
           /\ edited' = Effect([on |-> FALSE, rows |-> stored], Effective, rates)
           /\ dialog' = NoDialog /\ queue' = {}
           /\ UNCHANGED <<server, reporting, tableCur, rates>>
\* merge_fx_settings: pairs sent replace, others stay.
Merged(new) == [p \in Cur \X Cur |-> IF new[p] # 0 THEN new[p] ELSE profile.rate[p]]
\* The settings panel, or another session
OtherSettings == /\ UserAct
                 /\ \E c \in Cur, p \in Cur \X Cur :
                      profile' = [cur |-> c, rate |-> [profile.rate EXCEPT ![p] = IF p[1] = p[2] THEN @ ELSE acts']]
                 /\ UNCHANGED <<stored, approved, client, reqs>>

(* ------------------------------- company currency ----------------------------- *)
SelectCurrency ==
    /\ dialog = NoDialog /\ UserAct
    /\ \E c \in Offered : reqs' = reqs \cup
         {Req("persist", c, profile.rate, {}, NoCur, Foreign(c), Shown)}
    /\ UNCHANGED <<server, client>>
\* persistReportingCurrency: what was read is written back with the new code.
PersistWritten ==
    /\ \E q \in reqs : /\ q.kind = "persist"
                       /\ profile' = [cur |-> q.cur, rate |-> Merged(q.rate)]
                       /\ reqs' = (reqs \ {q}) \cup {[q EXCEPT !.kind = "chosen"]}
    /\ UNCHANGED <<stored, approved, client, acts>>
\* done or failed: the choice stays, the first dialog opens
Chosen ==
    /\ \E q \in reqs :
         /\ q.kind \in {"persist", "chosen"} /\ reqs' = reqs \ {q}
         /\ reporting' = q.cur /\ tableCur' = q.cur
         /\ edited' = IF q.cur = Effective THEN edited ELSE Effect(edited, q.cur, rates)
         /\ OpenQueued(q.rest, q.cur, q.rows)
    /\ UNCHANGED <<server, rates, acts>>

(* --------------------------------- rate dialog -------------------------------- *)
Reviewing == ~approved
ClickAmount ==
    /\ Reviewing /\ dialog = NoDialog /\ Effective # NoCur /\ UserAct
    /\ \E r \in Row : /\ Shown[r].cur \notin {NoCur, Effective}
                      /\ dialog' = [from |-> Shown[r].cur, to |-> Effective, printed |-> PrintedOf(r)]
    /\ queue' = {}
    /\ UNCHANGED <<server, reporting, tableCur, rates, edited, reqs>>
CloseDialog == /\ dialog # NoDialog /\ UserAct /\ dialog' = NoDialog /\ queue' = {}
               /\ UNCHANGED <<server, reporting, tableCur, rates, edited, reqs>>
\* "Apply" with a typed rate, or "Keep printed": the dialog stays until it is saved.  The
\* handler keeps the dialog, the queue and the rows it was rendered with.
Apply ==
    /\ dialog # NoDialog /\ Effective # NoCur /\ UserAct
    /\ \E keep \in {{}, dialog.printed} :
         reqs' = reqs \cup {Req("apply", Effective, [rates EXCEPT ![<<dialog.from, dialog.to>>] = acts'], keep,
                                dialog.from, queue, Shown)}
    /\ UNCHANGED <<server, client>>
RateWritten ==
    /\ \E q \in reqs : /\ q.kind = "apply"
                       /\ profile' = [cur |-> q.cur, rate |-> Merged(q.rate)]
                       /\ reqs' = (reqs \ {q}) \cup {[q EXCEPT !.kind = "applied"]}
    /\ UNCHANGED <<stored, approved, client, acts>>
\* applyPairRate, after the profile was saved or not: every row of the currency is priced,
\* with the printed amount of the sample when that is kept; then the effect runs.
Repriced(q) ==
    [r \in Row |-> IF q.rows[r].cur # q.from THEN q.rows[r] ELSE Priced(q.rows[r], r, q.cur, q.act, q.keep)]
Applied ==
    /\ \E q \in reqs : /\ q.kind \in {"apply", "applied"} /\ reqs' = reqs \ {q}
                       /\ rates' = q.rate
                       /\ edited' = Effect([on |-> TRUE, rows |-> Repriced(q)], Effective, q.rate)
                       /\ OpenQueued(q.rest \ {q.from}, q.cur, Repriced(q))
    /\ UNCHANGED <<server, reporting, tableCur, acts>>

(* ------------------------------- edit and approve ----------------------------- *)
\* normalizeARAPRow: a row without a currency is given one.
Normalised(row) == [row EXCEPT !.cur = IF @ = NoCur THEN Invented ELSE @]
\* updateField on an amount: every row goes through the table's normalisation, the
\* company amount stays as it was.
EditAmount ==
    /\ Reviewing /\ dialog = NoDialog /\ UserAct
    /\ \E x \in Row : edited' = [on |-> TRUE,
         rows |-> [r \in Row |-> [Normalised(Shown[r]) EXCEPT !.n = IF r = x THEN acts' ELSE @]]]
    /\ UNCHANGED <<server, reporting, tableCur, rates, dialog, queue, reqs>>
\* the client's fxReady, and the same test of the server without the client's currency
ApproveRows ==
    /\ Reviewing /\ dialog = NoDialog
    /\ \A r \in Row : Ready(Shown[r], Effective) /\ Ready(Shown[r], NoCur)
    /\ UserAct /\ stored' = Shown /\ approved' = TRUE
    /\ edited' = IF Effective = NoCur \/ HydratedRows(Shown, Effective, rates) = Shown THEN [on |-> FALSE, rows |-> Shown]
                 ELSE [on |-> TRUE, rows |-> HydratedRows(Shown, Effective, rates)]
    /\ UNCHANGED <<profile, reporting, tableCur, rates, dialog, queue, reqs>>

FxNext ==
    \/ ProfileLoaded \/ ProfileLost \/ OpenRun \/ OtherSettings
    \/ SelectCurrency \/ PersistWritten \/ Chosen \/ ClickAmount \/ CloseDialog
    \/ Apply \/ RateWritten \/ Applied \/ EditAmount \/ ApproveRows
FxSpec == FxInit /\ [][FxNext]_fx

(* --------------------------------- properties --------------------------------- *)
\* "Keep printed" prices every row of the currency with the amount printed on one of
\* them, and rates are applied over switches of currency and late answers; still every
\* company amount that is approved was made from its own row, and every rate used was
\* typed for the currency of that row (applyPairRate and the effect after it).
OwnAmount ==
    approved => \A r \in Row : \A a \in stored[r].ca :
                    a.row = r /\ (a.by > Printed => a.from = stored[r].cur)

=============================================================================
