----------------------------- MODULE MCProcessing -----------------------------
(***************************************************************************)
(* The components of the review page, and the journal page.  A behaviour   *)
(* is about the one `part` names, a module extended here.  What a part     *)
(* does not use stays as it was first.                                     *)
(***************************************************************************)
EXTENDS ReviewSession, CropGate, FxDesk, ReviewTable, BatchTables, JournalDesk, TLC

\* two runs of company A, one of them perhaps of mode OTHER
AllOfA == [r \in Run |-> "A"]
AtMostOneOther == {S \in SUBSET Run : Cardinality(S) <= 1}
NoLookAlike == {}

\* two pages of the file that is sent are edited, the other file waits
EditsOfFirst == [f \in GateFile |-> IF f = "f" THEN 2 ELSE 0]

\* two rows in U, one of them with an amount in H printed on the document
ReceiptsInU == [r \in Row |-> "U"]
FirstPrinted == [r \in Row |-> IF r = "a" THEN "H" ELSE ""]

\* a bank table of three rows: r2 has a voucher and a crop of its own, r1 is the placeholder of
\* a page which failed, r4 the row its retry finds
TableRows == <<"r1", "r2", "r3">>
RetriedRows == <<"r4", "r2", "r3">>
IdNumbers == [r1 |-> "", r2 |-> "k2", r3 |-> "k1", r4 |-> ""]

\* two batches of a file each, of two rows and of one
OwnName == [f \in File |-> f]
OneEach == [f \in File |-> IF f = "f1" THEN 1 ELSE 2]
TwoAndOne == [f \in File |-> IF f = "f1" THEN 2 ELSE 1]

VARIABLE part   \* the component this behaviour is about

IdleSession ==
  /\ ReviewInit /\ company = "A" /\ OtherMode = {} /\ \A r \in Run : srv[r].st = "review"

IdleFx == FxInit /\ profile.cur = NoCur

IdleJournals == JournalInit /\ \A j \in Journal : ~entries[j].fromModule

IdleTable == TableInit /\ kind = "bank"

IdleBatches == TablesInit /\ bank

Init ==
  /\ part \in {"session", "crops", "fx", "table", "journals", "batches"}
  /\ ReviewInit /\ (part # "session" => IdleSession)
  /\ GateInit
  /\ JournalInit /\ (part # "journals" => IdleJournals)
  /\ FxInit /\ (part # "fx" => IdleFx)
  /\ TableInit /\ (part # "table" => IdleTable)
  /\ TablesInit /\ (part # "batches" => IdleBatches)

SessionStep ==
  part = "session" /\ ReviewNext /\ UNCHANGED <<part, gvars, fx, tableVars, journals, tables>>
CropsStep == part = "crops" /\ GateNext /\ UNCHANGED <<part, rvars, fx, tableVars, journals, tables>>
FxStep == part = "fx" /\ FxNext /\ UNCHANGED <<part, rvars, gvars, tableVars, journals, tables>>
TableStep == part = "table" /\ TableNext /\ UNCHANGED <<part, rvars, gvars, fx, journals, tables>>
JournalsStep ==
  part = "journals" /\ JournalNext /\ UNCHANGED <<part, rvars, gvars, fx, tableVars, tables>>
BatchesStep ==
  part = "batches" /\ TablesNext /\ UNCHANGED <<part, rvars, gvars, fx, tableVars, journals>>

Next ==
  \/ SessionStep \/ CropsStep \/ FxStep \/ TableStep \/ JournalsStep \/ BatchesStep

vars == <<part, rvars, gvars, fx, tableVars, journals, tables>>

Spec == Init /\ [][Next]_vars

Runs == Permutations(Run)
===============================================================================
