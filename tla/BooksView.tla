------------------------------ MODULE BooksView -----------------------------
(***************************************************************************)
(* The Books grids as the shell shows them (ErpShell.tsx, ModuleGridPage,  *)
(* ModuleTransactionGrid, DataGridShell, useModuleTransactions): going     *)
(* from one transaction module to another keeps the grid mounted with its  *)
(* rows, selection, filter and unsaved batches, and only sends a reload    *)
(* for the new module.  Reloads are neither sequenced nor cancelled.       *)
(*                                                                         *)
(* A row is its identity and how often its amount was changed; its key is  *)
(* the batch and a number drawn when a reload reads it.  The filters are   *)
(* abstracted to the status one.  Adding rows and Deploy Codes are the     *)
(* subject of BooksGrid.                                                   *)
(***************************************************************************)
EXTENDS Naturals, FiniteSets

CONSTANTS Module, BankModule,     \* the grids, those whose rows are bank transactions
          Batch, ModuleOf,        \* approved batches, the module of their run
          GridRow, BatchOf, Pos,  \* rows, their batch and place in its table
          StatusValue, StatusOf,  \* filter values other than "all", the one a row answers to
          Offers,                 \* the values the status list of a module offers
          Locked,                 \* rows matched in Recon
          MaxActs                 \* bound: user commands

ASSUME BooksViewAssumption ==
    /\ BankModule \subseteq Module /\ ModuleOf \in [Batch -> Module]
    /\ IsFiniteSet(Batch) /\ IsFiniteSet(GridRow)
    /\ BatchOf \in [GridRow -> Batch] /\ Pos \in [GridRow -> Nat] /\ StatusOf \in [GridRow -> StatusValue]
    /\ \A q, r \in GridRow : BatchOf[q] = BatchOf[r] /\ Pos[q] = Pos[r] => q = r
    /\ "all" \notin StatusValue /\ Offers \in [Module -> SUBSET StatusValue]
    /\ Locked \subseteq GridRow /\ MaxActs \in Nat

Elsewhere == "elsewhere"       \* a tab that is no transaction grid: the grid is unmounted
Kind      == {"arap", "bank"}
KindOf(m) == IF m \in BankModule THEN "bank" ELSE "arap"

VARIABLES
    store,      \* server: per batch, the bank and the AP/AR rows of its saved table
    preset,     \* localStorage: per module, the filter
    module,     \* the tab shown
    rows, dirty, loading, saving, seq,     \* useModuleTransactions
    base,                                  \* its basePayloadsRef: per batch, the table as loaded
    selected, filter,                      \* ModuleTransactionGrid; a tick also holds the row it was on
    cell,                                  \* the amount input in focus: the row, its draft
    gridReqs, acts

hook == <<rows, dirty, loading, saving, seq, base>>
grid == <<selected, filter, cell>>
viewVars == <<store, preset, module, hook, grid, gridReqs, acts>>

NoCell   == [id |-> "", v |-> 0]
AsRead(r) == [id |-> r, v |-> 0]
NoTable  == [k \in Kind |-> {}]
NoTables == [b \in Batch |-> NoTable]
Reload(m) == [h |-> "load", st |-> "sent", m |-> m, rows |-> {}, batches |-> {}, tables |-> NoTables]

BooksViewInit ==
    /\ store = [b \in Batch |-> [k \in Kind |->
                   IF k = KindOf(ModuleOf[b]) THEN {AsRead(r) : r \in {q \in GridRow : BatchOf[q] = b}}
                                              ELSE {}]]
    /\ preset = [m \in Module |-> "all"] /\ module = Elsewhere
    /\ rows = {} /\ dirty = {} /\ loading = FALSE /\ saving = FALSE /\ seq = 0
    /\ base = NoTables
    /\ selected = {} /\ filter = "all" /\ cell = NoCell
    /\ gridReqs = {} /\ acts = 0

Mounted == module # Elsewhere
UserAct == acts < MaxActs /\ acts' = acts + 1
Click   == UserAct /\ cell = NoCell        \* an input in focus is left, and committed, first
Visible(r) == filter = "all" \/ filter = StatusOf[r.id]
Ticked(r)  == \E s \in selected : s.key = r.key
Drawn      == Mounted /\ ~ loading          \* DataGridShell draws rows only then

(* ----------------------------- tabs and filters ----------------------------- *)
\* the first render: filters from the preset, a value the bank list does not have is "all"
Mount(m) ==
    /\ module' = m /\ rows' = {} /\ dirty' = {} /\ loading' = TRUE /\ saving' = FALSE /\ seq' = 0 /\ base' = NoTables
    /\ selected' = {} /\ UNCHANGED cell
    /\ filter' = IF m \in BankModule /\ preset[m] \notin Offers[m] THEN "all" ELSE preset[m]
    /\ preset' = [preset EXCEPT ![m] = filter']
    /\ gridReqs' = {Reload(m)}

\* ModuleGridPage carries no key: the next module inherits the state of the last one, and
\* the effect on presetKey stores the inherited filter as its own
Inherit(m) ==
    /\ module' = m /\ m # module
    /\ loading' = TRUE /\ preset' = [preset EXCEPT ![m] = filter]
    /\ gridReqs' = gridReqs \cup {Reload(m)}
    /\ UNCHANGED <<rows, dirty, saving, seq, base, grid>>

SelectModule ==
    /\ Click /\ UNCHANGED store
    /\ \E m \in Module : (~ Mounted /\ Mount(m)) \/ (Mounted /\ Inherit(m))

\* results of requests of an unmounted grid reach nothing that is drawn
LeaveModules ==
    /\ Click /\ Mounted /\ module' = Elsewhere
    /\ rows' = {} /\ dirty' = {} /\ loading' = FALSE /\ saving' = FALSE /\ seq' = 0 /\ base' = NoTables
    /\ selected' = {} /\ filter' = "all" /\ UNCHANGED cell
    /\ gridReqs' = {q \in gridReqs : q.h = "save"}
    /\ UNCHANGED <<store, preset>>

SetStatusFilter ==
    /\ Click /\ Mounted
    /\ \E f \in Offers[module] \cup {"all"} : filter' = f /\ preset' = [preset EXCEPT ![module] = f]
    /\ UNCHANGED <<store, module, hook, selected, cell, gridReqs>>

(* --------------------------------- reloading -------------------------------- *)
Search ==
    /\ Click /\ Mounted /\ loading' = TRUE /\ gridReqs' = gridReqs \cup {Reload(module)}
    /\ UNCHANGED <<store, preset, module, rows, dirty, saving, seq, base, grid>>

Before(rank, q, r) == \/ rank[BatchOf[q.id]] < rank[BatchOf[r.id]]
                      \/ BatchOf[q.id] = BatchOf[r.id] /\ Pos[q.id] < Pos[r.id]
Numbered(from, rank, R) ==
    {[key |-> <<BatchOf[r.id], from + Cardinality({q \in R : Before(rank, q, r)})>>,
      id |-> r.id, v |-> r.v] : r \in R}
KeysFromZero(rank, R) == Numbered(0, rank, R)         \* (bug) the numbers start over
Keyed(rank, R)        == Numbered(seq, rank, R)       \* seqRef.current++

\* the runs are read four at a time, so their batches come in any order
ReloadRead ==
    \E q \in gridReqs, rank \in [Batch -> 1..Cardinality(Batch)] :
      /\ q.h = "load" /\ q.st = "sent" /\ \A b, c \in Batch : rank[b] = rank[c] => b = c
      /\ LET T == [b \in Batch |-> IF ModuleOf[b] = q.m THEN store[b] ELSE NoTable]
             R == UNION {T[b][KindOf(q.m)] : b \in Batch}
         IN  /\ gridReqs' = (gridReqs \ {q}) \cup
                    {[q EXCEPT !.st = "read", !.rows = Keyed(rank, R), !.tables = T]}
             /\ seq' = seq + Cardinality(R)
      /\ UNCHANGED <<store, preset, module, rows, dirty, loading, saving, base, grid, acts>>

ReloadApplied ==
    \E q \in gridReqs :
      /\ q.h = "load" /\ q.st = "read"
      /\ rows' = q.rows /\ base' = q.tables /\ dirty' = {} /\ loading' = FALSE
      /\ gridReqs' = gridReqs \ {q}
      /\ cell' = NoCell                  \* new keys: an input in focus goes with its draft
      /\ UNCHANGED <<store, preset, module, saving, seq, selected, filter, acts>>

ReloadLost ==
    \E q \in gridReqs :
      /\ q.h = "load" /\ loading' = FALSE /\ gridReqs' = gridReqs \ {q}
      /\ UNCHANGED <<store, preset, module, rows, dirty, saving, seq, base, grid, acts>>

(* ----------------------------- selecting, deleting -------------------------- *)
Tick(r) == [key |-> r.key, id |-> r.id]

ToggleSelect ==
    /\ Click /\ Drawn
    /\ \E r \in rows : /\ Visible(r)
                       /\ selected' = IF Ticked(r) THEN {s \in selected : s.key # r.key}
                                                   ELSE selected \cup {Tick(r)}
    /\ UNCHANGED <<store, preset, module, hook, filter, cell, gridReqs>>

\* the box in the header: every row the filter lets through
ToggleAll ==
    LET passed == {r \in rows : Visible(r)} IN
    /\ Click /\ Drawn /\ passed # {}
    /\ selected' = IF \A r \in passed : Ticked(r)
                     THEN {s \in selected : \A r \in passed : s.key # r.key}
                     ELSE {s \in selected : \A r \in passed : s.key # r.key} \cup {Tick(r) : r \in passed}
    /\ UNCHANGED <<store, preset, module, hook, filter, cell, gridReqs>>

\* onDelete: the locked rows are looked for among the filtered ones only, ticks of rows
\* that are gone count as unlocked ones
DeleteSelected ==
    LET held == {r \in rows : Visible(r) /\ Ticked(r) /\ r.id \in Locked}
        gone == {r \in rows : Ticked(r) /\ r.id \notin Locked}
    IN  /\ Click /\ Mounted /\ selected # {} /\ Cardinality(selected) > Cardinality(held)
        /\ rows' = rows \ gone /\ dirty' = dirty \cup {BatchOf[r.id] : r \in gone}
        /\ selected' = {}
        /\ UNCHANGED <<store, preset, module, loading, saving, seq, base, filter, cell, gridReqs>>

(* ------------------------------ amounts, saving ----------------------------- *)
FocusAmount ==
    /\ Click /\ Drawn
    /\ \E r \in rows : Visible(r) /\ r.id \notin Locked /\ cell' = [id |-> r.id, v |-> r.v]
    /\ UNCHANGED <<store, preset, module, hook, selected, filter, gridReqs>>

\* FxPairCell: what is typed stays a draft until the input is left
TypeAmount ==
    /\ UserAct /\ Drawn /\ cell # NoCell /\ cell.v = 0 /\ cell' = [cell EXCEPT !.v = 1]
    /\ UNCHANGED <<store, preset, module, hook, selected, filter, gridReqs>>

BlurAmount ==
    /\ Drawn /\ cell # NoCell /\ cell' = NoCell
    /\ rows' = {IF r.id = cell.id THEN [r EXCEPT !.v = cell.v] ELSE r : r \in rows}
    /\ dirty' = dirty \cup {BatchOf[r.id] : r \in {q \in rows : q.id = cell.id}}
    /\ UNCHANGED <<store, preset, module, loading, saving, seq, base, selected, filter, gridReqs, acts>>

\* saveAll: the rows go in as the kind of the module shown by now
Written(b) == [base[b] EXCEPT ![KindOf(module)] =
                   {[id |-> r.id, v |-> r.v] : r \in {q \in rows : BatchOf[q.id] = b}}]
SaveAll ==
    /\ Click /\ Mounted /\ dirty # {} /\ ~ saving
    /\ LET T == [b \in Batch |-> IF b \in dirty THEN Written(b) ELSE base[b]] IN
       /\ base' = T
       /\ gridReqs' = gridReqs \cup {[Reload(module) EXCEPT !.h = "save", !.batches = dirty, !.tables = T]}
    /\ saving' = TRUE
    /\ UNCHANGED <<store, preset, module, rows, dirty, loading, seq, grid>>

ShapedTable(b, t)   == [k \in Kind |-> IF k = KindOf(ModuleOf[b]) THEN t[k] ELSE {}]
Shaped(b, t)        == ShapedTable(b, t)

Persisted ==
    \E q \in gridReqs :
      /\ q.h = "save" /\ q.st = "sent"
      /\ store' = [b \in Batch |-> IF b \in q.batches THEN Shaped(b, q.tables[b]) ELSE store[b]]
      /\ gridReqs' = (gridReqs \ {q}) \cup {[q EXCEPT !.st = "done"]}
      /\ UNCHANGED <<preset, module, hook, grid, acts>>

\* setDirty(new Set()); a failure leaves the batches dirty
SaveAnswered ==
    \E q \in gridReqs :
      /\ q.h = "save" /\ gridReqs' = gridReqs \ {q} /\ saving' = FALSE
      /\ dirty' = IF q.st = "done" THEN {} ELSE dirty
      /\ UNCHANGED <<store, preset, module, rows, loading, seq, base, grid, acts>>

BooksViewNext ==
    \/ SelectModule \/ LeaveModules \/ SetStatusFilter
    \/ Search \/ ReloadRead \/ ReloadApplied \/ ReloadLost
    \/ ToggleSelect \/ ToggleAll \/ DeleteSelected
    \/ FocusAmount \/ TypeAmount \/ BlurAmount
    \/ SaveAll \/ Persisted \/ SaveAnswered

BooksViewSpec == BooksViewInit /\ [][BooksViewNext]_viewVars

(* --------------------------------- properties ------------------------------- *)
\* A row drawn as selected is the row the user ticked, however many reloads have read the
\* batches since, in whatever order (useModuleTransactions.ts draws the keys): Delete
\* Selected takes no other row.
TicksFollowRows ==
    \A r \in rows, s \in selected : r.key = s.key => r.id = s.id

\* "Click Save to persist": what a save wrote for a batch is what the grid held for it, as
\* the kind the batch has.
SavePersistsStep ==
    \A q \in gridReqs, b \in Batch :
        (q.h = "save" /\ b \in q.batches /\ [q EXCEPT !.st = "done"] \in gridReqs' \ gridReqs)
           => store'[b][KindOf(ModuleOf[b])] = q.tables[b][KindOf(q.m)]
SavePersists == [][SavePersistsStep]_viewVars
=============================================================================
