---------------------------- MODULE ReviewTable ----------------------------
(***************************************************************************)
(* The editable tables of extracted rows: ARAPReview.tsx ("arap") and      *)
(* BankStatementReview.tsx ("bank").  Each keeps a copy of the rows with   *)
(* local _ids; every edit goes to the parent, whose new list comes back as *)
(* a prop and renumbers the copy: "bank" by position, "arap" by keeping    *)
(* the _id, and every field the new row lacks, of the row that stood there.*)
(* Selection is a set of _ids.  A single selected row with a stored crop   *)
(* region is previewed on demand, in the panel below the table and in      *)
(* MvduReviewPagePane.                                                     *)
(***************************************************************************)
EXTENDS Naturals, Sequences, SequencesExt, FiniteSets, FiniteSetsExt

CONSTANTS TableRow, NoRow,
          First,        \* the rows the table opens with, a sequence
          IdNumber,     \* [Row -> id_number], "" if none
          WithCrop,     \* rows with extraction_provenance of their own
          Matched,      \* id_numbers reconState holds as matched
          FailedPage, Rebuilt,  \* the placeholder row of a failed page, the list once it is retried
          Posted,       \* rows of a posted voucher (glPostedLockKeys)
          MaxEdits       \* bound: user commands

ASSUME TableAssumption == WithCrop \subseteq TableRow /\ Posted \subseteq TableRow /\ MaxEdits \in Nat

VARIABLES kind, rows,          \* "arap" or "bank"; the local copy: [id, row, idno, amt, crop]
          selected, picked,    \* selected _ids; the rows the user took them for
          matched,             \* reconState
          asked, asks, cropOf,  \* per pane: requests made, those under way, the row whose crop is shown
          loading,             \* cropPreviewLoading (the panel's)
          retrying,            \* a "Retry page" is under way
          edits
tableVars == <<kind, rows, selected, picked, matched, asked, asks, cropOf, loading, retrying, edits>>

Pane    == {"panel", "page"}
TableAct == edits < MaxEdits /\ edits' = edits + 1
Fresh(r) == [row |-> r, idno |-> IdNumber[r], amt |-> 0, crop |-> IF r \in WithCrop THEN r ELSE NoRow]
Clean(x) == [row |-> x.row, idno |-> x.idno, amt |-> x.amt, crop |-> x.crop]
Numbered(t, id) == [id |-> id, row |-> t.row, idno |-> t.idno, amt |-> t.amt, crop |-> t.crop]
Ids(s)   == {s[i].id : i \in DOMAIN s}
NextId(s) == IF s = <<>> THEN 0 ELSE Max(Ids(s)) + 1

(* ------------------------------- the copy ------------------------------- *)
ByPosition(list) == [i \in DOMAIN list |-> Numbered(list[i], i - 1)]
KeptFields(old, t) == [Numbered(t, old.id) EXCEPT !.crop = IF t.crop = NoRow THEN old.crop ELSE t.crop]
ByIndex(prev, list) ==
    [i \in DOMAIN list |-> IF i <= Len(prev) THEN KeptFields(prev[i], list[i])
                           ELSE Numbered(list[i], NextId(prev) + i - Len(prev) - 1)]
Resync(prev, list) == IF kind = "bank" THEN ByPosition(list) ELSE ByIndex(prev, list)
\* updateRows: the copy, then the parent's list, which comes back
Update(next) == rows' = Resync(next, [i \in DOMAIN next |-> Clean(next[i])])

(* ------------------------------ the previews ---------------------------- *)
RowAt(s, id) == (CHOOSE i \in DOMAIN s : s[i].id = id)
Detail(s, sel) ==
    IF kind = "bank" \/ Cardinality(sel) # 1 \/ sel \cap Ids(s) = {} THEN NoRow
    ELSE LET x == s[RowAt(s, CHOOSE id \in sel : TRUE)] IN IF x.crop = NoRow THEN NoRow ELSE x.row
\* the effects' cleanup cancels what is under way, their body asks again
Preview ==
    LET r == Detail(rows', selected') IN
    IF r = NoRow
    THEN /\ asked' = [p \in Pane |-> asked[p] + 1] /\ UNCHANGED asks
         /\ cropOf' = [p \in Pane |-> NoRow] /\ loading' = FALSE
    ELSE /\ asked' = [p \in Pane |-> asked[p] + 1] /\ UNCHANGED cropOf /\ loading' = TRUE
         /\ asks' = asks \cup {[pane |-> p, row |-> r, n |-> asked[p] + 1] : p \in Pane}
Live(a)    == a.n = asked[a.pane]
LiveAny(a) == TRUE          \* (bug) the effect has no `cancelled`
Wanted(a)  == Live(a)

CropCame(a) ==
    /\ asks' = asks \ {a}
    /\ IF Wanted(a) THEN /\ cropOf' = [cropOf EXCEPT ![a.pane] = a.row]
                         /\ loading' = IF a.pane = "panel" THEN FALSE ELSE loading
       ELSE UNCHANGED <<cropOf, loading>>
    /\ UNCHANGED <<kind, rows, selected, picked, matched, asked, edits>>
CropFailed(a) ==
    /\ asks' = asks \ {a}
    /\ IF Wanted(a) THEN /\ cropOf' = [cropOf EXCEPT ![a.pane] = NoRow]
                         /\ loading' = IF a.pane = "panel" THEN FALSE ELSE loading
       ELSE UNCHANGED <<cropOf, loading>>
    /\ UNCHANGED <<kind, rows, selected, picked, matched, asked, edits>>

(* ------------------------------- commands ------------------------------- *)
TableInit ==
    /\ kind \in {"arap", "bank"}
    /\ rows = [i \in DOMAIN First |-> Numbered(Fresh(First[i]), i - 1)]
    /\ selected = {} /\ picked = {} /\ matched = Matched
    /\ asked = [p \in Pane |-> 0] /\ asks = {} /\ cropOf = [p \in Pane |-> NoRow] /\ loading = FALSE
    /\ retrying = FALSE /\ edits = 0

RowsAt(sel) == {rows[i].row : i \in {j \in DOMAIN rows : rows[j].id \in sel}}
IsLocked(x) == x.idno \in matched
IsPosted(x) == x.row \in Posted
Choose(sel) == selected' = sel /\ picked' = RowsAt(sel)

ToggleSelect ==
    /\ TableAct
    /\ \E i \in DOMAIN rows : LET id == rows[i].id IN
          \/ Choose(IF id \in selected THEN selected \ {id} ELSE selected \cup {id})   \* with Ctrl
          \/ Choose(IF selected = {id} THEN {} ELSE {id})
    /\ UNCHANGED <<kind, rows, matched>> /\ Preview
\* MvduReviewPagePane.selectBox: every row whose receipt_index is the box's
SelectBox ==
    /\ TableAct /\ kind = "arap" /\ \E i \in DOMAIN rows : rows[i].crop # NoRow
    /\ Choose({rows[i].id : i \in {j \in DOMAIN rows : rows[j].crop # NoRow}})
    /\ UNCHANGED <<kind, rows, matched>> /\ Preview

EditId ==           \* not one of LOCK_GUARDED_FIELDS
    /\ TableAct
    /\ \E i \in DOMAIN rows, v \in {IdNumber[r] : r \in TableRow} \cup {""} :
          ~IsPosted(rows[i]) /\ Update([rows EXCEPT ![i].idno = v])
    /\ UNCHANGED <<kind, selected, picked, matched>> /\ Preview
Unlocked(x) == matched \ {x.idno}
EditTableAmount ==       \* a matched row is unlocked first, after a confirm
    /\ TableAct
    /\ \E i \in DOMAIN rows : /\ ~IsPosted(rows[i]) /\ rows[i].amt = 0
                              /\ Update([rows EXCEPT ![i].amt = 1])
                              /\ matched' = IF IsLocked(rows[i]) THEN Unlocked(rows[i]) ELSE matched
    /\ UNCHANGED <<kind, selected, picked>> /\ Preview

Unused == TableRow \ {rows[i].row : i \in DOMAIN rows}
AddRow ==
    /\ TableAct /\ Unused # {}
    /\ LET r  == CHOOSE x \in Unused : TRUE
           x  == Numbered([Fresh(r) EXCEPT !.idno = "", !.crop = NoRow], NextId(rows))
           at == {i \in DOMAIN rows : rows[i].id = Max(selected)}
       IN IF selected = {} THEN Update(Append(rows, x)) /\ UNCHANGED <<selected, picked>>
          ELSE /\ Update(InsertAt(rows, IF at = {} THEN 1 ELSE (CHOOSE i \in at : TRUE) + 1, x))
               /\ selected' = {x.id} /\ picked' = {r}
    /\ UNCHANGED <<kind, matched>> /\ Preview
DeleteSelected ==
    /\ TableAct /\ selected # {}
    /\ LET sel == {i \in DOMAIN rows : rows[i].id \in selected} IN
          /\ \A i \in sel : ~IsPosted(rows[i])
          /\ Update(SelectSeq(rows, LAMBDA x : x.id \notin selected))
          /\ matched' = matched \ {rows[i].idno : i \in sel}
    /\ selected' = {} /\ picked' = {} /\ UNCHANGED kind /\ Preview

\* "Retry page" of a failed page: handleRetryOcrFailedPage rebuilds the whole list from the
\* results of the batch's files; the copy follows by index, the selection is left as it is.
RetryPage ==
    /\ TableAct /\ kind = "arap" /\ \E i \in DOMAIN rows : rows[i].row = FailedPage
    /\ retrying' = TRUE /\ UNCHANGED <<kind, rows, selected, picked, matched, asked, asks, cropOf, loading>>
Retried ==
    /\ retrying /\ retrying' = FALSE
    /\ rows' = Resync(rows, [i \in DOMAIN Rebuilt |-> Fresh(Rebuilt[i])])
    /\ UNCHANGED <<kind, selected, picked, matched, edits>> /\ Preview
PutIn ==            \* the next file of a batch in progress
    /\ TableAct /\ Unused # {}
    /\ rows' = Resync(rows, Append([i \in DOMAIN rows |-> Clean(rows[i])], Fresh(CHOOSE r \in Unused : TRUE)))
    /\ UNCHANGED <<kind, selected, picked, matched>> /\ Preview

Crop(a) == CropCame(a) \/ CropFailed(a)
Ask == ToggleSelect \/ SelectBox
Change == EditId \/ EditTableAmount \/ AddRow \/ DeleteSelected \/ PutIn
TableNext ==
    \/ (Ask \/ Change) /\ UNCHANGED retrying
    \/ RetryPage \/ Retried \/ \E a \in asks : Crop(a) /\ UNCHANGED retrying
TableSpec == TableInit /\ [][TableNext]_tableVars

(* ------------------------------- properties ----------------------------- *)
\* When the panel does not say "Loading crop", the receipt it shows is that of the row the
\* user has selected, whatever the order in which crops arrive.
PanelOfSelected == ~loading => cropOf["panel"] \in {NoRow, Detail(rows, selected)}

============================================================================
