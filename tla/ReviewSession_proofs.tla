------------------------- MODULE ReviewSession_proofs -------------------------
(***************************************************************************)
(* Theorems about ReviewSession, for every set of runs and companies, for  *)
(* whatever runs look alike, and for any number of calls in flight.        *)
(***************************************************************************)
EXTENDS ReviewSession, TLAPS

-----------------------------------------------------------------------------
(* The shape of the state, as far as the argument needs it.                *)

RowSet == {NoRows} \union [of : Run, ver : Nat]
TableRow == [bound : Run \union {NoRun}, loading : BOOLEAN, rows : RowSet, edited : RowSet]
Kinds == {"first", "list", "load", "payload", "assets", "refresh", "poll", "patch", "resume",
          "rebuild", "recover", "page", "upload", "create", "remove"}
Status == {"executing", "review", "approved"}
CallRow == [kind : Kinds, run : Run \union {NoRun}, co : Company, served : BOOLEAN,
            st : Status, rows : RowSet]
RunRow == [exists : BOOLEAN, st : Status, ver : Nat, other : BOOLEAN]

(* Everything but the lists and creations of the rail names a run.         *)
NamesRun(c) == c.kind \notin {"first", "list"} => c.run \in Run

Typed ==
  /\ company \in Company /\ rail \subseteq Run
  /\ active \in Run \union {NoRun}
  /\ shown \in [id : Run \union {NoRun}, st : Status]
  /\ table \in TableRow
  /\ srv \in [Run -> RunRow]
  /\ calls \subseteq CallRow
  /\ \A c \in calls : NamesRun(c)

(* The inductive invariant behind NothingOfAnotherRun.  The payloads are   *)
(* of the run the table is bound to, which need not be the open one: an    *)
(* approval binds the table to the run it approved, whatever is open by    *)
(* then.  The overlay of edits however has no binding of its own, so it    *)
(* must always be of the open run: it is filled only from payloads bound   *)
(* to that run, and no step changes the open run and keeps the overlay.    *)
(* Where there are edits, a run object is on screen.  An answer with rows  *)
(* carries those of the run it was asked for.                              *)
PayloadsBound == table.rows = NoRows \/ table.rows.of = table.bound
OverlayOpen == table.edited = NoRows \/ (table.edited.of = active /\ shown.id # NoRun)
AssetsOpen == assets = NoRun \/ assets = active
AnswersOwn ==
  \A c \in calls : c.served /\ c.kind \in {"payload", "refresh"} => c.rows.of = c.run

SessionInv == Typed /\ PayloadsBound /\ OverlayOpen /\ AssetsOpen /\ AnswersOwn

-----------------------------------------------------------------------------
(* The helpers of the handlers.                                            *)

(* A new call is a call that has not been served.                          *)
LEMMA CallType ==
  ASSUME Typed, NEW kind \in Kinds, NEW r \in Run \union {NoRun}
  PROVE  /\ Call(kind, r) \in CallRow
         /\ Call(kind, r).kind = kind /\ Call(kind, r).run = r /\ ~ Call(kind, r).served
BY DEF Call, CallRow, NoRows, RowSet, Status, Typed

(* Hydration keeps the payloads and their binding.  It fills the overlay   *)
(* from them only when they are bound to the open run.                     *)
LEMMA HydratedTable ==
  ASSUME NEW t \in TableRow, NEW s, NEW f,
         t.rows = NoRows \/ t.rows.of = t.bound,
         t.edited = NoRows \/ (t.edited.of = active /\ s.id # NoRun)
  PROVE  /\ Hydrated(t, s, f) \in TableRow
         /\ LET h == Hydrated(t, s, f)
            IN  /\ h.rows = NoRows \/ h.rows.of = h.bound
                /\ h.edited = NoRows \/ (h.edited.of = active /\ s.id # NoRun)
<1>1. CASE Hydrated(t, s, f) = t
  BY <1>1
<1>2. CASE /\ Hydrated(t, s, f) = [t EXCEPT !.edited = Canonical(t, s)]
           /\ ~ Awaiting(t, f) /\ active # NoRun /\ Canonical(t, s) # NoRows
  <2>1. Canonical(t, s) = t.rows /\ t.bound = active /\ t.rows.of = s.id
    BY <1>2 DEF Canonical, Awaiting
  <2>2. t.rows # NoRows /\ t.rows \in RowSet /\ s.id # NoRun
    BY <1>2, <2>1, ReviewAssumption DEF TableRow, RowSet
  <2>3. /\ Hydrated(t, s, f) \in TableRow
        /\ Hydrated(t, s, f).rows = t.rows /\ Hydrated(t, s, f).bound = t.bound
        /\ Hydrated(t, s, f).edited = t.rows
    BY <1>2, <2>1, <2>2 DEF TableRow
  <2>4. QED
    BY <2>1, <2>2, <2>3
<1>3. QED
  BY <1>1, <1>2 DEF Hydrated

(* The tables the handlers bind are typed.                                 *)
LEMMA BoundTables ==
  ASSUME Typed, NEW r \in Run \union {NoRun}, NEW rows \in RowSet
  PROVE  /\ Cleared(r) \in TableRow /\ BindEmpty(r) \in TableRow
         /\ BindLoaded(r, rows) \in TableRow
         /\ Cleared(r).rows = NoRows /\ Cleared(r).edited = NoRows
         /\ BindEmpty(r).rows = NoRows /\ BindEmpty(r).edited = NoRows
         /\ BindLoaded(r, rows).rows = rows /\ BindLoaded(r, rows).bound = r
         /\ BindLoaded(r, rows).edited = NoRows
BY DEF Cleared, BindEmpty, BindLoaded, TableRow, RowSet, NoRows

(* What a step must keep of the calls in flight.                           *)
GoodCalls(S) ==
  /\ S \subseteq CallRow
  /\ \A c \in S : /\ NamesRun(c)
                  /\ c.served /\ c.kind \in {"payload", "refresh"} => c.rows.of = c.run

(* The calls of the invariant are good.                                    *)
LEMMA InvCalls == SessionInv => GoodCalls(calls)
BY DEF SessionInv, Typed, AnswersOwn, GoodCalls

(* Sending a call, changed in what it carries or not, and dropping some.   *)
LEMMA Sends ==
  ASSUME Typed, NEW S, GoodCalls(S), NEW c \in CallRow, ~ c.served, NamesRun(c)
  PROVE  GoodCalls(S \union {c})
BY DEF GoodCalls

LEMMA Drops ==
  ASSUME NEW S, GoodCalls(S), NEW T, T \subseteq S
  PROVE  GoodCalls(T)
BY DEF GoodCalls

(* The rows part of the invariant, for a table t, an open run r and a run  *)
(* object s on screen.                                                     *)
GoodTable(t, r, s) ==
  /\ t \in TableRow
  /\ t.rows = NoRows \/ t.rows.of = t.bound
  /\ t.edited = NoRows \/ (t.edited.of = r /\ s.id # NoRun)

(* Opening a run clears what the last one left.                            *)
LEMMA Activates ==
  ASSUME SessionInv, NEW r \in Run \union {NoRun}, NEW S, GoodCalls(S), Activate(r, S)
  PROVE  /\ active' = r /\ GoodTable(table', active', shown') /\ GoodCalls(calls')
         /\ shown' \in [id : Run \union {NoRun}, st : Status]
         /\ assets' = NoRun \/ assets' = active'
<1>1. CASE r = active
  BY <1>1 DEF Activate, SessionInv, Typed, PayloadsBound, OverlayOpen, AssetsOpen, GoodTable
<1>2. CASE r # active
  <2>1. GoodTable(table', active', shown') /\ active' = r /\ assets' = NoRun
    BY <1>2, BoundTables DEF Activate, GoodTable, SessionInv, RowSet, NoRows
  <2>2. shown' \in [id : Run \union {NoRun}, st : Status]
    BY <1>2 DEF Activate, SessionInv, Typed, NoneShown, Status
  <2>3. GoodCalls(Kept(S))
    BY Drops DEF Kept
  <2>4. r # NoRun => GoodCalls(Kept(S) \union {Call("load", r)})
    BY <2>3, CallType, Sends DEF SessionInv, Kinds, NamesRun
  <2>5. QED
    BY <1>2, <2>1, <2>2, <2>3, <2>4 DEF Activate
<1>3. QED
  BY <1>1, <1>2

(* A request for assets is sent for a run of mode OTHER only.              *)
LEMMA AssetCalls ==
  ASSUME Typed, NEW r \in Run, NEW S, GoodCalls(S)
  PROVE  GoodCalls(S \union AssetCall(r))
<1>1. GoodCalls(S \union {Call("assets", r)})
  BY CallType, Sends DEF Kinds, NamesRun
<1>2. QED
  BY <1>1 DEF AssetCall

(* A call whose status or rows are replaced is a call still.               *)
LEMMA Stamped ==
  ASSUME NEW c \in CallRow, NEW st \in Status, NEW rows \in RowSet
  PROVE  /\ [c EXCEPT !.st = st] \in CallRow
         /\ [c EXCEPT !.st = st].served = c.served /\ [c EXCEPT !.st = st].run = c.run
         /\ [c EXCEPT !.rows = rows] \in CallRow
         /\ [c EXCEPT !.rows = rows].served = c.served /\ [c EXCEPT !.rows = rows].run = c.run
BY DEF CallRow

(* A call for a run, sent with another status than it began with.          *)
LEMMA CallWith ==
  ASSUME Typed, NEW kind \in Kinds, NEW r \in Run, NEW st \in Status, NEW S, GoodCalls(S)
  PROVE  GoodCalls(S \union {[Call(kind, r) EXCEPT !.st = st]})
<1>1. PICK c \in CallRow : c = Call(kind, r) /\ ~ c.served /\ c.run = r
  BY CallType
<1>2. [c EXCEPT !.st = st] \in CallRow /\ ~ [c EXCEPT !.st = st].served /\ [c EXCEPT !.st = st].run = r
  BY <1>1, CallType DEF CallRow
<1>3. GoodCalls(S \union {[c EXCEPT !.st = st]})
  BY <1>2, Sends DEF NamesRun
<1>4. QED
  BY <1>1, <1>3, Zenon

(* A call that leaves the set of calls in flight.                          *)
LEMMA CallEnds ==
  ASSUME SessionInv, NEW c \in calls
  PROVE  /\ GoodCalls(calls \ {c}) /\ c \in CallRow /\ NamesRun(c)
         /\ c.served /\ c.kind \in {"payload", "refresh"} => c.rows.of = c.run
<1>1. GoodCalls(calls) /\ calls \ {c} \subseteq calls
  BY InvCalls
<1>2. GoodCalls(calls \ {c})
  BY <1>1, Drops
<1>3. QED
  BY <1>1, <1>2 DEF GoodCalls

(* applyRunFromServer paints the open run only, whose payloads it then     *)
(* asks for.                                                               *)
LEMMA Applies ==
  ASSUME SessionInv, NEW r \in Run, NEW st \in Status, NEW S, GoodCalls(S), NEW f,
         ApplyRun(r, st, S, f)
  PROVE  /\ GoodTable(table', active, shown') /\ GoodCalls(calls')
         /\ shown' \in [id : Run \union {NoRun}, st : Status]
<1>1. CASE r # active
  BY <1>1 DEF ApplyRun, SessionInv, Typed, PayloadsBound, OverlayOpen, GoodTable
<1>2. CASE r = active
  <2>1. shown' = [id |-> r, st |-> st] /\ table' = Hydrated(table, shown', f)
    BY <1>2 DEF ApplyRun
  <2>2. GoodTable(table', active, shown')
    <3>1. table \in TableRow /\ shown'.id # NoRun
      BY <2>1, ReviewAssumption DEF SessionInv, Typed
    <3>2. /\ table.rows = NoRows \/ table.rows.of = table.bound
          /\ table.edited = NoRows \/ (table.edited.of = active /\ shown'.id # NoRun)
      BY <3>1 DEF SessionInv, PayloadsBound, OverlayOpen
    <3>3. QED
      BY <2>1, <3>1, <3>2, HydratedTable DEF GoodTable
  <2>3. GoodCalls(Kept(S))
    BY Drops DEF Kept
  <2>4. PICK T \in {S, Kept(S)} :
          calls' = T \union {[Call("refresh", r) EXCEPT !.st = st]} \union AssetCall(r)
    BY <1>2 DEF ApplyRun
  <2>5. GoodCalls(T \union {[Call("refresh", r) EXCEPT !.st = st]})
    BY <2>3, <2>4, CallWith DEF SessionInv, Kinds
  <2>6. GoodCalls(calls')
    BY <2>4, <2>5, AssetCalls DEF SessionInv
  <2>7. QED
    BY <2>1, <2>2, <2>6
<1>3. QED
  BY <1>1, <1>2

(* What a step must bring about, where it leaves the backend alone.        *)
LEMMA Repainted ==
  ASSUME SessionInv,
         company' \in Company, rail' \subseteq Run, active' \in Run \union {NoRun},
         shown' \in [id : Run \union {NoRun}, st : Status],
         GoodTable(table', active', shown'), assets' = NoRun \/ assets' = active',
         srv' \in [Run -> RunRow], GoodCalls(calls')
  PROVE  SessionInv'
<1>1. Typed'
  BY DEF Typed, GoodTable, GoodCalls
<1>2. PayloadsBound' /\ OverlayOpen' /\ AssetsOpen'
  BY DEF GoodTable, PayloadsBound, OverlayOpen, AssetsOpen
<1>3. AnswersOwn'
  BY DEF GoodCalls, AnswersOwn
<1>4. QED
  BY <1>1, <1>2, <1>3 DEF SessionInv

(* The state of the invariant, in the terms of Repainted.                  *)
LEMMA AsPainted ==
  ASSUME SessionInv
  PROVE  /\ company \in Company /\ rail \subseteq Run /\ active \in Run \union {NoRun}
         /\ shown \in [id : Run \union {NoRun}, st : Status]
         /\ GoodTable(table, active, shown) /\ (assets = NoRun \/ assets = active)
         /\ srv \in [Run -> RunRow] /\ GoodCalls(calls)
         /\ shown.id \in Run \union {NoRun} /\ shown.st \in Status
BY InvCalls DEF SessionInv, Typed, PayloadsBound, OverlayOpen, AssetsOpen, GoodTable

(* Hydration of a good table leaves it good.                               *)
LEMMA GoodHydrated ==
  ASSUME NEW t, NEW s, GoodTable(t, active, s), NEW f
  PROVE  GoodTable(Hydrated(t, s, f), active, s)
BY HydratedTable DEF GoodTable

(* The tables bound after a load are good for any open run.                *)
LEMMA GoodBound ==
  ASSUME Typed, NEW r \in Run \union {NoRun}, NEW rows \in RowSet, rows = NoRows \/ rows.of = r, NEW open, NEW s
  PROVE  /\ GoodTable(Cleared(r), open, s) /\ GoodTable(BindEmpty(r), open, s)
         /\ GoodTable(BindLoaded(r, rows), open, s)
BY BoundTables DEF GoodTable

-----------------------------------------------------------------------------
(* The steps of the user.                                                  *)

(* Rows on screen are rows of the open run: the overlay by OverlayOpen,    *)
(* the payloads because the table is bound to the open run.                *)
LEMMA DisplayedOpen ==
  ASSUME SessionInv, Displayed # NoRows
  PROVE  Displayed \in RowSet /\ Displayed.of = active /\ shown.id \in Run
<1>1. ~ Awaiting(table, flags) /\ active # NoRun
  BY DEF Displayed
<1>2. table.bound = active
  BY <1>1 DEF Awaiting
<1>3. CASE table.edited # NoRows
  BY <1>1, <1>3 DEF Displayed, SessionInv, OverlayOpen, Typed, TableRow
<1>4. CASE table.edited = NoRows
  <2>1. Displayed = table.rows
    BY <1>1, <1>4 DEF Displayed, Canonical
  <2>2. shown.id = Displayed.of
    BY <1>1, <1>4 DEF Displayed, Canonical
  <2>3. table.rows \in RowSet
    BY DEF SessionInv, Typed, TableRow
  <2>4. QED
    BY <1>2, <2>1, <2>2, <2>3 DEF RowSet, SessionInv, PayloadsBound, Typed, TableRow
<1>5. QED
  BY <1>3, <1>4

(* A switch of company forgets the open run and everything of it.          *)
LEMMA SwitchKeeps ==
  ASSUME SessionInv, NEW co \in Company, SwitchCompany(co)
  PROVE  SessionInv'
<1> DEFINE relabel(c) == IF c.kind = "first" THEN [c EXCEPT !.kind = "list"] ELSE c
           old == {relabel(c) : c \in Kept(calls)}
<1>1. GoodCalls(Kept(calls))
  BY AsPainted, Drops DEF Kept
<1>2. ASSUME NEW c \in Kept(calls)
      PROVE  /\ relabel(c) \in CallRow /\ NamesRun(relabel(c))
             /\ relabel(c).served /\ relabel(c).kind \in {"payload", "refresh"}
                  => relabel(c).rows.of = relabel(c).run
  <2>1. /\ c \in CallRow /\ NamesRun(c)
        /\ c.served /\ c.kind \in {"payload", "refresh"} => c.rows.of = c.run
    BY <1>1 DEF GoodCalls
  <2>2. CASE c.kind # "first"
    BY <2>1, <2>2
  <2>3. CASE c.kind = "first"
    <3>1. relabel(c) = [c EXCEPT !.kind = "list"]
      BY <2>3
    <3>2. [c EXCEPT !.kind = "list"] \in CallRow /\ [c EXCEPT !.kind = "list"].kind = "list"
      BY <2>1 DEF CallRow, Kinds
    <3>3. QED
      BY <3>1, <3>2 DEF NamesRun
  <2>4. QED
    BY <2>2, <2>3
<1>3. GoodCalls(old)
  <2>1. \A d \in old : \E c \in Kept(calls) : d = relabel(c)
    BY Zenon
  <2> HIDE DEF old, relabel
  <2>2. QED
    BY <1>2, <2>1 DEF GoodCalls
<1>4. PICK first \in CallRow : first = Call("first", NoRun) /\ ~ first.served /\ first.kind = "first"
  BY CallType DEF SessionInv, Kinds
<1>5. [first EXCEPT !.co = co] \in CallRow /\ ~ [first EXCEPT !.co = co].served
      /\ [first EXCEPT !.co = co].kind = "first"
  BY <1>4 DEF CallRow
<1>6. GoodCalls(old \union {[first EXCEPT !.co = co]})
  <2> HIDE DEF old
  <2>1. QED
    BY <1>3, <1>5, Sends DEF NamesRun, SessionInv
<1>7. calls' = old \union {[first EXCEPT !.co = co]}
  BY <1>4, Zenon DEF SwitchCompany
<1>8. GoodTable(table', NoRun, shown')
  <2>1. CASE active = NoRun
    <3>1. table' = [table EXCEPT !.rows = NoRows, !.edited = NoRows]
      BY <2>1 DEF SwitchCompany
    <3>2. table \in TableRow
      BY DEF SessionInv, Typed
    <3>3. QED
      BY <3>1, <3>2 DEF GoodTable, TableRow, NoRows, RowSet
  <2>2. CASE active # NoRun
    <3>1. NoRows \in RowSet /\ NoRows.of = NoRun
      BY DEF NoRows, RowSet
    <3>2. QED
      BY <2>2, <3>1, GoodBound DEF SwitchCompany, SessionInv
  <2>3. QED
    BY <2>1, <2>2
<1>9. /\ company' \in Company /\ rail' = rail /\ active' = NoRun /\ shown' = NoneShown
      /\ assets' = NoRun /\ srv' = srv
  BY DEF SwitchCompany
<1>10. NoneShown \in [id : Run \union {NoRun}, st : Status]
  BY DEF NoneShown, Status
<1> HIDE DEF old
<1>11. QED
  BY <1>6, <1>7, <1>8, <1>9, <1>10, AsPainted, Repainted

(* Opening a run from the rail.                                            *)
LEMMA SelectKeeps ==
  ASSUME SessionInv, NEW r \in Run, SelectRun(r)
  PROVE  SessionInv'
<1>1. Activate(r, calls) /\ UNCHANGED <<company, rail, flags, srv>>
  BY DEF SelectRun
<1>2. QED
  BY <1>1, AsPainted, Activates, Repainted

(* A request that is only sent.                                            *)
LEMMA SendKeeps ==
  ASSUME SessionInv, NEW kind \in Kinds, NEW r \in Run,
         calls' = calls \union {Call(kind, r)},
         UNCHANGED <<company, rail, active, shown, assets, srv>>, GoodTable(table', active, shown')
  PROVE  SessionInv'
<1>1. GoodCalls(calls')
  BY AsPainted, CallType, Sends DEF NamesRun, SessionInv
<1>2. QED
  BY <1>1, AsPainted, Repainted

(* Polls, uploads, creations, removals and page actions send a request.    *)
LEMMA SendersKeep ==
  ASSUME SessionInv,
         \/ Poll \/ PageAction \/ Upload
         \/ \E r \in Run : CreateRun(r) \/ RemoveRun(r)
  PROVE  SessionInv'
<1>1. CASE Poll
  <2>1. active \in Run /\ table' = table /\ shown' = shown
    BY <1>1, AsPainted DEF Poll
  <2>2. QED
    BY <1>1, <2>1, AsPainted, SendKeeps DEF Poll, Kinds
<1>2. CASE PageAction
  <2>1. shown.id \in Run /\ table' = table /\ shown' = shown
    BY <1>2, DisplayedOpen DEF PageAction
  <2>2. QED
    BY <1>2, <2>1, AsPainted, SendKeeps DEF PageAction, Kinds
<1>3. CASE Upload
  <2>1. shown.id \in Run /\ table' = table /\ shown' = shown
    BY <1>3, AsPainted DEF Upload
  <2>2. QED
    BY <1>3, <2>1, AsPainted, SendKeeps DEF Upload, Kinds
<1>4. ASSUME NEW r \in Run, CreateRun(r)
      PROVE  SessionInv'
  BY <1>4, AsPainted, SendKeeps DEF CreateRun, Kinds
<1>5. ASSUME NEW r \in Run, RemoveRun(r)
      PROVE  SessionInv'
  BY <1>5, AsPainted, SendKeeps DEF RemoveRun, Kinds
<1>6. QED
  BY <1>1, <1>2, <1>3, <1>4, <1>5

(* An edit starts from what is on screen.                                  *)
LEMMA EditKeeps == SessionInv /\ EditRow => SessionInv'
<1> SUFFICES ASSUME SessionInv, EditRow PROVE SessionInv'
  OBVIOUS
<1>1. Displayed \in RowSet /\ Displayed.of = active /\ shown.id # NoRun
  BY DisplayedOpen, ReviewAssumption DEF EditRow
<1>2. GoodTable([table EXCEPT !.edited = Displayed], active, shown)
  BY <1>1, AsPainted DEF GoodTable, TableRow
<1>3. QED
  BY <1>2, AsPainted, Repainted DEF EditRow

(* patchGraph is hydrated like every paint and sent for the run on screen. *)
LEMMA PatchKeeps == SessionInv /\ PatchGraph => SessionInv'
<1> SUFFICES ASSUME SessionInv, PatchGraph PROVE SessionInv'
  OBVIOUS
<1>1. GoodTable(table', active, shown') /\ shown' = shown
  BY AsPainted, GoodHydrated DEF PatchGraph
<1>2. shown.id \in Run
  BY AsPainted DEF PatchGraph
<1>3. QED
  BY <1>1, <1>2, AsPainted, SendKeeps DEF PatchGraph, Kinds

(* Approval sends the rows on screen for the run on screen.                *)
LEMMA ApproveKeeps == SessionInv /\ Approve => SessionInv'
<1> SUFFICES ASSUME SessionInv, Approve PROVE SessionInv'
  OBVIOUS
<1>1. Displayed \in RowSet /\ shown.id \in Run
  BY DisplayedOpen DEF Approve, CanApprove
<1>2. PICK c \in CallRow : c = Call("resume", shown.id) /\ ~ c.served /\ c.run = shown.id
  BY <1>1, CallType DEF SessionInv, Kinds
<1>3. /\ [c EXCEPT !.rows = Displayed] \in CallRow /\ ~ [c EXCEPT !.rows = Displayed].served
      /\ [c EXCEPT !.rows = Displayed].run \in Run
  BY <1>1, <1>2 DEF CallRow
<1>4. GoodCalls(calls \union {[c EXCEPT !.rows = Displayed]})
  BY <1>3, AsPainted, Sends DEF NamesRun, SessionInv
<1>5. calls' = calls \union {[c EXCEPT !.rows = Displayed]}
  BY <1>2, Zenon DEF Approve
<1>6. QED
  BY <1>4, <1>5, AsPainted, Repainted DEF Approve

(* Rebuilding empties the table first.                                     *)
LEMMA RebuildKeeps == SessionInv /\ Rebuild => SessionInv'
<1> SUFFICES ASSUME SessionInv, Rebuild PROVE SessionInv'
  OBVIOUS
<1>1. shown.id \in Run
  BY DisplayedOpen DEF Rebuild
<1>2. GoodTable(table', active, shown') /\ shown' = shown
  BY <1>1, GoodBound DEF Rebuild, SessionInv, RowSet
<1>3. QED
  BY <1>1, <1>2, AsPainted, SendKeeps DEF Rebuild, Kinds

-----------------------------------------------------------------------------
(* The answers.                                                            *)

(* The answers that leave the screen as it is, or only drop a flag.        *)
LEMMA QuietAnswers ==
  ASSUME SessionInv, NEW c \in calls,
         RefreshFailed(c) \/ FailQuietly(c) \/ ReviewFailed(c) \/ UploadAnswered(c)
  PROVE  SessionInv'
<1>1. UNCHANGED <<company, rail, active, shown, table, assets, srv>>
  BY DEF RefreshFailed, FailQuietly, ReviewFailed, UploadAnswered
<1>2. GoodCalls(calls \ {c}) /\ NamesRun(c) /\ c \in CallRow
  BY CallEnds
<1>3. PICK kind \in {"recover", "load"} :
        \/ calls' = calls \ {c}
        \/ calls' = (calls \ {c}) \union {Call(kind, c.run)} /\ c.run \in Run
  BY <1>2 DEF RefreshFailed, FailQuietly, ReviewFailed, UploadAnswered, NamesRun
<1>4. GoodCalls(calls')
  <2>1. ASSUME c.run \in Run
        PROVE  GoodCalls((calls \ {c}) \union {Call(kind, c.run)})
    <3>1. kind \in Kinds
      BY DEF Kinds
    <3>2. QED
      BY <2>1, <3>1, <1>2, CallType, Sends DEF NamesRun, SessionInv
  <2>2. QED
    BY <1>2, <1>3, <2>1
<1>5. QED
  BY <1>1, <1>4, AsPainted, Repainted

(* A list of runs may open one of them.                                    *)
LEMMA ListKeeps ==
  ASSUME SessionInv, NEW c \in calls, ListAnswered(c)
  PROVE  SessionInv'
<1>1. GoodCalls(calls \ {c})
  BY CallEnds
<1>2. UNCHANGED <<company, srv>> /\ rail' \subseteq Run
  BY DEF ListAnswered, Listed
<1>3. CASE c.kind = "first"
  <2>1. PICK r \in KeepOr(active, Listed(c.co)) : Activate(r, calls \ {c})
    BY <1>3 DEF ListAnswered
  <2>2. r \in Run \union {NoRun}
    BY <2>1, AsPainted DEF KeepOr, Listed
  <2>3. QED
    BY <1>1, <1>2, <2>1, <2>2, AsPainted, Activates, Repainted
<1>4. CASE c.kind # "first"
  BY <1>1, <1>2, <1>4, AsPainted, Repainted DEF ListAnswered
<1>5. QED
  BY <1>3, <1>4

(* The answers of a load bind the table to the run that was asked for, if  *)
(* it is still open.                                                       *)
LEMMA LoadKeeps ==
  ASSUME SessionInv, NEW c \in calls, LoadAnswered(c) \/ PayloadAnswered(c) \/ LoadFailed(c)
  PROVE  SessionInv'
<1>1. /\ GoodCalls(calls \ {c}) /\ c \in CallRow /\ c.run \in Run
      /\ c.served /\ c.kind \in {"payload", "refresh"} => c.rows.of = c.run
  BY CallEnds DEF NamesRun, LoadAnswered, PayloadAnswered, LoadFailed
<1>2. UNCHANGED <<company, rail, active, assets, srv>>
  BY DEF LoadAnswered, PayloadAnswered, LoadFailed
<1>3. c.st \in Status /\ c.rows \in RowSet
  BY <1>1 DEF CallRow
<1>4. NoRows \in RowSet
  BY DEF RowSet
<1>5. GoodCalls((calls \ {c}) \union AssetCall(c.run))
  BY <1>1, AssetCalls DEF SessionInv
<1>6. GoodTable(BindEmpty(c.run), active, shown)
  BY <1>1, <1>4, GoodBound DEF SessionInv
<1>7. CASE LoadAnswered(c)
  <2>1. CASE c.run # active \/ CompanyOf[c.run] # c.co
    BY <1>1, <1>2, <1>6, <1>7, <2>1, AsPainted, Repainted DEF LoadAnswered
  <2>2. CASE ~ (c.run # active \/ CompanyOf[c.run] # c.co)
    <3>1. /\ shown' = [id |-> c.run, st |-> c.st] /\ table' = Hydrated(table, shown', flags)
          /\ calls' = (calls \ {c}) \union {[Call("payload", c.run) EXCEPT !.st = c.st]}
      BY <1>7, <2>2, Zenon DEF LoadAnswered
    <3>2. shown' \in [id : Run \union {NoRun}, st : Status] /\ shown'.id # NoRun
      BY <1>1, <1>3, <3>1, ReviewAssumption
    <3>3. GoodTable(table, active, shown')
      BY <3>2, AsPainted DEF GoodTable
    <3>4. GoodTable(table', active, shown')
      BY <3>1, <3>3, GoodHydrated
    <3>5. GoodCalls(calls')
      BY <1>1, <1>3, <3>1, CallWith DEF SessionInv, Kinds
    <3>6. QED
      BY <1>2, <3>2, <3>4, <3>5, AsPainted, Repainted
  <2>3. QED
    BY <2>1, <2>2
<1>8. CASE PayloadAnswered(c)
  <2>1. CASE c.run # active
    BY <1>1, <1>2, <1>8, <2>1, AsPainted, Repainted DEF PayloadAnswered
  <2>2. CASE c.run = active
    <3>1. GoodTable(BindLoaded(c.run, c.rows), active, shown)
      BY <1>1, <1>3, <1>8, GoodBound DEF PayloadAnswered, SessionInv
    <3>2. GoodTable(table', active, shown') /\ shown' = shown
      BY <1>8, <2>2, <3>1, GoodHydrated DEF PayloadAnswered
    <3>3. QED
      BY <1>2, <1>5, <1>8, <2>2, <3>2, AsPainted, Repainted DEF PayloadAnswered
  <2>3. QED
    BY <2>1, <2>2
<1>9. CASE LoadFailed(c)
  <2>1. GoodCalls(calls')
    BY <1>1, <1>5, <1>9 DEF LoadFailed
  <2>2. GoodTable(table', active, shown') /\ shown' = shown
    BY <1>6, <1>9, AsPainted DEF LoadFailed
  <2>3. QED
    BY <1>2, <2>1, <2>2, AsPainted, Repainted
<1>10. QED
  BY <1>7, <1>8, <1>9

(* Records and refreshed rows are taken by the run that asked for them.    *)
LEMMA RefreshKeeps ==
  ASSUME SessionInv, NEW c \in calls, AssetsAnswered(c) \/ RefreshAnswered(c)
  PROVE  SessionInv'
<1>1. /\ GoodCalls(calls \ {c}) /\ c \in CallRow /\ c.run \in Run
      /\ c.served /\ c.kind \in {"payload", "refresh"} => c.rows.of = c.run
  BY CallEnds DEF NamesRun, AssetsAnswered, RefreshAnswered
<1>2. CASE AssetsAnswered(c)
  <2>1. assets' = NoRun \/ assets' = active
    BY <1>2, AsPainted DEF AssetsAnswered
  <2>2. QED
    BY <1>1, <1>2, <2>1, AsPainted, Repainted DEF AssetsAnswered
<1>3. CASE RefreshAnswered(c) /\ c.run # active
  BY <1>1, <1>3, AsPainted, Repainted DEF RefreshAnswered
<1>4. CASE RefreshAnswered(c) /\ c.run = active
  <2> DEFINE t == [table EXCEPT !.rows = c.rows, !.bound = c.run, !.loading = FALSE]
  <2>1. c.rows \in RowSet /\ c.rows.of = c.run
    BY <1>1, <1>4 DEF RefreshAnswered, CallRow
  <2>2. table \in TableRow
    BY DEF SessionInv, Typed
  <2>3. t \in TableRow /\ t.rows = c.rows /\ t.bound = c.run /\ t.edited = table.edited
    BY <1>1, <2>1, <2>2 DEF TableRow
  <2>4. table' = Hydrated(t, shown, flags)
    BY <1>4 DEF RefreshAnswered
  <2> HIDE DEF t
  <2>5. GoodTable(t, active, shown)
    BY <2>1, <2>3, AsPainted DEF GoodTable
  <2>6. QED
    BY <1>1, <1>4, <2>4, <2>5, AsPainted, GoodHydrated, Repainted DEF RefreshAnswered
<1>5. QED
  BY <1>2, <1>3, <1>4

(* A run object painted by a poll, a page action, a rebuild or its         *)
(* recovery, which may also ask for the rail.                              *)
LEMMA PaintKeeps ==
  ASSUME SessionInv, NEW c \in calls, PollAnswered(c) \/ ReviewAnswered(c) \/ RecoverAnswered(c)
  PROVE  SessionInv'
<1>1. GoodCalls(calls \ {c}) /\ c \in CallRow /\ c.run \in Run
  BY CallEnds DEF NamesRun, PollAnswered, ReviewAnswered, RecoverAnswered
<1>2. c.st \in Status
  BY <1>1 DEF CallRow
<1>3. GoodCalls((calls \ {c}) \union {Call("list", NoRun)})
  BY <1>1, CallType, Sends DEF NamesRun, SessionInv, Kinds
<1>4. PICK S \in {calls \ {c}, (calls \ {c}) \union {Call("list", NoRun)}}, f \in {flags, flags'} :
        ApplyRun(c.run, c.st, S, f)
  BY DEF PollAnswered, ReviewAnswered, RecoverAnswered
<1>5. GoodCalls(S)
  BY <1>1, <1>3, <1>4
<1>6. /\ GoodTable(table', active, shown') /\ GoodCalls(calls')
      /\ shown' \in [id : Run \union {NoRun}, st : Status]
  BY <1>1, <1>2, <1>4, <1>5, Applies
<1>7. UNCHANGED <<company, rail, active, assets, srv>>
  BY DEF PollAnswered, ReviewAnswered, RecoverAnswered
<1>8. QED
  BY <1>6, <1>7, AsPainted, Repainted

(* patchGraph and approval paint the run they were sent for, whichever is  *)
(* open: the overlay of edits stays with the open run or is emptied.       *)
LEMMA PaintOther ==
  ASSUME SessionInv, NEW c \in calls, PatchAnswered(c) \/ ApproveAnswered(c)
  PROVE  SessionInv'
<1>1. GoodCalls(calls \ {c}) /\ c \in CallRow /\ c.run \in Run
  BY CallEnds DEF NamesRun, PatchAnswered, ApproveAnswered
<1>2. UNCHANGED <<company, rail, active, assets, srv>>
  BY DEF PatchAnswered, ApproveAnswered
<1>3. CASE ~ c.served
  BY <1>1, <1>2, <1>3, AsPainted, Repainted DEF PatchAnswered, ApproveAnswered
<1>4. CASE c.served
  <2>1. shown' = [id |-> c.run, st |-> c.st]
    BY <1>4 DEF PatchAnswered, ApproveAnswered
  <2>2. shown' \in [id : Run \union {NoRun}, st : Status] /\ shown'.id # NoRun
    BY <1>1, <2>1, ReviewAssumption DEF CallRow
  <2>3. CASE PatchAnswered(c)
    <3>1. GoodTable(table, active, shown')
      BY <2>2, AsPainted DEF GoodTable
    <3>2. table' = Hydrated(table, shown', flags) /\ calls' = calls \ {c}
      BY <1>4, <2>3 DEF PatchAnswered
    <3>3. QED
      BY <1>1, <1>2, <2>2, <3>1, <3>2, AsPainted, GoodHydrated, Repainted
  <2>4. CASE ApproveAnswered(c)
    <3> DEFINE t == [table EXCEPT !.rows = RowsOf(c.run, c.rows.ver), !.bound = c.run,
                                  !.edited = NoRows]
    <3>1. c.rows.ver \in Nat
      BY <1>1 DEF CallRow, RowSet, NoRows
    <3>2. RowsOf(c.run, c.rows.ver) \in RowSet /\ RowsOf(c.run, c.rows.ver).of = c.run
      BY <1>1, <3>1 DEF RowsOf, RowSet
    <3>3. table \in TableRow /\ NoRows \in RowSet
      BY DEF SessionInv, Typed, RowSet
    <3>4. t \in TableRow /\ t.rows.of = c.run /\ t.bound = c.run /\ t.edited = NoRows
      BY <1>1, <3>2, <3>3 DEF TableRow
    <3>5. table' = Hydrated(t, shown', flags') /\ calls' = (calls \ {c}) \union {Call("list", NoRun)}
      BY <1>4, <2>4 DEF ApproveAnswered
    <3> HIDE DEF t
    <3>6. GoodTable(t, active, shown')
      BY <3>4 DEF GoodTable
    <3>7. GoodCalls(calls')
      BY <1>1, <3>5, CallType, Sends DEF NamesRun, SessionInv, Kinds
    <3>8. QED
      BY <1>2, <2>2, <3>5, <3>6, <3>7, AsPainted, GoodHydrated, Repainted
  <2>5. QED
    BY <2>3, <2>4
<1>5. QED
  BY <1>3, <1>4

(* Creating and removing a run change the backend and may open a run.      *)
LEMMA RailKeeps ==
  ASSUME SessionInv, NEW c \in calls, CreateAnswered(c) \/ RemoveAnswered(c)
  PROVE  SessionInv'
<1>1. GoodCalls(calls \ {c}) /\ c.run \in Run
  BY CallEnds DEF NamesRun, CreateAnswered, RemoveAnswered
<1>2. srv \in [Run -> RunRow]
  BY AsPainted
<1>3. CASE CreateAnswered(c)
  <2>1. srv' \in [Run -> RunRow]
    <3> DEFINE new == [srv[c.run] EXCEPT !.exists = TRUE, !.st = "review", !.ver = 1]
    <3>1. new \in RunRow
      BY <1>1, <1>2 DEF RunRow, Status
    <3>2. srv' = [srv EXCEPT ![c.run] = new]
      BY <1>1, <1>2, <1>3 DEF CreateAnswered
    <3> HIDE DEF new
    <3>3. QED
      BY <1>2, <3>1, <3>2
  <2>2. Activate(c.run, calls \ {c}) /\ company' = company /\ rail' \subseteq Run
    BY <1>1, <1>3 DEF CreateAnswered, Listed
  <2>3. QED
    BY <1>1, <2>1, <2>2, AsPainted, Activates, Repainted
<1>4. CASE RemoveAnswered(c)
  <2>1. srv' \in [Run -> RunRow]
    BY <1>1, <1>2, <1>4 DEF RemoveAnswered, RunRow
  <2>2. company' = company /\ rail' \subseteq Run
    BY <1>4 DEF RemoveAnswered, Listed
  <2>3. CASE c.run # active
    BY <1>1, <1>4, <2>1, <2>2, <2>3, AsPainted, Repainted DEF RemoveAnswered
  <2>4. CASE c.run = active
    <3>1. PICK r \in KeepOr(NoRun, rail') : Activate(r, calls \ {c})
      BY <1>4, <2>4 DEF RemoveAnswered
    <3>2. r \in Run \union {NoRun}
      BY <2>2, <3>1 DEF KeepOr
    <3>3. QED
      BY <1>1, <2>1, <2>2, <3>1, <3>2, AsPainted, Activates, Repainted
  <2>5. QED
    BY <2>3, <2>4
<1>5. QED
  BY <1>3, <1>4

-----------------------------------------------------------------------------
(* The backend.                                                            *)

(* The backend answers with the rows of the run it was asked for.          *)
LEMMA ServeKeeps ==
  ASSUME SessionInv, NEW c \in calls, Serve(c)
  PROVE  SessionInv'
<1>1. GoodCalls(calls \ {c}) /\ c \in CallRow /\ c.run \in Run
  BY CallEnds DEF NamesRun, Serve, Snapshots
<1>2. srv \in [Run -> RunRow]
  BY AsPainted
<1>3. Changed(c) \in [Run -> RunRow]
  <2>1. [srv EXCEPT ![c.run].st = "approved"] \in [Run -> RunRow]
    BY <1>1, <1>2 DEF RunRow, Status
  <2>2. [srv EXCEPT ![c.run].ver = @ + 1] \in [Run -> RunRow]
    <3>1. srv[c.run].ver + 1 \in Nat
      BY <1>1, <1>2 DEF RunRow
    <3>2. QED
      BY <1>1, <1>2, <3>1 DEF RunRow
  <2>3. QED
    BY <1>2, <2>1, <2>2 DEF Changed
<1>4. srv' \in [Run -> RunRow]
  BY <1>3 DEF Serve
<1> DEFINE st == IF c.kind \in {"payload", "refresh"} THEN c.st ELSE srv'[c.run].st
           rows == IF c.kind \in {"payload", "refresh"} THEN RowsOf(c.run, srv[c.run].ver)
                   ELSE c.rows
           d == [c EXCEPT !.served = TRUE, !.st = st, !.rows = rows]
<1>5. st \in Status /\ rows \in RowSet
  <2>1. c.st \in Status /\ c.rows \in RowSet
    BY <1>1 DEF CallRow
  <2>2. srv'[c.run].st \in Status /\ srv[c.run].ver \in Nat
    BY <1>1, <1>2, <1>4 DEF RunRow
  <2>3. RowsOf(c.run, srv[c.run].ver) \in RowSet
    BY <1>1, <2>2 DEF RowsOf, RowSet
  <2>4. QED
    BY <2>1, <2>2, <2>3
<1>6. c.kind \in {"payload", "refresh"} => rows.of = c.run
  BY DEF RowsOf
<1>7. calls' = (calls \ {c}) \union {d}
  BY DEF Serve
<1> HIDE DEF st, rows
<1>8. d \in CallRow /\ d.kind = c.kind /\ d.run = c.run /\ d.rows = rows
  BY <1>1, <1>5 DEF CallRow
<1> HIDE DEF d
<1>9. GoodCalls(calls')
  BY <1>1, <1>6, <1>7, <1>8 DEF GoodCalls, NamesRun
<1>10. QED
  BY <1>4, <1>9, AsPainted, Repainted DEF Serve

(* An extraction that ends changes no row.                                 *)
LEMMA FinishKeeps ==
  ASSUME SessionInv, NEW r \in Run, ServerFinish(r)
  PROVE  SessionInv'
<1>1. srv' \in [Run -> RunRow]
  BY AsPainted DEF ServerFinish, RunRow, Status
<1>2. QED
  BY <1>1, AsPainted, Repainted DEF ServerFinish

-----------------------------------------------------------------------------
(* The invariant holds at first and is kept by every step.                 *)

LEMMA SessionInit == ReviewInit => SessionInv
<1> SUFFICES ASSUME ReviewInit PROVE SessionInv
  OBVIOUS
<1>1. srv \in [Run -> RunRow]
  <2>1. PICK S \in OtherModes, first \in [Run -> {"executing", "review"}] :
          srv = [r \in Run |-> [exists |-> TRUE, st |-> first[r], ver |-> 1, other |-> r \in S]]
    BY DEF ReviewInit
  <2>2. ASSUME NEW r \in Run
        PROVE  [exists |-> TRUE, st |-> first[r], ver |-> 1, other |-> r \in S] \in RunRow
    BY DEF RunRow, Status
  <2>3. QED
    BY <2>1, <2>2
<1>2. table \in TableRow /\ table.rows = NoRows /\ table.edited = NoRows
  BY DEF ReviewInit, TableRow, RowSet
<1>3. shown \in [id : Run \union {NoRun}, st : Status]
  BY DEF ReviewInit, NoneShown, Status
<1>4. /\ calls = {Call("first", NoRun)} /\ Call("first", NoRun) \in CallRow
      /\ Call("first", NoRun).kind = "first" /\ ~ Call("first", NoRun).served
  BY DEF ReviewInit, Call, CallRow, Kinds, RowSet, Status
<1>5. Typed
  BY <1>1, <1>2, <1>3, <1>4 DEF ReviewInit, Typed, NamesRun
<1>6. AnswersOwn
  BY <1>4 DEF AnswersOwn
<1>7. QED
  BY <1>2, <1>5, <1>6 DEF ReviewInit, SessionInv, PayloadsBound, OverlayOpen, AssetsOpen

LEMMA SessionStays == SessionInv /\ [ReviewNext]_rvars => SessionInv'
<1> SUFFICES ASSUME SessionInv, [ReviewNext]_rvars PROVE SessionInv'
  OBVIOUS
<1>1. CASE UNCHANGED rvars
  BY <1>1, AsPainted, Repainted DEF rvars
<1>2. CASE \E co \in Company : SwitchCompany(co)
  BY <1>2, SwitchKeeps
<1>3. CASE \E r \in Run : SelectRun(r) \/ ServerFinish(r)
  BY <1>3, SelectKeeps, FinishKeeps
<1>4. CASE Poll \/ PageAction \/ Upload \/ \E r \in Run : CreateRun(r) \/ RemoveRun(r)
  BY <1>4, SendersKeep
<1>5. CASE EditRow \/ PatchGraph \/ Approve \/ Rebuild
  BY <1>5, EditKeeps, PatchKeeps, ApproveKeeps, RebuildKeeps
<1>6. ASSUME NEW c \in calls, Serve(c)
      PROVE  SessionInv'
  BY <1>6, ServeKeeps
<1>7. ASSUME NEW c \in calls, Answered(c)
      PROVE  SessionInv'
  BY <1>7, QuietAnswers, ListKeeps, LoadKeeps, RefreshKeeps, PaintKeeps, PaintOther, RailKeeps
     DEF Answered
<1>8. QED
  BY <1>1, <1>2, <1>3, <1>4, <1>5, <1>6, <1>7 DEF ReviewNext

(* Whatever runs and companies are opened while answers are outstanding,   *)
(* and in whatever order those arrive, the rows and the asset records the  *)
(* Processing screen shows are of the run that is open (tableBoundRunId,   *)
(* activeRunIdRef and clearReviewTableOnRunSwitch of ProcessingView.tsx).  *)
THEOREM NothingOfAnother == ReviewSpec => []NothingOfAnotherRun
<1>1. SessionInv => NothingOfAnotherRun
  BY DisplayedOpen DEF NothingOfAnotherRun, SessionInv, AssetsOpen
<1>2. QED
  BY <1>1, SessionInit, SessionStays, PTL DEF ReviewSpec
=============================================================================
