---------------------------- MODULE Desks_proofs -----------------------------
(***************************************************************************)
(* Theorems about the run control of the Processing page (RunControl), the *)
(* ticks of the Books grids (BooksView), the lists of the settings page    *)
(* (SettingsDesk), the statements of the financial reports                 *)
(* (FinancialReport) and the accounts the set-up wizard adds               *)
(* (CompanyWizard), for every value of their constants.                    *)
(***************************************************************************)
EXTENDS RunControl, BooksView, SettingsDesk, FinancialReport, CompanyWizard,
        FiniteSetTheorems, SequenceTheorems, WellFoundedInduction, TLAPS

-----------------------------------------------------------------------------
Owner == Starts \cup {"patch", "upload"}

AnyKind == Starts \cup Reads \cup {"patch", "cancel", "upload"}

\* What a request in flight looks like
IsReq(q) == /\ q = [kind |-> q.kind, run |-> q.run, st |-> q.st]
            /\ q.kind \in AnyKind /\ q.run \in Runs \cup {NoOne}
ReqRows == \A q \in reqs : IsReq(q)

View == [id : Runs \cup {NoOne}, st : Snap]

Owned(r, S) == \E q \in S : q.run = r /\ q.kind \in Owner

IInv == /\ ReqRows
        /\ view \in View /\ open \in Runs \cup {NoOne}
        /\ busy # NoOne => Owned(busy, reqs)

\* Cancelling the polls of a run takes no mark's owner away
LEMMA FollowingKeeps ==
  ASSUME NEW v, NEW o, NEW S, NEW r
  PROVE  /\ Following(v, o, S) \subseteq S
         /\ Owned(r, S) => Owned(r, Following(v, o, S))
BY DEF Following, Owned, Owner, Starts

\* Neither does painting a status, whether or not the guard drops it
LEMMA ApplyKeeps ==
  ASSUME NEW r \in Runs \cup {NoOne}, NEW st \in Snap, NEW force, NEW S, NEW m,
         view \in View, Apply(r, st, force, S)
  PROVE  /\ reqs' \subseteq S
         /\ Owned(m, S) => Owned(m, reqs')
         /\ view' \in View
<1>1. CASE ~ force /\ Ignored(r, st)
  BY <1>1 DEF Apply
<1>2. CASE ~ (~ force /\ Ignored(r, st))
  <2>1. reqs' = Following(view', open, S)
    BY <1>2 DEF Apply
  <2>2. view' = IF r = open THEN [id |-> r, st |-> st] ELSE view
    BY <1>2 DEF Apply
  <2>3. view' \in View
    BY <2>2 DEF View
  <2> QED BY <2>1, <2>3, FollowingKeeps
<1> QED BY <1>1, <1>2

\* A new request is a record and owns its run if its kind starts something
LEMMA ReqFits ==
  ASSUME NEW kind \in AnyKind, NEW r \in Runs \cup {NoOne}
  PROVE  /\ IsReq(Req(kind, r))
         /\ Req(kind, r).run = r /\ Req(kind, r).kind = kind
BY DEF Req, IsReq

\* Without the request q, every other run still has its owner, and its own
\* run, if it was marked, is not marked any more
LEMMA ReleaseKeeps ==
  ASSUME NEW q \in reqs, IInv, NEW T, reqs \ {q} \subseteq T
  PROVE  Released(q.run) # NoOne => Owned(Released(q.run), T)
BY DEF IInv, Released, Owned

LEMMA OwnedGrows ==
  ASSUME NEW S, NEW T, NEW r, S \subseteq T, Owned(r, S)
  PROVE  Owned(r, T)
BY DEF Owned

-----------------------------------------------------------------------------
LEMMA InitIInv == ControlInit => IInv
BY DEF ControlInit, IInv, ReqRows, View, Snap

\* A request that owns no mark may go
LEMMA UnownedGoes ==
  ASSUME NEW q, q.kind \notin Owner, IInv, NEW T, reqs \ {q} \subseteq T
  PROVE  busy # NoOne => Owned(busy, T)
BY DEF IInv, Owned

\* One request comes in and starts what the mark says, or the mark stays
LEMMA NextIInv == IInv /\ [ControlNext]_cvars => IInv'
<1> SUFFICES ASSUME IInv, [ControlNext]_cvars PROVE IInv'
  OBVIOUS
<1> USE DEF Owner
<1>k. /\ Starts \subseteq AnyKind /\ Reads \subseteq AnyKind
      /\ {"patch", "cancel", "upload"} \subseteq AnyKind
      /\ \A k \in Reads \cup {"cancel"} : k \notin Owner
  BY DEF AnyKind, Starts, Reads
<1>r. \A q \in reqs : IsReq(q) /\ q.kind \in AnyKind /\ q.run \in Runs \cup {NoOne}
  BY DEF IInv, ReqRows, IsReq
<1>1. ASSUME NEW r \in Runs, OpenRun(r) PROVE IInv'
  <2>1. IsReq(Req("load", r))
    BY <1>k, ReqFits DEF Reads
  <2>2. /\ Following(view, r, reqs) \subseteq reqs
        /\ Owned(busy, reqs) => Owned(busy, Following(view, r, reqs))
    BY FollowingKeeps
  <2> QED BY <1>1, <2>1, <2>2, OwnedGrows DEF OpenRun, IInv, ReqRows
<1>2. ASSUME NEW r \in Runs, Finished(r) PROVE IInv'
  <2> DEFINE E(q) == IF q.run = r /\ q.st = "live" THEN [q EXCEPT !.st = "idle"] ELSE q
  <2>1. \A q \in reqs : IsReq(E(q)) /\ E(q).run = q.run /\ E(q).kind = q.kind
    BY <1>r DEF IsReq
  <2>2. reqs' = {E(q) : q \in reqs}
    BY <1>2 DEF Finished
  <2>3. Owned(busy, reqs) => Owned(busy, reqs')
    BY <2>1, <2>2 DEF Owned
  <2> QED BY <1>2, <2>1, <2>2, <2>3 DEF Finished, IInv, ReqRows
<1>v. /\ view \in View /\ view.id \in Runs \cup {NoOne} /\ open \in Runs \cup {NoOne}
      /\ Exec \in Snap /\ "idle" \in Snap
  BY DEF IInv, View, Snap
<1>3. ASSUME Execute PROVE IInv'
  <2>1. /\ IsReq(Req("execute", view.id))
        /\ Req("execute", view.id).run = view.id /\ Req("execute", view.id).kind = "execute"
    BY <1>k, <1>v, ReqFits DEF Starts
  <2>2. [view EXCEPT !.st = Exec] \in View
    BY <1>v DEF View
  <2>3. Owned(view.id, reqs \cup {Req("execute", view.id)})
    BY <2>1 DEF Owned, Starts
  <2> QED BY <1>3, <2>1, <2>2, <2>3 DEF Execute, IInv, ReqRows
<1>4. ASSUME OpenReVlm \/ ReVlmClosed PROVE IInv'
  BY <1>4 DEF OpenReVlm, ReVlmClosed, IInv, ReqRows
<1>5. ASSUME ReVlmConfirm PROVE IInv'
  <2>1. CASE busy = view.id
    BY <1>5, <2>1 DEF ReVlmConfirm, IInv, ReqRows
  <2>2. ASSUME NEW kind \in {"patch", "reVlm"}, busy' = view.id,
               Apply(view.id, Exec, FALSE, reqs \cup {Req(kind, view.id)})
        PROVE  IInv'
    <3>1. /\ IsReq(Req(kind, view.id))
          /\ Req(kind, view.id).run = view.id /\ Req(kind, view.id).kind = kind
      BY <1>k, <1>v, ReqFits DEF Starts
    <3>2. Owned(view.id, reqs \cup {Req(kind, view.id)})
      BY <3>1 DEF Owned, Starts
    <3>3. /\ reqs' \subseteq reqs \cup {Req(kind, view.id)}
          /\ Owned(view.id, reqs') /\ view' \in View
      BY <1>v, <2>2, <3>2, ApplyKeeps
    <3> QED BY <1>5, <2>2, <3>1, <3>3 DEF ReVlmConfirm, IInv, ReqRows
  <2> QED BY <1>5, <2>1, <2>2 DEF ReVlmConfirm, PaintReVlm
<1>6. ASSUME ConfirmCrops PROVE IInv'
  <2>1. /\ IsReq(Req("crops", view.id))
        /\ Req("crops", view.id).run = view.id /\ Req("crops", view.id).kind = "crops"
    BY <1>k, <1>v, ReqFits DEF Starts
  <2>2. Owned(view.id, reqs \cup {Req("crops", view.id)})
    BY <2>1 DEF Owned, Starts
  <2>3. /\ reqs' \subseteq reqs \cup {Req("crops", view.id)}
        /\ Owned(view.id, reqs') /\ view' \in View
    BY <1>6, <1>v, <2>2, ApplyKeeps DEF ConfirmCrops
  <2> QED BY <1>6, <2>1, <2>3 DEF ConfirmCrops, IInv, ReqRows
<1>7. ASSUME Stop PROVE IInv'
  <2>1. IsReq(Req("cancel", view.id))
    BY <1>k, <1>v, ReqFits
  <2>2. /\ reqs' \subseteq reqs \cup {Req("cancel", view.id)} /\ view' \in View
        /\ Owned(busy, reqs \cup {Req("cancel", view.id)}) => Owned(busy, reqs')
    BY <1>7, <1>v, ApplyKeeps DEF Stop
  <2>3. busy # NoOne => Owned(busy, reqs')
    BY <2>2, OwnedGrows DEF IInv
  <2> QED BY <1>7, <2>1, <2>2, <2>3 DEF Stop, Released, IInv, ReqRows
<1>8. ASSUME Upload PROVE IInv'
  <2>1. /\ IsReq(Req("upload", view.id))
        /\ Req("upload", view.id).run = view.id /\ Req("upload", view.id).kind = "upload"
    BY <1>k, <1>v, ReqFits
  <2>2. Owned(view.id, reqs \cup {Req("upload", view.id)})
    BY <2>1 DEF Owned
  <2> QED BY <1>8, <1>v, <2>1, <2>2 DEF Upload, IInv, ReqRows
<1>9. ASSUME Poll \/ SiblingPoll PROVE IInv'
  <2>1. PICK kind \in {"poll", "list"}, r \in Runs \cup {NoOne} :
          reqs' = reqs \cup {Req(kind, r)} /\ UNCHANGED <<open, view, busy>>
    BY <1>9, <1>v DEF Poll, SiblingPoll
  <2>2. IsReq(Req(kind, r))
    BY <1>k, <2>1, ReqFits DEF Reads
  <2> QED BY <2>1, <2>2, OwnedGrows DEF IInv, ReqRows
<1>10. ASSUME NEW q \in reqs, Loaded(q) PROVE IInv'
  <2>1. view' \in View
    BY <1>10, <1>r, <1>v DEF Loaded, View
  <2>2. /\ reqs' \subseteq reqs
        /\ Owned(busy, reqs \ {q}) => Owned(busy, reqs')
    BY <1>10, FollowingKeeps DEF Loaded
  <2>3. busy # NoOne => Owned(busy, reqs \ {q})
    BY <1>10, <1>k, UnownedGoes DEF Loaded, Reads
  <2> QED BY <1>10, <2>1, <2>2, <2>3 DEF Loaded, IInv, ReqRows
<1>11. ASSUME NEW q \in reqs, LoadLost(q) PROVE IInv'
  <2>1. busy # NoOne => Owned(busy, reqs \ {q})
    BY <1>11, <1>k, UnownedGoes DEF LoadLost, Reads
  <2> QED BY <1>11, <2>1, ReleaseKeeps DEF LoadLost, IInv, ReqRows
<1>12. ASSUME NEW q \in reqs, PatchSaved(q) PROVE IInv'
  <2>1. /\ IsReq(Req("reVlm", q.run))
        /\ Req("reVlm", q.run).run = q.run /\ Req("reVlm", q.run).kind = "reVlm"
    BY <1>k, <1>r, ReqFits DEF Starts
  <2> DEFINE S == (reqs \ {q}) \cup {Req("reVlm", q.run)}
  <2>2. Owned(busy, reqs) => Owned(busy, S)
    BY <2>1 DEF Owned, Starts
  <2>3. /\ reqs' \subseteq S /\ view' \in View
        /\ Owned(busy, S) => Owned(busy, reqs')
    BY <1>12, <1>r, <1>v, ApplyKeeps DEF PatchSaved, PaintReVlm
  <2> QED BY <1>12, <2>1, <2>2, <2>3 DEF PatchSaved, IInv, ReqRows
<1>13. ASSUME NEW q \in reqs, StartAnswered(q) PROVE IInv'
  <2>1. IsReq(Req("list", q.run))
    BY <1>k, <1>r, ReqFits DEF Reads
  <2> DEFINE S == (reqs \ {q}) \cup {Req("list", q.run)}
             m == Released(q.run)
  <2>2. m # NoOne => Owned(m, S)
    BY ReleaseKeeps
  <2>3. /\ reqs' \subseteq S /\ view' \in View
        /\ Owned(m, S) => Owned(m, reqs')
    BY <1>13, <1>r, <1>v, ApplyKeeps DEF StartAnswered
  <2> QED BY <1>13, <2>1, <2>2, <2>3 DEF StartAnswered, IInv, ReqRows
<1>14. ASSUME NEW q \in reqs, StartLost(q) PROVE IInv'
  <2>1. PICK kind \in {"get", "getForce"} : reqs' = (reqs \ {q}) \cup {Req(kind, q.run)}
    BY <1>14 DEF StartLost
  <2>2. IsReq(Req(kind, q.run))
    BY <1>k, <1>r, ReqFits DEF Reads
  <2>3. Released(q.run) # NoOne => Owned(Released(q.run), reqs')
    BY <2>1, ReleaseKeeps
  <2> QED BY <1>14, <2>1, <2>2, <2>3 DEF StartLost, IInv, ReqRows
<1>15. ASSUME NEW q \in reqs, StopAnswered(q) PROVE IInv'
  <2>1. IsReq(Req("list", q.run))
    BY <1>k, <1>r, ReqFits DEF Reads
  <2> DEFINE S == (reqs \ {q}) \cup {Req("list", q.run)}
  <2>2. busy # NoOne => Owned(busy, S)
    BY <1>15, <1>k, UnownedGoes DEF StopAnswered
  <2>3. /\ reqs' \subseteq S /\ view' \in View
        /\ Owned(busy, S) => Owned(busy, reqs')
    BY <1>15, <1>r, <1>v, ApplyKeeps DEF StopAnswered
  <2> QED BY <1>15, <2>1, <2>2, <2>3 DEF StopAnswered, IInv, ReqRows
<1>16. ASSUME NEW q \in reqs, StopLost(q) PROVE IInv'
  <2>1. IsReq(Req("getStop", q.run))
    BY <1>k, <1>r, ReqFits DEF Reads
  <2>2. q.kind \notin Owner /\ reqs \ {q} \subseteq reqs'
    BY <1>16, <1>k DEF StopLost
  <2>3. busy # NoOne => Owned(busy, reqs')
    BY <2>2, UnownedGoes
  <2> QED BY <1>16, <2>1, <2>3 DEF StopLost, IInv, ReqRows
<1>17. ASSUME NEW q \in reqs, Uploaded(q) PROVE IInv'
  <2>1. IsReq(Req("load", q.run))
    BY <1>k, <1>r, ReqFits DEF Reads
  <2>2. reqs \ {q} \subseteq reqs'
    BY <1>17 DEF Uploaded
  <2>3. Released(q.run) # NoOne => Owned(Released(q.run), reqs')
    BY <2>2, ReleaseKeeps
  <2> QED BY <1>17, <2>1, <2>3 DEF Uploaded, IInv, ReqRows
<1>18. ASSUME NEW q \in reqs, GetAnswered(q) PROVE IInv'
  <2>1. busy # NoOne => Owned(busy, reqs \ {q})
    BY <1>18, <1>k, UnownedGoes DEF GetAnswered, Reads
  <2>2. /\ reqs' \subseteq reqs \ {q} /\ view' \in View
        /\ Owned(busy, reqs \ {q}) => Owned(busy, reqs')
    BY <1>18, <1>r, <1>v, ApplyKeeps DEF GetAnswered
  <2> QED BY <1>18, <2>1, <2>2 DEF GetAnswered, IInv, ReqRows
<1>19. ASSUME NEW q \in reqs, ListAnswered(q) \/ ReadLost(q) PROVE IInv'
  <2>1. q.kind \notin Owner /\ reqs' = reqs \ {q} /\ UNCHANGED <<open, view, busy>>
    BY <1>19, <1>k DEF ListAnswered, ReadLost, Reads
  <2> QED BY <2>1, UnownedGoes DEF IInv, ReqRows
<1>20. ASSUME NEW q \in reqs, Served(q) PROVE IInv'
  <2> DEFINE ended(p) == q.kind = "cancel" /\ p.run = q.run /\ p.st = "live"
             E(p) == IF ended(p) THEN [p EXCEPT !.st = "idle"] ELSE p
             st == CASE q.kind \in Starts -> "live"
                     [] q.kind = "cancel" -> "idle"
                     [] OTHER -> server[q.run]
             F == [q EXCEPT !.st = st]
  <2>1. reqs' = {E(p) : p \in reqs \ {q}} \cup {F} /\ UNCHANGED <<open, view, busy>>
    BY <1>20, "live" # "idle" DEF Served, Starts
  <2>2. \A p \in reqs : IsReq(E(p)) /\ E(p).run = p.run /\ E(p).kind = p.kind
    BY <1>r DEF IsReq
  <2>3. IsReq(F) /\ F.run = q.run /\ F.kind = q.kind
    <3> HIDE DEF st
    <3> QED BY <1>r DEF IsReq
  <2>4. Owned(busy, reqs) => Owned(busy, reqs')
    <3> HIDE DEF E, F
    <3> QED BY <2>1, <2>2, <2>3 DEF Owned
  <2> QED
    <3> HIDE DEF E, F
    <3> QED BY <2>1, <2>2, <2>3, <2>4 DEF IInv, ReqRows
<1>21. CASE UNCHANGED cvars
  BY <1>21 DEF cvars, IInv, ReqRows
<1> QED
  BY <1>1, <1>2, <1>3, <1>4, <1>5, <1>6, <1>7, <1>8, <1>9, <1>10, <1>11, <1>12, <1>13, <1>14,
     <1>15, <1>16, <1>17, <1>18, <1>19, <1>20, <1>21
     DEF ControlNext, ControlAnswer, ControlLost

-----------------------------------------------------------------------------
\* A run is marked busy (busyRunId) only while a request of its own is in flight
\* that takes the mark away when it is answered or fails, for any number of runs
\* and of requests
THEOREM BusyOwned == ControlSpec => []BusyHasOwner
<1>1. IInv => BusyHasOwner
  BY DEF IInv, Owned, Owner, BusyHasOwner
<1> QED BY <1>1, InitIInv, NextIInv, PTL DEF ControlSpec

-----------------------------------------------------------------------------
(* Types of what a grid holds.  An amount was changed by hand or not.      *)

Version   == {0, 1}
Cell      == [id : GridRow, v : Version]
GridTable == [Kind -> SUBSET Cell]
RowKey    == Batch \X Nat
Drawable  == [key : RowKey, id : GridRow, v : Version]
Ticks     == [key : RowKey, id : GridRow]
Request   == [h : {"load", "save"}, st : {"sent", "read", "done"}, m : Module,
              rows : SUBSET Drawable, batches : SUBSET Batch, tables : [Batch -> GridTable]]

BooksTyped ==
  /\ store \in [Batch -> GridTable] /\ base \in [Batch -> GridTable]
  /\ rows \subseteq Drawable /\ selected \subseteq Ticks /\ dirty \subseteq Batch
  /\ module \in Module \cup {Elsewhere} /\ seq \in Nat
  /\ cell = NoCell \/ cell \in Cell
  /\ gridReqs \subseteq Request
  /\ \A q \in gridReqs : q.h = "save" => q.rows = {}

(* Every key in use and the row it stands for: those drawn, those ticked   *)
(* and those of reloads that are still to be applied.  A key that is drawn *)
(* anew has a number no key in use has.                                    *)
Naming(R) == {<<r.key, r.id>> : r \in R}
InUse  == Naming(rows) \cup Naming(selected) \cup UNION {Naming(q.rows) : q \in gridReqs}
Named(use, n) ==
  /\ \A p \in use : p[1][2] < n
  /\ \A p, q \in use : p[1] = q[1] => p[2] = q[2]

BooksInv == BooksTyped /\ Named(InUse, seq)

(* Keys go out of use, and numbers only grow.                              *)
LEMMA NamedLess ==
  ASSUME NEW use, NEW old, NEW n \in Nat, NEW m \in Nat, Named(old, m), use \subseteq old, m <= n,
         \A p \in old : p[1][2] \in Nat
  PROVE  Named(use, n)
BY DEF Named

-----------------------------------------------------------------------------
(* The keys a reload draws.                                                *)

LEMMA CellsFinite == IsFiniteSet(Cell)
<1> DEFINE f == [p \in GridRow \X Version |-> [id |-> p[1], v |-> p[2]]]
<1>1. IsFiniteSet(Version)
  <2>1. IsFiniteSet({0}) /\ IsFiniteSet({0} \cup {1})
    BY FS_EmptySet, FS_AddElement
  <2>2. QED
    BY <2>1 DEF Version
<1>2. IsFiniteSet(GridRow \X Version)
  BY <1>1, FS_Product, BooksViewAssumption
<1>3. f \in Bijection(GridRow \X Version, Cell)
  <2>1. \A p \in GridRow \X Version : f[p] \in Cell /\ f[p].id = p[1] /\ f[p].v = p[2]
    BY DEF Cell
  <2>2. \A c \in Cell : <<c.id, c.v>> \in GridRow \X Version /\ f[<<c.id, c.v>>] = c
    BY DEF Cell
  <2>3. \A p, q \in GridRow \X Version : p[1] = q[1] /\ p[2] = q[2] => p = q
    OBVIOUS
  <2>4. f \in [GridRow \X Version -> Cell]
    BY <2>1
  <2> HIDE DEF f
  <2>5. f \in Injection(GridRow \X Version, Cell)
    <3>1. \A p, q \in GridRow \X Version : f[p] = f[q] => p = q
      BY <2>1, <2>3
    <3>2. QED
      BY <2>4, <3>1 DEF Injection, IsInjective
  <2>6. f \in Surjection(GridRow \X Version, Cell)
    BY <2>2, <2>4 DEF Surjection
  <2>7. QED
    BY <2>5, <2>6 DEF Bijection
<1>4. QED
  BY <1>2, <1>3, FS_Bijection DEF ExistsBijection

(* A row of a table is numbered by how many come before it, so that two    *)
(* rows of a batch get different numbers (seqRef.current++).               *)
LEMMA NumberedKeys ==
  ASSUME NEW n \in Nat, NEW rank \in [Batch -> 1..Cardinality(Batch)], NEW R \in SUBSET Cell
  PROVE  /\ Cardinality(R) \in Nat
         /\ \A k \in Numbered(n, rank, R) :
              k \in Drawable /\ n <= k.key[2] /\ k.key[2] < n + Cardinality(R)
         /\ \A k, l \in Numbered(n, rank, R) : k.key = l.key => k.id = l.id
<1> DEFINE Place(r) == {q \in R : Before(rank, q, r)}
           Key(r) == [key |-> <<BatchOf[r.id], n + Cardinality(Place(r))>>, id |-> r.id, v |-> r.v]
<1>1. IsFiniteSet(R) /\ Cardinality(R) \in Nat
  BY CellsFinite, FS_Subset, FS_CardinalityType
<1>2. \A b \in Batch : rank[b] \in Nat
  BY FS_CardinalityType, BooksViewAssumption
<1>3. \A r \in R : r.id \in GridRow /\ r.v \in Version /\ BatchOf[r.id] \in Batch /\ Pos[r.id] \in Nat
  BY BooksViewAssumption DEF Cell
<1>4. ASSUME NEW r \in R
      PROVE  /\ IsFiniteSet(Place(r)) /\ Cardinality(Place(r)) \in Nat
             /\ Cardinality(Place(r)) < Cardinality(R)
  <2>1. ~ Before(rank, r, r)
    BY <1>2, <1>3 DEF Before
  <2>2. Place(r) \in SUBSET R /\ Place(r) # R
    BY <2>1
  <2>3. IsFiniteSet(Place(r)) /\ Cardinality(Place(r)) \in Nat
    BY <1>1, <2>2, FS_Subset, FS_CardinalityType
  <2>4. Cardinality(Place(r)) <= Cardinality(R) /\ Cardinality(R) # Cardinality(Place(r))
    BY <1>1, <2>2, FS_Subset
  <2>5. QED
    BY <1>1, <2>3, <2>4
<1>5. ASSUME NEW q \in R, NEW r \in R, BatchOf[q.id] = BatchOf[r.id], Pos[q.id] < Pos[r.id]
      PROVE  Cardinality(Place(q)) # Cardinality(Place(r))
  <2>1. Before(rank, q, r) /\ ~ Before(rank, q, q)
    BY <1>2, <1>3, <1>5 DEF Before
  <2>2. \A p \in R : Before(rank, p, q) => Before(rank, p, r)
    BY <1>2, <1>3, <1>5 DEF Before
  <2>3. Place(q) \in SUBSET Place(r) /\ Place(q) # Place(r)
    BY <2>1, <2>2
  <2>4. QED
    BY <1>4, <2>3, FS_Subset
<1>6. Numbered(n, rank, R) = {Key(r) : r \in R}
  BY DEF Numbered
<1>7. ASSUME NEW k \in Numbered(n, rank, R)
      PROVE  k \in Drawable /\ n <= k.key[2] /\ k.key[2] < n + Cardinality(R)
  <2>1. PICK r \in R : k = Key(r)
    BY <1>6
  <2>2. DEFINE c == Cardinality(Place(r))
  <2>3. c \in Nat /\ c < Cardinality(R)
    BY <1>4
  <2>4. k = [key |-> <<BatchOf[r.id], n + c>>, id |-> r.id, v |-> r.v]
    BY <2>1
  <2> HIDE DEF c
  <2>5. QED
    BY <1>1, <1>3, <2>3, <2>4 DEF Drawable, RowKey
<1>8. ASSUME NEW k \in Numbered(n, rank, R), NEW l \in Numbered(n, rank, R), k.key = l.key
      PROVE  k.id = l.id
  <2>1. PICK q \in R : k = Key(q)
    BY <1>6
  <2>2. PICK r \in R : l = Key(r)
    BY <1>6
  <2>3. DEFINE c == Cardinality(Place(q)) d == Cardinality(Place(r))
  <2>4. c \in Nat /\ d \in Nat
    BY <1>4
  <2>5. k.id = q.id /\ k.key = <<BatchOf[q.id], n + c>> /\ l.id = r.id /\ l.key = <<BatchOf[r.id], n + d>>
    BY <2>1, <2>2
  <2>6. Pos[q.id] < Pos[r.id] \/ Pos[r.id] < Pos[q.id] \/ Pos[q.id] = Pos[r.id]
    BY <1>3
  <2>7. BatchOf[q.id] = BatchOf[r.id] => c # d \/ Pos[q.id] = Pos[r.id]
    BY <1>5, <2>6
  <2> HIDE DEF c, d
  <2>8. BatchOf[q.id] = BatchOf[r.id] /\ c = d
    <3>1. <<BatchOf[q.id], n + c>> = <<BatchOf[r.id], n + d>>
      BY <1>8, <2>5
    <3>2. BatchOf[q.id] = BatchOf[r.id] /\ n + c = n + d
      BY <3>1
    <3>3. QED
      BY <2>4, <3>2
  <2>9. q.id = r.id
    BY <1>3, <2>7, <2>8, BooksViewAssumption
  <2>10. QED
    BY <2>5, <2>9
<1>9. QED
  BY <1>1, <1>7, <1>8

-----------------------------------------------------------------------------
(* The invariant, action by action.                                        *)

(* Where no reload is read, a key in use was in use before.                *)
LEMMA NamesKept ==
  ASSUME Named(InUse, seq), seq' = seq,
         Naming(rows') \subseteq InUse, Naming(selected') \subseteq InUse,
         \A q \in gridReqs' : Naming(q.rows) \subseteq InUse
  PROVE  Named(InUse', seq')
<1>1. InUse' \subseteq InUse
  BY DEF InUse, Naming
<1>2. QED
  BY <1>1 DEF Named

LEMMA NamesInUse ==
  /\ Naming(rows) \subseteq InUse /\ Naming(selected) \subseteq InUse
  /\ \A q \in gridReqs : Naming(q.rows) \subseteq InUse
BY DEF InUse

(* A reload is a request with nothing read yet.                            *)
LEMMA ReloadTyped ==
  ASSUME NEW m \in Module
  PROVE  Reload(m) \in Request /\ Reload(m).h = "load" /\ Reload(m).rows = {} /\ Naming(Reload(m).rows) = {}
BY DEF Reload, Request, NoTables, NoTable, GridTable, Naming

LEMMA BooksStarts == BooksViewInit => BooksInv
<1>1. SUFFICES ASSUME BooksViewInit PROVE BooksInv
  OBVIOUS
<1>2. store \in [Batch -> GridTable]
  <2>1. \A r \in GridRow : AsRead(r) \in Cell
    BY DEF AsRead, Cell, Version
  <2>2. QED
    BY <1>1, <2>1 DEF BooksViewInit, GridTable
<1>3. BooksTyped
  BY <1>1, <1>2 DEF BooksViewInit, BooksTyped, NoTables, NoTable, GridTable
<1>4. InUse = {}
  BY <1>1 DEF BooksViewInit, InUse, Naming
<1>5. QED
  BY <1>3, <1>4 DEF BooksInv, Named

LEMMA TabSteps ==
  ASSUME BooksInv, SelectModule \/ LeaveModules \/ SetStatusFilter \/ Search
  PROVE  BooksInv'
<1>1. BooksTyped /\ Named(InUse, seq)
  BY DEF BooksInv
<1>2. ASSUME NEW m \in Module, Mount(m), UNCHANGED store PROVE BooksInv'
  <2>1. /\ rows' = {} /\ dirty' = {} /\ seq' = 0 /\ base' = NoTables /\ selected' = {}
        /\ gridReqs' = {Reload(m)} /\ module' = m /\ cell' = cell /\ store' = store
    BY <1>2 DEF Mount
  <2>2. InUse' = {}
    BY <2>1, ReloadTyped DEF InUse, Naming
  <2>3. BooksTyped'
    BY <1>1, <2>1, ReloadTyped DEF BooksTyped, NoTables, NoTable, GridTable
  <2>4. QED
    BY <2>2, <2>3 DEF BooksInv, Named
<1>3. ASSUME NEW m \in Module, module' = m \/ module' = module, gridReqs' = gridReqs \union {Reload(m)},
             UNCHANGED <<store, rows, dirty, seq, base, selected, cell>>
      PROVE  BooksInv'
  <2>1. BooksTyped'
    BY <1>1, <1>3, ReloadTyped DEF BooksTyped
  <2>2. QED
    BY <1>1, <1>3, <2>1, NamesInUse, NamesKept, ReloadTyped DEF BooksInv
<1>4. CASE SelectModule
  BY <1>2, <1>3, <1>4 DEF SelectModule, Inherit, grid
<1>5. CASE LeaveModules
  <2>1. /\ rows' = {} /\ dirty' = {} /\ seq' = 0 /\ base' = NoTables /\ selected' = {}
        /\ gridReqs' = {q \in gridReqs : q.h = "save"} /\ module' = Elsewhere /\ cell' = cell /\ store' = store
    BY <1>5 DEF LeaveModules
  <2>2. InUse' = {}
    BY <1>1, <2>1 DEF InUse, Naming, BooksTyped
  <2>3. BooksTyped'
    BY <1>1, <2>1 DEF BooksTyped, NoTables, NoTable, GridTable
  <2>4. QED
    BY <2>2, <2>3 DEF BooksInv, Named
<1>6. CASE SetStatusFilter
  <2>1. UNCHANGED <<store, module, rows, dirty, seq, base, selected, cell, gridReqs>>
    BY <1>6 DEF SetStatusFilter, hook
  <2>2. QED
    BY <1>1, <2>1 DEF BooksInv, BooksTyped, InUse
<1>7. CASE Search
  <2>1. module \in Module
    BY <1>1, <1>7 DEF Search, Mounted, BooksTyped
  <2>2. QED
    BY <1>3, <1>7, <2>1 DEF Search, grid
<1>8. QED
  BY <1>4, <1>5, <1>6, <1>7

(* Reading draws new keys; they differ from those of every earlier reload, *)
(* the one that is drawn and those ticked included.                        *)
LEMMA ReadSteps ==
  ASSUME BooksInv, ReloadRead \/ ReloadApplied \/ ReloadLost
  PROVE  BooksInv'
<1>1. BooksTyped /\ Named(InUse, seq)
  BY DEF BooksInv
<1>2. CASE ReloadRead
  <2>1. PICK q \in gridReqs, rank \in [Batch -> 1..Cardinality(Batch)] :
          /\ q.h = "load"
          /\ LET T == [b \in Batch |-> IF ModuleOf[b] = q.m THEN store[b] ELSE NoTable]
                 R == UNION {T[b][KindOf(q.m)] : b \in Batch}
             IN  /\ gridReqs' = (gridReqs \ {q}) \union
                        {[q EXCEPT !.st = "read", !.rows = Keyed(rank, R), !.tables = T]}
                 /\ seq' = seq + Cardinality(R)
          /\ UNCHANGED <<store, module, rows, dirty, base, selected, cell>>
    BY <1>2 DEF ReloadRead, grid
  <2> DEFINE T == [b \in Batch |-> IF ModuleOf[b] = q.m THEN store[b] ELSE NoTable]
             R == UNION {T[b][KindOf(q.m)] : b \in Batch}
             new == Keyed(rank, R)
             q2 == [q EXCEPT !.st = "read", !.rows = new, !.tables = T]
  <2>2. q \in Request /\ q.m \in Module /\ seq \in Nat
    BY <1>1 DEF BooksTyped, Request
  <2>3. T \in [Batch -> GridTable]
    BY <1>1 DEF BooksTyped, NoTable, GridTable
  <2>4. R \in SUBSET Cell
    <3>1. KindOf(q.m) \in Kind
      BY DEF KindOf, Kind
    <3>2. \A b \in Batch : T[b][KindOf(q.m)] \in SUBSET Cell
      BY <2>3, <3>1 DEF GridTable
    <3>3. QED
      BY <3>2
  <2>5. gridReqs' = (gridReqs \ {q}) \union {q2} /\ seq' = seq + Cardinality(R)
    BY <2>1
  <2> HIDE DEF T, R
  <2>6. /\ Cardinality(R) \in Nat
        /\ \A k \in new : k \in Drawable /\ seq <= k.key[2] /\ k.key[2] < seq + Cardinality(R)
        /\ \A k, l \in new : k.key = l.key => k.id = l.id
    BY <2>2, <2>4, NumberedKeys DEF Keyed
  <2> HIDE DEF new
  <2>7. q2 \in Request /\ q2.h = "load" /\ q2.rows = new
    BY <2>1, <2>2, <2>3, <2>6 DEF Request
  <2> HIDE DEF q2
  <2>8. BooksTyped'
    <3>1. seq' \in Nat
      BY <2>2, <2>5, <2>6
    <3>2. gridReqs' \subseteq Request
      BY <1>1, <2>5, <2>7 DEF BooksTyped
    <3>3. \A r \in gridReqs' : r.h = "save" => r.rows = {}
      BY <1>1, <2>5, <2>7 DEF BooksTyped
    <3>4. QED
      BY <1>1, <2>1, <3>1, <3>2, <3>3 DEF BooksTyped
  <2>9. InUse' \subseteq InUse \union Naming(new)
    BY <2>1, <2>5, <2>7 DEF InUse, Naming
  <2>10. \A p \in InUse : p[1][2] \in Nat /\ p[1][2] < seq
    <3>1. \A k \in Drawable \union Ticks : k.key[2] \in Nat
      BY DEF Drawable, Ticks, RowKey
    <3>2. \A r \in gridReqs : r.rows \subseteq Drawable
      BY <1>1 DEF BooksTyped, Request
    <3>3. \A p \in InUse : \E k \in Drawable \union Ticks : p = <<k.key, k.id>>
      BY <1>1, <3>2 DEF InUse, Naming, BooksTyped
    <3>4. QED
      BY <1>1, <3>1, <3>3 DEF Named
  <2>11. \A p \in Naming(new) : /\ seq <= p[1][2] /\ p[1][2] < seq + Cardinality(R) /\ p[1][2] \in Nat
                                /\ \E k \in new : p = <<k.key, k.id>>
    BY <2>6 DEF Naming, Drawable, RowKey
  <2>12. \A p \in InUse, k \in Naming(new) : p[1] # k[1]
    BY <2>2, <2>10, <2>11
  <2>13. \A p, k \in Naming(new) : p[1] = k[1] => p[2] = k[2]
    BY <2>6, <2>11
  <2>14. \A p, k \in InUse : p[1] = k[1] => p[2] = k[2]
    BY <1>1 DEF Named
  <2>15. \A p \in InUse \union Naming(new) : p[1][2] < seq'
    BY <2>2, <2>5, <2>6, <2>10, <2>11
  <2>16. Named(InUse', seq')
    BY <2>9, <2>12, <2>13, <2>14, <2>15 DEF Named
  <2>17. QED
    BY <2>8, <2>16 DEF BooksInv
<1>3. CASE ReloadApplied
  <2>1. PICK q \in gridReqs :
          /\ q.h = "load" /\ rows' = q.rows /\ base' = q.tables /\ dirty' = {} /\ cell' = NoCell
          /\ gridReqs' = gridReqs \ {q}
          /\ UNCHANGED <<store, module, seq, selected>>
    BY <1>3 DEF ReloadApplied
  <2>2. BooksTyped'
    BY <1>1, <2>1 DEF BooksTyped, Request
  <2>3. Named(InUse', seq')
    BY <1>1, <2>1, NamesInUse, NamesKept
  <2>4. QED
    BY <2>2, <2>3 DEF BooksInv
<1>4. CASE ReloadLost
  <2>1. PICK q \in gridReqs :
          /\ gridReqs' = gridReqs \ {q}
          /\ UNCHANGED <<store, module, rows, dirty, seq, base, selected, cell>>
    BY <1>4 DEF ReloadLost, grid
  <2>2. BooksTyped'
    BY <1>1, <2>1 DEF BooksTyped
  <2>3. Named(InUse', seq')
    BY <1>1, <2>1, NamesInUse, NamesKept
  <2>4. QED
    BY <2>2, <2>3 DEF BooksInv
<1>5. QED
  BY <1>2, <1>3, <1>4

LEMMA PickSteps ==
  ASSUME BooksInv, ToggleSelect \/ ToggleAll \/ DeleteSelected
  PROVE  BooksInv'
<1>1. BooksTyped /\ Named(InUse, seq)
  BY DEF BooksInv
<1>2. ASSUME rows' \subseteq rows, dirty' \subseteq Batch,
             \A s \in selected' : s \in selected \/ \E r \in rows : s = Tick(r),
             UNCHANGED <<store, module, seq, base, cell, gridReqs>>
      PROVE  BooksInv'
  <2>1. \A r \in rows : Tick(r) \in Ticks
    BY <1>1 DEF BooksTyped, Drawable, Ticks, Tick
  <2>2. BooksTyped'
    BY <1>1, <1>2, <2>1 DEF BooksTyped
  <2>3. Naming(rows') \subseteq InUse /\ Naming(selected') \subseteq InUse
    <3>1. \A r \in rows : <<Tick(r).key, Tick(r).id>> \in Naming(rows)
      BY DEF Naming, Tick
    <3>2. QED
      BY <1>2, <3>1, NamesInUse DEF Naming
  <2>4. Named(InUse', seq')
    BY <1>1, <1>2, <2>3, NamesInUse, NamesKept
  <2>5. QED
    BY <2>2, <2>4 DEF BooksInv
<1>3. CASE ToggleSelect
  <2>1. /\ \E r \in rows : selected' = IF Ticked(r) THEN {s \in selected : s.key # r.key}
                                                   ELSE selected \union {Tick(r)}
        /\ UNCHANGED <<store, module, rows, dirty, seq, base, cell, gridReqs>>
    BY <1>3 DEF ToggleSelect, hook
  <2>2. QED
    BY <1>1, <1>2, <2>1 DEF BooksTyped
<1>4. CASE ToggleAll
  <2> DEFINE passed == {r \in rows : Visible(r)}
  <2>1. /\ selected' = IF \A r \in passed : Ticked(r)
                         THEN {s \in selected : \A r \in passed : s.key # r.key}
                         ELSE {s \in selected : \A r \in passed : s.key # r.key} \union {Tick(r) : r \in passed}
        /\ UNCHANGED <<store, module, rows, dirty, seq, base, cell, gridReqs>>
    BY <1>4 DEF ToggleAll, hook
  <2>2. QED
    BY <1>1, <1>2, <2>1 DEF BooksTyped
<1>5. CASE DeleteSelected
  <2> DEFINE gone == {r \in rows : Ticked(r) /\ r.id \notin Locked}
  <2>1. /\ rows' = rows \ gone /\ dirty' = dirty \union {BatchOf[r.id] : r \in gone} /\ selected' = {}
        /\ UNCHANGED <<store, module, seq, base, cell, gridReqs>>
    BY <1>5 DEF DeleteSelected
  <2>2. dirty' \subseteq Batch
    BY <1>1, <2>1, BooksViewAssumption DEF BooksTyped, Drawable
  <2>3. QED
    BY <1>2, <2>1, <2>2
<1>6. QED
  BY <1>3, <1>4, <1>5

LEMMA AmountSteps ==
  ASSUME BooksInv, FocusAmount \/ TypeAmount \/ BlurAmount
  PROVE  BooksInv'
<1>1. BooksTyped /\ Named(InUse, seq)
  BY DEF BooksInv
<1>2. ASSUME cell' = NoCell \/ cell' \in Cell,
             UNCHANGED <<store, module, rows, dirty, seq, base, selected, gridReqs>>
      PROVE  BooksInv'
  BY <1>1, <1>2 DEF BooksInv, BooksTyped, InUse
<1>3. CASE FocusAmount
  <2>1. /\ \E r \in rows : cell' = [id |-> r.id, v |-> r.v]
        /\ UNCHANGED <<store, module, rows, dirty, seq, base, selected, gridReqs>>
    BY <1>3 DEF FocusAmount, hook
  <2>2. QED
    BY <1>1, <1>2, <2>1 DEF BooksTyped, Drawable, Cell
<1>4. CASE TypeAmount
  <2>1. /\ cell # NoCell /\ cell' = [cell EXCEPT !.v = 1]
        /\ UNCHANGED <<store, module, rows, dirty, seq, base, selected, gridReqs>>
    BY <1>4 DEF TypeAmount, hook
  <2>2. QED
    BY <1>1, <1>2, <2>1 DEF BooksTyped, Cell, Version
<1>5. CASE BlurAmount
  <2>1. /\ cell # NoCell /\ cell' = NoCell
        /\ rows' = {IF r.id = cell.id THEN [r EXCEPT !.v = cell.v] ELSE r : r \in rows}
        /\ dirty' = dirty \union {BatchOf[r.id] : r \in {q \in rows : q.id = cell.id}}
        /\ UNCHANGED <<store, module, seq, base, selected, gridReqs>>
    BY <1>5 DEF BlurAmount
  <2>2. \A r \in rows : /\ r \in Drawable
                        /\ [r EXCEPT !.v = cell.v] \in Drawable
                        /\ [r EXCEPT !.v = cell.v].key = r.key /\ [r EXCEPT !.v = cell.v].id = r.id
    BY <1>1, <2>1 DEF BooksTyped, Cell, Drawable
  <2>3. \A k \in rows' : k \in Drawable /\ \E r \in rows : k.key = r.key /\ k.id = r.id
    BY <2>1, <2>2
  <2>4. dirty' \subseteq Batch
    BY <1>1, <2>1, <2>2, BooksViewAssumption DEF BooksTyped, Drawable
  <2>5. BooksTyped'
    BY <1>1, <2>1, <2>3, <2>4 DEF BooksTyped
  <2>6. Naming(rows') \subseteq Naming(rows)
    BY <2>3 DEF Naming
  <2>7. Named(InUse', seq')
    BY <1>1, <2>1, <2>6, NamesInUse, NamesKept
  <2>8. QED
    BY <2>5, <2>7 DEF BooksInv
<1>6. QED
  BY <1>3, <1>4, <1>5

LEMMA SaveSteps ==
  ASSUME BooksInv, SaveAll \/ Persisted \/ SaveAnswered
  PROVE  BooksInv'
<1>1. BooksTyped /\ Named(InUse, seq)
  BY DEF BooksInv
<1>2. CASE SaveAll
  <2> DEFINE T == [b \in Batch |-> IF b \in dirty THEN Written(b) ELSE base[b]]
  <2>1. /\ module \in Module /\ base' = T
        /\ gridReqs' = gridReqs \union {[Reload(module) EXCEPT !.h = "save", !.batches = dirty, !.tables = T]}
        /\ UNCHANGED <<store, module, rows, dirty, seq, selected, cell>>
    BY <1>1, <1>2 DEF SaveAll, grid, Mounted, BooksTyped
  <2>2. T \in [Batch -> GridTable]
    <3>1. \A b \in Batch : {[id |-> r.id, v |-> r.v] : r \in {q \in rows : BatchOf[q.id] = b}} \in SUBSET Cell
      BY <1>1 DEF BooksTyped, Drawable, Cell
    <3>2. \A b \in Batch : Written(b) \in GridTable
      BY <1>1, <3>1 DEF Written, BooksTyped, GridTable
    <3>3. QED
      BY <1>1, <3>2 DEF BooksTyped
  <2> HIDE DEF T
  <2>3. PICK l : l = Reload(module)
    OBVIOUS
  <2> DEFINE q == [l EXCEPT !.h = "save", !.batches = dirty, !.tables = T]
  <2>4. gridReqs' = gridReqs \union {q}
    BY <2>1, <2>3, Zenon
  <2>5. q \in Request /\ q.rows = {} /\ Naming(q.rows) = {}
    <3>1. l \in Request /\ l.rows = {}
      BY <2>1, <2>3, ReloadTyped
    <3>2. dirty \in SUBSET Batch
      BY <1>1 DEF BooksTyped
    <3>3. q \in Request /\ q.rows = l.rows
      BY <2>2, <3>1, <3>2 DEF Request
    <3>4. QED
      BY <3>1, <3>3 DEF Naming
  <2> HIDE DEF q
  <2>6. BooksTyped'
    BY <1>1, <2>1, <2>2, <2>4, <2>5 DEF BooksTyped
  <2>7. Named(InUse', seq')
    BY <1>1, <2>1, <2>4, <2>5, NamesInUse, NamesKept
  <2>8. QED
    BY <2>6, <2>7 DEF BooksInv
<1>3. CASE Persisted
  <2>1. PICK q \in gridReqs :
          /\ q.h = "save"
          /\ store' = [b \in Batch |-> IF b \in q.batches THEN Shaped(b, q.tables[b]) ELSE store[b]]
          /\ gridReqs' = (gridReqs \ {q}) \union {[q EXCEPT !.st = "done"]}
          /\ UNCHANGED <<module, rows, dirty, seq, base, selected, cell>>
    BY <1>3 DEF Persisted, hook, grid
  <2> DEFINE q2 == [q EXCEPT !.st = "done"]
  <2>2. /\ q2 \in Request /\ q2.rows = {} /\ Naming(q2.rows) = {}
        /\ gridReqs' = (gridReqs \ {q}) \union {q2}
    BY <1>1, <2>1 DEF BooksTyped, Request, Naming
  <2> HIDE DEF q2
  <2>3. q.tables \in [Batch -> GridTable]
    BY <1>1 DEF BooksTyped, Request
  <2>4. \A b \in Batch : Shaped(b, q.tables[b]) \in GridTable
    BY <2>3 DEF Shaped, ShapedTable, GridTable
  <2>5. store' \in [Batch -> GridTable]
    BY <1>1, <2>1, <2>4 DEF BooksTyped
  <2>6. BooksTyped'
    BY <1>1, <2>1, <2>2, <2>5 DEF BooksTyped
  <2>7. Named(InUse', seq')
    BY <1>1, <2>1, <2>2, NamesInUse, NamesKept
  <2>8. QED
    BY <2>6, <2>7 DEF BooksInv
<1>4. CASE SaveAnswered
  <2>1. PICK q \in gridReqs :
          /\ gridReqs' = gridReqs \ {q} /\ dirty' \subseteq dirty
          /\ UNCHANGED <<store, module, rows, seq, base, selected, cell>>
    BY <1>4 DEF SaveAnswered, grid
  <2>2. BooksTyped'
    BY <1>1, <2>1 DEF BooksTyped
  <2>3. Named(InUse', seq')
    BY <1>1, <2>1, NamesInUse, NamesKept
  <2>4. QED
    BY <2>2, <2>3 DEF BooksInv
<1>5. QED
  BY <1>2, <1>3, <1>4

LEMMA BooksSteps == BooksInv /\ [BooksViewNext]_viewVars => BooksInv'
<1>1. ASSUME BooksInv, UNCHANGED viewVars PROVE BooksInv'
  BY <1>1 DEF viewVars, hook, grid, BooksInv, BooksTyped, InUse
<1>2. QED
  BY <1>1, TabSteps, ReadSteps, PickSteps, AmountSteps, SaveSteps DEF BooksViewNext

(* However many reloads read the batches and in whatever order they are    *)
(* applied, over switches of module and edits, a row that is drawn as      *)
(* selected is the row the user ticked: the numbers of the keys only grow  *)
(* while the grid is mounted (seqRef of useModuleTransactions.ts).         *)
THEOREM TicksFollow == BooksViewSpec => []TicksFollowRows
<1>1. BooksInv => TicksFollowRows
  <2>1. SUFFICES ASSUME BooksInv, NEW r \in rows, NEW s \in selected, r.key = s.key PROVE r.id = s.id
    BY DEF TicksFollowRows
  <2>2. <<r.key, r.id>> \in InUse /\ <<s.key, s.id>> \in InUse
    BY NamesInUse DEF Naming
  <2>3. QED
    BY <2>1, <2>2 DEF BooksInv, Named
<1>2. QED
  BY <1>1, BooksStarts, BooksSteps, PTL DEF BooksViewSpec

-----------------------------------------------------------------------------
(* The settings page.  A load of the present sequence number is one of the *)
(* present company: the number grows with every change of company, and     *)
(* what a chain of loads sends later carries the number of its beginning   *)
(* but the company of the later moment.                                    *)

Loads == List \cup {"memory"}
LoadOk(q, s, c) == q.seq \in Nat /\ q.seq <= s /\ (q.kind \in Loads /\ q.seq = s => q.co = c)

SettingsInv ==
  /\ loadSeq \in Nat /\ shown \in [List -> {NoCompany, active}]
  /\ \A q \in asked : LoadOk(q, loadSeq, active)

(* The requests the handlers send.                                         *)
LEMMA AskedOk ==
  ASSUME loadSeq \in Nat, NEW k, NEW l, NEW x, NEW y, NEW s \in Nat, s <= loadSeq
  PROVE  /\ LoadOk(Ask(k), loadSeq, active)
         /\ LoadOk([Ask(k) EXCEPT !.seq = s, !.mode = x, !.chain = TRUE], loadSeq, active)
         /\ LoadOk([Ask(k) EXCEPT !.seq = s, !.mode = x], loadSeq, active)
         /\ LoadOk([Ask(k) EXCEPT !.list = l], loadSeq, active)
         /\ LoadOk([Ask(k) EXCEPT !.mode = x], loadSeq, active)
         /\ LoadOk([Ask(k) EXCEPT !.bal = x, !.typed = y], loadSeq, active)
         /\ LoadOk([Ask(k) EXCEPT !.text = x, !.ver = y], loadSeq, active)
         /\ LoadOk([Ask(k) EXCEPT !.companies = x], loadSeq, active)
         /\ LoadOk([Ask("delete") EXCEPT !.co = x, !.companies = y], loadSeq, active)
         /\ LoadOk([Ask(k) EXCEPT !.co = x, !.seq = loadSeq + 1, !.chain = TRUE], loadSeq + 1, x)
<1>1. ASSUME NEW b, NEW kind, b = Ask(kind)
      PROVE  /\ LoadOk(b, loadSeq, active)
             /\ LoadOk([b EXCEPT !.seq = s, !.mode = x, !.chain = TRUE], loadSeq, active)
             /\ LoadOk([b EXCEPT !.seq = s, !.mode = x], loadSeq, active)
             /\ LoadOk([b EXCEPT !.list = l], loadSeq, active)
             /\ LoadOk([b EXCEPT !.mode = x], loadSeq, active)
             /\ LoadOk([b EXCEPT !.bal = x, !.typed = y], loadSeq, active)
             /\ LoadOk([b EXCEPT !.text = x, !.ver = y], loadSeq, active)
             /\ LoadOk([b EXCEPT !.companies = x], loadSeq, active)
             /\ kind \notin Loads => LoadOk([b EXCEPT !.co = x, !.companies = y], loadSeq, active)
             /\ LoadOk([b EXCEPT !.co = x, !.seq = loadSeq + 1, !.chain = TRUE], loadSeq + 1, x)
  <2>1. b = [kind |-> kind, co |-> active, seq |-> loadSeq, mode |-> memoryMode, text |-> NoText,
             ver |-> 0, bal |-> NoBalance, typed |-> FALSE, chain |-> FALSE,
             list |-> "coa", companies |-> {}, was |-> active]
    BY <1>1 DEF Ask
  <2>2. LoadOk(b, loadSeq, active)
    BY <2>1 DEF LoadOk
  <2>3. LoadOk([b EXCEPT !.seq = s, !.mode = x, !.chain = TRUE], loadSeq, active)
    BY <2>1 DEF LoadOk
  <2>4. LoadOk([b EXCEPT !.seq = s, !.mode = x], loadSeq, active)
    BY <2>1 DEF LoadOk
  <2>5. LoadOk([b EXCEPT !.list = l], loadSeq, active) /\ LoadOk([b EXCEPT !.mode = x], loadSeq, active)
    BY <2>1 DEF LoadOk
  <2>6. LoadOk([b EXCEPT !.bal = x, !.typed = y], loadSeq, active)
    BY <2>1 DEF LoadOk
  <2>7. LoadOk([b EXCEPT !.text = x, !.ver = y], loadSeq, active)
    BY <2>1 DEF LoadOk
  <2>8. LoadOk([b EXCEPT !.companies = x], loadSeq, active)
    BY <2>1 DEF LoadOk
  <2>9. kind \notin Loads => LoadOk([b EXCEPT !.co = x, !.companies = y], loadSeq, active)
    BY <2>1 DEF LoadOk
  <2>10. LoadOk([b EXCEPT !.co = x, !.seq = loadSeq + 1, !.chain = TRUE], loadSeq + 1, x)
    BY <2>1 DEF LoadOk
  <2>11. QED
    BY <2>2, <2>3, <2>4, <2>5, <2>6, <2>7, <2>8, <2>9, <2>10
<1>2. "delete" \notin Loads
  BY DEF Loads, List
<1>3. PICK b : b = Ask(k)
  OBVIOUS
<1>4. PICK d : d = Ask("delete")
  OBVIOUS
<1>5. LoadOk([d EXCEPT !.co = x, !.companies = y], loadSeq, active)
  BY <1>1, <1>2, <1>4
<1>6. /\ LoadOk(b, loadSeq, active)
      /\ LoadOk([b EXCEPT !.seq = s, !.mode = x, !.chain = TRUE], loadSeq, active)
      /\ LoadOk([b EXCEPT !.seq = s, !.mode = x], loadSeq, active)
      /\ LoadOk([b EXCEPT !.list = l], loadSeq, active)
      /\ LoadOk([b EXCEPT !.mode = x], loadSeq, active)
      /\ LoadOk([b EXCEPT !.bal = x, !.typed = y], loadSeq, active)
      /\ LoadOk([b EXCEPT !.text = x, !.ver = y], loadSeq, active)
      /\ LoadOk([b EXCEPT !.companies = x], loadSeq, active)
      /\ LoadOk([b EXCEPT !.co = x, !.seq = loadSeq + 1, !.chain = TRUE], loadSeq + 1, x)
  BY <1>1, <1>3
<1>7. QED
  BY <1>3, <1>4, <1>5, <1>6, Zenon

(* The loads the first ones start (the effect of SettingsProvider.tsx).    *)
LEMMA BackgroundOk ==
  ASSUME loadSeq \in Nat, NEW s \in Nat, s <= loadSeq, NEW q \in Background(s)
  PROVE  LoadOk(q, loadSeq, active)
<1>1. PICK k \in List \ {"coa"} : q = [Ask(k) EXCEPT !.seq = s, !.mode = FirstMode]
  BY Zenon DEF Background
<1>2. LoadOk([Ask(k) EXCEPT !.seq = s, !.mode = FirstMode], loadSeq, active)
  BY AskedOk, Zenon
<1>3. QED
  BY <1>1, <1>2, Zenon

(* A step within one sequence number: what is answered is either dropped,  *)
(* or a list of the present company.                                       *)
Shown(r) == \E l \in List : r.kind \in Loads /\ Shows(l, r)
LEMMA SameSeq ==
  ASSUME SettingsInv, active' = active, loadSeq' = loadSeq,
         \A q \in asked' : q \in asked \/ LoadOk(q, loadSeq, active),
         shown' = shown \/ \E r \in asked : Shown(r)
  PROVE  SettingsInv'
<1>1. \A q \in asked' : LoadOk(q, loadSeq', active')
  BY DEF SettingsInv
<1>2. ASSUME NEW r \in asked, NEW l \in List, r.kind \in Loads, Shows(l, r)
      PROVE  shown' \in [List -> {NoCompany, active}]
  <2>1. r.seq = loadSeq => r.co = active
    BY <1>2 DEF SettingsInv, LoadOk
  <2>2. QED
    BY <1>2, <2>1 DEF SettingsInv, Shows, Fresh, Current
<1>3. shown' \in [List -> {NoCompany, active}]
  BY <1>2 DEF SettingsInv, Shown
<1>4. QED
  BY <1>1, <1>3 DEF SettingsInv

(* A change of company starts over under the next number.                  *)
LEMMA NextSeq ==
  ASSUME SettingsInv, loadSeq' = loadSeq + 1, shown' = [l \in List |-> NoCompany],
         \A q \in asked' : q \in asked \/ LoadOk(q, loadSeq + 1, active')
  PROVE  SettingsInv'
<1>1. \A q \in asked : LoadOk(q, loadSeq + 1, active')
  BY DEF SettingsInv, LoadOk
<1>2. QED
  BY <1>1 DEF SettingsInv

LEMMA AnswerSteps ==
  ASSUME SettingsInv, NEW r \in asked,
         \/ CoaAnswered(r) \/ MemoryAnswered(r) \/ SummariesAnswered(r) \/ ExclusionsAnswered(r)
         \/ RulesAnswered(r) \/ ManualAnswered(r) \/ FirstFailed(r) \/ Changed(r) \/ BalanceSaved(r)
         \/ SkillStored(r) \/ SkillRefused(r) \/ SkillRestored(r)
  PROVE  SettingsInv'
<1>1. loadSeq \in Nat /\ r.seq \in Nat /\ r.seq <= loadSeq
  BY DEF SettingsInv, LoadOk
<1>2. \A l \in List : l \in Loads
  BY DEF Loads
<1>3. CASE CoaAnswered(r)
  <2>1. LoadOk([Ask("memory") EXCEPT !.seq = r.seq, !.mode = FirstMode, !.chain = TRUE], loadSeq, active)
    BY <1>1, AskedOk
  <2>2. \A q \in asked' : q \in asked \/ q = [Ask("memory") EXCEPT !.seq = r.seq, !.mode = FirstMode, !.chain = TRUE]
    BY <1>3, Zenon DEF CoaAnswered
  <2>3. \A q \in asked' : q \in asked \/ LoadOk(q, loadSeq, active)
    BY <2>1, <2>2, Zenon
  <2>4. "coa" \in List /\ r.kind = "coa" /\ Shows("coa", r) /\ active' = active /\ loadSeq' = loadSeq
    BY <1>3 DEF CoaAnswered, auth, List
  <2>5. Shown(r)
    BY <1>2, <2>4, Zenon DEF Shown
  <2>6. QED
    BY <2>3, <2>4, <2>5, SameSeq
<1>4. CASE MemoryAnswered(r) \/ FirstFailed(r)
  <2>1. /\ \A q \in asked' : q \in asked \/ q \in Background(r.seq)
        /\ shown' = shown /\ active' = active /\ loadSeq' = loadSeq
    BY <1>4, Zenon DEF MemoryAnswered, FirstFailed, auth
  <2>2. QED
    BY <1>1, <2>1, BackgroundOk, SameSeq
<1>5. CASE SummariesAnswered(r)
  <2>1. /\ "summaries" \in List /\ r.kind = "summaries" /\ Shows("summaries", r)
        /\ asked' \subseteq asked /\ active' = active /\ loadSeq' = loadSeq
    BY <1>5 DEF SummariesAnswered, auth, List
  <2>2. Shown(r)
    BY <1>2, <2>1, Zenon DEF Shown
  <2>3. QED
    BY <2>1, <2>2, SameSeq
<1>6. ASSUME NEW l \in List, ListOf(l, r) PROVE SettingsInv'
  <2>1. /\ r.kind = l /\ Shows(l, r) /\ asked' \subseteq asked /\ active' = active /\ loadSeq' = loadSeq
    BY <1>6 DEF ListOf, auth
  <2>2. Shown(r)
    BY <1>2, <2>1, Zenon DEF Shown
  <2>3. QED
    BY <2>1, <2>2, SameSeq
<1>7. CASE ExclusionsAnswered(r) \/ RulesAnswered(r) \/ ManualAnswered(r)
  <2>1. "exclusions" \in List /\ "rules" \in List /\ "manual" \in List
    BY DEF List
  <2>2. QED
    BY <1>6, <1>7, <2>1 DEF ExclusionsAnswered, RulesAnswered, ManualAnswered
<1>8. CASE Changed(r)
  <2>1. LoadOk([Ask(r.list) EXCEPT !.mode = r.mode], loadSeq, active)
    BY <1>1, AskedOk
  <2>2. /\ \A q \in asked' : q \in asked \/ q = [Ask(r.list) EXCEPT !.mode = r.mode]
        /\ shown' = shown /\ active' = active /\ loadSeq' = loadSeq
    BY <1>8, Zenon DEF Changed, auth
  <2>3. \A q \in asked' : q \in asked \/ LoadOk(q, loadSeq, active)
    BY <2>1, <2>2, Zenon
  <2>4. QED
    BY <2>2, <2>3, SameSeq
<1>9. CASE BalanceSaved(r)
  <2>1. /\ \A q \in asked' : q \in asked \/ q = Ask("coa")
        /\ shown' = shown /\ active' = active /\ loadSeq' = loadSeq
    BY <1>9, Zenon DEF BalanceSaved, auth
  <2>2. LoadOk(Ask("coa"), loadSeq, active)
    BY <1>1, AskedOk
  <2>3. QED
    BY <2>1, <2>2, SameSeq
<1>10. CASE SkillStored(r) \/ SkillRefused(r)
  <2>1. asked' \subseteq asked /\ shown' = shown /\ active' = active /\ loadSeq' = loadSeq
    BY <1>10 DEF SkillStored, SkillRefused, auth
  <2>2. QED
    BY <2>1, SameSeq
<1>11. CASE SkillRestored(r)
  <2>1. /\ LoadOk([Ask("memory") EXCEPT !.mode = r.mode], loadSeq, active)
        /\ LoadOk([Ask("summaries") EXCEPT !.mode = r.mode], loadSeq, active)
    BY <1>1, AskedOk
  <2>2. /\ \A q \in asked' : \/ q \in asked \/ q = [Ask("memory") EXCEPT !.mode = r.mode]
                             \/ q = [Ask("summaries") EXCEPT !.mode = r.mode]
        /\ shown' = shown /\ active' = active /\ loadSeq' = loadSeq
    BY <1>11, Zenon DEF SkillRestored, auth
  <2>3. \A q \in asked' : q \in asked \/ LoadOk(q, loadSeq, active)
    BY <2>1, <2>2, Zenon
  <2>4. QED
    BY <2>2, <2>3, SameSeq
<1>12. QED
  BY <1>3, <1>4, <1>5, <1>7, <1>8, <1>9, <1>10, <1>11

(* What the user asks for within one sequence number: the requests sent    *)
(* are of this number and of the active company.                           *)
LEMMA Sent ==
  ASSUME SettingsInv, NEW b, LoadOk(b, loadSeq, active), active' = active, loadSeq' = loadSeq,
         shown' = shown, asked' \subseteq asked \cup {b}
  PROVE  SettingsInv'
<1>1. \A q \in asked' : q \in asked \/ LoadOk(q, loadSeq, active)
  OBVIOUS
<1>2. QED
  BY <1>1, SameSeq

LEMMA ListSteps ==
  ASSUME SettingsInv,
         \/ ChangeExclusion \/ SaveExclusion \/ ChangeRule \/ SaveRule \/ DeleteAccount \/ AddAccount
         \/ ToggleSkill \/ EditAccount \/ TypeBalance \/ BlurBalance
  PROVE  SettingsInv'
<1>1. loadSeq \in Nat /\ loadSeq <= loadSeq
  BY DEF SettingsInv
<1>2. ASSUME NEW l, Change(l) PROVE SettingsInv'
  <2>1. LoadOk([Ask("change") EXCEPT !.list = l], loadSeq, active)
    BY <1>1, AskedOk
  <2>2. /\ asked' = asked \cup {[Ask("change") EXCEPT !.list = l]}
        /\ shown' = shown /\ active' = active /\ loadSeq' = loadSeq
    BY <1>2, Zenon DEF Change, Send, auth
  <2>3. asked' \subseteq asked \cup {[Ask("change") EXCEPT !.list = l]}
    BY <2>2, Zenon
  <2>4. QED
    BY <2>1, <2>2, <2>3, Sent, Zenon
<1>3. ASSUME NEW v, NEW t, asked' \subseteq asked \cup {Put(v, t)},
             shown' = shown, active' = active, loadSeq' = loadSeq
      PROVE  SettingsInv'
  <2>1. LoadOk([Ask("balance") EXCEPT !.bal = v, !.typed = t], loadSeq, active)
    BY <1>1, AskedOk
  <2>2. LoadOk(Put(v, t), loadSeq, active)
    BY <2>1, Zenon DEF Put
  <2>3. QED
    BY <1>3, <2>2, Sent, Zenon
<1>4. CASE EditAccount
  <2>1. /\ \E v \in Balance : asked' = asked \cup {Put(v, TRUE)}
        /\ shown' = shown /\ active' = active /\ loadSeq' = loadSeq
    BY <1>4, Zenon DEF EditAccount, Send, auth
  <2>2. QED
    BY <1>3, <2>1, Zenon
<1>5. CASE TypeBalance
  <2>1. asked' = asked /\ shown' = shown /\ active' = active /\ loadSeq' = loadSeq
    BY <1>5, Zenon DEF TypeBalance, auth
  <2>2. QED
    BY <2>1, SameSeq
<1>6. CASE BlurBalance
  <2>1. /\ asked' \subseteq asked \cup {Put(bfDraft, typed)}
        /\ shown' = shown /\ active' = active /\ loadSeq' = loadSeq
    BY <1>6, Zenon DEF BlurBalance, auth
  <2>2. QED
    BY <1>3, <2>1, Zenon
<1>7. QED
  BY <1>2, <1>4, <1>5, <1>6 DEF ChangeExclusion, SaveExclusion, ChangeRule, SaveRule,
     DeleteAccount, AddAccount, ToggleSkill

LEMMA SkillSteps ==
  ASSUME SettingsInv,
         \/ \E m \in SkillMode : OpenSkill(m) \/ SwitchMode(m)
         \/ EditSkill \/ CloseSkill \/ SaveSkill \/ GenerateSkill \/ RestoreSkill
  PROVE  SettingsInv'
<1>1. loadSeq \in Nat /\ loadSeq <= loadSeq
  BY DEF SettingsInv
<1>2. ASSUME NEW m \in SkillMode, OpenSkill(m) \/ SwitchMode(m) PROVE SettingsInv'
  <2>1. LoadOk([Ask("memory") EXCEPT !.mode = m], loadSeq, active)
    BY <1>1, AskedOk
  <2>2. /\ asked' = asked \cup {[Ask("memory") EXCEPT !.mode = m]}
        /\ shown' = shown /\ active' = active /\ loadSeq' = loadSeq
    BY <1>2, Zenon DEF OpenSkill, SwitchMode, Send, auth
  <2>3. asked' \subseteq asked \cup {[Ask("memory") EXCEPT !.mode = m]}
    BY <2>2, Zenon
  <2>4. QED
    BY <2>1, <2>2, <2>3, Sent, Zenon
<1>3. CASE EditSkill \/ CloseSkill
  <2>1. asked' = asked /\ shown' = shown /\ active' = active /\ loadSeq' = loadSeq
    BY <1>3, Zenon DEF EditSkill, CloseSkill, auth
  <2>2. QED
    BY <2>1, SameSeq
<1>4. CASE SaveSkill
  <2>1. LoadOk([Ask("save") EXCEPT !.text = draft, !.ver = version], loadSeq, active)
    BY <1>1, AskedOk
  <2>2. /\ asked' = asked \cup {[Ask("save") EXCEPT !.text = draft, !.ver = version]}
        /\ shown' = shown /\ active' = active /\ loadSeq' = loadSeq
    BY <1>4, Zenon DEF SaveSkill, Send, auth
  <2>3. asked' \subseteq asked \cup {[Ask("save") EXCEPT !.text = draft, !.ver = version]}
    BY <2>2, Zenon
  <2>4. QED
    BY <2>1, <2>2, <2>3, Sent, Zenon
<1>5. CASE GenerateSkill \/ RestoreSkill
  <2>1. PICK k \in {"generate", "restore"} : asked' = asked \cup {Ask(k)}
    BY <1>5, Zenon DEF GenerateSkill, RestoreSkill, Send
  <2>2. shown' = shown /\ active' = active /\ loadSeq' = loadSeq
    BY <1>5, Zenon DEF GenerateSkill, RestoreSkill, auth
  <2>3. LoadOk(Ask(k), loadSeq, active)
    BY <1>1, AskedOk
  <2>4. QED
    BY <2>1, <2>2, <2>3, Sent
<1>6. QED
  BY <1>2, <1>3, <1>4, <1>5

(* The effect on [enabled, activeCompanyId]: the next number's first load  *)
(* is of the company that is active from this step on.                     *)
LEMMA Reopened ==
  ASSUME SettingsInv, NEW co, active' = co, loadSeq' = loadSeq + 1,
         shown' = [l \in List |-> NoCompany],
         asked' \subseteq asked \cup {[Ask("coa") EXCEPT !.co = co, !.seq = loadSeq + 1, !.chain = TRUE]}
  PROVE  SettingsInv'
<1>1. loadSeq \in Nat /\ loadSeq <= loadSeq
  BY DEF SettingsInv
<1>2. LoadOk([Ask("coa") EXCEPT !.co = co, !.seq = loadSeq + 1, !.chain = TRUE], loadSeq + 1, co)
  BY <1>1, AskedOk
<1>3. \A q \in asked' : q \in asked \/ LoadOk(q, loadSeq + 1, active')
  BY <1>2, Zenon
<1>4. QED
  BY <1>3, NextSeq

LEMMA WorkspaceStep ==
  ASSUME SettingsInv, NEW r \in asked, NEW next, WorkspaceDone(r, next)
  PROVE  SettingsInv'
<1>1. active' = next
  BY DEF WorkspaceDone
<1>2. CASE next # active
  <2>1. /\ loadSeq' = loadSeq + 1 /\ shown' = [l \in List |-> NoCompany]
        /\ asked' = (asked \ {r}) \cup
               {[Ask("coa") EXCEPT !.co = next, !.seq = loadSeq + 1, !.chain = TRUE]}
    BY <1>2, Zenon DEF WorkspaceDone
  <2>2. asked' \subseteq asked \cup
               {[Ask("coa") EXCEPT !.co = next, !.seq = loadSeq + 1, !.chain = TRUE]}
    BY <2>1, Zenon
  <2>3. QED
    BY <1>1, <2>1, <2>2, Reopened, Zenon
<1>3. CASE next = active
  <2>1. asked' = asked \ {r} /\ shown' = shown /\ loadSeq' = loadSeq
    BY <1>3, Zenon DEF WorkspaceDone
  <2>2. QED
    BY <1>1, <1>3, <2>1, SameSeq
<1>4. QED
  BY <1>2, <1>3

LEMMA WorkspaceSteps ==
  ASSUME SettingsInv,
         \/ \E r \in asked : CompanyCreated(r) \/ CompanyDeleted(r) \/ WorkspaceFailed(r)
         \/ \E c \in Company : SwitchCompany(c) \/ DeleteCompany(c)
         \/ CreateCompany
  PROVE  SettingsInv'
<1>1. loadSeq \in Nat /\ loadSeq <= loadSeq
  BY DEF SettingsInv
<1>2. ASSUME NEW r \in asked, CompanyCreated(r) \/ CompanyDeleted(r) \/ WorkspaceFailed(r)
      PROVE  SettingsInv'
  <2>1. CASE CompanyCreated(r)
    BY <2>1, WorkspaceStep, Zenon DEF CompanyCreated
  <2>2. CASE CompanyDeleted(r)
    BY <2>2, WorkspaceStep, Zenon DEF CompanyDeleted
  <2>3. CASE WorkspaceFailed(r)
    <3>1. asked' \subseteq asked /\ shown' = shown /\ active' = active /\ loadSeq' = loadSeq
      BY <2>3 DEF WorkspaceFailed, auth
    <3>2. QED
      BY <3>1, SameSeq
  <2>4. QED
    BY <1>2, <2>1, <2>2, <2>3
<1>3. ASSUME NEW c \in Company, SwitchCompany(c) PROVE SettingsInv'
  <2>1. /\ active' = c /\ loadSeq' = loadSeq + 1 /\ shown' = [l \in List |-> NoCompany]
        /\ asked' = asked \cup {[Ask("coa") EXCEPT !.co = c, !.seq = loadSeq + 1, !.chain = TRUE]}
    BY <1>3, Zenon DEF SwitchCompany, Opened
  <2>2. asked' \subseteq asked \cup {[Ask("coa") EXCEPT !.co = c, !.seq = loadSeq + 1, !.chain = TRUE]}
    BY <2>1, Zenon
  <2>3. QED
    BY <2>1, <2>2, Reopened, Zenon
<1>4. ASSUME NEW c \in Company, DeleteCompany(c) PROVE SettingsInv'
  <2>1. LoadOk([Ask("delete") EXCEPT !.co = c, !.companies = companies], loadSeq, active)
    BY <1>1, AskedOk
  <2>2. /\ asked' = asked \cup {[Ask("delete") EXCEPT !.co = c, !.companies = companies]}
        /\ shown' = shown /\ active' = active /\ loadSeq' = loadSeq
    BY <1>4, Zenon DEF DeleteCompany, Send, auth
  <2>3. asked' \subseteq asked \cup {[Ask("delete") EXCEPT !.co = c, !.companies = companies]}
    BY <2>2, Zenon
  <2>4. QED
    BY <2>1, <2>2, <2>3, Sent, Zenon
<1>5. CASE CreateCompany
  <2>1. LoadOk([Ask("create") EXCEPT !.companies = companies], loadSeq, active)
    BY <1>1, AskedOk
  <2>2. /\ asked' = asked \cup {[Ask("create") EXCEPT !.companies = companies]}
        /\ shown' = shown /\ active' = active /\ loadSeq' = loadSeq
    BY <1>5, Zenon DEF CreateCompany, Send, auth
  <2>3. asked' \subseteq asked \cup {[Ask("create") EXCEPT !.companies = companies]}
    BY <2>2, Zenon
  <2>4. QED
    BY <2>1, <2>2, <2>3, Sent, Zenon
<1>6. QED
  BY <1>2, <1>3, <1>4, <1>5

(* The page opens with the account list of the active company under way.   *)
LEMMA SettingsStart == SettingsInit => SettingsInv
<1>1. ASSUME SettingsInit PROVE SettingsInv
  <2>1. /\ loadSeq = 1 /\ shown = [l \in List |-> NoCompany]
        /\ asked = {[Ask("coa") EXCEPT !.chain = TRUE]}
    BY <1>1, Zenon DEF SettingsInit
  <2>2. PICK b : b = Ask("coa")
    OBVIOUS
  <2>3. b = [kind |-> "coa", co |-> active, seq |-> loadSeq, mode |-> memoryMode, text |-> NoText,
             ver |-> 0, bal |-> NoBalance, typed |-> FALSE, chain |-> FALSE,
             list |-> "coa", companies |-> {}, was |-> active]
    BY <2>2, Zenon DEF Ask
  <2>4. LoadOk([b EXCEPT !.chain = TRUE], loadSeq, active)
    BY <2>1, <2>3 DEF LoadOk
  <2>5. \A q \in asked : LoadOk(q, loadSeq, active)
    BY <2>1, <2>2, <2>4, Zenon
  <2>6. QED
    BY <2>1, <2>5 DEF SettingsInv
<1>2. QED
  BY <1>1

LEMMA SettingsStep == SettingsInv /\ [SettingsNext]_desk => SettingsInv'
<1>1. ASSUME SettingsInv, SettingsNext PROVE SettingsInv'
  BY <1>1, AnswerSteps, ListSteps, SkillSteps, WorkspaceSteps, Zenon DEF SettingsNext
<1>2. ASSUME SettingsInv, UNCHANGED desk PROVE SettingsInv'
  <2>1. asked' = asked /\ shown' = shown /\ active' = active /\ loadSeq' = loadSeq
    BY <1>2 DEF desk, auth
  <2>2. QED
    BY <1>2, <2>1, SameSeq
<1>3. QED
  BY <1>1, <1>2

(* In whatever order loads, changes and company switches finish, a list on *)
(* the settings page is the active company's or not there yet              *)
(* (settingsLoadSeq, SettingsProvider.tsx): an answer of an earlier        *)
(* company carries an earlier number.                                      *)
THEOREM ListsFollow == SettingsSpec => []ListsOfCompany
<1>1. SettingsInv => ListsOfCompany
  BY DEF SettingsInv, ListsOfCompany
<1>2. QED
  BY <1>1, SettingsStart, SettingsStep, PTL DEF SettingsSpec
-----------------------------------------------------------------------------
(* Sums over finite sets.  Induction is by least counterexample: a set of  *)
(* the numbers, or of the subsets, for which something fails.              *)

LEMMA NatLeast ==
  ASSUME NEW T \in SUBSET Nat, T # {}
  PROVE  \E n \in T : \A m \in T : ~ (m < n)
<1>1. IsWellFoundedOn(OpToRel(<, Nat), Nat)
  BY NatLessThanWellFounded, Zenon
<1>2. \E n \in T : \A m \in T : ~ (<<m, n>> \in OpToRel(<, Nat))
  BY <1>1, WFMin, Zenon
<1>3. \A m, n \in Nat : m < n => <<m, n>> \in OpToRel(<, Nat)
  BY DEF OpToRel
<1> QED BY <1>2, <1>3

(* Induction over the subsets of a finite set, with a set in the place of a *)
(* predicate.                                                              *)
LEMMA SubsetInduction ==
  ASSUME NEW S, IsFiniteSet(S), NEW G,
         \A T \in SUBSET S : (\A U \in SUBSET T : U # T => U \in G) => T \in G
  PROVE  \A T \in SUBSET S : T \in G
<1> SUFFICES ASSUME NEW V \in SUBSET S, V \notin G PROVE FALSE
  OBVIOUS
<1>1. \A T \in SUBSET S : IsFiniteSet(T) /\ Cardinality(T) \in Nat
  BY FS_Subset, FS_CardinalityType
<1> DEFINE Bad == {n \in Nat : \E T \in SUBSET S : T \notin G /\ Cardinality(T) = n}
<1>2. Bad \in SUBSET Nat /\ Bad # {}
  BY <1>1
<1>3. PICK n \in Bad : \A m \in Bad : ~ (m < n)
  <2> HIDE DEF Bad
  <2> QED BY <1>2, NatLeast
<1>4. PICK T \in SUBSET S : T \notin G /\ Cardinality(T) = n
  BY <1>3
<1>5. PICK U \in SUBSET T : U # T /\ U \notin G
  BY <1>4
<1>6. Cardinality(U) < Cardinality(T)
  <2>1. IsFiniteSet(T) /\ Cardinality(U) <= Cardinality(T) /\ Cardinality(U) # Cardinality(T)
    BY <1>1, <1>5, FS_Subset
  <2> QED BY <1>1, <1>5, <2>1
<1>7. Cardinality(U) \in Bad
  BY <1>1, <1>5
<1> QED BY <1>3, <1>4, <1>6, <1>7

(* ... element by element.                                                 *)
LEMMA GrowInduction ==
  ASSUME NEW S, IsFiniteSet(S), NEW G, {} \in G,
         \A T \in SUBSET S : \A x \in S \ T : T \in G => T \cup {x} \in G
  PROVE  S \in G
<1>1. ASSUME NEW T \in SUBSET S, \A U \in SUBSET T : U # T => U \in G PROVE T \in G
  <2>1. CASE T = {}
    BY <2>1
  <2>2. ASSUME NEW x \in T PROVE T \in G
    <3>1. T \ {x} \in SUBSET T /\ T \ {x} # T /\ (T \ {x}) \cup {x} = T
      OBVIOUS
    <3>2. T \ {x} \in G /\ T \ {x} \in SUBSET S /\ x \in S \ (T \ {x})
      BY <1>1, <3>1
    <3> QED BY <3>1, <3>2
  <2> QED BY <2>1, <2>2
<1> QED BY <1>1, SubsetInduction

-----------------------------------------------------------------------------
(* SumFunctionOnSet.  Its recursion has a solution.                        *)
AnyOf(T) == CHOOSE x \in T : TRUE
SumStep(f, T, it) == IF T = {} THEN 0 ELSE f[AnyOf(T)] + it[T \ {AnyOf(T)}]
SumTable(f, S, it) == it = [T \in SUBSET S |-> SumStep(f, T, it)]
SumOver(f, S) == SumFunctionOnSet(f, S)

LEMMA SomeIn == \A T : T # {} => AnyOf(T) \in T
BY DEF AnyOf

(* The sums over the subsets of at most n elements.                        *)
TableTo(f, S, n, it) == \A T \in SUBSET S : Cardinality(T) <= n => it[T] = SumStep(f, T, it)

LEMMA TableNext ==
  ASSUME NEW f, NEW S, IsFiniteSet(S), NEW n \in Nat, NEW it, TableTo(f, S, n, it)
  PROVE  \E jt : TableTo(f, S, n + 1, jt)
<1> DEFINE jt == [T \in SUBSET S |-> IF Cardinality(T) <= n THEN it[T] ELSE SumStep(f, T, it)]
<1>1. \A T \in SUBSET S : IsFiniteSet(T) /\ Cardinality(T) \in Nat
  BY FS_Subset, FS_CardinalityType
<1>2. ASSUME NEW T \in SUBSET S, Cardinality(T) <= n + 1 PROVE jt[T] = SumStep(f, T, jt)
  <2>1. CASE T = {}
    <3>1. Cardinality(T) = 0
      BY <2>1, FS_EmptySet
    <3>2. jt[T] = it[T] /\ it[T] = 0
      BY <2>1, <3>1 DEF TableTo, SumStep
    <3> HIDE DEF jt
    <3> QED BY <2>1, <3>2 DEF SumStep
  <2>2. CASE T # {}
    <3> DEFINE U == T \ {AnyOf(T)}
    <3>1. AnyOf(T) \in T /\ U \in SUBSET S
      BY <2>2, SomeIn
    <3>2. Cardinality(U) = Cardinality(T) - 1
      BY <1>1, <3>1, FS_RemoveElement
    <3>3. jt[U] = it[U]
      BY <1>1, <1>2, <3>1, <3>2
    <3>4. jt[T] = SumStep(f, T, it)
      BY DEF TableTo
    <3> HIDE DEF jt
    <3> QED BY <2>2, <3>3, <3>4 DEF SumStep
  <2> QED BY <2>1, <2>2
<1>3. TableTo(f, S, n + 1, jt)
  <2> HIDE DEF jt
  <2> QED BY <1>2 DEF TableTo
<1> QED BY <1>3

LEMMA SumsSolved ==
  ASSUME NEW f, NEW S, IsFiniteSet(S)
  PROVE  \E it : SumTable(f, S, it)
<1>0. \A T \in SUBSET S : IsFiniteSet(T) /\ Cardinality(T) \in Nat
  BY FS_Subset, FS_CardinalityType
<1> DEFINE Bad == {n \in Nat : ~ \E it : TableTo(f, S, n, it)}
<1>1. Bad = {}
  <2> SUFFICES ASSUME Bad # {} PROVE FALSE
    OBVIOUS
  <2>1. Bad \in SUBSET Nat
    OBVIOUS
  <2>2. PICK n \in Bad : \A m \in Bad : ~ (m < n)
    <3> HIDE DEF Bad
    <3> QED BY <2>1, NatLeast
  <2>3. CASE n = 0
    <3>1. \A T \in SUBSET S : Cardinality(T) <= 0 => T = {}
      BY <1>0, FS_EmptySet
    <3>2. TableTo(f, S, 0, [T \in SUBSET S |-> 0])
      BY <3>1 DEF TableTo, SumStep
    <3> QED BY <2>2, <2>3, <3>2
  <2>4. CASE n # 0
    <3> DEFINE m == n - 1
    <3>1. m \in Nat /\ m < n /\ n = m + 1
      BY <2>2, <2>4
    <3>2. m \notin Bad
      <4> HIDE DEF Bad, m
      <4> QED BY <2>2, <3>1
    <3>3. PICK it : TableTo(f, S, m, it)
      BY <3>1, <3>2
    <3>4. \E jt : TableTo(f, S, m + 1, jt)
      <4> HIDE DEF m
      <4> QED BY <3>1, <3>3, TableNext
    <3> QED BY <2>2, <3>1, <3>4
  <2> QED BY <2>3, <2>4
<1>2. PICK it : TableTo(f, S, Cardinality(S), it)
  BY <1>0, <1>1
<1>3. \A T \in SUBSET S : it[T] = SumStep(f, T, it)
  <2>1. \A T \in SUBSET S : Cardinality(T) <= Cardinality(S)
    BY FS_Subset
  <2> QED BY <1>2, <2>1 DEF TableTo
<1> DEFINE jt == [T \in SUBSET S |-> it[T]]
<1>4. ASSUME NEW T \in SUBSET S PROVE jt[T] = SumStep(f, T, jt)
  <2>1. CASE T = {}
    BY <1>3, <2>1 DEF SumStep
  <2>2. CASE T # {}
    <3>1. T \ {AnyOf(T)} \in SUBSET S
      OBVIOUS
    <3> QED BY <1>3, <2>2, <3>1 DEF SumStep
  <2> QED BY <2>1, <2>2
<1>5. SumTable(f, S, jt)
  BY <1>4 DEF SumTable
<1> QED BY <1>5

LEMMA SumSolved ==
  ASSUME NEW f, NEW S, IsFiniteSet(S)
  PROVE  \E it : SumTable(f, S, it) /\ SumOver(f, S) = it[S]
<1>1. \E it : SumTable(f, S, it)
  BY SumsSolved
<1> QED BY <1>1, Zenon DEF SumTable, SumStep, AnyOf, SumOver, SumFunctionOnSet, FoldFunctionOnSet, MapThenFoldSet

(* ... and one only.                                                       *)
LEMMA SumsUnique ==
  ASSUME NEW f, NEW S, NEW R, IsFiniteSet(S), S \subseteq R, NEW it, NEW jt,
         SumTable(f, S, it), SumTable(f, R, jt)
  PROVE  it[S] = jt[S]
<1> DEFINE G == {T \in SUBSET S : it[T] = jt[T]}
<1>1. ASSUME NEW T \in SUBSET S, \A U \in SUBSET T : U # T => U \in G PROVE T \in G
  <2>1. it[T] = SumStep(f, T, it) /\ jt[T] = SumStep(f, T, jt)
    BY DEF SumTable
  <2>2. T # {} => T \ {AnyOf(T)} \in G
    BY <1>1, SomeIn
  <2> QED BY <2>1, <2>2 DEF SumStep
<1>2. S \in G
  <2> HIDE DEF G
  <2> QED BY <1>1, SubsetInduction
<1> QED BY <1>2

LEMMA SumSome ==
  ASSUME NEW f, NEW S, IsFiniteSet(S), S # {}
  PROVE  SumOver(f, S) = f[AnyOf(S)] + SumOver(f, S \ {AnyOf(S)})
<1> DEFINE U == S \ {AnyOf(S)}
<1>1. IsFiniteSet(U) /\ U \subseteq S
  BY FS_Subset
<1>2. PICK it : SumTable(f, S, it) /\ SumOver(f, S) = it[S]
  BY SumSolved
<1>3. PICK jt : SumTable(f, U, jt) /\ SumOver(f, U) = jt[U]
  BY <1>1, SumSolved
<1>4. jt[U] = it[U]
  <2> HIDE DEF U
  <2> QED BY <1>1, <1>2, <1>3, SumsUnique
<1>5. it[S] = SumStep(f, S, it)
  BY <1>2 DEF SumTable
<1> QED BY <1>2, <1>3, <1>4, <1>5 DEF SumStep

LEMMA SumEmpty ==
  ASSUME NEW f
  PROVE  SumOver(f, {}) = 0
<1>1. PICK it : SumTable(f, {}, it) /\ SumOver(f, {}) = it[{}]
  BY SumSolved, FS_EmptySet
<1> QED BY <1>1 DEF SumTable, SumStep

IntsOn(f, S) == \A x \in S : f[x] \in Int

LEMMA SumInt ==
  ASSUME NEW f, NEW S, IsFiniteSet(S), IntsOn(f, S)
  PROVE  \A T \in SUBSET S : SumOver(f, T) \in Int
<1> DEFINE G == {T \in SUBSET S : SumOver(f, T) \in Int}
<1>1. ASSUME NEW T \in SUBSET S, \A U \in SUBSET T : U # T => U \in G PROVE T \in G
  <2>1. CASE T = {}
    BY <2>1, SumEmpty
  <2>2. CASE T # {}
    <3>1. AnyOf(T) \in T /\ T \ {AnyOf(T)} \in G
      BY <1>1, <2>2, SomeIn
    <3>2. SumOver(f, T) = f[AnyOf(T)] + SumOver(f, T \ {AnyOf(T)})
      BY <2>2, SumSome, FS_Subset
    <3> QED BY <3>1, <3>2 DEF IntsOn
  <2> QED BY <2>1, <2>2
<1>2. \A T \in SUBSET S : T \in G
  <2> HIDE DEF G
  <2> QED BY <1>1, SubsetInduction
<1> QED BY <1>2

(* Any element may be taken first.                                         *)
LEMMA SumAny ==
  ASSUME NEW f, NEW S, IsFiniteSet(S), IntsOn(f, S), NEW y \in S
  PROVE  SumOver(f, S) = f[y] + SumOver(f, S \ {y})
<1> DEFINE G == {T \in SUBSET S : \A x \in T : SumOver(f, T) = f[x] + SumOver(f, T \ {x})}
<1>1. ASSUME NEW T \in SUBSET S, \A U \in SUBSET T : U # T => U \in G PROVE T \in G
  <2> SUFFICES ASSUME NEW x \in T PROVE SumOver(f, T) = f[x] + SumOver(f, T \ {x})
    OBVIOUS
  <2> DEFINE c == AnyOf(T)
  <2>1. c \in T /\ SumOver(f, T) = f[c] + SumOver(f, T \ {c})
    BY SomeIn, SumSome, FS_Subset
  <2> HIDE DEF c
  <2>2. CASE x = c
    BY <2>1, <2>2
  <2>3. CASE x # c
    <3>1. T \ {c} \in G /\ x \in T \ {c} /\ T \ {x} \in G /\ c \in T \ {x}
      BY <1>1, <2>1, <2>3
    <3>2. (T \ {c}) \ {x} = (T \ {x}) \ {c} /\ (T \ {x}) \ {c} \in SUBSET S
      OBVIOUS
    <3>3. SumOver(f, T \ {c}) = f[x] + SumOver(f, (T \ {x}) \ {c})
      BY <3>1, <3>2
    <3>4. SumOver(f, T \ {x}) = f[c] + SumOver(f, (T \ {x}) \ {c})
      BY <3>1
    <3>5. f[x] \in Int /\ f[c] \in Int /\ SumOver(f, (T \ {x}) \ {c}) \in Int
      BY <2>1, <3>2, SumInt DEF IntsOn
    <3> HIDE DEF G
    <3> QED BY <2>1, <3>3, <3>4, <3>5
  <2> QED BY <2>2, <2>3
<1>2. S \in G
  <2> HIDE DEF G
  <2> QED BY <1>1, SubsetInduction
<1> QED BY <1>2

LEMMA SumGrows ==
  ASSUME NEW f, NEW T, IsFiniteSet(T), NEW x, x \notin T, IntsOn(f, T \cup {x})
  PROVE  SumOver(f, T \cup {x}) = f[x] + SumOver(f, T)
<1>1. IsFiniteSet(T \cup {x}) /\ (T \cup {x}) \ {x} = T
  BY FS_AddElement
<1> QED BY <1>1, SumAny

LEMMA SumEqual ==
  ASSUME NEW f, NEW g, NEW S, IsFiniteSet(S), IntsOn(f, S), \A x \in S : f[x] = g[x]
  PROVE  SumOver(f, S) = SumOver(g, S)
<1> DEFINE G == {T \in SUBSET S : SumOver(f, T) = SumOver(g, T)}
<1>1. {} \in G
  BY SumEmpty
<1>2. ASSUME NEW T \in SUBSET S, NEW x \in S \ T, T \in G PROVE T \cup {x} \in G
  <2>1. IsFiniteSet(T) /\ IntsOn(f, T \cup {x}) /\ IntsOn(g, T \cup {x})
    BY FS_Subset DEF IntsOn
  <2>2. SumOver(f, T \cup {x}) = f[x] + SumOver(f, T) /\ SumOver(g, T \cup {x}) = g[x] + SumOver(g, T)
    BY <2>1, SumGrows
  <2> QED BY <1>2, <2>2
<1>3. S \in G
  <2> HIDE DEF G
  <2> QED BY <1>1, <1>2, GrowInduction
<1> QED BY <1>3

LEMMA SumPlus ==
  ASSUME NEW f, NEW g, NEW h, NEW S, IsFiniteSet(S), IntsOn(f, S), IntsOn(g, S),
         \A x \in S : h[x] = f[x] + g[x]
  PROVE  SumOver(h, S) = SumOver(f, S) + SumOver(g, S)
<1> DEFINE G == {T \in SUBSET S : SumOver(h, T) = SumOver(f, T) + SumOver(g, T)}
<1>0. IntsOn(h, S)
  BY DEF IntsOn
<1>1. {} \in G
  BY SumEmpty
<1>2. ASSUME NEW T \in SUBSET S, NEW x \in S \ T, T \in G PROVE T \cup {x} \in G
  <2>1. IsFiniteSet(T) /\ IntsOn(f, T \cup {x}) /\ IntsOn(g, T \cup {x}) /\ IntsOn(h, T \cup {x})
    BY <1>0, FS_Subset DEF IntsOn
  <2>2. /\ SumOver(f, T \cup {x}) = f[x] + SumOver(f, T)
        /\ SumOver(g, T \cup {x}) = g[x] + SumOver(g, T)
        /\ SumOver(h, T \cup {x}) = h[x] + SumOver(h, T)
    BY <2>1, SumGrows
  <2>3. SumOver(f, T) \in Int /\ SumOver(g, T) \in Int /\ SumOver(h, T) = SumOver(f, T) + SumOver(g, T)
    BY <1>2, SumInt
  <2>4. f[x] \in Int /\ g[x] \in Int /\ h[x] = f[x] + g[x]
    BY DEF IntsOn
  <2>5. SumOver(h, T \cup {x}) = SumOver(f, T \cup {x}) + SumOver(g, T \cup {x})
    BY <2>2, <2>3, <2>4
  <2> QED BY <2>5
<1>3. S \in G
  <2> HIDE DEF G
  <2> QED BY <1>1, <1>2, GrowInduction
<1> QED BY <1>3

LEMMA SumUnion ==
  ASSUME NEW f, NEW A, NEW B, IsFiniteSet(A), IsFiniteSet(B), A \cap B = {}, IntsOn(f, A \cup B)
  PROVE  SumOver(f, A \cup B) = SumOver(f, A) + SumOver(f, B)
<1> DEFINE G == {T \in SUBSET B : SumOver(f, A \cup T) = SumOver(f, A) + SumOver(f, T)}
<1>0. IntsOn(f, A) /\ IntsOn(f, B)
  BY DEF IntsOn
<1>1. {} \in G
  <2>1. SumOver(f, A) \in Int /\ A \cup {} = A
    BY <1>0, SumInt
  <2> QED BY <2>1, SumEmpty
<1>2. ASSUME NEW T \in SUBSET B, NEW x \in B \ T, T \in G PROVE T \cup {x} \in G
  <2>1. IsFiniteSet(T) /\ IsFiniteSet(A \cup T) /\ x \notin A \cup T /\ (A \cup T) \cup {x} = A \cup (T \cup {x})
    BY FS_Subset, FS_Union
  <2>2. IntsOn(f, T \cup {x}) /\ IntsOn(f, (A \cup T) \cup {x})
    BY DEF IntsOn
  <2>3. SumOver(f, T \cup {x}) = f[x] + SumOver(f, T)
    BY <2>1, <2>2, SumGrows
  <2>4. SumOver(f, (A \cup T) \cup {x}) = f[x] + SumOver(f, A \cup T)
    BY <2>1, <2>2, SumGrows
  <2>5. SumOver(f, A) \in Int /\ SumOver(f, T) \in Int /\ f[x] \in Int
    BY <1>0, SumInt DEF IntsOn
  <2>6. SumOver(f, A \cup T) = SumOver(f, A) + SumOver(f, T)
    BY <1>2
  <2>7. SumOver(f, (A \cup T) \cup {x}) = SumOver(f, A) + SumOver(f, T \cup {x})
    BY <2>3, <2>4, <2>5, <2>6
  <2> QED BY <2>1, <2>7
<1>3. B \in G
  <2> HIDE DEF G
  <2> QED BY <1>1, <1>2, GrowInduction
<1> QED BY <1>3

LEMMA SumZero ==
  ASSUME NEW f, NEW S, IsFiniteSet(S), \A x \in S : f[x] = 0
  PROVE  SumOver(f, S) = 0
<1> DEFINE G == {T \in SUBSET S : SumOver(f, T) = 0}
<1>1. {} \in G
  BY SumEmpty
<1>2. ASSUME NEW T \in SUBSET S, NEW x \in S \ T, T \in G PROVE T \cup {x} \in G
  <2>1. IsFiniteSet(T) /\ IntsOn(f, T \cup {x}) /\ f[x] = 0
    BY FS_Subset DEF IntsOn
  <2>2. SumOver(f, T \cup {x}) = f[x] + SumOver(f, T)
    BY <2>1, SumGrows
  <2> QED BY <1>2, <2>1, <2>2
<1>3. S \in G
  <2> HIDE DEF G
  <2> QED BY <1>1, <1>2, GrowInduction
<1> QED BY <1>3

LEMMA SumAt ==
  ASSUME NEW d, NEW A, IsFiniteSet(A), NEW b \in A, d[b] \in Int, \A a \in A \ {b} : d[a] = 0
  PROVE  SumOver(d, A) = d[b]
<1>1. IntsOn(d, A) /\ IsFiniteSet(A \ {b})
  BY FS_Subset DEF IntsOn
<1>2. SumOver(d, A \ {b}) = 0
  BY <1>1, SumZero
<1> QED BY <1>1, <1>2, SumAny

(* A sum by classes is the sum.                                            *)
ClassOf(key, T, a) == {e \in T : key[e] = a}
LEMMA SumByClass ==
  ASSUME NEW w, NEW key, NEW E, NEW A, IsFiniteSet(E), IsFiniteSet(A), IntsOn(w, E), \A e \in E : key[e] \in A
  PROVE  SumOver([a \in A |-> SumOver(w, ClassOf(key, E, a))], A) = SumOver(w, E)
<1> DEFINE m(T) == [a \in A |-> SumOver(w, ClassOf(key, T, a))]
           G == {T \in SUBSET E : SumOver(m(T), A) = SumOver(w, T)}
<1>1. {} \in G
  <2>1. \A a \in A : m({})[a] = 0
    BY SumEmpty DEF ClassOf
  <2>2. SumOver(m({}), A) = 0
    <3> HIDE DEF m
    <3> QED BY <2>1, SumZero
  <2> QED BY <2>2, SumEmpty
<1>2. ASSUME NEW T \in SUBSET E, NEW x \in E \ T, T \in G PROVE T \cup {x} \in G
  <2> DEFINE d == [a \in A |-> IF a = key[x] THEN w[x] ELSE 0]
             b == key[x]
  <2>1. /\ IsFiniteSet(T) /\ IntsOn(w, T \cup {x}) /\ w[x] \in Int /\ key[x] \in A
        /\ \A a \in A : ClassOf(key, T, a) \in SUBSET E /\ IsFiniteSet(ClassOf(key, T, a))
    BY FS_Subset DEF IntsOn, ClassOf
  <2>2. SumOver(w, T \cup {x}) = w[x] + SumOver(w, T)
    BY <2>1, SumGrows
  <2>3. ASSUME NEW a \in A PROVE m(T \cup {x})[a] = m(T)[a] + d[a]
    <3>1. SumOver(w, ClassOf(key, T, a)) \in Int
      BY <2>1, SumInt
    <3>2. CASE a = key[x]
      <4>1. /\ ClassOf(key, T \cup {x}, a) = ClassOf(key, T, a) \cup {x} /\ x \notin ClassOf(key, T, a)
            /\ IntsOn(w, ClassOf(key, T, a) \cup {x})
        BY <3>2 DEF ClassOf, IntsOn
      <4>2. SumOver(w, ClassOf(key, T \cup {x}, a)) = w[x] + SumOver(w, ClassOf(key, T, a))
        BY <2>1, <4>1, SumGrows
      <4> QED BY <2>1, <3>1, <3>2, <4>2
    <3>3. CASE a # key[x]
      <4>1. ClassOf(key, T \cup {x}, a) = ClassOf(key, T, a)
        BY <3>3 DEF ClassOf
      <4> QED BY <3>1, <3>3, <4>1
    <3> QED BY <3>2, <3>3
  <2>4. IntsOn(m(T), A) /\ IntsOn(d, A)
    BY <2>1, SumInt DEF IntsOn
  <2>5. SumOver(d, A) = w[x]
    <3>1. d[b] = w[x] /\ b \in A /\ \A a \in A \ {b} : d[a] = 0
      BY <2>1
    <3> HIDE DEF d, b
    <3> QED BY <2>1, <3>1, SumAt
  <2> HIDE DEF d, m
  <2>6. SumOver(m(T \cup {x}), A) = SumOver(m(T), A) + SumOver(d, A)
    BY <2>3, <2>4, SumPlus
  <2>7. SumOver(w, T) \in Int /\ SumOver(m(T), A) = SumOver(w, T)
    BY <1>2, SumInt
  <2>8. SumOver(m(T \cup {x}), A) = SumOver(w, T \cup {x})
    BY <2>1, <2>2, <2>5, <2>6, <2>7
  <2> QED BY <2>8
<1>3. E \in G
  <2> HIDE DEF G
  <2> QED BY <1>1, <1>2, GrowInduction
<1> QED BY <1>3

-----------------------------------------------------------------------------
(* The financial reports.  What the accounts moved is what the lines debit *)
(* and credit; the statements show the openings and what the lines miss.   *)

LEMMA SumOfFunction ==
  ASSUME NEW f
  PROVE  SumFunction(f) = SumOver(f, DOMAIN f)
BY DEF SumFunction, SumOver

LEMMA FiniteImage ==
  ASSUME NEW f, NEW S, IsFiniteSet(S)
  PROVE  IsFiniteSet({f[x] : x \in S})
<1> DEFINE G == {T \in SUBSET S : IsFiniteSet({f[x] : x \in T})}
<1>1. {} \in G
  <2>1. {f[x] : x \in {}} = {}
    OBVIOUS
  <2> QED BY <2>1, FS_EmptySet
<1>2. ASSUME NEW T \in SUBSET S, NEW x \in S \ T, T \in G PROVE T \cup {x} \in G
  <2>1. {f[y] : y \in T \cup {x}} = {f[y] : y \in T} \cup {f[x]}
    OBVIOUS
  <2>2. IsFiniteSet({f[y] : y \in T} \cup {f[x]})
    BY <1>2, FS_AddElement
  <2> QED BY <2>1, <2>2
<1>3. S \in G
  <2> HIDE DEF G
  <2> QED BY <1>1, <1>2, GrowInduction
<1> QED BY <1>3

\* lines on the accounts of the chart and suspense
Entries(E) ==
  /\ IsFiniteSet(E)
  /\ \A e \in E : e.acct \in Account \cup {Suspense} /\ e.dr \in Int /\ e.cr \in Int

DebitOf(E)  == [e \in E |-> e.dr]
CreditOf(E) == [e \in E |-> e.cr]
DrOf(E) == [a \in TrialRows(E) |-> MovDr(a, E)]
CrOf(E) == [a \in TrialRows(E) |-> MovCr(a, E)]

\* what a part of the lines debits and credits, as sums over the whole
LEMMA PartSums ==
  ASSUME NEW E, Entries(E), NEW T \in SUBSET E
  PROVE  /\ IntsOn(DebitOf(E), E) /\ IntsOn(CreditOf(E), E)
         /\ Debits(T) = SumOver(DebitOf(E), T) /\ Credits(T) = SumOver(CreditOf(E), T)
         /\ Debits(T) \in Int /\ Credits(T) \in Int
<1> DEFINE dr == DebitOf(E)  cr == CreditOf(E)  d == DebitOf(T)  c == CreditOf(T)
<1>1. IntsOn(dr, E) /\ IntsOn(cr, E) /\ IsFiniteSet(E) /\ IsFiniteSet(T)
  BY FS_Subset DEF Entries, IntsOn, DebitOf, CreditOf
<1>2. /\ \A e \in T : d[e] = dr[e] /\ c[e] = cr[e]
      /\ DOMAIN d = T /\ DOMAIN c = T /\ IntsOn(d, T) /\ IntsOn(c, T)
  BY <1>1 DEF DebitOf, CreditOf, IntsOn
<1>3. Debits(T) = SumFunction(d) /\ Credits(T) = SumFunction(c)
  BY DEF Debits, Credits, DebitOf, CreditOf
<1> HIDE DEF d, c, dr, cr
<1>4. SumOver(d, T) = SumOver(dr, T) /\ SumOver(c, T) = SumOver(cr, T)
  BY <1>1, <1>2, SumEqual
<1>5. SumFunction(d) = SumOver(d, T) /\ SumFunction(c) = SumOver(c, T)
  BY <1>2, SumOfFunction
<1>6. SumOver(dr, T) \in Int /\ SumOver(cr, T) \in Int
  BY <1>1, SumInt
<1> QED BY <1>1, <1>3, <1>4, <1>5, <1>6 DEF dr, cr

\* a key of the lines: what the lines of each class debit and credit adds up
LEMMA SumsByKey ==
  ASSUME NEW E, Entries(E), NEW key, NEW A, IsFiniteSet(A), \A e \in E : key[e] \in A
  PROVE  /\ SumOver([a \in A |-> Debits(ClassOf(key, E, a))], A) = Debits(E)
         /\ SumOver([a \in A |-> Credits(ClassOf(key, E, a))], A) = Credits(E)
<1>1. \A a : ClassOf(key, E, a) \in SUBSET E
  BY DEF ClassOf
<1>2. \A a : /\ Debits(ClassOf(key, E, a)) = SumOver(DebitOf(E), ClassOf(key, E, a))
             /\ Credits(ClassOf(key, E, a)) = SumOver(CreditOf(E), ClassOf(key, E, a))
  BY <1>1, PartSums
<1>3. /\ IntsOn(DebitOf(E), E) /\ IntsOn(CreditOf(E), E) /\ IsFiniteSet(E)
      /\ Debits(E) = SumOver(DebitOf(E), E) /\ Credits(E) = SumOver(CreditOf(E), E)
  BY PartSums DEF Entries
<1>4. /\ SumOver([a \in A |-> SumOver(DebitOf(E), ClassOf(key, E, a))], A) = SumOver(DebitOf(E), E)
      /\ SumOver([a \in A |-> SumOver(CreditOf(E), ClassOf(key, E, a))], A) = SumOver(CreditOf(E), E)
  BY <1>3, SumByClass
<1> QED BY <1>2, <1>3, <1>4

LEMMA MovementsAddUp ==
  ASSUME NEW E, Entries(E)
  PROVE  /\ IsFiniteSet(TrialRows(E)) /\ TrialRows(E) \subseteq Account \cup {Suspense}
         /\ IntsOn(DrOf(E), TrialRows(E)) /\ IntsOn(CrOf(E), TrialRows(E))
         /\ SumOver(DrOf(E), TrialRows(E)) = Debits(E)
         /\ SumOver(CrOf(E), TrialRows(E)) = Credits(E)
<1> DEFINE R == TrialRows(E)
           key == [e \in E |-> e.acct]
<1>1. R = {key[e] : e \in E} /\ \A e \in E : key[e] \in R
  BY DEF TrialRows
<1>2. IsFiniteSet(R)
  <2>1. IsFiniteSet({key[e] : e \in E})
    <3> HIDE DEF key
    <3> QED BY FiniteImage DEF Entries
  <2> QED BY <1>1, <2>1
<1>3. R \subseteq Account \cup {Suspense}
  BY DEF Entries, TrialRows
<1>4. \A a : LinesAt(a, E) = ClassOf(key, E, a) /\ LinesAt(a, E) \in SUBSET E
  BY DEF ClassOf, LinesAt
<1>5. \A a : MovDr(a, E) \in Int /\ MovCr(a, E) \in Int
  BY <1>4, PartSums DEF MovDr, MovCr
<1>6. /\ DrOf(E) = [a \in R |-> Debits(ClassOf(key, E, a))]
      /\ CrOf(E) = [a \in R |-> Credits(ClassOf(key, E, a))]
  BY <1>4 DEF DrOf, CrOf, MovDr, MovCr
<1>7. /\ SumOver([a \in R |-> Debits(ClassOf(key, E, a))], R) = Debits(E)
      /\ SumOver([a \in R |-> Credits(ClassOf(key, E, a))], R) = Credits(E)
  <2> HIDE DEF R, key
  <2> QED BY <1>1, <1>2, SumsByKey
<1>8. IntsOn(DrOf(E), R) /\ IntsOn(CrOf(E), R)
  BY <1>5 DEF DrOf, CrOf, IntsOn
<1> QED BY <1>2, <1>3, <1>6, <1>7, <1>8

\* lines that balance for each transaction or voucher balance
LEMMA BalancedParts ==
  ASSUME NEW E, Entries(E),
         \A e \in E : Debits({x \in E : x.of = e.of}) = Credits({x \in E : x.of = e.of})
  PROVE  Debits(E) = Credits(E)
<1> DEFINE key == [e \in E |-> e.of]
           A == {key[e] : e \in E}
           d == [a \in A |-> Debits(ClassOf(key, E, a))]
           c == [a \in A |-> Credits(ClassOf(key, E, a))]
<1>1. IsFiniteSet(A)
  <2> HIDE DEF key
  <2> QED BY FiniteImage DEF Entries
<1>2. ASSUME NEW a \in A PROVE d[a] = c[a] /\ d[a] \in Int
  <2>1. PICK e \in E : a = e.of
    OBVIOUS
  <2>2. ClassOf(key, E, a) = {x \in E : x.of = e.of} /\ ClassOf(key, E, a) \in SUBSET E
    BY <2>1 DEF ClassOf
  <2>3. Debits(ClassOf(key, E, a)) = Credits(ClassOf(key, E, a)) /\ Debits(ClassOf(key, E, a)) \in Int
    BY <2>2, PartSums
  <2> QED BY <2>3
<1>3. \A e \in E : key[e] \in A
  OBVIOUS
<1>4. SumOver(d, A) = Debits(E) /\ SumOver(c, A) = Credits(E)
  <2> HIDE DEF A, key
  <2> QED BY <1>1, <1>3, SumsByKey
<1>5. SumOver(d, A) = SumOver(c, A)
  <2> HIDE DEF d, c, A
  <2>1. IntsOn(d, A)
    BY <1>2 DEF IntsOn
  <2> QED BY <1>1, <1>2, <2>1, SumEqual
<1> QED BY <1>4, <1>5

LEMMA SumNegative ==
  ASSUME NEW f, NEW g, NEW S, IsFiniteSet(S), IntsOn(f, S), \A x \in S : g[x] = 0 - f[x]
  PROVE  SumOver(g, S) = 0 - SumOver(f, S)
<1> DEFINE zero == [x \in S |-> 0]
<1>1. IntsOn(g, S) /\ \A x \in S : zero[x] = f[x] + g[x] /\ zero[x] = 0
  BY DEF IntsOn
<1> HIDE DEF zero
<1>2. SumOver(zero, S) = SumOver(f, S) + SumOver(g, S) /\ SumOver(zero, S) = 0
  BY <1>1, SumPlus, SumZero
<1>3. SumOver(f, S) \in Int /\ SumOver(g, S) \in Int
  BY <1>1, SumInt
<1> QED BY <1>2, <1>3

\* the balance sheet accounts a trial balance shows
OnSheetOf(R) == {a \in R \ {Suspense} : Category[a] \notin {"Income", "Expense"}}

LEMMA SheetTies ==
  ASSUME ReportAssumption, NEW E, Entries(E)
  PROVE  TotalAsset(E) - (TotalOf("Liability", E) + TotalOf("Equity", E) + NetIncome(E))
           = SumFunction([a \in OnSheetOf(TrialRows(E)) |-> OpeningOf(a)]) + (Debits(E) - Credits(E))
<1> DEFINE R  == TrialRows(E)
           On == OnSheetOf(R)
           dr == DrOf(E)
           cr == CrOf(E)
           m  == [a \in R |-> dr[a] - cr[a]]
           o  == [a \in R |-> IF Classified(a) \in {"Income", "Expense"} THEN 0 ELSE OpeningOf(a)]
           v  == [a \in R |-> o[a] + m[a]]
           P(c) == RowsOf(c, E)
<1>1. /\ IsFiniteSet(R) /\ R \subseteq Account \cup {Suspense} /\ IntsOn(dr, R) /\ IntsOn(cr, R)
      /\ SumOver(dr, R) = Debits(E) /\ SumOver(cr, R) = Credits(E)
  BY MovementsAddUp
<1>2. \A a \in R : dr[a] = MovDr(a, E) /\ cr[a] = MovCr(a, E) /\ dr[a] \in Int /\ cr[a] \in Int
  BY <1>1 DEF DrOf, CrOf, IntsOn
<1>3. \A a \in R : OpeningOf(a) \in Int /\ Classified(a) \in Categories
  BY <1>1 DEF ReportAssumption, OpeningOf, Classified, Categories
<1>4. IntsOn(m, R) /\ IntsOn(o, R) /\ IntsOn(v, R)
  BY <1>2, <1>3 DEF IntsOn
<1>5. SumOver(m, R) = Debits(E) - Credits(E)
  <2>1. \A a \in R : dr[a] = cr[a] + m[a]
    BY <1>2
  <2> HIDE DEF dr, cr, m, R
  <2>2. SumOver(dr, R) = SumOver(cr, R) + SumOver(m, R)
    BY <1>1, <1>4, <2>1, SumPlus
  <2>3. SumOver(cr, R) \in Int /\ SumOver(m, R) \in Int
    BY <1>1, <1>4, SumInt
  <2> QED BY <1>1, <2>2, <2>3
<1>6. SumOver(v, R) = SumOver(o, R) + (Debits(E) - Credits(E))
  <2>1. \A a \in R : v[a] = o[a] + m[a]
    OBVIOUS
  <2> HIDE DEF v, o, m, R
  <2>2. SumOver(v, R) = SumOver(o, R) + SumOver(m, R) /\ SumOver(o, R) \in Int
    BY <1>1, <1>4, <2>1, SumPlus, SumInt
  <2> QED BY <1>5, <2>2
<1>7. SumOver(o, R) = SumFunction([a \in On |-> OpeningOf(a)])
  <2> DEFINE f == [a \in On |-> OpeningOf(a)]
             Off == R \ On
  <2>1. /\ On \subseteq R /\ Off \subseteq R /\ On \cup Off = R /\ On \cap Off = {}
        /\ IsFiniteSet(On) /\ IsFiniteSet(Off)
    BY <1>1, FS_Subset DEF OnSheetOf
  <2>2. \A a \in On : o[a] = f[a]
    BY <1>3, <2>1 DEF OnSheetOf, Classified
  <2>3. \A a \in Off : o[a] = 0
    BY <1>1 DEF OnSheetOf, Classified, OpeningOf
  <2>4. DOMAIN f = On
    OBVIOUS
  <2> HIDE DEF o, f, On, Off, R
  <2>5. IntsOn(o, On) /\ IntsOn(o, Off) /\ IntsOn(o, On \cup Off)
    BY <1>4, <2>1 DEF IntsOn
  <2>6. SumOver(o, On \cup Off) = SumOver(o, On) + SumOver(o, Off)
    BY <2>1, <2>5, SumUnion
  <2>7. SumOver(o, Off) = 0 /\ SumOver(o, On) = SumOver(f, On) /\ SumOver(o, On) \in Int
    BY <2>1, <2>2, <2>3, <2>5, SumZero, SumEqual, SumInt
  <2>8. SumFunction(f) = SumOver(f, On)
    BY <2>4, SumOfFunction
  <2>9. SumOver(o, R) = SumFunction(f)
    <3>1. SumOver(o, R) = SumOver(o, On) + SumOver(o, Off)
      BY <2>1, <2>6
    <3>2. SumOver(o, R) = SumOver(o, On)
      BY <3>1, <2>7
    <3> QED BY <3>2, <2>7, <2>8
  <2> QED BY <2>9 DEF f
<1>8. ASSUME NEW c \in {"Asset", "Liability", "Equity"} PROVE Carried(P(c), E) = SumOver(v, P(c))
  <2> DEFINE f == [a \in P(c) |-> Close(a, E)]
  <2>1. P(c) \subseteq R /\ IsFiniteSet(P(c))
    BY <1>1, FS_Subset DEF RowsOf
  <2>2. \A a \in P(c) : v[a] = f[a]
    BY <1>2, <1>3, <2>1 DEF RowsOf, Close
  <2>3. IntsOn(v, P(c)) /\ DOMAIN f = P(c)
    BY <1>4, <2>1 DEF IntsOn
  <2>4. Carried(P(c), E) = SumFunction(f)
    BY DEF Carried
  <2> HIDE DEF f, v, P
  <2> QED BY <2>1, <2>2, <2>3, <2>4, SumEqual, SumOfFunction
<1>9. ASSUME NEW c \in {"Income", "Expense"} PROVE Earned(P(c), E) = 0 - SumOver(v, P(c))
  <2> DEFINE f == [a \in P(c) |-> MovCr(a, E) - MovDr(a, E)]
  <2>1. P(c) \subseteq R /\ IsFiniteSet(P(c))
    BY <1>1, FS_Subset DEF RowsOf
  <2>2. \A a \in P(c) : f[a] = 0 - v[a]
    BY <1>2, <2>1 DEF RowsOf
  <2>3. IntsOn(v, P(c)) /\ DOMAIN f = P(c)
    BY <1>4, <2>1 DEF IntsOn
  <2>4. Earned(P(c), E) = SumFunction(f)
    BY DEF Earned
  <2> HIDE DEF f, v, P
  <2> QED BY <2>1, <2>2, <2>3, <2>4, SumNegative, SumOfFunction
<1>10. SumOver(v, R) = SumOver(v, P("Asset")) + SumOver(v, P("Liability")) + SumOver(v, P("Equity"))
                         + SumOver(v, P("Income")) + SumOver(v, P("Expense"))
  <2> DEFINE A == P("Asset")  L == P("Liability")  Q == P("Equity")  I == P("Income")  X == P("Expense")
  <2>1. R = (((A \cup L) \cup Q) \cup I) \cup X
    BY <1>3 DEF RowsOf, Categories
  <2>2. A \cap L = {} /\ (A \cup L) \cap Q = {} /\ ((A \cup L) \cup Q) \cap I = {} /\ (((A \cup L) \cup Q) \cup I) \cap X = {}
    BY DEF RowsOf
  <2> HIDE DEF A, L, Q, I, X, v, R
  <2>3. IsFiniteSet(A) /\ IsFiniteSet(L) /\ IsFiniteSet(Q) /\ IsFiniteSet(I) /\ IsFiniteSet(X)
    BY <1>1, <2>1, FS_Subset
  <2>4. IsFiniteSet(A \cup L) /\ IsFiniteSet((A \cup L) \cup Q) /\ IsFiniteSet(((A \cup L) \cup Q) \cup I)
    BY <2>3, FS_Union
  <2>5. /\ IntsOn(v, A \cup L) /\ IntsOn(v, (A \cup L) \cup Q) /\ IntsOn(v, ((A \cup L) \cup Q) \cup I)
        /\ IntsOn(v, (((A \cup L) \cup Q) \cup I) \cup X)
    BY <1>4, <2>1 DEF IntsOn
  <2>6. SumOver(v, A \cup L) = SumOver(v, A) + SumOver(v, L)
    BY <2>2, <2>3, <2>5, SumUnion
  <2>7. SumOver(v, (A \cup L) \cup Q) = SumOver(v, A \cup L) + SumOver(v, Q)
    BY <2>2, <2>3, <2>4, <2>5, SumUnion
  <2>8. SumOver(v, ((A \cup L) \cup Q) \cup I) = SumOver(v, (A \cup L) \cup Q) + SumOver(v, I)
    BY <2>2, <2>3, <2>4, <2>5, SumUnion
  <2>9. SumOver(v, (((A \cup L) \cup Q) \cup I) \cup X) = SumOver(v, ((A \cup L) \cup Q) \cup I) + SumOver(v, X)
    BY <2>2, <2>3, <2>4, <2>5, SumUnion
  <2>10. SumOver(v, R) = SumOver(v, A) + SumOver(v, L) + SumOver(v, Q) + SumOver(v, I) + SumOver(v, X)
    BY <2>1, <2>6, <2>7, <2>8, <2>9
  <2> QED BY <2>10 DEF A, L, Q, I, X
<1>11. \A c \in Categories : SumOver(v, P(c)) \in Int
  <2>1. \A c : P(c) \in SUBSET R
    BY DEF RowsOf
  <2> HIDE DEF P, v, R
  <2> QED BY <1>1, <1>4, <2>1, SumInt
<1>12. /\ TotalAsset(E) = SumOver(v, P("Asset"))
       /\ TotalOf("Liability", E) = 0 - SumOver(v, P("Liability"))
       /\ TotalOf("Equity", E) = 0 - SumOver(v, P("Equity"))
       /\ NetIncome(E) = (0 - SumOver(v, P("Income"))) + (0 - SumOver(v, P("Expense")))
  <2> HIDE DEF v
  <2> QED BY <1>8, <1>9 DEF TotalAsset, TotalOf, NetIncome, AssetRows
<1>13. TotalAsset(E) - (TotalOf("Liability", E) + TotalOf("Equity", E) + NetIncome(E)) = SumOver(v, R)
  <2> HIDE DEF v, R, P
  <2> QED BY <1>10, <1>11, <1>12 DEF Categories
<1> HIDE DEF v, o, m
<1> QED BY <1>6, <1>7, <1>13

\* ... said of the statements of a report
DebitRows(s)  == [a \in DOMAIN s.trial |-> s.trial[a].dr]
CreditRows(s) == [a \in DOMAIN s.trial |-> s.trial[a].cr]
AllWhole(s)   == \A j \in s.of \cap Journal : Whole(j)
Ties(s) ==
  /\ s.asset - (s.liability + s.equity + s.income)
       = SumFunction([a \in OnSheetOf(DOMAIN s.trial) |-> OpeningOf(a)])
           + (SumFunction(DebitRows(s)) - SumFunction(CreditRows(s)))
  /\ AllWhole(s) => SumFunction(DebitRows(s)) = SumFunction(CreditRows(s))

LEMMA StatementsTie ==
  ASSUME ReportAssumption, NEW E, Entries(E), NEW g, NEW from,
         (\A j \in {e.of : e \in E} \cap Journal : Whole(j)) => Debits(E) = Credits(E)
  PROVE  Ties(Statements(E, g, from))
<1> DEFINE s == Statements(E, g, from)
           R == TrialRows(E)
<1>1. /\ s.trial = TrialBalance(E) /\ s.asset = TotalAsset(E) /\ s.liability = TotalOf("Liability", E)
      /\ s.equity = TotalOf("Equity", E) /\ s.income = NetIncome(E) /\ s.of = {e.of : e \in E}
  BY DEF Statements
<1>2. DOMAIN s.trial = R /\ \A a \in R : s.trial[a].dr = MovDr(a, E) /\ s.trial[a].cr = MovCr(a, E)
  BY <1>1 DEF TrialBalance
<1> HIDE DEF s
<1>3. DebitRows(s) = DrOf(E) /\ CreditRows(s) = CrOf(E)
  BY <1>2 DEF DrOf, CrOf, DebitRows, CreditRows
<1>4. SumFunction(DrOf(E)) = SumOver(DrOf(E), R) /\ SumFunction(CrOf(E)) = SumOver(CrOf(E), R)
  BY SumOfFunction DEF DrOf, CrOf
<1>5. SumFunction(DrOf(E)) = Debits(E) /\ SumFunction(CrOf(E)) = Credits(E)
  BY <1>4, MovementsAddUp
<1>6. s.asset - (s.liability + s.equity + s.income)
        = SumFunction([a \in OnSheetOf(R) |-> OpeningOf(a)]) + (Debits(E) - Credits(E))
  BY <1>1, SheetTies
<1>7. Ties(s)
  BY <1>1, <1>2, <1>3, <1>5, <1>6 DEF Ties, AllWhole
<1> QED BY <1>7 DEF s

\* what a generation keeps of its click
Coded == [Doc -> {NoCode} \cup Account]
IsGeneration(g) == g.code \in Coded /\ g.docs \subseteq Doc /\ g.bank \in Banks

\* the two lines of a transaction balance
LEMMA PostingBalances ==
  ASSUME ReportAssumption, NEW d \in Doc, NEW a \in Account \cup {Suspense}, NEW b \in Account \cup {Suspense}
  PROVE  /\ Entries(Posting(d, a, b)) /\ \A l \in Posting(d, a, b) : l.of = d
         /\ Debits(Posting(d, a, b)) = Credits(Posting(d, a, b))
<1> DEFINE n == DocAmount[d]
           x == Line(d, a, n, 0)
           y == Line(d, b, 0, n)
           E == {x, y}
<1>1. n \in Int /\ n # 0
  BY DEF ReportAssumption
<1>2. /\ x.acct = a /\ x.dr = n /\ x.cr = 0 /\ x.of = d
      /\ y.acct = b /\ y.dr = 0 /\ y.cr = n /\ y.of = d
  BY DEF Line
<1>3. Posting(d, a, b) = E
  BY DEF Posting
<1> HIDE DEF x, y, n
<1>4. x # y /\ E = ({} \cup {x}) \cup {y} /\ IsFiniteSet({} \cup {x}) /\ IsFiniteSet(E)
  <2>1. IsFiniteSet({} \cup {x})
    BY FS_EmptySet, FS_AddElement
  <2>2. IsFiniteSet(({} \cup {x}) \cup {y}) /\ E = ({} \cup {x}) \cup {y}
    BY <2>1, FS_AddElement
  <2> QED BY <1>1, <1>2, <2>1, <2>2
<1>5. Entries(E)
  BY <1>1, <1>2, <1>4 DEF Entries
<1> DEFINE dr == DebitOf(E)  cr == CreditOf(E)
<1>6. dr[x] = n /\ dr[y] = 0 /\ cr[x] = 0 /\ cr[y] = n
  BY <1>2 DEF DebitOf, CreditOf
<1>7. /\ IntsOn(dr, E) /\ IntsOn(cr, E) /\ Debits(E) = SumOver(dr, E) /\ Credits(E) = SumOver(cr, E)
  BY <1>5, PartSums
<1> HIDE DEF dr, cr, E
<1>8. ASSUME NEW f, IntsOn(f, E) PROVE SumOver(f, E) = f[y] + (f[x] + 0)
  <2>1. IntsOn(f, ({} \cup {x}) \cup {y}) /\ IntsOn(f, {} \cup {x}) /\ y \notin {} \cup {x}
    BY <1>4, <1>8 DEF IntsOn
  <2>2. SumOver(f, ({} \cup {x}) \cup {y}) = f[y] + SumOver(f, {} \cup {x})
    BY <1>4, <2>1, SumGrows
  <2>3. SumOver(f, {} \cup {x}) = f[x] + SumOver(f, {})
    BY <2>1, FS_EmptySet, SumGrows
  <2> QED BY <1>4, <2>2, <2>3, SumEmpty
<1>9. SumOver(dr, E) = n /\ SumOver(cr, E) = n
  BY <1>1, <1>6, <1>7, <1>8
<1>10. \A l \in E : l.of = d
  BY <1>2 DEF E
<1> QED BY <1>3, <1>5, <1>7, <1>9, <1>10

LEMMA OcrBalances ==
  ASSUME ReportAssumption, NEW g, IsGeneration(g), NEW d \in g.docs
  PROVE  /\ Entries(OcrLines(d, g)) /\ \A l \in OcrLines(d, g) : l.of = d
         /\ Debits(OcrLines(d, g)) = Credits(OcrLines(d, g))
<1>1. Assigned(d, g) \in Account \cup {Suspense} /\ g.bank \in Account /\ d \in Doc
  BY DEF Assigned, IsGeneration, Coded, ReportAssumption
<1>2. DocKind[d] \in {"AR", "AP", "deposit", "withdrawal"} /\ ArControl \in Account /\ ApControl \in Account
  BY <1>1 DEF ReportAssumption
<1>3. \E a, b \in Account \cup {Suspense} : OcrLines(d, g) = Posting(d, a, b)
  BY <1>1, <1>2 DEF OcrLines
<1> QED BY <1>1, <1>3, PostingBalances

LEMMA ComputedTies ==
  ASSUME ReportAssumption, NEW g, IsGeneration(g)
  PROVE  Ties(Computed(g).statements)
<1> DEFINE E == UNION {OcrLines(d, g) : d \in g.docs}
<1>1. \A d \in g.docs : /\ Entries(OcrLines(d, g)) /\ \A l \in OcrLines(d, g) : l.of = d
                        /\ Debits(OcrLines(d, g)) = Credits(OcrLines(d, g))
  BY OcrBalances
<1>2. IsFiniteSet(E)
  <2> DEFINE f == [d \in g.docs |-> OcrLines(d, g)]
             F == {f[d] : d \in g.docs}
  <2>1. IsFiniteSet(g.docs)
    BY FS_Subset DEF IsGeneration, ReportAssumption
  <2>2. E = UNION F /\ \A T \in F : IsFiniteSet(T)
    BY <1>1 DEF Entries
  <2>3. IsFiniteSet(F)
    <3> HIDE DEF f
    <3> QED BY <2>1, FiniteImage
  <2> HIDE DEF E, F
  <2> QED BY <2>2, <2>3, FS_UNION
<1>3. Entries(E)
  BY <1>1, <1>2 DEF Entries
<1>4. \A e \in E : e.of \in g.docs /\ OcrLines(e.of, g) = {x \in E : x.of = e.of}
  BY <1>1
<1>5. Debits(E) = Credits(E)
  <2>1. \A e \in E : Debits({x \in E : x.of = e.of}) = Credits({x \in E : x.of = e.of})
    <3> TAKE e \in E
    <3>1. e.of \in g.docs /\ OcrLines(e.of, g) = {x \in E : x.of = e.of}
      BY <1>4
    <3>2. Debits(OcrLines(e.of, g)) = Credits(OcrLines(e.of, g))
      BY <1>1, <3>1
    <3> HIDE DEF E
    <3> QED BY <3>1, <3>2
  <2> HIDE DEF E
  <2> QED BY <1>3, <2>1, BalancedParts
<1>6. Ties(Statements(E, g, "ocr"))
  <2> HIDE DEF E
  <2> QED BY <1>3, <1>5, StatementsTie
<1> QED BY <1>6 DEF Computed

LEMMA ActiveJournals ==
  ASSUME NEW g
  PROVE  Active(g) \subseteq Journal
BY DEF Active, ActiveOf, Latest, Picked, With

LEMMA GlOnlyTies ==
  ASSUME ReportAssumption, NEW J \in SUBSET Journal, NEW S, NEW g
  PROVE  Ties(GlOnly(J, S, g).statements)
<1> DEFINE E == UNION {GlLines(j) : j \in J}
<1>1. \A j \in J : /\ IsFiniteSet(GlLines(j))
                   /\ \A l \in GlLines(j) : l.of = j /\ l.acct \in Account /\ l.dr \in Int /\ l.cr \in Int
  <2>1. \A j \in J : GlLines(j) \subseteq Lines[j] /\ IsFiniteSet(Lines[j])
    BY DEF GlLines, ReportAssumption
  <2>2. \A j \in J : IsFiniteSet(GlLines(j))
    BY <2>1, FS_Subset
  <2> QED BY <2>2 DEF GlLines, ReportAssumption
<1>2. IsFiniteSet(E)
  <2> DEFINE f == [j \in J |-> GlLines(j)]
             F == {f[j] : j \in J}
  <2>1. IsFiniteSet(J)
    BY FS_Subset DEF ReportAssumption
  <2>2. E = UNION F /\ \A T \in F : IsFiniteSet(T)
    BY <1>1
  <2>3. IsFiniteSet(F)
    <3> HIDE DEF f
    <3> QED BY <2>1, FiniteImage
  <2> HIDE DEF E, F
  <2> QED BY <2>2, <2>3, FS_UNION
<1>3. Entries(E)
  BY <1>1, <1>2 DEF Entries
<1>4. \A e \in E : e.of \in J /\ GlLines(e.of) = {x \in E : x.of = e.of}
  BY <1>1
<1>5. ASSUME \A j \in {e.of : e \in E} \cap Journal : Whole(j) PROVE Debits(E) = Credits(E)
  <2>1. \A e \in E : Debits({x \in E : x.of = e.of}) = Credits({x \in E : x.of = e.of})
    <3> TAKE e \in E
    <3>1. e.of \in {x.of : x \in E} \cap Journal /\ GlLines(e.of) = {x \in E : x.of = e.of}
      BY <1>4
    <3>2. Debits(GlLines(e.of)) = Credits(GlLines(e.of))
      BY <1>5, <3>1 DEF Whole
    <3> HIDE DEF E
    <3> QED BY <3>1, <3>2
  <2> HIDE DEF E
  <2> QED BY <1>3, <2>1, BalancedParts
<1>6. Ties(Statements(E, g, "gl"))
  <2> HIDE DEF E
  <2> QED BY <1>3, <1>5, StatementsTie
<1> QED BY <1>6 DEF GlOnly

ReportInv ==
  /\ code \in Coded /\ loaded \subseteq Doc /\ chosenBank \in Banks
  /\ \A g \in gens : IsGeneration(g)
  /\ \A c \in cards : c.bank \in Banks
  /\ Reported => Ties(latestReport.statements)

LEMMA ReportInitInv == ReportAssumption /\ ReportInit => ReportInv
BY DEF ReportAssumption, ReportInit, ReportInv, Coded, Reported

LEMMA NewGeneration ==
  ASSUME ReportInv, NEW b \in Banks, NEW p
  PROVE  IsGeneration(Generation(b, p))
BY DEF ReportInv, Generation, Collected, IsGeneration

LEMMA ReportStepInv == ReportAssumption /\ ReportInv /\ [ReportNext]_report => ReportInv'
<1> SUFFICES ASSUME ReportAssumption, ReportInv, [ReportNext]_report PROVE ReportInv'
  OBVIOUS
<1> USE DEF docs, books, setup
<1>1. DefaultBank \in Banks
  BY DEF ReportAssumption
<1>2. CASE ChooseBank \/ Reopen
  BY <1>1, <1>2 DEF ChooseBank, Reopen, ReportInv, Reported
<1>3. CASE Submit
  <2>1. IsGeneration(Generation(chosenBank, NoPicks))
    BY NewGeneration DEF ReportInv
  <2> QED BY <1>3, <2>1 DEF Submit, ReportInv, Reported
<1>4. CASE GenerateCommand
  <2>1. IsGeneration(Generation(DefaultBank, NoPicks))
    BY <1>1, NewGeneration
  <2> QED BY <1>4, <2>1 DEF GenerateCommand, ReportInv, Reported
<1>5. CASE Pick
  <2>1. PICK c \in cards : \E k, j : gens' = gens \cup {Generation(c.bank, [c.picks EXCEPT ![k] = {j}])}
    BY <1>5 DEF Pick
  <2>2. PICK k, j : gens' = gens \cup {Generation(c.bank, [c.picks EXCEPT ![k] = {j}])}
    BY <2>1
  <2>3. IsGeneration(Generation(c.bank, [c.picks EXCEPT ![k] = {j}]))
    BY NewGeneration DEF ReportInv
  <2> QED BY <1>5, <2>2, <2>3 DEF Pick, ReportInv, Reported
<1>6. ASSUME NEW g \in gens, NEW r, ShowReport(g, r), Ties(r.statements), UNCHANGED <<docs, chosenBank>>
      PROVE  ReportInv'
  BY <1>6 DEF ShowReport, ReportInv, Reported
<1>7. CASE FetchFails
  <2>1. PICK g \in gens : ShowReport(g, Computed(g))
    BY <1>7 DEF FetchFails
  <2>2. Ties(Computed(g).statements)
    BY ComputedTies DEF ReportInv
  <2> QED BY <1>6, <1>7, <2>1, <2>2 DEF FetchFails
<1>8. CASE ReportAnswer
  <2>1. PICK g \in gens :
          \/ /\ gens' = gens \ {g} /\ UNCHANGED latestReport
             /\ cards' = cards \cup
                  {[bank |-> g.bank, picks |-> g.picks, conflicts |-> Conflicts(g),
                    options |-> UNION {With("draft", k) : k \in Conflicts(g)}]}
          \/ ShowReport(g, GlOnly(Active(g), SupersededBy(g), g))
          \/ ShowReport(g, Computed(g))
    BY <1>8, Zenon DEF ReportAnswer
  <2>2. UNCHANGED <<docs, chosenBank>> /\ IsGeneration(g)
    BY <1>8 DEF ReportAnswer, ReportInv
  <2>3. CASE /\ gens' = gens \ {g} /\ UNCHANGED latestReport
             /\ cards' = cards \cup
                  {[bank |-> g.bank, picks |-> g.picks, conflicts |-> Conflicts(g),
                    options |-> UNION {With("draft", k) : k \in Conflicts(g)}]}
    <3>1. \A c \in cards' : c.bank \in Banks
      BY <2>2, <2>3 DEF ReportInv, IsGeneration
    <3> QED BY <2>2, <2>3, <3>1 DEF ReportInv, Reported
  <2>4. CASE ShowReport(g, GlOnly(Active(g), SupersededBy(g), g))
    <3>1. Ties(GlOnly(Active(g), SupersededBy(g), g).statements)
      BY ActiveJournals, GlOnlyTies
    <3> QED BY <1>6, <2>2, <2>4, <3>1
  <2>5. CASE ShowReport(g, Computed(g))
    BY <1>6, <2>2, <2>5, ComputedTies
  <2> QED BY <2>1, <2>3, <2>4, <2>5
<1>9. CASE Recode
  BY <1>9 DEF Recode, ReportInv, Reported, Coded
<1>10. CASE LoadChat \/ Reconcile \/ DraftJournal \/ PostJournal \/ UNCHANGED report
  BY <1>10 DEF LoadChat, Reconcile, DraftJournal, PostJournal, report, ReportInv, Reported
<1> QED BY <1>2, <1>3, <1>4, <1>5, <1>7, <1>8, <1>9, <1>10 DEF ReportNext

\* Whatever codes are missing, whatever was left unmatched and whichever vouchers count, the
\* balance sheet misses the tie by the opening balances of the accounts it shows and by what
\* the trial balance misses, which is nothing unless a draft counts whose lines do not balance
\* (materializeFinancialReport, update_draft).
THEOREM ReportTies == ReportSpec => []TiesUpToOpenings
<1>1. ReportInv => TiesUpToOpenings
  <2> SUFFICES ASSUME ReportInv, Reported PROVE TiesUpToOpenings
    BY DEF TiesUpToOpenings
  <2>1. Ties(Sheet)
    BY DEF ReportInv, Sheet
  <2>2. /\ TrialDebits = SumFunction(DebitRows(Sheet)) /\ TrialCredits = SumFunction(CreditRows(Sheet))
        /\ OnSheet = OnSheetOf(DOMAIN Sheet.trial)
    BY DEF TrialDebits, TrialCredits, DebitRows, CreditRows, OnSheet, OnSheetOf
  <2> QED BY <2>1, <2>2 DEF TiesUpToOpenings, Ties, AllWhole, Difference
<1> QED BY <1>1, ReportInitInv, ReportStepInv, ReportConstants, PTL DEF ReportSpec


-----------------------------------------------------------------------------
(* The set-up wizard.                                                      *)

LEMMA LowestIn ==
  ASSUME NEW S \in SUBSET Nat, S # {}
  PROVE  Lowest(S) \in S
BY NatLeast DEF Lowest

\* The recursion over the accounts of a form has a solution.
BankStart(acc, t) == [old |-> acc, new |-> {}, next |-> BankFirst, by |-> t]
BankAfter(acc, f, t, it, i) == IF i = 0 THEN BankStart(acc, t) ELSE NewBank(it[i - 1], f.names[i])

BankWalk(acc, f, t, n, it) == it = [i \in 0..n |-> BankAfter(acc, f, t, it, i)]

LEMMA BankSteps ==
  ASSUME NEW acc, NEW f, NEW t, NEW n \in Nat
  PROVE  \E it : BankWalk(acc, f, t, n, it)
<1> DEFINE Solves(m, it) == BankWalk(acc, f, t, m, it)
           Bad == {m \in Nat : ~ \E it : Solves(m, it)}
<1> USE DEF BankWalk
<1> SUFFICES ASSUME Bad # {} PROVE FALSE
  OBVIOUS
<1>1. PICK m \in Bad : \A k \in Bad : ~ (k < m)
  <2>1. Bad \in SUBSET Nat
    OBVIOUS
  <2> HIDE DEF Bad
  <2> QED BY <2>1, NatLeast
<1>2. CASE m = 0
  <2> DEFINE it == [i \in 0..0 |-> BankStart(acc, t)]
  <2>1. it = [i \in 0..0 |-> BankAfter(acc, f, t, it, i)]
    BY DEF BankAfter
  <2> QED BY <1>1, <1>2, <2>1
<1>3. CASE m # 0
  <2>1. m - 1 \in Nat /\ m - 1 < m /\ m \in Nat
    BY <1>1, <1>3
  <2>2. PICK it : Solves(m - 1, it)
    BY <1>1, <2>1
  <2> DEFINE jt == [i \in 0..m |-> IF i = m THEN NewBank(it[m - 1], f.names[m]) ELSE it[i]]
  <2>3. ASSUME NEW i \in 0..m PROVE jt[i] = BankAfter(acc, f, t, jt, i)
    <3>1. CASE i = m
      BY <1>3, <2>1, <3>1 DEF BankAfter
    <3>2. CASE i # m
      <4>1. i \in 0..(m - 1) /\ (i # 0 => i - 1 \in 0..m /\ i - 1 # m)
        BY <2>1, <3>2
      <4>2. it[i] = BankAfter(acc, f, t, it, i)
        BY <2>2, <4>1
      <4>3. jt[i] = it[i] /\ (i # 0 => jt[i - 1] = it[i - 1])
        BY <3>2, <4>1
      <4> HIDE DEF jt
      <4> QED BY <4>2, <4>3 DEF BankAfter
    <3> QED BY <3>1, <3>2
  <2>4. jt = [i \in 0..m |-> BankAfter(acc, f, t, jt, i)]
    BY <2>3
  <2> HIDE DEF jt
  <2> QED BY <1>1, <2>4
<1> QED BY <1>2, <1>3

\* what a post may add to a chart: accounts of codes and names the chart lacks, one of a code
MayAdd(acc, new, codes, t) ==
  /\ \A x \in new : x.code \in codes /\ x.code \notin CodesOf(acc) /\ ~ Has(acc, x.name) /\ x.by = t
  /\ \A x \in new : \A b \in Builtin : x.name # b.name
  /\ \A x, y \in new : x.code = y.code => x = y

BankOk(acc, t, b) ==
  /\ b = [old |-> acc, new |-> b.new, next |-> b.next, by |-> t]
  /\ b.next \in Nat /\ BankFirst <= b.next /\ MayAdd(acc, b.new, BankCodes, t)

LEMMA BankRange == BankFirst \in Nat /\ BankLast \in Nat
BY WizardConstants, Zenon DEF WizardAssumption

LEMMA NewBankOk ==
  ASSUME NEW acc, NEW t, NEW b, BankOk(acc, t, b), NEW n \in Nickname
  PROVE  BankOk(acc, t, NewBank(b, n))
<1> DEFINE name == IF n = "" THEN CodeName(b.next) ELSE n
           free == (b.next..BankLast) \ CodesOf(b.old \cup b.new)
           k    == Lowest(free)
           a    == [code |-> k, name |-> name, by |-> b.by]
<1>1. CASE NameTaken(b.old, name) \/ free = {}
  BY <1>1 DEF NewBank
<1>2. CASE ~ (NameTaken(b.old, name) \/ free = {})
  <2>1. b.old = acc /\ b.by = t /\ b.next \in Nat /\ BankFirst <= b.next /\ BankFirst \in Nat /\ BankLast \in Nat
    <3>1. b = [old |-> acc, new |-> b.new, next |-> b.next, by |-> t]
      BY DEF BankOk
    <3>2. b.old = acc /\ b.by = t
      BY <3>1
    <3>3. b.next \in Nat /\ BankFirst <= b.next
      BY DEF BankOk
    <3> QED BY <3>2, <3>3, BankRange
  <2>2. k \in free
    <3>1. free \in SUBSET Nat
      BY <2>1
    <3> HIDE DEF free
    <3> QED BY <1>2, <3>1, LowestIn
  <2>3. k \in BankCodes /\ k \in Nat /\ k \notin CodesOf(acc) /\ (\A x \in b.new : x.code # k) /\ b.next \in BankCodes
    <3>1. k \in b.next..BankLast /\ k \notin CodesOf(b.old \cup b.new)
      BY <2>2
    <3> HIDE DEF a, k, name, free
    <3>2. k \in BankCodes /\ k \in Nat /\ b.next \in BankCodes
      BY <2>1, <3>1 DEF BankCodes
    <3>3. k \notin CodesOf(acc) /\ \A x \in b.new : x.code # k
      BY <2>1, <3>1 DEF CodesOf
    <3> QED BY <3>2, <3>3
  <2>4. \A c \in Builtin : name # c.name
    BY <2>3, WizardConstants DEF WizardAssumption
  <2>5. ~ Has(acc, name)
    BY <1>2, <2>1 DEF NameTaken
  <2>6. NewBank(b, n) = [old |-> acc, new |-> b.new \cup {a}, next |-> k + 1, by |-> t]
    BY <1>2, <2>1 DEF NewBank, BankOk
  <2>7. a.code = k /\ a.name = name /\ a.by = t
    BY <2>1
  <2>8. MayAdd(acc, b.new \cup {a}, BankCodes, t)
    <3> HIDE DEF a, k, name, free
    <3> QED BY <2>3, <2>4, <2>5, <2>7 DEF BankOk, MayAdd
  <2>9. k + 1 \in Nat /\ BankFirst <= k + 1
    BY <2>1, <2>3 DEF BankCodes
  <2> HIDE DEF a, k, name, free
  <2> QED BY <2>6, <2>8, <2>9 DEF BankOk
<1> QED BY <1>1, <1>2

LEMMA BanksMayAdd ==
  ASSUME NEW acc, NEW f, NEW t, f.names \in Seq(Nickname)
  PROVE  MayAdd(acc, BankAdded(acc, f, t), BankCodes, t)
<1> DEFINE n == Len(f.names)
<1>1. n \in Nat /\ \A i \in 1..n : f.names[i] \in Nickname
  OBVIOUS
<1>2. CASE f.pay \notin {"bank", "both"}
  BY <1>2 DEF BankAdded, MayAdd
<1>3. CASE f.pay \in {"bank", "both"}
  <2>1. \E it : BankWalk(acc, f, t, n, it)
    BY <1>1, BankSteps
  <2>2. PICK it : it = [i \in 0..n |-> BankAfter(acc, f, t, it, i)] /\ BankAdded(acc, f, t) = it[n].new
    BY <1>3, <2>1, Zenon DEF BankAdded, BankWalk, BankAfter, BankStart
  <2> DEFINE Bad == {i \in 0..n : ~ BankOk(acc, t, it[i])}
  <2>3. Bad = {}
    <3> SUFFICES ASSUME Bad # {} PROVE FALSE
      OBVIOUS
    <3>1. PICK i \in Bad : \A k \in Bad : ~ (k < i)
      <4>1. Bad \in SUBSET Nat
        BY <1>1
      <4> HIDE DEF Bad
      <4> QED BY <4>1, NatLeast
    <3>2. it[i] = BankAfter(acc, f, t, it, i) /\ i \in 0..n
      BY <2>2, <3>1
    <3>3. CASE i = 0
      <4>1. BankOk(acc, t, BankStart(acc, t))
        <5>1. BankFirst <= BankFirst
          BY BankRange
        <5>2. MayAdd(acc, {}, BankCodes, t)
          BY DEF MayAdd
        <5> QED BY <5>1, <5>2, BankRange DEF BankOk, BankStart
      <4> QED BY <3>1, <3>2, <3>3, <4>1 DEF BankAfter
    <3>4. CASE i # 0
      <4>1. i - 1 \in 0..n /\ i - 1 < i /\ i \in 1..n
        BY <1>1, <3>2, <3>4
      <4>2. BankOk(acc, t, it[i - 1])
        BY <3>1, <4>1
      <4>3. BankOk(acc, t, NewBank(it[i - 1], f.names[i]))
        BY <1>1, <4>1, <4>2, NewBankOk
      <4> QED BY <3>1, <3>2, <3>4, <4>3 DEF BankAfter
    <3> QED BY <3>3, <3>4
  <2>4. BankOk(acc, t, it[n])
    BY <1>1, <2>3
  <2> QED BY <2>2, <2>4 DEF BankOk
<1> QED BY <1>2, <1>3

LEMMA FixedMayAdd ==
  ASSUME NEW acc, NEW n \in {Cash, Director}, NEW codes \in SUBSET Nat, NEW t
  PROVE  MayAdd(acc, FixedAdded(acc, n, codes, t), codes, t)
<1> DEFINE free == codes \ CodesOf(acc)
<1>1. CASE NameTaken(acc, n) \/ free = {}
  BY <1>1 DEF FixedAdded, MayAdd
<1>2. CASE ~ (NameTaken(acc, n) \/ free = {})
  <2>1. Lowest(free) \in free
    BY <1>2, LowestIn
  <2>2. \A b \in Builtin : n # b.name
    BY WizardConstants DEF WizardAssumption
  <2>3. FixedAdded(acc, n, codes, t) = {[code |-> Lowest(free), name |-> n, by |-> t]}
    BY <1>2 DEF FixedAdded
  <2> QED BY <1>2, <2>1, <2>2, <2>3 DEF MayAdd, NameTaken
<1> QED BY <1>1, <1>2

\* a chart is in order: the property, and a built-in name stands at the built-in code
ChartOk(acc) ==
  /\ \A a, b \in acc : a # b => a.code # b.code /\ (a.name = b.name => a.by = b.by)
  /\ \A a \in acc, b \in Builtin : a.name = b.name => a.code = b.code

LEMMA AddedOk ==
  ASSUME NEW acc, ChartOk(acc), NEW f, f.names \in Seq(Nickname), NEW t
  PROVE  ChartOk(AccountsWith(acc, f, t))
<1> DEFINE B == BankAdded(acc, f, t)
           C == CashAdded(acc, f, t)
           D == FixedAdded(acc, Director, DirectorCodes, t)
<1>1. /\ CashCodes \in SUBSET Nat /\ DirectorCodes \in SUBSET Nat
      /\ BankCodes \cap CashCodes = {} /\ BankCodes \cap DirectorCodes = {} /\ CashCodes \cap DirectorCodes = {}
  BY WizardConstants DEF WizardAssumption
<1>2. MayAdd(acc, B, BankCodes, t)
  BY BanksMayAdd
<1>3. MayAdd(acc, C, CashCodes, t)
  <2>1. MayAdd(acc, FixedAdded(acc, Cash, CashCodes, t), CashCodes, t)
    BY <1>1, FixedMayAdd
  <2>2. MayAdd(acc, {}, CashCodes, t)
    BY DEF MayAdd
  <2> QED BY <2>1, <2>2 DEF CashAdded
<1>4. MayAdd(acc, D, DirectorCodes, t)
  BY <1>1, FixedMayAdd
<1> HIDE DEF B, C, D
<1>5. MayAdd(acc, B \cup C \cup D, BankCodes \cup CashCodes \cup DirectorCodes, t)
  <2>1. \A x \in B, y \in C : x.code # y.code
    BY <1>1, <1>2, <1>3 DEF MayAdd
  <2>2. \A x \in B, y \in D : x.code # y.code
    BY <1>1, <1>2, <1>4 DEF MayAdd
  <2>3. \A x \in C, y \in D : x.code # y.code
    BY <1>1, <1>3, <1>4 DEF MayAdd
  <2> QED BY <1>2, <1>3, <1>4, <2>1, <2>2, <2>3 DEF MayAdd
<1> DEFINE N == B \cup C \cup D
<1>6. AccountsWith(acc, f, t) = acc \cup N
  BY DEF AccountsWith, B, C, D
<1>7. \A a \in acc : \A x \in N : a.code # x.code /\ a.name # x.name
  BY <1>5 DEF MayAdd, CodesOf, Has
<1>8. \A x, y \in N : x # y => x.code # y.code /\ x.by = y.by
  BY <1>5 DEF MayAdd
<1>9. \A x \in N, b \in Builtin : x.name # b.name
  BY <1>5 DEF MayAdd
<1> HIDE DEF N
<1> QED BY <1>6, <1>7, <1>8, <1>9 DEF ChartOk

LEMMA SeededOk ==
  ASSUME NEW acc, ChartOk(acc)
  PROVE  ChartOk(acc \cup Unseeded(acc))
<1> DEFINE N == Unseeded(acc)
<1>1. \A x \in N : \E b \in Builtin : x.code = b.code /\ x.name = b.name /\ x.by = 0 /\ x = [code |-> b.code, name |-> b.name, by |-> 0]
  BY DEF Unseeded
<1>2. \A x \in N : x.code \notin CodesOf(acc)
  BY DEF Unseeded
<1>3. \A a, b \in Builtin : a.code = b.code \/ a.name = b.name => a = b
  BY WizardConstants DEF WizardAssumption
<1> HIDE DEF N
<1>4. \A a \in acc, x \in N : a.code # x.code /\ a.name # x.name
  <2> SUFFICES ASSUME NEW a \in acc, NEW x \in N PROVE a.code # x.code /\ a.name # x.name
    OBVIOUS
  <2>1. a.code # x.code
    BY <1>2 DEF CodesOf
  <2>2. PICK b \in Builtin : x.code = b.code /\ x.name = b.name
    BY <1>1
  <2> QED BY <2>1, <2>2 DEF ChartOk
<1>5. \A x, y \in N : x # y => x.code # y.code /\ x.by = y.by
  <2> SUFFICES ASSUME NEW x \in N, NEW y \in N, x # y PROVE x.code # y.code /\ x.by = y.by
    OBVIOUS
  <2>1. PICK b \in Builtin : x.by = 0 /\ x.code = b.code /\ x = [code |-> b.code, name |-> b.name, by |-> 0]
    BY <1>1
  <2>2. PICK c \in Builtin : y.by = 0 /\ y.code = c.code /\ y = [code |-> c.code, name |-> c.name, by |-> 0]
    BY <1>1
  <2>3. b # c
    BY <2>1, <2>2
  <2> QED BY <1>3, <2>1, <2>2, <2>3
<1>6. \A x \in N, b \in Builtin : x.name = b.name => x.code = b.code
  BY <1>1, <1>3
<1>7. ChartOk(acc \cup N)
  BY <1>4, <1>5, <1>6 DEF ChartOk
<1> QED BY <1>7 DEF N

WizardInv ==
  /\ chart = [c \in Business |-> chart[c]] /\ \A c \in Business : ChartOk(chart[c])
  /\ wizardCo \in Business /\ form.names \in Seq(Nickname)
  /\ \A g \in posts : g.co \in Business /\ g.form.names \in Seq(Nickname)

\* a form: which EXCEPT leaves alone what it does not name
IsForm(f) == f = [step |-> f.step, inst |-> f.inst, named |-> f.named, pay |-> f.pay, names |-> f.names]
FormInv == WizardInv /\ IsForm(form)

LEMMA OneBlank == <<"">> \in Seq(Nickname)
<1>1. \A x \in Nickname : <<x>> \in Seq(Nickname)
  OBVIOUS
<1>2. "" \in Nickname
  BY WizardConstants DEF WizardAssumption
<1> QED BY <1>1, <1>2, Zenon

LEMMA WizardInitInv == WizardInit => FormInv
<1> SUFFICES ASSUME WizardInit PROVE FormInv
  OBVIOUS
<1>1. <<"">> \in Seq(Nickname)
  BY OneBlank
<1> QED BY <1>1 DEF WizardInit, FormInv, WizardInv, EmptyForm, IsForm, ChartOk

LEMMA WithoutRow ==
  ASSUME NEW s \in Seq(Nickname), NEW i \in DOMAIN s
  PROVE  RemoveAt(s, i) \in Seq(Nickname)
<1>1. i \in 1..Len(s) /\ Len(s) \in Nat
  OBVIOUS
<1>2. SubSeq(s, 1, i - 1) \in Seq(Nickname) /\ SubSeq(s, i + 1, Len(s)) \in Seq(Nickname)
  BY <1>1, SubSeqProperties
<1> QED BY <1>2, ConcatProperties DEF RemoveAt

LEMMA FilledInv ==
  ASSUME FormInv, NEW f, Fill(f), IsForm(f), f.names \in Seq(Nickname)
  PROVE  FormInv'
BY DEF FormInv, WizardInv, Fill, onServer, ChartOk, IsForm

LEMMA WizardStepInv == FormInv /\ [WizardNext]_wizard => FormInv'
<1> SUFFICES ASSUME FormInv, [WizardNext]_wizard PROVE FormInv'
  OBVIOUS
<1> USE DEF onServer
<1>1. form.names \in Seq(Nickname) /\ IsForm(form)
  BY DEF FormInv, WizardInv
<1>2. "" \in Nickname
  BY WizardConstants DEF WizardAssumption
<1>3. ASSUME WizardOpened, UNCHANGED <<onServer, wizardCo, posts>> PROVE FormInv'
  BY OneBlank, <1>3 DEF WizardOpened, EmptyForm, FormInv, WizardInv, ChartOk, IsForm
<1>4. CASE ExistsAnswered
  <2>1. UNCHANGED <<onServer, wizardCo, posts>> /\ (WizardOpened \/ UNCHANGED form)
    BY <1>4 DEF ExistsAnswered
  <2>2. CASE UNCHANGED form
    BY <2>1, <2>2 DEF FormInv, WizardInv, ChartOk, IsForm
  <2> QED BY <1>3, <2>1, <2>2
<1>5. CASE OpenByHand
  BY <1>3, <1>5 DEF OpenByHand
<1>6. CASE ExistsFailed \/ Skip \/ UNCHANGED wizard
  BY <1>6 DEF ExistsFailed, Skip, wizard, FormInv, WizardInv, ChartOk, IsForm
<1>7. CASE SwitchBusiness
  BY <1>7 DEF SwitchBusiness, FormInv, WizardInv, ChartOk, IsForm
<1>8. CASE NameCompany
  BY <1>1, <1>8, FilledInv DEF NameCompany, IsForm
<1>9. CASE Forward
  BY <1>1, <1>9, FilledInv DEF Forward, IsForm
<1>10. CASE Back
  BY <1>1, <1>10, FilledInv DEF Back, IsForm
<1>11. CASE PickPayment
  <2>1. PICK p : Fill([form EXCEPT !.pay = p])
    BY <1>11 DEF PickPayment
  <2> QED BY <1>1, <2>1, FilledInv DEF IsForm
<1>12. CASE NameBank
  <2>1. PICK i \in DOMAIN form.names, n \in Nickname : Fill([form EXCEPT !.names[i] = n])
    BY <1>12 DEF NameBank
  <2>2. [form.names EXCEPT ![i] = n] \in Seq(Nickname)
    BY <1>1, <2>1
  <2>3. [form EXCEPT !.names[i] = n] = [form EXCEPT !.names = [form.names EXCEPT ![i] = n]]
    OBVIOUS
  <2>4. IsForm([form EXCEPT !.names = [form.names EXCEPT ![i] = n]])
    BY <1>1 DEF IsForm
  <2>5. [form EXCEPT !.names = [form.names EXCEPT ![i] = n]].names = [form.names EXCEPT ![i] = n]
    BY <1>1 DEF IsForm
  <2> QED BY <2>1, <2>2, <2>3, <2>4, <2>5, FilledInv
<1>13. ASSUME NEW ns \in Seq(Nickname), Fill([form EXCEPT !.names = ns]) PROVE FormInv'
  <2>1. IsForm([form EXCEPT !.names = ns]) /\ [form EXCEPT !.names = ns].names = ns
    BY <1>1 DEF IsForm
  <2> QED BY <1>13, <2>1, FilledInv
<1>14. CASE AddBank
  <2>1. Append(form.names, "") \in Seq(Nickname)
    <3>1. \A x \in Nickname : Append(form.names, x) \in Seq(Nickname)
      BY <1>1
    <3> QED BY <1>2, <3>1, Zenon
  <2> QED BY <1>13, <1>14, <2>1 DEF AddBank
<1>15. CASE RemoveBank
  <2>1. PICK i \in DOMAIN form.names : Fill([form EXCEPT !.names = RemoveAt(form.names, i)])
    BY <1>15 DEF RemoveBank
  <2>2. RemoveAt(form.names, i) \in Seq(Nickname)
    BY <1>1, WithoutRow
  <2> QED BY <1>13, <2>1, <2>2
<1>16. CASE PostAnswers
  BY <1>16 DEF PostAnswers, FormInv, WizardInv, ChartOk, IsForm
<1>17. CASE TimesOut
  <2>1. PICK g \in posts : posts' = (posts \ {g}) \cup {[g EXCEPT !.waits = FALSE]}
    BY <1>17 DEF TimesOut
  <2>2. [g EXCEPT !.waits = FALSE].co = g.co /\ [g EXCEPT !.waits = FALSE].form = g.form
    OBVIOUS
  <2> QED BY <1>17, <2>1, <2>2 DEF TimesOut, FormInv, WizardInv, ChartOk, IsForm
<1>18. CASE Refused
  BY <1>18 DEF Refused, FormInv, WizardInv, ChartOk, IsForm
<1>19. ASSUME NEW g \in posts, ServerDone(g), UNCHANGED <<wizardCo, form>> PROVE FormInv'
  <2>1. g.co \in Business /\ ChartOk(chart[g.co]) /\ g.form.names \in Seq(Nickname)
    BY DEF FormInv, WizardInv
  <2>2. ChartOk(AccountsWith(chart[g.co], g.form, g.act))
    BY <2>1, AddedOk
  <2>3. chart' = [chart EXCEPT ![g.co] = AccountsWith(chart[g.co], g.form, g.act)] /\ posts' \subseteq posts
    BY <1>19 DEF ServerDone
  <2>4. chart' = [c \in Business |-> chart'[c]] /\ \A c \in Business : ChartOk(chart'[c])
    BY <2>1, <2>2, <2>3 DEF FormInv, WizardInv
  <2>5. \A c \in Business : ChartOk(chart[c])'
    BY <2>4 DEF ChartOk
  <2> QED BY <1>19, <2>3, <2>4, <2>5 DEF FormInv, WizardInv, IsForm
<1>20. CASE Generated
  BY <1>19, <1>20 DEF Generated
<1>21. CASE AnswerLost
  BY <1>19, <1>21 DEF AnswerLost
<1>22. CASE ReadChart
  <2>1. ChartOk(chart[wizardCo] \cup Unseeded(chart[wizardCo])) /\ wizardCo \in Business
    BY SeededOk DEF FormInv, WizardInv
  <2>2. chart' = [chart EXCEPT ![wizardCo] = chart[wizardCo] \cup Unseeded(chart[wizardCo])]
    BY <1>22 DEF ReadChart
  <2>3. chart' = [c \in Business |-> chart'[c]] /\ \A c \in Business : ChartOk(chart'[c])
    BY <2>1, <2>2 DEF FormInv, WizardInv
  <2>4. \A c \in Business : ChartOk(chart[c])'
    BY <2>3 DEF ChartOk
  <2> QED BY <1>22, <2>3, <2>4 DEF ReadChart, FormInv, WizardInv, IsForm
<1> QED BY <1>4, <1>5, <1>6, <1>7, <1>8, <1>9, <1>10, <1>11, <1>12, <1>14, <1>15, <1>16, <1>17, <1>18,
           <1>20, <1>21, <1>22 DEF WizardNext

\* However often the wizard is posted again after a time-out or a lost answer, whatever
\* the server still finishes behind it, and whenever the built-in accounts are seeded,
\* the chart has one account of a code, and two of a name only from one form that gave
\* the name twice (_create_bank_coa_entries).
THEOREM AccountsAddedOnce == WizardSpec => []AccountsOnce
<1>1. FormInv => AccountsOnce
  BY DEF FormInv, WizardInv, ChartOk, AccountsOnce
<1> QED BY <1>1, WizardInitInv, WizardStepInv, PTL DEF WizardSpec
==============================================================================
