-------------------------- MODULE ReviewPage_proofs --------------------------
(***************************************************************************)
(* Theorems about the review page: the boxes of the crop gate (CropGate), the *)
(* preview beside a table (ReviewTable), the company amounts of receipts   *)
(* (FxDesk) and the tables of a run (BatchTables), for every value of their *)
(* constants.                                                              *)
(***************************************************************************)
EXTENDS CropGate, ReviewTable, FxDesk, BatchTables, TLAPS, WellFoundedInduction

-----------------------------------------------------------------------------
(* The shape of the gate's state.                                          *)

AnyFile == GateFile \union {NoGateFile}
Box == [f : AnyFile, p : Nat, v : Nat]
Marks == {"pending", "empty", "confirmed"}
Pages == [GPage -> [st : Marks, bx : Box]]
Phases == {"none", "preview", "extracting", "done"}
FileRow == [status : {"pending", "warning", "running", "ok", "stopped"}, phase : Phases,
            needs : BOOLEAN, pages : Pages]
Memory == [page : GPage, ents : Pages, bx : Box]
GateState == [file : AnyFile, page : GPage, ents : Pages, bx : Box,
              key : {<<>>} \union (GateFile \X Phases),
              mem : [GateFile -> Memory \union {NoMemory}]]
SeenState == [GateFile -> [GPage -> Box]]

(* No step changes what was detected on the pages of a file.               *)
FilesOk(F) == F \in [GateFile -> FileRow] /\ \A f \in GateFile : F[f].pages = Detected(f)

(* The key of the bootstrap effect: the file and the phase it is shown for. *)
KeyOf(f, x) == <<f, x.phase>>

(* Boxes lie on the page they are drawn on, in the gate and in a memory.   *)
OwnPages(x) == x.bx.p = x.page /\ \A p \in GPage : x.ents[p].bx.p = p

(* What the gate, or a memory of it, holds for a page.                     *)
Drawn(x, p) == IF p = x.page THEN x.bx ELSE x.ents[p].bx
SameBoxes(x, pages) == \A p \in GPage : Drawn(x, p) = pages[p]

(* A file that is not open has its memory, or was never looked at.         *)
MemoryOk(gg, s, f) ==
  IF gg.mem[f] = NoMemory THEN s[f] = Unseen
  ELSE OwnPages(gg.mem[f]) /\ SameBoxes(gg.mem[f], s[f])

(* The inductive invariant: the open file shows what the user last saw of  *)
(* it while it waits, its key names the phase it is shown for, and every   *)
(* other file of the gate is as it was seen in its memory.                 *)
GateOk(gg, t, F, s) ==
  /\ gg \in GateState /\ s \in SeenState
  /\ t \in Gated(F) \union {NoGateFile} /\ gg.file = t
  /\ t # NoGateFile =>
       /\ OwnPages(gg) /\ gg.key = KeyOf(t, F[t])
       /\ IF F[t].phase = "preview" THEN SameBoxes(gg, s[t]) ELSE s[t] = Unseen
  /\ \A f \in GateFile : f # t => MemoryOk(gg, s, f)
  /\ \A f \in GateFile : f # t /\ f \notin Gated(F) => gg.mem[f] = NoMemory
  /\ t = NoGateFile => \A f \in GateFile : gg.mem[f] = NoMemory

SnapOk == snap = NoSnap \/ FilesOk(snap.files)

GateInv ==
  /\ FilesOk(cfiles) /\ FilesOk(sfiles) /\ SnapOk
  /\ GateOk(g, target, cfiles, seen)

-----------------------------------------------------------------------------
(* The files.                                                              *)

(* What is detected is filed under its own page.                           *)
LEMMA DetectedPages ==
  ASSUME NEW f \in GateFile
  PROVE  Detected(f) \in Pages /\ \A p \in GPage : Detected(f)[p].bx.p = p
BY GateAssumption DEF Detected, Pages, Entry, Boxes, Box, AnyFile, Marks, GPage

(* Normalising changes the phase and the status of files only.             *)
LEMMA NormalizedFiles ==
  ASSUME NEW F, FilesOk(F)
  PROVE  FilesOk(NormalizedRun(F))
<1>1. ASSUME NEW f \in GateFile
      PROVE  Normalized(F[f]) \in FileRow /\ Normalized(F[f]).pages = F[f].pages
  <2>1. F[f] \in FileRow
    BY DEF FilesOk
  <2>2. QED
    BY <2>1 DEF Normalized, Sealed, Reopened, ResetPending, FileRow, Phases
<1>2. QED
  BY <1>1 DEF NormalizedRun, FilesOk

(* A file the client shows as extracting.                                  *)
LEMMA OptimisticFiles ==
  ASSUME FilesOk(cfiles), NEW f \in GateFile
  PROVE  /\ FilesOk(Optimistic(f)) /\ Optimistic(f)[f].phase = "extracting"
         /\ f \in Gated(Optimistic(f))
<1> DEFINE x == [cfiles[f] EXCEPT !.status = "running", !.phase = "extracting", !.needs = FALSE]
<1>1. cfiles[f] \in FileRow /\ cfiles \in [GateFile -> FileRow]
  BY DEF FilesOk
<1>2. /\ x \in FileRow /\ x.pages = cfiles[f].pages /\ x.phase = "extracting"
      /\ x.status = "running"
  BY <1>1 DEF FileRow, Phases
<1>3. Optimistic(f) = [cfiles EXCEPT ![f] = x]
  BY <1>1 DEF Optimistic
<1> HIDE DEF x
<1>4. FilesOk(Optimistic(f)) /\ Optimistic(f)[f] = x
  BY <1>1, <1>2, <1>3 DEF FilesOk
<1>5. Normalized(x) = x
  BY <1>2 DEF Normalized, StaleExtracting
<1>6. QED
  BY <1>2, <1>4, <1>5 DEF Gated

(* A file of the gate that is not extracting waits.                        *)
LEMMA WaitsAtGate ==
  ASSUME NEW F, FilesOk(F), NEW f \in Gated(F), F[f].phase # "extracting"
  PROVE  F[f].phase = "preview"
BY DEF Gated, Normalized, StaleExtracting

-----------------------------------------------------------------------------
(* The bootstrap effect.                                                   *)

(* The next open file is one of the gate's.                                *)
LEMMA TargetGated ==
  ASSUME NEW F, NEW t
  PROVE  /\ NextTarget(F, t) \in Gated(F) \union {NoGateFile}
         /\ NextTarget(F, t) = NoGateFile => Gated(F) = {}
         /\ NextTarget(F, t) # t => t \notin Gated(F)
BY GateAssumption DEF NextTarget, Gated

(* What has been seen stays typed, and of a file that is not open it stays *)
(* as it was or is forgotten with the file.                                *)
LEMMA SeenKept ==
  ASSUME NEW gg \in GateState, NEW s \in SeenState, NEW F
  PROVE  /\ SeenOf(s, gg, F) \in SeenState
         /\ \A f \in GateFile : f \notin Gated(F) => SeenOf(s, gg, F)[f] = Unseen
         /\ \A f \in GateFile : f \in Gated(F) /\ gg.file # f => SeenOf(s, gg, F)[f] = s[f]
         /\ \A f \in GateFile : f \in Gated(F) /\ gg.file = f /\ F[f].phase # "preview"
              => SeenOf(s, gg, F)[f] = Unseen
         /\ \A f \in GateFile : f \in Gated(F) /\ gg.file = f /\ F[f].phase = "preview"
              => \A p \in GPage : SeenOf(s, gg, F)[f][p] =
                   IF p = gg.page THEN gg.bx
                   ELSE IF s[f] = Unseen THEN gg.ents[p].bx ELSE s[f][p]
<1>1. Unseen \in [GPage -> Box]
  BY GateAssumption DEF Unseen, NoBoxes, Box, AnyFile
<1>2. gg.bx \in Box /\ \A p \in GPage : gg.ents[p].bx \in Box
  BY DEF GateState, Pages
<1>3. QED
  BY <1>1, <1>2 DEF SeenOf, SeenState

(* The gate without a file.                                                *)
LEMMA UnmountedGate ==
  /\ Unmounted \in GateState /\ Unmounted.file = NoGateFile
  /\ \A f \in GateFile : Unmounted.mem[f] = NoMemory
<1>1. 1 \in GPage
  BY GateAssumption DEF GPage
<1>2. NoBoxes \in Box /\ [p \in GPage |-> Entry("pending", NoBoxes)] \in Pages
  BY DEF NoBoxes, Box, AnyFile, Pages, Entry, Marks
<1>3. QED
  BY <1>1, <1>2 DEF Unmounted, GateState, AnyFile

(* The memories of files that left the gate are dropped.                   *)
LEMMA RememberedGate ==
  ASSUME NEW gg \in GateState, NEW F
  PROVE  LET h == [gg EXCEPT !.mem = Remembered(gg.mem, F)]
         IN  /\ h \in GateState
             /\ h.file = gg.file /\ h.page = gg.page /\ h.ents = gg.ents /\ h.bx = gg.bx
             /\ h.key = gg.key
             /\ \A f \in GateFile : h.mem[f] = IF f \in Gated(F) THEN gg.mem[f] ELSE NoMemory
<1>1. Remembered(gg.mem, F) \in [GateFile -> Memory \union {NoMemory}]
  BY DEF Remembered, GateState
<1>2. \A f \in GateFile : Remembered(gg.mem, F)[f] = IF f \in Gated(F) THEN gg.mem[f] ELSE NoMemory
  BY DEF Remembered
<1>3. QED
  BY <1>1, <1>2 DEF GateState

(* A file shown from what the server detected.                             *)
LEMMA BootstrappedGate ==
  ASSUME NEW h \in GateState, NEW F, FilesOk(F), NEW t \in GateFile,
         NEW b, b = Bootstrapped(h, t, F[t])
  PROVE  /\ b \in GateState /\ b.file = t /\ OwnPages(b) /\ b.key = KeyOf(t, F[t])
         /\ b.mem = h.mem
<1>1. F[t] \in FileRow /\ F[t].pages = Detected(t)
  BY DEF FilesOk
<1>2. 1 \in GPage /\ F[t].pages \in Pages /\ \A p \in GPage : F[t].pages[p].bx.p = p
  BY <1>1, DetectedPages, GateAssumption DEF GPage
<1>3. F[t].phase \in Phases /\ F[t].pages[1].bx \in Box
  BY <1>1, <1>2 DEF FileRow, Pages
<1>4. OnPage(F[t].pages[1].bx, 1) \in Box /\ OnPage(F[t].pages[1].bx, 1).p = 1
  BY <1>3 DEF OnPage, Box
<1>5. QED
  BY <1>2, <1>3, <1>4 DEF Bootstrapped, GateState, OwnPages, AnyFile, KeyOf

(* A file shown as the user left it.                                       *)
LEMMA RestoredGate ==
  ASSUME NEW h \in GateState, NEW F, FilesOk(F), NEW t \in GateFile, h.mem[t] # NoMemory,
         OwnPages(h.mem[t]),
         NEW b, b = Restored(h, t, F[t])
  PROVE  /\ b \in GateState /\ b.file = t /\ OwnPages(b) /\ b.key = KeyOf(t, F[t])
         /\ b.mem = h.mem /\ \A p \in GPage : Drawn(b, p) = Drawn(h.mem[t], p)
<1>1. F[t].phase \in Phases
  BY DEF FilesOk, FileRow
<1>2. h.mem[t] \in Memory
  BY DEF GateState
<1>3. QED
  BY <1>1, <1>2 DEF Restored, GateState, Memory, OwnPages, Drawn, AnyFile, KeyOf

(* A file that is being extracted.                                         *)
LEMMA FollowingGate ==
  ASSUME NEW h \in GateState, NEW F, FilesOk(F), NEW t \in GateFile, h.file = t,
         NEW b, b = Following(h, t, F[t])
  PROVE  /\ b \in GateState /\ b.file = t /\ OwnPages(b) /\ b.key = KeyOf(t, F[t])
         /\ \A f \in GateFile : f # t => b.mem[f] = h.mem[f]
<1> DEFINE same == h.key = KeyOf(t, F[t])
           pg == IF same THEN h.page ELSE 1
           box == IF same /\ h.bx.p = pg THEN h.bx ELSE OnPage(F[t].pages[pg].bx, pg)
           mem == [h.mem EXCEPT ![t] = NoMemory]
<1>1. F[t] \in FileRow /\ F[t].pages = Detected(t)
  BY DEF FilesOk
<1>2. /\ pg \in GPage /\ F[t].pages \in Pages /\ F[t].phase \in Phases
      /\ \A p \in GPage : F[t].pages[p].bx.p = p
  BY <1>1, DetectedPages, GateAssumption DEF GPage, GateState, FileRow
<1> HIDE DEF same, pg
<1>3. box \in Box /\ box.p = pg
  <2>1. F[t].pages[pg].bx \in Box /\ h.bx \in Box /\ pg \in Nat
    <3>1. F[t].pages[pg].bx \in Box
      BY <1>2 DEF Pages
    <3>2. h.bx \in Box
      BY DEF GateState
    <3>3. pg \in Nat
      BY <1>2, GateAssumption DEF GPage
    <3>4. QED
      BY <3>1, <3>2, <3>3
  <2>2. OnPage(F[t].pages[pg].bx, pg) \in Box /\ OnPage(F[t].pages[pg].bx, pg).p = pg
    BY <2>1 DEF OnPage, Box
  <2>3. QED
    BY <2>1, <2>2
<1>4. mem \in [GateFile -> Memory \union {NoMemory}] /\ \A f \in GateFile : f # t => mem[f] = h.mem[f]
  BY DEF GateState
<1>5. Following(h, t, F[t]) = [h EXCEPT !.ents = F[t].pages, !.page = pg, !.key = KeyOf(t, F[t]),
                                        !.mem = mem, !.bx = box]
  BY DEF Following, same, pg, GateState, KeyOf
<1> HIDE DEF box, mem
<1>6. /\ b.file = h.file /\ b.ents = F[t].pages /\ b.page = pg /\ b.key = KeyOf(t, F[t])
      /\ b.mem = mem /\ b.bx = box
  BY <1>5 DEF GateState
<1>7. b \in GateState
  <2>1. KeyOf(t, F[t]) \in {<<>>} \union (GateFile \X Phases)
    BY <1>2 DEF KeyOf
  <2>2. QED
    BY <1>2, <1>3, <1>4, <1>5, <2>1 DEF GateState
<1>8. b.file = t /\ OwnPages(b) /\ \A f \in GateFile : f # t => b.mem[f] = h.mem[f]
  BY <1>2, <1>3, <1>4, <1>6 DEF OwnPages
<1>9. QED
  BY <1>6, <1>7, <1>8

(* A gate in order for the file it has open, which may not be the file t   *)
(* that files F open.                                                      *)
ReadyGate(gg, s, F, t) ==
  /\ gg \in GateState /\ s \in SeenState /\ FilesOk(F)
  /\ t \in Gated(F) \union {NoGateFile} /\ (t = NoGateFile => Gated(F) = {})
  /\ gg.file # NoGateFile => OwnPages(gg)
  /\ gg.file = t /\ t # NoGateFile /\ F[t].phase = "preview" =>
       IF gg.key = KeyOf(t, F[t]) THEN SameBoxes(gg, s[t]) ELSE s[t] = Unseen
  /\ \A f \in Gated(F) : f # t \/ gg.file # t => MemoryOk(gg, s, f)
  /\ gg.file = NoGateFile => \A f \in GateFile : gg.mem[f] = NoMemory

(* The bootstrap effect brings such a gate in order for t.                 *)
LEMMA SyncedGate ==
  ASSUME NEW gg, NEW s, NEW F, NEW t, ReadyGate(gg, s, F, t)
  PROVE  GateOk(Synced(gg, F, t), t, F, SeenOf(s, Synced(gg, F, t), F))
<1> DEFINE h == [gg EXCEPT !.mem = Remembered(gg.mem, F)]
           b == Synced(gg, F, t)
           s1 == SeenOf(s, b, F)
<1>0. /\ gg \in GateState /\ s \in SeenState /\ FilesOk(F)
      /\ t \in Gated(F) \union {NoGateFile} /\ (t = NoGateFile => Gated(F) = {})
      /\ gg.file # NoGateFile => OwnPages(gg)
      /\ gg.file = t /\ t # NoGateFile /\ F[t].phase = "preview" =>
           IF gg.key = KeyOf(t, F[t]) THEN SameBoxes(gg, s[t]) ELSE s[t] = Unseen
      /\ \A f \in Gated(F) : f # t \/ gg.file # t => MemoryOk(gg, s, f)
      /\ gg.file = NoGateFile => \A f \in GateFile : gg.mem[f] = NoMemory
  BY DEF ReadyGate
<1>1. /\ h \in GateState
      /\ h.file = gg.file /\ h.page = gg.page /\ h.ents = gg.ents /\ h.bx = gg.bx /\ h.key = gg.key
      /\ \A f \in GateFile : h.mem[f] = IF f \in Gated(F) THEN gg.mem[f] ELSE NoMemory
  BY <1>0, RememberedGate
<1>2. NoGateFile \notin GateFile /\ Gated(F) \subseteq GateFile
  BY GateAssumption DEF Gated
<1>3. CASE t = NoGateFile
  <2>1. b = Unmounted
    BY <1>3 DEF Synced
  <2>2. b \in GateState /\ b.file = t /\ \A f \in GateFile : b.mem[f] = NoMemory
    BY <1>3, <2>1, UnmountedGate
  <2> HIDE DEF b
  <2>3. s1 \in SeenState
    BY <1>0, <2>2, SeenKept
  <2>4. \A f \in GateFile : s1[f] = Unseen
    BY <1>0, <1>3, <2>2, SeenKept
  <2>5. QED
    BY <1>0, <1>2, <1>3, <2>2, <2>3, <2>4 DEF GateOk, MemoryOk, b
<1>4. CASE t # NoGateFile
  <2>1. t \in GateFile /\ t \in Gated(F)
    BY <1>0, <1>2, <1>4
  <2>2. /\ b \in GateState /\ b.file = t /\ OwnPages(b) /\ b.key = KeyOf(t, F[t])
        /\ \A f \in GateFile : f # t => b.mem[f] = h.mem[f]
        /\ F[t].phase = "preview" =>
             \/ s[t] = Unseen
             \/ SameBoxes(b, s[t])
    <3> HIDE DEF b, h
    <3>0. FilesOk(F) /\ h \in GateState /\ t \in GateFile
      BY <1>0, <1>1, <2>1
    <3>1. CASE gg.file # t
      <4>1. MemoryOk(gg, s, t)
        BY <1>0, <2>1, <3>1
      <4>2. h.mem[t] = gg.mem[t]
        BY <1>0, <1>1, <2>1
      <4>3. CASE gg.file # NoGateFile /\ h.mem[t] # NoMemory /\ F[t].phase = "preview"
        <5>1. b = Restored(h, t, F[t])
          BY <1>1, <1>4, <3>1, <4>3 DEF Synced, b, h, KeyOf
        <5>2. OwnPages(h.mem[t]) /\ SameBoxes(h.mem[t], s[t])
          BY <4>1, <4>2, <4>3 DEF MemoryOk
        <5>3. /\ b \in GateState /\ b.file = t /\ OwnPages(b) /\ b.key = KeyOf(t, F[t])
              /\ b.mem = h.mem /\ \A p \in GPage : Drawn(b, p) = Drawn(h.mem[t], p)
          BY <3>0, <4>3, <5>1, <5>2, RestoredGate
        <5>4. SameBoxes(b, s[t])
          BY <5>2, <5>3 DEF SameBoxes
        <5>5. QED
          BY <5>3, <5>4
      <4>4. CASE ~ (gg.file # NoGateFile /\ h.mem[t] # NoMemory /\ F[t].phase = "preview")
        <5>1. b = Bootstrapped(h, t, F[t])
          BY <1>1, <1>4, <3>1, <4>4 DEF Synced, b, h, KeyOf
        <5>2. F[t].phase = "preview" => s[t] = Unseen
          BY <1>0, <2>1, <4>1, <4>2, <4>4 DEF MemoryOk
        <5>3. b \in GateState /\ b.file = t /\ OwnPages(b) /\ b.key = KeyOf(t, F[t]) /\ b.mem = h.mem
          BY <3>0, <5>1, BootstrappedGate
        <5>4. QED
          BY <5>2, <5>3
      <4>5. QED
        BY <4>3, <4>4
    <3>2. CASE gg.file = t /\ F[t].phase # "preview"
      <4>0. h.file = t
        BY <1>1, <3>2
      <4>1. b = Following(h, t, F[t])
        BY <1>1, <1>4, <3>2 DEF Synced, b, h, KeyOf
      <4>2. /\ b \in GateState /\ b.file = t /\ OwnPages(b) /\ b.key = KeyOf(t, F[t])
            /\ \A f \in GateFile : f # t => b.mem[f] = h.mem[f]
        BY <3>0, <3>2, <4>0, <4>1, FollowingGate
      <4>3. QED
        BY <3>2, <4>2
    <3>3. CASE gg.file = t /\ F[t].phase = "preview" /\ gg.key = KeyOf(t, F[t])
      <4>1. b = h
        BY <1>1, <1>4, <3>3 DEF Synced, b, h, KeyOf
      <4>2. OwnPages(h) /\ SameBoxes(h, s[t])
        BY <1>0, <1>1, <1>4, <3>3 DEF OwnPages, SameBoxes, Drawn
      <4>3. QED
        BY <1>1, <3>3, <4>1, <4>2
    <3>4. CASE gg.file = t /\ F[t].phase = "preview" /\ gg.key # KeyOf(t, F[t])
      <4>1. b = Bootstrapped(h, t, F[t])
        BY <1>1, <1>4, <3>4 DEF Synced, b, h, KeyOf
      <4>2. s[t] = Unseen
        BY <1>0, <1>4, <3>4
      <4>3. b \in GateState /\ b.file = t /\ OwnPages(b) /\ b.key = KeyOf(t, F[t]) /\ b.mem = h.mem
        BY <3>0, <4>1, BootstrappedGate
      <4>4. QED
        BY <4>2, <4>3
    <3>5. QED
      BY <3>1, <3>2, <3>3, <3>4
  <2> HIDE DEF b, h
  <2>3. s1 \in SeenState
    BY <1>0, <2>2, SeenKept
  <2>4. IF F[t].phase = "preview" THEN SameBoxes(b, s1[t]) ELSE s1[t] = Unseen
    <3>1. CASE F[t].phase # "preview"
      BY <1>0, <2>1, <2>2, <3>1, SeenKept
    <3>2. CASE F[t].phase = "preview"
      <4>1. \A p \in GPage : s1[t][p] = IF p = b.page THEN b.bx
                               ELSE IF s[t] = Unseen THEN b.ents[p].bx ELSE s[t][p]
        BY <1>0, <2>1, <2>2, <3>2, SeenKept
      <4> HIDE DEF s1
      <4>2. \A p \in GPage : Drawn(b, p) = s1[t][p]
        BY <2>2, <3>2, <4>1 DEF SameBoxes, Drawn
      <4>3. QED
        BY <3>2, <4>2 DEF SameBoxes
    <3>3. QED
      BY <3>1, <3>2
  <2>5. ASSUME NEW f \in GateFile, f # t
        PROVE  /\ MemoryOk(b, s1, f)
               /\ f \notin Gated(F) => b.mem[f] = NoMemory
    <3>1. b.mem[f] = IF f \in Gated(F) THEN gg.mem[f] ELSE NoMemory
      BY <1>1, <2>2, <2>5
    <3>2. CASE f \notin Gated(F)
      BY <1>0, <2>2, <3>1, <3>2, SeenKept DEF MemoryOk
    <3>3. CASE f \in Gated(F)
      <4>1. s1[f] = s[f]
        BY <1>0, <2>2, <2>5, <3>3, SeenKept
      <4>2. MemoryOk(gg, s, f)
        BY <1>0, <2>5, <3>3
      <4>3. QED
        BY <3>1, <3>3, <4>1, <4>2 DEF MemoryOk
    <3>4. QED
      BY <3>2, <3>3
  <2> HIDE DEF s1
  <2>6. GateOk(b, t, F, s1)
    BY <1>0, <1>4, <2>1, <2>2, <2>3, <2>4, <2>5 DEF GateOk
  <2>7. QED
    BY <2>6 DEF b, s1
<1>5. QED
  BY <1>3, <1>4

(* A new run object keeps the gate in order.                               *)
LEMMA ArrivesGate ==
  ASSUME GateInv, NEW F, FilesOk(F), Arrives(F)
  PROVE  GateOk(g', target', F, seen') /\ cfiles' = F
<1> DEFINE t == NextTarget(F, target)
<1>1. g \in GateState /\ seen \in SeenState /\ g.file = target /\ GateOk(g, target, cfiles, seen)
  BY DEF GateInv, GateOk
<1>2. NoGateFile \notin GateFile /\ Gated(F) \subseteq GateFile /\ Gated(cfiles) \subseteq GateFile
  BY GateAssumption DEF Gated
<1>3. /\ t \in Gated(F) \union {NoGateFile}
      /\ t = NoGateFile => Gated(F) = {}
      /\ t # target => target \notin Gated(F)
  BY TargetGated
<1> HIDE DEF t
<1>4. g.file # NoGateFile => OwnPages(g)
  BY <1>1 DEF GateOk
<1>5. g.file = t /\ t # NoGateFile /\ F[t].phase = "preview" =>
        IF g.key = KeyOf(t, F[t]) THEN SameBoxes(g, seen[t]) ELSE seen[t] = Unseen
  <2>1. ASSUME g.file = t, t # NoGateFile, F[t].phase = "preview"
        PROVE  /\ g.key = KeyOf(t, cfiles[t])
               /\ IF cfiles[t].phase = "preview" THEN SameBoxes(g, seen[t]) ELSE seen[t] = Unseen
    BY <1>1, <2>1 DEF GateOk
  <2>2. F[t].phase = "preview" => (KeyOf(t, cfiles[t]) = KeyOf(t, F[t]) <=> cfiles[t].phase = "preview")
    BY DEF KeyOf
  <2>3. QED
    BY <2>1, <2>2
<1>6. ASSUME NEW f \in Gated(F), f # t \/ g.file # t
      PROVE  MemoryOk(g, seen, f)
  BY <1>1, <1>2, <1>3, <1>6 DEF GateOk
<1>7. g.file = NoGateFile => \A f \in GateFile : g.mem[f] = NoMemory
  BY <1>1 DEF GateOk
<1>8. ReadyGate(g, seen, F, t)
  BY <1>1, <1>3, <1>4, <1>5, <1>6, <1>7 DEF ReadyGate
<1>9. GateOk(Synced(g, F, t), t, F, SeenOf(seen, Synced(g, F, t), F))
  BY <1>8, SyncedGate
<1>10. QED
  BY <1>9 DEF Arrives, t

(* So does what the user does to the open file: what is drawn changes on   *)
(* the page then on screen only.                                           *)
LEMMA ShowsGate ==
  ASSUME GateInv, target # NoGateFile, NEW gg \in GateState,
         gg.file = g.file, gg.key = g.key, gg.mem = g.mem, OwnPages(gg),
         \A p \in GPage \ {gg.page} : gg.ents[p].bx = Drawn(g, p),
         Shows(gg)
  PROVE  GateOk(g', target, cfiles, seen')
<1>1. /\ g \in GateState /\ seen \in SeenState /\ g.file = target
      /\ target \in Gated(cfiles) /\ g.key = KeyOf(target, cfiles[target])
      /\ IF cfiles[target].phase = "preview" THEN SameBoxes(g, seen[target]) ELSE seen[target] = Unseen
      /\ \A f \in GateFile : f # target => MemoryOk(g, seen, f)
      /\ \A f \in GateFile : f # target /\ f \notin Gated(cfiles) => g.mem[f] = NoMemory
  BY DEF GateInv, GateOk
<1>2. target \in GateFile
  BY <1>1 DEF Gated
<1>3. g' = gg /\ seen' = SeenOf(seen, gg, cfiles)
  BY DEF Shows
<1>4. /\ seen' \in SeenState
      /\ \A f \in GateFile : f \notin Gated(cfiles) => seen'[f] = Unseen
      /\ \A f \in GateFile : f \in Gated(cfiles) /\ f # target => seen'[f] = seen[f]
  BY <1>1, <1>3, SeenKept
<1>5. IF cfiles[target].phase = "preview" THEN SameBoxes(gg, seen'[target]) ELSE seen'[target] = Unseen
  <2>1. CASE cfiles[target].phase # "preview"
    BY <1>1, <1>2, <1>3, <2>1, SeenKept
  <2>2. CASE cfiles[target].phase = "preview"
    <3>1. \A p \in GPage : seen'[target][p] =
            IF p = gg.page THEN gg.bx
            ELSE IF seen[target] = Unseen THEN gg.ents[p].bx ELSE seen[target][p]
      BY <1>1, <1>2, <1>3, <2>2, SeenKept
    <3>2. \A p \in GPage : Drawn(g, p) = seen[target][p]
      BY <1>1, <2>2 DEF SameBoxes
    <3>3. \A p \in GPage : Drawn(gg, p) = seen'[target][p]
      BY <3>1, <3>2 DEF Drawn
    <3>4. QED
      BY <2>2, <3>3 DEF SameBoxes
  <2>3. QED
    BY <2>1, <2>2
<1>6. ASSUME NEW f \in GateFile, f # target
      PROVE  MemoryOk(gg, seen', f) /\ (f \notin Gated(cfiles) => gg.mem[f] = NoMemory)
  BY <1>1, <1>4, <1>6 DEF MemoryOk
<1>7. GateOk(gg, target, cfiles, seen')
  BY <1>1, <1>4, <1>5, <1>6 DEF GateOk
<1>8. QED
  BY <1>3, <1>7

(* Saving the boxes on screen into their page draws what was drawn.        *)
LEMMA SavedPagesDrawn ==
  ASSUME g \in GateState, OwnPages(g)
  PROVE  /\ SavedPages(g) \in Pages /\ ConfirmedPages \in Pages
         /\ \A p \in GPage : /\ SavedPages(g)[p].bx = Drawn(g, p) /\ ConfirmedPages[p].bx = Drawn(g, p)
                             /\ Drawn(g, p).p = p
<1> DEFINE row == g.ents[g.page]
           done == [[row EXCEPT !.bx = g.bx] EXCEPT !.st = "confirmed"]
<1>1. g.page \in GPage /\ g.ents \in Pages /\ g.bx \in Box /\ row \in [st : Marks, bx : Box]
  BY DEF GateState, Pages
<1>2. /\ [row EXCEPT !.bx = g.bx] \in [st : Marks, bx : Box] /\ [row EXCEPT !.bx = g.bx].bx = g.bx
      /\ done \in [st : Marks, bx : Box] /\ done.bx = g.bx
  BY <1>1 DEF Marks
<1>3. SavedPages(g) = [g.ents EXCEPT ![g.page] = [row EXCEPT !.bx = g.bx]]
  BY <1>1 DEF SavedPages, Pages
<1>4. ConfirmedPages = [SavedPages(g) EXCEPT ![g.page] = done]
  <2>1. SavedPages(g)[g.page] = [row EXCEPT !.bx = g.bx]
    BY <1>1, <1>3 DEF Pages
  <2>2. QED
    BY <1>1, <2>1 DEF ConfirmedPages
<1> HIDE DEF done
<1>5. SavedPages(g) \in Pages /\ \A p \in GPage : SavedPages(g)[p].bx = Drawn(g, p)
  BY <1>1, <1>2, <1>3 DEF Pages, Drawn
<1>6. ConfirmedPages \in Pages /\ \A p \in GPage : ConfirmedPages[p].bx = Drawn(g, p)
  BY <1>1, <1>2, <1>4, <1>5 DEF Pages, Drawn
<1>7. \A p \in GPage : Drawn(g, p).p = p
  BY DEF OwnPages, Drawn
<1>8. QED
  BY <1>5, <1>6, <1>7

-----------------------------------------------------------------------------
(* The clicks on the open file.                                            *)

(* What the steps below start from, for a file on screen.                  *)
LEMMA OnScreen ==
  ASSUME GateInv, target # NoGateFile
  PROVE  /\ g \in GateState /\ OwnPages(g) /\ g.file = target /\ target \in GateFile
         /\ target \in Gated(cfiles) /\ g.page \in GPage /\ g.bx \in Box /\ g.bx.p = g.page
         /\ g.ents \in Pages
<1>1. g \in GateState /\ OwnPages(g) /\ g.file = target /\ target \in Gated(cfiles)
  BY DEF GateInv, GateOk
<1>2. QED
  BY <1>1 DEF Gated, OwnPages, GateState

(* Boxes written into the page on screen, or dragged on it.                *)
LEMMA BoxesEdited ==
  ASSUME GateInv, target # NoGateFile, NEW bx \in Box, bx.p = g.page,
         NEW gg, \/ gg = [g EXCEPT !.bx = bx, !.ents[g.page].bx = bx]
                 \/ gg = [g EXCEPT !.bx = bx],
         Shows(gg)
  PROVE  GateOk(g', target, cfiles, seen')
<1> DEFINE row == [g.ents[g.page] EXCEPT !.bx = bx]
           ents == [g.ents EXCEPT ![g.page] = row]
<1>1. /\ g \in GateState /\ OwnPages(g) /\ g.page \in GPage /\ g.ents \in Pages
  BY OnScreen
<1>2. row \in [st : Marks, bx : Box] /\ row.bx = bx
  BY <1>1 DEF Pages
<1> HIDE DEF row
<1>3. /\ ents \in Pages /\ ents[g.page].bx = bx
      /\ \A p \in GPage \ {g.page} : ents[p] = g.ents[p]
  BY <1>1, <1>2 DEF Pages
<1>4. \/ gg = [g EXCEPT !.bx = bx, !.ents = ents]
      \/ gg = [g EXCEPT !.bx = bx]
  BY <1>1 DEF GateState, row
<1> HIDE DEF ents
<1>5. /\ gg \in GateState /\ gg.file = g.file /\ gg.key = g.key /\ gg.mem = g.mem
      /\ gg.page = g.page /\ gg.bx = bx /\ gg.ents \in {ents, g.ents}
  BY <1>1, <1>3, <1>4 DEF GateState
<1>6. OwnPages(gg)
  BY <1>1, <1>3, <1>5 DEF OwnPages
<1>7. \A p \in GPage \ {gg.page} : gg.ents[p].bx = Drawn(g, p)
  BY <1>1, <1>3, <1>5 DEF Drawn
<1>8. QED
  BY <1>5, <1>6, <1>7, ShowsGate

(* Another page is shown, once the boxes on screen are saved.              *)
LEMMA PageTurned ==
  ASSUME GateInv, target # NoGateFile, NEW q \in GPage,
         NEW ents \in {SavedPages(g), ConfirmedPages},
         Shows([g EXCEPT !.ents = ents, !.page = q, !.bx = OnPage(ents[q].bx, q)])
  PROVE  GateOk(g', target, cfiles, seen')
<1> DEFINE gg == [g EXCEPT !.ents = ents, !.page = q, !.bx = OnPage(ents[q].bx, q)]
<1>1. g \in GateState /\ OwnPages(g)
  BY OnScreen
<1>2. ents \in Pages /\ \A p \in GPage : ents[p].bx = Drawn(g, p) /\ Drawn(g, p).p = p
  BY <1>1, SavedPagesDrawn
<1>3. ents[q].bx \in Box /\ ents[q].bx.p = q
  BY <1>2 DEF Pages
<1>4. q \in Nat
  BY GateAssumption DEF GPage
<1>5. OnPage(ents[q].bx, q) \in Box /\ OnPage(ents[q].bx, q).p = q
  BY <1>3, <1>4 DEF OnPage, Box
<1>6. /\ gg \in GateState /\ gg.file = g.file /\ gg.key = g.key /\ gg.mem = g.mem
      /\ gg.page = q /\ gg.ents = ents /\ gg.bx.p = q
  BY <1>1, <1>2, <1>5 DEF GateState
<1>7. Shows(gg)
  OBVIOUS
<1> HIDE DEF gg
<1>8. OwnPages(gg) /\ \A p \in GPage \ {gg.page} : gg.ents[p].bx = Drawn(g, p)
  BY <1>2, <1>6 DEF OwnPages
<1>9. QED
  BY <1>6, <1>7, <1>8, ShowsGate

(* Leaving a file for another one of the gate stashes it as it was drawn.  *)
LEMMA FileStashed ==
  ASSUME GateInv, target # NoGateFile, cfiles[target].phase # "extracting",
         NEW t \in Gated(cfiles), t # target
  PROVE  ReadyGate(Stashed(g), seen, cfiles, t)
<1> DEFINE m == [page |-> g.page, ents |-> SavedPages(g), bx |-> g.bx]
           h == Stashed(g)
<1>1. /\ g \in GateState /\ OwnPages(g) /\ g.file = target /\ target \in GateFile
      /\ g.page \in GPage /\ g.bx \in Box
  BY OnScreen
<1>2. /\ seen \in SeenState /\ FilesOk(cfiles) /\ target \in Gated(cfiles)
      /\ \A f \in GateFile : f # target => MemoryOk(g, seen, f)
      /\ cfiles[target].phase = "preview" => SameBoxes(g, seen[target])
  BY DEF GateInv, GateOk
<1>3. cfiles[target].phase = "preview"
  BY <1>2, WaitsAtGate
<1>4. SavedPages(g) \in Pages /\ \A p \in GPage : SavedPages(g)[p].bx = Drawn(g, p) /\ Drawn(g, p).p = p
  BY <1>1, SavedPagesDrawn
<1>5. m \in Memory /\ m # NoMemory
  <2>1. g.page # 0
    BY <1>1, GateAssumption DEF GPage
  <2>2. m.page # NoMemory.page
    BY <2>1 DEF NoMemory
  <2>3. QED
    BY <1>1, <1>4, <2>2 DEF Memory
<1>6. OwnPages(m) /\ \A p \in GPage : Drawn(m, p) = Drawn(g, p)
  BY <1>1, <1>4 DEF OwnPages, Drawn
<1> HIDE DEF m
<1>7. h = [g EXCEPT !.mem = [g.mem EXCEPT ![target] = m]]
  BY <1>1 DEF Stashed, GateState, m
<1> HIDE DEF h
<1>8. /\ h \in GateState /\ h.file = target /\ h.page = g.page /\ h.ents = g.ents /\ h.bx = g.bx
      /\ h.mem[target] = m /\ \A f \in GateFile \ {target} : h.mem[f] = g.mem[f]
  BY <1>1, <1>5, <1>7 DEF GateState
<1>9. OwnPages(h)
  BY <1>1, <1>8 DEF OwnPages
<1>10. ASSUME NEW f \in GateFile
       PROVE  MemoryOk(h, seen, f)
  <2>1. CASE f = target
    BY <1>2, <1>3, <1>5, <1>6, <1>8, <2>1 DEF MemoryOk, SameBoxes
  <2>2. CASE f # target
    BY <1>2, <1>8, <2>2 DEF MemoryOk
  <2>3. QED
    BY <2>1, <2>2
<1>11. NoGateFile \notin GateFile /\ Gated(cfiles) \subseteq GateFile
  BY GateAssumption DEF Gated
<1>12. ReadyGate(h, seen, cfiles, t)
  BY <1>1, <1>2, <1>8, <1>9, <1>10, <1>11 DEF ReadyGate
<1>13. QED
  BY <1>12 DEF h

(* Sending the open file shows it as extracting.                           *)
LEMMA FileSent ==
  ASSUME GateInv, target # NoGateFile
  PROVE  ReadyGate([g EXCEPT !.ents = ConfirmedPages], seen, Optimistic(target), target)
<1> DEFINE h == [g EXCEPT !.ents = ConfirmedPages]
           F == Optimistic(target)
<1>1. g \in GateState /\ OwnPages(g) /\ g.file = target /\ target \in GateFile
  BY OnScreen
<1>2. /\ seen \in SeenState /\ FilesOk(cfiles)
      /\ \A f \in GateFile : f # target => MemoryOk(g, seen, f)
  BY DEF GateInv, GateOk
<1>3. FilesOk(F) /\ F[target].phase = "extracting" /\ target \in Gated(F)
  BY <1>1, <1>2, OptimisticFiles
<1>4. ConfirmedPages \in Pages /\ \A p \in GPage : ConfirmedPages[p].bx = Drawn(g, p) /\ Drawn(g, p).p = p
  BY <1>1, SavedPagesDrawn
<1>5. /\ h \in GateState /\ h.file = target /\ h.page = g.page /\ h.ents = ConfirmedPages
      /\ h.bx = g.bx /\ h.mem = g.mem
  BY <1>1, <1>4 DEF GateState
<1> HIDE DEF h, F
<1>6. OwnPages(h)
  BY <1>1, <1>4, <1>5 DEF OwnPages
<1>7. \A f \in GateFile : f # target => MemoryOk(h, seen, f)
  BY <1>2, <1>5 DEF MemoryOk
<1>8. NoGateFile \notin GateFile /\ Gated(F) \subseteq GateFile
  BY GateAssumption DEF Gated
<1>9. ReadyGate(h, seen, F, target)
  BY <1>1, <1>2, <1>3, <1>5, <1>6, <1>7, <1>8 DEF ReadyGate
<1>10. QED
  BY <1>9 DEF h, F

-----------------------------------------------------------------------------
(* The run starts with the invariant.                                      *)
LEMMA GateStarts ==
  ASSUME GateInit
  PROVE  GateInv
<1>1. \A f \in GateFile : sfiles[f] = [status |-> "pending", phase |-> "none", needs |-> FALSE,
                                       pages |-> Detected(f)]
  BY DEF GateInit
<1>2. FilesOk(sfiles) /\ cfiles = sfiles
  <2>1. ASSUME NEW f \in GateFile
        PROVE  sfiles[f] \in FileRow
    <3>1. PICK d \in Pages : d = Detected(f)
      BY DetectedPages
    <3>2. sfiles[f] = [status |-> "pending", phase |-> "none", needs |-> FALSE, pages |-> d]
      BY <1>1, <3>1
    <3>3. QED
      BY <3>2 DEF FileRow, Phases
  <2>2. QED
    BY <1>1, <2>1 DEF GateInit, FilesOk
<1>3. g = Unmounted /\ target = NoGateFile /\ seen = [f \in GateFile |-> Unseen] /\ snap = NoSnap
  BY DEF GateInit
<1>4. seen \in SeenState /\ \A f \in GateFile : seen[f] = Unseen
  BY <1>3 DEF SeenState, Unseen, NoBoxes, Box, AnyFile
<1>5. GateOk(g, target, cfiles, seen)
  BY <1>3, <1>4, UnmountedGate DEF GateOk, MemoryOk
<1>6. QED
  BY <1>2, <1>3, <1>5 DEF GateInv, SnapOk

(* The files of the client and of the backend keep what was detected.      *)
LEMMA FilesFollow ==
  ASSUME GateInv, GateNext
  PROVE  FilesOk(sfiles') /\ SnapOk'
<1>1. FilesOk(sfiles) /\ SnapOk /\ sfiles \in [GateFile -> FileRow]
  BY DEF GateInv, FilesOk
<1>2. ASSUME NEW f \in GateFile, DetectCrops(f)
      PROVE  FilesOk(sfiles')
  <2> DEFINE x == [sfiles[f] EXCEPT !.status = "warning", !.phase = "preview", !.needs = TRUE]
  <2>1. x \in FileRow /\ x.pages = sfiles[f].pages
    BY <1>1 DEF FileRow, Phases
  <2>2. sfiles' = [sfiles EXCEPT ![f] = x]
    BY <1>2 DEF DetectCrops
  <2> HIDE DEF x
  <2>3. QED
    BY <1>1, <2>1, <2>2 DEF FilesOk
<1>3. ASSUME NEW f \in GateFile, EndExtract(f)
      PROVE  FilesOk(sfiles')
  <2>1. PICK st \in {"ok", "stopped"} : sfiles' = [sfiles EXCEPT ![f].status = st]
    BY <1>3 DEF EndExtract
  <2> DEFINE x == [sfiles[f] EXCEPT !.status = st]
  <2>2. x \in FileRow /\ x.pages = sfiles[f].pages
    BY <1>1 DEF FileRow
  <2>3. sfiles' = [sfiles EXCEPT ![f] = x]
    BY <2>1
  <2> HIDE DEF x
  <2>4. QED
    BY <1>1, <2>2, <2>3 DEF FilesOk
<1>4. ASSUME TakeConf
      PROVE  FilesOk(sfiles')
  <2> DEFINE row == sfiles[conf.f]
             gone == [row EXCEPT !.phase = "done", !.needs = FALSE]
             busy == [row EXCEPT !.status = "running", !.phase = "extracting", !.needs = FALSE]
  <2>1. CASE conf.f \in GateFile
    <3>1. /\ gone \in FileRow /\ gone.pages = row.pages
          /\ busy \in FileRow /\ busy.pages = row.pages
      BY <1>1, <2>1 DEF FileRow, Phases
    <3>2. \/ sfiles' = [sfiles EXCEPT ![conf.f] = gone]
          \/ sfiles' = [sfiles EXCEPT ![conf.f] = busy]
      BY <1>1, <1>4, <2>1 DEF TakeConf
    <3> HIDE DEF gone, busy
    <3>3. QED
      BY <1>1, <2>1, <3>1, <3>2 DEF FilesOk
  <2>2. CASE conf.f \notin GateFile
    <3>1. sfiles' = sfiles
      BY <1>1, <1>4, <2>2 DEF TakeConf
    <3>2. QED
      BY <1>1, <3>1
  <2>3. QED
    BY <2>1, <2>2
<1>5. FilesOk(sfiles')
  BY <1>1, <1>2, <1>3, <1>4
     DEF GateNext, EditBoxes, DragBox, DropBox, ConfirmClick, SkipClick, CancelClick, SwitchPage,
         SwitchFile, ConfAnswered, ConfLost, PollRun, PollOvertakes, SnapArrives
<1>6. snap' \in {snap, NoSnap} \/ snap' = [kind |-> "poll", files |-> sfiles]
  BY DEF GateNext, EditBoxes, DragBox, DropBox, ConfirmClick, SkipClick, CancelClick, SwitchPage,
         SwitchFile, ConfAnswered, ConfLost, PollRun, PollOvertakes, SnapArrives, PollsDropped,
         DetectCrops, EndExtract, TakeConf
<1>7. QED
  BY <1>1, <1>5, <1>6 DEF SnapOk

(* Every step keeps the gate in order.                                     *)
LEMMA GateFollows ==
  ASSUME GateInv, GateNext
  PROVE  GateOk(g', target', cfiles', seen') /\ FilesOk(cfiles')
<1>1. /\ g \in GateState /\ g.file = target /\ FilesOk(cfiles) /\ FilesOk(sfiles)
      /\ GateOk(g, target, cfiles, seen)
  BY DEF GateInv, GateOk
<1>2. ASSUME NEW F, FilesOk(F), Arrives(NormalizedRun(F))
      PROVE  GateOk(g', target', cfiles', seen') /\ FilesOk(cfiles')
  <2>1. FilesOk(NormalizedRun(F))
    BY <1>2, NormalizedFiles
  <2>2. QED
    BY <1>2, <2>1, ArrivesGate
<1>3. ASSUME UNCHANGED <<cfiles, target, g, seen>>
      PROVE  GateOk(g', target', cfiles', seen') /\ FilesOk(cfiles')
  BY <1>1, <1>3
<1>4. ASSUME UNCHANGED <<cfiles, target>>, GateOk(g', target, cfiles, seen')
      PROVE  GateOk(g', target', cfiles', seen') /\ FilesOk(cfiles')
  BY <1>1, <1>4
<1>5. CASE EditBoxes
  <2>1. target # NoGateFile
    BY <1>1, <1>5 DEF EditBoxes, Editable
  <2>2. PICK v \in {0, g.bx.v + 1} :
          Shows([g EXCEPT !.bx = SetBox(g.bx, v), !.ents[g.page].bx = SetBox(g.bx, v)])
    BY <1>5 DEF EditBoxes
  <2>3. g.page \in Nat /\ g.bx.v \in Nat /\ g.file \in AnyFile
    BY <2>1, OnScreen, GateAssumption DEF GPage, Box, GateState
  <2>4. SetBox(g.bx, v) \in Box /\ SetBox(g.bx, v).p = g.page
    BY <2>2, <2>3 DEF SetBox, Box
  <2>5. GateOk(g', target, cfiles, seen')
    BY <2>1, <2>2, <2>4, BoxesEdited
  <2>6. QED
    BY <1>4, <1>5, <2>5 DEF EditBoxes
<1>6. CASE DragBox
  <2>1. target # NoGateFile
    BY <1>1, <1>6 DEF DragBox, Editable
  <2> DEFINE bx == [g.bx EXCEPT !.v = @ + 1]
  <2>2. g.bx \in Box /\ g.bx.p = g.page
    BY <2>1, OnScreen
  <2>3. bx \in Box /\ bx.p = g.page
    BY <2>2 DEF Box
  <2>4. Shows([g EXCEPT !.bx = bx])
    <3>1. [g EXCEPT !.bx.v = @ + 1] = [g EXCEPT !.bx = bx]
      BY <1>1 DEF GateState
    <3>2. QED
      BY <1>6, <3>1, Zenon DEF DragBox
  <2> HIDE DEF bx
  <2>5. GateOk(g', target, cfiles, seen')
    BY <2>1, <2>3, <2>4, BoxesEdited
  <2>6. QED
    BY <1>4, <1>6, <2>5 DEF DragBox
<1>7. CASE DropBox
  <2>1. target # NoGateFile
    BY <1>1, <1>7 DEF DropBox, Editable
  <2>2. g.bx \in Box /\ g.bx.p = g.page
    BY <2>1, OnScreen
  <2>3. Shows([g EXCEPT !.bx = g.bx, !.ents[g.page].bx = g.bx])
    <3>1. [g EXCEPT !.ents[g.page].bx = g.bx] = [g EXCEPT !.bx = g.bx, !.ents[g.page].bx = g.bx]
      BY <1>1 DEF GateState
    <3>2. QED
      BY <1>7, <3>1, Zenon DEF DropBox
  <2>4. GateOk(g', target, cfiles, seen')
    BY <2>1, <2>2, <2>3, BoxesEdited
  <2>5. QED
    BY <1>4, <1>7, <2>4 DEF DropBox
<1>8. ASSUME NEW p \in GPage, SwitchPage(p)
      PROVE  GateOk(g', target', cfiles', seen') /\ FilesOk(cfiles')
  <2>1. target # NoGateFile
    BY <1>1, <1>8 DEF SwitchPage
  <2>2. GateOk(g', target, cfiles, seen')
    BY <1>8, <2>1, PageTurned DEF SwitchPage
  <2>3. QED
    BY <1>4, <1>8, <2>2 DEF SwitchPage
<1>9. ASSUME NEW f \in GateFile, SwitchFile(f)
      PROVE  GateOk(g', target', cfiles', seen') /\ FilesOk(cfiles')
  <2>1. /\ target # NoGateFile /\ cfiles[target].phase # "extracting" /\ f \in Gated(cfiles)
        /\ f # target
    BY <1>1, <1>9 DEF SwitchFile, Blocked
  <2>2. ReadyGate(Stashed(g), seen, cfiles, f)
    BY <2>1, FileStashed
  <2>3. GateOk(Synced(Stashed(g), cfiles, f), f, cfiles,
               SeenOf(seen, Synced(Stashed(g), cfiles, f), cfiles))
    BY <2>2, SyncedGate
  <2>4. QED
    BY <1>1, <1>9, <2>3 DEF SwitchFile
<1>10. CASE ConfirmClick
  <2>1. target # NoGateFile
    BY <1>1, <1>10 DEF ConfirmClick
  <2>2. CASE Sends
    <3> DEFINE F == Optimistic(target)
               h == [g EXCEPT !.ents = ConfirmedPages]
    <3>1. ReadyGate(h, seen, F, target)
      BY <2>1, FileSent
    <3>2. cfiles' = F /\ target' = target /\ g' = Synced(h, F, target) /\ seen' = SeenOf(seen, g', F)
      BY <1>10, <2>2 DEF ConfirmClick
    <3> HIDE DEF F, h
    <3>3. QED
      BY <3>1, <3>2, SyncedGate DEF ReadyGate
  <2>3. CASE ~ Sends
    <3>1. PICK p \in NextPending(ConfirmedPages) :
            Shows([g EXCEPT !.ents = ConfirmedPages, !.page = p, !.bx = OnPage(ConfirmedPages[p].bx, p)])
      BY <1>10, <2>3 DEF ConfirmClick
    <3>2. p \in GPage
      BY <3>1 DEF NextPending
    <3>3. GateOk(g', target, cfiles, seen')
      BY <2>1, <3>1, <3>2, PageTurned
    <3>4. QED
      BY <1>4, <1>10, <2>3, <3>3 DEF ConfirmClick
  <2>4. QED
    BY <2>2, <2>3
<1>11. CASE SkipClick
  <2>1. target \in GateFile /\ Arrives(Optimistic(target))
    BY <1>11, GateAssumption DEF SkipClick
  <2>2. FilesOk(Optimistic(target))
    BY <1>1, <2>1, OptimisticFiles
  <2>3. QED
    BY <2>1, <2>2, ArrivesGate
<1>12. CASE CancelClick
  BY <1>3, <1>12 DEF CancelClick
<1>13. CASE ConfAnswered
  BY <1>1, <1>2, <1>13 DEF ConfAnswered
<1>14. CASE ConfLost
  BY <1>1, <1>2, <1>3, <1>14 DEF ConfLost
<1>15. CASE PollRun
  BY <1>1, <1>2, <1>15 DEF PollRun
<1>16. CASE PollOvertakes
  BY <1>3, <1>16 DEF PollOvertakes
<1>17. CASE SnapArrives
  <2>1. FilesOk(snap.files)
    BY <1>17 DEF GateInv, SnapOk, SnapArrives
  <2>2. QED
    BY <1>2, <1>17, <2>1 DEF SnapArrives
<1>18. ASSUME NEW f \in GateFile, DetectCrops(f) \/ EndExtract(f)
       PROVE  GateOk(g', target', cfiles', seen') /\ FilesOk(cfiles')
  BY <1>3, <1>18 DEF DetectCrops, EndExtract
<1>19. CASE TakeConf
  BY <1>3, <1>19 DEF TakeConf
<1>20. QED
  BY <1>5, <1>6, <1>7, <1>8, <1>9, <1>10, <1>11, <1>12, <1>13, <1>14, <1>15, <1>16, <1>17, <1>18,
     <1>19 DEF GateNext

(* While a file waits at the gate, no edit of one of its pages is lost,    *)
(* whichever pages, files and polls come in between: the memory of the     *)
(* files that are not open (fileMemoryRef) and the bootstrap key hold for  *)
(* any number of files, pages and edits.                                   *)
THEOREM NoEditLostAlways ==
  GateSpec => []NoEditLost
<1>1. GateInit => GateInv
  BY GateStarts
<1>2. GateInv /\ [GateNext]_gvars => GateInv'
  <2>1. CASE GateNext
    BY <2>1, FilesFollow, GateFollows DEF GateInv
  <2>2. ASSUME GateInv, UNCHANGED gvars
        PROVE  GateInv'
    BY <2>2 DEF GateInv, SnapOk, gvars
  <2>3. QED
    BY <2>1, <2>2
<1>3. GateInv => NoEditLost
  <2>1. ASSUME GateInv, g.file # NoGateFile, cfiles[g.file].phase = "preview"
        PROVE  \A p \in GPage : (IF p = g.page THEN g.bx ELSE g.ents[p].bx) = seen[g.file][p]
    <3>1. g.file = target /\ SameBoxes(g, seen[target])
      BY <2>1 DEF GateInv, GateOk
    <3>2. QED
      BY <3>1 DEF SameBoxes, Drawn
  <2>2. QED
    BY <2>1 DEF NoEditLost
<1>4. QED
  BY <1>1, <1>2, <1>3, PTL DEF GateSpec

-----------------------------------------------------------------------------
(* The preview of a table.  A crop that is still wanted for the panel is   *)
(* that of the row the user has selected, and while one is under way the   *)
(* panel says so; what was cancelled has an older number.                  *)
CropOk(a) ==
  /\ a.n \in Nat /\ a.pane \in Pane /\ a.n <= asked[a.pane]
  /\ a.pane = "panel" /\ Live(a) => a.row = Detail(rows, selected)

TableInv ==
  /\ asked \in [Pane -> Nat] /\ DOMAIN cropOf = Pane
  /\ \A a \in asks : CropOk(a)
  /\ PanelOfSelected

(* Every step that changes the rows or what is selected cancels the crops  *)
(* under way and asks again.                                               *)
LEMMA PreviewInv ==
  ASSUME TableInv, Preview, UNCHANGED kind
  PROVE  TableInv'
<1> DEFINE r == Detail(rows', selected')
<1>1. r = Detail(rows, selected)'
  BY DEF Detail
<1>2. asked' = [p \in Pane |-> asked[p] + 1] /\ asked' \in [Pane -> Nat]
  BY DEF Preview, TableInv
<1> HIDE DEF r
<1>3. ASSUME NEW a \in asks
      PROVE  a.n \in Nat /\ a.pane \in Pane /\ a.n < asked'[a.pane]
  BY <1>2 DEF TableInv, CropOk
<1>4. CASE r = NoRow
  <2>1. asks' = asks /\ cropOf' = [p \in Pane |-> NoRow] /\ loading' = FALSE
    BY <1>4 DEF Preview, r
  <2>2. \A a \in asks' : CropOk(a)'
    BY <1>2, <1>3, <2>1 DEF CropOk, Live
  <2>3. PanelOfSelected'
    BY <2>1 DEF PanelOfSelected, Pane
  <2>4. QED
    BY <1>2, <2>1, <2>2, <2>3 DEF TableInv
<1>5. CASE r # NoRow
  <2>1. /\ asks' = asks \cup {[pane |-> p, row |-> r, n |-> asked[p] + 1] : p \in Pane}
        /\ cropOf' = cropOf /\ loading' = TRUE
    BY <1>5 DEF Preview, r
  <2>2. ASSUME NEW a \in asks' PROVE CropOk(a)'
    <3>1. CASE a \in asks
      BY <1>2, <1>3, <3>1 DEF CropOk, Live
    <3>2. CASE \E p \in Pane : a = [pane |-> p, row |-> r, n |-> asked[p] + 1]
      BY <1>1, <1>2, <3>2 DEF CropOk, Live, TableInv
    <3>3. QED
      BY <2>1, <3>1, <3>2
  <2>3. QED
    BY <1>2, <2>1, <2>2 DEF TableInv, PanelOfSelected
<1>6. QED
  BY <1>4, <1>5

LEMMA CropInv ==
  ASSUME TableInv, NEW a \in asks, Crop(a)
  PROVE  TableInv'
<1>1. UNCHANGED <<kind, rows, selected, asked>> /\ asks' \subseteq asks
  BY DEF Crop, CropCame, CropFailed
<1>2. Detail(rows, selected)' = Detail(rows, selected)
  BY <1>1 DEF Detail
<1>3. \A b \in asks' : CropOk(b)'
  BY <1>1, <1>2 DEF TableInv, CropOk, Live
<1>4. DOMAIN cropOf' = Pane
  BY DEF Crop, CropCame, CropFailed, TableInv
<1>5. PanelOfSelected'
  <2>1. CASE a.pane = "panel" /\ Live(a)
    <3>1. cropOf'["panel"] \in {a.row, NoRow}
      BY <2>1 DEF Crop, CropCame, CropFailed, Wanted, TableInv, Pane
    <3>2. QED
      BY <1>2, <2>1, <3>1 DEF PanelOfSelected, TableInv, CropOk
  <2>2. CASE ~ (a.pane = "panel" /\ Live(a))
    <3>1. cropOf'["panel"] = cropOf["panel"] /\ loading' = loading
      BY <2>2 DEF Crop, CropCame, CropFailed, Wanted, TableInv, Pane
    <3>2. QED
      BY <1>2, <3>1 DEF PanelOfSelected, TableInv
  <2>3. QED
    BY <2>1, <2>2
<1>6. QED
  BY <1>1, <1>3, <1>4, <1>5 DEF TableInv

LEMMA TableStep == TableInv /\ [TableNext]_tableVars => TableInv'
<1> SUFFICES ASSUME TableInv, [TableNext]_tableVars PROVE TableInv'
  OBVIOUS
<1>1. CASE Ask \/ Change \/ Retried
  <2>1. Preview /\ UNCHANGED kind
    BY <1>1 DEF Ask, Change, ToggleSelect, SelectBox, EditId, EditTableAmount, AddRow,
       DeleteSelected, PutIn, Retried
  <2>2. QED
    BY <2>1, PreviewInv
<1>2. CASE RetryPage \/ UNCHANGED tableVars
  <2>1. UNCHANGED <<kind, rows, selected, asked, asks, cropOf, loading>>
    BY <1>2 DEF RetryPage, tableVars
  <2>2. Detail(rows, selected)' = Detail(rows, selected)
    BY <2>1 DEF Detail
  <2>3. QED
    BY <2>1, <2>2 DEF TableInv, CropOk, Live, PanelOfSelected
<1>3. CASE \E a \in asks : Crop(a)
  BY <1>3, CropInv
<1>4. QED
  BY <1>1, <1>2, <1>3 DEF TableNext

\* However crops arrive and whatever becomes of the rows meanwhile, edited, added, deleted or
\* rebuilt, the panel shows the receipt of the row the user has selected once it has stopped
\* saying "Loading crop" (BankStatementReview.tsx, ARAPReview.tsx).
THEOREM PanelFollows == TableSpec => []PanelOfSelected
<1>1. TableInit => TableInv
  BY DEF TableInit, TableInv, PanelOfSelected, Pane
<1>2. TableInv => PanelOfSelected
  BY DEF TableInv
<1>3. QED
  BY <1>1, <1>2, TableStep, PTL DEF TableSpec

-----------------------------------------------------------------------------
(* The shape of the state.                                                 *)

AnyCur == Cur \union {NoCur}
Amt == [row : Row, n : Nat, from : AnyCur, to : AnyCur, by : Nat]
RowState == [cur : AnyCur, n : Nat, cc : AnyCur, ca : SUBSET Amt, rated : BOOLEAN]
Rows == [Row -> RowState]
Rates == [Cur \X Cur -> Nat]
Kinds == {"load", "persist", "chosen", "apply", "applied"}
Request == [kind : Kinds, act : Nat, cur : AnyCur, rate : Rates, keep : SUBSET Amt, from : AnyCur,
            rest : SUBSET Cur, rows : Rows]

Typed ==
  /\ profile \in [cur : AnyCur, rate : Rates] /\ stored \in Rows /\ approved \in BOOLEAN
  /\ reporting \in AnyCur /\ tableCur \in AnyCur /\ rates \in Rates
  /\ edited \in [on : BOOLEAN, rows : Rows]
  /\ queue \subseteq Cur
  /\ reqs \subseteq Request /\ acts \in Nat \ {0}

(* The company amount of a row is its own: of this row, printed or of its  *)
(* own currency, or made with a rate of that currency.                     *)
OwnRow(row, r) ==
  \A a \in row.ca : a.row = r /\ (a.by > Printed => a.from = row.cur /\ a.from # NoCur)
OwnRows(sheet) == \A r \in Row : OwnRow(sheet[r], r)

(* Some row has an amount printed on its document.                         *)
SomePrinted == \E s \in Row : PrintedOf(s) # {}

(* A dialog asks for a rate of a currency, and offers a printed amount     *)
(* only if some document has one.                                          *)
DialogOk(d) ==
  /\ d \in [from : AnyCur, to : AnyCur, printed : SUBSET Amt]
  /\ d # NoDialog => /\ d.from # NoCur
                     /\ d.printed # {} => SomePrinted

(* A choice under way is one of a currency; a rate was typed, or a printed *)
(* amount kept, while there was a company currency; until the run is       *)
(* approved the rows a handler closed over have amounts of their own.      *)
RequestOk(q, table, ap) ==
  /\ q.kind \in {"persist", "chosen"} => q.cur # NoCur
  /\ q.kind \in {"apply", "applied"} => /\ q.cur # NoCur /\ q.from # NoCur /\ table # NoCur
                                        /\ q.keep # {} => SomePrinted
  /\ ~ ap => OwnRows(q.rows)

(* Until the run is approved nothing of the server's rows is priced, and   *)
(* what the client shows is of its own row: an amount kept of another      *)
(* row's document never outlives the effect that follows.                  *)
AmountsOk(ap, st, ed) ==
  /\ OwnRows(st)
  /\ ~ ap => OwnRows(ed.rows) /\ \A r \in Row : ~ st[r].rated

FxInv ==
  /\ Typed
  /\ reporting # NoCur => tableCur # NoCur
  /\ DialogOk(dialog)
  /\ \A q \in reqs : RequestOk(q, tableCur, approved)
  /\ AmountsOk(approved, stored, edited)

(* The company currency can be exchanged but not cleared: the toolbar also *)
(* offers the empty choice, and with it the theorem does not hold.         *)
NeverCleared == NoCur \notin Offered

-----------------------------------------------------------------------------
(* Row arithmetic.                                                         *)

LEMMA PrintedAmounts ==
  ASSUME NEW r \in Row
  PROVE  /\ PrintedOf(r) \in SUBSET Amt
         /\ \A a \in PrintedOf(r) : a.row = r /\ a.by = Printed
BY FxAssumption DEF PrintedOf, Amount, Amt, AnyCur, Printed

LEMMA TypedRates ==
  ASSUME NEW rt \in Rates, NEW from \in AnyCur, NEW to \in Cur
  PROVE  RateOf(rt, from, to) \in Nat /\ (from = NoCur => RateOf(rt, from, to) = 0)
BY DEF Rates, RateOf, AnyCur

(* applySavedRateToRow: the amount it computes is the row's own if the     *)
(* printed one is.                                                         *)
LEMMA PricedRow ==
  ASSUME NEW row \in RowState, NEW r \in Row, NEW to \in Cur, NEW rate \in Nat,
         NEW printed \in SUBSET Amt, row.cur = NoCur => rate = 0
  PROVE  /\ Priced(row, r, to, rate, printed) \in RowState
         /\ OwnRow(row, r) /\ (\A a \in printed : a.row = r /\ a.by = Printed)
              => OwnRow(Priced(row, r, to, rate, printed), r)
         /\ printed # {} => Priced(row, r, to, rate, printed).rated
<1>1. row.cur \in AnyCur /\ row.n \in Nat /\ to \in AnyCur
  BY DEF RowState, AnyCur
<1>2. Amount(r, row.n, to, to, Same) \subseteq Amt /\ Amount(r, row.n, row.cur, to, rate) \subseteq Amt
  BY <1>1 DEF Amount, Amt, Same
<1>3. Priced(row, r, to, rate, printed) \in RowState
  BY <1>1, <1>2 DEF Priced, RowState
<1>4. ASSUME OwnRow(row, r), \A a \in printed : a.row = r /\ a.by = Printed
      PROVE  OwnRow(Priced(row, r, to, rate, printed), r)
  BY <1>1, <1>4 DEF Priced, RowState, OwnRow, Amount, Same, Printed
<1>5. printed # {} => Priced(row, r, to, rate, printed).rated
  BY DEF Priced, RowState
<1>6. QED
  BY <1>3, <1>4, <1>5

(* hydrateRowsForCompany keeps amounts of their own row ...                *)
LEMMA HydratedOwn ==
  ASSUME NEW sheet \in Rows, NEW to \in Cur, NEW rt \in Rates
  PROVE  /\ HydratedRows(sheet, to, rt) \in Rows
         /\ OwnRows(sheet) => OwnRows(HydratedRows(sheet, to, rt))
<1> DEFINE h == HydratedRows(sheet, to, rt)
<1>1. ASSUME NEW r \in Row
      PROVE  h[r] \in RowState /\ (OwnRow(sheet[r], r) => OwnRow(h[r], r))
  <2> DEFINE rate == RateOf(rt, sheet[r].cur, to)
             printed == PrintedOf(r)
             x == Priced(sheet[r], r, to, rate, printed)
  <2>1. sheet[r] \in RowState /\ sheet[r].cur \in AnyCur
    BY DEF Rows, RowState
  <2>2. rate \in Nat /\ (sheet[r].cur = NoCur => rate = 0)
    BY <2>1, TypedRates
  <2>3. printed \in SUBSET Amt /\ \A a \in printed : a.row = r /\ a.by = Printed
    BY PrintedAmounts
  <2>4. h[r] \in {sheet[r], x}
    BY DEF HydratedRows
  <2> HIDE DEF h, rate, printed
  <2>5. x \in RowState /\ (OwnRow(sheet[r], r) => OwnRow(x, r))
    BY <2>1, <2>2, <2>3, PricedRow
  <2> HIDE DEF x
  <2>6. QED
    BY <2>1, <2>4, <2>5
<1>2. h = [r \in Row |-> h[r]]
  BY DEF HydratedRows
<1> HIDE DEF h
<1>3. h \in Rows /\ (OwnRows(sheet) => OwnRows(h))
  BY <1>1, <1>2 DEF Rows, OwnRows
<1>4. QED
  BY <1>3 DEF h

(* ... and prices a row whose document has a printed amount.               *)
LEMMA HydratedPrices ==
  ASSUME NEW sheet \in Rows, NEW to \in Cur, NEW rt \in Rates, SomePrinted,
         \A r \in Row : ~ sheet[r].rated
  PROVE  HydratedRows(sheet, to, rt) # sheet
<1>1. PICK s \in Row : PrintedOf(s) # {}
  BY DEF SomePrinted
<1> DEFINE rate == RateOf(rt, sheet[s].cur, to)
           x == Priced(sheet[s], s, to, rate, PrintedOf(s))
<1>2. sheet[s] \in RowState /\ sheet[s].cur \in AnyCur
  BY DEF Rows, RowState
<1>3. rate \in Nat /\ (sheet[s].cur = NoCur => rate = 0)
  BY <1>2, TypedRates
<1>4. PrintedOf(s) \in SUBSET Amt
  BY PrintedAmounts
<1>5. HydratedRows(sheet, to, rt)[s] = x
  BY <1>1 DEF HydratedRows
<1> HIDE DEF rate
<1>6. x.rated
  BY <1>1, <1>2, <1>3, <1>4, PricedRow
<1> HIDE DEF x
<1>7. QED
  BY <1>5, <1>6

(* The effect after a change of currency or rates.                         *)
LEMMA EffectOwn ==
  ASSUME stored \in Rows, NEW ed \in [on : BOOLEAN, rows : Rows], NEW to \in AnyCur, NEW rt \in Rates
  PROVE  /\ Effect(ed, to, rt) \in [on : BOOLEAN, rows : Rows]
         /\ OwnRows(stored) /\ (OwnRows(ed.rows) \/ (to # NoCur /\ HydratedRows(stored, to, rt) # stored))
              => OwnRows(Effect(ed, to, rt).rows)
<1>1. CASE to = NoCur
  BY <1>1 DEF Effect
<1>2. CASE to # NoCur
  <2>1. to \in Cur
    BY <1>2 DEF AnyCur
  <2> DEFINE h == HydratedRows(stored, to, rt)
  <2>2. h \in Rows /\ (OwnRows(stored) => OwnRows(h))
    BY <2>1, HydratedOwn
  <2>3. Effect(ed, to, rt) = IF h = stored THEN ed ELSE [on |-> TRUE, rows |-> h]
    BY <1>2 DEF Effect
  <2> HIDE DEF h
  <2>4. /\ Effect(ed, to, rt) \in [on : BOOLEAN, rows : Rows]
        /\ OwnRows(stored) /\ (OwnRows(ed.rows) \/ h # stored) => OwnRows(Effect(ed, to, rt).rows)
    BY <2>2, <2>3
  <2>5. QED
    BY <2>4 DEF h
<1>3. QED
  BY <1>1, <1>2

(* applyPairRate: without a kept amount every row gets its own.            *)
LEMMA RepricedOwn ==
  ASSUME NEW q \in Request, q.cur # NoCur, q.from # NoCur
  PROVE  /\ Repriced(q) \in Rows
         /\ OwnRows(q.rows) /\ q.keep = {} => OwnRows(Repriced(q))
<1> DEFINE p == Repriced(q)
<1>0. q.rows \in Rows /\ q.cur \in Cur /\ q.act \in Nat /\ q.keep \in SUBSET Amt
  BY DEF Request, AnyCur
<1>1. ASSUME NEW r \in Row
      PROVE  /\ p[r] \in RowState
             /\ OwnRow(q.rows[r], r) /\ q.keep = {} => OwnRow(p[r], r)
  <2> DEFINE x == Priced(q.rows[r], r, q.cur, q.act, q.keep)
  <2>1. q.rows[r] \in RowState
    BY <1>0 DEF Rows
  <2>2. p[r] = IF q.rows[r].cur # q.from THEN q.rows[r] ELSE x
    BY DEF Repriced
  <2> HIDE DEF p
  <2>3. CASE q.rows[r].cur # q.from
    BY <2>1, <2>2, <2>3
  <2>4. CASE q.rows[r].cur = q.from
    <3>1. q.rows[r].cur # NoCur
      BY <2>4
    <3>2. x \in RowState /\ (OwnRow(q.rows[r], r) /\ (\A a \in q.keep : a.row = r /\ a.by = Printed) => OwnRow(x, r))
      BY <1>0, <2>1, <3>1, PricedRow
    <3> HIDE DEF x
    <3>3. QED
      BY <2>2, <2>4, <3>2
  <2>5. QED
    BY <2>3, <2>4
<1>2. p = [r \in Row |-> p[r]]
  BY DEF Repriced
<1> HIDE DEF p
<1>3. p \in Rows /\ (OwnRows(q.rows) /\ q.keep = {} => OwnRows(p))
  BY <1>1, <1>2 DEF Rows, OwnRows
<1>4. QED
  BY <1>3 DEF p

-----------------------------------------------------------------------------
(* The dialog that opens next.                                             *)
LEMMA NoDialogOk ==
  DialogOk(NoDialog)
BY DEF DialogOk, NoDialog, AnyCur

LEMMA QueuedDialog ==
  ASSUME NEW q \in SUBSET Cur, NEW to \in AnyCur, NEW sheet, OpenQueued(q, to, sheet)
  PROVE  DialogOk(dialog') /\ queue' \subseteq Cur
<1>1. CASE dialog' = NoDialog
  BY <1>1, NoDialogOk DEF OpenQueued
<1>2. CASE dialog' # NoDialog
  <2>1. PICK from \in q, sample \in Row :
          dialog' = [from |-> from, to |-> to, printed |-> PrintedOf(sample)]
    BY <1>2 DEF OpenQueued
  <2>2. PrintedOf(sample) \in SUBSET Amt
    BY PrintedAmounts
  <2>3. PrintedOf(sample) # {} => SomePrinted
    BY DEF SomePrinted
  <2>4. from \in AnyCur /\ from # NoCur
    BY FxAssumption DEF AnyCur
  <2>5. DialogOk(dialog')
    BY <2>1, <2>2, <2>3, <2>4 DEF DialogOk
  <2>6. QED
    BY <2>5 DEF OpenQueued
<1>3. QED
  BY <1>1, <1>2

(* What the table shows, and under which company currency.                 *)
LEMMA ShownRows ==
  ASSUME FxInv
  PROVE  Shown \in Rows /\ Effective \in AnyCur /\ (~ approved => OwnRows(Shown))
         /\ (Effective = NoCur <=> tableCur = NoCur)
BY DEF FxInv, Typed, Shown, Effective, AmountsOk

(* The invariant holds when a run is opened.                               *)
LEMMA FxStarts ==
  ASSUME FxInit
  PROVE  FxInv
<1>1. ASSUME NEW r \in Row
      PROVE  stored[r] \in RowState /\ OwnRow(stored[r], r) /\ ~ stored[r].rated
  <2>1. PICK p \in SUBSET Amt : p = PrintedOf(r) /\ \A a \in p : a.row = r /\ a.by = Printed
    BY PrintedAmounts
  <2>2. stored[r] = [cur |-> Receipt[r], n |-> 0, cc |-> PrintedIn[r], ca |-> p, rated |-> FALSE]
    BY <2>1 DEF FxInit
  <2>3. QED
    BY <2>1, <2>2, FxAssumption DEF RowState, OwnRow, Printed, AnyCur
<1>2. stored \in Rows /\ OwnRows(stored)
  BY <1>1 DEF FxInit, Rows, OwnRows
<1>3. NoRate \in Rates
  BY DEF NoRate, Rates
<1>4. reqs = {[kind |-> "load", act |-> 0, cur |-> NoCur, rate |-> NoRate, keep |-> {}, from |-> NoCur,
               rest |-> {}, rows |-> stored]}
  BY DEF FxInit
<1>5. reqs \subseteq Request /\ \A q \in reqs : q.kind = "load" /\ OwnRows(q.rows)
  BY <1>2, <1>3, <1>4 DEF Request, Kinds, AnyCur
<1>6. /\ ~ approved /\ approved \in BOOLEAN
      /\ reporting = NoCur /\ tableCur = NoCur /\ rates = NoRate
      /\ dialog = NoDialog /\ queue = {} /\ acts = 1
      /\ edited = [on |-> FALSE, rows |-> stored]
  BY DEF FxInit
<1>7. profile \in [cur : AnyCur, rate : Rates]
  BY <1>3 DEF FxInit, AnyCur
<1>8. edited \in [on : BOOLEAN, rows : Rows] /\ edited.rows = stored
  BY <1>2, <1>6
<1>9. Typed
  BY <1>2, <1>3, <1>5, <1>6, <1>7, <1>8 DEF Typed, AnyCur
<1>10. \A q \in reqs : RequestOk(q, tableCur, approved)
  BY <1>5 DEF RequestOk
<1>11. AmountsOk(approved, stored, edited)
  BY <1>1, <1>2, <1>8 DEF AmountsOk
<1>12. QED
  BY <1>6, <1>9, <1>10, <1>11, NoDialogOk DEF FxInv

(* A request stays in order while there is a company currency and the run  *)
(* is not taken back.                                                      *)
LEMMA RequestsKept ==
  ASSUME NEW q, NEW tc, NEW tc2, NEW ap, NEW ap2, RequestOk(q, tc, ap),
         tc # NoCur => tc2 # NoCur, ap => ap2
  PROVE  RequestOk(q, tc2, ap2)
BY DEF RequestOk

(* Every step keeps the invariant.                                         *)
LEMMA FxSteps ==
  ASSUME FxInv, FxNext, NeverCleared
  PROVE  FxInv'
<1>1. /\ Typed /\ DialogOk(dialog) /\ AmountsOk(approved, stored, edited)
      /\ reporting # NoCur => tableCur # NoCur
      /\ \A q \in reqs : RequestOk(q, tableCur, approved) /\ q \in Request
  BY DEF FxInv, Typed
<1>2. /\ Shown \in Rows /\ Effective \in AnyCur /\ (~ approved => OwnRows(Shown))
      /\ (Effective = NoCur <=> tableCur = NoCur)
  BY ShownRows
<1>3. CASE ProfileLoaded
  <2> DEFINE to == IF profile.cur # NoCur THEN profile.cur ELSE tableCur
  <2>1. /\ reqs' \subseteq reqs /\ reporting' = profile.cur /\ rates' = profile.rate /\ tableCur' = to
        /\ edited' = Effect(edited, to, profile.rate)
        /\ UNCHANGED <<profile, stored, approved, dialog, queue, acts>>
    BY <1>3 DEF ProfileLoaded, server
  <2>2. profile.cur \in AnyCur /\ profile.rate \in Rates /\ to \in AnyCur
    BY <1>1 DEF Typed
  <2>3. /\ tableCur # NoCur => to # NoCur
        /\ profile.cur # NoCur => to # NoCur
    OBVIOUS
  <2> HIDE DEF to
  <2>4. /\ edited' \in [on : BOOLEAN, rows : Rows]
        /\ OwnRows(stored) /\ OwnRows(edited.rows) => OwnRows(edited'.rows)
    BY <1>1, <2>1, <2>2, EffectOwn DEF Typed
  <2>5. \A q \in reqs' : RequestOk(q, tableCur', approved')
    BY <1>1, <2>1, <2>3, RequestsKept
  <2>6. AmountsOk(approved', stored', edited')
    BY <1>1, <2>1, <2>4 DEF AmountsOk
  <2>7. Typed'
    BY <1>1, <2>1, <2>2, <2>4 DEF Typed
  <2>8. QED
    BY <1>1, <2>1, <2>3, <2>5, <2>6, <2>7 DEF FxInv
<1>4. CASE ProfileLost
  <2>1. /\ reqs' \subseteq reqs
        /\ UNCHANGED <<profile, stored, approved, reporting, tableCur, rates, edited, dialog, queue,
           acts>>
    BY <1>4 DEF ProfileLost, server, client
  <2>2. Typed' /\ AmountsOk(approved', stored', edited')
    BY <1>1, <2>1 DEF Typed
  <2>3. QED
    BY <1>1, <2>1, <2>2 DEF FxInv
<1>5. CASE OpenRun
  <2> DEFINE q == [kind |-> "load", act |-> acts', cur |-> NoCur, rate |-> NoRate, keep |-> {},
                   from |-> NoCur, rest |-> {}, rows |-> stored]
             ed == [on |-> FALSE, rows |-> stored]
  <2>1. /\ reqs' \subseteq reqs \union {q} /\ edited' = Effect(ed, Effective, rates)
        /\ dialog' = NoDialog /\ queue' = {} /\ acts' = acts + 1
        /\ UNCHANGED <<profile, stored, approved, reporting, tableCur, rates>>
    BY <1>5 DEF OpenRun, UserAct, Req, server
  <2>2. stored \in Rows /\ rates \in Rates /\ NoRate \in Rates /\ acts' \in Nat \ {0}
    BY <1>1, <2>1 DEF Typed, NoRate, Rates
  <2>3. q \in Request /\ q.kind = "load" /\ q.rows = stored
    BY <2>2 DEF Request, Kinds, AnyCur
  <2>4. RequestOk(q, tableCur, approved)
    BY <1>1, <2>3 DEF RequestOk, AmountsOk
  <2>5. ed \in [on : BOOLEAN, rows : Rows] /\ ed.rows = stored
    BY <2>2
  <2> HIDE DEF q, ed
  <2>6. /\ edited' \in [on : BOOLEAN, rows : Rows]
        /\ OwnRows(stored) => OwnRows(edited'.rows)
    BY <1>2, <2>1, <2>2, <2>5, EffectOwn
  <2>7. AmountsOk(approved', stored', edited')
    BY <1>1, <2>1, <2>6 DEF AmountsOk
  <2>8. Typed'
    BY <1>1, <2>1, <2>2, <2>3, <2>6 DEF Typed
  <2>9. QED
    BY <1>1, <2>1, <2>4, <2>7, <2>8, NoDialogOk DEF FxInv
<1>6. CASE OtherSettings
  <2>1. PICK c \in Cur, p \in Cur \X Cur :
          profile' = [cur |-> c, rate |-> [profile.rate EXCEPT ![p] = IF p[1] = p[2] THEN @ ELSE acts']]
    BY <1>6 DEF OtherSettings
  <2>2. /\ acts' = acts + 1
        /\ UNCHANGED <<stored, approved, reporting, tableCur, rates, edited, dialog, queue, reqs>>
    BY <1>6 DEF OtherSettings, UserAct, client
  <2>3. acts' \in Nat \ {0} /\ profile.rate \in Rates
    BY <1>1, <2>2 DEF Typed
  <2> DEFINE rate == [profile.rate EXCEPT ![p] = IF p[1] = p[2] THEN @ ELSE acts']
  <2>4. rate \in Rates
    BY <2>3 DEF Rates
  <2> HIDE DEF rate
  <2>5. profile' \in [cur : AnyCur, rate : Rates]
    BY <2>1, <2>4 DEF AnyCur, rate
  <2>6. Typed'
    BY <1>1, <2>2, <2>3, <2>5 DEF Typed
  <2>7. AmountsOk(approved', stored', edited')
    BY <1>1, <2>2
  <2>8. QED
    BY <1>1, <2>2, <2>6, <2>7 DEF FxInv
<1>7. CASE SelectCurrency
  <2>1. PICK c \in Offered : reqs' = reqs \union {Req("persist", c, profile.rate, {}, NoCur, Foreign(c), Shown)}
    BY <1>7 DEF SelectCurrency
  <2> DEFINE q == Req("persist", c, profile.rate, {}, NoCur, Foreign(c), Shown)
  <2>2. reqs' = reqs \union {q}
    BY <2>1
  <2>3. /\ acts' = acts + 1
        /\ UNCHANGED <<profile, stored, approved, reporting, tableCur, rates, edited, dialog, queue>>
    BY <1>7 DEF SelectCurrency, UserAct, server, client
  <2>4. c \in AnyCur /\ c # NoCur /\ profile.rate \in Rates /\ acts' \in Nat \ {0}
    BY <1>1, <2>3, FxAssumption DEF NeverCleared, AnyCur, Typed
  <2>5. Foreign(c) \in SUBSET Cur
    BY <1>2 DEF Foreign, Rows, RowState, AnyCur
  <2>6. q \in Request /\ q.kind = "persist" /\ q.cur = c /\ q.rows = Shown
    BY <1>2, <2>4, <2>5 DEF Req, Request, Kinds, AnyCur
  <2>7. RequestOk(q, tableCur, approved)
    BY <1>2, <2>4, <2>6 DEF RequestOk
  <2> HIDE DEF q
  <2>8. Typed'
    BY <1>1, <2>2, <2>3, <2>4, <2>6 DEF Typed
  <2>9. QED
    BY <1>1, <2>2, <2>3, <2>7, <2>8 DEF FxInv
<1>8. ASSUME NEW q \in reqs, NEW k, \/ q.kind = "persist" /\ k = "chosen"
                                    \/ q.kind = "apply" /\ k = "applied",
             profile' = [cur |-> q.cur, rate |-> Merged(q.rate)],
             reqs' = (reqs \ {q}) \union {[q EXCEPT !.kind = k]},
             UNCHANGED <<stored, approved, client, acts>>
      PROVE  FxInv'
  <2> DEFINE q2 == [q EXCEPT !.kind = k]
  <2>1. Merged(q.rate) \in Rates /\ q.cur \in AnyCur
    BY <1>1 DEF Merged, Rates, Request, Typed
  <2>2. profile' \in [cur : AnyCur, rate : Rates]
    BY <1>8, <2>1
  <2>3. q2 \in Request /\ RequestOk(q2, tableCur, approved)
    BY <1>1, <1>8 DEF Request, Kinds, RequestOk
  <2> HIDE DEF q2
  <2>4. UNCHANGED <<stored, approved, reporting, tableCur, rates, edited, dialog, queue, acts>>
    BY <1>8 DEF client
  <2>5. reqs' \subseteq reqs \union {q2}
    BY <1>8 DEF q2
  <2>6. Typed' /\ AmountsOk(approved', stored', edited')
    BY <1>1, <2>2, <2>3, <2>4, <2>5 DEF Typed
  <2>7. QED
    BY <1>1, <2>3, <2>4, <2>5, <2>6 DEF FxInv
<1>9. CASE PersistWritten
  BY <1>8, <1>9 DEF PersistWritten
<1>10. CASE RateWritten
  BY <1>8, <1>10 DEF RateWritten
<1>11. CASE Chosen
  <2>1. PICK q \in reqs :
          /\ q.kind \in {"persist", "chosen"} /\ reqs' = reqs \ {q}
          /\ reporting' = q.cur /\ tableCur' = q.cur
          /\ edited' = IF q.cur = Effective THEN edited ELSE Effect(edited, q.cur, rates)
          /\ OpenQueued(q.rest, q.cur, q.rows)
    BY <1>11 DEF Chosen
  <2>2. UNCHANGED <<profile, stored, approved, rates, acts>>
    BY <1>11 DEF Chosen, server
  <2>3. q.cur \in AnyCur /\ q.cur # NoCur /\ q.rest \in SUBSET Cur
    BY <1>1, <2>1 DEF Request, RequestOk
  <2>4. DialogOk(dialog') /\ queue' \subseteq Cur
    BY <2>1, <2>3, QueuedDialog
  <2>5. /\ Effect(edited, q.cur, rates) \in [on : BOOLEAN, rows : Rows]
        /\ OwnRows(stored) /\ OwnRows(edited.rows) => OwnRows(Effect(edited, q.cur, rates).rows)
    BY <1>1, <2>3, EffectOwn DEF Typed
  <2>6. /\ edited' \in [on : BOOLEAN, rows : Rows]
        /\ OwnRows(stored) /\ OwnRows(edited.rows) => OwnRows(edited'.rows)
    BY <1>1, <2>1, <2>5 DEF Typed
  <2>7. \A p \in reqs' : RequestOk(p, tableCur', approved')
    BY <1>1, <2>1, <2>2, <2>3, RequestsKept
  <2>8. Typed'
    BY <1>1, <2>1, <2>2, <2>3, <2>4, <2>6 DEF Typed
  <2>9. AmountsOk(approved', stored', edited')
    BY <1>1, <2>2, <2>6 DEF AmountsOk
  <2>10. QED
    BY <2>1, <2>3, <2>4, <2>7, <2>8, <2>9 DEF FxInv
<1>12. CASE ClickAmount
  <2>1. PICK r \in Row : /\ Shown[r].cur \notin {NoCur, Effective}
                         /\ dialog' = [from |-> Shown[r].cur, to |-> Effective, printed |-> PrintedOf(r)]
    BY <1>12 DEF ClickAmount
  <2>2. /\ queue' = {} /\ acts' = acts + 1
        /\ UNCHANGED <<profile, stored, approved, reporting, tableCur, rates, edited, reqs>>
    BY <1>12 DEF ClickAmount, UserAct, server
  <2>3. Shown[r].cur \in AnyCur /\ PrintedOf(r) \in SUBSET Amt
    BY <1>2, PrintedAmounts DEF Rows, RowState
  <2>4. PrintedOf(r) # {} => SomePrinted
    BY DEF SomePrinted
  <2>5. DialogOk(dialog')
    BY <1>2, <2>1, <2>3, <2>4 DEF DialogOk
  <2>6. Typed' /\ AmountsOk(approved', stored', edited')
    BY <1>1, <2>2 DEF Typed
  <2>7. QED
    BY <1>1, <2>2, <2>5, <2>6 DEF FxInv
<1>13. CASE CloseDialog
  <2>1. /\ dialog' = NoDialog /\ queue' = {} /\ acts' = acts + 1
        /\ UNCHANGED <<profile, stored, approved, reporting, tableCur, rates, edited, reqs>>
    BY <1>13 DEF CloseDialog, UserAct, server
  <2>2. Typed' /\ AmountsOk(approved', stored', edited')
    BY <1>1, <2>1 DEF Typed
  <2>3. QED
    BY <1>1, <2>1, <2>2, NoDialogOk DEF FxInv
<1>14. CASE Apply
  <2> DEFINE rate == [rates EXCEPT ![<<dialog.from, dialog.to>>] = acts']
  <2>1. PICK keep \in {{}, dialog.printed} :
          reqs' = reqs \union {Req("apply", Effective, rate, keep, dialog.from, queue, Shown)}
    BY <1>14 DEF Apply
  <2> DEFINE q == Req("apply", Effective, rate, keep, dialog.from, queue, Shown)
  <2>2. reqs' = reqs \union {q}
    BY <2>1
  <2>3. /\ acts' = acts + 1 /\ dialog # NoDialog /\ Effective # NoCur
        /\ UNCHANGED <<profile, stored, approved, reporting, tableCur, rates, edited, dialog, queue>>
    BY <1>14 DEF Apply, UserAct, server, client
  <2>4. acts' \in Nat \ {0} /\ rates \in Rates /\ queue \in SUBSET Cur
    BY <1>1, <2>3 DEF Typed
  <2>5. rate \in Rates
    BY <2>4 DEF Rates
  <2> HIDE DEF rate
  <2>6. /\ dialog.from \in AnyCur /\ dialog.from # NoCur /\ keep \in SUBSET Amt
        /\ keep # {} => SomePrinted
    BY <1>1, <2>1, <2>3 DEF DialogOk
  <2>7. /\ q \in Request /\ q.kind = "apply" /\ q.cur = Effective /\ q.from = dialog.from
        /\ q.keep = keep /\ q.rows = Shown
    BY <1>2, <2>4, <2>5, <2>6 DEF Req, Request, Kinds
  <2>8. RequestOk(q, tableCur, approved)
    BY <1>2, <2>3, <2>6, <2>7 DEF RequestOk
  <2> HIDE DEF q
  <2>9. Typed'
    BY <1>1, <2>2, <2>3, <2>4, <2>7 DEF Typed
  <2>10. QED
    BY <1>1, <2>2, <2>3, <2>8, <2>9 DEF FxInv
<1>15. CASE Applied
  <2>1. PICK q \in reqs :
          /\ q.kind \in {"apply", "applied"} /\ reqs' = reqs \ {q} /\ rates' = q.rate
          /\ edited' = Effect([on |-> TRUE, rows |-> Repriced(q)], Effective, q.rate)
          /\ OpenQueued(q.rest \ {q.from}, q.cur, Repriced(q))
    BY <1>15 DEF Applied
  <2> DEFINE ed == [on |-> TRUE, rows |-> Repriced(q)]
  <2>2. UNCHANGED <<profile, stored, approved, reporting, tableCur, acts>>
    BY <1>15 DEF Applied, server
  <2>3. /\ q.cur \in AnyCur /\ q.cur # NoCur /\ q.from # NoCur /\ q.rest \in SUBSET Cur /\ q.rate \in Rates
        /\ tableCur # NoCur /\ (q.keep # {} => SomePrinted) /\ (~ approved => OwnRows(q.rows))
    BY <1>1, <2>1 DEF Request, RequestOk
  <2>4. DialogOk(dialog') /\ queue' \subseteq Cur
    <3>1. q.rest \ {q.from} \in SUBSET Cur
      BY <2>3
    <3>2. QED
      BY <2>1, <2>3, <3>1, QueuedDialog
  <2>5. Repriced(q) \in Rows /\ (OwnRows(q.rows) /\ q.keep = {} => OwnRows(Repriced(q)))
    BY <1>1, <2>3, RepricedOwn
  <2>6. ed \in [on : BOOLEAN, rows : Rows] /\ ed.rows = Repriced(q)
    BY <2>5
  <2>7. edited' = Effect(ed, Effective, q.rate)
    BY <2>1
  <2> HIDE DEF ed
  <2>8. Effective \in Cur
    BY <1>2, <2>3 DEF AnyCur
  <2>9. /\ edited' \in [on : BOOLEAN, rows : Rows]
        /\ OwnRows(stored) /\ (OwnRows(ed.rows) \/ (Effective # NoCur /\ HydratedRows(stored, Effective, q.rate) # stored))
             => OwnRows(edited'.rows)
    BY <1>1, <1>2, <2>3, <2>6, <2>7, EffectOwn DEF Typed
  <2>10. ~ approved => OwnRows(ed.rows) \/ HydratedRows(stored, Effective, q.rate) # stored
    <3>1. CASE q.keep = {}
      BY <2>3, <2>5, <2>6, <3>1
    <3>2. CASE q.keep # {} /\ ~ approved
      <4>1. stored \in Rows /\ SomePrinted /\ \A r \in Row : ~ stored[r].rated
        BY <1>1, <2>3, <3>2 DEF AmountsOk, Typed
      <4>2. QED
        BY <2>3, <2>8, <4>1, HydratedPrices
    <3>3. QED
      BY <3>1, <3>2
  <2>11. AmountsOk(approved', stored', edited')
    BY <1>1, <1>2, <2>2, <2>3, <2>9, <2>10 DEF AmountsOk
  <2>12. \A p \in reqs' : RequestOk(p, tableCur', approved')
    BY <1>1, <2>1, <2>2
  <2>13. Typed'
    BY <1>1, <2>1, <2>2, <2>3, <2>4, <2>9 DEF Typed
  <2>14. QED
    BY <1>1, <2>2, <2>4, <2>11, <2>12, <2>13 DEF FxInv
<1>16. CASE EditAmount
  <2>1. PICK x \in Row : edited' = [on |-> TRUE,
          rows |-> [r \in Row |-> [Normalised(Shown[r]) EXCEPT !.n = IF r = x THEN acts' ELSE @]]]
    BY <1>16 DEF EditAmount
  <2>2. /\ acts' = acts + 1
        /\ UNCHANGED <<profile, stored, approved, reporting, tableCur, rates, dialog, queue, reqs>>
    BY <1>16 DEF EditAmount, UserAct, server
  <2> DEFINE row(r) == [Normalised(Shown[r]) EXCEPT !.n = IF r = x THEN acts' ELSE @]
             sheet == [r \in Row |-> row(r)]
  <2>3. acts' \in Nat \ {0}
    BY <1>1, <2>2 DEF Typed
  <2>4. ASSUME NEW r \in Row
        PROVE  row(r) \in RowState /\ (OwnRow(Shown[r], r) => OwnRow(row(r), r))
    <3>1. Shown[r] \in RowState
      BY <1>2 DEF Rows
    <3>2. PICK y : y = Normalised(Shown[r])
      OBVIOUS
    <3>3. /\ y \in RowState /\ y.ca = Shown[r].ca
          /\ Shown[r].cur # NoCur => y.cur = Shown[r].cur
      BY <3>1, <3>2, FxAssumption DEF Normalised, RowState, AnyCur
    <3>4. row(r) = [y EXCEPT !.n = IF r = x THEN acts' ELSE @]
      BY <3>2, Zenon
    <3>5. row(r) \in RowState /\ row(r).ca = y.ca /\ row(r).cur = y.cur
      BY <2>3, <3>3, <3>4 DEF RowState
    <3>6. QED
      BY <3>3, <3>5 DEF OwnRow
  <2> HIDE DEF row
  <2>5. sheet \in Rows /\ (OwnRows(Shown) => OwnRows(sheet))
    BY <2>4 DEF Rows, OwnRows
  <2>6. edited' = [on |-> TRUE, rows |-> sheet]
    BY <2>1, Zenon DEF row
  <2> HIDE DEF sheet
  <2>7. edited' \in [on : BOOLEAN, rows : Rows] /\ edited'.rows = sheet
    BY <2>5, <2>6
  <2>8. AmountsOk(approved', stored', edited')
    BY <1>1, <1>2, <2>2, <2>5, <2>7 DEF AmountsOk
  <2>9. Typed'
    BY <1>1, <2>2, <2>3, <2>7 DEF Typed
  <2>10. QED
    BY <1>1, <2>2, <2>8, <2>9 DEF FxInv
<1>17. CASE ApproveRows
  <2> DEFINE h == HydratedRows(Shown, Effective, rates)
  <2>1. /\ ~ approved /\ approved' = TRUE /\ stored' = Shown /\ acts' = acts + 1
        /\ UNCHANGED <<profile, reporting, tableCur, rates, dialog, queue, reqs>>
    BY <1>17 DEF ApproveRows, Reviewing, UserAct
  <2>2. edited' = IF Effective = NoCur \/ h = Shown THEN [on |-> FALSE, rows |-> Shown]
                  ELSE [on |-> TRUE, rows |-> h]
    BY <1>17 DEF ApproveRows
  <2>3. Effective # NoCur => h \in Rows
    BY <1>1, <1>2, HydratedOwn DEF AnyCur, Typed
  <2> HIDE DEF h
  <2>4. edited' \in [on : BOOLEAN, rows : Rows]
    BY <1>2, <2>2, <2>3
  <2>5. AmountsOk(approved', stored', edited')
    BY <1>2, <2>1 DEF AmountsOk
  <2>6. \A q \in reqs' : RequestOk(q, tableCur', approved')
    BY <1>1, <2>1, RequestsKept
  <2>7. Typed'
    BY <1>1, <1>2, <2>1, <2>4 DEF Typed
  <2>8. QED
    BY <1>1, <2>1, <2>5, <2>6, <2>7 DEF FxInv
<1>18. QED
  BY <1>3, <1>4, <1>5, <1>6, <1>7, <1>9, <1>10, <1>11, <1>12, <1>13, <1>14, <1>15, <1>16, <1>17 DEF FxNext

-----------------------------------------------------------------------------
(* An approved company amount is that of its own row, and a rate it was    *)
(* made with was typed for the currency of that row: "Keep printed" prices *)
(* every row of the currency with the amount printed on one document, and  *)
(* the effect after applyPairRate takes all of them back.                  *)
THEOREM OwnAmountAlways ==
  ASSUME NeverCleared
  PROVE  FxSpec => []OwnAmount
<1>1. FxInit => FxInv
  BY FxStarts
<1>2. FxInv /\ [FxNext]_fx => FxInv'
  <2>1. ASSUME FxInv, UNCHANGED fx
        PROVE  FxInv'
    BY <2>1 DEF FxInv, Typed, fx, server, client
  <2>2. QED
    BY <2>1, FxSteps
<1>3. FxInv => OwnAmount
  BY DEF FxInv, AmountsOk, OwnAmount, OwnRows, OwnRow
<1>4. QED
  BY <1>1, <1>2, <1>3, PTL DEF FxSpec

-----------------------------------------------------------------------------
(* The tables of a run.  What decides whether a row is approved twice is   *)
(* the list of a bank table and the sheet of another one.  There a key has *)
(* one row, and the rows a batch has of a file are of a file it has now or *)
(* had at first; so a file that is moved, once, comes where it has none.   *)
SheetRow == [f : File, n : Nat, v : Nat, code : BOOLEAN]
Payload  == [sheet : SUBSET SheetRow, list : SUBSET SheetRow, saved : BOOLEAN]
Once(R)  == \A r, q \in R : Key(r) = Key(q) => r = q

\* no two files of a bank run have one name
NamesApart == bank => \A e, f \in File : Name[e] = Name[f] => e = f

Deciding(p, bk)  == IF bk THEN p.list ELSE p.sheet
Sound(p)         == p \in Payload /\ Once(Deciding(p, bank))
At(p, b, bk, bo) == /\ p \in Payload /\ Once(Deciding(p, bk))
                    /\ \A r \in Deciding(p, bk) : b \in {Placed[r.f], bo[r.f]}

RunTyped == /\ bank \in BOOLEAN /\ batchOf \in [File -> Batch]
            /\ ocr \in [File -> [v : Nat, rows : SUBSET Nat]]

(* A set of natural numbers has a least element.                           *)
LEMMA NatLeast ==
  ASSUME NEW T \in SUBSET Nat, T # {}
  PROVE  \E n \in T : \A m \in T : ~ (m < n)
<1>1. IsWellFoundedOn(OpToRel(<, Nat), Nat)
  BY NatLessThanWellFounded, Zenon
<1>2. \E n \in T : \A m \in T : ~ (<<m, n>> \in OpToRel(<, Nat))
  BY <1>1, WFMin, Zenon
<1>3. \A m, n \in Nat : m < n => <<m, n>> \in OpToRel(<, Nat)
  BY DEF OpToRel
<1> QED BY <1>2, <1>3

(* What combineBatchTablePayloads has after k batches: the recursion of    *)
(* Combined has a solution.                                                *)
Taken(P, p, k) == IF HasRows(P[k]) THEN MergePayload(p, P[k], Files(k)) ELSE p
Sums(P, s, n)  == s = [k \in 0 .. n |-> IF k = 0 THEN Empty ELSE Taken(P, s[k - 1], k)]

(* By the least number of batches for which there is none.                 *)
LEMMA SumsExist ==
  ASSUME NEW P, NEW n \in Nat
  PROVE  \E s : Sums(P, s, n)
<1> DEFINE Bad == {k \in Nat : ~ \E s : Sums(P, s, k)}
<1>1. SUFFICES Bad = {}
  OBVIOUS
<1>2. SUFFICES ASSUME Bad # {} PROVE FALSE
  OBVIOUS
<1>3. Bad \in SUBSET Nat
  OBVIOUS
<1>4. PICK k \in Bad : \A m \in Bad : ~ (m < k)
  <2> HIDE DEF Bad
  <2> QED BY <1>2, <1>3, NatLeast
<1>5. k \in Nat /\ ~ \E s : Sums(P, s, k)
  BY <1>4
<1>6. CASE k = 0
  <2>1. Sums(P, [j \in 0 .. 0 |-> Empty], 0)
    BY DEF Sums
  <2> QED BY <1>5, <1>6, <2>1
<1>7. CASE k # 0
  <2> DEFINE h == k - 1
  <2>1. h \in Nat /\ h < k /\ k = h + 1
    BY <1>5, <1>7
  <2>2. h \notin Bad
    <3> HIDE DEF Bad, h
    <3> QED BY <1>4, <2>1
  <2>3. PICK s : Sums(P, s, h)
    BY <2>1, <2>2
  <2> DEFINE t == [j \in 0 .. k |-> IF j = k THEN Taken(P, s[h], k) ELSE s[j]]
  <2> HIDE DEF h, Bad
  <2>4. s = [j \in 0 .. h |-> IF j = 0 THEN Empty ELSE Taken(P, s[j - 1], j)]
    BY <2>3 DEF Sums
  <2>5. ASSUME NEW j \in 0 .. k
        PROVE  t[j] = IF j = 0 THEN Empty ELSE Taken(P, t[j - 1], j)
    <3>1. CASE j = k
      <4>1. t[j] = Taken(P, s[h], k) /\ t[j - 1] = s[h] /\ j # 0
        BY <2>1, <3>1
      <4> QED BY <3>1, <4>1
    <3>2. CASE j # k
      <4>1. j \in 0 .. h /\ t[j] = s[j]
        BY <2>1, <3>2
      <4>2. j # 0 => j - 1 \in 0 .. k /\ j - 1 # k /\ t[j - 1] = s[j - 1]
        BY <2>1, <3>2
      <4> QED BY <2>4, <4>1, <4>2
    <3> QED BY <3>1, <3>2
  <2>6. Sums(P, t, k)
    BY <2>5 DEF Sums
  <2> QED BY <1>5, <2>6
<1> QED BY <1>6, <1>7, <1>5

LEMMA CombinedSums ==
  ASSUME NEW P, Batches \in Nat
  PROVE  \E s : Sums(P, s, Batches) /\ Combined(P) = s[Batches]
<1>1. \E s : Sums(P, s, Batches)
  BY SumsExist
<1>2. QED
  BY <1>1 DEF Combined, Sums, Taken

-----------------------------------------------------------------------------
(* Rows and payloads the algorithms make.                                  *)
LEMMA EmptySound ==
  /\ Empty \in Payload /\ Empty.list = {} /\ Empty.sheet = {} /\ Once({})
  /\ \A bk : Deciding(Empty, bk) = {}
  /\ \A b, bk, bo : At(Empty, b, bk, bo)
BY DEF Empty, Payload, Once, Deciding, At

LEMMA KeyIs ==
  ASSUME NEW r \in SheetRow, NEW q \in SheetRow
  PROVE  Key(r) = Key(q) <=> r.f = q.f /\ r.n = q.n
BY DEF Key, SheetRow

LEMMA IncomingSound ==
  ASSUME RunTyped, NEW fs \in SUBSET File
  PROVE  /\ Incoming(fs) \in Payload /\ Once(Deciding(Incoming(fs), bank))
         /\ \A r \in Deciding(Incoming(fs), bank) : r.f \in fs
<1> DEFINE R == UNION {Extracted(f) : f \in fs}
<1>1. ASSUME NEW r \in R
      PROVE  r \in SheetRow /\ r.f \in fs /\ r.v = ocr[r.f].v /\ r.code = FALSE
  <2>1. PICK f \in fs : r \in Extracted(f)
    OBVIOUS
  <2>2. PICK n \in ocr[f].rows : r = [f |-> f, n |-> n, v |-> ocr[f].v, code |-> FALSE]
    BY <2>1 DEF Extracted
  <2>3. f \in File /\ n \in Nat /\ ocr[f].v \in Nat
    BY <2>2 DEF RunTyped
  <2> QED BY <2>2, <2>3 DEF SheetRow
<1>2. Incoming(fs) = [sheet |-> R, list |-> R, saved |-> FALSE]
  BY DEF Incoming
<1> HIDE DEF R
<1>3. R \in SUBSET SheetRow
  BY <1>1
<1>4. ASSUME NEW r \in R, NEW q \in R, Key(r) = Key(q) PROVE r = q
  <2>1. r \in SheetRow /\ q \in SheetRow
    BY <1>3
  <2>2. r.f = q.f /\ r.n = q.n /\ r.v = q.v /\ r.code = q.code
    BY <2>1, <1>1, <1>4, KeyIs
  <2> QED BY <2>1, <2>2 DEF SheetRow
<1>5. Incoming(fs) \in Payload
  BY <1>2, <1>3 DEF Payload
<1>6. Deciding(Incoming(fs), bank) = R
  BY <1>2 DEF Deciding
<1> QED
  BY <1>1, <1>4, <1>5, <1>6 DEF Once

(* A file's rows come from one side only.                                  *)
LEMMA ReplacedOnce ==
  ASSUME NEW R \in SUBSET SheetRow, NEW S \in SUBSET SheetRow, Once(R), Once(S), NEW fs
  PROVE  /\ Replaced(R, S, fs) \in SUBSET SheetRow /\ Once(Replaced(R, S, fs))
         /\ Replaced(R, S, fs) \subseteq R \cup S
<1>1. Replaced(R, S, fs) \subseteq R \cup S
  BY DEF Replaced
<1>2. ASSUME NEW r \in Replaced(R, S, fs), NEW q \in Replaced(R, S, fs), Key(r) = Key(q)
      PROVE  r = q
  <2>1. r \in SheetRow /\ q \in SheetRow
    BY <1>1
  <2>2. r.f = q.f
    BY <1>2, <2>1, KeyIs
  <2>3. (r \in R /\ q \in R) \/ (r \in S /\ q \in S)
    BY <2>2 DEF Replaced
  <2> QED BY <1>2, <2>3 DEF Once
<1> QED BY <1>1, <1>2 DEF Once

(* The rows of R with the codes of C.                                      *)
Coded(R, C) == {[r EXCEPT !.code = @ \/ \E o \in C : Key(o) = Key(r) /\ o.code] : r \in R}

LEMMA CodedOnce ==
  ASSUME NEW R \in SUBSET SheetRow, NEW C, Once(R)
  PROVE  /\ Coded(R, C) \in SUBSET SheetRow /\ Once(Coded(R, C))
         /\ \A k \in Coded(R, C) : \E r \in R : Key(k) = Key(r) /\ k.f = r.f
<1> DEFINE has(r) == r.code \/ \E o \in C : Key(o) = Key(r) /\ o.code
           coded(r) == [r EXCEPT !.code = has(r)]
           K == Coded(R, C)
<1>1. K = {coded(r) : r \in R}
  BY DEF Coded
<1>2. \A r \in R : has(r) \in BOOLEAN
  BY DEF SheetRow
<1> HIDE DEF has
<1>3. \A r \in R : coded(r) \in SheetRow /\ Key(coded(r)) = Key(r) /\ coded(r).f = r.f
  BY <1>2 DEF SheetRow, Key
<1> HIDE DEF coded
<1>4. ASSUME NEW x \in K, NEW y \in K, Key(x) = Key(y) PROVE x = y
  <2>1. PICK r \in R, q \in R : x = coded(r) /\ y = coded(q)
    BY <1>1
  <2>2. r = q
    BY <1>3, <1>4, <2>1 DEF Once
  <2> QED BY <2>1, <2>2
<1> HIDE DEF K
<1>5. K \in SUBSET SheetRow /\ \A k \in K : \E r \in R : Key(k) = Key(r) /\ k.f = r.f
  BY <1>1, <1>3
<1>6. Once(K)
  BY <1>4 DEF Once
<1> QED BY <1>5, <1>6 DEF K

(* A row that has a successor goes.                                        *)
LEMMA KeepingOnce ==
  ASSUME NEW R \in SUBSET SheetRow, NEW S \in SUBSET SheetRow, Once(S)
  PROVE  /\ KeepingCodes(R, S) \in SUBSET SheetRow
         /\ Once(R) => Once(KeepingCodes(R, S))
<1> DEFINE K == Coded(S, R)
           L == {o \in R : \A r \in S : Key(r) # Key(o)}
<1>1. KeepingCodes(R, S) = K \cup L
  BY DEF KeepingCodes, Coded
<1>2. /\ K \in SUBSET SheetRow /\ Once(K)
      /\ \A k \in K : \E r \in S : Key(k) = Key(r)
  BY CodedOnce
<1> HIDE DEF K
<1>3. ASSUME Once(R), NEW x \in K \cup L, NEW y \in K \cup L, Key(x) = Key(y) PROVE x = y
  BY <1>2, <1>3 DEF Once
<1> QED BY <1>1, <1>2, <1>3 DEF Once

(* Where bank files have names of their own a row knows its file.          *)
LEMMA OfFileIs ==
  ASSUME NamesApart, NEW R \in SUBSET SheetRow, NEW f \in File
  PROVE  OfFile(R, f) = {r \in R : r.f = f}
BY DEF NamesApart, OfFile, SheetRow

(* mergeTablePayload: one row for a key, and no row of a file new to both. *)
LEMMA MergeOk ==
  ASSUME bank \in BOOLEAN, NamesApart, NEW p, Sound(p), NEW q, Sound(q), NEW fs \in SUBSET File
  PROVE  LET m == MergePayload(p, q, fs) IN
         /\ m \in Payload /\ Once(Deciding(m, bank))
         /\ Once(p.list) => Once(m.list)
         /\ \A r \in Deciding(m, bank) : \E s \in Deciding(p, bank) \cup Deciding(q, bank) : s.f = r.f
<1> DEFINE m == MergePayload(p, q, fs)
           sheet == Replaced(p.sheet, q.sheet, fs)
           list == Replaced(p.list, q.list, fs)
           coded == Coded(list, p.list)
<1>0. /\ p.sheet \in SUBSET SheetRow /\ p.list \in SUBSET SheetRow
      /\ q.sheet \in SUBSET SheetRow /\ q.list \in SUBSET SheetRow
  BY DEF Sound, Payload
<1>s. sheet \in SUBSET SheetRow
  BY <1>0 DEF Replaced
<1>1. CASE bank
  <2>1. (p.list \ UNION {OfFile(p.list, f) : f \in fs}) \cup UNION {OfFile(q.list, f) : f \in fs} = list
    BY <1>0, OfFileIs DEF Replaced
  <2>2. m = [sheet |-> sheet, saved |-> FALSE, list |-> coded]
    BY <1>1, <2>1 DEF MergePayload, Coded
  <2>3. Once(p.list) /\ Once(q.list)
    BY <1>1 DEF Sound, Deciding
  <2>4. list \in SUBSET SheetRow /\ Once(list) /\ list \subseteq p.list \cup q.list
    BY <1>0, <2>3, ReplacedOnce
  <2> HIDE DEF list
  <2>5. /\ coded \in SUBSET SheetRow /\ Once(coded)
        /\ \A k \in coded : \E r \in list : k.f = r.f
    BY <2>4, CodedOnce
  <2> HIDE DEF coded, sheet, m
  <2>6. m \in Payload
    BY <1>s, <2>2, <2>5 DEF Payload
  <2>7. /\ Deciding(m, bank) = coded /\ m.list = coded
        /\ Deciding(p, bank) = p.list /\ Deciding(q, bank) = q.list
    BY <1>1, <2>2 DEF Deciding
  <2>8. \A r \in coded : \E s \in p.list \cup q.list : s.f = r.f
    BY <2>4, <2>5
  <2> QED BY <2>5, <2>6, <2>7, <2>8 DEF m
<1>2. CASE ~ bank
  <2>1. m = [sheet |-> sheet, saved |-> FALSE, list |-> KeepingCodes(p.list, sheet)]
    BY <1>2 DEF MergePayload
  <2>2. Once(p.sheet) /\ Once(q.sheet)
    BY <1>2 DEF Sound, Deciding
  <2>3. Once(sheet) /\ sheet \subseteq p.sheet \cup q.sheet
    BY <1>0, <2>2, ReplacedOnce
  <2> HIDE DEF sheet, m
  <2>4. /\ KeepingCodes(p.list, sheet) \in SUBSET SheetRow
        /\ Once(p.list) => Once(KeepingCodes(p.list, sheet))
    BY <1>0, <1>s, <2>3, KeepingOnce
  <2>5. m \in Payload
    BY <1>s, <2>1, <2>4 DEF Payload
  <2>6. /\ Deciding(m, bank) = sheet /\ m.list = KeepingCodes(p.list, sheet)
        /\ Deciding(p, bank) = p.sheet /\ Deciding(q, bank) = q.sheet
    BY <1>2, <2>1 DEF Deciding
  <2>7. \A r \in sheet : \E s \in p.sheet \cup q.sheet : s.f = r.f
    BY <2>3
  <2> QED BY <2>3, <2>4, <2>5, <2>6, <2>7 DEF m
<1> QED BY <1>1, <1>2

LEMMA ResolvedOk ==
  ASSUME RunTyped, NamesApart, NEW b \in Batch, NEW p, At(p, b, bank, batchOf),
         NEW fs \in SUBSET Files(b)
  PROVE  At(Resolved(p, fs), b, bank, batchOf)
<1> DEFINE new == Incoming(fs)
<1>1. fs \in SUBSET File /\ \A f \in fs : batchOf[f] = b
  BY DEF Files
<1>2. /\ new \in Payload /\ Once(Deciding(new, bank))
      /\ \A r \in Deciding(new, bank) : r.f \in fs
  BY <1>1, IncomingSound
<1>3. At(new, b, bank, batchOf)
  BY <1>1, <1>2 DEF At
<1>4. Sound(p) /\ Sound(new)
  BY <1>2 DEF Sound, At
<1> DEFINE m == MergePayload(p, new, fs)
<1>5. /\ m \in Payload /\ Once(Deciding(m, bank))
      /\ \A r \in Deciding(m, bank) :
           \E s \in Deciding(p, bank) \cup Deciding(new, bank) : s.f = r.f
  <2> HIDE DEF new
  <2> QED BY <1>1, <1>4, MergeOk DEF RunTyped
<1>6. Resolved(p, fs) \in {p, new, m}
  BY DEF Resolved
<1> HIDE DEF new, m
<1>7. At(m, b, bank, batchOf)
  BY <1>3, <1>5 DEF At
<1> QED BY <1>3, <1>6, <1>7

(* The approved payload: by the least number of batches that would spoil it.*)
LEMMA CombinedOk ==
  ASSUME Batches \in Nat, bank \in BOOLEAN, NamesApart, NEW P, \A b \in Batch : Sound(P[b])
  PROVE  Sound(Combined(P)) /\ Once(Combined(P).list)
<1>1. PICK s : Sums(P, s, Batches) /\ Combined(P) = s[Batches]
  BY CombinedSums
<1> DEFINE good(p) == Sound(p) /\ Once(p.list)
           Bad == {k \in 0 .. Batches : ~ good(s[k])}
<1>2. SUFFICES ASSUME Bad # {} PROVE FALSE
  <2>1. Batches \in 0 .. Batches
    OBVIOUS
  <2> QED BY <1>1, <2>1
<1>3. PICK k \in Bad : \A m \in Bad : ~ (m < k)
  <2>1. Bad \in SUBSET Nat
    OBVIOUS
  <2> HIDE DEF Bad
  <2> QED BY <1>2, <2>1, NatLeast
<1>4. k \in 0 .. Batches /\ ~ good(s[k])
  BY <1>3
<1>5. s[k] = IF k = 0 THEN Empty ELSE Taken(P, s[k - 1], k)
  BY <1>1, <1>4 DEF Sums
<1>6. CASE k = 0
  <2>1. good(Empty)
    BY EmptySound DEF Sound
  <2> QED BY <1>4, <1>5, <1>6, <2>1
<1>7. CASE k # 0
  <2>1. k \in Batch /\ k - 1 \in 0 .. Batches /\ k - 1 < k
    BY <1>4, <1>7 DEF Batch
  <2>2. k - 1 \notin Bad
    <3> HIDE DEF Bad
    <3> QED BY <1>3, <2>1
  <2>3. good(s[k - 1])
    BY <2>1, <2>2
  <2> DEFINE p == s[k - 1]
             m == MergePayload(p, P[k], Files(k))
  <2>4. Files(k) \in SUBSET File
    BY DEF Files
  <2>5. Sound(p) /\ Once(p.list)
    BY <2>3
  <2> HIDE DEF p
  <2>6. m \in Payload /\ Once(Deciding(m, bank)) /\ Once(m.list)
    BY <2>1, <2>4, <2>5, MergeOk
  <2>7. good(m)
    BY <2>6 DEF Sound
  <2>8. s[k] \in {p, m}
    BY <1>5, <1>7 DEF Taken, p
  <2> HIDE DEF m
  <2> QED BY <1>4, <2>5, <2>7, <2>8
<1> QED BY <1>6, <1>7

(* What is shown when a run is opened, on either page.                     *)
LEMMA OpenedOk ==
  ASSUME RunTyped, NamesApart, approvedTable = None,
         \A b \in Batch : At(snapshots[b], b, bank, batchOf)
  PROVE  LET P == Reconciled(Filled(Loaded, Built)) IN
         P \in [Batch -> Payload] /\ \A b \in Batch : At(P[b], b, bank, batchOf)
<1> DEFINE F == Filled(Loaded, Built)
           P == Reconciled(F)
<1>1. Loaded = snapshots
  BY DEF Loaded
<1>2. ASSUME NEW b \in Batch PROVE At(Built[b], b, bank, batchOf)
  <2>1. Built[b] = Resolved(Empty, Files(b))
    BY DEF Built
  <2>2. Files(b) \in SUBSET Files(b)
    OBVIOUS
  <2> QED BY <2>1, <2>2, EmptySound, ResolvedOk
<1>3. ASSUME NEW b \in Batch PROVE F[b] \in {Empty, snapshots[b], Built[b]}
  BY <1>1 DEF Filled
<1>4. P = [b \in Batch |-> IF ~ F[b].saved /\ Count(Built[b]) > Count(F[b]) THEN Built[b] ELSE F[b]]
  BY DEF Reconciled
<1> HIDE DEF F
<1>5. \A b \in Batch : P[b] \in {Built[b], F[b]}
  BY <1>4
<1> HIDE DEF P
<1>6. ASSUME NEW b \in Batch PROVE At(P[b], b, bank, batchOf)
  BY <1>2, <1>3, <1>5, EmptySound
<1>7. P = [b \in Batch |-> P[b]] /\ \A b \in Batch : P[b] \in Payload
  BY <1>4, <1>6 DEF At, P
<1> QED BY <1>6, <1>7 DEF P, F

(* A file that is moved from the batch it was placed in finds no row of    *)
(* its own where it comes.                                                 *)
LEMMA MovedOk ==
  ASSUME RunTyped, NamesApart, NEW P \in [Batch -> Payload],
         \A b \in Batch : At(P[b], b, bank, batchOf),
         NEW f \in File, batchOf[f] = Placed[f], NEW to \in Batch \ {batchOf[f]},
         NEW gone \in Moving(P[batchOf[f]], f)
  PROVE  LET Q == Moved(P, f, batchOf[f], to, gone) IN
         /\ Q \in [Batch -> Payload]
         /\ \A b \in Batch : At(Q[b], b, bank, [batchOf EXCEPT ![f] = to])
<1> DEFINE from == batchOf[f]
           bo == [batchOf EXCEPT ![f] = to]
           sheet == IF bank THEN {} ELSE SheetOf(P[from], f)
           Q == Moved(P, f, from, to, gone)
           D(b) == Deciding(P[b], bank)
           go == {r \in D(from) : r.f = f}
<1>0. /\ from \in Batch /\ to \in Batch /\ to # from /\ bank \in BOOLEAN
      /\ P[from] \in Payload /\ P[to] \in Payload
  BY DEF RunTyped
<1>1. gone \in SUBSET P[from].list /\ (bank => gone = {r \in P[from].list : r.f = f})
  <2>1. P[from].list \in SUBSET SheetRow
    BY <1>0 DEF Payload
  <2>2. OfFile(P[from].list, f) = {r \in P[from].list : r.f = f}
    BY <2>1, OfFileIs
  <2> QED BY <2>2 DEF Moving
<1>2. sheet = IF bank THEN {} ELSE {r \in P[from].sheet : r.f = f}
  BY DEF SheetOf
<1> HIDE DEF sheet
<1>3. \A e \in File, b \in Batch :
        b \in {Placed[e], batchOf[e]} => b \in {Placed[e], bo[e]}
  BY DEF RunTyped
<1>4. bo[f] = to
  BY DEF RunTyped
<1>5. Q \in [Batch -> Payload]
  <2>1. sheet \in SUBSET SheetRow /\ gone \in SUBSET SheetRow
    BY <1>0, <1>1, <1>2 DEF Payload
  <2>2. CASE gone # {}
    BY <1>0, <2>1, <2>2 DEF Moved, Less, More, Payload, sheet
  <2>3. CASE gone = {}
    BY <1>0, <2>1, <2>3 DEF Moved, Relisted, Payload, sheet
  <2> QED BY <2>2, <2>3
<1>6. /\ \A b \in Batch \ {from, to} : Deciding(Q[b], bank) = D(b)
      /\ Deciding(Q[from], bank) = D(from) \ go
      /\ Deciding(Q[to], bank) = D(to) \cup go
  <2>1. go = IF bank THEN gone ELSE sheet
    BY <1>1, <1>2 DEF Deciding
  <2>2. CASE gone # {}
    <3>1. Q = [P EXCEPT ![from] = Less(@, sheet, gone), ![to] = More(@, sheet, gone)]
      BY <2>2 DEF Moved, sheet
    <3> HIDE DEF Q, go, from
    <3>2. Q[from] = Less(P[from], sheet, gone) /\ Q[to] = More(P[to], sheet, gone)
      BY <1>0, <3>1
    <3>3. \A b \in Batch \ {from, to} : Q[b] = P[b]
      BY <1>0, <3>1
    <3>4. /\ Q[from].sheet = P[from].sheet \ sheet /\ Q[from].list = P[from].list \ gone
          /\ Q[to].sheet = P[to].sheet \cup sheet /\ Q[to].list = P[to].list \cup gone
      BY <1>0, <3>2 DEF Less, More, Payload
    <3> QED BY <1>0, <2>1, <3>3, <3>4 DEF Deciding
  <2>3. CASE gone = {} /\ sheet # {}
    <3>1. Q = [P EXCEPT ![from] = Relisted(@, @.sheet \ sheet),
                        ![to] = Relisted(@, @.sheet \cup sheet)] /\ ~ bank
      BY <2>3 DEF Moved, sheet
    <3> HIDE DEF Q, go, from
    <3>2. /\ Q[from] = Relisted(P[from], P[from].sheet \ sheet)
          /\ Q[to] = Relisted(P[to], P[to].sheet \cup sheet)
      BY <1>0, <3>1
    <3>3. \A b \in Batch \ {from, to} : Q[b] = P[b]
      BY <1>0, <3>1
    <3>4. /\ Q[from].sheet = P[from].sheet \ sheet
          /\ Q[to].sheet = P[to].sheet \cup sheet
      BY <1>0, <3>2 DEF Relisted, Payload
    <3> QED BY <1>0, <2>1, <3>1, <3>3, <3>4 DEF Deciding
  <2>4. CASE gone = {} /\ sheet = {}
    <3>1. Q = P /\ go = {}
      BY <2>1, <2>4 DEF Moved, sheet
    <3> QED BY <3>1
  <2> QED BY <2>2, <2>3, <2>4
<1>7. \A b \in Batch : /\ D(b) \in SUBSET SheetRow /\ Once(D(b))
                      /\ \A r \in D(b) : b \in {Placed[r.f], batchOf[r.f]}
  BY DEF At, Deciding, Payload, RunTyped
<1>8. \A r \in D(to) : r.f # f
  BY <1>0, <1>7
<1> HIDE DEF Q, D
<1>9. go \in SUBSET D(from) /\ Once(go) /\ \A r \in go : r.f = f
  BY <1>0, <1>7 DEF Once
<1> HIDE DEF go, bo
<1>10. ASSUME NEW b \in Batch PROVE At(Q[b], b, bank, bo)
  <2>1. Q[b] \in Payload
    BY <1>5
  <2>2. \A r \in D(b) : b \in {Placed[r.f], bo[r.f]}
    BY <1>3, <1>7 DEF SheetRow
  <2>3. CASE b = to
    <3>1. ASSUME NEW r \in D(to) \cup go, NEW q \in D(to) \cup go, Key(r) = Key(q) PROVE r = q
      <4>1. r.f = q.f
        BY <3>1 DEF Key
      <4> QED BY <1>0, <1>7, <1>8, <1>9, <3>1, <4>1 DEF Once
    <3>2. Once(D(to) \cup go)
      BY <3>1 DEF Once
    <3> QED BY <1>4, <1>6, <1>9, <2>1, <2>2, <2>3, <3>2 DEF At
  <2>4. CASE b = from
    BY <1>0, <1>6, <1>7, <2>1, <2>2, <2>4 DEF At, Once
  <2>5. CASE b \notin {from, to}
    BY <1>6, <1>7, <2>1, <2>2, <2>5 DEF At
  <2> QED BY <2>3, <2>4, <2>5
<1> QED BY <1>5, <1>10 DEF Q, bo

-----------------------------------------------------------------------------
(* Until the approval every payload, shown, at the server or on its way    *)
(* there, is sound and has rows of the files of its batch only.            *)
SaveOk(s, bk, bo) == /\ At(s.p, s.b, bk, bo)
                     /\ \A n \in s.next : At(n.p, n.b, bk, bo) /\ n.next = {}

Unapproved == /\ approvedTable = None
              /\ payloads \in [Batch -> Payload] /\ snapshots \in [Batch -> Payload]
              /\ \A b \in Batch : /\ At(payloads[b], b, bank, batchOf)
                                 /\ At(snapshots[b], b, bank, batchOf)
              /\ \A s \in saves : SaveOk(s, bank, batchOf)

TablesInv == /\ RunTyped
             /\ status # "completed" => Unapproved
             /\ Once(approvedTable.list)

LEMMA TablesStart == TablesInit => TablesInv
<1> SUFFICES ASSUME TablesInit PROVE TablesInv
  OBVIOUS
<1>1. RunTyped
  BY BatchAssumption DEF TablesInit, RunTyped, Batch
<1>2. payloads = [b \in Batch |-> Empty] /\ snapshots = payloads /\ saves = {}
      /\ approvedTable = None
  BY DEF TablesInit
<1>3. Unapproved
  BY <1>2, EmptySound DEF Unapproved
<1>4. approvedTable.list = {}
  BY <1>2 DEF None
<1> QED BY <1>1, <1>3, <1>4, EmptySound DEF TablesInv

(* A payload that is put in the place of one, or set on its way.           *)
LEMMA PutOk ==
  ASSUME NEW P \in [Batch -> Payload], \A b \in Batch : At(P[b], b, bank, batchOf),
         NEW b, NEW p, At(p, b, bank, batchOf)
  PROVE  /\ [P EXCEPT ![b] = p] \in [Batch -> Payload]
         /\ \A c \in Batch : At([P EXCEPT ![b] = p][c], c, bank, batchOf)
BY DEF At

LEMMA ChangedOnce ==
  ASSUME NEW R \in SUBSET SheetRow, NEW r \in R, Once(R),
         NEW L \in {(R \ {r}) \cup {[r EXCEPT !.code = TRUE]}, R \ {r}}
  PROVE  Once(L)
<1> DEFINE x == [r EXCEPT !.code = TRUE]
<1>1. Key(x) = Key(r)
  BY DEF SheetRow, Key
<1>2. L \in {(R \ {r}) \cup {x}, R \ {r}}
  OBVIOUS
<1> HIDE DEF x
<1> QED BY <1>1, <1>2 DEF Once

LEMMA RowChangedOk ==
  ASSUME bank \in BOOLEAN, NEW b, NEW p, At(p, b, bank, batchOf), NEW r \in p.list,
         NEW q \in RowChanged(p, r)
  PROVE  /\ At(q, b, bank, batchOf)
         /\ Once(p.list) => Once(q.list)
<1> DEFINE x == [r EXCEPT !.code = TRUE]
<1>1. p.list \in SUBSET SheetRow /\ p.sheet \in SUBSET SheetRow /\ p \in Payload
  BY DEF At, Payload
<1>2. x \in SheetRow /\ Key(x) = Key(r) /\ x.f = r.f
  BY <1>1 DEF SheetRow, Key
<1>3. PICK L \in {(p.list \ {r}) \cup {x}, p.list \ {r}} : q = [p EXCEPT !.list = L]
  BY DEF RowChanged
<1> HIDE DEF x
<1>4. L \in SUBSET SheetRow
  BY <1>1, <1>2
<1>5. q \in Payload /\ q.list = L /\ q.sheet = p.sheet
  BY <1>1, <1>3, <1>4 DEF Payload
<1>6. Once(p.list) => Once(L)
  BY <1>1, <1>3, ChangedOnce DEF x
<1>7. \A y \in L : \E z \in p.list : y.f = z.f
  BY <1>2, <1>3
<1>8. CASE bank
  <2>1. Deciding(p, bank) = p.list /\ Deciding(q, bank) = L
    BY <1>5, <1>8 DEF Deciding
  <2> QED BY <1>5, <1>6, <1>7, <2>1 DEF At
<1>9. CASE ~ bank
  <2>1. Deciding(p, bank) = p.sheet /\ Deciding(q, bank) = p.sheet
    BY <1>5, <1>9 DEF Deciding
  <2> QED BY <1>5, <1>6, <2>1 DEF At
<1> QED BY <1>8, <1>9

(* An approved table is not replaced; until then each write keeps the rows *)
(* of a payload apart.                                                     *)
LEMMA TablesStep ==
  ASSUME ~ Returns, NamesApart, TablesInv, [TablesNext]_tables
  PROVE  TablesInv'
<1>1. CASE UNCHANGED tables
  BY <1>1 DEF tables, TablesInv, RunTyped, Unapproved
<1>2. ASSUME status = "completed", TablesNext PROVE TablesInv'
  <2>1. /\ UNCHANGED <<bank, approvedTable, status>>
        /\ UNCHANGED ocr
        /\ batchOf' \in [File -> Batch]
    BY <1>2 DEF TablesInv, RunTyped, TablesNext, OpenNode, OpenBooks, Leave, EditNode, SaveModule, Persisted,
       PersistFailed, MoveFile, ReVlm, ReVlmAnswered, Sync, ApproveNode, ApproveProcessing,
       ShowCompleted, CompletedFailed
  <2> QED BY <1>2, <2>1 DEF TablesInv, RunTyped, Once
<1>3. ASSUME status # "completed", TablesNext PROVE TablesInv'
  <2> USE <1>3 DEF TablesInv
  <2>0. RunTyped /\ Unapproved /\ bank \in BOOLEAN /\ Once(approvedTable.list)
    BY DEF RunTyped
  <2>1. CASE OpenNode
    <3>1. /\ payloads' \in [Batch -> Payload]
          /\ \A b \in Batch : At(payloads'[b], b, bank, batchOf)
      BY <2>0, <2>1, OpenedOk DEF OpenNode, Unapproved
    <3>2. UNCHANGED <<bank, status, batchOf, ocr, snapshots, approvedTable, saves>>
      BY <2>1 DEF OpenNode
    <3> QED BY <2>0, <3>1, <3>2 DEF Unapproved, RunTyped
  <2>2. CASE OpenBooks
    BY <2>2 DEF OpenBooks
  <2>3. CASE Leave
    <3>1. /\ UNCHANGED <<bank, status, batchOf, ocr, snapshots, approvedTable>>
          /\ payloads' = [b \in Batch |-> Empty]
      BY <2>3 DEF Leave
    <3>2. \A s \in saves' : s \in saves
                         \/ \E b \in Batch : s = [b |-> b, p |-> payloads[b], next |-> {}]
      BY <2>3 DEF Leave
    <3>3. \A s \in saves' : SaveOk(s, bank, batchOf)
      BY <2>0, <3>2 DEF Unapproved, SaveOk
    <3> QED BY <2>0, <3>1, <3>3, EmptySound DEF Unapproved, RunTyped
  <2>4. CASE EditNode
    <3>1. PICK b, r, p :
            /\ b \in Batch /\ r \in payloads[b].list /\ p \in RowChanged(payloads[b], r)
            /\ payloads' = [payloads EXCEPT ![b] = p]
            /\ saves' = saves \cup {[b |-> b, p |-> p, next |-> {}]}
      BY <2>4 DEF EditNode, SaveBatch
    <3>2. UNCHANGED <<bank, status, batchOf, ocr, snapshots, approvedTable>>
      BY <2>4 DEF EditNode
    <3>3. At(p, b, bank, batchOf)
      BY <2>0, <3>1, RowChangedOk DEF Unapproved
    <3>4. /\ payloads' \in [Batch -> Payload]
          /\ \A c \in Batch : At(payloads'[c], c, bank, batchOf)
      BY <2>0, <3>1, <3>3, PutOk DEF Unapproved
    <3>5. \A s \in saves' : SaveOk(s, bank, batchOf)
      BY <2>0, <3>1, <3>3 DEF Unapproved, SaveOk
    <3> QED BY <2>0, <3>2, <3>4, <3>5 DEF Unapproved, RunTyped
  <2>5. CASE SaveModule
    <3>1. PICK b, r, q :
            /\ b \in Batch /\ r \in payloads[b].list /\ q \in RowChanged(payloads[b], r)
            /\ LET p == [q EXCEPT !.saved = TRUE] IN
               /\ payloads' = [payloads EXCEPT ![b] = p] /\ snapshots' = [snapshots EXCEPT ![b] = p]
      BY <2>5 DEF SaveModule
    <3>2. UNCHANGED <<bank, status, batchOf, ocr, approvedTable, saves>>
      BY <2>5 DEF SaveModule
    <3> DEFINE p == [q EXCEPT !.saved = TRUE]
    <3>3. At(q, b, bank, batchOf)
      BY <2>0, <3>1, RowChangedOk DEF Unapproved
    <3>4. p \in Payload /\ p.list = q.list /\ p.sheet = q.sheet
      BY <3>3 DEF At, Payload
    <3>5. At(p, b, bank, batchOf)
      BY <3>3, <3>4 DEF At, Deciding
    <3>6. payloads' = [payloads EXCEPT ![b] = p] /\ snapshots' = [snapshots EXCEPT ![b] = p]
      BY <3>1
    <3> HIDE DEF p
    <3>7. /\ payloads' \in [Batch -> Payload] /\ snapshots' \in [Batch -> Payload]
          /\ \A c \in Batch : /\ At(payloads'[c], c, bank, batchOf)
                             /\ At(snapshots'[c], c, bank, batchOf)
      BY <2>0, <3>5, <3>6, PutOk DEF Unapproved
    <3> QED BY <2>0, <3>2, <3>7 DEF Unapproved, RunTyped
  <2>6. CASE Persisted
    <3>1. PICK s \in saves : /\ snapshots' = [snapshots EXCEPT ![s.b] = s.p]
                             /\ saves' = (saves \ {s}) \cup s.next
      BY <2>6 DEF Persisted
    <3>2. UNCHANGED <<bank, status, batchOf, ocr, payloads, approvedTable>>
      BY <2>6 DEF Persisted
    <3>3. SaveOk(s, bank, batchOf)
      BY <2>0 DEF Unapproved
    <3>4. At(s.p, s.b, bank, batchOf) /\ \A n \in s.next : SaveOk(n, bank, batchOf)
      BY <3>3 DEF SaveOk
    <3>5. /\ snapshots' \in [Batch -> Payload]
          /\ \A c \in Batch : At(snapshots'[c], c, bank, batchOf)
      BY <2>0, <3>1, <3>4, PutOk DEF Unapproved
    <3> QED BY <2>0, <3>1, <3>2, <3>4, <3>5 DEF Unapproved, RunTyped
  <2>7. CASE PersistFailed
    BY <2>0, <2>7 DEF PersistFailed, Unapproved, RunTyped
  <2>8. CASE MoveFile
    <3>1. PICK f, to, gone :
            /\ f \in File /\ to \in Batch \ {batchOf[f]}
            /\ gone \in Moving(payloads[batchOf[f]], f)
            /\ batchOf[f] = Placed[f] /\ batchOf' = [batchOf EXCEPT ![f] = to]
            /\ payloads' = Moved(payloads, f, batchOf[f], to, gone)
            /\ saves' = saves \cup
                 {[b |-> batchOf[f], p |-> payloads'[batchOf[f]],
                   next |-> {[b |-> to, p |-> payloads'[to], next |-> {}]}]}
      BY <2>8 DEF MoveFile, SaveBatch
    <3>2. UNCHANGED <<bank, status, ocr, snapshots, approvedTable>>
      BY <2>8 DEF MoveFile
    <3>3. /\ payloads' \in [Batch -> Payload]
          /\ \A b \in Batch : At(payloads'[b], b, bank, batchOf')
      BY <2>0, <3>1, MovedOk DEF Unapproved
    <3>4. \A p, b : At(p, b, bank, batchOf) => At(p, b, bank, batchOf')
      <4>1. \A e \in File : \A b : b \in {Placed[e], batchOf[e]} => b \in {Placed[e], batchOf'[e]}
        BY <2>0, <3>1 DEF RunTyped
      <4>2. \A p \in Payload : \A r \in Deciding(p, bank) : r.f \in File
        BY DEF Deciding, Payload, SheetRow
      <4> QED BY <4>1, <4>2 DEF At
    <3>5. \A s \in saves : SaveOk(s, bank, batchOf')
      BY <2>0, <3>4 DEF Unapproved, SaveOk
    <3>6. batchOf[f] \in Batch /\ batchOf' \in [File -> Batch]
      BY <2>0, <3>1 DEF RunTyped
    <3> DEFINE second == [b |-> to, p |-> payloads'[to], next |-> {}]
               first == [b |-> batchOf[f], p |-> payloads'[batchOf[f]], next |-> {second}]
    <3>7. At(second.p, second.b, bank, batchOf') /\ second.next = {}
      BY <3>1, <3>3
    <3>8. At(first.p, first.b, bank, batchOf') /\ first.next = {second}
      BY <3>3, <3>6
    <3>9. saves' = saves \cup {first}
      BY <3>1
    <3> HIDE DEF first, second
    <3>10. \A s \in saves' : SaveOk(s, bank, batchOf')
      BY <3>5, <3>7, <3>8, <3>9 DEF SaveOk
    <3> QED BY <2>0, <3>2, <3>3, <3>4, <3>6, <3>10 DEF Unapproved, RunTyped
  <2>9. CASE ReVlm
    <3>1. PICK f, k :
            /\ f \in File /\ k \in 1 .. MaxRow[f]
            /\ ocr' = [ocr EXCEPT ![f] = [v |-> 2, rows |-> 1 .. k]]
      BY <2>9 DEF ReVlm
    <3>2. UNCHANGED <<bank, batchOf, payloads, snapshots, approvedTable, saves>>
      BY <2>9 DEF ReVlm
    <3>3. 1 .. k \in SUBSET Nat
      BY BatchAssumption, <3>1
    <3>4. RunTyped'
      BY <2>0, <3>1, <3>2, <3>3 DEF RunTyped
    <3> QED BY <2>0, <3>2, <3>4 DEF Unapproved
  <2>10. CASE ReVlmAnswered
    <3>1. PICK f \in File :
            LET b == batchOf[f]
                base == [c \in Batch |-> IF snapshots[c] # Empty THEN snapshots[c] ELSE payloads[c]]
                next == [base EXCEPT ![b] = Resolved(base[b], {f})] IN
            IF page = "node"
            THEN payloads' = next /\ SaveBatch(b, next[b], {})
            ELSE UNCHANGED <<payloads, saves>>
      BY <2>10 DEF ReVlmAnswered
    <3>2. UNCHANGED <<bank, batchOf, ocr, snapshots, approvedTable>>
      BY <2>10 DEF ReVlmAnswered
    <3>3. CASE page # "node"
      BY <2>0, <3>1, <3>2, <3>3 DEF Unapproved, RunTyped
    <3>4. CASE page = "node"
      <4> DEFINE b == batchOf[f]
                 base == [c \in Batch |-> IF snapshots[c] # Empty THEN snapshots[c] ELSE payloads[c]]
                 p == Resolved(base[b], {f})
                 next == [base EXCEPT ![b] = p]
      <4>1. payloads' = next /\ saves' = saves \cup {[b |-> b, p |-> next[b], next |-> {}]}
        BY <3>1, <3>4 DEF SaveBatch
      <4>2. b \in Batch /\ {f} \in SUBSET Files(b)
        BY <2>0 DEF RunTyped, Files
      <4>3. base \in [Batch -> Payload] /\ \A c \in Batch : At(base[c], c, bank, batchOf)
        BY <2>0 DEF Unapproved
      <4> HIDE DEF b, base
      <4>4. At(p, b, bank, batchOf)
        BY <2>0, <4>2, <4>3, ResolvedOk
      <4> HIDE DEF p
      <4>5. next \in [Batch -> Payload] /\ \A c \in Batch : At(next[c], c, bank, batchOf)
        BY <4>3, <4>4, PutOk
      <4> HIDE DEF next
      <4>6. \A s \in saves' : SaveOk(s, bank, batchOf)
        BY <2>0, <4>1, <4>2, <4>5 DEF Unapproved, SaveOk
      <4> QED BY <2>0, <3>2, <4>1, <4>5, <4>6 DEF Unapproved, RunTyped
    <3> QED BY <3>3, <3>4
  <2>11. CASE Sync
    <3> DEFINE new(b) == Resolved(payloads[b], Files(b))
    <3>1. PICK up \in SUBSET Batch :
            /\ payloads' = [b \in Batch |-> IF b \in up THEN new(b) ELSE payloads[b]]
            /\ saves' = IF status = "executing" THEN saves
                        ELSE saves \cup {[b |-> b, p |-> payloads'[b], next |-> {}] : b \in up}
      BY <2>11 DEF Sync
    <3>2. UNCHANGED <<bank, status, batchOf, ocr, snapshots, approvedTable>>
      BY <2>11 DEF Sync
    <3>3. \A b \in Batch : At(new(b), b, bank, batchOf)
      <4>1. \A b \in Batch : Files(b) \in SUBSET Files(b)
        OBVIOUS
      <4> QED BY <2>0, <4>1, ResolvedOk DEF Unapproved
    <3> HIDE DEF new
    <3>4. \A b \in Batch : At(payloads'[b], b, bank, batchOf)
      BY <2>0, <3>1, <3>3 DEF Unapproved
    <3>5. payloads' \in [Batch -> Payload]
      BY <2>0, <3>1, <3>3 DEF Unapproved, At
    <3>6. \A s \in saves' : SaveOk(s, bank, batchOf)
      BY <2>0, <3>1, <3>4 DEF Unapproved, SaveOk
    <3> QED BY <2>0, <3>2, <3>4, <3>5, <3>6 DEF Unapproved, RunTyped
  <2>12. CASE ApproveNode
    <3>1. approvedTable' = Combined(payloads) /\ status' = "completed"
          /\ UNCHANGED <<bank, batchOf, ocr>>
      BY <2>12 DEF ApproveNode
    <3>2. \A b \in Batch : Sound(payloads[b])
      BY <2>0 DEF Unapproved, Sound, At
    <3>3. Once(Combined(payloads).list)
      BY <2>0, <3>2, BatchAssumption, CombinedOk
    <3> QED BY <2>0, <3>1, <3>3 DEF RunTyped, Once
  <2>13. CASE ApproveProcessing
    <3> DEFINE P == Reconciled(Filled(Loaded, Built))
               all == Combined(P)
    <3>1. PICK r, p : /\ r \in all.list /\ p \in RowChanged(all, r) \cup {all}
                         /\ approvedTable' = p
      BY <2>13 DEF ApproveProcessing
    <3>2. status' = "completed" /\ UNCHANGED <<bank, batchOf, ocr>>
      BY <2>13 DEF ApproveProcessing
    <3>3. \A b \in Batch : At(P[b], b, bank, batchOf)
      BY <2>0, OpenedOk DEF Unapproved
    <3> HIDE DEF P
    <3>4. Sound(all) /\ Once(all.list)
      BY <2>0, <3>3, BatchAssumption, CombinedOk DEF Sound, At
    <3> HIDE DEF all
    <3>5. ASSUME p # all PROVE Once(p.list)
      <4>1. PICK L \in {(all.list \ {r}) \cup {[r EXCEPT !.code = TRUE]}, all.list \ {r}} :
              p = [all EXCEPT !.list = L]
        BY <3>1, <3>5 DEF RowChanged
      <4>2. p.list = L
        BY <3>4, <4>1 DEF Sound, Payload
      <4>3. all.list \in SUBSET SheetRow /\ r \in all.list
        BY <3>1, <3>4 DEF Sound, Payload
      <4>4. Once(L)
        BY <3>4, <4>1, <4>3, ChangedOnce
      <4> QED BY <4>2, <4>4
    <3> QED BY <2>0, <3>1, <3>2, <3>4, <3>5 DEF RunTyped, Once
  <2>14. CASE ShowCompleted
    BY <2>14 DEF ShowCompleted
  <2>15. CASE CompletedFailed
    BY <2>15 DEF CompletedFailed
  <2> QED BY <2>1, <2>2, <2>3, <2>4, <2>5, <2>6, <2>7, <2>8, <2>9, <2>10, <2>11, <2>12, <2>13,
             <2>14, <2>15, <1>3 DEF TablesNext
<1> QED BY <1>1, <1>2, <1>3

LEMMA BankStays ==
  ASSUME [TablesNext]_tables
  PROVE  bank' = bank
BY DEF tables, TablesNext, OpenNode, OpenBooks, Leave, EditNode, SaveModule, Persisted,
       PersistFailed, MoveFile, ReVlm, ReVlmAnswered, Sync, ApproveNode, ApproveProcessing,
       ShowCompleted, CompletedFailed

(* Whatever is extracted again, edited, moved, polled, persisted or lost on *)
(* the way before the approval, no document's row is in the approved table *)
(* twice, provided that no file is moved a second time and, for the bank   *)
(* tables, which know a file by its name, that names differ                *)
(* (mergeTablePayload, combineBatchTablePayloads).                         *)
THEOREM RowsApprovedOnce ==
  ASSUME ~ Returns
  PROVE  TablesSpec /\ NamesApart => []ApprovedOnce
<1> DEFINE Inv == TablesInv /\ NamesApart
<1>1. TablesInit /\ NamesApart => Inv
  BY TablesStart
<1>2. Inv /\ [TablesNext]_tables => Inv'
  BY TablesStep, BankStays DEF NamesApart
<1>3. Inv => ApprovedOnce
  BY DEF TablesInv, ApprovedOnce, Once
<1> QED BY <1>1, <1>2, <1>3, PTL DEF TablesSpec
==============================================================================
