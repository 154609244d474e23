------------------------------ MODULE CropGate ------------------------------
(***************************************************************************)
(* The crop gate of the Processing screen (MvduCropPreviewGate.tsx,        *)
(* boxOps.ts, cropGateConfirm.ts and the handlers of ProcessingView.tsx):  *)
(* the user reviews the boxes detected on every page of every file that    *)
(* waits at the gate, moving between pages and files, and then sends the   *)
(* boxes of one file to be extracted, while polls replace the files below. *)
(*                                                                         *)
(* The boxes of a page are [f, p, v]: whose they are and how often they    *)
(* were edited; v = 0 is a page without boxes, v = 1 what was detected.    *)
(***************************************************************************)
EXTENDS Naturals, FiniteSets

CONSTANTS GateFile, NoGateFile,
          Sendable,           \* the files that are sent in this instance, the others stay at the gate
          MaxPage, MaxEdit

ASSUME GateAssumption ==
  /\ NoGateFile \notin GateFile /\ Sendable \subseteq GateFile
  /\ MaxPage \in Nat \ {0} /\ MaxEdit \in [GateFile -> Nat]

VARIABLES cfiles,   \* activeRun.files of the client
          sfiles,   \* the same at the backend
          target,   \* activeCropFileId
          g,        \* the mounted gate: its file, page, page entries, boxes, key and memory
          gbusy,    \* cropGateBusy, actionPending
          conf,     \* the confirm-crops request in flight
          snap,     \* a snapshot of the run on its way to the client
          seen      \* history: the boxes last seen on a page since its file came to the gate

gvars == <<cfiles, sfiles, target, g, gbusy, conf, snap, seen>>

GPage == 1..MaxPage
Boxes(f, p, v) == [f |-> f, p |-> p, v |-> v]
NoBoxes == [f |-> NoGateFile, p |-> 0, v |-> 0]
Entry(st, bx) == [st |-> st, bx |-> bx]
Detected(f) == [p \in GPage |-> Entry(IF p = 2 THEN "empty" ELSE "pending", Boxes(f, p, IF p = 2 THEN 0 ELSE 1))]
NoMemory == [page |-> 0]
NoConf == [kind |-> "none"]
NoSnap == [kind |-> "none"]
Unseen == [p \in GPage |-> NoBoxes]
Unmounted == [file |-> NoGateFile, page |-> 1, ents |-> [p \in GPage |-> Entry("pending", NoBoxes)],
              bx |-> NoBoxes, key |-> <<>>, mem |-> [f \in GateFile |-> NoMemory]]

\* normalizeIncomingBoxes files boxes under the page they are read for
OnPage(bx, p) == [bx EXCEPT !.p = p]

\* isStaleCropExtracting
StaleExtracting(x) == x.status # "running" /\ x.phase = "extracting"

\* resetPreviewBoxesPending: page marks and boxes stay
ResetPending(x) == [x EXCEPT !.phase = "preview"]

\* sealCompletedCropExtract
Sealed(x) == [x EXCEPT !.phase = "done", !.needs = FALSE]

\* reopenCropGateAfterInterrupt
Reopened(x) == [ResetPending(x) EXCEPT !.status = "warning", !.needs = TRUE]

\* normalizeCropGateFile
Normalized(x) ==
  IF ~ StaleExtracting(x) THEN x
  ELSE IF x.status = "ok" \/ (x.status = "warning" /\ ~ x.needs) THEN Sealed(x)
  ELSE Reopened(x)

\* normalizeRunCropGateFiles
NormalizedRun(F) == [f \in GateFile |-> Normalized(F[f])]

\* parseCropPreviewFromSummary, cropGateFiles
Gated(F) == {f \in GateFile : LET x == Normalized(F[f]) IN
               \/ x.phase = "preview"
               \/ x.phase = "extracting" /\ x.status = "running"}

GateInit ==
  /\ sfiles = [f \in GateFile |-> [status |-> "pending", phase |-> "none", needs |-> FALSE,
                                   pages |-> Detected(f)]]
  /\ cfiles = sfiles
  /\ target = NoGateFile /\ g = Unmounted /\ gbusy = FALSE
  /\ conf = NoConf /\ snap = NoSnap
  /\ seen = [f \in GateFile |-> Unseen]

-----------------------------------------------------------------------------
\* The effect on cropGateFiles: keep the open file while it waits
NextTarget(F, t) == IF t \in Gated(F) THEN t
                    ELSE IF Gated(F) = {} THEN NoGateFile ELSE CHOOSE f \in Gated(F) : TRUE

\* The effect that drops the memory of files that left the gate
Remembered(mem, F) == [f \in GateFile |-> IF f \in Gated(F) THEN mem[f] ELSE NoMemory]

\* bootstrapFromPreview (the backend names page 1)
Bootstrapped(gg, f, x) ==
  [gg EXCEPT !.file = f, !.page = 1, !.ents = x.pages, !.bx = OnPage(x.pages[1].bx, 1),
             !.key = <<f, x.phase>>]

\* applyMemory
Restored(gg, f, x) ==
  [gg EXCEPT !.file = f, !.page = gg.mem[f].page, !.ents = gg.mem[f].ents, !.bx = gg.mem[f].bx,
             !.key = <<f, x.phase>>]

\* The extracting branch of the bootstrap effect keeps the page the user looks at
Following(gg, f, x) ==
  LET same == gg.key = <<f, x.phase>>
      page == IF same THEN gg.page ELSE 1
  IN [gg EXCEPT !.ents = x.pages, !.page = page, !.key = <<f, x.phase>>, !.mem[f] = NoMemory,
                !.bx = IF same /\ gg.bx.p = page THEN gg.bx ELSE OnPage(x.pages[page].bx, page)]

\* The bootstrap effect, after the files or the open file changed
Synced(gg0, F, t) ==
  LET gg == [gg0 EXCEPT !.mem = Remembered(gg0.mem, F)]
      x == F[t]
  IN IF t = NoGateFile THEN Unmounted
     ELSE IF gg.file # t
          THEN IF gg.file # NoGateFile /\ gg.mem[t] # NoMemory /\ x.phase = "preview"
               THEN Restored(gg, t, x) ELSE Bootstrapped(gg, t, x)
     ELSE IF x.phase # "preview" THEN Following(gg, t, x)
     ELSE IF gg.key = <<t, x.phase>> THEN gg
     ELSE Bootstrapped(gg, t, x)

\* What the user has seen: forgotten once the file leaves the gate or is extracted
SeenOf(s, gg, F) ==
  [f \in GateFile |->
     IF f \notin Gated(F) THEN Unseen
     ELSE IF gg.file # f THEN s[f]
     ELSE IF F[f].phase # "preview" THEN Unseen
     ELSE [p \in GPage |-> IF p = gg.page THEN gg.bx
                           ELSE IF s[f] = Unseen THEN gg.ents[p].bx ELSE s[f][p]]]

\* A new run object arrives: files, open file and gate follow
Arrives(F) ==
  /\ cfiles' = F
  /\ target' = NextTarget(F, target)
  /\ g' = Synced(g, F, target')
  /\ seen' = SeenOf(seen, g', F)

Shows(gg) == g' = gg /\ seen' = SeenOf(seen, gg, cfiles)

\* The polls of a run end with its execution
Executing(F) == \E f \in GateFile : F[f].status \in {"pending", "running"}
PollsDropped == snap' = IF snap.kind = "poll" THEN NoSnap ELSE snap

\* blocked
Blocked == gbusy \/ cfiles[target].phase = "extracting"
Editable == g.file # NoGateFile /\ cfiles[target].phase = "preview" /\ ~ gbusy

-----------------------------------------------------------------------------
SetBox(bx, v) == [f |-> g.file, p |-> g.page, v |-> v]

\* addBox, mergeWithNeighbor, rotateBox90, deleteBox through persistActiveBoxes
EditBoxes ==
  /\ Editable
  /\ \E v \in {0, g.bx.v + 1} :
       /\ v <= MaxEdit[g.file]
       /\ Shows([g EXCEPT !.bx = SetBox(g.bx, v), !.ents[g.page].bx = SetBox(g.bx, v)])
  /\ UNCHANGED <<cfiles, sfiles, target, gbusy, conf, snap>>

\* A drag moves the boxes only (updateBoxNorm) ...
DragBox ==
  /\ Editable /\ g.bx.v \in 1..(MaxEdit[g.file] - 1)
  /\ Shows([g EXCEPT !.bx.v = @ + 1])
  /\ UNCHANGED <<cfiles, sfiles, target, gbusy, conf, snap>>

\* ... and its end flushes them into the page entries
DropBox ==
  /\ Editable /\ g.ents[g.page].bx # g.bx
  /\ Shows([g EXCEPT !.ents[g.page].bx = g.bx])
  /\ UNCHANGED <<cfiles, sfiles, target, gbusy, conf, snap>>

\* The page entries with the boxes on screen saved into the active page
SavedPages(gg) == [gg.ents EXCEPT ![gg.page].bx = gg.bx]

\* switchToPage: thumbs and keys work even while the gate is blocked
SwitchPage(p) ==
  /\ g.file # NoGateFile /\ p # g.page
  /\ LET ents == SavedPages(g)
     IN Shows([g EXCEPT !.ents = ents, !.bx = OnPage(ents[p].bx, p), !.page = p])
  /\ UNCHANGED <<cfiles, sfiles, target, gbusy, conf, snap>>

\* (bug) the open file is not stashed
NotStashed(gg) == gg

\* stashActiveFile
Stashed(gg) == [gg EXCEPT !.mem[gg.file] = [page |-> gg.page, ents |-> SavedPages(gg), bx |-> gg.bx]]

\* switchToFile
SwitchFile(f) ==
  /\ g.file # NoGateFile /\ f # target /\ ~ Blocked /\ f \in Gated(cfiles)
  /\ target' = f
  /\ g' = Synced(Stashed(g), cfiles, f)
  /\ seen' = SeenOf(seen, g', cfiles)
  /\ UNCHANGED <<cfiles, sfiles, gbusy, conf, snap>>

\* countPendingPages without the active page
OtherPending == {p \in GPage \ {g.page} : g.ents[p].st # "confirmed"}

\* isLastUnconfirmed
LastUnconfirmed == MaxPage = 1 \/ (g.ents[g.page].st # "confirmed" /\ OtherPending = {})

\* nextPendingPage, after the active page first: no page or one
NextPending(ents) ==
  LET open == {p \in GPage : ents[p].st # "confirmed"}
      later == {p \in open : p > g.page}
      from == IF later # {} THEN later ELSE open
  IN {p \in from : \A q \in from : p <= q}

\* confirmPageInSet
ConfirmedPages == [SavedPages(g) EXCEPT ![g.page].st = "confirmed"]

\* The click extracts once no page is left to be confirmed
Sends == NextPending(ConfirmedPages) = {} \/ LastUnconfirmed

\* applyCropConfirmOptimisticRun
Optimistic(f) == [cfiles EXCEPT ![f].status = "running", ![f].phase = "extracting",
                                ![f].needs = FALSE]

\* handleConfirmClick, and handleCropGateConfirm with boxesForApi(allBoxesFromPages)
ConfirmClick ==
  /\ g.file # NoGateFile /\ ~ Blocked /\ g.bx.v # 0
  /\ IF Sends
     THEN /\ target \in Sendable /\ gbusy' = TRUE
          /\ conf' = [kind |-> "confirm", f |-> target, st |-> "sent",
                      boxes |-> [p \in GPage |-> ConfirmedPages[p].bx]]
          /\ LET F == Optimistic(target) IN
               /\ cfiles' = F /\ UNCHANGED target
               /\ g' = Synced([g EXCEPT !.ents = ConfirmedPages], F, target)
               /\ seen' = SeenOf(seen, g', F)
          /\ PollsDropped
     ELSE /\ \E p \in NextPending(ConfirmedPages) :
               Shows([g EXCEPT !.ents = ConfirmedPages, !.page = p,
                               !.bx = OnPage(ConfirmedPages[p].bx, p)])
          /\ UNCHANGED <<gbusy, conf, cfiles, target, snap>>
  /\ UNCHANGED sfiles

\* handleSkipClick with handleCropGateSkip: no boxes are sent
SkipClick ==
  /\ target \in Sendable /\ ~ Blocked
  /\ gbusy' = TRUE
  /\ conf' = [kind |-> "skip", f |-> target, st |-> "sent"]
  /\ Arrives(Optimistic(target)) /\ PollsDropped
  /\ UNCHANGED sfiles

\* handleCropGateCancel
CancelClick ==
  /\ target \in Sendable /\ ~ Blocked
  /\ gbusy' = TRUE
  /\ conf' = [kind |-> "cancel", f |-> target, st |-> "sent"]
  /\ UNCHANGED <<cfiles, sfiles, target, g, snap, seen>>

\* The answer carries the whole run and is applied by force
ConfAnswered ==
  /\ conf # NoConf /\ conf.st = "done"
  /\ Arrives(NormalizedRun(sfiles))
  /\ gbusy' = FALSE /\ conf' = NoConf /\ PollsDropped
  /\ UNCHANGED sfiles

\* A failed confirm or skip asks for the run; a failed cancel only reports
ConfLost ==
  /\ conf # NoConf
  /\ gbusy' = FALSE /\ conf' = NoConf
  /\ IF conf.kind = "cancel" THEN UNCHANGED <<cfiles, target, g, seen, snap>>
     ELSE Arrives(NormalizedRun(sfiles)) /\ PollsDropped
  /\ UNCHANGED sfiles

\* A poll of a run that is executing is answered ...
PollRun ==
  /\ Executing(cfiles)
  /\ Arrives(NormalizedRun(sfiles))
  /\ UNCHANGED <<sfiles, gbusy, conf, snap>>

\* ... or was read before the backend took a confirmation, and arrives later
PollOvertakes ==
  /\ Executing(cfiles) /\ snap = NoSnap /\ conf # NoConf /\ conf.st = "sent"
  /\ snap' = [kind |-> "poll", files |-> sfiles]
  /\ UNCHANGED <<cfiles, sfiles, target, g, gbusy, conf, seen>>

SnapArrives ==
  /\ snap # NoSnap
  /\ Arrives(NormalizedRun(snap.files))
  /\ snap' = NoSnap
  /\ UNCHANGED <<sfiles, gbusy, conf>>

-----------------------------------------------------------------------------
\* The backend: detection brings a file to the gate ...
DetectCrops(f) ==
  /\ sfiles[f].phase = "none"
  /\ sfiles' = [sfiles EXCEPT ![f] = [@ EXCEPT !.status = "warning", !.phase = "preview", !.needs = TRUE]]
  /\ UNCHANGED <<cfiles, target, g, gbusy, conf, snap, seen>>

\* ... a confirmed or skipped file is extracted; a cancelled one has no preview to show any
\* more (the server marks it pending, its run waits for review) ...
TakeConf ==
  /\ conf # NoConf /\ conf.st = "sent"
  /\ IF conf.kind = "cancel"
     THEN /\ sfiles' = [sfiles EXCEPT ![conf.f].phase = "done", ![conf.f].needs = FALSE]
          /\ conf' = [conf EXCEPT !.st = "done"]
     ELSE /\ sfiles' = [sfiles EXCEPT ![conf.f].status = "running", ![conf.f].phase = "extracting",
                                      ![conf.f].needs = FALSE]
          /\ conf' = [kind |-> conf.kind, f |-> conf.f, st |-> "live"]
  /\ UNCHANGED <<cfiles, target, g, gbusy, snap, seen>>

\* ... and the extraction ends or is interrupted, with the old phase left behind
EndExtract(f) ==
  /\ sfiles[f].status = "running"
  /\ \E st \in {"ok", "stopped"} : sfiles' = [sfiles EXCEPT ![f].status = st]
  /\ conf' = IF conf # NoConf /\ conf.f = f /\ conf.st = "live" THEN [conf EXCEPT !.st = "done"] ELSE conf
  /\ UNCHANGED <<cfiles, target, g, gbusy, snap, seen>>

GateNext ==
  \/ EditBoxes \/ DragBox \/ DropBox \/ ConfirmClick \/ SkipClick \/ CancelClick
  \/ \E p \in GPage : SwitchPage(p)
  \/ \E f \in GateFile : SwitchFile(f) \/ DetectCrops(f) \/ EndExtract(f)
  \/ ConfAnswered \/ ConfLost \/ PollRun \/ PollOvertakes \/ SnapArrives \/ TakeConf

GateSpec == GateInit /\ [][GateNext]_gvars

-----------------------------------------------------------------------------

\* While a file waits at the gate, no edit of a page is lost, whichever pages,
\* files and polls come in between (fileMemoryRef, the bootstrap key)
NoEditLost ==
  g.file # NoGateFile /\ cfiles[g.file].phase = "preview" =>
    \A p \in GPage : (IF p = g.page THEN g.bx ELSE g.ents[p].bx) = seen[g.file][p]

=============================================================================
