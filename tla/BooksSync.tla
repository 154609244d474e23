----------------------------- MODULE BooksSync -----------------------------
(***************************************************************************)
(* syncModulesToRecon.ts: the rows of the Books modules are mirrored into  *)
(* the pool of the reconciliation screen.  One sync reads the modules and  *)
(* the pool, deletes from the pool what Books does not have, imports what  *)
(* is missing and writes the match back into the modules; every one of     *)
(* these is a request of its own, sent while the user matches, saves and   *)
(* changes company.                                                        *)
(*                                                                         *)
(* A row is known by its dedup key.  The modules are read for the company  *)
(* the sync was started for; the reconciliation requests carry no company  *)
(* and go to the one that is active when they are sent (withScopeHeaders). *)
(***************************************************************************)
EXTENDS Naturals, FiniteSets

CONSTANTS Entity,      \* companies
          Key,
          Slot,        \* syncs that may run at the same time
          MaxId,       \* bound on the ids the backend gives out
          MaxMoves     \* bound on what the user does

ASSUME SyncAssumption == /\ Entity # {} /\ Slot # {} /\ IsFiniteSet(Key)
                         /\ MaxId \in Nat /\ MaxMoves \in Nat

VARIABLES modules,   \* per company: the keys of the rows in Books
          locked,    \* per company: the keys that carry a matched_id in Books
          poolOf,    \* per company: the bank and ledger rows of Recon
          current,   \* the active company
          syncs,     \* the syncs in flight
          mirrored,  \* history: the companies whose pool was last written by a sync that no other overtook
          nextRowId, moves

svars == <<modules, locked, poolOf, current, syncs, mirrored, nextRowId, moves>>

NewRow(i, k) == [id |-> i, k |-> k, st |-> "unreconciled"]
KeysOf(R) == {r.k : r \in R}
WithStatus(R, st) == {r \in R : r.st = st}
NoSync == [st |-> "free", co |-> "", books |-> FALSE, pool |-> FALSE, home |-> FALSE,
           keys |-> {}, db |-> {}, matched |-> {}, rows |-> {}]

SyncInit ==
  /\ modules \in [Entity -> {Key}] /\ locked = [c \in Entity |-> {}]
  /\ poolOf = [c \in Entity |-> {}] /\ current \in Entity
  /\ syncs = [s \in Slot |-> NoSync] /\ mirrored = {}
  /\ nextRowId = 1 /\ moves = 0

Move == moves < MaxMoves /\ moves' = moves + 1

-----------------------------------------------------------------------------
\* selectUnreconciledOrphanIds: keys Books does not have, and all but the first row of a key
Orphans(R, K) ==
  IF K = {} THEN {}
  ELSE {r \in WithStatus(R, "unreconciled") :
          r.k \notin K \/ \E q \in WithStatus(R, "unreconciled") : q.k = r.k /\ q.id < r.id}

\* (bug) whatever is matched is kept
KeepEveryMatch(R, K) ==
  {r.id : r \in {q \in R : q.st = "matched" \/ (q.k \in K /\ q \notin Orphans(R, K))}}

\* selectKeepIdsForModuleSync
KeepIds(R, K) ==
  {r.id : r \in {q \in R : q.k \in K /\ (q.st = "matched" \/ q \notin Orphans(R, K))}}

\* the keys syncModulesToRecon imports: those that were not matched when the pool was read
Pending(x) == x.keys \ KeysOf(WithStatus(x.db, "matched"))

\* bank-import and ledger-import refresh an unreconciled row of the key or add one
Missing(R, K) == {k \in K : k \notin KeysOf(WithStatus(R, "unreconciled"))}

-----------------------------------------------------------------------------
Becomes(s, x) == syncs' = [syncs EXCEPT ![s] = x]
\* ... after a request that writes the pool: the others that read this pool read an older one
Overtaken(x) == IF x.co = current THEN [x EXCEPT !.home = FALSE] ELSE x
Writes(s, x) == syncs' = [t \in Slot |-> IF t = s THEN x ELSE Overtaken(syncs[t])]

\* saveAll of a module stores at once, whatever is in flight (the sync it awaits afterwards is
\* a StartSync).  The marks are those the screen loaded, perhaps before they were written; a row
\* it shows as matched stays.
SaveModule ==
  \E c \in Entity, K \in SUBSET Key : \E L \in {locked[c], {}} :
    /\ L \subseteq K /\ K # modules[c]
    /\ modules' = [modules EXCEPT ![c] = K] /\ locked' = [locked EXCEPT ![c] = L]
    /\ mirrored' = mirrored \ {c} /\ Move
    /\ UNCHANGED <<poolOf, current, syncs, nextRowId>>

\* the syncs of a save, of a reload and of every match (which nobody awaits), each for the
\* company of the screen that started it
StartSync ==
  \E s \in Slot, c \in Entity :
    /\ syncs[s] = NoSync /\ Becomes(s, [NoSync EXCEPT !.st = "reading", !.co = c]) /\ Move
    /\ UNCHANGED <<modules, locked, poolOf, current, mirrored, nextRowId>>

\* a match is recorded or cancelled
Flipped(r) == [r EXCEPT !.st = IF r.st = "matched" THEN "unreconciled" ELSE "matched"]
MatchRow ==
  \E r \in poolOf[current] :
    /\ poolOf' = [poolOf EXCEPT ![current] = (@ \ {r}) \cup {Flipped(r)}]
    /\ Move /\ UNCHANGED <<modules, locked, current, syncs, mirrored, nextRowId>>

SwitchEntity ==
  \E c \in Entity \ {current} :
    current' = c /\ Move /\ UNCHANGED <<modules, locked, poolOf, syncs, mirrored, nextRowId>>

-----------------------------------------------------------------------------
BothRead(x) == IF x.books /\ x.pool THEN [x EXCEPT !.st = "wiping"] ELSE x

\* collectModuleBankRows, collectModuleLedgerRows
ReadModules(s) ==
  LET x == syncs[s] IN
  /\ x.st = "reading" /\ ~ x.books
  /\ Becomes(s, BothRead([x EXCEPT !.keys = modules[x.co], !.books = TRUE]))
  /\ UNCHANGED <<modules, locked, poolOf, current, mirrored, nextRowId, moves>>

\* getBankTransactions, getLedgerTransactions
ReadPool(s) ==
  LET x == syncs[s] IN
  /\ x.st = "reading" /\ ~ x.pool
  /\ Becomes(s, BothRead([x EXCEPT !.db = poolOf[current], !.pool = TRUE, !.home = (current = x.co)]))
  /\ UNCHANGED <<modules, locked, poolOf, current, mirrored, nextRowId, moves>>

\* purgeExceptKept deletes rows of any status; mirrored waits for the import
Wipe(s) ==
  LET x == syncs[s] IN
  /\ x.st = "wiping"
  /\ poolOf' = [poolOf EXCEPT ![current] = {r \in @ : r.id \in KeepIds(x.db, x.keys)}]
  /\ Writes(s, [x EXCEPT !.st = "importing", !.home = @ /\ current = x.co])
  /\ mirrored' = mirrored \ {current}
  /\ UNCHANGED <<modules, locked, current, nextRowId, moves>>

\* the endpoint failed: clearUnreconciledPool, or nothing is wiped
WipeFallback(s) ==
  LET x == syncs[s] IN
  /\ x.st = "wiping"
  /\ \/ poolOf' = [poolOf EXCEPT ![current] = WithStatus(@, "matched")]
     \/ UNCHANGED poolOf
  /\ Writes(s, [x EXCEPT !.st = "importing", !.home = FALSE])
  /\ mirrored' = mirrored \ {current}
  /\ UNCHANGED <<modules, locked, current, nextRowId, moves>>

\* importBankTransactions, importLedgerTransactions
Import(s) ==
  LET x == syncs[s]
      new == Missing(poolOf[current], Pending(x)) IN
  /\ x.st = "importing" /\ nextRowId + Cardinality(new) <= MaxId
  /\ \E f \in [new -> nextRowId .. (nextRowId + Cardinality(new) - 1)] :
       /\ \A j, k \in new : f[j] = f[k] => j = k
       /\ poolOf' = [poolOf EXCEPT ![current] = @ \cup {NewRow(f[k], k) : k \in new}]
  /\ nextRowId' = nextRowId + Cardinality(new)
  /\ Writes(s, [NoSync EXCEPT !.st = "rereading", !.co = x.co])
  /\ mirrored' = IF x.home /\ x.co = current /\ x.keys = modules[current]
                 THEN mirrored \cup {current} ELSE mirrored \ {current}
  /\ UNCHANGED <<modules, locked, current, moves>>

\* the pool is read again for persistExistingAccountCategories and writeMatchedIdToModules
Reread(s) ==
  /\ syncs[s].st = "rereading"
  /\ Becomes(s, [syncs[s] EXCEPT !.st = "loading",
                                 !.matched = KeysOf(WithStatus(poolOf[current], "matched"))])
  /\ UNCHANGED <<modules, locked, poolOf, current, mirrored, nextRowId, moves>>

\* writeMatchedIdToModules loads a batch ...
LoadPayload(s) ==
  LET x == syncs[s] IN
  /\ x.st = "loading"
  /\ Becomes(s, [x EXCEPT !.st = "writing", !.rows = modules[x.co]])
  /\ UNCHANGED <<modules, locked, poolOf, current, mirrored, nextRowId, moves>>

\* ... and stores the whole of it if a matched_id or a pool id changed, over a later save
WriteBack(s) ==
  LET x == syncs[s]
      now == x.rows \cap x.matched IN
  /\ x.st = "writing"
  /\ \/ now = locked[x.co] /\ UNCHANGED <<modules, locked, mirrored>>
     \/ /\ modules' = [modules EXCEPT ![x.co] = x.rows]
        /\ locked' = [locked EXCEPT ![x.co] = now]
        /\ mirrored' = IF x.rows = modules[x.co] THEN mirrored ELSE mirrored \ {x.co}
  /\ Becomes(s, NoSync)
  /\ UNCHANGED <<poolOf, current, nextRowId, moves>>

\* a request of the sync failed: the rest does not happen
SyncLost(s) ==
  /\ syncs[s] # NoSync /\ Becomes(s, NoSync)
  /\ UNCHANGED <<modules, locked, poolOf, current, mirrored, nextRowId, moves>>

SyncStep(s) == \/ ReadModules(s) \/ ReadPool(s) \/ Wipe(s) \/ WipeFallback(s) \/ Import(s)
               \/ Reread(s) \/ LoadPayload(s) \/ WriteBack(s) \/ SyncLost(s)
SyncNext == SaveModule \/ StartSync \/ MatchRow \/ SwitchEntity \/ \E s \in Slot : SyncStep(s)
SyncSpec == SyncInit /\ [][SyncNext]_svars

-----------------------------------------------------------------------------
\* After a sync that read, purged and imported the pool of its own company with no other sync
\* writing that pool in between, and until Books changes or a sync writes again, Recon has
\* exactly the rows of Books, however the user matched, cancelled, saved and changed company
\* and whatever other syncs had read by then ("Make recon DB mirror Books modules (source of
\* truth for which rows exist)").
BooksMirrored == \A c \in mirrored : KeysOf(poolOf[c]) = modules[c]

=============================================================================
