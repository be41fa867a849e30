------------------------------ MODULE DiskCache ------------------------------
(***************************************************************************)
(* The cache directory, shared by every Sorbet process that is given it.   *)
(* It holds a name table and, per file, a tree whose names are indices     *)
(* into it: a tree can be read only by a process whose own name table      *)
(* extends the one the tree was written with.  A process loads the name    *)
(* table with its UUID, lets go of the store, and from then on uses or     *)
(* writes it only if the UUID is still the one it knows.  A server copies  *)
(* the store for its session, and reads that copy in every slow path.      *)
(*                                                                         *)
(* The store is an LMDB environment: one writer among all processes, who   *)
(* sees its own copy until it commits; a process that dies loses the copy  *)
(* and the lock.  A name table is the sequence of its extensions; two that *)
(* grew apart have no common extension.  UUIDs do not repeat.              *)
(***************************************************************************)
EXTENDS Naturals, Sequences

CONSTANTS
  Processes,  \* process ids
  Versions,   \* sorbet_full_version_string and the options that affect the cache
  Files,
  MaxRuns,    \* bound: processes started
  MaxRounds   \* bound: strata of packages, or slow paths, of a process

ASSUME ProcessesAssumption == "nobody" \notin Processes

VARIABLES
  shared,    \* the store in the cache directory
  sessions,  \* session directories: process id -> store or NoStore
  writer,    \* who holds the write transaction on the shared store
  pc, kind, version,  \* of each process
  ret,       \* where OwnedKeyValueStore's constructor returns to
  txn,       \* its copy of the store while it is the writer
  usable,    \* whether its kvstore is there (not nullptr)
  table,     \* GlobalState's name table
  kvstoreUuid, modified,
  unsaved,   \* files parsed without errors since the cache was last written
  doomed,    \* session directories it found to be of dead processes
  rounds, runs, clock

storeVars == <<shared, sessions, writer>>
stateVars == <<table, kvstoreUuid, modified, unsaved>>
runVars == <<kind, version, doomed, runs>>
vars == <<storeVars, pc, ret, txn, usable, stateVars, rounds, clock, runVars>>

NoStore == [kind |-> "none"]
Nobody == "nobody"  \* of the writers
NoVersion == "noversion"
Empty == [version |-> NoVersion, uuid |-> 0, table |-> <<>>, trees |-> {}]

Init ==
  /\ shared = Empty /\ sessions = [p \in Processes |-> NoStore] /\ writer = Nobody
  /\ pc = [p \in Processes |-> "missing"] /\ ret = [p \in Processes |-> "missing"]
  /\ kind = [p \in Processes |-> "batch"]
  /\ version \in [Processes -> Versions]
  /\ txn = [p \in Processes |-> Empty]
  /\ usable = [p \in Processes |-> FALSE]
  /\ table = [p \in Processes |-> <<>>]
  /\ kvstoreUuid = [p \in Processes |-> 0]
  /\ modified = [p \in Processes |-> FALSE]
  /\ unsaved = [p \in Processes |-> {}]
  /\ doomed = [p \in Processes |-> {}]
  /\ rounds = [p \in Processes |-> 0] /\ runs = 0 /\ clock = 0

goto(p, place) == pc' = [pc EXCEPT ![p] = place]
call(p, place) == goto(p, "check") /\ ret' = [ret EXCEPT ![p] = place]

\* Mutant: the write transaction is left open.
neverAborts(p) ==
  /\ writer' = writer
  /\ txn' = [txn EXCEPT ![p] = Empty]

\* The transaction ends; what it wrote is gone unless it was committed.
release(p) ==
  /\ writer' = IF writer = p THEN Nobody ELSE writer
  /\ txn' = [txn EXCEPT ![p] = Empty]

\* The memory of a process goes with it.
gone(p) ==
  /\ release(p)
  /\ goto(p, "missing")
  /\ ret' = [ret EXCEPT ![p] = "missing"]
  /\ kind' = [kind EXCEPT ![p] = "batch"]
  /\ doomed' = [doomed EXCEPT ![p] = {}]
  /\ usable' = [usable EXCEPT ![p] = FALSE]
  /\ table' = [table EXCEPT ![p] = <<>>]
  /\ kvstoreUuid' = [kvstoreUuid EXCEPT ![p] = 0]
  /\ modified' = [modified EXCEPT ![p] = FALSE]
  /\ unsaved' = [unsaved EXCEPT ![p] = {}]
  /\ rounds' = [rounds EXCEPT ![p] = 0]

-----------------------------------------------------------------------------
(***************************************************************************)
(* OwnedKeyValueStore.  The constructor opens, checks and commits, and     *)
(* opens again: between the two anybody may write.                         *)
(***************************************************************************)
checkVersions(p) ==
  /\ pc[p] = "check" /\ writer = Nobody
  /\ shared' = IF shared.version = version[p] THEN shared ELSE Empty
  /\ goto(p, "acquire")
  /\ UNCHANGED <<sessions, writer, ret, txn, usable, stateVars, rounds, clock, runVars>>

acquire(p) ==
  /\ pc[p] = "acquire" /\ writer = Nobody
  /\ writer' = p
  /\ txn' = [txn EXCEPT ![p] = IF shared.version = NoVersion
                                 THEN [shared EXCEPT !.version = version[p]] ELSE shared]
  /\ goto(p, ret[p]) /\ ret' = [ret EXCEPT ![p] = "missing"]
  /\ UNCHANGED <<shared, sessions, usable, stateVars, rounds, clock, runVars>>

\* bestEffortCommit: the commit may fail, silently.
bestEffortCommit(p, store) ==
  /\ shared' \in {store, shared}
  /\ release(p)
  /\ UNCHANGED sessions

-----------------------------------------------------------------------------
(***************************************************************************)
(* A process starts: it removes session directories of processes that are  *)
(* gone (SessionCache::reapOldCaches), creates the store, commits the      *)
(* version, and loads the name table (createInitialGlobalState).           *)
(***************************************************************************)
startProcess(p, k) ==
  /\ pc[p] = "missing" /\ runs < MaxRuns
  /\ runs' = runs + 1
  /\ kind' = [kind EXCEPT ![p] = k]
  /\ doomed' = [doomed EXCEPT ![p] =
       {q \in Processes : sessions[q] # NoStore /\ pc[q] = "missing" /\ q # p}]
  /\ usable' = [usable EXCEPT ![p] = TRUE]
  /\ goto(p, "reap")
  /\ UNCHANGED <<storeVars, ret, txn, stateVars, rounds, clock, version>>

reapOldCaches(p) ==
  /\ pc[p] = "reap"
  /\ sessions' = [q \in Processes |-> IF q \in doomed[p] THEN NoStore ELSE sessions[q]]
  /\ doomed' = [doomed EXCEPT ![p] = {}]
  /\ call(p, "created")
  /\ UNCHANGED <<shared, writer, txn, usable, stateVars, rounds, clock, kind, version, runs>>

commitVersion(p) ==
  /\ pc[p] = "created"
  /\ bestEffortCommit(p, txn[p])
  /\ call(p, "load")
  /\ UNCHANGED <<usable, stateVars, rounds, clock, runVars>>

\* The server aborts here and owns the store again when it initializes.
loadNameTable(p) ==
  /\ pc[p] = "load"
  /\ table' = [table EXCEPT ![p] = txn[p].table]
  /\ kvstoreUuid' = [kvstoreUuid EXCEPT ![p] = txn[p].uuid]
  /\ \/ kind[p] = "batch" /\ goto(p, "index") /\ UNCHANGED <<ret, writer, txn>>
     \/ kind[p] = "server" /\ call(p, "verify") /\ release(p)
  /\ UNCHANGED <<shared, sessions, usable, modified, unsaved, rounds, clock, runVars>>

\* Mutant: only an empty cache counts as changed.
changedOnlyIfEmpty(p) == txn[p].uuid = 0 /\ kvstoreUuid[p] # 0

kvstoreChangedSinceGsCreation(p) == txn[p].uuid # kvstoreUuid[p]

\* Mutant: the store is used again without a look at the UUID.
ownAnyway(p, place) ==
  /\ UNCHANGED <<usable, writer, txn>>
  /\ goto(p, place)

ownIfUnchanged(p, place) ==
  /\ \/ kvstoreChangedSinceGsCreation(p) /\ usable' = [usable EXCEPT ![p] = FALSE] /\ release(p)
     \/ ~kvstoreChangedSinceGsCreation(p) /\ UNCHANGED <<usable, writer, txn>>
  /\ goto(p, place)

verify(p) ==
  /\ pc[p] = "verify"
  /\ ownIfUnchanged(p, "index")
  /\ UNCHANGED <<shared, sessions, ret, stateVars, rounds, clock, runVars>>

-----------------------------------------------------------------------------
(***************************************************************************)
(* A round of indexing: files that are not cached are parsed, which enters *)
(* names; then maybeCacheGlobalStateAndFiles.                              *)
(***************************************************************************)
cachedIn(store, S) == {f \in S : \E t \in store.trees : t.file = f}

parse(p, S) ==
  /\ table' = [table EXCEPT ![p] = IF S = {} THEN @ ELSE Append(@, clock + 1)]
  /\ modified' = [modified EXCEPT ![p] = @ \/ S # {}]
  /\ clock' = IF S = {} THEN clock ELSE clock + 1

index(p, S) ==
  /\ pc[p] = "index" /\ usable[p]
  /\ LET parsed == S \ cachedIn(txn[p], S)
     IN  /\ parse(p, parsed)
         /\ \E clean \in SUBSET parsed : unsaved' = [unsaved EXCEPT ![p] = clean]  \* no index errors
  /\ release(p)  \* abort
  /\ call(p, "retain")
  /\ UNCHANGED <<shared, sessions, usable, kvstoreUuid, rounds, runVars>>

indexWithoutCache(p, S) ==
  /\ pc[p] = "index" /\ ~usable[p]
  /\ parse(p, S)
  /\ goto(p, "indexed")
  /\ UNCHANGED <<storeVars, ret, txn, usable, unsaved, kvstoreUuid, rounds, runVars>>

\* What retainGlobalState and cacheTreesAndFiles write; a new UUID if there
\* are new names.
writtenStore(p) ==
  [version |-> txn[p].version,
   uuid    |-> IF modified[p] THEN clock + 1 ELSE txn[p].uuid,
   table   |-> IF modified[p] THEN table[p] ELSE txn[p].table,
   trees   |-> {t \in txn[p].trees : t.file \notin unsaved[p]}
                 \cup {[file |-> f, names |-> table[p]] : f \in unsaved[p]}]

retainGlobalState(p) ==
  /\ pc[p] = "retain" /\ ~kvstoreChangedSinceGsCreation(p)
  /\ bestEffortCommit(p, writtenStore(p))
  /\ kvstoreUuid' = [kvstoreUuid EXCEPT ![p] = writtenStore(p).uuid]
  /\ clock' = IF modified[p] THEN clock + 1 ELSE clock
  /\ unsaved' = [unsaved EXCEPT ![p] = {}]
  /\ call(p, "indexed")
  /\ UNCHANGED <<usable, table, modified, rounds, runVars>>

\* Somebody else wrote, or hadCriticalError.
dontRetain(p) ==
  /\ pc[p] = "retain"
  /\ release(p)
  /\ unsaved' = [unsaved EXCEPT ![p] = {}]
  /\ call(p, "indexed")
  /\ UNCHANGED <<shared, sessions, usable, table, kvstoreUuid, modified, rounds, clock, runVars>>

afterRound(p) == IF kind[p] = "server" THEN "copy" ELSE "finish"

\* After the round the store is owned again, if unchanged, for the next one.
reown(p) ==
  /\ pc[p] = "indexed" /\ usable[p]
  /\ \/ rounds[p] < MaxRounds /\ rounds' = [rounds EXCEPT ![p] = @ + 1] /\ ownIfUnchanged(p, "index")
     \/ ownIfUnchanged(p, afterRound(p)) /\ UNCHANGED rounds
  /\ UNCHANGED <<shared, sessions, ret, stateVars, clock, runVars>>

goOnWithoutCache(p) ==
  /\ pc[p] = "indexed" /\ ~usable[p]
  /\ \/ rounds[p] < MaxRounds /\ rounds' = [rounds EXCEPT ![p] = @ + 1] /\ goto(p, "index")
     \/ goto(p, afterRound(p)) /\ UNCHANGED rounds
  /\ UNCHANGED <<storeVars, ret, txn, usable, stateVars, clock, runVars>>

-----------------------------------------------------------------------------
(***************************************************************************)
(* SessionCache::make: copyTo ends the transaction and then copies.  The   *)
(* slow paths read the copy, if it is there and has a name table.          *)
(***************************************************************************)
closeShared(p) ==
  /\ pc[p] = "copy"
  /\ release(p)
  /\ goto(p, IF usable[p] THEN "closed" ELSE "serve")
  /\ sessions' = IF usable[p] THEN [sessions EXCEPT ![p] = NoStore] ELSE sessions
  /\ UNCHANGED <<shared, ret, usable, stateVars, rounds, clock, runVars>>

copyTo(p) ==
  /\ pc[p] = "closed"
  /\ sessions' = [sessions EXCEPT ![p] = shared]
  /\ goto(p, "serve")
  /\ UNCHANGED <<shared, writer, ret, txn, usable, stateVars, rounds, clock, runVars>>

opens(p) == usable[p] /\ sessions[p] # NoStore /\ sessions[p].table # <<>>

slowPath(p, S) ==
  /\ pc[p] = "serve" /\ rounds[p] < MaxRounds
  /\ rounds' = [rounds EXCEPT ![p] = @ + 1]
  /\ parse(p, IF opens(p) THEN S \ cachedIn(sessions[p], S) ELSE S)
  /\ UNCHANGED <<storeVars, pc, ret, txn, usable, unsaved, kvstoreUuid, runVars>>

\* ~SessionCache and ~KeyValueStore.
exit(p) ==
  /\ pc[p] \in {"serve", "finish"}
  /\ sessions' = IF pc[p] = "serve" /\ usable[p] THEN [sessions EXCEPT ![p] = NoStore] ELSE sessions
  /\ gone(p)
  /\ UNCHANGED <<shared, version, runs, clock>>

\* The process is killed: LMDB frees its lock, its session directory stays.
die(p) ==
  /\ pc[p] # "missing"
  /\ gone(p)
  /\ UNCHANGED <<shared, sessions, version, runs, clock>>

-----------------------------------------------------------------------------
work(p) ==
  \/ reapOldCaches(p) \/ checkVersions(p) \/ acquire(p) \/ commitVersion(p) \/ loadNameTable(p)
  \/ verify(p) \/ retainGlobalState(p) \/ dontRetain(p) \/ reown(p) \/ goOnWithoutCache(p)
  \/ closeShared(p) \/ copyTo(p) \/ exit(p)
  \/ \E S \in SUBSET Files : index(p, S) \/ indexWithoutCache(p, S) \/ slowPath(p, S)

Next ==
  \E p \in Processes : work(p) \/ die(p) \/ \E k \in {"batch", "server"} : startProcess(p, k)

\* A process that is not killed goes on, and LMDB's lock goes to who waits.
Spec == Init /\ [][Next]_vars /\ \A p \in Processes : WF_vars(work(p))

-----------------------------------------------------------------------------
Extends(new, old) == Len(old) <= Len(new) /\ \A i \in 1 .. Len(old) : new[i] = old[i]

readable(store, names) == \A t \in store.trees : Extends(names, t.names)

(***************************************************************************)
(* Whatever is killed, or fails to commit, when: the trees in the cache    *)
(* were written with a name table that the one in the cache extends        *)
(* (cache.cc:72-108).                                                      *)
(***************************************************************************)
SharedCacheIsConsistent == readable(shared, shared.table)

(***************************************************************************)
(* A process that indexes with the shared cache can read every tree in it: *)
(* its names extend those of the trees (cache.cc:179-191).                 *)
(***************************************************************************)
IndexReadsOwnNames == \A p \in Processes : pc[p] = "index" /\ usable[p] => readable(txn[p], table[p])

(***************************************************************************)
(* The write lock is never lost: a process that owns the store is the one  *)
(* writer, and every process that is not killed ends, none waiting for     *)
(* ever on the lock of another (KeyValueStore.cc:421-464).                 *)
(***************************************************************************)
EveryProcessEnds == \A p \in Processes : []<>(pc[p] = "missing")

(***************************************************************************)
(* The constructor's "checkVersions should have guaranteed this"           *)
(* (KeyValueStore.cc:156): a store that is owned has its owner's version.  *)
(***************************************************************************)
OwnedStoreHasMyVersion ==
  \A p \in Processes : writer = p => txn[p].version = version[p]

(***************************************************************************)
(* A server's session copy "ensures that the name table present in the     *)
(* kvstore will not change" (cache.h:48-52): its trees are readable by the *)
(* server it was made for.                                                 *)
(***************************************************************************)
SessionReadsOwnNames ==
  \A p \in Processes : pc[p] = "serve" /\ opens(p) => readable(sessions[p], table[p])
=============================================================================
