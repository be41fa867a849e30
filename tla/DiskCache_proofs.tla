--------------------------- MODULE DiskCache_proofs ---------------------------
(***************************************************************************)
(* The shared cache stays consistent, and is read only by processes whose  *)
(* names it has, for any number of processes, versions, files, runs and    *)
(* rounds.  UUIDs carry the argument: one is given to one name table, so a *)
(* process that finds the UUID it knows has a table that extends the one   *)
(* in the cache.                                                           *)
(***************************************************************************)
EXTENDS DiskCache, TLAPS

Names == Seq(Nat)
Trees == SUBSET [file : Files, names : Names]
Store == [version : Versions \cup {NoVersion}, uuid : Nat, table : Names, trees : Trees]

\* Where a process is when it owns the store, and where it waits to.
Owning == {"created", "load", "verify", "retain"}
Waiting == {"check", "acquire"}
Using == {"index", "indexed"}

Typed ==
  /\ shared \in Store /\ txn \in [Processes -> Store]
  /\ version \in [Processes -> Versions]
  /\ clock \in Nat /\ kvstoreUuid \in [Processes -> Nat]
  /\ table \in [Processes -> Names]
  /\ unsaved \in [Processes -> SUBSET Files]
  /\ DOMAIN modified = Processes /\ DOMAIN usable = Processes
  /\ DOMAIN pc = Processes /\ DOMAIN ret = Processes

\* Which places have the lock.
Locked ==
  \A p \in Processes :
    /\ pc[p] \in Owning => writer = p
    /\ pc[p] \in Using /\ usable[p] => writer = p
    /\ pc[p] \in Waiting => ret[p] \in Owning \cup {"indexed"}
    /\ pc[p] = "index" /\ usable[p] => kvstoreUuid[p] = txn[p].uuid

\* The writer's copy has the names and trees of the store.
Copied ==
  \A p \in Processes : writer = p =>
    txn[p].uuid = shared.uuid /\ txn[p].table = shared.table /\ txn[p].trees = shared.trees

\* A UUID stands for one name table.
Stamped ==
  /\ shared.uuid <= clock
  /\ shared.uuid = 0 => shared.table = <<>>
  /\ \A p \in Processes :
       /\ kvstoreUuid[p] <= clock
       /\ kvstoreUuid[p] = shared.uuid => Extends(table[p], shared.table)
       /\ unsaved[p] # {} => modified[p]

IndInv == Typed /\ Locked /\ Copied /\ Stamped /\ SharedCacheIsConsistent

-----------------------------------------------------------------------------
\* Extension is an order, and more names extend what fewer did.
LEMMA EmptyNames == <<>> \in Names
  BY DEF Names

\* Every name table extends the empty one.
LEMMA ExtendsEmpty == ASSUME NEW s \in Names PROVE Extends(s, <<>>)
  BY DEF Extends, Names

\* A name table extends itself.
LEMMA ExtendsRefl == ASSUME NEW s \in Names PROVE Extends(s, s)
  BY DEF Extends, Names

\* Extending a name table twice extends it.
LEMMA ExtendsTrans ==
  ASSUME NEW s \in Names, NEW t \in Names, NEW u \in Names, Extends(s, t), Extends(t, u)
  PROVE  Extends(s, u)
  BY DEF Extends, Names

\* Entering names extends the name table.
LEMMA ExtendsAppend ==
  ASSUME NEW s \in Names, NEW t \in Names, NEW n \in Nat, Extends(s, t)
  PROVE  Extends(Append(s, n), t)
  BY DEF Extends, Names

\* A store that was just created.
LEMMA EmptyStore == Empty \in Store
  BY DEF Empty, Store, Names, Trees

\* In a cache with no tables yet, every process' names are good.
LEMMA InitInv == Init => IndInv
<1> SUFFICES ASSUME Init PROVE IndInv
  OBVIOUS
<1> USE DEF Init
<1>1. Typed
  BY EmptyNames, EmptyStore DEF Typed
<1>2. Locked
  BY Zenon DEF Locked, Owning, Waiting, Using
<1>3. Copied
  BY DEF Copied, Empty
<1>4. Stamped
  <2>1. \A p \in Processes : table[p] = <<>> /\ kvstoreUuid[p] = 0 /\ unsaved[p] = {}
    BY Zenon
  <2>2. Extends(<<>>, <<>>)
    BY ONLY ExtendsEmpty, EmptyNames
  <2>3. shared.uuid = 0 /\ shared.table = <<>> /\ clock = 0
    BY DEF Empty
  <2> QED
    BY <2>1, <2>2, <2>3 DEF Stamped
<1>5. SharedCacheIsConsistent
  BY DEF SharedCacheIsConsistent, readable, Empty
<1> QED
  BY <1>1, <1>2, <1>3, <1>4, <1>5 DEF IndInv

-----------------------------------------------------------------------------
\* What a process writes when the UUID is the one it knows.
LEMMA Written ==
  ASSUME IndInv, NEW p \in Processes, writer = p, kvstoreUuid[p] = txn[p].uuid
  PROVE  LET store == writtenStore(p)
         IN  /\ store \in Store
             /\ readable(store, store.table)
             /\ store.table = IF modified[p] THEN table[p] ELSE shared.table
             /\ store.uuid = IF modified[p] THEN clock + 1 ELSE shared.uuid
<1> DEFINE store == writtenStore(p)
<1> DEFINE kept == {t \in txn[p].trees : t.file \notin unsaved[p]}
<1> DEFINE new == {[file |-> f, names |-> table[p]] : f \in unsaved[p]}
<1>1. /\ txn[p] \in Store /\ table[p] \in Names /\ unsaved[p] \in SUBSET Files /\ clock \in Nat
      /\ shared \in Store
  BY DEF IndInv, Typed
<1>2. /\ store.uuid = (IF modified[p] THEN clock + 1 ELSE txn[p].uuid)
      /\ store.table = (IF modified[p] THEN table[p] ELSE txn[p].table)
      /\ store.trees = kept \cup new
      /\ store.version = txn[p].version
  BY <1>1 DEF writtenStore, Store
<1>3. kept \subseteq [file : Files, names : Names] /\ new \subseteq [file : Files, names : Names]
  BY <1>1 DEF Store, Trees
<1>4. store \in Store
  BY <1>1, <1>3 DEF Store, Trees, writtenStore
<1>5. /\ txn[p].uuid = shared.uuid /\ txn[p].table = shared.table /\ txn[p].trees = shared.trees
      /\ Extends(table[p], shared.table)
  BY DEF IndInv, Copied, Stamped
<1>6. readable(store, store.table)
  <2> SUFFICES ASSUME NEW t \in kept \cup new PROVE Extends(store.table, t.names)
    BY <1>2 DEF readable
  <2>1. CASE t \in kept
    <3>1. t.names \in Names /\ Extends(shared.table, t.names)
      BY <2>1, <1>3, <1>5 DEF IndInv, SharedCacheIsConsistent, readable
    <3>2. shared.table \in Names
      BY <1>1 DEF Store
    <3>3. Extends(table[p], t.names)
      BY <3>1, <3>2, <1>1, <1>5, ExtendsTrans
    <3> QED
      BY <3>1, <3>3, <1>2, <1>5
  <2>2. CASE t \in new
    <3>1. modified[p] /\ t.names = table[p]
      BY <2>2 DEF IndInv, Stamped
    <3> QED
      BY <3>1, <1>1, <1>2, ExtendsRefl
  <2> QED
    BY <2>1, <2>2
<1> QED
  BY <1>2, <1>4, <1>5, <1>6

-----------------------------------------------------------------------------
\* A transaction that ends without a commit.
LEMMA Released ==
  ASSUME Typed, Copied, NEW p \in Processes, release(p)
  PROVE  /\ txn' \in [Processes -> Store]
         /\ writer' # p
         /\ \A q \in Processes : q # p => txn'[q] = txn[q] /\ (writer' = q <=> writer = q)
  BY EmptyStore, ProcessesAssumption DEF release, Typed, Nobody

\* Steps that leave the store, the names and the UUIDs alone.
LEMMA StoreUnchanged ==
  ASSUME IndInv, UNCHANGED <<shared, stateVars, clock>>
  PROVE  (Stamped /\ SharedCacheIsConsistent)'
  BY DEF IndInv, stateVars, Stamped, SharedCacheIsConsistent

\* Every step preserves the inductive invariant.
LEMMA StepInv == IndInv /\ [Next]_vars => IndInv'
<1> SUFFICES ASSUME IndInv, [Next]_vars PROVE IndInv'
  OBVIOUS
<1> USE DEF IndInv
<1>1. ASSUME NEW p \in Processes, NEW k \in {"batch", "server"}, startProcess(p, k) PROVE IndInv'
  <2> USE <1>1 DEF startProcess, storeVars, goto, runVars
  <2>1. Typed'
    BY DEF Typed, stateVars, runVars
  <2>2. Locked'
    BY DEF Locked, Typed, Owning, Waiting, Using, stateVars
  <2>3. Copied'
    BY DEF Copied
  <2> QED
    BY <2>1, <2>2, <2>3, StoreUnchanged
<1>2. ASSUME NEW p \in Processes, reapOldCaches(p) PROVE IndInv'
  <2> USE <1>2 DEF reapOldCaches, call, goto, runVars
  <2>1. Typed'
    BY DEF Typed, stateVars, runVars
  <2>2. Locked'
    BY DEF Locked, Typed, Owning, Waiting, Using, stateVars
  <2>3. Copied'
    BY DEF Copied
  <2> QED
    BY <2>1, <2>2, <2>3, StoreUnchanged
<1>3. ASSUME NEW p \in Processes, checkVersions(p) PROVE IndInv'
  <2> USE <1>3 DEF checkVersions, goto, runVars, stateVars
  <2>1. Typed'
    BY EmptyStore DEF Typed
  <2>2. Locked'
    BY DEF Locked, Typed, Owning, Waiting, Using
  <2>3. Copied'
    BY ProcessesAssumption DEF Copied, Nobody
  <2>4. (Stamped /\ SharedCacheIsConsistent)'
    <3>1. CASE shared' = shared
      BY <3>1, StoreUnchanged
    <3>2. CASE shared' = Empty
      <4>1. shared'.uuid = 0 /\ shared'.table = <<>> /\ shared'.trees = {}
        BY <3>2 DEF Empty
      <4>2. \A q \in Processes : Extends(table[q], <<>>)
        BY ExtendsEmpty DEF Typed
      <4>3. Stamped'
        BY <4>1, <4>2 DEF Stamped, Typed
      <4> QED
        BY <4>1, <4>3 DEF SharedCacheIsConsistent, readable
    <3> QED
      BY <3>1, <3>2
  <2> QED
    BY <2>1, <2>2, <2>3, <2>4
<1>4. ASSUME NEW p \in Processes, acquire(p) PROVE IndInv'
  <2> USE <1>4 DEF acquire, goto, runVars, stateVars
  <2>1. [shared EXCEPT !.version = version[p]] \in Store
    BY DEF Typed, Store
  <2>2. Typed'
    BY <2>1 DEF Typed
  <2>3. Locked'
    BY ProcessesAssumption DEF Locked, Typed, Owning, Waiting, Using, Nobody
  <2>4. Copied'
    BY DEF Copied, Typed, Store
  <2> QED
    BY <2>2, <2>3, <2>4, StoreUnchanged
<1>5. ASSUME NEW p \in Processes, commitVersion(p) PROVE IndInv'
  <2> USE <1>5 DEF commitVersion, bestEffortCommit, call, goto, runVars, stateVars
  <2>1. writer = p
    BY DEF Locked, Owning
  <2>2. shared' \in Store /\ shared'.uuid = shared.uuid /\ shared'.table = shared.table /\ shared'.trees = shared.trees
    BY <2>1 DEF Copied, Typed
  <2>3. Typed'
    BY <2>2, Released DEF Typed
  <2>4. Locked'
    BY Released DEF Locked, Typed, Owning, Waiting, Using
  <2>5. Copied'
    BY <2>2, Released DEF Copied
  <2>6. (Stamped /\ SharedCacheIsConsistent)'
    BY <2>2 DEF Stamped, SharedCacheIsConsistent, readable
  <2> QED
    BY <2>3, <2>4, <2>5, <2>6
<1>6. ASSUME NEW p \in Processes, loadNameTable(p) PROVE IndInv'
  <2> USE <1>6 DEF loadNameTable, call, goto, runVars
  <2>1. /\ writer = p /\ txn[p] \in Store /\ txn[p].table \in Names /\ txn[p].uuid \in Nat
        /\ txn[p].uuid = shared.uuid /\ txn[p].table = shared.table
    BY DEF Locked, Owning, Copied, Typed, Store
  <2>2. Typed'
    BY <2>1, Released DEF Typed
  <2>3. Locked'
    BY <2>1, Released DEF Locked, Typed, Owning, Waiting, Using
  <2>4. Copied'
    BY Released DEF Copied
  <2>5. Stamped'
    BY <2>1, ExtendsRefl DEF Stamped, Typed
  <2>6. SharedCacheIsConsistent'
    BY DEF SharedCacheIsConsistent
  <2> QED
    BY <2>2, <2>3, <2>4, <2>5, <2>6
<1>7. ASSUME NEW p \in Processes, verify(p) \/ reown(p) PROVE IndInv'
  <2> USE <1>7 DEF verify, reown, ownIfUnchanged, kvstoreChangedSinceGsCreation, goto, runVars
  <2>1. writer = p
    BY DEF Locked, Owning, Using
  <2>2. Typed'
    BY Released DEF Typed, stateVars, afterRound
  <2>3. Locked'
    BY <2>1, Released DEF Locked, Typed, Owning, Waiting, Using, stateVars, afterRound
  <2>4. Copied'
    BY Released DEF Copied
  <2> QED
    BY <2>2, <2>3, <2>4, StoreUnchanged
<1>8. ASSUME NEW p \in Processes, NEW S \in SUBSET Files,
             index(p, S) \/ indexWithoutCache(p, S) \/ slowPath(p, S)
      PROVE  IndInv'
  <2>1. /\ UNCHANGED <<shared, kvstoreUuid, version, kind, usable>>
        /\ \/ release(p) /\ pc' = [pc EXCEPT ![p] = "check"] /\ ret' = [ret EXCEPT ![p] = "retain"]
           \/ UNCHANGED <<writer, txn, ret>> /\ pc' = [pc EXCEPT ![p] = "indexed"] /\ ~usable[p]
           \/ UNCHANGED <<writer, txn, ret, pc>> /\ pc[p] = "serve"
    BY <1>8 DEF index, indexWithoutCache, slowPath, call, goto, storeVars, runVars
  <2>2. PICK P \in SUBSET Files :
          /\ parse(p, P)
          /\ unsaved' = unsaved \/ \E clean \in SUBSET P : unsaved' = [unsaved EXCEPT ![p] = clean]
    <3>1. CASE index(p, S)
      BY <3>1, Zenon DEF index
    <3>2. CASE indexWithoutCache(p, S)
      BY <3>2 DEF indexWithoutCache
    <3>3. CASE slowPath(p, S)
      BY <3>3 DEF slowPath
    <3> QED
      BY <1>8, <3>1, <3>2, <3>3
  <2>3. /\ clock' \in Nat /\ clock <= clock'
        /\ DOMAIN modified' = Processes
        /\ \A q \in Processes : modified[q] => modified'[q]
        /\ P # {} => modified'[p]
    <3>1. clock' \in Nat /\ clock <= clock' /\ DOMAIN modified' = Processes
      BY <2>2 DEF parse, Typed
    <3>2. modified'[p] <=> modified[p] \/ P # {}
      BY <2>2, Zenon DEF parse, Typed
    <3>3. \A q \in Processes : q # p => modified'[q] = modified[q]
      BY <2>2 DEF parse, Typed
    <3> QED
      BY <3>1, <3>2, <3>3, Zenon
  <2>4. /\ table' \in [Processes -> Names]
        /\ \A q \in Processes : table'[q] = table[q] \/ table'[q] = Append(table[q], clock + 1)
    <3>1. \A s \in Names : Append(s, clock + 1) \in Names
      BY DEF Names, Typed
    <3> QED
      BY <2>2, <3>1 DEF parse, Typed
  <2>5. Typed'
    <3>1. unsaved' \in [Processes -> SUBSET Files]
      BY <2>2 DEF Typed
    <3>2. /\ txn' \in [Processes -> Store]
          /\ DOMAIN pc' = Processes /\ DOMAIN ret' = Processes
      BY <2>1, Released DEF Typed
    <3> QED
      BY <2>1, <2>3, <2>4, <3>1, <3>2 DEF Typed
  <2>6. Locked'
    BY <2>1, Released DEF Locked, Typed, Owning, Waiting, Using
  <2>7. Copied'
    BY <2>1, Released DEF Copied
  <2>8. Stamped'
    <3>1. shared.table \in Names /\ shared.uuid \in Nat /\ clock + 1 \in Nat
      BY DEF Typed, Store
    <3>2. \A q \in Processes : kvstoreUuid[q] = shared.uuid => Extends(table'[q], shared.table)
      <4> SUFFICES ASSUME NEW q \in Processes, kvstoreUuid[q] = shared.uuid
                   PROVE  Extends(table'[q], shared.table)
        OBVIOUS
      <4>1. table[q] \in Names /\ Extends(table[q], shared.table)
        BY DEF Stamped, Typed
      <4>2. Extends(Append(table[q], clock + 1), shared.table)
        BY <3>1, <4>1, ExtendsAppend
      <4> QED
        BY <2>4, <4>1, <4>2, Zenon
    <3>3. \A q \in Processes : unsaved'[q] # {} => modified'[q]
      BY <2>2, <2>3 DEF Stamped, Typed
    <3> QED
      BY <2>1, <2>3, <3>1, <3>2, <3>3 DEF Stamped, Typed
  <2>9. SharedCacheIsConsistent'
    BY <2>1 DEF SharedCacheIsConsistent
  <2> QED
    BY <2>5, <2>6, <2>7, <2>8, <2>9
<1>9. ASSUME NEW p \in Processes, retainGlobalState(p) PROVE IndInv'
  <2> DEFINE store == writtenStore(p)
  <2>1. /\ writer = p /\ kvstoreUuid[p] = txn[p].uuid /\ kvstoreUuid[p] = shared.uuid
    BY <1>9 DEF retainGlobalState, kvstoreChangedSinceGsCreation, Locked, Owning, Copied
  <2>2. /\ store \in Store
        /\ readable(store, store.table)
        /\ store.table = IF modified[p] THEN table[p] ELSE shared.table
        /\ store.uuid = IF modified[p] THEN clock + 1 ELSE shared.uuid
    BY <2>1, Written, Zenon
  <2>3. /\ shared' = store \/ shared' = shared
        /\ kvstoreUuid' = [kvstoreUuid EXCEPT ![p] = store.uuid]
        /\ clock' = IF modified[p] THEN clock + 1 ELSE clock
        /\ unsaved' = [unsaved EXCEPT ![p] = {}]
        /\ pc' = [pc EXCEPT ![p] = "check"] /\ ret' = [ret EXCEPT ![p] = "indexed"]
        /\ release(p) /\ UNCHANGED <<usable, table, modified, version, kind>>
    BY <1>9 DEF retainGlobalState, bestEffortCommit, call, goto, runVars
  <2> HIDE DEF store
  <2>4. /\ shared \in Store /\ shared.uuid \in Nat /\ shared.table \in Names /\ clock \in Nat
        /\ store.uuid \in Nat
    BY <2>2 DEF Typed, Store
  <2>5. Typed'
    BY <2>2, <2>3, <2>4, Released DEF Typed
  <2>6. Locked'
    BY <2>3, Released DEF Locked, Typed, Owning, Waiting, Using
  <2>7. Copied'
    BY <2>1, <2>3, Released DEF Copied
  <2>8. Stamped'
    <3>1. shared'.uuid <= clock' /\ (shared'.uuid = 0 => shared'.table = <<>>)
      BY <2>2, <2>3, <2>4 DEF Stamped
    <3>2. \A q \in Processes : kvstoreUuid'[q] <= clock'
      BY <2>2, <2>3, <2>4 DEF Stamped, Typed
    <3>3. \A q \in Processes : q # p /\ kvstoreUuid'[q] = shared'.uuid => Extends(table'[q], shared'.table)
      BY <2>2, <2>3, <2>4 DEF Stamped, Typed
    <3>4. kvstoreUuid'[p] = shared'.uuid => Extends(table'[p], shared'.table)
      <4>1. table[p] \in Names /\ kvstoreUuid'[p] = store.uuid
        BY <2>3 DEF Typed
      <4>2. Extends(table[p], shared.table) /\ Extends(table[p], table[p])
        BY <2>1, <4>1, ExtendsRefl DEF Stamped
      <4> QED
        BY <2>2, <2>3, <4>1, <4>2
    <3>5. \A q \in Processes : unsaved'[q] # {} => modified'[q]
      BY <2>3 DEF Stamped, Typed
    <3> QED
      BY <3>1, <3>2, <3>3, <3>4, <3>5 DEF Stamped
  <2>9. SharedCacheIsConsistent'
    BY <2>2, <2>3 DEF SharedCacheIsConsistent
  <2> QED
    BY <2>5, <2>6, <2>7, <2>8, <2>9
<1>10. ASSUME NEW p \in Processes, dontRetain(p) PROVE IndInv'
  <2> USE <1>10 DEF dontRetain, call, goto, runVars
  <2>1. Typed'
    BY Released DEF Typed
  <2>2. Locked'
    BY Released, SMTT(20) DEF Locked, Typed, Owning, Waiting, Using
  <2>3. Copied'
    BY Released, ZenonT(30) DEF Copied
  <2>4. (Stamped /\ SharedCacheIsConsistent)'
    BY SMTT(20) DEF Stamped, SharedCacheIsConsistent, Typed
  <2> QED
    BY <2>1, <2>2, <2>3, <2>4
<1>11. ASSUME NEW p \in Processes, goOnWithoutCache(p) \/ closeShared(p) \/ copyTo(p) PROVE IndInv'
  <2> DEFINE away(place) == /\ place \notin Owning \cup Waiting
                            /\ place \in Using => ~usable[p]
                            /\ pc' = [pc EXCEPT ![p] = place]
  <2>1. \E place \in {"index", "copy", "finish", "closed", "serve"} : away(place)
    <3>1. CASE goOnWithoutCache(p)
      BY <3>1 DEF goOnWithoutCache, goto, afterRound, Owning, Waiting, Using
    <3>2. CASE closeShared(p)
      BY <3>2, Zenon DEF closeShared, goto, Owning, Waiting, Using
    <3>3. CASE copyTo(p)
      BY <3>3 DEF copyTo, goto, Owning, Waiting, Using
    <3> QED
      BY <1>11, <3>1, <3>2, <3>3
  <2>2. PICK place : away(place)
    BY <2>1, Zenon
  <2>3. /\ shared' = shared /\ ret' = ret /\ usable' = usable /\ clock' = clock
        /\ version' = version /\ stateVars' = stateVars
    BY <1>11 DEF goOnWithoutCache, closeShared, copyTo, storeVars, runVars
  <2>4. /\ table' = table /\ kvstoreUuid' = kvstoreUuid
        /\ modified' = modified /\ unsaved' = unsaved
    BY <2>3 DEF stateVars
  <2>5. release(p) \/ (writer' = writer /\ txn' = txn)
    BY <1>11 DEF goOnWithoutCache, closeShared, copyTo, storeVars
  <2>6. /\ txn' \in [Processes -> Store]
        /\ \A q \in Processes : q # p => txn'[q] = txn[q] /\ (writer' = q <=> writer = q)
        /\ writer' = p => writer = p /\ txn'[p] = txn[p]
    BY <2>5, Released DEF Typed
  <2>7. Typed'
    BY <2>2, <2>3, <2>4, <2>6, Zenon DEF Typed
  <2>8. Locked'
    BY <2>2, <2>3, <2>4, <2>6 DEF Locked, Typed, Owning, Using
  <2>9. Copied'
    BY <2>3, <2>6 DEF Copied
  <2> QED
    BY <2>3, <2>7, <2>8, <2>9, StoreUnchanged
<1>12. ASSUME NEW p \in Processes, exit(p) \/ die(p) PROVE IndInv'
  <2>1. gone(p) /\ UNCHANGED <<shared, version, clock>>
    BY <1>12 DEF exit, die
  <2> USE <2>1 DEF gone, goto
  <2>2. Typed'
    BY EmptyNames, Released DEF Typed
  <2>3. Locked'
    BY Released, SMTT(20) DEF Locked, Typed, Owning, Waiting, Using
  <2>4. Copied'
    BY Released, ZenonT(30) DEF Copied
  <2>5. (Stamped /\ SharedCacheIsConsistent)'
    <3>1. Extends(<<>>, <<>>)
      BY ONLY ExtendsEmpty, EmptyNames
    <3> QED
      BY <3>1 DEF Stamped, SharedCacheIsConsistent, Typed
  <2> QED
    BY <2>2, <2>3, <2>4, <2>5
<1>13. CASE UNCHANGED vars
  <2> USE <1>13 DEF vars, storeVars, stateVars, runVars
  <2>1. Typed'
    BY DEF Typed
  <2>2. (Locked /\ Copied)'
    BY DEF Locked, Copied
  <2> QED
    BY <2>1, <2>2, StoreUnchanged
<1> QED
  BY <1>1, <1>2, <1>3, <1>4, <1>5, <1>6, <1>7, <1>8, <1>9, <1>10, <1>11, <1>12, <1>13 DEF Next, work

(***************************************************************************)
(* The trees in the cache directory belong to its name table, whatever     *)
(* number of processes, of whatever versions, share it and are killed.     *)
(***************************************************************************)
THEOREM CacheConsistent == Spec => []SharedCacheIsConsistent
  BY InitInv, StepInv, PTL DEF Spec, IndInv

(***************************************************************************)
(* A process that indexes with the cache has the names of all its trees.   *)
(***************************************************************************)
THEOREM OwnNamesRead == Spec => []IndexReadsOwnNames
<1>1. IndInv => IndexReadsOwnNames
  <2> SUFFICES ASSUME IndInv, NEW p \in Processes, pc[p] = "index", usable[p],
                      NEW t \in txn[p].trees
               PROVE  Extends(table[p], t.names)
    BY DEF IndexReadsOwnNames, readable
  <2>1. writer = p /\ kvstoreUuid[p] = txn[p].uuid
    BY DEF IndInv, Locked, Using
  <2>2. Extends(table[p], shared.table) /\ t \in shared.trees
    BY <2>1 DEF IndInv, Copied, Stamped
  <2>3. Extends(shared.table, t.names)
    BY <2>2 DEF IndInv, SharedCacheIsConsistent, readable
  <2>4. shared.table \in Names /\ table[p] \in Names /\ t.names \in Names
    BY <2>2 DEF IndInv, Typed, Store, Trees
  <2> QED
    BY <2>2, <2>3, <2>4, ExtendsTrans
<1> QED
  BY InitInv, StepInv, <1>1, PTL DEF Spec
=============================================================================
