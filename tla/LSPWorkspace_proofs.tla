------------------------- MODULE LSPWorkspace_proofs -------------------------
(***************************************************************************)
(* The safety properties of LSPWorkspace, for any files, hashes, symbols,  *)
(* mentions, package files, numbers of versions and of edits in the queue, *)
(* and any limit of files on the fast path.                                *)
(***************************************************************************)
EXTENDS LSPWorkspace, TLAPS

\* The types.
FileState == [hash : Hashes, symbols : Symbols, version : Nat]
Table == [Files -> FileState \cup {Absent}]
Changes == UNION {[S -> FileState] : S \in SUBSET Files}
Edit == [epoch : Nat, files : Changes, mergeCount : Nat, timers : Nat]
Updates ==
  [epoch : Nat, editCount : Nat, committedEditCount : Nat, files : Changes,
   hasNewFiles : BOOLEAN, path : {"fast", "slow"}, extraFiles : SUBSET Files,
   canceledSlowPath : BOOLEAN, timers : Nat]

WType ==
  /\ nextVersion \in Nat
  /\ queue \in Seq(Edit)
  /\ cachedPath \in {"none", "fast", "slow"}
  /\ indexerFiles \in Table /\ typecheckerFiles \in Table
  /\ pending \in Updates
  /\ evictedFiles \in Changes /\ newlyEvictedFiles \in Changes
  /\ task \in {"await", "cancel", "ready", "bulk"}
  /\ task \in {"cancel", "ready"} => update \in Updates
  /\ task = "bulk" => update \in Edit
  /\ slowPath \in {"idle", "resolve", "check", "committed"}
  /\ slowPathRunning => undo \in [epoch : Nat, files : Table]
  /\ currentlyProcessingLSPEpoch \in Nat /\ lastCommittedLSPEpoch \in Nat
  /\ lspEpochInvalidator \in Nat

\* Versions are taken in order, so no slow path begins with an epoch in use.
isUsed(epoch) == currentlyProcessingLSPEpoch >= epoch \/ lastCommittedLSPEpoch >= epoch
EpochsAreOrdered ==
  /\ ~isUsed(nextVersion)
  /\ \A k \in 1 .. Len(queue) : queue[k].epoch < nextVersion /\ ~isUsed(queue[k].epoch)
  /\ \A j, k \in 1 .. Len(queue) : j < k => queue[j].epoch < queue[k].epoch
  /\ task # "await" =>
       /\ update.epoch < nextVersion /\ ~isUsed(update.epoch)
       /\ \A k \in 1 .. Len(queue) : update.epoch < queue[k].epoch

\* Who can see a slow path running, or canceled.
StatusIsRight ==
  /\ slowPathRunning <=> slowPath \in {"resolve", "check"}
  /\ slowPathWasCanceled => slowPathRunning /\ task = "ready"
  /\ task = "ready" /\ slowPathRunning => slowPathWasCanceled
  /\ task = "cancel" => update.path = "slow" /\ ~update.canceledSlowPath
  /\ task = "bulk" => ~(Cardinality(DOMAIN update.files) <= LspMaxFilesOnFastPath)

\* The table the update at hand will be applied to: a running slow path is
\* undone first.
base == IF slowPathRunning THEN undo.files ELSE typecheckerFiles

\* The indexer is ahead of the typechecker by the update at hand.
TablesAgree ==
  /\ task \in {"await", "bulk"} => typecheckerFiles = indexerFiles
  /\ task = "cancel" => merged(update.files, typecheckerFiles) = indexerFiles
  /\ task = "ready" => merged(update.files, base) = indexerFiles

\* The pending updates lead from the files saved for undo to the typechecker's.
PendingIsComplete ==
  /\ task # "ready" /\ slowPathRunning =>
       merged(pending.files, undo.files) = typecheckerFiles
  /\ task = "ready" /\ update.path = "slow" => pending = copyUpdates(update)

\* evicted has the files of table that the updates replace.
covers(evicted, u, table) ==
  /\ \A f \in DOMAIN evicted : evicted[f] = table[f] \/ (table[f] = Absent /\ u.hasNewFiles)
  /\ \A f \in DOMAIN u.files : f \in DOMAIN evicted \/ (table[f] = Absent /\ u.hasNewFiles)

\* The evicted files are those the pending updates replace.
EvictedIsComplete ==
  /\ task # "ready" /\ slowPathRunning => covers(evictedFiles, pending, undo.files)
  /\ task = "ready" /\ update.path = "slow" => covers(evictedFiles, pending, base)
  /\ task = "cancel" =>
       /\ DOMAIN newlyEvictedFiles = {f \in DOMAIN update.files : typecheckerFiles[f] # Absent}
       /\ \A f \in DOMAIN newlyEvictedFiles : newlyEvictedFiles[f] = typecheckerFiles[f]
       /\ update.hasNewFiles = (\E f \in DOMAIN update.files : typecheckerFiles[f] = Absent)

\* Timers go along with edits.
isCounted(u) == u.editCount = u.committedEditCount + u.timers
TimersAreCounted ==
  /\ \A k \in 1 .. Len(queue) : queue[k].timers = queue[k].mergeCount + 1
  /\ task = "bulk" => update.timers = update.mergeCount + 1
  /\ task \in {"cancel", "ready"} => isCounted(update)
  /\ task # "ready" /\ slowPathRunning => isCounted(pending)

\* A decision about the head of the queue is made again when anything changes.
DecisionIsFresh ==
  cachedPath # "none" =>
    /\ task = "await" /\ queue # <<>>
    /\ cachedPath = getTypecheckingPathInternal(indexerFiles, Head(queue).files, NoFiles)

\* The inductive invariant.
WInv ==
  /\ WType /\ EpochsAreOrdered /\ StatusIsRight /\ TablesAgree /\ PendingIsComplete
  /\ EvictedIsComplete /\ TimersAreCounted /\ DecisionIsFresh

-----------------------------------------------------------------------------
(***************************************************************************)
(* File tables and changes.                                                *)
(***************************************************************************)

\* No edit brings a file that is Absent.
LEMMA AbsentIsNoFileState == Absent \notin FileState
BY DEF Absent, FileState

\* The files of a change.
LEMMA ChangesType ==
  ASSUME NEW e \in Changes
  PROVE  DOMAIN e \subseteq Files /\ \A f \in DOMAIN e : e[f] \in FileState /\ e[f] # Absent
BY AbsentIsNoFileState DEF Changes

\* A function on files that brings only contents is a change.
LEMMA IsChanges ==
  ASSUME NEW S \in SUBSET Files, NEW e \in [S -> FileState]
  PROVE  e \in Changes
BY Zenon DEF Changes

\* The change of no files.
LEMMA NoFilesIsChanges == NoFiles \in Changes /\ DOMAIN NoFiles = {}
<1>1. NoFiles \in [{} -> FileState]
  BY Zenon DEF NoFiles
<1> QED
  BY <1>1, IsChanges, Zenon DEF NoFiles

\* Merging two changes: the newer one where both have the file.
LEMMA MergeChanges ==
  ASSUME NEW a \in Changes, NEW b \in Changes
  PROVE  /\ merged(a, b) \in Changes
         /\ DOMAIN merged(a, b) = DOMAIN a \cup DOMAIN b
         /\ \A f \in DOMAIN a : merged(a, b)[f] = a[f]
         /\ \A f \in DOMAIN b : f \notin DOMAIN a => merged(a, b)[f] = b[f]
<1>1. DOMAIN a \cup DOMAIN b \in SUBSET Files
  BY ChangesType, Zenon
<1>2. merged(a, b) \in [DOMAIN a \cup DOMAIN b -> FileState]
  BY ChangesType, Zenon DEF merged
<1>3. merged(a, b) \in Changes
  BY <1>1, <1>2, IsChanges, Zenon
<1> QED
  BY <1>3, Zenon DEF merged

\* Changes applied to a table.
LEMMA MergeTable ==
  ASSUME NEW a \in Changes, NEW t \in Table
  PROVE  /\ merged(a, t) \in Table
         /\ \A f \in Files : merged(a, t)[f] = IF f \in DOMAIN a THEN a[f] ELSE t[f]
<1>1. DOMAIN a \cup DOMAIN t = Files
  BY ChangesType, Zenon DEF Table
<1>2. \A f \in DOMAIN a : a[f] \in FileState
  BY ChangesType, Zenon
<1> QED
  BY <1>1, <1>2, Zenon DEF merged, Table

\* Two tables with the same files are equal.
LEMMA SameTable ==
  ASSUME NEW t \in Table, NEW u \in Table, \A f \in Files : t[f] = u[f]
  PROVE  t = u
BY DEF Table

\* Two changes applied one after the other are their merge applied.
LEMMA MergeAssociates ==
  ASSUME NEW a \in Changes, NEW b \in Changes, NEW t \in Table
  PROVE  merged(merged(a, b), t) = merged(a, merged(b, t))
<1>1. /\ merged(a, b) \in Changes
      /\ merged(b, t) \in Table
  BY MergeChanges, MergeTable, Zenon
<1>0. /\ DOMAIN merged(a, b) = DOMAIN a \cup DOMAIN b
      /\ \A f \in DOMAIN a : merged(a, b)[f] = a[f]
      /\ \A f \in DOMAIN b : f \notin DOMAIN a => merged(a, b)[f] = b[f]
  BY MergeChanges, Zenon
<1>2. /\ merged(merged(a, b), t) \in Table
      /\ merged(a, merged(b, t)) \in Table
  BY <1>1, MergeTable, Zenon
<1>3. ASSUME NEW f \in Files
      PROVE  merged(merged(a, b), t)[f] = merged(a, merged(b, t))[f]
  <2>1. merged(merged(a, b), t)[f] = IF f \in DOMAIN merged(a, b) THEN merged(a, b)[f] ELSE t[f]
    BY <1>1, MergeTable
  <2>2. merged(a, merged(b, t))[f] = IF f \in DOMAIN a THEN a[f] ELSE merged(b, t)[f]
    BY <1>1, MergeTable
  <2>3. merged(b, t)[f] = IF f \in DOMAIN b THEN b[f] ELSE t[f]
    BY MergeTable, Zenon
  <2>4. /\ DOMAIN merged(a, b) = DOMAIN a \cup DOMAIN b
        /\ f \in DOMAIN a => merged(a, b)[f] = a[f]
        /\ f \in DOMAIN b /\ f \notin DOMAIN a => merged(a, b)[f] = b[f]
    BY <1>0, Zenon
  <2>5. CASE f \in DOMAIN a
    BY <2>1, <2>2, <2>4, <2>5, Zenon
  <2>6. CASE f \notin DOMAIN a /\ f \in DOMAIN b
    BY <2>1, <2>2, <2>3, <2>4, <2>6, Zenon
  <2>7. CASE f \notin DOMAIN a /\ f \notin DOMAIN b
    BY <2>1, <2>2, <2>3, <2>4, <2>7, Zenon
  <2> QED
    BY <2>5, <2>6, <2>7, Zenon
<1> QED
  BY <1>2, <1>3, SameTable, Zenon

-----------------------------------------------------------------------------
(***************************************************************************)
(* What commitEdit computes.                                               *)
(***************************************************************************)

\* Two edits merged are an edit.
LEMMA MergeParamsType ==
  ASSUME NEW a \in Edit, NEW b \in Edit
  PROVE  /\ mergeParams(a, b) \in Edit
         /\ mergeParams(a, b).epoch = b.epoch
         /\ a.timers = a.mergeCount + 1 /\ b.timers = b.mergeCount + 1 =>
              mergeParams(a, b).timers = mergeParams(a, b).mergeCount + 1
<1>1. merged(b.files, a.files) \in Changes
  BY MergeChanges, Zenon DEF Edit
<1> QED
  BY <1>1 DEF mergeParams, Edit

\* What the client sends is an edit.
LEMMA WorkspaceEditType ==
  ASSUME NEW S \in SUBSET Files, NEW v \in Nat, NEW files \in [S -> Content(v)]
  PROVE  /\ workspaceEdit(v, files) \in Edit
         /\ workspaceEdit(v, files).epoch = v
         /\ workspaceEdit(v, files).timers = workspaceEdit(v, files).mergeCount + 1
<1>1. files \in [S -> FileState]
  BY Zenon DEF Content, FileState
<1>2. files \in Changes
  BY <1>1, IsChanges, Zenon
<1> QED
  BY <1>2 DEF workspaceEdit, Edit

\* The files an edit replaces are contents.
LEMMA NewlyEvictedType ==
  ASSUME NEW edit \in Edit, indexerFiles \in Table
  PROVE  /\ newlyEvicted(edit) \in Changes
         /\ DOMAIN newlyEvicted(edit) = {f \in DOMAIN edit.files : indexerFiles[f] # Absent}
         /\ \A f \in DOMAIN newlyEvicted(edit) : newlyEvicted(edit)[f] = indexerFiles[f]
<1> DEFINE S == {f \in DOMAIN edit.files : indexerFiles[f] # Absent}
<1>1. DOMAIN edit.files \subseteq Files
  BY ChangesType, Zenon DEF Edit
<1>2. S \in SUBSET Files /\ newlyEvicted(edit) \in [S -> FileState]
  BY <1>1, Zenon DEF newlyEvicted, Table
<1>3. newlyEvicted(edit) \in Changes
  BY <1>2, IsChanges, Zenon
<1> QED
  BY <1>3, Zenon DEF newlyEvicted

\* Deciding the path keeps the update.
LEMMA WithTypecheckingPathType ==
  ASSUME NEW u \in Updates, NEW gs, NEW evicted
  PROVE  LET w == withTypecheckingPath(u, gs, evicted)
         IN  /\ w \in Updates
             /\ w.epoch = u.epoch /\ w.files = u.files /\ w.hasNewFiles = u.hasNewFiles
             /\ w.editCount = u.editCount /\ w.committedEditCount = u.committedEditCount
             /\ w.timers = u.timers /\ w.canceledSlowPath = u.canceledSlowPath
<1>1. extraFiles(gs, u.files, evicted) \in SUBSET Files
  BY Zenon DEF extraFiles
<1> QED
  BY <1>1, Zenon DEF withTypecheckingPath, Updates

\* What commitEdit makes of an edit is an update.
LEMMA IndexedUpdateType ==
  ASSUME NEW edit \in Edit, indexerFiles \in Table
  PROVE  LET u == indexedUpdate(edit)
         IN  /\ u \in Updates
             /\ u.epoch = edit.epoch /\ u.files = edit.files
             /\ u.hasNewFiles = (\E f \in DOMAIN edit.files : indexerFiles[f] = Absent)
             /\ u.editCount = edit.mergeCount + 1 /\ u.committedEditCount = 0
             /\ u.timers = edit.timers /\ ~u.canceledSlowPath
<1> DEFINE new == \E f \in DOMAIN edit.files : indexerFiles[f] = Absent
           v == fileUpdates(edit, new)
<1>1. new \in BOOLEAN
  BY Zenon
<1> HIDE DEF new
<1>2. /\ v \in Updates
      /\ v.epoch = edit.epoch /\ v.files = edit.files /\ v.hasNewFiles = new
      /\ v.editCount = edit.mergeCount + 1 /\ v.committedEditCount = 0
      /\ v.timers = edit.timers /\ ~v.canceledSlowPath
  BY <1>1 DEF fileUpdates, Updates, Edit
<1>3. indexedUpdate(edit) =
        withTypecheckingPath(v, merged(edit.files, indexerFiles), newlyEvicted(edit))
  BY Zenon DEF indexedUpdate, new
<1> HIDE DEF v
<1>4. LET w == indexedUpdate(edit)
      IN  /\ w \in Updates
          /\ w.epoch = v.epoch /\ w.files = v.files /\ w.hasNewFiles = v.hasNewFiles
          /\ w.editCount = v.editCount /\ w.committedEditCount = v.committedEditCount
          /\ w.timers = v.timers /\ w.canceledSlowPath = v.canceledSlowPath
  BY <1>2, <1>3, WithTypecheckingPathType
<1>5. indexedUpdate(edit).hasNewFiles = new
  BY <1>2, <1>4, Zenon
<1> QED
  BY <1>2, <1>4, <1>5, Zenon DEF new

\* Two updates merged are an update.
LEMMA MergeOlderType ==
  ASSUME NEW newer \in Updates, NEW older \in Updates
  PROVE  LET u == mergeOlder(newer, older)
         IN  /\ u \in Updates
             /\ u.epoch = newer.epoch /\ u.files = merged(newer.files, older.files)
             /\ u.hasNewFiles <=> (newer.hasNewFiles \/ older.hasNewFiles)
             /\ u.editCount = newer.editCount + older.editCount
             /\ u.committedEditCount = newer.committedEditCount + older.committedEditCount
             /\ u.timers = newer.timers /\ u.canceledSlowPath = newer.canceledSlowPath
<1>1. merged(newer.files, older.files) \in Changes
  BY MergeChanges, Zenon DEF Updates
<1> DEFINE has == newer.hasNewFiles \/ older.hasNewFiles
           u == mergeOlder(newer, older)
<1>2. has \in BOOLEAN
  BY Zenon
<1>3. u = [newer EXCEPT !.editCount = newer.editCount + older.editCount,
                        !.committedEditCount = newer.committedEditCount + older.committedEditCount,
                        !.hasNewFiles = has,
                        !.files = merged(newer.files, older.files),
                        !.path = "slow"]
  BY Zenon DEF mergeOlder, Updates
<1> HIDE DEF has, u
<1>4. u \in Updates
  <2>1. u = [epoch |-> newer.epoch, editCount |-> newer.editCount + older.editCount,
             committedEditCount |-> newer.committedEditCount + older.committedEditCount,
             files |-> merged(newer.files, older.files), hasNewFiles |-> has, path |-> "slow",
             extraFiles |-> newer.extraFiles, canceledSlowPath |-> newer.canceledSlowPath,
             timers |-> newer.timers]
    BY <1>3, Zenon DEF Updates
  <2>2. /\ newer.editCount + older.editCount \in Nat
        /\ newer.committedEditCount + older.committedEditCount \in Nat
    BY DEF Updates
  <2> QED
    BY <1>1, <1>2, <2>1, <2>2, Zenon DEF Updates
<1>5. /\ u.epoch = newer.epoch /\ u.files = merged(newer.files, older.files)
      /\ u.editCount = newer.editCount + older.editCount
      /\ u.committedEditCount = newer.committedEditCount + older.committedEditCount
      /\ u.timers = newer.timers
  BY <1>3, Zenon DEF Updates
<1>6. u.canceledSlowPath = newer.canceledSlowPath
  BY <1>3, Zenon DEF Updates
<1>7. u.hasNewFiles = has
  BY <1>2, <1>3, Zenon DEF Updates
<1> QED
  BY <1>4, <1>5, <1>6, <1>7, Zenon DEF has, u

\* The decision about the head of the queue is the one commitEdit comes to: both
\* compare the edit with the files it replaces.
LEMMA SameDecision ==
  ASSUME NEW edit \in Edit, indexerFiles \in Table
  PROVE  indexedUpdate(edit).path = getTypecheckingPathInternal(indexerFiles, edit.files, NoFiles)
<1> DEFINE new == \E f \in DOMAIN edit.files : indexerFiles[f] = Absent
           gs == merged(edit.files, indexerFiles)
           ev == newlyEvicted(edit)
           files == edit.files
<1>1. files \in Changes /\ DOMAIN files \subseteq Files
  BY ChangesType, Zenon DEF Edit
<1>2. indexedUpdate(edit).path =
        IF ~new /\ getTypecheckingPathInternal(gs, files, ev) = "fast" THEN "fast" ELSE "slow"
  <2>1. new \in BOOLEAN
    BY Zenon
  <2> HIDE DEF new, gs, ev
  <2> DEFINE v == fileUpdates(edit, new)
  <2>2. v \in Updates /\ v.files = files /\ v.hasNewFiles = new
    BY <2>1 DEF fileUpdates, Updates, Edit
  <2>3. indexedUpdate(edit) = withTypecheckingPath(v, gs, ev)
    BY Zenon DEF indexedUpdate, new, gs, ev
  <2> HIDE DEF v
  <2> QED
    BY <2>2, <2>3, Zenon DEF withTypecheckingPath, Updates
<1>3. ASSUME new
      PROVE  getTypecheckingPathInternal(indexerFiles, files, NoFiles) = "slow"
  BY <1>3, Zenon DEF getTypecheckingPathInternal, definitionsUnchanged
<1>4. ASSUME ~new
      PROVE  getTypecheckingPathInternal(gs, files, ev)
               = getTypecheckingPathInternal(indexerFiles, files, NoFiles)
  <2>1. /\ DOMAIN ev = DOMAIN files
        /\ \A f \in DOMAIN files : ev[f] = indexerFiles[f]
    BY <1>4, NewlyEvictedType, Zenon
  <2>2. \A f \in DOMAIN files :
          getOldFile(f, gs, ev) = indexerFiles[f] /\ getOldFile(f, indexerFiles, NoFiles) = indexerFiles[f]
    BY <2>1, NoFilesIsChanges, Zenon DEF getOldFile
  <2>3. /\ \A f \in DOMAIN files : gs[f] # Absent /\ indexerFiles[f] # Absent
        /\ \A f \in Files \ DOMAIN files : gs[f] = indexerFiles[f]
    BY <1>1, <1>4, MergeTable, ChangesType
  <2> HIDE DEF new, gs, ev, files
  <2>4. symbolsChanged(gs, files, ev) = symbolsChanged(indexerFiles, files, NoFiles)
    BY <2>2, Zenon DEF symbolsChanged
  <2>5. extraFiles(gs, files, ev) = extraFiles(indexerFiles, files, NoFiles)
    BY <2>3, <2>4, Zenon DEF extraFiles
  <2>6. totalChanged(gs, files, ev) = totalChanged(indexerFiles, files, NoFiles)
    BY <2>5, Zenon DEF totalChanged
  <2>7. definitionsUnchanged(gs, files, ev) <=> definitionsUnchanged(indexerFiles, files, NoFiles)
    BY <2>2, <2>3 DEF definitionsUnchanged
  <2> QED
    BY <2>6, <2>7, Zenon DEF getTypecheckingPathInternal
<1>5. getTypecheckingPathInternal(indexerFiles, files, NoFiles) \in {"fast", "slow"}
  BY Zenon DEF getTypecheckingPathInternal
<1> HIDE DEF new, gs, ev, files
<1> QED
  BY <1>2, <1>3, <1>4, <1>5, Zenon DEF files

\* The update that cancels a slow path, merged with what that one had.
LEMMA CancelingUpdateType ==
  ASSUME NEW evicted, update \in Updates, pending \in Updates
  PROVE  LET u == cancelingUpdate(evicted)
         IN  /\ u \in Updates
             /\ u.epoch = update.epoch /\ u.files = merged(update.files, pending.files)
             /\ u.hasNewFiles <=> (update.hasNewFiles \/ pending.hasNewFiles)
             /\ u.editCount = update.editCount + pending.editCount
             /\ u.committedEditCount = update.committedEditCount + pending.committedEditCount
             /\ u.timers = update.timers + pending.timers
             /\ u.canceledSlowPath
<1> DEFINE both == mergeOlder(update, pending)
           w == withTypecheckingPath(both, indexerFiles, evicted)
<1>1. /\ both \in Updates
      /\ both.epoch = update.epoch /\ both.files = merged(update.files, pending.files)
      /\ both.hasNewFiles <=> (update.hasNewFiles \/ pending.hasNewFiles)
      /\ both.editCount = update.editCount + pending.editCount
      /\ both.committedEditCount = update.committedEditCount + pending.committedEditCount
      /\ both.timers = update.timers
  BY MergeOlderType, Zenon
<1> HIDE DEF both
<1>2. /\ w \in Updates
      /\ w.epoch = both.epoch /\ w.files = both.files /\ w.hasNewFiles = both.hasNewFiles
      /\ w.editCount = both.editCount /\ w.committedEditCount = both.committedEditCount
      /\ w.timers = both.timers
  BY <1>1, WithTypecheckingPathType
<1>3. cancelingUpdate(evicted) =
        [w EXCEPT !.canceledSlowPath = TRUE, !.timers = w.timers + pending.timers]
  BY <1>2, Zenon DEF cancelingUpdate, both, Updates
<1>4. w.timers + pending.timers \in Nat
  BY <1>2 DEF Updates
<1> HIDE DEF w
<1> DEFINE u == cancelingUpdate(evicted)
<1> HIDE DEF u
<1>5. /\ u \in Updates
      /\ u.epoch = w.epoch /\ u.files = w.files /\ u.hasNewFiles = w.hasNewFiles
      /\ u.editCount = w.editCount /\ u.committedEditCount = w.committedEditCount
      /\ u.timers = w.timers + pending.timers
  BY <1>2, <1>3, <1>4, Zenon DEF Updates, u
<1>6. u.canceledSlowPath
  BY <1>2, <1>3, Zenon DEF Updates, u
<1> QED
  BY <1>1, <1>2, <1>5, <1>6, Zenon DEF u

-----------------------------------------------------------------------------
(***************************************************************************)
(* The invariant holds at first, and every action preserves it.            *)
(***************************************************************************)

\* The positions of the queue without its head.
LEMMA QueuePopped ==
  ASSUME queue \in Seq(Edit), queue # <<>>, popQueue
  PROVE  /\ Head(queue) = queue[1] /\ Head(queue) \in Edit /\ 1 \in 1 .. Len(queue)
         /\ queue' \in Seq(Edit)
         /\ \A k \in 1 .. Len(queue') : k + 1 \in 1 .. Len(queue) /\ queue'[k] = queue[k + 1]
         /\ cachedPath' = "none" /\ nextVersion' = nextVersion
BY DEF popQueue

\* Every edit in the queue has an epoch.
LEMMA QueueEpochs ==
  ASSUME queue \in Seq(Edit)
  PROVE  \A k \in 1 .. Len(queue) : queue[k] \in Edit /\ queue[k].epoch \in Nat
<1>1. \A k \in 1 .. Len(queue) : queue[k] \in Edit
  OBVIOUS
<1> QED
  BY <1>1, Zenon DEF Edit

\* Nothing was edited and the initial typecheck is done.
LEMMA InitInv == Init => WInv
<1> SUFFICES ASSUME Init PROVE WInv
  BY Zenon
<1> USE DEF Init, EpochInit
<1>1. InitialFiles \in Table
  BY InitialFilesAssumption DEF Table, FileState, Content
<1>2. NoEdits \in Updates
  BY NoFilesIsChanges, Zenon DEF NoEdits, Updates
<1>3. ~slowPathRunning /\ ~slowPathWasCanceled
  BY Zenon DEF slowPathRunning, slowPathWasCanceled
<1>4. WType
  BY <1>1, <1>2, <1>3, NoFilesIsChanges, VersionAssumption DEF WType
<1>5. EpochsAreOrdered /\ StatusIsRight
  BY <1>3, VersionAssumption DEF EpochsAreOrdered, StatusIsRight, isUsed
<1>6. TablesAgree /\ PendingIsComplete /\ EvictedIsComplete
  BY <1>3, Zenon DEF TablesAgree, PendingIsComplete, EvictedIsComplete
<1>7. TimersAreCounted /\ DecisionIsFresh
  BY <1>3 DEF TimersAreCounted, DecisionIsFresh
<1> QED
  BY <1>4, <1>5, <1>6, <1>7, Zenon DEF WInv

\* The queue after its two oldest edits were merged.
LEMMA QueueMerged ==
  ASSUME queue \in Seq(Edit), mergeQueued
  PROVE  /\ Len(queue) \in Nat /\ Len(queue) > 1 /\ queue[1] \in Edit /\ queue[2] \in Edit
         /\ queue' \in Seq(Edit) /\ Len(queue') = Len(queue) - 1
         /\ queue'[1] = mergeParams(queue[1], queue[2])
         /\ \A k \in 2 .. Len(queue') : queue'[k] = queue[k + 1]
<1> DEFINE both == mergeParams(queue[1], queue[2])
<1>2. /\ Len(queue) \in Nat /\ Len(queue) > 1
      /\ queue[1] \in Edit /\ queue[2] \in Edit
  BY DEF mergeQueued
<1>4. both \in Edit
  BY <1>2, MergeParamsType, Zenon
<1> HIDE DEF both
<1>5. queue' = <<both>> \o SubSeq(queue, 3, Len(queue))
  BY Zenon DEF mergeQueued, both
<1>6. /\ SubSeq(queue, 3, Len(queue)) \in Seq(Edit)
      /\ Len(SubSeq(queue, 3, Len(queue))) = Len(queue) - 2
      /\ \A k \in 1 .. Len(queue) - 2 : SubSeq(queue, 3, Len(queue))[k] = queue[k + 2]
  <2>1. SubSeq(queue, 3, Len(queue)) = [k \in 1 .. Len(queue) - 2 |-> queue[k + 2]]
    BY <1>2
  <2>2. \A k \in 1 .. Len(queue) - 2 : queue[k + 2] \in Edit
    BY <1>2
  <2>3. Len(queue) - 2 \in Nat
    BY <1>2
  <2>4. [k \in 1 .. Len(queue) - 2 |-> queue[k + 2]] \in Seq(Edit)
    BY <2>2, <2>3
  <2>5. /\ Len([k \in 1 .. Len(queue) - 2 |-> queue[k + 2]]) = Len(queue) - 2
        /\ \A k \in 1 .. Len(queue) - 2 : [i \in 1 .. Len(queue) - 2 |-> queue[i + 2]][k] = queue[k + 2]
    BY <2>3
  <2> QED
    BY <2>1, <2>4, <2>5, Zenon
<1>7. /\ queue' \in Seq(Edit) /\ Len(queue') = Len(queue) - 1
      /\ queue'[1] = both
      /\ \A k \in 2 .. Len(queue') : queue'[k] = queue[k + 1]
  BY <1>2, <1>4, <1>5, <1>6
<1> QED
  BY <1>2, <1>7, Zenon DEF both

\* Every step preserves the invariant.
LEMMA WorkspaceStep == WInv /\ [Next]_vars => WInv'
\* A copy of an update is an update with the same files and counts.
<1>CopyUpdatesType.
  ASSUME NEW u \in Updates
  PROVE  LET c == copyUpdates(u)
         IN  /\ c \in Updates
             /\ c.epoch = u.epoch /\ c.files = u.files /\ c.hasNewFiles = u.hasNewFiles
             /\ c.editCount = u.editCount /\ c.committedEditCount = u.committedEditCount
             /\ c.timers = u.timers
  BY <1>CopyUpdatesType, Zenon DEF copyUpdates, Updates
\* An edit with too many files never takes the fast path.
<1>BulkUpdateIsSlow.
  ASSUME NEW edit \in Edit, indexerFiles \in Table,
         ~(Cardinality(DOMAIN edit.files) <= LspMaxFilesOnFastPath)
  PROVE  indexedUpdate(edit).path = "slow"
  BY <1>BulkUpdateIsSlow, SameDecision, Zenon DEF getTypecheckingPathInternal
\* What commitEdit keeps of an update for later cancellations.
<1>RecordUpdateType.
  ASSUME NEW u \in Updates, NEW evicted \in Changes, pending \in Updates, evictedFiles \in Changes,
         recordUpdate(u, evicted)
  PROVE  /\ pending' \in Updates /\ evictedFiles' \in Changes
         /\ u.path = "slow" => pending' = copyUpdates(u) /\ evictedFiles' = evicted
         /\ u.path = "fast" =>
              /\ evictedFiles' = merged(evictedFiles, evicted)
              /\ pending'.files = merged(u.files, pending.files)
              /\ pending'.hasNewFiles <=> (u.hasNewFiles \/ pending.hasNewFiles)
              /\ isCounted(pending) /\ ~u.canceledSlowPath /\ u.committedEditCount = 0 =>
                   isCounted(pending')
  <2> USE <1>RecordUpdateType
  <2>1. copyUpdates(u) \in Updates
    BY <1>CopyUpdatesType, Zenon
  <2>2. CASE u.path = "slow"
    BY <2>1, <2>2, Zenon DEF recordUpdate
  <2>3. CASE u.path = "fast"
    <3> DEFINE both == mergeOlder(copyUpdates(u), pending)
    <3> DEFINE c == copyUpdates(u)
    <3>0. /\ c \in Updates
          /\ c.files = u.files /\ c.hasNewFiles = u.hasNewFiles
          /\ c.editCount = u.editCount /\ c.committedEditCount = u.committedEditCount
      BY <1>CopyUpdatesType, Zenon
    <3> HIDE DEF c
    <3>1. /\ both \in Updates
          /\ both.files = merged(u.files, pending.files)
          /\ both.hasNewFiles <=> (u.hasNewFiles \/ pending.hasNewFiles)
          /\ both.editCount = u.editCount + pending.editCount
          /\ both.committedEditCount = u.committedEditCount + pending.committedEditCount
      BY <3>0, MergeOlderType DEF c
    <3>2. /\ pending' = [both EXCEPT !.committedEditCount =
                           IF u.canceledSlowPath THEN both.committedEditCount
                           ELSE both.committedEditCount + u.editCount,
                           !.timers = IF u.canceledSlowPath THEN both.timers ELSE pending.timers]
          /\ evictedFiles' = merged(evictedFiles, evicted)
      BY <2>3, <3>1, Zenon DEF recordUpdate, mergeEvictedFiles, Updates
    <3>3. evictedFiles' \in Changes
      BY <3>2, MergeChanges, Zenon
    <3> HIDE DEF both
    <3> DEFINE count == IF u.canceledSlowPath THEN both.committedEditCount
                        ELSE both.committedEditCount + u.editCount
               timers == IF u.canceledSlowPath THEN both.timers ELSE pending.timers
    <3>3a. count \in Nat /\ timers \in Nat
      BY <3>1 DEF Updates
    <3>3b. pending' = [both EXCEPT !.committedEditCount = count, !.timers = timers]
      BY <3>2, Zenon
    <3>3c. ~u.canceledSlowPath =>
             count = both.committedEditCount + u.editCount /\ timers = pending.timers
      BY Zenon
    <3> HIDE DEF count, timers
    <3>4. /\ pending' \in Updates
          /\ pending'.files = both.files /\ pending'.hasNewFiles = both.hasNewFiles
          /\ pending'.editCount = both.editCount
          /\ pending'.committedEditCount = count /\ pending'.timers = timers
      BY <3>1, <3>3a, <3>3b, Zenon DEF Updates
    <3>5. ASSUME isCounted(pending), ~u.canceledSlowPath, u.committedEditCount = 0
          PROVE  isCounted(pending')
      BY <3>1, <3>3c, <3>4, <3>5 DEF isCounted, Updates
    <3> QED
      BY <2>3, <3>1, <3>2, <3>3, <3>4, <3>5, Zenon
  <2> QED
    BY <2>2, <2>3, Zenon DEF recordUpdate
\* The evicted files stay those of the table the slow path began with when an edit
\* is applied on top of the pending updates.
<1>CoversMerge.
  ASSUME NEW evicted \in Changes, NEW older \in Updates, NEW table \in Table,
         covers(evicted, older, table),
         NEW now \in Table, now = merged(older.files, table),
         NEW newly \in Changes, NEW u \in Updates,
         DOMAIN newly = {f \in DOMAIN u.files : now[f] # Absent},
         \A f \in DOMAIN newly : newly[f] = now[f],
         u.hasNewFiles <=> (\E f \in DOMAIN u.files : now[f] = Absent),
         NEW both \in Updates, both.files = merged(u.files, older.files),
         both.hasNewFiles <=> (u.hasNewFiles \/ older.hasNewFiles)
  PROVE  covers(merged(evicted, newly), both, table)
  <2> USE <1>CoversMerge
  <2> DEFINE all == merged(evicted, newly)
  <2>1. /\ DOMAIN all = DOMAIN evicted \cup DOMAIN newly
        /\ \A f \in DOMAIN evicted : all[f] = evicted[f]
        /\ \A f \in DOMAIN newly : f \notin DOMAIN evicted => all[f] = newly[f]
    BY MergeChanges, Zenon
  <2>a. u.files \in Changes /\ older.files \in Changes
    BY Zenon DEF Updates
  <2>2. /\ u.files \in Changes /\ older.files \in Changes
        /\ DOMAIN both.files = DOMAIN u.files \cup DOMAIN older.files
    <3>1. DOMAIN merged(u.files, older.files) = DOMAIN u.files \cup DOMAIN older.files
      BY <2>a, Zenon DEF merged
    <3> QED
      BY <2>a, <3>1, Zenon
  <2>3. /\ DOMAIN u.files \subseteq Files /\ DOMAIN newly \subseteq Files
        /\ \A f \in DOMAIN older.files : older.files[f] # Absent
    BY <2>2, ChangesType, Zenon
  <2>4. \A f \in Files : now[f] = IF f \in DOMAIN older.files THEN older.files[f] ELSE table[f]
    BY <2>2, MergeTable
  <2>5. ASSUME NEW f \in DOMAIN all
        PROVE  all[f] = table[f] \/ (table[f] = Absent /\ both.hasNewFiles)
    <3>1. CASE f \in DOMAIN evicted
      BY <2>1, <3>1, Zenon DEF covers
    <3>2. CASE f \notin DOMAIN evicted
      <4>1. f \in DOMAIN newly /\ all[f] = now[f] /\ f \in Files
        BY <2>1, <2>3, <3>2, Zenon
      <4>2. CASE f \in DOMAIN older.files
        BY <3>2, <4>2, Zenon DEF covers
      <4>3. CASE f \notin DOMAIN older.files
        BY <2>4, <4>1, <4>3, Zenon
      <4> QED
        BY <4>2, <4>3, Zenon
    <3> QED
      BY <3>1, <3>2, Zenon
  <2>6. ASSUME NEW f \in DOMAIN both.files
        PROVE  f \in DOMAIN all \/ (table[f] = Absent /\ both.hasNewFiles)
    <3>1. CASE f \in DOMAIN older.files
      BY <2>1, <3>1, Zenon DEF covers
    <3>2. CASE f \notin DOMAIN older.files
      <4>1. f \in DOMAIN u.files /\ f \in Files /\ now[f] = table[f]
        BY <2>2, <2>3, <2>4, <3>2, Zenon
      <4>2. now[f] # Absent => f \in DOMAIN all
        BY <2>1, <4>1, Zenon
      <4>3. now[f] = Absent => both.hasNewFiles
        BY <4>1, Zenon
      <4> QED
        BY <4>1, <4>2, <4>3, Zenon
    <3> QED
      BY <3>1, <3>2, Zenon
  <2> QED
    BY <2>5, <2>6, Zenon DEF covers
\* A first edit covers the files it replaces.
<1>CoversFirst.
  ASSUME NEW table \in Table, NEW evicted \in Changes, NEW u \in Updates,
         DOMAIN evicted = {f \in DOMAIN u.files : table[f] # Absent},
         \A f \in DOMAIN evicted : evicted[f] = table[f],
         u.hasNewFiles <=> (\E f \in DOMAIN u.files : table[f] = Absent)
  PROVE  covers(evicted, u, table)
  BY <1>CoversFirst, Zenon DEF covers
\* Edits that arrive leave the rest alone.
<1>RestUnchanged.
  ASSUME WInv, UNCHANGED <<indexerVars, taskVars, typecheckerVars, epochVars>>
  PROVE  /\ StatusIsRight' /\ TablesAgree' /\ PendingIsComplete' /\ EvictedIsComplete'
  <2> USE <1>RestUnchanged
  <2> USE DEF WInv, indexerVars, taskVars, typecheckerVars, epochVars, slowPathRunning,
              slowPathWasCanceled, base
  <2>1. StatusIsRight'
    BY Zenon DEF StatusIsRight
  <2>2. TablesAgree'
    BY Zenon DEF TablesAgree
  <2>3. PendingIsComplete'
    BY Zenon DEF PendingIsComplete
  <2>4. EvictedIsComplete'
    BY Zenon DEF EvictedIsComplete, covers
  <2> QED
    BY <2>1, <2>2, <2>3, <2>4, Zenon
\* A new edit joins the queue.
<1>EnqueueInv.
  ASSUME WInv, NEW S \in SUBSET Files, enqueueEdit(S)
  PROVE  WInv'
  <2> USE <1>EnqueueInv
  <2>a. WType /\ EpochsAreOrdered /\ TimersAreCounted /\ DecisionIsFresh
    BY Zenon DEF WInv
  <2>b. UNCHANGED <<indexerVars, taskVars, typecheckerVars, epochVars>>
    BY Zenon DEF enqueueEdit
  <2>1. StatusIsRight' /\ TablesAgree' /\ PendingIsComplete' /\ EvictedIsComplete'
    BY <2>b, <1>RestUnchanged, Zenon
  <2>2. PICK files \in [S -> Content(nextVersion)] :
          LET edit == workspaceEdit(nextVersion, files)
          IN  \/ queue' = Append(queue, edit) /\ cachedPath' = cachedPath
              \/ /\ queue # <<>>
                 /\ queue' = [queue EXCEPT ![Len(queue)] = mergeParams(queue[Len(queue)], edit)]
                 /\ cachedPath' = IF Len(queue) = 1 THEN "none" ELSE cachedPath
    BY Zenon DEF enqueueEdit
  <2> DEFINE edit == workspaceEdit(nextVersion, files)
  <2>3. /\ nextVersion \in Nat /\ queue \in Seq(Edit)
        /\ edit \in Edit /\ edit.epoch = nextVersion /\ edit.timers = edit.mergeCount + 1
    BY <2>a, WorkspaceEditType, Zenon DEF WType
  <2>4. nextVersion' = nextVersion + 1
    BY Zenon DEF enqueueEdit
  <2> HIDE DEF edit
  <2>5. /\ queue' \in Seq(Edit) /\ queue' # <<>> /\ Len(queue') \in Nat
        /\ \A k \in 1 .. Len(queue') :
             \/ k \in 1 .. Len(queue) /\ queue'[k] = queue[k]
             \/ k = Len(queue') /\ queue'[k].epoch = nextVersion
                  /\ queue'[k].timers = queue'[k].mergeCount + 1
        /\ cachedPath' # "none" =>
             cachedPath' = cachedPath /\ (queue # <<>> => Head(queue') = Head(queue))
        /\ cachedPath' \in {"none", cachedPath}
    <3>1. CASE queue' = Append(queue, edit) /\ cachedPath' = cachedPath
      BY <2>3, <3>1
    <3>2. CASE /\ queue # <<>>
               /\ queue' = [queue EXCEPT ![Len(queue)] = mergeParams(queue[Len(queue)], edit)]
               /\ cachedPath' = IF Len(queue) = 1 THEN "none" ELSE cachedPath
      <4>1. Len(queue) \in 1 .. Len(queue) /\ queue[Len(queue)] \in Edit
        BY <2>3, <3>2
      <4> DEFINE last == queue[Len(queue)]
                 both == mergeParams(last, edit)
      <4>2. last.timers = last.mergeCount + 1
        BY <2>a, <4>1, Zenon DEF TimersAreCounted
      <4>3. both \in Edit /\ both.epoch = nextVersion /\ both.timers = both.mergeCount + 1
        BY <2>3, <4>1, <4>2, MergeParamsType, Zenon
      <4> HIDE DEF both
      <4>4. queue' = [queue EXCEPT ![Len(queue)] = both]
        BY <3>2, Zenon DEF both
      <4>5. queue' \in Seq(Edit) /\ Len(queue') = Len(queue) /\ queue'[Len(queue)] = both
        BY <2>3, <4>1, <4>3, <4>4
      <4>6. \A k \in 1 .. Len(queue) : k # Len(queue) => queue'[k] = queue[k]
        BY <2>3, <4>4
      <4>7. \A k \in 1 .. Len(queue') :
              \/ k \in 1 .. Len(queue) /\ queue'[k] = queue[k]
              \/ k = Len(queue') /\ queue'[k] = both
        BY <4>5, <4>6, Zenon
      <4>8. Len(queue) # 1 => Head(queue') = Head(queue)
        BY <2>3, <4>1, <4>5, <4>6
      <4>9. queue' # <<>> /\ Len(queue') \in Nat
        BY <2>3, <4>1, <4>5
      <4> QED
        BY <3>2, <4>3, <4>5, <4>7, <4>8, <4>9, Zenon
    <3> QED
      BY <2>2, <3>1, <3>2, Zenon DEF edit
  <2> USE DEF indexerVars, taskVars, typecheckerVars, epochVars
  <2>6. WType'
    BY <2>a, <2>b, <2>3, <2>4, <2>5 DEF WType, slowPathRunning
  <2>7. EpochsAreOrdered'
    <3>1. WType
      BY <2>a, Zenon
    <3>2. \A k \in 1 .. Len(queue) : queue[k].epoch \in Nat
      BY <2>3, QueueEpochs, Zenon
    <3>4. (\A k \in 1 .. Len(queue) : queue[k].epoch < nextVersion /\ ~isUsed(queue[k].epoch))'
      <4>1. \A k \in 1 .. Len(queue') : queue'[k].epoch < nextVersion'
        BY <2>a, <2>3, <2>4, <2>5, <3>2 DEF EpochsAreOrdered
      <4>2. \A k \in 1 .. Len(queue') : ~isUsed(queue'[k].epoch)
        BY <2>a, <2>5, Zenon DEF EpochsAreOrdered, isUsed
      <4> QED
        BY <2>b, <4>1, <4>2, Zenon DEF isUsed
    <3>5. \A j, k \in 1 .. Len(queue') : j < k => queue'[j].epoch < queue'[k].epoch
      BY <2>a, <2>3, <2>5, <3>2 DEF EpochsAreOrdered
    <3>6. (task # "await" =>
             /\ update.epoch < nextVersion /\ ~isUsed(update.epoch)
             /\ \A k \in 1 .. Len(queue) : update.epoch < queue[k].epoch)'
      <4> SUFFICES ASSUME task # "await"
                   PROVE  /\ update.epoch < nextVersion + 1 /\ ~isUsed(update.epoch)
                          /\ \A k \in 1 .. Len(queue') : update.epoch < queue'[k].epoch
        BY <2>b, <2>4, Zenon DEF isUsed
      <4>1. update.epoch \in Nat
        BY <2>a, Zenon DEF WType, Edit, Updates
      <4>2. /\ update.epoch < nextVersion /\ ~isUsed(update.epoch)
            /\ \A k \in 1 .. Len(queue) : update.epoch < queue[k].epoch
        BY <2>a, Zenon DEF EpochsAreOrdered
      <4>3. update.epoch < nextVersion + 1
        BY <2>3, <4>1, <4>2
      <4>4. \A k \in 1 .. Len(queue') : update.epoch < queue'[k].epoch
        BY <2>5, <4>2, Zenon
      <4> QED
        BY <4>2, <4>3, <4>4, Zenon
    <3>7. ~isUsed(nextVersion)'
      BY <2>a, <2>b, <2>3, <2>4 DEF EpochsAreOrdered, isUsed, WType
    <3> QED
      BY <3>4, <3>5, <3>6, <3>7, Zenon DEF EpochsAreOrdered
  <2>8. TimersAreCounted'
    BY <2>a, <2>b, <2>5, Zenon DEF TimersAreCounted, isCounted, slowPathRunning
  <2>9. DecisionIsFresh'
    BY <2>a, <2>b, <2>5, Zenon DEF DecisionIsFresh
  <2> QED
    BY <2>1, <2>6, <2>7, <2>8, <2>9, Zenon DEF WInv
\* A message that takes a version and no more.
<1>SkipVersionInv. WInv /\ skipVersion => WInv'
  <2> SUFFICES ASSUME WInv, skipVersion PROVE WInv'
    BY Zenon
  <2>a. WType /\ EpochsAreOrdered /\ TimersAreCounted /\ DecisionIsFresh
    BY Zenon DEF WInv
  <2>b. UNCHANGED <<queue, cachedPath, indexerVars, taskVars, typecheckerVars, epochVars>>
    BY Zenon DEF skipVersion
  <2>1. StatusIsRight' /\ TablesAgree' /\ PendingIsComplete' /\ EvictedIsComplete'
    BY <2>b, <1>RestUnchanged, Zenon
  <2> USE DEF indexerVars, taskVars, typecheckerVars, epochVars
  <2>2. nextVersion' = nextVersion + 1 /\ nextVersion \in Nat
    BY <2>a, Zenon DEF skipVersion, WType
  <2>3. WType'
    BY <2>a, <2>b, <2>2 DEF WType, slowPathRunning
  <2>4. EpochsAreOrdered'
    <3>1. \A k \in 1 .. Len(queue) : queue[k].epoch \in Nat
      BY <2>a, QueueEpochs, Zenon DEF WType
    <3>2. task # "await" => update.epoch \in Nat
      BY <2>a, Zenon DEF WType, Edit, Updates
    <3> QED
      BY <2>a, <2>b, <2>2, <3>1, <3>2 DEF EpochsAreOrdered, isUsed, WType
  <2>5. TimersAreCounted' /\ DecisionIsFresh'
    BY <2>a, <2>b, Zenon DEF TimersAreCounted, isCounted, slowPathRunning, DecisionIsFresh
  <2> QED
    BY <2>1, <2>3, <2>4, <2>5, Zenon DEF WInv
\* Two edits in the queue become one.
<1>MergeQueuedInv. WInv /\ mergeQueued => WInv'
  <2> SUFFICES ASSUME WInv, mergeQueued PROVE WInv'
    BY Zenon
  <2>a. WType /\ EpochsAreOrdered /\ TimersAreCounted
    BY Zenon DEF WInv
  <2>b. /\ UNCHANGED <<nextVersion, indexerVars, taskVars, typecheckerVars, epochVars>>
        /\ cachedPath' = "none"
    BY Zenon DEF mergeQueued
  <2>1. StatusIsRight' /\ TablesAgree' /\ PendingIsComplete' /\ EvictedIsComplete'
    BY <2>b, <1>RestUnchanged, Zenon
  <2> USE DEF indexerVars, taskVars, typecheckerVars, epochVars
  <2> DEFINE both == mergeParams(queue[1], queue[2])
  <2>2. queue \in Seq(Edit)
    BY <2>a, Zenon DEF WType
  <2>3. /\ Len(queue) \in Nat /\ Len(queue) > 1 /\ queue[1] \in Edit /\ queue[2] \in Edit
        /\ queue' \in Seq(Edit) /\ Len(queue') = Len(queue) - 1
        /\ queue'[1] = both
        /\ \A k \in 2 .. Len(queue') : queue'[k] = queue[k + 1]
    BY <2>2, QueueMerged, Zenon
  <2>4. queue[1].timers = queue[1].mergeCount + 1 /\ queue[2].timers = queue[2].mergeCount + 1
    BY <2>a, <2>3 DEF TimersAreCounted
  <2>5. both.epoch = queue[2].epoch /\ both.timers = both.mergeCount + 1
    BY <2>3, <2>4, MergeParamsType, Zenon
  <2> HIDE DEF both
  <2>6. /\ queue' \in Seq(Edit) /\ Len(queue') = Len(queue) - 1
        /\ queue'[1].epoch = queue[2].epoch /\ queue'[1].timers = queue'[1].mergeCount + 1
        /\ \A k \in 2 .. Len(queue') : queue'[k] = queue[k + 1]
    BY <2>3, <2>5, Zenon
  <2>7. \A k \in 1 .. Len(queue') :
          /\ k + 1 \in 1 .. Len(queue) /\ queue'[k].epoch = queue[k + 1].epoch
          /\ queue'[k].timers = queue'[k].mergeCount + 1
    BY <2>a, <2>3, <2>6 DEF TimersAreCounted
  <2>8. WType'
    BY <2>a, <2>b, <2>6, Zenon DEF WType, slowPathRunning
  <2>9. EpochsAreOrdered'
    <3>1. (\A k \in 1 .. Len(queue) : queue[k].epoch < nextVersion /\ ~isUsed(queue[k].epoch))'
      BY <2>a, <2>b, <2>7, Zenon DEF EpochsAreOrdered, isUsed
    <3>2. (\A j, k \in 1 .. Len(queue) : j < k => queue[j].epoch < queue[k].epoch)'
      <4> SUFFICES ASSUME NEW j \in 1 .. Len(queue'), NEW k \in 1 .. Len(queue'), j < k
                   PROVE  queue'[j].epoch < queue'[k].epoch
        BY Zenon
      <4>1. j + 1 < k + 1 /\ j + 1 \in 1 .. Len(queue) /\ k + 1 \in 1 .. Len(queue)
        BY <2>3, <2>7
      <4> QED
        BY <2>a, <2>7, <4>1, Zenon DEF EpochsAreOrdered
    <3>3. (task # "await" =>
             /\ update.epoch < nextVersion /\ ~isUsed(update.epoch)
             /\ \A k \in 1 .. Len(queue) : update.epoch < queue[k].epoch)'
      BY <2>a, <2>b, <2>7, Zenon DEF EpochsAreOrdered, isUsed
    <3>4. ~isUsed(nextVersion)'
      BY <2>a, <2>b, Zenon DEF EpochsAreOrdered, isUsed
    <3> QED
      BY <3>1, <3>2, <3>3, <3>4, Zenon DEF EpochsAreOrdered
  <2>10. TimersAreCounted' /\ DecisionIsFresh'
    BY <2>a, <2>b, <2>7, Zenon DEF TimersAreCounted, isCounted, slowPathRunning, DecisionIsFresh
  <2> QED
    BY <2>1, <2>8, <2>9, <2>10, Zenon DEF WInv
\* The path of the head of the queue is decided ahead of time.
<1>DecideHeadInv. WInv /\ decideHead => WInv'
  <2> SUFFICES ASSUME WInv, decideHead PROVE WInv'
    BY Zenon
  <2>a. WType /\ EpochsAreOrdered /\ TimersAreCounted
    BY Zenon DEF WInv
  <2>b. UNCHANGED <<nextVersion, queue, indexerVars, taskVars, typecheckerVars, epochVars>>
    BY Zenon DEF decideHead
  <2>1. StatusIsRight' /\ TablesAgree' /\ PendingIsComplete' /\ EvictedIsComplete'
    BY <2>b, <1>RestUnchanged, Zenon
  <2> USE DEF indexerVars, taskVars, typecheckerVars, epochVars
  <2>2. WType'
    BY <2>a, <2>b, Zenon DEF WType, slowPathRunning, decideHead, getTypecheckingPathInternal
  <2>3. EpochsAreOrdered' /\ TimersAreCounted'
    BY <2>a, <2>b, Zenon DEF EpochsAreOrdered, isUsed, TimersAreCounted, isCounted, slowPathRunning
  <2>4. DecisionIsFresh'
    BY <2>b, Zenon DEF DecisionIsFresh, decideHead
  <2> QED
    BY <2>1, <2>2, <2>3, <2>4, Zenon DEF WInv
\* The queue after its head was taken.
<1>QueueTaken.
  ASSUME WInv, task = "await", queue # <<>>, popQueue, UNCHANGED epochVars
  PROVE  /\ task' = "await" \/ update'.epoch = Head(queue).epoch => EpochsAreOrdered'
         /\ Head(queue) \in Edit /\ queue' \in Seq(Edit)
         /\ Head(queue).timers = Head(queue).mergeCount + 1
         /\ \A k \in 1 .. Len(queue') : queue'[k].timers = queue'[k].mergeCount + 1
         /\ cachedPath' = "none" /\ nextVersion' = nextVersion
  <2> USE <1>QueueTaken
  <2>a. WType /\ EpochsAreOrdered /\ TimersAreCounted
    BY Zenon DEF WInv
  <2>1. queue \in Seq(Edit)
    BY <2>a, Zenon DEF WType
  <2>2. /\ Head(queue) = queue[1] /\ Head(queue) \in Edit /\ 1 \in 1 .. Len(queue)
        /\ queue' \in Seq(Edit)
        /\ \A k \in 1 .. Len(queue') : k + 1 \in 1 .. Len(queue) /\ queue'[k] = queue[k + 1]
        /\ cachedPath' = "none" /\ nextVersion' = nextVersion
    BY <2>1, QueuePopped, Zenon
  <2>3. \A k \in 1 .. Len(queue') : k + 1 > 1 /\ k \in Nat
    BY <2>2
  <2>4. ~isUsed(nextVersion)'
    BY <2>a, <2>2, Zenon DEF EpochsAreOrdered, isUsed, epochVars
  <2>5. (\A k \in 1 .. Len(queue) : queue[k].epoch < nextVersion /\ ~isUsed(queue[k].epoch))'
    BY <2>a, <2>2, Zenon DEF EpochsAreOrdered, isUsed, epochVars
  <2>6. (\A j, k \in 1 .. Len(queue) : j < k => queue[j].epoch < queue[k].epoch)'
    <3> SUFFICES ASSUME NEW j \in 1 .. Len(queue'), NEW k \in 1 .. Len(queue'), j < k
                 PROVE  queue'[j].epoch < queue'[k].epoch
      BY Zenon
    <3>1. j + 1 < k + 1
      BY <2>3
    <3> QED
      BY <2>a, <2>2, <3>1, Zenon DEF EpochsAreOrdered
  <2>7. Head(queue).epoch < nextVersion /\ ~isUsed(Head(queue).epoch)
    BY <2>a, <2>2, Zenon DEF EpochsAreOrdered
  <2>8. \A k \in 1 .. Len(queue') : Head(queue).epoch < queue'[k].epoch
    BY <2>a, <2>2, <2>3, Zenon DEF EpochsAreOrdered
  <2>9. ASSUME task' = "await" \/ update'.epoch = Head(queue).epoch
        PROVE  EpochsAreOrdered'
    <3>1. (task # "await" =>
             /\ update.epoch < nextVersion /\ ~isUsed(update.epoch)
             /\ \A k \in 1 .. Len(queue) : update.epoch < queue[k].epoch)'
      BY <2>2, <2>7, <2>8, <2>9, Zenon DEF isUsed, epochVars
    <3> QED
      BY <2>4, <2>5, <2>6, <3>1, Zenon DEF EpochsAreOrdered
  <2>10. /\ Head(queue).timers = Head(queue).mergeCount + 1
         /\ \A k \in 1 .. Len(queue') : queue'[k].timers = queue'[k].mergeCount + 1
    BY <2>a, <2>2, Zenon DEF TimersAreCounted
  <2> QED
    BY <2>2, <2>9, <2>10, Zenon
\* The indexer takes an edit, and sees whether a slow path is running.
<1>CommitEditInv. WInv /\ commitEdit => WInv'
  <2> SUFFICES ASSUME WInv, commitEdit PROVE WInv'
    BY Zenon
  <2>a. /\ WType /\ StatusIsRight /\ TablesAgree /\ PendingIsComplete /\ EvictedIsComplete
        /\ TimersAreCounted /\ DecisionIsFresh
    BY Zenon DEF WInv
  <2> DEFINE edit == Head(queue)
             u == indexedUpdate(edit)
             evicted == newlyEvicted(edit)
  <2>b. /\ task = "await" /\ queue # <<>> /\ popQueue
        /\ slowPathRunning => cachedPath = "slow"
        /\ indexerFiles' = merged(edit.files, indexerFiles)
        /\ update' = u
        /\ \/ /\ slowPathRunning /\ u.path # "fast"
              /\ task' = "cancel"
              /\ newlyEvictedFiles' = evicted
              /\ UNCHANGED <<pending, evictedFiles>>
           \/ /\ ~(slowPathRunning /\ u.path # "fast")
              /\ task' = "ready"
              /\ recordUpdate(u, evicted)
              /\ UNCHANGED newlyEvictedFiles
        /\ UNCHANGED <<typecheckerVars, epochVars>>
    BY Zenon DEF commitEdit, headIsTaken
  <2>c. /\ indexerFiles \in Table /\ typecheckerFiles = indexerFiles
        /\ pending \in Updates /\ evictedFiles \in Changes
    BY <2>a, <2>b, Zenon DEF WType, TablesAgree
  <2>1. /\ update'.epoch = edit.epoch => EpochsAreOrdered'
        /\ edit \in Edit /\ queue' \in Seq(Edit)
        /\ edit.timers = edit.mergeCount + 1
        /\ \A k \in 1 .. Len(queue') : queue'[k].timers = queue'[k].mergeCount + 1
        /\ cachedPath' = "none" /\ nextVersion' = nextVersion
    BY <2>b, <1>QueueTaken, Zenon
  <2> HIDE DEF edit
  <2>2. /\ u \in Updates
        /\ u.epoch = edit.epoch /\ u.files = edit.files
        /\ u.hasNewFiles = (\E f \in DOMAIN edit.files : indexerFiles[f] = Absent)
        /\ u.editCount = edit.mergeCount + 1 /\ u.committedEditCount = 0
        /\ u.timers = edit.timers /\ ~u.canceledSlowPath
    BY <2>c, <2>1, IndexedUpdateType, Zenon
  <2>3. /\ evicted \in Changes
        /\ DOMAIN evicted = {f \in DOMAIN edit.files : indexerFiles[f] # Absent}
        /\ \A f \in DOMAIN evicted : evicted[f] = indexerFiles[f]
    BY <2>c, <2>1, NewlyEvictedType, Zenon
  <2>4. slowPathRunning => u.path = "slow"
    BY <2>a, <2>b, <2>c, <2>1, SameDecision, Zenon DEF DecisionIsFresh, edit
  <2> HIDE DEF u, evicted
  <2>5. indexerFiles' \in Table
    BY <2>b, <2>c, <2>1, MergeTable, Zenon DEF Edit
  <2>6. u.path \in {"fast", "slow"}
    BY <2>2, Zenon DEF Updates
  <2>7. isCounted(u)
    BY <2>1, <2>2 DEF isCounted, Updates
  <2>8. EpochsAreOrdered'
    BY <2>b, <2>1, <2>2, Zenon
  <2>9. DecisionIsFresh'
    BY <2>1, Zenon DEF DecisionIsFresh
  <2> USE DEF typecheckerVars, epochVars, slowPathRunning, slowPathWasCanceled
  <2>10. CASE slowPathRunning
    <3>1. /\ task' = "cancel" /\ newlyEvictedFiles' = evicted
          /\ UNCHANGED <<pending, evictedFiles>> /\ u.path = "slow"
      BY <2>b, <2>4, <2>10, Zenon
    <3>2. WType'
      BY <2>a, <2>b, <2>1, <2>2, <2>3, <2>5, <3>1, Zenon DEF WType
    <3>3. StatusIsRight'
      BY <2>a, <2>b, <2>2, <3>1, Zenon DEF StatusIsRight
    <3>4. TablesAgree'
      BY <2>b, <2>c, <2>2, <3>1, Zenon DEF TablesAgree
    <3>5. PendingIsComplete'
      BY <2>a, <2>b, <3>1, Zenon DEF PendingIsComplete
    <3>6. EvictedIsComplete'
      BY <2>a, <2>b, <2>c, <2>2, <2>3, <3>1, Zenon DEF EvictedIsComplete, covers
    <3>7. TimersAreCounted'
      BY <2>a, <2>b, <2>1, <2>7, <3>1, Zenon DEF TimersAreCounted, isCounted
    <3> QED
      BY <2>8, <2>9, <3>2, <3>3, <3>4, <3>5, <3>6, <3>7, Zenon DEF WInv
  <2>11. CASE ~slowPathRunning
    <3>1. task' = "ready" /\ recordUpdate(u, evicted) /\ UNCHANGED newlyEvictedFiles
      BY <2>b, <2>11, Zenon
    <3>2. /\ pending' \in Updates /\ evictedFiles' \in Changes
          /\ u.path = "slow" => pending' = copyUpdates(u) /\ evictedFiles' = evicted
      BY <2>c, <2>2, <2>3, <3>1, <1>RecordUpdateType, Zenon
    <3>3. WType'
      BY <2>a, <2>b, <2>1, <2>2, <2>5, <2>11, <3>1, <3>2, Zenon DEF WType
    <3>4. StatusIsRight'
      BY <2>a, <2>b, <2>11, <3>1, Zenon DEF StatusIsRight
    <3>5. TablesAgree'
      BY <2>b, <2>c, <2>2, <2>11, <3>1, Zenon DEF TablesAgree, base
    <3>6. PendingIsComplete'
      BY <2>b, <3>1, <3>2, Zenon DEF PendingIsComplete
    <3>7. EvictedIsComplete'
      <4>1. u.path = "slow" => covers(evictedFiles', pending', typecheckerFiles)
        <5> SUFFICES ASSUME u.path = "slow" PROVE covers(evicted, pending', typecheckerFiles)
          BY <3>2, Zenon
        <5>1. pending'.files = u.files /\ pending'.hasNewFiles = u.hasNewFiles
          BY <2>2, <3>2, <1>CopyUpdatesType, Zenon
        <5> QED
          BY <2>c, <2>2, <2>3, <3>2, <5>1, <1>CoversFirst, Zenon
      <4> QED
        BY <2>b, <2>11, <3>1, <4>1, Zenon DEF EvictedIsComplete, covers, base
    <3>8. TimersAreCounted'
      BY <2>a, <2>b, <2>1, <2>7, <3>1, Zenon DEF TimersAreCounted, isCounted
    <3> QED
      BY <2>8, <2>9, <3>3, <3>4, <3>5, <3>6, <3>7, <3>8, Zenon DEF WInv
  <2> QED
    BY <2>10, <2>11, Zenon
\* An edit with too many files goes to the typechecker unindexed.
<1>LeaveToTypecheckerInv. WInv /\ leaveToTypechecker => WInv'
  <2> SUFFICES ASSUME WInv, leaveToTypechecker PROVE WInv'
    BY Zenon
  <2>a. /\ WType /\ StatusIsRight /\ TablesAgree /\ PendingIsComplete /\ EvictedIsComplete
        /\ TimersAreCounted
    BY Zenon DEF WInv
  <2>b. /\ task = "await" /\ queue # <<>> /\ popQueue
        /\ ~(Cardinality(DOMAIN Head(queue).files) <= LspMaxFilesOnFastPath)
        /\ task' = "bulk" /\ update' = Head(queue)
        /\ UNCHANGED <<indexerVars, newlyEvictedFiles, typecheckerVars, epochVars>>
    BY Zenon DEF leaveToTypechecker, headIsTaken
  <2>1. /\ EpochsAreOrdered' /\ update' \in Edit /\ queue' \in Seq(Edit)
        /\ update'.timers = update'.mergeCount + 1
        /\ \A k \in 1 .. Len(queue') : queue'[k].timers = queue'[k].mergeCount + 1
        /\ cachedPath' = "none" /\ nextVersion' = nextVersion
    BY <2>b, <1>QueueTaken, Zenon DEF epochVars
  <2> USE DEF indexerVars, typecheckerVars, epochVars, slowPathRunning, slowPathWasCanceled
  <2>2. WType'
    BY <2>a, <2>b, <2>1, Zenon DEF WType
  <2>3. StatusIsRight' /\ TablesAgree'
    BY <2>a, <2>b, Zenon DEF StatusIsRight, TablesAgree
  <2>4. PendingIsComplete' /\ EvictedIsComplete'
    BY <2>a, <2>b, Zenon DEF PendingIsComplete, EvictedIsComplete, covers
  <2>5. TimersAreCounted' /\ DecisionIsFresh'
    BY <2>a, <2>b, <2>1, Zenon DEF TimersAreCounted, isCounted, DecisionIsFresh
  <2> QED
    BY <2>1, <2>2, <2>3, <2>4, <2>5, Zenon DEF WInv
\* The slow path is canceled, or has ended in the meantime.
<1>TryCancelInv. WInv /\ tryCancelSlowPath => WInv'
  <2> SUFFICES ASSUME WInv, tryCancelSlowPath PROVE WInv'
    BY Zenon
  <2>a. /\ WType /\ EpochsAreOrdered /\ StatusIsRight /\ TablesAgree /\ PendingIsComplete
        /\ EvictedIsComplete /\ TimersAreCounted /\ DecisionIsFresh
    BY Zenon DEF WInv
  <2>b. /\ task = "cancel" /\ task' = "ready" /\ newlyEvictedFiles' = NoFiles
        /\ UNCHANGED <<queueVars, indexerFiles, typecheckerVars>>
    BY Zenon DEF tryCancelSlowPath
  <2>c. /\ indexerFiles \in Table /\ typecheckerFiles \in Table
        /\ pending \in Updates /\ update \in Updates
        /\ evictedFiles \in Changes /\ newlyEvictedFiles \in Changes
        /\ slowPathRunning => undo \in [epoch : Nat, files : Table]
    BY <2>a, <2>b, Zenon DEF WType
  <2>d. /\ merged(update.files, typecheckerFiles) = indexerFiles
        /\ isCounted(update) /\ ~isUsed(update.epoch)
        /\ update.path = "slow" /\ ~update.canceledSlowPath /\ ~slowPathWasCanceled
        /\ DOMAIN newlyEvictedFiles = {f \in DOMAIN update.files : typecheckerFiles[f] # Absent}
        /\ \A f \in DOMAIN newlyEvictedFiles : newlyEvictedFiles[f] = typecheckerFiles[f]
        /\ update.hasNewFiles = (\E f \in DOMAIN update.files : typecheckerFiles[f] = Absent)
    BY <2>a, <2>b, Zenon DEF TablesAgree, TimersAreCounted, EpochsAreOrdered, StatusIsRight, EvictedIsComplete
  <2>e. cachedPath = "none"
    BY <2>a, <2>b, Zenon DEF DecisionIsFresh
  <2> USE DEF queueVars, typecheckerVars, epochVars
  <2>1. CASE cancelSlowPath(update.epoch)
    <3> DEFINE evicted == merged(evictedFiles, newlyEvictedFiles)
               w == cancelingUpdate(evicted)
    <3>1. update' = w /\ recordUpdate(w, evicted)
      BY <2>1, Zenon DEF tryCancelSlowPath, mergeEvictedFiles, cancelSlowPath
    <3>2. /\ slowPathRunning /\ UNCHANGED <<currentlyProcessingLSPEpoch, lastCommittedLSPEpoch>>
          /\ lspEpochInvalidator' = update.epoch /\ update.epoch # currentlyProcessingLSPEpoch
      BY <2>1, Zenon DEF cancelSlowPath, canCancelSlowPath
    <3>3. /\ w \in Updates
          /\ w.epoch = update.epoch /\ w.files = merged(update.files, pending.files)
          /\ w.hasNewFiles <=> (update.hasNewFiles \/ pending.hasNewFiles)
          /\ w.editCount = update.editCount + pending.editCount
          /\ w.committedEditCount = update.committedEditCount + pending.committedEditCount
          /\ w.timers = update.timers + pending.timers
      BY <2>c, CancelingUpdateType, Zenon
    <3>4. evicted \in Changes
      BY <2>c, MergeChanges, Zenon
    <3>5. /\ merged(pending.files, undo.files) = typecheckerFiles
          /\ covers(evictedFiles, pending, undo.files)
          /\ isCounted(pending)
          /\ undo.files \in Table
      BY <2>a, <2>b, <2>c, <3>2, Zenon DEF PendingIsComplete, EvictedIsComplete, TimersAreCounted
    <3>6. merged(w.files, undo.files) = indexerFiles
      <4>1. update.files \in Changes /\ pending.files \in Changes
        BY <2>c, Zenon DEF Updates
      <4>2. merged(merged(update.files, pending.files), undo.files) =
              merged(update.files, merged(pending.files, undo.files))
        BY <3>5, <4>1, MergeAssociates, Zenon
      <4> QED
        BY <2>d, <3>3, <3>5, <4>2, Zenon
    <3> HIDE DEF w
    <3>7. covers(evicted, w, undo.files)
      <4>1. update.hasNewFiles <=> (\E f \in DOMAIN update.files : typecheckerFiles[f] = Absent)
        BY <2>d, Zenon
      <4>2. typecheckerFiles = merged(pending.files, undo.files)
        BY <3>5, Zenon
      <4> QED
        <5>1. /\ evictedFiles \in Changes /\ pending \in Updates /\ undo.files \in Table
              /\ covers(evictedFiles, pending, undo.files)
              /\ typecheckerFiles \in Table
              /\ newlyEvictedFiles \in Changes /\ update \in Updates
              /\ DOMAIN newlyEvictedFiles = {f \in DOMAIN update.files : typecheckerFiles[f] # Absent}
              /\ \A f \in DOMAIN newlyEvictedFiles : newlyEvictedFiles[f] = typecheckerFiles[f]
          BY <2>c, <2>d, <3>5, Zenon
        <5>2. /\ w \in Updates /\ w.files = merged(update.files, pending.files)
              /\ w.hasNewFiles <=> (update.hasNewFiles \/ pending.hasNewFiles)
          BY <3>3, Zenon
        <5> QED
          BY <4>1, <4>2, <5>1, <5>2, <1>CoversMerge, Zenon
    <3>8. isCounted(w)
      <4>1. /\ update.editCount \in Nat /\ update.committedEditCount \in Nat /\ update.timers \in Nat
            /\ pending.editCount \in Nat /\ pending.committedEditCount \in Nat
            /\ pending.timers \in Nat
        BY <2>c, Zenon DEF Updates
      <4> QED
        BY <2>d, <3>3, <3>5, <4>1 DEF isCounted
    <3> HIDE DEF evicted
    <3>9. /\ pending' \in Updates /\ evictedFiles' \in Changes
          /\ w.path = "slow" => pending' = copyUpdates(w) /\ evictedFiles' = evicted
      BY <2>c, <3>1, <3>3, <3>4, <1>RecordUpdateType, Zenon
    <3>10. slowPathRunning' /\ slowPathWasCanceled' /\ base' = undo.files
      BY <2>b, <3>2, Zenon DEF slowPathRunning, slowPathWasCanceled, base
    <3>11. WType'
      <4>1. update.epoch \in Nat
        BY <2>c, Zenon DEF Updates
      <4> QED
        BY <2>a, <2>b, <2>c, <3>1, <3>2, <3>3, <3>9, <4>1, NoFilesIsChanges, Zenon DEF WType
    <3>12. EpochsAreOrdered'
      BY <2>a, <2>b, <3>1, <3>2, <3>3, Zenon DEF EpochsAreOrdered, isUsed
    <3>13. StatusIsRight'
      BY <2>a, <2>b, <3>2, <3>10, Zenon DEF StatusIsRight
    <3>14. TablesAgree'
      BY <2>b, <3>1, <3>6, <3>10, Zenon DEF TablesAgree
    <3>15. PendingIsComplete'
      BY <2>b, <3>1, <3>9, Zenon DEF PendingIsComplete
    <3>16. EvictedIsComplete'
      <4>1. w.path = "slow" => covers(evictedFiles', pending', undo.files)
        <5> SUFFICES ASSUME w.path = "slow" PROVE covers(evicted, pending', undo.files)
          BY <3>9, Zenon
        <5>1. pending'.files = w.files /\ pending'.hasNewFiles = w.hasNewFiles
          BY <3>3, <3>9, <1>CopyUpdatesType, Zenon
        <5> QED
          BY <3>7, <5>1, Zenon DEF covers
      <4> QED
        BY <2>b, <3>1, <3>10, <4>1, Zenon DEF EvictedIsComplete, covers
    <3>17. TimersAreCounted' /\ DecisionIsFresh'
      BY <2>a, <2>b, <2>e, <3>1, <3>8, Zenon DEF TimersAreCounted, isCounted, DecisionIsFresh
    <3> QED
      BY <3>11, <3>12, <3>13, <3>14, <3>15, <3>16, <3>17, Zenon DEF WInv
  <2>2. CASE /\ ~canCancelSlowPath(update.epoch) /\ recordUpdate(update, newlyEvictedFiles)
             /\ UNCHANGED <<update, epochVars>>
    <3>1. ~slowPathRunning /\ ~slowPathRunning' /\ ~slowPathWasCanceled'
      <4>1. update.epoch # currentlyProcessingLSPEpoch
        BY <2>a, <2>c, <2>d DEF isUsed, WType, Updates
      <4> QED
        BY <2>2, <2>d, <4>1, Zenon DEF canCancelSlowPath, slowPathRunning, slowPathWasCanceled
    <3>2. /\ pending' \in Updates /\ evictedFiles' \in Changes
          /\ pending' = copyUpdates(update) /\ evictedFiles' = newlyEvictedFiles
      BY <2>2, <2>c, <2>d, <1>RecordUpdateType, Zenon
    <3>3. base' = typecheckerFiles
      BY <2>b, <3>1, Zenon DEF base
    <3>4. WType'
      BY <2>2, <2>a, <2>b, <2>c, <3>1, <3>2, NoFilesIsChanges, Zenon DEF WType
    <3>5. EpochsAreOrdered'
      BY <2>2, <2>a, <2>b, Zenon DEF EpochsAreOrdered, isUsed
    <3>6. StatusIsRight'
      BY <2>2, <2>a, <2>b, <3>1, Zenon DEF StatusIsRight
    <3>7. TablesAgree' /\ PendingIsComplete'
      BY <2>2, <2>b, <2>d, <3>2, <3>3, Zenon DEF TablesAgree, PendingIsComplete
    <3>8. EvictedIsComplete'
      <4>1. covers(evictedFiles', pending', typecheckerFiles)
        <5>1. pending'.files = update.files /\ pending'.hasNewFiles = update.hasNewFiles
          BY <2>c, <3>2, <1>CopyUpdatesType, Zenon
        <5> QED
          BY <2>c, <2>d, <3>2, <5>1, <1>CoversFirst, Zenon
      <4> QED
        BY <2>2, <2>b, <3>3, <4>1, Zenon DEF EvictedIsComplete, covers
    <3>9. TimersAreCounted' /\ DecisionIsFresh'
      BY <2>2, <2>a, <2>b, <2>e, Zenon DEF TimersAreCounted, isCounted, DecisionIsFresh
    <3> QED
      BY <3>4, <3>5, <3>6, <3>7, <3>8, <3>9, Zenon DEF WInv
  <2> QED
    BY <2>1, <2>2, Zenon DEF tryCancelSlowPath, cancelSlowPath
\* An update on the fast path, after the canceled slow path is undone.
<1>RunFastPathInv. WInv /\ runFastPath => WInv'
  <2> SUFFICES ASSUME WInv, runFastPath PROVE WInv'
    BY Zenon
  <2>a. /\ WType /\ EpochsAreOrdered /\ StatusIsRight /\ TablesAgree
        /\ TimersAreCounted /\ DecisionIsFresh
    BY Zenon DEF WInv
  <2>b. /\ task = "ready" /\ task' = "await" /\ slowPath = "idle"
        /\ typecheckerFiles' = merged(update.files, typecheckerFiles)
        /\ UNCHANGED <<newlyEvictedFiles, queueVars, indexerVars, slowPath, epochVars>>
    BY Zenon DEF runFastPath, taskDone
  <2> USE DEF indexerVars, queueVars, epochVars
  <2>1. /\ ~slowPathRunning /\ ~slowPathWasCanceled
        /\ ~slowPathRunning' /\ ~slowPathWasCanceled'
    BY <2>a, <2>b, Zenon DEF StatusIsRight, slowPathRunning, slowPathWasCanceled
  <2>2. typecheckerFiles' = indexerFiles
    BY <2>a, <2>b, <2>1, Zenon DEF TablesAgree, base
  <2>3. WType'
    BY <2>a, <2>b, <2>1, <2>2, Zenon DEF WType
  <2>4. EpochsAreOrdered' /\ StatusIsRight'
    BY <2>a, <2>b, <2>1, Zenon DEF EpochsAreOrdered, isUsed, StatusIsRight
  <2>5. TablesAgree' /\ PendingIsComplete' /\ EvictedIsComplete'
    BY <2>b, <2>1, <2>2, Zenon DEF TablesAgree, PendingIsComplete, EvictedIsComplete
  <2>6. TimersAreCounted' /\ DecisionIsFresh'
    BY <2>a, <2>b, <2>1, Zenon DEF TimersAreCounted, DecisionIsFresh
  <2> QED
    BY <2>3, <2>4, <2>5, <2>6, Zenon DEF WInv
\* A slow path begins: the pending updates, put on top of what is saved, are the
\* files it typechecks.
<1>BeginSlowPathInv.
  ASSUME WInv, task # "await", NEW u \in Updates, u.epoch = update.epoch, ~slowPathRunning,
         beginSlowPath(u), task' = "await", UNCHANGED queueVars, UNCHANGED newlyEvictedFiles,
         indexerFiles' = merged(u.files, typecheckerFiles),
         pending' = copyUpdates(u), evictedFiles' \in Changes,
         covers(evictedFiles', pending', typecheckerFiles), isCounted(u)
  PROVE  WInv'
  <2> USE <1>BeginSlowPathInv
  <2>a. WType /\ EpochsAreOrdered /\ StatusIsRight /\ TimersAreCounted /\ DecisionIsFresh
    BY Zenon DEF WInv
  <2>b. /\ currentlyProcessingLSPEpoch' = u.epoch /\ lspEpochInvalidator' = u.epoch
        /\ UNCHANGED lastCommittedLSPEpoch
        /\ undo' = [epoch |-> u.epoch, files |-> typecheckerFiles]
        /\ typecheckerFiles' = merged(u.files, typecheckerFiles)
        /\ slowPath' = "resolve"
    BY Zenon DEF beginSlowPath, startCommitEpoch
  <2>1. u.epoch \in Nat /\ u.files \in Changes /\ typecheckerFiles \in Table
    BY <2>a, Zenon DEF Updates, WType
  <2>2. ~isUsed(u.epoch) /\ u.epoch < nextVersion
        /\ \A k \in 1 .. Len(queue) : u.epoch < queue[k].epoch
    BY <2>a, Zenon DEF EpochsAreOrdered
  <2>3. slowPathRunning' /\ ~slowPathWasCanceled'
    BY <2>a, <2>b, <2>1, <2>2 DEF slowPathRunning, slowPathWasCanceled, isUsed, WType
  <2>4. pending' \in Updates /\ pending'.files = u.files /\ isCounted(pending')
    BY <1>CopyUpdatesType, Zenon DEF isCounted
  <2>5. typecheckerFiles' \in Table /\ typecheckerFiles' = indexerFiles'
    BY <2>b, <2>1, MergeTable, Zenon
  <2>6. undo' \in [epoch : Nat, files : Table] /\ undo'.files = typecheckerFiles
    BY <2>b, <2>1, Zenon
  <2>7. WType'
    BY <2>a, <2>b, <2>1, <2>4, <2>5, <2>6, Zenon DEF WType, queueVars
  <2>8. EpochsAreOrdered'
    <3>1. \A k \in 1 .. Len(queue) : queue[k].epoch \in Nat
      BY <2>a, QueueEpochs, Zenon DEF WType
    <3>2. /\ UNCHANGED <<queue, nextVersion, lastCommittedLSPEpoch>>
          /\ currentlyProcessingLSPEpoch' = u.epoch /\ task' = "await"
      BY <2>b, Zenon DEF queueVars
    <3>3. /\ lastCommittedLSPEpoch \in Nat /\ nextVersion \in Nat
          /\ ~(lastCommittedLSPEpoch >= nextVersion)
          /\ \A k \in 1 .. Len(queue) :
               ~(lastCommittedLSPEpoch >= queue[k].epoch) /\ queue[k].epoch < nextVersion
          /\ \A j, k \in 1 .. Len(queue) : j < k => queue[j].epoch < queue[k].epoch
      BY <2>a, Zenon DEF EpochsAreOrdered, isUsed, WType
    <3>4. \A m, n \in Nat : m < n => ~(m >= n)
      OBVIOUS
    <3>5. ~(u.epoch >= nextVersion) /\ \A k \in 1 .. Len(queue) : ~(u.epoch >= queue[k].epoch)
      BY <2>1, <2>2, <3>1, <3>3, <3>4, Zenon
    <3> QED
      BY <3>2, <3>3, <3>5, Zenon DEF EpochsAreOrdered, isUsed
  <2>9. StatusIsRight'
    BY <2>b, <2>3, Zenon DEF StatusIsRight
  <2>10. TablesAgree' /\ PendingIsComplete'
    BY <2>b, <2>4, <2>5, <2>6, Zenon DEF TablesAgree, PendingIsComplete
  <2>11. EvictedIsComplete'
    BY <2>6, Zenon DEF EvictedIsComplete, covers
  <2>12. TimersAreCounted' /\ DecisionIsFresh'
    BY <2>a, <2>4, Zenon DEF TimersAreCounted, isCounted, DecisionIsFresh, queueVars
  <2> QED
    BY <2>7, <2>8, <2>9, <2>10, <2>11, <2>12, Zenon DEF WInv
\* An update on the slow path begins.
<1>RunSlowPathInv. WInv /\ runSlowPath => WInv'
  <2> SUFFICES ASSUME WInv, runSlowPath PROVE WInv'
    BY Zenon
  <2>a. /\ WType /\ StatusIsRight /\ TablesAgree /\ PendingIsComplete
        /\ EvictedIsComplete /\ TimersAreCounted
    BY Zenon DEF WInv
  <2>b. /\ task = "ready" /\ update.path = "slow" /\ slowPath = "idle"
        /\ beginSlowPath(update) /\ task' = "await"
        /\ UNCHANGED <<newlyEvictedFiles, queueVars, indexerVars>>
    BY Zenon DEF runSlowPath, taskDone
  <2>1. ~slowPathRunning /\ update \in Updates /\ base = typecheckerFiles
    BY <2>a, <2>b, Zenon DEF StatusIsRight, WType, base
  <2>2. /\ indexerFiles' = merged(update.files, typecheckerFiles)
        /\ pending' = copyUpdates(update) /\ evictedFiles' \in Changes
        /\ covers(evictedFiles', pending', typecheckerFiles) /\ isCounted(update)
    BY <2>a, <2>b, <2>1, Zenon
       DEF indexerVars, TablesAgree, PendingIsComplete, EvictedIsComplete, TimersAreCounted, WType
  <2> QED
    BY <2>b, <2>1, <2>2, <1>BeginSlowPathInv, Zenon
\* An edit with too many files is indexed and begins a slow path.
<1>RunBulkSlowPathInv. WInv /\ runBulkSlowPath => WInv'
  <2> SUFFICES ASSUME WInv, runBulkSlowPath PROVE WInv'
    BY Zenon
  <2>a. WType /\ StatusIsRight /\ TablesAgree /\ TimersAreCounted
    BY Zenon DEF WInv
  <2> DEFINE u == indexedUpdate(update)
             evicted == newlyEvicted(update)
  <2>b. /\ task = "bulk" /\ slowPath = "idle"
        /\ indexerFiles' = merged(u.files, indexerFiles)
        /\ recordUpdate(u, evicted)
        /\ beginSlowPath(u) /\ task' = "await"
        /\ UNCHANGED newlyEvictedFiles /\ UNCHANGED queueVars
    BY Zenon DEF runBulkSlowPath, taskDone
  <2>1. /\ ~slowPathRunning /\ update \in Edit /\ indexerFiles \in Table
        /\ typecheckerFiles = indexerFiles /\ pending \in Updates /\ evictedFiles \in Changes
        /\ update.timers = update.mergeCount + 1
        /\ ~(Cardinality(DOMAIN update.files) <= LspMaxFilesOnFastPath)
    BY <2>a, <2>b, Zenon DEF StatusIsRight, WType, TablesAgree, TimersAreCounted
  <2>2. /\ u \in Updates
        /\ u.epoch = update.epoch /\ u.files = update.files
        /\ u.hasNewFiles = (\E f \in DOMAIN update.files : indexerFiles[f] = Absent)
        /\ u.editCount = update.mergeCount + 1 /\ u.committedEditCount = 0
        /\ u.timers = update.timers
    BY <2>1, IndexedUpdateType, Zenon
  <2>3. /\ evicted \in Changes
        /\ DOMAIN evicted = {f \in DOMAIN update.files : indexerFiles[f] # Absent}
        /\ \A f \in DOMAIN evicted : evicted[f] = indexerFiles[f]
    BY <2>1, NewlyEvictedType, Zenon
  <2>4. u.path = "slow"
    BY <2>1, <1>BulkUpdateIsSlow, Zenon
  <2> HIDE DEF u, evicted
  <2>5. pending' = copyUpdates(u) /\ evictedFiles' = evicted
    BY <2>b, <2>1, <2>2, <2>3, <2>4, <1>RecordUpdateType, Zenon
  <2>6. /\ pending' \in Updates
        /\ pending'.files = u.files /\ pending'.hasNewFiles = u.hasNewFiles
    BY <2>2, <2>5, <1>CopyUpdatesType, Zenon
  <2>7. covers(evictedFiles', pending', typecheckerFiles)
    BY <2>1, <2>2, <2>3, <2>5, <2>6, <1>CoversFirst, Zenon
  <2>8. isCounted(u)
    BY <2>1, <2>2 DEF isCounted, Edit
  <2> QED
    BY <2>b, <2>1, <2>2, <2>3, <2>5, <2>7, <2>8, <1>BeginSlowPathInv, Zenon
\* The slow path has resolved its files.
<1>ResolveInv. WInv /\ resolve => WInv'
  <2> SUFFICES ASSUME WInv, resolve PROVE WInv'
    BY Zenon
  <2>a. /\ WType /\ EpochsAreOrdered /\ StatusIsRight /\ TablesAgree /\ PendingIsComplete
        /\ EvictedIsComplete /\ TimersAreCounted /\ DecisionIsFresh
    BY Zenon DEF WInv
  <2>b. /\ slowPath = "resolve" /\ slowPath' = "check"
        /\ UNCHANGED <<queueVars, indexerVars, taskVars, typecheckerFiles, undo, epochVars>>
    BY Zenon DEF resolve
  <2> USE <2>a, <2>b DEF queueVars, indexerVars, taskVars, epochVars, slowPathRunning,
                         slowPathWasCanceled, base
  <2>1. WType'
    BY Zenon DEF WType
  <2>2. EpochsAreOrdered' /\ StatusIsRight'
    BY Zenon DEF EpochsAreOrdered, isUsed, StatusIsRight
  <2>3. TablesAgree' /\ PendingIsComplete'
    BY Zenon DEF TablesAgree, PendingIsComplete
  <2>4. EvictedIsComplete'
    BY Zenon DEF EvictedIsComplete, covers
  <2>5. TimersAreCounted' /\ DecisionIsFresh'
    BY Zenon DEF TimersAreCounted, isCounted, DecisionIsFresh
  <2> QED
    BY <2>1, <2>2, <2>3, <2>4, <2>5, Zenon DEF WInv
\* A fast path interrupts the slow path.
<1>PreemptInv. WInv /\ preempt => WInv'
  <2> SUFFICES ASSUME WInv, preempt PROVE WInv'
    BY Zenon
  <2>a. /\ WType /\ StatusIsRight /\ TablesAgree /\ PendingIsComplete /\ EvictedIsComplete
        /\ TimersAreCounted
    BY Zenon DEF WInv
  <2> DEFINE edit == Head(queue)
             u == indexedUpdate(edit)
             evicted == newlyEvicted(edit)
  <2>b. /\ task = "await" /\ queue # <<>> /\ popQueue /\ u.path = "fast"
        /\ indexerFiles' = merged(edit.files, indexerFiles)
        /\ recordUpdate(u, evicted)
        /\ typecheckerFiles' = merged(u.files, typecheckerFiles)
        /\ UNCHANGED <<taskVars, undo, slowPath, epochVars>>
    BY Zenon DEF preempt
  <2>c. /\ indexerFiles \in Table /\ typecheckerFiles = indexerFiles
        /\ pending \in Updates /\ evictedFiles \in Changes
        /\ slowPathRunning => undo.files \in Table
    BY <2>a, <2>b, Zenon DEF WType, TablesAgree
  <2>1. /\ task' = "await" => EpochsAreOrdered'
        /\ edit \in Edit /\ queue' \in Seq(Edit)
        /\ edit.timers = edit.mergeCount + 1
        /\ \A k \in 1 .. Len(queue') : queue'[k].timers = queue'[k].mergeCount + 1
        /\ cachedPath' = "none" /\ nextVersion' = nextVersion
    BY <2>b, <1>QueueTaken, Zenon
  <2> HIDE DEF edit
  <2>2. /\ u \in Updates /\ u.files = edit.files
        /\ u.hasNewFiles = (\E f \in DOMAIN edit.files : indexerFiles[f] = Absent)
        /\ u.committedEditCount = 0 /\ ~u.canceledSlowPath
    BY <2>c, <2>1, IndexedUpdateType, Zenon
  <2>3. /\ evicted \in Changes
        /\ DOMAIN evicted = {f \in DOMAIN edit.files : indexerFiles[f] # Absent}
        /\ \A f \in DOMAIN evicted : evicted[f] = indexerFiles[f]
    BY <2>c, <2>1, NewlyEvictedType, Zenon
  <2> HIDE DEF u, evicted
  <2>4. /\ pending' \in Updates /\ evictedFiles' = merged(evictedFiles, evicted)
        /\ evictedFiles' \in Changes
        /\ pending'.files = merged(u.files, pending.files)
        /\ pending'.hasNewFiles <=> (u.hasNewFiles \/ pending.hasNewFiles)
        /\ isCounted(pending) => isCounted(pending')
    BY <2>b, <2>c, <2>2, <2>3, <1>RecordUpdateType, Zenon
  <2>5. typecheckerFiles' = indexerFiles' /\ indexerFiles' \in Table
    BY <2>b, <2>c, <2>1, <2>2, MergeTable, Zenon DEF Edit
  <2> USE DEF taskVars, epochVars, slowPathRunning, slowPathWasCanceled
  <2>6. WType'
    BY <2>a, <2>b, <2>1, <2>4, <2>5, Zenon DEF WType
  <2>7. EpochsAreOrdered' /\ StatusIsRight' /\ TablesAgree'
    BY <2>a, <2>b, <2>1, <2>5, Zenon DEF StatusIsRight, TablesAgree
  <2>8. PendingIsComplete'
    <3>1. ASSUME slowPathRunning
          PROVE  merged(pending'.files, undo.files) = typecheckerFiles'
      <4>1. u.files \in Changes /\ pending.files \in Changes
        BY <2>c, <2>2, Zenon DEF Updates
      <4>2. merged(merged(u.files, pending.files), undo.files) =
              merged(u.files, merged(pending.files, undo.files))
        BY <2>c, <3>1, <4>1, MergeAssociates, Zenon
      <4>3. merged(pending.files, undo.files) = typecheckerFiles
        BY <2>a, <2>b, <3>1, Zenon DEF PendingIsComplete
      <4> QED
        BY <2>b, <2>4, <4>2, <4>3, Zenon
    <3> QED
      BY <2>b, <3>1, Zenon DEF PendingIsComplete
  <2>9. EvictedIsComplete'
    <3>1. ASSUME slowPathRunning
          PROVE  covers(evictedFiles', pending', undo.files)
      <4>1. /\ indexerFiles = merged(pending.files, undo.files)
            /\ covers(evictedFiles, pending, undo.files)
        BY <2>a, <2>b, <2>c, <3>1, Zenon DEF PendingIsComplete, EvictedIsComplete
      <4>2. u.hasNewFiles <=> (\E f \in DOMAIN u.files : indexerFiles[f] = Absent)
        BY <2>2, Zenon
      <4> QED
        <5>1. /\ evictedFiles \in Changes /\ pending \in Updates /\ undo.files \in Table
              /\ indexerFiles \in Table /\ evicted \in Changes /\ u \in Updates
              /\ DOMAIN evicted = {f \in DOMAIN u.files : indexerFiles[f] # Absent}
              /\ \A f \in DOMAIN evicted : evicted[f] = indexerFiles[f]
          BY <2>c, <2>2, <2>3, <3>1, Zenon
        <5>2. /\ pending' \in Updates /\ pending'.files = merged(u.files, pending.files)
              /\ pending'.hasNewFiles <=> (u.hasNewFiles \/ pending.hasNewFiles)
              /\ evictedFiles' = merged(evictedFiles, evicted)
          BY <2>4, Zenon
        <5>3. covers(merged(evictedFiles, evicted), pending', undo.files)
          BY <4>1, <4>2, <5>1, <5>2, <1>CoversMerge, Zenon
        <5> QED
          BY <5>2, <5>3, Zenon
    <3> QED
      BY <2>b, <3>1, Zenon DEF EvictedIsComplete, covers
  <2>10. TimersAreCounted' /\ DecisionIsFresh'
    BY <2>a, <2>b, <2>1, <2>4, Zenon DEF TimersAreCounted, isCounted, DecisionIsFresh
  <2> QED
    BY <2>6, <2>7, <2>8, <2>9, <2>10, Zenon DEF WInv
\* The slow path ends: committed, or canceled and undone.
<1>TryCommitEpochInv. WInv /\ tryCommitEpoch => WInv'
  <2> SUFFICES ASSUME WInv, tryCommitEpoch PROVE WInv'
    BY Zenon
  <2>a. /\ WType /\ EpochsAreOrdered /\ StatusIsRight /\ TablesAgree /\ PendingIsComplete
        /\ EvictedIsComplete /\ TimersAreCounted /\ DecisionIsFresh
    BY Zenon DEF WInv
  <2>b. /\ slowPath = "check" /\ commitOrForgetEpoch
        /\ UNCHANGED <<queueVars, indexerVars, taskVars>>
    BY Zenon DEF tryCommitEpoch
  <2>c. slowPathRunning /\ undo \in [epoch : Nat, files : Table]
    BY <2>a, <2>b, Zenon DEF StatusIsRight, WType
  <2> USE DEF queueVars, indexerVars, taskVars
  <2>1. CASE ~slowPathWasCanceled
    <3>1. /\ slowPath' = "committed" /\ UNCHANGED <<typecheckerFiles, undo>>
          /\ lastCommittedLSPEpoch' = currentlyProcessingLSPEpoch
          /\ UNCHANGED <<currentlyProcessingLSPEpoch, lspEpochInvalidator>>
      BY <2>1, Zenon DEF tryCommitEpoch, commitOrForgetEpoch
    <3>2. task # "ready" /\ ~slowPathRunning' /\ ~slowPathWasCanceled'
      BY <2>a, <2>c, <2>1, <3>1, Zenon DEF StatusIsRight, slowPathRunning, slowPathWasCanceled
    <3>3. WType' /\ EpochsAreOrdered'
      BY <2>a, <2>b, <3>1, <3>2, Zenon DEF WType, EpochsAreOrdered, isUsed
    <3>4. StatusIsRight' /\ TablesAgree' /\ PendingIsComplete'
      BY <2>a, <2>b, <3>1, <3>2, Zenon DEF StatusIsRight, TablesAgree, PendingIsComplete
    <3>5. EvictedIsComplete'
      BY <2>a, <2>b, <3>1, <3>2, Zenon DEF EvictedIsComplete
    <3>6. TimersAreCounted' /\ DecisionIsFresh'
      BY <2>a, <2>b, <3>2, Zenon DEF TimersAreCounted, isCounted, DecisionIsFresh
    <3> QED
      BY <3>3, <3>4, <3>5, <3>6, Zenon DEF WInv
  <2>2. CASE slowPathWasCanceled
    <3>1. /\ slowPath' = "idle" /\ typecheckerFiles' = undo.files
          /\ currentlyProcessingLSPEpoch' = lastCommittedLSPEpoch
          /\ lspEpochInvalidator' = lastCommittedLSPEpoch
          /\ UNCHANGED lastCommittedLSPEpoch
      BY <2>2, Zenon DEF tryCommitEpoch, commitOrForgetEpoch
    <3>2. /\ task = "ready" /\ ~slowPathRunning' /\ ~slowPathWasCanceled'
          /\ base = undo.files /\ base' = undo.files
      BY <2>a, <2>c, <2>2, <3>1, Zenon DEF StatusIsRight, slowPathRunning, slowPathWasCanceled, base
    <3>3. WType' /\ EpochsAreOrdered'
      BY <2>a, <2>b, <2>c, <3>1, <3>2, Zenon DEF WType, EpochsAreOrdered, isUsed
    <3>4. StatusIsRight' /\ TablesAgree' /\ PendingIsComplete'
      BY <2>a, <2>b, <3>1, <3>2, Zenon DEF StatusIsRight, TablesAgree, PendingIsComplete
    <3>5. EvictedIsComplete'
      BY <2>a, <2>b, <3>1, <3>2, Zenon DEF EvictedIsComplete, covers
    <3>6. TimersAreCounted' /\ DecisionIsFresh'
      BY <2>a, <2>b, <3>2, Zenon DEF TimersAreCounted, isCounted, DecisionIsFresh
    <3> QED
      BY <3>3, <3>4, <3>5, <3>6, Zenon DEF WInv
  <2> QED
    BY <2>1, <2>2, Zenon
\* The typechecker leaves the slow path.
<1>EndSlowPathInv. WInv /\ endSlowPath => WInv'
  <2> SUFFICES ASSUME WInv, endSlowPath PROVE WInv'
    BY Zenon
  <2>a. /\ WType /\ EpochsAreOrdered /\ StatusIsRight /\ TablesAgree /\ PendingIsComplete
        /\ EvictedIsComplete /\ TimersAreCounted /\ DecisionIsFresh
    BY Zenon DEF WInv
  <2>b. /\ slowPath = "committed" /\ slowPath' = "idle"
        /\ UNCHANGED <<queueVars, indexerVars, taskVars, typecheckerFiles, epochVars>>
    BY Zenon DEF endSlowPath
  <2> USE DEF queueVars, indexerVars, taskVars, epochVars
  <2>1. ~slowPathRunning /\ ~slowPathRunning' /\ base' = base
    BY <2>a, <2>b, Zenon DEF StatusIsRight, slowPathRunning, base
  <2>2. WType' /\ EpochsAreOrdered'
    BY <2>a, <2>b, <2>1, Zenon DEF WType, EpochsAreOrdered, isUsed
  <2>3. StatusIsRight' /\ TablesAgree' /\ PendingIsComplete'
    BY <2>a, <2>b, <2>1, Zenon DEF StatusIsRight, slowPathWasCanceled, TablesAgree, PendingIsComplete
  <2>4. EvictedIsComplete'
    BY <2>a, <2>b, <2>1, Zenon DEF EvictedIsComplete, covers
  <2>5. TimersAreCounted' /\ DecisionIsFresh'
    BY <2>a, <2>b, <2>1, Zenon DEF TimersAreCounted, isCounted, DecisionIsFresh
  <2> QED
    BY <2>2, <2>3, <2>4, <2>5, Zenon DEF WInv
\* A step that changes nothing.
<1>StutterInv. WInv /\ UNCHANGED vars => WInv'
  <2> SUFFICES ASSUME WInv, UNCHANGED vars PROVE WInv'
    BY Zenon
  <2>1. UNCHANGED <<queueVars, indexerVars, taskVars, typecheckerVars, epochVars>>
    BY Zenon DEF vars
  <2>2. StatusIsRight' /\ TablesAgree' /\ PendingIsComplete' /\ EvictedIsComplete'
    BY <2>1, <1>RestUnchanged, Zenon
  <2> USE <2>1 DEF queueVars, indexerVars, taskVars, typecheckerVars, epochVars, slowPathRunning
  <2>3. WType'
    BY Zenon DEF WInv, WType
  <2>4. EpochsAreOrdered' /\ TimersAreCounted' /\ DecisionIsFresh'
    BY Zenon DEF WInv, EpochsAreOrdered, isUsed, TimersAreCounted, isCounted, DecisionIsFresh
  <2> QED
    BY <2>2, <2>3, <2>4, Zenon DEF WInv
<1> SUFFICES ASSUME WInv, [Next]_vars PROVE WInv'
  BY Zenon
<1>1. CASE serverStep
  BY <1>1, <1>DecideHeadInv, <1>CommitEditInv, <1>TryCancelInv, <1>LeaveToTypecheckerInv,
     <1>RunFastPathInv, <1>RunSlowPathInv, <1>RunBulkSlowPathInv, <1>ResolveInv, <1>PreemptInv,
     <1>TryCommitEpochInv, <1>EndSlowPathInv, Zenon DEF serverStep
<1>2. CASE clientStep
  BY <1>2, <1>EnqueueInv, <1>SkipVersionInv, <1>MergeQueuedInv, Zenon DEF clientStep
<1>3. CASE UNCHANGED vars
  BY <1>3, <1>StutterInv, Zenon
<1> QED
  BY <1>1, <1>2, <1>3, Zenon DEF Next

\* Every step of the client, of the processing thread and of the typechecker keeps
\* the tables, the pending updates, the evicted files and the counters in the
\* relation that commitEdit and typecheck rely on.
THEOREM WorkspaceInvariant == Spec => []WInv
BY InitInv, WorkspaceStep, PTL DEF Spec

-----------------------------------------------------------------------------
(***************************************************************************)
(* What follows from it.                                                   *)
(***************************************************************************)

\* Whatever slow paths were preempted, committed, or canceled and undone before
\* it, a request that can run finds the typechecker's files equal to the
\* indexer's: it sees exactly the edits taken from the queue before it.
THEOREM RequestsSeeEdits == Spec => []RequestsSeeEarlierEdits
<1>1. WInv => RequestsSeeEarlierEdits
  BY Zenon DEF WInv, TablesAgree, RequestsSeeEarlierEdits, canRunRequest
<1> QED
  BY <1>1, WorkspaceInvariant, PTL

\* pendingTypecheckUpdates, replayed on the files a cancellation restores, give
\* the files of the indexer: LSPIndexer::commitEdit, which merges them into the
\* update that cancels, loses no edit.
THEOREM PendingIsReplayable == Spec => []PendingRebuildsFromUndo
<1>1. WInv => PendingRebuildsFromUndo
  BY Zenon DEF WInv, TablesAgree, PendingIsComplete, PendingRebuildsFromUndo
<1> QED
  BY <1>1, WorkspaceInvariant, PTL

\* The files commitEdit keeps as evicted are those from before the slow path,
\* whatever edits preempted it, and a cancellation finds one for every file of
\* the merged update unless the update has new files.
THEOREM EvictedFilesAreFromBefore == Spec => []EvictedFilesAreRight
<1>1. WInv => EvictedIsBeforeSlowPath
  BY Zenon DEF WInv, EvictedIsComplete, covers, EvictedIsBeforeSlowPath
<1>2. WInv => EvictedFilesAreThere
  <2> SUFFICES ASSUME WInv, task = "cancel", canCancelSlowPath(update.epoch),
                      ~mergeOlder(update, pending).hasNewFiles
               PROVE  DOMAIN mergeOlder(update, pending).files \ PackageFiles
                        \subseteq DOMAIN merged(evictedFiles, newlyEvictedFiles)
    BY Zenon DEF EvictedFilesAreThere, evictedCovers, mergeEvictedFiles
  <2>1. /\ update \in Updates /\ pending \in Updates
        /\ evictedFiles \in Changes /\ newlyEvictedFiles \in Changes
    BY Zenon DEF WInv, WType
  <2>2. /\ ~update.hasNewFiles /\ ~pending.hasNewFiles
        /\ mergeOlder(update, pending).files = merged(update.files, pending.files)
    BY <2>1, MergeOlderType, Zenon
  <2>3. covers(evictedFiles, pending, undo.files)
    BY Zenon DEF WInv, EvictedIsComplete, canCancelSlowPath
  <2>4. \A f \in DOMAIN update.files : f \in DOMAIN newlyEvictedFiles
    BY <2>2, Zenon DEF WInv, EvictedIsComplete
  <2>5. \A f \in DOMAIN pending.files : f \in DOMAIN evictedFiles
    BY <2>2, <2>3, Zenon DEF covers
  <2>6. /\ DOMAIN merged(update.files, pending.files) = DOMAIN update.files \cup DOMAIN pending.files
        /\ DOMAIN merged(evictedFiles, newlyEvictedFiles) =
             DOMAIN evictedFiles \cup DOMAIN newlyEvictedFiles
    BY Zenon DEF merged
  <2> QED
    BY <2>2, <2>4, <2>5, <2>6, Zenon
<1>3. WInv => EvictedFilesAreRight
  BY <1>1, <1>2, Zenon DEF EvictedFilesAreRight
<1> QED
  BY <1>3, WorkspaceInvariant, PTL

\* The fast or slow decision that LSPQueuePreemptionTask and runLSP keep for the
\* head of the queue is the one commitEdit reaches when it takes the edit, however
\* the queue and the files changed in between.
THEOREM DecisionsAreFresh == Spec => []CachedDecisionIsFresh
<1>1. WInv => CachedDecisionIsFresh
  <2> SUFFICES ASSUME WInv, queue # <<>>, cachedPath # "none"
               PROVE  cachedPath = indexedUpdate(Head(queue)).path
    BY Zenon DEF CachedDecisionIsFresh
  <2>1. indexerFiles \in Table /\ Head(queue) \in Edit
    BY DEF WInv, WType
  <2> QED
    BY <2>1, SameDecision, Zenon DEF WInv, DecisionIsFresh
<1> QED
  BY <1>1, WorkspaceInvariant, PTL

\* An update reaches the typechecker with one latency timer per edit that no
\* earlier update committed, whatever was merged, preempted or canceled: the
\* ENFORCE of run and runSpecial holds.
THEOREM TimersMatchEdits == Spec => []OneTimerPerEdit
<1>1. WInv => OneTimerPerEdit
  <2> SUFFICES ASSUME WInv, task = "ready"
               PROVE  update.editCount - update.committedEditCount = update.timers
    BY Zenon DEF OneTimerPerEdit
  <2>1. update \in Updates /\ isCounted(update)
    BY Zenon DEF WInv, WType, TimersAreCounted
  <2>2. update.committedEditCount \in Nat /\ update.timers \in Nat
    BY <2>1, Zenon DEF Updates
  <2> QED
    BY <2>1, <2>2 DEF isCounted
<1> QED
  BY <1>1, WorkspaceInvariant, PTL

-----------------------------------------------------------------------------
(***************************************************************************)
(* LSPWorkspace implements the safety part of LatestEdits, for any files   *)
(* and any number of edits.  The invariant says how many of the client's   *)
(* edits each table has: the typechecker's is the replay of some, the      *)
(* indexer's of more, and every edit in the queue, merged or not, leads    *)
(* from one replay to a later one.                                         *)
(***************************************************************************)
\* The files after the first n edits of the client.
edits == [i \in 1 .. Len(sent) |-> sent[i].files]
replay(n) == Latest!Replay(edits, n)

\* The version of the newest of these edits.
lastEpoch(n) == IF n = 0 THEN 0 ELSE sent[n].epoch

SentEdit == [epoch : Nat, files : Changes]

\* The client's edits carry increasing versions, and a replay holds none but those
\* of its edits.
SentIsOrdered ==
  /\ sent \in Seq(SentEdit)
  /\ \A i \in 1 .. Len(sent) :
       /\ 0 < sent[i].epoch /\ sent[i].epoch < nextVersion
       /\ DOMAIN sent[i].files # {}
       /\ \A f \in DOMAIN sent[i].files : sent[i].files[f].version = sent[i].epoch
  /\ \A i, j \in 1 .. Len(sent) : i < j => sent[i].epoch < sent[j].epoch

\* Of the edits that change a file one is the last.
lastOf(S) == CHOOSE i \in S : \A j \in S : j <= i
hasLast(es, n) ==
  \A f : Latest!changing(es, n, f) # {} =>
    \E i \in Latest!changing(es, n, f) : \A j \in Latest!changing(es, n, f) : j <= i

ReplaysAreTables ==
  \A n \in 0 .. Len(sent) :
    /\ hasLast(edits, n)
    /\ replay(n) \in Table
    /\ \A f \in Files : replay(n)[f] # Absent => replay(n)[f].version <= lastEpoch(n)

\* pos[k] edits are in the tables once the first k edits of the queue are.
QueueFollows(pos) ==
  /\ pos \in [0 .. Len(queue) -> 0 .. Len(sent)]
  /\ pos[Len(queue)] = Len(sent)
  /\ \A k \in 1 .. Len(queue) :
       /\ pos[k - 1] <= pos[k]
       /\ merged(queue[k].files, replay(pos[k - 1])) = replay(pos[k])
  /\ task = "bulk" => merged(update.files, indexerFiles) = replay(pos[0])
  /\ task # "bulk" => indexerFiles = replay(pos[0])

\* Of the first p edits the typechecker has n, and keeps m if it is canceled.
TypecheckerFollows(p, n, m) ==
  /\ n \in 0 .. p /\ typecheckerFiles = replay(n)
  /\ m \in 0 .. n /\ (slowPathRunning => undo.files = replay(m))

\* The inductive invariant of the refinement.
PInv ==
  /\ SentIsOrdered /\ ReplaysAreTables
  /\ \E pos, n, m : QueueFollows(pos) /\ TypecheckerFollows(pos[0], n, m)

\* The refinement mapping finds these n and m in the versions of the files.
MappingIsRight ==
  \A n, m : \A p \in 0 .. Len(sent) :
    TypecheckerFollows(p, n, m) =>
      /\ n \in 0 .. Len(sent) /\ m \in 0 .. n /\ n \in Nat /\ m \in Nat
      /\ served = n
      /\ settled = IF slowPathRunning THEN m ELSE n

\* The server implements the safety part of LatestEdits: whatever edits are merged
\* in the queue, preempt a slow path or cancel it, every file table of the
\* typechecker is the replay of a prefix of the client's edits, and it goes back
\* no further than to where the canceled slow path began.
THEOREM ServerKeepsPromise == Spec => Latest!PromiseSafety
\* Before the first edit.
<1>ReplayStart.
  ASSUME NEW es
  PROVE  Latest!Replay(es, 0) = InitialFiles
  <2> USE <1>ReplayStart
  <2>1. \A f : Latest!changing(es, 0, f) = {}
    BY DEF Latest!changing
  <2>2. InitialFiles = [f \in DOMAIN InitialFiles |-> InitialFiles[f]]
    BY InitialFilesAssumption
  <2> QED
    BY <2>1, <2>2, Zenon DEF Latest!Replay
\* What a replay is, file by file.
<1>ReplayFiles.
  ASSUME NEW es, NEW n
  PROVE  /\ DOMAIN Latest!Replay(es, n) = DOMAIN InitialFiles
         /\ Latest!Replay(es, n) = [f \in DOMAIN InitialFiles |-> Latest!Replay(es, n)[f]]
         /\ \A f \in DOMAIN InitialFiles :
              Latest!Replay(es, n)[f] =
                IF Latest!changing(es, n, f) = {} THEN InitialFiles[f]
                ELSE es[lastOf(Latest!changing(es, n, f))][f]
  <2> USE <1>ReplayFiles
  <2>1. DOMAIN Latest!Replay(es, n) = DOMAIN InitialFiles
    BY Zenon DEF Latest!Replay
  <2>2. \A f \in DOMAIN InitialFiles :
          Latest!Replay(es, n)[f] =
            IF Latest!changing(es, n, f) = {} THEN InitialFiles[f]
            ELSE es[lastOf(Latest!changing(es, n, f))][f]
    BY Zenon DEF Latest!Replay, lastOf
  <2>3. Latest!Replay(es, n) = [f \in DOMAIN InitialFiles |-> Latest!Replay(es, n)[f]]
    BY SMT DEF Latest!Replay
  <2> QED
    BY <2>1, <2>2, <2>3, Zenon
\* A replay depends on its edits alone.
<1>ReplayPrefix.
  ASSUME NEW es, NEW ds, NEW n \in Nat, \A i \in 1 .. n : es[i] = ds[i], hasLast(es, n)
  PROVE  Latest!Replay(es, n) = Latest!Replay(ds, n) /\ hasLast(ds, n)
  <2> USE <1>ReplayPrefix
  <2>1. \A f : /\ Latest!changing(es, n, f) = Latest!changing(ds, n, f)
               /\ Latest!changing(es, n, f) \subseteq 1 .. n
    BY Zenon DEF Latest!changing
  <2>2. ASSUME NEW f \in DOMAIN InitialFiles
        PROVE  Latest!Replay(es, n)[f] = Latest!Replay(ds, n)[f]
    <3> DEFINE C == Latest!changing(es, n, f)
    <3>1. /\ Latest!Replay(es, n)[f] = IF C = {} THEN InitialFiles[f] ELSE es[lastOf(C)][f]
          /\ Latest!Replay(ds, n)[f] = IF C = {} THEN InitialFiles[f] ELSE ds[lastOf(C)][f]
      <4>1. Latest!changing(ds, n, f) = C
        BY <2>1, Zenon
      <4>2. Latest!Replay(ds, n)[f] = IF Latest!changing(ds, n, f) = {} THEN InitialFiles[f]
                                      ELSE ds[lastOf(Latest!changing(ds, n, f))][f]
        BY <1>ReplayFiles, Zenon
      <4>3. Latest!Replay(ds, n)[f] = IF C = {} THEN InitialFiles[f] ELSE ds[lastOf(C)][f]
        BY <4>1, <4>2
      <4> QED
        BY <4>3, <1>ReplayFiles, Zenon
    <3>2. CASE C = {}
      BY <3>1, <3>2, Zenon
    <3>3. CASE C # {}
      <4>1. \E i \in C : \A j \in C : j <= i
        BY <3>3, Zenon DEF hasLast
      <4>2. lastOf(C) \in C
        BY <4>1, Zenon DEF lastOf
      <4> QED
        BY <3>1, <3>3, <4>2, <2>1, Zenon
    <3> QED
      BY <3>2, <3>3, Zenon
  <2>3. /\ Latest!Replay(es, n) = [f \in DOMAIN InitialFiles |-> Latest!Replay(es, n)[f]]
        /\ Latest!Replay(ds, n) = [f \in DOMAIN InitialFiles |-> Latest!Replay(ds, n)[f]]
    BY <1>ReplayFiles, Zenon
  <2>4. hasLast(ds, n)
    BY <2>1, Zenon DEF hasLast
  <2> QED
    BY <2>2, <2>3, <2>4, Zenon
\* One edit more.
<1>ReplayStep.
  ASSUME NEW es, NEW n \in Nat, DOMAIN es[n + 1] \subseteq Files, hasLast(es, n)
  PROVE  /\ Latest!Replay(es, n + 1) = merged(es[n + 1], Latest!Replay(es, n))
         /\ hasLast(es, n + 1)
  <2> USE <1>ReplayStep
  <2> DEFINE C(f) == Latest!changing(es, n, f)
             D(f) == Latest!changing(es, n + 1, f)
  <2>1. DOMAIN InitialFiles = Files
    BY InitialFilesAssumption
  <2>2. ASSUME NEW f, f \in DOMAIN es[n + 1]
        PROVE  n + 1 \in D(f) /\ \A j \in D(f) : j <= n + 1 /\ j \in Nat
    BY <2>2 DEF Latest!changing
  <2>3. ASSUME NEW f, f \notin DOMAIN es[n + 1]
        PROVE  D(f) = C(f)
    BY <2>3 DEF Latest!changing
  <2>4. ASSUME NEW f, f \in DOMAIN es[n + 1]
        PROVE  lastOf(D(f)) = n + 1 /\ D(f) # {}
    <3> DEFINE S == D(f)
    <3>1. n + 1 \in S /\ \A j \in S : j <= n + 1 /\ j \in Nat
      BY <2>2, <2>4
    <3> HIDE DEF S
    <3>2. lastOf(S) \in S /\ \A j \in S : j <= lastOf(S)
      BY <3>1, Zenon DEF lastOf
    <3>3. lastOf(S) = n + 1
      BY <3>1, <3>2
    <3> QED
      BY <3>1, <3>3, Zenon DEF S
  <2>5. /\ \A f \in Files : Latest!Replay(es, n)[f] = IF C(f) = {} THEN InitialFiles[f] ELSE es[lastOf(C(f))][f]
        /\ \A f \in Files : Latest!Replay(es, n + 1)[f] = IF D(f) = {} THEN InitialFiles[f] ELSE es[lastOf(D(f))][f]
        /\ DOMAIN Latest!Replay(es, n) = Files
        /\ Latest!Replay(es, n + 1) = [f \in Files |-> Latest!Replay(es, n + 1)[f]]
    BY <2>1, <1>ReplayFiles, Zenon
  <2> HIDE DEF C, D
  <2>6. ASSUME NEW f \in Files
        PROVE  Latest!Replay(es, n + 1)[f]
                 = IF f \in DOMAIN es[n + 1] THEN es[n + 1][f] ELSE Latest!Replay(es, n)[f]
    BY <2>3, <2>4, <2>5, Zenon
  <2>7. DOMAIN es[n + 1] \cup DOMAIN Latest!Replay(es, n) = Files
    BY <2>5, Zenon
  <2>8. Latest!Replay(es, n + 1) = merged(es[n + 1], Latest!Replay(es, n))
    BY <2>5, <2>6, <2>7, Zenon DEF merged
  <2>9. hasLast(es, n + 1)
    <3> SUFFICES ASSUME NEW f, D(f) # {}
                 PROVE  \E i \in D(f) : \A j \in D(f) : j <= i
      BY Zenon DEF hasLast, D
    <3>1. CASE f \in DOMAIN es[n + 1]
      BY <2>2, <3>1, Zenon DEF D
    <3>2. CASE f \notin DOMAIN es[n + 1]
      BY <2>3, <3>2, Zenon DEF C, hasLast
    <3> QED
      BY <3>1, <3>2, Zenon
  <2> QED
    BY <2>8, <2>9, Zenon
\* The fields of the client's edits.
<1>SentType.
  ASSUME SentIsOrdered
  PROVE  /\ Len(sent) \in Nat
         /\ \A i \in 1 .. Len(sent) : sent[i].epoch \in Nat /\ sent[i].files \in Changes
  <2> USE <1>SentType
  <2>1. sent \in Seq(SentEdit)
    BY Zenon DEF SentIsOrdered
  <2>2. Len(sent) \in Nat /\ \A i \in 1 .. Len(sent) : sent[i] \in SentEdit
    BY <2>1
  <2> QED
    BY <2>2, Zenon DEF SentEdit
\* The same for the edits of the client.
<1>ReplayNext.
  ASSUME SentIsOrdered, ReplaysAreTables, NEW n \in Nat, n + 1 \in 1 .. Len(sent)
  PROVE  replay(n + 1) = merged(sent[n + 1].files, replay(n))
  <2> USE <1>ReplayNext
  <2>1. Len(sent) \in Nat /\ sent[n + 1].files \in Changes
    BY <1>SentType
  <2>4. n \in 0 .. Len(sent)
    BY <2>1
  <2>2. edits[n + 1] = sent[n + 1].files
    BY Zenon DEF edits
  <2>3. DOMAIN edits[n + 1] \subseteq Files
    BY <2>1, <2>2, ChangesType
  <2> QED
    BY <2>2, <2>3, <2>4, <1>ReplayStep, Zenon DEF replay, ReplaysAreTables
\* The versions in a replay tell how many edits it has.
<1>PrefixOfReplay.
  ASSUME SentIsOrdered, ReplaysAreTables, NEW n \in 0 .. Len(sent)
  PROVE  prefixIn(replay(n)) = n
  <2> USE <1>PrefixOfReplay
  <2>2. /\ Len(sent) \in Nat
        /\ \A i \in 1 .. Len(sent) : sent[i].epoch \in Nat /\ sent[i].files \in Changes
    BY <1>SentType, Zenon
  <2>1. Len(sent) \in Nat /\ n \in Nat
    BY <2>2
  <2>3. ASSUME NEW i \in editsIn(replay(n)) PROVE i \in 1 .. n
    <3>1. i \in 1 .. Len(sent)
      BY <2>3, Zenon DEF editsIn
    <3>2. PICK f \in Files : replay(n)[f] # Absent /\ replay(n)[f].version >= sent[i].epoch
      BY <2>3, Zenon DEF editsIn
    <3>3. replay(n)[f] \in FileState /\ replay(n)[f].version <= lastEpoch(n)
      BY <3>2, Zenon DEF ReplaysAreTables, Table
    <3>4. replay(n)[f].version \in Nat
      BY <3>3, Zenon DEF FileState
    <3>5. sent[i].epoch \in Nat /\ sent[i].epoch > 0 /\ lastEpoch(n) \in Nat /\ sent[i].epoch <= lastEpoch(n)
      <4>1. sent[i].epoch \in Nat /\ sent[i].epoch > 0
        BY <2>2, <3>1 DEF SentIsOrdered
      <4>2. lastEpoch(n) \in Nat
        BY <2>1, <2>2 DEF lastEpoch
      <4> QED
        BY <3>2, <3>3, <3>4, <4>1, <4>2
    <3>6. n # 0
      BY <3>5 DEF lastEpoch
    <3>7. ~(n < i)
      <4>1. SUFFICES ASSUME n < i PROVE FALSE
        OBVIOUS
      <4>2. n \in 1 .. Len(sent)
        BY <3>6, <2>1
      <4>3. sent[n].epoch < sent[i].epoch
        BY <4>1, <4>2, <3>1, Zenon DEF SentIsOrdered
      <4> QED
        BY <4>2, <4>3, <3>5, <3>6, <2>2 DEF lastEpoch
    <3> QED
      BY <3>1, <3>7, <2>1
  <2>4. ASSUME NEW i \in 1 .. n PROVE i \in editsIn(replay(n))
    <3>1. /\ n \in 1 .. Len(sent) /\ i \in 1 .. Len(sent) /\ n - 1 \in 0 .. Len(sent)
          /\ n - 1 \in Nat /\ (n - 1) + 1 = n
      BY <2>1
    <3>2. PICK f \in DOMAIN sent[n].files : TRUE
      BY <3>1, Zenon DEF SentIsOrdered
    <3>3. f \in Files /\ sent[n].files[f] \in FileState /\ sent[n].files[f] # Absent
      BY <2>2, <3>1, <3>2, ChangesType, Zenon
    <3>4. replay(n) = merged(sent[n].files, replay(n - 1))
      BY <3>1, <1>ReplayNext
    <3>5. replay(n)[f] = sent[n].files[f]
      BY <3>2, <3>4, Zenon DEF merged
    <3>6. sent[n].files[f].version = sent[n].epoch
      BY <3>1, <3>2, Zenon DEF SentIsOrdered
    <3>7. sent[n].epoch >= sent[i].epoch
      <4>1. i = n \/ i < n
        BY <3>1
      <4>2. i < n => sent[i].epoch < sent[n].epoch
        BY <3>1, Zenon DEF SentIsOrdered
      <4> QED
        BY <2>2, <3>1, <4>1, <4>2
    <3> QED
      BY <3>1, <3>3, <3>5, <3>6, <3>7, Zenon DEF editsIn
  <2>5. editsIn(replay(n)) = 1 .. n
    BY <2>3, <2>4, Zenon
  <2>6. ASSUME NEW k \in 0 .. Len(sent), editsIn(replay(n)) = 1 .. k PROVE k = n
    <3>1. 1 .. k = 1 .. n
      BY <2>5, <2>6, Zenon
    <3> QED
      BY <3>1, <2>1
  <2> QED
    BY <2>5, <2>6, Zenon DEF prefixIn
\* What the refinement mapping says of a state.
<1>Mapped.
  ASSUME SentIsOrdered, ReplaysAreTables, StatusIsRight,
         NEW p \in 0 .. Len(sent), NEW n, NEW m, TypecheckerFollows(p, n, m)
  PROVE  /\ n \in 0 .. Len(sent) /\ m \in 0 .. n /\ n \in Nat /\ m \in Nat
         /\ served = n
         /\ settled = IF slowPathRunning THEN m ELSE n
  <2> USE <1>Mapped
  <2>0. Len(sent) \in Nat
    BY <1>SentType
  <2>1. n \in 0 .. Len(sent) /\ m \in 0 .. Len(sent) /\ m \in 0 .. n /\ n \in Nat /\ m \in Nat
    BY <2>0 DEF TypecheckerFollows
  <2>2. served = n
    BY <2>1, <1>PrefixOfReplay, Zenon DEF served, TypecheckerFollows
  <2>3. settled = IF slowPathRunning THEN m ELSE n
    BY <2>1, <2>2, <1>PrefixOfReplay, Zenon DEF settled, TypecheckerFollows, StatusIsRight
  <2> QED
    BY <2>1, <2>2, <2>3, Zenon
\* It says the same of the next state.
<1>MappedNext. (SentIsOrdered /\ ReplaysAreTables /\ StatusIsRight => MappingIsRight)'
  <2>1. SentIsOrdered /\ ReplaysAreTables /\ StatusIsRight => MappingIsRight
    BY <1>Mapped, Zenon DEF MappingIsRight
  <2> QED
    BY <2>1, PTL
\* The edits stay as they are.
<1>SentUnchanged.
  ASSUME sent' = sent
  PROVE  /\ edits' = edits /\ \A n : replay(n)' = replay(n)
         /\ ReplaysAreTables => ReplaysAreTables'
  <2> USE <1>SentUnchanged
  <2>1. edits' = edits /\ \A n : replay(n)' = replay(n)
    BY Zenon DEF edits, replay
  <2> QED
    BY <2>1 DEF ReplaysAreTables, lastEpoch
\* A step between two states that follow the edits serves some of them.
<1>ServeStep.
  ASSUME SentIsOrdered, ReplaysAreTables, StatusIsRight,
         SentIsOrdered', ReplaysAreTables', StatusIsRight', sent' = sent,
         NEW p \in 0 .. Len(sent), NEW n, NEW m, TypecheckerFollows(p, n, m),
         NEW q \in 0 .. Len(sent), NEW k, NEW l, TypecheckerFollows(q, k, l)',
         IF slowPathRunning THEN m <= k ELSE n <= k,
         slowPathRunning' => IF slowPathRunning THEN m <= l ELSE n <= l
  PROVE  Latest!PromiseNext
  <2> USE <1>ServeStep
  <2>1. /\ n \in 0 .. Len(sent) /\ m \in 0 .. n /\ n \in Nat /\ m \in Nat
        /\ served = n
        /\ settled = IF slowPathRunning THEN m ELSE n
    BY <1>Mapped, Zenon
  <2>2. /\ k \in 0 .. Len(sent) /\ l \in 0 .. k /\ k \in Nat /\ l \in Nat
        /\ served' = k
        /\ settled' = IF slowPathRunning' THEN l ELSE k
    <3>1. q \in 0 .. Len(sent')
      BY Zenon
    <3>3. MappingIsRight'
      BY <1>MappedNext, Zenon
    <3>4. /\ k \in 0 .. Len(sent') /\ l \in 0 .. k /\ k \in Nat /\ l \in Nat
          /\ served' = k
          /\ settled' = IF slowPathRunning' THEN l ELSE k
      BY <3>1, <3>3 DEF MappingIsRight
    <3> QED
      BY <3>4, Zenon
  <2>3. Len(sent) \in Nat
    BY <1>SentType
  <2>4. Len(edits) = Len(sent)
    BY <2>3 DEF edits
  <2>5. typecheckerFiles' = replay(k)
    BY <1>SentUnchanged, Zenon DEF TypecheckerFollows
  <2> HIDE DEF edits
  <2>6. k \in settled .. Len(edits) /\ settled' \in settled .. k
    BY <2>1, <2>2, <2>3, <2>4
  <2>7. Latest!Serve(k)
    BY <2>2, <2>4, <2>5, <2>6, Zenon DEF Latest!Serve, replay, edits
  <2>8. k \in 0 .. Len(edits)
    BY <2>2, <2>4, Zenon
  <2> QED
    BY <2>7, <2>8, Zenon DEF Latest!PromiseNext, edits
\* Such a step keeps the invariant.
<1>FollowStep.
  ASSUME WInv, WInv', SentIsOrdered, ReplaysAreTables,
         sent' = sent, nextVersion' = nextVersion \/ nextVersion' = nextVersion + 1,
         NEW pos, NEW n, NEW m, QueueFollows(pos), TypecheckerFollows(pos[0], n, m),
         NEW qos, NEW k, NEW l, QueueFollows(qos)', TypecheckerFollows(qos[0], k, l)',
         IF slowPathRunning THEN m <= k ELSE n <= k,
         slowPathRunning' => IF slowPathRunning THEN m <= l ELSE n <= l
  PROVE  PInv' /\ Latest!PromiseNext
  <2> USE <1>FollowStep
  <2>1. StatusIsRight /\ StatusIsRight' /\ nextVersion \in Nat /\ queue \in Seq(Edit) /\ queue' \in Seq(Edit)
    BY Zenon DEF WInv, WType
  <2>2. ReplaysAreTables'
    BY <1>SentUnchanged, Zenon
  <2>3. SentIsOrdered'
    <3>1. Len(sent) \in Nat /\ \A i \in 1 .. Len(sent) : sent[i].epoch \in Nat
      BY <1>SentType, Zenon
    <3>2. \A i \in 1 .. Len(sent) : sent[i].epoch < nextVersion => sent[i].epoch < nextVersion'
      BY <2>1, <3>1
    <3> QED
      BY <3>2, Zenon DEF SentIsOrdered
  <2>4. 0 \in 0 .. Len(queue) /\ 0 \in 0 .. Len(queue')
    BY <2>1
  <2>5. pos[0] \in 0 .. Len(sent) /\ qos[0] \in 0 .. Len(sent)
    BY <2>4, Zenon DEF QueueFollows
  <2>6. Latest!PromiseNext
    BY <2>1, <2>2, <2>3, <2>5, <1>ServeStep, Zenon
  <2>7. PInv'
    BY <2>2, <2>3, Zenon DEF PInv
  <2> QED
    BY <2>6, <2>7, Zenon
\* Nothing happens to the queue, nor to what was taken from it.
<1>QueueStays.
  ASSUME NEW pos, QueueFollows(pos), UNCHANGED <<sent, queue>>,
         \/ UNCHANGED <<task, update, indexerFiles>>
         \/ task # "bulk" /\ task' # "bulk" /\ UNCHANGED indexerFiles
         \/ task = "bulk" /\ task' # "bulk" /\ indexerFiles' = merged(update.files, indexerFiles)
  PROVE  QueueFollows(pos)'
  <2> USE <1>QueueStays
  <2>1. \A i : replay(i)' = replay(i)
    BY <1>SentUnchanged, Zenon
  <2>2. /\ (task = "bulk" => merged(update.files, indexerFiles) = replay(pos[0]))'
        /\ (task # "bulk" => indexerFiles = replay(pos[0]))'
    BY <2>1, Zenon DEF QueueFollows
  <2> QED
    BY <2>1, <2>2, Zenon DEF QueueFollows
\* The head of the queue is taken.
<1>HeadTaken.
  ASSUME WInv, NEW pos, QueueFollows(pos), SentIsOrdered,
         task = "await", queue # <<>>, popQueue,
         \/ task' = "bulk" /\ update' = Head(queue) /\ UNCHANGED indexerFiles
         \/ task' # "bulk" /\ indexerFiles' = merged(Head(queue).files, indexerFiles)
  PROVE  /\ \E qos : QueueFollows(qos)' /\ qos[0] = pos[1]
         /\ pos[0] \in Nat /\ pos[1] \in Nat /\ pos[0] <= pos[1]
         /\ merged(Head(queue).files, indexerFiles) = replay(pos[1])
  <2> USE <1>HeadTaken
  <2>0. queue \in Seq(Edit) /\ Len(sent) \in Nat
    BY <1>SentType, Zenon DEF WInv, WType
  <2>1. /\ Head(queue) = queue[1] /\ 1 \in 1 .. Len(queue)
        /\ queue' \in Seq(Edit)
        /\ \A k \in 1 .. Len(queue') : k + 1 \in 1 .. Len(queue) /\ queue'[k] = queue[k + 1]
    BY <2>0, QueuePopped, Zenon
  <2>2. Len(queue') + 1 = Len(queue) /\ Len(queue') \in Nat /\ Len(queue) \in Nat
    BY <2>0 DEF popQueue
  <2>3. sent' = sent /\ \A i : replay(i)' = replay(i)
    BY <1>SentUnchanged, Zenon DEF popQueue
  <2> PICK qos : qos = [k \in 0 .. Len(queue') |-> pos[k + 1]]
    BY Zenon
  <2>4. /\ 0 \in 0 .. Len(queue') /\ 0 \in 0 .. Len(queue) /\ 1 \in 0 .. Len(queue) /\ 1 - 1 = 0
        /\ Len(queue') \in 0 .. Len(queue')
        /\ \A k \in 0 .. Len(queue') : k + 1 \in 0 .. Len(queue)
        /\ \A k \in 1 .. Len(queue') : k - 1 \in 0 .. Len(queue') /\ (k - 1) + 1 = (k + 1) - 1
                                        /\ k \in 0 .. Len(queue')
    BY <2>2
  <2>5. pos \in [0 .. Len(queue) -> 0 .. Len(sent)]
    BY Zenon DEF QueueFollows
  <2>6. qos \in [0 .. Len(queue') -> 0 .. Len(sent)] /\ \A k \in 0 .. Len(queue') : qos[k] = pos[k + 1]
    BY <2>4, <2>5, Zenon
  <2>7. pos[0] <= pos[1] /\ merged(queue[1].files, replay(pos[0])) = replay(pos[1])
    BY <2>1, <2>4, Zenon DEF QueueFollows
  <2>8. indexerFiles = replay(pos[0])
    BY Zenon DEF QueueFollows
  <2>9. merged(Head(queue).files, indexerFiles) = replay(pos[1])
    BY <2>1, <2>7, <2>8, Zenon
  <2>10. qos[0] = pos[1]
    <3>1. qos[0] = pos[0 + 1]
      BY <2>4, <2>6, Zenon
    <3> QED
      BY <3>1
  <2>11. qos[Len(queue')] = Len(sent)
    BY <2>2, <2>4, <2>6, Zenon DEF QueueFollows
  <2>12. pos[0] \in Nat /\ pos[1] \in Nat
    <3>1. pos[0] \in 0 .. Len(sent) /\ pos[1] \in 0 .. Len(sent)
      BY <2>4, <2>5, Zenon
    <3> QED
      BY <3>1, <2>0
  <2>13. ASSUME NEW k \in 1 .. Len(queue')
         PROVE  /\ qos[k - 1] <= qos[k]
                /\ merged(queue'[k].files, replay(qos[k - 1])) = replay(qos[k])
    <3>1. /\ k + 1 \in 1 .. Len(queue) /\ queue'[k] = queue[k + 1]
          /\ qos[k - 1] = pos[(k + 1) - 1] /\ qos[k] = pos[k + 1]
      BY <2>1, <2>4, <2>6, Zenon
    <3> QED
      BY <3>1, Zenon DEF QueueFollows
  <2>14. /\ (task = "bulk" => merged(update.files, indexerFiles) = replay(qos[0]))'
         /\ (task # "bulk" => indexerFiles = replay(qos[0]))'
    BY <2>3, <2>9, <2>10, Zenon
  <2>15. QueueFollows(qos)'
    BY <2>3, <2>6, <2>11, <2>13, <2>14, Zenon DEF QueueFollows
  <2> QED
    BY <2>7, <2>9, <2>10, <2>12, <2>15, Zenon
\* A step that leaves the typechecker's files as they are.
<1>StayStep.
  ASSUME WInv, WInv', SentIsOrdered, ReplaysAreTables,
         sent' = sent, nextVersion' = nextVersion \/ nextVersion' = nextVersion + 1,
         NEW pos, NEW n, NEW m, QueueFollows(pos), TypecheckerFollows(pos[0], n, m),
         NEW qos, QueueFollows(qos)', pos[0] \in Nat, qos[0] \in Nat, pos[0] <= qos[0],
         typecheckerFiles' = typecheckerFiles,
         slowPathRunning' => slowPathRunning /\ undo' = undo
  PROVE  PInv' /\ Latest!PromiseNext
  <2> USE <1>StayStep
  <2>1. n \in 0 .. qos[0] /\ m \in 0 .. n /\ n \in Nat /\ m \in Nat /\ m <= n /\ n <= n /\ m <= m
    BY DEF TypecheckerFollows
  <2>2. TypecheckerFollows(qos[0], n, m)'
    BY <2>1, <1>SentUnchanged, Zenon DEF TypecheckerFollows
  <2> QED
    BY <2>1, <2>2, <1>FollowStep, Zenon
\* A step that ends with the typechecker's files up to date.
<1>CatchUpStep.
  ASSUME WInv, WInv', SentIsOrdered, ReplaysAreTables,
         sent' = sent, nextVersion' = nextVersion \/ nextVersion' = nextVersion + 1,
         NEW pos, NEW n, NEW m, QueueFollows(pos), TypecheckerFollows(pos[0], n, m),
         NEW qos, QueueFollows(qos)', pos[0] \in Nat, qos[0] \in Nat, pos[0] <= qos[0],
         task' = "await",
         slowPathRunning' => IF slowPathRunning THEN undo' = undo ELSE undo'.files = typecheckerFiles
  PROVE  PInv' /\ Latest!PromiseNext
  <2> USE <1>CatchUpStep
  <2>0. PICK l : l = IF slowPathRunning THEN m ELSE n
    BY Zenon
  <2>1. /\ qos[0] \in 0 .. qos[0] /\ m <= qos[0] /\ n <= qos[0] /\ l \in 0 .. qos[0]
        /\ n <= n /\ m <= m
    BY <2>0 DEF TypecheckerFollows
  <2>2. typecheckerFiles' = indexerFiles'
    BY Zenon DEF WInv, TablesAgree
  <2>3. indexerFiles' = replay(qos[0])'
    BY Zenon DEF QueueFollows
  <2>4. (slowPathRunning => undo.files = replay(l))'
    BY <2>0, <1>SentUnchanged, Zenon DEF TypecheckerFollows
  <2>5. TypecheckerFollows(qos[0], qos[0], l)'
    BY <2>1, <2>2, <2>3, <2>4, Zenon DEF TypecheckerFollows
  <2> QED
    BY <2>0, <2>1, <2>5, <1>FollowStep, Zenon
\* The first position.
<1>FirstPosition.
  ASSUME WInv, SentIsOrdered, NEW pos, QueueFollows(pos)
  PROVE  pos[0] \in Nat /\ pos[0] <= pos[0] /\ pos[0] \in 0 .. Len(sent)
  <2> USE <1>FirstPosition
  <2>1. queue \in Seq(Edit) /\ Len(sent) \in Nat
    BY <1>SentType, Zenon DEF WInv, WType
  <2>2. 0 \in 0 .. Len(queue)
    BY <2>1
  <2>3. pos[0] \in 0 .. Len(sent)
    BY <2>2, Zenon DEF QueueFollows
  <2> QED
    BY <2>1, <2>3
\* The steps that neither take an edit nor change a file table.
<1>QuietSteps.
  ASSUME WInv, WInv', PInv,
         skipVersion \/ decideHead \/ tryCancelSlowPath \/ resolve \/ endSlowPath
  PROVE  PInv' /\ Latest!PromiseNext
  <2> USE <1>QuietSteps
  <2>1. PICK pos, n, m : QueueFollows(pos) /\ TypecheckerFollows(pos[0], n, m)
    BY Zenon DEF PInv
  <2>2. SentIsOrdered /\ ReplaysAreTables /\ StatusIsRight
    BY Zenon DEF PInv, WInv
  <2>3. pos[0] \in Nat /\ pos[0] <= pos[0]
    BY <2>1, <2>2, <1>FirstPosition, Zenon
  <2> USE DEF indexerVars, taskVars, typecheckerVars, queueVars
  <2>4. /\ UNCHANGED <<sent, queue, indexerFiles, typecheckerFiles>>
        /\ nextVersion' = nextVersion \/ nextVersion' = nextVersion + 1
        /\ UNCHANGED <<task, update>> \/ (task # "bulk" /\ task' # "bulk")
    BY Zenon DEF skipVersion, decideHead, tryCancelSlowPath, resolve, endSlowPath
  <2>5. slowPathRunning' => slowPathRunning /\ undo' = undo
    BY <2>2, Zenon DEF skipVersion, decideHead, tryCancelSlowPath, cancelSlowPath, resolve,
         endSlowPath, epochVars, slowPathRunning, StatusIsRight
  <2>6. QueueFollows(pos)'
    BY <2>1, <2>4, <1>QueueStays, Zenon
  <2> QED
    BY <2>1, <2>2, <2>3, <2>4, <2>5, <2>6, <1>StayStep, Zenon
\* The processing thread takes an edit.
<1>TakingSteps.
  ASSUME WInv, WInv', PInv, commitEdit \/ leaveToTypechecker
  PROVE  PInv' /\ Latest!PromiseNext
  <2> USE <1>TakingSteps
  <2>1. PICK pos, n, m : QueueFollows(pos) /\ TypecheckerFollows(pos[0], n, m)
    BY Zenon DEF PInv
  <2>2. SentIsOrdered /\ ReplaysAreTables
    BY Zenon DEF PInv
  <2> USE DEF indexerVars, taskVars, typecheckerVars
  <2>3. /\ task = "await" /\ queue # <<>> /\ popQueue
        /\ \/ task' = "bulk" /\ update' = Head(queue) /\ UNCHANGED indexerFiles
           \/ task' # "bulk" /\ indexerFiles' = merged(Head(queue).files, indexerFiles)
    BY Zenon DEF commitEdit, leaveToTypechecker, headIsTaken
  <2>4. UNCHANGED <<sent, nextVersion, typecheckerFiles, undo>> /\ slowPathRunning' = slowPathRunning
    BY Zenon DEF commitEdit, leaveToTypechecker, popQueue, epochVars, slowPathRunning
  <2>5. /\ \E qos : QueueFollows(qos)' /\ qos[0] = pos[1]
        /\ pos[0] \in Nat /\ pos[1] \in Nat /\ pos[0] <= pos[1]
    BY <2>1, <2>2, <2>3, <1>HeadTaken, Zenon
  <2>6. PICK qos : QueueFollows(qos)' /\ qos[0] = pos[1]
    BY <2>5, Zenon
  <2>7. qos[0] \in Nat /\ pos[0] <= qos[0]
    BY <2>5, <2>6, Zenon
  <2> QED
    BY <2>1, <2>2, <2>4, <2>5, <2>6, <2>7, <1>StayStep, Zenon
\* The typechecker takes an update.
<1>ServingSteps.
  ASSUME WInv, WInv', PInv, runFastPath \/ runSlowPath \/ runBulkSlowPath
  PROVE  PInv' /\ Latest!PromiseNext
  <2> USE <1>ServingSteps
  <2>1. PICK pos, n, m : QueueFollows(pos) /\ TypecheckerFollows(pos[0], n, m)
    BY Zenon DEF PInv
  <2>2. SentIsOrdered /\ ReplaysAreTables /\ StatusIsRight /\ WType
    BY Zenon DEF PInv, WInv
  <2>3. pos[0] \in Nat /\ pos[0] <= pos[0]
    BY <2>1, <2>2, <1>FirstPosition, Zenon
  <2> USE DEF indexerVars, taskVars, typecheckerVars, queueVars
  <2>4. task' = "await" /\ UNCHANGED <<sent, queue, nextVersion>> /\ slowPath = "idle"
    BY Zenon DEF runFastPath, runSlowPath, runBulkSlowPath, taskDone
  <2>5. runBulkSlowPath => indexerFiles' = merged(update.files, indexerFiles)
    <3>1. runBulkSlowPath => update \in Edit /\ indexerFiles \in Table
      BY <2>2, Zenon DEF runBulkSlowPath, WType
    <3> QED
      BY <3>1, IndexedUpdateType, Zenon DEF runBulkSlowPath
  <2>6. QueueFollows(pos)'
    <3>1. \/ task # "bulk" /\ task' # "bulk" /\ UNCHANGED indexerFiles
          \/ task = "bulk" /\ task' # "bulk" /\ indexerFiles' = merged(update.files, indexerFiles)
      BY <2>4, <2>5, Zenon DEF runFastPath, runSlowPath, runBulkSlowPath
    <3> QED
      BY <2>1, <2>4, <3>1, <1>QueueStays, Zenon
  <2>7. ~slowPathRunning
    BY <2>2, <2>4, Zenon DEF StatusIsRight
  <2>8. slowPathRunning' => undo'.files = typecheckerFiles
    <3>1. ASSUME NEW u, beginSlowPath(u) PROVE undo'.files = typecheckerFiles
      BY <3>1 DEF beginSlowPath
    <3>2. runFastPath => ~slowPathRunning'
      BY <2>7, Zenon DEF runFastPath, epochVars, slowPathRunning
    <3> QED
      BY <3>1, <3>2, Zenon DEF runSlowPath, runBulkSlowPath
  <2> QED
    BY <2>1, <2>2, <2>3, <2>4, <2>6, <2>7, <2>8, <1>CatchUpStep, Zenon
\* An edit preempts.
<1>PreemptingStep.
  ASSUME WInv, WInv', PInv, preempt
  PROVE  PInv' /\ Latest!PromiseNext
  <2> USE <1>PreemptingStep
  <2>1. PICK pos, n, m : QueueFollows(pos) /\ TypecheckerFollows(pos[0], n, m)
    BY Zenon DEF PInv
  <2>2. SentIsOrdered /\ ReplaysAreTables /\ StatusIsRight
    BY Zenon DEF PInv, WInv
  <2> USE DEF indexerVars, taskVars, typecheckerVars
  <2>3. /\ task = "await" /\ queue # <<>> /\ popQueue
        /\ task' = "await" /\ indexerFiles' = merged(Head(queue).files, indexerFiles)
    BY Zenon DEF preempt
  <2>4. UNCHANGED <<sent, nextVersion, undo>> /\ slowPathRunning' = slowPathRunning
    BY Zenon DEF preempt, popQueue, epochVars, slowPathRunning
  <2>5. /\ \E qos : QueueFollows(qos)' /\ qos[0] = pos[1]
        /\ pos[0] \in Nat /\ pos[1] \in Nat /\ pos[0] <= pos[1]
    BY <2>1, <2>2, <2>3, <1>HeadTaken, Zenon
  <2>6. PICK qos : QueueFollows(qos)' /\ qos[0] = pos[1]
    BY <2>5, Zenon
  <2>7. qos[0] \in Nat /\ pos[0] <= qos[0]
    BY <2>5, <2>6, Zenon
  <2> QED
    BY <2>1, <2>2, <2>3, <2>4, <2>5, <2>6, <2>7, <1>CatchUpStep, Zenon
\* The slow path commits, or is undone.
<1>CommittingStep.
  ASSUME WInv, WInv', PInv, tryCommitEpoch
  PROVE  PInv' /\ Latest!PromiseNext
  <2> USE <1>CommittingStep
  <2>1. PICK pos, n, m : QueueFollows(pos) /\ TypecheckerFollows(pos[0], n, m)
    BY Zenon DEF PInv
  <2>2. SentIsOrdered /\ ReplaysAreTables /\ StatusIsRight /\ StatusIsRight'
    BY Zenon DEF PInv, WInv
  <2>3. pos[0] \in Nat /\ pos[0] <= pos[0]
    BY <2>1, <2>2, <1>FirstPosition, Zenon
  <2> USE DEF indexerVars, taskVars, queueVars
  <2>4. /\ UNCHANGED <<sent, queue, nextVersion, task, update, indexerFiles>>
        /\ slowPath = "check" /\ slowPath' \in {"committed", "idle"}
    BY Zenon DEF tryCommitEpoch
  <2>5. slowPathRunning /\ ~slowPathRunning'
    BY <2>2, <2>4, Zenon DEF StatusIsRight
  <2>6. QueueFollows(pos)'
    BY <2>1, <2>4, <1>QueueStays, Zenon
  <2>7. CASE typecheckerFiles' = typecheckerFiles
    BY <2>1, <2>2, <2>3, <2>4, <2>5, <2>6, <2>7, <1>StayStep, Zenon
  <2>8. CASE typecheckerFiles' = undo.files
    <3>1. m \in 0 .. pos[0] /\ m \in 0 .. m /\ m <= m
      BY <2>1, <2>3 DEF TypecheckerFollows
    <3>2. typecheckerFiles' = replay(m)'
      BY <2>1, <2>4, <2>5, <2>8, <1>SentUnchanged, Zenon DEF TypecheckerFollows
    <3>3. TypecheckerFollows(pos[0], m, m)'
      BY <2>5, <3>1, <3>2, Zenon DEF TypecheckerFollows
    <3> QED
      BY <2>1, <2>2, <2>4, <2>5, <2>6, <3>1, <3>3, <1>FollowStep, Zenon
  <2> QED
    BY <2>7, <2>8, Zenon DEF tryCommitEpoch
\* The two oldest edits of the queue become one.
<1>MergingStep.
  ASSUME WInv, WInv', PInv, mergeQueued
  PROVE  PInv' /\ Latest!PromiseNext
  <2> USE <1>MergingStep
  <2>1. PICK pos, n, m : QueueFollows(pos) /\ TypecheckerFollows(pos[0], n, m)
    BY Zenon DEF PInv
  <2>2. SentIsOrdered /\ ReplaysAreTables /\ queue \in Seq(Edit) /\ Len(sent) \in Nat
    BY <1>SentType, Zenon DEF PInv, WInv, WType
  <2>3. pos[0] \in Nat /\ pos[0] <= pos[0] /\ pos[0] \in 0 .. Len(sent)
    BY <2>1, <2>2, <1>FirstPosition, Zenon
  <2> USE DEF indexerVars, taskVars, typecheckerVars
  <2>4. UNCHANGED <<sent, nextVersion, task, update, indexerFiles, typecheckerFiles, undo>>
          /\ slowPathRunning' = slowPathRunning
    BY Zenon DEF mergeQueued, epochVars, slowPathRunning
  <2>5. /\ Len(queue) \in Nat /\ Len(queue) > 1 /\ queue[1] \in Edit /\ queue[2] \in Edit
        /\ queue' \in Seq(Edit) /\ Len(queue') = Len(queue) - 1
        /\ queue'[1] = mergeParams(queue[1], queue[2])
        /\ \A k \in 2 .. Len(queue') : queue'[k] = queue[k + 1]
    BY <2>2, QueueMerged, Zenon
  <2>6. PICK qos : qos = [k \in 0 .. Len(queue') |-> IF k = 0 THEN pos[0] ELSE pos[k + 1]]
    BY Zenon
  <2>7. /\ 0 \in 0 .. Len(queue') /\ 1 \in 0 .. Len(queue') /\ 2 \in 0 .. Len(queue)
        /\ 1 \in 1 .. Len(queue) /\ 2 \in 1 .. Len(queue) /\ 1 - 1 = 0 /\ 2 - 1 = 1 /\ 1 + 1 = 2
        /\ 1 \in 0 .. Len(queue)
        /\ Len(queue') \in 0 .. Len(queue') /\ Len(queue') # 0 /\ Len(queue') + 1 = Len(queue)
        /\ \A k \in 0 .. Len(queue') : k + 1 \in 0 .. Len(queue)
        /\ \A k \in 2 .. Len(queue') :
             /\ k \in 0 .. Len(queue') /\ k - 1 \in 0 .. Len(queue') /\ k # 0 /\ k - 1 # 0
             /\ (k - 1) + 1 = (k + 1) - 1 /\ k + 1 \in 1 .. Len(queue)
        /\ \A k \in 1 .. Len(queue') : k = 1 \/ k \in 2 .. Len(queue')
    BY <2>5, SMTT(20)
  <2>8. pos \in [0 .. Len(queue) -> 0 .. Len(sent)]
    BY <2>1, Zenon DEF QueueFollows
  <2>9. /\ qos \in [0 .. Len(queue') -> 0 .. Len(sent)]
        /\ qos[0] = pos[0]
        /\ \A k \in 0 .. Len(queue') : k # 0 => qos[k] = pos[k + 1]
    BY <2>3, <2>6, <2>7, <2>8, Zenon
  <2>10. qos[Len(queue')] = Len(sent)
    BY <2>1, <2>7, <2>9, Zenon DEF QueueFollows
  <2>11. qos[1] = pos[2] /\ pos[0] <= pos[1] /\ pos[1] <= pos[2]
         /\ merged(queue[1].files, replay(pos[0])) = replay(pos[1])
         /\ merged(queue[2].files, replay(pos[1])) = replay(pos[2])
    <3>1. qos[1] = pos[2]
      BY <2>7, <2>9
    <3> QED
      BY <2>1, <2>7, <3>1, Zenon DEF QueueFollows
  <2>12. qos[0] <= qos[1] /\ merged(queue'[1].files, replay(qos[0])) = replay(qos[1])
    <3>1. pos[1] \in Nat /\ pos[2] \in Nat
      <4>1. pos[1] \in 0 .. Len(sent) /\ pos[2] \in 0 .. Len(sent)
        BY <2>7, <2>8, Zenon
      <4> QED
        BY <4>1, <2>2
    <3>2. qos[0] <= qos[1]
      BY <2>3, <2>9, <2>11, <3>1
    <3>3. queue'[1].files = merged(queue[2].files, queue[1].files)
      BY <2>5 DEF mergeParams
    <3>4. queue[1].files \in Changes /\ queue[2].files \in Changes /\ replay(pos[0]) \in Table
      BY <2>2, <2>3, <2>5, Zenon DEF Edit, ReplaysAreTables
    <3>5. merged(queue'[1].files, replay(pos[0])) = merged(queue[2].files, merged(queue[1].files, replay(pos[0])))
      <4>1. merged(merged(queue[2].files, queue[1].files), replay(pos[0]))
              = merged(queue[2].files, merged(queue[1].files, replay(pos[0])))
        BY <3>4, MergeAssociates, Zenon
      <4> QED
        BY <3>3, <4>1
    <3> QED
      BY <2>9, <2>11, <3>2, <3>5, Zenon
  <2>13. ASSUME NEW k \in 1 .. Len(queue')
         PROVE  qos[k - 1] <= qos[k] /\ merged(queue'[k].files, replay(qos[k - 1])) = replay(qos[k])
    <3>1. CASE k = 1
      BY <2>7, <2>12, <3>1, Zenon
    <3>2. CASE k \in 2 .. Len(queue')
      <4>1. /\ k + 1 \in 1 .. Len(queue) /\ queue'[k] = queue[k + 1]
            /\ qos[k - 1] = pos[(k + 1) - 1] /\ qos[k] = pos[k + 1]
        BY <2>5, <2>7, <2>9, <3>2, Zenon
      <4> QED
        BY <2>1, <4>1, Zenon DEF QueueFollows
    <3> QED
      BY <2>7, <3>1, <3>2, Zenon
  <2>14. QueueFollows(qos)'
    <3>1. \A i : replay(i)' = replay(i)
      BY <2>4, <1>SentUnchanged, Zenon
    <3>2. /\ (task = "bulk" => merged(update.files, indexerFiles) = replay(qos[0]))'
          /\ (task # "bulk" => indexerFiles = replay(qos[0]))'
      BY <2>1, <2>4, <2>9, <3>1, Zenon DEF QueueFollows
    <3> QED
      BY <2>4, <2>9, <2>10, <2>13, <3>1, <3>2, Zenon DEF QueueFollows
  <2>15. qos[0] \in Nat /\ pos[0] <= qos[0]
    BY <2>3, <2>9, Zenon
  <2> QED
    BY <2>1, <2>2, <2>3, <2>4, <2>14, <2>15, <1>StayStep, Zenon
\* The client sends another edit.
<1>SentGrows.
  ASSUME SentIsOrdered, ReplaysAreTables, nextVersion \in Nat, nextVersion > 0,
         NEW S \in SUBSET Files, S # {}, NEW files \in [S -> Content(nextVersion)],
         sent' = Append(sent, [epoch |-> nextVersion, files |-> files]),
         nextVersion' = nextVersion + 1, NEW N, N = Len(sent)
  PROVE  /\ files \in Changes
         /\ SentIsOrdered' /\ ReplaysAreTables'
         /\ N \in Nat /\ Len(sent') = N + 1
         /\ \A n \in 0 .. N : replay(n)' = replay(n)
         /\ replay(N + 1)' = merged(files, replay(N))
         /\ Len(edits') = Len(edits) + 1 /\ SubSeq(edits', 1, Len(edits)) = edits
  <2> USE <1>SentGrows
  <2>1. files \in [S -> FileState] /\ \A f \in S : files[f].version = nextVersion
    <3>1. \A f \in S : files[f] \in FileState /\ files[f].version = nextVersion
      BY DEF Content, FileState
    <3> QED
      BY <3>1, Zenon
  <2>2. files \in Changes /\ DOMAIN files = S
    BY <2>1, IsChanges, Zenon
  <2>3. /\ sent \in Seq(SentEdit) /\ N \in Nat
        /\ \A i \in 1 .. N : sent[i].epoch \in Nat /\ sent[i].files \in Changes /\ sent[i].epoch < nextVersion
    BY <1>SentType, Zenon DEF SentIsOrdered
  <2> DEFINE new == [epoch |-> nextVersion, files |-> files]
  <2>4. new \in SentEdit /\ new.epoch = nextVersion /\ new.files = files
    BY <2>2 DEF SentEdit
  <2>5. sent' = Append(sent, new)
    BY Zenon
  <2> HIDE DEF new
  <2>6. /\ sent' \in Seq(SentEdit) /\ Len(sent') = N + 1
        /\ sent'[N + 1] = new /\ \A i \in 1 .. N : sent'[i] = sent[i]
    BY <2>3, <2>4, <2>5
  <2>7. /\ \A i \in 1 .. N + 1 : i \in 1 .. N \/ i = N + 1
        /\ 1 .. N \subseteq 1 .. N + 1 /\ N + 1 \in 1 .. N + 1
        /\ \A n \in 0 .. N + 1 : n \in 0 .. N \/ n = N + 1
        /\ \A n \in 0 .. N : n # N + 1 /\ n \in Nat /\ 1 .. n \subseteq 1 .. N /\ (n # 0 => n \in 1 .. N)
        /\ N \in 0 .. N /\ N + 1 # 0 /\ N + 1 \in 1 .. Len(sent')
        /\ \A i, j \in 1 .. N + 1 : i < j => i \in 1 .. N /\ (j \in 1 .. N \/ j = N + 1)
    BY <2>3, <2>6
  <2>8. SentIsOrdered'
    <3>1. \A i \in 1 .. Len(sent') :
            /\ 0 < sent'[i].epoch /\ sent'[i].epoch < nextVersion'
            /\ DOMAIN sent'[i].files # {}
            /\ \A f \in DOMAIN sent'[i].files : sent'[i].files[f].version = sent'[i].epoch
      <4> SUFFICES ASSUME NEW i \in 1 .. N + 1
                   PROVE  /\ 0 < sent'[i].epoch /\ sent'[i].epoch < nextVersion + 1
                          /\ DOMAIN sent'[i].files # {}
                          /\ \A f \in DOMAIN sent'[i].files : sent'[i].files[f].version = sent'[i].epoch
        BY <2>6, Zenon
      <4>1. CASE i = N + 1
        <5>1. sent'[i].epoch = nextVersion /\ sent'[i].files = files
          BY <2>4, <2>6, <4>1, Zenon
        <5>2. 0 < nextVersion /\ nextVersion < nextVersion + 1
          OBVIOUS
        <5> QED
          BY <2>1, <2>2, <5>1, <5>2, Zenon
      <4>2. CASE i \in 1 .. N
        <5>1. sent[i].epoch < nextVersion + 1
          BY <2>3, <4>2
        <5> QED
          BY <2>6, <4>2, <5>1, Zenon DEF SentIsOrdered
      <4> QED
        BY <2>7, <4>1, <4>2, Zenon
    <3>2. \A i, j \in 1 .. Len(sent') : i < j => sent'[i].epoch < sent'[j].epoch
      <4> SUFFICES ASSUME NEW i \in 1 .. N + 1, NEW j \in 1 .. N + 1, i < j
                   PROVE  sent'[i].epoch < sent'[j].epoch
        BY <2>6, Zenon
      <4>1. i \in 1 .. N /\ (j \in 1 .. N \/ j = N + 1) /\ sent'[i] = sent[i]
        BY <2>6, <2>7, Zenon
      <4>2. CASE j \in 1 .. N
        BY <2>6, <4>1, <4>2, Zenon DEF SentIsOrdered
      <4>3. CASE j = N + 1
        BY <2>3, <2>4, <2>6, <4>1, <4>3, Zenon
      <4> QED
        BY <4>1, <4>2, <4>3, Zenon
    <3> QED
      BY <2>6, <3>1, <3>2, Zenon DEF SentIsOrdered
  <2>9. /\ Len(edits) = N /\ Len(edits') = N + 1
        /\ \A i \in 1 .. N : edits'[i] = edits[i]
        /\ edits'[N + 1] = files
        /\ DOMAIN edits = 1 .. N /\ edits = [i \in 1 .. N |-> edits[i]]
        /\ edits' = [i \in 1 .. N + 1 |-> edits'[i]]
    <3>1. edits = [i \in 1 .. N |-> sent[i].files] /\ edits' = [i \in 1 .. N + 1 |-> sent'[i].files]
      BY <2>6, Zenon DEF edits
    <3> HIDE DEF edits
    <3>2. Len(edits) = N /\ Len(edits') = N + 1
      BY <3>1, <2>3
    <3>3. \A i \in 1 .. N : edits'[i] = sent'[i].files /\ edits[i] = sent[i].files
      BY <3>1, <2>7, Zenon
    <3>4. edits'[N + 1] = files
      BY <3>1, <2>4, <2>6, <2>7, Zenon
    <3>5. \A i \in 1 .. N : edits'[i] = edits[i]
      BY <3>3, <2>6, Zenon
    <3>6. DOMAIN edits = 1 .. N /\ edits = [i \in 1 .. N |-> edits[i]]
      BY <3>1
    <3>7. edits' = [i \in 1 .. N + 1 |-> edits'[i]]
      BY <3>1
    <3> QED
      BY <3>2, <3>4, <3>5, <3>6, <3>7, Zenon
  <2>10. ASSUME NEW n \in 0 .. N PROVE replay(n)' = replay(n) /\ hasLast(edits', n)
    <3>1. /\ n \in Nat /\ hasLast(edits, n) /\ \A i \in 1 .. n : edits[i] = edits'[i]
      BY <2>7, <2>9, Zenon DEF ReplaysAreTables
    <3> QED
      <4> HIDE DEF edits
      <4> PICK es, ds : es = edits /\ ds = edits'
        BY Zenon
      <4>1. Latest!Replay(es, n) = Latest!Replay(ds, n) /\ hasLast(ds, n)
        BY <3>1, <1>ReplayPrefix
      <4> QED
        BY <4>1, Zenon DEF replay
  <2>11. replay(N + 1)' = merged(files, replay(N)) /\ hasLast(edits', N + 1)
    <3>1. DOMAIN edits'[N + 1] \subseteq Files /\ hasLast(edits', N) /\ replay(N)' = replay(N)
      BY <2>2, <2>7, <2>9, <2>10, Zenon
    <3>2. /\ Latest!Replay(edits', N + 1) = merged(edits'[N + 1], Latest!Replay(edits', N))
          /\ hasLast(edits', N + 1)
      BY <2>3, <3>1, <1>ReplayStep, Zenon
    <3> QED
      BY <2>9, <3>1, <3>2, Zenon DEF replay
  <2>12. ReplaysAreTables'
    <3>1. ASSUME NEW n \in 0 .. N
          PROVE  /\ hasLast(edits', n) /\ replay(n)' \in Table
                 /\ \A f \in Files : replay(n)'[f] # Absent => replay(n)'[f].version <= lastEpoch(n)'
      <4>1. lastEpoch(n)' = lastEpoch(n)
        BY <2>6, <2>7, Zenon DEF lastEpoch
      <4> QED
        BY <2>10, <4>1, Zenon DEF ReplaysAreTables
    <3>2. /\ replay(N + 1)' \in Table
          /\ \A f \in Files : replay(N + 1)'[f] # Absent => replay(N + 1)'[f].version <= lastEpoch(N + 1)'
      <4>1. replay(N) \in Table
        BY <2>7, Zenon DEF ReplaysAreTables
      <4>2. /\ merged(files, replay(N)) \in Table
            /\ \A f \in Files : merged(files, replay(N))[f] = IF f \in DOMAIN files THEN files[f] ELSE replay(N)[f]
        BY <2>2, <4>1, MergeTable, Zenon
      <4>3. lastEpoch(N + 1)' = nextVersion
        BY <2>4, <2>6, <2>7, Zenon DEF lastEpoch
      <4>4. lastEpoch(N) \in Nat /\ lastEpoch(N) <= nextVersion
        BY <2>3 DEF lastEpoch
      <4>5. ASSUME NEW f \in Files, replay(N)[f] # Absent PROVE replay(N)[f].version <= nextVersion
        <5>1. replay(N)[f] \in FileState /\ replay(N)[f].version <= lastEpoch(N)
          BY <2>7, <4>5, Zenon DEF ReplaysAreTables, Table
        <5>2. replay(N)[f].version \in Nat
          BY <5>1, Zenon DEF FileState
        <5> QED
          BY <4>4, <5>1, <5>2
      <4>6. nextVersion <= nextVersion
        OBVIOUS
      <4>7. ASSUME NEW f \in Files, merged(files, replay(N))[f] # Absent
            PROVE  merged(files, replay(N))[f].version <= nextVersion
        BY <2>1, <2>2, <4>2, <4>5, <4>6, <4>7, Zenon
      <4> QED
        BY <2>11, <4>2, <4>3, <4>7, Zenon
    <3>3. \A n \in 0 .. N + 1 :
            /\ hasLast(edits', n) /\ replay(n)' \in Table
            /\ \A f \in Files : replay(n)'[f] # Absent => replay(n)'[f].version <= lastEpoch(n)'
      BY <2>7, <2>11, <3>1, <3>2, Zenon
    <3> QED
      BY <2>6, <3>3 DEF ReplaysAreTables
  <2>13. SubSeq(edits', 1, Len(edits)) = edits
    <3> HIDE DEF edits
    <3> PICK es, ds : es = edits /\ ds = edits'
      BY Zenon
    <3>1. /\ Len(es) = N /\ DOMAIN es = 1 .. N /\ es = [i \in 1 .. N |-> es[i]]
          /\ ds = [i \in 1 .. N + 1 |-> ds[i]] /\ \A i \in 1 .. N : ds[i] = es[i]
      BY <2>9, Zenon
    <3>2. SubSeq(ds, 1, N) = [i \in 1 .. N |-> ds[i]]
      BY <3>1, <2>3
    <3>3. [i \in 1 .. N |-> ds[i]] = [i \in 1 .. N |-> es[i]]
      BY <3>1, Zenon
    <3> QED
      BY <3>1, <3>2, <3>3, Zenon
  <2> QED
    BY <2>2, <2>3, <2>6, <2>8, <2>9, <2>10, <2>11, <2>12, <2>13, Zenon
\* The queue after an edit came.
<1>QueueGrows.
  ASSUME WInv, SentIsOrdered, ReplaysAreTables, NEW pos, QueueFollows(pos),
         NEW edit \in Edit, NEW N \in Nat, N = Len(sent), Len(sent') = N + 1,
         \A n \in 0 .. N : replay(n)' = replay(n), replay(N + 1)' = merged(edit.files, replay(N)),
         UNCHANGED <<task, update, indexerFiles>>,
         \/ queue' = Append(queue, edit)
         \/ queue # <<>> /\ queue' = [queue EXCEPT ![Len(queue)] = mergeParams(queue[Len(queue)], edit)]
  PROVE  \E qos : QueueFollows(qos)' /\ qos[0] \in Nat /\ pos[0] \in Nat /\ pos[0] <= qos[0]
  <2> USE <1>QueueGrows
  <2> PICK L : L = Len(queue)
    BY Zenon
  <2>1. queue \in Seq(Edit) /\ L \in Nat /\ \A k \in 1 .. L : queue[k] \in Edit
    BY DEF WInv, WType
  <2>2. pos[0] \in Nat /\ pos[0] <= pos[0] /\ pos[0] \in 0 .. N
    BY <1>FirstPosition, Zenon
  <2>3. /\ pos \in [0 .. L -> 0 .. N] /\ pos[L] = N
        /\ \A k \in 1 .. L : /\ pos[k - 1] <= pos[k]
                             /\ merged(queue[k].files, replay(pos[k - 1])) = replay(pos[k])
    BY Zenon DEF QueueFollows
  <2>4. /\ 0 .. N \subseteq 0 .. N + 1 /\ N \in 0 .. N /\ N + 1 \in 0 .. N + 1 /\ N <= N + 1
        /\ \A p \in 0 .. N : p <= N + 1 /\ p \in Nat
        /\ N + 1 \in Nat
    OBVIOUS
  <2>5. CASE queue' = Append(queue, edit)
    <3>1. /\ Len(queue') = L + 1 /\ queue'[L + 1] = edit
          /\ \A k \in 1 .. L : queue'[k] = queue[k]
      BY <2>1, <2>5
    <3> PICK qos : qos = [k \in 0 .. L + 1 |-> IF k = L + 1 THEN N + 1 ELSE pos[k]]
      BY Zenon
    <3>2. /\ \A k \in 0 .. L + 1 : k # L + 1 => k \in 0 .. L
          /\ \A k \in 0 .. L : k # L + 1 /\ k \in 0 .. L + 1
          /\ L + 1 \in 0 .. L + 1 /\ (L + 1) - 1 = L /\ 0 \in 0 .. L /\ L \in 0 .. L
          /\ \A k \in 1 .. L + 1 : k \in 1 .. L \/ k = L + 1
          /\ \A k \in 1 .. L : k \in 0 .. L /\ k - 1 \in 0 .. L
      BY <2>1
    <3>3. /\ qos \in [0 .. L + 1 -> 0 .. N + 1] /\ qos[L + 1] = N + 1
          /\ \A k \in 0 .. L : qos[k] = pos[k]
      BY <2>3, <2>4, <3>2, Zenon
    <3>4. ASSUME NEW k \in 1 .. L + 1
          PROVE  qos[k - 1] <= qos[k] /\ merged(queue'[k].files, replay(qos[k - 1])') = replay(qos[k])'
      <4>1. CASE k \in 1 .. L
        <5>1. /\ qos[k - 1] = pos[k - 1] /\ qos[k] = pos[k] /\ queue'[k] = queue[k]
              /\ pos[k - 1] \in 0 .. N /\ pos[k] \in 0 .. N
          BY <2>3, <3>1, <3>2, <3>3, <4>1, Zenon
        <5>2. replay(pos[k - 1])' = replay(pos[k - 1]) /\ replay(pos[k])' = replay(pos[k])
          BY <5>1, Zenon
        <5> QED
          BY <2>3, <4>1, <5>1, <5>2, Zenon
      <4>2. CASE k = L + 1
        <5>1. qos[k - 1] = N /\ qos[k] = N + 1 /\ queue'[k] = edit
          BY <2>3, <3>1, <3>2, <3>3, <4>2, Zenon
        <5>2. replay(N)' = replay(N)
          BY <2>4, Zenon
        <5> QED
          BY <2>4, <5>1, <5>2, Zenon
      <4> QED
        BY <3>2, <4>1, <4>2, Zenon
    <3>5. qos[0] = pos[0] /\ replay(pos[0])' = replay(pos[0])
      BY <2>2, <3>2, <3>3, Zenon
    <3>6. /\ (task = "bulk" => merged(update.files, indexerFiles) = replay(qos[0]))'
          /\ (task # "bulk" => indexerFiles = replay(qos[0]))'
      BY <3>5, Zenon DEF QueueFollows
    <3>7. QueueFollows(qos)'
      BY <3>1, <3>3, <3>4, <3>6, Zenon DEF QueueFollows
    <3> QED
      BY <2>2, <3>5, <3>7, Zenon
  <2>6. CASE queue # <<>> /\ queue' = [queue EXCEPT ![Len(queue)] = mergeParams(queue[Len(queue)], edit)]
    <3>1. L \in 1 .. L /\ L - 1 \in 0 .. L /\ L # 0 /\ queue[L] \in Edit /\ L - 1 # L
      BY <2>1, <2>6
    <3> DEFINE both == mergeParams(queue[L], edit)
    <3>2. both.files = merged(edit.files, queue[L].files)
      BY DEF mergeParams
    <3>3. queue' = [queue EXCEPT ![L] = both]
      BY <2>6, Zenon
    <3> HIDE DEF both
    <3>4. /\ Len(queue') = L /\ queue'[L] = both
          /\ \A k \in 1 .. L : k # L => queue'[k] = queue[k]
      BY <2>1, <3>1, <3>3
    <3> PICK qos : qos = [k \in 0 .. L |-> IF k = L THEN N + 1 ELSE pos[k]]
      BY Zenon
    <3>5. /\ 0 \in 0 .. L /\ L \in 0 .. L /\ \A k \in 1 .. L : k \in 0 .. L /\ k - 1 \in 0 .. L
          /\ \A k \in 1 .. L : k - 1 # L
      BY <2>1
    <3>6. /\ qos \in [0 .. L -> 0 .. N + 1] /\ qos[L] = N + 1
          /\ \A k \in 0 .. L : k # L => qos[k] = pos[k]
      BY <2>3, <2>4, <3>5, Zenon
    <3>7. ASSUME NEW k \in 1 .. L
          PROVE  qos[k - 1] <= qos[k] /\ merged(queue'[k].files, replay(qos[k - 1])') = replay(qos[k])'
      <4>0. /\ qos[k - 1] = pos[k - 1] /\ pos[k - 1] \in 0 .. N /\ pos[k] \in 0 .. N
            /\ replay(pos[k - 1])' = replay(pos[k - 1]) /\ replay(pos[k])' = replay(pos[k])
        BY <2>3, <3>5, <3>6, Zenon
      <4>1. CASE k # L
        BY <2>3, <3>4, <3>5, <3>6, <4>0, <4>1, Zenon
      <4>2. CASE k = L
        <5>1. qos[k] = N + 1 /\ queue'[k] = both /\ pos[k] = N
          BY <2>3, <3>4, <3>5, <3>6, <4>2, Zenon
        <5>2. queue[L].files \in Changes /\ edit.files \in Changes /\ replay(pos[k - 1]) \in Table
          BY <3>1, <4>0, Zenon DEF Edit, ReplaysAreTables
        <5>3. merged(merged(edit.files, queue[L].files), replay(pos[k - 1]))
                = merged(edit.files, merged(queue[L].files, replay(pos[k - 1])))
          BY <5>2, MergeAssociates, Zenon
        <5>4. merged(queue[L].files, replay(pos[k - 1])) = replay(N)
          BY <2>3, <4>2, <5>1, Zenon
        <5>5. merged(queue'[k].files, replay(pos[k - 1])) = merged(edit.files, replay(N))
          BY <3>2, <5>1, <5>3, <5>4
        <5> QED
          BY <2>4, <4>0, <5>1, <5>5, Zenon
      <4> QED
        BY <4>1, <4>2, Zenon
    <3>8. qos[0] = pos[0] /\ replay(pos[0])' = replay(pos[0])
      BY <2>2, <3>1, <3>5, <3>6, Zenon
    <3>9. /\ (task = "bulk" => merged(update.files, indexerFiles) = replay(qos[0]))'
          /\ (task # "bulk" => indexerFiles = replay(qos[0]))'
      BY <3>8, Zenon DEF QueueFollows
    <3>10. QueueFollows(qos)'
      BY <3>4, <3>6, <3>7, <3>9, Zenon DEF QueueFollows
    <3> QED
      BY <2>2, <3>8, <3>10, Zenon
  <2> QED
    BY <2>5, <2>6, Zenon
\* A new edit joins the queue.
<1>ReceivingStep.
  ASSUME WInv, WInv', PInv, NEW S \in SUBSET Files, S # {}, enqueueEdit(S)
  PROVE  PInv' /\ Latest!PromiseNext
  <2> USE <1>ReceivingStep
  <2>1. PICK pos, n, m : QueueFollows(pos) /\ TypecheckerFollows(pos[0], n, m)
    BY Zenon DEF PInv
  <2>2. SentIsOrdered /\ ReplaysAreTables /\ StatusIsRight /\ StatusIsRight'
    BY Zenon DEF PInv, WInv
  <2> USE DEF indexerVars, taskVars, typecheckerVars
  <2>3. /\ UNCHANGED <<task, update, indexerFiles, typecheckerFiles, undo>>
        /\ slowPathRunning' = slowPathRunning /\ nextVersion' = nextVersion + 1
    BY Zenon DEF enqueueEdit, epochVars, slowPathRunning
  <2>4. PICK files \in [S -> Content(nextVersion)] :
          LET edit == workspaceEdit(nextVersion, files)
          IN  /\ sent' = Append(sent, [epoch |-> edit.epoch, files |-> edit.files])
              /\ \/ queue' = Append(queue, edit)
                 \/ /\ queue # <<>>
                    /\ queue' = [queue EXCEPT ![Len(queue)] = mergeParams(queue[Len(queue)], edit)]
    BY Zenon DEF enqueueEdit
  <2> DEFINE edit == workspaceEdit(nextVersion, files)
  <2>5. nextVersion \in Nat /\ nextVersion > 0
    BY DEF WInv, WType, EpochsAreOrdered, isUsed
  <2>6. edit \in Edit /\ edit.epoch = nextVersion /\ edit.files = files
    <3>1. edit \in Edit /\ edit.epoch = nextVersion
      BY <2>5, WorkspaceEditType, Zenon
    <3>2. edit.files = files
      BY DEF workspaceEdit
    <3> QED
      BY <3>1, <3>2, Zenon
  <2>7. /\ sent' = Append(sent, [epoch |-> edit.epoch, files |-> edit.files])
        /\ \/ queue' = Append(queue, edit)
           \/ queue # <<>> /\ queue' = [queue EXCEPT ![Len(queue)] = mergeParams(queue[Len(queue)], edit)]
    BY <2>4, Zenon
  <2> HIDE DEF edit
  <2>8. sent' = Append(sent, [epoch |-> nextVersion, files |-> files])
    BY <2>6, <2>7, Zenon
  <2> PICK N : N = Len(sent)
    BY Zenon
  <2>9. /\ SentIsOrdered' /\ ReplaysAreTables'
        /\ N \in Nat /\ Len(sent') = N + 1
        /\ \A i \in 0 .. N : replay(i)' = replay(i)
        /\ replay(N + 1)' = merged(files, replay(N))
        /\ Len(edits') = Len(edits) + 1 /\ SubSeq(edits', 1, Len(edits)) = edits
    BY <2>2, <2>3, <2>5, <2>8, <1>SentGrows, Zenon
  <2>10. PICK qos : QueueFollows(qos)' /\ qos[0] \in Nat /\ pos[0] \in Nat /\ pos[0] <= qos[0]
    BY <2>1, <2>2, <2>3, <2>6, <2>7, <2>9, <1>QueueGrows, Zenon
  <2>11. pos[0] \in 0 .. N
    BY <2>1, <2>2, <1>FirstPosition, Zenon
  <2>12. /\ n \in 0 .. qos[0] /\ n \in 0 .. N /\ m \in 0 .. N /\ m \in 0 .. n /\ pos[0] \in 0 .. N + 1
         /\ n \in 0 .. pos[0]
    BY <2>1, <2>9, <2>10, <2>11 DEF TypecheckerFollows
  <2>13. /\ typecheckerFiles' = replay(n)' /\ (slowPathRunning => undo.files = replay(m))'
    BY <2>1, <2>3, <2>9, <2>12, Zenon DEF TypecheckerFollows
  <2>14. TypecheckerFollows(qos[0], n, m)' /\ TypecheckerFollows(pos[0], n, m)'
    BY <2>12, <2>13, Zenon DEF TypecheckerFollows
  <2>15. PInv'
    BY <2>9, <2>10, <2>14, Zenon DEF PInv
  <2>16. served = n /\ settled = IF slowPathRunning THEN m ELSE n
    <3>1. pos[0] \in 0 .. Len(sent)
      BY <2>11, Zenon
    <3> QED
      BY <2>1, <2>2, <3>1, <1>Mapped
  <2>17. served' = n /\ settled' = IF slowPathRunning' THEN m ELSE n
    <3>1. MappingIsRight'
      BY <2>2, <2>9, <1>MappedNext, Zenon
    <3>2. pos[0] \in 0 .. Len(sent')
      BY <2>9, <2>12, Zenon
    <3> QED
      BY <2>14, <3>1, <3>2 DEF MappingIsRight
  <2>18. Latest!Receive
    BY <2>3, <2>9, <2>16, <2>17, Zenon DEF Latest!Receive, edits
  <2> QED
    BY <2>15, <2>18, Zenon DEF Latest!PromiseNext
\* Nothing was edited.
<1>PromiseStart. Init => PInv /\ Latest!PromiseInit
  <2> SUFFICES ASSUME Init PROVE PInv /\ Latest!PromiseInit
    BY Zenon
  <2>1. WInv /\ StatusIsRight
    BY InitInv, Zenon DEF WInv
  <2>2. /\ sent = <<>> /\ Len(sent) = 0 /\ Len(queue) = 0 /\ edits = <<>>
        /\ typecheckerFiles = InitialFiles /\ indexerFiles = InitialFiles /\ task = "await"
    BY DEF Init, edits
  <2>3. replay(0) = InitialFiles
    BY <1>ReplayStart, Zenon DEF replay
  <2>4. /\ SentIsOrdered
        /\ 0 .. 0 = {0} /\ 1 .. 0 = {} /\ 0 <= 0 /\ 0 \in 0 .. 0
    BY <2>2 DEF SentIsOrdered
  <2>5. ReplaysAreTables
    <3>1. hasLast(edits, 0)
      BY DEF hasLast, Latest!changing
    <3>2. InitialFiles \in Table /\ \A f \in Files : InitialFiles[f] # Absent => InitialFiles[f].version <= 0
      BY InitialFilesAssumption DEF Table, FileState, Content
    <3>3. lastEpoch(0) = 0
      BY Zenon DEF lastEpoch
    <3> QED
      BY <2>2, <2>3, <2>4, <3>1, <3>2, <3>3, Zenon DEF ReplaysAreTables
  <2> PICK pos : pos = [k \in 0 .. 0 |-> 0]
    BY Zenon
  <2>6. pos \in [0 .. 0 -> 0 .. 0] /\ pos[0] = 0
    BY <2>4, Zenon
  <2>7. QueueFollows(pos)
    BY <2>2, <2>3, <2>4, <2>6 DEF QueueFollows
  <2>8. ~slowPathRunning
    BY Zenon DEF Init, EpochInit, slowPathRunning
  <2>9. TypecheckerFollows(pos[0], 0, 0)
    BY <2>2, <2>3, <2>4, <2>6, <2>8, Zenon DEF TypecheckerFollows
  <2>10. served = 0 /\ settled = 0
    <3>1. pos[0] \in 0 .. Len(sent)
      BY <2>2, <2>4, <2>6, Zenon
    <3> QED
      BY <2>1, <2>4, <2>5, <2>8, <2>9, <3>1, <1>Mapped
  <2>11. Latest!PromiseInit
    BY <2>2, <2>10, Zenon DEF Latest!PromiseInit, edits
  <2> QED
    BY <2>4, <2>5, <2>7, <2>9, <2>11, Zenon DEF PInv
\* Nothing happens.
<1>PromiseStutter.
  ASSUME PInv, UNCHANGED vars
  PROVE  PInv' /\ UNCHANGED Latest!promiseVars
  <2> USE <1>PromiseStutter
  <2>1. UNCHANGED <<nextVersion, sent, queue, indexerFiles, task, update, typecheckerFiles, undo, slowPath,
                    currentlyProcessingLSPEpoch, lastCommittedLSPEpoch>>
    BY Zenon DEF vars, queueVars, indexerVars, taskVars, typecheckerVars, epochVars
  <2>2. edits' = edits /\ (\A n : replay(n)' = replay(n)) /\ ReplaysAreTables'
    BY <2>1, <1>SentUnchanged, Zenon DEF PInv
  <2>3. SentIsOrdered'
    BY <2>1, Zenon DEF PInv, SentIsOrdered
  <2>4. PICK pos, n, m : QueueFollows(pos) /\ TypecheckerFollows(pos[0], n, m)
    BY Zenon DEF PInv
  <2>5. QueueFollows(pos)'
    BY <2>1, <2>4, <1>QueueStays, Zenon
  <2>6. TypecheckerFollows(pos[0], n, m)'
    BY <2>1, <2>2, <2>4, Zenon DEF TypecheckerFollows, slowPathRunning
  <2>7. served' = served /\ settled' = settled
    BY <2>1 DEF served, settled, prefixIn, editsIn
  <2> QED
    BY <2>1, <2>2, <2>3, <2>5, <2>6, <2>7, Zenon DEF PInv, Latest!promiseVars, edits
<1>1. ASSUME WInv, WInv', PInv, [Next]_vars
      PROVE  PInv' /\ [Latest!PromiseNext]_(Latest!promiseVars)
  <2>1. CASE serverStep
    BY <1>1, <2>1, <1>QuietSteps, <1>TakingSteps, <1>ServingSteps, <1>PreemptingStep, <1>CommittingStep, Zenon
    DEF serverStep
  <2>2. CASE clientStep
    BY <1>1, <2>2, <1>ReceivingStep, <1>QuietSteps, <1>MergingStep, Zenon DEF clientStep
  <2>3. CASE UNCHANGED vars
    BY <1>1, <2>3, <1>PromiseStutter, Zenon
  <2> QED
    BY <1>1, <2>1, <2>2, <2>3, Zenon DEF Next
<1> QED
  BY <1>1, <1>PromiseStart, WorkspaceInvariant, PTL DEF Spec, Latest!PromiseSafety

-----------------------------------------------------------------------------
(***************************************************************************)
(* The versions of the files and the epochs of the edits to come, of which *)
(* Diagnostics_proofs makes use.  Every edit changes one file there.       *)
(***************************************************************************)

\* The epochs of the edits that no typecheck has reported yet, and the next one.
upcoming ==
  {nextVersion} \cup {queue[k].epoch : k \in 1 .. Len(queue)}
    \cup (IF task = "await" THEN {} ELSE {update.epoch})

\* Every file is older than the edits to come, and than those that would be
\* undone with a running slow path.
versionsBelow(table, e) == \A f \in Files : table[f] # Absent => table[f].version < e
VersionsAreOrdered ==
  \A e \in upcoming : /\ versionsBelow(typecheckerFiles, e)
                      /\ slowPathRunning => versionsBelow(undo.files, e)

\* No file is newer than the edit that brings it.
isDated(edit) == \A f \in DOMAIN edit.files : edit.files[f].version <= edit.epoch
EditsAreDated ==
  /\ \A k \in 1 .. Len(queue) : isDated(queue[k])
  /\ task # "await" => isDated(update)

\* The extra files of an update exist.
ExtraFilesArePresent ==
  task \in {"cancel", "ready"} => update.extraFiles \subseteq presentFiles(indexerFiles)

\* Versions, in the part of the state that LSPWorkspace has.
VInv ==
  /\ nextVersion <= MaxVersion + 1
  /\ VersionsAreOrdered /\ EditsAreDated /\ ExtraFilesArePresent

\* Steps that leave the files of the typechecker alone.
silently ==
  \/ decideHead \/ commitEdit \/ tryCancelSlowPath \/ leaveToTypechecker \/ endSlowPath
  \/ \E f \in Files : enqueueEdit({f})

\* The steps of LSPWorkspace, if every edit changes one file.
versionStep ==
  \/ silently \/ runFastPath \/ preempt \/ runSlowPath \/ runBulkSlowPath \/ resolve
  \/ tryCommitEpoch \/ UNCHANGED vars

(***************************************************************************)
(* Epochs to come.                                                         *)
(***************************************************************************)

\* They are numbers that no slow path has used.
LEMMA UpcomingEpochs ==
  ASSUME WInv
  PROVE  upcoming \subseteq Nat /\ \A e \in upcoming : ~isUsed(e) /\ slowPathEpoch < e
<1>a. WType /\ EpochsAreOrdered
  BY Zenon DEF WInv
<1>1. nextVersion \in Nat /\ queue \in Seq(Edit) /\ currentlyProcessingLSPEpoch \in Nat
  BY <1>a, Zenon DEF WType
<1>2. \A k \in 1 .. Len(queue) : queue[k].epoch \in Nat
  BY <1>1, QueueEpochs, Zenon
<1>3. task # "await" => update.epoch \in Nat
  BY <1>a, Zenon DEF WType, Edit, Updates
<1>4. upcoming \subseteq Nat
  BY <1>1, <1>2, <1>3, Zenon DEF upcoming
<1>5. \A e \in upcoming : ~isUsed(e)
  BY <1>a, Zenon DEF upcoming, EpochsAreOrdered
<1>6. \A e \in upcoming : slowPathEpoch < e
  BY <1>1, <1>4, <1>5 DEF isUsed, slowPathEpoch
<1> QED
  BY <1>4, <1>5, <1>6, Zenon

\* The same of the next state.
LEMMA UpcomingNext == WInv' => (upcoming \subseteq Nat)'
<1>1. WInv => upcoming \subseteq Nat
  BY UpcomingEpochs, Zenon
<1> QED
  BY <1>1, PTL

\* The epochs that remain when the update at hand is done.
LEMMA UpdateDone ==
  ASSUME WInv, task # "await", task' = "await", UNCHANGED queueVars
  PROVE  /\ update.epoch \in upcoming /\ nextVersion \in upcoming
         /\ \A e \in upcoming' : e \in upcoming /\ update.epoch < e
<1>a. EpochsAreOrdered
  BY Zenon DEF WInv
<1> QED
  BY <1>a, Zenon DEF upcoming, EpochsAreOrdered, queueVars

\* The epochs that remain when the head of the queue is done.
LEMMA HeadDone ==
  ASSUME WInv, task = "await", task' = "await", queue # <<>>, popQueue
  PROVE  /\ Head(queue) \in Edit /\ Head(queue) = queue[1] /\ 1 \in 1 .. Len(queue)
         /\ Head(queue).epoch \in upcoming /\ nextVersion \in upcoming
         /\ \A k \in 1 .. Len(queue') : k + 1 \in 1 .. Len(queue) /\ queue'[k] = queue[k + 1]
         /\ \A e \in upcoming' : e \in upcoming /\ Head(queue).epoch < e
<1>a. EpochsAreOrdered /\ queue \in Seq(Edit)
  BY Zenon DEF WInv, WType
<1>1. /\ Head(queue) = queue[1] /\ Head(queue) \in Edit /\ 1 \in 1 .. Len(queue)
      /\ queue' \in Seq(Edit)
      /\ \A k \in 1 .. Len(queue') : k + 1 \in 1 .. Len(queue) /\ queue'[k] = queue[k + 1]
      /\ nextVersion' = nextVersion
  BY <1>a, QueuePopped, Zenon
<1>2. \A k \in 1 .. Len(queue') : 1 < k + 1
  OBVIOUS
<1>3. \A k \in 1 .. Len(queue') : queue'[k].epoch \in upcoming /\ Head(queue).epoch < queue'[k].epoch
  BY <1>a, <1>1, <1>2, Zenon DEF upcoming, EpochsAreOrdered
<1>4. nextVersion \in upcoming /\ Head(queue).epoch < nextVersion /\ Head(queue).epoch \in upcoming
  BY <1>a, <1>1, Zenon DEF upcoming, EpochsAreOrdered
<1>5. \A e \in upcoming' : e = nextVersion \/ \E k \in 1 .. Len(queue') : e = queue'[k].epoch
  BY <1>1, Zenon DEF upcoming
<1> QED
  BY <1>1, <1>3, <1>4, <1>5, Zenon

\* What an arriving edit of one file does to the queue.
LEMMA EditArrives ==
  ASSUME queue \in Seq(Edit), nextVersion \in Nat, NEW f \in Files, enqueueEdit({f})
  PROVE  \E edit \in Edit :
           /\ edit.epoch = nextVersion /\ isDated(edit)
           /\ \A k \in 1 .. Len(queue') :
                \/ k \in 1 .. Len(queue) /\ queue'[k] = queue[k]
                \/ queue'[k] = edit
                \/ /\ Len(queue) \in 1 .. Len(queue)
                   /\ queue'[k] = mergeParams(queue[Len(queue)], edit)
<1>1. PICK files \in [{f} -> Content(nextVersion)] :
        LET edit == workspaceEdit(nextVersion, files)
        IN  \/ queue' = Append(queue, edit)
            \/ /\ queue # <<>>
               /\ queue' = [queue EXCEPT ![Len(queue)] = mergeParams(queue[Len(queue)], edit)]
  BY Zenon DEF enqueueEdit
<1> DEFINE edit == workspaceEdit(nextVersion, files)
<1>2. edit \in Edit /\ edit.epoch = nextVersion
  BY WorkspaceEditType, Zenon
<1>3. edit.files = files
  BY DEF workspaceEdit
<1>4. \A g \in DOMAIN files : files[g].version = nextVersion
  BY DEF Content
<1> HIDE DEF edit
<1>5. isDated(edit)
  BY <1>2, <1>3, <1>4 DEF isDated
<1>6. CASE queue' = Append(queue, edit)
  <2>1. \A k \in 1 .. Len(queue') : (k \in 1 .. Len(queue) /\ queue'[k] = queue[k]) \/ queue'[k] = edit
    BY <1>2, <1>6
  <2> QED
    BY <1>2, <1>5, <2>1, Zenon
<1>7. CASE /\ queue # <<>>
           /\ queue' = [queue EXCEPT ![Len(queue)] = mergeParams(queue[Len(queue)], edit)]
  <2> DEFINE both == mergeParams(queue[Len(queue)], edit)
  <2>1. queue' = [queue EXCEPT ![Len(queue)] = both]
    BY <1>7, Zenon
  <2>2. Len(queue) \in 1 .. Len(queue)
    BY <1>7
  <2> HIDE DEF both
  <2>3. \A k \in 1 .. Len(queue') :
          (k \in 1 .. Len(queue) /\ queue'[k] = queue[k]) \/ queue'[k] = both
    BY <2>1, <2>2
  <2> QED
    BY <1>2, <1>5, <2>2, <2>3, Zenon DEF both
<1> QED
  BY <1>1, <1>6, <1>7, Zenon DEF edit

\* In a step that reports nothing, the epochs to come only grow.
LEMMA SilentEpochs ==
  ASSUME WInv, silently
  PROVE  \A n \in upcoming' : n \in Nat => \E e \in upcoming : e <= n
<1>a. WType /\ queue \in Seq(Edit) /\ nextVersion \in Nat
  BY Zenon DEF WInv, WType
<1>b. upcoming \subseteq Nat
  BY UpcomingEpochs, Zenon
<1> SUFFICES ASSUME NEW n \in upcoming', n \in Nat, n \notin upcoming PROVE \E e \in upcoming : e <= n
  BY <1>b
<1>1. CASE decideHead \/ endSlowPath
  <2>1. UNCHANGED <<nextVersion, queue, task, update>>
    BY <1>1, Zenon DEF decideHead, endSlowPath, taskVars, queueVars
  <2> QED
    BY <2>1, Zenon DEF upcoming
<1>2. CASE commitEdit \/ leaveToTypechecker
  <2>1. task = "await" /\ queue # <<>> /\ popQueue
    BY <1>2, Zenon DEF commitEdit, leaveToTypechecker, headIsTaken
  <2>2. /\ Head(queue) = queue[1] /\ Head(queue) \in Edit /\ 1 \in 1 .. Len(queue)
        /\ \A k \in 1 .. Len(queue') : k + 1 \in 1 .. Len(queue) /\ queue'[k] = queue[k + 1]
        /\ nextVersion' = nextVersion
    BY <1>a, <2>1, QueuePopped, Zenon
  <2>3. update'.epoch = queue[1].epoch
    <3>1. CASE commitEdit
      <4>1. indexerFiles \in Table
        BY <1>a, Zenon DEF WType
      <4>2. update' = indexedUpdate(Head(queue))
        BY <3>1, Zenon DEF commitEdit
      <4> QED
        BY <2>2, <4>1, <4>2, IndexedUpdateType, Zenon
    <3>2. CASE leaveToTypechecker
      BY <2>2, <3>2, Zenon DEF leaveToTypechecker
    <3> QED
      BY <1>2, <3>1, <3>2, Zenon
  <2>4. \A k \in 1 .. Len(queue') : queue'[k].epoch \in upcoming
    BY <2>2, Zenon DEF upcoming
  <2>5. queue[1].epoch \in upcoming /\ nextVersion' \in upcoming
    BY <2>2, Zenon DEF upcoming
  <2>6. \/ n = nextVersion' \/ n = update'.epoch
        \/ \E k \in 1 .. Len(queue') : n = queue'[k].epoch
    BY Zenon DEF upcoming
  <2> QED
    BY <2>3, <2>4, <2>5, <2>6, Zenon
<1>3. CASE tryCancelSlowPath
  <2>1. task = "cancel" /\ UNCHANGED <<nextVersion, queue>>
    BY <1>3, Zenon DEF tryCancelSlowPath, queueVars
  <2>2. update \in Updates /\ pending \in Updates
    BY <1>a, <2>1, Zenon DEF WType
  <2>3. update' = update \/ \E evicted : update' = cancelingUpdate(evicted)
    BY <1>3, Zenon DEF tryCancelSlowPath
  <2>4. update'.epoch = update.epoch
    BY <2>2, <2>3, CancelingUpdateType, Zenon
  <2>5. task # "await"
    BY <2>1
  <2> QED
    BY <2>1, <2>4, <2>5, Zenon DEF upcoming
<1>4. CASE \E f \in Files : enqueueEdit({f})
  <2>1. PICK f \in Files : enqueueEdit({f})
    BY <1>4, Zenon
  <2>2. UNCHANGED <<task, update>> /\ nextVersion' = nextVersion + 1
    BY <2>1, Zenon DEF enqueueEdit, taskVars
  <2>3. PICK edit \in Edit :
           /\ edit.epoch = nextVersion
           /\ \A k \in 1 .. Len(queue') :
                \/ k \in 1 .. Len(queue) /\ queue'[k] = queue[k]
                \/ queue'[k] = edit
                \/ /\ Len(queue) \in 1 .. Len(queue)
                   /\ queue'[k] = mergeParams(queue[Len(queue)], edit)
    BY <1>a, <2>1, EditArrives, Zenon
  <2>4. \A k \in 1 .. Len(queue) : queue[k] \in Edit
    BY <1>a, QueueEpochs, Zenon
  <2>5. ASSUME NEW k \in 1 .. Len(queue') PROVE queue'[k].epoch \in upcoming
    <3>1. nextVersion \in upcoming /\ \A j \in 1 .. Len(queue) : queue[j].epoch \in upcoming
      BY Zenon DEF upcoming
    <3>2. Len(queue) \in 1 .. Len(queue) =>
            mergeParams(queue[Len(queue)], edit).epoch = nextVersion
      BY <2>3, <2>4, MergeParamsType, Zenon
    <3> QED
      BY <2>3, <3>1, <3>2, Zenon
  <2>6. n = nextVersion + 1
    BY <2>2, <2>5, Zenon DEF upcoming
  <2>7. nextVersion \in upcoming /\ nextVersion <= n
    BY <1>a, <2>6 DEF upcoming
  <2> QED
    BY <2>7, Zenon
<1> QED
  BY <1>1, <1>2, <1>3, <1>4, Zenon DEF silently

\* It leaves the typechecker's files alone, and those of a running slow path.
LEMMA SilentTables ==
  ASSUME WInv, silently
  PROVE  /\ typecheckerFiles' = typecheckerFiles
         /\ slowPathRunning' <=> slowPathRunning
         /\ slowPathRunning => undo' = undo
         /\ slowPathEpoch' = slowPathEpoch
<1>a. StatusIsRight
  BY Zenon DEF WInv
<1> USE DEF typecheckerVars, epochVars, slowPathRunning, slowPathEpoch
<1>1. CASE decideHead
  BY <1>1, Zenon DEF decideHead
<1>2. CASE commitEdit \/ leaveToTypechecker
  BY <1>2, Zenon DEF commitEdit, leaveToTypechecker
<1>3. CASE tryCancelSlowPath
  BY <1>3, Zenon DEF tryCancelSlowPath, cancelSlowPath
<1>4. CASE \E f \in Files : enqueueEdit({f})
  BY <1>4, Zenon DEF enqueueEdit
<1>5. CASE endSlowPath
  <2>1. slowPath = "committed" /\ UNCHANGED <<typecheckerFiles, epochVars>>
    BY <1>5, Zenon DEF endSlowPath
  <2>2. ~slowPathRunning
    BY <1>a, <2>1 DEF StatusIsRight
  <2> QED
    BY <2>1, <2>2, Zenon
<1> QED
  BY <1>1, <1>2, <1>3, <1>4, <1>5, Zenon DEF silently

\* Files with their edits applied.
LEMMA MergedBelow ==
  ASSUME NEW t \in Table, NEW u, u.files \in Changes, u.epoch \in Nat, isDated(u),
         versionsBelow(t, u.epoch), NEW e \in Nat, u.epoch < e
  PROVE  versionsBelow(merged(u.files, t), e)
<1>1. /\ \A f \in DOMAIN u.files : merged(u.files, t)[f] = u.files[f]
      /\ \A f \in Files : f \notin DOMAIN u.files => merged(u.files, t)[f] = t[f]
  <2>1. DOMAIN u.files \subseteq Files
    BY ChangesType, Zenon
  <2>2. \A f \in Files : merged(u.files, t)[f] = IF f \in DOMAIN u.files THEN u.files[f] ELSE t[f]
    BY MergeTable, Zenon
  <2> QED
    BY <2>1, <2>2, Zenon
<1>2. \A f \in Files : t[f] # Absent => t[f].version \in Nat
  BY Zenon DEF Table, FileState
<1>3. \A f \in DOMAIN u.files : u.files[f] \in FileState
  BY ChangesType, Zenon
<1>4. \A f \in DOMAIN u.files : u.files[f].version \in Nat
  BY <1>3, Zenon DEF FileState
<1>5. ASSUME NEW f \in Files, merged(u.files, t)[f] # Absent
      PROVE  merged(u.files, t)[f].version < e
  <2>1. CASE f \in DOMAIN u.files
    <3>1. u.files[f].version <= u.epoch
      BY <2>1, Zenon DEF isDated
    <3>2. u.files[f].version < e
      BY <1>4, <2>1, <3>1, SMTT(20)
    <3> QED
      BY <1>1, <2>1, <3>2, Zenon
  <2>2. CASE f \notin DOMAIN u.files
    <3>1. t[f] # Absent /\ merged(u.files, t)[f] = t[f]
      BY <1>1, <1>5, <2>2, Zenon
    <3>2. t[f].version < u.epoch
      BY <3>1, Zenon DEF versionsBelow
    <3> QED
      BY <1>2, <3>1, <3>2
  <2> QED
    BY <2>1, <2>2, Zenon
<1> QED
  BY <1>5, Zenon DEF versionsBelow

-----------------------------------------------------------------------------
(***************************************************************************)
(* Versions.                                                               *)
(***************************************************************************)

\* The extra files of an update exist in the table they were looked up in.
LEMMA PathExtraFiles ==
  ASSUME NEW u \in Updates, NEW gs, NEW evicted, u.extraFiles \subseteq presentFiles(gs)
  PROVE  withTypecheckingPath(u, gs, evicted).extraFiles \subseteq presentFiles(gs)
<1>1. extraFiles(gs, u.files, evicted) \subseteq presentFiles(gs)
  BY Zenon DEF extraFiles, presentFiles
<1>2. \/ withTypecheckingPath(u, gs, evicted).extraFiles = extraFiles(gs, u.files, evicted)
      \/ withTypecheckingPath(u, gs, evicted).extraFiles = u.extraFiles
  BY Zenon DEF withTypecheckingPath, Updates
<1> QED
  BY <1>1, <1>2, Zenon

\* Those of an edit that the indexer has just entered.
LEMMA IndexedExtraFiles ==
  ASSUME NEW edit \in Edit
  PROVE  indexedUpdate(edit).extraFiles \subseteq presentFiles(merged(edit.files, indexerFiles))
<1> DEFINE new == \E f \in DOMAIN edit.files : indexerFiles[f] = Absent
           u == fileUpdates(edit, new)
           gs == merged(edit.files, indexerFiles)
<1>1. new \in BOOLEAN
  BY Zenon
<1> HIDE DEF new
<1>2. u \in Updates /\ u.extraFiles = {}
  BY <1>1 DEF fileUpdates, Updates, Edit
<1>3. indexedUpdate(edit) = withTypecheckingPath(u, gs, newlyEvicted(edit))
  BY Zenon DEF indexedUpdate, new
<1> HIDE DEF u, gs
<1>4. withTypecheckingPath(u, gs, newlyEvicted(edit)).extraFiles \subseteq presentFiles(gs)
  BY <1>2, PathExtraFiles, Zenon
<1> QED
  BY <1>3, <1>4, Zenon DEF gs

\* Update u is entered into the typechecker's files, and is done with.
applies(u) ==
  /\ u \in Updates /\ isDated(u) /\ u.epoch \in upcoming /\ nextVersion \in upcoming
  /\ typecheckerFiles' = merged(u.files, typecheckerFiles)
  /\ task' = "await" /\ nextVersion' = nextVersion
  /\ \A e \in upcoming' : e \in upcoming /\ u.epoch < e
  /\ \A k \in 1 .. Len(queue') : isDated(queue'[k])

\* The fast path of the update at hand, while no slow path runs.
LEMMA FastPathApplies ==
  ASSUME WInv, VInv, runFastPath
  PROVE  /\ applies(update) /\ ~slowPathRunning /\ ~slowPathRunning'
         /\ update.extraFiles \subseteq presentFiles(typecheckerFiles')
<1>a. WType /\ StatusIsRight /\ TablesAgree
  BY Zenon DEF WInv
<1>1. /\ task = "ready" /\ slowPath = "idle" /\ task' = "await"
      /\ typecheckerFiles' = merged(update.files, typecheckerFiles)
      /\ UNCHANGED <<queueVars, epochVars>>
  BY Zenon DEF runFastPath, taskDone
<1>2. task # "await" /\ update \in Updates
  BY <1>a, <1>1 DEF WType
<1>3. /\ update.epoch \in upcoming /\ nextVersion \in upcoming
      /\ \A e \in upcoming' : e \in upcoming /\ update.epoch < e
  BY <1>1, <1>2, UpdateDone, Zenon
<1>4. isDated(update) /\ \A k \in 1 .. Len(queue') : isDated(queue'[k])
  BY <1>1, <1>2, Zenon DEF VInv, EditsAreDated, queueVars
<1>5. ~slowPathRunning
  BY <1>a, <1>1 DEF StatusIsRight
<1>6. ~slowPathRunning'
  BY <1>1, <1>5, Zenon DEF slowPathRunning, epochVars
<1>7. typecheckerFiles' = indexerFiles
  BY <1>a, <1>1, <1>5, Zenon DEF TablesAgree, base
<1>8. update.extraFiles \subseteq presentFiles(typecheckerFiles')
  BY <1>1, <1>7, Zenon DEF VInv, ExtraFilesArePresent
<1> QED
  BY <1>1, <1>2, <1>3, <1>4, <1>5, <1>6, <1>8, Zenon DEF applies, queueVars

\* The fast path of an edit that preempts.
LEMMA PreemptApplies ==
  ASSUME WInv, VInv, preempt
  PROVE  LET u == indexedUpdate(Head(queue))
         IN  /\ applies(u) /\ undo' = undo /\ slowPathEpoch' = slowPathEpoch
             /\ slowPathRunning' <=> slowPathRunning
             /\ u.extraFiles \subseteq presentFiles(typecheckerFiles') /\ ~u.canceledSlowPath
<1>a. /\ WType /\ TablesAgree
  BY Zenon DEF WInv
<1> DEFINE edit == Head(queue)
           u == indexedUpdate(edit)
<1>1. /\ task = "await" /\ queue # <<>> /\ popQueue /\ task' = "await"
      /\ indexerFiles' = merged(edit.files, indexerFiles)
      /\ typecheckerFiles' = merged(u.files, typecheckerFiles)
      /\ UNCHANGED <<undo, epochVars>>
  BY Zenon DEF preempt, taskVars
<1>2. indexerFiles \in Table /\ typecheckerFiles = indexerFiles
  BY <1>a, <1>1, Zenon DEF WType, TablesAgree
<1>3. /\ edit \in Edit /\ edit = queue[1] /\ 1 \in 1 .. Len(queue)
      /\ edit.epoch \in upcoming /\ nextVersion \in upcoming
      /\ \A k \in 1 .. Len(queue') : k + 1 \in 1 .. Len(queue) /\ queue'[k] = queue[k + 1]
      /\ \A e \in upcoming' : e \in upcoming /\ edit.epoch < e
  BY <1>1, HeadDone, Zenon
<1> HIDE DEF edit
<1>4. u \in Updates /\ u.epoch = edit.epoch /\ u.files = edit.files /\ ~u.canceledSlowPath
  BY <1>2, <1>3, IndexedUpdateType, Zenon
<1>5. u.extraFiles \subseteq presentFiles(merged(edit.files, indexerFiles))
  BY <1>3, IndexedExtraFiles, Zenon
<1> HIDE DEF u
<1>6. isDated(edit) /\ \A k \in 1 .. Len(queue') : isDated(queue'[k])
  BY <1>3, Zenon DEF VInv, EditsAreDated
<1>7. isDated(u)
  BY <1>4, <1>6, Zenon DEF isDated
<1>8. typecheckerFiles' = merged(edit.files, indexerFiles) /\ nextVersion' = nextVersion
  BY <1>1, <1>2, <1>4, Zenon DEF popQueue
<1>9. slowPathEpoch' = slowPathEpoch /\ (slowPathRunning' <=> slowPathRunning)
  BY <1>1, Zenon DEF slowPathEpoch, slowPathRunning, epochVars
<1>10. applies(u)
  BY <1>1, <1>3, <1>4, <1>6, <1>7, <1>8, Zenon DEF applies
<1> QED
  BY <1>1, <1>4, <1>5, <1>8, <1>9, <1>10, Zenon DEF u, edit

\* A slow path begins.
LEMMA SlowPathApplies ==
  ASSUME WInv, VInv, runSlowPath \/ runBulkSlowPath
  PROVE  \E u : /\ applies(u) /\ undo'.files = typecheckerFiles
                /\ slowPathEpoch' = u.epoch
<1>a. WType
  BY Zenon DEF WInv
<1>1. task \in {"ready", "bulk"} /\ task' = "await" /\ UNCHANGED queueVars
  BY Zenon DEF runSlowPath, runBulkSlowPath, taskDone
<1>2. task # "await"
  BY <1>1
<1>3. /\ update.epoch \in upcoming /\ nextVersion \in upcoming
      /\ \A e \in upcoming' : e \in upcoming /\ update.epoch < e
  BY <1>1, <1>2, UpdateDone, Zenon
<1>4. isDated(update) /\ \A k \in 1 .. Len(queue') : isDated(queue'[k])
  BY <1>1, <1>2, Zenon DEF VInv, EditsAreDated, queueVars
<1>5. PICK u : /\ u \in Updates /\ u.epoch = update.epoch /\ u.files = update.files
               /\ beginSlowPath(u)
  <2>1. CASE runSlowPath
    <3>1. task = "ready" /\ beginSlowPath(update)
      BY <2>1, Zenon DEF runSlowPath
    <3> QED
      BY <1>a, <3>1, Zenon DEF WType
  <2>2. CASE runBulkSlowPath
    <3>1. task = "bulk" /\ beginSlowPath(indexedUpdate(update))
      BY <2>2, Zenon DEF runBulkSlowPath
    <3>2. update \in Edit /\ indexerFiles \in Table
      BY <1>a, <3>1, Zenon DEF WType
    <3>3. /\ indexedUpdate(update) \in Updates /\ indexedUpdate(update).epoch = update.epoch
          /\ indexedUpdate(update).files = update.files
      BY <3>2, IndexedUpdateType, Zenon
    <3> QED
      BY <3>1, <3>3, Zenon
  <2> QED
    BY <2>1, <2>2, Zenon
<1>6. isDated(u)
  BY <1>4, <1>5, Zenon DEF isDated
<1>7. /\ typecheckerFiles' = merged(u.files, typecheckerFiles)
      /\ undo' = [epoch |-> u.epoch, files |-> typecheckerFiles]
      /\ slowPathEpoch' = u.epoch
  BY <1>5, Zenon DEF beginSlowPath, startCommitEpoch, slowPathEpoch
<1>8. applies(u)
  BY <1>1, <1>3, <1>4, <1>5, <1>6, <1>7, Zenon DEF applies, queueVars
<1>9. undo'.files = typecheckerFiles
  BY <1>7
<1> QED
  BY <1>7, <1>8, <1>9, Zenon

\* A step that leaves the queue, the update at hand and the indexer alone.
LEMMA OtherVersions ==
  ASSUME VInv, UNCHANGED <<nextVersion, queue, task, update, indexerFiles>>, VersionsAreOrdered'
  PROVE  VInv'
<1>1. EditsAreDated' /\ ExtraFilesArePresent'
  BY Zenon DEF VInv, EditsAreDated, isDated, ExtraFilesArePresent, presentFiles
<1> QED
  BY <1>1, Zenon DEF VInv

\* The slow path commits, or the files from before it come back.
LEMMA CommitVersions ==
  ASSUME WInv, VInv, tryCommitEpoch
  PROVE  VInv' /\ ~slowPathRunning' /\ upcoming' = upcoming
<1>a. StatusIsRight
  BY Zenon DEF WInv
<1>1. /\ UNCHANGED <<nextVersion, queue, task, update, indexerFiles>>
      /\ commitOrForgetEpoch
      /\ \/ ~slowPathWasCanceled /\ typecheckerFiles' = typecheckerFiles
         \/ slowPathWasCanceled /\ typecheckerFiles' = undo.files
  BY Zenon DEF tryCommitEpoch, queueVars, taskVars, indexerVars
<1>2. ~slowPathRunning'
  BY <1>1, Zenon DEF commitOrForgetEpoch, slowPathRunning
<1>3. slowPathWasCanceled => slowPathRunning
  BY <1>a, Zenon DEF StatusIsRight
<1>4. upcoming' = upcoming
  BY <1>1, Zenon DEF upcoming
<1>5. VersionsAreOrdered'
  BY <1>1, <1>2, <1>3, <1>4, Zenon DEF VInv, VersionsAreOrdered, versionsBelow
<1> QED
  BY <1>1, <1>2, <1>4, <1>5, OtherVersions, Zenon

\* The versions are in order at first.
LEMMA VersionsInit == Init => VInv
<1> SUFFICES ASSUME Init PROVE VInv
  BY Zenon
<1>1. /\ nextVersion = 1 /\ queue = <<>> /\ task = "await" /\ typecheckerFiles = InitialFiles
      /\ ~slowPathRunning
  BY Zenon DEF Init, EpochInit, slowPathRunning
<1>2. Len(queue) = 0 /\ 1 .. Len(queue) = {} /\ task \notin {"cancel", "ready"}
  BY <1>1
<1>3. upcoming = {1}
  BY <1>1, <1>2, Zenon DEF upcoming
<1>4. \A f \in Files : InitialFiles[f] # Absent => InitialFiles[f].version = 0
  BY InitialFilesAssumption DEF Content
<1>5. versionsBelow(typecheckerFiles, 1)
  BY <1>1, <1>4 DEF versionsBelow
<1>6. VersionsAreOrdered
  BY <1>1, <1>3, <1>5, Zenon DEF VersionsAreOrdered
<1>7. EditsAreDated /\ ExtraFilesArePresent
  BY <1>1, <1>2, Zenon DEF EditsAreDated, ExtraFilesArePresent
<1>8. nextVersion <= MaxVersion + 1
  BY <1>1, VersionAssumption
<1> QED
  BY <1>6, <1>7, <1>8, Zenon DEF VInv

\* They stay in order.
LEMMA VersionsStep == WInv /\ WInv' /\ VInv /\ versionStep => VInv'
\* Nothing is newer for a later epoch.
<1>VersionsBelowLater.
  ASSUME NEW t \in Table, NEW d \in Nat, NEW e \in Nat, d <= e, versionsBelow(t, d)
  PROVE  versionsBelow(t, e)
  <2> USE <1>VersionsBelowLater
  <2>1. \A f \in Files : t[f] # Absent => t[f].version \in Nat
    BY Zenon DEF Table, FileState
  <2> QED
    BY <2>1 DEF versionsBelow
\* Those of an update that cancels the slow path.
<1>CancelingExtraFiles.
  ASSUME update \in Updates, pending \in Updates, NEW evicted,
         update.extraFiles \subseteq presentFiles(indexerFiles)
  PROVE  cancelingUpdate(evicted).extraFiles \subseteq presentFiles(indexerFiles)
  <2> USE <1>CancelingExtraFiles
  <2> DEFINE both == mergeOlder(update, pending)
             w == withTypecheckingPath(both, indexerFiles, evicted)
  <2>1. both \in Updates
    BY MergeOlderType, Zenon
  <2>2. both.extraFiles = update.extraFiles
    BY Zenon DEF mergeOlder, Updates
  <2> HIDE DEF both
  <2>3. w \in Updates
    BY <2>1, WithTypecheckingPathType, Zenon
  <2>4. w.extraFiles \subseteq presentFiles(indexerFiles)
    BY <2>1, <2>2, PathExtraFiles, Zenon
  <2>5. cancelingUpdate(evicted) = [w EXCEPT !.canceledSlowPath = TRUE, !.timers = w.timers + pending.timers]
    BY <2>3, Zenon DEF cancelingUpdate, both, Updates
  <2> HIDE DEF w
  <2>6. cancelingUpdate(evicted).extraFiles = w.extraFiles
    BY <2>3, <2>5, Zenon DEF Updates
  <2> QED
    BY <2>4, <2>6, Zenon
\* An edit merged into an older one brings no file newer than itself.
<1>MergedIsDated.
  ASSUME NEW a, NEW b, a.files \in Changes, b.files \in Changes, b.epoch \in Nat,
         isDated(b), \A f \in DOMAIN a.files : a.files[f].version <= b.epoch
  PROVE  \A f \in DOMAIN merged(b.files, a.files) : merged(b.files, a.files)[f].version <= b.epoch
  <2> USE <1>MergedIsDated
  <2>1. /\ DOMAIN merged(b.files, a.files) = DOMAIN b.files \cup DOMAIN a.files
        /\ \A f \in DOMAIN b.files : merged(b.files, a.files)[f] = b.files[f]
        /\ \A f \in DOMAIN a.files : f \notin DOMAIN b.files => merged(b.files, a.files)[f] = a.files[f]
    BY MergeChanges, Zenon
  <2> QED
    BY <2>1, Zenon DEF isDated
\* The versions in the tables, when the typechecker's files stay.
<1>SilentVersions.
  ASSUME WInv, WInv', VersionsAreOrdered, silently
  PROVE  VersionsAreOrdered'
  <2> USE <1>SilentVersions
  <2>1. upcoming \subseteq Nat /\ upcoming' \subseteq Nat
    BY UpcomingEpochs, UpcomingNext, Zenon
  <2>2. /\ typecheckerFiles' = typecheckerFiles
        /\ slowPathRunning' <=> slowPathRunning
        /\ slowPathRunning => undo' = undo
    BY SilentTables, Zenon
  <2>3. typecheckerFiles \in Table /\ (slowPathRunning => undo.files \in Table)
    BY Zenon DEF WInv, WType
  <2>4. ASSUME NEW n \in upcoming'
        PROVE  versionsBelow(typecheckerFiles, n) /\ (slowPathRunning => versionsBelow(undo.files, n))
    <3>1. PICK e \in upcoming : e <= n
      BY <2>1, SilentEpochs, Zenon
    <3>2. versionsBelow(typecheckerFiles, e) /\ (slowPathRunning => versionsBelow(undo.files, e))
      BY Zenon DEF VersionsAreOrdered
    <3>3. e \in Nat /\ n \in Nat
      BY <2>1, Zenon
    <3> QED
      BY <2>3, <3>1, <3>2, <3>3, <1>VersionsBelowLater, Zenon
  <2> QED
    BY <2>2, <2>4, Zenon DEF VersionsAreOrdered, versionsBelow
\* The versions in the tables, after an edit was entered.
<1>AppliedVersions.
  ASSUME WInv, WInv', VersionsAreOrdered, NEW u, u.files \in Changes, isDated(u),
         u.epoch \in upcoming, typecheckerFiles' = merged(u.files, typecheckerFiles),
         slowPathRunning' => undo'.files = typecheckerFiles \/ (slowPathRunning /\ undo' = undo),
         \A e \in upcoming' : e \in upcoming /\ u.epoch < e
  PROVE  VersionsAreOrdered'
  <2> USE <1>AppliedVersions
  <2>1. upcoming \subseteq Nat
    BY UpcomingEpochs, Zenon
  <2>2. typecheckerFiles \in Table
    BY Zenon DEF WInv, WType
  <2>3. u.epoch \in Nat /\ versionsBelow(typecheckerFiles, u.epoch)
    BY <2>1, Zenon DEF VersionsAreOrdered
  <2>4. ASSUME NEW e \in upcoming'
        PROVE  /\ versionsBelow(typecheckerFiles', e)
               /\ slowPathRunning' => versionsBelow(undo'.files, e)
    <3>1. e \in upcoming /\ e \in Nat /\ u.epoch < e
      BY <2>1, Zenon
    <3>2. versionsBelow(typecheckerFiles', e)
      BY <2>2, <2>3, <3>1, MergedBelow, Zenon
    <3> QED
      BY <3>1, <3>2, Zenon DEF VersionsAreOrdered
  <2> QED
    BY <2>4, Zenon DEF VersionsAreOrdered, versionsBelow
\* The edits in the queue and the update at hand, in a step that reports nothing.
<1>SilentEdits.
  ASSUME WInv, VInv, silently
  PROVE  nextVersion' <= MaxVersion + 1 /\ EditsAreDated' /\ ExtraFilesArePresent'
  <2> USE <1>SilentEdits
  <2>a. /\ WType /\ queue \in Seq(Edit) /\ nextVersion \in Nat /\ MaxVersion \in Nat
        /\ nextVersion <= MaxVersion + 1 /\ EditsAreDated /\ ExtraFilesArePresent
        /\ \A k \in 1 .. Len(queue) : queue[k] \in Edit
    BY VersionAssumption, QueueEpochs, Zenon DEF WInv, WType, VInv
  <2>1. CASE decideHead \/ endSlowPath
    <3>1. UNCHANGED <<nextVersion, queue, task, update, indexerFiles>>
      BY <2>1, Zenon DEF decideHead, endSlowPath, taskVars, queueVars, indexerVars
    <3> QED
      BY <2>a, <3>1, Zenon DEF EditsAreDated, isDated, ExtraFilesArePresent, presentFiles
  <2>2. CASE commitEdit \/ leaveToTypechecker
    <3>1. task = "await" /\ queue # <<>> /\ popQueue
      BY <2>2, Zenon DEF commitEdit, leaveToTypechecker, headIsTaken
    <3>2. /\ Head(queue) = queue[1] /\ Head(queue) \in Edit /\ 1 \in 1 .. Len(queue)
          /\ \A k \in 1 .. Len(queue') : k + 1 \in 1 .. Len(queue) /\ queue'[k] = queue[k + 1]
          /\ nextVersion' = nextVersion
      BY <2>a, <3>1, QueuePopped, Zenon
    <3>3. isDated(Head(queue)) /\ \A k \in 1 .. Len(queue') : isDated(queue'[k])
      BY <2>a, <3>2, Zenon DEF EditsAreDated
    <3>4. isDated(update') /\ ExtraFilesArePresent'
      <4>1. CASE commitEdit
        <5>1. indexerFiles \in Table
          BY <2>a, Zenon DEF WType
        <5>2. /\ update' = indexedUpdate(Head(queue))
              /\ indexerFiles' = merged(Head(queue).files, indexerFiles)
          BY <4>1, Zenon DEF commitEdit
        <5>3. update'.epoch = Head(queue).epoch /\ update'.files = Head(queue).files
          BY <3>2, <5>1, <5>2, IndexedUpdateType, Zenon
        <5>4. update'.extraFiles \subseteq presentFiles(indexerFiles')
          BY <3>2, <5>2, IndexedExtraFiles, Zenon
        <5> QED
          BY <3>3, <5>3, <5>4, Zenon DEF isDated, ExtraFilesArePresent, presentFiles
      <4>2. CASE leaveToTypechecker
        <5>1. update' = Head(queue) /\ task' \notin {"cancel", "ready"}
          BY <4>2 DEF leaveToTypechecker
        <5> QED
          BY <3>3, <5>1, Zenon DEF ExtraFilesArePresent
      <4> QED
        BY <2>2, <4>1, <4>2, Zenon
    <3> QED
      BY <2>a, <3>2, <3>3, <3>4, Zenon DEF EditsAreDated, isDated
  <2>3. CASE tryCancelSlowPath
    <3>1. task = "cancel" /\ UNCHANGED <<nextVersion, queue, indexerFiles>> /\ task # "await" /\ task # "ready"
      BY <2>3 DEF tryCancelSlowPath, queueVars
    <3>2. /\ update \in Updates /\ pending \in Updates /\ isDated(update)
          /\ update.extraFiles \subseteq presentFiles(indexerFiles)
      BY <2>a, <3>1, Zenon DEF WType, EditsAreDated, ExtraFilesArePresent
    <3>3. isDated(update') /\ update'.extraFiles \subseteq presentFiles(indexerFiles)
      <4>1. CASE update' = update
        BY <3>2, <4>1, Zenon
      <4>2. CASE slowPathRunning /\ \E evicted : update' = cancelingUpdate(evicted)
        <5>1. PICK evicted : update' = cancelingUpdate(evicted)
          BY <4>2, Zenon
        <5>2. update'.epoch = update.epoch /\ update'.files = merged(update.files, pending.files)
          BY <3>2, <5>1, CancelingUpdateType, Zenon
        <5>3. update'.extraFiles \subseteq presentFiles(indexerFiles)
          BY <3>2, <5>1, <1>CancelingExtraFiles, Zenon
        <5>4. merged(pending.files, undo.files) = typecheckerFiles /\ undo.files \in Table
          BY <2>a, <3>1, <4>2, Zenon DEF WInv, PendingIsComplete, WType
        <5>5. /\ pending.files \in Changes /\ update.files \in Changes /\ update.epoch \in Nat
              /\ typecheckerFiles \in Table
          BY <2>a, <3>2, Zenon DEF Updates, WType
        <5>6. ASSUME NEW f \in DOMAIN pending.files PROVE pending.files[f].version <= update.epoch
          <6>1. f \in Files /\ pending.files[f] \in FileState /\ pending.files[f] # Absent
            BY <5>5, ChangesType, Zenon
          <6>2. typecheckerFiles[f] = pending.files[f]
            BY <5>4, <5>5, <6>1, MergeTable, Zenon
          <6>3. versionsBelow(typecheckerFiles, update.epoch)
            BY <3>1, Zenon DEF VInv, VersionsAreOrdered, upcoming
          <6>4. pending.files[f].version < update.epoch /\ pending.files[f].version \in Nat
            BY <6>1, <6>2, <6>3, Zenon DEF versionsBelow, FileState
          <6> QED
            BY <5>5, <6>4
        <5>7. \A f \in DOMAIN merged(update.files, pending.files) :
                merged(update.files, pending.files)[f].version <= update.epoch
          BY <3>2, <5>5, <5>6, <1>MergedIsDated, Zenon
        <5> QED
          BY <5>2, <5>3, <5>7, Zenon DEF isDated
      <4> QED
        BY <2>3, <4>1, <4>2, Zenon DEF tryCancelSlowPath, cancelSlowPath, canCancelSlowPath
    <3> QED
      BY <2>a, <3>1, <3>3, Zenon DEF EditsAreDated, isDated, ExtraFilesArePresent, presentFiles
  <2>4. CASE \E f \in Files : enqueueEdit({f})
    <3>1. PICK f \in Files : enqueueEdit({f})
      BY <2>4, Zenon
    <3>2. /\ UNCHANGED <<task, update, indexerFiles>> /\ nextVersion' = nextVersion + 1
          /\ nextVersion <= MaxVersion
      BY <3>1, Zenon DEF enqueueEdit, taskVars, indexerVars
    <3>3. PICK edit \in Edit :
             /\ edit.epoch = nextVersion /\ isDated(edit)
             /\ \A k \in 1 .. Len(queue') :
                  \/ k \in 1 .. Len(queue) /\ queue'[k] = queue[k]
                  \/ queue'[k] = edit
                  \/ /\ Len(queue) \in 1 .. Len(queue)
                     /\ queue'[k] = mergeParams(queue[Len(queue)], edit)
      BY <2>a, <3>1, EditArrives, Zenon
    <3>4. ASSUME Len(queue) \in 1 .. Len(queue) PROVE isDated(mergeParams(queue[Len(queue)], edit))
      <4> DEFINE last == queue[Len(queue)]
      <4>1. last \in Edit /\ isDated(last) /\ last.epoch < nextVersion
        BY <2>a, <3>4, Zenon DEF WInv, EpochsAreOrdered, EditsAreDated
      <4> HIDE DEF last
      <4>2. last.files \in Changes /\ edit.files \in Changes /\ edit.epoch \in Nat /\ last.epoch \in Nat
        BY <4>1, Zenon DEF Edit
      <4>3. \A g \in DOMAIN last.files : last.files[g] \in FileState
        BY <4>2, ChangesType, Zenon
      <4>4. \A g \in DOMAIN last.files : last.files[g].version \in Nat /\ last.files[g].version <= last.epoch
        BY <4>1, <4>3, Zenon DEF FileState, isDated
      <4>5. \A g \in DOMAIN last.files : last.files[g].version <= edit.epoch
        BY <3>3, <4>1, <4>2, <4>4
      <4>6. \A g \in DOMAIN merged(edit.files, last.files) :
               merged(edit.files, last.files)[g].version <= edit.epoch
        BY <3>3, <4>2, <4>5, <1>MergedIsDated, Zenon
      <4>7. /\ mergeParams(last, edit).epoch = edit.epoch
            /\ mergeParams(last, edit).files = merged(edit.files, last.files)
        BY DEF mergeParams
      <4>8. isDated(mergeParams(last, edit))
        BY <4>6, <4>7, Zenon DEF isDated
      <4> QED
        BY <4>8, Zenon DEF last
    <3>5. \A k \in 1 .. Len(queue') : isDated(queue'[k])
      BY <2>a, <3>3, <3>4, Zenon DEF EditsAreDated
    <3>6. nextVersion' <= MaxVersion + 1
      BY <2>a, <3>2
    <3> QED
      BY <2>a, <3>2, <3>5, <3>6, Zenon DEF EditsAreDated, isDated, ExtraFilesArePresent, presentFiles
  <2> QED
    BY <2>1, <2>2, <2>3, <2>4, Zenon DEF silently
\* After such a step the versions are in order.
<1>AppliedInv.
  ASSUME WInv, WInv', VInv, NEW u, applies(u),
         slowPathRunning' => undo'.files = typecheckerFiles \/ (slowPathRunning /\ undo' = undo)
  PROVE  VInv'
  <2> USE <1>AppliedInv
  <2>1. u.files \in Changes
    BY Zenon DEF applies, Updates
  <2>2. VersionsAreOrdered'
    BY <2>1, <1>AppliedVersions, Zenon DEF applies, VInv
  <2>3. task' = "await" /\ task' \notin {"cancel", "ready"}
    BY DEF applies
  <2>4. EditsAreDated' /\ ExtraFilesArePresent'
    BY <2>3, Zenon DEF applies, EditsAreDated, isDated, ExtraFilesArePresent
  <2> QED
    BY <2>2, <2>4, Zenon DEF applies, VInv
<1> SUFFICES ASSUME WInv, WInv', VInv, versionStep PROVE VInv'
  BY Zenon
<1>1. CASE silently
  BY <1>1, <1>SilentVersions, <1>SilentEdits, Zenon DEF VInv
<1>2. CASE runFastPath
  BY <1>2, FastPathApplies, <1>AppliedInv, Zenon
<1>3. CASE preempt
  <2>1. PICK u : applies(u) /\ undo' = undo /\ (slowPathRunning' <=> slowPathRunning)
    BY <1>3, PreemptApplies, Zenon
  <2> QED
    BY <2>1, <1>AppliedInv, Zenon
<1>4. CASE runSlowPath \/ runBulkSlowPath
  <2>1. PICK u : applies(u) /\ undo'.files = typecheckerFiles
    BY <1>4, SlowPathApplies, Zenon
  <2> QED
    BY <2>1, <1>AppliedInv, Zenon
<1>5. CASE tryCommitEpoch
  BY <1>5, CommitVersions, Zenon
<1>6. CASE resolve \/ UNCHANGED vars
  <2>1. UNCHANGED <<nextVersion, queue, task, update, indexerFiles, typecheckerFiles, undo>>
    BY <1>6, Zenon DEF resolve, vars, queueVars, indexerVars, taskVars, typecheckerVars
  <2>2. UNCHANGED epochVars
    BY <1>6, Zenon DEF resolve, vars
  <2>3. VersionsAreOrdered'
    BY <2>1, <2>2, Zenon
    DEF VInv, VersionsAreOrdered, versionsBelow, upcoming, slowPathRunning, epochVars
  <2> QED
    BY <2>1, <2>3, OtherVersions, Zenon
<1> QED
  BY <1>1, <1>2, <1>3, <1>4, <1>5, <1>6, Zenon DEF versionStep
=============================================================================
