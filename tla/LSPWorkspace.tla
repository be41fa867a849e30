---------------------------- MODULE LSPWorkspace ----------------------------
(***************************************************************************)
(* What the threads of the LSP server do to the files of the workspace.    *)
(* Edits wait in the task queue, where they are merged; the processing     *)
(* thread commits them to the indexer's file table (LSPIndexer::commitEdit)*)
(* and the typechecker thread to its own, on the fast path at once and on  *)
(* the slow path under an undo state (LSPTypechecker::typecheck).  A slow  *)
(* path may be preempted by edits that take the fast path, and is canceled *)
(* by one that takes the slow path.                                        *)
(*                                                                         *)
(* LSPScheduler models the threads step by step and shows that only one of *)
(* them uses the indexer at a time and that a preempting edit runs alone   *)
(* on the typechecker.  commitEdit is therefore one step here, but for the *)
(* reading of the slow path's status and the attempt to cancel it, between *)
(* which the slow path may end.                                            *)
(***************************************************************************)
EXTENDS LSPFileUpdates, TypecheckEpochManager, Sequences

CONSTANTS
  InitialFiles,  \* the file table after the initial typecheck
  MaxVersion,    \* bound: versions handed out by the preprocessor
  MaxQueue       \* bound: edits in the task queue

ASSUME VersionAssumption ==
  MaxVersion \in Nat /\ Epoch = 0 .. MaxVersion /\ InitialEpoch = 0
ASSUME InitialFilesAssumption == InitialFiles \in [Files -> {Absent} \cup Content(0)]

VARIABLES
  nextVersion,       \* LSPPreprocessor::nextVersion
  sent,              \* every edit received so far, oldest first (history)
  queue,             \* the edits in the task queue, oldest first
  cachedPath,        \* cachedFastPathDecision of the head of the queue
  indexerFiles,      \* file table of the indexer's GlobalState
  pending,           \* pendingTypecheckUpdates and its latency timers
  evictedFiles,      \* LSPIndexer::evictedFiles
  task,              \* what the processing thread is at
  update,            \* the LSPFileUpdates of that task
  newlyEvictedFiles, \* the files it evicted, while it tries to cancel
  typecheckerFiles,  \* file table of the typechecker's GlobalState
  undo,              \* cancellationUndoState
  slowPath           \* where the typechecker is in runSlowPath

indexerVars == <<indexerFiles, pending, evictedFiles>>
queueVars == <<nextVersion, sent, queue, cachedPath>>
typecheckerVars == <<typecheckerFiles, undo, slowPath>>
taskVars == <<task, update, newlyEvictedFiles>>
vars == <<queueVars, indexerVars, taskVars, typecheckerVars, epochVars>>

NoUpdate == [path |-> "none"]
NoUndo == [epoch |-> "none"]
NoEdits == [epoch |-> 0, editCount |-> 0, committedEditCount |-> 0,
            files |-> NoFiles, hasNewFiles |-> FALSE, path |-> "slow",
            extraFiles |-> {}, canceledSlowPath |-> FALSE, timers |-> 0]

Init ==
  /\ EpochInit
  /\ nextVersion = 1
  /\ sent = <<>> /\ queue = <<>> /\ cachedPath = "none"
  /\ indexerFiles = InitialFiles /\ typecheckerFiles = InitialFiles
  /\ pending = NoEdits /\ evictedFiles = NoFiles
  /\ task = "await" /\ update = NoUpdate /\ newlyEvictedFiles = NoFiles
  /\ undo = NoUndo /\ slowPath = "idle"

-----------------------------------------------------------------------------
(* The task queue *)

\* An edit arrives and is merged into the last one unless a request that may
\* not be delayed is queued between them.
enqueueEdit(S) ==
  /\ nextVersion <= MaxVersion
  /\ \E files \in [S -> Content(nextVersion)] :
       LET edit == workspaceEdit(nextVersion, files)
       IN  /\ sent' = Append(sent, [epoch |-> edit.epoch, files |-> edit.files])
           /\ \/ /\ Len(queue) < MaxQueue
                 /\ queue' = Append(queue, edit)
                 /\ UNCHANGED cachedPath
              \/ /\ queue # <<>>
                 /\ queue' = [queue EXCEPT ![Len(queue)] = mergeParams(@, edit)]
                 /\ cachedPath' = IF Len(queue) = 1 THEN "none" ELSE cachedPath
  /\ nextVersion' = nextVersion + 1
  /\ UNCHANGED <<indexerVars, taskVars, typecheckerVars, epochVars>>

\* An edit without updates, or a configuration change, takes a version and
\* changes no file.
skipVersion ==
  /\ nextVersion <= MaxVersion
  /\ nextVersion' = nextVersion + 1
  /\ UNCHANGED <<sent, queue, cachedPath, indexerVars, taskVars,
                 typecheckerVars, epochVars>>

\* Mutant of mergeQueued: keep the decision made for the older edit.
mergeKeepsCache ==
  /\ Len(queue) > 1
  /\ queue' = <<mergeParams(queue[1], queue[2])>> \o SubSeq(queue, 3, Len(queue))
  /\ UNCHANGED <<nextVersion, sent, cachedPath, indexerVars, taskVars,
                 typecheckerVars, epochVars>>

\* The request between the two oldest edits is canceled, and mergeFileChanges
\* merges them.
mergeQueued ==
  /\ Len(queue) > 1
  /\ queue' = <<mergeParams(queue[1], queue[2])>> \o SubSeq(queue, 3, Len(queue))
  /\ cachedPath' = "none"
  /\ UNCHANGED <<nextVersion, sent, indexerVars, taskVars,
                 typecheckerVars, epochVars>>

\* While a slow path runs, runLSP and LSPQueuePreemptionTask ask the head of the
\* queue whether it may preempt.
decideHead ==
  /\ task = "await" /\ queue # <<>> /\ cachedPath = "none"
  /\ slowPathRunning \/ slowPath = "committed"
  /\ cachedPath' = getTypecheckingPathInternal(indexerFiles, Head(queue).files, NoFiles)
  /\ UNCHANGED <<nextVersion, sent, queue, indexerVars, taskVars,
                 typecheckerVars, epochVars>>

popQueue ==
  /\ queue' = Tail(queue)
  /\ cachedPath' = "none"
  /\ UNCHANGED <<nextVersion, sent>>

-----------------------------------------------------------------------------
(* LSPIndexer::commitEdit *)

\* The files an edit replaces in the table.
newlyEvicted(edit) ==
  [f \in {g \in DOMAIN edit.files : indexerFiles[g] # Absent} |-> indexerFiles[f]]

\* The update up to the reading of the slow path's status.
indexedUpdate(edit) ==
  withTypecheckingPath(
    fileUpdates(edit, \E f \in DOMAIN edit.files : indexerFiles[f] = Absent),
    merged(edit.files, indexerFiles), newlyEvicted(edit))

\* Mutant: keep the newer of the two versions.
newerEvictedWins(old, new) == merged(new, old)

mergeEvictedFiles(old, new) == merged(old, new)

\* Mutants of recordUpdate: a fast path update replaces the pending ones; its
\* edits are not counted as committed.
fastPathReplacesPending(u, evicted) ==
  /\ pending' = copyUpdates(u)
  /\ evictedFiles' = evicted

committedCountForgotten(u, evicted) ==
  \/ /\ u.path = "fast"
     /\ pending' = [mergeOlder(copyUpdates(u), pending) EXCEPT
          !.timers = IF u.canceledSlowPath THEN @ ELSE pending.timers]
     /\ evictedFiles' = mergeEvictedFiles(evictedFiles, evicted)
  \/ /\ u.path = "slow"
     /\ pending' = copyUpdates(u)
     /\ evictedFiles' = evicted

\* The end of commitEdit: what a later edit needs in order to cancel the slow
\* path that u starts or preempts.
recordUpdate(u, evicted) ==
  \/ /\ u.path = "fast"
     /\ pending' =
          LET both == mergeOlder(copyUpdates(u), pending)
          IN  [both EXCEPT !.committedEditCount =
                 IF u.canceledSlowPath THEN @ ELSE @ + u.editCount,
                 !.timers = IF u.canceledSlowPath THEN @ ELSE pending.timers]
     /\ evictedFiles' = mergeEvictedFiles(evictedFiles, evicted)
  \/ /\ u.path = "slow"
     /\ pending' = copyUpdates(u)
     /\ evictedFiles' = evicted

\* The head of the queue is not left for a preemption.
headIsTaken ==
  /\ task = "await" /\ queue # <<>>
  /\ slowPathRunning => cachedPath = "slow"

\* The processing thread takes an edit and commits it, up to the attempt to
\* cancel the slow path it has seen running.
commitEdit ==
  /\ headIsTaken
  /\ LET edit == Head(queue)
         u == indexedUpdate(edit)
     IN  /\ Cardinality(DOMAIN edit.files) <= LspMaxFilesOnFastPath
         /\ indexerFiles' = merged(edit.files, indexerFiles)
         /\ update' = u
         /\ \/ /\ slowPathRunning /\ u.path # "fast"
               /\ task' = "cancel"
               /\ newlyEvictedFiles' = newlyEvicted(edit)
               /\ UNCHANGED <<pending, evictedFiles>>
            \/ /\ ~(slowPathRunning /\ u.path # "fast")
               /\ task' = "ready"
               /\ recordUpdate(u, newlyEvicted(edit))
               /\ UNCHANGED newlyEvictedFiles
  /\ popQueue
  /\ UNCHANGED <<typecheckerVars, epochVars>>

\* The update that replaces a canceled slow path: the edits of both.
cancelingUpdate(evicted) ==
  [withTypecheckingPath(mergeOlder(update, pending), indexerFiles, evicted)
     EXCEPT !.canceledSlowPath = TRUE, !.timers = @ + pending.timers]

\* The rest of commitEdit for an edit that wants the slow path canceled.
tryCancelSlowPath ==
  /\ task = "cancel"
  /\ \/ /\ cancelSlowPath(update.epoch)
        /\ LET evicted == mergeEvictedFiles(evictedFiles, newlyEvictedFiles)
           IN  /\ update' = cancelingUpdate(evicted)
               /\ recordUpdate(cancelingUpdate(evicted), evicted)
     \/ /\ ~canCancelSlowPath(update.epoch)
        /\ recordUpdate(update, newlyEvictedFiles)
        /\ UNCHANGED <<update, epochVars>>
  /\ task' = "ready"
  /\ newlyEvictedFiles' = NoFiles
  /\ UNCHANGED <<queueVars, indexerFiles, typecheckerVars>>

\* Too many files to index on this thread: runSpecial commits the edit.
leaveToTypechecker ==
  /\ headIsTaken
  /\ ~(Cardinality(DOMAIN Head(queue).files) <= LspMaxFilesOnFastPath)
  /\ task' = "bulk"
  /\ update' = Head(queue)
  /\ popQueue
  /\ UNCHANGED <<indexerVars, newlyEvictedFiles, typecheckerVars, epochVars>>

-----------------------------------------------------------------------------
(* LSPTypechecker::typecheck *)

taskDone ==
  /\ task' = "await"
  /\ update' = NoUpdate
  /\ UNCHANGED newlyEvictedFiles

\* The fast path, on an idle typechecker.
runFastPath ==
  /\ task = "ready" /\ update.path = "fast" /\ slowPath = "idle"
  /\ typecheckerFiles' = merged(update.files, typecheckerFiles)
  /\ undo' = IF update.canceledSlowPath THEN NoUndo ELSE undo
  /\ taskDone
  /\ UNCHANGED <<queueVars, indexerVars, slowPath, epochVars>>

\* runSpecial and the beginning of runSlowPath: declare the slow path, save the
\* state before it, enter the files.
beginSlowPath(u) ==
  /\ startCommitEpoch(u.epoch)
  /\ undo' = [epoch |-> u.epoch, files |-> typecheckerFiles]
  /\ typecheckerFiles' = merged(u.files, typecheckerFiles)
  /\ slowPath' = "resolve"

runSlowPath ==
  /\ task = "ready" /\ update.path = "slow" /\ slowPath = "idle"
  /\ beginSlowPath(update)
  /\ taskDone
  /\ UNCHANGED <<queueVars, indexerVars>>

\* runSpecial for an edit that index() left alone.
runBulkSlowPath ==
  /\ task = "bulk" /\ slowPath = "idle"
  /\ LET u == indexedUpdate(update)
     IN  /\ indexerFiles' = merged(u.files, indexerFiles)
         /\ recordUpdate(u, newlyEvicted(update))
         /\ beginSlowPath(u)
  /\ taskDone
  /\ UNCHANGED queueVars

\* Name resolution is complete; the files can be typechecked.
resolve ==
  /\ slowPath = "resolve"
  /\ slowPath' = "check"
  /\ UNCHANGED <<queueVars, indexerVars, taskVars, typecheckerFiles, undo, epochVars>>

\* The head of the queue preempts: LSPQueuePreemptionTask commits it and runs
\* it on the fast path while the processing thread waits.
preempt ==
  /\ task = "await" /\ queue # <<>> /\ cachedPath = "fast"
  /\ slowPath \in {"check", "committed"} /\ ~slowPathWasCanceled
  /\ LET edit == Head(queue)
         u == indexedUpdate(edit)
     IN  /\ u.path = "fast"
         /\ indexerFiles' = merged(edit.files, indexerFiles)
         /\ recordUpdate(u, newlyEvicted(edit))
         /\ typecheckerFiles' = merged(u.files, typecheckerFiles)
  /\ popQueue
  /\ UNCHANGED <<taskVars, undo, slowPath, epochVars>>

\* tryCommitEpoch: the slow path commits, or it was canceled and the files are
\* put back.
tryCommitEpoch ==
  /\ slowPath = "check"
  /\ commitOrForgetEpoch
  /\ \/ /\ ~slowPathWasCanceled
        /\ slowPath' = "committed"
        /\ UNCHANGED <<typecheckerFiles, undo>>
     \/ /\ slowPathWasCanceled
        /\ slowPath' = "idle"
        /\ typecheckerFiles' = undo.files
        /\ undo' = [epoch |-> undo.epoch, files |-> NoFiles]
  /\ UNCHANGED <<queueVars, indexerVars, taskVars>>

\* After the last preemption task the undo state is dropped.
endSlowPath ==
  /\ slowPath = "committed"
  /\ slowPath' = "idle"
  /\ undo' = NoUndo
  /\ UNCHANGED <<queueVars, indexerVars, taskVars, typecheckerFiles, epochVars>>

-----------------------------------------------------------------------------
serverStep ==
  \/ decideHead \/ commitEdit \/ tryCancelSlowPath \/ leaveToTypechecker
  \/ runFastPath \/ runSlowPath \/ runBulkSlowPath
  \/ resolve \/ preempt \/ tryCommitEpoch \/ endSlowPath

clientStep ==
  \/ \E S \in (SUBSET Files) \ {{}} : enqueueEdit(S)
  \/ skipVersion
  \/ mergeQueued

Next == serverStep \/ clientStep

\* The server's threads do not stop while one of them can go on.
Spec == Init /\ [][Next]_vars /\ WF_vars(serverStep)

-----------------------------------------------------------------------------
(* Safety *)

\* A task can read the typechecker's files: its processing thread is not in the
\* middle of an edit, and no slow path is before its first preemption point.
canRunRequest == task = "await" /\ slowPath # "resolve"

\* Whenever a request can run it sees every edit that was taken from the queue
\* before it, and no other: preempted, committed, canceled and rolled back slow
\* paths leave the typechecker's file table equal to the indexer's.
RequestsSeeEarlierEdits == canRunRequest => typecheckerFiles = indexerFiles

\* "pendingTypecheckUpdates should contain the edits currently being typechecked
\* on the slow path": replayed on the files that the undo state restores, they
\* give the indexer's files, so an update merged with them loses no edit.
PendingRebuildsFromUndo ==
  task = "await" /\ slowPathRunning => merged(pending.files, undo.files) = indexerFiles

\* mergeEvictedFiles keeps "the file version just prior to the currently pending
\* slow path": an evicted file is the one the undo state holds, unless the slow
\* path brought the file, and then the pending updates stay on the slow path.
EvictedIsBeforeSlowPath ==
  task = "await" /\ slowPathRunning =>
    \A f \in DOMAIN evictedFiles :
      \/ evictedFiles[f] = undo.files[f]
      \/ undo.files[f] = Absent /\ pending.hasNewFiles

\* evictedFiles.at(fref) in fastPathFilesToTypecheck finds every file of the
\* update that cancels the slow path, unless new files make the update slow.
EvictedFilesAreThere ==
  task = "cancel" /\ canCancelSlowPath(update.epoch) =>
    LET both == mergeOlder(update, pending)
    IN  ~both.hasNewFiles =>
          evictedCovers(both.files, mergeEvictedFiles(evictedFiles, newlyEvictedFiles))

\* Whatever edits preempt the slow path, the evicted files are what a cancellation
\* compares the merged update with to choose its path (LSPIndexer.cc:33-39).
EvictedFilesAreRight == EvictedIsBeforeSlowPath /\ EvictedFilesAreThere

\* The decision cached for the head of the queue is the one commitEdit comes to,
\* so that run never has to raise "Attempted to run a slow path update on the
\* fast path!".
CachedDecisionIsFresh ==
  queue # <<>> /\ cachedPath # "none" /\ task = "await"
    /\ Cardinality(DOMAIN Head(queue).files) <= LspMaxFilesOnFastPath
    => cachedPath = indexedUpdate(Head(queue)).path

\* "we have exactly 1 diagnostic latency timer per edit" when run and runSpecial
\* look: edits that preempted a canceled slow path are not counted again.
OneTimerPerEdit ==
  task = "ready" => update.editCount - update.committedEditCount = update.timers

\* "runningSlowPath.epoch should be in the interval (pendingTypecheckUpdates.epoch
\* - editCount, pendingTypecheckUpdates.epoch]" whenever commitEdit reads the
\* status of a running slow path (a difference below 0 wraps to a large uint32).
SlowPathEpochIsPending ==
  task = "await" /\ slowPathRunning =>
    /\ currentlyProcessingLSPEpoch <= pending.epoch
    /\ pending.editCount <= pending.epoch
    /\ currentlyProcessingLSPEpoch > pending.epoch - pending.editCount

\* "the typechecker thread always calls us with an empty map of evictedFiles":
\* the short circuit of fastPathFilesToTypecheck is not reached with an empty
\* map, which is what the decision about the head of the queue passes too.
ShortCircuitHasEvictedFiles ==
  queue # <<>> /\ task = "await" /\ slowPathRunning =>
    LET changed == Head(queue).files
    IN  ~ /\ Cardinality(DOMAIN changed) <= LspMaxFilesOnFastPath
          /\ definitionsUnchanged(indexerFiles, changed, NoFiles)
          /\ totalChanged(indexerFiles, changed, NoFiles) > 2 * LspMaxFilesOnFastPath

-----------------------------------------------------------------------------
(* The server keeps the promise of LatestEdits.  A file carries the version *)
(* of its edit, so the newest version in a table tells which edits it has.  *)

editsIn(table) ==
  {i \in 1 .. Len(sent) :
     \E f \in Files : table[f] # Absent /\ table[f].version >= sent[i].epoch}

prefixIn(table) == CHOOSE n \in 0 .. Len(sent) : editsIn(table) = 1 .. n

served == prefixIn(typecheckerFiles)

settled == IF slowPath \in {"resolve", "check"} THEN prefixIn(undo.files) ELSE served

Latest == INSTANCE LatestEdits WITH
  Start <- InitialFiles, edits <- [i \in 1 .. Len(sent) |-> sent[i].files],
  view <- typecheckerFiles

=============================================================================
