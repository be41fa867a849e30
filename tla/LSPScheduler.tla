----------------------------- MODULE LSPScheduler -----------------------------
(***************************************************************************)
(* The threads of the language server after initialization:                *)
(*   - the preprocessor thread enqueues tasks, merges adjacent edits and   *)
(*     removes canceled requests (LSPPreprocessor.cc);                     *)
(*   - the processing thread takes tasks from the queue, indexes them and  *)
(*     hands them to the typechecker, or schedules a preemption            *)
(*     (LSPLoop.cc, LSPTypecheckerCoordinator.cc);                         *)
(*   - the typechecking thread runs fast paths, queries and slow paths,    *)
(*     and interrupts slow paths (LSPTypechecker.cc, LSPTask.cc);          *)
(*   - the workers typecheck files (pipeline.cc).                          *)
(* File contents are abstracted: whether an edit takes the fast path is an *)
(* arbitrary choice each time the code computes it.                        *)
(***************************************************************************)
EXTENDS PreemptionTaskManager, Naturals, Sequences

CONSTANTS
  MaxTasks,     \* bound: tasks the client sends
  NumFiles,     \* files a slow path typechecks
  Kinds         \* the kinds of tasks the client sends, a subset of AllKinds

AllKinds == {"edit", "bulk", "request", "symbols", "multi", "index"}

ASSUME SchedulerAssumption ==
  /\ MaxTasks \in Nat
  /\ NumFiles \in Nat
  /\ Kinds \subseteq AllKinds
  /\ InitialEpoch = 0
  /\ 0 .. MaxTasks \subseteq Epoch

(***************************************************************************)
(* A task.  "edit" and "bulk" are SorbetWorkspaceEditTasks with at most    *)
(* and with more than lspMaxFilesOnFastPath files; "request" may preempt   *)
(* (hover, completion, ...); "symbols" may also be delayed (document and   *)
(* workspace symbols); "multi" needs all worker threads (references);      *)
(* "index" ends after its index phase (GetCounters).                       *)
(***************************************************************************)
Task == [id : 0 .. MaxTasks, kind : AllKinds \cup {"none"},
         path : {"Fast", "Slow", "none"}, canceledSlowPath : BOOLEAN]

NoTask == [id |-> 0, kind |-> "none", path |-> "none", canceledSlowPath |-> FALSE]

isEdit(t) == t.kind \in {"edit", "bulk"}
isRequest(t) == t.kind \in {"request", "symbols", "multi"}
isDelayable(t) == t.kind = "symbols"
endsAfterIndex(t) == t.kind = "index"
canPreempt(t) == t.kind \in {"request", "symbols"} \/ t.path = "Fast"

\* The typechecking paths getTypecheckingPath may find for a task of kind k.
Paths(k) ==
  IF k = "edit" THEN {"Fast", "Slow"} ELSE IF k = "bulk" THEN {"Slow"} ELSE {"none"}

VARIABLES
  tasks,         \* TaskQueue::pendingTasks
  lastId,        \* number of tasks sent; doubles as the epoch of an edit
  procPC,        \* where the processing thread is
  procTask,      \* the task it took from the queue
  finished,      \* the Notification of the scheduled LSPQueuePreemptionTask
  notified,      \* the Notification the processing thread blocks on
  tcTasks,       \* LSPTypecheckerCoordinator::tasks
  tcPC,          \* where the typechecking thread is
  tcTask,        \* the task it runs
  tcReturn,      \* where it resumes after a preemption
  undoState,     \* cancellationUndoState: "none", "saved" or "restored"
  filesLeft,     \* fileq of pipeline::typecheck
  workerPC,      \* where each worker is
  seenInvalidator, \* the invalidator each worker loaded
  abandoned      \* has the running slow path left out work as canceled?

queueVars == <<tasks, lastId>>
procVars == <<procPC, procTask>>
tcVars == <<tcPC, tcTask, tcReturn>>
notifyVars == <<finished, notified>>
workerVars == <<filesLeft, workerPC, seenInvalidator>>
vars == <<epochVars, preemptVars, queueVars, procVars, notifyVars, tcTasks,
          tcVars, undoState, workerVars, abandoned>>

ProcPC == {"await", "schedule", "drain", "finished", "index", "cancel",
           "dispatch", "blocked"}
TcPC == {"idle", "run", "special", "typecheck", "resolve", "check", "lock",
         "preempt", "preemptRun", "unlock", "commit", "tail", "restore"}

TypeOK ==
  /\ EpochTypeOK
  /\ PreemptTypeOK
  /\ tasks \in Seq(Task)
  /\ lastId \in 0 .. MaxTasks
  /\ procPC \in ProcPC
  /\ procTask \in Task
  /\ finished \in BOOLEAN
  /\ notified \in BOOLEAN
  /\ tcTasks \in Seq(Task)
  /\ tcPC \in TcPC
  /\ tcTask \in Task
  /\ tcReturn \in {"check", "restore"}
  /\ undoState \in {"none", "saved", "restored"}
  /\ filesLeft \in 0 .. NumFiles
  /\ workerPC \in [Workers -> {"idle", "popped", "locked"}]
  /\ seenInvalidator \in [Workers -> Epoch]
  /\ abandoned \in BOOLEAN

\* The server has finished initializing: nothing is queued, the initial
\* typecheck is done.
Init ==
  /\ EpochInit
  /\ PreemptInit
  /\ tasks = << >> /\ lastId = 0
  /\ procPC = "await" /\ procTask = NoTask
  /\ finished = FALSE /\ notified = FALSE
  /\ tcTasks = << >>
  /\ tcPC = "idle" /\ tcTask = NoTask /\ tcReturn = "check"
  /\ undoState = "none"
  /\ filesLeft = 0
  /\ workerPC = [w \in Workers |-> "idle"]
  /\ seenInvalidator = [w \in Workers |-> InitialEpoch]
  /\ abandoned = FALSE

-----------------------------------------------------------------------------
(* The preprocessor thread. *)

\* The processing thread holds the queue's mutex from looking at the front of
\* the queue until it has scheduled a preemption or popped the task.
queueMutexFree == procPC # "schedule"

\* Positions i < j of two edits with nothing but delayable tasks between them.
mergeable(q) ==
  {p \in (DOMAIN q) \X (DOMAIN q) :
     /\ p[1] < p[2]
     /\ isEdit(q[p[1]]) /\ isEdit(q[p[2]])
     /\ \A k \in p[1] + 1 .. p[2] - 1 : isDelayable(q[k])}

\* Edit newer merged into edit older: its epoch is the newer one, its path has
\* to be decided afresh, and it may now have too many files for the fast path.
mergedEdits(older, newer) ==
  {t \in Task : /\ t.id = newer.id
                /\ t.kind \in {"edit", "bulk"}
                /\ "bulk" \in {older.kind, newer.kind} => t.kind = "bulk"
                /\ t.path \in Paths(t.kind)
                /\ ~t.canceledSlowPath}

withoutPosition(q, j) == SubSeq(q, 1, j - 1) \o SubSeq(q, j + 1, Len(q))

\* LSPPreprocessor::mergeFileChanges.  A call finds at most one pair to merge
\* because the previous call left none (see EditsAreMerged).
mergeFileChanges(q) ==
  IF mergeable(q) = {}
  THEN tasks' = q
  ELSE \E p \in mergeable(q) : \E m \in mergedEdits(q[p[1]], q[p[2]]) :
         tasks' = withoutPosition([q EXCEPT ![p[1]] = m], p[2])

\* preprocessAndEnqueue for a task that does not end in its preprocess phase.
preprocessAndEnqueue ==
  /\ queueMutexFree
  /\ lastId < MaxTasks
  /\ lastId' = lastId + 1
  /\ \E k \in Kinds : \E p \in Paths(k) :
       LET t == [id |-> lastId + 1, kind |-> k, path |-> p,
                 canceledSlowPath |-> FALSE]
       IN IF isEdit(t) THEN mergeFileChanges(Append(tasks, t))
                       ELSE tasks' = Append(tasks, t)
  /\ UNCHANGED <<epochVars, preemptVars, procVars, notifyVars, tcTasks, tcVars,
                 undoState, workerVars, abandoned>>

\* A mutant of cancelRequest: erase the request and do not merge again.
cancelRequestWithoutMerge ==
  /\ queueMutexFree
  /\ \E i \in DOMAIN tasks : /\ isRequest(tasks[i])
                             /\ tasks' = withoutPosition(tasks, i)
  /\ UNCHANGED <<epochVars, preemptVars, lastId, procVars, notifyVars, tcTasks,
                 tcVars, undoState, workerVars, abandoned>>

\* cancelRequest: a $/cancelRequest notification finds its request still queued.
cancelRequest ==
  /\ queueMutexFree
  /\ \E i \in DOMAIN tasks : /\ isRequest(tasks[i])
                             /\ mergeFileChanges(withoutPosition(tasks, i))
  /\ UNCHANGED <<epochVars, preemptVars, lastId, procVars, notifyVars, tcTasks,
                 tcVars, undoState, workerVars, abandoned>>

-----------------------------------------------------------------------------
(* The processing thread: the loop of LSPLoop::runLSP and runTask. *)

\* A mutant of popTask: take the task from the wrong end of the queue.
popNewestTask ==
  /\ procTask' = tasks[Len(tasks)]
  /\ tasks' = withoutPosition(tasks, Len(tasks))
  /\ procPC' = "index"

popTask ==
  /\ procTask' = Head(tasks)
  /\ tasks' = Tail(tasks)
  /\ procPC' = "index"

\* Await TaskQueue::ready, then look at the front of the queue: keep the mutex
\* to schedule a preemption if it may preempt the running slow path, else pop it.
awaitTask ==
  /\ procPC = "await"
  /\ tasks # << >>
  /\ LET front == Head(tasks)
     IN IF ~endsAfterIndex(front) /\ slowPathRunning /\ canPreempt(front)
        THEN procPC' = "schedule" /\ UNCHANGED <<tasks, procTask>>
        ELSE popTask
  /\ UNCHANGED <<epochVars, preemptVars, lastId, notifyVars, tcTasks, tcVars,
                 undoState, workerVars, abandoned>>

\* trySchedulePreemption; the slow path may have ended since awaitTask.
schedulePreemption ==
  /\ procPC = "schedule"
  /\ \/ /\ schedulePreemptionTask
        /\ procPC' = "drain"
        /\ finished' = FALSE
        /\ UNCHANGED <<tasks, procTask>>
     \/ /\ ~canSchedulePreemptionTask
        /\ popTask
        /\ UNCHANGED <<preemptVars, finished>>
  /\ UNCHANGED <<epochVars, lastId, notified, tcTasks, tcVars, undoState,
                 workerVars, abandoned>>

headOfQueueCanPreempt == tasks # << >> /\ canPreempt(Head(tasks))

\* A mutant of cancelPreemption: go on without waiting for a preemption that has
\* started.
cancelPreemptionWithoutWait ==
  /\ procPC = "drain"
  /\ ~headOfQueueCanPreempt
  /\ takePreemptionTask \/ (~preemptTask /\ UNCHANGED preemptVars)
  /\ procPC' = "await"
  /\ UNCHANGED <<epochVars, queueVars, procTask, notifyVars, tcTasks, tcVars,
                 undoState, workerVars, abandoned>>

\* The queue has drained to a task that cannot preempt: withdraw the scheduled
\* preemption, or wait for it if it has already started.
cancelPreemption ==
  /\ procPC = "drain"
  /\ ~headOfQueueCanPreempt
  /\ \/ takePreemptionTask /\ procPC' = "await"
     \/ ~preemptTask /\ procPC' = "finished" /\ UNCHANGED preemptVars
  /\ UNCHANGED <<epochVars, queueVars, procTask, notifyVars, tcTasks, tcVars,
                 undoState, workerVars, abandoned>>

preemptionFinished ==
  /\ procPC = "finished"
  /\ finished
  /\ procPC' = "await"
  /\ UNCHANGED <<epochVars, preemptVars, queueVars, procTask, notifyVars,
                 tcTasks, tcVars, undoState, workerVars, abandoned>>

\* LSPTask::index.  For an edit, commitEdit decides the path and asks whether a
\* slow path is running; an edit with too many files is left to runSpecial.
indexTask ==
  /\ procPC = "index"
  /\ procPC' = IF endsAfterIndex(procTask) THEN "await"
               ELSE IF procTask.kind = "edit" /\ procTask.path # "Fast"
                       /\ slowPathRunning THEN "cancel"
               ELSE "dispatch"
  /\ procTask' = IF endsAfterIndex(procTask) THEN NoTask ELSE procTask
  /\ UNCHANGED <<epochVars, preemptVars, queueVars, notifyVars, tcTasks, tcVars,
                 undoState, workerVars, abandoned>>

\* A mutant of tryCancelSlowPath: do not look again whether a slow path runs.
cancelUnchecked ==
  /\ procPC = "cancel"
  /\ lspEpochInvalidator' = procTask.id
  /\ procTask' = [procTask EXCEPT !.canceledSlowPath = TRUE]
  /\ procPC' = "dispatch"
  /\ UNCHANGED <<currentlyProcessingLSPEpoch, lastCommittedLSPEpoch, preemptVars,
                 queueVars, notifyVars, tcTasks, tcVars, undoState, workerVars,
                 abandoned>>

\* commitEdit: tryCancelSlowPath.  The two updates together may take any path.
\* It fails if the slow path committed since indexTask.
tryCancelSlowPath ==
  /\ procPC = "cancel"
  /\ \/ /\ cancelSlowPath(procTask.id)
        /\ \E p \in {"Fast", "Slow"} :
             procTask' = [procTask EXCEPT !.canceledSlowPath = TRUE, !.path = p]
     \/ /\ ~canCancelSlowPath(procTask.id)
        /\ UNCHANGED <<epochVars, procTask>>
  /\ procPC' = "dispatch"
  /\ UNCHANGED <<preemptVars, queueVars, notifyVars, tcTasks, tcVars, undoState,
                 workerVars, abandoned>>

\* syncRun or typecheckOnSlowPath: hand the task over and block, until the task
\* is complete or, for a slow path, until it has started.
dispatchTask ==
  /\ procPC = "dispatch"
  /\ tcTasks' = Append(tcTasks, procTask)
  /\ notified' = FALSE
  /\ procPC' = "blocked"
  /\ UNCHANGED <<epochVars, preemptVars, queueVars, procTask, finished, tcVars,
                 undoState, workerVars, abandoned>>

taskReady ==
  /\ procPC = "blocked"
  /\ notified
  /\ procPC' = "await"
  /\ procTask' = NoTask
  /\ UNCHANGED <<epochVars, preemptVars, queueVars, notifyVars, tcTasks, tcVars,
                 undoState, workerVars, abandoned>>

-----------------------------------------------------------------------------
(* The typechecking thread. *)

\* startTypecheckerThread's loop.  Slow paths run through runSpecial.
takeTask ==
  /\ tcPC = "idle"
  /\ tcTasks # << >>
  /\ tcTask' = Head(tcTasks)
  /\ tcTasks' = Tail(tcTasks)
  /\ tcPC' = IF Head(tcTasks).path = "Slow" THEN "special" ELSE "run"
  /\ UNCHANGED <<epochVars, preemptVars, queueVars, procVars, notifyVars,
                 tcReturn, undoState, workerVars, abandoned>>

\* A request, or an edit on the fast path.  An update that canceled a slow path
\* consumes the undo state (LSPTypechecker::typecheck).
runTask ==
  /\ tcPC = "run"
  /\ undoState' = IF tcTask.canceledSlowPath THEN "none" ELSE undoState
  /\ notified' = TRUE
  /\ tcPC' = "idle"
  /\ tcTask' = NoTask
  /\ UNCHANGED <<epochVars, preemptVars, queueVars, procVars, finished, tcTasks,
                 tcReturn, workerVars, abandoned>>

\* SorbetWorkspaceEditTask::runSpecial up to the started notification.
runSpecial ==
  /\ tcPC = "special"
  /\ startCommitEpoch(tcTask.id)
  /\ notified' = TRUE
  /\ tcPC' = "typecheck"
  /\ UNCHANGED <<preemptVars, queueVars, procVars, finished, tcTasks, tcTask,
                 tcReturn, undoState, workerVars, abandoned>>

\* typecheck and runSlowPath up to the call of tryCommitEpoch.
beginSlowPath ==
  /\ tcPC = "typecheck"
  /\ undoState' = "saved"
  /\ abandoned' = FALSE
  /\ tcPC' = "resolve"
  /\ UNCHANGED <<epochVars, preemptVars, queueVars, procVars, notifyVars,
                 tcTasks, tcTask, tcReturn, workerVars>>

\* Index, name and resolve, with an early return once canceled; then
\* pipeline::typecheck fills fileq.
resolve ==
  /\ tcPC = "resolve"
  /\ \/ /\ slowPathWasCanceled
        /\ abandoned' = TRUE
        /\ tcPC' = "commit"
        /\ UNCHANGED filesLeft
     \/ /\ ~slowPathWasCanceled
        /\ filesLeft' = NumFiles
        /\ tcPC' = "check"
        /\ UNCHANGED abandoned
  /\ UNCHANGED <<epochVars, preemptVars, queueVars, procVars, notifyVars,
                 tcTasks, tcTask, tcReturn, undoState, workerPC,
                 seenInvalidator>>

\* tryRunScheduledPreemptionTask: before and between files, and once more at
\* the end of tryCommitEpoch.
beginPreemption ==
  /\ tcPC \in {"check", "tail"}
  /\ takePreemptionTask
  /\ tcReturn' = IF tcPC = "check" THEN "check" ELSE "restore"
  /\ tcPC' = "lock"
  /\ UNCHANGED <<epochVars, queueVars, procVars, notifyVars, tcTasks, tcTask,
                 undoState, workerVars, abandoned>>

lockWorkersOut ==
  /\ tcPC = "lock"
  /\ lockTypecheckMutex
  /\ tcPC' = "preempt"
  /\ UNCHANGED <<epochVars, queueVars, procVars, notifyVars, tcTasks, tcTask,
                 tcReturn, undoState, workerVars, abandoned>>

\* A mutant of preemptNext: run the front of the queue without popping it.
preemptWithoutPop ==
  /\ tcPC = "preempt"
  /\ queueMutexFree
  /\ headOfQueueCanPreempt
  /\ tcPC' = "preemptRun"
  /\ UNCHANGED <<epochVars, preemptVars, queueVars, procVars, notifyVars, tcTasks,
                 tcTask, tcReturn, undoState, workerVars, abandoned>>

\* LSPQueuePreemptionTask::run: pop and index the head under the queue's mutex.
preemptNext ==
  /\ tcPC = "preempt"
  /\ queueMutexFree
  /\ headOfQueueCanPreempt
  /\ tasks' = Tail(tasks)
  /\ tcPC' = "preemptRun"
  /\ UNCHANGED <<epochVars, preemptVars, lastId, procVars, notifyVars, tcTasks,
                 tcTask, tcReturn, undoState, workerVars, abandoned>>

preemptRun ==
  /\ tcPC = "preemptRun"
  /\ tcPC' = "preempt"
  /\ UNCHANGED <<epochVars, preemptVars, queueVars, procVars, notifyVars,
                 tcTasks, tcTask, tcReturn, undoState, workerVars, abandoned>>

preemptBreak ==
  /\ tcPC = "preempt"
  /\ queueMutexFree
  /\ ~headOfQueueCanPreempt
  /\ finished' = TRUE
  /\ tcPC' = "unlock"
  /\ UNCHANGED <<epochVars, preemptVars, queueVars, procVars, notified, tcTasks,
                 tcTask, tcReturn, undoState, workerVars, abandoned>>

letWorkersIn ==
  /\ tcPC = "unlock"
  /\ unlockTypecheckMutex
  /\ tcPC' = tcReturn
  /\ UNCHANGED <<epochVars, queueVars, procVars, notifyVars, tcTasks, tcTask,
                 tcReturn, undoState, workerVars, abandoned>>

\* outputq has accounted for every file: pipeline::typecheck returns.
endTypecheck ==
  /\ tcPC = "check"
  /\ filesLeft = 0
  /\ \A w \in Workers : workerPC[w] = "idle"
  /\ tcPC' = "commit"
  /\ UNCHANGED <<epochVars, preemptVars, queueVars, procVars, notifyVars,
                 tcTasks, tcTask, tcReturn, undoState, workerVars, abandoned>>

\* The critical section of tryCommitEpoch.
tryCommitEpoch ==
  /\ tcPC = "commit"
  /\ commitOrForgetEpoch
  /\ tcPC' = "tail"
  /\ UNCHANGED <<preemptVars, queueVars, procVars, notifyVars, tcTasks, tcTask,
                 tcReturn, undoState, workerVars, abandoned>>

noPreemptionLeft ==
  /\ tcPC = "tail"
  /\ ~preemptTask
  /\ tcPC' = "restore"
  /\ UNCHANGED <<epochVars, preemptVars, queueVars, procVars, notifyVars,
                 tcTasks, tcTask, tcReturn, undoState, workerVars, abandoned>>

\* What tryCommitEpoch returned to runSlowPath.
committed == lastCommittedLSPEpoch = tcTask.id

\* A mutant of endSlowPath: drop the undo state after a cancellation, too.
undoStateDropped ==
  /\ tcPC = "restore"
  /\ undoState' = "none"
  /\ tcPC' = "idle"
  /\ tcTask' = NoTask
  /\ UNCHANGED <<epochVars, preemptVars, queueVars, procVars, notifyVars,
                 tcTasks, tcReturn, workerVars, abandoned>>

\* The end of runSlowPath: drop the undo state, or restore it when canceled.
endSlowPath ==
  /\ tcPC = "restore"
  /\ undoState' = IF committed THEN "none" ELSE "restored"
  /\ tcPC' = "idle"
  /\ tcTask' = NoTask
  /\ UNCHANGED <<epochVars, preemptVars, queueVars, procVars, notifyVars,
                 tcTasks, tcReturn, workerVars, abandoned>>

-----------------------------------------------------------------------------
(* The workers of pipeline::typecheck. *)

\* A mutant of workerPop: leave the file in the queue.
peekOnly(w) ==
  /\ workerPC[w] = "idle"
  /\ filesLeft > 0
  /\ workerPC' = [workerPC EXCEPT ![w] = "popped"]
  /\ UNCHANGED <<epochVars, preemptVars, queueVars, procVars, notifyVars,
                 tcTasks, tcVars, undoState, filesLeft, seenInvalidator, abandoned>>

workerPop(w) ==
  /\ workerPC[w] = "idle"
  /\ filesLeft > 0
  /\ filesLeft' = filesLeft - 1
  /\ workerPC' = [workerPC EXCEPT ![w] = "popped"]
  /\ UNCHANGED <<epochVars, preemptVars, queueVars, procVars, notifyVars,
                 tcTasks, tcVars, undoState, seenInvalidator, abandoned>>

\* Lock out preemption and load the invalidator, the first of the two loads of
\* wasTypecheckingCanceled.
workerLock(w) ==
  /\ workerPC[w] = "popped"
  /\ lockPreemption(w)
  /\ seenInvalidator' = [seenInvalidator EXCEPT ![w] = lspEpochInvalidator]
  /\ workerPC' = [workerPC EXCEPT ![w] = "locked"]
  /\ UNCHANGED <<epochVars, queueVars, procVars, notifyVars, tcTasks, tcVars,
                 undoState, filesLeft, abandoned>>

\* The second load; typecheck the file unless canceled.
workerCheck(w) ==
  /\ workerPC[w] = "locked"
  /\ abandoned' = (abandoned \/ seenInvalidator[w] # currentlyProcessingLSPEpoch)
  /\ unlockPreemption(w)
  /\ workerPC' = [workerPC EXCEPT ![w] = "idle"]
  /\ seenInvalidator' = [seenInvalidator EXCEPT ![w] = InitialEpoch]
  /\ UNCHANGED <<epochVars, queueVars, procVars, notifyVars, tcTasks, tcVars,
                 undoState, filesLeft>>

-----------------------------------------------------------------------------
preprocessorStep == preprocessAndEnqueue \/ cancelRequest

processingStep ==
  \/ awaitTask \/ schedulePreemption \/ cancelPreemption \/ preemptionFinished
  \/ indexTask \/ tryCancelSlowPath \/ dispatchTask \/ taskReady

typecheckerStep ==
  \/ takeTask \/ runTask \/ runSpecial \/ beginSlowPath \/ resolve
  \/ beginPreemption \/ lockWorkersOut \/ preemptNext \/ preemptRun
  \/ preemptBreak \/ letWorkersIn \/ endTypecheck \/ tryCommitEpoch
  \/ noPreemptionLeft \/ endSlowPath

workerStep(w) == workerPop(w) \/ workerLock(w) \/ workerCheck(w)

\* Nothing is left to do.
quiescent ==
  /\ tasks = << >> /\ tcTasks = << >>
  /\ procPC = "await" /\ tcPC = "idle"

\* The preemption task has drained the queue and notified, and a task that can
\* preempt arrived before the processing thread saw its Await condition true.
\* Neither thread will look at that task.
missedDrain == procPC = "drain" /\ finished /\ headOfQueueCanPreempt

rest ==
  /\ lastId = MaxTasks
  /\ quiescent \/ (missedDrain /\ tcPC = "idle")
  /\ UNCHANGED vars

Next ==
  \/ preprocessorStep
  \/ processingStep
  \/ typecheckerStep
  \/ \E w \in Workers : workerStep(w)
  \/ rest

\* Every thread keeps running; the client need not send anything.
Spec ==
  /\ Init /\ [][Next]_vars
  /\ WF_vars(processingStep)
  /\ WF_vars(typecheckerStep)
  /\ \A w \in Workers : WF_vars(workerStep(w))

-----------------------------------------------------------------------------
(* Safety. *)

\* The typechecking thread runs tasks inside of a slow path.
preempting == tcPC \in {"preempt", "preemptRun"}

\* At most one thread uses the LSPIndexer: while the typechecking thread drains
\* the queue (LSPQueuePreemptionTask::run indexes edits), or indexes a bulk edit
\* in runSpecial, the processing thread is blocked.  LSPIndexer has no lock of
\* its own.
IndexerExclusion ==
  /\ preempting => procPC \in {"drain", "finished"}
  /\ tcPC = "special" => procPC = "blocked"

\* The ENFORCE of trySchedulePreemptionTask: the slot is empty whenever the
\* processing thread tries to fill it, and a filled slot has a slow path that
\* will still look at it (in the file loop or at the end of tryCommitEpoch).
PreemptionSlotDiscipline ==
  /\ procPC = "schedule" => ~preemptTask
  /\ preemptTask => tcPC \in TcPC \ {"idle", "run", "special", "restore"}

\* A preemption that sneaks in at the end of tryCommitEpoch runs only after a
\* commit: after a cancellation runSlowPath has yet to restore the GlobalState
\* the preempting tasks would run on.
LatePreemptionOnlyAfterCommit ==
  (tcPC \in {"lock", "preempt", "preemptRun"} /\ tcReturn = "restore") => committed

\* Requests and fast paths never run while the slow path around them is marked
\* canceled: their own typechecking polls wasTypecheckingCanceled and would
\* return nothing.
NoCancellationUnderForeground ==
  tcPC \in {"run", "preemptRun"} => ~slowPathWasCanceled

\* The ENFORCEs of typecheck and runSlowPath on cancellationUndoState: an update
\* that canceled a slow path finds its restored undo state, any other update
\* finds none.
UndoStateMatchesCancellation ==
  (tcPC = "typecheck" \/ (tcPC = "run" /\ isEdit(tcTask))) =>
    undoState = IF tcTask.canceledSlowPath THEN "restored" ELSE "none"

\* The ENFORCEs of startCommitEpoch, and that no slow path is running then (a
\* bulk edit calls commitEdit on the typechecking thread, where a cancellation
\* would raise).
StartsOnlyWhenIdle ==
  tcPC = "special" =>
    /\ ~slowPathRunning /\ ~slowPathWasCanceled
    /\ tcTask.id # currentlyProcessingLSPEpoch

\* No ENFORCE of the epochs, the preemption slot and the undo state fails, however
\* the threads are interleaved.
EnforcesHold ==
  PreemptionSlotDiscipline /\ UndoStateMatchesCancellation /\ StartsOnlyWhenIdle

\* A task that preempts a slow path, or runs between two, finds a GlobalState it
\* can use and is not cut short by a cancellation that is not meant for it.
ForegroundIsUndisturbed ==
  LatePreemptionOnlyAfterCommit /\ NoCancellationUnderForeground

\* mergeFileChanges leaves no two edits that a later call could merge.
EditsAreMerged == mergeable(tasks) = {}

\* Edits reach the typechecker in the order the client sent them, merged or
\* not: the queue is sorted by epoch and behind everything already taken.
EditsStayInOrder ==
  LET epochs == {i \in DOMAIN tasks : isEdit(tasks[i])}
  IN /\ \A i, j \in epochs : i < j => tasks[i].id < tasks[j].id
     /\ \A i \in epochs : /\ isEdit(procTask) => procTask.id < tasks[i].id
                          /\ currentlyProcessingLSPEpoch < tasks[i].id

\* A slow path that left out work because it saw the cancellation (in resolve
\* or in any worker) is never committed by tryCommitEpoch.
AbandonedWorkIsNeverCommitted ==
  [][lastCommittedLSPEpoch' # lastCommittedLSPEpoch => ~abandoned]_vars

\* The scheduler follows the epoch manager's protocol.
FollowsEpochProtocol == EpochSpec

\* "Should always be >= currentlyProcessingLSPEpoch" (TypecheckEpochManager.h on
\* lastCommittedLSPEpoch).
LastCommittedIsAhead == lastCommittedLSPEpoch >= currentlyProcessingLSPEpoch

-----------------------------------------------------------------------------
(* Liveness. *)

\* "Is guaranteed to be invoked exactly once" (LSPTask.h on index): every task
\* the client sends leaves the queue, to be indexed or because it was merged or
\* canceled.
EveryTaskIsIndexed ==
  \A i \in 1 .. MaxTasks :
    (\E j \in DOMAIN tasks : tasks[j].id = i) ~>
      ~ \E j \in DOMAIN tasks : tasks[j].id = i

\* The wait of the processing thread for a scheduled preemption ends in every
\* case but one, missedDrain.
PreemptionResolves ==
  (procPC \in {"drain", "finished"}) ~> (procPC = "await" \/ missedDrain)

\* And that case is the only one in which a task is left in the queue for ever.
OnlyMissedDrainStarves ==
  (tasks # << >>) ~> (tasks = << >> \/ missedDrain)

\* The processing thread comes back for every task but in that one case.
OnlyMissedDrainHangs == PreemptionResolves /\ OnlyMissedDrainStarves

\* Every slow path ends, preempted or not: it commits or is rolled back.
SlowPathsEnd == slowPathRunning ~> ~slowPathRunning
=============================================================================
