------------------------- MODULE LSPSchedulerInvariant -------------------------
(***************************************************************************)
(* The inductive invariant of LSPScheduler: how the program counters of    *)
(* the processing and the typechecking thread, the epochs, the preemption  *)
(* slot and the undo state constrain each other.  The safety properties of *)
(* LSPScheduler follow from it.                                            *)
(***************************************************************************)
EXTENDS LSPScheduler

\* The typechecking thread has taken a preemption task and not yet notified.
draining == tcPC \in {"lock", "preempt", "preemptRun"}

\* The typechecking thread is between startCommitEpoch and tryCommitEpoch.
inSlowPath ==
  \/ tcPC \in {"typecheck", "resolve", "check", "commit"}
  \/ tcPC \in {"lock", "preempt", "preemptRun", "unlock"} /\ tcReturn = "check"

\* It is past tryCommitEpoch and has not left runSlowPath.
afterCommit ==
  \/ tcPC \in {"tail", "restore"}
  \/ tcPC \in {"lock", "preempt", "preemptRun", "unlock"} /\ tcReturn = "restore"

\* The processing thread holds an update that canceled the slow path and the
\* typechecking thread has not taken that update yet.
cancelInFlight ==
  /\ procTask.canceledSlowPath
  /\ procPC = "dispatch" \/ (procPC = "blocked" /\ tcTasks # << >>)

\* A slow path is running exactly while the typechecking thread is in one, and
\* it is marked canceled exactly while the canceling update is in flight.
EpochInv ==
  /\ inSlowPath => /\ currentlyProcessingLSPEpoch = tcTask.id
                   /\ slowPathRunning
                   /\ slowPathWasCanceled <=> cancelInFlight
  /\ ~inSlowPath => ~slowPathRunning /\ ~slowPathWasCanceled
  /\ afterCommit => (committed <=> ~cancelInFlight)

\* How the two threads hand a task over.
HandoverInv ==
  /\ procPC # "blocked" =>
       tcTasks = << >> /\ tcPC \notin {"run", "special"}
  /\ procPC = "blocked" =>
       \/ tcTasks = <<procTask>> /\ ~notified /\ tcPC \notin {"run", "special"}
       \/ /\ tcTasks = << >> /\ ~notified
          /\ tcTask = procTask /\ tcPC \in {"run", "special"}
       \/ tcTasks = << >> /\ notified /\ tcPC \notin {"run", "special"}
  /\ procPC = "cancel" => procTask.kind = "edit" /\ procTask.path = "Slow"
  /\ procPC \notin {"dispatch", "blocked"} => ~procTask.canceledSlowPath
  /\ procTask.canceledSlowPath => procTask.kind = "edit"
  /\ procPC \in {"await", "schedule", "drain", "finished"} => procTask = NoTask
  /\ tcPC = "special" => tcTask.path = "Slow"
  /\ procTask.path \in Paths(procTask.kind)

\* The preemption slot and its notification.
PreemptionInv ==
  /\ preemptTask => /\ procPC = "drain" /\ ~finished
                    /\ ~draining
                    /\ inSlowPath \/ tcPC = "tail"
  /\ draining => procPC \in {"drain", "finished"} /\ ~finished
  /\ procPC = "finished" => ~preemptTask /\ (finished \/ draining)
  /\ procPC = "drain" => preemptTask \/ finished \/ draining
  /\ writer <=> tcPC \in {"preempt", "preemptRun", "unlock"}
  /\ procPC = "schedule" => tasks # << >>

\* The undo state at every point of the typechecking thread.
UndoInv ==
  /\ tcPC = "idle" =>
       undoState = IF cancelInFlight THEN "restored" ELSE "none"
  /\ tcPC \in {"run", "special", "typecheck"} =>
       undoState = IF tcTask.canceledSlowPath THEN "restored" ELSE "none"
  /\ tcPC \notin {"idle", "run", "special", "typecheck"} => undoState = "saved"

\* Workers are busy only inside of pipeline::typecheck, and nobody has left out
\* work of a slow path that is not marked canceled.
WorkerInv ==
  /\ readers = {w \in Workers : workerPC[w] = "locked"}
  /\ (filesLeft > 0 \/ \E w \in Workers : workerPC[w] # "idle") =>
       inSlowPath /\ tcPC \notin {"typecheck", "resolve", "commit"}
  /\ \A w \in Workers :
       workerPC[w] = "locked" /\ seenInvalidator[w] # currentlyProcessingLSPEpoch
         => slowPathWasCanceled
  /\ inSlowPath /\ tcPC # "typecheck" /\ abandoned => slowPathWasCanceled

\* A queue of well-formed tasks sent up to hi, whose edits are sorted by epoch
\* and all newer than lo.
QueueOK(q, lo, hi) ==
  /\ \A i \in 1 .. Len(q) :
       /\ q[i].id \in 1 .. hi
       /\ q[i].kind \in AllKinds
       /\ q[i].path \in Paths(q[i].kind)
       /\ ~q[i].canceledSlowPath
       /\ isEdit(q[i]) => lo < q[i].id
  /\ \A i, j \in 1 .. Len(q) :
       i < j /\ isEdit(q[i]) /\ isEdit(q[j]) => q[i].id < q[j].id

\* Epochs grow along the way of an edit: committed and running slow paths, the
\* edit of the processing thread, the edits in the queue, the next edit.
OrderInv ==
  /\ currentlyProcessingLSPEpoch \in 0 .. lastId
  /\ lastCommittedLSPEpoch \in 0 .. lastId
  /\ procTask.id \in 0 .. lastId
  /\ isEdit(procTask) /\ (procPC # "blocked" \/ ~notified) =>
       /\ currentlyProcessingLSPEpoch < procTask.id
       /\ lastCommittedLSPEpoch < procTask.id
  /\ QueueOK(tasks, currentlyProcessingLSPEpoch, lastId)
  /\ QueueOK(tasks, lastCommittedLSPEpoch, lastId)
  /\ isEdit(procTask) => QueueOK(tasks, procTask.id, lastId)

\* The inductive invariant.
IInv ==
  /\ TypeOK /\ EpochInv /\ HandoverInv /\ PreemptionInv /\ UndoInv
  /\ WorkerInv /\ OrderInv
=============================================================================
