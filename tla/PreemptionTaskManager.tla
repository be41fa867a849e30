------------------------ MODULE PreemptionTaskManager ------------------------
(***************************************************************************)
(* core/lsp/PreemptionTaskManager: the single slot through which the       *)
(* processing thread asks the typechecking thread to interrupt a slow      *)
(* path, and the reader/writer lock (typecheckMutex) that parks the worker *)
(* threads while the interruption runs.                                    *)
(***************************************************************************)
EXTENDS TypecheckEpochManager

CONSTANT Workers      \* the worker threads of pipeline::typecheck

VARIABLES
  preemptTask,        \* is a preemption task scheduled (non-null)?
  readers,            \* the workers that hold typecheckMutex as readers
  writer              \* does the typechecking thread hold it as the writer?

preemptVars == <<preemptTask, readers, writer>>

PreemptTypeOK ==
  /\ preemptTask \in BOOLEAN
  /\ readers \subseteq Workers
  /\ writer \in BOOLEAN

PreemptInit ==
  /\ preemptTask = FALSE
  /\ readers = {}
  /\ writer = FALSE

\* The condition, read under the epoch lock, on which
\* trySchedulePreemptionTask succeeds.
canSchedulePreemptionTask ==
  slowPathRunning /\ ~slowPathWasCanceled /\ ~preemptTask

schedulePreemptionTask ==
  /\ canSchedulePreemptionTask
  /\ preemptTask' = TRUE
  /\ UNCHANGED <<readers, writer>>

\* The compare-and-swap of tryRunScheduledPreemptionTask, by the typechecking
\* thread, and of tryCancelScheduledPreemptionTask, by the processing thread:
\* whoever comes first empties the slot.
takePreemptionTask ==
  /\ preemptTask
  /\ preemptTask' = FALSE
  /\ UNCHANGED <<readers, writer>>

\* The write lock that the typechecking thread holds around the task.
lockTypecheckMutex ==
  /\ ~writer /\ readers = {}
  /\ writer' = TRUE
  /\ UNCHANGED <<preemptTask, readers>>

unlockTypecheckMutex ==
  /\ writer' = FALSE
  /\ UNCHANGED <<preemptTask, readers>>

\* The read lock a worker holds around one file.
lockPreemption(w) ==
  /\ ~writer
  /\ readers' = readers \cup {w}
  /\ UNCHANGED <<preemptTask, writer>>

unlockPreemption(w) ==
  /\ readers' = readers \ {w}
  /\ UNCHANGED <<preemptTask, writer>>
=============================================================================
