----------------------------- MODULE WorkerJobs -----------------------------
(***************************************************************************)
(* How Sorbet does a job on every file in parallel: the caller fills a     *)
(* queue of jobs, hands the same closure to all threads of the worker pool *)
(* and takes results from a second queue until all jobs are accounted for. *)
(* Indexing, hashing, constant resolution, caching and typechecking are    *)
(* all written this way.                                                   *)
(*                                                                         *)
(* The result queue knows how many jobs it still expects, not how many     *)
(* elements: a worker pushes its results with the number of jobs it took   *)
(* since its last push, and that number is what ends the caller's loop     *)
(* (AbstractConcurrentBoundedQueue).  The caller does not wait for the     *)
(* workers themselves, and the closure uses the caller's variables.        *)
(***************************************************************************)
EXTENDS Integers, FiniteSets

CONSTANTS
  Jobs,      \* the files, trees or items
  Workers    \* threads of the pool

ASSUME JobsAssumption == IsFiniteSet(Jobs)

VARIABLES
  fileq,       \* batches of jobs nobody has taken
  canceled,    \* TypecheckEpochManager::wasTypecheckingCanceled
  threadPC,    \* where each worker is
  job,         \* the batch it works on
  processed,   \* jobs taken since its last push (processedByThread is their number)
  threadResult, \* results it has not pushed
  resultq,     \* elements in the result queue
  leftToPush,  \* resultq->elementsLeftToPush
  counted,     \* the jobs that have been subtracted from it (history)
  consumer,    \* where the caller is
  shouldRetry, \* DequeueResult::shouldRetry of the pop it is in
  received     \* jobs whose results it has

queueVars == <<resultq, leftToPush, counted>>
consumerVars == <<consumer, shouldRetry, received>>
jobsVars == <<fileq, canceled, threadPC, job, processed, threadResult, queueVars, consumerVars>>

\* fileq holds one job per element, batchq what one indexing thread did.
IsPartition(Q) ==
  /\ Q \subseteq SUBSET Jobs /\ UNION Q = Jobs /\ \A b \in Q : b # {}
  /\ \A a, b \in Q : a # b => a \cap b = {}

Element == [jobs : SUBSET Jobs, results : SUBSET Jobs]

(***************************************************************************)
(* Types.  leftToPush is a natural number: the result queue is never told  *)
(* of more jobs than it was made for, which push asserts                   *)
(* (ConcurrentQueue.h:47).                                                 *)
(***************************************************************************)
TypeOK ==
  /\ fileq \subseteq SUBSET Jobs
  /\ canceled \in BOOLEAN
  /\ threadPC \in [Workers -> {"start", "pop", "work", "enqueue", "subtract", "done"}]
  /\ job \in [Workers -> SUBSET Jobs]
  /\ processed \in [Workers -> SUBSET Jobs]
  /\ threadResult \in [Workers -> SUBSET Jobs]
  /\ resultq \subseteq Element
  /\ leftToPush \in Nat /\ counted \subseteq Jobs
  /\ consumer \in {"load", "dequeue", "done"}
  /\ shouldRetry \in BOOLEAN /\ received \subseteq Jobs

JobsInit ==
  /\ fileq \in {Q \in SUBSET SUBSET Jobs : IsPartition(Q)}
  /\ canceled = FALSE
  /\ threadPC = [w \in Workers |-> "start"]
  /\ job = [w \in Workers |-> {}]
  /\ processed = [w \in Workers |-> {}]
  /\ threadResult = [w \in Workers |-> {}]
  /\ resultq = {} /\ leftToPush = Cardinality(Jobs) /\ counted = {}
  /\ consumer = "load" /\ shouldRetry = TRUE /\ received = {}

-----------------------------------------------------------------------------
\* A slow path is canceled while its workers run.
cancel ==
  /\ ~canceled
  /\ canceled' = TRUE
  /\ UNCHANGED <<fileq, threadPC, job, processed, threadResult, queueVars, consumerVars>>

start(w) ==
  /\ threadPC[w] = "start"
  /\ threadPC' = [threadPC EXCEPT ![w] = "pop"]
  /\ UNCHANGED <<fileq, canceled, job, processed, threadResult, queueVars, consumerVars>>

\* All jobs were pushed before the workers were woken: a job, or done.
popJob(w) ==
  /\ threadPC[w] = "pop"
  /\ \E b \in fileq :
       /\ fileq' = fileq \ {b}
       /\ job' = [job EXCEPT ![w] = b]
       /\ processed' = [processed EXCEPT ![w] = @ \cup b]
  /\ threadPC' = [threadPC EXCEPT ![w] = "work"]
  /\ UNCHANGED <<canceled, threadResult, queueVars, consumerVars>>

\* The job is counted whether or not it is done.
skipJob(w) ==
  /\ threadPC[w] = "work" /\ canceled
  /\ threadPC' = [threadPC EXCEPT ![w] = "pop"]
  /\ UNCHANGED <<fileq, canceled, job, processed, threadResult, queueVars, consumerVars>>

\* typecheck pushes after every job, writing the cache after some, the others
\* once at the end.
doJob(w) ==
  /\ threadPC[w] = "work" /\ ~canceled
  /\ threadResult' = [threadResult EXCEPT ![w] = @ \cup job[w]]
  /\ \E place \in {"enqueue", "pop"} : threadPC' = [threadPC EXCEPT ![w] = place]
  /\ UNCHANGED <<fileq, canceled, job, processed, queueVars, consumerVars>>

\* Mutant: the jobs skipped since the last push are not reported.
skippedAreForgotten(w) ==
  /\ threadPC[w] = "pop" /\ fileq = {}
  /\ threadPC' = [threadPC EXCEPT ![w] = IF threadResult[w] # {} THEN "enqueue" ELSE "done"]
  /\ UNCHANGED <<fileq, canceled, job, processed, threadResult, queueVars, consumerVars>>

noMoreJobs(w) ==
  /\ threadPC[w] = "pop" /\ fileq = {}
  /\ threadPC' = [threadPC EXCEPT ![w] = IF processed[w] # {} THEN "enqueue" ELSE "done"]
  /\ UNCHANGED <<fileq, canceled, job, processed, threadResult, queueVars, consumerVars>>

\* push: the element first, then the count.
enqueue(w) ==
  /\ threadPC[w] = "enqueue"
  /\ resultq' = resultq \cup {[jobs |-> processed[w], results |-> threadResult[w]]}
  /\ threadResult' = [threadResult EXCEPT ![w] = {}]
  /\ threadPC' = [threadPC EXCEPT ![w] = "subtract"]
  /\ UNCHANGED <<fileq, canceled, job, processed, leftToPush, counted, consumerVars>>

subtract(w) ==
  /\ threadPC[w] = "subtract"
  /\ leftToPush' = leftToPush - Cardinality(processed[w])
  /\ counted' = counted \cup processed[w]
  /\ processed' = [processed EXCEPT ![w] = {}]
  /\ threadPC' = [threadPC EXCEPT ![w] = "pop"]
  /\ UNCHANGED <<fileq, canceled, job, threadResult, resultq, consumerVars>>

-----------------------------------------------------------------------------
\* wait_pop_timed: the count first, then an element, if there is one in time.
load ==
  /\ consumer = "load"
  /\ shouldRetry' = (leftToPush # 0)
  /\ consumer' = "dequeue"
  /\ UNCHANGED <<fileq, canceled, threadPC, job, processed, threadResult, queueVars, received>>

\* Mutant: the loop ends at the first item after the count reached zero.
lastCountEnds ==
  /\ consumer = "dequeue"
  /\ \E e \in resultq :
       /\ resultq' = resultq \ {e}
       /\ received' = received \cup e.results
  /\ consumer' = IF shouldRetry THEN "load" ELSE "done"
  /\ UNCHANGED <<fileq, canceled, threadPC, job, processed, threadResult, leftToPush, counted,
                 shouldRetry>>

gotItem ==
  /\ consumer = "dequeue"
  /\ \E e \in resultq :
       /\ resultq' = resultq \ {e}
       /\ received' = received \cup e.results
  /\ consumer' = "load"
  /\ UNCHANGED <<fileq, canceled, threadPC, job, processed, threadResult, leftToPush, counted,
                 shouldRetry>>

\* Mutant: a pop that times out counts as the end.
timeoutEnds ==
  /\ consumer = "dequeue" /\ resultq = {}
  /\ consumer' = "done"
  /\ UNCHANGED <<fileq, canceled, threadPC, job, processed, threadResult, queueVars, shouldRetry,
                 received>>

timedOut ==
  /\ consumer = "dequeue" /\ resultq = {}
  /\ consumer' = IF shouldRetry THEN "load" ELSE "done"
  /\ UNCHANGED <<fileq, canceled, threadPC, job, processed, threadResult, queueVars, shouldRetry,
                 received>>

-----------------------------------------------------------------------------
threadStep(w) ==
  start(w) \/ popJob(w) \/ skipJob(w) \/ doJob(w) \/ noMoreJobs(w) \/ enqueue(w) \/ subtract(w)
consumerStep == load \/ gotItem \/ timedOut

JobsNext == cancel \/ consumerStep \/ \E w \in Workers : threadStep(w)

\* The operating system runs every thread.
JobsSpec ==
  /\ JobsInit /\ [][JobsNext]_jobsVars
  /\ WF_jobsVars(consumerStep) /\ \A w \in Workers : WF_jobsVars(threadStep(w))

-----------------------------------------------------------------------------
(***************************************************************************)
(* The caller's loop ends only after the results of every job: none is     *)
(* left in the queue or with a worker.  With no cancellation it has them   *)
(* all (ConcurrentQueue.h:50-81).                                          *)
(***************************************************************************)
EveryResultIsReceived ==
  consumer = "done" => counted = Jobs /\ resultq = {} /\ (canceled \/ received = Jobs)

(***************************************************************************)
(* Once the caller has returned, no worker is inside a job, where it uses  *)
(* the caller's variables by reference, nor about to push: a late worker   *)
(* finds no job (pipeline.cc:1572-1615 and the other closures).            *)
(***************************************************************************)
NoWorkerOutlivesTheCall ==
  consumer = "done" => \A w \in Workers : threadPC[w] \in {"start", "pop", "done"}

(***************************************************************************)
(* The caller's loop ends, canceled or not.                                *)
(***************************************************************************)
CallerReturns == <>(consumer = "done")
=============================================================================
