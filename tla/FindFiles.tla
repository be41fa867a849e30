------------------------------ MODULE FindFiles ------------------------------
(***************************************************************************)
(* appendFilesInDir: the worker threads walk a directory tree together.    *)
(* Unlike the jobs of WorkerJobs these make more jobs, so no queue knows   *)
(* how many there will be; pendingJobs, a variable of the caller, counts   *)
(* the directories that are queued or being read, and the thread that      *)
(* finishes the last one tells the others to quit.  A directory that       *)
(* cannot be opened makes its thread report an exception and quit, and     *)
(* the caller raises it when every thread has reported.                    *)
(*                                                                         *)
(* Every directory has one file, named like it.                            *)
(***************************************************************************)
EXTENDS Integers, FiniteSets

CONSTANTS
  Dirs, Root,
  SubDirs,  \* directory -> the directories in it
  Walkers   \* max(workers.size(), 1) of them

\* A finite tree, all of it below its root.
ASSUME TreeAssumption ==
  /\ Root \in Dirs /\ SubDirs \in [Dirs -> SUBSET Dirs] /\ IsFiniteSet(Dirs)
  /\ \A S \in SUBSET Dirs : Root \in S /\ (\A d \in S : SubDirs[d] \subseteq S) => S = Dirs
  /\ \A d, e \in Dirs : d # e => SubDirs[d] \cap SubDirs[e] = {}
  /\ IsFiniteSet(Walkers) /\ Walkers # {}

VARIABLES
  unreadable,   \* directories opendir fails on
  jobq,         \* directories in the queue
  quitTokens,   \* QuitTokens in the queue
  pendingJobs,
  walkPC,       \* where each thread is
  dir,          \* the directory it reads
  entries,      \* subdirectories of it that readdir has yet to return
  output,       \* files it has found
  reported,     \* threads that have pushed to resultq
  raised,       \* some thread pushed an exception
  allPaths,     \* the files of the other threads
  returned      \* the caller is gone, and with it the variables the threads share

walkVars == <<unreadable, jobq, quitTokens, pendingJobs, walkPC, dir, entries, output, reported,
              raised, allPaths, returned>>
resultVars == <<reported, raised, allPaths, returned>>

numWorkers == Cardinality(Walkers)

WalkInit ==
  /\ unreadable \in SUBSET Dirs
  /\ jobq = {Root} /\ quitTokens = 0 /\ pendingJobs = 1
  /\ walkPC = [w \in Walkers |-> "pop"]
  /\ dir = [w \in Walkers |-> Root]
  /\ entries = [w \in Walkers |-> {}]
  /\ output = [w \in Walkers |-> {}]
  /\ reported = {} /\ raised = FALSE /\ allPaths = {} /\ returned = FALSE

-----------------------------------------------------------------------------
walkTo(w, place) == walkPC' = [walkPC EXCEPT ![w] = place]

\* The queue has no order between the threads that push.
openDir(w) ==
  /\ walkPC[w] = "pop"
  /\ \E d \in jobq \ unreadable :
       /\ jobq' = jobq \ {d}
       /\ dir' = [dir EXCEPT ![w] = d]
       /\ entries' = [entries EXCEPT ![w] = SubDirs[d]]
       /\ output' = [output EXCEPT ![w] = @ \cup {d}]
  /\ walkTo(w, "read")
  /\ UNCHANGED <<unreadable, quitTokens, pendingJobs, resultVars>>

openFails(w) ==
  /\ walkPC[w] = "pop"
  /\ \E d \in jobq \cap unreadable :
       /\ jobq' = jobq \ {d}
       /\ dir' = [dir EXCEPT ![w] = d]
  /\ walkTo(w, "throw")
  /\ UNCHANGED <<unreadable, quitTokens, pendingJobs, entries, output, resultVars>>

popQuitToken(w) ==
  /\ walkPC[w] = "pop" /\ quitTokens > 0
  /\ quitTokens' = quitTokens - 1
  /\ walkTo(w, "report")
  /\ UNCHANGED <<unreadable, jobq, pendingJobs, dir, entries, output, resultVars>>

\* Mutant: a subdirectory is queued without being counted.
notCounted(w) ==
  /\ walkPC[w] = "read" /\ entries[w] # {}
  /\ walkTo(w, "push")
  /\ UNCHANGED <<unreadable, jobq, quitTokens, pendingJobs, dir, entries, output, resultVars>>

\* A subdirectory: counted first, then queued.
countEntry(w) ==
  /\ walkPC[w] = "read" /\ entries[w] # {}
  /\ pendingJobs' = pendingJobs + 1
  /\ walkTo(w, "push")
  /\ UNCHANGED <<unreadable, jobq, quitTokens, dir, entries, output, resultVars>>

pushEntry(w) ==
  /\ walkPC[w] = "push"
  /\ \E d \in entries[w] :
       /\ jobq' = jobq \cup {d}
       /\ entries' = [entries EXCEPT ![w] = @ \ {d}]
  /\ walkTo(w, "read")
  /\ UNCHANGED <<unreadable, quitTokens, pendingJobs, dir, output, resultVars>>

\* Mutant: an empty queue is taken for the end of the work.
quitWhenQueueIsEmpty(w) ==
  /\ walkPC[w] = "read" /\ entries[w] = {}
  /\ pendingJobs' = pendingJobs - 1
  /\ walkTo(w, IF jobq = {} THEN "quit" ELSE "pop")
  /\ UNCHANGED <<unreadable, jobq, quitTokens, dir, entries, output, resultVars>>

finishDir(w) ==
  /\ walkPC[w] = "read" /\ entries[w] = {}
  /\ pendingJobs' = pendingJobs - 1
  /\ walkTo(w, IF pendingJobs' = 0 THEN "quit" ELSE "pop")
  /\ UNCHANGED <<unreadable, jobq, quitTokens, dir, entries, output, resultVars>>

\* The invariant is maintained, and everybody told.
signalQuit(w) ==
  /\ walkPC[w] = "quit"
  /\ pendingJobs' = pendingJobs + numWorkers
  /\ quitTokens' = quitTokens + numWorkers
  /\ walkTo(w, "report")
  /\ UNCHANGED <<unreadable, jobq, dir, entries, output, resultVars>>

report(w) ==
  /\ walkPC[w] = "report"
  /\ reported' = reported \cup {w} /\ allPaths' = allPaths \cup output[w]
  /\ walkTo(w, "done")
  /\ UNCHANGED <<unreadable, jobq, quitTokens, pendingJobs, dir, entries, output, raised, returned>>

\* Mutant: the thread that failed leaves without telling the others.
leavesAtOnce(w) ==
  /\ walkPC[w] = "throw"
  /\ reported' = reported \cup {w} /\ raised' = TRUE
  /\ walkTo(w, "done")
  /\ UNCHANGED <<unreadable, jobq, quitTokens, pendingJobs, dir, entries, output, allPaths, returned>>

\* The catch block: the exception goes out first, and the files are dropped.
reportException(w) ==
  /\ walkPC[w] = "throw"
  /\ reported' = reported \cup {w} /\ raised' = TRUE
  /\ walkTo(w, "caught")
  /\ UNCHANGED <<unreadable, jobq, quitTokens, pendingJobs, dir, entries, output, allPaths, returned>>

quitAfterException(w) ==
  /\ walkPC[w] = "caught"
  /\ pendingJobs' = pendingJobs + numWorkers
  /\ quitTokens' = quitTokens + numWorkers
  /\ walkTo(w, "done")
  /\ UNCHANGED <<unreadable, jobq, dir, entries, output, resultVars>>

\* The loop of the caller ends when numWorkers elements were pushed.
return ==
  /\ reported = Walkers /\ ~returned
  /\ returned' = TRUE
  /\ UNCHANGED <<unreadable, jobq, quitTokens, pendingJobs, walkPC, dir, entries, output, reported,
                 raised, allPaths>>

-----------------------------------------------------------------------------
walkStep(w) ==
  \/ openDir(w) \/ openFails(w) \/ popQuitToken(w) \/ countEntry(w) \/ pushEntry(w)
  \/ finishDir(w) \/ signalQuit(w) \/ report(w) \/ reportException(w) \/ quitAfterException(w)

WalkNext == return \/ \E w \in Walkers : walkStep(w)

\* The operating system runs every thread.
WalkSpec ==
  /\ WalkInit /\ [][WalkNext]_walkVars
  /\ WF_walkVars(return) /\ \A w \in Walkers : WF_walkVars(walkStep(w))

-----------------------------------------------------------------------------
(***************************************************************************)
(* pendingJobs is at least the number of items in the queue, the quit      *)
(* tokens included, so that whoever brings it to zero knows that nothing   *)
(* is left to do (common.cc:327-333).                                      *)
(***************************************************************************)
PendingCoversTheQueue == pendingJobs >= Cardinality(jobq) + quitTokens

(***************************************************************************)
(* The walk returns every file of the tree, or raises: if no directory     *)
(* fails to open it is complete, and if one does no partial list is passed *)
(* off as the whole (common.cc:338-475).                                   *)
(***************************************************************************)
CompleteOrRaised ==
  returned => IF unreadable = {} THEN allPaths = Dirs /\ ~raised ELSE raised

(***************************************************************************)
(* The caller returns, however many threads fail at the same time.         *)
(***************************************************************************)
WalkReturns == <>returned

(***************************************************************************)
(* "don't raise it until after all the worker threads have finished"       *)
(* (common.cc:464-467): no thread writes to pendingJobs after the caller   *)
(* has returned.  The code pushes its exception first and adds to          *)
(* pendingJobs afterwards, so the last thread to fail does.                *)
(***************************************************************************)
PendingJobsIsThere ==
  returned => \A w \in Walkers : walkPC[w] \notin {"read", "push", "quit", "caught"}
=============================================================================
