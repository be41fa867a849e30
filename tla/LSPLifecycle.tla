---------------------------- MODULE LSPLifecycle ----------------------------
(***************************************************************************)
(* How the threads of the LSP server start, hand messages on and end       *)
(* (LSPLoop::runLSP).  The reader thread and the Watchman thread put       *)
(* messages in the message queue, the preprocessor thread turns them into  *)
(* tasks in the task queue, the processing thread runs the tasks, and the  *)
(* typechecker thread runs the initial typecheck while the task queue is   *)
(* paused.  The end of any one of them has to end all of them.             *)
(*                                                                         *)
(* Merging, preemption and cancellation of tasks are LSPScheduler's        *)
(* subject: a task here is its kind, and running it is one step.           *)
(***************************************************************************)
EXTENDS Sequences, Naturals, FiniteSets

CONSTANTS
  ClientKinds,    \* kinds of messages the client sends after "initialized"
  MaxMessages,    \* bound: messages of the client
  MaxFileChanges, \* bound: lines Watchman sends
  WatchmanKinds   \* what they are: "fileChange", "stateEnter", "stateLeave"

ASSUME KindsAssumption ==
  /\ ClientKinds \subseteq {"request", "pause", "resume", "exit"}
  /\ WatchmanKinds \subseteq {"fileChange", "stateEnter", "stateLeave"}

VARIABLES
  input,        \* what the client wrote and the reader has not read
  inputClosed,  \* the client closed its end of the pipe
  sent,         \* every message the client wrote, in order (history)
  messageQueue, \* MessageQueueState
  taskQueue,    \* TaskQueue
  initialized,  \* LSPConfiguration::initialized
  notified,     \* initializedNotification
  reader, watchman, preprocessor, processing, typechecker, \* program counters
  stopped,      \* WatchmanProcess::stopped
  changes,      \* how many lines Watchman has sent
  watchmanState, \* between a state-enter and a state-leave (history)
  ran           \* tasks the processing thread has run, in order (history)

clientVars == <<input, inputClosed, sent>>
watchmanVars == <<stopped, changes, watchmanState>>
threadVars == <<reader, watchman, preprocessor, processing, typechecker>>
vars == <<clientVars, messageQueue, taskQueue, initialized, notified, threadVars,
          watchmanVars, ran>>

Message == {"initialize", "initialized"} \cup ClientKinds

Init ==
  /\ input = <<>> /\ inputClosed = FALSE /\ sent = <<>>
  /\ messageQueue = [pendingRequests |-> <<>>, terminate |-> FALSE]
  /\ taskQueue = [tasks |-> <<>>, terminated |-> FALSE, paused |-> FALSE]
  /\ initialized = FALSE /\ notified = FALSE
  /\ reader = "reading" /\ watchman \in {"reading", "ended"}
  /\ preprocessor = "await" /\ processing = "await" /\ typechecker = "idle"
  /\ stopped = (watchman = "ended")   \* --disable-watchman
  /\ changes = 0 /\ watchmanState = FALSE /\ ran = <<>>

-----------------------------------------------------------------------------
(***************************************************************************)
(* The client: the handshake first, then any messages, then the end.       *)
(***************************************************************************)
clientWrites ==
  /\ ~inputClosed /\ Len(sent) < MaxMessages
  /\ \E m \in Message :
       /\ IF Len(sent) < 2 THEN m = <<"initialize", "initialized">>[Len(sent) + 1]
                           ELSE m \in ClientKinds
       /\ input' = Append(input, m)
       /\ sent' = Append(sent, m)
  /\ UNCHANGED <<inputClosed, messageQueue, taskQueue, initialized, notified,
                 threadVars, watchmanVars, ran>>

clientCloses ==
  /\ ~inputClosed
  /\ inputClosed' = TRUE
  /\ UNCHANGED <<input, sent, messageQueue, taskQueue, initialized, notified,
                 threadVars, watchmanVars, ran>>

-----------------------------------------------------------------------------
(***************************************************************************)
(* The reader thread: a message, a timeout, or the end of the input.  It   *)
(* looks at the termination flag after every read that did not fail.       *)
(***************************************************************************)
readMessage ==
  /\ reader = "reading" /\ input # <<>>
  /\ messageQueue' = [messageQueue EXCEPT !.pendingRequests = Append(@, Head(input))]
  /\ input' = Tail(input)
  /\ reader' = IF messageQueue.terminate THEN "ended" ELSE "reading"
  /\ UNCHANGED <<inputClosed, sent, taskQueue, initialized, notified, watchman,
                 preprocessor, processing, typechecker, watchmanVars, ran>>

readTimeout ==
  /\ reader = "reading" /\ input = <<>> /\ ~inputClosed
  /\ messageQueue.terminate
  /\ reader' = "ended"
  /\ UNCHANGED <<clientVars, messageQueue, taskQueue, initialized, notified, watchman,
                 preprocessor, processing, typechecker, watchmanVars, ran>>

readEnd ==
  /\ reader = "reading" /\ input = <<>> /\ inputClosed
  /\ reader' = "ended"
  /\ messageQueue' = [messageQueue EXCEPT !.terminate = TRUE]
  /\ UNCHANGED <<clientVars, taskQueue, initialized, notified, watchman, preprocessor,
                 processing, typechecker, watchmanVars, ran>>

-----------------------------------------------------------------------------
(***************************************************************************)
(* The Watchman thread: a line of the subprocess becomes a message once    *)
(* initializedNotification is set; its end terminates the message queue.   *)
(***************************************************************************)
watchmanLine ==
  /\ watchman = "reading" /\ changes < MaxFileChanges
  /\ watchman' \in WatchmanKinds
  /\ changes' = changes + 1
  /\ UNCHANGED <<clientVars, messageQueue, taskQueue, initialized, notified, reader,
                 preprocessor, processing, typechecker, stopped, watchmanState, ran>>

enqueueNotification ==
  /\ watchman \in WatchmanKinds
  /\ notified
  /\ messageQueue' = [messageQueue EXCEPT !.pendingRequests = Append(@, watchman)]
  /\ watchman' = "reading"
  /\ UNCHANGED <<clientVars, taskQueue, initialized, notified, reader, preprocessor,
                 processing, typechecker, watchmanVars, ran>>

\* exitWithCode(1, ...): the subprocess ended or could not be started.
watchmanFails ==
  /\ watchman = "reading" /\ ~stopped
  /\ stopped' = TRUE /\ watchman' = "failed"
  /\ messageQueue' = [messageQueue EXCEPT !.terminate = TRUE]
  /\ UNCHANGED <<clientVars, taskQueue, initialized, notified, reader, preprocessor,
                 processing, typechecker, changes, watchmanState, ran>>

\* The loop ends after the destructor's exitWithCode(0, "").
watchmanStops ==
  /\ watchman = "reading" /\ stopped
  /\ watchman' = "ended"
  /\ UNCHANGED <<clientVars, messageQueue, taskQueue, initialized, notified, reader,
                 preprocessor, processing, typechecker, watchmanVars, ran>>

-----------------------------------------------------------------------------
(***************************************************************************)
(* The preprocessor thread.  Its two destructors terminate both queues.    *)
(***************************************************************************)
preprocessorEnds ==
  /\ preprocessor' = "ended"
  /\ taskQueue' = [taskQueue EXCEPT !.terminated = TRUE]
  /\ messageQueue' = [messageQueue EXCEPT !.terminate = TRUE]
  /\ UNCHANGED <<clientVars, initialized, notified, reader, watchman, processing,
                 typechecker, watchmanVars, ran>>

\* Mutant: the termination flag is looked at before the queue.
notDrained ==
  /\ preprocessor = "await"
  /\ messageQueue.terminate
  /\ preprocessorEnds

\* Only terminate once the incoming queue is drained.
noMoreMessages ==
  /\ preprocessor = "await"
  /\ messageQueue.terminate /\ messageQueue.pendingRequests = <<>>
  /\ preprocessorEnds

popMessage ==
  /\ preprocessor = "await" /\ messageQueue.pendingRequests # <<>>
  /\ preprocessor' = Head(messageQueue.pendingRequests)
  /\ messageQueue' = [messageQueue EXCEPT !.pendingRequests = Tail(@)]
  /\ UNCHANGED <<clientVars, taskQueue, initialized, notified, reader, watchman,
                 processing, typechecker, watchmanVars, ran>>

ensureInitialized(m) == initialized \/ m \in {"initialize", "initialized", "exit"}

\* What preprocessing the message does to the task queue.
preprocessed(m) ==
  CASE ~ensureInitialized(m) -> taskQueue
    [] m = "pause" -> [taskQueue EXCEPT !.paused = TRUE]
    [] m = "resume" -> [taskQueue EXCEPT !.paused = FALSE]
    [] m = "exit" -> [taskQueue EXCEPT !.terminated = TRUE]
    [] m \in {"stateEnter", "stateLeave"} -> taskQueue
    [] OTHER -> [taskQueue EXCEPT !.tasks = Append(@, m)]

preprocessAndEnqueue ==
  /\ preprocessor \in Message \cup WatchmanKinds
  /\ taskQueue' = preprocessed(preprocessor)
  /\ initialized' = (initialized \/ preprocessor = "initialized")
  /\ watchmanState' = CASE preprocessor = "stateEnter" -> TRUE
                        [] preprocessor = "stateLeave" -> FALSE
                        [] OTHER -> watchmanState
  /\ preprocessor' = "enqueued"
  /\ UNCHANGED <<clientVars, messageQueue, notified, reader, watchman, processing,
                 typechecker, stopped, changes, ran>>

\* After every message: an exit notification ends the thread.
afterExit ==
  /\ preprocessor = "enqueued" /\ taskQueue.terminated
  /\ preprocessorEnds

afterMessage ==
  /\ preprocessor = "enqueued" /\ ~taskQueue.terminated
  /\ preprocessor' = "await"
  /\ UNCHANGED <<clientVars, messageQueue, taskQueue, initialized, notified, reader,
                 watchman, processing, typechecker, watchmanVars, ran>>

-----------------------------------------------------------------------------
(***************************************************************************)
(* The processing thread and the initial typecheck.                        *)
(***************************************************************************)
ready == taskQueue.terminated \/ (~taskQueue.paused /\ taskQueue.tasks # <<>>)

\* A task other than InitializedTask, which is run to its end.
runTask ==
  /\ processing = "await" /\ ready
  /\ taskQueue.tasks # <<>> /\ Head(taskQueue.tasks) # "initialized"
  /\ taskQueue' = [taskQueue EXCEPT !.tasks = Tail(@)]
  /\ ran' = Append(ran, Head(taskQueue.tasks))
  /\ processing' = "ranTask"
  /\ UNCHANGED <<clientVars, messageQueue, initialized, notified, reader, watchman,
                 preprocessor, typechecker, watchmanVars>>

\* InitializedTask::index pauses the queue; its run is left to the typechecker.
indexInitialized ==
  /\ processing = "await" /\ ready
  /\ taskQueue.tasks # <<>> /\ Head(taskQueue.tasks) = "initialized"
  /\ taskQueue' = [taskQueue EXCEPT !.tasks = Tail(@), !.paused = TRUE]
  /\ ran' = Append(ran, "initialized")
  /\ processing' = "initializing" /\ typechecker' = "initializing"
  /\ UNCHANGED <<clientVars, messageQueue, initialized, notified, reader, watchman,
                 preprocessor, watchmanVars>>

\* Mutant: the indexer's initialization waits behind the tasks that came in.
initializationLast ==
  /\ typechecker = "initializing"
  /\ taskQueue' = [taskQueue EXCEPT !.tasks = Append(@, "indexerInitialization")]
  /\ typechecker' = "initialized"
  /\ UNCHANGED <<clientVars, messageQueue, initialized, notified, reader, watchman,
                 preprocessor, processing, watchmanVars, ran>>

\* LSPTypechecker::initialize, after its slow path.
initialize ==
  /\ typechecker = "initializing"
  /\ taskQueue' = [taskQueue EXCEPT !.tasks = <<"indexerInitialization">> \o @]
  /\ typechecker' = "initialized"
  /\ UNCHANGED <<clientVars, messageQueue, initialized, notified, reader, watchman,
                 preprocessor, processing, watchmanVars, ran>>

resumeTaskQueue ==
  /\ typechecker = "initialized"
  /\ taskQueue' = [taskQueue EXCEPT !.paused = FALSE]
  /\ typechecker' = "idle" /\ processing' = "ranTask"
  /\ UNCHANGED <<clientVars, messageQueue, initialized, notified, reader, watchman,
                 preprocessor, watchmanVars, ran>>

notifyInitialized ==
  /\ processing = "ranTask"
  /\ notified' = (notified \/ initialized)
  /\ processing' = "await"
  /\ UNCHANGED <<clientVars, messageQueue, taskQueue, initialized, reader, watchman,
                 preprocessor, typechecker, watchmanVars, ran>>

\* Mutant: the Watchman thread is left waiting for the initialization.
watchmanStaysStuck ==
  /\ processing = "await" /\ ready
  /\ taskQueue.terminated /\ taskQueue.tasks = <<>>
  /\ processing' = "shutdown"
  /\ messageQueue' = [messageQueue EXCEPT !.terminate = TRUE]
  /\ UNCHANGED <<clientVars, taskQueue, initialized, notified, reader, watchman,
                 preprocessor, typechecker, watchmanVars, ran>>

\* Normal termination: wait until all pending requests finish.
processorEnds ==
  /\ processing = "await" /\ ready
  /\ taskQueue.terminated /\ taskQueue.tasks = <<>>
  /\ processing' = "shutdown"
  /\ notified' = TRUE
  /\ messageQueue' = [messageQueue EXCEPT !.terminate = TRUE]
  /\ UNCHANGED <<clientVars, taskQueue, initialized, reader, watchman, preprocessor,
                 typechecker, watchmanVars, ran>>

shutdown ==
  /\ processing = "shutdown"
  /\ processing' = "join" /\ typechecker' = "ended"
  /\ UNCHANGED <<clientVars, messageQueue, taskQueue, initialized, notified, reader,
                 watchman, preprocessor, watchmanVars, ran>>

\* The threads are joined in the order opposite to the one they were started in.
stopWatchman ==
  /\ processing = "join" /\ preprocessor = "ended" /\ reader = "ended" /\ ~stopped
  /\ stopped' = TRUE
  /\ messageQueue' = [messageQueue EXCEPT !.terminate = TRUE]
  /\ UNCHANGED <<clientVars, taskQueue, initialized, notified, threadVars, changes,
                 watchmanState, ran>>

runLSPReturns ==
  /\ processing = "join" /\ preprocessor = "ended" /\ reader = "ended"
  /\ stopped /\ watchman \in {"failed", "ended"}
  /\ processing' = "ended"
  /\ UNCHANGED <<clientVars, messageQueue, taskQueue, initialized, notified, reader,
                 watchman, preprocessor, typechecker, watchmanVars, ran>>

-----------------------------------------------------------------------------
environmentStep == clientWrites \/ clientCloses \/ watchmanLine \/ watchmanFails
readerStep == readMessage \/ readTimeout \/ readEnd
watchmanStep == enqueueNotification \/ watchmanStops
preprocessorStep ==
  noMoreMessages \/ popMessage \/ preprocessAndEnqueue \/ afterExit \/ afterMessage
processingStep ==
  \/ runTask \/ indexInitialized \/ notifyInitialized
  \/ processorEnds \/ shutdown \/ stopWatchman \/ runLSPReturns
typecheckerStep == initialize \/ resumeTaskQueue

Next ==
  \/ environmentStep \/ readerStep \/ watchmanStep
  \/ preprocessorStep \/ processingStep \/ typecheckerStep

\* Each thread runs on; nothing is assumed of the client or of Watchman.
Spec ==
  /\ Init /\ [][Next]_vars
  /\ WF_vars(readerStep) /\ WF_vars(watchmanStep) /\ WF_vars(preprocessorStep)
  /\ WF_vars(processingStep) /\ WF_vars(typecheckerStep)

-----------------------------------------------------------------------------
occursIn(x, s) == \E i \in 1 .. Len(s) : s[i] = x
\* SelectSeq, as a function that proofs can unfold.
selected(s, kinds) ==
  LET first[n \in 0 .. Len(s)] ==
        IF n = 0 THEN <<>>
        ELSE IF s[n] \in kinds THEN Append(first[n - 1], s[n]) ELSE first[n - 1]
  IN  first[Len(s)]
tasksOfClient(s) == selected(s, {"initialize", "initialized", "request"})
beforeExit(s) ==
  SubSeq(s, 1, CHOOSE n \in 0 .. Len(s) :
                 /\ ~occursIn("exit", SubSeq(s, 1, n))
                 /\ n = Len(s) \/ s[n + 1] = "exit")

(***************************************************************************)
(* Once the client closes its input or sends an exit notification, or      *)
(* Watchman dies, every thread of the server ends, whatever it was waiting *)
(* for (LSPLoop.cc:264-268, MessageQueueState::NotifyOnDestruction).       *)
(***************************************************************************)
EveryThreadEnds ==
  (inputClosed \/ occursIn("exit", sent) \/ watchman = "failed")
    ~> /\ reader = "ended" /\ preprocessor = "ended" /\ processing = "ended"
       /\ typechecker = "ended" /\ watchman \in {"failed", "ended"}

(***************************************************************************)
(* No request is lost or reordered when the server ends: unless Watchman   *)
(* died, all that the client sent before its exit notification, or before  *)
(* closing its input, has been run by the time runLSP returns              *)
(* (LSPPreprocessor.cc:404, LSPLoop.cc:281-283).                           *)
(***************************************************************************)
PendingRequestsFinish ==
  LET expected == tasksOfClient(beforeExit(sent))
      served == tasksOfClient(ran)
  IN  /\ served = SubSeq(expected, 1, Len(served))
      /\ processing = "ended" /\ watchman # "failed" => served = expected

(***************************************************************************)
(* The indexer has its file table before it indexes anything that came in  *)
(* during the initial typecheck (LSPTypechecker.cc:104-106).               *)
(***************************************************************************)
IndexerIsInitializedFirst ==
  \A i \in 1 .. Len(ran) - 1 : ran[i] = "initialized" => ran[i + 1] = "indexerInitialization"

(***************************************************************************)
(* What the processing thread asserts when it wakes up (LSPLoop.cc:275).   *)
(***************************************************************************)
NotPausedWhenReady == processing = "await" /\ ready => ~taskQueue.paused

(***************************************************************************)
(* The Watchman thread enqueues no change of a file until after            *)
(* initialization (LSPLoop.cc:198-199).                                    *)
(***************************************************************************)
WatchmanWaitsForInitialization ==
  occursIn("fileChange", messageQueue.pendingRequests) =>
    occursIn("initialized", ran) \/ processing \in {"shutdown", "join", "ended"}

(***************************************************************************)
(* Processing is halted from a Watchman state-enter to its state-leave     *)
(* (options.cc:544).                                                       *)
(***************************************************************************)
WatchmanStateHaltsProcessing == [][watchmanState => ran' = ran]_vars
=============================================================================
