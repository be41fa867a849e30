----------------------------- MODULE Diagnostics -----------------------------
(***************************************************************************)
(* LSPWorkspace with the diagnostics that its typechecks send.  On the     *)
(* slow path the workers check one file at a time and the typechecking     *)
(* thread reports the results as they arrive, with preempting edits in     *)
(* between; the fast path checks and reports a few files at once.          *)
(***************************************************************************)
EXTENDS LSPWorkspace, ErrorReporter

CONSTANTS
  Errors(_, _),   \* Errors(f, table): how many errors file f has (the type checker)
  LspErrorCaps    \* values of opts.lspErrorCap

\* The file tables that a type checker can be given.
CheckedTables == [Files -> {Absent} \cup UNION {Content(v) : v \in Epoch}]

\* The type checker finds a number of errors in every file there is.
ASSUME ErrorsAssumption ==
  \A table \in CheckedTables : \A f \in Files :
    table[f] # Absent => Errors(f, table) \in Nat
ASSUME CapsAssumption == LspErrorCaps \subseteq Nat

VARIABLES
  reporter,        \* ErrorReporter, and the client's view
  fileq,           \* files the slow path's workers have not looked at
  outputq,         \* files they checked, with the errors they found
  canceledEpochs   \* slow paths that were canceled (history)

reportVars == <<reporter, fileq, outputq, canceledEpochs>>
allVars == <<vars, reportVars>>

\* The orders in which the files of S can be reported, each once.
ordersOf(S) ==
  {order \in [1 .. Cardinality(S) -> S] :
     \A f \in S : \E i \in 1 .. Cardinality(S) : order[i] = f}

\* The initial typecheck, which is not cancelable, has reported epoch 0.
DInit ==
  /\ Init
  /\ \E order \in ordersOf(presentFiles(InitialFiles)), cap \in LspErrorCaps :
       reporter = pushAll(newReporter(Files, cap), 0, order,
                          [f \in Files |-> Errors(f, InitialFiles)])
  /\ fileq = {} /\ outputq = NoFiles
  /\ canceledEpochs = {}

-----------------------------------------------------------------------------

\* The files of a fast path: those of the update, those that mention a changed
\* symbol, and after a cancellation those with errors since the slow path began
\* that exist without it.
retypechecked(u) ==
  DOMAIN u.files \cup u.extraFiles \cup
    IF u.canceledSlowPath
      THEN {f \in filesWithErrorsSince(reporter, undo.epoch) :
              typecheckerFiles[f] # Absent}
      ELSE {}

\* typecheck on the fast path: begin the epoch, check the files and report them.
reportFastPath(u) ==
  \E order \in ordersOf(retypechecked(u)) :
    reporter' = pushAll(beginEpoch(reporter, u.epoch, TRUE), u.epoch, order,
                        [f \in Files |-> IF f \in retypechecked(u)
                                           THEN Errors(f, typecheckerFiles') ELSE 0])

DRunFastPath ==
  /\ runFastPath
  /\ reportFastPath(update)
  /\ UNCHANGED <<fileq, outputq, canceledEpochs>>

DPreempt ==
  /\ preempt
  /\ reportFastPath(indexedUpdate(Head(queue)))
  /\ UNCHANGED <<fileq, outputq, canceledEpochs>>

DBeginSlowPath ==
  /\ runSlowPath \/ runBulkSlowPath
  /\ reporter' = beginEpoch(reporter, currentlyProcessingLSPEpoch', FALSE)
  /\ UNCHANGED <<fileq, outputq, canceledEpochs>>

\* pipeline::typecheck queues every file.
DResolve ==
  /\ resolve
  /\ fileq' = presentFiles(typecheckerFiles)
  /\ UNCHANGED <<reporter, outputq, canceledEpochs>>

\* A worker checks a file unless that would be in vain.
worthChecking(f) ==
  /\ ~slowPathWasCanceled
  /\ typecheckerFiles[f].version <= slowPathEpoch
  /\ wouldReportForFile(reporter, slowPathEpoch, f)

workerCheck(f) ==
  /\ slowPath = "check"
  /\ f \in fileq
  /\ fileq' = fileq \ {f}
  /\ outputq' = IF worthChecking(f) THEN merged([g \in {f} |-> Errors(g, typecheckerFiles)], outputq)
                                    ELSE outputq
  /\ UNCHANGED <<vars, reporter, canceledEpochs>>

\* The typechecking thread reports a file that a worker has checked.
flushErrorsForFile(f) ==
  /\ slowPath = "check"
  /\ f \in DOMAIN outputq
  /\ reporter' = pushDiagnostics(reporter, slowPathEpoch, f, outputq[f])
  /\ outputq' = [g \in DOMAIN outputq \ {f} |-> outputq[g]]
  /\ UNCHANGED <<vars, fileq, canceledEpochs>>

DTryCommitEpoch ==
  /\ fileq = {} /\ outputq = NoFiles
  /\ tryCommitEpoch
  /\ canceledEpochs' = IF slowPathWasCanceled THEN canceledEpochs \cup {slowPathEpoch}
                                              ELSE canceledEpochs
  /\ UNCHANGED <<reporter, fileq, outputq>>

\* Steps that report nothing.  Edits change one file each: merged edits and the
\* updates of canceled slow paths still have several.
silentStep ==
  /\ \/ decideHead \/ commitEdit \/ tryCancelSlowPath \/ leaveToTypechecker
     \/ endSlowPath
     \/ \E f \in Files : enqueueEdit({f})
  /\ UNCHANGED reportVars

DNext ==
  \/ silentStep
  \/ DRunFastPath \/ DPreempt \/ DBeginSlowPath \/ DResolve \/ DTryCommitEpoch
  \/ \E f \in Files : workerCheck(f) \/ flushErrorsForFile(f)

DSpec == DInit /\ [][DNext]_allVars
-----------------------------------------------------------------------------
\* Nothing is queued or running.
quiet == queue = <<>> /\ task = "await" /\ slowPath = "idle"

displayedIsCurrent(f) ==
  reporter.displayed[f] =
    IF typecheckerFiles[f] = Absent THEN 0 ELSE Errors(f, typecheckerFiles)

\* sanityCheck: the errors of the files reported since the last full typecheck
\* began add up to clientErrorCount, however slow paths and preempting edits
\* interleave their reports.
ErrorCountsAddUp == countsAddUp(reporter)

\* "Retypecheck all of the files that previously had errors" after a cancellation,
\* so that when everything has been typechecked the client displays the errors of
\* the files as they are.
DiagnosticsAreCurrent ==
  quiet /\ reporter.lspErrorCap = 0 => \A f \in Files : displayedIsCurrent(f)


\* What the client displays changes with a report that is no older than the last
\* one, nor than the file.
reportsInOrder ==
  \A f \in Files :
    reporter'.displayed[f] # reporter.displayed[f] =>
      /\ reporter'.status[f].lastReportedEpoch >= reporter.status[f].lastReportedEpoch
      /\ typecheckerFiles'[f].version <= reporter'.status[f].lastReportedEpoch

\* A report of an older epoch never replaces that of a newer edit: a file that an
\* edit checked on the fast path keeps that edit's errors although the slow path
\* it preempted goes on reporting.
ReportsFollowEdits == [][reportsInOrder]_allVars

\* "The number of errors currently displayed in the editor" is clientErrorCount
\* when no typecheck is running.
ErrorCountIsDisplayed ==
  quiet => reporter.clientErrorCount = sumOf(reporter.displayed)
=============================================================================
