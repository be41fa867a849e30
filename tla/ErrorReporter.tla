---------------------------- MODULE ErrorReporter ----------------------------
(***************************************************************************)
(* main/lsp/ErrorReporter: which diagnostics the client gets to see.  The  *)
(* reporter is a record: the status of every file (the epoch that last     *)
(* reported it and how many errors it sent), the number of errors it       *)
(* believes the client displays, the epoch of the last full typecheck, and *)
(* what the client in fact displays.                                       *)
(***************************************************************************)
EXTENDS Naturals, Sequences, FiniteSets

\* cap is opts.lspErrorCap; 0 is no limit.
newReporter(Refs, cap) ==
  [lspErrorCap |-> cap,
   status |-> [f \in Refs |-> [lastReportedEpoch |-> 0, errorCount |-> 0]],
   clientErrorCount |-> 0, lastFullTypecheckEpoch |-> 0,
   displayed |-> [f \in Refs |-> 0]]

filesWithErrorsSince(r, epoch) ==
  {f \in DOMAIN r.status : /\ r.status[f].lastReportedEpoch >= epoch
                           /\ r.status[f].errorCount > 0}

\* A full typecheck starts counting again.
beginEpoch(r, epoch, isIncremental) ==
  IF isIncremental THEN r
  ELSE [r EXCEPT !.lastFullTypecheckEpoch = epoch, !.clientErrorCount = 0]

\* Mutant: report, whoever reported last.
reportsAlways(r, epoch, f) == TRUE

wouldReportForFile(r, epoch, f) == r.status[f].lastReportedEpoch <= epoch

\* How many of n errors fit under the cap when count are displayed.
errorsToReport(r, n, count) ==
  IF r.lspErrorCap = 0 THEN n
  ELSE IF r.lspErrorCap <= count THEN 0
  ELSE IF n <= r.lspErrorCap - count THEN n ELSE r.lspErrorCap - count

\* The errors of the last report that the count still includes.
revoked(r, f) ==
  IF r.status[f].lastReportedEpoch >= r.lastFullTypecheckEpoch
    THEN r.status[f].errorCount ELSE 0

\* Mutant: do not revoke the previous report.
neverRevoked(r, epoch, f, n) ==
  IF ~wouldReportForFile(r, epoch, f) THEN r
  ELSE LET k == errorsToReport(r, n, r.clientErrorCount)
       IN  [r EXCEPT !.clientErrorCount = r.clientErrorCount + k,
                     !.status[f] = [lastReportedEpoch |-> epoch, errorCount |-> k],
                     !.displayed[f] = k]

\* Publish the n errors of file f found in epoch.  (The list is not sent when it
\* is empty and so was the last one, which the client cannot tell.)
pushDiagnostics(r, epoch, f, n) ==
  IF ~wouldReportForFile(r, epoch, f) THEN r
  ELSE LET before == r.clientErrorCount - revoked(r, f)
           k == errorsToReport(r, n, before)
       IN  [r EXCEPT !.clientErrorCount = before + k,
                     !.status[f] = [lastReportedEpoch |-> epoch, errorCount |-> k],
                     !.displayed[f] = k]

\* The files of a sequence, one after the other.
pushAll(r, epoch, fs, found) ==
  LET after[i \in 0 .. Len(fs)] ==
        IF i = 0 THEN r ELSE pushDiagnostics(after[i - 1], epoch, fs[i], found[fs[i]])
  IN  after[Len(fs)]

\* The errors of all files, counted: those of file f are 1 .. counts[f].
sumOf(counts) == Cardinality(UNION {{f} \X (1 .. counts[f]) : f \in DOMAIN counts})

\* sanityCheck's assertion: the counted reports add up to clientErrorCount.
countsAddUp(r) ==
  r.clientErrorCount =
    sumOf([f \in DOMAIN r.status |-> revoked(r, f)])
=============================================================================
