-------------------------- MODULE Diagnostics_proofs --------------------------
(***************************************************************************)
(* The error counts and the order of the reports in Diagnostics, for any   *)
(* files, edits, type errors and error caps, and any interleaving of the   *)
(* slow path's workers, its reports and the edits that preempt or cancel   *)
(* it.                                                                     *)
(***************************************************************************)
EXTENDS Diagnostics, LSPWorkspace_proofs, FiniteSetTheorems, WellFoundedInduction,
        NaturalsInduction

(***************************************************************************)
(* The sum of the errors of all files.                                     *)
(***************************************************************************)

\* The errors of one file.
errorsOf(c, f) == {f} \X (1 .. c[f])

\* There are as many as were counted.
LEMMA ErrorsOfFile ==
  ASSUME NEW c, NEW f, c[f] \in Nat
  PROVE  IsFiniteSet(errorsOf(c, f)) /\ Cardinality(errorsOf(c, f)) = c[f]
<1>1. IsFiniteSet(1 .. c[f]) /\ Cardinality(1 .. c[f]) = c[f]
  BY FS_Interval, SMTT(20)
<1>2. IsFiniteSet({f}) /\ Cardinality({f}) = 1
  BY FS_Singleton, Zenon
<1>3. /\ IsFiniteSet({f} \X (1 .. c[f]))
      /\ Cardinality({f} \X (1 .. c[f])) = Cardinality({f}) * Cardinality(1 .. c[f])
  BY <1>1, <1>2, FS_Product, Zenon
<1> QED
  BY <1>1, <1>2, <1>3 DEF errorsOf

\* The errors of finitely many files are finitely many.
LEMMA ErrorsAreFinite ==
  ASSUME NEW S, IsFiniteSet(S), NEW c, \A f \in S : c[f] \in Nat
  PROVE  IsFiniteSet(UNION {errorsOf(c, f) : f \in S})
<1> DEFINE T == {errorsOf(c, f) : f \in S}
           g == [f \in S |-> errorsOf(c, f)]
<1>1. g \in Surjection(S, T)
  BY DEF Surjection
<1>2. IsFiniteSet(T)
  BY <1>1, FS_Surjection, Zenon
<1>3. \A t \in T : IsFiniteSet(t)
  BY ErrorsOfFile, Zenon
<1> HIDE DEF T
<1>4. IsFiniteSet(UNION T)
  BY <1>2, <1>3, FS_UNION, Zenon
<1> QED
  BY <1>4, Zenon DEF T

\* The sum is that of one file and of the others.
LEMMA SumSplits ==
  ASSUME NEW S, IsFiniteSet(S), NEW c, DOMAIN c = S, \A g \in S : c[g] \in Nat, NEW f \in S
  PROVE  /\ sumOf(c) = Cardinality(UNION {errorsOf(c, g) : g \in S \ {f}}) + c[f]
         /\ Cardinality(UNION {errorsOf(c, g) : g \in S \ {f}}) \in Nat
<1> DEFINE U == UNION {errorsOf(c, g) : g \in S \ {f}}
           E == errorsOf(c, f)
<1>1. IsFiniteSet(S \ {f})
  BY FS_Subset
<1>2. IsFiniteSet(U)
  BY <1>1, ErrorsAreFinite
<1>3. IsFiniteSet(E) /\ Cardinality(E) = c[f]
  BY ErrorsOfFile, Zenon
<1>4. UNION {errorsOf(c, g) : g \in S} = U \cup E
  BY Zenon
<1>5. U \cap E = {}
  BY DEF errorsOf
<1>6. sumOf(c) = Cardinality(U \cup E)
  BY <1>4, Zenon DEF sumOf, errorsOf
<1> HIDE DEF U, E
<1>7. Cardinality(U \cup E) = Cardinality(U) + Cardinality(E) - Cardinality(U \cap E)
  BY <1>2, <1>3, FS_Union, Zenon
<1>8. Cardinality(U) \in Nat /\ Cardinality(U \cap E) = 0
  BY <1>2, <1>5, FS_CardinalityType, FS_EmptySet, Zenon
<1> QED
  BY <1>3, <1>6, <1>7, <1>8 DEF U

\* Another number of errors for one file.
LEMMA SumChanges ==
  ASSUME NEW S, IsFiniteSet(S), NEW c \in [S -> Nat], NEW d \in [S -> Nat], NEW f \in S,
         \A g \in S : g # f => c[g] = d[g]
  PROVE  sumOf(c) \in Nat /\ c[f] <= sumOf(c) /\ sumOf(d) = sumOf(c) - c[f] + d[f]
<1> DEFINE U == Cardinality(UNION {errorsOf(c, g) : g \in S \ {f}})
           V == Cardinality(UNION {errorsOf(d, g) : g \in S \ {f}})
<1>1. {errorsOf(c, g) : g \in S \ {f}} = {errorsOf(d, g) : g \in S \ {f}}
  BY DEF errorsOf
<1>2. U = V
  BY <1>1, Zenon
<1>3. sumOf(c) = U + c[f] /\ U \in Nat
  BY SumSplits
<1>4. sumOf(d) = V + d[f]
  BY SumSplits
<1> HIDE DEF U, V
<1> QED
  BY <1>2, <1>3, <1>4

\* No errors at all.
LEMMA SumOfZeros ==
  ASSUME NEW c, \A f \in DOMAIN c : c[f] = 0
  PROVE  sumOf(c) = 0
<1>1. \A f \in DOMAIN c : {f} \X (1 .. c[f]) = {}
  OBVIOUS
<1>2. UNION {{f} \X (1 .. c[f]) : f \in DOMAIN c} = {}
  BY <1>1, Zenon
<1> QED
  BY <1>2, FS_EmptySet, Zenon DEF sumOf

(***************************************************************************)
(* Reports.                                                                *)
(***************************************************************************)

Status == [lastReportedEpoch : Nat, errorCount : Nat]
Reporters(S) ==
  [lspErrorCap : Nat, status : [S -> Status], clientErrorCount : Nat,
   lastFullTypecheckEpoch : Nat, displayed : [S -> Nat]]

\* From reporter r to x, reports of epoch e were sent for the files of R.
sentReports(r, x, e, R) ==
  /\ x.lastFullTypecheckEpoch = r.lastFullTypecheckEpoch
  /\ \A f \in DOMAIN r.status :
       /\ \/ x.status[f] = r.status[f] /\ x.displayed[f] = r.displayed[f]
          \/ f \in R /\ x.status[f].lastReportedEpoch = e /\ r.status[f].lastReportedEpoch <= e
       /\ f \in R /\ r.status[f].lastReportedEpoch <= e => x.status[f].lastReportedEpoch = e

\* The errors counted for a file.
LEMMA RevokedType ==
  ASSUME NEW S, NEW r \in Reporters(S), NEW f \in S
  PROVE  revoked(r, f) \in Nat /\ r.status[f] \in Status
BY DEF Reporters, Status, revoked

\* No more errors are sent than there are.
LEMMA ErrorsToReportType ==
  ASSUME NEW S, NEW r \in Reporters(S), NEW n \in Nat, NEW count \in Nat
  PROVE  errorsToReport(r, n, count) \in Nat
BY DEF Reporters, errorsToReport

\* One report.
LEMMA PushOne ==
  ASSUME NEW S, IsFiniteSet(S), NEW r \in Reporters(S), countsAddUp(r),
         NEW e \in Nat, r.lastFullTypecheckEpoch <= e, NEW f \in S, NEW n \in Nat
  PROVE  /\ pushDiagnostics(r, e, f, n) \in Reporters(S)
         /\ countsAddUp(pushDiagnostics(r, e, f, n))
         /\ sentReports(r, pushDiagnostics(r, e, f, n), e, {f})
<1>0. /\ r.status \in [S -> Status] /\ r.displayed \in [S -> Nat] /\ r.clientErrorCount \in Nat
      /\ r.lastFullTypecheckEpoch \in Nat /\ r.lspErrorCap \in Nat
  BY Zenon DEF Reporters
<1>1. \A g \in S : r.status[g] \in Status /\ r.status[g].lastReportedEpoch \in Nat
                   /\ r.status[g].errorCount \in Nat
  BY <1>0, Zenon DEF Status
<1>2. CASE ~wouldReportForFile(r, e, f)
  <2>1. pushDiagnostics(r, e, f, n) = r
    BY <1>2, Zenon DEF pushDiagnostics
  <2>2. ~(r.status[f].lastReportedEpoch <= e)
    BY <1>2, Zenon DEF wouldReportForFile
  <2>3. sentReports(r, r, e, {f})
    BY <2>2, Zenon DEF sentReports
  <2> QED
    BY <2>1, <2>3, Zenon
<1>3. CASE wouldReportForFile(r, e, f)
  <2> DEFINE before == r.clientErrorCount - revoked(r, f)
             k == errorsToReport(r, n, before)
             x == pushDiagnostics(r, e, f, n)
             c == [g \in S |-> revoked(r, g)]
             d == [g \in S |-> revoked(x, g)]
  <2>1. c \in [S -> Nat] /\ c[f] = revoked(r, f) /\ revoked(r, f) \in Nat
    BY RevokedType, Zenon
  <2>2. r.clientErrorCount = sumOf(c)
    BY <1>0, Zenon DEF countsAddUp
  <2> HIDE DEF c
  <2>3. sumOf(c) \in Nat /\ c[f] <= sumOf(c)
    BY <2>1, SumChanges, Zenon
  <2>4. before \in Nat
    BY <2>1, <2>2, <2>3
  <2>5. k \in Nat
    BY <2>4, ErrorsToReportType, Zenon
  <2>6. x = [r EXCEPT !.clientErrorCount = before + k,
                      !.status[f] = [lastReportedEpoch |-> e, errorCount |-> k],
                      !.displayed[f] = k]
    BY <1>3, Zenon DEF pushDiagnostics
  <2> HIDE DEF k, before, x
  <2>7. /\ x.clientErrorCount = before + k
        /\ x.status = [r.status EXCEPT ![f] = [lastReportedEpoch |-> e, errorCount |-> k]]
        /\ x.displayed = [r.displayed EXCEPT ![f] = k]
        /\ x.lastFullTypecheckEpoch = r.lastFullTypecheckEpoch
    BY <1>0, <2>6 DEF Reporters
  <2>8. x \in Reporters(S)
    <3> DEFINE new == [lastReportedEpoch |-> e, errorCount |-> k]
    <3>1. new \in Status /\ before + k \in Nat
      BY <2>4, <2>5 DEF Status
    <3> HIDE DEF new
    <3>2. [r.status EXCEPT ![f] = new] \in [S -> Status] /\ [r.displayed EXCEPT ![f] = k] \in [S -> Nat]
      BY <1>0, <2>5, <3>1, Zenon
    <3>3. x = [r EXCEPT !.clientErrorCount = before + k,
                        !.status = [r.status EXCEPT ![f] = new],
                        !.displayed = [r.displayed EXCEPT ![f] = k]]
      BY <2>6 DEF new, Reporters
    <3> QED
      BY <3>1, <3>2, <3>3, Zenon DEF Reporters
  <2>9. /\ DOMAIN x.status = S
        /\ x.status[f] = [lastReportedEpoch |-> e, errorCount |-> k]
        /\ x.displayed[f] = k
        /\ \A g \in S : g # f => x.status[g] = r.status[g] /\ x.displayed[g] = r.displayed[g]
    BY <1>0, <2>7, Zenon
  <2>10. x.status[f].lastReportedEpoch = e /\ x.status[f].errorCount = k
    BY <2>9
  <2>11. d \in [S -> Nat] /\ \A g \in S : d[g] = revoked(x, g)
    BY <2>8, RevokedType, Zenon
  <2>12. revoked(x, f) = k
    BY <2>7, <2>10, Zenon DEF revoked
  <2>13. ASSUME NEW g \in S, g # f PROVE revoked(x, g) = revoked(r, g)
    BY <2>7, <2>9, <2>13, Zenon DEF revoked
  <2> HIDE DEF d
  <2>14. \A g \in S : g # f => c[g] = d[g]
    BY <2>11, <2>13, Zenon DEF c
  <2>15. sumOf(d) = sumOf(c) - c[f] + d[f]
    BY <2>1, <2>11, <2>14, SumChanges, SMTT(20)
  <2>16. x.clientErrorCount = sumOf(d)
    BY <2>1, <2>2, <2>3, <2>5, <2>7, <2>11, <2>12, <2>15, SMTT(20) DEF before
  <2>17. countsAddUp(x)
    BY <2>9, <2>16, Zenon DEF countsAddUp, d
  <2>18. sentReports(r, x, e, {f})
    BY <1>0, <1>3, <2>7, <2>9, <2>10, Zenon DEF sentReports, wouldReportForFile
  <2> QED
    BY <2>8, <2>17, <2>18, Zenon DEF x
<1> QED
  BY <1>2, <1>3, Zenon

\* Induction over the natural numbers, for a set.
LEMMA NatSetInduction ==
  ASSUME NEW S \in SUBSET Nat, 0 \in S, \A n \in S : n + 1 \in S
  PROVE  S = Nat
<1> DEFINE T == Nat \ S
<1> SUFFICES ASSUME T # {} PROVE FALSE
  BY Zenon
<1>1. IsWellFoundedOn(OpToRel(<, Nat), Nat)
  BY NatLessThanWellFounded, Zenon
<1>2. PICK x \in T : \A y \in T : ~(<<y, x>> \in OpToRel(<, Nat))
  BY <1>1, WFMin, Zenon
<1>3. x \in Nat /\ x # 0 /\ x - 1 \in Nat /\ x - 1 < x /\ x - 1 + 1 = x
  OBVIOUS
<1>4. x - 1 \notin T
  BY <1>2, <1>3, Zenon DEF OpToRel
<1> QED
  BY <1>3, <1>4, Zenon

\* The reporters after each of the reports.
isRun(t, n, r, e, fs, found) ==
  \A i \in 0 .. n :
    t[i] = IF i = 0 THEN r ELSE pushDiagnostics(t[i - 1], e, fs[i], found[fs[i]])

\* pushAll reports one file after the other.
LEMMA PushAllUnfolds ==
  ASSUME NEW r, NEW e, NEW fs, NEW found, Len(fs) \in Nat
  PROVE  \E t : pushAll(r, e, fs, found) = t[Len(fs)] /\ isRun(t, Len(fs), r, e, fs, found)
<1> DEFINE value(t, i) == IF i = 0 THEN r ELSE pushDiagnostics(t[i - 1], e, fs[i], found[fs[i]])
           Known == {m \in Nat : \E t : \A i \in 0 .. m : t[i] = value(t, i)}
<1>1. 0 \in Known
  <2> DEFINE t == [i \in {0} |-> r]
  <2>1. \A i \in 0 .. 0 : i = 0 /\ t[i] = r
    OBVIOUS
  <2> HIDE DEF t
  <2> QED
    BY <2>1, Zenon
<1>2. ASSUME NEW m \in Known PROVE m + 1 \in Known
  <2>1. PICK t : \A i \in 0 .. m : t[i] = value(t, i)
    BY Zenon
  <2> DEFINE g == [i \in 0 .. m + 1 |-> IF i = m + 1 THEN value(t, m + 1) ELSE t[i]]
  <2>2. /\ g[m + 1] = value(t, m + 1)
        /\ \A i \in 0 .. m : g[i] = t[i]
    <3> HIDE DEF value
    <3> QED
      OBVIOUS
  <2> HIDE DEF g
  <2>3. ASSUME NEW i \in 0 .. m + 1 PROVE value(g, i) = value(t, i)
    <3>1. i # 0 => i - 1 \in 0 .. m
      OBVIOUS
    <3> QED
      BY <2>2, <3>1, Zenon
  <2>4. \A i \in 0 .. m + 1 : g[i] = value(g, i)
    <3> HIDE DEF value
    <3>1. \A i \in 0 .. m + 1 : i = m + 1 \/ i \in 0 .. m
      OBVIOUS
    <3> QED
      BY <2>1, <2>2, <2>3, <3>1, Zenon
  <2> HIDE DEF value
  <2> QED
    BY <2>4
<1>3. Len(fs) \in Known
  <2> HIDE DEF Known
  <2>1. Known \in SUBSET Nat
    BY Zenon DEF Known
  <2>2. Known = Nat
    BY <1>1, <1>2, <2>1, NatSetInduction, Zenon
  <2> QED
    BY <2>2
<1>4. PICK t : \A i \in 0 .. Len(fs) : t[i] = value(t, i)
  BY <1>3, Zenon
<1> DEFINE good(u) == u = [i \in 0 .. Len(fs) |-> value(u, i)]
           after == CHOOSE u : good(u)
           h == [i \in 0 .. Len(fs) |-> t[i]]
<1>5. good(h)
  <2>1. \A i \in 0 .. Len(fs) : h[i] = t[i]
    BY Zenon
  <2>2. ASSUME NEW i \in 0 .. Len(fs) PROVE t[i] = value(h, i)
    <3>1. i # 0 => i - 1 \in 0 .. Len(fs)
      OBVIOUS
    <3> HIDE DEF h
    <3> QED
      BY <1>4, <2>1, <3>1, Zenon
  <2> HIDE DEF value
  <2> QED
    BY <2>2, Zenon
<1>6. pushAll(r, e, fs, found) = after[Len(fs)]
  BY Zenon DEF pushAll
<1> HIDE DEF good, h
<1>7. good(after)
  BY <1>5, Zenon
<1> HIDE DEF after
<1>8. \A i \in 0 .. Len(fs) : after[i] = value(after, i)
  BY <1>7, Zenon DEF good
<1>9. isRun(after, Len(fs), r, e, fs, found)
  BY <1>8, Zenon DEF isRun
<1> HIDE DEF value
<1> QED
  BY <1>6, <1>9, Zenon

\* Two batches of reports of the same epoch.
LEMMA ReportsCompose ==
  ASSUME NEW S, NEW r \in Reporters(S), NEW x \in Reporters(S), NEW y \in Reporters(S),
         NEW e \in Nat, NEW P, NEW f, sentReports(r, x, e, P), sentReports(x, y, e, {f})
  PROVE  sentReports(r, y, e, P \cup {f})
<1>1. DOMAIN r.status = S /\ DOMAIN x.status = S
  BY DEF Reporters
<1>2. y.lastFullTypecheckEpoch = r.lastFullTypecheckEpoch
  BY Zenon DEF sentReports
<1>3. ASSUME NEW g \in S
      PROVE  /\ \/ y.status[g] = r.status[g] /\ y.displayed[g] = r.displayed[g]
                \/ g \in P \cup {f} /\ y.status[g].lastReportedEpoch = e /\ r.status[g].lastReportedEpoch <= e
             /\ g \in P \cup {f} /\ r.status[g].lastReportedEpoch <= e => y.status[g].lastReportedEpoch = e
  <2>1. /\ \/ x.status[g] = r.status[g] /\ x.displayed[g] = r.displayed[g]
           \/ g \in P /\ x.status[g].lastReportedEpoch = e /\ r.status[g].lastReportedEpoch <= e
        /\ g \in P /\ r.status[g].lastReportedEpoch <= e => x.status[g].lastReportedEpoch = e
    BY <1>1, Zenon DEF sentReports
  <2>2. /\ \/ y.status[g] = x.status[g] /\ y.displayed[g] = x.displayed[g]
           \/ g \in {f} /\ y.status[g].lastReportedEpoch = e /\ x.status[g].lastReportedEpoch <= e
        /\ g \in {f} /\ x.status[g].lastReportedEpoch <= e => y.status[g].lastReportedEpoch = e
    BY <1>1, Zenon DEF sentReports
  <2>3. e <= e
    OBVIOUS
  <2> QED
    BY <2>1, <2>2, <2>3, Zenon
<1> QED
  BY <1>1, <1>2, <1>3, Zenon DEF sentReports

\* A batch of reports, in any order.
LEMMA PushAllReports ==
  ASSUME NEW S, IsFiniteSet(S), NEW r \in Reporters(S), countsAddUp(r),
         NEW e \in Nat, r.lastFullTypecheckEpoch <= e,
         NEW N \in Nat, NEW R \in SUBSET S, NEW fs \in [1 .. N -> R],
         \A f \in R : \E i \in 1 .. N : fs[i] = f,
         NEW found, \A f \in R : found[f] \in Nat
  PROVE  /\ pushAll(r, e, fs, found) \in Reporters(S)
         /\ countsAddUp(pushAll(r, e, fs, found))
         /\ sentReports(r, pushAll(r, e, fs, found), e, R)
<1>1. Len(fs) = N /\ Len(fs) \in Nat
  OBVIOUS
<1>0. PICK t : pushAll(r, e, fs, found) = t[Len(fs)] /\ isRun(t, Len(fs), r, e, fs, found)
  BY <1>1, PushAllUnfolds, Zenon
<1>2. /\ pushAll(r, e, fs, found) = t[N]
      /\ \A i \in 0 .. N :
           t[i] = IF i = 0 THEN r ELSE pushDiagnostics(t[i - 1], e, fs[i], found[fs[i]])
  BY <1>0, <1>1, Zenon DEF isRun
<1> DEFINE upTo(i) == {fs[j] : j \in 1 .. i}
           good(i) == t[i] \in Reporters(S) /\ countsAddUp(t[i]) /\ sentReports(r, t[i], e, upTo(i))
           Good == {i \in Nat : i <= N => good(i)}
<1>3. 0 \in Good
  <2>1. 0 \in 0 .. N /\ upTo(0) = {}
    OBVIOUS
  <2>2. t[0] = r
    BY <1>2, <2>1, Zenon
  <2>3. sentReports(r, r, e, {})
    BY Zenon DEF sentReports
  <2>4. good(0)
    BY <2>1, <2>2, <2>3, SMTT(20)
  <2> QED
    BY <2>4
<1>4. ASSUME NEW i \in Good PROVE i + 1 \in Good
  <2>0. i + 1 \in Nat
    OBVIOUS
  <2>1. SUFFICES ASSUME i + 1 <= N PROVE good(i + 1)
    BY <2>0, Zenon
  <2>2. /\ i \in Nat /\ i <= N /\ i + 1 \in 0 .. N /\ i + 1 # 0 /\ (i + 1) - 1 = i
        /\ i + 1 \in 1 .. N
    BY <2>1
  <2>3. good(i)
    BY <2>2, Zenon
  <2>4. t[i + 1] = pushDiagnostics(t[i], e, fs[i + 1], found[fs[i + 1]])
    BY <1>2, <2>2
  <2>5. fs[i + 1] \in R /\ fs[i + 1] \in S /\ found[fs[i + 1]] \in Nat
    BY <2>2, Zenon
  <2>6. t[i].lastFullTypecheckEpoch <= e
    BY <2>3, Zenon DEF sentReports
  <2>7. /\ t[i + 1] \in Reporters(S) /\ countsAddUp(t[i + 1])
        /\ sentReports(t[i], t[i + 1], e, {fs[i + 1]})
    <3> DEFINE x == pushDiagnostics(t[i], e, fs[i + 1], found[fs[i + 1]])
    <3>1. x \in Reporters(S) /\ countsAddUp(x) /\ sentReports(t[i], x, e, {fs[i + 1]})
      BY <2>3, <2>5, <2>6, PushOne, Zenon
    <3> HIDE DEF x
    <3>2. t[i + 1] = x
      BY <2>4, Zenon DEF x
    <3> QED
      BY <3>1, <3>2, Zenon
  <2>8. upTo(i + 1) = upTo(i) \cup {fs[i + 1]}
    <3>1. \A j \in 1 .. i + 1 : j \in 1 .. i \/ j = i + 1
      BY <2>2
    <3>2. i + 1 \in 1 .. i + 1 /\ \A j \in 1 .. i : j \in 1 .. i + 1
      BY <2>2
    <3> QED
      BY <3>1, <3>2, Zenon
  <2> HIDE DEF upTo
  <2>9. sentReports(r, t[i + 1], e, upTo(i) \cup {fs[i + 1]})
    BY <2>3, <2>7, ReportsCompose, Zenon
  <2> QED
    BY <2>7, <2>8, <2>9, Zenon
<1>5. N \in Good
  <2> HIDE DEF Good
  <2>1. Good \in SUBSET Nat
    BY Zenon DEF Good
  <2>2. Good = Nat
    BY <1>3, <1>4, <2>1, NatSetInduction, Zenon
  <2> QED
    BY <2>2, Zenon
<1>6. upTo(N) = R
  BY Zenon
<1>7. good(N)
  <2>1. N <= N
    OBVIOUS
  <2> QED
    BY <1>5, <2>1, Zenon
<1> HIDE DEF upTo
<1> QED
  BY <1>2, <1>6, <1>7, Zenon

-----------------------------------------------------------------------------
(***************************************************************************)
(* The invariant.                                                          *)
(***************************************************************************)

\* Every report is older than the edits to come.
reportsBelow(r, e) ==
  /\ r.lastFullTypecheckEpoch < e
  /\ \A f \in Files : r.status[f].lastReportedEpoch < e
ReportsAreOrdered == \A e \in upcoming : reportsBelow(reporter, e)

\* A running slow path is the last full typecheck, and has nothing to report of
\* a file that was edited since it began.
SlowPathReports ==
  slowPathRunning =>
    /\ reporter.lastFullTypecheckEpoch = slowPathEpoch
    /\ \A f \in presentFiles(typecheckerFiles) :
         \/ typecheckerFiles[f].version <= slowPathEpoch
         \/ reporter.status[f].lastReportedEpoch > slowPathEpoch

\* What the workers look at, and what they found.
QueuesAreRight ==
  /\ fileq \subseteq presentFiles(typecheckerFiles)
  /\ DOMAIN outputq \subseteq presentFiles(typecheckerFiles)
  /\ \A f \in DOMAIN outputq : outputq[f] \in Nat

\* The inductive invariant of the reporter.
RInv ==
  /\ reporter \in Reporters(Files) /\ countsAddUp(reporter)
  /\ ReportsAreOrdered /\ SlowPathReports /\ QueuesAreRight

-----------------------------------------------------------------------------
\* Every step of the diagnostics is one of the workspace, or leaves it alone.
LEMMA WorkspaceSteps == [DNext]_allVars => [Next]_vars /\ versionStep
<1> SUFFICES ASSUME [DNext]_allVars PROVE (Next \/ UNCHANGED vars) /\ versionStep
  BY Zenon
<1>1. CASE silentStep
  <2>1. ASSUME NEW f \in Files, enqueueEdit({f}) PROVE Next
    <3>1. {f} \in (SUBSET Files) \ {{}}
      OBVIOUS
    <3> QED
      BY <2>1, <3>1, Zenon DEF Next, clientStep
  <2>2. silently
    BY <1>1, Zenon DEF silentStep, silently
  <2> QED
    BY <2>1, <2>2, Zenon DEF silently, versionStep, Next, serverStep
<1>2. CASE DRunFastPath \/ DPreempt \/ DBeginSlowPath \/ DResolve \/ DTryCommitEpoch
  BY <1>2, Zenon
  DEF DRunFastPath, DPreempt, DBeginSlowPath, DResolve, DTryCommitEpoch, Next, serverStep, versionStep
<1>3. CASE \E f \in Files : workerCheck(f) \/ flushErrorsForFile(f)
  BY <1>3, Zenon DEF workerCheck, flushErrorsForFile, vars, versionStep
<1>4. CASE UNCHANGED allVars
  BY <1>4, Zenon DEF allVars, versionStep
<1> QED
  BY <1>1, <1>2, <1>3, <1>4, Zenon DEF DNext

-----------------------------------------------------------------------------
(***************************************************************************)
(* Reports.                                                                *)
(***************************************************************************)

\* The type checker finds a number of errors in the files there are.
LEMMA FoundErrors ==
  ASSUME NEW t \in Table, NEW n \in Nat, n <= MaxVersion + 1, versionsBelow(t, n),
         NEW f \in presentFiles(t)
  PROVE  Errors(f, t) \in Nat
<1>1. ASSUME NEW g \in Files, t[g] # Absent PROVE t[g] \in UNION {Content(v) : v \in Epoch}
  <2>1. t[g] \in FileState /\ t[g].version < n
    BY <1>1, Zenon DEF Table, versionsBelow
  <2>2. t[g].version \in Epoch
    BY <2>1, VersionAssumption DEF FileState
  <2>3. t[g] \in Content(t[g].version)
    BY <2>1 DEF FileState, Content
  <2> QED
    BY <2>2, <2>3, Zenon
<1>2. t \in CheckedTables
  BY <1>1, Zenon DEF CheckedTables, Table
<1>3. f \in Files /\ t[f] # Absent
  BY Zenon DEF presentFiles
<1> QED
  BY <1>2, <1>3, ErrorsAssumption, Zenon

\* A batch of reports, one for each file of R in any order.
LEMMA ReportAll ==
  ASSUME NEW r \in Reporters(Files), countsAddUp(r), NEW e \in Nat,
         r.lastFullTypecheckEpoch <= e, NEW R \in SUBSET Files, NEW order \in ordersOf(R),
         NEW found, \A f \in R : found[f] \in Nat
  PROVE  /\ pushAll(r, e, order, found) \in Reporters(Files)
         /\ countsAddUp(pushAll(r, e, order, found))
         /\ sentReports(r, pushAll(r, e, order, found), e, R)
<1>1. IsFiniteSet(R) /\ Cardinality(R) \in Nat
  BY FilesAssumption, FS_Subset, FS_CardinalityType, Zenon
<1>2. PICK N : N = Cardinality(R)
  BY Zenon
<1>3. /\ N \in Nat /\ order \in [1 .. N -> R]
      /\ \A f \in R : \E i \in 1 .. N : order[i] = f
  BY <1>1, <1>2, Zenon DEF ordersOf
<1> QED
  BY <1>3, FilesAssumption, PushAllReports, Zenon

\* What the reports of a fast path do.
LEMMA FastReports ==
  ASSUME WInv, WInv', VInv, VInv', RInv, NEW u, applies(u), reportFastPath(u),
         u.extraFiles \subseteq presentFiles(typecheckerFiles')
  PROVE  /\ reporter' \in Reporters(Files) /\ countsAddUp(reporter')
         /\ sentReports(reporter, reporter', u.epoch, retypechecked(u))
         /\ DOMAIN u.files \subseteq retypechecked(u)
         /\ retypechecked(u) \subseteq presentFiles(typecheckerFiles')
         /\ presentFiles(typecheckerFiles) \subseteq presentFiles(typecheckerFiles')
<1>a. /\ u \in Updates /\ isDated(u) /\ u.epoch \in upcoming /\ nextVersion' = nextVersion
      /\ nextVersion \in upcoming
      /\ typecheckerFiles' = merged(u.files, typecheckerFiles)
  BY Zenon DEF applies
<1>b. /\ reporter \in Reporters(Files) /\ countsAddUp(reporter) /\ ReportsAreOrdered
  BY Zenon DEF RInv
<1>c. /\ typecheckerFiles \in Table /\ typecheckerFiles' \in Table /\ u.files \in Changes
      /\ u.epoch \in Nat /\ nextVersion \in Nat
  BY <1>a, Zenon DEF WInv, WType, Updates
<1> DEFINE R == retypechecked(u)
           table == typecheckerFiles'
           found == [f \in Files |-> IF f \in R THEN Errors(f, table) ELSE 0]
<1>1. DOMAIN u.files \subseteq Files /\ \A f \in DOMAIN u.files : u.files[f] # Absent
  BY <1>c, ChangesType, Zenon
<1>2. \A f \in Files : table[f] = IF f \in DOMAIN u.files THEN u.files[f] ELSE typecheckerFiles[f]
  BY <1>a, <1>c, MergeTable, Zenon
<1>3. presentFiles(typecheckerFiles) \subseteq presentFiles(table)
  BY <1>1, <1>2, Zenon DEF presentFiles
<1>4. DOMAIN u.files \subseteq presentFiles(table)
  BY <1>1, <1>2, Zenon DEF presentFiles
<1>5. DOMAIN reporter.status = Files
  BY <1>b DEF Reporters
<1>6. {f \in filesWithErrorsSince(reporter, undo.epoch) : typecheckerFiles[f] # Absent}
        \subseteq presentFiles(typecheckerFiles)
  BY <1>5, Zenon DEF filesWithErrorsSince, presentFiles
<1>7. DOMAIN u.files \subseteq R /\ R \subseteq presentFiles(table) /\ R \subseteq Files
  <2>1. R \subseteq presentFiles(table)
    BY <1>3, <1>4, <1>6, Zenon DEF retypechecked
  <2> QED
    BY <2>1, Zenon DEF retypechecked, presentFiles
<1>8. versionsBelow(table, nextVersion) /\ nextVersion <= MaxVersion + 1
  <2>1. nextVersion' \in upcoming' /\ nextVersion' <= MaxVersion + 1
    BY Zenon DEF upcoming, VInv
  <2> QED
    BY <1>a, <2>1, Zenon DEF VInv, VersionsAreOrdered, versionsBelow
<1> HIDE DEF R, table
<1>9. ASSUME NEW f \in R PROVE found[f] \in Nat
  <2>1. f \in presentFiles(table) /\ f \in Files /\ found[f] = Errors(f, table)
    BY <1>7, <1>9, Zenon
  <2>2. table \in Table
    BY <1>c, Zenon DEF table
  <2> QED
    BY <1>c, <1>8, <2>1, <2>2, FoundErrors, Zenon
<1>10. PICK order \in ordersOf(R) :
         reporter' = pushAll(beginEpoch(reporter, u.epoch, TRUE), u.epoch, order, found)
  BY Zenon DEF reportFastPath, R, table
<1>11. beginEpoch(reporter, u.epoch, TRUE) = reporter
  BY Zenon DEF beginEpoch
<1> HIDE DEF found
<1>12. reporter.lastFullTypecheckEpoch <= u.epoch
  <2>1. reporter.lastFullTypecheckEpoch < u.epoch
    BY <1>a, <1>b, Zenon DEF ReportsAreOrdered, reportsBelow
  <2>2. reporter.lastFullTypecheckEpoch \in Nat
    BY <1>b, Zenon DEF Reporters
  <2> QED
    BY <1>c, <2>1, <2>2
<1>13. reporter' = pushAll(reporter, u.epoch, order, found)
  BY <1>10, <1>11, Zenon
<1>14. R \in SUBSET Files
  BY <1>7, Zenon
<1>15. /\ pushAll(reporter, u.epoch, order, found) \in Reporters(Files)
       /\ countsAddUp(pushAll(reporter, u.epoch, order, found))
       /\ sentReports(reporter, pushAll(reporter, u.epoch, order, found), u.epoch, R)
  BY <1>b, <1>c, <1>9, <1>12, <1>14, ReportAll, Zenon
<1>16. reporter' \in Reporters(Files) /\ countsAddUp(reporter') /\ sentReports(reporter, reporter', u.epoch, R)
  BY <1>13, <1>15, Zenon
<1> QED
  BY <1>3, <1>7, <1>16, Zenon DEF R, table

\* Types of what the reporter knows.
LEMMA ReporterTypes ==
  ASSUME NEW r \in Reporters(Files)
  PROVE  /\ r.lastFullTypecheckEpoch \in Nat /\ DOMAIN r.status = Files
         /\ \A f \in Files : r.status[f].lastReportedEpoch \in Nat
BY DEF Reporters, Status

\* The reports of a fast path are in order.
LEMMA FastReportsOrder ==
  ASSUME WInv, WInv', VInv, VInv', RInv, NEW u, applies(u), reportFastPath(u),
         u.extraFiles \subseteq presentFiles(typecheckerFiles')
  PROVE  reportsInOrder /\ ReportsAreOrdered'
<1>1. /\ reporter' \in Reporters(Files)
      /\ sentReports(reporter, reporter', u.epoch, retypechecked(u))
      /\ retypechecked(u) \subseteq presentFiles(typecheckerFiles')
  BY FastReports, Zenon
<1>2. /\ u \in Updates /\ isDated(u) /\ u.epoch \in upcoming
      /\ typecheckerFiles' = merged(u.files, typecheckerFiles)
      /\ \A e \in upcoming' : e \in upcoming /\ u.epoch < e
  BY Zenon DEF applies
<1>3. /\ DOMAIN reporter.status = Files /\ reporter \in Reporters(Files)
      /\ \A f \in Files : reporter.status[f].lastReportedEpoch \in Nat
  BY ReporterTypes, Zenon DEF RInv
<1>4. u.epoch \in Nat /\ typecheckerFiles \in Table /\ u.files \in Changes
  BY <1>2, Zenon DEF WInv, WType, Updates
<1>5. ASSUME NEW f \in Files
      PROVE  \/ reporter'.status[f] = reporter.status[f] /\ reporter'.displayed[f] = reporter.displayed[f]
             \/ /\ f \in retypechecked(u) /\ reporter'.status[f].lastReportedEpoch = u.epoch
                /\ reporter.status[f].lastReportedEpoch <= u.epoch
  BY <1>1, <1>3, Zenon DEF sentReports
<1>6. ASSUME NEW f \in Files, reporter'.displayed[f] # reporter.displayed[f]
      PROVE  /\ reporter'.status[f].lastReportedEpoch >= reporter.status[f].lastReportedEpoch
             /\ typecheckerFiles'[f].version <= reporter'.status[f].lastReportedEpoch
  <2>1. /\ f \in retypechecked(u) /\ reporter'.status[f].lastReportedEpoch = u.epoch
        /\ reporter.status[f].lastReportedEpoch <= u.epoch
    BY <1>5, <1>6, Zenon
  <2>2. typecheckerFiles'[f] # Absent
    BY <1>1, <2>1, Zenon DEF presentFiles
  <2>3. u.epoch + 1 \in Nat /\ u.epoch < u.epoch + 1
    BY <1>4
  <2>4. versionsBelow(typecheckerFiles, u.epoch)
    BY <1>2, Zenon DEF VInv, VersionsAreOrdered
  <2>5. versionsBelow(typecheckerFiles', u.epoch + 1)
    BY <1>2, <1>4, <2>3, <2>4, MergedBelow, Zenon
  <2>6. typecheckerFiles'[f].version < u.epoch + 1
    BY <2>2, <2>5, Zenon DEF versionsBelow
  <2>7. typecheckerFiles'[f].version \in Nat
    BY <2>2, Zenon DEF WInv, WType, Table, FileState
  <2>8. typecheckerFiles'[f].version <= u.epoch
    BY <1>4, <2>6, <2>7, SMTT(20)
  <2>9. u.epoch >= reporter.status[f].lastReportedEpoch
    BY <1>3, <1>4, <2>1
  <2> QED
    BY <2>1, <2>8, <2>9, Zenon
<1>7. ASSUME NEW e \in upcoming' PROVE reportsBelow(reporter', e)
  <2>1. reportsBelow(reporter, e) /\ u.epoch < e
    BY <1>2, Zenon DEF RInv, ReportsAreOrdered
  <2> QED
    BY <1>1, <1>5, <2>1, Zenon DEF reportsBelow, sentReports
<1> QED
  BY <1>6, <1>7, Zenon DEF reportsInOrder, ReportsAreOrdered, reportsBelow

\* A step that reports nothing.
LEMMA SilentReports ==
  ASSUME WInv, WInv', RInv, silentStep
  PROVE  RInv' /\ reportsInOrder
<1>0. silently
  BY Zenon DEF silentStep, silently
<1>1. UNCHANGED <<reporter, fileq, outputq>>
  BY Zenon DEF silentStep, reportVars
<1>2. /\ typecheckerFiles' = typecheckerFiles
      /\ slowPathRunning' <=> slowPathRunning
      /\ slowPathEpoch' = slowPathEpoch
  BY <1>0, SilentTables, Zenon
<1>3. upcoming \subseteq Nat /\ upcoming' \subseteq Nat
  BY UpcomingEpochs, UpcomingNext, Zenon
<1>4. /\ reporter.lastFullTypecheckEpoch \in Nat
      /\ \A f \in Files : reporter.status[f].lastReportedEpoch \in Nat
  BY ReporterTypes, Zenon DEF RInv
<1>5. ASSUME NEW n \in upcoming' PROVE reportsBelow(reporter, n)
  <2>1. PICK e \in upcoming : e <= n
    BY <1>0, <1>3, SilentEpochs, Zenon
  <2>2. reportsBelow(reporter, e) /\ e \in Nat /\ n \in Nat
    BY <1>3, Zenon DEF RInv, ReportsAreOrdered
  <2> QED
    BY <1>4, <2>1, <2>2 DEF reportsBelow
<1>6. ReportsAreOrdered'
  BY <1>1, <1>5, Zenon DEF ReportsAreOrdered, reportsBelow
<1>7. SlowPathReports' /\ QueuesAreRight'
  BY <1>1, <1>2, Zenon DEF RInv, SlowPathReports, QueuesAreRight, presentFiles
<1>8. reporter' \in Reporters(Files) /\ countsAddUp(reporter)'
  BY <1>1, Zenon DEF RInv, countsAddUp, revoked
<1> QED
  BY <1>1, <1>6, <1>7, <1>8, Zenon DEF RInv, reportsInOrder

\* What the workers have, when files are only added.
LEMMA QueuesStay ==
  ASSUME RInv, UNCHANGED <<fileq, outputq>>,
         presentFiles(typecheckerFiles) \subseteq presentFiles(typecheckerFiles')
  PROVE  QueuesAreRight'
BY Zenon DEF RInv, QueuesAreRight, presentFiles

\* The fast path reports.
LEMMA FastPathReports ==
  ASSUME WInv, WInv', VInv, VInv', RInv, DRunFastPath
  PROVE  RInv' /\ reportsInOrder
<1>1. runFastPath /\ reportFastPath(update) /\ UNCHANGED <<fileq, outputq>>
  BY Zenon DEF DRunFastPath
<1>2. /\ applies(update) /\ ~slowPathRunning'
      /\ update.extraFiles \subseteq presentFiles(typecheckerFiles')
  BY <1>1, FastPathApplies, Zenon
<1>3. /\ reporter' \in Reporters(Files) /\ countsAddUp(reporter')
      /\ presentFiles(typecheckerFiles) \subseteq presentFiles(typecheckerFiles')
  BY <1>1, <1>2, FastReports, Zenon
<1>4. reportsInOrder /\ ReportsAreOrdered'
  BY <1>1, <1>2, FastReportsOrder, Zenon
<1>5. SlowPathReports' /\ QueuesAreRight'
  BY <1>1, <1>2, <1>3, QueuesStay, Zenon DEF SlowPathReports
<1>6. countsAddUp(reporter)'
  BY <1>3, Zenon DEF countsAddUp, revoked
<1> QED
  BY <1>3, <1>4, <1>5, <1>6, Zenon DEF RInv

\* An edit that preempts the slow path reports.
LEMMA PreemptReports ==
  ASSUME WInv, WInv', VInv, VInv', RInv, DPreempt
  PROVE  RInv' /\ reportsInOrder
<1>1. PICK u : u = indexedUpdate(Head(queue))
  BY Zenon
<1>2. preempt /\ reportFastPath(u) /\ UNCHANGED <<fileq, outputq>>
  BY <1>1, Zenon DEF DPreempt
<1>3. /\ applies(u) /\ undo' = undo /\ slowPathEpoch' = slowPathEpoch
      /\ slowPathRunning' <=> slowPathRunning
      /\ u.extraFiles \subseteq presentFiles(typecheckerFiles')
  BY <1>1, <1>2, PreemptApplies, Zenon
<1>4. /\ reporter' \in Reporters(Files) /\ countsAddUp(reporter')
      /\ sentReports(reporter, reporter', u.epoch, retypechecked(u))
      /\ DOMAIN u.files \subseteq retypechecked(u)
      /\ presentFiles(typecheckerFiles) \subseteq presentFiles(typecheckerFiles')
  BY <1>2, <1>3, FastReports, Zenon
<1>5. reportsInOrder /\ ReportsAreOrdered'
  BY <1>2, <1>3, FastReportsOrder, Zenon
<1>6. QueuesAreRight'
  BY <1>2, <1>4, QueuesStay, Zenon
<1>7. SlowPathReports'
  <2> SUFFICES ASSUME slowPathRunning
               PROVE  /\ reporter'.lastFullTypecheckEpoch = slowPathEpoch
                      /\ \A f \in presentFiles(typecheckerFiles') :
                           \/ typecheckerFiles'[f].version <= slowPathEpoch
                           \/ reporter'.status[f].lastReportedEpoch > slowPathEpoch
    BY <1>3, Zenon DEF SlowPathReports, presentFiles
  <2>1. /\ reporter.lastFullTypecheckEpoch = slowPathEpoch
        /\ \A f \in presentFiles(typecheckerFiles) :
             \/ typecheckerFiles[f].version <= slowPathEpoch
             \/ reporter.status[f].lastReportedEpoch > slowPathEpoch
    BY Zenon DEF RInv, SlowPathReports
  <2>2. reporter'.lastFullTypecheckEpoch = slowPathEpoch
    BY <1>4, <2>1, Zenon DEF sentReports
  <2>3. /\ u \in Updates /\ u.epoch \in upcoming
        /\ typecheckerFiles' = merged(u.files, typecheckerFiles)
    BY <1>3, Zenon DEF applies
  <2>4. /\ u.files \in Changes /\ u.epoch \in Nat /\ typecheckerFiles \in Table
        /\ slowPathEpoch \in Nat
    BY <2>3, Zenon DEF Updates, WInv, WType, slowPathEpoch
  <2>5. slowPathEpoch < u.epoch /\ u.epoch > slowPathEpoch
    <3>1. slowPathEpoch < u.epoch
      BY <2>3, UpcomingEpochs, Zenon
    <3> QED
      BY <2>4, <3>1
  <2>6. ASSUME NEW f \in presentFiles(typecheckerFiles')
        PROVE  \/ typecheckerFiles'[f].version <= slowPathEpoch
               \/ reporter'.status[f].lastReportedEpoch > slowPathEpoch
    <3>1. f \in Files /\ typecheckerFiles'[f] # Absent
      BY Zenon DEF presentFiles
    <3>2. reporter.status[f].lastReportedEpoch <= u.epoch /\ f \in DOMAIN reporter.status
      <4>1. reporter.status[f].lastReportedEpoch < u.epoch
        BY <2>3, <3>1, Zenon DEF RInv, ReportsAreOrdered, reportsBelow
      <4>2. f \in DOMAIN reporter.status /\ reporter.status[f].lastReportedEpoch \in Nat
        BY <3>1, ReporterTypes, Zenon DEF RInv
      <4> QED
        BY <2>4, <4>1, <4>2
    <3>3. /\ \/ reporter'.status[f] = reporter.status[f]
             \/ reporter'.status[f].lastReportedEpoch = u.epoch
          /\ f \in retypechecked(u) => reporter'.status[f].lastReportedEpoch = u.epoch
      BY <1>4, <3>2, Zenon DEF sentReports
    <3>4. typecheckerFiles'[f] = IF f \in DOMAIN u.files THEN u.files[f] ELSE typecheckerFiles[f]
      BY <2>3, <2>4, <3>1, MergeTable, Zenon
    <3>5. CASE f \in DOMAIN u.files
      BY <1>4, <2>5, <3>3, <3>5, Zenon
    <3>6. CASE f \notin DOMAIN u.files
      <4>1. f \in presentFiles(typecheckerFiles) /\ typecheckerFiles'[f] = typecheckerFiles[f]
        BY <3>1, <3>4, <3>6, Zenon DEF presentFiles
      <4> QED
        BY <2>1, <2>5, <3>3, <4>1, Zenon
    <3> QED
      BY <3>5, <3>6, Zenon
  <2> QED
    BY <2>2, <2>6, Zenon
<1>8. countsAddUp(reporter)'
  BY <1>4, Zenon DEF countsAddUp, revoked
<1> QED
  BY <1>4, <1>5, <1>6, <1>7, <1>8, Zenon DEF RInv

\* A full typecheck starts counting again.
LEMMA SlowPathBegins ==
  ASSUME WInv, WInv', VInv, VInv', RInv, DBeginSlowPath
  PROVE  RInv' /\ reportsInOrder
<1>1. PICK u : /\ applies(u) /\ undo'.files = typecheckerFiles
               /\ slowPathEpoch' = u.epoch
  BY SlowPathApplies, Zenon DEF DBeginSlowPath
<1>2. /\ reporter' = beginEpoch(reporter, u.epoch, FALSE)
      /\ UNCHANGED <<fileq, outputq>>
  BY <1>1, Zenon DEF DBeginSlowPath, slowPathEpoch
<1>3. /\ u \in Updates /\ isDated(u) /\ u.epoch \in upcoming
      /\ typecheckerFiles' = merged(u.files, typecheckerFiles)
      /\ \A e \in upcoming' : e \in upcoming /\ u.epoch < e
  BY <1>1, Zenon DEF applies
<1>4. /\ u.files \in Changes /\ u.epoch \in Nat /\ typecheckerFiles \in Table
      /\ typecheckerFiles' \in Table /\ reporter \in Reporters(Files)
  BY <1>3, Zenon DEF Updates, WInv, WType, RInv
<1>5. reporter' = [reporter EXCEPT !.lastFullTypecheckEpoch = u.epoch, !.clientErrorCount = 0]
  BY <1>2, Zenon DEF beginEpoch
<1>6. /\ reporter' \in Reporters(Files) /\ reporter'.lastFullTypecheckEpoch = u.epoch
      /\ reporter'.clientErrorCount = 0 /\ reporter'.status = reporter.status
      /\ reporter'.displayed = reporter.displayed
  BY <1>4, <1>5, Zenon DEF Reporters
<1>7. \A f \in Files : reporter.status[f].lastReportedEpoch < u.epoch
  BY <1>3, Zenon DEF RInv, ReportsAreOrdered, reportsBelow
<1>8. /\ DOMAIN reporter'.status = Files
      /\ \A f \in Files : reporter.status[f].lastReportedEpoch \in Nat
  BY <1>4, <1>6, ReporterTypes, Zenon
<1>9. \A f \in Files : revoked(reporter', f) = 0
  <2>1. \A f \in Files : ~(reporter.status[f].lastReportedEpoch >= u.epoch)
    BY <1>4, <1>7, <1>8
  <2> QED
    BY <1>6, <2>1, Zenon DEF revoked
<1>10. countsAddUp(reporter)'
  <2> DEFINE c == [f \in DOMAIN reporter'.status |-> revoked(reporter', f)]
  <2>1. \A f \in DOMAIN c : c[f] = 0
    BY <1>8, <1>9, Zenon
  <2>2. sumOf(c) = 0
    <3> HIDE DEF c
    <3> QED
      BY <2>1, SumOfZeros, Zenon
  <2> QED
    BY <1>6, <2>2, Zenon DEF countsAddUp, revoked
<1>11. ReportsAreOrdered'
  BY <1>3, <1>6, Zenon DEF RInv, ReportsAreOrdered, reportsBelow
<1>12. ASSUME NEW f \in presentFiles(typecheckerFiles') PROVE typecheckerFiles'[f].version <= u.epoch
  <2>1. u.epoch + 1 \in Nat /\ u.epoch < u.epoch + 1
    BY <1>4
  <2>2. versionsBelow(typecheckerFiles, u.epoch)
    BY <1>3, Zenon DEF VInv, VersionsAreOrdered
  <2>3. versionsBelow(typecheckerFiles', u.epoch + 1)
    BY <1>3, <1>4, <2>1, <2>2, MergedBelow, Zenon
  <2>4. typecheckerFiles'[f].version < u.epoch + 1 /\ typecheckerFiles'[f].version \in Nat
    BY <1>4, <2>3, Zenon DEF versionsBelow, presentFiles, Table, FileState
  <2> QED
    BY <1>4, <2>4
<1>13. SlowPathReports'
  BY <1>1, <1>6, <1>12, Zenon DEF SlowPathReports, presentFiles
<1>14. presentFiles(typecheckerFiles) \subseteq presentFiles(typecheckerFiles')
  <2>1. \A f \in Files : typecheckerFiles'[f] = IF f \in DOMAIN u.files THEN u.files[f] ELSE typecheckerFiles[f]
    BY <1>3, <1>4, MergeTable, Zenon
  <2>2. \A f \in DOMAIN u.files : u.files[f] # Absent
    BY <1>4, ChangesType, Zenon
  <2> QED
    BY <2>1, <2>2, Zenon DEF presentFiles
<1>15. QueuesAreRight'
  BY <1>2, <1>14, QueuesStay, Zenon
<1> QED
  BY <1>6, <1>10, <1>11, <1>13, <1>15, Zenon DEF RInv, reportsInOrder

\* Steps of the workers, and those that only say where the slow path is.
LEMMA QuietReports ==
  ASSUME RInv, UNCHANGED <<reporter, typecheckerFiles, nextVersion, queue, task, update, epochVars>>,
         QueuesAreRight'
  PROVE  RInv' /\ reportsInOrder
<1>1. slowPathEpoch' = slowPathEpoch /\ (slowPathRunning' <=> slowPathRunning)
  BY Zenon DEF slowPathEpoch, slowPathRunning, epochVars
<1>2. ReportsAreOrdered' /\ SlowPathReports'
  BY <1>1, Zenon DEF RInv, ReportsAreOrdered, reportsBelow, upcoming, SlowPathReports, presentFiles
<1>3. reporter' \in Reporters(Files) /\ countsAddUp(reporter)'
  BY Zenon DEF RInv, countsAddUp, revoked
<1> QED
  BY <1>2, <1>3, Zenon DEF RInv, reportsInOrder

\* Every file is queued for the workers.
LEMMA ResolveReports ==
  ASSUME RInv, DResolve
  PROVE  RInv' /\ reportsInOrder
<1>1. /\ UNCHANGED <<reporter, typecheckerFiles, nextVersion, queue, task, update, epochVars, outputq>>
      /\ fileq' = presentFiles(typecheckerFiles)
  BY Zenon DEF DResolve, resolve, queueVars, taskVars
<1>2. QueuesAreRight'
  BY <1>1, Zenon DEF RInv, QueuesAreRight, presentFiles
<1> QED
  BY <1>1, <1>2, QuietReports, Zenon

\* A worker checks a file.
LEMMA WorkerReports ==
  ASSUME WInv, VInv, RInv, NEW f \in Files, workerCheck(f)
  PROVE  RInv' /\ reportsInOrder
<1>1. /\ UNCHANGED <<reporter, typecheckerFiles, nextVersion, queue, task, update, epochVars>>
      /\ f \in fileq /\ fileq' = fileq \ {f}
      /\ \/ outputq' = outputq
         \/ outputq' = merged([g \in {f} |-> Errors(g, typecheckerFiles)], outputq)
  BY Zenon DEF workerCheck, vars, queueVars, taskVars, typecheckerVars
<1>2. /\ fileq \subseteq presentFiles(typecheckerFiles)
      /\ DOMAIN outputq \subseteq presentFiles(typecheckerFiles)
      /\ \A g \in DOMAIN outputq : outputq[g] \in Nat
  BY Zenon DEF RInv, QueuesAreRight
<1>3. Errors(f, typecheckerFiles) \in Nat
  <2>1. f \in presentFiles(typecheckerFiles)
    BY <1>1, <1>2, Zenon
  <2>2. typecheckerFiles \in Table /\ nextVersion \in Nat /\ nextVersion <= MaxVersion + 1
    BY Zenon DEF WInv, WType, VInv
  <2>3. versionsBelow(typecheckerFiles, nextVersion)
    BY Zenon DEF VInv, VersionsAreOrdered, upcoming
  <2> QED
    BY <2>1, <2>2, <2>3, FoundErrors, Zenon
<1>4. /\ DOMAIN outputq' \subseteq presentFiles(typecheckerFiles)
      /\ \A g \in DOMAIN outputq' : outputq'[g] \in Nat
  <2> DEFINE new == [g \in {f} |-> Errors(g, typecheckerFiles)]
  <2>1. DOMAIN new = {f} /\ new[f] \in Nat
    BY <1>3, Zenon
  <2> HIDE DEF new
  <2>2. CASE outputq' = merged(new, outputq)
    BY <1>1, <1>2, <2>1, <2>2, Zenon DEF merged
  <2> QED
    BY <1>1, <1>2, <2>2, Zenon DEF new
<1>5. QueuesAreRight'
  BY <1>1, <1>2, <1>4, Zenon DEF QueuesAreRight, presentFiles
<1> QED
  BY <1>1, <1>5, QuietReports, Zenon

\* The slow path reports a file that a worker has checked.
LEMMA FlushReports ==
  ASSUME WInv, RInv, NEW f \in Files, flushErrorsForFile(f)
  PROVE  RInv' /\ reportsInOrder
<1>1. /\ UNCHANGED <<typecheckerFiles, nextVersion, queue, task, update, epochVars, fileq>>
      /\ slowPath = "check" /\ f \in DOMAIN outputq
      /\ reporter' = pushDiagnostics(reporter, slowPathEpoch, f, outputq[f])
      /\ outputq' = [g \in DOMAIN outputq \ {f} |-> outputq[g]]
  BY Zenon DEF flushErrorsForFile, vars, queueVars, taskVars, typecheckerVars
<1>2. slowPathRunning
  BY <1>1 DEF WInv, StatusIsRight
<1>3. /\ reporter.lastFullTypecheckEpoch = slowPathEpoch
      /\ \A g \in presentFiles(typecheckerFiles) :
           \/ typecheckerFiles[g].version <= slowPathEpoch
           \/ reporter.status[g].lastReportedEpoch > slowPathEpoch
  BY <1>2, Zenon DEF RInv, SlowPathReports
<1>4. /\ reporter \in Reporters(Files) /\ countsAddUp(reporter) /\ slowPathEpoch \in Nat
      /\ outputq[f] \in Nat /\ f \in presentFiles(typecheckerFiles)
      /\ DOMAIN reporter.status = Files
      /\ \A g \in Files : reporter.status[g].lastReportedEpoch \in Nat
  BY <1>1, ReporterTypes, Zenon DEF RInv, QueuesAreRight, WInv, WType, slowPathEpoch
<1>5. reporter.lastFullTypecheckEpoch <= slowPathEpoch
  BY <1>3, <1>4
<1>6. /\ reporter' \in Reporters(Files) /\ countsAddUp(reporter')
      /\ sentReports(reporter, reporter', slowPathEpoch, {f})
  BY <1>1, <1>4, <1>5, FilesAssumption, PushOne, Zenon
<1>7. ASSUME NEW g \in Files
      PROVE  \/ reporter'.status[g] = reporter.status[g] /\ reporter'.displayed[g] = reporter.displayed[g]
             \/ /\ g = f /\ reporter'.status[g].lastReportedEpoch = slowPathEpoch
                /\ reporter.status[g].lastReportedEpoch <= slowPathEpoch
  BY <1>4, <1>6, Zenon DEF sentReports
<1>8. ASSUME reporter.status[f].lastReportedEpoch <= slowPathEpoch
      PROVE  /\ typecheckerFiles[f].version <= slowPathEpoch
             /\ slowPathEpoch >= reporter.status[f].lastReportedEpoch
  <2>1. ~(reporter.status[f].lastReportedEpoch > slowPathEpoch)
    BY <1>4, <1>8, SMTT(20)
  <2>2. slowPathEpoch >= reporter.status[f].lastReportedEpoch
    BY <1>4, <1>8
  <2> QED
    BY <1>3, <1>4, <2>1, <2>2, Zenon
<1>9. reportsInOrder
  BY <1>1, <1>7, <1>8, Zenon DEF reportsInOrder
<1>10. ReportsAreOrdered'
  <2>1. upcoming' = upcoming
    BY <1>1, Zenon DEF upcoming
  <2>2. ASSUME NEW e \in upcoming PROVE reportsBelow(reporter', e)
    <3>1. reportsBelow(reporter, e) /\ slowPathEpoch < e
      BY UpcomingEpochs, Zenon DEF RInv, ReportsAreOrdered
    <3> QED
      BY <1>6, <1>7, <3>1, Zenon DEF reportsBelow, sentReports
  <2> QED
    BY <2>1, <2>2, Zenon DEF ReportsAreOrdered, reportsBelow
<1>11. SlowPathReports'
  <2>1. reporter'.lastFullTypecheckEpoch = slowPathEpoch /\ slowPathEpoch' = slowPathEpoch
    BY <1>1, <1>3, <1>6, Zenon DEF sentReports, slowPathEpoch, epochVars
  <2>2. ASSUME NEW g \in presentFiles(typecheckerFiles)
        PROVE  \/ typecheckerFiles[g].version <= slowPathEpoch
               \/ reporter'.status[g].lastReportedEpoch > slowPathEpoch
    <3>1. g \in Files
      BY Zenon DEF presentFiles
    <3> QED
      BY <1>3, <1>7, <1>8, <3>1, Zenon
  <2> QED
    BY <1>1, <2>1, <2>2, Zenon DEF SlowPathReports, presentFiles
<1>12. QueuesAreRight'
  BY <1>1, Zenon DEF RInv, QueuesAreRight, presentFiles
<1>13. countsAddUp(reporter)'
  BY <1>6, Zenon DEF countsAddUp, revoked
<1> QED
  BY <1>6, <1>9, <1>10, <1>11, <1>12, <1>13, Zenon DEF RInv

\* The slow path ends.
LEMMA CommitReports ==
  ASSUME WInv, VInv, RInv, DTryCommitEpoch
  PROVE  RInv' /\ reportsInOrder
<1>1. tryCommitEpoch /\ fileq = {} /\ outputq = NoFiles /\ UNCHANGED <<reporter, fileq, outputq>>
  BY Zenon DEF DTryCommitEpoch
<1>2. ~slowPathRunning' /\ upcoming' = upcoming
  BY <1>1, CommitVersions, Zenon
<1>3. QueuesAreRight'
  BY <1>1, NoFilesIsChanges, Zenon DEF QueuesAreRight
<1>4. ReportsAreOrdered' /\ SlowPathReports'
  BY <1>1, <1>2, Zenon DEF RInv, ReportsAreOrdered, reportsBelow, SlowPathReports
<1>5. reporter' \in Reporters(Files) /\ countsAddUp(reporter)'
  BY <1>1, Zenon DEF RInv, countsAddUp, revoked
<1> QED
  BY <1>1, <1>3, <1>4, <1>5, Zenon DEF RInv, reportsInOrder

\* Every step keeps the reporter's invariant, and its reports are in order.
LEMMA ReportsStep ==
  ASSUME WInv, WInv', VInv, VInv', RInv, [DNext]_allVars
  PROVE  RInv' /\ (reportsInOrder \/ UNCHANGED allVars)
<1>1. CASE silentStep
  BY <1>1, SilentReports, Zenon
<1>2. CASE DRunFastPath \/ DPreempt \/ DBeginSlowPath
  BY <1>2, FastPathReports, PreemptReports, SlowPathBegins, Zenon
<1>3. CASE DResolve \/ DTryCommitEpoch
  BY <1>3, ResolveReports, CommitReports, Zenon
<1>4. CASE \E f \in Files : workerCheck(f) \/ flushErrorsForFile(f)
  BY <1>4, WorkerReports, FlushReports, Zenon
<1>5. CASE UNCHANGED allVars
  <2>1. UNCHANGED <<reporter, typecheckerFiles, nextVersion, queue, task, update, epochVars, fileq, outputq>>
    BY <1>5, Zenon DEF allVars, vars, queueVars, taskVars, typecheckerVars, reportVars
  <2>2. QueuesAreRight'
    BY <2>1, Zenon DEF RInv, QueuesAreRight, presentFiles
  <2> QED
    BY <2>1, <2>2, QuietReports, Zenon
<1> QED
  BY <1>1, <1>2, <1>3, <1>4, <1>5, Zenon DEF DNext

\* The initial typecheck has reported epoch 0.
LEMMA ReportsInit == DInit => RInv
<1> SUFFICES ASSUME DInit PROVE RInv
  BY Zenon
<1>a. WInv /\ VInv /\ Init
  BY InitInv, VersionsInit, Zenon DEF DInit
<1>1. /\ nextVersion = 1 /\ queue = <<>> /\ task = "await" /\ typecheckerFiles = InitialFiles
      /\ ~slowPathRunning
  BY <1>a, Zenon DEF Init, EpochInit, slowPathRunning
<1> DEFINE R == presentFiles(InitialFiles)
           found == [f \in Files |-> Errors(f, InitialFiles)]
<1>2. PICK order \in ordersOf(R), cap \in LspErrorCaps :
        reporter = pushAll(newReporter(Files, cap), 0, order, found)
  BY Zenon DEF DInit
<1> DEFINE r == newReporter(Files, cap)
<1>3. cap \in Nat
  BY CapsAssumption, Zenon
<1>4. /\ r \in Reporters(Files) /\ r.lastFullTypecheckEpoch = 0 /\ r.clientErrorCount = 0
      /\ DOMAIN r.status = Files
      /\ \A f \in Files : r.status[f].lastReportedEpoch = 0 /\ r.status[f].errorCount = 0
  BY <1>3 DEF newReporter, Reporters, Status
<1> HIDE DEF r
<1>5. countsAddUp(r)
  <2> DEFINE c == [f \in DOMAIN r.status |-> revoked(r, f)]
  <2>1. \A f \in DOMAIN c : c[f] = 0
    BY <1>4, Zenon DEF revoked
  <2>2. sumOf(c) = 0
    <3> HIDE DEF c
    <3> QED
      BY <2>1, SumOfZeros, Zenon
  <2> QED
    BY <1>4, <2>2, Zenon DEF countsAddUp
<1>6. R \in SUBSET Files
  BY Zenon DEF presentFiles
<1>7. ASSUME NEW f \in R PROVE found[f] \in Nat
  <2>1. f \in Files /\ found[f] = Errors(f, InitialFiles)
    BY <1>6, Zenon
  <2>2. InitialFiles \in Table /\ nextVersion \in Nat /\ nextVersion <= MaxVersion + 1
    BY <1>a, <1>1, Zenon DEF WInv, WType, VInv
  <2>3. versionsBelow(InitialFiles, nextVersion)
    BY <1>a, <1>1, Zenon DEF VInv, VersionsAreOrdered, upcoming
  <2> QED
    BY <2>1, <2>2, <2>3, FoundErrors, Zenon
<1> HIDE DEF R, found
<1>8. reporter = pushAll(r, 0, order, found) /\ 0 \in Nat /\ r.lastFullTypecheckEpoch <= 0
  BY <1>2, <1>4 DEF r
<1>9. /\ pushAll(r, 0, order, found) \in Reporters(Files)
      /\ countsAddUp(pushAll(r, 0, order, found))
      /\ sentReports(r, pushAll(r, 0, order, found), 0, R)
  BY <1>4, <1>5, <1>6, <1>7, <1>8, ReportAll, Zenon
<1>10. reporter \in Reporters(Files) /\ countsAddUp(reporter) /\ sentReports(r, reporter, 0, R)
  BY <1>8, <1>9, Zenon
<1>11. /\ reporter.lastFullTypecheckEpoch = 0
       /\ \A f \in Files : reporter.status[f].lastReportedEpoch = 0
  BY <1>4, <1>10, Zenon DEF sentReports
<1>12. ReportsAreOrdered
  <2>1. 1 .. Len(queue) = {}
    BY <1>1
  <2>2. upcoming = {1}
    BY <1>1, <2>1, Zenon DEF upcoming
  <2>3. reportsBelow(reporter, 1)
    BY <1>11 DEF reportsBelow
  <2> QED
    BY <2>2, <2>3, Zenon DEF ReportsAreOrdered
<1>13. SlowPathReports /\ QueuesAreRight
  BY <1>1, NoFilesIsChanges, Zenon DEF SlowPathReports, QueuesAreRight, DInit
<1> QED
  BY <1>10, <1>12, <1>13, Zenon DEF RInv

-----------------------------------------------------------------------------
(***************************************************************************)
(* What follows.                                                           *)
(***************************************************************************)

\* The workspace, the versions and the reporter, in every step.
LEMMA DiagnosticsStep ==
  WInv /\ VInv /\ RInv /\ [DNext]_allVars => (WInv /\ VInv /\ RInv)' /\ [reportsInOrder]_allVars
<1> SUFFICES ASSUME WInv, VInv, RInv, [DNext]_allVars
             PROVE  (WInv /\ VInv /\ RInv)' /\ (reportsInOrder \/ UNCHANGED allVars)
  BY Zenon
<1>1. WInv'
  BY WorkspaceSteps, WorkspaceStep, Zenon
<1>2. VInv'
  BY <1>1, WorkspaceSteps, VersionsStep, Zenon
<1> QED
  BY <1>1, <1>2, ReportsStep, Zenon

\* It holds throughout.
LEMMA DiagnosticsInvariant == DSpec => [](WInv /\ VInv /\ RInv)
<1>1. DInit => WInv /\ VInv /\ RInv
  BY InitInv, VersionsInit, ReportsInit, Zenon DEF DInit
<1> QED
  BY <1>1, DiagnosticsStep, PTL DEF DSpec

\* What ErrorReporter::sanityCheck asserts: the errors of the files reported since
\* the last full typecheck began add up to clientErrorCount, whatever files the
\* workers, the preempting edits and the cancellations report, and in what order.
THEOREM CountsAddUp == DSpec => []ErrorCountsAddUp
<1>1. RInv => ErrorCountsAddUp
  BY Zenon DEF RInv, ErrorCountsAddUp
<1> QED
  BY <1>1, DiagnosticsInvariant, PTL

\* What the client displays for a file changes only with a report that is no older
\* than the one before and no older than the file's last edit: a slow path that
\* goes on after an edit preempted it never puts older errors in their place.
THEOREM ReportsAreInOrder == DSpec => ReportsFollowEdits
BY DiagnosticsInvariant, DiagnosticsStep, PTL DEF DSpec, ReportsFollowEdits
=============================================================================
