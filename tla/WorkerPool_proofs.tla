-------------------------- MODULE WorkerPool_proofs --------------------------
(***************************************************************************)
(* Proofs about the two ways Sorbet puts the threads of the worker pool to *)
(* work: the walk of a directory, whose jobs make more jobs, and the jobs  *)
(* on a set of files that is known when they start.  They share no state.  *)
(***************************************************************************)
EXTENDS FindFiles, WorkerJobs, FiniteSetTheorems, TLAPS

(***************************************************************************)
(* FindFiles.                                                              *)
(*                                                                         *)
(* The walk is complete, or raises, for any tree and any number of threads.*)
(***************************************************************************)

Places == {"pop", "read", "push", "throw", "quit", "caught", "report", "done"}

WalkTyped ==
  /\ unreadable \subseteq Dirs /\ jobq \subseteq Dirs /\ allPaths \subseteq Dirs
  /\ quitTokens \in Nat /\ pendingJobs \in Int
  /\ walkPC \in [Walkers -> Places]
  /\ entries \in [Walkers -> SUBSET Dirs] /\ output \in [Walkers -> SUBSET Dirs]
  /\ dir \in [Walkers -> Dirs]
  /\ reported \subseteq Walkers

\* Threads with a directory that is counted, and with one counted ahead.
Busy == {w \in Walkers : walkPC[w] \in {"read", "push", "throw"}}
Pushing == {w \in Walkers : walkPC[w] = "push"}

Account == pendingJobs >= Cardinality(jobq) + quitTokens + Cardinality(Busy) + Cardinality(Pushing)

\* No thread has met a directory it cannot open.
Unharmed == ~raised /\ \A w \in Walkers : walkPC[w] # "throw"

\* Where a directory of the tree is until some thread has opened it.
Opened == UNION {output[w] : w \in Walkers}
Ahead == jobq \cup UNION {entries[w] : w \in Walkers}
Covered ==
  /\ Unharmed => /\ Root \in Opened \cup Ahead
                 /\ \A d \in Opened : SubDirs[d] \subseteq Opened \cup Ahead
  /\ Opened \cap unreadable = {}
  /\ \A w \in Walkers : entries[w] # {} => walkPC[w] \in {"read", "push"}
  /\ \A w \in Walkers : walkPC[w] = "push" => entries[w] # {}

\* The first thread to quit is the last to finish.
Quitting == quitTokens > 0 \/ \E w \in Walkers : walkPC[w] \in {"quit", "report", "done"}
QuitAtTheEnd == Unharmed /\ Quitting => jobq = {} /\ Busy = {}

Reports ==
  /\ \A w \in reported : walkPC[w] \in {"caught", "done"}
  /\ ~raised => \A w \in Walkers : walkPC[w] # "caught" /\ (w \in reported => output[w] \subseteq allPaths)
  /\ ~Unharmed => unreadable # {}
  /\ returned => reported = Walkers

WalkInv == WalkTyped /\ Account /\ Covered /\ QuitAtTheEnd /\ Reports

-----------------------------------------------------------------------------
\* The sets that are counted are finite.
LEMMA Finite ==
  ASSUME WalkTyped
  PROVE  /\ IsFiniteSet(jobq) /\ IsFiniteSet(Busy) /\ IsFiniteSet(Pushing)
         /\ Cardinality(jobq) \in Nat /\ Cardinality(Busy) \in Nat /\ Cardinality(Pushing) \in Nat
         /\ numWorkers \in Nat /\ numWorkers > 0
<1>1. IsFiniteSet(jobq)
  BY TreeAssumption, FS_Subset DEF WalkTyped
<1>2. IsFiniteSet(Busy) /\ IsFiniteSet(Pushing)
  BY TreeAssumption, FS_Subset DEF Busy, Pushing
<1>3. numWorkers \in Nat /\ numWorkers # 0
  BY TreeAssumption, FS_CardinalityType, FS_EmptySet DEF numWorkers
<1> QED
  BY <1>1, <1>2, <1>3, FS_CardinalityType

\* Initially the root is queued and counted.
LEMMA WalkInitInv == WalkInit => WalkInv
<1> SUFFICES ASSUME WalkInit PROVE WalkInv
  OBVIOUS
<1> USE TreeAssumption DEF WalkInit
<1>1. WalkTyped
  <2>1. "pop" \in Places
    BY DEF Places
  <2>2. walkPC \in [Walkers -> Places] /\ dir \in [Walkers -> Dirs]
    BY <2>1
  <2>3. entries \in [Walkers -> SUBSET Dirs] /\ output \in [Walkers -> SUBSET Dirs]
    OBVIOUS
  <2> QED
    BY <2>2, <2>3 DEF WalkTyped
<1>2. Account
  <2>1. Cardinality(Busy) = 0 /\ Cardinality(Pushing) = 0
    BY FS_EmptySet, Zenon DEF Busy, Pushing
  <2>2. Cardinality(jobq) = 1
    BY FS_Singleton, Zenon
  <2> QED
    BY <2>1, <2>2 DEF Account
<1>3. Covered
  BY DEF Covered, Opened, Ahead
<1>4. QuitAtTheEnd /\ Reports
  BY DEF QuitAtTheEnd, Quitting, Reports, Unharmed
<1> QED
  BY <1>1, <1>2, <1>3, <1>4 DEF WalkInv

-----------------------------------------------------------------------------
\* A thread that comes to a busy place, or leaves one, is counted.
LEMMA BusyMoves ==
  ASSUME WalkTyped, NEW w \in Walkers, NEW place \in Places, walkPC' = [walkPC EXCEPT ![w] = place]
  PROVE  /\ place \in {"read", "push", "throw"} =>
              /\ Busy' = Busy \cup {w}
              /\ w \in Busy => Cardinality(Busy') = Cardinality(Busy)
              /\ w \notin Busy => Cardinality(Busy') = Cardinality(Busy) + 1
         /\ place \notin {"read", "push", "throw"} =>
              /\ Busy' = Busy \ {w}
              /\ w \in Busy => Cardinality(Busy') = Cardinality(Busy) - 1
              /\ w \notin Busy => Cardinality(Busy') = Cardinality(Busy)
         /\ place = "push" /\ w \notin Pushing => Cardinality(Pushing') = Cardinality(Pushing) + 1
         /\ place # "push" /\ w \in Pushing => Cardinality(Pushing') = Cardinality(Pushing) - 1
         /\ place # "push" /\ w \notin Pushing => Cardinality(Pushing') = Cardinality(Pushing)
<1>1. /\ place \in {"read", "push", "throw"} => Busy' = Busy \cup {w}
      /\ place \notin {"read", "push", "throw"} => Busy' = Busy \ {w}
  BY DEF Busy, WalkTyped
<1>2. /\ place = "push" => Pushing' = Pushing \cup {w}
      /\ place # "push" => Pushing' = Pushing \ {w}
  BY DEF Pushing, WalkTyped
<1>3. /\ w \in Busy => Cardinality(Busy \cup {w}) = Cardinality(Busy)
      /\ w \notin Busy => Cardinality(Busy \cup {w}) = Cardinality(Busy) + 1
  BY Finite, FS_AddElement, Zenon
<1>4. /\ w \in Busy => Cardinality(Busy \ {w}) = Cardinality(Busy) - 1
      /\ w \notin Busy => Cardinality(Busy \ {w}) = Cardinality(Busy)
  BY Finite, FS_RemoveElement, Zenon
<1>5. w \notin Pushing => Cardinality(Pushing \cup {w}) = Cardinality(Pushing) + 1
  BY Finite, FS_AddElement, Zenon
<1>6. /\ w \in Pushing => Cardinality(Pushing \ {w}) = Cardinality(Pushing) - 1
      /\ w \notin Pushing => Cardinality(Pushing \ {w}) = Cardinality(Pushing)
  BY Finite, FS_RemoveElement, Zenon
<1> QED
  BY <1>1, <1>2, <1>3, <1>4, <1>5, <1>6

\* Every step preserves the inductive invariant.
LEMMA WalkStepInv == WalkInv /\ [WalkNext]_walkVars => WalkInv'
<1> SUFFICES ASSUME WalkInv, [WalkNext]_walkVars PROVE WalkInv'
  OBVIOUS
<1> USE DEF WalkInv
<1>1. ASSUME NEW w \in Walkers, openDir(w) PROVE WalkInv'
  <2>1. PICK d \in jobq \ unreadable :
          /\ jobq' = jobq \ {d} /\ dir' = [dir EXCEPT ![w] = d]
          /\ entries' = [entries EXCEPT ![w] = SubDirs[d]]
          /\ output' = [output EXCEPT ![w] = @ \cup {d}]
    BY <1>1, Zenon DEF openDir
  <2>2. /\ walkPC[w] = "pop" /\ walkPC' = [walkPC EXCEPT ![w] = "read"]
        /\ UNCHANGED <<unreadable, quitTokens, pendingJobs, reported, raised, allPaths, returned>>
    BY <1>1 DEF openDir, walkTo, resultVars
  <2>3. WalkTyped'
    BY <2>1, <2>2, TreeAssumption DEF WalkTyped, Places
  <2>4. Account'
    <3>1. w \notin Busy /\ w \notin Pushing
      BY <2>2 DEF Busy, Pushing
    <3>2. Cardinality(Busy') = Cardinality(Busy) + 1 /\ Cardinality(Pushing') = Cardinality(Pushing)
      BY <2>2, <3>1, BusyMoves, Zenon DEF Places
    <3>3. Cardinality(jobq') = Cardinality(jobq) - 1
      BY <2>1, Finite, FS_RemoveElement, Zenon
    <3> QED
      BY <2>2, <3>2, <3>3, Finite DEF Account, WalkTyped
  <2>5. Covered'
    <3>1. Opened' = Opened \cup {d}
      BY <2>1 DEF Opened, WalkTyped
    <3>2. entries[w] = {}
      BY <2>2 DEF Covered
    <3>3. Ahead \subseteq Ahead' \cup {d} /\ SubDirs[d] \subseteq Ahead'
      BY <2>1, <3>2, TreeAssumption DEF Ahead, WalkTyped
    <3>4. \A v \in Walkers : /\ entries'[v] # {} => walkPC'[v] \in {"read", "push"}
                             /\ walkPC'[v] = "push" => entries'[v] # {}
      BY <2>1, <2>2 DEF Covered, WalkTyped
    <3> QED
      BY <2>1, <2>2, <3>1, <3>3, <3>4 DEF Covered, Unharmed, WalkTyped
  <2>6. QuitAtTheEnd'
    BY <2>1, <2>2 DEF QuitAtTheEnd, Quitting, Unharmed, WalkTyped, Busy
  <2>7. Reports'
    BY <2>1, <2>2 DEF Reports, Unharmed, WalkTyped
  <2> QED
    BY <2>3, <2>4, <2>5, <2>6, <2>7
<1>2. ASSUME NEW w \in Walkers, openFails(w) PROVE WalkInv'
  <2>1. PICK d \in jobq \cap unreadable : jobq' = jobq \ {d} /\ dir' = [dir EXCEPT ![w] = d]
    BY <1>2, Zenon DEF openFails
  <2>2. /\ walkPC[w] = "pop" /\ walkPC' = [walkPC EXCEPT ![w] = "throw"]
        /\ UNCHANGED <<unreadable, quitTokens, pendingJobs, entries, output, reported, raised, allPaths, returned>>
    BY <1>2 DEF openFails, walkTo, resultVars
  <2>3. WalkTyped'
    BY <2>1, <2>2 DEF WalkTyped, Places
  <2>4. Account'
    <3>1. w \notin Busy /\ w \notin Pushing
      BY <2>2 DEF Busy, Pushing
    <3>2. Cardinality(Busy') = Cardinality(Busy) + 1 /\ Cardinality(Pushing') = Cardinality(Pushing)
      BY <2>2, <3>1, BusyMoves, Zenon DEF Places
    <3>3. Cardinality(jobq') = Cardinality(jobq) - 1
      BY <2>1, Finite, FS_RemoveElement, Zenon
    <3> QED
      BY <2>2, <3>2, <3>3, Finite DEF Account, WalkTyped
  <2>5. Covered'
    <3>1. ~Unharmed'
      BY <2>2 DEF Unharmed, WalkTyped
    <3> QED
      BY <2>2, <3>1 DEF Covered, Opened, WalkTyped
  <2>6. QuitAtTheEnd'
    BY <2>1, <2>2 DEF QuitAtTheEnd, Unharmed, WalkTyped
  <2>7. Reports'
    BY <2>1, <2>2 DEF Reports, Unharmed, WalkTyped
  <2> QED
    BY <2>3, <2>4, <2>5, <2>6, <2>7
<1>3. ASSUME NEW w \in Walkers, popQuitToken(w) PROVE WalkInv'
  <2>1. /\ walkPC[w] = "pop" /\ walkPC' = [walkPC EXCEPT ![w] = "report"]
        /\ quitTokens > 0 /\ quitTokens' = quitTokens - 1
        /\ UNCHANGED <<unreadable, jobq, pendingJobs, dir, entries, output, reported, raised, allPaths, returned>>
    BY <1>3 DEF popQuitToken, walkTo, resultVars
  <2>2. WalkTyped'
    BY <2>1 DEF WalkTyped, Places
  <2>3. w \notin Busy /\ w \notin Pushing
    BY <2>1 DEF Busy, Pushing
  <2>4. /\ Busy' = Busy \ {w} /\ Cardinality(Busy') = Cardinality(Busy)
        /\ Cardinality(Pushing') = Cardinality(Pushing)
    BY <2>1, <2>3, BusyMoves, Zenon DEF Places
  <2>5. Account'
    BY <2>1, <2>4, Finite DEF Account, WalkTyped
  <2>6. Covered'
    BY <2>1 DEF Covered, Unharmed, Opened, Ahead, WalkTyped
  <2>7. QuitAtTheEnd'
    BY <2>1, <2>4 DEF QuitAtTheEnd, Quitting, Unharmed, WalkTyped
  <2>8. Reports'
    BY <2>1 DEF Reports, Unharmed, WalkTyped
  <2> QED
    BY <2>2, <2>5, <2>6, <2>7, <2>8
<1>4. ASSUME NEW w \in Walkers, countEntry(w) PROVE WalkInv'
  <2>1. /\ walkPC[w] = "read" /\ entries[w] # {} /\ walkPC' = [walkPC EXCEPT ![w] = "push"]
        /\ pendingJobs' = pendingJobs + 1
        /\ UNCHANGED <<unreadable, jobq, quitTokens, dir, entries, output, reported, raised, allPaths, returned>>
    BY <1>4 DEF countEntry, walkTo, resultVars
  <2>2. WalkTyped'
    BY <2>1 DEF WalkTyped, Places
  <2>3. w \in Busy /\ w \notin Pushing
    BY <2>1 DEF Busy, Pushing
  <2>4. Cardinality(Busy') = Cardinality(Busy) /\ Cardinality(Pushing') = Cardinality(Pushing) + 1
    BY <2>1, <2>3, BusyMoves, Zenon DEF Places
  <2>5. Account'
    BY <2>1, <2>4, Finite DEF Account, WalkTyped
  <2>6. Covered'
    BY <2>1 DEF Covered, Unharmed, Opened, Ahead, WalkTyped
  <2>7. QuitAtTheEnd'
    BY <2>1, <2>3 DEF QuitAtTheEnd, Quitting, Unharmed, WalkTyped
  <2>8. Reports'
    BY <2>1 DEF Reports, Unharmed, WalkTyped
  <2> QED
    BY <2>2, <2>5, <2>6, <2>7, <2>8
<1>5. ASSUME NEW w \in Walkers, pushEntry(w) PROVE WalkInv'
  <2>1. PICK d \in entries[w] : jobq' = jobq \cup {d} /\ entries' = [entries EXCEPT ![w] = @ \ {d}]
    BY <1>5, Zenon DEF pushEntry
  <2>2. /\ walkPC[w] = "push" /\ walkPC' = [walkPC EXCEPT ![w] = "read"]
        /\ UNCHANGED <<unreadable, quitTokens, pendingJobs, dir, output, reported, raised, allPaths, returned>>
    BY <1>5 DEF pushEntry, walkTo, resultVars
  <2>3. WalkTyped'
    BY <2>1, <2>2 DEF WalkTyped, Places
  <2>4. w \in Busy /\ w \in Pushing
    BY <2>2 DEF Busy, Pushing
  <2>5. Account'
    <3>1. Cardinality(Busy') = Cardinality(Busy) /\ Cardinality(Pushing') = Cardinality(Pushing) - 1
      BY <2>2, <2>4, BusyMoves, Zenon DEF Places
    <3>2. Cardinality(jobq') = Cardinality(jobq) \/ Cardinality(jobq') = Cardinality(jobq) + 1
      BY <2>1, Finite, FS_AddElement, Zenon
    <3> QED
      BY <2>2, <3>1, <3>2, Finite DEF Account, WalkTyped
  <2>6. Covered'
    <3>1. Ahead \subseteq Ahead' /\ Opened' = Opened
      BY <2>1, <2>2 DEF Ahead, Opened, WalkTyped
    <3>2. \A v \in Walkers : /\ entries'[v] # {} => walkPC'[v] \in {"read", "push"}
                             /\ walkPC'[v] = "push" => entries'[v] # {}
      BY <2>1, <2>2 DEF Covered, WalkTyped
    <3> QED
      BY <2>2, <3>1, <3>2 DEF Covered, Unharmed, WalkTyped
  <2>7. QuitAtTheEnd'
    BY <2>2, <2>4 DEF QuitAtTheEnd, Quitting, Unharmed, WalkTyped
  <2>8. Reports'
    BY <2>2 DEF Reports, Unharmed, WalkTyped
  <2> QED
    BY <2>3, <2>5, <2>6, <2>7, <2>8
<1>6. ASSUME NEW w \in Walkers, finishDir(w) PROVE WalkInv'
  <2>1. /\ walkPC[w] = "read" /\ entries[w] = {} /\ pendingJobs' = pendingJobs - 1
        /\ pendingJobs' = 0 => walkPC' = [walkPC EXCEPT ![w] = "quit"]
        /\ pendingJobs' # 0 => walkPC' = [walkPC EXCEPT ![w] = "pop"]
        /\ UNCHANGED <<unreadable, jobq, quitTokens, dir, entries, output, reported, raised, allPaths, returned>>
    BY <1>6, Zenon DEF finishDir, walkTo, resultVars
  <2>2. WalkTyped'
    BY <2>1 DEF WalkTyped, Places
  <2>3. w \in Busy /\ w \notin Pushing
    BY <2>1 DEF Busy, Pushing
  <2>4. /\ Cardinality(Busy') = Cardinality(Busy) - 1 /\ Cardinality(Pushing') = Cardinality(Pushing)
    BY <2>1, <2>3, BusyMoves DEF Places
  <2>5. Account'
    BY <2>1, <2>4, Finite DEF Account, WalkTyped
  <2>6. Covered'
    BY <2>1 DEF Covered, Unharmed, Opened, Ahead, WalkTyped
  <2>7. QuitAtTheEnd'
    <3>1. CASE pendingJobs' = 0
      <4>1. IsFiniteSet(jobq') /\ IsFiniteSet(Busy') /\ IsFiniteSet(Pushing')
        <5>1. jobq' \in SUBSET Dirs /\ Busy' \in SUBSET Walkers /\ Pushing' \in SUBSET Walkers
          BY <2>2 DEF WalkTyped, Busy, Pushing
        <5> QED
          BY <5>1, TreeAssumption, FS_Subset
      <4>2. Cardinality(jobq') = 0 /\ Cardinality(Busy') = 0
        <5>1. Cardinality(jobq') \in Nat /\ Cardinality(Busy') \in Nat /\ Cardinality(Pushing') \in Nat
          BY <4>1, FS_CardinalityType
        <5>2. 0 >= Cardinality(jobq') + quitTokens' + Cardinality(Busy') + Cardinality(Pushing')
          BY <3>1, <2>5 DEF Account
        <5>3. quitTokens' \in Nat
          BY <2>2 DEF WalkTyped
        <5> QED
          BY ONLY <5>1, <5>2, <5>3
      <4>3. jobq' = {} /\ Busy' = {}
        BY <4>1, <4>2, FS_EmptySet
      <4> QED
        BY <4>3 DEF QuitAtTheEnd
    <3>2. CASE pendingJobs' # 0
      BY <3>2, <2>1, <2>3 DEF QuitAtTheEnd, Quitting, Unharmed, WalkTyped
    <3> QED
      BY <3>1, <3>2
  <2>8. Reports'
    BY <2>1 DEF Reports, Unharmed, WalkTyped
  <2> QED
    BY <2>2, <2>5, <2>6, <2>7, <2>8
<1>7. ASSUME NEW w \in Walkers, signalQuit(w) PROVE WalkInv'
  <2>1. /\ walkPC[w] = "quit" /\ walkPC' = [walkPC EXCEPT ![w] = "report"]
        /\ pendingJobs' = pendingJobs + numWorkers /\ quitTokens' = quitTokens + numWorkers
        /\ UNCHANGED <<unreadable, jobq, dir, entries, output, reported, raised, allPaths, returned>>
    BY <1>7 DEF signalQuit, walkTo, resultVars
  <2>2. WalkTyped'
    BY <2>1, Finite DEF WalkTyped, Places
  <2>3. w \notin Busy /\ w \notin Pushing
    BY <2>1 DEF Busy, Pushing
  <2>4. /\ Busy' = Busy \ {w} /\ Cardinality(Busy') = Cardinality(Busy)
        /\ Cardinality(Pushing') = Cardinality(Pushing)
    BY <2>1, <2>3, BusyMoves, Zenon DEF Places
  <2>5. Account'
    BY <2>1, <2>4, Finite DEF Account, WalkTyped
  <2>6. Covered'
    BY <2>1 DEF Covered, Unharmed, Opened, Ahead, WalkTyped
  <2>7. QuitAtTheEnd'
    BY <2>1, <2>4 DEF QuitAtTheEnd, Quitting, Unharmed, WalkTyped
  <2>8. Reports'
    BY <2>1, SMTT(20) DEF Reports, Unharmed, WalkTyped
  <2> QED
    BY <2>2, <2>5, <2>6, <2>7, <2>8
<1>8. ASSUME NEW w \in Walkers, report(w) PROVE WalkInv'
  <2>1. /\ walkPC[w] = "report" /\ walkPC' = [walkPC EXCEPT ![w] = "done"]
        /\ reported' = reported \cup {w} /\ allPaths' = allPaths \cup output[w]
        /\ UNCHANGED <<unreadable, jobq, quitTokens, pendingJobs, dir, entries, output, raised, returned>>
    BY <1>8 DEF report, walkTo
  <2>2. WalkTyped'
    BY <2>1 DEF WalkTyped, Places
  <2>3. w \notin Busy /\ w \notin Pushing
    BY <2>1 DEF Busy, Pushing
  <2>4. /\ Busy' = Busy \ {w} /\ Cardinality(Busy') = Cardinality(Busy)
        /\ Cardinality(Pushing') = Cardinality(Pushing)
    BY <2>1, <2>3, BusyMoves, Zenon DEF Places
  <2>5. Account'
    BY <2>1, <2>4, Finite DEF Account, WalkTyped
  <2>6. Covered'
    BY <2>1 DEF Covered, Unharmed, Opened, Ahead, WalkTyped
  <2>7. QuitAtTheEnd'
    BY <2>1, <2>4 DEF QuitAtTheEnd, Quitting, Unharmed, WalkTyped
  <2>8. Reports'
    BY <2>1 DEF Reports, Unharmed, WalkTyped
  <2> QED
    BY <2>2, <2>5, <2>6, <2>7, <2>8
<1>9. ASSUME NEW w \in Walkers, reportException(w) PROVE WalkInv'
  <2>1. /\ walkPC[w] = "throw" /\ walkPC' = [walkPC EXCEPT ![w] = "caught"]
        /\ reported' = reported \cup {w} /\ raised' = TRUE
        /\ UNCHANGED <<unreadable, jobq, quitTokens, pendingJobs, dir, entries, output, allPaths, returned>>
    BY <1>9 DEF reportException, walkTo
  <2>2. WalkTyped'
    BY <2>1 DEF WalkTyped, Places
  <2>3. w \in Busy /\ w \notin Pushing
    BY <2>1 DEF Busy, Pushing
  <2>4. Cardinality(Busy') = Cardinality(Busy) - 1 /\ Cardinality(Pushing') = Cardinality(Pushing)
    BY <2>1, <2>3, BusyMoves, Zenon DEF Places
  <2>5. Account'
    BY <2>1, <2>4, Finite DEF Account, WalkTyped
  <2>6. Covered'
    BY <2>1 DEF Covered, Unharmed, Opened, WalkTyped
  <2>7. QuitAtTheEnd'
    BY <2>1 DEF QuitAtTheEnd, Unharmed
  <2>8. Reports'
    BY <2>1 DEF Reports, Unharmed, WalkTyped
  <2> QED
    BY <2>2, <2>5, <2>6, <2>7, <2>8
<1>10. ASSUME NEW w \in Walkers, quitAfterException(w) PROVE WalkInv'
  <2>1. /\ walkPC[w] = "caught" /\ walkPC' = [walkPC EXCEPT ![w] = "done"]
        /\ pendingJobs' = pendingJobs + numWorkers /\ quitTokens' = quitTokens + numWorkers
        /\ UNCHANGED <<unreadable, jobq, dir, entries, output, reported, raised, allPaths, returned>>
    BY <1>10 DEF quitAfterException, walkTo, resultVars
  <2>2. WalkTyped' /\ raised
    BY <2>1, Finite DEF WalkTyped, Places, Reports
  <2>3. w \notin Busy /\ w \notin Pushing
    BY <2>1 DEF Busy, Pushing
  <2>4. Cardinality(Busy') = Cardinality(Busy) /\ Cardinality(Pushing') = Cardinality(Pushing)
    BY <2>1, <2>3, BusyMoves, Zenon DEF Places
  <2>5. Account'
    BY <2>1, <2>4, Finite DEF Account, WalkTyped
  <2>6. Covered'
    BY <2>1 DEF Covered, Unharmed, Opened, Ahead, WalkTyped
  <2>7. QuitAtTheEnd'
    BY <2>1, <2>2 DEF QuitAtTheEnd, Unharmed
  <2>8. Reports'
    BY <2>1, <2>2, Zenon DEF Reports, Unharmed, WalkTyped
  <2> QED
    BY <2>2, <2>5, <2>6, <2>7, <2>8
<1>11. CASE return
  BY <1>11, SMTT(20) DEF return, WalkTyped, Account, Covered, QuitAtTheEnd, Reports, Opened, Ahead, Unharmed, Quitting, Busy, Pushing
<1>12. CASE UNCHANGED walkVars
  BY <1>12 DEF walkVars, WalkTyped, Account, Covered, QuitAtTheEnd, Reports, Opened, Ahead, Unharmed, Quitting, Busy, Pushing
<1> QED
  BY <1>1, <1>2, <1>3, <1>4, <1>5, <1>6, <1>7, <1>8, <1>9, <1>10, <1>11, <1>12 DEF WalkNext, walkStep

-----------------------------------------------------------------------------
(***************************************************************************)
(* Whoever brings pendingJobs to zero has finished the last directory, for *)
(* any tree and any number of threads.                                     *)
(***************************************************************************)
THEOREM PendingCovers == WalkSpec => []PendingCoversTheQueue
<1>1. WalkInv => PendingCoversTheQueue
  <2> SUFFICES ASSUME WalkInv PROVE PendingCoversTheQueue
    OBVIOUS
  <2>1. WalkTyped /\ Account
    BY DEF WalkInv
  <2> QED
    BY <2>1, Finite DEF Account, WalkTyped, PendingCoversTheQueue
<1> QED
  BY WalkInitInv, WalkStepInv, <1>1, PTL DEF WalkSpec

(***************************************************************************)
(* The list is complete, or an exception is raised, for any tree.          *)
(***************************************************************************)
THEOREM WalkIsComplete == WalkSpec => []CompleteOrRaised
<1>1. WalkInv => CompleteOrRaised
  <2> SUFFICES ASSUME WalkInv, returned PROVE CompleteOrRaised
    BY DEF CompleteOrRaised
  <2> USE DEF WalkInv
  <2>1. CASE ~raised
    <3>1. Unharmed /\ Quitting /\ Opened \subseteq allPaths
      <4>1. \A w \in Walkers : walkPC[w] = "done" /\ output[w] \subseteq allPaths
        BY <2>1 DEF Reports
      <4> QED
        BY <4>1, <2>1, TreeAssumption DEF Unharmed, Quitting, Opened
    <3>2. Ahead = {}
      BY <3>1 DEF QuitAtTheEnd, Ahead, Covered, Busy
    <3>3. Opened = Dirs
      <4>1. Opened \in SUBSET Dirs /\ Root \in Opened /\ \A d \in Opened : SubDirs[d] \subseteq Opened
        BY <3>1, <3>2 DEF Covered, Opened, WalkTyped
      <4> QED
        BY <4>1, TreeAssumption
    <3>4. allPaths = Dirs /\ unreadable = {}
      BY <3>1, <3>3, Zenon DEF Covered, WalkTyped
    <3> QED
      BY <3>4, <2>1 DEF CompleteOrRaised
  <2>2. CASE raised
    BY <2>2 DEF CompleteOrRaised, Reports, Unharmed
  <2> QED
    BY <2>1, <2>2
<1> QED
  BY WalkInitInv, WalkStepInv, <1>1, PTL DEF WalkSpec

-----------------------------------------------------------------------------
(***************************************************************************)
(* WorkerJobs.                                                             *)
(*                                                                         *)
(* The safety properties of WorkerJobs for any number of jobs and workers, *)
(* however often a worker pushes.                                          *)
(***************************************************************************)

\* A job is in one place: in the queue, with one worker, or counted.
OneOwner ==
  /\ \A b \in fileq : b # {} /\ b \cap counted = {} /\ \A w \in Workers : b \cap processed[w] = {}
  /\ \A a, b \in fileq : a # b => a \cap b = {}
  /\ \A w \in Workers : processed[w] \cap counted = {}
  /\ \A v, w \in Workers : v # w => processed[v] \cap processed[w] = {}
  /\ \A w \in Workers : threadPC[w] \in {"work", "enqueue", "subtract"} => processed[w] # {}

\* What the queue still expects is what has not been counted.
Accounting == leftToPush = Cardinality(Jobs \ counted)

Delivered(j) == j \in received \/ \E e \in resultq : j \in e.results

\* Where the result of a job is, as long as none is skipped.
Kept ==
  ~canceled =>
    /\ \A w \in Workers : \A j \in processed[w] :
         /\ threadPC[w] \in {"start", "pop", "enqueue", "done"} => j \in threadResult[w]
         /\ threadPC[w] = "work" => j \in threadResult[w] \/ j \in job[w]
         /\ threadPC[w] = "subtract" => Delivered(j)
    /\ \A j \in counted : Delivered(j)

\* What the caller knows when a pop tells it not to retry.
Ending ==
  /\ consumer = "dequeue" /\ ~shouldRetry => counted = Jobs
  /\ consumer = "done" => counted = Jobs /\ resultq = {}

JobsInv == TypeOK /\ OneOwner /\ Accounting /\ Kept /\ Ending

-----------------------------------------------------------------------------
\* Initially every job is expected and in one batch of the queue.
LEMMA JobsInitInv == JobsInit => JobsInv
<1> SUFFICES ASSUME JobsInit PROVE JobsInv
  OBVIOUS
<1> USE DEF JobsInit
<1>1. IsPartition(fileq)
  OBVIOUS
<1>2. Cardinality(Jobs) \in Nat
  BY FS_CardinalityType, JobsAssumption
<1>3. TypeOK
  BY <1>1, <1>2, Zenon DEF TypeOK, IsPartition
<1>4. OneOwner
  <2>1. \A w \in Workers : processed[w] = {} /\ threadPC[w] = "start"
    OBVIOUS
  <2>2. \A b \in fileq : b # {}
    BY <1>1 DEF IsPartition
  <2>3. \A a, b \in fileq : a # b => a \cap b = {}
    BY <1>1 DEF IsPartition
  <2> QED
    BY <2>1, <2>2, <2>3 DEF OneOwner
<1>5. Accounting
  <2>1. Jobs \ {} = Jobs
    OBVIOUS
  <2> QED
    BY <2>1 DEF Accounting
<1>6. Kept /\ Ending
  BY DEF Kept, Ending
<1> QED
  BY <1>3, <1>4, <1>5, <1>6 DEF JobsInv

\* The count is zero exactly when every job has been counted.
LEMMA ZeroMeansAll ==
  ASSUME TypeOK, Accounting
  PROVE  leftToPush = 0 <=> counted = Jobs
<1>1. IsFiniteSet(Jobs \ counted)
  BY FS_Difference, JobsAssumption, Zenon
<1>2. leftToPush = 0 <=> Jobs \ counted = {}
  BY <1>1, FS_EmptySet DEF Accounting
<1> QED
  BY <1>2, Zenon DEF TypeOK

\* A push of jobs that were not counted before keeps the account.
LEMMA SubtractAccount ==
  ASSUME NEW C \in SUBSET Jobs, NEW P \in SUBSET Jobs, P \cap C = {}
  PROVE  /\ Cardinality(Jobs \ (C \cup P)) = Cardinality(Jobs \ C) - Cardinality(P)
         /\ Cardinality(Jobs \ (C \cup P)) \in Nat
<1>1. IsFiniteSet(Jobs \ C)
  BY FS_Difference, JobsAssumption
<1>2. /\ IsFiniteSet((Jobs \ C) \ P)
      /\ Cardinality((Jobs \ C) \ P) = Cardinality(Jobs \ C) - Cardinality((Jobs \ C) \cap P)
  BY <1>1, FS_Difference
<1>3. (Jobs \ C) \ P = Jobs \ (C \cup P) /\ (Jobs \ C) \cap P = P
  BY Zenon
<1> QED
  BY <1>2, <1>3, FS_CardinalityType, Zenon

\* Every step preserves the inductive invariant.
LEMMA JobsStepInv == JobsInv /\ [JobsNext]_jobsVars => JobsInv'
<1> SUFFICES ASSUME JobsInv, [JobsNext]_jobsVars PROVE JobsInv'
  OBVIOUS
<1> USE DEF JobsInv
<1>1. CASE cancel
  <2> USE <1>1 DEF cancel, queueVars, consumerVars
  <2>1. TypeOK'
    BY DEF TypeOK
  <2>2. (OneOwner /\ Accounting)'
    BY DEF OneOwner, Accounting
  <2>3. (Kept /\ Ending)'
    BY DEF Kept, Ending
  <2> QED
    BY <2>1, <2>2, <2>3
<1>2. CASE load
  <2> USE <1>2 DEF load, queueVars, consumerVars
  <2>1. TypeOK'
    BY DEF TypeOK
  <2>2. (OneOwner /\ Accounting)'
    BY DEF OneOwner, Accounting
  <2>3. Kept'
    BY DEF Kept, Delivered
  <2>4. Ending'
    BY ZeroMeansAll, Zenon DEF Ending
  <2> QED
    BY <2>1, <2>2, <2>3, <2>4
<1>3. CASE gotItem
  <2> USE <1>3 DEF gotItem, queueVars, consumerVars
  <2>1. TypeOK'
    BY Zenon DEF TypeOK, Element
  <2>2. (OneOwner /\ Accounting)'
    BY Zenon DEF OneOwner, Accounting
  <2>3. \A j : Delivered(j) => Delivered(j)'
    BY DEF Delivered
  <2>4. Kept'
    BY <2>3 DEF Kept
  <2>5. Ending'
    BY DEF Ending
  <2> QED
    BY <2>1, <2>2, <2>4, <2>5
<1>4. CASE timedOut
  <2> USE <1>4 DEF timedOut, queueVars, consumerVars
  <2>1. TypeOK'
    BY DEF TypeOK
  <2>2. (OneOwner /\ Accounting)'
    BY DEF OneOwner, Accounting
  <2>3. Kept'
    BY DEF Kept, Delivered
  <2>4. Ending'
    BY DEF Ending
  <2> QED
    BY <2>1, <2>2, <2>3, <2>4
<1>5. ASSUME NEW w \in Workers, start(w) \/ skipJob(w) \/ noMoreJobs(w) PROVE JobsInv'
  <2> DEFINE goesOn(place) == /\ place = "enqueue" => processed[w] # {}
                              /\ threadPC' = [threadPC EXCEPT ![w] = place]
  <2>1. \E place \in {"pop", "enqueue", "done"} : goesOn(place)
    BY <1>5, Zenon DEF start, skipJob, noMoreJobs
  <2>2. PICK place \in {"pop", "enqueue", "done"} : goesOn(place)
    BY <2>1, Zenon
  <2>3. ~canceled => threadPC[w] \in {"start", "pop"}
    BY <1>5, Zenon DEF start, skipJob, noMoreJobs
  <2>4. UNCHANGED <<fileq, canceled, job, processed, threadResult, queueVars, consumerVars>>
    BY <1>5, Zenon DEF start, skipJob, noMoreJobs
  <2>5. TypeOK /\ OneOwner /\ Accounting /\ Kept /\ Ending
    BY Zenon
  <2>6. TypeOK'
    BY ONLY <2>2, <2>4, <2>5, Zenon DEF TypeOK, queueVars, consumerVars
  <2>7. OneOwner'
    BY ONLY <2>2, <2>4, <2>5, SMTT(30) DEF OneOwner, TypeOK, queueVars
  <2>8. Accounting'
    BY ONLY <2>4, <2>5, Zenon DEF Accounting, queueVars
  <2>9. Kept'
    BY ONLY <2>2, <2>3, <2>4, <2>5, SMTT(30) DEF Kept, Delivered, TypeOK, queueVars, consumerVars
  <2>10. Ending'
    BY ONLY <2>4, <2>5, Zenon DEF Ending, queueVars, consumerVars
  <2> QED
    BY <2>6, <2>7, <2>8, <2>9, <2>10, Zenon
<1>6. ASSUME NEW w \in Workers, popJob(w) PROVE JobsInv'
  <2> USE <1>6 DEF popJob, queueVars, consumerVars
  <2>1. TypeOK'
    BY SMTT(30) DEF TypeOK
  <2>2. OneOwner'
    BY SMTT(30) DEF OneOwner, TypeOK
  <2>3. Accounting'
    BY Zenon DEF Accounting
  <2>4. Kept'
    BY SMTT(30) DEF Kept, Delivered, TypeOK
  <2>5. Ending'
    BY SMTT(30) DEF Ending
  <2> QED
    BY <2>1, <2>2, <2>3, <2>4, <2>5, Zenon
<1>7. ASSUME NEW w \in Workers, doJob(w) PROVE JobsInv'
  <2> USE <1>7 DEF doJob, queueVars, consumerVars
  <2>1. TypeOK'
    BY SMTT(30) DEF TypeOK
  <2>2. OneOwner'
    BY SMTT(30) DEF OneOwner, TypeOK
  <2>3. Accounting'
    BY Zenon DEF Accounting
  <2>4. Kept'
    BY SMTT(30) DEF Kept, Delivered, TypeOK
  <2>5. Ending'
    BY Zenon DEF Ending
  <2> QED
    BY <2>1, <2>2, <2>3, <2>4, <2>5, Zenon
<1>8. ASSUME NEW w \in Workers, enqueue(w) PROVE JobsInv'
  <2> USE <1>8 DEF enqueue, queueVars, consumerVars
  <2>1. TypeOK'
    BY SMTT(20) DEF TypeOK, Element
  <2>2. OneOwner'
    BY SMTT(30) DEF OneOwner, TypeOK
  <2>3. Accounting'
    BY SMTT(30) DEF Accounting
  <2>4. /\ \A j : Delivered(j) => Delivered(j)'
        /\ \A j \in threadResult[w] : Delivered(j)'
    <3> DEFINE e == [jobs |-> processed[w], results |-> threadResult[w]]
    <3>1. e \in resultq' /\ e.results = threadResult[w]
      OBVIOUS
    <3>2. resultq \subseteq resultq' /\ received' = received
      BY Zenon
    <3> HIDE DEF e
    <3> QED
      BY ONLY <3>1, <3>2, Zenon DEF Delivered
  <2>5. Kept'
    BY <2>4, Zenon DEF Kept, TypeOK
  <2>6. Ending'
    BY SMTT(30) DEF Ending, OneOwner, TypeOK
  <2> QED
    BY <2>1, <2>2, <2>3, <2>5, <2>6, Zenon
<1>9. ASSUME NEW w \in Workers, subtract(w) PROVE JobsInv'
  <2> USE <1>9 DEF subtract, queueVars, consumerVars
  <2>1. Cardinality(Jobs \ counted') = leftToPush' /\ leftToPush' \in Nat
    <3>1. processed[w] \in SUBSET Jobs /\ processed[w] \cap counted = {} /\ counted \in SUBSET Jobs
      BY SMTT(30) DEF OneOwner, TypeOK
    <3> QED
      BY <3>1, SubtractAccount, Zenon DEF Accounting
  <2>2. TypeOK'
    BY <2>1, Zenon DEF TypeOK
  <2>3. OneOwner'
    BY SMTT(30) DEF OneOwner, TypeOK
  <2>4. Accounting'
    BY <2>1, Zenon DEF Accounting
  <2>5. Kept'
    BY SMTT(30) DEF Kept, Delivered, TypeOK
  <2>6. Ending'
    BY Zenon DEF Ending, OneOwner, TypeOK
  <2> QED
    BY <2>2, <2>3, <2>4, <2>5, <2>6, SMTT(30)
<1>10. CASE UNCHANGED jobsVars
  BY <1>10, ZenonT(60) DEF jobsVars, queueVars, consumerVars, TypeOK, OneOwner, Accounting, Kept, Delivered, Ending
<1> QED
  BY <1>1, <1>2, <1>3, <1>4, <1>5, <1>6, <1>7, <1>8, <1>9, <1>10, Zenon DEF JobsNext, threadStep, consumerStep

(***************************************************************************)
(* The assertion of push holds for any jobs and workers.                   *)
(***************************************************************************)
THEOREM TypeCorrect == JobsSpec => []TypeOK
  BY JobsInitInv, JobsStepInv, PTL DEF JobsSpec, JobsInv

(***************************************************************************)
(* The caller's loop ends with every result, for any jobs and workers.     *)
(***************************************************************************)
THEOREM ResultsReceived == JobsSpec => []EveryResultIsReceived
<1>1. JobsInv => EveryResultIsReceived
  <2> SUFFICES ASSUME JobsInv, consumer = "done" PROVE EveryResultIsReceived
    BY DEF EveryResultIsReceived
  <2>1. counted = Jobs /\ resultq = {}
    BY DEF JobsInv, Ending
  <2>2. ~canceled => \A j \in Jobs : j \in received
    BY <2>1 DEF JobsInv, Kept, Delivered
  <2>3. received \subseteq Jobs
    BY DEF JobsInv, TypeOK
  <2> QED
    BY <2>1, <2>2, <2>3, Zenon DEF EveryResultIsReceived
<1> QED
  BY JobsInitInv, JobsStepInv, <1>1, PTL DEF JobsSpec

(***************************************************************************)
(* No worker uses the caller's variables after the call, for any jobs and  *)
(* workers: one that did would hold a job, and every job is counted.       *)
(***************************************************************************)
THEOREM NoneOutlivesTheCall == JobsSpec => []NoWorkerOutlivesTheCall
<1>1. JobsInv => NoWorkerOutlivesTheCall
  BY DEF JobsInv, NoWorkerOutlivesTheCall, Ending, OneOwner, TypeOK
<1> QED
  BY JobsInitInv, JobsStepInv, <1>1, PTL DEF JobsSpec
=============================================================================
