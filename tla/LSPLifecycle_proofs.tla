------------------------ MODULE LSPLifecycle_proofs ------------------------
(***************************************************************************)
(* The safety properties of LSPLifecycle, for any kinds and any number of  *)
(* messages of the client and of Watchman.                                 *)
(***************************************************************************)
EXTENDS LSPLifecycle, Integers, NaturalsInduction, WellFoundedInduction, TLAPS

(***************************************************************************)
(* Sequences.                                                              *)
(***************************************************************************)
\* Induction over the natural numbers, for a set.
LEMMA SetInduction ==
  ASSUME NEW S \in SUBSET Nat, 0 \in S, \A n \in S : n + 1 \in S
  PROVE  S = Nat
<1> DEFINE T == Nat \ S
<1> SUFFICES ASSUME T # {} PROVE FALSE
  BY Zenon
<1>1. IsWellFoundedOn(OpToRel(<, Nat), Nat)
  BY NatLessThanWellFounded, Zenon
<1>2. PICK x \in T : \A y \in T : ~(<<y, x>> \in OpToRel(<, Nat))
  BY <1>1, WFMin, Zenon
<1>3. x \in Nat /\ x # 0 /\ x - 1 \in Nat /\ x - 1 < x /\ x - 1 + 1 = x
  OBVIOUS
<1>4. x - 1 \notin T
  BY <1>2, <1>3, Zenon DEF OpToRel
<1> QED
  BY <1>3, <1>4, Zenon

\* A new item at the end of two queues in a row is at the end of the second.
LEMMA ConcatAppend ==
  ASSUME NEW T, NEW s \in Seq(T), NEW u \in Seq(T), NEW x \in T
  PROVE  s \o Append(u, x) = Append(s \o u, x) /\ s \o u \in Seq(T)
OBVIOUS

\* selected goes over the sequence once, from the front.
LEMMA SelectedUnfolds ==
  ASSUME NEW T, NEW s \in Seq(T), NEW kinds
  PROVE  \E f : /\ selected(s, kinds) = f[Len(s)]
                /\ \A n \in 0 .. Len(s) :
                     f[n] = IF n = 0 THEN <<>>
                            ELSE IF s[n] \in kinds THEN Append(f[n - 1], s[n]) ELSE f[n - 1]
<1> DEFINE value(f, n) == IF n = 0 THEN <<>>
                          ELSE IF s[n] \in kinds THEN Append(f[n - 1], s[n]) ELSE f[n - 1]
           Known == {m \in Nat : \E f : \A n \in 0 .. m : f[n] = value(f, n)}
<1>1. 0 \in Known
  <2> DEFINE f == [n \in {0} |-> <<>>]
  <2>1. \A n \in 0 .. 0 : n = 0 /\ f[n] = <<>>
    OBVIOUS
  <2> HIDE DEF f
  <2> QED
    BY <2>1, Zenon
<1>2. ASSUME NEW m \in Known PROVE m + 1 \in Known
  <2>1. PICK f : \A n \in 0 .. m : f[n] = value(f, n)
    BY Zenon
  <2> DEFINE g == [n \in 0 .. m + 1 |-> IF n = m + 1 THEN value(f, m + 1) ELSE f[n]]
  <2>2. /\ g[m + 1] = value(f, m + 1)
        /\ \A n \in 0 .. m : g[n] = f[n]
    <3> HIDE DEF value
    <3> QED
      OBVIOUS
  <2> HIDE DEF g
  <2>3. ASSUME NEW n \in 0 .. m + 1 PROVE value(g, n) = value(f, n)
    <3>1. n # 0 => n - 1 \in 0 .. m
      OBVIOUS
    <3> QED
      BY <2>2, <3>1, Zenon
  <2>4. \A n \in 0 .. m + 1 : g[n] = value(g, n)
    <3> HIDE DEF value
    <3>1. \A n \in 0 .. m + 1 : n = m + 1 \/ n \in 0 .. m
      OBVIOUS
    <3> QED
      BY <2>1, <2>2, <2>3, <3>1, Zenon
  <2> HIDE DEF value
  <2> QED
    BY <2>4
<1>3. Len(s) \in Known
  <2> HIDE DEF Known
  <2>1. Known \in SUBSET Nat
    BY Zenon DEF Known
  <2>2. Known = Nat
    BY <1>1, <1>2, <2>1, SetInduction, Zenon
  <2> QED
    BY <2>2
<1>4. PICK f : \A n \in 0 .. Len(s) : f[n] = value(f, n)
  BY <1>3, Zenon
<1> DEFINE good(t) == t = [n \in 0 .. Len(s) |-> value(t, n)]
           first == CHOOSE t : good(t)
           h == [n \in 0 .. Len(s) |-> f[n]]
<1>5. good(h)
  <2>1. \A n \in 0 .. Len(s) : h[n] = f[n]
    BY Zenon
  <2>2. ASSUME NEW n \in 0 .. Len(s) PROVE f[n] = value(h, n)
    <3>1. n # 0 => n - 1 \in 0 .. Len(s)
      OBVIOUS
    <3> HIDE DEF h
    <3> QED
      BY <1>4, <2>1, <3>1, Zenon
  <2> HIDE DEF value
  <2> QED
    BY <2>2, Zenon
<1>6. selected(s, kinds) = first[Len(s)]
  BY Zenon DEF selected
<1> HIDE DEF good, h
<1>7. good(first)
  BY <1>5, Zenon
<1> HIDE DEF first
<1>8. \A n \in 0 .. Len(s) : first[n] = value(first, n)
  BY <1>7, Zenon DEF good
<1> QED
  BY <1>6, <1>8, Zenon

\* Nothing is selected from nothing.
LEMMA SelectedEmpty ==
  ASSUME NEW kinds
  PROVE  selected(<<>>, kinds) = <<>>
<1> DEFINE s == <<>>
<1>0. s \in Seq(STRING)
  OBVIOUS
<1>1. Len(s) = 0 /\ 0 \in 0 .. 0
  OBVIOUS
<1> HIDE DEF s
<1>2. PICK f : /\ selected(s, kinds) = f[Len(s)]
               /\ \A n \in 0 .. Len(s) :
                    f[n] = IF n = 0 THEN <<>>
                           ELSE IF s[n] \in kinds THEN Append(f[n - 1], s[n]) ELSE f[n - 1]
  BY <1>0, SelectedUnfolds
<1>3. selected(s, kinds) = <<>>
  BY <1>1, <1>2, Zenon
<1> QED
  BY <1>3, Zenon DEF s

\* A new item at the end is selected or not.
LEMMA SelectedAppend ==
  ASSUME NEW T, NEW s \in Seq(T), NEW x \in T, NEW kinds
  PROVE  selected(Append(s, x), kinds) =
           IF x \in kinds THEN Append(selected(s, kinds), x) ELSE selected(s, kinds)
<1> DEFINE t == Append(s, x)
<1>1. t \in Seq(T) /\ Len(t) = Len(s) + 1 /\ t[Len(s) + 1] = x /\ \A n \in 1 .. Len(s) : t[n] = s[n]
  OBVIOUS
<1> HIDE DEF t
<1>2. PICK f : /\ selected(s, kinds) = f[Len(s)]
               /\ \A n \in 0 .. Len(s) :
                    f[n] = IF n = 0 THEN <<>>
                           ELSE IF s[n] \in kinds THEN Append(f[n - 1], s[n]) ELSE f[n - 1]
  BY SelectedUnfolds
<1>3. PICK g : /\ selected(t, kinds) = g[Len(t)]
               /\ \A n \in 0 .. Len(t) :
                    g[n] = IF n = 0 THEN <<>>
                           ELSE IF t[n] \in kinds THEN Append(g[n - 1], t[n]) ELSE g[n - 1]
  BY <1>1, SelectedUnfolds
<1> DEFINE Same == {n \in Nat : n \in 0 .. Len(s) => f[n] = g[n]}
<1>4. 0 \in Same
  <2>1. 0 \in 0 .. Len(s) /\ 0 \in 0 .. Len(t)
    BY <1>1
  <2> QED
    BY <1>2, <1>3, <2>1, Zenon
<1>5. ASSUME NEW n \in Same PROVE n + 1 \in Same
  <2> SUFFICES ASSUME n + 1 \in 0 .. Len(s) PROVE f[n + 1] = g[n + 1]
    OBVIOUS
  <2>1. n + 1 \in 1 .. Len(s) /\ n + 1 \in 0 .. Len(t) /\ n \in 0 .. Len(s) /\ n + 1 # 0 /\ n + 1 - 1 = n
    BY <1>1
  <2>2. f[n] = g[n] /\ t[n + 1] = s[n + 1]
    BY <1>1, <2>1, Zenon
  <2> QED
    BY <1>2, <1>3, <2>1, <2>2
<1>6. Len(s) \in Same
  <2> HIDE DEF Same
  <2>1. Same \in SUBSET Nat
    BY Zenon DEF Same
  <2>2. Same = Nat
    BY <1>4, <1>5, <2>1, SetInduction, Zenon
  <2> QED
    BY <2>2
<1>7. Len(s) \in 0 .. Len(s) /\ Len(t) \in 0 .. Len(t) /\ Len(t) # 0 /\ Len(t) - 1 = Len(s)
  BY <1>1
<1>8. selected(t, kinds) = IF t[Len(t)] \in kinds THEN Append(g[Len(t) - 1], t[Len(t)]) ELSE g[Len(t) - 1]
  BY <1>3, <1>7, Zenon
<1>9. f[Len(s)] = g[Len(s)]
  BY <1>6, <1>7, Zenon
<1> QED
  BY <1>1, <1>2, <1>7, <1>8, <1>9, Zenon DEF t

\* What is selected are items of the sequence.
LEMMA SelectedIsSeq ==
  ASSUME NEW T, NEW s \in Seq(T), NEW kinds
  PROVE  selected(s, kinds) \in Seq(T)
<1> DEFINE part(n) == SubSeq(s, 1, n)
           Good == {n \in Nat : n \in 0 .. Len(s) => selected(part(n), kinds) \in Seq(T)}
<1>1. 0 \in Good
  <2>1. part(0) = <<>> /\ <<>> \in Seq(T)
    OBVIOUS
  <2> HIDE DEF part
  <2> QED
    BY <2>1, SelectedEmpty, Zenon
<1>2. ASSUME NEW n \in Good PROVE n + 1 \in Good
  <2> SUFFICES ASSUME n + 1 \in 0 .. Len(s)
               PROVE  selected(part(n + 1), kinds) \in Seq(T)
    OBVIOUS
  <2> DEFINE t == part(n)
             x == s[n + 1]
  <2>1. t \in Seq(T) /\ x \in T /\ part(n + 1) = Append(t, x)
    OBVIOUS
  <2>2. selected(t, kinds) \in Seq(T)
    OBVIOUS
  <2> HIDE DEF t, x, part
  <2>3. selected(Append(t, x), kinds) = IF x \in kinds THEN Append(selected(t, kinds), x) ELSE selected(t, kinds)
    BY <2>1, SelectedAppend, Zenon
  <2>4. Append(selected(t, kinds), x) \in Seq(T)
    BY <2>1, <2>2
  <2> QED
    BY <2>1, <2>2, <2>3, <2>4, Zenon
<1>3. Good = Nat
  <2> HIDE DEF Good
  <2>1. Good \in SUBSET Nat
    BY Zenon DEF Good
  <2> QED
    BY <1>1, <1>2, <2>1, SetInduction, Zenon
<1>4. part(Len(s)) = s /\ Len(s) \in 0 .. Len(s) /\ Len(s) \in Nat
  OBVIOUS
<1> HIDE DEF part
<1> QED
  BY <1>3, <1>4, Zenon

\* Selecting from two queues in a row.
LEMMA SelectedConcat ==
  ASSUME NEW T, NEW s \in Seq(T), NEW t \in Seq(T), NEW kinds
  PROVE  selected(s \o t, kinds) = selected(s, kinds) \o selected(t, kinds)
<1> DEFINE part(n) == SubSeq(t, 1, n)
           Good == {n \in Nat : n \in 0 .. Len(t) =>
                      selected(s \o part(n), kinds) = selected(s, kinds) \o selected(part(n), kinds)}
<1>0. selected(s, kinds) \in Seq(T)
  BY SelectedIsSeq, Zenon
<1>1. 0 \in Good
  <2>1. part(0) = <<>> /\ s \o <<>> = s
    OBVIOUS
  <2>2. selected(s, kinds) \o <<>> = selected(s, kinds)
    BY <1>0
  <2> QED
    BY <2>1, <2>2, SelectedEmpty, Zenon
<1>2. ASSUME NEW n \in Good PROVE n + 1 \in Good
  <2> SUFFICES ASSUME n + 1 \in 0 .. Len(t)
               PROVE  selected(s \o part(n + 1), kinds) = selected(s, kinds) \o selected(part(n + 1), kinds)
    OBVIOUS
  <2> DEFINE u == part(n)
             x == t[n + 1]
  <2>1. u \in Seq(T) /\ x \in T /\ part(n + 1) = Append(u, x)
    OBVIOUS
  <2>2. selected(s \o u, kinds) = selected(s, kinds) \o selected(u, kinds)
    OBVIOUS
  <2> HIDE DEF u, x, part
  <2>3. s \o Append(u, x) = Append(s \o u, x) /\ s \o u \in Seq(T)
    BY <2>1, ConcatAppend, Zenon
  <2> DEFINE v == s \o u
  <2> HIDE DEF v
  <2>4. selected(Append(u, x), kinds) =
          IF x \in kinds THEN Append(selected(u, kinds), x) ELSE selected(u, kinds)
    BY <2>1, SelectedAppend, ZenonT(60)
  <2>5. selected(Append(v, x), kinds) =
          IF x \in kinds THEN Append(selected(v, kinds), x) ELSE selected(v, kinds)
    <3>1. v \in Seq(T)
      BY <2>3, Zenon DEF v
    <3> QED
      BY <2>1, <3>1, SelectedAppend, ZenonT(30)
  <2>6. selected(u, kinds) \in Seq(T)
    BY <2>1, SelectedIsSeq, Zenon
  <2>7. selected(s, kinds) \o Append(selected(u, kinds), x) = Append(selected(s, kinds) \o selected(u, kinds), x)
    <3> DEFINE a == selected(s, kinds)
               b == selected(u, kinds)
    <3>1. a \in Seq(T) /\ b \in Seq(T) /\ x \in T
      BY <1>0, <2>1, <2>6, Zenon
    <3> HIDE DEF a, b
    <3>2. a \o Append(b, x) = Append(a \o b, x)
      BY <3>1, SMTT(30)
    <3> QED
      BY <3>2, Zenon DEF a, b
  <2> QED
    BY <2>1, <2>2, <2>3, <2>4, <2>5, <2>7, Zenon DEF v
<1>3. Good = Nat
  <2> HIDE DEF Good
  <2>1. Good \in SUBSET Nat
    BY Zenon DEF Good
  <2> QED
    BY <1>1, <1>2, <2>1, SetInduction, Zenon
<1>4. part(Len(t)) = t /\ Len(t) \in 0 .. Len(t) /\ Len(t) \in Nat
  OBVIOUS
<1> HIDE DEF part
<1> QED
  BY <1>3, <1>4, Zenon

\* Selecting from a single item.
LEMMA SelectedOne ==
  ASSUME NEW T, NEW x \in T, NEW kinds
  PROVE  selected(<<x>>, kinds) = IF x \in kinds THEN <<x>> ELSE <<>>
<1>1. <<x>> = Append(<<>>, x) /\ <<>> \in Seq(T)
  OBVIOUS
<1>2. selected(Append(<<>>, x), kinds) =
        IF x \in kinds THEN Append(selected(<<>>, kinds), x) ELSE selected(<<>>, kinds)
  BY <1>1, SelectedAppend, Zenon
<1> QED
  BY <1>1, <1>2, SelectedEmpty, Zenon

\* beforeExit ends before the first exit notification, if there is one.
LEMMA BeforeExitIsPrefix ==
  ASSUME NEW T, NEW s \in Seq(T)
  PROVE  /\ \E n \in 0 .. Len(s) :
              /\ ~occursIn("exit", SubSeq(s, 1, n))
              /\ n = Len(s) \/ s[n + 1] = "exit"
              /\ beforeExit(s) = SubSeq(s, 1, n)
<1> DEFINE good(n) == /\ ~occursIn("exit", SubSeq(s, 1, n))
                      /\ n = Len(s) \/ s[n + 1] = "exit"
<1>1. \E n \in 0 .. Len(s) : good(n)
  <2> SUFFICES ASSUME \A n \in 0 .. Len(s) : ~good(n) PROVE FALSE
    BY Zenon
  <2> DEFINE Free == {n \in Nat : n \in 0 .. Len(s) => ~occursIn("exit", SubSeq(s, 1, n))}
  <2>1. 0 \in Free
    BY DEF occursIn
  <2>2. ASSUME NEW n \in Free PROVE n + 1 \in Free
    <3> SUFFICES ASSUME n + 1 \in 0 .. Len(s) PROVE ~occursIn("exit", SubSeq(s, 1, n + 1))
      OBVIOUS
    <3>1. n \in 0 .. Len(s) /\ ~occursIn("exit", SubSeq(s, 1, n)) /\ n # Len(s)
      OBVIOUS
    <3>2. s[n + 1] # "exit"
      BY <3>1, Zenon
    <3>3. \A i \in 1 .. n : s[i] # "exit"
      BY <3>1 DEF occursIn
    <3> QED
      BY <3>1, <3>2, <3>3 DEF occursIn
  <2>3. Free = Nat
    <3> HIDE DEF Free
    <3>1. Free \in SUBSET Nat
      BY Zenon DEF Free
    <3> QED
      BY <2>1, <2>2, <3>1, SetInduction, Zenon
  <2>4. Len(s) \in 0 .. Len(s)
    OBVIOUS
  <2> QED
    BY <2>3, <2>4
<1> DEFINE n == CHOOSE n \in 0 .. Len(s) : good(n)
<1>2. n \in 0 .. Len(s) /\ good(n)
  <2> HIDE DEF good
  <2> QED
    BY <1>1, Zenon
<1>3. beforeExit(s) = SubSeq(s, 1, n)
  BY Zenon DEF beforeExit
<1> HIDE DEF n
<1> QED
  BY <1>2, <1>3, Zenon

\* All of it, if there is none.
LEMMA BeforeExitIsAll ==
  ASSUME NEW T, NEW s \in Seq(T), ~occursIn("exit", s)
  PROVE  beforeExit(s) = s
<1>1. PICK n \in 0 .. Len(s) : /\ n = Len(s) \/ s[n + 1] = "exit"
                               /\ beforeExit(s) = SubSeq(s, 1, n)
  BY BeforeExitIsPrefix, Zenon
<1>2. n = Len(s)
  BY <1>1 DEF occursIn
<1> QED
  BY <1>1, <1>2

\* What comes after an exit notification makes no difference.
LEMMA NothingAfterExit ==
  ASSUME NEW T, NEW s \in Seq(T), NEW t \in Seq(T), occursIn("exit", s)
  PROVE  beforeExit(s \o t) = beforeExit(s)
<1>1. PICK n \in 0 .. Len(s) : /\ ~occursIn("exit", SubSeq(s, 1, n))
                               /\ n = Len(s) \/ s[n + 1] = "exit"
                               /\ beforeExit(s) = SubSeq(s, 1, n)
  BY BeforeExitIsPrefix, Zenon
<1> DEFINE u == s \o t
<1>2. /\ u \in Seq(T) /\ Len(u) = Len(s) + Len(t)
      /\ \A i \in 1 .. Len(s) : u[i] = s[i]
  OBVIOUS
<1> HIDE DEF u
<1>3. PICK m \in 0 .. Len(u) : /\ ~occursIn("exit", SubSeq(u, 1, m))
                               /\ m = Len(u) \/ u[m + 1] = "exit"
                               /\ beforeExit(u) = SubSeq(u, 1, m)
  BY <1>2, BeforeExitIsPrefix, Zenon
<1>4. n < Len(s) /\ s[n + 1] = "exit" /\ \A i \in 1 .. n : s[i] # "exit"
  <2>1. \A i \in 1 .. n : s[i] # "exit"
    BY <1>1 DEF occursIn
  <2> QED
    BY <1>1, <2>1 DEF occursIn
<1>5. \A i \in 1 .. m : u[i] # "exit"
  BY <1>2, <1>3 DEF occursIn
<1>6. m = n
  <2>1. u[n + 1] = "exit" /\ n + 1 \in 1 .. Len(u)
    BY <1>2, <1>4
  <2>2. ~(m > n)
    BY <1>5, <2>1
  <2>3. ASSUME m < n PROVE FALSE
    <3>1. m + 1 \in 1 .. n /\ m + 1 \in 1 .. Len(s) /\ m # Len(u)
      BY <1>2, <1>4, <2>3
    <3> QED
      BY <1>2, <1>3, <1>4, <3>1, Zenon
  <2> QED
    BY <2>2, <2>3
<1>7. SubSeq(u, 1, n) = SubSeq(s, 1, n)
  BY <1>2
<1> QED
  BY <1>1, <1>3, <1>6, <1>7, Zenon DEF u

\* An exit notification ends what beforeExit takes.
LEMMA ExitEnds ==
  ASSUME NEW T, NEW s \in Seq(T), "exit" \in T, ~occursIn("exit", s)
  PROVE  beforeExit(Append(s, "exit")) = s
<1> DEFINE u == Append(s, "exit")
<1>1. /\ u \in Seq(T) /\ Len(u) = Len(s) + 1 /\ u[Len(s) + 1] = "exit"
      /\ \A i \in 1 .. Len(s) : u[i] = s[i]
      /\ SubSeq(u, 1, Len(s)) = s
  OBVIOUS
<1> HIDE DEF u
<1>2. PICK n \in 0 .. Len(u) : /\ ~occursIn("exit", SubSeq(u, 1, n))
                               /\ n = Len(u) \/ u[n + 1] = "exit"
                               /\ beforeExit(u) = SubSeq(u, 1, n)
  BY <1>1, BeforeExitIsPrefix, Zenon
<1>3. \A i \in 1 .. n : u[i] # "exit"
  BY <1>1, <1>2 DEF occursIn
<1>4. n # Len(u)
  BY <1>1, <1>3
<1>5. n + 1 \in 1 .. Len(s) => u[n + 1] # "exit"
  BY <1>1, Zenon DEF occursIn
<1>6. n = Len(s)
  <2>1. u[n + 1] = "exit"
    BY <1>2, <1>4, Zenon
  <2>2. n \in 0 .. Len(s) /\ (n = Len(s) \/ n + 1 \in 1 .. Len(s))
    <3>1. Len(s) \in Nat /\ Len(u) = Len(s) + 1
      BY <1>1
    <3> QED
      BY <1>4, <3>1
  <2> QED
    BY <1>5, <2>1, <2>2, Zenon
<1> QED
  BY <1>1, <1>2, <1>6, Zenon DEF u

-----------------------------------------------------------------------------
(***************************************************************************)
(* The inductive invariant.                                                *)
(***************************************************************************)
\* What the message queue, and the task queue, may hold.
Item == Message \cup WatchmanKinds
Task == Item \cup {"indexerInitialization"}

\* The types.
LType ==
  /\ input \in Seq(Message) /\ sent \in Seq(Message) /\ inputClosed \in BOOLEAN
  /\ messageQueue \in [pendingRequests : Seq(Item), terminate : BOOLEAN]
  /\ taskQueue \in [tasks : Seq(Task), terminated : BOOLEAN, paused : BOOLEAN]
  /\ initialized \in BOOLEAN
  /\ watchman \in {"reading", "failed", "ended"} \cup WatchmanKinds
  /\ preprocessor \in {"await", "enqueued", "ended"} \cup Item
  /\ processing \in {"await", "ranTask", "initializing", "shutdown", "join", "ended"}
  /\ typechecker \in {"idle", "initializing", "initialized", "ended"}
  /\ ran \in Seq(Task)

\* The first two messages of a client.
Handshake ==
  \A i \in 1 .. Len(sent) :
    /\ i = 1 => sent[i] = "initialize"
    /\ i = 2 => sent[i] = "initialized"
    /\ i > 2 => sent[i] \in ClientKinds

\* Between InitializedTask and the indexer's initialization nothing runs.
InitializationIsNext ==
  ran # <<>> /\ ran[Len(ran)] = "initialized" =>
    \/ typechecker = "initializing"
    \/ /\ typechecker \in {"initialized", "idle"}
       /\ taskQueue.tasks # <<>> /\ Head(taskQueue.tasks) = "indexerInitialization"

\* Who waits for whom, and why a queue was terminated.
Places ==
  /\ processing = "initializing" <=> typechecker \in {"initializing", "initialized"}
  /\ processing \in {"shutdown", "join", "ended"} => taskQueue.terminated /\ taskQueue.tasks = <<>>
  /\ processing = "ended" => preprocessor = "ended"
  /\ messageQueue.terminate =>
       watchman = "failed" \/ taskQueue.terminated \/ (inputClosed /\ input = <<>>)

\* What the client wrote and the preprocessor has not handled, in order.
fromClient(s) == selected(s, Message)
current == IF preprocessor \in Message THEN <<preprocessor>> ELSE <<>>
waiting == current \o (fromClient(messageQueue.pendingRequests) \o input)

\* h is what the preprocessor has handled.
Handled(h) ==
  /\ sent = h \o waiting
  /\ initialized <=> Len(h) >= 2
  /\ tasksOfClient(ran) \o tasksOfClient(taskQueue.tasks) = tasksOfClient(beforeExit(h))
  /\ occursIn("exit", h) => taskQueue.terminated
  /\ taskQueue.terminated =>
       preprocessor = "ended" \/ (preprocessor = "enqueued" /\ occursIn("exit", h))
  /\ preprocessor = "ended" =>
       /\ taskQueue.terminated
       /\ \/ watchman = "failed" \/ occursIn("exit", h)
          \/ inputClosed /\ input = <<>> /\ fromClient(messageQueue.pendingRequests) = <<>>

\* The inductive invariant.
LInv ==
  /\ LType /\ Handshake /\ IndexerIsInitializedFirst /\ InitializationIsNext /\ Places
  /\ \E h \in Seq(Message) : Handled(h)

\* The threads have started and nothing was sent.
LEMMA LInitInv ==
  ASSUME Init
  PROVE  LInv
<1>1. LType
  <2>1. messageQueue \in [pendingRequests : Seq(Item), terminate : BOOLEAN]
    BY DEF Init
  <2>2. taskQueue \in [tasks : Seq(Task), terminated : BOOLEAN, paused : BOOLEAN]
    BY DEF Init
  <2>3. input \in Seq(Message) /\ sent \in Seq(Message) /\ ran \in Seq(Task)
    BY DEF Init
  <2>4. watchman \in {"reading", "failed", "ended"} \cup WatchmanKinds
    BY Zenon DEF Init
  <2>5. inputClosed \in BOOLEAN /\ initialized \in BOOLEAN
    BY Zenon DEF Init
  <2>6. /\ preprocessor \in {"await", "enqueued", "ended"} \cup Item
        /\ processing \in {"await", "ranTask", "initializing", "shutdown", "join", "ended"}
        /\ typechecker \in {"idle", "initializing", "initialized", "ended"}
    BY Zenon DEF Init
  <2> QED
    BY <2>1, <2>2, <2>3, <2>4, <2>5, <2>6, Zenon DEF LType
<1>2. Handshake /\ IndexerIsInitializedFirst /\ InitializationIsNext /\ Places
  BY DEF Init, Handshake, IndexerIsInitializedFirst, InitializationIsNext, Places
<1>3. Handled(<<>>)
  <2>1. fromClient(<<>>) = <<>> /\ tasksOfClient(<<>>) = <<>>
    BY SelectedEmpty, Zenon DEF fromClient, tasksOfClient
  <2>2. ~occursIn("exit", <<>>) /\ <<>> \in Seq(Message)
    BY DEF occursIn
  <2>3. beforeExit(<<>>) = <<>>
    BY <2>2, BeforeExitIsAll, Zenon
  <2>4. preprocessor \notin Message /\ preprocessor # "ended"
    BY KindsAssumption, Zenon DEF Init, Message
  <2> QED
    <3>1. waiting = <<>>
      BY <2>1, <2>4 DEF Init, waiting, current
    <3>2. /\ sent = <<>> /\ ran = <<>> /\ taskQueue.tasks = <<>>
          /\ ~initialized /\ ~taskQueue.terminated
      BY Zenon DEF Init
    <3>3. <<>> \o <<>> = <<>> /\ Len(<<>>) = 0
      OBVIOUS
    <3>4. ~(Len(<<>>) >= 2)
      BY <3>3
    <3>5. sent = <<>> \o waiting
      BY <3>1, <3>2, <3>3, Zenon
    <3>6. tasksOfClient(ran) \o tasksOfClient(taskQueue.tasks) = tasksOfClient(beforeExit(<<>>))
      BY <2>1, <2>3, <3>2, <3>3, Zenon
    <3> QED
      BY <2>2, <2>4, <3>2, <3>4, <3>5, <3>6, Zenon DEF Handled
<1>4. <<>> \in Seq(Message)
  OBVIOUS
<1> QED
  BY <1>1, <1>2, <1>3, <1>4, Zenon DEF LInv

-----------------------------------------------------------------------------
(***************************************************************************)
(* Every step keeps it.                                                    *)
(***************************************************************************)
LEMMA KindsDiffer ==
  /\ \A m \in Item : m \notin {"await", "enqueued", "ended", "indexerInitialization"}
  /\ \A m \in WatchmanKinds : m \notin Message \cup {"reading", "failed", "ended"}
  /\ \A m \in ClientKinds : m \notin {"initialize", "initialized"}
<1> USE KindsAssumption DEF Item, Message
<1>1. \A m \in Item : m \notin {"await", "enqueued", "ended", "indexerInitialization"}
  BY Zenon
<1>2. \A m \in WatchmanKinds : m \notin Message \cup {"reading", "failed", "ended"}
  BY Zenon
<1>3. \A m \in ClientKinds : m \notin {"initialize", "initialized"}
  BY Zenon
<1> QED
  BY <1>1, <1>2, <1>3, Zenon

\* What the preprocessor puts into the task queue.
LEMMA PreprocessedType ==
  ASSUME LType, NEW m \in Item
  PROVE  preprocessed(m) \in [tasks : Seq(Task), terminated : BOOLEAN, paused : BOOLEAN]
<1>1. Append(taskQueue.tasks, m) \in Seq(Task)
  BY DEF LType, Task
<1> QED
  BY <1>1, Zenon DEF LType, preprocessed

\* Every step keeps the types.
LEMMA TypeStep ==
  ASSUME LType, Next
  PROVE  LType'
<1>0. Message \subseteq Item /\ Item \subseteq Task /\ WatchmanKinds \subseteq Item
  BY Zenon DEF Item, Task
<1> USE DEF LType
<1>1. CASE clientWrites
  BY <1>1 DEF clientWrites, threadVars, watchmanVars
<1>2. CASE clientCloses
  BY <1>2 DEF clientCloses, threadVars, watchmanVars
<1>3. CASE watchmanLine
  BY <1>3 DEF watchmanLine, clientVars
<1>4. CASE watchmanFails
  BY <1>4, Zenon DEF watchmanFails, clientVars
<1>5. CASE readMessage
  <2>1. input # <<>> => Tail(input) \in Seq(Message) /\ Head(input) \in Item
    BY <1>0
  <2>2. input # <<>> => Append(messageQueue.pendingRequests, Head(input)) \in Seq(Item)
    BY <2>1
  <2>3. /\ messageQueue' \in [pendingRequests : Seq(Item), terminate : BOOLEAN]
        /\ input' \in Seq(Message)
    BY <1>5, <2>1, <2>2, Zenon DEF readMessage
  <2> QED
    BY <1>5, <2>3 DEF readMessage, watchmanVars
<1>6. CASE readTimeout \/ readEnd
  BY <1>6, Zenon DEF readTimeout, readEnd, clientVars, watchmanVars
<1>7. CASE enqueueNotification
  <2>1. Append(messageQueue.pendingRequests, watchman) \in Seq(Item)
    BY <1>0, <1>7 DEF enqueueNotification
  <2> QED
    BY <1>7, <2>1, Zenon DEF enqueueNotification, clientVars, watchmanVars
<1>8. CASE watchmanStops
  BY <1>8 DEF watchmanStops, clientVars, watchmanVars
<1>9. CASE noMoreMessages \/ afterExit
  BY <1>9, Zenon DEF noMoreMessages, afterExit, preprocessorEnds, clientVars, watchmanVars
<1>10. CASE popMessage
  <2>1. /\ messageQueue.pendingRequests # <<>>
        /\ Tail(messageQueue.pendingRequests) \in Seq(Item)
        /\ Head(messageQueue.pendingRequests) \in Item
    BY <1>10 DEF popMessage
  <2> QED
    BY <1>10, <2>1, Zenon DEF popMessage, clientVars, watchmanVars
<1>11. CASE preprocessAndEnqueue
  <2>1. preprocessor \in Item
    BY <1>11, Zenon DEF preprocessAndEnqueue, Item
  <2>2. taskQueue' \in [tasks : Seq(Task), terminated : BOOLEAN, paused : BOOLEAN]
    BY <1>11, <2>1, PreprocessedType, Zenon DEF preprocessAndEnqueue
  <2> QED
    BY <1>11, <2>2, Zenon DEF preprocessAndEnqueue, clientVars
<1>12. CASE afterMessage
  BY <1>12 DEF afterMessage, clientVars, watchmanVars
<1>13. CASE runTask
  <2>1. /\ Tail(taskQueue.tasks) \in Seq(Task)
        /\ Append(ran, Head(taskQueue.tasks)) \in Seq(Task)
    BY <1>13 DEF runTask
  <2> QED
    BY <1>13, <2>1, Zenon DEF runTask, clientVars, watchmanVars
<1>14. CASE indexInitialized
  <2>1. "initialized" \in Task
    BY Zenon DEF Task, Item, Message
  <2>2. Tail(taskQueue.tasks) \in Seq(Task) /\ Append(ran, "initialized") \in Seq(Task)
    BY <1>14, <2>1 DEF indexInitialized
  <2> QED
    BY <1>14, <2>2, Zenon DEF indexInitialized, clientVars, watchmanVars
<1>15. CASE notifyInitialized
  BY <1>15 DEF notifyInitialized, clientVars, watchmanVars
<1>16. CASE processorEnds
  BY <1>16, Zenon DEF processorEnds, clientVars, watchmanVars
<1>17. CASE shutdown
  BY <1>17 DEF shutdown, clientVars, watchmanVars
<1>18. CASE stopWatchman
  BY <1>18, Zenon DEF stopWatchman, clientVars, threadVars
<1>19. CASE runLSPReturns
  BY <1>19, Zenon DEF runLSPReturns, clientVars, watchmanVars
<1>20. CASE initialize
  <2>1. <<"indexerInitialization">> \o taskQueue.tasks \in Seq(Task)
    BY DEF Task
  <2> QED
    BY <1>20, <2>1, Zenon DEF initialize, clientVars, watchmanVars
<1>21. CASE resumeTaskQueue
  BY <1>21, Zenon DEF resumeTaskQueue, clientVars, watchmanVars
<1> QED
  BY <1>1, <1>2, <1>3, <1>4, <1>5, <1>6, <1>7, <1>8, <1>9, <1>10, <1>11, <1>12, <1>13,
     <1>14, <1>15, <1>16, <1>17, <1>18, <1>19, <1>20, <1>21, Zenon
  DEF Next, environmentStep, readerStep, watchmanStep, preprocessorStep, processingStep,
      typecheckerStep

\* A client begins with initialize and initialized.
LEMMA HandshakeStep ==
  ASSUME LType, Handshake, Next
  PROVE  Handshake'
<1>1. CASE clientWrites
  <2>1. PICK m : /\ IF Len(sent) < 2 THEN m = <<"initialize", "initialized">>[Len(sent) + 1]
                                     ELSE m \in ClientKinds
                 /\ sent' = Append(sent, m)
    BY <1>1, Zenon DEF clientWrites
  <2>2. /\ Len(sent) \in Nat /\ Len(sent') = Len(sent) + 1 /\ sent'[Len(sent) + 1] = m
        /\ \A i \in 1 .. Len(sent) : sent'[i] = sent[i]
    BY <2>1 DEF LType
  <2>3. /\ Len(sent) = 0 => m = "initialize"
        /\ Len(sent) = 1 => m = "initialized"
        /\ Len(sent) > 1 => m \in ClientKinds
    <3> DEFINE greeting == <<"initialize", "initialized">>
    <3>1. greeting[1] = "initialize" /\ greeting[2] = "initialized"
      BY Zenon
    <3>2. IF Len(sent) < 2 THEN m = greeting[Len(sent) + 1] ELSE m \in ClientKinds
      BY <2>1, Zenon
    <3> HIDE DEF greeting
    <3>3. Len(sent) = 0 => m = greeting[1]
      BY <3>2
    <3>4. Len(sent) = 1 => m = greeting[2]
      BY <3>2
    <3>5. Len(sent) > 1 => m \in ClientKinds
      BY <2>2, <3>2
    <3> QED
      BY <3>1, <3>3, <3>4, <3>5, Zenon
  <2> SUFFICES ASSUME NEW i \in 1 .. Len(sent')
               PROVE  /\ i = 1 => sent'[i] = "initialize"
                      /\ i = 2 => sent'[i] = "initialized"
                      /\ i > 2 => sent'[i] \in ClientKinds
    BY Zenon DEF Handshake
  <2>4. i \in 1 .. Len(sent) \/ i = Len(sent) + 1
    BY <2>2
  <2> QED
    BY <2>2, <2>3, <2>4 DEF Handshake
<1>2. CASE UNCHANGED sent
  BY <1>2, Zenon DEF Handshake
<1> QED
  BY <1>1, <1>2, Zenon
  DEF Next, environmentStep, readerStep, watchmanStep, preprocessorStep, processingStep,
      typecheckerStep, clientCloses, watchmanLine, watchmanFails, readMessage, readTimeout,
      readEnd, enqueueNotification, watchmanStops, noMoreMessages, afterExit, preprocessorEnds,
      popMessage, preprocessAndEnqueue, afterMessage, runTask, indexInitialized,
      notifyInitialized, processorEnds, shutdown, stopWatchman, runLSPReturns, initialize,
      resumeTaskQueue, clientVars

\* The preprocessor adds to the end of the queue only.
LEMMA PreprocessedKeepsHead ==
  ASSUME LType, NEW m \in Item, taskQueue.tasks # <<>>
  PROVE  preprocessed(m).tasks # <<>> /\ Head(preprocessed(m).tasks) = Head(taskQueue.tasks)
<1> DEFINE q == taskQueue.tasks
<1>0. q \in Seq(Task) /\ q # <<>>
  BY Zenon DEF LType
<1> HIDE DEF q
<1>1. \A x \in Task : Append(q, x) # <<>> /\ Head(Append(q, x)) = Head(q)
  BY <1>0
<1>2. preprocessed(m).tasks \in {taskQueue.tasks, Append(taskQueue.tasks, m)}
  BY Zenon DEF preprocessed, LType
<1> QED
  BY <1>1, <1>2 DEF Task, q

\* No task gets in front of the initialization of the indexer.
LEMMA FirstStep ==
  ASSUME LType, IndexerIsInitializedFirst, InitializationIsNext, Places, Next
  PROVE  IndexerIsInitializedFirst' /\ InitializationIsNext'
<1>1. CASE runTask
  <2> DEFINE x == Head(taskQueue.tasks)
  <2>1. /\ processing = "await" /\ taskQueue.tasks # <<>> /\ x # "initialized" /\ x \in Task
        /\ ran' = Append(ran, x)
    BY <1>1 DEF runTask, LType
  <2> HIDE DEF x
  <2>2. /\ Len(ran) \in Nat /\ Len(ran') = Len(ran) + 1 /\ ran'[Len(ran) + 1] = x
        /\ \A i \in 1 .. Len(ran) : ran'[i] = ran[i]
    BY <2>1 DEF LType
  <2>3. InitializationIsNext'
    BY <2>1, <2>2, Zenon DEF InitializationIsNext
  <2>4. Len(ran) # 0 /\ ran[Len(ran)] = "initialized" => x = "indexerInitialization"
    <3>1. Len(ran) # 0 => ran # <<>>
      OBVIOUS
    <3>2. typechecker # "initializing"
      BY <2>1, Zenon DEF Places
    <3> QED
      BY <3>1, <3>2, Zenon DEF InitializationIsNext, x
  <2>5. ASSUME NEW i \in 1 .. Len(ran') - 1, ran'[i] = "initialized"
        PROVE  ran'[i + 1] = "indexerInitialization"
    <3>1. CASE i = Len(ran)
      BY <2>2, <2>4, <2>5, <3>1
    <3>2. CASE i # Len(ran)
      <4>1. i \in 1 .. Len(ran) - 1 /\ i \in 1 .. Len(ran) /\ i + 1 \in 1 .. Len(ran)
        BY <2>2, <3>2
      <4> QED
        BY <2>2, <2>5, <4>1, Zenon DEF IndexerIsInitializedFirst
    <3> QED
      BY <3>1, <3>2, Zenon
  <2> QED
    BY <2>3, <2>5, Zenon DEF IndexerIsInitializedFirst
<1>2. CASE indexInitialized
  <2> DEFINE x == "initialized"
  <2>1. /\ processing = "await" /\ taskQueue.tasks # <<>> /\ Head(taskQueue.tasks) = x
        /\ ran' = Append(ran, x) /\ typechecker' = "initializing"
    BY <1>2, Zenon DEF indexInitialized
  <2>2. /\ Len(ran) \in Nat /\ Len(ran') = Len(ran) + 1 /\ ran'[Len(ran) + 1] = x
        /\ \A i \in 1 .. Len(ran) : ran'[i] = ran[i]
    BY <2>1 DEF LType
  <2>3. InitializationIsNext'
    BY <2>1, Zenon DEF InitializationIsNext
  <2>4. ~(Len(ran) # 0 /\ ran[Len(ran)] = "initialized")
    <3>1. Len(ran) # 0 => ran # <<>>
      OBVIOUS
    <3>2. typechecker # "initializing"
      BY <2>1, Zenon DEF Places
    <3> QED
      BY <2>1, <3>1, <3>2, Zenon DEF InitializationIsNext
  <2>5. ASSUME NEW i \in 1 .. Len(ran') - 1, ran'[i] = "initialized"
        PROVE  ran'[i + 1] = "indexerInitialization"
    <3>1. i # Len(ran)
      BY <2>2, <2>4, <2>5
    <3>2. i \in 1 .. Len(ran) - 1 /\ i \in 1 .. Len(ran) /\ i + 1 \in 1 .. Len(ran)
      BY <2>2, <3>1
    <3> QED
      BY <2>2, <2>5, <3>2, Zenon DEF IndexerIsInitializedFirst
  <2> QED
    BY <2>3, <2>5, Zenon DEF IndexerIsInitializedFirst
<1>3. CASE UNCHANGED ran
  <2>1. IndexerIsInitializedFirst'
    BY <1>3, Zenon DEF IndexerIsInitializedFirst
  <2> SUFFICES ASSUME ran # <<>>, ran[Len(ran)] = "initialized"
               PROVE  InitializationIsNext'
    BY <1>3, <2>1, Zenon DEF InitializationIsNext
  <2>2. \/ typechecker = "initializing"
        \/ /\ typechecker \in {"initialized", "idle"}
           /\ taskQueue.tasks # <<>> /\ Head(taskQueue.tasks) = "indexerInitialization"
    BY Zenon DEF InitializationIsNext
  <2>3. CASE initialize
    <3>1. /\ <<"indexerInitialization">> \o taskQueue.tasks # <<>>
          /\ Head(<<"indexerInitialization">> \o taskQueue.tasks) = "indexerInitialization"
      BY DEF LType
    <3> QED
      BY <2>3, <3>1, Zenon DEF initialize, LType, InitializationIsNext
  <2>4. CASE resumeTaskQueue
    BY <2>2, <2>4, Zenon DEF resumeTaskQueue, LType, InitializationIsNext
  <2>5. CASE preprocessAndEnqueue
    <3>1. preprocessor \in Item
      BY <2>5, Zenon DEF preprocessAndEnqueue, Item
    <3> QED
      BY <2>2, <2>5, <3>1, PreprocessedKeepsHead, Zenon DEF preprocessAndEnqueue, InitializationIsNext
  <2>6. CASE shutdown
    BY <2>2, <2>6, Zenon DEF shutdown, Places
  <2>7. CASE UNCHANGED <<taskQueue.tasks, typechecker>>
    BY <2>2, <2>7, Zenon DEF InitializationIsNext
  <2>8. CASE runTask \/ indexInitialized
    BY <1>1, <1>2, <2>8, Zenon
  <2> QED
    BY <2>3, <2>4, <2>5, <2>6, <2>7, <2>8, Zenon
    DEF LType, Next, environmentStep, readerStep, watchmanStep, preprocessorStep, processingStep,
        typecheckerStep, clientWrites, clientCloses, watchmanLine, watchmanFails, readMessage,
        readTimeout, readEnd, enqueueNotification, watchmanStops, noMoreMessages, afterExit,
        preprocessorEnds, popMessage, afterMessage, notifyInitialized, processorEnds,
        stopWatchman, runLSPReturns, threadVars
<1> QED
  BY <1>1, <1>2, <1>3, Zenon
  DEF Next, environmentStep, readerStep, watchmanStep, preprocessorStep, processingStep,
      typecheckerStep, clientWrites, clientCloses, watchmanLine, watchmanFails, readMessage,
      readTimeout, readEnd, enqueueNotification, watchmanStops, noMoreMessages, afterExit,
      preprocessorEnds, popMessage, preprocessAndEnqueue, afterMessage, notifyInitialized,
      processorEnds, shutdown, stopWatchman, runLSPReturns, initialize, resumeTaskQueue

\* Every step of every thread keeps them in their places.
LEMMA PlacesStep ==
  ASSUME LType, Places, NEW h, Handled(h), Next
  PROVE  Places'
<1>0. taskQueue.terminated => preprocessor \in {"ended", "enqueued"}
  BY Zenon DEF Handled
<1> USE DEF Places
<1>1. CASE clientWrites \/ clientCloses
  BY <1>1, Zenon DEF clientWrites, clientCloses, threadVars
<1>2. CASE watchmanLine \/ watchmanStops
  BY <1>2, Zenon DEF watchmanLine, watchmanStops, clientVars
<1>3. CASE watchmanFails
  BY <1>3, Zenon DEF watchmanFails, clientVars
<1>4. CASE readMessage
  <2>1. messageQueue'.terminate = messageQueue.terminate /\ input # <<>>
    BY <1>4, Zenon DEF readMessage, LType
  <2> QED
    BY <1>4, <2>1, Zenon DEF readMessage
<1>5. CASE readTimeout
  BY <1>5, Zenon DEF readTimeout, clientVars
<1>6. CASE readEnd
  BY <1>6, Zenon DEF readEnd, clientVars
<1>7. CASE enqueueNotification
  <2>1. messageQueue'.terminate = messageQueue.terminate /\ watchman # "failed"
    BY <1>7, KindsDiffer, Zenon DEF enqueueNotification, LType
  <2> QED
    BY <1>7, <2>1, Zenon DEF enqueueNotification, clientVars
<1>8. CASE noMoreMessages \/ afterExit
  <2>1. taskQueue'.terminated /\ taskQueue'.tasks = taskQueue.tasks /\ preprocessor' = "ended"
    BY <1>8, Zenon DEF noMoreMessages, afterExit, preprocessorEnds, LType
  <2> QED
    BY <1>8, <2>1, Zenon DEF noMoreMessages, afterExit, preprocessorEnds
<1>9. CASE popMessage
  <2>1. messageQueue'.terminate = messageQueue.terminate /\ preprocessor = "await"
    BY <1>9, Zenon DEF popMessage, LType
  <2> QED
    BY <1>9, <2>1, Zenon DEF popMessage, clientVars
<1>10. CASE preprocessAndEnqueue
  <2>1. preprocessor \notin {"ended", "enqueued"} /\ preprocessor \in Item
    BY <1>10, KindsDiffer, Zenon DEF preprocessAndEnqueue, Item
  <2>2. ~taskQueue.terminated
    BY <1>0, <2>1, Zenon
  <2> QED
    BY <1>10, <2>1, <2>2, Zenon DEF preprocessAndEnqueue, clientVars
<1>11. CASE afterMessage
  BY <1>11, Zenon DEF afterMessage, clientVars
<1>12. CASE runTask
  <2>1. taskQueue'.terminated = taskQueue.terminated
    BY <1>12, Zenon DEF runTask, LType
  <2> QED
    BY <1>12, <2>1, Zenon DEF runTask, clientVars
<1>13. CASE indexInitialized
  <2>1. taskQueue'.terminated = taskQueue.terminated
    BY <1>13, Zenon DEF indexInitialized, LType
  <2> QED
    BY <1>13, <2>1, Zenon DEF indexInitialized, clientVars
<1>14. CASE notifyInitialized
  BY <1>14, Zenon DEF notifyInitialized, clientVars
<1>15. CASE processorEnds
  BY <1>15, Zenon DEF processorEnds, clientVars
<1>16. CASE shutdown
  BY <1>16, Zenon DEF shutdown, clientVars
<1>17. CASE stopWatchman
  BY <1>17, Zenon DEF stopWatchman, clientVars, threadVars
<1>18. CASE runLSPReturns
  BY <1>18, Zenon DEF runLSPReturns, clientVars
<1>19. CASE initialize
  <2>1. taskQueue'.terminated = taskQueue.terminated /\ processing = "initializing"
    BY <1>19, Zenon DEF initialize, LType
  <2> QED
    BY <1>19, <2>1, Zenon DEF initialize, clientVars
<1>20. CASE resumeTaskQueue
  <2>1. taskQueue'.terminated = taskQueue.terminated /\ processing = "initializing"
    BY <1>20, Zenon DEF resumeTaskQueue, LType
  <2> QED
    BY <1>20, <2>1, Zenon DEF resumeTaskQueue, clientVars
<1> QED
  BY <1>1, <1>2, <1>3, <1>4, <1>5, <1>6, <1>7, <1>8, <1>9, <1>10, <1>11, <1>12, <1>13,
     <1>14, <1>15, <1>16, <1>17, <1>18, <1>19, <1>20, ZenonT(30)
  DEF Next, environmentStep, readerStep, watchmanStep, preprocessorStep, processingStep,
      typecheckerStep

\* A step that leaves alone what the client wrote, where it is and what the
\* preprocessor does keeps Handled.
LEMMA HandledUnchanged ==
  ASSUME NEW h, Handled(h),
         UNCHANGED <<sent, input, messageQueue.pendingRequests, taskQueue.tasks,
                     taskQueue.terminated, initialized, preprocessor, ran>>,
         inputClosed => inputClosed',
         watchman = "failed" => watchman' = "failed"
  PROVE  Handled(h)'
<1>1. waiting' = waiting
  BY Zenon DEF waiting, current, fromClient
<1> QED
  BY <1>1, Zenon DEF Handled, fromClient

\* Tasks that are not of the client do not count, wherever they are.
LEMMA OthersDoNotCount ==
  ASSUME NEW s \in Seq(Task), NEW x \in Task, x \notin {"initialize", "initialized", "request"}
  PROVE  /\ tasksOfClient(Append(s, x)) = tasksOfClient(s)
         /\ tasksOfClient(<<x>> \o s) = tasksOfClient(s)
<1> DEFINE kinds == {"initialize", "initialized", "request"}
<1> HIDE DEF kinds
<1>0. x \notin kinds
  BY Zenon DEF kinds
<1>1. selected(Append(s, x), kinds) = selected(s, kinds)
  BY <1>0, SelectedAppend, Zenon
<1>2. selected(<<x>> \o s, kinds) = selected(<<x>>, kinds) \o selected(s, kinds)
  <2> DEFINE one == <<x>>
  <2>1. one \in Seq(Task)
    OBVIOUS
  <2> HIDE DEF one
  <2>2. selected(one \o s, kinds) = selected(one, kinds) \o selected(s, kinds)
    BY <2>1, SelectedConcat
  <2> QED
    BY <2>2, Zenon DEF one
<1>3. selected(<<x>>, kinds) = <<>>
  BY <1>0, SelectedOne, Zenon
<1>4. selected(s, kinds) \in Seq(Task)
  BY SelectedIsSeq, Zenon
<1>5. <<>> \o selected(s, kinds) = selected(s, kinds)
  BY <1>4
<1> QED
  BY <1>1, <1>2, <1>3, <1>5, Zenon DEF tasksOfClient, kinds

\* A task that is run leaves the queue for the list of those that ran.
LEMMA RunKeepsTasks ==
  ASSUME NEW r \in Seq(Task), NEW q \in Seq(Task), q # <<>>
  PROVE  tasksOfClient(Append(r, Head(q))) \o tasksOfClient(Tail(q)) =
           tasksOfClient(r) \o tasksOfClient(q)
<1> DEFINE kinds == {"initialize", "initialized", "request"}
           x == Head(q)
           t == Tail(q)
           one == <<x>>
<1>1. x \in Task /\ t \in Seq(Task) /\ one \in Seq(Task) /\ Append(r, x) = r \o one /\ q = one \o t
  OBVIOUS
<1> HIDE DEF kinds, x, t, one
<1>2. selected(r \o one, kinds) = selected(r, kinds) \o selected(one, kinds)
  BY <1>1, SelectedConcat
<1>3. selected(one \o t, kinds) = selected(one, kinds) \o selected(t, kinds)
  BY <1>1, SelectedConcat
<1>4. selected(r, kinds) \in Seq(Task) /\ selected(one, kinds) \in Seq(Task) /\ selected(t, kinds) \in Seq(Task)
  BY <1>1, SelectedIsSeq, Zenon
<1>5. (selected(r, kinds) \o selected(one, kinds)) \o selected(t, kinds) =
        selected(r, kinds) \o (selected(one, kinds) \o selected(t, kinds))
  <2> DEFINE a == selected(r, kinds)
             b == selected(one, kinds)
             c == selected(t, kinds)
  <2>1. a \in Seq(Task) /\ b \in Seq(Task) /\ c \in Seq(Task)
    BY <1>4, Zenon
  <2> HIDE DEF a, b, c
  <2>2. (a \o b) \o c = a \o (b \o c)
    BY <2>1, SMTT(20)
  <2> QED
    BY <2>2, Zenon DEF a, b, c
<1>6. selected(Append(r, x), kinds) \o selected(t, kinds) = selected(r, kinds) \o selected(q, kinds)
  BY <1>1, <1>2, <1>3, <1>5, Zenon
<1> QED
  BY <1>6, Zenon DEF tasksOfClient, kinds, x, t

\* The client writes at the end of what is waiting.
LEMMA ClientWritesHandled ==
  ASSUME LType, NEW h \in Seq(Message), Handled(h), clientWrites
  PROVE  Handled(h)'
<1>1. PICK m \in Message : input' = Append(input, m) /\ sent' = Append(sent, m)
  BY Zenon DEF clientWrites
<1> DEFINE front == current
           middle == fromClient(messageQueue.pendingRequests)
<1>2. front \in Seq(Item) /\ middle \in Seq(Item) /\ input \in Seq(Item) /\ h \in Seq(Item) /\ m \in Item
  <2>1. fromClient(messageQueue.pendingRequests) \in Seq(Item)
    BY SelectedIsSeq, Zenon DEF LType, fromClient
  <2>2. current \in Seq(Item)
    <3>1. CASE preprocessor \in Message
      BY <3>1 DEF current, Item
    <3>2. CASE preprocessor \notin Message
      BY <3>2 DEF current
    <3> QED
      BY <3>1, <3>2, Zenon
  <2> QED
    BY <2>1, <2>2 DEF LType, Item
<1>3. sent = h \o (front \o (middle \o input))
  BY Zenon DEF Handled, waiting
<1>4. waiting' = front \o (middle \o Append(input, m))
  BY <1>1, Zenon DEF clientWrites, threadVars, waiting, current, fromClient
<1> HIDE DEF front, middle
<1>5. Append(h \o (front \o (middle \o input)), m) = h \o (front \o (middle \o Append(input, m)))
  <2>2. middle \o Append(input, m) = Append(middle \o input, m) /\ middle \o input \in Seq(Item)
    BY <1>2, ConcatAppend, Zenon
  <2> DEFINE back == middle \o input
  <2> HIDE DEF back
  <2>3. front \o Append(back, m) = Append(front \o back, m) /\ front \o back \in Seq(Item)
    BY <1>2, <2>2, ConcatAppend, Zenon DEF back
  <2> DEFINE rest == front \o back
  <2> HIDE DEF rest
  <2>4. h \o Append(rest, m) = Append(h \o rest, m)
    BY <1>2, <2>3, ConcatAppend DEF rest
  <2> QED
    BY <2>2, <2>3, <2>4, Zenon DEF back, rest
<1>6. sent' = h \o waiting'
  BY <1>1, <1>3, <1>4, <1>5, Zenon
<1>7. ~inputClosed
  BY Zenon DEF clientWrites
<1>8. UNCHANGED <<messageQueue, taskQueue, initialized, preprocessor, watchman, ran>>
  BY Zenon DEF clientWrites, threadVars
<1> QED
  BY <1>6, <1>7, <1>8, Zenon DEF Handled

\* The reader moves the first message of the input to the end of the queue.
LEMMA ReadMessageHandled ==
  ASSUME LType, NEW h \in Seq(Message), Handled(h), readMessage
  PROVE  Handled(h)'
<1> DEFINE m == Head(input)
           rest == Tail(input)
           queued == messageQueue.pendingRequests
           front == current
<1>1. input # <<>> /\ m \in Message /\ rest \in Seq(Item) /\ input = <<m>> \o rest
  BY DEF readMessage, LType, Item
<1>2. messageQueue'.pendingRequests = Append(queued, m) /\ input' = rest
  BY Zenon DEF readMessage, LType
<1>3. queued \in Seq(Item) /\ m \in Item
  BY <1>1, Zenon DEF LType, Item
<1>4. waiting = front \o (selected(queued, Message) \o input)
  BY Zenon DEF waiting, fromClient
<1>5. waiting' = front \o (selected(Append(queued, m), Message) \o rest)
  BY <1>2, Zenon DEF readMessage, waiting, fromClient, current
<1> HIDE DEF m, rest, queued, front
<1>6. selected(Append(queued, m), Message) = Append(selected(queued, Message), m)
  BY <1>1, <1>3, SelectedAppend
<1>7. selected(queued, Message) \in Seq(Item)
  BY <1>3, SelectedIsSeq, Zenon
<1>8. \A s \in Seq(Item) : Append(s, m) \o rest = s \o (<<m>> \o rest)
  BY <1>1, <1>3
<1>9. waiting' = waiting
  BY <1>1, <1>4, <1>5, <1>6, <1>7, <1>8, Zenon
<1>10. UNCHANGED <<sent, inputClosed, taskQueue, initialized, preprocessor, watchman, ran>>
  BY Zenon DEF readMessage
<1> QED
  BY <1>1, <1>9, <1>10, Zenon DEF Handled

\* Watchman's messages are not the client's.
LEMMA EnqueueNotificationHandled ==
  ASSUME LType, NEW h \in Seq(Message), Handled(h), enqueueNotification
  PROVE  Handled(h)'
<1> DEFINE queued == messageQueue.pendingRequests
<1>1. /\ watchman \in Item /\ watchman \notin Message /\ watchman # "failed"
      /\ messageQueue'.pendingRequests = Append(queued, watchman)
  BY KindsDiffer, Zenon DEF enqueueNotification, LType, Item
<1>2. queued \in Seq(Item)
  BY Zenon DEF LType
<1> HIDE DEF queued
<1>3. selected(Append(queued, watchman), Message) = selected(queued, Message)
  BY <1>1, <1>2, SelectedAppend, Zenon
<1>4. fromClient(messageQueue.pendingRequests)' = fromClient(messageQueue.pendingRequests)
  BY <1>1, <1>3, Zenon DEF fromClient, queued
<1>5. UNCHANGED <<sent, input, inputClosed, taskQueue, initialized, preprocessor, ran>>
  BY Zenon DEF enqueueNotification, clientVars
<1>6. waiting' = waiting
  BY <1>4, <1>5, Zenon DEF waiting, current
<1> QED
  BY <1>1, <1>4, <1>5, <1>6, Zenon DEF Handled

\* The preprocessor takes the first message of the queue.
LEMMA PopMessageHandled ==
  ASSUME LType, NEW h \in Seq(Message), Handled(h), popMessage
  PROVE  Handled(h)'
<1> DEFINE queued == messageQueue.pendingRequests
           x == Head(queued)
           rest == Tail(queued)
           one == <<x>>
<1>1. /\ x \in Item /\ rest \in Seq(Item) /\ one \in Seq(Item) /\ queued = one \o rest
  BY DEF popMessage, LType
<1>2. /\ messageQueue'.pendingRequests = rest
      /\ preprocessor = "await" /\ preprocessor' = x
  BY Zenon DEF popMessage, LType
<1>3. current = <<>> /\ "await" \notin Item
  BY <1>2, KindsDiffer, Zenon DEF current, Item
<1>4. current' = IF x \in Message THEN one ELSE <<>>
  BY <1>2, Zenon DEF current
<1>5. selected(one, Message) = IF x \in Message THEN one ELSE <<>>
  BY <1>1, SelectedOne, Zenon
<1>6. waiting = <<>> \o (selected(queued, Message) \o input)
  BY <1>3, Zenon DEF waiting, fromClient
<1>7. waiting' = selected(one, Message) \o (selected(rest, Message) \o input)
  BY <1>2, <1>4, <1>5, Zenon DEF popMessage, clientVars, waiting, fromClient
<1> HIDE DEF queued, x, rest, one
<1>8. selected(queued, Message) = selected(one, Message) \o selected(rest, Message)
  BY <1>1, SelectedConcat
<1>9. selected(one, Message) \in Seq(Item) /\ selected(rest, Message) \in Seq(Item) /\ input \in Seq(Item)
  BY <1>1, SelectedIsSeq DEF LType, Item
<1>10. \A a, b, c \in Seq(Item) : a \o (b \o c) = <<>> \o ((a \o b) \o c)
  BY SMTT(20)
<1>11. waiting' = waiting
  BY <1>6, <1>7, <1>8, <1>9, <1>10, SMTT(20)
<1>12. UNCHANGED <<sent, input, inputClosed, taskQueue, initialized, watchman, ran>>
  BY Zenon DEF popMessage, clientVars
<1>13. ~taskQueue.terminated /\ preprocessor' # "ended"
  BY <1>1, <1>2, KindsDiffer, Zenon DEF Handled
<1> QED
  BY <1>11, <1>12, <1>13, Zenon DEF Handled

\* What the preprocessor takes from Watchman adds nothing to the client's tasks.
LEMMA WatchmanMessageHandled ==
  ASSUME LType, NEW h \in Seq(Message), Handled(h), preprocessAndEnqueue,
         preprocessor \in WatchmanKinds
  PROVE  Handled(h)'
<1> DEFINE m == preprocessor
           old == taskQueue.tasks
<1>1. m \in Task /\ m \in Item /\ m \notin Message /\ m \notin {"enqueued", "ended", "await"}
  BY KindsDiffer, Zenon DEF Item, Task
<1>2. m \notin {"initialize", "initialized", "request", "pause", "resume", "exit"}
  BY KindsAssumption, Zenon
<1>3. preprocessed(m) \in {taskQueue, [taskQueue EXCEPT !.tasks = Append(@, m)]}
  BY <1>2, Zenon DEF preprocessed
<1>4. ~taskQueue.terminated /\ ~occursIn("exit", h)
  BY <1>1, Zenon DEF Handled
<1>5. taskQueue'.tasks \in {old, Append(old, m)} /\ ~taskQueue'.terminated
  BY <1>3, <1>4, Zenon DEF preprocessAndEnqueue, LType
<1>6. tasksOfClient(Append(old, m)) = tasksOfClient(old)
  BY <1>1, <1>2, OthersDoNotCount, Zenon DEF LType
<1>7. tasksOfClient(taskQueue.tasks)' = tasksOfClient(taskQueue.tasks)
  BY <1>5, <1>6, Zenon
<1>8. /\ preprocessor' = "enqueued" /\ initialized' = initialized
      /\ UNCHANGED <<sent, input, inputClosed, messageQueue, watchman, ran>>
  BY <1>2, Zenon DEF preprocessAndEnqueue, clientVars, LType
<1>9. waiting' = waiting
  <2>1. "enqueued" \notin Message
    BY KindsDiffer, Zenon DEF Item
  <2>2. current = <<>> /\ current' = <<>>
    BY <1>1, <1>8, <2>1, Zenon DEF current
  <2> QED
    BY <1>8, <2>2, Zenon DEF waiting, fromClient
<1> QED
  BY <1>4, <1>5, <1>7, <1>8, <1>9, Zenon DEF Handled

\* A message of the client moves from what is waiting to what is handled, and
\* its task to the end of the queue.
LEMMA ClientMessageHandled ==
  ASSUME LType, Handshake, NEW h \in Seq(Message), Handled(h), preprocessAndEnqueue,
         preprocessor \in Message, NEW g, g = Append(h, preprocessor)
  PROVE  Handled(g)'
<1> DEFINE m == preprocessor
           back == fromClient(messageQueue.pendingRequests) \o input
           old == taskQueue.tasks
           kinds == {"initialize", "initialized", "request"}
<1>1. m \in Task /\ m \in Item /\ m \notin {"enqueued", "ended", "await"}
  BY KindsDiffer, Zenon DEF Item, Task
<1>2. ~taskQueue.terminated /\ ~occursIn("exit", h)
  BY <1>1, Zenon DEF Handled
<1>3. g \in Seq(Message) /\ g = h \o <<m>> /\ Len(g) = Len(h) + 1 /\ Len(h) \in Nat
  OBVIOUS
<1>4. back \in Seq(Item) /\ h \in Seq(Item)
  <2>1. fromClient(messageQueue.pendingRequests) \in Seq(Item)
    BY SelectedIsSeq, Zenon DEF LType, fromClient
  <2> QED
    BY <2>1 DEF LType, Item
<1>5. sent = h \o (<<m>> \o back)
  BY Zenon DEF Handled, waiting, current
<1>6. /\ preprocessor' = "enqueued"
      /\ UNCHANGED <<sent, input, inputClosed, messageQueue, watchman, ran>>
  BY Zenon DEF preprocessAndEnqueue, clientVars
<1>7. waiting' = back
  <2>1. "enqueued" \notin Message
    BY KindsDiffer, Zenon DEF Item
  <2>2. current' = <<>>
    BY <1>6, <2>1, Zenon DEF current
  <2>3. waiting' = <<>> \o back
    BY <1>6, <2>2, Zenon DEF waiting, fromClient
  <2> HIDE DEF back
  <2> QED
    BY <1>4, <2>3
<1>8. sent' = g \o waiting'
  <2> HIDE DEF back
  <2>1. h \o (<<m>> \o back) = (h \o <<m>>) \o back
    BY <1>1, <1>4
  <2> QED
    BY <1>3, <1>5, <1>6, <1>7, <2>1, Zenon
<1>9. Len(sent) >= Len(h) + 1 /\ sent[Len(h) + 1] = m
  <2> HIDE DEF back
  <2>1. Len(h \o (<<m>> \o back)) >= Len(h) + 1 /\ (h \o (<<m>> \o back))[Len(h) + 1] = m
    BY <1>1, <1>4
  <2> QED
    BY <1>5, <2>1, Zenon
<1>10. /\ Len(h) = 0 => m = "initialize"
       /\ Len(h) = 1 => m = "initialized"
       /\ Len(h) > 1 => m \in ClientKinds
  <2>1. Len(h) + 1 \in 1 .. Len(sent)
    BY <1>3, <1>9 DEF LType
  <2>2. /\ Len(h) + 1 = 1 => m = "initialize"
        /\ Len(h) + 1 = 2 => m = "initialized"
        /\ Len(h) + 1 > 2 => m \in ClientKinds
    BY <1>9, <2>1, Zenon DEF Handshake
  <2>3. /\ Len(h) = 0 => Len(h) + 1 = 1
        /\ Len(h) = 1 => Len(h) + 1 = 2
        /\ Len(h) > 1 => Len(h) + 1 > 2
    <3>1. \A n \in Nat : (n = 0 => n + 1 = 1) /\ (n = 1 => n + 1 = 2) /\ (n > 1 => n + 1 > 2)
      OBVIOUS
    <3> QED
      BY <1>3, <3>1, Zenon
  <2> QED
    BY <2>2, <2>3, Zenon
<1>11. /\ m \in ClientKinds => m \in {"request", "pause", "resume", "exit"}
       /\ m \notin WatchmanKinds
  BY KindsAssumption, KindsDiffer, Zenon
<1>12. initialized <=> Len(h) >= 2
  BY Zenon DEF Handled
<1>13. initialized' <=> Len(g) >= 2
  <2>1. Len(h) >= 2 => Len(g) >= 2
    BY <1>3
  <2>2. Len(h) = 0 => ~(Len(g) >= 2) /\ ~(Len(h) >= 2) /\ m # "initialized"
    BY <1>3, <1>10
  <2>3. Len(h) = 1 => Len(g) >= 2 /\ m = "initialized"
    BY <1>3, <1>10
  <2>4. Len(h) = 0 \/ Len(h) = 1 \/ Len(h) >= 2
    BY <1>3
  <2>5. initialized' = (initialized \/ m = "initialized")
    BY Zenon DEF preprocessAndEnqueue
  <2> QED
    BY <1>12, <2>1, <2>2, <2>3, <2>4, <2>5, Zenon
<1>14. ensureInitialized(m)
  <2>1. ~(Len(h) >= 2) => m \in {"initialize", "initialized"}
    BY <1>3, <1>10
  <2> QED
    BY <1>12, <2>1, Zenon DEF ensureInitialized
<1>15. CASE m = "exit"
  <2>1. preprocessed(m) = [taskQueue EXCEPT !.terminated = TRUE]
    BY <1>14, <1>15, Zenon DEF preprocessed
  <2>2. taskQueue'.terminated /\ taskQueue'.tasks = old
    BY <2>1, Zenon DEF preprocessAndEnqueue, LType
  <2>3. occursIn("exit", g)
    BY <1>3, <1>15 DEF occursIn
  <2>4. beforeExit(g) = h
    BY <1>2, <1>15, ExitEnds, Zenon
  <2>5. beforeExit(h) = h
    BY <1>2, BeforeExitIsAll, Zenon
  <2>6. (tasksOfClient(ran) \o tasksOfClient(taskQueue.tasks))' = tasksOfClient(beforeExit(g))
    BY <1>6, <2>2, <2>4, <2>5, Zenon DEF Handled
  <2>7. preprocessor' = "enqueued" /\ "enqueued" # "ended"
    BY <1>6, Zenon
  <2> QED
    BY <1>8, <1>13, <2>2, <2>3, <2>6, <2>7, Zenon DEF Handled
<1>16. CASE m # "exit"
  <2>1. ~occursIn("exit", g)
    BY <1>2, <1>3, <1>16 DEF occursIn
  <2>2. beforeExit(g) = g /\ beforeExit(h) = h
    BY <1>2, <1>3, <2>1, BeforeExitIsAll, Zenon
  <2>3. /\ taskQueue'.tasks = IF m \in kinds THEN Append(old, m) ELSE old
        /\ ~taskQueue'.terminated
    <3>1. m \in {"initialize", "initialized"} \cup {"request", "pause", "resume"}
      BY <1>3, <1>10, <1>11, <1>16
    <3>2. CASE m \in kinds
      <4>1. preprocessed(m) = [taskQueue EXCEPT !.tasks = Append(@, m)]
        BY <1>14, <3>2, Zenon DEF preprocessed
      <4> QED
        BY <1>2, <3>2, <4>1, Zenon DEF preprocessAndEnqueue, LType
    <3>3. CASE m \in {"pause", "resume"}
      <4>1. preprocessed(m) \in {[taskQueue EXCEPT !.paused = TRUE], [taskQueue EXCEPT !.paused = FALSE]}
        BY <1>14, <3>3, Zenon DEF preprocessed
      <4> QED
        BY <1>2, <3>3, <4>1, Zenon DEF preprocessAndEnqueue, LType
    <3> QED
      BY <3>1, <3>2, <3>3, Zenon
  <2>4. tasksOfClient(ran) \o tasksOfClient(old) = tasksOfClient(h)
    BY <2>2, Zenon DEF Handled
  <2>5. /\ tasksOfClient(ran) \in Seq(Task) /\ tasksOfClient(old) \in Seq(Task)
        /\ old \in Seq(Task) /\ h \in Seq(Task)
    BY SelectedIsSeq, <1>4 DEF LType, tasksOfClient, Task
  <2>6. tasksOfClient(ran) \o tasksOfClient(taskQueue'.tasks) = tasksOfClient(g)
    <3>0. \A t \in Seq(Task) :
            tasksOfClient(Append(t, m)) = IF m \in kinds THEN Append(tasksOfClient(t), m) ELSE tasksOfClient(t)
      BY <1>1, SelectedAppend DEF tasksOfClient
    <3> HIDE DEF old, kinds
    <3>1. CASE m \in kinds
      <4>1. tasksOfClient(Append(old, m)) = Append(tasksOfClient(old), m)
        BY <2>5, <3>0, <3>1, Zenon
      <4>2. tasksOfClient(g) = Append(tasksOfClient(h), m)
        BY <2>5, <3>0, <3>1, Zenon
      <4>3. tasksOfClient(ran) \o Append(tasksOfClient(old), m) = Append(tasksOfClient(ran) \o tasksOfClient(old), m)
        <5>1. m \in Task
          BY <1>1, Zenon DEF Task, Item
        <5> QED
          BY <2>5, <5>1, ConcatAppend
      <4> QED
        BY <2>3, <2>4, <3>1, <4>1, <4>2, <4>3, Zenon
    <3>2. CASE m \notin kinds
      <4>1. tasksOfClient(g) = tasksOfClient(h)
        BY <2>5, <3>0, <3>2, Zenon
      <4> QED
        BY <2>3, <2>4, <3>2, <4>1, Zenon
    <3> QED
      BY <3>1, <3>2, Zenon
  <2>7. (tasksOfClient(ran) \o tasksOfClient(taskQueue.tasks))' = tasksOfClient(beforeExit(g))
    BY <1>6, <2>2, <2>6, Zenon
  <2>8. preprocessor' = "enqueued" /\ "enqueued" # "ended"
    BY <1>6, Zenon
  <2> QED
    BY <1>8, <1>13, <2>1, <2>3, <2>7, <2>8, Zenon DEF Handled
<1> QED
  BY <1>15, <1>16, Zenon

\* The preprocessor ends when the client has nothing more to say, or has said
\* exit, or Watchman has died.
LEMMA PreprocessorEndsHandled ==
  ASSUME LType, Places, NEW h \in Seq(Message), Handled(h), noMoreMessages \/ afterExit
  PROVE  Handled(h)'
<1>1. /\ taskQueue'.terminated /\ taskQueue'.tasks = taskQueue.tasks /\ preprocessor' = "ended"
      /\ messageQueue'.pendingRequests = messageQueue.pendingRequests
      /\ UNCHANGED <<sent, input, inputClosed, initialized, watchman, ran>>
  BY Zenon DEF noMoreMessages, afterExit, preprocessorEnds, clientVars, LType
<1>2. preprocessor \in {"await", "enqueued"} /\ {"await", "enqueued", "ended"} \cap Message = {}
  BY KindsDiffer, Zenon DEF noMoreMessages, afterExit, Item
<1>3. waiting' = waiting
  <2>1. current' = <<>> /\ current = <<>>
    BY <1>1, <1>2, Zenon DEF current
  <2> QED
    BY <1>1, <2>1, Zenon DEF waiting, fromClient
<1>4. \/ watchman = "failed" \/ occursIn("exit", h)
      \/ inputClosed /\ input = <<>> /\ fromClient(messageQueue.pendingRequests) = <<>>
  <2>1. CASE afterExit
    BY <2>1, Zenon DEF afterExit, Handled
  <2>2. CASE noMoreMessages
    <3>1. fromClient(messageQueue.pendingRequests) = <<>>
      BY <2>2, SelectedEmpty, Zenon DEF noMoreMessages, fromClient
    <3>2. ~taskQueue.terminated
      BY <2>2, Zenon DEF noMoreMessages, Handled
    <3> QED
      BY <2>2, <3>1, <3>2, Zenon DEF noMoreMessages, Places
  <2> QED
    BY <2>1, <2>2, Zenon
<1> QED
  BY <1>1, <1>3, <1>4, Zenon DEF Handled, fromClient

\* Every step of every thread keeps account of what the client sent.
LEMMA HandledStep ==
  ASSUME LType, Handshake, Places, NEW h \in Seq(Message), Handled(h), Next
  PROVE  \E g \in Seq(Message) : Handled(g)'
<1>1. CASE clientWrites
  BY <1>1, ClientWritesHandled, Zenon
<1>2. CASE readMessage
  BY <1>2, ReadMessageHandled, Zenon
<1>3. CASE enqueueNotification
  BY <1>3, EnqueueNotificationHandled, Zenon
<1>4. CASE popMessage
  BY <1>4, PopMessageHandled, Zenon
<1>5. CASE preprocessAndEnqueue
  <2>1. CASE preprocessor \in WatchmanKinds
    BY <1>5, <2>1, WatchmanMessageHandled, Zenon
  <2>2. CASE preprocessor \in Message
    <3>0. Append(h, preprocessor) \in Seq(Message)
      BY <2>2
    <3>1. PICK g \in Seq(Message) : g = Append(h, preprocessor)
      BY <3>0, Zenon
    <3>2. Handled(g)'
      BY <1>5, <2>2, <3>1, ClientMessageHandled, Zenon
    <3> QED
      BY <3>2, Zenon
  <2> QED
    BY <1>5, <2>1, <2>2, Zenon DEF preprocessAndEnqueue
<1>6. CASE noMoreMessages \/ afterExit
  BY <1>6, PreprocessorEndsHandled, Zenon
<1>7. CASE afterMessage
  <2>1. /\ preprocessor = "enqueued" /\ preprocessor' = "await" /\ ~taskQueue.terminated
        /\ UNCHANGED <<sent, input, inputClosed, messageQueue, taskQueue, initialized, watchman, ran>>
    BY <1>7, Zenon DEF afterMessage, clientVars
  <2>2. "await" \notin Message /\ "enqueued" \notin Message
    BY KindsDiffer, Zenon DEF Item
  <2>3. waiting' = waiting
    BY <2>1, <2>2, Zenon DEF waiting, current, fromClient
  <2>4. Handled(h)'
    BY <2>1, <2>3, Zenon DEF Handled, fromClient
  <2> QED
    BY <2>4, Zenon
<1>8. CASE runTask \/ indexInitialized
  <2>1. /\ taskQueue.tasks # <<>> /\ ran' = Append(ran, Head(taskQueue.tasks))
        /\ taskQueue'.tasks = Tail(taskQueue.tasks) /\ taskQueue'.terminated = taskQueue.terminated
        /\ UNCHANGED <<sent, input, inputClosed, messageQueue, initialized, preprocessor, watchman>>
    BY <1>8, Zenon DEF runTask, indexInitialized, clientVars, LType
  <2>2. (tasksOfClient(ran) \o tasksOfClient(taskQueue.tasks))' =
          tasksOfClient(ran) \o tasksOfClient(taskQueue.tasks)
    BY <2>1, RunKeepsTasks, Zenon DEF LType
  <2>3. waiting' = waiting
    BY <2>1, Zenon DEF waiting, current, fromClient
  <2>4. Handled(h)'
    BY <2>1, <2>2, <2>3, Zenon DEF Handled, fromClient
  <2> QED
    BY <2>4, Zenon
<1>9. CASE initialize
  <2>1. /\ taskQueue'.tasks = <<"indexerInitialization">> \o taskQueue.tasks
        /\ taskQueue'.terminated = taskQueue.terminated
        /\ UNCHANGED <<sent, input, inputClosed, messageQueue, initialized, preprocessor, watchman, ran>>
    BY <1>9, Zenon DEF initialize, clientVars, LType
  <2>2. tasksOfClient(taskQueue.tasks)' = tasksOfClient(taskQueue.tasks)
    <3>1. "indexerInitialization" \in Task /\ taskQueue.tasks \in Seq(Task)
      BY Zenon DEF LType, Task
    <3>2. "indexerInitialization" \notin {"initialize", "initialized", "request"}
      OBVIOUS
    <3>3. tasksOfClient(<<"indexerInitialization">> \o taskQueue.tasks) = tasksOfClient(taskQueue.tasks)
      BY <3>1, <3>2, OthersDoNotCount, Zenon
    <3>4. tasksOfClient(taskQueue.tasks)' = tasksOfClient(taskQueue'.tasks)
      BY Zenon DEF tasksOfClient
    <3> QED
      BY <2>1, <3>3, <3>4, Zenon
  <2>3. waiting' = waiting
    BY <2>1, Zenon DEF waiting, current, fromClient
  <2>4. Handled(h)'
    BY <2>1, <2>2, <2>3, Zenon DEF Handled, fromClient
  <2> QED
    BY <2>4, Zenon
<1>10. ASSUME UNCHANGED <<sent, input, messageQueue.pendingRequests, taskQueue.tasks,
                          taskQueue.terminated, initialized, preprocessor, ran>>,
              inputClosed => inputClosed', watchman = "failed" => watchman' = "failed"
       PROVE  \E g \in Seq(Message) : Handled(g)'
  BY <1>10, HandledUnchanged, Zenon
<1>11. CASE clientCloses
  BY <1>10, <1>11, Zenon DEF clientCloses, threadVars
<1>12. CASE watchmanLine \/ watchmanFails \/ watchmanStops
  BY <1>10, <1>12, Zenon DEF watchmanLine, watchmanFails, watchmanStops, clientVars, LType
<1>13. CASE readTimeout \/ readEnd
  BY <1>10, <1>13, Zenon DEF readTimeout, readEnd, clientVars, LType
<1>14. CASE notifyInitialized \/ processorEnds \/ shutdown
  BY <1>10, <1>14, Zenon DEF notifyInitialized, processorEnds, shutdown, clientVars, LType
<1>15. CASE stopWatchman \/ runLSPReturns
  BY <1>10, <1>15, Zenon DEF stopWatchman, runLSPReturns, clientVars, threadVars, LType
<1>16. CASE resumeTaskQueue
  BY <1>10, <1>16, Zenon DEF resumeTaskQueue, clientVars, LType
<1> QED
  BY <1>1, <1>2, <1>3, <1>4, <1>5, <1>6, <1>7, <1>8, <1>9, <1>11, <1>12, <1>13, <1>14,
     <1>15, <1>16
  DEF Next, environmentStep, readerStep, watchmanStep, preprocessorStep, processingStep,
      typecheckerStep

\* Every step of every thread keeps track of what the client has sent: it is
\* handled, in the preprocessor's hands, queued or unread, in that order.
THEOREM LifecycleInvariant == Spec => []LInv
<1>1. ASSUME LInv, [Next]_vars PROVE LInv'
  <2>1. CASE Next
    <3>1. PICK h \in Seq(Message) : Handled(h)
      BY <1>1, Zenon DEF LInv
    <3>2. LType' /\ Handshake' /\ IndexerIsInitializedFirst' /\ InitializationIsNext'
      BY <1>1, <2>1, TypeStep, HandshakeStep, FirstStep, Zenon DEF LInv
    <3>3. Places'
      BY <1>1, <2>1, <3>1, PlacesStep, Zenon DEF LInv
    <3>4. \E g \in Seq(Message) : Handled(g)'
      BY <1>1, <2>1, <3>1, HandledStep, Zenon DEF LInv
    <3> QED
      BY <3>2, <3>3, <3>4, Zenon DEF LInv
  <2>2. CASE UNCHANGED vars
    <3>1. PICK h \in Seq(Message) : Handled(h)
      BY <1>1, Zenon DEF LInv
    <3>2. Handled(h)'
      BY <2>2, <3>1, HandledUnchanged, Zenon DEF vars, clientVars, threadVars
    <3>3. LType' /\ Handshake' /\ IndexerIsInitializedFirst' /\ InitializationIsNext' /\ Places'
      BY <1>1, <2>2 DEF LInv, vars, clientVars, threadVars, LType, Handshake, IndexerIsInitializedFirst,
                  InitializationIsNext, Places
    <3> QED
      BY <3>2, <3>3, Zenon DEF LInv
  <2> QED
    BY <1>1, <2>1, <2>2, Zenon
<1> QED
  BY <1>1, LInitInv, PTL DEF Spec

\* LSPTypechecker::initialize gives the indexer its file table before any task
\* that came in during the initial typecheck is indexed, whatever the client and
\* Watchman send meanwhile.
THEOREM IndexerComesFirst == Spec => []IndexerIsInitializedFirst
  BY LifecycleInvariant, PTL DEF LInv

\* The server runs what the client sent before its exit notification, or before
\* it closed its input, in that order, and all of it unless Watchman died: no
\* thread ends too early, and no message is dropped between them.
THEOREM RequestsFinish == Spec => []PendingRequestsFinish
<1>1. LInv => PendingRequestsFinish
  <2> SUFFICES ASSUME LInv PROVE PendingRequestsFinish
    BY Zenon
  <2>1. PICK h \in Seq(Message) : Handled(h)
    BY Zenon DEF LInv
  <2> DEFINE expected == tasksOfClient(beforeExit(sent))
             served == tasksOfClient(ran)
             queued == tasksOfClient(taskQueue.tasks)
  <2>2. LType /\ Places
    BY Zenon DEF LInv
  <2>3. waiting \in Seq(Item) /\ h \in Seq(Item) /\ sent = h \o waiting
    <3>1. fromClient(messageQueue.pendingRequests) \in Seq(Item)
      BY <2>2, SelectedIsSeq, Zenon DEF LType, fromClient
    <3>2. current \in Seq(Item)
      <4>1. CASE preprocessor \in Message
        BY <4>1 DEF current, Item
      <4>2. CASE preprocessor \notin Message
        BY <4>2 DEF current
      <4> QED
        BY <4>1, <4>2, Zenon
    <3>3. input \in Seq(Item) /\ h \in Seq(Item)
      BY <2>2 DEF LType, Item
    <3>4. waiting \in Seq(Item)
      BY <3>1, <3>2, <3>3 DEF waiting
    <3> QED
      BY <2>1, <3>3, <3>4, Zenon DEF Handled
  <2>4. served \in Seq(Task) /\ queued \in Seq(Task)
    BY <2>2, SelectedIsSeq, Zenon DEF LType, tasksOfClient
  <2>5. \E rest \in Seq(Task) : expected = (served \o queued) \o rest
    <3>1. served \o queued = tasksOfClient(beforeExit(h))
      BY <2>1, Zenon DEF Handled
    <3>2. CASE occursIn("exit", h)
      <4>1. expected = served \o queued
        BY <2>3, <3>1, <3>2, NothingAfterExit, Zenon
      <4>2. <<>> \in Seq(Task) /\ (served \o queued) \o <<>> = served \o queued
        <5> HIDE DEF served, queued
        <5> QED
          BY <2>4
      <4> QED
        BY <4>1, <4>2, Zenon
    <3>3. CASE ~occursIn("exit", h)
      <4>1. beforeExit(h) = h
        BY <2>3, <3>3, BeforeExitIsAll, Zenon
      <4>2. PICK n \in 0 .. Len(sent) : /\ ~occursIn("exit", SubSeq(sent, 1, n))
                                        /\ n = Len(sent) \/ sent[n + 1] = "exit"
                                        /\ beforeExit(sent) = SubSeq(sent, 1, n)
        BY <2>2, BeforeExitIsPrefix, Zenon DEF LType
      <4>3. Len(h) \in Nat /\ Len(h) <= Len(sent) /\ \A i \in 1 .. Len(h) : sent[i] = h[i]
        BY <2>3
      <4>4. n >= Len(h)
        <5> SUFFICES ASSUME n < Len(h) PROVE FALSE
          BY <4>3
        <5>1. n + 1 \in 1 .. Len(h) /\ n # Len(sent)
          BY <4>3
        <5>2. h[n + 1] = "exit"
          BY <4>2, <4>3, <5>1, Zenon
        <5> QED
          BY <3>3, <5>1, <5>2, Zenon DEF occursIn
      <4> DEFINE t == SubSeq(sent, Len(h) + 1, n)
      <4>5. SubSeq(sent, 1, n) = h \o t /\ t \in Seq(Item)
        <5>1. sent \in Seq(Item) /\ Len(sent) \in Nat
          BY <2>2 DEF LType, Item
        <5>2. /\ t \in Seq(Item) /\ Len(t) = n - Len(h)
              /\ \A i \in 1 .. n - Len(h) : t[i] = sent[Len(h) + i]
          BY <4>3, <4>4, <5>1
        <5> HIDE DEF t
        <5>3. /\ h \o t \in Seq(Item) /\ Len(h \o t) = n
              /\ \A i \in 1 .. n : (h \o t)[i] = sent[i]
          BY <2>3, <4>3, <4>4, <5>2
        <5>4. /\ SubSeq(sent, 1, n) \in Seq(Item) /\ Len(SubSeq(sent, 1, n)) = n
              /\ \A i \in 1 .. n : SubSeq(sent, 1, n)[i] = sent[i]
          BY <5>1
        <5> QED
          BY <5>2, <5>3, <5>4
      <4> HIDE DEF t
      <4>6. expected = tasksOfClient(h) \o tasksOfClient(t)
        <5>1. \A kinds : selected(h \o t, kinds) = selected(h, kinds) \o selected(t, kinds)
          BY <2>3, <4>5, SelectedConcat, SMTT(20)
        <5> QED
          BY <4>2, <4>5, <5>1, Zenon DEF tasksOfClient
      <4>7. tasksOfClient(t) \in Seq(Task)
        BY <4>5, SelectedIsSeq DEF tasksOfClient, Task
      <4> QED
        BY <3>1, <4>1, <4>6, <4>7, Zenon
    <3> QED
      BY <3>2, <3>3, Zenon
  <2>6. PICK rest \in Seq(Task) : expected = (served \o queued) \o rest
    BY <2>5, Zenon
  <2>7. served = SubSeq(expected, 1, Len(served))
    <3> HIDE DEF expected, served, queued
    <3> QED
      BY <2>4, <2>6
  <2>8. ASSUME processing = "ended", watchman # "failed" PROVE served = expected
    <3>1. preprocessor = "ended" /\ taskQueue.tasks = <<>>
      BY <2>2, <2>8, Zenon DEF Places
    <3>2. queued = <<>>
      BY <3>1, SelectedEmpty, Zenon DEF tasksOfClient
    <3>3. served = tasksOfClient(beforeExit(h))
      <4>1. served \o queued = tasksOfClient(beforeExit(h))
        BY <2>1, Zenon DEF Handled
      <4> HIDE DEF served, queued
      <4> QED
        BY <2>4, <3>2, <4>1
    <3>4. CASE occursIn("exit", h)
      BY <2>3, <3>3, <3>4, NothingAfterExit, Zenon
    <3>5. CASE ~occursIn("exit", h)
      <4>1. input = <<>> /\ fromClient(messageQueue.pendingRequests) = <<>>
        BY <2>1, <2>8, <3>1, <3>5, Zenon DEF Handled
      <4>2. current = <<>>
        BY <3>1, KindsDiffer, Zenon DEF current, Item
      <4>3. waiting = <<>>
        BY <4>1, <4>2 DEF waiting
      <4>4. sent = h
        BY <2>3, <4>3
      <4> QED
        BY <3>3, <4>4, Zenon
    <3> QED
      BY <3>4, <3>5, Zenon
  <2> QED
    BY <2>7, <2>8, Zenon DEF PendingRequestsFinish
<1> QED
  BY <1>1, LifecycleInvariant, PTL
=============================================================================
