------------------------- MODULE LSPScheduler_proofs -------------------------
(***************************************************************************)
(* The theorems about LSPScheduler, for every number of tasks, files and   *)
(* workers: what the operations on the task queue preserve, the steps that *)
(* keep the inductive invariant, and what follows from it.                 *)
(***************************************************************************)
EXTENDS LSPSchedulerInvariant, TLAPS

-----------------------------------------------------------------------------
(* The task queue. *)

\* A queue with a task at the end.
LEMMA AppendProperties ==
  ASSUME NEW S, NEW q \in Seq(S), NEW x \in S
  PROVE  /\ Append(q, x) \in Seq(S) /\ Len(Append(q, x)) = Len(q) + 1
         /\ \A i \in 1 .. Len(q) : Append(q, x)[i] = q[i]
         /\ Append(q, x)[Len(q) + 1] = x
OBVIOUS

\* A queue without its front.
LEMMA HeadTailProperties ==
  ASSUME NEW S, NEW q \in Seq(S), q # << >>
  PROVE  /\ Head(q) = q[1] /\ Head(q) \in S /\ Len(q) >= 1
         /\ Tail(q) \in Seq(S) /\ Len(Tail(q)) = Len(q) - 1
         /\ \A i \in 1 .. Len(Tail(q)) : Tail(q)[i] = q[i + 1]
OBVIOUS

\* A queue with another task at position i.
LEMMA ExceptSeq ==
  ASSUME NEW S, NEW q \in Seq(S), NEW i \in 1 .. Len(q), NEW x \in S
  PROVE  /\ [q EXCEPT ![i] = x] \in Seq(S) /\ Len([q EXCEPT ![i] = x]) = Len(q)
         /\ \A j \in 1 .. Len(q) : [q EXCEPT ![i] = x][j] = IF j = i THEN x ELSE q[j]
OBVIOUS

\* Two queues in a row.
LEMMA ConcatProperties ==
  ASSUME NEW S, NEW q \in Seq(S), NEW r \in Seq(S)
  PROVE  /\ q \o r \in Seq(S) /\ Len(q \o r) = Len(q) + Len(r)
         /\ \A i \in 1 .. Len(q) + Len(r) :
              (q \o r)[i] = IF i <= Len(q) THEN q[i] ELSE r[i - Len(q)]
OBVIOUS

\* What erasing a position of the queue leaves (deque::erase).
LEMMA WithoutPosition ==
  ASSUME NEW S, NEW q \in Seq(S), NEW j \in 1 .. Len(q)
  PROVE  /\ withoutPosition(q, j) \in Seq(S)
         /\ Len(withoutPosition(q, j)) = Len(q) - 1
         /\ \A i \in 1 .. Len(q) - 1 :
              withoutPosition(q, j)[i] = IF i < j THEN q[i] ELSE q[i + 1]
<1> DEFINE a == SubSeq(q, 1, j - 1)
           b == SubSeq(q, j + 1, Len(q))
<1>1. a \in Seq(S) /\ Len(a) = j - 1 /\ \A i \in 1 .. j - 1 : a[i] = q[i]
  OBVIOUS
<1>2. b \in Seq(S) /\ Len(b) = Len(q) - j
      /\ \A i \in 1 .. Len(q) - j : b[i] = q[i + j]
  OBVIOUS
<1>3. withoutPosition(q, j) = a \o b
  BY Zenon DEF withoutPosition
<1> HIDE DEF a, b
<1>4. /\ a \o b \in Seq(S)
      /\ Len(a \o b) = Len(a) + Len(b)
      /\ \A i \in 1 .. Len(a) + Len(b) :
           (a \o b)[i] = IF i <= Len(a) THEN a[i] ELSE b[i - Len(a)]
  BY <1>1, <1>2, ConcatProperties, Zenon
<1>5. ASSUME NEW i \in 1 .. Len(q) - 1
      PROVE  (a \o b)[i] = IF i < j THEN q[i] ELSE q[i + 1]
  <2>1. CASE i < j
    BY <2>1, <1>1, <1>2, <1>4
  <2>2. CASE ~(i < j)
    <3>1. i - Len(a) \in 1 .. Len(q) - j /\ i \in 1 .. Len(a) + Len(b) /\ ~(i <= Len(a))
      BY <2>2, <1>1, <1>2
    <3>2. (a \o b)[i] = b[i - Len(a)]
      BY <3>1, <1>4, Zenon
    <3>3. b[i - Len(a)] = q[(i - Len(a)) + j]
      BY <3>1, <1>2, Zenon
    <3>4. (i - Len(a)) + j = i + 1
      BY <1>1
    <3>5. QED
      BY <2>2, <3>2, <3>3, <3>4, Zenon
  <2>3. QED
    BY <2>1, <2>2, Zenon
<1>6. Len(a) + Len(b) = Len(q) - 1
  BY <1>1, <1>2
<1>7. QED
  BY <1>3, <1>4, <1>5, <1>6, Zenon

\* A queue stays well-formed when a task is erased from it.
LEMMA EraseQueueOK ==
  ASSUME NEW q \in Seq(Task), NEW lo, NEW hi, QueueOK(q, lo, hi),
         NEW j \in 1 .. Len(q)
  PROVE  QueueOK(withoutPosition(q, j), lo, hi)
<1> DEFINE r == withoutPosition(q, j)
<1>1. /\ Len(r) = Len(q) - 1
      /\ \A i \in 1 .. Len(r) : r[i] = IF i < j THEN q[i] ELSE q[i + 1]
  BY WithoutPosition, Zenon
<1>2. Len(q) \in Nat
  OBVIOUS
<1> HIDE DEF r
<1>3. ASSUME NEW i \in 1 .. Len(r)
      PROVE  \E k \in 1 .. Len(q) : r[i] = q[k]
  BY <1>1, <1>2
<1>4. ASSUME NEW i \in 1 .. Len(r), NEW k \in 1 .. Len(r), i < k
      PROVE  \E m, n \in 1 .. Len(q) : m < n /\ r[i] = q[m] /\ r[k] = q[n]
  <2> DEFINE m == IF i < j THEN i ELSE i + 1
             n == IF k < j THEN k ELSE k + 1
  <2>1. m \in 1 .. Len(q) /\ n \in 1 .. Len(q) /\ m < n
    BY <1>1, <1>2, <1>4
  <2>2. r[i] = q[m] /\ r[k] = q[n]
    BY <1>1, Zenon
  <2>3. QED
    BY <2>1, <2>2, Zenon
<1>5. QED
  BY <1>3, <1>4, Zenon DEF QueueOK, r

\* A queue stays well-formed when a newly sent task is appended.
LEMMA AppendQueueOK ==
  ASSUME NEW q \in Seq(Task), NEW hi \in Nat, NEW lo \in 0 .. hi,
         QueueOK(q, lo, hi),
         NEW t \in Task, t.id = hi + 1, t.kind \in AllKinds,
         t.path \in Paths(t.kind), ~t.canceledSlowPath
  PROVE  Append(q, t) \in Seq(Task) /\ QueueOK(Append(q, t), lo, hi + 1)
<1> DEFINE r == Append(q, t)
<1>1. /\ r \in Seq(Task) /\ Len(r) = Len(q) + 1 /\ Len(q) \in Nat
      /\ \A i \in 1 .. Len(q) : r[i] = q[i]
      /\ r[Len(q) + 1] = t
  BY AppendProperties
<1> HIDE DEF r
<1>2. \A i \in 1 .. Len(r) : i \in 1 .. Len(q) \/ i = Len(q) + 1
  BY <1>1
<1>3. ASSUME NEW i \in 1 .. Len(r)
      PROVE  /\ r[i].id \in 1 .. hi + 1
             /\ r[i].kind \in AllKinds
             /\ r[i].path \in Paths(r[i].kind)
             /\ ~r[i].canceledSlowPath
             /\ isEdit(r[i]) => lo < r[i].id
  BY <1>1, <1>2 DEF QueueOK
<1>4. ASSUME NEW i \in 1 .. Len(r), NEW k \in 1 .. Len(r), i < k,
             isEdit(r[i]), isEdit(r[k])
      PROVE  r[i].id < r[k].id
  <2>1. i \in 1 .. Len(q) /\ r[i] = q[i]
    BY <1>1, <1>2, <1>4
  <2>2. CASE k \in 1 .. Len(q)
    BY <1>1, <1>4, <2>1, <2>2, Zenon DEF QueueOK
  <2>3. CASE k = Len(q) + 1
    BY <1>1, <2>1, <2>3 DEF QueueOK
  <2>4. QED
    BY <1>2, <2>2, <2>3, Zenon
<1>5. QED
  BY <1>1, <1>3, <1>4, Zenon DEF QueueOK, r

\* mergeFileChanges keeps a queue well-formed: the merged edit takes the epoch of
\* the newer edit and there is no edit in between.
LEMMA MergeQueueOK ==
  ASSUME NEW q \in Seq(Task), NEW lo \in Nat, NEW hi \in Nat, QueueOK(q, lo, hi),
         mergeFileChanges(q)
  PROVE  tasks' \in Seq(Task) /\ QueueOK(tasks', lo, hi)
<1>1. CASE mergeable(q) = {}
  BY <1>1, Zenon DEF mergeFileChanges
<1>2. CASE mergeable(q) # {}
  <2>1. PICK p \in mergeable(q) : \E m \in mergedEdits(q[p[1]], q[p[2]]) :
          tasks' = withoutPosition([q EXCEPT ![p[1]] = m], p[2])
    BY <1>2, Zenon DEF mergeFileChanges
  <2>2. PICK m \in mergedEdits(q[p[1]], q[p[2]]) :
          tasks' = withoutPosition([q EXCEPT ![p[1]] = m], p[2])
    BY <2>1, Zenon
  <2> DEFINE a == p[1]
             b == p[2]
             r == [q EXCEPT ![a] = m]
  <2>3. /\ a \in 1 .. Len(q) /\ b \in 1 .. Len(q) /\ a < b
        /\ isEdit(q[a]) /\ isEdit(q[b])
        /\ \A k \in a + 1 .. b - 1 : isDelayable(q[k])
    BY <2>1 DEF mergeable
  <2>4. /\ m \in Task /\ m.id = q[b].id /\ m.kind \in {"edit", "bulk"}
        /\ m.path \in Paths(m.kind) /\ ~m.canceledSlowPath
    BY <2>2, Zenon DEF mergedEdits
  <2>5. tasks' = withoutPosition(r, b)
    BY <2>2, Zenon
  <2>6. /\ r \in Seq(Task) /\ Len(r) = Len(q) /\ Len(q) \in Nat
        /\ \A i \in 1 .. Len(q) : r[i] = IF i = a THEN m ELSE q[i]
    BY <2>3, <2>4, ExceptSeq
  <2> HIDE DEF a, b, r
  <2>7. /\ tasks' \in Seq(Task) /\ Len(tasks') = Len(q) - 1
        /\ \A i \in 1 .. Len(q) - 1 : tasks'[i] = IF i < b THEN r[i] ELSE r[i + 1]
    BY <2>3, <2>5, <2>6, WithoutPosition, Zenon
  <2>8. ASSUME NEW i \in 1 .. Len(tasks')
        PROVE  \/ i = a /\ tasks'[i] = m
               \/ i < b /\ i # a /\ i \in 1 .. Len(q) /\ tasks'[i] = q[i]
               \/ i >= b /\ i + 1 \in 1 .. Len(q) /\ tasks'[i] = q[i + 1]
    BY <2>3, <2>6, <2>7
  <2>9. ASSUME NEW i \in 1 .. Len(tasks')
        PROVE  /\ tasks'[i].id \in 1 .. hi
               /\ tasks'[i].kind \in AllKinds
               /\ tasks'[i].path \in Paths(tasks'[i].kind)
               /\ ~tasks'[i].canceledSlowPath
               /\ isEdit(tasks'[i]) => lo < tasks'[i].id
    BY <2>3, <2>4, <2>8, Zenon DEF QueueOK, AllKinds
  <2>10. ASSUME NEW i \in 1 .. Len(tasks'), NEW k \in 1 .. Len(tasks'), i < k,
                isEdit(tasks'[i]), isEdit(tasks'[k])
         PROVE  tasks'[i].id < tasks'[k].id
    <3>1. CASE i = a
      <4>1. k >= b
        <5>1. SUFFICES ASSUME k < b PROVE FALSE
          BY <2>3, <2>6, <2>7
        <5>2. tasks'[k] = q[k] /\ k \in a + 1 .. b - 1
          BY <2>3, <2>6, <2>7, <2>8, <2>10, <3>1, <5>1
        <5>3. QED
          BY <2>3, <2>6, <2>7, <2>10, <5>2, Zenon DEF isEdit, isDelayable
      <4>2. /\ tasks'[i] = m
            /\ tasks'[k] = q[k + 1] /\ k + 1 \in 1 .. Len(q)
        <5>1. tasks'[i] = m
          BY <2>3, <2>8, <3>1
        <5>2. ~(k = a) /\ ~(k < b)
          BY <2>3, <2>6, <2>7, <4>1
        <5>3. QED
          BY <2>8, <5>1, <5>2, Zenon
      <4>3. b < k + 1 /\ isEdit(q[k + 1])
        BY <2>3, <2>6, <2>7, <2>10, <4>1, <4>2
      <4>4. QED
        BY <2>3, <2>4, <4>2, <4>3, Zenon DEF QueueOK
    <3>2. CASE k = a
      <4>1. tasks'[i] = q[i] /\ i \in 1 .. Len(q) /\ i < b /\ tasks'[k] = m
        <5>1. i < b /\ i # a /\ ~(i >= b) /\ k < b /\ ~(k >= b)
          BY <2>3, <2>6, <2>7, <2>10, <3>2
        <5>2. tasks'[i] = q[i] /\ i \in 1 .. Len(q)
          BY <2>8, <5>1, Zenon
        <5>3. tasks'[k] = m
          BY <2>8, <3>2, <5>1, Zenon
        <5>4. QED
          BY <5>1, <5>2, <5>3, Zenon
      <4>2. QED
        BY <2>3, <2>4, <2>10, <4>1, Zenon DEF QueueOK
    <3>3. CASE i # a /\ k # a
      <4> DEFINE u == IF i < b THEN i ELSE i + 1
                 v == IF k < b THEN k ELSE k + 1
      <4>1. tasks'[i] = q[u] /\ u \in 1 .. Len(q)
        <5>1. CASE i < b
          BY <2>3, <2>6, <2>7, <2>8, <3>3, <5>1
        <5>2. CASE ~(i < b)
          BY <2>8, <3>3, <5>2, Zenon
        <5>3. QED
          BY <5>1, <5>2, Zenon
      <4>2. tasks'[k] = q[v] /\ v \in 1 .. Len(q)
        <5>1. CASE k < b
          BY <2>3, <2>6, <2>7, <2>8, <3>3, <5>1
        <5>2. CASE ~(k < b)
          BY <2>8, <3>3, <5>2, Zenon
        <5>3. QED
          BY <5>1, <5>2, Zenon
      <4>3. u < v
        BY <2>3, <2>6, <2>7, <2>10
      <4> HIDE DEF u, v
      <4>4. QED
        BY <2>10, <4>1, <4>2, <4>3, Zenon DEF QueueOK
    <3>4. QED
      BY <3>1, <3>2, <3>3, Zenon
  <2>11. QED
    BY <2>7, <2>9, <2>10, Zenon DEF QueueOK
<1>3. QED
  BY <1>1, <1>2, Zenon

\* Popping the front of a well-formed queue: the rest is well-formed and, if the
\* front is an edit, newer than it.
LEMMA PopQueueOK ==
  ASSUME NEW q \in Seq(Task), q # << >>, NEW lo, NEW hi, QueueOK(q, lo, hi)
  PROVE  /\ Head(q) \in Task /\ Tail(q) \in Seq(Task)
         /\ Head(q).id \in 1 .. hi
         /\ Head(q).kind \in AllKinds
         /\ Head(q).path \in Paths(Head(q).kind)
         /\ ~Head(q).canceledSlowPath
         /\ isEdit(Head(q)) => lo < Head(q).id
         /\ QueueOK(Tail(q), lo, hi)
         /\ isEdit(Head(q)) => QueueOK(Tail(q), Head(q).id, hi)
<1> DEFINE r == Tail(q)
<1>1. /\ Head(q) = q[1] /\ Len(q) \in Nat /\ Len(q) >= 1 /\ Head(q) \in Task
      /\ r \in Seq(Task) /\ Len(r) = Len(q) - 1
      /\ \A i \in 1 .. Len(r) : r[i] = q[i + 1]
  BY HeadTailProperties
<1> HIDE DEF r
<1>2. \A i \in 1 .. Len(r) : i + 1 \in 1 .. Len(q) /\ i + 1 > 1
  BY <1>1
<1>3. 1 \in 1 .. Len(q)
  BY <1>1
<1>4. ASSUME NEW l, \A i \in 1 .. Len(r) : isEdit(r[i]) => l < r[i].id
      PROVE  QueueOK(r, l, hi)
  <2>1. ASSUME NEW i \in 1 .. Len(r)
        PROVE  /\ r[i].id \in 1 .. hi
               /\ r[i].kind \in AllKinds
               /\ r[i].path \in Paths(r[i].kind)
               /\ ~r[i].canceledSlowPath
    BY <1>1, <1>2, Zenon DEF QueueOK
  <2>2. ASSUME NEW i \in 1 .. Len(r), NEW k \in 1 .. Len(r), i < k,
               isEdit(r[i]), isEdit(r[k])
        PROVE  r[i].id < r[k].id
    <3>1. i + 1 < k + 1 /\ r[i] = q[i + 1] /\ r[k] = q[k + 1]
          /\ i + 1 \in 1 .. Len(q) /\ k + 1 \in 1 .. Len(q)
      BY <1>1, <1>2, <2>2
    <3>2. QED
      BY <2>2, <3>1, Zenon DEF QueueOK
  <2>3. QED
    BY <1>4, <2>1, <2>2, Zenon DEF QueueOK
<1>5. QueueOK(r, lo, hi)
  <2>1. \A i \in 1 .. Len(r) : isEdit(r[i]) => lo < r[i].id
    BY <1>1, <1>2, Zenon DEF QueueOK
  <2>2. QED
    BY <1>4, <2>1, Zenon
<1>6. isEdit(Head(q)) => QueueOK(r, Head(q).id, hi)
  <2>1. ASSUME isEdit(q[1]), NEW i \in 1 .. Len(r), isEdit(r[i])
        PROVE  q[1].id < r[i].id
    <3>1. i + 1 \in 1 .. Len(q) /\ 1 < i + 1 /\ r[i] = q[i + 1]
      BY <1>1, <1>2, Zenon
    <3>2. QED
      BY <1>3, <2>1, <3>1, Zenon DEF QueueOK
  <2>2. QED
    BY <1>1, <1>4, <2>1, Zenon
<1>7. QED
  BY <1>1, <1>3, <1>5, <1>6, Zenon DEF QueueOK, r

\* Two edits of a queue are kept apart by a task that is not delayable, except
\* across position c: the edit in front of it and the one behind it may merge.
ApartExceptAt(q, c) ==
  \A i, j \in 1 .. Len(q) :
    i < j /\ isEdit(q[i]) /\ isEdit(q[j]) =>
      (i < c /\ c <= j) \/ \E k \in i + 1 .. j - 1 : ~isDelayable(q[k])

\* A queue with nothing to merge, in terms of its positions.
LEMMA NothingToMerge ==
  ASSUME NEW q \in Seq(Task)
  PROVE  mergeable(q) = {} <=>
           \A i, j \in 1 .. Len(q) :
             i < j /\ isEdit(q[i]) /\ isEdit(q[j]) =>
               \E k \in i + 1 .. j - 1 : ~isDelayable(q[k])
<1>1. DOMAIN q = 1 .. Len(q)
  OBVIOUS
<1>2. ASSUME mergeable(q) = {}, NEW i \in 1 .. Len(q), NEW j \in 1 .. Len(q),
             i < j, isEdit(q[i]), isEdit(q[j]),
             \A k \in i + 1 .. j - 1 : isDelayable(q[k])
      PROVE  FALSE
  <2>1. <<i, j>> \in mergeable(q)
    BY <1>1, <1>2, Zenon DEF mergeable
  <2>2. QED
    BY <1>2, <2>1, Zenon
<1>3. ASSUME mergeable(q) # {}
      PROVE  \E i, j \in 1 .. Len(q) :
               /\ i < j /\ isEdit(q[i]) /\ isEdit(q[j])
               /\ \A k \in i + 1 .. j - 1 : isDelayable(q[k])
  <2>1. PICK p \in mergeable(q) : TRUE
    BY <1>3, Zenon
  <2>2. /\ p[1] \in 1 .. Len(q) /\ p[2] \in 1 .. Len(q) /\ p[1] < p[2]
        /\ isEdit(q[p[1]]) /\ isEdit(q[p[2]])
        /\ \A k \in p[1] + 1 .. p[2] - 1 : isDelayable(q[k])
    BY <1>1, <2>1, Zenon DEF mergeable
  <2>3. QED
    BY <2>2, Zenon
<1>4. QED
  BY <1>2, <1>3, Zenon

\* Erasing a task from a queue with nothing to merge brings only the edits on
\* either side of it together.
LEMMA EraseKeepsApart ==
  ASSUME NEW q \in Seq(Task), mergeable(q) = {}, NEW j \in 1 .. Len(q)
  PROVE  ApartExceptAt(withoutPosition(q, j), j)
<1> DEFINE r == withoutPosition(q, j)
<1>1. /\ Len(r) = Len(q) - 1 /\ Len(q) \in Nat
      /\ \A i \in 1 .. Len(r) : r[i] = IF i < j THEN q[i] ELSE q[i + 1]
  BY WithoutPosition
<1> HIDE DEF r
<1>2. SUFFICES ASSUME NEW a \in 1 .. Len(r), NEW b \in 1 .. Len(r), a < b,
                      isEdit(r[a]), isEdit(r[b]), ~(a < j /\ j <= b)
               PROVE  \E k \in a + 1 .. b - 1 : ~isDelayable(r[k])
  BY Zenon DEF ApartExceptAt, r
<1>3. CASE b < j
  <2>1. r[a] = q[a] /\ r[b] = q[b] /\ a \in 1 .. Len(q) /\ b \in 1 .. Len(q)
    BY <1>1, <1>2, <1>3
  <2>2. PICK k \in a + 1 .. b - 1 : ~isDelayable(q[k])
    BY <1>2, <2>1, NothingToMerge, Zenon
  <2>3. r[k] = q[k]
    BY <1>1, <1>2, <1>3, <2>2
  <2>4. QED
    BY <2>2, <2>3, Zenon
<1>4. CASE a >= j
  <2>1. r[a] = q[a + 1] /\ r[b] = q[b + 1] /\ a + 1 \in 1 .. Len(q)
        /\ b + 1 \in 1 .. Len(q) /\ a + 1 < b + 1
    BY <1>1, <1>2, <1>4
  <2>2. PICK k \in (a + 1) + 1 .. (b + 1) - 1 : ~isDelayable(q[k])
    BY <1>2, <2>1, NothingToMerge, Zenon
  <2>3. k - 1 \in a + 1 .. b - 1 /\ k - 1 \in 1 .. Len(r) /\ ~(k - 1 < j) /\ (k - 1) + 1 = k
    BY <1>1, <1>2, <1>4, <2>2
  <2>4. r[k - 1] = q[k]
    BY <1>1, <2>3, Zenon
  <2>5. QED
    BY <2>2, <2>3, <2>4, Zenon
<1>5. QED
  BY <1>1, <1>2, <1>3, <1>4

\* An edit that arrives may merge with the last edit only, another task with none.
LEMMA AppendKeepsApart ==
  ASSUME NEW q \in Seq(Task), mergeable(q) = {}, NEW t \in Task
  PROVE  /\ ApartExceptAt(Append(q, t), Len(q) + 1)
         /\ ~isEdit(t) => mergeable(Append(q, t)) = {}
<1> DEFINE r == Append(q, t)
<1>1. /\ r \in Seq(Task) /\ Len(r) = Len(q) + 1 /\ Len(q) \in Nat
      /\ \A i \in 1 .. Len(q) : r[i] = q[i]
      /\ r[Len(q) + 1] = t
  BY AppendProperties
<1> HIDE DEF r
<1>2. ASSUME NEW a \in 1 .. Len(r), NEW b \in 1 .. Len(r), a < b,
             isEdit(r[a]), isEdit(r[b]), b # Len(q) + 1
      PROVE  \E k \in a + 1 .. b - 1 : ~isDelayable(r[k])
  <2>1. r[a] = q[a] /\ r[b] = q[b] /\ a \in 1 .. Len(q) /\ b \in 1 .. Len(q)
    BY <1>1, <1>2
  <2>2. PICK k \in a + 1 .. b - 1 : ~isDelayable(q[k])
    BY <1>2, <2>1, NothingToMerge, Zenon
  <2>3. r[k] = q[k]
    BY <1>1, <1>2, <2>1, <2>2
  <2>4. QED
    BY <2>2, <2>3, Zenon
<1>3. ApartExceptAt(r, Len(q) + 1)
  BY <1>1, <1>2 DEF ApartExceptAt
<1>4. ~isEdit(t) => mergeable(r) = {}
  BY <1>1, <1>2, NothingToMerge, Zenon
<1>5. QED
  BY <1>3, <1>4, Zenon DEF r

\* Taking the front task brings no edits together.
LEMMA PopKeepsApart ==
  ASSUME NEW q \in Seq(Task), q # << >>, mergeable(q) = {}
  PROVE  mergeable(Tail(q)) = {}
<1> DEFINE r == Tail(q)
<1>1. /\ Len(q) \in Nat /\ Len(q) >= 1
      /\ r \in Seq(Task) /\ Len(r) = Len(q) - 1
      /\ \A i \in 1 .. Len(r) : r[i] = q[i + 1]
  BY HeadTailProperties
<1> HIDE DEF r
<1>2. ASSUME NEW a \in 1 .. Len(r), NEW b \in 1 .. Len(r), a < b,
             isEdit(r[a]), isEdit(r[b])
      PROVE  \E k \in a + 1 .. b - 1 : ~isDelayable(r[k])
  <2>1. r[a] = q[a + 1] /\ r[b] = q[b + 1] /\ a + 1 \in 1 .. Len(q)
        /\ b + 1 \in 1 .. Len(q) /\ a + 1 < b + 1
    BY <1>1, <1>2
  <2>2. PICK k \in (a + 1) + 1 .. (b + 1) - 1 : ~isDelayable(q[k])
    BY <1>2, <2>1, NothingToMerge, Zenon
  <2>3. k - 1 \in a + 1 .. b - 1 /\ k - 1 \in 1 .. Len(r) /\ (k - 1) + 1 = k
    BY <1>1, <1>2, <2>2
  <2>4. r[k - 1] = q[k]
    BY <1>1, <2>3, Zenon
  <2>5. QED
    BY <2>2, <2>3, <2>4, Zenon
<1>3. QED
  BY <1>1, <1>2, NothingToMerge, Zenon DEF r

\* mergeFileChanges merges the one pair of edits there may be around position c;
\* what is left has nothing to merge.
LEMMA MergeLeavesNothing ==
  ASSUME NEW q \in Seq(Task), NEW c \in Nat, ApartExceptAt(q, c), mergeFileChanges(q)
  PROVE  mergeable(tasks') = {}
<1>1. CASE mergeable(q) = {}
  BY <1>1, Zenon DEF mergeFileChanges
<1>2. CASE mergeable(q) # {}
  <2>1. PICK p \in mergeable(q) : \E m \in mergedEdits(q[p[1]], q[p[2]]) :
          tasks' = withoutPosition([q EXCEPT ![p[1]] = m], p[2])
    BY <1>2, Zenon DEF mergeFileChanges
  <2>2. PICK m \in mergedEdits(q[p[1]], q[p[2]]) :
          tasks' = withoutPosition([q EXCEPT ![p[1]] = m], p[2])
    BY <2>1, Zenon
  <2> DEFINE a == p[1]
             b == p[2]
             r == [q EXCEPT ![a] = m]
  <2>3. /\ a \in 1 .. Len(q) /\ b \in 1 .. Len(q) /\ a < b
        /\ isEdit(q[a]) /\ isEdit(q[b])
        /\ \A k \in a + 1 .. b - 1 : isDelayable(q[k])
    BY <2>1 DEF mergeable
  <2>4. m \in Task /\ isEdit(m)
    BY <2>2, Zenon DEF mergedEdits, isEdit
  <2>5. tasks' = withoutPosition(r, b)
    BY <2>2, Zenon
  <2>6. /\ r \in Seq(Task) /\ Len(r) = Len(q) /\ Len(q) \in Nat
        /\ \A i \in 1 .. Len(q) : r[i] = IF i = a THEN m ELSE q[i]
    BY <2>3, <2>4, ExceptSeq
  <2> HIDE DEF a, b, r
  <2>7. /\ tasks' \in Seq(Task) /\ Len(tasks') = Len(q) - 1
        /\ \A i \in 1 .. Len(q) - 1 : tasks'[i] = IF i < b THEN r[i] ELSE r[i + 1]
    BY <2>3, <2>5, <2>6, WithoutPosition, Zenon
  <2>8. \A t : ~(isEdit(t) /\ isDelayable(t))
    BY Zenon DEF isEdit, isDelayable
  <2>9. a < c /\ c <= b
    BY <2>3, Zenon DEF ApartExceptAt
  <2> DEFINE old(i) == IF i < b THEN i ELSE i + 1
  <2>10. \A i \in 1 .. Len(tasks') :
           /\ old(i) \in 1 .. Len(q) /\ old(i) # b
           /\ isEdit(tasks'[i]) <=> isEdit(q[old(i)])
           /\ isDelayable(tasks'[i]) <=> isDelayable(q[old(i)])
    <3> SUFFICES ASSUME NEW i \in 1 .. Len(tasks')
                 PROVE  /\ old(i) \in 1 .. Len(q) /\ old(i) # b
                        /\ isEdit(tasks'[i]) <=> isEdit(q[old(i)])
                        /\ isDelayable(tasks'[i]) <=> isDelayable(q[old(i)])
      BY Zenon
    <3>1. old(i) \in 1 .. Len(q) /\ old(i) # b
      BY <2>3, <2>6, <2>7
    <3>2. tasks'[i] = r[old(i)]
      BY <2>3, <2>6, <2>7, Zenon
    <3> HIDE DEF old
    <3>3. CASE old(i) = a
      BY <2>3, <2>4, <2>6, <2>8, <3>1, <3>2, <3>3, Zenon
    <3>4. CASE old(i) # a
      BY <2>6, <3>1, <3>2, <3>4, Zenon
    <3> QED
      BY <3>1, <3>3, <3>4, Zenon
  <2>11. SUFFICES ASSUME NEW i \in 1 .. Len(tasks'), NEW j \in 1 .. Len(tasks'), i < j,
                         isEdit(tasks'[i]), isEdit(tasks'[j]),
                         \A k \in i + 1 .. j - 1 : isDelayable(tasks'[k])
                  PROVE  FALSE
    BY <2>7, NothingToMerge, Zenon
  <2> DEFINE u == old(i)
             v == old(j)
  <2>12. /\ u \in 1 .. Len(q) /\ v \in 1 .. Len(q) /\ u # b /\ v # b
         /\ isEdit(q[u]) /\ isEdit(q[v])
    BY <2>10, <2>11, Zenon
  <2>13. u < v
    BY <2>3, <2>6, <2>7, <2>11
  <2>14. ASSUME NEW k \in u + 1 .. v - 1, k # b
         PROVE  isDelayable(q[k])
    <3> DEFINE n == IF k < b THEN k ELSE k - 1
    <3>1. n \in i + 1 .. j - 1 /\ n \in 1 .. Len(tasks') /\ old(n) = k
      BY <2>3, <2>6, <2>7, <2>11, <2>14
    <3> HIDE DEF n, old
    <3>2. QED
      BY <2>10, <2>11, <3>1, Zenon
  <2> HIDE DEF u, v, old
  <2>15. CASE u < b /\ b < v
    <3>1. \A k \in b + 1 .. v - 1 : k \in u + 1 .. v - 1 /\ k # b
      BY <2>3, <2>12, <2>15
    <3>2. \A k \in b + 1 .. v - 1 : isDelayable(q[k])
      BY <2>14, <3>1, Zenon
    <3>3. b < c
      BY <2>3, <2>12, <2>15, <3>2, Zenon DEF ApartExceptAt
    <3>4. QED
      BY <2>3, <2>9, <3>3
  <2>16. CASE ~(u < b /\ b < v)
    <3>1. \A k \in u + 1 .. v - 1 : k # b
      BY <2>3, <2>12, <2>16
    <3>2. u < c /\ c <= v
      BY <2>12, <2>13, <2>14, <3>1, Zenon DEF ApartExceptAt
    <3>3. v < b
      BY <2>3, <2>9, <2>12, <2>16, <3>2
    <3>4. v \in a + 1 .. b - 1
      BY <2>3, <2>9, <2>12, <3>2, <3>3
    <3>5. QED
      BY <2>3, <2>8, <2>12, <3>4, Zenon
  <2>17. QED
    BY <2>15, <2>16, Zenon
<1>3. QED
  BY <1>1, <1>2, Zenon

\* The task record that stands for no task.
LEMMA NoTaskType == NoTask \in Task
BY SchedulerAssumption DEF NoTask, Task

\* What the front of the queue and the rest are like when a thread pops it.
LEMMA PoppedTask ==
  ASSUME IInv, tasks # << >>
  PROVE  LET t == Head(tasks)
             r == Tail(tasks)
         IN /\ t \in Task /\ r \in Seq(Task)
            /\ t.id \in 0 .. lastId
            /\ t.path \in Paths(t.kind)
            /\ ~t.canceledSlowPath
            /\ QueueOK(r, currentlyProcessingLSPEpoch, lastId)
            /\ QueueOK(r, lastCommittedLSPEpoch, lastId)
            /\ isEdit(procTask) => QueueOK(r, procTask.id, lastId)
            /\ isEdit(t) => /\ currentlyProcessingLSPEpoch < t.id
                            /\ lastCommittedLSPEpoch < t.id
                            /\ QueueOK(r, t.id, lastId)
<1>1. tasks \in Seq(Task) /\ lastId \in Nat
  BY DEF IInv, TypeOK
<1>2. /\ QueueOK(tasks, currentlyProcessingLSPEpoch, lastId)
      /\ QueueOK(tasks, lastCommittedLSPEpoch, lastId)
      /\ isEdit(procTask) => QueueOK(tasks, procTask.id, lastId)
  BY Zenon DEF IInv, OrderInv
<1>3. QED
  BY <1>1, <1>2, PopQueueOK

\* What the preprocessor thread does to a well-formed queue.
LEMMA PreprocessedQueue ==
  ASSUME IInv, preprocessAndEnqueue \/ cancelRequest,
         NEW lo \in 0 .. lastId, QueueOK(tasks, lo, lastId)
  PROVE  /\ tasks' \in Seq(Task)
         /\ lastId' \in 0 .. MaxTasks /\ lastId <= lastId'
         /\ QueueOK(tasks', lo, lastId')
<1>1. tasks \in Seq(Task) /\ lastId \in 0 .. MaxTasks /\ lastId \in Nat /\ lo \in Nat
  BY SchedulerAssumption DEF IInv, TypeOK
<1>2. CASE preprocessAndEnqueue
  <2>1. PICK k \in Kinds : \E p \in Paths(k) :
          LET t == [id |-> lastId + 1, kind |-> k, path |-> p,
                    canceledSlowPath |-> FALSE]
          IN IF isEdit(t) THEN mergeFileChanges(Append(tasks, t))
                          ELSE tasks' = Append(tasks, t)
    BY <1>2, Zenon DEF preprocessAndEnqueue
  <2>2. PICK p \in Paths(k) :
          LET t == [id |-> lastId + 1, kind |-> k, path |-> p,
                    canceledSlowPath |-> FALSE]
          IN IF isEdit(t) THEN mergeFileChanges(Append(tasks, t))
                          ELSE tasks' = Append(tasks, t)
    BY <2>1, Zenon
  <2> DEFINE t == [id |-> lastId + 1, kind |-> k, path |-> p,
                   canceledSlowPath |-> FALSE]
  <2>3. lastId' = lastId + 1 /\ lastId' \in 0 .. MaxTasks
    BY <1>1, <1>2, SchedulerAssumption DEF preprocessAndEnqueue
  <2>4. t \in Task /\ t.kind \in AllKinds /\ t.path \in Paths(t.kind)
    BY <2>3, SchedulerAssumption, Zenon DEF Task, AllKinds, Paths
  <2>5. t.id = lastId + 1 /\ ~t.canceledSlowPath
    BY Zenon
  <2> HIDE DEF t
  <2>6. Append(tasks, t) \in Seq(Task) /\ QueueOK(Append(tasks, t), lo, lastId + 1)
    BY <1>1, <2>4, <2>5, AppendQueueOK, Zenon
  <2>7. lastId + 1 \in Nat
    BY <1>1
  <2>8. CASE isEdit(t)
    <3>1. mergeFileChanges(Append(tasks, t))
      BY <2>2, <2>8, Zenon DEF t
    <3>2. tasks' \in Seq(Task) /\ QueueOK(tasks', lo, lastId + 1)
      BY <1>1, <2>6, <2>7, <3>1, MergeQueueOK, Zenon
    <3>3. QED
      BY <1>1, <2>3, <3>2
  <2>9. CASE ~isEdit(t)
    <3>1. tasks' = Append(tasks, t)
      BY <2>2, <2>9, Zenon DEF t
    <3>2. QED
      BY <1>1, <2>3, <2>6, <3>1
  <2>10. QED
    BY <2>8, <2>9, Zenon
<1>3. CASE cancelRequest
  <2>1. PICK i \in DOMAIN tasks : mergeFileChanges(withoutPosition(tasks, i))
    BY <1>3, Zenon DEF cancelRequest
  <2>2. i \in 1 .. Len(tasks) /\ lastId' = lastId
    BY <1>1, <1>3 DEF cancelRequest
  <2>3. QueueOK(withoutPosition(tasks, i), lo, lastId)
    BY <1>1, <2>2, EraseQueueOK, Zenon
  <2>4. withoutPosition(tasks, i) \in Seq(Task)
    BY <1>1, <2>2, WithoutPosition, Zenon
  <2>5. tasks' \in Seq(Task) /\ QueueOK(tasks', lo, lastId)
    BY <1>1, <2>1, <2>3, <2>4, MergeQueueOK, Zenon
  <2>6. QED
    BY <1>1, <2>2, <2>5
<1>4. QED
  BY <1>2, <1>3, Zenon

-----------------------------------------------------------------------------
(***************************************************************************)
(* The inductive invariant holds initially and is kept by every step of    *)
(* every thread.  One step per action, one per conjunct.                   *)
(***************************************************************************)

\* The invariant holds when the server has finished initializing.
LEMMA InitIInv == Init => IInv
<1> SUFFICES ASSUME Init PROVE IInv
  BY Zenon
<1> USE SchedulerAssumption, EpochAssumption
        DEF Init, EpochInit, PreemptInit, inSlowPath, afterCommit, cancelInFlight,
            draining, slowPathRunning, slowPathWasCanceled, committed
<1>1. TypeOK
  <2>1. EpochTypeOK /\ PreemptTypeOK
    BY Zenon DEF EpochTypeOK, PreemptTypeOK
  <2>2. /\ lastId \in 0 .. MaxTasks /\ filesLeft \in 0 .. NumFiles
        /\ tasks \in Seq(Task) /\ tcTasks \in Seq(Task)
        /\ seenInvalidator \in [Workers -> Epoch]
    OBVIOUS
  <2>3. QED
    BY <2>1, <2>2, NoTaskType, Zenon DEF TypeOK, ProcPC, TcPC
<1>2. EpochInv /\ UndoInv
  BY Zenon DEF EpochInv, UndoInv, NoTask
<1>3. HandoverInv /\ PreemptionInv
  BY Zenon DEF HandoverInv, PreemptionInv, NoTask, Paths
<1>4. WorkerInv
  BY DEF WorkerInv
<1>5. OrderInv
  BY DEF OrderInv, QueueOK, NoTask, isEdit
<1>6. QED
  BY <1>1, <1>2, <1>3, <1>4, <1>5, Zenon DEF IInv

USE DEF inSlowPath, afterCommit, cancelInFlight, draining, slowPathRunning,
        slowPathWasCanceled, committed, epochVars, preemptVars, queueVars,
        procVars, tcVars, notifyVars, workerVars

-----------------------------------------------------------------------------
(* The steps of the preprocessor thread. *)

\* A new task joins the queue.
LEMMA PreprocessAndEnqueueStep == ASSUME IInv, preprocessAndEnqueue PROVE IInv'
<1>1. /\ tasks' \in Seq(Task) /\ lastId' \in 0 .. MaxTasks /\ lastId <= lastId'
      /\ QueueOK(tasks', currentlyProcessingLSPEpoch, lastId')
      /\ QueueOK(tasks', lastCommittedLSPEpoch, lastId')
      /\ isEdit(procTask) => QueueOK(tasks', procTask.id, lastId')
  BY PreprocessedQueue, Zenon DEF IInv, OrderInv
<1>2. lastId \in Nat /\ lastId' \in Nat /\ UNCHANGED <<procPC, procTask, notified, epochVars>>
  BY <1>1 DEF IInv, TypeOK, preprocessAndEnqueue
<1>3. procPC' # "schedule"
  BY Zenon DEF queueMutexFree, procVars, preprocessAndEnqueue
<1>4. TypeOK'
  BY <1>1, <1>2, Zenon DEF IInv, TypeOK, EpochTypeOK, PreemptTypeOK, queueMutexFree,
       preprocessAndEnqueue
<1>5. EpochInv'
  BY Zenon DEF IInv, EpochInv, HandoverInv, PreemptionInv, queueMutexFree,
       preprocessAndEnqueue
<1>6. HandoverInv'
  BY <1>1, <1>2 DEF IInv, HandoverInv, queueMutexFree, preprocessAndEnqueue
<1>7. PreemptionInv'
  BY <1>3, Zenon DEF IInv, PreemptionInv, HandoverInv, EpochInv, queueMutexFree,
       preprocessAndEnqueue
<1>8. UndoInv'
  BY Zenon DEF IInv, UndoInv, EpochInv, HandoverInv, queueMutexFree,
       preprocessAndEnqueue
<1>9. WorkerInv'
  BY Zenon DEF IInv, WorkerInv, EpochInv, HandoverInv, PreemptionInv,
       queueMutexFree, preprocessAndEnqueue
<1>10. OrderInv'
  BY <1>1, <1>2 DEF IInv, OrderInv, HandoverInv, queueMutexFree,
       preprocessAndEnqueue
<1>11. QED
  BY <1>4, <1>5, <1>6, <1>7, <1>8, <1>9, <1>10, Zenon DEF IInv

\* A queued request is erased.
LEMMA CancelRequestStep == ASSUME IInv, cancelRequest PROVE IInv'
<1>1. /\ tasks' \in Seq(Task) /\ lastId' \in 0 .. MaxTasks /\ lastId <= lastId'
      /\ QueueOK(tasks', currentlyProcessingLSPEpoch, lastId')
      /\ QueueOK(tasks', lastCommittedLSPEpoch, lastId')
      /\ isEdit(procTask) => QueueOK(tasks', procTask.id, lastId')
  BY PreprocessedQueue, Zenon DEF IInv, OrderInv
<1>2. lastId \in Nat /\ lastId' \in Nat /\ UNCHANGED <<procPC, procTask, notified, epochVars>>
  BY <1>1 DEF IInv, TypeOK, cancelRequest
<1>3. procPC' # "schedule"
  BY Zenon DEF queueMutexFree, procVars, cancelRequest
<1>4. TypeOK'
  BY <1>1, <1>2, Zenon DEF IInv, TypeOK, EpochTypeOK, PreemptTypeOK, queueMutexFree,
       cancelRequest
<1>5. EpochInv'
  BY Zenon DEF IInv, EpochInv, HandoverInv, PreemptionInv, queueMutexFree,
       cancelRequest
<1>6. HandoverInv'
  BY <1>1, <1>2 DEF IInv, HandoverInv, queueMutexFree, cancelRequest
<1>7. PreemptionInv'
  BY <1>3, Zenon DEF IInv, PreemptionInv, HandoverInv, EpochInv, queueMutexFree,
       cancelRequest
<1>8. UndoInv'
  BY Zenon DEF IInv, UndoInv, EpochInv, HandoverInv, queueMutexFree, cancelRequest
<1>9. WorkerInv'
  BY Zenon DEF IInv, WorkerInv, EpochInv, HandoverInv, PreemptionInv,
       queueMutexFree, cancelRequest
<1>10. OrderInv'
  BY <1>1, <1>2 DEF IInv, OrderInv, HandoverInv, queueMutexFree, cancelRequest
<1>11. QED
  BY <1>4, <1>5, <1>6, <1>7, <1>8, <1>9, <1>10, Zenon DEF IInv

\* Every step of the preprocessor thread keeps the invariant.
LEMMA PreprocessorKeepsIInv == ASSUME IInv, preprocessorStep PROVE IInv'
BY PreprocessAndEnqueueStep, CancelRequestStep, Zenon DEF preprocessorStep

-----------------------------------------------------------------------------
(* The steps of the processing thread. *)

\* The processing thread looks at the front of the queue.
LEMMA AwaitTaskStep == ASSUME IInv, awaitTask PROVE IInv'
<1>1. tasks # << >>
  BY Zenon DEF awaitTask
<1>2. TypeOK'
  BY <1>1, PoppedTask, Zenon DEF IInv, TypeOK, EpochTypeOK, PreemptTypeOK, ProcPC,
       popTask, endsAfterIndex, awaitTask
<1>3. EpochInv'
  BY Zenon DEF IInv, EpochInv, HandoverInv, PreemptionInv, popTask, endsAfterIndex,
       awaitTask
<1>4. HandoverInv'
  BY <1>1, PoppedTask, Zenon DEF IInv, HandoverInv, Paths, popTask, endsAfterIndex,
       awaitTask
<1>5. PreemptionInv'
  BY Zenon DEF IInv, PreemptionInv, HandoverInv, EpochInv, popTask, endsAfterIndex,
       awaitTask
<1>6. UndoInv'
  BY Zenon DEF IInv, UndoInv, EpochInv, HandoverInv, popTask, endsAfterIndex,
       awaitTask
<1>7. WorkerInv'
  BY Zenon DEF IInv, WorkerInv, EpochInv, HandoverInv, PreemptionInv, popTask,
       endsAfterIndex, awaitTask
<1>8. OrderInv'
  BY <1>1, PoppedTask, Zenon DEF IInv, OrderInv, HandoverInv, popTask,
       endsAfterIndex, awaitTask
<1>9. QED
  BY <1>2, <1>3, <1>4, <1>5, <1>6, <1>7, <1>8, Zenon DEF IInv

\* trySchedulePreemption succeeds or fails.
LEMMA SchedulePreemptionStep == ASSUME IInv, schedulePreemption PROVE IInv'
<1>1. tasks # << >>
  BY Zenon DEF IInv, schedulePreemption, PreemptionInv
<1>2. TypeOK'
  BY <1>1, PoppedTask, Zenon DEF IInv, TypeOK, EpochTypeOK, PreemptTypeOK, ProcPC,
       popTask, schedulePreemptionTask, canSchedulePreemptionTask,
       schedulePreemption
<1>3. EpochInv'
  BY Zenon DEF IInv, EpochInv, HandoverInv, PreemptionInv, popTask,
       schedulePreemptionTask, canSchedulePreemptionTask, schedulePreemption
<1>4. HandoverInv'
  BY <1>1, PoppedTask, Zenon DEF IInv, HandoverInv, Paths, popTask,
       schedulePreemptionTask, canSchedulePreemptionTask, schedulePreemption
<1>5. PreemptionInv'
  BY DEF IInv, PreemptionInv, HandoverInv, EpochInv, popTask,
       schedulePreemptionTask, canSchedulePreemptionTask, schedulePreemption
<1>6. UndoInv'
  BY Zenon DEF IInv, UndoInv, EpochInv, HandoverInv, popTask,
       schedulePreemptionTask, canSchedulePreemptionTask, schedulePreemption
<1>7. WorkerInv'
  BY Zenon DEF IInv, WorkerInv, EpochInv, HandoverInv, PreemptionInv, popTask,
       schedulePreemptionTask, canSchedulePreemptionTask, schedulePreemption
<1>8. OrderInv'
  BY <1>1, PoppedTask, Zenon DEF IInv, OrderInv, HandoverInv, popTask,
       schedulePreemptionTask, canSchedulePreemptionTask, schedulePreemption
<1>9. QED
  BY <1>2, <1>3, <1>4, <1>5, <1>6, <1>7, <1>8, Zenon DEF IInv

\* The processing thread withdraws the preemption, or comes too late.
LEMMA CancelPreemptionStep == ASSUME IInv, cancelPreemption PROVE IInv'
<1>1. TypeOK'
  BY Zenon DEF IInv, TypeOK, EpochTypeOK, PreemptTypeOK, ProcPC, takePreemptionTask,
       cancelPreemption
<1>2. EpochInv'
  BY Zenon DEF IInv, EpochInv, HandoverInv, PreemptionInv, takePreemptionTask,
       cancelPreemption
<1>3. HandoverInv'
  BY Zenon DEF IInv, HandoverInv, takePreemptionTask, cancelPreemption
<1>4. PreemptionInv'
  BY DEF IInv, PreemptionInv, HandoverInv, EpochInv, takePreemptionTask,
       cancelPreemption
<1>5. UndoInv'
  BY Zenon DEF IInv, UndoInv, EpochInv, HandoverInv, takePreemptionTask,
       cancelPreemption
<1>6. WorkerInv'
  BY Zenon DEF IInv, WorkerInv, EpochInv, HandoverInv, PreemptionInv,
       takePreemptionTask, cancelPreemption
<1>7. OrderInv'
  BY Zenon DEF IInv, OrderInv, HandoverInv, takePreemptionTask, cancelPreemption
<1>8. QED
  BY <1>1, <1>2, <1>3, <1>4, <1>5, <1>6, <1>7, Zenon DEF IInv

\* The scheduled preemption has finished.
LEMMA PreemptionFinishedStep == ASSUME IInv, preemptionFinished PROVE IInv'
<1>1. TypeOK'
  BY Zenon DEF IInv, TypeOK, EpochTypeOK, PreemptTypeOK, ProcPC, preemptionFinished
<1>2. EpochInv'
  BY Zenon DEF IInv, EpochInv, HandoverInv, PreemptionInv, preemptionFinished
<1>3. HandoverInv'
  BY Zenon DEF IInv, HandoverInv, preemptionFinished
<1>4. PreemptionInv'
  BY Zenon DEF IInv, PreemptionInv, HandoverInv, EpochInv, preemptionFinished
<1>5. UndoInv'
  BY Zenon DEF IInv, UndoInv, EpochInv, HandoverInv, preemptionFinished
<1>6. WorkerInv'
  BY Zenon DEF IInv, WorkerInv, EpochInv, HandoverInv, PreemptionInv,
       preemptionFinished
<1>7. OrderInv'
  BY Zenon DEF IInv, OrderInv, HandoverInv, preemptionFinished
<1>8. QED
  BY <1>1, <1>2, <1>3, <1>4, <1>5, <1>6, <1>7, Zenon DEF IInv

\* The processing thread indexes its task.
LEMMA IndexTaskStep == ASSUME IInv, indexTask PROVE IInv'
<1>1. TypeOK'
  BY NoTaskType DEF IInv, TypeOK, EpochTypeOK, PreemptTypeOK, ProcPC,
       endsAfterIndex, indexTask
<1>2. EpochInv'
  BY Zenon DEF IInv, EpochInv, HandoverInv, PreemptionInv, NoTask, endsAfterIndex,
       indexTask
<1>3. HandoverInv'
  BY Zenon DEF IInv, HandoverInv, NoTask, Paths, endsAfterIndex, indexTask
<1>4. PreemptionInv'
  BY Zenon DEF IInv, PreemptionInv, HandoverInv, EpochInv, NoTask, endsAfterIndex,
       indexTask
<1>5. UndoInv'
  BY Zenon DEF IInv, UndoInv, EpochInv, HandoverInv, NoTask, endsAfterIndex,
       indexTask
<1>6. WorkerInv'
  BY Zenon DEF IInv, WorkerInv, EpochInv, HandoverInv, PreemptionInv, NoTask,
       endsAfterIndex, indexTask
<1>7. OrderInv'
  BY SchedulerAssumption DEF IInv, OrderInv, HandoverInv, NoTask, TypeOK,
       isEdit, endsAfterIndex, indexTask
<1>8. QED
  BY <1>1, <1>2, <1>3, <1>4, <1>5, <1>6, <1>7, Zenon DEF IInv

\* commitEdit cancels the running slow path, or comes too late.
LEMMA TryCancelSlowPathStep == ASSUME IInv, tryCancelSlowPath PROVE IInv'
<1>1. EpochTypeOK'
  BY SchedulerAssumption, Zenon DEF IInv, TypeOK, EpochTypeOK, Task, tryCancelSlowPath, cancelSlowPath
<1>2. /\ procTask' \in Task
      /\ procTask'.id = procTask.id /\ procTask'.kind = procTask.kind
      /\ procTask' = procTask \/ procTask'.path \in {"Fast", "Slow"}
      /\ procTask'.canceledSlowPath <=> (procTask.canceledSlowPath \/ canCancelSlowPath(procTask.id))
  BY Zenon DEF IInv, TypeOK, Task, tryCancelSlowPath, cancelSlowPath
<1>3. TypeOK'
  BY <1>1, <1>2, Zenon DEF IInv, TypeOK, EpochTypeOK, PreemptTypeOK, ProcPC,
       cancelSlowPath, canCancelSlowPath, tryCancelSlowPath
<1>4. EpochInv'
  BY <1>1, <1>2, Zenon DEF IInv, EpochInv, HandoverInv, PreemptionInv, OrderInv,
       isEdit, cancelSlowPath, canCancelSlowPath, tryCancelSlowPath
<1>5. HandoverInv'
  BY <1>1, <1>2, Zenon DEF IInv, HandoverInv, Paths, isEdit, cancelSlowPath,
       canCancelSlowPath, tryCancelSlowPath
<1>6. PreemptionInv'
  BY <1>1, <1>2, Zenon DEF IInv, PreemptionInv, HandoverInv, EpochInv,
       cancelSlowPath, canCancelSlowPath, tryCancelSlowPath
<1>7. UndoInv'
  BY <1>1, <1>2, Zenon DEF IInv, UndoInv, EpochInv, HandoverInv, cancelSlowPath,
       canCancelSlowPath, tryCancelSlowPath
<1>8. WorkerInv'
  BY <1>1, <1>2, Zenon DEF IInv, WorkerInv, EpochInv, HandoverInv, PreemptionInv,
       cancelSlowPath, canCancelSlowPath, tryCancelSlowPath
<1>9. OrderInv'
  BY SchedulerAssumption, <1>1, <1>2, Zenon DEF IInv, OrderInv, HandoverInv, TypeOK,
       isEdit, cancelSlowPath, canCancelSlowPath, tryCancelSlowPath
<1>10. QED
  BY <1>3, <1>4, <1>5, <1>6, <1>7, <1>8, <1>9, Zenon DEF IInv

\* The task goes to the typechecking thread.
LEMMA DispatchTaskStep == ASSUME IInv, dispatchTask PROVE IInv'
<1>1. tcTasks' \in Seq(Task)
  BY AppendProperties, Zenon DEF IInv, TypeOK, dispatchTask
<1>2. TypeOK'
  BY <1>1, Zenon DEF IInv, TypeOK, EpochTypeOK, PreemptTypeOK, ProcPC, dispatchTask
<1>3. EpochInv'
  BY DEF IInv, EpochInv, HandoverInv, PreemptionInv, dispatchTask
<1>4. HandoverInv'
  BY <1>1 DEF IInv, HandoverInv, dispatchTask
<1>5. PreemptionInv'
  BY Zenon DEF IInv, PreemptionInv, HandoverInv, EpochInv, dispatchTask
<1>6. UndoInv'
  BY DEF IInv, UndoInv, EpochInv, HandoverInv, dispatchTask
<1>7. WorkerInv'
  BY Zenon DEF IInv, WorkerInv, EpochInv, HandoverInv, PreemptionInv, dispatchTask
<1>8. OrderInv'
  BY <1>1, Zenon DEF IInv, OrderInv, HandoverInv, dispatchTask
<1>9. QED
  BY <1>2, <1>3, <1>4, <1>5, <1>6, <1>7, <1>8, Zenon DEF IInv

\* It has been run or started.
LEMMA TaskReadyStep == ASSUME IInv, taskReady PROVE IInv'
<1>1. TypeOK'
  BY NoTaskType, Zenon DEF IInv, TypeOK, EpochTypeOK, PreemptTypeOK, ProcPC,
       taskReady
<1>2. EpochInv'
  BY Zenon DEF IInv, EpochInv, HandoverInv, PreemptionInv, NoTask, taskReady
<1>3. HandoverInv'
  BY Zenon DEF IInv, HandoverInv, NoTask, Paths, taskReady
<1>4. PreemptionInv'
  BY Zenon DEF IInv, PreemptionInv, HandoverInv, EpochInv, NoTask, taskReady
<1>5. UndoInv'
  BY Zenon DEF IInv, UndoInv, EpochInv, HandoverInv, NoTask, taskReady
<1>6. WorkerInv'
  BY Zenon DEF IInv, WorkerInv, EpochInv, HandoverInv, PreemptionInv, NoTask,
       taskReady
<1>7. OrderInv'
  BY SchedulerAssumption DEF IInv, OrderInv, HandoverInv, NoTask, TypeOK,
       isEdit, taskReady
<1>8. QED
  BY <1>1, <1>2, <1>3, <1>4, <1>5, <1>6, <1>7, Zenon DEF IInv

\* Every step of the processing thread keeps the invariant.
LEMMA ProcessingKeepsIInv == ASSUME IInv, processingStep PROVE IInv'
BY AwaitTaskStep, SchedulePreemptionStep, CancelPreemptionStep,
     PreemptionFinishedStep, IndexTaskStep, TryCancelSlowPathStep,
     DispatchTaskStep, TaskReadyStep, Zenon DEF processingStep

-----------------------------------------------------------------------------
(* The steps of the typechecking thread. *)

\* The typechecking thread takes the task.
LEMMA TakeTaskStep == ASSUME IInv, takeTask PROVE IInv'
<1>1. tcTask' \in Task /\ tcTasks' \in Seq(Task)
  BY HeadTailProperties, Zenon DEF IInv, TypeOK, takeTask
<1>2. TypeOK'
  BY <1>1, Zenon DEF IInv, TypeOK, EpochTypeOK, PreemptTypeOK, TcPC, takeTask
<1>3. EpochInv'
  BY Zenon DEF IInv, EpochInv, HandoverInv, PreemptionInv, takeTask
<1>4. HandoverInv'
  BY <1>1 DEF IInv, HandoverInv, Paths, takeTask
<1>5. PreemptionInv'
  BY Zenon DEF IInv, PreemptionInv, HandoverInv, EpochInv, takeTask
<1>6. UndoInv'
  BY DEF IInv, UndoInv, EpochInv, HandoverInv, takeTask
<1>7. WorkerInv'
  BY Zenon DEF IInv, WorkerInv, EpochInv, HandoverInv, PreemptionInv, takeTask
<1>8. OrderInv'
  BY <1>1, Zenon DEF IInv, OrderInv, HandoverInv, takeTask
<1>9. QED
  BY <1>2, <1>3, <1>4, <1>5, <1>6, <1>7, <1>8, Zenon DEF IInv

\* It runs a request or a fast path.
LEMMA RunTaskStep == ASSUME IInv, runTask PROVE IInv'
<1>1. TypeOK'
  BY NoTaskType, Zenon DEF IInv, TypeOK, EpochTypeOK, PreemptTypeOK, TcPC, runTask
<1>2. EpochInv'
  BY Zenon DEF IInv, EpochInv, HandoverInv, PreemptionInv, NoTask, runTask
<1>3. HandoverInv'
  BY Zenon DEF IInv, HandoverInv, NoTask, runTask
<1>4. PreemptionInv'
  BY Zenon DEF IInv, PreemptionInv, HandoverInv, EpochInv, NoTask, runTask
<1>5. UndoInv'
  BY Zenon DEF IInv, UndoInv, EpochInv, HandoverInv, NoTask, runTask
<1>6. WorkerInv'
  BY Zenon DEF IInv, WorkerInv, EpochInv, HandoverInv, PreemptionInv, NoTask,
       runTask
<1>7. OrderInv'
  BY SchedulerAssumption, Zenon DEF IInv, OrderInv, HandoverInv, NoTask, runTask
<1>8. QED
  BY <1>1, <1>2, <1>3, <1>4, <1>5, <1>6, <1>7, Zenon DEF IInv

\* It starts a slow path.
LEMMA RunSpecialStep == ASSUME IInv, runSpecial PROVE IInv'
<1>1. /\ procPC = "blocked" /\ ~notified /\ tcTask = procTask /\ tcTasks = << >>
      /\ isEdit(procTask)
  BY Zenon DEF IInv, runSpecial, HandoverInv, Paths, isEdit
<1>2. /\ tcTask.id \in Epoch /\ tcTask.id \in 0 .. lastId
      /\ currentlyProcessingLSPEpoch < tcTask.id
      /\ lastCommittedLSPEpoch < tcTask.id
      /\ currentlyProcessingLSPEpoch # tcTask.id
      /\ lastCommittedLSPEpoch # tcTask.id
  BY <1>1, SchedulerAssumption DEF IInv, TypeOK, Task, OrderInv
<1>3. TypeOK'
  BY <1>1, <1>2, Zenon DEF IInv, TypeOK, EpochTypeOK, PreemptTypeOK, TcPC,
       startCommitEpoch, runSpecial
<1>4. EpochInv'
  BY <1>1, <1>2, Zenon DEF IInv, EpochInv, HandoverInv, PreemptionInv,
       startCommitEpoch, runSpecial
<1>5. HandoverInv'
  BY <1>1, <1>2, Zenon DEF IInv, HandoverInv, isEdit, startCommitEpoch, runSpecial
<1>6. PreemptionInv'
  BY <1>1, <1>2, Zenon DEF IInv, PreemptionInv, HandoverInv, EpochInv,
       startCommitEpoch, runSpecial
<1>7. UndoInv'
  BY <1>1, <1>2, Zenon DEF IInv, UndoInv, EpochInv, HandoverInv, startCommitEpoch,
       runSpecial
<1>8. WorkerInv'
  BY <1>1, <1>2, Zenon DEF IInv, WorkerInv, EpochInv, HandoverInv, PreemptionInv,
       startCommitEpoch, runSpecial
<1>9. OrderInv'
  BY SchedulerAssumption, <1>1, <1>2, Zenon DEF IInv, OrderInv, HandoverInv, TypeOK,
       isEdit, startCommitEpoch, runSpecial
<1>10. QED
  BY <1>3, <1>4, <1>5, <1>6, <1>7, <1>8, <1>9, Zenon DEF IInv

\* runSlowPath saves the undo state.
LEMMA BeginSlowPathStep == ASSUME IInv, beginSlowPath PROVE IInv'
<1>1. TypeOK'
  BY Zenon DEF IInv, TypeOK, EpochTypeOK, PreemptTypeOK, TcPC, beginSlowPath
<1>2. EpochInv'
  BY Zenon DEF IInv, EpochInv, HandoverInv, PreemptionInv, beginSlowPath
<1>3. HandoverInv'
  BY Zenon DEF IInv, HandoverInv, beginSlowPath
<1>4. PreemptionInv'
  BY Zenon DEF IInv, PreemptionInv, HandoverInv, EpochInv, beginSlowPath
<1>5. UndoInv'
  BY Zenon DEF IInv, UndoInv, EpochInv, HandoverInv, beginSlowPath
<1>6. WorkerInv'
  BY Zenon DEF IInv, WorkerInv, EpochInv, HandoverInv, PreemptionInv, beginSlowPath
<1>7. OrderInv'
  BY Zenon DEF IInv, OrderInv, HandoverInv, beginSlowPath
<1>8. QED
  BY <1>1, <1>2, <1>3, <1>4, <1>5, <1>6, <1>7, Zenon DEF IInv

\* runSlowPath resolves, or returns early when canceled.
LEMMA ResolveStep == ASSUME IInv, resolve PROVE IInv'
<1>1. filesLeft' \in 0 .. NumFiles
  BY SchedulerAssumption DEF IInv, TypeOK, resolve
<1>2. tcPC' \in TcPC
  BY Zenon DEF TcPC, resolve
<1>3. abandoned' \in BOOLEAN
  BY Zenon DEF IInv, TypeOK, resolve
<1>4. TypeOK'
  BY <1>1, <1>2, <1>3, Zenon DEF IInv, TypeOK, EpochTypeOK, PreemptTypeOK, TcPC,
       resolve
<1>5. EpochInv'
  BY Zenon DEF IInv, EpochInv, HandoverInv, PreemptionInv, resolve
<1>6. HandoverInv'
  BY <1>1, <1>2, <1>3, Zenon DEF IInv, HandoverInv, resolve
<1>7. PreemptionInv'
  BY Zenon DEF IInv, PreemptionInv, HandoverInv, EpochInv, resolve
<1>8. UndoInv'
  BY Zenon DEF IInv, UndoInv, EpochInv, HandoverInv, resolve
<1>9. WorkerInv'
  BY DEF IInv, WorkerInv, EpochInv, HandoverInv, PreemptionInv, resolve
<1>10. OrderInv'
  BY <1>1, <1>2, <1>3, Zenon DEF IInv, OrderInv, HandoverInv, resolve
<1>11. QED
  BY <1>4, <1>5, <1>6, <1>7, <1>8, <1>9, <1>10, Zenon DEF IInv

\* The typechecking thread takes the preemption task.
LEMMA BeginPreemptionStep == ASSUME IInv, beginPreemption PROVE IInv'
<1>1. TypeOK'
  BY Zenon DEF IInv, TypeOK, EpochTypeOK, PreemptTypeOK, TcPC, takePreemptionTask,
       beginPreemption
<1>2. EpochInv'
  BY Zenon DEF IInv, EpochInv, HandoverInv, PreemptionInv, takePreemptionTask,
       beginPreemption
<1>3. HandoverInv'
  BY Zenon DEF IInv, HandoverInv, takePreemptionTask, beginPreemption
<1>4. PreemptionInv'
  BY Zenon DEF IInv, PreemptionInv, HandoverInv, EpochInv, takePreemptionTask,
       beginPreemption
<1>5. UndoInv'
  BY Zenon DEF IInv, UndoInv, EpochInv, HandoverInv, takePreemptionTask,
       beginPreemption
<1>6. WorkerInv'
  BY Zenon DEF IInv, WorkerInv, EpochInv, HandoverInv, PreemptionInv,
       takePreemptionTask, beginPreemption
<1>7. OrderInv'
  BY Zenon DEF IInv, OrderInv, HandoverInv, takePreemptionTask, beginPreemption
<1>8. QED
  BY <1>1, <1>2, <1>3, <1>4, <1>5, <1>6, <1>7, Zenon DEF IInv

\* It locks the workers out.
LEMMA LockWorkersOutStep == ASSUME IInv, lockWorkersOut PROVE IInv'
<1>1. TypeOK'
  BY Zenon DEF IInv, TypeOK, EpochTypeOK, PreemptTypeOK, TcPC, lockTypecheckMutex,
       lockWorkersOut
<1>2. EpochInv'
  BY Zenon DEF IInv, EpochInv, HandoverInv, PreemptionInv, lockTypecheckMutex,
       lockWorkersOut
<1>3. HandoverInv'
  BY Zenon DEF IInv, HandoverInv, lockTypecheckMutex, lockWorkersOut
<1>4. PreemptionInv'
  BY Zenon DEF IInv, PreemptionInv, HandoverInv, EpochInv, lockTypecheckMutex,
       lockWorkersOut
<1>5. UndoInv'
  BY Zenon DEF IInv, UndoInv, EpochInv, HandoverInv, lockTypecheckMutex,
       lockWorkersOut
<1>6. WorkerInv'
  BY Zenon DEF IInv, WorkerInv, EpochInv, HandoverInv, PreemptionInv,
       lockTypecheckMutex, lockWorkersOut
<1>7. OrderInv'
  BY Zenon DEF IInv, OrderInv, HandoverInv, lockTypecheckMutex, lockWorkersOut
<1>8. QED
  BY <1>1, <1>2, <1>3, <1>4, <1>5, <1>6, <1>7, Zenon DEF IInv

\* It pops a task from the queue.
LEMMA PreemptNextStep == ASSUME IInv, preemptNext PROVE IInv'
<1>1. tasks # << >>
  BY Zenon DEF preemptNext, headOfQueueCanPreempt
<1>2. TypeOK'
  BY <1>1, PoppedTask DEF IInv, TypeOK, EpochTypeOK, PreemptTypeOK, TcPC,
       headOfQueueCanPreempt, preemptNext
<1>3. EpochInv'
  BY Zenon DEF IInv, EpochInv, HandoverInv, PreemptionInv, headOfQueueCanPreempt,
       preemptNext
<1>4. HandoverInv'
  BY <1>1, PoppedTask, Zenon DEF IInv, HandoverInv, headOfQueueCanPreempt,
       preemptNext
<1>5. PreemptionInv'
  BY Zenon DEF IInv, PreemptionInv, HandoverInv, EpochInv, headOfQueueCanPreempt,
       preemptNext
<1>6. UndoInv'
  BY Zenon DEF IInv, UndoInv, EpochInv, HandoverInv, headOfQueueCanPreempt,
       preemptNext
<1>7. WorkerInv'
  BY Zenon DEF IInv, WorkerInv, EpochInv, HandoverInv, PreemptionInv,
       headOfQueueCanPreempt, preemptNext
<1>8. OrderInv'
  BY <1>1, PoppedTask, Zenon DEF IInv, OrderInv, HandoverInv, headOfQueueCanPreempt,
       preemptNext
<1>9. QED
  BY <1>2, <1>3, <1>4, <1>5, <1>6, <1>7, <1>8, Zenon DEF IInv

\* It runs that task.
LEMMA PreemptRunStep == ASSUME IInv, preemptRun PROVE IInv'
<1>1. TypeOK'
  BY DEF IInv, TypeOK, EpochTypeOK, PreemptTypeOK, TcPC, preemptRun
<1>2. EpochInv'
  BY Zenon DEF IInv, EpochInv, HandoverInv, PreemptionInv, preemptRun
<1>3. HandoverInv'
  BY Zenon DEF IInv, HandoverInv, preemptRun
<1>4. PreemptionInv'
  BY Zenon DEF IInv, PreemptionInv, HandoverInv, EpochInv, preemptRun
<1>5. UndoInv'
  BY Zenon DEF IInv, UndoInv, EpochInv, HandoverInv, preemptRun
<1>6. WorkerInv'
  BY Zenon DEF IInv, WorkerInv, EpochInv, HandoverInv, PreemptionInv, preemptRun
<1>7. OrderInv'
  BY Zenon DEF IInv, OrderInv, HandoverInv, preemptRun
<1>8. QED
  BY <1>1, <1>2, <1>3, <1>4, <1>5, <1>6, <1>7, Zenon DEF IInv

\* It is done with the queue and notifies.
LEMMA PreemptBreakStep == ASSUME IInv, preemptBreak PROVE IInv'
<1>1. TypeOK'
  BY Zenon DEF IInv, TypeOK, EpochTypeOK, PreemptTypeOK, TcPC, preemptBreak
<1>2. EpochInv'
  BY Zenon DEF IInv, EpochInv, HandoverInv, PreemptionInv, preemptBreak
<1>3. HandoverInv'
  BY Zenon DEF IInv, HandoverInv, preemptBreak
<1>4. PreemptionInv'
  BY Zenon DEF IInv, PreemptionInv, HandoverInv, EpochInv, preemptBreak
<1>5. UndoInv'
  BY Zenon DEF IInv, UndoInv, EpochInv, HandoverInv, preemptBreak
<1>6. WorkerInv'
  BY Zenon DEF IInv, WorkerInv, EpochInv, HandoverInv, PreemptionInv, preemptBreak
<1>7. OrderInv'
  BY Zenon DEF IInv, OrderInv, HandoverInv, preemptBreak
<1>8. QED
  BY <1>1, <1>2, <1>3, <1>4, <1>5, <1>6, <1>7, Zenon DEF IInv

\* It lets the workers in again.
LEMMA LetWorkersInStep == ASSUME IInv, letWorkersIn PROVE IInv'
<1>1. tcReturn \in {"check", "restore"}
  BY Zenon DEF IInv, TypeOK
<1>2. TypeOK'
  BY <1>1, Zenon DEF IInv, TypeOK, EpochTypeOK, PreemptTypeOK, TcPC,
       unlockTypecheckMutex, letWorkersIn
<1>3. EpochInv'
  BY <1>1, Zenon DEF IInv, EpochInv, HandoverInv, PreemptionInv,
       unlockTypecheckMutex, letWorkersIn
<1>4. HandoverInv'
  BY <1>1, Zenon DEF IInv, HandoverInv, unlockTypecheckMutex, letWorkersIn
<1>5. PreemptionInv'
  BY <1>1, Zenon DEF IInv, PreemptionInv, HandoverInv, EpochInv,
       unlockTypecheckMutex, letWorkersIn
<1>6. UndoInv'
  BY <1>1, Zenon DEF IInv, UndoInv, EpochInv, HandoverInv, unlockTypecheckMutex,
       letWorkersIn
<1>7. WorkerInv'
  BY <1>1, Zenon DEF IInv, WorkerInv, EpochInv, HandoverInv, PreemptionInv,
       unlockTypecheckMutex, letWorkersIn
<1>8. OrderInv'
  BY <1>1, Zenon DEF IInv, OrderInv, HandoverInv, unlockTypecheckMutex, letWorkersIn
<1>9. QED
  BY <1>2, <1>3, <1>4, <1>5, <1>6, <1>7, <1>8, Zenon DEF IInv

\* All files are accounted for.
LEMMA EndTypecheckStep == ASSUME IInv, endTypecheck PROVE IInv'
<1>1. TypeOK'
  BY Zenon DEF IInv, TypeOK, EpochTypeOK, PreemptTypeOK, TcPC, endTypecheck
<1>2. EpochInv'
  BY Zenon DEF IInv, EpochInv, HandoverInv, PreemptionInv, endTypecheck
<1>3. HandoverInv'
  BY Zenon DEF IInv, HandoverInv, endTypecheck
<1>4. PreemptionInv'
  BY Zenon DEF IInv, PreemptionInv, HandoverInv, EpochInv, endTypecheck
<1>5. UndoInv'
  BY Zenon DEF IInv, UndoInv, EpochInv, HandoverInv, endTypecheck
<1>6. WorkerInv'
  BY DEF IInv, WorkerInv, EpochInv, HandoverInv, PreemptionInv, endTypecheck
<1>7. OrderInv'
  BY Zenon DEF IInv, OrderInv, HandoverInv, endTypecheck
<1>8. QED
  BY <1>1, <1>2, <1>3, <1>4, <1>5, <1>6, <1>7, Zenon DEF IInv

\* The slow path commits, or finds itself canceled.
LEMMA TryCommitEpochStep == ASSUME IInv, tryCommitEpoch PROVE IInv'
<1>1. TypeOK'
  BY DEF IInv, TypeOK, EpochTypeOK, PreemptTypeOK, TcPC, commitOrForgetEpoch,
       tryCommitEpoch
<1>2. EpochInv'
  BY Zenon DEF IInv, EpochInv, HandoverInv, PreemptionInv, commitOrForgetEpoch,
       tryCommitEpoch
<1>3. HandoverInv'
  BY Zenon DEF IInv, HandoverInv, commitOrForgetEpoch, tryCommitEpoch
<1>4. PreemptionInv'
  BY Zenon DEF IInv, PreemptionInv, HandoverInv, EpochInv, commitOrForgetEpoch,
       tryCommitEpoch
<1>5. UndoInv'
  BY Zenon DEF IInv, UndoInv, EpochInv, HandoverInv, commitOrForgetEpoch,
       tryCommitEpoch
<1>6. WorkerInv'
  BY Zenon DEF IInv, WorkerInv, EpochInv, HandoverInv, PreemptionInv,
       commitOrForgetEpoch, tryCommitEpoch
<1>7. OrderInv'
  BY Zenon DEF IInv, OrderInv, HandoverInv, commitOrForgetEpoch, tryCommitEpoch
<1>8. QED
  BY <1>1, <1>2, <1>3, <1>4, <1>5, <1>6, <1>7, Zenon DEF IInv

\* No preemption sneaked in.
LEMMA NoPreemptionLeftStep == ASSUME IInv, noPreemptionLeft PROVE IInv'
<1>1. TypeOK'
  BY Zenon DEF IInv, TypeOK, EpochTypeOK, PreemptTypeOK, TcPC, noPreemptionLeft
<1>2. EpochInv'
  BY Zenon DEF IInv, EpochInv, HandoverInv, PreemptionInv, noPreemptionLeft
<1>3. HandoverInv'
  BY Zenon DEF IInv, HandoverInv, noPreemptionLeft
<1>4. PreemptionInv'
  BY Zenon DEF IInv, PreemptionInv, HandoverInv, EpochInv, noPreemptionLeft
<1>5. UndoInv'
  BY Zenon DEF IInv, UndoInv, EpochInv, HandoverInv, noPreemptionLeft
<1>6. WorkerInv'
  BY Zenon DEF IInv, WorkerInv, EpochInv, HandoverInv, PreemptionInv,
       noPreemptionLeft
<1>7. OrderInv'
  BY Zenon DEF IInv, OrderInv, HandoverInv, noPreemptionLeft
<1>8. QED
  BY <1>1, <1>2, <1>3, <1>4, <1>5, <1>6, <1>7, Zenon DEF IInv

\* runSlowPath drops or restores the undo state.
LEMMA EndSlowPathStep == ASSUME IInv, endSlowPath PROVE IInv'
<1>1. TypeOK'
  BY NoTaskType, Zenon DEF IInv, TypeOK, EpochTypeOK, PreemptTypeOK, TcPC,
       endSlowPath
<1>2. EpochInv'
  BY Zenon DEF IInv, EpochInv, HandoverInv, PreemptionInv, NoTask, endSlowPath
<1>3. HandoverInv'
  BY Zenon DEF IInv, HandoverInv, NoTask, endSlowPath
<1>4. PreemptionInv'
  BY Zenon DEF IInv, PreemptionInv, HandoverInv, EpochInv, NoTask, endSlowPath
<1>5. UndoInv'
  BY Zenon DEF IInv, UndoInv, EpochInv, HandoverInv, NoTask, endSlowPath
<1>6. WorkerInv'
  BY Zenon DEF IInv, WorkerInv, EpochInv, HandoverInv, PreemptionInv, NoTask,
       endSlowPath
<1>7. OrderInv'
  BY SchedulerAssumption, Zenon DEF IInv, OrderInv, HandoverInv, NoTask, TypeOK,
       isEdit, endSlowPath
<1>8. QED
  BY <1>1, <1>2, <1>3, <1>4, <1>5, <1>6, <1>7, Zenon DEF IInv

\* Every step of the typechecking thread keeps the invariant.
LEMMA TypecheckerKeepsIInv == ASSUME IInv, typecheckerStep PROVE IInv'
BY TakeTaskStep, RunTaskStep, RunSpecialStep, BeginSlowPathStep, ResolveStep,
     BeginPreemptionStep, LockWorkersOutStep, PreemptNextStep, PreemptRunStep,
     PreemptBreakStep, LetWorkersInStep, EndTypecheckStep, TryCommitEpochStep,
     NoPreemptionLeftStep, EndSlowPathStep, Zenon DEF typecheckerStep

-----------------------------------------------------------------------------
(* The steps of a worker. *)

\* A worker takes a file.
LEMMA WorkerPopStep == ASSUME IInv, NEW w \in Workers, workerPop(w) PROVE IInv'
<1>1. TypeOK'
  BY SchedulerAssumption DEF IInv, TypeOK, EpochTypeOK, PreemptTypeOK,
       workerPop
<1>2. EpochInv'
  BY Zenon DEF IInv, EpochInv, HandoverInv, PreemptionInv, workerPop
<1>3. HandoverInv'
  BY Zenon DEF IInv, HandoverInv, workerPop
<1>4. PreemptionInv'
  BY Zenon DEF IInv, PreemptionInv, HandoverInv, EpochInv, workerPop
<1>5. UndoInv'
  BY Zenon DEF IInv, UndoInv, EpochInv, HandoverInv, workerPop
<1>6. WorkerInv'
  BY Zenon DEF IInv, WorkerInv, EpochInv, HandoverInv, PreemptionInv, TypeOK,
       EpochTypeOK, workerPop
<1>7. OrderInv'
  BY Zenon DEF IInv, OrderInv, HandoverInv, workerPop
<1>8. QED
  BY <1>1, <1>2, <1>3, <1>4, <1>5, <1>6, <1>7, Zenon DEF IInv

\* It locks preemption out.
LEMMA WorkerLockStep == ASSUME IInv, NEW w \in Workers, workerLock(w) PROVE IInv'
<1>1. TypeOK'
  BY Zenon DEF IInv, TypeOK, EpochTypeOK, PreemptTypeOK, lockPreemption, workerLock
<1>2. EpochInv'
  BY Zenon DEF IInv, EpochInv, HandoverInv, PreemptionInv, lockPreemption,
       workerLock
<1>3. HandoverInv'
  BY Zenon DEF IInv, HandoverInv, lockPreemption, workerLock
<1>4. PreemptionInv'
  BY Zenon DEF IInv, PreemptionInv, HandoverInv, EpochInv, lockPreemption,
       workerLock
<1>5. UndoInv'
  BY Zenon DEF IInv, UndoInv, EpochInv, HandoverInv, lockPreemption, workerLock
<1>6. WorkerInv'
  BY Zenon DEF IInv, WorkerInv, EpochInv, HandoverInv, PreemptionInv, TypeOK,
       EpochTypeOK, lockPreemption, workerLock
<1>7. OrderInv'
  BY Zenon DEF IInv, OrderInv, HandoverInv, lockPreemption, workerLock
<1>8. QED
  BY <1>1, <1>2, <1>3, <1>4, <1>5, <1>6, <1>7, Zenon DEF IInv

\* It typechecks the file unless canceled.
LEMMA WorkerCheckStep == ASSUME IInv, NEW w \in Workers, workerCheck(w) PROVE IInv'
<1>1. TypeOK'
  BY EpochAssumption, Zenon DEF IInv, TypeOK, EpochTypeOK, PreemptTypeOK,
       unlockPreemption, workerCheck
<1>2. EpochInv'
  BY Zenon DEF IInv, EpochInv, HandoverInv, PreemptionInv, unlockPreemption,
       workerCheck
<1>3. HandoverInv'
  BY Zenon DEF IInv, HandoverInv, unlockPreemption, workerCheck
<1>4. PreemptionInv'
  BY Zenon DEF IInv, PreemptionInv, HandoverInv, EpochInv, unlockPreemption,
       workerCheck
<1>5. UndoInv'
  BY Zenon DEF IInv, UndoInv, EpochInv, HandoverInv, unlockPreemption, workerCheck
<1>6. WorkerInv'
  BY Zenon DEF IInv, WorkerInv, EpochInv, HandoverInv, PreemptionInv, TypeOK,
       EpochTypeOK, unlockPreemption, workerCheck
<1>7. OrderInv'
  BY Zenon DEF IInv, OrderInv, HandoverInv, unlockPreemption, workerCheck
<1>8. QED
  BY <1>1, <1>2, <1>3, <1>4, <1>5, <1>6, <1>7, Zenon DEF IInv

\* Every step of a worker keeps the invariant.
LEMMA WorkersKeepIInv == ASSUME IInv, NEW w \in Workers, workerStep(w) PROVE IInv'
BY WorkerPopStep, WorkerLockStep, WorkerCheckStep, Zenon DEF workerStep

-----------------------------------------------------------------------------
(* The theorems. *)

\* A step that changes nothing.
LEMMA StutterKeepsIInv ==
  ASSUME IInv, UNCHANGED vars
  PROVE  IInv'
<1> USE DEF IInv, inSlowPath, afterCommit, cancelInFlight, draining,
            slowPathRunning, slowPathWasCanceled, committed, vars, epochVars,
            preemptVars, queueVars, procVars, tcVars, notifyVars, workerVars
<1>1. TypeOK'
  BY Zenon DEF TypeOK, EpochTypeOK, PreemptTypeOK
<1>2. EpochInv' /\ HandoverInv'
  BY Zenon DEF EpochInv, HandoverInv
<1>3. PreemptionInv' /\ UndoInv'
  BY Zenon DEF PreemptionInv, UndoInv
<1>4. WorkerInv'
  BY Zenon DEF WorkerInv
<1>5. OrderInv'
  BY Zenon DEF OrderInv
<1>6. QED
  BY <1>1, <1>2, <1>3, <1>4, <1>5, Zenon

\* Every step of the server.
LEMMA NextKeepsIInv == IInv /\ [Next]_vars => IInv'
<1> SUFFICES ASSUME IInv, [Next]_vars
             PROVE  IInv'
  BY Zenon
<1>1. CASE preprocessorStep
  BY <1>1, PreprocessorKeepsIInv, Zenon
<1>2. CASE processingStep
  BY <1>2, ProcessingKeepsIInv, Zenon
<1>3. CASE typecheckerStep
  BY <1>3, TypecheckerKeepsIInv, Zenon
<1>4. CASE \E w \in Workers : workerStep(w)
  BY <1>4, WorkersKeepIInv, Zenon
<1>5. CASE rest \/ UNCHANGED vars
  BY <1>5, StutterKeepsIInv, Zenon DEF rest
<1>6. QED
  BY <1>1, <1>2, <1>3, <1>4, <1>5, Zenon DEF Next

-----------------------------------------------------------------------------
(* The theorems. *)

\* The inductive invariant holds in every reachable state, for any number of
\* tasks, files and workers.
THEOREM InvariantHolds == Spec => []IInv
BY InitIInv, NextKeepsIInv, PTL DEF Spec

\* The threads' variables keep their types.
THEOREM TypeCorrect == Spec => []TypeOK
<1>1. IInv => TypeOK
  BY Zenon DEF IInv
<1>2. QED
  BY <1>1, InvariantHolds, PTL

\* The processing thread and the typechecking thread never use the LSPIndexer at
\* the same time.
THEOREM IndexerIsExclusive == Spec => []IndexerExclusion
<1>1. IInv => IndexerExclusion
  BY Zenon DEF IInv, IndexerExclusion, PreemptionInv, HandoverInv, draining, preempting
<1>2. QED
  BY <1>1, InvariantHolds, PTL

\* trySchedulePreemptionTask finds its slot empty and a scheduled preemption is
\* always in front of a slow path that will look at it.
THEOREM SlotIsDisciplined == Spec => []PreemptionSlotDiscipline
<1>1. IInv => PreemptionSlotDiscipline
  BY Zenon DEF IInv, PreemptionSlotDiscipline, PreemptionInv, TypeOK, TcPC, inSlowPath
<1>2. QED
  BY <1>1, InvariantHolds, PTL

\* The last preemption inside of tryCommitEpoch runs on committed state only.
THEOREM LatePreemptionIsSafe == Spec => []LatePreemptionOnlyAfterCommit
<1>1. IInv => LatePreemptionOnlyAfterCommit
  BY Zenon DEF IInv, LatePreemptionOnlyAfterCommit, PreemptionInv, EpochInv, draining,
         afterCommit, cancelInFlight
<1>2. QED
  BY <1>1, InvariantHolds, PTL

\* Requests and fast paths never run under a canceled slow path.
THEOREM ForegroundIsNeverCanceled == Spec => []NoCancellationUnderForeground
<1>1. IInv => NoCancellationUnderForeground
  BY Zenon DEF IInv, NoCancellationUnderForeground, PreemptionInv, HandoverInv, EpochInv,
         draining, inSlowPath, cancelInFlight
<1>2. QED
  BY <1>1, InvariantHolds, PTL

\* typecheck and runSlowPath find the cancellationUndoState their ENFORCEs ask for.
THEOREM UndoStateIsRight == Spec => []UndoStateMatchesCancellation
<1>1. IInv => UndoStateMatchesCancellation
  BY Zenon DEF IInv, UndoStateMatchesCancellation, UndoInv
<1>2. QED
  BY <1>1, InvariantHolds, PTL

\* What runSpecial finds when it is about to call startCommitEpoch.
LEMMA SpecialStartsIdle ==
  ASSUME IInv, tcPC = "special"
  PROVE  /\ ~slowPathRunning /\ ~slowPathWasCanceled
         /\ tcTask.id # currentlyProcessingLSPEpoch
<1>1. ~slowPathRunning /\ ~slowPathWasCanceled
  BY Zenon DEF IInv, EpochInv, inSlowPath
<1>2. tcTask = procTask /\ ~notified /\ isEdit(procTask)
  BY Zenon DEF IInv, HandoverInv, Paths, isEdit
<1>3. procTask.id # currentlyProcessingLSPEpoch
  BY <1>2, SchedulerAssumption DEF IInv, OrderInv, TypeOK
<1>4. QED
  BY <1>1, <1>2, <1>3, Zenon

\* startCommitEpoch is called with a new epoch and with no slow path running.
THEOREM SlowPathsStartWhenIdle == Spec => []StartsOnlyWhenIdle
<1>1. IInv => StartsOnlyWhenIdle
  BY SpecialStartsIdle, Zenon DEF StartsOnlyWhenIdle
<1>2. QED
  BY <1>1, InvariantHolds, PTL

\* None of the ENFORCEs on epochs, preemption slot and undo state fails, for any
\* number of tasks, files and workers.
THEOREM EnforcesNeverFail == Spec => []EnforcesHold
<1>1. PreemptionSlotDiscipline /\ UndoStateMatchesCancellation /\ StartsOnlyWhenIdle
        => EnforcesHold
  BY Zenon DEF EnforcesHold
<1>2. QED
  BY <1>1, SlotIsDisciplined, UndoStateIsRight, SlowPathsStartWhenIdle, PTL

\* Preempting tasks run on committed state or inside of a slow path that goes on,
\* and no task in the foreground is canceled.
THEOREM ForegroundIsSafe == Spec => []ForegroundIsUndisturbed
<1>1. LatePreemptionOnlyAfterCommit /\ NoCancellationUnderForeground
        => ForegroundIsUndisturbed
  BY Zenon DEF ForegroundIsUndisturbed
<1>2. QED
  BY <1>1, LatePreemptionIsSafe, ForegroundIsNeverCanceled, PTL

\* Merging, canceling and popping keep the edits in the order the client sent.
THEOREM EditsAreOrdered == Spec => []EditsStayInOrder
<1>1. ASSUME IInv
      PROVE  EditsStayInOrder
  <2>1. tasks \in Seq(Task)
    BY <1>1, Zenon DEF IInv, TypeOK
  <2>2. DOMAIN tasks = 1 .. Len(tasks)
    BY <2>1
  <2>3. QED
    BY <1>1, <2>2, Zenon DEF IInv, OrderInv, QueueOK, EditsStayInOrder
<1>2. IInv => EditsStayInOrder
  BY <1>1, Zenon
<1>3. QED
  BY <1>2, InvariantHolds, PTL

\* Neither thread brings two edits together without merging them.
LEMMA NextKeepsEditsMerged == IInv /\ EditsAreMerged /\ [Next]_vars => EditsAreMerged'
<1> SUFFICES ASSUME IInv, EditsAreMerged, [Next]_vars
             PROVE  mergeable(tasks') = {}
  BY Zenon DEF EditsAreMerged, mergeable
<1>0. tasks \in Seq(Task) /\ mergeable(tasks) = {} /\ lastId \in Nat
  BY DEF IInv, TypeOK, EditsAreMerged
<1>1. CASE preprocessAndEnqueue
  <2>0. PICK k \in Kinds : \E p \in Paths(k) :
          LET t == [id |-> lastId + 1, kind |-> k, path |-> p,
                    canceledSlowPath |-> FALSE]
          IN IF isEdit(t) THEN mergeFileChanges(Append(tasks, t))
                          ELSE tasks' = Append(tasks, t)
    BY <1>1, Zenon DEF preprocessAndEnqueue
  <2>1. PICK p \in Paths(k) :
          LET t == [id |-> lastId + 1, kind |-> k, path |-> p,
                    canceledSlowPath |-> FALSE]
          IN IF isEdit(t) THEN mergeFileChanges(Append(tasks, t))
                          ELSE tasks' = Append(tasks, t)
    BY <2>0, Zenon
  <2> DEFINE t == [id |-> lastId + 1, kind |-> k, path |-> p,
                   canceledSlowPath |-> FALSE]
  <2>2. lastId + 1 \in 0 .. MaxTasks
    BY <1>0, <1>1, SchedulerAssumption DEF preprocessAndEnqueue
  <2>3. t \in Task
    BY <2>2, SchedulerAssumption, Zenon DEF Task, AllKinds, Paths
  <2>4. IF isEdit(t) THEN mergeFileChanges(Append(tasks, t))
                     ELSE tasks' = Append(tasks, t)
    BY <2>1, Zenon
  <2> HIDE DEF t
  <2>5. /\ ApartExceptAt(Append(tasks, t), Len(tasks) + 1)
        /\ ~isEdit(t) => mergeable(Append(tasks, t)) = {}
    BY <1>0, <2>3, AppendKeepsApart, Zenon
  <2>6. Append(tasks, t) \in Seq(Task) /\ Len(tasks) + 1 \in Nat
    BY <1>0, <2>3
  <2>7. CASE isEdit(t)
    <3>1. mergeFileChanges(Append(tasks, t))
      BY <2>4, <2>7, Zenon
    <3> DEFINE s == Append(tasks, t)
               c == Len(tasks) + 1
    <3> HIDE DEF s, c
    <3>2. QED
      BY <2>5, <2>6, <3>1, MergeLeavesNothing, Zenon
  <2>8. CASE ~isEdit(t)
    BY <2>4, <2>5, <2>8, Zenon
  <2>9. QED
    BY <2>7, <2>8, Zenon
<1>2. CASE cancelRequest
  <2>1. PICK i \in DOMAIN tasks : mergeFileChanges(withoutPosition(tasks, i))
    BY <1>2, Zenon DEF cancelRequest
  <2>2. i \in 1 .. Len(tasks) /\ i \in Nat
    BY <1>0, <2>1
  <2>3. ApartExceptAt(withoutPosition(tasks, i), i)
    BY <1>0, <2>2, EraseKeepsApart, Zenon
  <2>4. withoutPosition(tasks, i) \in Seq(Task)
    BY <1>0, <2>2, WithoutPosition, Zenon
  <2>5. QED
    BY <2>1, <2>2, <2>3, <2>4, MergeLeavesNothing, Zenon
<1>3. CASE tasks # << >> /\ tasks' = Tail(tasks)
  BY <1>0, <1>3, PopKeepsApart, Zenon
<1>4. CASE tasks' = tasks
  BY <1>0, <1>4, Zenon
<1> DEFINE popped == tasks # << >> /\ tasks' = Tail(tasks)
<1>5. processingStep => popped \/ tasks' = tasks
  <2>1. awaitTask => popped \/ tasks' = tasks
    BY Zenon DEF awaitTask, popTask
  <2>2. schedulePreemption => popped \/ tasks' = tasks
    BY Zenon DEF IInv, PreemptionInv, schedulePreemption, popTask
  <2>3. QED
    BY <2>1, <2>2, Zenon DEF processingStep, cancelPreemption, preemptionFinished,
         indexTask, tryCancelSlowPath, dispatchTask, taskReady, queueVars
<1>6. typecheckerStep => popped \/ tasks' = tasks
  <2>1. preemptNext => popped
    BY Zenon DEF preemptNext, headOfQueueCanPreempt
  <2>2. QED
    BY <2>1, Zenon DEF typecheckerStep, takeTask, runTask, runSpecial, beginSlowPath,
         resolve, beginPreemption, lockWorkersOut, preemptRun, preemptBreak,
         letWorkersIn, endTypecheck, tryCommitEpoch, noPreemptionLeft,
         endSlowPath, queueVars
<1>7. (\E w \in Workers : workerStep(w)) \/ rest \/ UNCHANGED vars => tasks' = tasks
  BY Zenon DEF workerStep, workerPop, workerLock, workerCheck, rest, vars, queueVars
<1>8. QED
  BY <1>1, <1>2, <1>3, <1>4, <1>5, <1>6, <1>7, Zenon DEF Next, preprocessorStep

\* mergeFileChanges leaves no two edits that a later call could merge, whatever
\* is sent, canceled and taken in between: one pass over the queue is enough.
THEOREM AdjacentEditsAreMerged == Spec => []EditsAreMerged
<1>1. Init => EditsAreMerged
  BY DEF Init, EditsAreMerged, mergeable
<1>2. QED
  BY <1>1, InvariantHolds, NextKeepsEditsMerged, PTL DEF Spec

\* Only one action of the server commits an epoch.
LEMMA OnlyTryCommitEpochCommits ==
  ASSUME Next, lastCommittedLSPEpoch' # lastCommittedLSPEpoch
  PROVE  tryCommitEpoch /\ ~slowPathWasCanceled
<1> USE DEF epochVars
<1>1. ~preprocessorStep
  BY Zenon DEF preprocessorStep, preprocessAndEnqueue, cancelRequest
<1>2. ~processingStep
  BY Zenon DEF processingStep, awaitTask, schedulePreemption, cancelPreemption,
         preemptionFinished, indexTask, tryCancelSlowPath, cancelSlowPath,
         dispatchTask, taskReady
<1>3. typecheckerStep => tryCommitEpoch
  BY Zenon DEF typecheckerStep, takeTask, runTask, runSpecial, startCommitEpoch,
         beginSlowPath, resolve, beginPreemption, lockWorkersOut, preemptNext,
         preemptRun, preemptBreak, letWorkersIn, endTypecheck, noPreemptionLeft,
         endSlowPath
<1>4. ~ \E w \in Workers : workerStep(w)
  BY Zenon DEF workerStep, workerPop, workerLock, workerCheck
<1>5. ~rest
  BY Zenon DEF rest, vars
<1>6. tryCommitEpoch
  BY <1>1, <1>2, <1>3, <1>4, <1>5, Zenon DEF Next
<1>7. QED
  BY <1>6, Zenon DEF tryCommitEpoch, commitOrForgetEpoch

\* A slow path that left out work because of a cancellation is never committed.
THEOREM AbandonedWorkIsSafe == Spec => AbandonedWorkIsNeverCommitted
<1>1. ASSUME IInv, [Next]_vars
      PROVE  [lastCommittedLSPEpoch' # lastCommittedLSPEpoch => ~abandoned]_vars
  <2>1. CASE UNCHANGED vars
    BY <2>1, Zenon
  <2>2. CASE Next /\ lastCommittedLSPEpoch' # lastCommittedLSPEpoch
    <3>1. tcPC = "commit" /\ ~slowPathWasCanceled
      BY <2>2, OnlyTryCommitEpochCommits, Zenon DEF tryCommitEpoch
    <3>2. QED
      BY <1>1, <3>1, Zenon DEF IInv, WorkerInv, inSlowPath
  <2>3. QED
    BY <1>1, <2>1, <2>2, Zenon
<1>2. IInv /\ [Next]_vars =>
        [lastCommittedLSPEpoch' # lastCommittedLSPEpoch => ~abandoned]_vars
  BY <1>1, Zenon
<1>3. QED
  BY <1>2, InvariantHolds, PTL DEF Spec, AbandonedWorkIsNeverCommitted

\* The scheduler implements the protocol of TypecheckEpochManager: each of its
\* steps is a legal call of one of the manager's operations or leaves the epochs
\* alone.
THEOREM SchedulerImplementsEpochs == Spec => FollowsEpochProtocol
<1>1. Init => EpochInit
  BY Zenon DEF Init
<1>2. ASSUME IInv, [Next]_vars
      PROVE  [EpochNext]_epochVars
  <2>1. CASE preprocessorStep \/ rest \/ UNCHANGED vars
    BY <2>1, Zenon DEF preprocessorStep, preprocessAndEnqueue, cancelRequest, rest, vars
  <2>2. CASE processingStep
    <3>1. CASE tryCancelSlowPath
      <4>1. procTask.id \in Epoch
        BY <1>2, SchedulerAssumption, Zenon DEF IInv, TypeOK, Task
      <4>2. CASE cancelSlowPath(procTask.id)
        <5>1. ~slowPathWasCanceled
          BY <1>2, <3>1, <4>2, Zenon DEF IInv, EpochInv, HandoverInv, tryCancelSlowPath,
               cancelInFlight
        <5>2. QED
          BY <4>1, <4>2, <5>1, Zenon DEF EpochNext
      <4>3. CASE UNCHANGED epochVars
        BY <4>3, Zenon
      <4>4. QED
        BY <3>1, <4>2, <4>3, Zenon DEF tryCancelSlowPath
    <3>2. CASE ~tryCancelSlowPath
      BY <2>2, <3>2, Zenon DEF processingStep, awaitTask, schedulePreemption,
           cancelPreemption, preemptionFinished, indexTask, dispatchTask, taskReady
    <3>3. QED
      BY <3>1, <3>2, Zenon
  <2>3. CASE typecheckerStep
    <3>1. CASE runSpecial
      <4>1. tcTask.id \in Epoch
        BY <1>2, SchedulerAssumption, Zenon DEF IInv, TypeOK, Task
      <4>2. /\ ~slowPathRunning /\ ~slowPathWasCanceled
            /\ tcTask.id # currentlyProcessingLSPEpoch
        BY <1>2, <3>1, SpecialStartsIdle, Zenon DEF runSpecial
      <4>3. QED
        BY <3>1, <4>1, <4>2, Zenon DEF runSpecial, EpochNext
    <3>2. CASE tryCommitEpoch
      <4>1. slowPathRunning
        BY <1>2, <3>2, Zenon DEF IInv, EpochInv, inSlowPath, tryCommitEpoch
      <4>2. QED
        BY <3>2, <4>1, Zenon DEF tryCommitEpoch, EpochNext
    <3>3. CASE ~runSpecial /\ ~tryCommitEpoch
      BY <2>3, <3>3, Zenon DEF typecheckerStep, takeTask, runTask, beginSlowPath, resolve,
           beginPreemption, lockWorkersOut, preemptNext, preemptRun, preemptBreak,
           letWorkersIn, endTypecheck, noPreemptionLeft, endSlowPath
    <3>4. QED
      BY <3>1, <3>2, <3>3, Zenon
  <2>4. CASE \E w \in Workers : workerStep(w)
    BY <2>4, Zenon DEF workerStep, workerPop, workerLock, workerCheck
  <2>5. QED
    BY <1>2, <2>1, <2>2, <2>3, <2>4, Zenon DEF Next
<1>3. IInv /\ [Next]_vars => [EpochNext]_epochVars
  BY <1>2, Zenon
<1>4. QED
  BY <1>1, <1>3, InvariantHolds, PTL DEF Spec, FollowsEpochProtocol, EpochSpec
=============================================================================
