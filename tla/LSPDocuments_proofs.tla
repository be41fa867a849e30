------------------------ MODULE LSPDocuments_proofs ------------------------
(***************************************************************************)
(* For any files, contents and number of changes the editor's contents of  *)
(* an open file win over the disk's.                                       *)
(*                                                                         *)
(* EditorContentsWin alone is not inductive: the initial typecheck writes  *)
(* what it reads from the disk to the file table, and must not do so to a  *)
(* file that is open and has no edit under way.  Two facts exclude that:   *)
(* nothing is open before the initialization is in the task queue          *)
(* (Starting), and while it is there every open file has its edit behind   *)
(* it (BehindInitialization).  Edits are merged, so that there is at most  *)
(* one (Shape).                                                            *)
(***************************************************************************)
EXTENDS LSPDocuments, TLAPS

Texts == Contents \cup {Empty}
Update == UNION {[S -> Texts] : S \in SUBSET Files}
Message ==
  [kind : {"initialized"}] \cup [kind : {"didOpen", "didChange"}, file : Files, text : Texts]
  \cup [kind : {"didClose"}, file : Files] \cup [kind : {"fileChange"}, files : SUBSET Files]

Typed ==
  /\ disk \in [Files -> {Missing} \cup Contents]
  /\ unreported \subseteq Files /\ line \subseteq Files
  /\ messageQueue \in Seq(Message) /\ initialized \in BOOLEAN
  /\ openFiles \in [Files -> Texts \cup {Closed}]
  /\ taskQueue \in Seq(Update)
  /\ view \in [Files -> Texts]

Shape ==
  /\ Len(taskQueue) <= 2
  /\ Len(taskQueue) = 2 => taskQueue[1] = Initialization /\ DOMAIN taskQueue[2] # {}

Starting ==
  /\ ~initialized => /\ taskQueue = <<>> /\ messageQueue # <<>>
                     /\ messageQueue[1].kind = "initialized"
                     /\ \A f \in Files : openFiles[f] = Closed
  /\ \A i \in 1 .. Len(messageQueue) :
       messageQueue[i].kind = "initialized" => i = 1 /\ ~initialized

BehindInitialization ==
  Len(taskQueue) > 0 /\ taskQueue[1] = Initialization =>
    \A f \in Files : openFiles[f] # Closed => Len(taskQueue) = 2 /\ f \in DOMAIN taskQueue[2]

\* What EditorContentsWin says when the task queue has its shape.
isUnderWay(f) == Len(taskQueue) > 0 /\ f \in DOMAIN taskQueue[Len(taskQueue)]
Wins ==
  \A f \in Files :
    openFiles[f] # Closed =>
      openFiles[f] = IF isUnderWay(f) THEN taskQueue[Len(taskQueue)][f] ELSE view[f]

IndInv == Typed /\ Shape /\ Starting /\ BehindInitialization /\ Wins

-----------------------------------------------------------------------------
\* A task without updates changes no file.
LEMMA InitializationIsEmpty == DOMAIN Initialization = {}
BY DEF Initialization

\* Reading any file yields a text.
LEMMA ReadsText ==
  ASSUME Typed
  PROVE  \A f \in Files : readFile(f) \in Texts
BY DEF Typed, readFile, Texts, Missing

\* Updates merged are an update of the files of both.
LEMMA MergedUpdate ==
  ASSUME NEW newer \in Update, NEW older \in Update
  PROVE  /\ merged(newer, older) \in Update
         /\ DOMAIN merged(newer, older) = DOMAIN newer \cup DOMAIN older
         /\ \A f \in DOMAIN newer : merged(newer, older)[f] = newer[f]
         /\ \A f \in DOMAIN older \ DOMAIN newer : merged(newer, older)[f] = older[f]
<1>1. PICK S \in SUBSET Files : newer \in [S -> Texts]
  BY DEF Update
<1>2. PICK R \in SUBSET Files : older \in [R -> Texts]
  BY DEF Update
<1>3. merged(newer, older) \in [S \cup R -> Texts]
  BY <1>1, <1>2 DEF merged
<1>4. S \cup R \in SUBSET Files
  OBVIOUS
<1>5. merged(newer, older) \in Update
  BY <1>3, <1>4 DEF Update
<1>. QED
  BY <1>1, <1>2, <1>3, <1>5 DEF merged

\* The edits the preprocessor builds are updates, of the files they name.
LEMMA BuildsUpdates ==
  ASSUME Typed, NEW m \in Message
  PROVE  /\ m.kind \in {"didOpen", "didChange"} =>
              /\ m.file \in Files /\ m.text \in Texts
              /\ contentsOf(m) \in Update /\ DOMAIN contentsOf(m) = {m.file}
              /\ contentsOf(m)[m.file] = m.text
         /\ m.kind = "didClose" =>
              m.file \in Files /\ onDisk(m) \in Update /\ DOMAIN onDisk(m) = {m.file}
         /\ m.kind = "fileChange" =>
              /\ changedOnDisk(m) \in Update
              /\ DOMAIN changedOnDisk(m) = {g \in m.files : openFiles[g] = Closed}
<1>1. ASSUME m.kind \in {"didOpen", "didChange"}
      PROVE  /\ m.file \in Files /\ m.text \in Texts
             /\ contentsOf(m) \in Update /\ DOMAIN contentsOf(m) = {m.file}
             /\ contentsOf(m)[m.file] = m.text
  <2>1. m.file \in Files /\ m.text \in Texts
    BY <1>1 DEF Message
  <2>2. contentsOf(m) \in [{m.file} -> Texts] /\ {m.file} \in SUBSET Files
    BY <2>1 DEF contentsOf
  <2>3. contentsOf(m) \in Update
    BY <2>2 DEF Update
  <2>. QED
    BY <2>1, <2>3 DEF contentsOf
<1>2. ASSUME m.kind = "didClose"
      PROVE  m.file \in Files /\ onDisk(m) \in Update /\ DOMAIN onDisk(m) = {m.file}
  <2>1. m.file \in Files
    BY <1>2 DEF Message
  <2>2. onDisk(m) \in [{m.file} -> Texts] /\ {m.file} \in SUBSET Files
    BY <2>1, ReadsText DEF onDisk
  <2>3. onDisk(m) \in Update
    BY <2>2 DEF Update
  <2>. QED
    BY <2>1, <2>3 DEF onDisk
<1>3. ASSUME m.kind = "fileChange"
      PROVE  /\ changedOnDisk(m) \in Update
             /\ DOMAIN changedOnDisk(m) = {g \in m.files : openFiles[g] = Closed}
  <2>. DEFINE S == {g \in m.files : openFiles[g] = Closed}
  <2>1. S \in SUBSET Files
    BY <1>3 DEF Message
  <2>2. changedOnDisk(m) \in [S -> Texts]
    BY <2>1, ReadsText DEF changedOnDisk
  <2>3. changedOnDisk(m) \in Update
    BY <2>1, <2>2 DEF Update
  <2>. QED
    BY <2>3 DEF changedOnDisk
<1>. QED
  BY <1>1, <1>2, <1>3

\* An update of no file is the task without updates.
LEMMA EmptyUpdate ==
  ASSUME NEW m, DOMAIN changedOnDisk(m) = {}
  PROVE  changedOnDisk(m) = Initialization
BY DEF changedOnDisk, Initialization

(***************************************************************************)
(* An edit becomes the last task, alone or merged into the one that was    *)
(* there: its updates are in that task, and so are the ones of the edit it *)
(* is merged into.                                                         *)
(***************************************************************************)
LEMMA EnqueuedEdit ==
  ASSUME Typed, Shape, NEW u \in Update, DOMAIN u # {}, enqueueEdit(u)
  PROVE  LET n == Len(taskQueue')
         IN  /\ taskQueue' \in Seq(Update) /\ n \in 1 .. 2
             /\ n = 2 => taskQueue'[1] = Initialization
             /\ taskQueue'[1] = Initialization => n = 2 /\ taskQueue # <<>> /\ taskQueue[1] = Initialization
             /\ DOMAIN u \subseteq DOMAIN taskQueue'[n]
             /\ \A f \in DOMAIN u : taskQueue'[n][f] = u[f]
             /\ \A f \in Files \ DOMAIN u :
                  IF isUnderWay(f)
                    THEN /\ f \in DOMAIN taskQueue'[n] /\ Len(taskQueue) = n
                         /\ taskQueue'[n][f] = taskQueue[n][f]
                    ELSE f \notin DOMAIN taskQueue'[n]
<1>. DEFINE last == Len(taskQueue)
<1>0. last \in 0 .. 2 /\ taskQueue \in Seq(Update)
  <2>1. taskQueue \in Seq(Update)
    BY DEF Typed
  <2>2. Len(taskQueue) \in Nat
    BY <2>1
  <2>3. Len(taskQueue) <= 2
    BY DEF Shape
  <2>4. \A k \in Nat : k <= 2 => k \in 0 .. 2
    OBVIOUS
  <2>5. Len(taskQueue) \in 0 .. 2
    BY <2>2, <2>3, <2>4, Zenon
  <2>. QED
    BY <2>1, <2>5
<1>1. CASE last > 0 /\ taskQueue[last] # Initialization
  <2>1. taskQueue[last] \in Update /\ last \in 1 .. 2
    BY <1>0, <1>1
  <2>2. taskQueue' = [taskQueue EXCEPT ![last] = merged(u, taskQueue[last])]
    BY <1>1 DEF enqueueEdit
  <2>3. /\ merged(u, taskQueue[last]) \in Update
        /\ DOMAIN merged(u, taskQueue[last]) = DOMAIN u \cup DOMAIN taskQueue[last]
        /\ \A f \in DOMAIN u : merged(u, taskQueue[last])[f] = u[f]
        /\ \A f \in DOMAIN taskQueue[last] \ DOMAIN u :
             merged(u, taskQueue[last])[f] = taskQueue[last][f]
    BY <2>1, MergedUpdate, Zenon
  <2>4. /\ taskQueue' \in Seq(Update) /\ Len(taskQueue') = last
        /\ taskQueue'[last] = merged(u, taskQueue[last])
        /\ last = 2 => taskQueue'[1] = taskQueue[1]
    BY <1>0, <2>1, <2>2, <2>3
  <2>5. last = 2 => taskQueue[1] = Initialization
    BY DEF Shape
  <2>6. taskQueue'[last] # Initialization
    BY <2>3, <2>4, InitializationIsEmpty
  <2>. QED
    BY <2>1, <2>3, <2>4, <2>5, <2>6 DEF isUnderWay
<1>2. CASE ~(last > 0 /\ taskQueue[last] # Initialization)
  <2>1. taskQueue' = Append(taskQueue, u)
    BY <1>2 DEF enqueueEdit
  <2>2. last # 2
    BY <1>2, InitializationIsEmpty DEF Shape
  <2>3. /\ taskQueue' \in Seq(Update) /\ Len(taskQueue') = last + 1
        /\ taskQueue'[last + 1] = u
        /\ last = 1 => taskQueue'[1] = taskQueue[1]
    BY <1>0, <2>1
  <2>4. u # Initialization
    BY InitializationIsEmpty
  <2>5. \A f : ~isUnderWay(f)
    BY <1>2, InitializationIsEmpty DEF isUnderWay
  <2>6. last \in 0 .. 1
    BY <1>0, <2>2
  <2>. QED
    BY <1>0, <1>2, <2>2, <2>3, <2>4, <2>5, <2>6
<1>. QED
  BY <1>1, <1>2

\* A message that is sent leaves the server, and what it has been told, as it is.
LEMMA Sending ==
  ASSUME IndInv, NEW m \in Message, m.kind # "initialized",
         messageQueue' = Append(messageQueue, m), UNCHANGED <<initialized, serverVars>>,
         disk' \in [Files -> {Missing} \cup Contents], unreported' \subseteq Files, line' \subseteq Files
  PROVE  IndInv'
<1>1. messageQueue \in Seq(Message)
  BY DEF IndInv, Typed
<1>2. /\ messageQueue' \in Seq(Message) /\ Len(messageQueue') = Len(messageQueue) + 1
      /\ \A i \in 1 .. Len(messageQueue) : messageQueue'[i] = messageQueue[i]
      /\ messageQueue'[Len(messageQueue) + 1] = m
  BY <1>1
<1>3. Typed'
  BY <1>2 DEF IndInv, Typed, serverVars
<1>4. Starting'
  <2>1. \A i \in 1 .. Len(messageQueue') :
          messageQueue'[i].kind = "initialized" => i = 1 /\ ~initialized
    BY <1>1, <1>2 DEF IndInv, Starting
  <2>2. ~initialized => messageQueue' # <<>> /\ messageQueue'[1].kind = "initialized"
    <3>1. ~initialized => Len(messageQueue) > 0 /\ messageQueue[1].kind = "initialized"
      BY <1>1 DEF IndInv, Starting
    <3>. QED
      BY <1>1, <1>2, <3>1
  <2>. QED
    BY <2>1, <2>2 DEF IndInv, Starting, serverVars
<1>5. Shape' /\ BehindInitialization' /\ Wins'
  BY DEF IndInv, Shape, BehindInitialization, Wins, isUnderWay, serverVars
<1>. QED
  BY <1>3, <1>4, <1>5 DEF IndInv

\* The first message is taken: only the ones behind it are left.
LEMMA Taking ==
  ASSUME IndInv, messageQueue # <<>>, messageQueue' = Tail(messageQueue)
  PROVE  /\ Head(messageQueue) \in Message /\ messageQueue' \in Seq(Message)
         /\ \A i \in 1 .. Len(messageQueue') : messageQueue'[i].kind # "initialized"
         /\ Head(messageQueue).kind = "initialized" <=> ~initialized
<1>1. messageQueue \in Seq(Message) /\ initialized \in BOOLEAN
  BY DEF IndInv, Typed
<1>2. Len(messageQueue) \in Nat \ {0} /\ Head(messageQueue) = messageQueue[1]
  BY <1>1
<1>3. /\ messageQueue' \in Seq(Message) /\ Len(messageQueue') = Len(messageQueue) - 1
      /\ \A i \in 1 .. Len(messageQueue') : messageQueue'[i] = messageQueue[i + 1]
  BY <1>1, <1>2
<1>4. \A i \in 1 .. Len(messageQueue) :
        messageQueue[i].kind = "initialized" => i = 1 /\ ~initialized
  BY DEF IndInv, Starting
<1>5. \A i \in 1 .. Len(messageQueue') : messageQueue'[i].kind # "initialized"
  <2>. TAKE i \in 1 .. Len(messageQueue')
  <2>1. i + 1 \in 1 .. Len(messageQueue) /\ i + 1 # 1
    BY <1>2, <1>3
  <2>. QED
    BY <1>3, <1>4, <2>1
<1>6. ~initialized => messageQueue[1].kind = "initialized"
  BY DEF IndInv, Starting
<1>7. 1 \in 1 .. Len(messageQueue)
  BY <1>2
<1>8. messageQueue[1] \in Message
  BY <1>1, <1>7
<1>. QED
  BY <1>2, <1>3, <1>4, <1>5, <1>6, <1>7, <1>8

(***************************************************************************)
(* An edit that has the contents of every file opened or changed by it,    *)
(* and no other open file, keeps the invariant.                            *)
(***************************************************************************)
LEMMA Editing ==
  ASSUME IndInv, NEW u \in Update, DOMAIN u # {}, enqueueEdit(u),
         messageQueue # <<>>, messageQueue' = Tail(messageQueue),
         Head(messageQueue).kind # "initialized",
         openFiles' \in [Files -> Texts \cup {Closed}],
         \A f \in DOMAIN u : openFiles'[f] # Closed => openFiles'[f] = u[f],
         \A f \in Files \ DOMAIN u : openFiles'[f] = openFiles[f],
         UNCHANGED <<worldVars, line, initialized, unread, view>>
  PROVE  IndInv'
<1>. DEFINE n == Len(taskQueue')
<1>1. Typed /\ Shape /\ BehindInitialization /\ Wins
  BY DEF IndInv
<1>2. /\ messageQueue' \in Seq(Message) /\ initialized \in BOOLEAN /\ initialized
      /\ \A i \in 1 .. Len(messageQueue') : messageQueue'[i].kind # "initialized"
  BY Taking DEF IndInv, Typed
<1>3. /\ taskQueue' \in Seq(Update) /\ n \in 1 .. 2
      /\ n = 2 => taskQueue'[1] = Initialization
      /\ taskQueue'[1] = Initialization => n = 2 /\ taskQueue # <<>> /\ taskQueue[1] = Initialization
      /\ DOMAIN u \subseteq DOMAIN taskQueue'[n]
      /\ \A f \in DOMAIN u : taskQueue'[n][f] = u[f]
      /\ \A f \in Files \ DOMAIN u :
           IF isUnderWay(f)
             THEN /\ f \in DOMAIN taskQueue'[n] /\ Len(taskQueue) = n
                  /\ taskQueue'[n][f] = taskQueue[n][f]
             ELSE f \notin DOMAIN taskQueue'[n]
  BY <1>1, EnqueuedEdit
<1>4. Typed'
  BY <1>1, <1>2, <1>3 DEF Typed, worldVars
<1>5. Shape'
  BY <1>3 DEF Shape
<1>6. Starting'
  BY <1>2 DEF Starting
<1>7. BehindInitialization'
  <2>1. SUFFICES ASSUME taskQueue'[1] = Initialization, NEW f \in Files, openFiles'[f] # Closed
                 PROVE  n = 2 /\ f \in DOMAIN taskQueue'[2]
    BY DEF BehindInitialization
  <2>2. n = 2 /\ Len(taskQueue) > 0 /\ taskQueue[1] = Initialization
    <3>1. taskQueue \in Seq(Update)
      BY <1>1 DEF Typed
    <3>. QED
      BY <1>3, <2>1, <3>1
  <2>3. CASE f \in DOMAIN u
    BY <1>3, <2>2, <2>3
  <2>4. CASE f \notin DOMAIN u
    <3>1. openFiles[f] # Closed
      BY <2>1, <2>4
    <3>2. Len(taskQueue) = 2 /\ f \in DOMAIN taskQueue[2]
      BY <1>1, <2>2, <3>1 DEF BehindInitialization
    <3>3. isUnderWay(f)
      BY <3>2 DEF isUnderWay
    <3>. QED
      BY <1>3, <2>2, <2>4, <3>3
  <2>. QED
    BY <2>3, <2>4
<1>8. Wins'
  <2>1. SUFFICES ASSUME NEW f \in Files, openFiles'[f] # Closed
                 PROVE  openFiles'[f] = IF n > 0 /\ f \in DOMAIN taskQueue'[n]
                                          THEN taskQueue'[n][f] ELSE view[f]
    BY DEF Wins, isUnderWay
  <2>2. CASE f \in DOMAIN u
    BY <1>3, <2>1, <2>2
  <2>3. CASE f \notin DOMAIN u
    <3>1. openFiles'[f] = openFiles[f] /\ openFiles[f] # Closed
      BY <2>1, <2>3
    <3>2. openFiles[f] = IF isUnderWay(f) THEN taskQueue[Len(taskQueue)][f] ELSE view[f]
      BY <1>1, <3>1 DEF Wins
    <3>. QED
      BY <1>3, <2>3, <3>1, <3>2
  <2>. QED
    BY <2>2, <2>3
<1>. QED
  BY <1>4, <1>5, <1>6, <1>7, <1>8 DEF IndInv

\* Only the disk and what Watchman says of it change.
LEMMA Outside ==
  ASSUME IndInv, UNCHANGED <<messageQueue, initialized, serverVars>>,
         disk' \in [Files -> {Missing} \cup Contents], unreported' \subseteq Files, line' \subseteq Files
  PROVE  IndInv'
<1>1. Typed'
  BY DEF IndInv, Typed, serverVars
<1>. QED
  BY <1>1 DEF IndInv, Shape, Starting, BehindInitialization, Wins, isUnderWay, serverVars

\* The initialization becomes the only task; no file is open.
LEMMA InitializationEnqueued ==
  ASSUME IndInv, messageQueue # <<>>, messageQueue' = Tail(messageQueue),
         Head(messageQueue).kind = "initialized", initialized' = TRUE,
         taskQueue' = Append(taskQueue, Initialization),
         UNCHANGED <<worldVars, line, unread, view, openFiles>>
  PROVE  IndInv'
<1>1. /\ messageQueue' \in Seq(Message) /\ ~initialized
      /\ \A i \in 1 .. Len(messageQueue') : messageQueue'[i].kind # "initialized"
  BY Taking
<1>2. taskQueue = <<>> /\ \A f \in Files : openFiles[f] = Closed
  BY <1>1 DEF IndInv, Starting
<1>3. Initialization \in Update
  <2>1. Initialization \in [{} -> Texts] /\ {} \in SUBSET Files
    BY DEF Initialization
  <2>. QED
    BY <2>1, Zenon DEF Update
<1>4. taskQueue' \in Seq(Update) /\ Len(taskQueue') = 1
  BY <1>2, <1>3
<1>5. Typed'
  BY <1>1, <1>4 DEF IndInv, Typed, worldVars
<1>. QED
  BY <1>1, <1>2, <1>4, <1>5 DEF IndInv, Shape, Starting, BehindInitialization, Wins

\* Every message, whatever its kind, keeps the invariant.
LEMMA Preprocessing ==
  ASSUME IndInv, preprocess
  PROVE  IndInv'
<1>. DEFINE m == Head(messageQueue)
<1>0. messageQueue # <<>> /\ messageQueue' = Tail(messageQueue)
  BY DEF preprocess
<1>1. m \in Message /\ Typed
  BY <1>0, Taking DEF IndInv
<1>2. UNCHANGED <<worldVars, line, unread, view>>
  BY DEF preprocess
<1>3. openFiles \in [Files -> Texts \cup {Closed}]
  BY <1>1 DEF Typed
<1>4. CASE m.kind = "initialized"
  <2>1. initialized' = TRUE /\ taskQueue' = Append(taskQueue, Initialization) /\ UNCHANGED openFiles
    BY <1>4 DEF preprocess
  <2>. QED
    BY <1>0, <1>2, <1>4, <2>1, InitializationEnqueued
<1>5. CASE m.kind \in {"didOpen", "didChange"}
  <2>1. /\ openFiles' = [openFiles EXCEPT ![m.file] = m.text]
        /\ enqueueEdit(contentsOf(m)) /\ UNCHANGED initialized
    BY <1>5 DEF preprocess
  <2>2. /\ m.file \in Files /\ m.text \in Texts
        /\ contentsOf(m) \in Update /\ DOMAIN contentsOf(m) = {m.file}
        /\ contentsOf(m)[m.file] = m.text
    BY <1>1, <1>5, BuildsUpdates, Zenon
  <2>3. openFiles' \in [Files -> Texts \cup {Closed}]
    BY <1>3, <2>1, <2>2
  <2>4. /\ \A f \in DOMAIN contentsOf(m) : openFiles'[f] # Closed => openFiles'[f] = contentsOf(m)[f]
        /\ \A f \in Files \ DOMAIN contentsOf(m) : openFiles'[f] = openFiles[f]
    BY <1>3, <2>1, <2>2
  <2>5. m.kind # "initialized" /\ DOMAIN contentsOf(m) # {}
    BY <1>5, <2>2
  <2>. QED
    BY <1>0, <1>2, <2>1, <2>2, <2>3, <2>4, <2>5, Editing
<1>6. CASE m.kind = "didClose"
  <2>1. /\ openFiles' = [openFiles EXCEPT ![m.file] = Closed]
        /\ enqueueEdit(onDisk(m)) /\ UNCHANGED initialized
    BY <1>6 DEF preprocess
  <2>2. m.file \in Files /\ onDisk(m) \in Update /\ DOMAIN onDisk(m) = {m.file}
    BY <1>1, <1>6, BuildsUpdates, Zenon
  <2>3. openFiles' \in [Files -> Texts \cup {Closed}]
    BY <1>3, <2>1, <2>2
  <2>4. /\ \A f \in DOMAIN onDisk(m) : openFiles'[f] # Closed => openFiles'[f] = onDisk(m)[f]
        /\ \A f \in Files \ DOMAIN onDisk(m) : openFiles'[f] = openFiles[f]
    BY <1>3, <2>1, <2>2
  <2>5. m.kind # "initialized" /\ DOMAIN onDisk(m) # {}
    BY <1>6, <2>2
  <2>. QED
    BY <1>0, <1>2, <2>1, <2>2, <2>3, <2>4, <2>5, Editing
<1>7. CASE m.kind = "fileChange" /\ changedOnDisk(m) # Initialization
  <2>1. enqueueEdit(changedOnDisk(m)) /\ UNCHANGED <<initialized, openFiles>>
    BY <1>7 DEF preprocess
  <2>2. /\ changedOnDisk(m) \in Update
        /\ DOMAIN changedOnDisk(m) = {g \in m.files : openFiles[g] = Closed}
    BY <1>1, <1>7, BuildsUpdates, Zenon
  <2>3. m.kind # "initialized" /\ DOMAIN changedOnDisk(m) # {}
    BY <1>7, EmptyUpdate, Zenon
  <2>4. /\ \A f \in DOMAIN changedOnDisk(m) :
             openFiles'[f] # Closed => openFiles'[f] = changedOnDisk(m)[f]
        /\ \A f \in Files \ DOMAIN changedOnDisk(m) : openFiles'[f] = openFiles[f]
    BY <2>1, <2>2
  <2>. QED
    BY <1>0, <1>2, <1>3, <2>1, <2>2, <2>3, <2>4, Editing
<1>8. CASE m.kind = "fileChange" /\ changedOnDisk(m) = Initialization
  <2>1. UNCHANGED <<initialized, openFiles, taskQueue>>
    BY <1>8, InitializationIsEmpty DEF preprocess
  <2>2. /\ messageQueue' \in Seq(Message) /\ initialized \in BOOLEAN /\ initialized
        /\ \A i \in 1 .. Len(messageQueue') : messageQueue'[i].kind # "initialized"
    BY <1>0, <1>1, <1>8, Taking DEF Typed
  <2>3. Typed'
    BY <1>1, <1>2, <2>1, <2>2 DEF Typed, worldVars
  <2>. QED
    BY <1>2, <2>1, <2>2, <2>3
       DEF IndInv, Shape, Starting, BehindInitialization, Wins, isUnderWay
<1>9. m.kind \in {"initialized", "didOpen", "didChange", "didClose", "fileChange"}
  BY DEF preprocess
<1>. QED
  BY <1>4, <1>5, <1>6, <1>7, <1>8, <1>9

\* The initial typecheck reads a file: an open one has its edit in the queue.
LEMMA Reading ==
  ASSUME IndInv, NEW f \in Files, readInitial(f)
  PROVE  IndInv'
<1>1. taskQueue \in Seq(Update) /\ view \in [Files -> Texts] /\ readFile(f) \in Texts
  BY ReadsText DEF IndInv, Typed
<1>2. Len(taskQueue) > 0 /\ taskQueue[1] = Initialization
  BY <1>1 DEF readInitial
<1>3. /\ view' = [view EXCEPT ![f] = readFile(f)] /\ view' \in [Files -> Texts]
      /\ UNCHANGED <<worldVars, line, messageQueue, initialized, openFiles, taskQueue>>
  BY <1>1 DEF readInitial
<1>4. Typed'
  BY <1>3 DEF IndInv, Typed, worldVars
<1>5. \A g \in Files : openFiles[g] # Closed => isUnderWay(g)
  BY <1>2 DEF IndInv, BehindInitialization, isUnderWay
<1>6. Wins'
  BY <1>3, <1>5 DEF IndInv, Wins, isUnderWay
<1>. QED
  BY <1>3, <1>4, <1>6 DEF IndInv, Shape, Starting, BehindInitialization

\* The first task is taken: the only one left, if any, is the edit behind it.
LEMMA TakingTask ==
  ASSUME IndInv, taskQueue # <<>>, taskQueue' = Tail(taskQueue)
  PROVE  /\ taskQueue' \in Seq(Update) /\ Head(taskQueue) = taskQueue[1] /\ taskQueue[1] \in Update
         /\ initialized
         /\ \/ Len(taskQueue) = 1 /\ taskQueue' = <<>>
            \/ /\ Len(taskQueue) = 2 /\ Len(taskQueue') = 1 /\ taskQueue'[1] = taskQueue[2]
               /\ taskQueue[1] = Initialization /\ taskQueue[2] # Initialization
<1>1. taskQueue \in Seq(Update)
  BY DEF IndInv, Typed
<1>2. Len(taskQueue) = 1 \/ Len(taskQueue) = 2
  <2>1. Len(taskQueue) \in Nat /\ Len(taskQueue) # 0
    BY <1>1
  <2>2. Len(taskQueue) <= 2
    BY DEF IndInv, Shape
  <2>3. \A k \in Nat : k # 0 /\ k <= 2 => k = 1 \/ k = 2
    OBVIOUS
  <2>. QED
    BY <2>1, <2>2, <2>3, Zenon
<1>3. Len(taskQueue) = 2 => taskQueue[1] = Initialization /\ taskQueue[2] # Initialization
  BY InitializationIsEmpty DEF IndInv, Shape
<1>4. initialized
  BY DEF IndInv, Starting
<1>5. taskQueue' \in Seq(Update) /\ Head(taskQueue) = taskQueue[1] /\ taskQueue[1] \in Update
  BY <1>1, <1>2
<1>6. Len(taskQueue) = 1 => taskQueue' = <<>>
  BY <1>1
<1>7. Len(taskQueue) = 2 => Len(taskQueue') = 1 /\ taskQueue'[1] = taskQueue[2]
  BY <1>1
<1>. QED
  BY <1>2, <1>3, <1>4, <1>5, <1>6, <1>7

\* The initial typecheck ends; its task had no updates.
LEMMA Initializing ==
  ASSUME IndInv, initialize
  PROVE  IndInv'
<1>1. /\ taskQueue # <<>> /\ taskQueue' = Tail(taskQueue) /\ Head(taskQueue) = Initialization
      /\ UNCHANGED <<worldVars, line, messageQueue, initialized, openFiles, unread, view>>
  BY DEF initialize
<1>2. /\ taskQueue' \in Seq(Update) /\ initialized /\ taskQueue[1] = Initialization
      /\ \/ Len(taskQueue) = 1 /\ taskQueue' = <<>>
         \/ /\ Len(taskQueue) = 2 /\ Len(taskQueue') = 1 /\ taskQueue'[1] = taskQueue[2]
            /\ taskQueue[2] # Initialization
  BY <1>1, TakingTask
<1>3. Typed' /\ Starting'
  BY <1>1, <1>2 DEF IndInv, Typed, Starting, worldVars
<1>4. Shape' /\ BehindInitialization'
  <2>1. CASE taskQueue' = <<>>
    <3>1. Len(taskQueue') = 0
      BY <2>1
    <3>. QED
      BY <3>1 DEF Shape, BehindInitialization
  <2>2. CASE Len(taskQueue') = 1 /\ taskQueue'[1] # Initialization
    BY <2>2 DEF Shape, BehindInitialization
  <2>. QED
    BY <1>2, <2>1, <2>2
<1>5. Wins'
  BY <1>1, <1>2, InitializationIsEmpty DEF IndInv, Wins, isUnderWay
<1>. QED
  BY <1>3, <1>4, <1>5 DEF IndInv

\* An edit is the only task when it is applied, and the file table gets its updates.
LEMMA Applying ==
  ASSUME IndInv, applyEdit
  PROVE  IndInv'
<1>. DEFINE u == taskQueue[1]
<1>1. /\ taskQueue # <<>> /\ taskQueue' = Tail(taskQueue) /\ Head(taskQueue) # Initialization
      /\ view' = merged(Head(taskQueue), view)
      /\ UNCHANGED <<worldVars, line, messageQueue, initialized, openFiles, unread>>
  BY DEF applyEdit
<1>2. /\ initialized /\ u \in Update /\ Head(taskQueue) = u
      /\ Len(taskQueue) = 1 /\ taskQueue' = <<>>
  BY <1>1, TakingTask
<1>3. view \in [Files -> Texts]
  BY DEF IndInv, Typed
<1>4. PICK S \in SUBSET Files : u \in [S -> Texts]
  BY <1>2 DEF Update
<1>5. /\ view' \in [Files -> Texts]
      /\ \A f \in Files : view'[f] = IF f \in DOMAIN u THEN u[f] ELSE view[f]
  BY <1>1, <1>2, <1>3, <1>4 DEF merged
<1>6. Typed'
  BY <1>1, <1>2, <1>5 DEF IndInv, Typed, worldVars
<1>7. Len(taskQueue') = 0
  BY <1>2
<1>8. Starting'
  BY <1>1, <1>2 DEF IndInv, Starting
<1>9. Shape' /\ BehindInitialization'
  BY <1>7 DEF Shape, BehindInitialization
<1>10. Wins'
  <2>1. \A f \in Files : openFiles[f] # Closed =>
          openFiles[f] = IF f \in DOMAIN u THEN u[f] ELSE view[f]
    BY <1>2 DEF IndInv, Wins, isUnderWay
  <2>2. \A f \in Files : ~isUnderWay(f)'
    BY <1>7 DEF isUnderWay
  <2>3. \A f \in Files : openFiles'[f] # Closed => openFiles'[f] = view'[f]
    BY <1>1, <1>5, <2>1
  <2>. QED
    BY <2>2, <2>3 DEF Wins
<1>. QED
  BY <1>6, <1>8, <1>9, <1>10 DEF IndInv

-----------------------------------------------------------------------------
\* No file is open and no task is queued when the server starts.
LEMMA InitialState == Init => IndInv
<1>. SUFFICES ASSUME Init PROVE IndInv
  OBVIOUS
<1>1. [kind |-> "initialized"] \in Message
  BY DEF Message
<1>2. messageQueue \in Seq(Message) /\ Len(messageQueue) = 1 /\ messageQueue[1].kind = "initialized"
  BY <1>1 DEF Init
<1>3. taskQueue \in Seq(Update) /\ Len(taskQueue) = 0
  BY DEF Init
<1>4. Typed
  BY <1>2, <1>3, Zenon DEF Init, Typed, Texts
<1>5. Starting
  BY <1>2 DEF Init, Starting
<1>6. Shape /\ BehindInitialization
  BY <1>3 DEF Shape, BehindInitialization
<1>7. Wins
  BY DEF Init, Wins
<1>. QED
  BY <1>4, <1>5, <1>6, <1>7 DEF IndInv

\* Every step of the editor, other programs, Watchman and the server keeps it.
LEMMA EveryStep == IndInv /\ [Next]_vars => IndInv'
<1>. SUFFICES ASSUME IndInv, [Next]_vars PROVE IndInv'
  OBVIOUS
<1>1. /\ disk \in [Files -> {Missing} \cup Contents]
      /\ unreported \subseteq Files /\ line \subseteq Files /\ Typed
  BY DEF IndInv, Typed
<1>2. ASSUME NEW f \in Files, NEW m \in Message, NEW c, m.kind # "initialized", editorSends(f, m, c)
      PROVE  IndInv'
  <2>1. /\ messageQueue' = Append(messageQueue, m)
        /\ UNCHANGED <<disk, unreported, line, initialized, serverVars>>
    BY <1>2 DEF editorSends
  <2>. QED
    BY <1>1, <1>2, <2>1, Sending
<1>3. ASSUME NEW f \in Files, didOpen(f) PROVE IndInv'
  <2>1. [kind |-> "didOpen", file |-> f, text |-> readFile(f)] \in Message
    BY <1>1, ReadsText DEF Message
  <2>. QED
    BY <1>2, <1>3, <2>1 DEF didOpen
<1>4. ASSUME NEW f \in Files, NEW c \in Contents, didChange(f, c) PROVE IndInv'
  <2>1. [kind |-> "didChange", file |-> f, text |-> c] \in Message
    BY DEF Message, Texts
  <2>. QED
    BY <1>2, <1>4, <2>1 DEF didChange
<1>5. ASSUME NEW f \in Files, didClose(f) PROVE IndInv'
  <2>1. [kind |-> "didClose", file |-> f] \in Message
    BY DEF Message
  <2>. QED
    BY <1>2, <1>5, <2>1 DEF didClose
<1>6. ASSUME NEW f \in Files, NEW c \in Contents \cup {Missing}, writeDisk(f, c) PROVE IndInv'
  <2>1. /\ disk' \in [Files -> {Missing} \cup Contents] /\ unreported' \subseteq Files
        /\ UNCHANGED <<line, messageQueue, initialized, serverVars>>
    BY <1>1, <1>6 DEF writeDisk
  <2>. QED
    BY <1>1, <2>1, Outside
<1>7. ASSUME NEW S \in (SUBSET unreported) \ {{}}, watchmanLine(S) PROVE IndInv'
  <2>1. /\ line' \subseteq Files /\ unreported' \subseteq Files
        /\ UNCHANGED <<disk, messageQueue, initialized, serverVars>>
    BY <1>1, <1>7 DEF watchmanLine
  <2>. QED
    BY <1>1, <2>1, Outside
<1>8. ASSUME enqueueNotification PROVE IndInv'
  <2>1. [kind |-> "fileChange", files |-> line] \in Message
    BY <1>1 DEF Message
  <2>2. /\ messageQueue' = Append(messageQueue, [kind |-> "fileChange", files |-> line])
        /\ line' \subseteq Files /\ UNCHANGED <<disk, unreported, initialized, serverVars>>
    BY <1>8 DEF enqueueNotification, worldVars
  <2>. QED
    BY <1>1, <2>1, <2>2, Sending
<1>9. ASSUME UNCHANGED vars PROVE IndInv'
  <2>1. UNCHANGED <<disk, unreported, line, messageQueue, initialized, serverVars>>
    BY <1>9 DEF vars, serverVars
  <2>. QED
    BY <1>1, <2>1, Outside
<1>. QED
  BY <1>3, <1>4, <1>5, <1>6, <1>7, <1>8, <1>9, Preprocessing, Initializing, Applying, Reading
     DEF Next, serverStep, worldStep

\* With at most one edit in the queue, the last task says what a file's latest contents are.
LEMMA WinsSuffices == IndInv => EditorContentsWin
<1>. SUFFICES ASSUME IndInv, NEW f \in Files, openFiles[f] # Closed
              PROVE  isLatest(f, openFiles[f])
  BY DEF EditorContentsWin
<1>. DEFINE n == Len(taskQueue)
<1>1. openFiles[f] = IF isUnderWay(f) THEN taskQueue[n][f] ELSE view[f]
  BY DEF IndInv, Wins
<1>2. taskQueue \in Seq(Update) /\ n \in Nat
  BY DEF IndInv, Typed
<1>3. CASE isUnderWay(f)
  <2>1. n \in updated(f) /\ \A j \in updated(f) : j <= n
    BY <1>2, <1>3 DEF isUnderWay, updated
  <2>. QED
    BY <1>1, <1>3, <2>1 DEF isLatest
<1>4. CASE ~isUnderWay(f)
  <2>1. n <= 2 /\ (n = 2 => f \notin DOMAIN taskQueue[1])
    BY InitializationIsEmpty DEF IndInv, Shape
  <2>2. ASSUME NEW i \in 1 .. n PROVE f \notin DOMAIN taskQueue[i]
    <3>. HIDE DEF n
    <3>1. i = n \/ (i = 1 /\ n = 2)
      BY <1>2, <2>1
    <3>2. n > 0
      BY <1>2
    <3>. QED
      BY <1>4, <2>1, <3>1, <3>2 DEF isUnderWay, n
  <2>3. updated(f) = {}
    BY <2>2 DEF updated
  <2>. QED
    BY <1>1, <1>4, <2>3 DEF isLatest
<1>. QED
  BY <1>3, <1>4

(***************************************************************************)
(* Whatever is written on disk and reported meanwhile, and whenever the    *)
(* initial typecheck reads its files, the last edit under way for an open  *)
(* file, or else the server's file table, has what the editor last sent    *)
(* (LSPPreprocessor.cc:433-508): for any set of files and of contents.     *)
(***************************************************************************)
THEOREM EditorWins == Spec => []EditorContentsWin
BY InitialState, EveryStep, WinsSuffices, PTL DEF Spec
=============================================================================
