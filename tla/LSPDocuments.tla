---------------------------- MODULE LSPDocuments ----------------------------
(***************************************************************************)
(* Whose contents of a file the server typechecks: the editor's while the  *)
(* file is open, the disk's otherwise.  The editor tells the server what   *)
(* it does; of what happens on disk only Watchman tells it, later and      *)
(* without the contents.  LSPPreprocessor::canonicalizeEdits reads the     *)
(* disk when it handles the message, by which time file and editor may     *)
(* have moved on.                                                          *)
(***************************************************************************)
EXTENDS Sequences, Naturals, FileTables

CONSTANTS
  Files,
  Contents,   \* what may be written in a file
  MaxChanges  \* bound: steps of the editor and of other programs

VARIABLES
  disk,         \* contents of the files on disk, or Missing
  editor,       \* contents in the editor, or Closed
  changes,      \* steps of the editor and of other programs so far
  unreported,   \* files that changed on disk and are in no line of Watchman yet
  line,         \* files of the line the Watchman thread waits to enqueue
  messageQueue, \* MessageQueueState::pendingRequests
  initialized,  \* LSPConfiguration::initialized
  openFiles,    \* LSPPreprocessor::openFiles, or Closed
  taskQueue,    \* the initialization and edits, oldest first
  unread,       \* files the initial typecheck has yet to read
  view          \* contents in the server's file tables

vars == <<disk, editor, changes, unreported, line, messageQueue, initialized, openFiles,
          taskQueue, unread, view>>
worldVars == <<disk, editor, changes, unreported>>
serverVars == <<openFiles, taskQueue, unread, view>>

Missing == "missing"
Closed == "closed"
Empty == ""
Initialization == [f \in {} |-> Empty]  \* a task without updates

\* A file that is not there is an empty one.
readFile(f) == IF disk[f] = Missing THEN Empty ELSE disk[f]

Init ==
  /\ disk \in [Files -> {Missing} \cup Contents]
  /\ editor = [f \in Files |-> Closed]
  /\ changes = 0 /\ unreported = {} /\ line = {}
  /\ messageQueue = <<[kind |-> "initialized"]>> /\ initialized = FALSE
  /\ openFiles = [f \in Files |-> Closed]
  /\ taskQueue = <<>> /\ unread = {f \in Files : disk[f] # Missing}  \* inputFileNames
  /\ view = [f \in Files |-> Empty]

-----------------------------------------------------------------------------
(***************************************************************************)
(* The editor, other programs and Watchman.                                *)
(***************************************************************************)
editorSends(f, message, contents) ==
  /\ changes < MaxChanges
  /\ changes' = changes + 1
  /\ messageQueue' = Append(messageQueue, message)
  /\ editor' = [editor EXCEPT ![f] = contents]
  /\ UNCHANGED <<disk, unreported, line, initialized, serverVars>>

didOpen(f) ==
  /\ editor[f] = Closed
  /\ editorSends(f, [kind |-> "didOpen", file |-> f, text |-> readFile(f)], readFile(f))

didChange(f, c) ==
  /\ editor[f] \notin {Closed, c}
  /\ editorSends(f, [kind |-> "didChange", file |-> f, text |-> c], c)

didClose(f) ==
  /\ editor[f] # Closed
  /\ editorSends(f, [kind |-> "didClose", file |-> f], Closed)

\* The editor saves, or another program writes or deletes.
writeDisk(f, c) ==
  /\ changes < MaxChanges /\ c # disk[f]
  /\ changes' = changes + 1
  /\ disk' = [disk EXCEPT ![f] = c]
  /\ unreported' = unreported \cup {f}
  /\ UNCHANGED <<editor, line, messageQueue, initialized, serverVars>>

watchmanLine(S) ==
  /\ line = {}
  /\ line' = S /\ unreported' = unreported \ S
  /\ UNCHANGED <<disk, editor, changes, messageQueue, initialized, serverVars>>

\* initializedNotification is set after the first task that ends once the
\* preprocessor has marked the server initialized: see LSPLifecycle.
enqueueNotification ==
  /\ line # {} /\ initialized
  /\ messageQueue' = Append(messageQueue, [kind |-> "fileChange", files |-> line])
  /\ line' = {}
  /\ UNCHANGED <<worldVars, initialized, serverVars>>

-----------------------------------------------------------------------------
(***************************************************************************)
(* The preprocessor: the updates of an edit, and the edit merged into the  *)
(* one that is last in the queue (newer contents win).                     *)
(***************************************************************************)
contentsOf(m) == [f \in {m.file} |-> m.text]

\* Mutant: a closed file keeps the contents it had in the editor.
closeWithoutReading(m) == [f \in {m.file} |-> openFiles[f]]
\* Mutant: file system updates supersede the editor's contents.
readChanged(m) == [f \in m.files |-> readFile(f)]

onDisk(m) == [f \in {m.file} |-> readFile(f)]
changedOnDisk(m) == [f \in {g \in m.files : openFiles[g] = Closed} |-> readFile(f)]

enqueueEdit(updates) ==
  LET last == Len(taskQueue)
  IN  taskQueue' = IF last > 0 /\ taskQueue[last] # Initialization
                     THEN [taskQueue EXCEPT ![last] = merged(updates, @)]
                     ELSE Append(taskQueue, updates)

preprocess ==
  /\ messageQueue # <<>>
  /\ messageQueue' = Tail(messageQueue)
  /\ LET m == Head(messageQueue)
     IN  \/ /\ m.kind = "initialized"
            /\ initialized' = TRUE
            /\ taskQueue' = Append(taskQueue, Initialization)
            /\ UNCHANGED openFiles
         \/ /\ m.kind \in {"didOpen", "didChange"}
            /\ openFiles' = [openFiles EXCEPT ![m.file] = m.text]
            /\ enqueueEdit(contentsOf(m))
            /\ UNCHANGED initialized
         \/ /\ m.kind = "didClose"
            /\ openFiles' = [openFiles EXCEPT ![m.file] = Closed]
            /\ enqueueEdit(onDisk(m))
            /\ UNCHANGED initialized
         \/ /\ m.kind = "fileChange"
            /\ changedOnDisk(m) # Initialization
            /\ enqueueEdit(changedOnDisk(m))
            /\ UNCHANGED <<initialized, openFiles>>
         \/ /\ m.kind = "fileChange"  \* an edit without updates ends here
            /\ changedOnDisk(m) = Initialization
            /\ UNCHANGED <<initialized, openFiles, taskQueue>>
  /\ UNCHANGED <<worldVars, line, unread, view>>

-----------------------------------------------------------------------------
(***************************************************************************)
(* The initial typecheck reads the files that were there when the options  *)
(* were parsed, one by one; then edits apply.                              *)
(***************************************************************************)
readInitial(f) ==
  /\ taskQueue # <<>> /\ Head(taskQueue) = Initialization
  /\ f \in unread
  /\ unread' = unread \ {f}
  /\ view' = [view EXCEPT ![f] = readFile(f)]
  /\ UNCHANGED <<worldVars, line, messageQueue, initialized, openFiles, taskQueue>>

initialize ==
  /\ taskQueue # <<>> /\ Head(taskQueue) = Initialization
  /\ unread = {}
  /\ taskQueue' = Tail(taskQueue)
  /\ UNCHANGED <<worldVars, line, messageQueue, initialized, openFiles, unread, view>>

applyEdit ==
  /\ taskQueue # <<>> /\ Head(taskQueue) # Initialization
  /\ view' = merged(Head(taskQueue), view)
  /\ taskQueue' = Tail(taskQueue)
  /\ UNCHANGED <<worldVars, line, messageQueue, initialized, openFiles, unread>>

-----------------------------------------------------------------------------
serverStep ==
  \/ enqueueNotification \/ preprocess \/ initialize \/ applyEdit
  \/ \E S \in (SUBSET unreported) \ {{}} : watchmanLine(S)
  \/ \E f \in Files : readInitial(f)

worldStep ==
  \E f \in Files :
    \/ didOpen(f) \/ didClose(f)
    \/ \E c \in Contents : didChange(f, c)
    \/ \E c \in Contents \cup {Missing} : writeDisk(f, c)

Next == serverStep \/ worldStep

\* Watchman reports every change in the end, and the threads run on.
Spec == Init /\ [][Next]_vars /\ WF_vars(serverStep)

-----------------------------------------------------------------------------
updated(f) == {i \in 1 .. Len(taskQueue) : f \in DOMAIN taskQueue[i]}
isLatest(f, c) ==
  \/ updated(f) = {} /\ view[f] = c
  \/ \E i \in updated(f) : taskQueue[i][f] = c /\ \A j \in updated(f) : j <= i

(***************************************************************************)
(* Editor contents supersede file system updates: whatever was written on  *)
(* disk and reported meanwhile, the last edit on its way to the indexer    *)
(* for a file that is open, or else the server's file table, has what the  *)
(* editor last sent (LSPPreprocessor.cc:499-501).                          *)
(***************************************************************************)
EditorContentsWin == \A f \in Files : openFiles[f] # Closed => isLatest(f, openFiles[f])

(***************************************************************************)
(* When the editor and the disk come to rest, the server has the editor's  *)
(* contents of every open file and the disk's of every other, however the  *)
(* opening, closing, writing and reporting were interleaved                *)
(* (LSPPreprocessor.cc:433-508).                                           *)
(***************************************************************************)
ViewBecomesCurrent ==
  <>[](\A f \in Files : view[f] = IF editor[f] = Closed THEN readFile(f) ELSE editor[f])
=============================================================================
