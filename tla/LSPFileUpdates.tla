--------------------------- MODULE LSPFileUpdates ---------------------------
(***************************************************************************)
(* The data an edit carries from the preprocessor to the typechecker:      *)
(* SorbetWorkspaceEditParams (main/lsp/json_types.cc), LSPFileUpdates      *)
(* (main/lsp/LSPFileUpdates.cc), and the decision between the fast and the *)
(* slow path (LSPIndexer::getTypecheckingPath).                            *)
(*                                                                         *)
(* A file is its hierarchy hash, the hash of the symbols whose change only *)
(* asks for a retypecheck of the files that mention them, and the epoch of *)
(* the edit it came with (core::File::epoch).  A file table maps every     *)
(* path to a file or to Absent; an edit maps the paths it changes.         *)
(***************************************************************************)
EXTENDS Naturals, FiniteSets, FileTables

CONSTANTS
  Files,                  \* paths
  PackageFiles,           \* the __package.rb files of --sorbet-packages mode
  Hashes,                 \* hierarchyHash
  InvalidParse,           \* HASH_STATE_INVALID_PARSE
  Symbols,                \* retypecheckableSymbolHashes
  Mentions,               \* <<f, g>>: file f mentions a symbol of file g
  LspMaxFilesOnFastPath,  \* opts.lspMaxFilesOnFastPath
  FastPathDisabled        \* config->disableFastPath

ASSUME FilesAssumption == IsFiniteSet(Files)

Absent == [hash |-> "absent"]

\* The files an edit of that version may bring.
Content(version) == [hash : Hashes, symbols : Symbols, version : {version}]

NoFiles == [f \in {} |-> Absent]

presentFiles(table) == {f \in Files : table[f] # Absent}

-----------------------------------------------------------------------------
(* SorbetWorkspaceEditParams *)

workspaceEdit(epoch, files) ==
  [epoch |-> epoch, files |-> files, mergeCount |-> 0, timers |-> 1]


\* SorbetWorkspaceEditParams::merge, with the result in place of older.
mergeParams(older, newer) ==
  [epoch |-> newer.epoch,
   files |-> merged(newer.files, older.files),
   mergeCount |-> older.mergeCount + newer.mergeCount + 1,
   timers |-> older.timers + newer.timers]

-----------------------------------------------------------------------------
(* LSPFileUpdates.  The timers stay with the params in the code; they are  *)
(* kept here because both go to the typechecker together.                  *)

fileUpdates(edit, newFiles) ==
  [epoch |-> edit.epoch, editCount |-> edit.mergeCount + 1,
   committedEditCount |-> 0, files |-> edit.files, hasNewFiles |-> newFiles,
   path |-> "slow", extraFiles |-> {}, canceledSlowPath |-> FALSE,
   timers |-> edit.timers]

\* A mutant of mergeOlder: the older contents win.
olderFilesWin(newer, older) ==
  [newer EXCEPT !.editCount = @ + older.editCount,
                !.committedEditCount = @ + older.committedEditCount,
                !.hasNewFiles = @ \/ older.hasNewFiles,
                !.files = merged(older.files, @),
                !.path = "slow"]

mergeOlder(newer, older) ==
  [newer EXCEPT !.editCount = @ + older.editCount,
                !.committedEditCount = @ + older.committedEditCount,
                !.hasNewFiles = @ \/ older.hasNewFiles,
                !.files = merged(@, older.files),
                !.path = "slow"]

\* LSPFileUpdates::copy leaves out what only the original is typechecked with.
copyUpdates(u) == [u EXCEPT !.extraFiles = {}, !.canceledSlowPath = FALSE]

-----------------------------------------------------------------------------
(* The choice of the path.  gs is a file table; evicted holds the files    *)
(* that the edit replaced in gs, or is empty when gs still has them.       *)

getOldFile(f, gs, evicted) == IF f \in DOMAIN evicted THEN evicted[f] ELSE gs[f]

\* evictedFiles.at(fref) needs the file to be there.
evictedCovers(changed, evicted) ==
  evicted = NoFiles \/ DOMAIN changed \ PackageFiles \subseteq DOMAIN evicted

\* The files of the edit that have symbols to look for in other files.
symbolsChanged(gs, changed, evicted) ==
  {f \in DOMAIN changed \ PackageFiles :
     getOldFile(f, gs, evicted).symbols # changed[f].symbols}

extraFiles(gs, changed, evicted) ==
  {f \in Files \ (DOMAIN changed \cup PackageFiles) :
     /\ gs[f] # Absent
     /\ \E g \in symbolsChanged(gs, changed, evicted) : <<f, g>> \in Mentions}

totalChanged(gs, changed, evicted) ==
  Cardinality(DOMAIN changed \ PackageFiles)
    + Cardinality(extraFiles(gs, changed, evicted))

definitionsUnchanged(gs, changed, evicted) ==
  \A f \in DOMAIN changed :
    /\ gs[f] # Absent
    /\ f \in PackageFiles => getOldFile(f, gs, evicted) = changed[f]
    /\ changed[f].hash # InvalidParse
    /\ changed[f].hash = getOldFile(f, gs, evicted).hash

getTypecheckingPathInternal(gs, changed, evicted) ==
  IF /\ ~FastPathDisabled
     /\ Cardinality(DOMAIN changed) <= LspMaxFilesOnFastPath
     /\ definitionsUnchanged(gs, changed, evicted)
     /\ totalChanged(gs, changed, evicted) <= LspMaxFilesOnFastPath
    THEN "fast" ELSE "slow"

\* LSPIndexer::getTypecheckingPath of an update: u with its path and, on the
\* fast path, the extra files.
withTypecheckingPath(u, gs, evicted) ==
  IF ~u.hasNewFiles /\ getTypecheckingPathInternal(gs, u.files, evicted) = "fast"
    THEN [u EXCEPT !.path = "fast",
                   !.extraFiles = extraFiles(gs, u.files, evicted)]
    ELSE [u EXCEPT !.path = "slow"]
=============================================================================
