--------------------------- MODULE MCLSPWorkspace ---------------------------
(***************************************************************************)
(* Small instances of LSPWorkspace for TLC.                                *)
(***************************************************************************)
EXTENDS LSPWorkspace

CONSTANTS f1, f2

MCFiles == {f1, f2}

\* f1 and f2 exist and f2 mentions a symbol of f1.
MCInitialFiles == [f \in MCFiles |-> [hash |-> "h1", symbols |-> "s1", version |-> 0]]
MCMentions == {<<f2, f1>>}

\* The second file does not exist yet.
MCNewFile == [MCInitialFiles EXCEPT ![f2] = Absent]

\* The file of a package, in --sorbet-packages mode.
MCPackageFiles == {f1}

MCEpoch == 0 .. MaxVersion
=============================================================================
