---------------------------- MODULE MCDiagnostics ----------------------------
(***************************************************************************)
(* Small instances of Diagnostics for TLC.                                 *)
(***************************************************************************)
EXTENDS Diagnostics

CONSTANTS f1, f2

MCFiles == {f1, f2}
MCMentions == {<<f2, f1>>}
MCInitialFiles ==
  [f \in MCFiles |-> [hash |-> "h1", symbols |-> "s1", version |-> 0]]

\* The definition that f2 mentions is missing in f1 at first.
MCBrokenFiles == [MCInitialFiles EXCEPT ![f1].hash = "h2"]

\* A file has an error of its own with s2 or if it cannot be parsed, and one for
\* every file it mentions that lacks the definition or has the wrong signature.
MCErrors(f, table) ==
  (IF table[f].symbols = "s2" \/ table[f].hash = InvalidParse THEN 1 ELSE 0) +
  Cardinality({g \in Files : /\ <<f, g>> \in Mentions
                             /\ table[g] # Absent
                             /\ table[g].hash # "h1" \/ table[g].symbols = "s2"})

MCEpoch == 0 .. MaxVersion
=============================================================================
