----------------------------- MODULE FileTables -----------------------------
(***************************************************************************)
(* The contents of some files, by path: of all files in a table, of those  *)
(* it changes in an edit.                                                  *)
(***************************************************************************)

\* The contents of both, the newer ones where both have a file.
merged(newer, older) ==
  [f \in DOMAIN newer \cup DOMAIN older |-> IF f \in DOMAIN newer THEN newer[f] ELSE older[f]]
=============================================================================
