----------------------------- MODULE MCFindFiles -----------------------------
(* A tree of four directories, one of them two levels down. *)
EXTENDS FindFiles, TLC

MCDirs == {"root", "a", "b", "c"}
MCSubDirs ==
  ("root" :> {"a", "b"}) @@ ("a" :> {"c"}) @@ ("b" :> {}) @@ ("c" :> {})
=============================================================================
