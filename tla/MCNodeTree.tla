------------------------------- MODULE MCNodeTree -------------------------------
(***************************************************************************)
(* The instance of NodeTree for model checking.  Ids and metapointers are  *)
(* interchangeable: no command compares them but for equality.             *)
(***************************************************************************)
EXTENDS NodeTree, TLC

Interchangeable == Permutations(Ids) \union Permutations(Containments)
================================================================================
