----------------------------- MODULE MCRepositories -----------------------------
(***************************************************************************)
(* Instances of Repositories for model checking: repositories that the     *)
(* server is configured to create: one always, the others if they do not   *)
(* exist.                                                                  *)
(***************************************************************************)
EXTENDS Repositories, TLC

CONSTANT Fresh           \* the repository that is created always

Configured == [r \in Repos |-> IF r = Fresh THEN "always" ELSE "if-not-exists"]

Interchangeable == Permutations(MetaPointers)
================================================================================
