------------------------------- MODULE MCFeatures --------------------------------
(***************************************************************************)
(* The instance of FeatureCommands for model checking.  Ids, metapointers, *)
(* values and targets are compared for equality only.                      *)
(***************************************************************************)
EXTENDS FeatureCommands

Interchangeable ==
    Permutations(Ids) \union Permutations(Classifiers) \union Permutations(Properties)
        \union Permutations(References) \union Permutations(Values)
        \union Permutations(TargetsOfReferences)
================================================================================
