--------------------------------- MODULE MCBulk ----------------------------------
(***************************************************************************)
(* The instance of BulkImport for model checking.  Ids of one kind are     *)
(* interchangeable: no request compares them but for equality.             *)
(***************************************************************************)
EXTENDS BulkImport

Interchangeable ==
    Permutations(Ids \ AnnotationIds) \union Permutations(AnnotationIds)
        \union Permutations(Containments)
================================================================================
