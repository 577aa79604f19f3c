-------------------------------- MODULE Overlay --------------------------------
(***************************************************************************)
(* Tables and maps, as functions from their keys: `{...g, ...f}' and a map *)
(* of one entry.  They are the @@ and :> of module TLC, in a module that   *)
(* proofs can use.                                                         *)
(***************************************************************************)

\* f, and g where f has no entry.
Over(f, g) ==
    [x \in DOMAIN f \union DOMAIN g |-> IF x \in DOMAIN f THEN f[x] ELSE g[x]]

\* The map of one entry.
Only(k, v) == [x \in {k} |-> v]
================================================================================
