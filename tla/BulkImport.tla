-------------------------------- MODULE BulkImport --------------------------------
(***************************************************************************)
(* The bulk import of the additional API, on the tables of BulkStore       *)
(* (packages/additionalapi/src/controllers/AdditionalApi.ts,               *)
(* database/AdditionalQueries.ts, ImportLogic.ts and QueryNode.ts).        *)
(*                                                                         *)
(* An import is one request and not one transaction: each COPY commits by  *)
(* itself, and so does each statement that attaches the root of a tree.    *)
(* The request queue keeps other requests away, so an import is interrupted*)
(* by the end of the process or the failure of a statement only.  Split    *)
(* delta commands, which do run beside the queue, are left out here, as are*)
(* properties, references and the forms (JSON, protobuf) of the request.   *)
(*                                                                         *)
(* The checks that would refuse existing nodes, missing containers, roots  *)
(* that are not among the nodes and other parents have no effect: they     *)
(* compare a list of rows with 0, or return from a callback.               *)
(***************************************************************************)
EXTENDS BulkStore

CONSTANT MaxImport       \* bound: nodes of an import

VARIABLE import          \* the import that is running, or Idle

importVars == <<parent, lists, stray, import>>

\* No import is running.
Idle == [next |-> "idle", rows |-> <<>>, attach |-> <<>>, left |-> {}]

(***************************************************************************)
(* Requests.                                                               *)
(***************************************************************************)
\* The client sends whole trees.  The checks that do have an effect, for duplicate
\* ids and contradicting parents, pass for them.
Imports == {Part(f, DOMAIN f.parent) : f \in {g \in Forests : Cardinality(DOMAIN g.parent) \in 1..MaxImport}}

\* The attach points of some of the roots: a container and a containment of it.
AttachPoints(chunk) ==
    UNION {[roots -> (Ids \ DOMAIN chunk) \X Containments] :
            roots \in SUBSET {n \in DOMAIN chunk : chunk[n].parent = None}}

\* A root with an attach point gets the container as its parent.
AttachedRows(chunk, attach) ==
    [n \in DOMAIN chunk |->
        IF n \in DOMAIN attach THEN [chunk[n] EXCEPT !.parent = attach[n][1]] ELSE chunk[n]]

bulkImport ==
    \E chunk \in Imports : \E attach \in AttachPoints(chunk) :
        /\ import = Idle
        /\ import' = [next |-> "nodes", rows |-> AttachedRows(chunk, attach),
                      attach |-> attach, left |-> DOMAIN attach]
        /\ UNCHANGED vars

Rows == import.rows

\* The containers exist.
HasContainers ==
    \A n \in DOMAIN import.attach : import.attach[n][1] \in DOMAIN parent

\* The query of the additional API: the ids below N, each with its depth.
getNodeTree(N, limit) == IF N = {} THEN {} ELSE TreeRows(N, limit)

(***************************************************************************)
(* The steps of storeNodes(), and the attaching of roots.                  *)
(***************************************************************************)
\* prepareInputStreamNodes(): the parents after the rows were added.
NodeRows == [n \in DOMAIN parent \union DOMAIN Rows |->
                IF n \in DOMAIN Rows THEN Rows[n].parent ELSE parent[n]]

\* The annotations are a column of the nodes.
AnnotationColumn == [k \in Ids \X Places |->
                        IF k[1] \in DOMAIN Rows /\ k[2] = Annotations
                        THEN Rows[k[1]].lists[k[2]] ELSE lists[k]]

\* prepareInputStreamContainments().
ContainmentRows == [k \in Ids \X Places |->
                        IF k[1] \in DOMAIN Rows /\ k[2] # Annotations
                        THEN Rows[k[1]].lists[k[2]] ELSE lists[k]]

\* OldNodesStay: nodes that exist are overwritten.
CopyNodes_Fault ==
    /\ import # Idle /\ import.next = "nodes"
    /\ parent' = NodeRows
    /\ lists' = AnnotationColumn
    /\ import' = [import EXCEPT !.next = "containments"]
    /\ UNCHANGED stray

\* ImportLeavesNothingDangling: the containments are copied before the nodes.
CopyNodes_Early_Fault ==
    /\ import # Idle /\ import.next = "nodes"
    /\ DOMAIN Rows \intersect DOMAIN parent = {}
    /\ lists' = [k \in Ids \X Places |->
                    IF k[1] \in DOMAIN Rows THEN Rows[k[1]].lists[k[2]] ELSE lists[k]]
    /\ import' = [import EXCEPT !.next = "containments"]
    /\ UNCHANGED <<parent, stray>>

CopyNodes ==
    /\ import # Idle /\ import.next = "nodes"
    /\ DOMAIN Rows \intersect DOMAIN parent = {}
    /\ parent' = NodeRows
    /\ lists' = AnnotationColumn
    /\ import' = [import EXCEPT !.next = "containments"]
    /\ UNCHANGED stray

\* An id that exists violates the primary key, and the whole COPY fails.
CopyNodesFails ==
    /\ import # Idle /\ import.next = "nodes"
    /\ DOMAIN Rows \intersect DOMAIN parent # {}
    /\ import' = Idle
    /\ UNCHANGED vars

CopyContainments ==
    /\ import # Idle /\ import.next = "containments"
    /\ lists' = ContainmentRows
    /\ import' = [import EXCEPT !.next = "attach"]
    /\ UNCHANGED <<parent, stray>>

\* TreeWhenIdle: the root comes first in the containment, for all there is.
AppendChild_Fault(k, n) == [lists EXCEPT ![k] = <<n>>]

\* makeQueryToAttachNode(), where the containment has a row.
AppendChild(k, n) == [lists EXCEPT ![k] = Append(@, n)]

\* The statement is an UPDATE.  A containment without children may have a row, which
\* then holds no children, or none, and then nothing happens: the root is not listed.
Attach ==
    /\ import # Idle /\ import.next = "attach"
    /\ \E n \in import.left :
        LET k == import.attach[n]
        IN  /\ \/ k[1] \in DOMAIN parent /\ lists' = AppendChild(k, n) /\ UNCHANGED stray
               \/ lists[k] = <<>> /\ UNCHANGED lists /\ stray' = TRUE
            /\ import' = [import EXCEPT !.left = @ \ {n}]
    /\ UNCHANGED parent

\* The request is answered.
Imported ==
    /\ import # Idle /\ import.next = "attach" /\ import.left = {}
    /\ import' = Idle
    /\ UNCHANGED vars

\* The process ends, or a statement fails: what was copied stays.
Interrupted ==
    /\ import # Idle
    /\ import' = Idle
    /\ stray' = (import.next # "nodes")
    /\ UNCHANGED tables

ImportInit == Init /\ import = Idle

ImportNext ==
    \/ /\ import = Idle
       /\ Next
       /\ UNCHANGED import
    \/ ~stray /\ bulkImport
    \/ CopyNodes \/ CopyNodesFails \/ CopyContainments \/ Attach \/ Imported
    \/ Interrupted

ImportSpec == ImportInit /\ [][ImportNext]_importVars

(***************************************************************************)
(* Properties.                                                             *)
(***************************************************************************)
\* TypeOK, and the type of the import.
ImportTypeOK ==
    /\ TypeOK
    /\ import = Idle
       \/ /\ import.next \in {"nodes", "containments", "attach"}
          /\ import.left \subseteq DOMAIN import.attach
          /\ DOMAIN import.attach \subseteq DOMAIN import.rows
          /\ import.next # "nodes" => DOMAIN import.rows \subseteq DOMAIN parent

\* StoresAsMeant, for all the trees that requests and imports leave.
StoresAsMeantWhenIdle == import = Idle => StoresAsMeant

\* RetrievesTrees, likewise; and the depths that the additional API tells are those
\* of the lists: the rows up to a depth are what a retrieve to that depth finds.
RetrievesTreesWhenIdle ==
    import = Idle =>
        /\ RetrievesTrees
        /\ ~stray => \A N \in SUBSET Ids, limit \in 0..Unlimited : \A depth \in 0..limit :
            {row[1] : row \in {r \in getNodeTree(N, limit) : r[2] <= depth}} = Reached(N, depth)

\* Requests and imports, in any order, leave the parent columns and the lists
\* telling of the same trees; but for stray requests, imports that are interrupted
\* and those of which a root was attached to a containment without a row.
TreeWhenIdle == import = Idle => ProperTree

\* At every moment of an import whose containers exist, and after it was
\* interrupted at any moment, no list names a node that does not exist and no
\* parent is missing: readers that come after a crash do not fail.
NothingDangling ==
    /\ \A n \in Ids : Listed(lists, n) # {} => n \in DOMAIN parent /\ Listed(lists, n) \subseteq DOMAIN parent
    /\ \A n \in DOMAIN parent : parent[n] \in DOMAIN parent \union {None}

ImportLeavesNothingDangling ==
    [][import # Idle /\ HasContainers /\ NothingDangling => NothingDangling']_importVars

\* An import, complete or interrupted, changes nothing of the nodes that were there
\* but for children it adds at the end of a containment.
OldNodesStay ==
    [][import # Idle =>
        \A n \in DOMAIN parent \ (IF import.next = "nodes" THEN {} ELSE DOMAIN Rows) :
            /\ n \in DOMAIN parent' /\ parent'[n] = parent[n]
            /\ \A k \in Places : IsPrefix(lists[<<n, k>>], lists'[<<n, k>>])]_importVars

\* "For each tree the point to which it should be attached should be specified as the
\* pair composed by: a) ID of an existing node, b) containment where to attach the tree.
\* The root of the tree will be appended to that containment." (AdditionalApi.ts)
ImportAttached ==
    [][Imported /\ HasContainers =>
        \A n \in DOMAIN import.attach : n \in ToSet(lists[import.attach[n]])]_importVars
================================================================================
