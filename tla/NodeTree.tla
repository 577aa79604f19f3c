-------------------------------- MODULE NodeTree --------------------------------
(***************************************************************************)
(* What the delta commands on partitions, children and annotations do to   *)
(* the tables of a repository (packages/delta-server/src/delta/commands/   *)
(* ChildCommands.ts, AnnotationCommands.ts, PartitionCommands.ts, the      *)
(* checks in Validations.ts, DbChanges.ts and the SQL in                   *)
(* packages/common/src/queries).                                           *)
(*                                                                         *)
(* A step is the transaction of one command.  A command that is refused,   *)
(* or whose transaction fails, changes nothing and is no step here; what   *)
(* its client gets is module DeltaServer.  Properties, references and      *)
(* classifiers are left out: only deleting a node touches them here, and   *)
(* takes them with it.                                                     *)
(*                                                                         *)
(* The server holds a tree in two forms: every node has a parent column,   *)
(* and the parent lists it in a containment row or in its annotations      *)
(* column.  The commands find subtrees by the first form and places by the *)
(* second, and have to change both.                                        *)
(*                                                                         *)
(* The handlers check indexes and entries, and not that a move leads to    *)
(* another place outside the node it moves.  A stray command is one that   *)
(* makes no sense as a change of a tree, sent by a client that did not     *)
(* know of another client's command, or one of the two kinds that do not   *)
(* keep the tree (MoveChildInSameContainmentInSameParent and               *)
(* MoveAnnotationFromOtherParent).  A behaviour ends with a stray command. *)
(*                                                                         *)
(* An operator X_Fault is X with one plausible mistake, which the property *)
(* named beside it must notice.                                            *)
(***************************************************************************)
EXTENDS Integers, FiniteSets, Functions, Sequences, Overlay

CONSTANTS
    Ids,                 \* the ids of nodes
    Containments,        \* the metapointers of containments
    Annotations,         \* stands for the annotations beside the containments
    None,                \* null
    MaxList              \* bound: length of a list of children or annotations

ASSUME NoneAssumption == None \notin Ids
ASSUME AnnotationsAssumption == Annotations \notin Containments

VARIABLES
    nodes,               \* table lionweb_nodes: the row of each id
    containments,        \* table lionweb_containments: the children of each row
    event,               \* what the last command reported: the partition it names,
                         \* and whether it moved a node between partitions
    stray                \* whether the last command was a stray one

vars == <<nodes, containments, event, stray>>

(***************************************************************************)
(* JavaScript's lists: s.splice(start, n, ...items) and s[i] = x.          *)
(***************************************************************************)
Splice(s, start, n, items) ==
    LET len == Len(s)
        from == CASE start >= 0 /\ start <= len -> start
                  [] start > len -> len
                  [] start < 0 /\ len + start >= 0 -> len + start
                  [] OTHER -> 0
    IN  SubSeq(s, 1, from) \o items \o SubSeq(s, from + n + 1, len)

HasAt(s, i, x) == i \in 0..Len(s) - 1 /\ s[i + 1] = x

(***************************************************************************)
(* Queries.                                                                *)
(***************************************************************************)
\* The children of a containment; a containment without a row has none.
children(p, c) ==
    IF <<p, c>> \in DOMAIN containments THEN containments[<<p, c>>] ELSE <<>>

ChildrenOf(X) == {n \in DOMAIN nodes : nodes[n].parent \in X}

\* NoDanglingRows: the query is not recursive.
Subtree_Fault(n) == ({n} \intersect DOMAIN nodes) \union ChildrenOf({n})

\* DB_retrieveNodeTree(): n and all nodes below it, by the parent columns.
Subtree(n) ==
    {m \in DOMAIN nodes : \A X \in SUBSET DOMAIN nodes :
        ({n} \intersect DOMAIN nodes) \union ChildrenOf(X) \subseteq X => m \in X}

\* The query counts the depth, so it ends only where no node is below itself.
QueryEnds(n) == \A m \in Subtree(n) : nodes[m].parent \notin Subtree(m)

\* ToldPartition: the parent of n and not the end of its chain of parents.
PartitionOf_Fault(n) ==
    IF n \notin DOMAIN nodes \/ nodes[n].parent = None THEN n ELSE nodes[n].parent

\* DB_affectedPartition(): the last node of the chain of parents of n.
PartitionOf(n) ==
    LET up[i \in 0..Cardinality(DOMAIN nodes)] ==
            IF i = 0 THEN n
            ELSE LET p == IF up[i - 1] \in DOMAIN nodes THEN nodes[up[i - 1]].parent ELSE None
                 IN  IF p \in DOMAIN nodes /\ \A j \in 0..i - 1 : up[j] # p
                     THEN p ELSE up[i - 1]
    IN  up[Cardinality(DOMAIN nodes)]

(***************************************************************************)
(* Statements.  They are applied in this order: inserted nodes, deleted    *)
(* nodes, updates of nodes, updates of containments.                       *)
(***************************************************************************)
\* SQL_deleteFullNodes().
Deleted(X) == Restrict(nodes, DOMAIN nodes \ X)

DeletedLists(X) == Restrict(containments, {k \in DOMAIN containments : k[1] \notin X})

\* An UPDATE of a row that is not there has no effect.
WithParent(table, n, p) ==
    [m \in DOMAIN table |->
        IF m = n THEN [table[m] EXCEPT !.parent = p] ELSE table[m]]

WithAnnotations(table, n, list) ==
    [m \in DOMAIN table |->
        IF m = n THEN [table[m] EXCEPT !.annotations = list] ELSE table[m]]

\* TypeOK: a containment that loses its last child keeps its row.
Updated_Fault(table, new) ==
    [k \in DOMAIN table |-> IF k \in DOMAIN new THEN new[k] ELSE table[k]]

\* FeatureMissing.NotMissing: new[k] are the children of containment k now; a
\* containment without children loses its row.
Updated(table, new) ==
    [k \in DOMAIN table \ {j \in DOMAIN new : new[j] = <<>>} |->
        IF k \in DOMAIN new THEN new[k] ELSE table[k]]

\* FeatureMissing.MissingBefore where there is no row.
Stored(table, new) == Updated(Over(new, table), new)

\* The transaction of a command.
Execute(table, lists, sensible) ==
    /\ nodes' = table
    /\ containments' = lists
    /\ stray' = ~sensible
    /\ \A n \in DOMAIN table : Len(table[n].annotations) <= MaxList
    /\ \A k \in DOMAIN lists : Len(lists[k]) <= MaxList

\* The event names the partition of p; q is the other parent concerned.
Tells(p, q) ==
    event' = [partition |-> PartitionOf(p)',
              crossed |-> PartitionOf(p)' # PartitionOf(q)']

(***************************************************************************)
(* The chunks of nodes that commands bring: a node, alone or with a child  *)
(* or an annotation.  validateProperTree() refuses a chunk that is not one *)
(* tree below `parent', and an id that exists already is refused.          *)
(***************************************************************************)
Row(parent, annotations) == [parent |-> parent, annotations |-> annotations]

NewTrees(parent) ==
    LET new == Ids \ DOMAIN nodes
        pairs == {p \in new \X new : p[1] # p[2]}
    IN  {[root |-> a, rows |-> Only(a, Row(parent, <<>>)), lists |-> <<>>] : a \in new}
        \union (UNION {{[root |-> p[1],
                         rows |-> Over(Only(p[1], Row(parent, <<>>)), Only(p[2], Row(p[1], <<>>))),
                         lists |-> Only(<<p[1], c>>, <<p[2]>>)] : p \in pairs} : c \in Containments})
        \union {[root |-> p[1],
                 rows |-> Over(Only(p[1], Row(parent, <<p[2]>>)), Only(p[2], Row(p[1], <<>>))),
                 lists |-> <<>>] : p \in pairs}

(***************************************************************************)
(* Partitions.                                                             *)
(***************************************************************************)
AddPartition ==
    \E chunk \in NewTrees(None) :
        /\ Execute(Over(chunk.rows, nodes), Over(chunk.lists, containments), TRUE)
        /\ Tells(chunk.root, chunk.root)

\* Deletes any node: that it is a partition is not checked.
DeletePartition ==
    \E n \in DOMAIN nodes :
        /\ QueryEnds(n)
        /\ Execute(Deleted(Subtree(n)), DeletedLists(Subtree(n)), nodes[n].parent = None)
        /\ event' = [partition |-> n, crossed |-> FALSE]

(***************************************************************************)
(* Children.  An index is counted from 0.                                  *)
(***************************************************************************)
\* The lists that result when x leaves place i of list k and comes to place j of
\* list l, where it replaces n nodes.  The two may be the same list.
Moved(x, k, i, l, j, n) ==
    LET now == [m \in {k, l} |-> children(m[1], m[2])]
        come == [now EXCEPT ![l] = Splice(@, j, n, <<x>>)]
    IN  [come EXCEPT ![k] = Splice(@, i, 1, <<>>)]

\* validateContainment(..., "Add") accepts every index up to the length.
AddPlaces(p, c) == 0..Len(children(p, c))

AddChild ==
    \E p \in DOMAIN nodes, c \in Containments :
    \E chunk \in NewTrees(p), i \in AddPlaces(p, c) :
        /\ Execute(Over(chunk.rows, nodes),
                   Stored(Over(chunk.lists, containments),
                          Only(<<p, c>>, Splice(children(p, c), i, 0, <<chunk.root>>))),
                   TRUE)
        /\ Tells(p, p)

DeleteChild ==
    \E p, x \in DOMAIN nodes, c \in Containments, i \in 0..MaxList - 1 :
        /\ HasAt(children(p, c), i, x)
        /\ QueryEnds(x)
        /\ Execute(Deleted(Subtree(x)),
                   Updated(DeletedLists(Subtree(x)),
                           Only(<<p, c>>, Splice(children(p, c), i, 1, <<>>))),
                   TRUE)
        /\ Tells(p, p)

\* ImplementsModelTree: the new child comes last and not to the index.
ReplaceChild_Fault ==
    \E p \in DOMAIN nodes, x \in Ids, c \in Containments, i \in 0..MaxList - 1 :
    \E chunk \in NewTrees(p) :
        /\ HasAt(children(p, c), i, x)
        /\ QueryEnds(x)
        /\ Execute(Over(chunk.rows, Deleted(Subtree(x))),
                   Updated(Over(chunk.lists, DeletedLists(Subtree(x))),
                           Only(<<p, c>>, Splice(children(p, c), i, 1, <<>>) \o <<chunk.root>>)),
                   TRUE)
        /\ Tells(p, p)

ReplaceChild ==
    \E p \in DOMAIN nodes, x \in Ids, c \in Containments, i \in 0..MaxList - 1 :
    \E chunk \in NewTrees(p) :
        /\ HasAt(children(p, c), i, x)
        /\ QueryEnds(x)
        /\ Execute(Over(chunk.rows, Deleted(Subtree(x))),
                   Updated(Over(chunk.lists, DeletedLists(Subtree(x))),
                           Only(<<p, c>>, Splice(children(p, c), i, 1, <<chunk.root>>))),
                   TRUE)
        /\ Tells(p, p)

\* validateParents(), validateHaveTheSameParents() and
\* validateDifferentContainments(), which refuses the same metapointer also in
\* another parent.
MayMove(x, old, new, c, d) == nodes[x].parent = old /\ old # new /\ c # d

\* ProperTree: the parent column of the moved node is not updated.
MoveChildFromContainmentInOtherParent_Fault ==
    \E old, new, x \in DOMAIN nodes, c, d \in Containments, i \in 0..MaxList - 1 :
    \E j \in AddPlaces(new, d) :
        /\ HasAt(children(old, c), i, x)
        /\ MayMove(x, old, new, c, d)
        /\ Execute(nodes, Stored(containments, Moved(x, <<old, c>>, i, <<new, d>>, j, 0)),
                   new \notin Subtree(x))
        /\ Tells(old, new)

MoveChildFromContainmentInOtherParent ==
    \E old, new, x \in DOMAIN nodes, c, d \in Containments, i \in 0..MaxList - 1 :
    \E j \in AddPlaces(new, d) :
        /\ HasAt(children(old, c), i, x)
        /\ MayMove(x, old, new, c, d)
        /\ Execute(WithParent(nodes, x, new),
                   Stored(containments, Moved(x, <<old, c>>, i, <<new, d>>, j, 0)),
                   new \notin Subtree(x))
        /\ Tells(old, new)

\* That the containments differ is not checked.
MoveChildFromOtherContainmentInSameParent ==
    \E p, x \in DOMAIN nodes, c, d \in Containments, i \in 0..MaxList - 1 :
    \E j \in AddPlaces(p, d) :
        /\ HasAt(children(p, c), i, x)
        /\ Execute(nodes, Stored(containments, Moved(x, <<p, c>>, i, <<p, d>>, j, 0)),
                   c # d)
        /\ Tells(p, p)

\* The node is inserted at its new place and stays at the old one.
MoveChildInSameContainmentInSameParent ==
    \E p, x \in DOMAIN nodes, c \in Containments, i \in 0..MaxList - 1, offset \in -1..1 :
        /\ HasAt(children(p, c), i, x)
        /\ Execute(nodes,
                   Updated(containments,
                           Only(<<p, c>>, Splice(children(p, c), i + offset, 0, <<x>>))),
                   FALSE)
        /\ Tells(p, p)

MoveAndReplaceChildFromContainmentInOtherParent ==
    \E old, new, x, y \in DOMAIN nodes, c, d \in Containments, i, j \in 0..MaxList - 1 :
        /\ HasAt(children(old, c), i, x)
        /\ HasAt(children(new, d), j, y)
        /\ QueryEnds(y)
        /\ Execute(WithParent(Deleted(Subtree(y)), x, new),
                   Updated(DeletedLists(Subtree(y)),
                           Moved(x, <<old, c>>, i, <<new, d>>, j, 1)),
                   x \notin Subtree(y) /\ new \notin Subtree(x))
        /\ Tells(old, new)

MoveAndReplaceChildFromOtherContainmentInSameParent ==
    \E p, x, y \in DOMAIN nodes, c, d \in Containments, i, j \in 0..MaxList - 1 :
        /\ HasAt(children(p, c), i, x)
        /\ HasAt(children(p, d), j, y)
        /\ QueryEnds(y)
        /\ Execute(Deleted(Subtree(y)),
                   Updated(DeletedLists(Subtree(y)), Moved(x, <<p, c>>, i, <<p, d>>, j, 1)),
                   x # y)
        /\ Tells(p, p)

\* The list s when x at i replaces the node that is `offset' places further.
MovedAndReplaced(s, i, offset, x) ==
    Splice(Splice(s, i, 1, <<>>),
           IF offset < 0 THEN i + offset ELSE i + offset - 1, 1, <<x>>)

MoveAndReplaceChildInSameContainmentInSameParent ==
    \E p, x, y \in DOMAIN nodes, c \in Containments, i, j \in 0..MaxList - 1 :
        /\ HasAt(children(p, c), i, x)
        /\ HasAt(children(p, c), j, y)
        /\ QueryEnds(y)
        /\ Execute(Deleted(Subtree(y)),
                   Updated(DeletedLists(Subtree(y)),
                           Only(<<p, c>>, MovedAndReplaced(children(p, c), i, j - i, x))),
                   x # y)
        /\ Tells(p, p)

(***************************************************************************)
(* Annotations.                                                            *)
(***************************************************************************)
annotations(p) == nodes[p].annotations

\* The index is not checked; splice() takes one that is too large as the end.
AddAnnotation ==
    \E p \in DOMAIN nodes, i \in 0..MaxList :
    \E chunk \in NewTrees(p) :
        /\ Execute(WithAnnotations(Over(chunk.rows, nodes), p,
                                   Splice(annotations(p), i, 0, <<chunk.root>>)),
                   Over(chunk.lists, containments), TRUE)
        /\ Tells(p, p)

DeleteAnnotation ==
    \E p, x \in DOMAIN nodes, i \in 0..MaxList - 1 :
        /\ HasAt(annotations(p), i, x)
        /\ QueryEnds(x)
        /\ Execute(WithAnnotations(Deleted(Subtree(x)), p, Splice(annotations(p), i, 1, <<>>)),
                   DeletedLists(Subtree(x)), TRUE)
        /\ Tells(p, p)

ReplaceAnnotation ==
    \E p \in DOMAIN nodes, x \in Ids, i \in 0..MaxList - 1 :
    \E chunk \in NewTrees(p) :
        /\ HasAt(annotations(p), i, x)
        /\ QueryEnds(x)
        /\ Execute(WithAnnotations(Over(chunk.rows, Deleted(Subtree(x))), p,
                                   Splice(annotations(p), i, 1, <<chunk.root>>)),
                   Over(chunk.lists, DeletedLists(Subtree(x))), TRUE)
        /\ Tells(p, p)

\* Both annotation columns are updated, the parent column is not.
MoveAnnotationFromOtherParent ==
    \E old, new \in DOMAIN nodes, x \in Ids, i \in 0..MaxList - 1 :
    \E j \in 0..Len(annotations(new)) :
        /\ HasAt(annotations(old), i, x)
        /\ Execute(WithAnnotations(
                       WithAnnotations(nodes, old, Splice(annotations(old), i, 1, <<>>)),
                       new, Splice(annotations(new), j, 0, <<x>>)),
                   containments, FALSE)
        /\ Tells(old, new)

\* A negative new index is not refused; splice() counts it from the end.
MoveAnnotationInSameParent ==
    \E p \in DOMAIN nodes, x \in Ids, i \in 0..MaxList - 1 :
    \E j \in -1..Len(annotations(p)) :
        /\ HasAt(annotations(p), i, x)
        /\ Execute(WithAnnotations(nodes, p,
                       Splice(Splice(annotations(p), i, 1, <<>>), j, 0, <<x>>)),
                   containments, TRUE)
        /\ Tells(p, p)

\* The update of the new parent comes last: with one parent, it is the only one.
MoveAndReplaceAnnotationFromOtherParent ==
    \E old, new, x \in DOMAIN nodes, y \in Ids, i, j \in 0..MaxList - 1 :
        /\ HasAt(annotations(old), i, x)
        /\ HasAt(annotations(new), j, y)
        /\ QueryEnds(y)
        /\ Execute(WithAnnotations(
                       WithAnnotations(
                           WithParent(Deleted(Subtree(y)), x, new),
                           old, Splice(annotations(old), i, 1, <<>>)),
                       new, Splice(annotations(new), j, 1, <<x>>)),
                   DeletedLists(Subtree(y)),
                   old # new /\ x \notin Subtree(y) /\ new \notin Subtree(x))
        /\ Tells(old, new)

MoveAndReplaceAnnotationInSameParent ==
    \E p \in DOMAIN nodes, x, y \in Ids, i, j \in 0..MaxList - 1 :
        /\ HasAt(annotations(p), i, x)
        /\ HasAt(annotations(p), j, y)
        /\ QueryEnds(y)
        /\ Execute(WithAnnotations(Deleted(Subtree(y)), p,
                                   MovedAndReplaced(annotations(p), i, j - i, x)),
                   DeletedLists(Subtree(y)), x # y)
        /\ Tells(p, p)

(***************************************************************************)
(* The specification.                                                      *)
(***************************************************************************)
Init ==
    /\ nodes = <<>>
    /\ containments = <<>>
    /\ event = [partition |-> None, crossed |-> FALSE]
    /\ stray = FALSE

Next ==
    /\ ~stray
    /\ \/ AddPartition \/ DeletePartition
       \/ AddChild \/ DeleteChild \/ ReplaceChild
       \/ MoveChildFromContainmentInOtherParent
       \/ MoveChildFromOtherContainmentInSameParent
       \/ MoveChildInSameContainmentInSameParent
       \/ MoveAndReplaceChildFromContainmentInOtherParent
       \/ MoveAndReplaceChildFromOtherContainmentInSameParent
       \/ MoveAndReplaceChildInSameContainmentInSameParent
       \/ AddAnnotation \/ DeleteAnnotation \/ ReplaceAnnotation
       \/ MoveAnnotationFromOtherParent
       \/ MoveAnnotationInSameParent
       \/ MoveAndReplaceAnnotationFromOtherParent
       \/ MoveAndReplaceAnnotationInSameParent

Spec == Init /\ [][Next]_vars

(***************************************************************************)
(* Properties.                                                             *)
(***************************************************************************)
NodeRow == [parent : Ids \union {None}, annotations : Seq(Ids)]

\* The types of the variables; no containment row is without children.
TypeOK ==
    /\ DOMAIN nodes \subseteq Ids
    /\ \A n \in DOMAIN nodes : nodes[n] \in NodeRow
    /\ DOMAIN containments \subseteq Ids \X Containments
    /\ \A k \in DOMAIN containments : containments[k] \in Seq(Ids) \ {<<>>}
    /\ event \in [partition : Ids \union {None}, crossed : BOOLEAN]
    /\ stray \in BOOLEAN

\* A command leaves no row of a node that is gone, not even a stray command: the
\* parent of a node exists, and so does the node of a containment.
NoDanglingRows ==
    /\ \A n \in DOMAIN nodes : nodes[n].parent \in DOMAIN nodes \union {None}
    /\ \A k \in DOMAIN containments : k[1] \in DOMAIN nodes

\* The lists that clients see.
lists ==
    [n \in DOMAIN nodes |->
        [s \in Containments \union {Annotations} |->
            IF s = Annotations THEN annotations(n) ELSE children(n, s)]]

Model == INSTANCE ModelTree WITH Slots <- Containments \union {Annotations}, lists <- lists

\* The places that list x, in containments and annotations.
Mentions(x) == {place \in Model!Places(lists) : Model!NodeAt(lists, place) = x}

\* The two forms of the tree agree: a node that has a parent is listed by its
\* parent and nobody else, in one place; a partition is not listed; no list
\* names a node that does not exist; and every node is below a partition.
Tree ==
    /\ \A x \in DOMAIN nodes :
        /\ Cardinality(Mentions(x)) = IF nodes[x].parent = None THEN 0 ELSE 1
        /\ \A m \in Mentions(x) : m.node = nodes[x].parent
        /\ QueryEnds(x)
    /\ \A x \in Ids \ DOMAIN nodes : Mentions(x) = {}

\* The commands keep the tree, in every order and combination: subtrees that
\* are deleted, replaced or reported by the parent column are those that
\* clients see in the lists.
ProperTree == ~stray => Tree

Partitions == {x \in DOMAIN nodes : nodes[x].parent = None}

Contents(x) ==
    [n \in Subtree(x) |-> <<nodes[n], [c \in Containments |-> children(n, c)]>>]

\* A command changes no partition but the one its event names, whose subscribers
\* are the clients that are told of it; unless it moves a node from one
\* partition to another.
ToldPartition ==
    [][~stray' /\ ~event'.crossed =>
        \A x \in Ids \ {event'.partition} :
            /\ x \in Partitions <=> x \in Partitions'
            /\ x \in Partitions => Contents(x)' = Contents(x)]_vars

\* Every command changes the lists as its name says, and nothing else.
ImplementsModelTree == [][~stray' => Model!Next]_lists

\* MoveChildInSameContainmentInSameParent moves the child: the test that sends it
\* expects the repository to hold what its own model holds after the move
\* (MoveChildInSameContainmentInSameParent.test.ts).
MovesWithinContainment ==
    [][MoveChildInSameContainmentInSameParent => Model!Move]_vars

\* "Annotations are also considered children [...] This works ok because we use
\* the _parent_ column to find the children" (RetrieveNodes.ts): an annotation
\* that moves to another parent is found below that parent, and not below the old
\* one, whose deletion would take it along.
MovesAnnotation ==
    [][MoveAnnotationFromOtherParent /\ Model!Move => Tree']_vars
================================================================================
