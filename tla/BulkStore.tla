--------------------------------- MODULE BulkStore --------------------------------
(***************************************************************************)
(* The bulk API on the tables of a repository without history              *)
(* (packages/bulkapi/src/controllers/BulkApi.ts, BulkApiWorker.ts and      *)
(* database/LionWebQueries.ts).                                            *)
(*                                                                         *)
(* A request is one transaction and one step; a request that is refused, or*)
(* throws, changes nothing and is no step.  The interesting request is     *)
(* store: its client sends a chunk, some nodes as they should be from now  *)
(* on, and says nothing of the other nodes that this concerns: those that  *)
(* lose a child to the chunk, that the chunk takes from their parent, or   *)
(* that nobody lists any longer.  The code compares the chunk with the     *)
(* nodes it holds and derives the changes of the other nodes.              *)
(*                                                                         *)
(* Properties and references are left out: they belong to one node, and    *)
(* are replaced with it.  A list that is empty stands for a containment    *)
(* without children, with a row or without.  Reserved ids, the version     *)
(* counter, which every store raises, and the classifiers of nodes, of     *)
(* which a store ignores changes, are not modelled.                        *)
(*                                                                         *)
(* Merged says what a chunk means, and Coherent when it means a tree.  For *)
(* some coherent chunks the code does something else; they are named below *)
(* (see Mistreated).  A behaviour ends with such a request, and with one   *)
(* whose chunk is not coherent.                                            *)
(*                                                                         *)
(* An operator X_Fault is X with one plausible mistake, which the property *)
(* named beside it must notice.                                            *)
(***************************************************************************)
EXTENDS Integers, FiniteSets, Functions, SequencesExt

CONSTANTS
    Ids,                 \* the ids of nodes
    AnnotationIds,       \* those of them that are used for annotations
    Containments,        \* the metapointers of containments
    Annotations,         \* stands for the annotations beside the containments
    None                 \* null

ASSUME IdsAssumption == IsFiniteSet(Ids) /\ AnnotationIds \subseteq Ids /\ None \notin Ids
ASSUME PlacesAssumption == Annotations \notin Containments

VARIABLES
    parent,              \* table lionweb_nodes: the parent of each node
    lists,               \* its annotations, and table lionweb_containments
    stray                \* whether the last request is one that ends the behaviour

tables == <<parent, lists>>
vars == <<parent, lists, stray>>

Places == Containments \union {Annotations}

NoLists == [k \in Ids \X Places |-> <<>>]

\* The items of a list that are in S, in their order.
Filtered(s, S) ==
    LET kept[i \in 0..Len(s)] ==
            IF i = 0 THEN <<>> ELSE IF s[i] \in S THEN Append(kept[i - 1], s[i]) ELSE kept[i - 1]
    IN  kept[Len(s)]

(***************************************************************************)
(* Forests, and the chunks that are parts of one.                          *)
(***************************************************************************)
Listed(l, n) == UNION {ToSet(l[<<n, k>>]) : k \in Places}

\* n and what is below it by the lists l.
Below(l, N) ==
    {m \in Ids : \A S \in SUBSET Ids :
        (N \subseteq S /\ \A n \in S : Listed(l, n) \subseteq S) => m \in S}

Roots(p) == {n \in DOMAIN p : p[n] = None}

\* Node n lists x at one place, and once there.
ListsOnce(l, n, x) ==
    \E k \in Places : \E i \in DOMAIN l[<<n, k>>] :
        \A j \in Places : \A h \in DOMAIN l[<<n, j>>] : l[<<n, j>>][h] = x <=> j = k /\ h = i

\* The parents and the lists tell of the same trees.
IsForest(p, l) ==
    /\ Below(l, Roots(p)) = DOMAIN p
    /\ \A n \in Ids, x \in Ids : x \in Listed(l, n) => n \in DOMAIN p /\ x \in DOMAIN p /\ p[x] = n
    /\ \A n \in DOMAIN p \ Roots(p) : ListsOnce(l, p[n], n)

\* Where node x can be: an annotation among annotations, another node elsewhere.
PlacesFor(x) == IF x \in AnnotationIds THEN {Annotations} ELSE Containments

\* The forests of the nodes N: each node is told its place, and siblings are
\* ordered as in s.
ForestsOf(N) ==
    LET homes == [N -> {<<None, None>>} \union (N \X Places)]
        at == {h \in homes : \A x \in N :
                h[x][1] # x /\ IF h[x][1] = None THEN x \notin AnnotationIds
                               ELSE h[x][2] \in PlacesFor(x)}
        forest(h, s) == [parent |-> [x \in N |-> h[x][1]],
                         lists |-> [k \in Ids \X Places |-> Filtered(s, {x \in N : h[x] = k})]]
    IN  {f \in UNION {{forest(h, s) : s \in SetToSeqs(N)} : h \in at} : IsForest(f.parent, f.lists)}

Forests == UNION {ForestsOf(N) : N \in SUBSET Ids}

\* LionWebValidator refuses a chunk that is not a part of a forest.
Part(f, N) == [n \in N |-> [parent |-> f.parent[n], lists |-> [k \in Places |-> f.lists[<<n, k>>]]]]

Chunks == UNION {{Part(f, N) : N \in SUBSET DOMAIN f.parent \ {{}}} : f \in Forests}

ListedIn(chunk) == UNION {UNION {ToSet(chunk[n].lists[k]) : k \in Places} : n \in DOMAIN chunk}

(***************************************************************************)
(* What a chunk means: its nodes are as it says; a node that it lists is   *)
(* where it says and nowhere else; what is no longer below a partition is  *)
(* gone.                                                                   *)
(***************************************************************************)
MeantLists(chunk) ==
    [k \in Ids \X Places |->
        IF k[1] \in DOMAIN chunk THEN chunk[k[1]].lists[k[2]]
        ELSE Filtered(lists[k], Ids \ ListedIn(chunk))]

MeantParents(chunk) ==
    LET lister(x) == CHOOSE n \in DOMAIN chunk : \E k \in Places : x \in ToSet(chunk[n].lists[k])
    IN  [x \in DOMAIN parent \union DOMAIN chunk |->
            CASE x \in DOMAIN chunk -> chunk[x].parent
              [] x \notin DOMAIN chunk /\ x \in ListedIn(chunk) -> lister(x)
              [] OTHER -> parent[x]]

Merged(chunk) ==
    LET l == MeantLists(chunk)
        p == MeantParents(chunk)
        kept == Below(l, Roots(p))
    IN  [parent |-> Restrict(p, kept \intersect DOMAIN p),
         lists |-> [k \in Ids \X Places |-> IF k[1] \in kept THEN l[k] ELSE <<>>]]

Coherent(chunk) ==
    LET m == Merged(chunk)
    IN  DOMAIN chunk \subseteq DOMAIN m.parent /\ IsForest(m.parent, m.lists)

(***************************************************************************)
(* Queries.  What is below a node is found by the parent column.           *)
(***************************************************************************)
\* RetrievesTrees: one level too many.
TreeRows_Fault(N, limit) ==
    LET level[d \in 0..limit + 1] ==
            IF d = 0 THEN N \intersect DOMAIN parent
            ELSE {m \in DOMAIN parent : parent[m] \in level[d - 1]}
    IN  UNION {level[d] \X {d} : d \in 0..limit + 1}

\* SQL_retrieveNodeTreeForIdList(): the nodes, and those up to limit levels below
\* them, each with its depth.
TreeRows(N, limit) ==
    LET level[d \in 0..limit] ==
            IF d = 0 THEN N \intersect DOMAIN parent
            ELSE {m \in DOMAIN parent : parent[m] \in level[d - 1]}
    IN  UNION {level[d] \X {d} : d \in 0..limit}

\* UNLIMITED_DEPTH: a tree is not deeper.
Unlimited == Cardinality(Ids)

Subtree(N) == {row[1] : row \in TreeRows(N, Unlimited)}

\* SQL_retrieveFullNodesFromQuery().
FullNodes(N) == [n \in N |-> [parent |-> parent[n], lists |-> [k \in Places |-> lists[<<n, k>>]]]]

retrieve(N, limit) == FullNodes({row[1] : row \in TreeRows(N, limit)})

listPartitions == FullNodes(Roots(parent))

(***************************************************************************)
(* store: what the code finds out about a chunk.                           *)
(***************************************************************************)
\* Pairs <<n, x>> where x is in a list of node n in a and not in the same one in b.
Differs(N, K, a, b) ==
    {pair \in N \X Ids :
        \E k \in K : pair[2] \in ToSet(a[<<pair[1], k>>]) \ ToSet(b[<<pair[1], k>>])}

\* LionWebJsonDiff on the nodes of the chunk that exist; a new node is one change,
\* and its children are none.
Diff(chunk) ==
    LET old == DOMAIN chunk \intersect DOMAIN parent
        new == DOMAIN chunk \ DOMAIN parent
        now == lists
        then == [k \in (DOMAIN chunk) \X Places |-> chunk[k[1]].lists[k[2]]]
    IN  [old |-> old,
         new |-> new,
         childAdded |-> Differs(old, Containments, then, now),
         childRemoved |-> Differs(old, Containments, now, then),
         annotationAdded |-> Differs(old, {Annotations}, then, now),
         annotationRemoved |-> Differs(old, {Annotations}, now, then),
         parentChanged |-> {n \in old : chunk[n].parent # parent[n]},
         \* databaseChildrenOfNewNodes
         underNew |-> {x \in DOMAIN parent : \E n \in new, k \in Places : x \in ToSet(chunk[n].lists[k])}]

Nodes(pairs) == {pair[2] : pair \in pairs}

\* removedAndNotAddedChildren with all below them, but for the nodes that the
\* chunk lists elsewhere; and removedAndNotAddedAnnotations.
Orphans(d) ==
    LET rescued == Nodes(d.childAdded) \union d.underNew
    IN  (Subtree(Nodes(d.childRemoved) \ rescued) \ rescued)
        \union (Nodes(d.annotationRemoved) \ (Nodes(d.annotationAdded) \union d.underNew))

\* implicitlyRemovedChildNodes: the chunk takes them from a parent that it does
\* not hold.
Taken(d) == (Nodes(d.childAdded) \ Nodes(d.childRemoved)) \intersect DOMAIN parent

\* The containments that lose a child to the chunk.
Losers(d) == {k \in Ids \X Containments : ToSet(lists[k]) \intersect Taken(d) # {}}

\* dbCommandsForImplicitlyRemovedChildNodes() takes the first of the parents for
\* every child, and throws when that one does not list it.
HaveOneParent(T) ==
    \E q \in Ids : \A x \in T : parent[x] = q /\ \E k \in Containments : x \in ToSet(lists[<<q, k>>])

\* Whether the request gets to its statements: a new node needs a parent; a child
\* that is not in the chunk must exist.
Accepted(chunk) ==
    LET d == Diff(chunk)
    IN  /\ \A n \in d.new : chunk[n].parent # None
        /\ Nodes(d.childAdded) \subseteq DOMAIN parent \union d.new
        /\ Taken(d) = {} \/ HaveOneParent(Taken(d))

(***************************************************************************)
(* store: the statements.  They update nodes and containments, delete the  *)
(* orphans and insert the new nodes.  Of several updates of a containment  *)
(* only the first is made: `first' tells which of the taken children.      *)
(***************************************************************************)
Firsts(chunk) ==
    LET d == Diff(chunk)
    IN  {f \in [Losers(d) -> Taken(d)] : \A k \in Losers(d) : f[k] \in ToSet(lists[k])}

\* StoresAsMeant: the parent of a child that is not in the chunk stays.
ParentsAfter_Fault(chunk, d) ==
    [n \in DOMAIN parent |-> IF n \in d.parentChanged THEN chunk[n].parent ELSE parent[n]]

\* ParentChanged, and makeQueriesForImplicitParentChanged().
ParentsAfter(chunk, d) ==
    [n \in DOMAIN parent |->
        CASE n \in d.parentChanged -> chunk[n].parent
          [] n \notin d.parentChanged /\ n \in Nodes(d.childAdded) ->
                (CHOOSE pair \in d.childAdded : pair[2] = n)[1]
          [] OTHER -> parent[n]]

ListsAfter(chunk, d, first) ==
    [k \in Ids \X Places |->
        CASE k[1] \in d.old -> chunk[k[1]].lists[k[2]]
          [] k[1] \notin d.old /\ k \in DOMAIN first -> Filtered(lists[k], Ids \ {first[k]})
          [] OTHER -> lists[k]]

After(chunk, first) ==
    LET d == Diff(chunk)
        gone == Orphans(d)
        p == ParentsAfter(chunk, d)
        l == ListsAfter(chunk, d, first)
    IN  [parent |-> [n \in (DOMAIN parent \ gone) \union d.new |->
                        IF n \in d.new THEN chunk[n].parent ELSE p[n]],
         lists |-> [k \in Ids \X Places |->
                        CASE k[1] \in d.new -> chunk[k[1]].lists[k[2]]
                          [] k[1] \in gone \ d.new -> <<>>
                          [] OTHER -> l[k]]]

(***************************************************************************)
(* Coherent chunks that the code does not treat as they are meant.         *)
(***************************************************************************)
\* A node is rescued from below an orphan, and what is below it is deleted.
RescuesWithoutRest(d) ==
    LET rescued == Nodes(d.childAdded) \union d.underNew
        orphans == Subtree(Nodes(d.childRemoved) \ rescued)
    IN  \E x \in rescued \intersect orphans : ~(Subtree({x}) \subseteq rescued)

\* A node that is to become a partition, or that is left out by its parent, is an
\* orphan even if the chunk holds it.
DropsItsOwn(d) == d.old \intersect Orphans(d) # {}

\* An annotation is deleted without what is below it.
LeavesBelowAnnotation(d) ==
    \E x \in Nodes(d.annotationRemoved) \intersect Orphans(d) : ~(Subtree({x}) \subseteq Orphans(d))

\* Two children are taken from one containment (the TODO of
\* dbCommandsForImplicitlyRemovedChildNodes()).
TakesTwo(d) == \E k \in Losers(d) : Cardinality(ToSet(lists[k]) \intersect Taken(d)) > 1

\* An annotation that is not in the chunk, or whose old parent is not, is moved.
TakesAnnotation(d) ==
    \E x \in Nodes(d.annotationAdded) \intersect DOMAIN parent :
        x \notin d.old \/ x \notin Nodes(d.annotationRemoved)

\* The same for what comes below a new node.
TakesForNew(d) ==
    \E x \in d.underNew :
        x \notin d.old \/ x \notin Nodes(d.childRemoved) \union Nodes(d.annotationRemoved)

Mistreated(chunk) ==
    LET d == Diff(chunk)
    IN  \/ RescuesWithoutRest(d) \/ DropsItsOwn(d) \/ LeavesBelowAnnotation(d)
        \/ TakesTwo(d) \/ TakesAnnotation(d) \/ TakesForNew(d)

(***************************************************************************)
(* The requests.                                                           *)
(***************************************************************************)
Becomes(p, l, ends) == parent' = p /\ lists' = l /\ stray' = ends

\* BulkApiWorker.createPartitions(): none of the nodes exists.
AllNew(N) == N \intersect DOMAIN parent = {}

\* Partitions come without children and annotations.
createPartitions ==
    \E N \in SUBSET (Ids \ AnnotationIds) \ {{}} :
        /\ AllNew(N)
        /\ Becomes([n \in DOMAIN parent \union N |-> IF n \in N THEN None ELSE parent[n]], lists, FALSE)

\* BulkApiWorker.deletePartitions(): those of the nodes that exist are partitions.
AllPartitions(N) == N \intersect DOMAIN parent \subseteq Roots(parent)

\* ImportTypeOK: only the rows of the partitions are deleted, and those of their nodes.
deletePartitions_Fault ==
    \E N \in SUBSET Ids \ {{}} :
        /\ AllPartitions(N)
        /\ Becomes(Restrict(parent, DOMAIN parent \ Subtree(N)),
                   [k \in Ids \X Places |-> IF k[1] \in N THEN <<>> ELSE lists[k]], FALSE)

\* Ids that do not exist are not refused.
deletePartitions ==
    \E N \in SUBSET Ids \ {{}} :
        /\ AllPartitions(N)
        /\ Becomes(Restrict(parent, DOMAIN parent \ Subtree(N)),
                   [k \in Ids \X Places |-> IF k[1] \in Subtree(N) THEN <<>> ELSE lists[k]], FALSE)

store ==
    \E chunk \in Chunks :
        /\ Accepted(chunk)
        /\ \E first \in Firsts(chunk) :
            LET after == After(chunk, first)
            IN  Becomes(after.parent, after.lists, ~Coherent(chunk) \/ Mistreated(chunk))

Init ==
    /\ parent = <<>>
    /\ lists = NoLists
    /\ stray = FALSE

Next == ~stray /\ (createPartitions \/ deletePartitions \/ store)

Spec == Init /\ [][Next]_vars

(***************************************************************************)
(* Properties.                                                             *)
(***************************************************************************)
\* The types of the variables; a node that does not exist has no lists.
TypeOK ==
    /\ DOMAIN parent \subseteq Ids
    /\ \A n \in DOMAIN parent : parent[n] \in Ids \union {None}
    /\ lists \in [Ids \X Places -> Seq(Ids)]
    /\ stray \in BOOLEAN
    /\ ~stray => \A n \in Ids \ DOMAIN parent : Listed(lists, n) = {}

\* The parent columns and the lists tell of the same trees, after every sequence
\* of requests that does not end in a stray one.
ProperTree == ~stray => IsForest(parent, lists)

\* store does what a chunk means: to the nodes in it, to the nodes that lose a
\* child to it, and to those that are orphans; for every tree and every coherent
\* chunk, but for the kinds named above.
StoresAsMeant ==
    ~stray =>
        \A chunk \in Chunks :
            Coherent(chunk) /\ Accepted(chunk) /\ ~Mistreated(chunk) =>
                \A first \in Firsts(chunk) : After(chunk, first) = Merged(chunk)

\* N and what the lists of N name, down to the given number of levels.
Reached(N, levels) ==
    LET reached[d \in 0..levels] ==
            IF d = 0 THEN N \intersect DOMAIN parent
            ELSE reached[d - 1] \union UNION {Listed(lists, n) : n \in reached[d - 1]}
    IN  reached[levels]

\* A store of the chunk changes nothing.
StoresNothing(chunk) ==
    /\ Accepted(chunk)
    /\ \A first \in Firsts(chunk) : After(chunk, first) = [parent |-> parent, lists |-> lists]

\* retrieve finds by the parent column what the lists name, to the depth that is
\* asked for; and a client that stores what it retrieved, or the partitions that
\* were listed, changes nothing, not even in the trees it saw only the top of.
RetrievesTrees ==
    ~stray =>
        /\ \A N \in SUBSET Ids, limit \in 0..Unlimited :
            DOMAIN retrieve(N, limit) = Reached(N, limit) /\ StoresNothing(retrieve(N, limit))
        /\ StoresNothing(listPartitions)

\* "Bulk API: Store all nodes in the request" (BulkApi.ts): the nodes of a chunk
\* that is coherent, and makes no partition of a node, are in the repository after
\* it was stored.
StoresAllNodes ==
    ~stray =>
        \A chunk \in Chunks :
            /\ Coherent(chunk) /\ Accepted(chunk)
            /\ Roots(parent) \intersect DOMAIN chunk = {n \in DOMAIN chunk : chunk[n].parent = None}
            => \A first \in Firsts(chunk) : DOMAIN chunk \subseteq DOMAIN After(chunk, first).parent
================================================================================
