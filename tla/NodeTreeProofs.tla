---------------------------- MODULE NodeTreeProofs ----------------------------
(***************************************************************************)
(* Proofs about NodeTree, for any ids, containments, length of the lists   *)
(* and number of commands: no command leaves a row behind, and as long as  *)
(* no stray command was executed the two forms of the tree agree.          *)
(*                                                                         *)
(* Neither is inductive.  ProperTree says that the parent of a node is who *)
(* lists it.  To know that of the lists after a command, one has to know of*)
(* the tables before it that the lists have no node twice and two lists no *)
(* node in common, which follows from ProperTree, but also that the parent *)
(* columns have no cycle and that the nodes are finitely many: the subtree *)
(* that a command deletes by the parent columns must not contain the node  *)
(* whose list it changes.  IInv says so with a function from nodes to      *)
(* parents and one from slots to sets of nodes (Forest), so that the       *)
(* commands need only three changes of a forest and not a proof each.      *)
(*                                                                         *)
(* A command that is not a stray one makes one of seven changes, each said *)
(* list by list (OneChange).  Each of them is the change of ModelTree with *)
(* the same meaning: a list of which nothing is said stays as it was, and  *)
(* the place that ModelTree chooses for a replaced node is the only one.   *)
(*                                                                         *)
(* The same changes show that no partition but the one of the event        *)
(* changes: the nodes whose lists change are below it, the subtrees that   *)
(* come, go and move hang from them, and no other partition has such nodes.*)
(***************************************************************************)
EXTENDS NodeTreeLemmas

(***************************************************************************)
(* The inductive invariant, and one lemma for each command.                *)
(***************************************************************************)
\* The tables have their types, and are a tree unless the command was a stray one.
Sound ==
    /\ Typed(nodes, containments)
    /\ ~stray => Well(nodes, containments)

\* The event has its type.
Told == event \in [partition : Ids \union {None}, crossed : BOOLEAN]

\* The inductive invariant.
IInv == Sound /\ stray \in BOOLEAN /\ Told

\* The changes that commands make which are not stray ones, with the events that tell of them.
PartitionComes ==
    \E new : /\ IsTree(new, None) /\ DOMAIN new.rows \intersect DOMAIN nodes = {}
             /\ GraftedTables(nodes, containments, new, nodes', containments')
             /\ Tells(new.root, new.root)

PartitionGoes ==
    \E y \in DOMAIN nodes :
        /\ nodes[y].parent = None
        /\ DeletedTables(nodes, containments, y, nodes', containments')
        /\ event' = [partition |-> y, crossed |-> FALSE]

TreeComes ==
    \E p, u, i, new : /\ Comes(nodes, containments, new, p, u, i, nodes', containments')
                      /\ Tells(p, p)

NodeGoes ==
    \E p, u, i, y : /\ Goes(nodes, containments, p, u, i, y, nodes', containments')
                    /\ Tells(p, p)

NodeIsReplaced ==
    \E p, u, i, y, new :
        /\ IsReplaced(nodes, containments, p, u, i, y, new, nodes', containments')
        /\ Tells(p, p)

NodeMoves ==
    \E x, p, c, i, q, d, j :
        /\ Moves(nodes, containments, x, p, c, i, q, d, j, nodes', containments')
        /\ Tells(p, q)

NodeMovesOver ==
    \E x, p, c, i, q, d, j, y :
        /\ MovesOver(nodes, containments, x, p, c, i, q, d, j, y, nodes', containments')
        /\ Tells(p, q)

\* One of them.
OneChange ==
    \/ PartitionComes \/ PartitionGoes
    \/ TreeComes \/ NodeGoes \/ NodeIsReplaced
    \/ NodeMoves \/ NodeMovesOver

\* What a client names by its place is in a list.
LEMMA ChildAt ==
    ASSUME Typed(nodes, containments), NEW p \in DOMAIN nodes, NEW c \in Containments,
           NEW i, NEW x, HasAt(children(p, c), i, x)
    PROVE  /\ At(nodes, containments, p, c, i, x)
           /\ ListOf(nodes, containments, p, c) = children(p, c)
           /\ c \in Slots /\ i \in Nat /\ children(p, c) # <<>>
<1>1. ListOf(nodes, containments, p, c) = children(p, c) /\ c \in Slots
  BY Accessors, AnnotationsAssumption DEF ListOf, Slots
<1>2. children(p, c) \in Seq(Ids)
  BY <1>1, RowTypes
<1> DEFINE s == children(p, c)
<1>3. i \in 0..Len(s) - 1 /\ s[i + 1] = x
  BY DEF HasAt
<1>4. s \in Seq(Ids)
  BY <1>2
<1>6. s = <<>> => Len(s) = 0
  BY EmptySeq
<1> HIDE DEF s
<1>5. Len(s) \in Nat
  BY <1>4, LenProperties
<1>7. i \in Nat /\ i < Len(s) /\ s # <<>>
  BY <1>3, <1>5, <1>6
<1> QED
  BY <1>1, <1>3, <1>7 DEF At, s

\* The same of annotations.
LEMMA AnnotationAt ==
    ASSUME Typed(nodes, containments), NEW p \in DOMAIN nodes,
           NEW i, NEW x, HasAt(annotations(p), i, x)
    PROVE  /\ At(nodes, containments, p, Annotations, i, x)
           /\ ListOf(nodes, containments, p, Annotations) = annotations(p)
           /\ Annotations \in Slots /\ i \in Nat
<1>1. ListOf(nodes, containments, p, Annotations) = annotations(p) /\ Annotations \in Slots
  BY Accessors DEF ListOf, Slots
<1>2. annotations(p) \in Seq(Ids)
  BY <1>1, RowTypes
<1> DEFINE s == annotations(p)
<1>3. i \in 0..Len(s) - 1 /\ s[i + 1] = x
  BY DEF HasAt
<1>4. s \in Seq(Ids)
  BY <1>2
<1> HIDE DEF s
<1>5. Len(s) \in Nat
  BY <1>4, LenProperties
<1>7. i \in Nat /\ i < Len(s)
  BY <1>3, <1>5
<1> QED
  BY <1>1, <1>3, <1>7 DEF At, s

\* The tables t1 and k1 without subtree y, which place i of slot u of p holds.
LEMMA DeletesListed ==
    ASSUME Typed(nodes, containments), Well(nodes, containments),
           NEW p, NEW u, NEW i, NEW y, At(nodes, containments, p, u, i, y),
           NEW t1, t1 = Deleted(Subtree(y)), NEW k1, k1 = DeletedLists(Subtree(y))
    PROVE  /\ Typed(t1, k1)
           /\ DeletedTables(nodes, containments, y, t1, k1)
           /\ p \in DOMAIN t1
           /\ ListOf(t1, k1, p, u) = ListOf(nodes, containments, p, u)
<1>1. Typed(t1, k1) /\ DeletedTables(nodes, containments, y, t1, k1)
  BY Deletes
<1>2. Listed(nodes, containments, p, u, y)
  BY AtIsListed
<1>3. p \in DOMAIN t1 /\ u \in Slots
  BY <1>1, <1>2, ListedOnce DEF Listed, DeletedTables
<1> QED
  BY <1>1, <1>3 DEF DeletedTables

\* AddPartition: a graft without a parent.
LEMMA AddPartitionKeeps ==
    ASSUME Typed(nodes, containments), Well(nodes, containments), AddPartition
    PROVE  Sound' /\ stray' \in BOOLEAN /\ \E a, b \in Ids : Tells(a, b)
           /\ (~stray' => PartitionComes)
<1>1. PICK new \in NewTrees(None) :
          /\ nodes' = Over(new.rows, nodes)
          /\ containments' = Over(new.lists, containments)
          /\ stray' = FALSE
          /\ Tells(new.root, new.root)
  BY DEF AddPartition, Execute
<1>2. IsTree(new, None) /\ DOMAIN new.rows \intersect DOMAIN nodes = {}
  BY ChunkIsTree
<1>3. /\ Typed(nodes', containments')
      /\ GraftedTables(nodes, containments, new, nodes', containments')
  BY <1>1, <1>2, Grafts
<1>4. TablesGrafted(nodes, containments, new, None, Annotations, nodes', containments')
  <2>1. None \notin DOMAIN nodes
    BY NoneAssumption DEF Typed
  <2> QED
    BY <1>2, <1>3, <2>1 DEF TablesGrafted, GraftedTables
<1>5. Well(nodes', containments')
  BY <1>4, GraftTables
<1>6. new.root \in Ids
  BY <1>2 DEF IsTree
<1>50. PartitionComes
  BY <1>1, <1>2, <1>3 DEF PartitionComes
<1> QED
  BY <1>1, <1>3, <1>5, <1>6, <1>50 DEF Sound

\* DeletePartition: a prune; where the node has a parent the command is stray.
LEMMA DeletePartitionKeeps ==
    ASSUME Typed(nodes, containments), Well(nodes, containments), DeletePartition
    PROVE  Sound' /\ stray' \in BOOLEAN /\ Told' /\ (~stray' => PartitionGoes)
<1>1. PICK y \in DOMAIN nodes :
          /\ nodes' = Deleted(Subtree(y))
          /\ containments' = DeletedLists(Subtree(y))
          /\ stray' = ~(nodes[y].parent = None)
          /\ event' = [partition |-> y, crossed |-> FALSE]
  BY DEF DeletePartition, Execute
<1>2. /\ Typed(nodes', containments')
      /\ DeletedTables(nodes, containments, y, nodes', containments')
  BY <1>1, Deletes
<1>3. ASSUME ~stray' PROVE Well(nodes', containments')
  <2>1. nodes[y].parent = None
    BY <1>1, <1>3
  <2>2. TablesPruned(nodes, containments, y, None, Annotations, nodes', containments')
    BY <1>2, <2>1 DEF TablesPruned, DeletedTables
  <2> QED
    BY <2>2, PruneTables
<1>4. Told'
  BY <1>1 DEF Told, Typed
<1>50. ~stray' => PartitionGoes
  BY <1>1, <1>2 DEF PartitionGoes
<1> QED
  BY <1>1, <1>2, <1>3, <1>4, <1>50 DEF Sound

\* AddChild.
LEMMA AddChildKeeps ==
    ASSUME Typed(nodes, containments), Well(nodes, containments), AddChild
    PROVE  Sound' /\ stray' \in BOOLEAN /\ \E a, b \in Ids : Tells(a, b)
           /\ (~stray' => TreeComes)
<1>1. PICK p \in DOMAIN nodes, c \in Containments :
      \E new \in NewTrees(p), i \in AddPlaces(p, c) :
          /\ nodes' = Over(new.rows, nodes)
          /\ containments' = Stored(Over(new.lists, containments),
                                    Only(<<p, c>>, Splice(children(p, c), i, 0, <<new.root>>)))
          /\ stray' = FALSE
          /\ Tells(p, p)
  BY DEF AddChild, Execute
<1>2. PICK new \in NewTrees(p), i \in AddPlaces(p, c) :
          /\ nodes' = Over(new.rows, nodes)
          /\ containments' = Stored(Over(new.lists, containments),
                                    Only(<<p, c>>, Splice(children(p, c), i, 0, <<new.root>>)))
          /\ stray' = FALSE
          /\ Tells(p, p)
  BY <1>1
<1> DEFINE t1 == Over(new.rows, nodes)
           k1 == Over(new.lists, containments)
           list == Splice(children(p, c), i, 0, <<new.root>>)
<1>3. p \in Ids /\ children(p, c) \in Seq(Ids)
  BY RowTypes, Accessors
<1>4. IsTree(new, p) /\ DOMAIN new.rows \intersect DOMAIN nodes = {}
  BY <1>3, ChunkIsTree
<1>5. Typed(t1, k1) /\ GraftedTables(nodes, containments, new, t1, k1)
  BY <1>4, Grafts
<1>6. i \in Int /\ new.root \in Ids
  BY <1>3, <1>4, LenProperties DEF AddPlaces, IsTree
<1>7. list \in Seq(Ids)
  BY <1>3, <1>6, SpliceTypes
<1>8. /\ nodes' = t1
      /\ containments' = Stored(k1, Only(<<p, c>>, list))
      /\ p \in DOMAIN t1
  BY <1>2, <1>5 DEF GraftedTables
<1>9. list = Splice(ListOf(nodes, containments, p, c), i, 0, <<new.root>>) /\ c \in Slots
  BY Accessors, AnnotationsAssumption DEF ListOf, Slots
<1> HIDE DEF t1, k1, list
<1>10. Typed(t1, containments') /\ SetList(t1, k1, p, c, list, t1, containments')
  BY <1>5, <1>7, <1>8, StoresRow
<1>11. Well(t1, containments')
  BY <1>4, <1>5, <1>6, <1>9, <1>10, AddListed
<1>50. TreeComes
  <2>1. Comes(nodes, containments, new, p, c, i, t1, containments')
    BY <1>4, <1>5, <1>6, <1>9, <1>10, ComesIs
  <2> QED
    BY <2>1, <1>2, <1>8 DEF TreeComes
<1> QED
  BY <1>2, <1>3, <1>8, <1>10, <1>11, <1>50 DEF Sound

\* DeleteChild.
LEMMA DeleteChildKeeps ==
    ASSUME Typed(nodes, containments), Well(nodes, containments), DeleteChild
    PROVE  Sound' /\ stray' \in BOOLEAN /\ \E a, b \in Ids : Tells(a, b)
           /\ (~stray' => NodeGoes)
<1>1. PICK p, x \in DOMAIN nodes, c \in Containments, i \in 0..MaxList - 1 :
          /\ HasAt(children(p, c), i, x)
          /\ nodes' = Deleted(Subtree(x))
          /\ containments' = Updated(DeletedLists(Subtree(x)),
                                     Only(<<p, c>>, Splice(children(p, c), i, 1, <<>>)))
          /\ stray' = FALSE
          /\ Tells(p, p)
  BY DEF DeleteChild, Execute
<1> DEFINE t1 == Deleted(Subtree(x))
           k1 == DeletedLists(Subtree(x))
           s == ListOf(nodes, containments, p, c)
           list == Splice(s, i, 1, <<>>)
<1>2. /\ At(nodes, containments, p, c, i, x) /\ s = children(p, c)
      /\ c \in Slots /\ i \in Nat /\ s # <<>>
  BY <1>1, ChildAt
<1>3. /\ Typed(t1, k1) /\ DeletedTables(nodes, containments, x, t1, k1)
      /\ p \in DOMAIN t1 /\ ListOf(t1, k1, p, c) = s
  BY <1>2, DeletesListed
<1>4. s \in Seq(Ids) /\ OnceEach(s)
  BY <1>2, AtIsListed
<1>5. i < Len(s) /\ s[i + 1] = x
  BY <1>2 DEF At
<1>6. containments' = Updated(k1, Only(<<p, c>>, list)) /\ nodes' = t1
  BY <1>1, <1>2
<1> HIDE DEF t1, k1, s
<1>7. Entries(list) = Entries(s) \ {x} /\ OnceEach(list) /\ list \in Seq(Ids)
  BY <1>2, <1>4, <1>5, SpliceRemoves DEF RemovedAt
<1> HIDE DEF list
<1>8. RowOf(k1, p, c) # <<>>
  BY <1>2, <1>3, AnnotationsAssumption DEF ListOf
<1>9. Typed(t1, containments') /\ SetList(t1, k1, p, c, list, t1, containments')
  BY <1>3, <1>6, <1>7, <1>8, SetsRow
<1>10. Well(t1, containments')
  BY <1>2, <1>3, <1>7, <1>9, RemoveListed DEF s
<1>11. p \in Ids
  BY DEF Typed
<1>50. NodeGoes
  <2>1. Goes(nodes, containments, p, c, i, x, t1, containments')
    BY <1>2, <1>3, <1>9, GoesIs DEF list, s
  <2> QED
    BY <2>1, <1>1, <1>6 DEF NodeGoes
<1> QED
  BY <1>1, <1>6, <1>9, <1>10, <1>11, <1>50 DEF Sound

\* ReplaceChild: the new rows are inserted before the old ones are deleted.
LEMMA ReplaceChildKeeps ==
    ASSUME Typed(nodes, containments), Well(nodes, containments), ReplaceChild
    PROVE  Sound' /\ stray' \in BOOLEAN /\ \E a, b \in Ids : Tells(a, b)
           /\ (~stray' => NodeIsReplaced)
<1>1. PICK p \in DOMAIN nodes, x \in Ids, c \in Containments, i \in 0..MaxList - 1 :
      \E new \in NewTrees(p) :
          /\ HasAt(children(p, c), i, x)
          /\ QueryEnds(x)
          /\ Execute(Over(new.rows, Deleted(Subtree(x))),
                     Updated(Over(new.lists, DeletedLists(Subtree(x))),
                             Only(<<p, c>>, Splice(children(p, c), i, 1, <<new.root>>))),
                     TRUE)
          /\ Tells(p, p)
  BY DEF ReplaceChild
<1>2. PICK new \in NewTrees(p) :
          /\ HasAt(children(p, c), i, x)
          /\ nodes' = Over(new.rows, Deleted(Subtree(x)))
          /\ containments' = Updated(Over(new.lists, DeletedLists(Subtree(x))),
                                     Only(<<p, c>>, Splice(children(p, c), i, 1, <<new.root>>)))
          /\ stray' = FALSE
          /\ Tells(p, p)
  BY <1>1 DEF Execute
<1> DEFINE t1 == Deleted(Subtree(x))
           k1 == DeletedLists(Subtree(x))
           t2 == Over(new.rows, t1)
           k2 == Over(new.lists, k1)
           s == ListOf(nodes, containments, p, c)
           list == Splice(s, i, 1, <<new.root>>)
<1>3. /\ At(nodes, containments, p, c, i, x) /\ s = children(p, c)
      /\ c \in Slots /\ i \in Nat /\ s # <<>>
  BY <1>2, ChildAt
<1>4. /\ Typed(t1, k1) /\ DeletedTables(nodes, containments, x, t1, k1)
      /\ p \in DOMAIN t1 /\ ListOf(t1, k1, p, c) = s
  BY <1>3, DeletesListed
<1>5. p \in Ids /\ s \in Seq(Ids)
  BY RowTypes
<1>6. IsTree(new, p) /\ DOMAIN new.rows \intersect DOMAIN nodes = {}
  BY <1>5, ChunkIsTree
<1>7. new.root \in Ids
  BY <1>6 DEF IsTree
<1>8. containments' = Updated(k2, Only(<<p, c>>, list)) /\ nodes' = t2
  BY <1>2, <1>3
<1>9. list \in Seq(Ids)
  BY <1>3, <1>5, <1>7, SpliceTypes
<1> HIDE DEF t1, k1
<1>10. DOMAIN new.rows \intersect DOMAIN t1 = {}
  BY <1>4, <1>6 DEF DeletedTables
<1>11. Typed(t2, k2) /\ GraftedTables(t1, k1, new, t2, k2)
  BY <1>4, <1>6, <1>10, Grafts
<1>12. p \in DOMAIN t2 /\ ListOf(t2, k2, p, c) = s
  BY <1>3, <1>4, <1>11 DEF GraftedTables
<1> HIDE DEF t2, k2, s
<1>13. RowOf(k2, p, c) # <<>>
  BY <1>3, <1>12, AnnotationsAssumption DEF ListOf
<1> HIDE DEF list
<1>14. Typed(t2, containments') /\ SetList(t2, k2, p, c, list, t2, containments')
  BY <1>8, <1>9, <1>11, <1>12, <1>13, SetsRow
<1>15. Well(t2, containments')
  BY <1>3, <1>4, <1>6, <1>11, <1>14, ReplaceListed DEF list, s
<1>50. NodeIsReplaced
  <2>1. IsReplaced(nodes, containments, p, c, i, x, new, t2, containments')
    BY <1>3, <1>4, <1>6, <1>11, <1>14, IsReplacedIs DEF list, s
  <2> QED
    BY <2>1, <1>2, <1>8 DEF NodeIsReplaced
<1> QED
  BY <1>2, <1>5, <1>8, <1>14, <1>15, <1>50 DEF Sound

\* AddAnnotation.
LEMMA AddAnnotationKeeps ==
    ASSUME Typed(nodes, containments), Well(nodes, containments), AddAnnotation
    PROVE  Sound' /\ stray' \in BOOLEAN /\ \E a, b \in Ids : Tells(a, b)
           /\ (~stray' => TreeComes)
<1>1. PICK p \in DOMAIN nodes, i \in 0..MaxList :
      \E new \in NewTrees(p) :
          /\ nodes' = WithAnnotations(Over(new.rows, nodes), p,
                                      Splice(annotations(p), i, 0, <<new.root>>))
          /\ containments' = Over(new.lists, containments)
          /\ stray' = FALSE
          /\ Tells(p, p)
  BY DEF AddAnnotation, Execute
<1>2. PICK new \in NewTrees(p) :
          /\ nodes' = WithAnnotations(Over(new.rows, nodes), p,
                                      Splice(annotations(p), i, 0, <<new.root>>))
          /\ containments' = Over(new.lists, containments)
          /\ stray' = FALSE
          /\ Tells(p, p)
  BY <1>1
<1> DEFINE t1 == Over(new.rows, nodes)
           k1 == Over(new.lists, containments)
           list == Splice(annotations(p), i, 0, <<new.root>>)
<1>3. p \in Ids /\ annotations(p) \in Seq(Ids)
  BY RowTypes, Accessors
<1>4. IsTree(new, p) /\ DOMAIN new.rows \intersect DOMAIN nodes = {}
  BY <1>3, ChunkIsTree
<1>5. Typed(t1, k1) /\ GraftedTables(nodes, containments, new, t1, k1)
  BY <1>4, Grafts
<1>6. i \in Int /\ new.root \in Ids
  BY <1>4 DEF IsTree
<1>7. list \in Seq(Ids)
  BY <1>3, <1>6, SpliceTypes
<1>8. /\ nodes' = WithAnnotations(t1, p, list)
      /\ containments' = k1
      /\ p \in DOMAIN t1
  BY <1>2, <1>5 DEF GraftedTables
<1>9. list = Splice(ListOf(nodes, containments, p, Annotations), i, 0, <<new.root>>)
  BY Accessors DEF ListOf
<1> HIDE DEF t1, k1, list
<1>10. Typed(nodes', k1) /\ SetList(t1, k1, p, Annotations, list, nodes', k1)
  BY <1>5, <1>7, <1>8, SetsAnnotations
<1>11. Annotations \in Slots
  BY DEF Slots
<1>12. Well(nodes', k1)
  BY <1>4, <1>5, <1>6, <1>9, <1>10, <1>11, AddListed
<1>50. TreeComes
  <2>1. Comes(nodes, containments, new, p, Annotations, i, nodes', k1)
    BY <1>4, <1>5, <1>6, <1>9, <1>10, <1>11, ComesIs
  <2> QED
    BY <2>1, <1>2, <1>8 DEF TreeComes
<1> QED
  BY <1>2, <1>3, <1>8, <1>10, <1>12, <1>50 DEF Sound

\* DeleteAnnotation.
LEMMA DeleteAnnotationKeeps ==
    ASSUME Typed(nodes, containments), Well(nodes, containments), DeleteAnnotation
    PROVE  Sound' /\ stray' \in BOOLEAN /\ \E a, b \in Ids : Tells(a, b)
           /\ (~stray' => NodeGoes)
<1>1. PICK p, x \in DOMAIN nodes, i \in 0..MaxList - 1 :
          /\ HasAt(annotations(p), i, x)
          /\ nodes' = WithAnnotations(Deleted(Subtree(x)), p, Splice(annotations(p), i, 1, <<>>))
          /\ containments' = DeletedLists(Subtree(x))
          /\ stray' = FALSE
          /\ Tells(p, p)
  BY DEF DeleteAnnotation, Execute
<1> DEFINE t1 == Deleted(Subtree(x))
           k1 == DeletedLists(Subtree(x))
           s == ListOf(nodes, containments, p, Annotations)
           list == Splice(s, i, 1, <<>>)
<1>2. /\ At(nodes, containments, p, Annotations, i, x) /\ s = annotations(p)
      /\ Annotations \in Slots /\ i \in Nat
  BY <1>1, AnnotationAt
<1>3. /\ Typed(t1, k1) /\ DeletedTables(nodes, containments, x, t1, k1)
      /\ p \in DOMAIN t1
  BY <1>2, DeletesListed
<1>4. s \in Seq(Ids) /\ OnceEach(s)
  BY <1>2, AtIsListed
<1>5. i < Len(s) /\ s[i + 1] = x
  BY <1>2 DEF At
<1>6. nodes' = WithAnnotations(t1, p, list) /\ containments' = k1
  BY <1>1, <1>2
<1> HIDE DEF t1, k1, s
<1>7. Entries(list) = Entries(s) \ {x} /\ OnceEach(list) /\ list \in Seq(Ids)
  BY <1>2, <1>4, <1>5, SpliceRemoves DEF RemovedAt
<1> HIDE DEF list
<1>9. Typed(nodes', k1) /\ SetList(t1, k1, p, Annotations, list, nodes', k1)
  BY <1>3, <1>6, <1>7, SetsAnnotations
<1>10. Well(nodes', k1)
  BY <1>2, <1>3, <1>7, <1>9, RemoveListed DEF s
<1>11. p \in Ids
  BY DEF Typed
<1>50. NodeGoes
  <2>1. Goes(nodes, containments, p, Annotations, i, x, nodes', k1)
    BY <1>2, <1>3, <1>9, GoesIs DEF list, s
  <2> QED
    BY <2>1, <1>1, <1>6 DEF NodeGoes
<1> QED
  BY <1>1, <1>6, <1>9, <1>10, <1>11, <1>50 DEF Sound

\* ReplaceAnnotation.
LEMMA ReplaceAnnotationKeeps ==
    ASSUME Typed(nodes, containments), Well(nodes, containments), ReplaceAnnotation
    PROVE  Sound' /\ stray' \in BOOLEAN /\ \E a, b \in Ids : Tells(a, b)
           /\ (~stray' => NodeIsReplaced)
<1>1. PICK p \in DOMAIN nodes, x \in Ids, i \in 0..MaxList - 1 :
      \E new \in NewTrees(p) :
          /\ HasAt(annotations(p), i, x)
          /\ nodes' = WithAnnotations(Over(new.rows, Deleted(Subtree(x))), p,
                                      Splice(annotations(p), i, 1, <<new.root>>))
          /\ containments' = Over(new.lists, DeletedLists(Subtree(x)))
          /\ stray' = FALSE
          /\ Tells(p, p)
  BY DEF ReplaceAnnotation, Execute
<1>2. PICK new \in NewTrees(p) :
          /\ HasAt(annotations(p), i, x)
          /\ nodes' = WithAnnotations(Over(new.rows, Deleted(Subtree(x))), p,
                                      Splice(annotations(p), i, 1, <<new.root>>))
          /\ containments' = Over(new.lists, DeletedLists(Subtree(x)))
          /\ stray' = FALSE
          /\ Tells(p, p)
  BY <1>1
<1> DEFINE t1 == Deleted(Subtree(x))
           k1 == DeletedLists(Subtree(x))
           t2 == Over(new.rows, t1)
           k2 == Over(new.lists, k1)
           s == ListOf(nodes, containments, p, Annotations)
           list == Splice(s, i, 1, <<new.root>>)
<1>3. /\ At(nodes, containments, p, Annotations, i, x) /\ s = annotations(p)
      /\ Annotations \in Slots /\ i \in Nat
  BY <1>2, AnnotationAt
<1>4. /\ Typed(t1, k1) /\ DeletedTables(nodes, containments, x, t1, k1)
      /\ p \in DOMAIN t1
  BY <1>3, DeletesListed
<1>5. p \in Ids /\ s \in Seq(Ids)
  BY RowTypes
<1>6. IsTree(new, p) /\ DOMAIN new.rows \intersect DOMAIN nodes = {}
  BY <1>5, ChunkIsTree
<1>7. new.root \in Ids
  BY <1>6 DEF IsTree
<1>8. nodes' = WithAnnotations(t2, p, list) /\ containments' = k2
  BY <1>2, <1>3
<1>9. list \in Seq(Ids)
  BY <1>3, <1>5, <1>7, SpliceTypes
<1> HIDE DEF t1, k1
<1>10. DOMAIN new.rows \intersect DOMAIN t1 = {}
  BY <1>4, <1>6 DEF DeletedTables
<1>11. Typed(t2, k2) /\ GraftedTables(t1, k1, new, t2, k2)
  BY <1>4, <1>6, <1>10, Grafts
<1>12. p \in DOMAIN t2
  BY <1>4, <1>11 DEF GraftedTables
<1> HIDE DEF t2, k2, s, list
<1>14. Typed(nodes', k2) /\ SetList(t2, k2, p, Annotations, list, nodes', k2)
  BY <1>8, <1>9, <1>11, <1>12, SetsAnnotations
<1>15. Well(nodes', k2)
  BY <1>3, <1>4, <1>6, <1>11, <1>14, ReplaceListed DEF list, s
<1>50. NodeIsReplaced
  <2>1. IsReplaced(nodes, containments, p, Annotations, i, x, new, nodes', k2)
    BY <1>3, <1>4, <1>6, <1>11, <1>14, IsReplacedIs DEF list, s
  <2> QED
    BY <2>1, <1>2, <1>8 DEF NodeIsReplaced
<1> QED
  BY <1>2, <1>5, <1>8, <1>14, <1>15, <1>50 DEF Sound

\* MoveAnnotationInSameParent: any index, also a negative one.
LEMMA MoveAnnotationInSameParentKeeps ==
    ASSUME Typed(nodes, containments), Well(nodes, containments), MoveAnnotationInSameParent
    PROVE  Sound' /\ stray' \in BOOLEAN /\ \E a, b \in Ids : Tells(a, b)
           /\ (~stray' => NodeMoves)
<1>1. PICK p \in DOMAIN nodes, x \in Ids, i \in 0..MaxList - 1 :
      \E j \in -1..Len(annotations(p)) :
          /\ HasAt(annotations(p), i, x)
          /\ nodes' = WithAnnotations(nodes, p,
                          Splice(Splice(annotations(p), i, 1, <<>>), j, 0, <<x>>))
          /\ containments' = containments
          /\ stray' = FALSE
          /\ Tells(p, p)
  BY DEF MoveAnnotationInSameParent, Execute
<1>2. PICK j \in -1..Len(annotations(p)) :
          /\ HasAt(annotations(p), i, x)
          /\ nodes' = WithAnnotations(nodes, p,
                          Splice(Splice(annotations(p), i, 1, <<>>), j, 0, <<x>>))
          /\ containments' = containments
          /\ stray' = FALSE
          /\ Tells(p, p)
  BY <1>1
<1> DEFINE s == ListOf(nodes, containments, p, Annotations)
           list == Splice(Splice(s, i, 1, <<>>), j, 0, <<x>>)
<1>3. /\ At(nodes, containments, p, Annotations, i, x) /\ s = annotations(p) /\ i \in Nat
  BY <1>2, AnnotationAt
<1>5. p \in Ids /\ s \in Seq(Ids)
  BY RowTypes
<1>6. j \in Int
  BY <1>3, <1>5, LenProperties
<1>7. nodes' = WithAnnotations(nodes, p, list)
  BY <1>2, <1>3
<1>8. list \in Seq(Ids)
  <2> HIDE DEF s
  <2>1. s \in Seq(Ids) /\ i \in Int /\ x \in Ids
    BY <1>3, <1>5
  <2>2. Splice(s, i, 1, <<>>) \in Seq(Ids)
    BY <2>1, SpliceTypes
  <2> QED
    BY <1>6, <2>2, SpliceTypes
<1> HIDE DEF s, list
<1>9. Typed(nodes', containments) /\ SetList(nodes, containments, p, Annotations, list, nodes', containments)
  BY <1>7, <1>8, SetsAnnotations
<1>10. Well(nodes', containments)
  BY <1>3, <1>6, <1>9, MoveInList DEF list, s
<1>50. NodeMoves
  <2>1. Moves(nodes, containments, x, p, Annotations, i, p, Annotations, j, nodes', containments)
    BY <1>3, <1>6, <1>9, MovesInList DEF list, s
  <2> QED
    BY <2>1, <1>2 DEF NodeMoves
<1> QED
  BY <1>2, <1>5, <1>9, <1>10, <1>50 DEF Sound

\* MoveAnnotationFromOtherParent is always stray, and keeps the types.
LEMMA MoveAnnotationFromOtherParentKeeps ==
    ASSUME Typed(nodes, containments), MoveAnnotationFromOtherParent
    PROVE  Sound' /\ stray' \in BOOLEAN /\ \E a, b \in Ids : Tells(a, b)
           /\ stray'
<1>1. PICK old, new \in DOMAIN nodes, x \in Ids, i \in 0..MaxList - 1 :
      \E j \in 0..Len(annotations(new)) :
          /\ nodes' = WithAnnotations(
                          WithAnnotations(nodes, old, Splice(annotations(old), i, 1, <<>>)),
                          new, Splice(annotations(new), j, 0, <<x>>))
          /\ containments' = containments
          /\ stray' = TRUE
          /\ Tells(old, new)
  BY DEF MoveAnnotationFromOtherParent, Execute
<1>2. PICK j \in 0..Len(annotations(new)) :
          /\ nodes' = WithAnnotations(
                          WithAnnotations(nodes, old, Splice(annotations(old), i, 1, <<>>)),
                          new, Splice(annotations(new), j, 0, <<x>>))
          /\ containments' = containments
          /\ stray' = TRUE
          /\ Tells(old, new)
  BY <1>1
<1> DEFINE t1 == WithAnnotations(nodes, old, Splice(annotations(old), i, 1, <<>>))
<1>3. annotations(old) \in Seq(Ids) /\ annotations(new) \in Seq(Ids) /\ old \in Ids /\ new \in Ids
  BY RowTypes, Accessors
<1>4. i \in Int /\ j \in Int
  BY <1>3, LenProperties
<1>6. /\ Splice(annotations(old), i, 1, <<>>) \in Seq(Ids)
      /\ Splice(annotations(new), j, 0, <<x>>) \in Seq(Ids)
  BY <1>3, <1>4, SpliceTypes
<1>7. Typed(t1, containments) /\ DOMAIN t1 = DOMAIN nodes
  BY <1>6, SetsAnnotations DEF SetList
<1> HIDE DEF t1
<1>8. Typed(WithAnnotations(t1, new, Splice(annotations(new), j, 0, <<x>>)), containments)
  BY <1>6, <1>7, SetsAnnotations
<1> QED
  BY <1>2, <1>3, <1>8 DEF Sound, t1

\* MoveChildInSameContainmentInSameParent is always stray, and keeps the types.
LEMMA MoveChildInSameContainmentInSameParentKeeps ==
    ASSUME Typed(nodes, containments), MoveChildInSameContainmentInSameParent
    PROVE  Sound' /\ stray' \in BOOLEAN /\ \E a, b \in Ids : Tells(a, b)
           /\ stray'
<1>1. PICK p, x \in DOMAIN nodes, c \in Containments, i \in 0..MaxList - 1, offset \in -1..1 :
          /\ nodes' = nodes
          /\ containments' = Updated(containments,
                                 Only(<<p, c>>, Splice(children(p, c), i + offset, 0, <<x>>)))
          /\ stray' = TRUE
          /\ Tells(p, p)
  BY DEF MoveChildInSameContainmentInSameParent, Execute
<1> DEFINE list == Splice(children(p, c), i + offset, 0, <<x>>)
<1>2. children(p, c) \in Seq(Ids) /\ p \in Ids /\ x \in Ids /\ i + offset \in Int
  BY RowTypes, Accessors
<1>4. list \in Seq(Ids)
  BY <1>2, SpliceTypes
<1>5. containments' = Updated(containments, Only(<<p, c>>, list))
  BY <1>1
<1> HIDE DEF list
<1>6. \A j \in DOMAIN Only(<<p, c>>, list) : Only(<<p, c>>, list)[j] \in Seq(Ids)
  BY <1>4 DEF Only
<1>7. Typed(nodes, containments')
  BY <1>5, <1>6, UpdatedTypes
<1> QED
  BY <1>1, <1>2, <1>7 DEF Sound

\* MoveAndReplaceChildInSameContainmentInSameParent.
LEMMA MoveAndReplaceChildInSameContainmentInSameParentKeeps ==
    ASSUME Typed(nodes, containments), Well(nodes, containments),
           MoveAndReplaceChildInSameContainmentInSameParent
    PROVE  Sound' /\ stray' \in BOOLEAN /\ \E a, b \in Ids : Tells(a, b)
           /\ (~stray' => NodeMovesOver)
<1>0. PICK p, x, y \in DOMAIN nodes, c \in Containments, i, j \in 0..MaxList - 1 :
          /\ HasAt(children(p, c), i, x)
          /\ HasAt(children(p, c), j, y)
          /\ Execute(Deleted(Subtree(y)),
                     Updated(DeletedLists(Subtree(y)),
                             Only(<<p, c>>, MovedAndReplaced(children(p, c), i, j - i, x))),
                     x # y)
          /\ Tells(p, p)
  BY DEF MoveAndReplaceChildInSameContainmentInSameParent
<1>1. /\ HasAt(children(p, c), i, x)
      /\ HasAt(children(p, c), j, y)
      /\ nodes' = Deleted(Subtree(y))
      /\ containments' = Updated(DeletedLists(Subtree(y)),
                             Only(<<p, c>>, MovedAndReplaced(children(p, c), i, j - i, x)))
      /\ stray' = ~(x # y)
      /\ Tells(p, p)
  BY <1>0 DEF Execute
<1> DEFINE t1 == Deleted(Subtree(y))
           k1 == DeletedLists(Subtree(y))
           s == ListOf(nodes, containments, p, c)
           list == MovedAndReplaced(s, i, j - i, x)
<1>2. /\ At(nodes, containments, p, c, i, x) /\ At(nodes, containments, p, c, j, y)
      /\ s = children(p, c) /\ i \in Nat /\ j \in Nat /\ s # <<>>
  BY <1>1, ChildAt
<1>3. /\ Typed(t1, k1) /\ DeletedTables(nodes, containments, y, t1, k1)
      /\ p \in DOMAIN t1 /\ ListOf(t1, k1, p, c) = s
  BY <1>2, DeletesListed
<1>4. s \in Seq(Ids) /\ OnceEach(s) /\ x \in Ids
  BY <1>2, AtIsListed
<1>5. i < Len(s) /\ s[i + 1] = x /\ j < Len(s) /\ s[j + 1] = y
  BY <1>2 DEF At
<1>6. containments' = Updated(k1, Only(<<p, c>>, list)) /\ nodes' = t1
  BY <1>1, <1>2
<1> HIDE DEF t1, k1, s
<1>7. list \in Seq(Ids)
  BY <1>2, <1>4, MovedAndReplacedType
<1>8. RowOf(k1, p, c) # <<>>
  BY <1>2, <1>3, AnnotationsAssumption DEF ListOf
<1> HIDE DEF list
<1>9. Typed(t1, containments') /\ SetList(t1, k1, p, c, list, t1, containments')
  BY <1>3, <1>6, <1>7, <1>8, SetsRow
<1>10. ASSUME x # y PROVE Well(t1, containments')
  <2>1. i # j
    BY <1>5, <1>10
  <2>2. list = MovedAndReplaced(s, i, j - i, s[i + 1])
    BY <1>5 DEF list
  <2>3. Entries(list) = Entries(s) \ {y} /\ OnceEach(list)
    BY <2>1, <2>2, <1>2, <1>4, <1>5, MovesAndReplaces
  <2> QED
    BY <2>3, <1>2, <1>3, <1>9, RemoveListed DEF s
<1>11. p \in Ids
  BY DEF Typed
<1>50. ASSUME ~stray' PROVE NodeMovesOver
  <2>1. x # y
    BY <1>1, <1>50
  <2>2. MovesOver(nodes, containments, x, p, c, i, p, c, j, y, t1, containments')
    BY <2>1, <1>2, <1>3, <1>9, MovesOverInList DEF list, s
  <2> QED
    BY <2>2, <1>1, <1>6 DEF NodeMovesOver
<1> QED
  BY <1>1, <1>6, <1>9, <1>10, <1>11, <1>50 DEF Sound

\* MoveAndReplaceAnnotationInSameParent.
LEMMA MoveAndReplaceAnnotationInSameParentKeeps ==
    ASSUME Typed(nodes, containments), Well(nodes, containments),
           MoveAndReplaceAnnotationInSameParent
    PROVE  Sound' /\ stray' \in BOOLEAN /\ \E a, b \in Ids : Tells(a, b)
           /\ (~stray' => NodeMovesOver)
<1>1. PICK p \in DOMAIN nodes, x, y \in Ids, i, j \in 0..MaxList - 1 :
          /\ HasAt(annotations(p), i, x)
          /\ HasAt(annotations(p), j, y)
          /\ nodes' = WithAnnotations(Deleted(Subtree(y)), p,
                                      MovedAndReplaced(annotations(p), i, j - i, x))
          /\ containments' = DeletedLists(Subtree(y))
          /\ stray' = ~(x # y)
          /\ Tells(p, p)
  BY DEF MoveAndReplaceAnnotationInSameParent, Execute
<1> DEFINE t1 == Deleted(Subtree(y))
           k1 == DeletedLists(Subtree(y))
           s == ListOf(nodes, containments, p, Annotations)
           list == MovedAndReplaced(s, i, j - i, x)
<1>2. /\ At(nodes, containments, p, Annotations, i, x)
      /\ At(nodes, containments, p, Annotations, j, y)
      /\ s = annotations(p) /\ i \in Nat /\ j \in Nat
  BY <1>1, AnnotationAt
<1>3. /\ Typed(t1, k1) /\ DeletedTables(nodes, containments, y, t1, k1)
      /\ p \in DOMAIN t1
  BY <1>2, DeletesListed
<1>4. s \in Seq(Ids) /\ OnceEach(s)
  BY <1>2, AtIsListed
<1>5. i < Len(s) /\ s[i + 1] = x /\ j < Len(s) /\ s[j + 1] = y
  BY <1>2 DEF At
<1>6. nodes' = WithAnnotations(t1, p, list) /\ containments' = k1
  BY <1>1, <1>2
<1> HIDE DEF t1, k1, s
<1>7. list \in Seq(Ids)
  BY <1>2, <1>4, MovedAndReplacedType
<1> HIDE DEF list
<1>9. Typed(nodes', k1) /\ SetList(t1, k1, p, Annotations, list, nodes', k1)
  BY <1>3, <1>6, <1>7, SetsAnnotations
<1>10. ASSUME x # y PROVE Well(nodes', k1)
  <2>1. i # j
    BY <1>5, <1>10
  <2>2. list = MovedAndReplaced(s, i, j - i, s[i + 1])
    BY <1>5 DEF list
  <2>3. Entries(list) = Entries(s) \ {y} /\ OnceEach(list)
    BY <2>1, <2>2, <1>2, <1>4, <1>5, MovesAndReplaces
  <2> QED
    BY <2>3, <1>2, <1>3, <1>9, RemoveListed DEF s
<1>11. p \in Ids
  BY DEF Typed
<1>50. ASSUME ~stray' PROVE NodeMovesOver
  <2>1. x # y
    BY <1>1, <1>50
  <2>2. MovesOver(nodes, containments, x, p, Annotations, i, p, Annotations, j, y, nodes', k1)
    BY <2>1, <1>2, <1>3, <1>9, MovesOverInList DEF list, s
  <2> QED
    BY <2>2, <1>1, <1>6 DEF NodeMovesOver
<1> QED
  BY <1>1, <1>6, <1>9, <1>10, <1>11, <1>50 DEF Sound

\* What Moved gives for two lists, and for one.
TwoLists(m, p, c, l1, q, d, l2) ==
    /\ DOMAIN m = {<<p, c>>, <<q, d>>}
    /\ m[<<p, c>>] = l1
    /\ m[<<q, d>>] = l2

OneList(m, p, c, l1) ==
    /\ DOMAIN m = {<<p, c>>}
    /\ m[<<p, c>>] = l1

\* Moved between two lists.
LEMMA MovedToOther ==
    ASSUME NEW x, NEW p, NEW c, NEW i, NEW q, NEW d, NEW j, NEW n, ~(p = q /\ c = d),
           NEW m, m = Moved(x, <<p, c>>, i, <<q, d>>, j, n)
    PROVE  TwoLists(m, p, c, Splice(children(p, c), i, 1, <<>>),
                    q, d, Splice(children(q, d), j, n, <<x>>))
<1> DEFINE k == <<p, c>>
           l == <<q, d>>
<1>1. k # l /\ k[1] = p /\ k[2] = c /\ l[1] = q /\ l[2] = d
  OBVIOUS
<1> HIDE DEF k, l
<1>2. m = Moved(x, k, i, l, j, n)
  BY DEF k, l
<1> DEFINE now == [h \in {k, l} |-> children(h[1], h[2])]
           come == [now EXCEPT ![l] = Splice(@, j, n, <<x>>)]
<1>3. m = [come EXCEPT ![k] = Splice(@, i, 1, <<>>)]
  BY <1>2 DEF Moved
<1>4. DOMAIN now = {k, l} /\ now[k] = children(p, c) /\ now[l] = children(q, d)
  BY <1>1
<1> HIDE DEF now
<1>5. DOMAIN come = {k, l} /\ come[k] = children(p, c) /\ come[l] = Splice(children(q, d), j, n, <<x>>)
  BY <1>1, <1>4
<1> HIDE DEF come
<1> QED
  BY <1>1, <1>3, <1>5 DEF k, l, TwoLists

\* Moved within one list.
LEMMA MovedInOne ==
    ASSUME NEW x, NEW p, NEW c, NEW i, NEW j, NEW n,
           NEW m, m = Moved(x, <<p, c>>, i, <<p, c>>, j, n)
    PROVE  OneList(m, p, c, Splice(Splice(children(p, c), j, n, <<x>>), i, 1, <<>>))
<1> DEFINE k == <<p, c>>
<1>1. k[1] = p /\ k[2] = c
  OBVIOUS
<1> HIDE DEF k
<1>2. m = Moved(x, k, i, k, j, n)
  BY DEF k
<1> DEFINE now == [h \in {k, k} |-> children(h[1], h[2])]
           come == [now EXCEPT ![k] = Splice(@, j, n, <<x>>)]
<1>3. m = [come EXCEPT ![k] = Splice(@, i, 1, <<>>)]
  BY <1>2 DEF Moved
<1>4. DOMAIN now = {k} /\ now[k] = children(p, c)
  BY <1>1
<1> HIDE DEF now
<1>5. DOMAIN come = {k} /\ come[k] = Splice(children(p, c), j, n, <<x>>)
  BY <1>4
<1> HIDE DEF come
<1> QED
  BY <1>3, <1>5 DEF k, OneList

\* Two containments change, and the parent of x.
LEMMA TwoListsStored ==
    ASSUME NEW t, NEW k, NEW t2, NEW new, NEW x, NEW p, NEW c \in Containments,
           NEW q, NEW d \in Containments, NEW l1, NEW l2,
           DOMAIN t2 = DOMAIN t,
           \A n \in DOMAIN t : /\ t2[n].parent = IF n = x THEN q ELSE t[n].parent
                               /\ t2[n].annotations = t[n].annotations,
           TwoLists(new, p, c, l1, q, d, l2)
    PROVE  SetLists(t, k, x, p, c, l1, q, d, l2, t2, Stored(k, new))
<1> DEFINE k2 == Stored(k, new)
<1>1. ASSUME NEW n \in DOMAIN t, NEW s \in Slots
      PROVE  /\ n = p /\ s = c => ListOf(t2, k2, n, s) = l1
             /\ n = q /\ s = d => ListOf(t2, k2, n, s) = l2
             /\ ~(n = p /\ s = c) /\ ~(n = q /\ s = d) => ListOf(t2, k2, n, s) = ListOf(t, k, n, s)
  <2>1. c # Annotations /\ d # Annotations
    BY AnnotationsAssumption
  <2>2. RowOf(k2, p, c) = l1 /\ RowOf(k2, q, d) = l2
    BY StoredRows DEF TwoLists
  <2>3. ASSUME ~(n = p /\ s = c) /\ ~(n = q /\ s = d)
        PROVE  RowOf(k2, n, s) = RowOf(k, n, s)
    <3>1. <<n, s>> \notin DOMAIN new
      BY <2>3 DEF TwoLists
    <3> QED
      BY <3>1, StoredRows
  <2> QED
    BY <2>1, <2>2, <2>3 DEF ListOf
<1> QED
  BY <1>1 DEF SetLists

\* The same with Updated, for lists that are not empty.
LEMMA TwoListsUpdated ==
    ASSUME NEW t, NEW k, NEW t2, NEW new, NEW x, NEW p, NEW c \in Containments,
           NEW q, NEW d \in Containments, NEW l1, NEW l2,
           DOMAIN t2 = DOMAIN t,
           \A n \in DOMAIN t : /\ t2[n].parent = IF n = x THEN q ELSE t[n].parent
                               /\ t2[n].annotations = t[n].annotations,
           TwoLists(new, p, c, l1, q, d, l2),
           RowOf(k, p, c) # <<>>, RowOf(k, q, d) # <<>>
    PROVE  SetLists(t, k, x, p, c, l1, q, d, l2, t2, Updated(k, new))
<1> DEFINE k2 == Updated(k, new)
<1>1. ASSUME NEW n \in DOMAIN t, NEW s \in Slots
      PROVE  /\ n = p /\ s = c => ListOf(t2, k2, n, s) = l1
             /\ n = q /\ s = d => ListOf(t2, k2, n, s) = l2
             /\ ~(n = p /\ s = c) /\ ~(n = q /\ s = d) => ListOf(t2, k2, n, s) = ListOf(t, k, n, s)
  <2>1. c # Annotations /\ d # Annotations
    BY AnnotationsAssumption
  <2>4. <<p, c>> \in DOMAIN k /\ <<q, d>> \in DOMAIN k
    BY DEF RowOf
  <2>2. RowOf(k2, p, c) = l1 /\ RowOf(k2, q, d) = l2
    BY <2>4, UpdatedRows DEF TwoLists
  <2>3. ASSUME ~(n = p /\ s = c) /\ ~(n = q /\ s = d)
        PROVE  RowOf(k2, n, s) = RowOf(k, n, s)
    <3>1. <<n, s>> \notin DOMAIN new
      BY <2>3 DEF TwoLists
    <3> QED
      BY <3>1, UpdatedRows
  <2> QED
    BY <2>1, <2>2, <2>3 DEF ListOf
<1> QED
  BY <1>1 DEF SetLists

\* MoveChildFromContainmentInOtherParent: stray when the new parent is below the node.
LEMMA MoveChildFromContainmentInOtherParentKeeps ==
    ASSUME Typed(nodes, containments), Well(nodes, containments),
           MoveChildFromContainmentInOtherParent
    PROVE  Sound' /\ stray' \in BOOLEAN /\ \E a, b \in Ids : Tells(a, b)
           /\ (~stray' => NodeMoves)
<1>1. PICK old, new, x \in DOMAIN nodes, c, d \in Containments, i \in 0..MaxList - 1 :
      \E j \in AddPlaces(new, d) :
          /\ HasAt(children(old, c), i, x)
          /\ MayMove(x, old, new, c, d)
          /\ Execute(WithParent(nodes, x, new),
                     Stored(containments, Moved(x, <<old, c>>, i, <<new, d>>, j, 0)),
                     new \notin Subtree(x))
          /\ Tells(old, new)
  BY DEF MoveChildFromContainmentInOtherParent
<1>2. PICK j \in AddPlaces(new, d) :
          /\ HasAt(children(old, c), i, x)
          /\ old # new
          /\ nodes' = WithParent(nodes, x, new)
          /\ containments' = Stored(containments, Moved(x, <<old, c>>, i, <<new, d>>, j, 0))
          /\ stray' = ~(new \notin Subtree(x))
          /\ Tells(old, new)
  BY <1>1 DEF MayMove, Execute
<1> DEFINE m == Moved(x, <<old, c>>, i, <<new, d>>, j, 0)
           s1 == children(old, c)
           s2 == children(new, d)
           l1 == Splice(s1, i, 1, <<>>)
           l2 == Splice(s2, j, 0, <<x>>)
<1>3. /\ At(nodes, containments, old, c, i, x)
      /\ ListOf(nodes, containments, old, c) = s1 /\ c \in Slots /\ i \in Nat
  BY <1>2, ChildAt
<1>4. old \in Ids /\ new \in Ids /\ x \in Ids /\ s1 \in Seq(Ids) /\ s2 \in Seq(Ids)
  BY RowTypes, Accessors
<1>5. ListOf(nodes, containments, new, d) = s2 /\ d \in Slots
  BY Accessors, AnnotationsAssumption DEF ListOf, Slots
<1>6. j \in Int
  BY <1>4, LenProperties DEF AddPlaces
<1>7. TwoLists(m, old, c, l1, new, d, l2)
  <2>1. ASSUME NEW n
        PROVE  TwoLists(Moved(x, <<old, c>>, i, <<new, d>>, j, n),
                        old, c, l1, new, d, Splice(s2, j, n, <<x>>))
    BY <1>2, MovedToOther
  <2> QED
    BY <2>1
<1>8. containments' = Stored(containments, m)
  BY <1>2
<1>61. i \in Int
  OBVIOUS
<1> HIDE DEF m, s1, s2
<1>9. l1 \in Seq(Ids) /\ l2 \in Seq(Ids)
  <2>1. Splice(s1, i, 1, <<>>) \in Seq(Ids)
    BY <1>4, <1>61, SpliceTypes
  <2>2. Splice(s2, j, 0, <<x>>) \in Seq(Ids)
    BY <1>4, <1>6, SpliceTypes
  <2> QED
    BY <2>1, <2>2
<1> HIDE DEF l1, l2
<1>10. /\ DOMAIN nodes' = DOMAIN nodes
       /\ \A n \in DOMAIN nodes :
              /\ nodes'[n].parent = IF n = x THEN new ELSE nodes[n].parent
              /\ nodes'[n].annotations = nodes[n].annotations
  <2>1. ParentChanged(nodes, x, new, nodes')
    BY <1>2, ParentsKept
  <2> QED
    BY <2>1 DEF ParentChanged
<1>11. Typed(nodes', containments)
  BY <1>2, ParentTypes
<1>12. Typed(nodes', containments')
  <2>1. \A h \in DOMAIN m : m[h] \in Seq(Ids)
    BY <1>7, <1>9 DEF TwoLists
  <2>2. DOMAIN m \subseteq (DOMAIN nodes') \X Containments
    BY <1>7, <1>10, InProduct DEF TwoLists
  <2> QED
    BY <2>1, <2>2, <1>8, <1>11, StoredTypes
<1>13. SetLists(nodes, containments, x, old, c, l1, new, d, l2, nodes', containments')
  BY <1>7, <1>8, <1>10, TwoListsStored
<1>14. ASSUME ~stray' PROVE Well(nodes', containments') /\ NodeMoves
  <2>1. new \notin Under(ParentsOf(nodes), x)
    BY <1>2, <1>14, SubtreeIs
  <2>2. Well(nodes', containments')
    BY <2>1, <1>2, <1>3, <1>5, <1>6, <1>13, MoveBetween DEF l1, l2
  <2>3. Moves(nodes, containments, x, old, c, i, new, d, j, nodes', containments')
    BY <2>1, <1>2, <1>3, <1>5, <1>6, <1>13, MovesBetween DEF l1, l2
  <2> QED
    BY <2>2, <2>3, <1>2 DEF NodeMoves
<1> QED
  BY <1>2, <1>4, <1>12, <1>14 DEF Sound

\* MoveChildFromOtherContainmentInSameParent: stray when the containment is the same.
LEMMA MoveChildFromOtherContainmentInSameParentKeeps ==
    ASSUME Typed(nodes, containments), Well(nodes, containments),
           MoveChildFromOtherContainmentInSameParent
    PROVE  Sound' /\ stray' \in BOOLEAN /\ \E a, b \in Ids : Tells(a, b)
           /\ (~stray' => NodeMoves)
<1>1. PICK p, x \in DOMAIN nodes, c, d \in Containments, i \in 0..MaxList - 1 :
      \E j \in AddPlaces(p, d) :
          /\ HasAt(children(p, c), i, x)
          /\ Execute(nodes, Stored(containments, Moved(x, <<p, c>>, i, <<p, d>>, j, 0)), c # d)
          /\ Tells(p, p)
  BY DEF MoveChildFromOtherContainmentInSameParent
<1>2. PICK j \in AddPlaces(p, d) :
          /\ HasAt(children(p, c), i, x)
          /\ nodes' = nodes
          /\ containments' = Stored(containments, Moved(x, <<p, c>>, i, <<p, d>>, j, 0))
          /\ stray' = ~(c # d)
          /\ Tells(p, p)
  BY <1>1 DEF Execute
<1> DEFINE m == Moved(x, <<p, c>>, i, <<p, d>>, j, 0)
           s1 == children(p, c)
           s2 == children(p, d)
           l1 == Splice(s1, i, 1, <<>>)
           l2 == Splice(s2, j, 0, <<x>>)
<1>3. /\ At(nodes, containments, p, c, i, x)
      /\ ListOf(nodes, containments, p, c) = s1 /\ c \in Slots /\ i \in Nat
  BY <1>2, ChildAt
<1>4. p \in Ids /\ x \in Ids /\ s1 \in Seq(Ids) /\ s2 \in Seq(Ids)
  BY RowTypes, Accessors
<1>5. ListOf(nodes, containments, p, d) = s2 /\ d \in Slots
  BY Accessors, AnnotationsAssumption DEF ListOf, Slots
<1>6. j \in Int
  BY <1>4, LenProperties DEF AddPlaces
<1>7. ASSUME c # d PROVE TwoLists(m, p, c, l1, p, d, l2)
  <2>1. ASSUME NEW n
        PROVE  TwoLists(Moved(x, <<p, c>>, i, <<p, d>>, j, n),
                        p, c, l1, p, d, Splice(s2, j, n, <<x>>))
    BY <1>7, MovedToOther
  <2> QED
    BY <2>1
<1>71. ASSUME c = d PROVE OneList(m, p, c, Splice(Splice(s1, j, 0, <<x>>), i, 1, <<>>))
  <2>1. ASSUME NEW n
        PROVE  OneList(Moved(x, <<p, c>>, i, <<p, c>>, j, n),
                       p, c, Splice(Splice(s1, j, n, <<x>>), i, 1, <<>>))
    BY MovedInOne
  <2> QED
    BY <2>1, <1>71
<1>8. containments' = Stored(containments, m)
  BY <1>2
<1>61. i \in Int
  OBVIOUS
<1> HIDE DEF m, s1, s2
<1>9. l1 \in Seq(Ids) /\ l2 \in Seq(Ids)
  <2>1. Splice(s1, i, 1, <<>>) \in Seq(Ids)
    BY <1>4, <1>61, SpliceTypes
  <2>2. Splice(s2, j, 0, <<x>>) \in Seq(Ids)
    BY <1>4, <1>6, SpliceTypes
  <2> QED
    BY <2>1, <2>2
<1>91. Splice(Splice(s1, j, 0, <<x>>), i, 1, <<>>) \in Seq(Ids)
  <2>1. Splice(s1, j, 0, <<x>>) \in Seq(Ids)
    BY <1>4, <1>6, SpliceTypes
  <2> QED
    BY <2>1, <1>61, <1>4, SpliceTypes
<1> HIDE DEF l1, l2
<1>12. Typed(nodes', containments')
  <2>1. \A h \in DOMAIN m : m[h] \in Seq(Ids)
    BY <1>7, <1>71, <1>9, <1>91 DEF TwoLists, OneList
  <2>2. DOMAIN m \subseteq (DOMAIN nodes) \X Containments
    BY <1>7, <1>71, InProduct DEF TwoLists, OneList
  <2> QED
    BY <2>1, <2>2, <1>2, <1>8, StoredTypes
<1>13. /\ nodes[x].parent = p /\ p \notin Under(ParentsOf(nodes), x)
  BY <1>3, AtIsListed, ListedOnce
<1>14. ASSUME ~stray' PROVE Well(nodes', containments') /\ NodeMoves
  <2>1. c # d
    BY <1>2, <1>14
  <2>2. SetLists(nodes, containments, x, p, c, l1, p, d, l2, nodes', containments')
    BY <2>1, <1>2, <1>7, <1>8, <1>13, TwoListsStored
  <2>3. Well(nodes', containments')
    BY <2>1, <2>2, <1>3, <1>5, <1>6, <1>13, MoveBetween DEF l1, l2
  <2>4. Moves(nodes, containments, x, p, c, i, p, d, j, nodes', containments')
    BY <2>1, <2>2, <1>3, <1>5, <1>6, <1>13, MovesBetween DEF l1, l2
  <2> QED
    BY <2>3, <2>4, <1>2 DEF NodeMoves
<1> QED
  BY <1>2, <1>4, <1>12, <1>14 DEF Sound

\* One list of children changes, and no parent.
LEMMA OneListUpdated ==
    ASSUME NEW t, NEW k, NEW t2, NEW new, NEW p, NEW c \in Containments, NEW list,
           DOMAIN t2 = DOMAIN t,
           \A n \in DOMAIN t : /\ t2[n].parent = t[n].parent
                               /\ t2[n].annotations = t[n].annotations,
           OneList(new, p, c, list), RowOf(k, p, c) # <<>>
    PROVE  SetList(t, k, p, c, list, t2, Updated(k, new))
<1> DEFINE k2 == Updated(k, new)
<1>1. ASSUME NEW n \in DOMAIN t, NEW s \in Slots
      PROVE  ListOf(t2, k2, n, s) = IF n = p /\ s = c THEN list ELSE ListOf(t, k, n, s)
  <2>1. c # Annotations
    BY AnnotationsAssumption
  <2>4. <<p, c>> \in DOMAIN k
    BY DEF RowOf
  <2>2. RowOf(k2, p, c) = list
    BY <2>4, UpdatedRows DEF OneList
  <2>3. ASSUME ~(n = p /\ s = c) PROVE RowOf(k2, n, s) = RowOf(k, n, s)
    <3>1. <<n, s>> \notin DOMAIN new
      BY <2>3 DEF OneList
    <3> QED
      BY <3>1, UpdatedRows
  <2> QED
    BY <2>1, <2>2, <2>3 DEF ListOf
<1> QED
  BY <1>1 DEF SetList

\* Moved gives lists of ids.
LEMMA MovedTypes ==
    ASSUME NEW x \in Ids, NEW p, NEW c, NEW q, NEW d,
           children(p, c) \in Seq(Ids), children(q, d) \in Seq(Ids),
           NEW i \in Int, NEW j \in Int,
           NEW m, m = Moved(x, <<p, c>>, i, <<q, d>>, j, 1)
    PROVE  \A h \in DOMAIN m : m[h] \in Seq(Ids)
<1> DEFINE s1 == children(p, c)
           s2 == children(q, d)
<1>1. s1 \in Seq(Ids) /\ s2 \in Seq(Ids)
  OBVIOUS
<1>2. ASSUME NEW n, ~(p = q /\ c = d)
      PROVE  TwoLists(Moved(x, <<p, c>>, i, <<q, d>>, j, n),
                      p, c, Splice(s1, i, 1, <<>>), q, d, Splice(s2, j, n, <<x>>))
  BY <1>2, MovedToOther
<1>3. ASSUME NEW n
      PROVE  OneList(Moved(x, <<p, c>>, i, <<p, c>>, j, n),
                     p, c, Splice(Splice(s1, j, n, <<x>>), i, 1, <<>>))
  BY MovedInOne
<1> HIDE DEF s1, s2
<1>4. Splice(s1, i, 1, <<>>) \in Seq(Ids)
  BY <1>1, SpliceTypes
<1>5. Splice(s2, j, 1, <<x>>) \in Seq(Ids)
  BY <1>1, SpliceTypes
<1>6. Splice(Splice(s1, j, 1, <<x>>), i, 1, <<>>) \in Seq(Ids)
  <2>1. Splice(s1, j, 1, <<x>>) \in Seq(Ids)
    BY <1>1, SpliceTypes
  <2> QED
    BY <2>1, SpliceTypes
<1>7. CASE p = q /\ c = d
  <2>1. OneList(m, p, c, Splice(Splice(s1, j, 1, <<x>>), i, 1, <<>>))
    BY <1>3, <1>7
  <2> QED
    BY <2>1, <1>6 DEF OneList
<1>8. CASE ~(p = q /\ c = d)
  <2>1. TwoLists(m, p, c, Splice(s1, i, 1, <<>>), q, d, Splice(s2, j, 1, <<x>>))
    BY <1>2, <1>8
  <2> QED
    BY <2>1, <1>4, <1>5 DEF TwoLists
<1> QED
  BY <1>7, <1>8

\* A child takes the place of y, in its own containment or another one.
LEMMA MoveOverChild ==
    ASSUME Typed(nodes, containments), Well(nodes, containments),
           NEW p, NEW c \in Containments, NEW i, NEW x, At(nodes, containments, p, c, i, x),
           NEW q, NEW d \in Containments, NEW j, NEW y, At(nodes, containments, q, d, j, y),
           ListOf(nodes, containments, p, c) = children(p, c),
           ListOf(nodes, containments, q, d) = children(q, d),
           children(p, c) # <<>>, children(q, d) # <<>>,
           x \notin Under(ParentsOf(nodes), y), q \notin Under(ParentsOf(nodes), x),
           NEW t1, t1 = Deleted(Subtree(y)), NEW k1, k1 = DeletedLists(Subtree(y)),
           NEW t2, DOMAIN t2 = DOMAIN t1,
           \A n \in DOMAIN t1 : /\ t2[n].parent = IF n = x THEN q ELSE t1[n].parent
                                /\ t2[n].annotations = t1[n].annotations,
           NEW m, m = Moved(x, <<p, c>>, i, <<q, d>>, j, 1)
    PROVE  /\ Well(t2, Updated(k1, m))
           /\ MovesOver(nodes, containments, x, p, c, i, q, d, j, y, t2, Updated(k1, m))
<1> DEFINE t == nodes
           k == containments
           s1 == children(p, c)
           s2 == children(q, d)
           gone == Under(ParentsOf(nodes), y)
<1>1. /\ Typed(t1, k1) /\ DeletedTables(t, k, y, t1, k1)
      /\ q \in DOMAIN t1 /\ ListOf(t1, k1, q, d) = s2
  BY DeletesListed
<1>2. Listed(t, k, p, c, x) /\ s1 \in Seq(Ids) /\ OnceEach(s1)
  BY AtIsListed
<1>3. x \in DOMAIN t /\ t[x].parent = p /\ p \in DOMAIN t
  BY <1>2, ListedOnce DEF Listed
<1>4. p \in DOMAIN t1
  <2>1. p \notin gone
    BY <1>3, UnderClosed, NamedIs
  <2> QED
    BY <2>1, <1>1, <1>3 DEF DeletedTables
<1>5. c \in Slots /\ d \in Slots /\ c # Annotations /\ d # Annotations
  BY AnnotationsAssumption DEF Slots
<1>6. ListOf(t1, k1, p, c) = s1
  BY <1>1, <1>4, <1>5 DEF DeletedTables
<1>7. RowOf(k1, p, c) = s1 /\ RowOf(k1, q, d) = s2
  BY <1>1, <1>5, <1>6 DEF ListOf
<1>8. /\ i \in Nat /\ i < Len(s1) /\ s1[i + 1] = x
      /\ j \in Nat /\ j < Len(s2) /\ s2[j + 1] = y
  BY DEF At
<1>9. x # y
  BY <1>3, UnderClosed, NamedIs
<1>10. CASE p = q /\ c = d
  <2> DEFINE list == Splice(Splice(s1, j, 1, <<x>>), i, 1, <<>>)
  <2>1. OneList(m, p, c, list)
    <3>1. ASSUME NEW n
          PROVE  OneList(Moved(x, <<p, c>>, i, <<p, c>>, j, n),
                         p, c, Splice(Splice(s1, j, n, <<x>>), i, 1, <<>>))
      BY MovedInOne
    <3> QED
      BY <3>1, <1>10
  <2>2. \A n \in DOMAIN t1 : /\ t2[n].parent = t1[n].parent
                             /\ t2[n].annotations = t1[n].annotations
    BY <1>1, <1>3, <1>10 DEF DeletedTables
  <2>3. s1 = s2 /\ i # j
    BY <1>8, <1>9, <1>10
  <2>6. s1 # <<>>
    OBVIOUS
  <2> HIDE DEF s1, s2
  <2>4. Entries(list) = Entries(s1) \ {y} /\ OnceEach(list)
    <3>1. list = Splice(Splice(s1, j, 1, <<s1[i + 1]>>), i, 1, <<>>)
      BY <1>8
    <3> HIDE DEF list
    <3> QED
      BY <3>1, <2>3, <1>2, <1>8, SpliceMovesOver
  <2> HIDE DEF list
  <2>5. SetList(t1, k1, p, c, list, t2, Updated(k1, m))
    BY <2>1, <2>2, <2>6, <1>7, OneListUpdated
  <2>7. At(t, k, p, c, j, y)
    BY <1>10
  <2>8. Well(t2, Updated(k1, m))
    BY <2>4, <2>5, <2>7, <1>1, RemoveListed DEF s1
  <2>9. MovesOver(t, k, x, p, c, i, p, c, j, y, t2, Updated(k1, m))
    BY <2>5, <2>7, <1>1, <1>9, MovesOverInList DEF list, s1
  <2> QED
    BY <2>8, <2>9, <1>10
<1>11. CASE ~(p = q /\ c = d)
  <2> DEFINE l1 == Splice(s1, i, 1, <<>>)
             l2 == Splice(s2, j, 1, <<x>>)
  <2>1. TwoLists(m, p, c, l1, q, d, l2)
    <3>1. ASSUME NEW n
          PROVE  TwoLists(Moved(x, <<p, c>>, i, <<q, d>>, j, n),
                          p, c, l1, q, d, Splice(s2, j, n, <<x>>))
      BY <1>11, MovedToOther
    <3> QED
      BY <3>1
  <2>2. s1 # <<>> /\ s2 # <<>>
    OBVIOUS
  <2> HIDE DEF s1, s2, l1, l2
  <2>3. SetLists(t1, k1, x, p, c, l1, q, d, l2, t2, Updated(k1, m))
    BY <2>1, <2>2, <1>7, TwoListsUpdated
  <2>4. Well(t2, Updated(k1, m))
    BY <2>3, <1>1, <1>11, MoveOverBetween DEF l1, l2, s1, s2
  <2>5. MovesOver(t, k, x, p, c, i, q, d, j, y, t2, Updated(k1, m))
    BY <2>3, <1>1, <1>11, MovesOverBetween DEF l1, l2, s1, s2
  <2> QED
    BY <2>4, <2>5
<1> QED
  BY <1>10, <1>11

\* MoveAndReplaceChildFromContainmentInOtherParent: stray when the node is below the one it
\* replaces, or its new parent below it.
LEMMA MoveAndReplaceChildFromContainmentInOtherParentKeeps ==
    ASSUME Typed(nodes, containments), Well(nodes, containments),
           MoveAndReplaceChildFromContainmentInOtherParent
    PROVE  Sound' /\ stray' \in BOOLEAN /\ \E a, b \in Ids : Tells(a, b)
           /\ (~stray' => NodeMovesOver)
<1>0. PICK old, new, x, y \in DOMAIN nodes, c, d \in Containments, i, j \in 0..MaxList - 1 :
          /\ HasAt(children(old, c), i, x)
          /\ HasAt(children(new, d), j, y)
          /\ QueryEnds(y)
          /\ Execute(WithParent(Deleted(Subtree(y)), x, new),
                     Updated(DeletedLists(Subtree(y)),
                             Moved(x, <<old, c>>, i, <<new, d>>, j, 1)),
                     x \notin Subtree(y) /\ new \notin Subtree(x))
          /\ Tells(old, new)
  BY DEF MoveAndReplaceChildFromContainmentInOtherParent
<1> DEFINE t1 == Deleted(Subtree(y))
           k1 == DeletedLists(Subtree(y))
           m == Moved(x, <<old, c>>, i, <<new, d>>, j, 1)
<1>1. /\ nodes' = WithParent(t1, x, new)
      /\ containments' = Updated(k1, m)
      /\ stray' = ~(x \notin Subtree(y) /\ new \notin Subtree(x))
  BY <1>0 DEF Execute
<1>2. /\ At(nodes, containments, old, c, i, x)
      /\ ListOf(nodes, containments, old, c) = children(old, c) /\ children(old, c) # <<>>
  BY <1>0, ChildAt
<1>3. /\ At(nodes, containments, new, d, j, y)
      /\ ListOf(nodes, containments, new, d) = children(new, d) /\ children(new, d) # <<>>
  BY <1>0, ChildAt
<1>4. Typed(t1, k1) /\ new \in DOMAIN t1
  BY <1>3, DeletesListed
<1>5. /\ old \in Ids /\ new \in Ids /\ x \in Ids /\ i \in Int /\ j \in Int
      /\ children(old, c) \in Seq(Ids) /\ children(new, d) \in Seq(Ids)
  BY RowTypes, Accessors
<1>6. \A h \in DOMAIN m : m[h] \in Seq(Ids)
  BY <1>5, MovedTypes
<1>7. ParentChanged(t1, x, new, nodes')
  <2> HIDE DEF t1
  <2> QED
    BY <1>1, <1>4, ParentsKept
<1>8. Typed(nodes', containments')
  <2> HIDE DEF t1, k1, m
  <2>1. Typed(nodes', k1)
    BY <1>1, <1>4, ParentTypes
  <2> QED
    BY <2>1, <1>1, <1>6, UpdatedTypes
<1>9. ASSUME ~stray' PROVE Well(nodes', containments') /\ NodeMovesOver
  <2>1. x \notin Under(ParentsOf(nodes), y) /\ new \notin Under(ParentsOf(nodes), x)
    BY <1>1, <1>9, SubtreeIs
  <2>2. /\ DOMAIN nodes' = DOMAIN t1
        /\ \A n \in DOMAIN t1 : /\ nodes'[n].parent = IF n = x THEN new ELSE t1[n].parent
                                /\ nodes'[n].annotations = t1[n].annotations
    BY <1>7 DEF ParentChanged
  <2> HIDE DEF t1, k1, m
  <2>3. /\ Well(nodes', Updated(k1, m))
        /\ MovesOver(nodes, containments, x, old, c, i, new, d, j, y, nodes', Updated(k1, m))
    BY <2>1, <2>2, <1>2, <1>3, MoveOverChild DEF t1, k1, m
  <2> QED
    BY <2>3, <1>0, <1>1 DEF NodeMovesOver
<1> QED
  BY <1>0, <1>1, <1>5, <1>8, <1>9 DEF Sound

\* MoveAndReplaceChildFromOtherContainmentInSameParent: stray when it replaces itself.
LEMMA MoveAndReplaceChildFromOtherContainmentInSameParentKeeps ==
    ASSUME Typed(nodes, containments), Well(nodes, containments),
           MoveAndReplaceChildFromOtherContainmentInSameParent
    PROVE  Sound' /\ stray' \in BOOLEAN /\ \E a, b \in Ids : Tells(a, b)
           /\ (~stray' => NodeMovesOver)
<1>0. PICK p, x, y \in DOMAIN nodes, c, d \in Containments, i, j \in 0..MaxList - 1 :
          /\ HasAt(children(p, c), i, x)
          /\ HasAt(children(p, d), j, y)
          /\ QueryEnds(y)
          /\ Execute(Deleted(Subtree(y)),
                     Updated(DeletedLists(Subtree(y)), Moved(x, <<p, c>>, i, <<p, d>>, j, 1)),
                     x # y)
          /\ Tells(p, p)
  BY DEF MoveAndReplaceChildFromOtherContainmentInSameParent
<1> DEFINE t1 == Deleted(Subtree(y))
           k1 == DeletedLists(Subtree(y))
           m == Moved(x, <<p, c>>, i, <<p, d>>, j, 1)
<1>1. /\ nodes' = t1
      /\ containments' = Updated(k1, m)
      /\ stray' = ~(x # y)
  BY <1>0 DEF Execute
<1>2. /\ At(nodes, containments, p, c, i, x)
      /\ ListOf(nodes, containments, p, c) = children(p, c) /\ children(p, c) # <<>>
  BY <1>0, ChildAt
<1>3. /\ At(nodes, containments, p, d, j, y)
      /\ ListOf(nodes, containments, p, d) = children(p, d) /\ children(p, d) # <<>>
  BY <1>0, ChildAt
<1>4. Typed(t1, k1) /\ DeletedTables(nodes, containments, y, t1, k1)
  BY <1>3, DeletesListed
<1>5. /\ p \in Ids /\ x \in Ids /\ i \in Int /\ j \in Int
      /\ children(p, c) \in Seq(Ids) /\ children(p, d) \in Seq(Ids)
  BY RowTypes, Accessors
<1>6. \A h \in DOMAIN m : m[h] \in Seq(Ids)
  BY <1>5, MovedTypes
<1>8. Typed(nodes', containments')
  <2> HIDE DEF t1, k1, m
  <2> QED
    BY <1>1, <1>4, <1>6, UpdatedTypes
<1>7. /\ x \in DOMAIN nodes /\ nodes[x].parent = p /\ p \notin Under(ParentsOf(nodes), x)
      /\ y \in DOMAIN nodes /\ p \notin Under(ParentsOf(nodes), y)
  BY <1>2, <1>3, AtIsListed, ListedOnce
<1>9. ASSUME ~stray' PROVE Well(nodes', containments') /\ NodeMovesOver
  <2>1. x \notin Under(ParentsOf(nodes), y)
    <3>1. x # y
      BY <1>1, <1>9
    <3>2. x \in Under(ParentsOf(nodes), y) => ParentsOf(nodes)[x] \in Under(ParentsOf(nodes), y)
      BY <3>1, UnderParts
    <3>3. ParentsOf(nodes)[x] = p
      BY <1>7, NamedIs
    <3> QED
      BY <3>2, <3>3, <1>7
  <2>2. /\ DOMAIN nodes' = DOMAIN t1
        /\ \A n \in DOMAIN t1 : /\ nodes'[n].parent = IF n = x THEN p ELSE t1[n].parent
                                /\ nodes'[n].annotations = t1[n].annotations
    <3> HIDE DEF t1
    <3> QED
      BY <1>1, <1>4, <1>7 DEF DeletedTables
  <2> HIDE DEF t1, k1, m
  <2>3. /\ Well(nodes', Updated(k1, m))
        /\ MovesOver(nodes, containments, x, p, c, i, p, d, j, y, nodes', Updated(k1, m))
    BY <2>1, <2>2, <1>2, <1>3, <1>7, MoveOverChild DEF t1, k1, m
  <2> QED
    BY <2>3, <1>0, <1>1 DEF NodeMovesOver
<1> QED
  BY <1>0, <1>1, <1>5, <1>8, <1>9 DEF Sound

\* MoveAndReplaceAnnotationFromOtherParent: the parent column is updated, and both lists.
LEMMA MoveAndReplaceAnnotationFromOtherParentKeeps ==
    ASSUME Typed(nodes, containments), Well(nodes, containments),
           MoveAndReplaceAnnotationFromOtherParent
    PROVE  Sound' /\ stray' \in BOOLEAN /\ \E a, b \in Ids : Tells(a, b)
           /\ (~stray' => NodeMovesOver)
<1>0. PICK old, new, x \in DOMAIN nodes, y \in Ids, i, j \in 0..MaxList - 1 :
          /\ HasAt(annotations(old), i, x)
          /\ HasAt(annotations(new), j, y)
          /\ Execute(WithAnnotations(
                         WithAnnotations(
                             WithParent(Deleted(Subtree(y)), x, new),
                             old, Splice(annotations(old), i, 1, <<>>)),
                         new, Splice(annotations(new), j, 1, <<x>>)),
                     DeletedLists(Subtree(y)),
                     old # new /\ x \notin Subtree(y) /\ new \notin Subtree(x))
          /\ Tells(old, new)
  BY DEF MoveAndReplaceAnnotationFromOtherParent
<1> DEFINE t == nodes
           k == containments
           s1 == annotations(old)
           s2 == annotations(new)
           l1 == Splice(s1, i, 1, <<>>)
           l2 == Splice(s2, j, 1, <<x>>)
           t1 == Deleted(Subtree(y))
           k1 == DeletedLists(Subtree(y))
           t2 == WithParent(t1, x, new)
           t3 == WithAnnotations(t2, old, l1)
           t4 == WithAnnotations(t3, new, l2)
<1>1. /\ nodes' = t4
      /\ containments' = k1
      /\ stray' = ~(old # new /\ x \notin Subtree(y) /\ new \notin Subtree(x))
  BY <1>0 DEF Execute
<1>2. At(t, k, old, Annotations, i, x) /\ ListOf(t, k, old, Annotations) = s1
  BY <1>0, AnnotationAt
<1>3. At(t, k, new, Annotations, j, y) /\ ListOf(t, k, new, Annotations) = s2
  BY <1>0, AnnotationAt
<1>4. Typed(t1, k1) /\ new \in DOMAIN t1 /\ DeletedTables(t, k, y, t1, k1)
  BY <1>3, DeletesListed
<1>5. /\ old \in Ids /\ new \in Ids /\ x \in Ids /\ i \in Int /\ j \in Int
      /\ s1 \in Seq(Ids) /\ s2 \in Seq(Ids)
  BY RowTypes, Accessors
<1> HIDE DEF s1, s2
<1>6. l1 \in Seq(Ids) /\ l2 \in Seq(Ids)
  <2>1. Splice(s1, i, 1, <<>>) \in Seq(Ids)
    BY <1>5, SpliceTypes
  <2>2. Splice(s2, j, 1, <<x>>) \in Seq(Ids)
    BY <1>5, SpliceTypes
  <2> QED
    BY <2>1, <2>2
<1> HIDE DEF l1, l2, t1, k1
<1>7. ParentChanged(t1, x, new, t2)
  BY <1>4, ParentsKept
<1>8. /\ Typed(t2, k1)
      /\ \A n, s : n \in DOMAIN t1 => ListOf(t2, k1, n, s) = ListOf(t1, k1, n, s)
  BY <1>4, ParentTypes
<1> HIDE DEF t2
<1>9. Typed(t3, k1) /\ SetList(t2, k1, old, Annotations, l1, t3, k1)
  BY <1>6, <1>8, SetsAnnotations
<1> HIDE DEF t3
<1>10. Typed(t4, k1) /\ SetList(t3, k1, new, Annotations, l2, t4, k1)
  BY <1>6, <1>9, SetsAnnotations
<1> HIDE DEF t4
<1>11. ASSUME ~stray' PROVE Well(t4, k1) /\ NodeMovesOver
  <2>1. /\ old # new
        /\ x \notin Under(ParentsOf(t), y) /\ new \notin Under(ParentsOf(t), x)
    BY <1>1, <1>11, SubtreeIs
  <2>2. DOMAIN t2 = DOMAIN t1 /\ DOMAIN t3 = DOMAIN t1 /\ DOMAIN t4 = DOMAIN t1
    BY <1>7, <1>9, <1>10 DEF ParentChanged, SetList
  <2>3. \A n \in DOMAIN t1 : t4[n].parent = IF n = x THEN new ELSE t1[n].parent
    <3>1. \A n \in DOMAIN t1 : t2[n].parent = IF n = x THEN new ELSE t1[n].parent
      BY <1>7 DEF ParentChanged
    <3>2. \A n \in DOMAIN t1 : t3[n].parent = t2[n].parent /\ t4[n].parent = t3[n].parent
      BY <2>2, <1>9, <1>10 DEF SetList
    <3> QED
      BY <3>1, <3>2
  <2>4. ASSUME NEW n \in DOMAIN t1, NEW s \in Slots
        PROVE  /\ n = old /\ s = Annotations => ListOf(t4, k1, n, s) = l1
               /\ n = new /\ s = Annotations => ListOf(t4, k1, n, s) = l2
               /\ ~(n = old /\ s = Annotations) /\ ~(n = new /\ s = Annotations) =>
                      ListOf(t4, k1, n, s) = ListOf(t1, k1, n, s)
    <3>1. ListOf(t4, k1, n, s) = IF n = new /\ s = Annotations THEN l2 ELSE ListOf(t3, k1, n, s)
      BY <2>2, <1>10 DEF SetList
    <3>2. ListOf(t3, k1, n, s) = IF n = old /\ s = Annotations THEN l1 ELSE ListOf(t2, k1, n, s)
      BY <2>2, <1>9 DEF SetList
    <3>3. ListOf(t2, k1, n, s) = ListOf(t1, k1, n, s)
      BY <1>8
    <3> QED
      BY <3>1, <3>2, <3>3, <2>1
  <2>5. SetLists(t1, k1, x, old, Annotations, l1, new, Annotations, l2, t4, k1)
    BY <2>2, <2>3, <2>4 DEF SetLists
  <2>6. Well(t4, k1)
    BY <2>1, <2>5, <1>2, <1>3, <1>4, MoveOverBetween DEF l1, l2, s1, s2
  <2>7. MovesOver(t, k, x, old, Annotations, i, new, Annotations, j, y, t4, k1)
    BY <2>1, <2>5, <1>2, <1>3, <1>4, MovesOverBetween DEF l1, l2, s1, s2
  <2> QED
    BY <2>6, <2>7, <1>0, <1>1 DEF NodeMovesOver
<1> QED
  BY <1>0, <1>1, <1>5, <1>10, <1>11 DEF Sound

\* An event that tells of nodes has its type.
LEMMA TellsTyped ==
    ASSUME Typed(nodes', containments'), \E a, b \in Ids : Tells(a, b)
    PROVE  Told'
<1>1. PICK a \in Ids, b \in Ids : Tells(a, b)
  OBVIOUS
<1>2. PartitionIn(nodes', a) \in Ids
  <2>1. IsFiniteSet(DOMAIN nodes') /\ DOMAIN nodes' \subseteq Ids
    BY DEF Typed
  <2> QED
    BY <2>1, PartitionType
<1>3. event' = [partition |-> PartitionIn(nodes', a),
                crossed |-> PartitionIn(nodes', a) # PartitionIn(nodes', b)]
  BY <1>1, PartitionIsNext DEF Tells
<1> HIDE DEF PartitionIn
<1> QED
  BY <1>2, <1>3 DEF Told

--------------------------------------------------------------------------------
(***************************************************************************)
(* IInv is kept, and implies the properties.                               *)
(***************************************************************************)
\* The server starts with empty tables.
LEMMA InitInv ==
    ASSUME Init
    PROVE  IInv
<1>1. nodes = <<>> /\ containments = <<>> /\ stray = FALSE
  BY DEF Init
<1>2. DOMAIN nodes = {} /\ DOMAIN containments = {}
  BY <1>1
<1>3. Typed(nodes, containments)
  <2>1. IsFiniteSet(DOMAIN nodes)
    BY <1>2, FS_EmptySet
  <2>2. DOMAIN ParentsOf(nodes) = {}
    BY <1>2 DEF ParentsOf
  <2> QED
    BY <1>2, <2>1, <2>2 DEF Typed, NodeRows, ListRows, Parents
<1>4. Well(nodes, containments)
  <2>1. DOMAIN ParentsOf(nodes) = {}
    BY <1>2 DEF ParentsOf
  <2> QED
    BY <1>2, <2>1 DEF Well, Forest, Parents, ParentsNameWhatListsSay, ChildrenAreListed,
                      InOneSlot, Acyclic
<1>5. Told
  BY DEF Init, Told
<1> QED
  BY <1>1, <1>3, <1>4, <1>5 DEF IInv, Sound

\* Every command keeps IInv.
LEMMA CommandsKeep ==
    ASSUME IInv, Next
    PROVE  IInv' /\ (~stray' => OneChange)
<1> DEFINE Kept == Sound' /\ stray' \in BOOLEAN /\ \E a, b \in Ids : Tells(a, b)
           Meant == ~stray' => OneChange
<1>1. Typed(nodes, containments) /\ Well(nodes, containments)
  BY DEF IInv, Sound, Next
<1>2. ASSUME Kept PROVE IInv'
  <2>1. Typed(nodes', containments')
    BY <1>2 DEF Sound
  <2>2. Told'
    BY <1>2, <2>1, TellsTyped
  <2> QED
    BY <1>2, <2>2 DEF IInv
<1>3. CASE DeletePartition
  BY <1>1, <1>3, DeletePartitionKeeps DEF IInv, OneChange
<1>4. CASE AddPartition
  BY <1>1, <1>2, <1>4, AddPartitionKeeps DEF OneChange
<1>5. CASE AddChild
  BY <1>1, <1>2, <1>5, AddChildKeeps DEF OneChange
<1>6. CASE DeleteChild
  BY <1>1, <1>2, <1>6, DeleteChildKeeps DEF OneChange
<1>7. CASE ReplaceChild
  BY <1>1, <1>2, <1>7, ReplaceChildKeeps DEF OneChange
<1>8. CASE MoveChildFromContainmentInOtherParent
  BY <1>1, <1>2, <1>8, MoveChildFromContainmentInOtherParentKeeps DEF OneChange
<1>9. CASE MoveChildFromOtherContainmentInSameParent
  BY <1>1, <1>2, <1>9, MoveChildFromOtherContainmentInSameParentKeeps DEF OneChange
<1>10. CASE MoveChildInSameContainmentInSameParent
  BY <1>1, <1>2, <1>10, MoveChildInSameContainmentInSameParentKeeps DEF OneChange
<1>11. CASE MoveAndReplaceChildFromContainmentInOtherParent
  BY <1>1, <1>2, <1>11, MoveAndReplaceChildFromContainmentInOtherParentKeeps DEF OneChange
<1>12. CASE MoveAndReplaceChildFromOtherContainmentInSameParent
  BY <1>1, <1>2, <1>12, MoveAndReplaceChildFromOtherContainmentInSameParentKeeps DEF OneChange
<1>13. CASE MoveAndReplaceChildInSameContainmentInSameParent
  BY <1>1, <1>2, <1>13, MoveAndReplaceChildInSameContainmentInSameParentKeeps DEF OneChange
<1>14. CASE AddAnnotation
  BY <1>1, <1>2, <1>14, AddAnnotationKeeps DEF OneChange
<1>15. CASE DeleteAnnotation
  BY <1>1, <1>2, <1>15, DeleteAnnotationKeeps DEF OneChange
<1>16. CASE ReplaceAnnotation
  BY <1>1, <1>2, <1>16, ReplaceAnnotationKeeps DEF OneChange
<1>17. CASE MoveAnnotationFromOtherParent
  BY <1>1, <1>2, <1>17, MoveAnnotationFromOtherParentKeeps DEF OneChange
<1>18. CASE MoveAnnotationInSameParent
  BY <1>1, <1>2, <1>18, MoveAnnotationInSameParentKeeps DEF OneChange
<1>19. CASE MoveAndReplaceAnnotationFromOtherParent
  BY <1>1, <1>2, <1>19, MoveAndReplaceAnnotationFromOtherParentKeeps DEF OneChange
<1>20. CASE MoveAndReplaceAnnotationInSameParent
  BY <1>1, <1>2, <1>20, MoveAndReplaceAnnotationInSameParentKeeps DEF OneChange
<1> QED
  BY <1>3, <1>4, <1>5, <1>6, <1>7, <1>8, <1>9, <1>10, <1>11, <1>12,
     <1>13, <1>14, <1>15, <1>16, <1>17, <1>18, <1>19, <1>20 DEF Next

\* Every step does.
LEMMA NextInv ==
    ASSUME IInv, [Next]_vars
    PROVE  IInv'
<1>1. CASE Next
  BY <1>1, CommandsKeep
<1>2. CASE UNCHANGED vars
  <2>1. nodes' = nodes /\ containments' = containments /\ event' = event /\ stray' = stray
    BY <1>2 DEF vars
  <2> QED
    BY <2>1 DEF IInv, Sound, Told
<1> QED
  BY <1>1, <1>2

\* IInv implies the types.
LEMMA InvTypes ==
    ASSUME IInv
    PROVE  TypeOK
<1>1. Typed(nodes, containments) /\ stray \in BOOLEAN /\ Told
  BY DEF IInv, Sound
<1>2. DOMAIN nodes \subseteq Ids /\ \A n \in DOMAIN nodes : nodes[n] \in NodeRow
  BY <1>1 DEF Typed, NodeRows
<1>3. DOMAIN containments \subseteq Ids \X Containments
  BY <1>1 DEF Typed, ListRows
<1>4. \A j \in DOMAIN containments : containments[j] \in Seq(Ids) \ {<<>>}
  BY <1>1 DEF Typed, ListRows
<1> QED
  BY <1>1, <1>2, <1>3, <1>4 DEF TypeOK, Told

\* IInv implies that no row dangles.
LEMMA InvNoDanglingRows ==
    ASSUME IInv
    PROVE  NoDanglingRows
<1>1. Typed(nodes, containments)
  BY DEF IInv, Sound
<1>2. \A n \in DOMAIN nodes : nodes[n].parent \in DOMAIN nodes \union {None}
  BY <1>1, RowTypes
<1>3. \A j \in DOMAIN containments : j[1] \in DOMAIN nodes
  BY <1>1 DEF Typed, ListRows
<1> QED
  BY <1>2, <1>3 DEF NoDanglingRows

\* The lists that clients see are those of the tables.
LEMMA ListsAre ==
    /\ DOMAIN lists = DOMAIN nodes
    /\ \A n \in DOMAIN nodes, s \in Slots :
           lists[n][s] = ListOf(nodes, containments, n, s)
  BY Accessors DEF lists, ListOf, Slots

\* A place, as the model of the clients writes it.
MentionOf(n, s, i) == [node |-> n, slot |-> s, at |-> i]

\* The mentions of x are the places of the lists that hold it.
LEMMA MentionsAre ==
    ASSUME NEW x
    PROVE  /\ \A m \in Mentions(x) :
                  \E n \in DOMAIN nodes, s \in Slots :
                  \E i \in 1..Len(ListOf(nodes, containments, n, s)) :
                      /\ m = MentionOf(n, s, i)
                      /\ ListOf(nodes, containments, n, s)[i] = x
           /\ \A n \in DOMAIN nodes, s \in Slots :
                  \A i \in 1..Len(ListOf(nodes, containments, n, s)) :
                      ListOf(nodes, containments, n, s)[i] = x => MentionOf(n, s, i) \in Mentions(x)
<1>1. ASSUME NEW m, m \in Model!Places(lists)
      PROVE  \E n \in DOMAIN nodes, s \in Slots :
             \E i \in 1..Len(lists[n][s]) : m = MentionOf(n, s, i)
  BY <1>1, ListsAre DEF Model!Places, MentionOf, Slots
<1>2. \A n \in DOMAIN nodes, s \in Slots :
      \A i \in 1..Len(lists[n][s]) : MentionOf(n, s, i) \in Model!Places(lists)
  BY ListsAre DEF Model!Places, MentionOf, Slots
<1>3. \A n, s, i : Model!NodeAt(lists, MentionOf(n, s, i)) = lists[n][s][i]
  BY DEF Model!NodeAt, MentionOf
<1>4. Mentions(x) = {m \in Model!Places(lists) : Model!NodeAt(lists, m) = x}
  BY DEF Mentions
<1> HIDE DEF MentionOf
<1>5. ASSUME NEW m \in Mentions(x)
      PROVE  \E n \in DOMAIN nodes, s \in Slots :
             \E i \in 1..Len(ListOf(nodes, containments, n, s)) :
                 /\ m = MentionOf(n, s, i)
                 /\ ListOf(nodes, containments, n, s)[i] = x
  BY <1>1, <1>3, <1>4, ListsAre
<1>6. ASSUME NEW n \in DOMAIN nodes, NEW s \in Slots,
             NEW i \in 1..Len(ListOf(nodes, containments, n, s)),
             ListOf(nodes, containments, n, s)[i] = x
      PROVE  MentionOf(n, s, i) \in Mentions(x)
  BY <1>2, <1>3, <1>4, <1>6, ListsAre
<1> QED
  BY <1>5, <1>6

\* Tables that are a forest are a proper tree.
LEMMA TreeOfTables ==
    ASSUME Typed(nodes, containments), Well(nodes, containments)
    PROVE  Tree
<1>1. ASSUME NEW x, NEW m \in Mentions(x)
      PROVE  \E n \in DOMAIN nodes, u \in Slots :
             \E i \in 1..Len(ListOf(nodes, containments, n, u)) :
                 /\ m = MentionOf(n, u, i)
                 /\ ListOf(nodes, containments, n, u)[i] = x
                 /\ Listed(nodes, containments, n, u, x)
  BY MentionsAre DEF Listed, Entries
<1>2. ASSUME NEW x, NEW m \in Mentions(x)
      PROVE  x \in DOMAIN nodes /\ m.node = nodes[x].parent /\ nodes[x].parent # None
  <2>1. PICK n \in DOMAIN nodes, u \in Slots :
        \E i : m = MentionOf(n, u, i) /\ Listed(nodes, containments, n, u, x)
    BY <1>1
  <2>2. m.node = n
    BY <2>1 DEF MentionOf
  <2> QED
    BY <2>1, <2>2, ListedOnce
<1>3. ASSUME NEW x \in DOMAIN nodes, nodes[x].parent # None
      PROVE  \E m : Mentions(x) = {m}
  <2> DEFINE p == nodes[x].parent
  <2>1. p \in DOMAIN nodes
    BY <1>3, RowTypes
  <2>2. PICK u \in Slots : x \in Entries(ListOf(nodes, containments, p, u))
    <3>1. ChildrenAreListed(ParentsOf(nodes), Named(nodes, containments))
      BY DEF Well, Forest
    <3>2. x \in DOMAIN ParentsOf(nodes) /\ ParentsOf(nodes)[x] = p
      BY NamedIs
    <3>3. PICK u \in Slots : x \in Named(nodes, containments)[<<p, u>>]
      BY <1>3, <3>1, <3>2 DEF ChildrenAreListed
    <3> QED
      BY <2>1, <3>3, NamedIs
  <2> DEFINE list == ListOf(nodes, containments, p, u)
  <2>3. PICK i \in 1..Len(list) : list[i] = x
    BY <2>2 DEF Entries
  <2>4. MentionOf(p, u, i) \in Mentions(x)
    BY <2>1, <2>3, MentionsAre
  <2>5. ASSUME NEW m \in Mentions(x) PROVE m = MentionOf(p, u, i)
    <3>1. PICK n \in DOMAIN nodes, v \in Slots :
          \E j \in 1..Len(ListOf(nodes, containments, n, v)) :
              /\ m = MentionOf(n, v, j)
              /\ ListOf(nodes, containments, n, v)[j] = x
              /\ Listed(nodes, containments, n, v, x)
      BY <1>1
    <3>2. PICK j \in 1..Len(ListOf(nodes, containments, n, v)) :
              /\ m = MentionOf(n, v, j)
              /\ ListOf(nodes, containments, n, v)[j] = x
              /\ Listed(nodes, containments, n, v, x)
      BY <3>1
    <3>3. Listed(nodes, containments, p, u, x)
      BY <2>1, <2>2 DEF Listed
    <3>4. x \in Entries(ListOf(nodes, containments, p, u))
      BY <2>2
    <3>5. n = p /\ v = u
      BY <3>2, <3>4, <2>1, ListedOnce
    <3>6. OnceEach(list)
      BY <2>1 DEF Well
    <3>7. i = j
      BY <3>2, <3>5, <3>6, <2>3 DEF OnceEach
    <3> QED
      BY <3>2, <3>5, <3>7
  <2> QED
    BY <2>4, <2>5
<1>4. ASSUME NEW x \in DOMAIN nodes
      PROVE  /\ Cardinality(Mentions(x)) = IF nodes[x].parent = None THEN 0 ELSE 1
             /\ \A m \in Mentions(x) : m.node = nodes[x].parent
             /\ QueryEnds(x)
  <2>3. QueryEnds(x)
    <3>1. Acyclic(ParentsOf(nodes))
      BY DEF Well, Forest
    <3>2. ASSUME NEW m \in Subtree(x) PROVE nodes[m].parent \notin Subtree(m)
      <4>1. m \in DOMAIN nodes
        BY DEF Subtree
      <4> QED
        BY <3>1, <4>1, SubtreeIs, NamedIs DEF Acyclic
    <3> QED
      BY <3>2 DEF QueryEnds
  <2>1. nodes[x].parent = None => Cardinality(Mentions(x)) = 0
    <3>1. nodes[x].parent = None => Mentions(x) = {}
      BY <1>2
    <3> QED
      BY <3>1, FS_EmptySet
  <2>2. nodes[x].parent # None => Cardinality(Mentions(x)) = 1
    BY <1>3, FS_Singleton
  <2> QED
    BY <2>1, <2>2, <2>3, <1>2
<1>5. \A x \in Ids \ DOMAIN nodes : Mentions(x) = {}
  BY <1>2
<1> QED
  BY <1>4, <1>5 DEF Tree

--------------------------------------------------------------------------------
(***************************************************************************)
(* ModelTree: the lists of the nodes as one function.                      *)
(***************************************************************************)
\* The lists of the tables t and k.
ListsOf(t, k) == [n \in DOMAIN t |-> [s \in Slots |-> ListOf(t, k, n, s)]]

\* They are what the clients see, before and after a command.
LEMMA ListsAreOf ==
    /\ lists = ListsOf(nodes, containments)
    /\ lists' = ListsOf(nodes', containments')
<1>1. ASSUME NEW n, NEW s
      PROVE  (IF s = Annotations THEN annotations(n) ELSE children(n, s))
                 = ListOf(nodes, containments, n, s)
  BY Accessors DEF ListOf
<1>2. ASSUME NEW n, NEW s
      PROVE  (IF s = Annotations THEN annotations(n)' ELSE children(n, s)')
                 = ListOf(nodes', containments', n, s)
  BY DEF ListOf, annotations, children, RowOf
<1>3. lists = ListsOf(nodes, containments)
  BY <1>1 DEF lists, ListsOf, Slots
<1>4. lists' = ListsOf(nodes', containments')
  BY <1>2 DEF lists, ListsOf, Slots
<1> QED
  BY <1>3, <1>4

\* A function from nodes and slots.
IsTable(T, D) == T = [n \in D |-> [s \in Slots |-> T[n][s]]]

\* Two of them are equal when they agree on every slot.
LEMMA SameTable ==
    ASSUME NEW T, NEW V, NEW D, IsTable(T, D), IsTable(V, D),
           \A n \in D, s \in Slots : T[n][s] = V[n][s]
    PROVE  T = V
<1>1. [n \in D |-> [s \in Slots |-> T[n][s]]] = [n \in D |-> [s \in Slots |-> V[n][s]]]
  OBVIOUS
<1> QED
  BY <1>1 DEF IsTable

\* The lists of tables are one.
LEMMA ListsOfIs ==
    ASSUME NEW t, NEW k
    PROVE  /\ IsTable(ListsOf(t, k), DOMAIN t)
           /\ DOMAIN ListsOf(t, k) = DOMAIN t
           /\ \A n \in DOMAIN t, s \in Slots : ListsOf(t, k)[n][s] = ListOf(t, k, n, s)
<1>1. /\ DOMAIN ListsOf(t, k) = DOMAIN t
      /\ \A n \in DOMAIN t, s \in Slots : ListsOf(t, k)[n][s] = ListOf(t, k, n, s)
  BY DEF ListsOf
<1>2. IsTable(ListsOf(t, k), DOMAIN t)
  BY DEF ListsOf, IsTable
<1> QED
  BY <1>1, <1>2

\* An entry of one changes.
Changed(T, p, u, v) == [T EXCEPT ![p][u] = v]

\* It is one again.
LEMMA ChangedTable ==
    ASSUME NEW T, NEW D, IsTable(T, D), NEW p \in D, NEW u \in Slots, NEW v
    PROVE  /\ IsTable(Changed(T, p, u, v), D)
           /\ \A n \in D, s \in Slots :
                  Changed(T, p, u, v)[n][s] = IF n = p /\ s = u THEN v ELSE T[n][s]
<1>1. DOMAIN T = D /\ \A n \in D : DOMAIN T[n] = Slots
  <2> DEFINE F == [n \in D |-> [s \in Slots |-> T[n][s]]]
  <2>1. DOMAIN F = D /\ \A n \in D : DOMAIN F[n] = Slots
    OBVIOUS
  <2>2. T = F
    BY DEF IsTable
  <2> HIDE DEF F
  <2> QED
    BY <2>1, <2>2
<1> DEFINE V == [T EXCEPT ![p][u] = v]
<1>2. ASSUME NEW n \in D
      PROVE  V[n] = IF n = p THEN [T[p] EXCEPT ![u] = v] ELSE T[n]
  BY <1>1
<1>3. \A n \in D, s \in Slots : V[n][s] = IF n = p /\ s = u THEN v ELSE T[n][s]
  BY <1>1, <1>2
<1>4. \A n \in D : T[n] = [s \in Slots |-> T[n][s]]
  <2> DEFINE F == [n \in D |-> [s \in Slots |-> T[n][s]]]
  <2>1. \A n \in D : F[n] = [s \in Slots |-> T[n][s]]
    OBVIOUS
  <2>2. T = F
    BY DEF IsTable
  <2> HIDE DEF F
  <2> QED
    BY <2>1, <2>2
<1>5. ASSUME NEW n \in D PROVE V[n] = [s \in Slots |-> V[n][s]]
  <2>1. CASE n = p
    <3> DEFINE f == [T[p] EXCEPT ![u] = v]
    <3>1. f = [s \in Slots |-> f[s]]
      BY <1>1
    <3>2. V[n] = f
      BY <1>2, <2>1
    <3> HIDE DEF f, V
    <3> QED
      BY <3>1, <3>2
  <2>2. CASE n # p
    <3>1. V[n] = T[n]
      BY <1>2, <2>2
    <3> HIDE DEF V
    <3> QED
      BY <3>1, <1>4
  <2> QED
    BY <2>1, <2>2
<1>6. V = [n \in D |-> V[n]]
  BY <1>1
<1>7. IsTable(V, D)
  <2> HIDE DEF V
  <2>1. [n \in D |-> V[n]] = [n \in D |-> [s \in Slots |-> V[n][s]]]
    BY <1>5
  <2> QED
    BY <2>1, <1>6 DEF IsTable
<1>8. V = Changed(T, p, u, v)
  BY DEF Changed
<1> HIDE DEF V
<1> QED
  BY <1>3, <1>7, <1>8

\* Nodes leave one.
LEMMA SmallerTable ==
    ASSUME NEW T, NEW D, IsTable(T, D), NEW X
    PROVE  /\ IsTable(Model!Without(T, X), D \ X)
           /\ \A n \in D \ X : Model!Without(T, X)[n] = T[n]
<1>1. DOMAIN T = D
  <2> DEFINE F == [n \in D |-> [s \in Slots |-> T[n][s]]]
  <2>1. DOMAIN F = D
    OBVIOUS
  <2>2. T = F
    BY DEF IsTable
  <2> HIDE DEF F
  <2> QED
    BY <2>1, <2>2
<1> DEFINE W == Model!Without(T, X)
<1>2. W = [n \in D \ X |-> T[n]]
  <2>1. (DOMAIN T) \intersect (DOMAIN T \ X) = D \ X
    BY <1>1
  <2> QED
    BY <1>1, <2>1 DEF Model!Without, Model!Restrict
<1>4. \A n \in D : T[n] = [s \in Slots |-> T[n][s]]
  <2> DEFINE F == [n \in D |-> [s \in Slots |-> T[n][s]]]
  <2>1. \A n \in D : F[n] = [s \in Slots |-> T[n][s]]
    OBVIOUS
  <2>2. T = F
    BY DEF IsTable
  <2> HIDE DEF F
  <2> QED
    BY <2>1, <2>2
<1>3. \A n \in D \ X : W[n] = T[n]
  BY <1>2
<1>5. [n \in D \ X |-> T[n]] = [n \in D \ X |-> [s \in Slots |-> W[n][s]]]
  <2> HIDE DEF W
  <2> QED
    BY <1>3, <1>4
<1>6. IsTable(W, D \ X)
  <2> HIDE DEF W
  <2> QED
    BY <1>2, <1>5 DEF IsTable
<1> QED
  BY <1>3, <1>6

\* splice() at an index of the list, in two parts.
LEMMA SpliceIs ==
    ASSUME NEW S, NEW s \in Seq(S), NEW i \in 0..Len(s), NEW n, NEW items
    PROVE  Splice(s, i, n, items) = SubSeq(s, 1, i) \o items \o SubSeq(s, i + n + 1, Len(s))
<1> DEFINE from == CASE i >= 0 /\ i <= Len(s) -> i
                     [] i > Len(s) -> Len(s)
                     [] i < 0 /\ Len(s) + i >= 0 -> Len(s) + i
                     [] OTHER -> 0
<1>1. Splice(s, i, n, items) = SubSeq(s, 1, from) \o items \o SubSeq(s, from + n + 1, Len(s))
  BY DEF Splice
<1>2. from = i
  BY LenProperties
<1> HIDE DEF from
<1> QED
  BY <1>1, <1>2

\* RemoveAt, InsertAt and the change of one entry are splices; the model counts from 1.
LEMMA RemoveIs ==
    ASSUME NEW S, NEW s \in Seq(S), NEW i \in Nat, i < Len(s)
    PROVE  Model!RemoveAt(s, i + 1) = Splice(s, i, 1, <<>>)
<1> DEFINE nil == <<>>
           a == SubSeq(s, 1, i)
           b == SubSeq(s, i + 2, Len(s))
<1>1. Len(s) \in Nat /\ i + 1 \in 1..Len(s)
  BY LenProperties
<1>2. Splice(s, i, 1, nil) = a \o nil \o b
  <2>1. i \in 0..Len(s) /\ i + 1 + 1 = i + 2
    BY <1>1
  <2> HIDE DEF nil
  <2>2. Splice(s, i, 1, nil) = SubSeq(s, 1, i) \o nil \o SubSeq(s, i + 1 + 1, Len(s))
    BY <2>1, SpliceIs
  <2> QED
    BY <2>1, <2>2
<1>3. a \in Seq(S)
  <2>1. \A q \in 1..i : q \in 1..Len(s)
    BY <1>1
  <2>2. \A q \in 1..i : s[q] \in S
    BY <2>1, ElementOfSeq
  <2> QED
    BY <2>2, SubSeqProperties, <1>1
<1>4. a \o nil = a
  <2> HIDE DEF a
  <2> QED
    BY <1>3, ConcatEmptySeq
<1>5. Model!RemoveAt(s, i + 1) = a \o b
  <2>1. (i + 1) - 1 = i /\ (i + 1) + 1 = i + 2
    BY <1>1
  <2> QED
    BY <2>1 DEF Model!RemoveAt
<1> HIDE DEF a, b, nil
<1>6. Splice(s, i, 1, nil) = a \o b
  BY <1>2, <1>4
<1> QED
  BY <1>5, <1>6 DEF nil

\* Wherever splice() inserts, it is at some position of the list.
LEMMA InsertIs ==
    ASSUME NEW S, NEW s \in Seq(S), NEW j \in Int, NEW x \in S
    PROVE  \E h \in 1..Len(s) + 1 : Splice(s, j, 0, <<x>>) = Model!InsertAt(s, h, x)
<1> DEFINE one == <<x>>
<1>1. one \in Seq(S) /\ Len(s) \in Nat
  BY LenProperties
<1>2. PICK i \in 0..Len(s) : Splice(s, j, 0, one) = Splice(s, i, 0, one)
  <2> HIDE DEF one
  <2> QED
    BY <1>1, SpliceFrom
<1>3. Splice(s, i, 0, one) = SubSeq(s, 1, i) \o one \o SubSeq(s, i + 1, Len(s))
  <2> HIDE DEF one
  <2>1. i + 0 + 1 = i + 1
    BY <1>1
  <2>2. Splice(s, i, 0, one) = SubSeq(s, 1, i) \o one \o SubSeq(s, i + 0 + 1, Len(s))
    BY SpliceIs
  <2> QED
    BY <2>1, <2>2
<1>4. Model!InsertAt(s, i + 1, x) = SubSeq(s, 1, i) \o one \o SubSeq(s, i + 1, Len(s))
  <2>1. (i + 1) - 1 = i
    BY <1>1
  <2> QED
    BY <2>1 DEF Model!InsertAt
<1>5. i + 1 \in 1..Len(s) + 1
  BY <1>1
<1> QED
  BY <1>2, <1>3, <1>4, <1>5

\* One entry is replaced.
LEMMA ReplaceIs ==
    ASSUME NEW S, NEW s \in Seq(S), NEW i \in Nat, i < Len(s), NEW x \in S
    PROVE  [s EXCEPT ![i + 1] = x] = Splice(s, i, 1, <<x>>)
<1> DEFINE r == Splice(s, i, 1, <<x>>)
           v == [s EXCEPT ![i + 1] = x]
<1>1. Len(s) \in Nat
  BY LenProperties
<1>2. r \in Seq(S) /\ Len(r) = Len(s) /\ \A q \in 1..Len(s) : r[q] = IF q = i + 1 THEN x ELSE s[q]
  <2>1. ReplacedAt(S, s, i, x, r)
    BY ReplaceAtIndex
  <2> QED
    BY <2>1 DEF ReplacedAt
<1>3. v \in Seq(S) /\ Len(v) = Len(s) /\ \A q \in 1..Len(s) : v[q] = IF q = i + 1 THEN x ELSE s[q]
  <2>1. i + 1 \in 1..Len(s)
    BY <1>1
  <2>2. v \in Seq(S) /\ Len(v) = Len(s)
    BY <2>1, ExceptSeq
  <2>3. \A q \in 1..Len(s) : v[q] = IF q = i + 1 THEN x ELSE s[q]
    BY <1>1, LenProperties
  <2> QED
    BY <2>2, <2>3
<1> HIDE DEF r, v
<1>4. r = v
  BY <1>1, <1>2, <1>3, SeqEqual
<1> QED
  BY <1>4 DEF r, v

--------------------------------------------------------------------------------
(***************************************************************************)
(* What is below a node of the model, and its changes of the lists.        *)
(***************************************************************************)
\* The set of a list.
LEMMA ToSetIs ==
    ASSUME NEW S, NEW s \in Seq(S)
    PROVE  Model!ToSet(s) = Entries(s)
<1>1. DOMAIN s = 1..Len(s)
  BY LenProperties
<1> QED
  BY <1>1 DEF Model!ToSet, Entries

\* What a node of the model lists.
LEMMA ListedBy ==
    ASSUME NEW T, NEW n, \A s \in Slots : T[n][s] \in Seq(Ids), NEW m
    PROVE  m \in Model!Listed(T, n) <=> \E s \in Slots : m \in Entries(T[n][s])
<1>1. m \in Model!Listed(T, n) <=> \E s \in Slots : m \in Model!ToSet(T[n][s])
  BY DEF Model!Listed, Slots
<1>2. \A s \in Slots : Model!ToSet(T[n][s]) = Entries(T[n][s])
  BY ToSetIs
<1> QED
  BY <1>1, <1>2

\* The children of a node are what its lists name.
LEMMA ChildrenAre ==
    ASSUME NEW t, NEW k, Well(t, k), NEW n \in DOMAIN t, NEW m
    PROVE  (\E s \in Slots : m \in Entries(ListOf(t, k, n, s)))
               <=> m \in DOMAIN t /\ t[m].parent = n
<1>1. ASSUME NEW s \in Slots, m \in Entries(ListOf(t, k, n, s))
      PROVE  m \in DOMAIN t /\ t[m].parent = n
  <2>1. Listed(t, k, n, s, m)
    BY <1>1 DEF Listed
  <2> QED
    BY <2>1, ListedOnce
<1>2. ASSUME m \in DOMAIN t, t[m].parent = n
      PROVE  \E s \in Slots : m \in Entries(ListOf(t, k, n, s))
  <2>1. ChildrenAreListed(ParentsOf(t), Named(t, k)) /\ None \notin DOMAIN ParentsOf(t)
    BY DEF Well, Forest
  <2>2. m \in DOMAIN ParentsOf(t) /\ ParentsOf(t)[m] = n /\ n # None
    BY <1>2, <2>1, NamedIs
  <2>3. PICK s \in Slots : m \in Named(t, k)[<<n, s>>]
    BY <2>1, <2>2 DEF ChildrenAreListed
  <2> QED
    BY <2>3, NamedIs
<1> QED
  BY <1>1, <1>2

\* Below, by the parents P.
LEMMA BelowIsUnder ==
    ASSUME NEW T, NEW P, NEW y \in DOMAIN P, DOMAIN P \subseteq DOMAIN T,
           \A n \in Under(P, y) : \A m : m \in Model!Listed(T, n) <=> m \in DOMAIN P /\ P[m] = n
    PROVE  Model!Below(T, y) = Under(P, y)
<1> DEFINE U == Under(P, y)
<1>1. U \in SUBSET DOMAIN P /\ y \in U /\ \A m \in DOMAIN P : P[m] \in U => m \in U
  BY UnderClosed
<1>2. ASSUME NEW m \in Model!Below(T, y) PROVE m \in U
  <2>1. U \in SUBSET DOMAIN T
    BY <1>1
  <2>2. \A n \in U : Model!Listed(T, n) \subseteq U
    BY <1>1
  <2> HIDE DEF U
  <2> QED
    BY <1>1, <2>1, <2>2 DEF Model!Below
<1>3. ASSUME NEW m \in U, NEW S \in SUBSET DOMAIN T,
             y \in S /\ \A n \in S : Model!Listed(T, n) \subseteq S
      PROVE  m \in S
  <2> DEFINE X == S \intersect U
  <2>1. ASSUME NEW n \in DOMAIN P, P[n] \in X PROVE n \in X
    <3>1. n \in U
      BY <2>1, <1>1
    <3>2. n \in Model!Listed(T, P[n])
      BY <2>1
    <3> QED
      BY <3>1, <3>2, <2>1, <1>3
  <2>2. y \in X
    BY <1>1, <1>3
  <2> HIDE DEF X
  <2>3. U \subseteq X
    BY <2>1, <2>2, UnderLeast
  <2> QED
    BY <2>3 DEF X
<1>4. \A m \in U : m \in DOMAIN T
  BY <1>1
<1> HIDE DEF U
<1>5. U \subseteq Model!Below(T, y)
  BY <1>3, <1>4 DEF Model!Below
<1> QED
  BY <1>2, <1>5 DEF U

\* It is the subtree of the tables, in any lists that have the nodes of the subtree as they are.
LEMMA BelowIn ==
    ASSUME NEW t, NEW k, Typed(t, k), Well(t, k), NEW y \in DOMAIN t,
           NEW T, DOMAIN t \subseteq DOMAIN T,
           \A n \in Under(ParentsOf(t), y), s \in Slots : T[n][s] = ListOf(t, k, n, s)
    PROVE  Model!Below(T, y) = Under(ParentsOf(t), y)
<1> DEFINE P == ParentsOf(t)
<1>1. DOMAIN P = DOMAIN t /\ \A n \in DOMAIN t : P[n] = t[n].parent
  BY NamedIs
<1> HIDE DEF P
<1>2. Under(P, y) \subseteq DOMAIN t
  BY <1>1, UnderClosed
<1>3. ASSUME NEW n \in Under(P, y), NEW m
      PROVE  m \in Model!Listed(T, n) <=> m \in DOMAIN P /\ P[m] = n
  <2>0. n \in DOMAIN t
    BY <1>2
  <2>4. \A s : ListOf(t, k, n, s) \in Seq(Ids)
    BY <2>0, RowTypes
  <2>5. \A s \in Slots : T[n][s] = ListOf(t, k, n, s)
    BY DEF P
  <2>1. \A s \in Slots : T[n][s] = ListOf(t, k, n, s) /\ T[n][s] \in Seq(Ids)
    BY <2>4, <2>5
  <2>2. m \in Model!Listed(T, n) <=> \E s \in Slots : m \in Entries(ListOf(t, k, n, s))
    BY <2>1, ListedBy
  <2>3. m \in Model!Listed(T, n) <=> m \in DOMAIN t /\ t[m].parent = n
    BY <1>2, <2>2, ChildrenAre
  <2> QED
    BY <2>3, <1>1
<1>4. Model!Below(T, y) = Under(P, y)
  BY <1>1, <1>3, BelowIsUnder
<1> QED
  BY <1>4 DEF P

\* A chunk is one tree.
LEMMA ChunkIsBelow ==
    ASSUME NEW new, NEW p, IsTree(new, p), NEW R, DOMAIN R = DOMAIN new.rows,
           \A m \in DOMAIN R, s \in Slots : R[m][s] = ListOf(new.rows, new.lists, m, s)
    PROVE  Model!Below(R, new.root) = DOMAIN R
<1> DEFINE a == new.root
<1>1. a \in DOMAIN R
  BY DEF IsTree
<1>2. \A s \in Slots : R[a][s] \in Seq(Ids)
  <2>1. new.rows[a].annotations \in Seq(Ids)
    BY <1>1 DEF IsTree, NodeRows, NodeRow
  <2>2. \A s : RowOf(new.lists, a, s) \in Seq(Ids)
    BY EmptySeq DEF IsTree, ListRows, RowOf
  <2>3. \A s \in Slots : ListOf(new.rows, new.lists, a, s) \in Seq(Ids)
    BY <2>1, <2>2 DEF ListOf
  <2> QED
    BY <1>1, <2>3
<1>3. ASSUME NEW b \in DOMAIN R, b # a PROVE b \in Model!Listed(R, a)
  <2>1. \E s \in Slots : b \in Entries(ListOf(new.rows, new.lists, a, s))
    BY <1>3 DEF IsTree
  <2>2. \E s \in Slots : b \in Entries(R[a][s])
    BY <2>1, <1>1
  <2> HIDE DEF a
  <2> QED
    BY <2>2, <1>2, ListedBy
<1> HIDE DEF a
<1>4. ASSUME NEW b \in DOMAIN R, NEW S \in SUBSET DOMAIN R,
             a \in S /\ \A n \in S : Model!Listed(R, n) \subseteq S
      PROVE  b \in S
  BY <1>3, <1>4
<1>5. Model!Below(R, a) = DOMAIN R
  BY <1>4 DEF Model!Below
<1> QED
  BY <1>5 DEF a

\* An entry is taken from a list.
LEMMA TakenIs ==
    ASSUME NEW T, NEW D, IsTable(T, D), NEW p \in D, NEW u \in Slots, NEW i
    PROVE  LET V == Model!Taken(T, MentionOf(p, u, i))
           IN  /\ IsTable(V, D)
               /\ \A n \in D, s \in Slots :
                      V[n][s] = IF n = p /\ s = u THEN Model!RemoveAt(T[p][u], i) ELSE T[n][s]
<1>1. Model!Taken(T, MentionOf(p, u, i)) = [T EXCEPT ![p][u] = Model!RemoveAt(@, i)]
  BY DEF Model!Taken, MentionOf
<1> DEFINE v == Model!RemoveAt(T[p][u], i)
<1>2. [T EXCEPT ![p][u] = Model!RemoveAt(@, i)] = [T EXCEPT ![p][u] = v]
  OBVIOUS
<1>3. Model!Taken(T, MentionOf(p, u, i)) = Changed(T, p, u, v)
  BY <1>1, <1>2 DEF Changed
<1>4. v = Model!RemoveAt(T[p][u], i)
  OBVIOUS
<1> HIDE DEF v
<1> QED
  BY <1>3, <1>4, ChangedTable

\* An entry comes to a list.
LEMMA PutIs ==
    ASSUME NEW T, NEW D, IsTable(T, D), NEW p \in D, NEW u \in Slots, NEW i, NEW x
    PROVE  LET V == Model!Put(T, p, u, i, x)
           IN  /\ IsTable(V, D)
               /\ \A n \in D, s \in Slots :
                      V[n][s] = IF n = p /\ s = u THEN Model!InsertAt(T[p][u], i, x) ELSE T[n][s]
<1> DEFINE v == Model!InsertAt(T[p][u], i, x)
<1>1. Model!Put(T, p, u, i, x) = Changed(T, p, u, v)
  BY DEF Model!Put, Changed
<1>2. v = Model!InsertAt(T[p][u], i, x)
  OBVIOUS
<1> HIDE DEF v
<1> QED
  BY <1>1, <1>2, ChangedTable

\* The places of a table.
LEMMA PlacesAre ==
    ASSUME NEW T, NEW D, IsTable(T, D)
    PROVE  /\ DOMAIN T = D
           /\ \A m : m \in Model!Places(T) <=>
                  \E n \in D, s \in Slots : \E i \in 1..Len(T[n][s]) : m = MentionOf(n, s, i)
           /\ \A n, s, i : Model!NodeAt(T, MentionOf(n, s, i)) = T[n][s][i]
<1>1. DOMAIN T = D
  <2> DEFINE F == [n \in D |-> [s \in Slots |-> T[n][s]]]
  <2>1. DOMAIN F = D
    OBVIOUS
  <2>2. T = F
    BY DEF IsTable
  <2> HIDE DEF F
  <2> QED
    BY <2>1, <2>2
<1> DEFINE at(n, s) == {MentionOf(n, s, i) : i \in 1..Len(T[n][s])}
<1>2. Model!Places(T) = UNION {UNION {at(n, s) : s \in Slots} : n \in DOMAIN T}
  BY DEF Model!Places, MentionOf, Slots
<1>3. ASSUME NEW n, NEW s, NEW m
      PROVE  m \in at(n, s) <=> \E i \in 1..Len(T[n][s]) : m = MentionOf(n, s, i)
  OBVIOUS
<1> HIDE DEF at
<1>4. \A m : m \in Model!Places(T) <=>
             \E n \in D, s \in Slots : \E i \in 1..Len(T[n][s]) : m = MentionOf(n, s, i)
  <2>1. \A m : m \in Model!Places(T) <=> \E n \in D, s \in Slots : m \in at(n, s)
    BY <1>1, <1>2
  <2> QED
    BY <2>1, <1>3
<1>5. \A n, s, i : Model!NodeAt(T, MentionOf(n, s, i)) = T[n][s][i]
  BY DEF Model!NodeAt, MentionOf
<1> QED
  BY <1>1, <1>4, <1>5

\* Index i of slot u of p is the only place of y in T.
OnlyPlace(T, D, p, u, i, y) ==
    /\ p \in D /\ u \in Slots
    /\ T[p][u] \in Seq(Ids)
    /\ i \in Nat /\ i < Len(T[p][u]) /\ T[p][u][i + 1] = y
    /\ \A n \in D, s \in Slots : \A j \in 1..Len(T[n][s]) :
           T[n][s][j] = y => n = p /\ s = u /\ j = i + 1

\* V is T on the nodes of E, but for the list of slot u of p.
TableWith(V, E, T, p, u, list) ==
    /\ IsTable(V, E)
    /\ \A n \in E, s \in Slots : V[n][s] = IF n = p /\ s = u THEN list ELSE T[n][s]

\* An entry is replaced by x, and all below it goes.
LEMMA InsteadIs ==
    ASSUME NEW T, NEW D, IsTable(T, D), NEW p, NEW u, NEW i, NEW y,
           OnlyPlace(T, D, p, u, i, y), NEW x \in Ids, NEW X, X = Model!Below(T, y)
    PROVE  TableWith(Model!Instead(T, x, y), D \ X, T, p, u, Splice(T[p][u], i, 1, <<x>>))
<1> DEFINE here == MentionOf(p, u, i + 1)
           place == CHOOSE m \in Model!Places(T) : Model!NodeAt(T, m) = y
           v == [T[p][u] EXCEPT ![i + 1] = x]
           W == Changed(T, p, u, v)
<1>0. /\ p \in D /\ u \in Slots
      /\ T[p][u] \in Seq(Ids) /\ i \in Nat /\ i < Len(T[p][u]) /\ T[p][u][i + 1] = y
      /\ i + 1 \in 1..Len(T[p][u])
  BY LenProperties DEF OnlyPlace
<1>1. place = here
  <2>1. here \in Model!Places(T) /\ Model!NodeAt(T, here) = y
    BY <1>0, PlacesAre
  <2>2. ASSUME NEW m \in Model!Places(T), Model!NodeAt(T, m) = y PROVE m = here
    <3>1. PICK n \in D, s \in Slots : \E j \in 1..Len(T[n][s]) : m = MentionOf(n, s, j)
      BY PlacesAre
    <3>2. PICK j \in 1..Len(T[n][s]) : m = MentionOf(n, s, j)
      BY <3>1
    <3>3. T[n][s][j] = y
      BY <2>2, <3>2, PlacesAre
    <3> QED
      BY <3>2, <3>3 DEF OnlyPlace
  <2> HIDE DEF here
  <2> QED
    BY <2>1, <2>2
<1>2. Model!Instead(T, x, y) =
          Model!Without([T EXCEPT ![place.node][place.slot][place.at] = x], X)
  BY DEF Model!Instead
<1>3. here.node = p /\ here.slot = u /\ here.at = i + 1
  BY DEF MentionOf
<1>4. [T EXCEPT ![p][u][i + 1] = x] = W
  BY DEF Changed
<1>5. Model!Instead(T, x, y) = Model!Without(W, X)
  <2> HIDE DEF place, here, W
  <2> QED
    BY <1>1, <1>2, <1>3, <1>4
<1>6. v = Splice(T[p][u], i, 1, <<x>>)
  BY <1>0, ReplaceIs
<1> HIDE DEF v
<1>7. /\ IsTable(W, D)
      /\ \A n \in D, s \in Slots : W[n][s] = IF n = p /\ s = u THEN v ELSE T[n][s]
  BY <1>0, ChangedTable
<1> HIDE DEF W, here, place
<1>70. IsTable(W, D)
  BY <1>7
<1>8. /\ IsTable(Model!Without(W, X), D \ X)
      /\ \A n \in D \ X : Model!Without(W, X)[n] = W[n]
  BY ONLY <1>70, SmallerTable
<1>9. /\ IsTable(Model!Instead(T, x, y), D \ X)
      /\ \A n \in D \ X, s \in Slots :
             Model!Instead(T, x, y)[n][s] = IF n = p /\ s = u THEN v ELSE T[n][s]
  BY <1>5, <1>7, <1>8
<1> QED
  BY <1>6, <1>9 DEF TableWith

--------------------------------------------------------------------------------
(***************************************************************************)
(* Each change of the tables is a change of the model.                     *)
(***************************************************************************)
\* Model!NewTree and Model!New of any two tables.
OneTree(T, T2, x) ==
    LET new == Model!Restrict(T2, DOMAIN T2 \ DOMAIN T)
    IN  x \in DOMAIN new /\ Model!Below(new, x) = DOMAIN new

WithNew(T, T2) == Model!Over(Model!Restrict(T2, DOMAIN T2 \ DOMAIN T), T)

\* The nodes of a chunk came, and those of D stayed.
Came(t, new, p, D, t2, k2) ==
    /\ IsTree(new, p)
    /\ DOMAIN new.rows \intersect DOMAIN t = {}
    /\ D \subseteq DOMAIN t
    /\ DOMAIN t2 = D \union DOMAIN new.rows
    /\ NewIn(new, t2, k2)

\* What the model says of them.
CameInModel(t, k, new, t2, k2) ==
    LET T == ListsOf(t, k)
        T2 == ListsOf(t2, k2)
        V == WithNew(T, T2)
    IN  /\ OneTree(T, T2, new.root)
        /\ IsTable(V, DOMAIN t \union DOMAIN new.rows)
        /\ \A n \in DOMAIN t, s \in Slots : V[n][s] = ListOf(t, k, n, s)
        /\ \A m \in DOMAIN new.rows, s \in Slots :
               V[m][s] = T2[m][s] /\ T2[m][s] = ListOf(new.rows, new.lists, m, s)

\* The new nodes of a change that brings a chunk.
LEMMA NewIs ==
    ASSUME NEW t, NEW k, NEW new, NEW p, NEW D, NEW t2, NEW k2, Came(t, new, p, D, t2, k2)
    PROVE  CameInModel(t, k, new, t2, k2)
<1> DEFINE N == DOMAIN new.rows
           T == ListsOf(t, k)
           T2 == ListsOf(t2, k2)
           R == Model!Restrict(T2, DOMAIN T2 \ DOMAIN T)
           V == WithNew(T, T2)
           E == DOMAIN t \union N
<1>0. /\ IsTree(new, p) /\ N \intersect DOMAIN t = {} /\ D \subseteq DOMAIN t
      /\ DOMAIN t2 = D \union N /\ NewIn(new, t2, k2)
  BY DEF Came
<1>1. DOMAIN T = DOMAIN t /\ \A n \in DOMAIN t, s \in Slots : T[n][s] = ListOf(t, k, n, s)
  BY ListsOfIs
<1>2. DOMAIN T2 = D \union N
  BY <1>0, ListsOfIs
<1>3. \A n \in N, s \in Slots : T2[n][s] = ListOf(new.rows, new.lists, n, s)
  BY <1>0, ListsOfIs DEF NewIn
<1>4. \A n \in DOMAIN t : T[n] = [s \in Slots |-> T[n][s]]
  BY DEF ListsOf
<1>5. \A n \in N : T2[n] = [s \in Slots |-> T2[n][s]]
  BY <1>0 DEF ListsOf
<1>6. DOMAIN T2 \ DOMAIN T = N
  BY <1>0, <1>1, <1>2
<1> HIDE DEF T, T2
<1>7. R = [n \in N |-> T2[n]]
  BY <1>6 DEF Model!Restrict
<1>8. DOMAIN R = N /\ \A n \in N : R[n] = T2[n]
  BY <1>7
<1> HIDE DEF R
<1>9. OneTree(T, T2, new.root)
  <2>1. Model!Below(R, new.root) = DOMAIN R
    BY <1>0, <1>3, <1>8, ChunkIsBelow
  <2>2. new.root \in DOMAIN R
    BY <1>0, <1>8 DEF IsTree
  <2> QED
    BY <2>1, <2>2 DEF OneTree, R
<1>10. V = [n \in N \union DOMAIN t |-> IF n \in N THEN R[n] ELSE T[n]]
  BY <1>1, <1>8 DEF WithNew, Model!Over, R
<1>11. DOMAIN V = E /\ \A n \in E : V[n] = IF n \in N THEN T2[n] ELSE T[n]
  BY <1>0, <1>8, <1>10
<1>12. \A n \in E : V[n] = [s \in Slots |-> V[n][s]]
  <2> HIDE DEF V
  <2>1. ASSUME NEW n \in E PROVE V[n] = [s \in Slots |-> V[n][s]]
    <3>1. CASE n \in N
      BY <3>1, <1>5, <1>11
    <3>2. CASE n \notin N
      BY <3>2, <1>4, <1>11
    <3> QED
      BY <3>1, <3>2
  <2> QED
    BY <2>1
<1>13. IsTable(V, E)
  <2>1. V = [n \in E |-> V[n]]
    BY <1>0, <1>10
  <2> HIDE DEF V, E
  <2>2. [n \in E |-> V[n]] = [n \in E |-> [s \in Slots |-> V[n][s]]]
    BY <1>12
  <2> QED
    BY <2>1, <2>2 DEF IsTable
<1>14. \A n \in DOMAIN t, s \in Slots : V[n][s] = ListOf(t, k, n, s)
  <2> HIDE DEF V
  <2> QED
    BY <1>0, <1>1, <1>11
<1>15. \A m \in N, s \in Slots : V[m][s] = T2[m][s]
  <2> HIDE DEF V
  <2> QED
    BY <1>11
<1> QED
  BY <1>3, <1>9, <1>13, <1>14, <1>15 DEF CameInModel, T, T2, V

\* Add, and AddPartition without the place.
LEMMA ComesIsAdd ==
    ASSUME NEW t, NEW k, Typed(t, k), NEW new, NEW p, NEW u, NEW i, NEW t2, NEW k2,
           Comes(t, k, new, p, u, i, t2, k2)
    PROVE  LET T == ListsOf(t, k)
               T2 == ListsOf(t2, k2)
           IN  /\ OneTree(T, T2, new.root)
               /\ \E h \in 1..Len(T[p][u]) + 1 :
                      T2 = Model!Put(WithNew(T, T2), p, u, h, new.root)
<1> DEFINE T == ListsOf(t, k)
           T2 == ListsOf(t2, k2)
           V == WithNew(T, T2)
           E == DOMAIN t \union DOMAIN new.rows
           s0 == ListOf(t, k, p, u)
<1>1. /\ p \in DOMAIN t /\ u \in Slots /\ i \in Int /\ IsTree(new, p)
      /\ DOMAIN new.rows \intersect DOMAIN t = {} /\ DOMAIN t2 = E
      /\ NewIn(new, t2, k2)
      /\ OnlyAt(t, k, DOMAIN t, p, u, Splice(s0, i, 0, <<new.root>>), t2, k2)
  BY DEF Comes
<1>2. /\ OneTree(T, T2, new.root)
      /\ IsTable(V, E)
      /\ \A n \in DOMAIN t, s \in Slots : V[n][s] = ListOf(t, k, n, s)
      /\ \A m \in DOMAIN new.rows, s \in Slots : V[m][s] = T2[m][s]
  <2>1. Came(t, new, p, DOMAIN t, t2, k2)
    BY <1>1 DEF Came
  <2>2. CameInModel(t, k, new, t2, k2)
    BY <2>1, NewIs
  <2> QED
    BY <2>2 DEF CameInModel
<1>3. s0 \in Seq(Ids) /\ new.root \in Ids
  BY <1>1, RowTypes DEF IsTree
<1>4. PICK h \in 1..Len(s0) + 1 : Splice(s0, i, 0, <<new.root>>) = Model!InsertAt(s0, h, new.root)
  <2> HIDE DEF s0
  <2> QED
    BY <1>1, <1>3, InsertIs
<1> DEFINE W == Model!Put(V, p, u, h, new.root)
<1>5. T[p][u] = s0 /\ V[p][u] = s0 /\ p \in E
  <2>1. T[p][u] = s0
    BY <1>1, ListsOfIs
  <2> HIDE DEF T, V
  <2> QED
    BY <1>1, <1>2, <2>1
<1>6. IsTable(T2, E) /\ \A n \in E, s \in Slots : T2[n][s] = ListOf(t2, k2, n, s)
  BY <1>1, ListsOfIs
<1>7. /\ IsTable(W, E)
      /\ \A n \in E, s \in Slots :
             W[n][s] = IF n = p /\ s = u THEN Model!InsertAt(s0, h, new.root) ELSE V[n][s]
  <2> HIDE DEF V, E, s0
  <2> QED
    BY <1>1, <1>2, <1>5, PutIs
<1>9. ASSUME NEW n \in E, NEW s \in Slots PROVE T2[n][s] = W[n][s]
  <2> HIDE DEF T2, W, V
  <2>1. CASE n \in DOMAIN t
    BY <2>1, <1>1, <1>2, <1>4, <1>6, <1>7 DEF OnlyAt
  <2>2. CASE n \in DOMAIN new.rows
    BY <2>2, <1>1, <1>2, <1>7
  <2> QED
    BY <2>1, <2>2
<1> HIDE DEF T, T2, V, W, E, s0
<1>10. T2 = W
  BY <1>6, <1>7, <1>9, SameTable
<1> QED
  BY <1>2, <1>4, <1>5, <1>10 DEF T, T2, W, V

\* What a place of the tables is in the model.
LEMMA PlaceIs ==
    ASSUME NEW t, NEW k, Typed(t, k), NEW p, NEW u, NEW i, NEW y, At(t, k, p, u, i, y)
    PROVE  LET T == ListsOf(t, k)
           IN  /\ IsTable(T, DOMAIN t) /\ DOMAIN T = DOMAIN t
               /\ \A n \in DOMAIN t, s \in Slots : T[n][s] = ListOf(t, k, n, s)
               /\ \A n \in DOMAIN t, s \in Slots : ListOf(t, k, n, s) \in Seq(Ids)
               /\ i + 1 \in 1..Len(ListOf(t, k, p, u))
               /\ MentionOf(p, u, i + 1) \in Model!Places(T)
               /\ Model!NodeAt(T, MentionOf(p, u, i + 1)) = y
<1> DEFINE T == ListsOf(t, k)
<1>1. /\ IsTable(T, DOMAIN t) /\ DOMAIN T = DOMAIN t
      /\ \A n \in DOMAIN t, s \in Slots : T[n][s] = ListOf(t, k, n, s)
  BY ListsOfIs
<1>2. \A n \in DOMAIN t, s \in Slots : ListOf(t, k, n, s) \in Seq(Ids)
  <2>1. ASSUME NEW n \in DOMAIN t, NEW s \in Slots PROVE ListOf(t, k, n, s) \in Seq(Ids)
    BY RowTypes
  <2> QED
    BY <2>1
<1>3. /\ p \in DOMAIN t /\ u \in Slots /\ ListOf(t, k, p, u)[i + 1] = y
      /\ i \in Nat /\ i < Len(ListOf(t, k, p, u))
  BY DEF At
<1>4. i + 1 \in 1..Len(ListOf(t, k, p, u))
  BY <1>2, <1>3, LenProperties
<1> HIDE DEF T
<1>5. T[p][u] = ListOf(t, k, p, u)
  BY <1>1, <1>3
<1>6. MentionOf(p, u, i + 1) \in Model!Places(T) /\ Model!NodeAt(T, MentionOf(p, u, i + 1)) = y
  BY <1>1, <1>3, <1>4, <1>5, PlacesAre
<1> QED
  BY <1>1, <1>2, <1>4, <1>6 DEF T

\* Delete.
LEMMA GoesIsDelete ==
    ASSUME NEW t, NEW k, Typed(t, k), Well(t, k), NEW p, NEW u, NEW i, NEW y, NEW t2, NEW k2,
           Goes(t, k, p, u, i, y, t2, k2)
    PROVE  LET T == ListsOf(t, k)
           IN  \E place \in Model!Places(T) :
                   ListsOf(t2, k2) = Model!Without(Model!Taken(T, place),
                                                   Model!Below(T, Model!NodeAt(T, place)))
<1> DEFINE T == ListsOf(t, k)
           T2 == ListsOf(t2, k2)
           place == MentionOf(p, u, i + 1)
           V == Model!Taken(T, place)
           X == Under(ParentsOf(t), y)
           W == Model!Without(V, X)
           E == DOMAIN t \ X
           s0 == ListOf(t, k, p, u)
<1>1. /\ At(t, k, p, u, i, y) /\ DOMAIN t2 = E
      /\ OnlyAt(t, k, E, p, u, Splice(s0, i, 1, <<>>), t2, k2)
  BY DEF Goes, Rest
<1>2. /\ p \in DOMAIN t /\ u \in Slots /\ i \in Nat /\ i < Len(s0)
  BY <1>1 DEF At
<1>3. /\ IsTable(T, DOMAIN t) /\ DOMAIN T = DOMAIN t
      /\ \A n \in DOMAIN t, s \in Slots : T[n][s] = ListOf(t, k, n, s)
      /\ s0 \in Seq(Ids)
      /\ place \in Model!Places(T) /\ Model!NodeAt(T, place) = y
  BY <1>1, <1>2, PlaceIs
<1>4. IsTable(T2, E) /\ \A n \in E, s \in Slots : T2[n][s] = ListOf(t2, k2, n, s)
  BY <1>1, ListsOfIs
<1>5. Model!Below(T, y) = X
  <2>1. y \in DOMAIN t
    BY <1>1, AtIsListed, ListedOnce
  <2>2. X \subseteq DOMAIN t
    BY NamedIs, UnderClosed
  <2>3. \A n \in X, s \in Slots : T[n][s] = ListOf(t, k, n, s)
    BY <2>2, <1>3
  <2> HIDE DEF T
  <2> QED
    BY <2>1, <2>3, <1>3, BelowIn
<1>6. Splice(s0, i, 1, <<>>) = Model!RemoveAt(s0, i + 1)
  <2> HIDE DEF s0
  <2> QED
    BY <1>2, <1>3, RemoveIs
<1>7. T[p][u] = s0
  BY <1>2, <1>3
<1> HIDE DEF T, T2, s0
<1>8. /\ IsTable(V, DOMAIN t)
      /\ \A n \in DOMAIN t, s \in Slots :
             V[n][s] = IF n = p /\ s = u THEN Model!RemoveAt(s0, i + 1) ELSE T[n][s]
  BY <1>2, <1>3, <1>7, TakenIs
<1> HIDE DEF V, X
<1>9. IsTable(W, E) /\ \A n \in E : W[n] = V[n]
  <2>1. IsTable(V, DOMAIN t)
    BY <1>8
  <2> QED
    BY ONLY <2>1, SmallerTable
<1>10. ASSUME NEW n \in E, NEW s \in Slots PROVE T2[n][s] = W[n][s]
  BY <1>1, <1>3, <1>4, <1>6, <1>8, <1>9 DEF OnlyAt
<1> HIDE DEF W, E
<1>11. T2 = W
  BY <1>4, <1>9, <1>10, SameTable
<1> QED
  BY <1>3, <1>5, <1>11 DEF T, T2, W, V

\* Replace.
LEMMA IsReplacedIsReplace ==
    ASSUME NEW t, NEW k, Typed(t, k), Well(t, k), NEW p, NEW u, NEW i, NEW y, NEW new,
           NEW t2, NEW k2, IsReplaced(t, k, p, u, i, y, new, t2, k2)
    PROVE  LET T == ListsOf(t, k)
               T2 == ListsOf(t2, k2)
           IN  /\ OneTree(T, T2, new.root)
               /\ \E place \in Model!Places(T) :
                      T2 = Model!Instead(WithNew(T, T2), new.root, Model!NodeAt(T, place))
<1> DEFINE T == ListsOf(t, k)
           T2 == ListsOf(t2, k2)
           place == MentionOf(p, u, i + 1)
           X == Under(ParentsOf(t), y)
           N == DOMAIN new.rows
           D == DOMAIN t \union N
           E == (DOMAIN t \ X) \union N
           s0 == ListOf(t, k, p, u)
           V == WithNew(T, T2)
           W == Model!Instead(V, new.root, y)
<1>1. /\ At(t, k, p, u, i, y) /\ DOMAIN t2 = E /\ IsTree(new, p)
      /\ N \intersect DOMAIN t = {}
      /\ NewIn(new, t2, k2)
      /\ OnlyAt(t, k, DOMAIN t \ X, p, u, Splice(s0, i, 1, <<new.root>>), t2, k2)
  BY DEF IsReplaced, Rest
<1>2. /\ p \in DOMAIN t /\ u \in Slots /\ i \in Nat /\ i < Len(s0) /\ s0[i + 1] = y
  BY <1>1 DEF At
<1>3. /\ \A n \in DOMAIN t, s \in Slots : T[n][s] = ListOf(t, k, n, s)
      /\ \A n \in DOMAIN t, s \in Slots : ListOf(t, k, n, s) \in Seq(Ids)
      /\ s0 \in Seq(Ids) /\ i + 1 \in 1..Len(s0)
      /\ place \in Model!Places(T) /\ Model!NodeAt(T, place) = y
  BY <1>1, <1>2, PlaceIs
<1>4. IsTable(T2, E) /\ \A n \in E, s \in Slots : T2[n][s] = ListOf(t2, k2, n, s)
  BY <1>1, ListsOfIs
<1>5. /\ OneTree(T, T2, new.root)
      /\ IsTable(V, D)
      /\ \A n \in DOMAIN t, s \in Slots : V[n][s] = ListOf(t, k, n, s)
      /\ \A m \in N, s \in Slots : V[m][s] = T2[m][s] /\ T2[m][s] = ListOf(new.rows, new.lists, m, s)
  <2>1. Came(t, new, p, DOMAIN t \ X, t2, k2)
    BY <1>1 DEF Came
  <2>2. CameInModel(t, k, new, t2, k2)
    <3> HIDE DEF X
    <3> QED
      BY <2>1, NewIs
  <2> QED
    BY <2>2 DEF CameInModel
<1>7. /\ y \in DOMAIN t /\ Listed(t, k, p, u, y) /\ X \subseteq DOMAIN t
      /\ \A n \in DOMAIN t, s \in Slots : y \in Entries(ListOf(t, k, n, s)) => n = p /\ s = u
      /\ OnceEach(s0)
  <2>1. Listed(t, k, p, u, y) /\ OnceEach(s0)
    BY <1>1, AtIsListed
  <2>2. X \subseteq DOMAIN t
    BY NamedIs, UnderClosed
  <2> HIDE DEF X
  <2> QED
    BY <2>1, <2>2, ListedOnce
<1> HIDE DEF T, T2, V
<1>8. Model!Below(V, y) = X
  <2>1. DOMAIN V = D
    BY <1>5, PlacesAre
  <2>2. \A n \in X, s \in Slots : V[n][s] = ListOf(t, k, n, s)
    BY <1>5, <1>7
  <2> QED
    BY <1>7, <2>1, <2>2, BelowIn
<1>9. ASSUME NEW n \in D, NEW s \in Slots, NEW j \in 1..Len(V[n][s]), V[n][s][j] = y
      PROVE  n = p /\ s = u /\ j = i + 1
  <2>1. y \in Entries(V[n][s])
    BY <1>9 DEF Entries
  <2>2. n \in DOMAIN t
    <3>1. ASSUME n \in N PROVE FALSE
      <4>1. y \in Entries(ListOf(new.rows, new.lists, n, s))
        BY <2>1, <3>1, <1>5
      <4>2. Entries(ListOf(new.rows, new.lists, n, s)) \subseteq N
        <5>1. CASE n = new.root
          BY <5>1, <1>1 DEF IsTree
        <5>2. CASE n # new.root
          <6>1. ListOf(new.rows, new.lists, n, s) = <<>>
            BY <5>2, <3>1, <1>1 DEF IsTree
          <6> QED
            BY <6>1, OneOrNone
        <5> QED
          BY <5>1, <5>2
      <4> QED
        BY <4>1, <4>2, <1>1, <1>7
    <3> QED
      BY <3>1
  <2>3. V[n][s] = ListOf(t, k, n, s)
    BY <2>2, <1>5
  <2>4. n = p /\ s = u
    BY <2>1, <2>2, <2>3, <1>7
  <2>5. V[n][s] = s0
    BY <2>3, <2>4
  <2> HIDE DEF s0
  <2>6. s0[j] = s0[i + 1] /\ j \in 1..Len(s0)
    BY <2>5, <1>2, <1>9
  <2>7. OnceEach(s0) /\ i + 1 \in 1..Len(s0)
    BY <1>3, <1>7
  <2>8. j = i + 1
    BY <2>6, <2>7 DEF OnceEach
  <2> QED
    BY <2>4, <2>8
<1>10. V[p][u] = s0 /\ p \in D /\ new.root \in Ids
  BY <1>1, <1>2, <1>5 DEF IsTree
<1> HIDE DEF s0, D
<1>13. /\ IsTable(W, E)
       /\ \A n \in E, s \in Slots :
              W[n][s] = IF n = p /\ s = u THEN Splice(s0, i, 1, <<new.root>>) ELSE V[n][s]
  <2>1. OnlyPlace(V, D, p, u, i, y)
    BY <1>2, <1>3, <1>9, <1>10 DEF OnlyPlace
  <2>2. TableWith(W, D \ X, V, p, u, Splice(V[p][u], i, 1, <<new.root>>))
    <3> HIDE DEF X
    <3> QED
      BY <2>1, <1>5, <1>8, <1>10, InsteadIs
  <2>3. D \ X = E
    BY <1>1, <1>7 DEF D
  <2> HIDE DEF W, X, E
  <2> QED
    BY <1>10, <2>2, <2>3 DEF TableWith
<1>14. ASSUME NEW n \in E, NEW s \in Slots PROVE T2[n][s] = W[n][s]
  <2> HIDE DEF W, X
  <2>1. CASE n \in DOMAIN t \ X
    <3>1. V[n][s] = ListOf(t, k, n, s)
      BY <2>1, <1>5
    <3> QED
      BY <2>1, <3>1, <1>1, <1>4, <1>13 DEF OnlyAt
  <2>2. CASE n \in N
    BY <2>2, <1>1, <1>2, <1>5, <1>13
  <2> QED
    BY <2>1, <2>2
<1> HIDE DEF W, E
<1>15. T2 = W
  BY <1>4, <1>13, <1>14, SameTable
<1> QED
  BY <1>3, <1>5, <1>15 DEF T, T2, W, V

\* The model after a node was taken from its list.
LEMMA TakenFrom ==
    ASSUME NEW t, NEW k, Typed(t, k), NEW p, NEW c, NEW i, NEW x, At(t, k, p, c, i, x)
    PROVE  LET V == Model!Taken(ListsOf(t, k), MentionOf(p, c, i + 1))
           IN  /\ IsTable(V, DOMAIN t)
               /\ \A n \in DOMAIN t, s \in Slots : V[n][s] = Left(t, k, p, c, i, n, s)
               /\ \A n \in DOMAIN t, s \in Slots : V[n][s] \in Seq(Ids)
<1> DEFINE T == ListsOf(t, k)
           V == Model!Taken(T, MentionOf(p, c, i + 1))
           s0 == ListOf(t, k, p, c)
<1>1. /\ IsTable(T, DOMAIN t)
      /\ \A n \in DOMAIN t, s \in Slots : T[n][s] = ListOf(t, k, n, s)
      /\ \A n \in DOMAIN t, s \in Slots : ListOf(t, k, n, s) \in Seq(Ids)
  BY PlaceIs
<1>2. p \in DOMAIN t /\ c \in Slots /\ i \in Nat /\ i < Len(s0)
  BY DEF At
<1>3. s0 \in Seq(Ids) /\ T[p][c] = s0
  BY <1>1, <1>2
<1> HIDE DEF s0, T
<1>4. Model!RemoveAt(s0, i + 1) = Splice(s0, i, 1, <<>>)
  BY <1>2, <1>3, RemoveIs
<1>5. /\ IsTable(V, DOMAIN t)
      /\ \A n \in DOMAIN t, s \in Slots :
             V[n][s] = IF n = p /\ s = c THEN Model!RemoveAt(s0, i + 1) ELSE T[n][s]
  BY <1>1, <1>2, <1>3, TakenIs
<1> HIDE DEF V
<1>6. \A n \in DOMAIN t, s \in Slots : V[n][s] = Left(t, k, p, c, i, n, s)
  BY <1>1, <1>4, <1>5 DEF Left, s0
<1>7. Splice(s0, i, 1, <<>>) \in Seq(Ids)
  BY <1>2, <1>3, RemoveAtIndex DEF RemovedAt
<1>8. \A n \in DOMAIN t, s \in Slots : V[n][s] \in Seq(Ids)
  BY <1>1, <1>4, <1>5, <1>7
<1> QED
  BY <1>5, <1>6, <1>8 DEF V, T

\* Move.
LEMMA MovesIsMove ==
    ASSUME NEW t, NEW k, Typed(t, k), Well(t, k), NEW x, NEW p, NEW c, NEW i,
           NEW q, NEW d, NEW j, NEW t2, NEW k2, Moves(t, k, x, p, c, i, q, d, j, t2, k2)
    PROVE  LET T == ListsOf(t, k)
           IN  \E place \in Model!Places(T) :
                   LET V == Model!Taken(T, place)
                   IN  /\ Model!NodeAt(T, place) = x
                       /\ q \in DOMAIN T \ Model!Below(T, x)
                       /\ d \in Slots
                       /\ \E h \in 1..Len(V[q][d]) + 1 :
                              ListsOf(t2, k2) = Model!Put(V, q, d, h, x)
<1> DEFINE T == ListsOf(t, k)
           T2 == ListsOf(t2, k2)
           place == MentionOf(p, c, i + 1)
           V == Model!Taken(T, place)
           D == DOMAIN t
<1>1. /\ At(t, k, p, c, i, x)
      /\ q \in D /\ d \in Slots /\ j \in Int
      /\ q \notin Under(ParentsOf(t), x)
      /\ DOMAIN t2 = D
      /\ LeftAndCome(t, k, D, x, p, c, i, q, d, j, 0, t2, k2)
  BY DEF Moves
<1>2. /\ IsTable(T, D) /\ DOMAIN T = D
      /\ \A n \in D, s \in Slots : T[n][s] = ListOf(t, k, n, s)
      /\ place \in Model!Places(T) /\ Model!NodeAt(T, place) = x
  BY <1>1, PlaceIs
<1>3. /\ IsTable(V, D)
      /\ \A n \in D, s \in Slots : V[n][s] = Left(t, k, p, c, i, n, s)
      /\ \A n \in D, s \in Slots : V[n][s] \in Seq(Ids)
  BY <1>1, TakenFrom
<1>4. x \in D /\ x \in Ids
  BY <1>1, AtIsListed, ListedOnce
<1>5. Model!Below(T, x) = Under(ParentsOf(t), x)
  <2>1. Under(ParentsOf(t), x) \subseteq D
    BY NamedIs, UnderClosed
  <2>2. \A n \in Under(ParentsOf(t), x), s \in Slots : T[n][s] = ListOf(t, k, n, s)
    BY <2>1, <1>2
  <2> HIDE DEF T
  <2> QED
    BY <2>2, <1>2, <1>4, BelowIn
<1>6. IsTable(T2, D) /\ \A n \in D, s \in Slots : T2[n][s] = ListOf(t2, k2, n, s)
  BY <1>1, ListsOfIs
<1> HIDE DEF T, T2, V
<1>7. V[q][d] \in Seq(Ids) /\ V[q][d] = Left(t, k, p, c, i, q, d)
  BY <1>1, <1>3
<1>8. PICK h \in 1..Len(V[q][d]) + 1 :
          Splice(V[q][d], j, 0, <<x>>) = Model!InsertAt(V[q][d], h, x)
  BY <1>1, <1>4, <1>7, InsertIs
<1> DEFINE W == Model!Put(V, q, d, h, x)
<1>9. /\ IsTable(W, D)
      /\ \A n \in D, s \in Slots :
             W[n][s] = IF n = q /\ s = d THEN Model!InsertAt(V[q][d], h, x) ELSE V[n][s]
  BY <1>1, <1>3, PutIs
<1>10. ASSUME NEW n \in D, NEW s \in Slots PROVE T2[n][s] = W[n][s]
  <2> HIDE DEF W
  <2>1. T2[n][s] = IF n = q /\ s = d THEN Splice(V[q][d], j, 0, <<x>>)
                   ELSE Left(t, k, p, c, i, n, s)
    BY <1>1, <1>6, <1>7 DEF LeftAndCome
  <2> QED
    BY <2>1, <1>3, <1>8, <1>9
<1> HIDE DEF W, D
<1>11. T2 = W
  BY <1>6, <1>9, <1>10, SameTable
<1> QED
  BY <1>1, <1>2, <1>5, <1>8, <1>11 DEF T, T2, V, W, D

\* The place of an entry of a list when another entry has left.
LEMMA ShiftedPlace ==
    ASSUME NEW S, NEW s \in Seq(S), NEW i \in Nat, i < Len(s), NEW j \in Nat, j < Len(s), i # j,
           NEW r, r = Splice(s, i, 1, <<>>), NEW h, h = IF i < j THEN j - 1 ELSE j
    PROVE  h \in Nat /\ h < Len(r) /\ r[h + 1] = s[j + 1]
<1>1. Len(s) \in Nat
  BY LenProperties
<1>2. Len(r) = Len(s) - 1 /\ \A q \in 1..Len(s) - 1 : r[q] = IF q <= i THEN s[q] ELSE s[q + 1]
  BY RemoveAtIndex DEF RemovedAt
<1>3. h = IF i < j THEN j - 1 ELSE j
  OBVIOUS
<1>4. h \in Nat /\ h + 1 \in 1..Len(s) - 1
  BY <1>1, <1>3
<1>5. r[h + 1] = IF h + 1 <= i THEN s[h + 1] ELSE s[h + 2]
  <2>1. (h + 1) + 1 = h + 2
    BY <1>4
  <2> QED
    BY <1>2, <1>4, <2>1
<1>6. (h + 1 <= i /\ h + 1 = j + 1) \/ (~(h + 1 <= i) /\ h + 2 = j + 1)
  BY <1>1, <1>3
<1> QED
  BY <1>1, <1>2, <1>4, <1>5, <1>6

\* MoveAndReplace: the node that is replaced is in one place when the other one was taken.
LEMMA OtherPlace ==
    ASSUME NEW t, NEW k, Typed(t, k), Well(t, k), NEW x, NEW p, NEW c, NEW i,
           At(t, k, p, c, i, x), NEW q, NEW d, NEW j, NEW y, At(t, k, q, d, j, y), x # y,
           NEW V, \A n \in DOMAIN t, s \in Slots : V[n][s] = Left(t, k, p, c, i, n, s),
           \A n \in DOMAIN t, s \in Slots : V[n][s] \in Seq(Ids),
           NEW h, h = Shifted(p = q /\ c = d, i, j)
    PROVE  OnlyPlace(V, DOMAIN t, q, d, h, y)
<1> DEFINE s0 == ListOf(t, k, p, c)
           s1 == ListOf(t, k, q, d)
           D == DOMAIN t
<1>1. /\ p \in D /\ c \in Slots /\ i \in Nat /\ i < Len(s0) /\ s0[i + 1] = x
      /\ q \in D /\ d \in Slots /\ j \in Nat /\ j < Len(s1) /\ s1[j + 1] = y
  BY DEF At
<1>2. /\ s0 \in Seq(Ids) /\ OnceEach(s0) /\ s1 \in Seq(Ids) /\ OnceEach(s1)
      /\ Listed(t, k, q, d, y)
  BY AtIsListed
<1>3. \A n \in D, s \in Slots : y \in Entries(ListOf(t, k, n, s)) => n = q /\ s = d
  BY <1>2, ListedOnce
<1>4. /\ OnceEach(Splice(s0, i, 1, <<>>))
      /\ Entries(Splice(s0, i, 1, <<>>)) = Entries(s0) \ {s0[i + 1]}
  <2> HIDE DEF s0
  <2> QED
    BY <1>1, <1>2, SpliceRemoves
<1>5. ASSUME NEW n \in D, NEW s \in Slots
      PROVE  /\ OnceEach(V[n][s])
             /\ Entries(V[n][s]) \subseteq Entries(ListOf(t, k, n, s))
  <2>1. CASE n = p /\ s = c
    BY <2>1, <1>4 DEF Left
  <2>2. CASE ~(n = p /\ s = c)
    <3>1. V[n][s] = ListOf(t, k, n, s)
      BY <2>2 DEF Left
    <3>2. OnceEach(ListOf(t, k, n, s))
      BY DEF Well
    <3> QED
      BY <3>1, <3>2
  <2> QED
    BY <2>1, <2>2
<1>6. V[q][d] \in Seq(Ids) /\ h \in Nat /\ h < Len(V[q][d]) /\ V[q][d][h + 1] = y
  <2>1. CASE p = q /\ c = d
    <3>1. V[q][d] = Splice(s0, i, 1, <<>>) /\ s1 = s0
      BY <2>1, <1>1 DEF Left
    <3>2. h = IF i < j THEN j - 1 ELSE j
      BY <2>1 DEF Shifted
    <3>3. i # j
      BY <3>1, <1>1
    <3> HIDE DEF s0, s1
    <3>4. h \in Nat /\ h < Len(V[q][d]) /\ V[q][d][h + 1] = s0[j + 1]
      BY <3>1, <3>2, <3>3, <1>1, <1>2, ShiftedPlace
    <3> QED
      BY <3>1, <3>4, <1>1
  <2>2. CASE ~(p = q /\ c = d)
    <3>1. V[q][d] = s1
      BY <2>2, <1>1 DEF Left
    <3>2. h = j
      BY <2>2 DEF Shifted
    <3> QED
      BY <3>1, <3>2, <1>1, <1>2
  <2> QED
    BY <2>1, <2>2
<1>7. ASSUME NEW n \in D, NEW s \in Slots, NEW m \in 1..Len(V[n][s]), V[n][s][m] = y
      PROVE  n = q /\ s = d /\ m = h + 1
  <2>1. y \in Entries(V[n][s])
    BY <1>7 DEF Entries
  <2>2. n = q /\ s = d
    <3>1. y \in Entries(ListOf(t, k, n, s))
      BY <2>1, <1>5
    <3> QED
      BY <3>1, <1>3
  <2>3. V[n][s][m] = V[n][s][h + 1] /\ h + 1 \in 1..Len(V[n][s])
    BY <2>2, <1>6, <1>7, LenProperties
  <2>4. OnceEach(V[n][s])
    BY <1>5
  <2>5. m = h + 1
    BY <2>3, <2>4 DEF OnceEach
  <2> QED
    BY <2>2, <2>5
<1> QED
  BY <1>1, <1>6, <1>7 DEF OnlyPlace

\* MoveAndReplace.
LEMMA MovesOverIsMoveAndReplace ==
    ASSUME NEW t, NEW k, Typed(t, k), Well(t, k), NEW x, NEW p, NEW c, NEW i,
           NEW q, NEW d, NEW j, NEW y, NEW t2, NEW k2,
           MovesOver(t, k, x, p, c, i, q, d, j, y, t2, k2)
    PROVE  LET T == ListsOf(t, k)
           IN  \E place, other \in Model!Places(T) :
                   /\ Model!NodeAt(T, place) = x
                   /\ Model!NodeAt(T, other) = y
                   /\ x \notin Model!Below(T, y)
                   /\ y \notin Model!Below(T, x)
                   /\ ListsOf(t2, k2) = Model!Instead(Model!Taken(T, place), x, y)
<1> DEFINE T == ListsOf(t, k)
           T2 == ListsOf(t2, k2)
           place == MentionOf(p, c, i + 1)
           other == MentionOf(q, d, j + 1)
           V == Model!Taken(T, place)
           D == DOMAIN t
           P == ParentsOf(t)
           X == Under(P, y)
           E == D \ X
           h == Shifted(p = q /\ c = d, i, j)
           W == Model!Instead(V, x, y)
<1>1. /\ At(t, k, p, c, i, x) /\ At(t, k, q, d, j, y)
      /\ x \notin X /\ q \notin Under(P, x)
      /\ DOMAIN t2 = E
      /\ LeftAndCome(t, k, E, x, p, c, i, q, d, h, 1, t2, k2)
  BY DEF MovesOver, Rest
<1>2. /\ p \in D /\ c \in Slots /\ q \in D /\ d \in Slots
  BY <1>1 DEF At
<1>3. /\ DOMAIN T = D
      /\ \A n \in D, s \in Slots : T[n][s] = ListOf(t, k, n, s)
      /\ place \in Model!Places(T) /\ Model!NodeAt(T, place) = x
      /\ other \in Model!Places(T) /\ Model!NodeAt(T, other) = y
  BY <1>1, PlaceIs
<1>4. /\ IsTable(V, D)
      /\ \A n \in D, s \in Slots : V[n][s] = Left(t, k, p, c, i, n, s)
      /\ \A n \in D, s \in Slots : V[n][s] \in Seq(Ids)
  BY <1>1, TakenFrom
<1>5. /\ x \in D /\ x \in Ids /\ P[x] = p /\ y \in D /\ P[y] = q
  <2>1. Listed(t, k, p, c, x) /\ Listed(t, k, q, d, y) /\ x \in Ids
    BY <1>1, AtIsListed
  <2> QED
    BY <2>1, ListedOnce, NamedIs
<1>6. DOMAIN P = D /\ X \subseteq D /\ Under(P, x) \subseteq D /\ y \in X
  BY <1>5, NamedIs, UnderClosed
<1> HIDE DEF P, X
<1>7. p \notin X
  BY <1>1, <1>5, <1>6, UnderClosed DEF X
<1>8. x # y
  BY <1>1, <1>6
<1>9. y \notin Under(P, x)
  BY <1>1, <1>5, <1>8, UnderParts
<1>10. Model!Below(T, x) = Under(P, x) /\ Model!Below(T, y) = X
  <2>1. \A n \in Under(P, x), s \in Slots : T[n][s] = ListOf(t, k, n, s)
    BY <1>3, <1>6
  <2>2. \A n \in X, s \in Slots : T[n][s] = ListOf(t, k, n, s)
    BY <1>3, <1>6
  <2> HIDE DEF T
  <2>3. Model!Below(T, x) = Under(P, x)
    BY <2>1, <1>3, <1>5, BelowIn DEF P
  <2>4. Model!Below(T, y) = X
    BY <2>2, <1>3, <1>5, BelowIn DEF P, X
  <2> QED
    BY <2>3, <2>4
<1>11. Model!Below(V, y) = X
  <2> HIDE DEF V
  <2>1. DOMAIN V = D
    BY <1>4, PlacesAre
  <2>2. \A n \in X, s \in Slots : V[n][s] = ListOf(t, k, n, s)
    <3>1. \A n \in X : n # p /\ n \in D
      BY <1>6, <1>7
    <3> QED
      BY <3>1, <1>4 DEF Left
  <2> QED
    BY <2>1, <2>2, <1>5, BelowIn DEF P, X
<1>12. IsTable(T2, E) /\ \A n \in E, s \in Slots : T2[n][s] = ListOf(t2, k2, n, s)
  BY <1>1, ListsOfIs
<1> HIDE DEF T, T2, V
<1>13. OnlyPlace(V, D, q, d, h, y)
  <2>1. h = Shifted(p = q /\ c = d, i, j)
    OBVIOUS
  <2> HIDE DEF h
  <2> QED
    BY <2>1, <1>1, <1>4, <1>8, OtherPlace
<1> HIDE DEF h
<1>14. TableWith(W, E, V, q, d, Splice(V[q][d], h, 1, <<x>>))
  BY <1>4, <1>5, <1>11, <1>13, InsteadIs
<1> HIDE DEF W
<1>15. IsTable(W, E)
  BY <1>14 DEF TableWith
<1>16. ASSUME NEW n \in E, NEW s \in Slots PROVE T2[n][s] = W[n][s]
  <2>1. W[n][s] = IF n = q /\ s = d THEN Splice(V[q][d], h, 1, <<x>>) ELSE V[n][s]
    BY <1>14 DEF TableWith
  <2>2. T2[n][s] = IF n = q /\ s = d THEN Splice(Left(t, k, p, c, i, q, d), h, 1, <<x>>)
                   ELSE Left(t, k, p, c, i, n, s)
    BY <1>1, <1>12 DEF LeftAndCome
  <2>3. V[q][d] = Left(t, k, p, c, i, q, d) /\ V[n][s] = Left(t, k, p, c, i, n, s)
    BY <1>2, <1>4
  <2> QED
    BY <2>1, <2>2, <2>3
<1> HIDE DEF E
<1>17. T2 = W
  BY <1>12, <1>15, <1>16, SameTable
<1> HIDE DEF place, other
<1>18. x \notin Model!Below(T, y) /\ y \notin Model!Below(T, x)
  BY <1>1, <1>9, <1>10
<1> QED
  BY <1>3, <1>17, <1>18 DEF T, T2, V, W

\* Names of the model for what the lemmas above say of two tables.
LEMMA NewNames ==
    /\ \A x : Model!NewTree(x) <=> OneTree(lists, lists', x)
    /\ Model!New = WithNew(lists, lists')
  BY DEF Model!NewTree, Model!New, OneTree, WithNew

\* AddPartition.
LEMMA PartitionIsAdded ==
    ASSUME PartitionComes
    PROVE  Model!AddPartition
<1>1. PICK new :
          /\ IsTree(new, None) /\ DOMAIN new.rows \intersect DOMAIN nodes = {}
          /\ GraftedTables(nodes, containments, new, nodes', containments')
  BY DEF PartitionComes
<1> DEFINE E == DOMAIN nodes \union DOMAIN new.rows
<1>2. DOMAIN nodes' = E
  BY <1>1 DEF GraftedTables
<1>3. CameInModel(nodes, containments, new, nodes', containments')
  <2>1. Came(nodes, new, None, DOMAIN nodes, nodes', containments')
    BY <1>1, <1>2 DEF Came, NewIn, GraftedTables
  <2> QED
    BY <2>1, NewIs
<1>4. OneTree(lists, lists', new.root)
  BY <1>3, ListsAreOf DEF CameInModel
<1> DEFINE V == WithNew(lists, lists')
<1>5. /\ IsTable(V, E)
      /\ \A n \in DOMAIN nodes, s \in Slots : V[n][s] = ListOf(nodes, containments, n, s)
      /\ \A m \in DOMAIN new.rows, s \in Slots : V[m][s] = lists'[m][s]
  BY <1>3, ListsAreOf DEF CameInModel
<1>6. /\ IsTable(lists', E)
      /\ \A n \in E, s \in Slots : lists'[n][s] = ListOf(nodes', containments', n, s)
      /\ DOMAIN lists' = E
  BY <1>2, ListsAreOf, ListsOfIs
<1>7. ASSUME NEW n \in E, NEW s \in Slots PROVE lists'[n][s] = V[n][s]
  <2> HIDE DEF V
  <2>1. CASE n \in DOMAIN nodes
    BY <2>1, <1>1, <1>5, <1>6 DEF GraftedTables
  <2>2. CASE n \in DOMAIN new.rows
    BY <2>2, <1>5
  <2> QED
    BY <2>1, <2>2
<1>9. new.root \in E
  BY <1>1 DEF IsTree
<1> HIDE DEF V, E
<1>8. lists' = V
  BY <1>5, <1>6, <1>7, SameTable
<1>10. Model!NewTree(new.root) /\ lists' = Model!New
  BY <1>4, <1>8, NewNames DEF V
<1> QED
  BY <1>6, <1>9, <1>10 DEF Model!AddPartition

\* DeletePartition.
LEMMA PartitionIsDeleted ==
    ASSUME Typed(nodes, containments), Well(nodes, containments), PartitionGoes
    PROVE  Model!DeletePartition
<1>1. PICK y \in DOMAIN nodes :
          /\ nodes[y].parent = None
          /\ DeletedTables(nodes, containments, y, nodes', containments')
  BY DEF PartitionGoes
<1> DEFINE T == ListsOf(nodes, containments)
           T2 == ListsOf(nodes', containments')
           X == Under(ParentsOf(nodes), y)
           E == DOMAIN nodes \ X
           W == Model!Without(T, X)
<1>2. /\ IsTable(T, DOMAIN nodes) /\ DOMAIN T = DOMAIN nodes
      /\ \A n \in DOMAIN nodes, s \in Slots : T[n][s] = ListOf(nodes, containments, n, s)
  BY ListsOfIs
<1>3. /\ DOMAIN nodes' = E
      /\ \A n \in E, s \in Slots :
             ListOf(nodes', containments', n, s) = ListOf(nodes, containments, n, s)
  BY <1>1 DEF DeletedTables
<1>4. /\ IsTable(T2, E)
      /\ \A n \in E, s \in Slots : T2[n][s] = ListOf(nodes', containments', n, s)
  BY <1>3, ListsOfIs
<1>5. Model!Below(T, y) = X
  <2>1. X \subseteq DOMAIN nodes
    BY NamedIs, UnderClosed
  <2>2. \A n \in X, s \in Slots : T[n][s] = ListOf(nodes, containments, n, s)
    BY <2>1, <1>2
  <2> HIDE DEF T
  <2> QED
    BY <2>2, <1>2, BelowIn
<1>6. ASSUME NEW n \in DOMAIN nodes PROVE y \notin Model!Listed(T, n)
  <2>1. \A s \in Slots : ~(y \in Entries(ListOf(nodes, containments, n, s)))
    <3>1. n # None
      BY <1>6, NamedIs DEF Well, Forest
    <3> QED
      BY <3>1, <1>1, ChildrenAre
  <2>4. \A s : ListOf(nodes, containments, n, s) \in Seq(Ids)
    BY RowTypes
  <2>2. \A s \in Slots : T[n][s] = ListOf(nodes, containments, n, s) /\ T[n][s] \in Seq(Ids)
    BY <2>4, <1>2
  <2> HIDE DEF T
  <2>3. y \in Model!Listed(T, n) <=> \E s \in Slots : y \in Entries(T[n][s])
    BY <2>2, ListedBy
  <2> QED
    BY <2>1, <2>2, <2>3
<1> HIDE DEF T, T2, X
<1>7. IsTable(W, E) /\ \A n \in E : W[n] = T[n]
  <2>1. IsTable(T, DOMAIN nodes)
    BY <1>2
  <2> QED
    BY ONLY <2>1, SmallerTable
<1>8. ASSUME NEW n \in E, NEW s \in Slots PROVE T2[n][s] = W[n][s]
  BY <1>2, <1>3, <1>4, <1>7
<1> HIDE DEF W, E
<1>9. T2 = W
  BY <1>4, <1>7, <1>8, SameTable
<1>10. lists = T /\ lists' = T2
  BY ListsAreOf DEF T, T2
<1>11. lists' = Model!Without(lists, Model!Below(lists, y))
  BY <1>5, <1>9, <1>10 DEF W
<1>12. y \in DOMAIN lists /\ \A n \in DOMAIN lists : y \notin Model!Listed(lists, n)
  BY <1>2, <1>6, <1>10
<1> QED
  BY <1>11, <1>12 DEF Model!DeletePartition

\* Each change is a step of the model.
LEMMA ChangeIsModelStep ==
    ASSUME Typed(nodes, containments), Well(nodes, containments), OneChange
    PROVE  Model!Next
<1> DEFINE T == ListsOf(nodes, containments)
           T2 == ListsOf(nodes', containments')
<1>0. lists = T /\ lists' = T2
  BY ListsAreOf
<1>d. DOMAIN T = DOMAIN nodes
  BY ListsOfIs
<1>1. CASE PartitionComes
  BY <1>1, PartitionIsAdded DEF Model!Next
<1>2. CASE PartitionGoes
  BY <1>2, PartitionIsDeleted DEF Model!Next
<1>3. CASE TreeComes
  <2>1. PICK p, u, i, new : Comes(nodes, containments, new, p, u, i, nodes', containments')
    BY <1>3 DEF TreeComes
  <2>2. /\ OneTree(T, T2, new.root)
        /\ \E h \in 1..Len(T[p][u]) + 1 : T2 = Model!Put(WithNew(T, T2), p, u, h, new.root)
    BY <2>1, ComesIsAdd
  <2>3. p \in DOMAIN nodes /\ u \in Slots /\ new.root \in DOMAIN nodes'
    BY <2>1 DEF Comes, IsTree
  <2>4. DOMAIN T2 = DOMAIN nodes'
    BY ListsOfIs
  <2> HIDE DEF T, T2
  <2>5. Model!NewTree(new.root) /\ Model!New = WithNew(T, T2)
    BY <1>0, <2>2, NewNames
  <2>6. Model!Add
    BY <1>0, <1>d, <2>2, <2>3, <2>4, <2>5 DEF Model!Add, Slots
  <2> QED
    BY <2>6 DEF Model!Next
<1>4. CASE NodeGoes
  <2>1. PICK p, u, i, y : Goes(nodes, containments, p, u, i, y, nodes', containments')
    BY <1>4 DEF NodeGoes
  <2>2. \E place \in Model!Places(T) :
            T2 = Model!Without(Model!Taken(T, place), Model!Below(T, Model!NodeAt(T, place)))
    BY <2>1, GoesIsDelete
  <2> HIDE DEF T, T2
  <2>3. Model!Delete
    BY <1>0, <2>2 DEF Model!Delete
  <2> QED
    BY <2>3 DEF Model!Next
<1>5. CASE NodeIsReplaced
  <2>1. PICK p, u, i, y, new :
            IsReplaced(nodes, containments, p, u, i, y, new, nodes', containments')
    BY <1>5 DEF NodeIsReplaced
  <2>2. /\ OneTree(T, T2, new.root)
        /\ \E place \in Model!Places(T) :
               T2 = Model!Instead(WithNew(T, T2), new.root, Model!NodeAt(T, place))
    BY <2>1, IsReplacedIsReplace
  <2>3. new.root \in DOMAIN nodes'
    BY <2>1 DEF IsReplaced, IsTree
  <2>4. DOMAIN T2 = DOMAIN nodes'
    BY ListsOfIs
  <2> HIDE DEF T, T2
  <2>5. Model!NewTree(new.root) /\ Model!New = WithNew(T, T2)
    BY <1>0, <2>2, NewNames
  <2>6. Model!Replace
    BY <1>0, <2>2, <2>3, <2>4, <2>5 DEF Model!Replace
  <2> QED
    BY <2>6 DEF Model!Next
<1>6. CASE NodeMoves
  <2>1. PICK x, p, c, i, q, d, j :
            Moves(nodes, containments, x, p, c, i, q, d, j, nodes', containments')
    BY <1>6 DEF NodeMoves
  <2>2. PICK place \in Model!Places(T) :
            /\ Model!NodeAt(T, place) = x
            /\ q \in DOMAIN T \ Model!Below(T, x)
            /\ d \in Slots
            /\ \E h \in 1..Len(Model!Taken(T, place)[q][d]) + 1 :
                   T2 = Model!Put(Model!Taken(T, place), q, d, h, x)
    BY <2>1, MovesIsMove
  <2> HIDE DEF T, T2
  <2>3. Model!Move
    BY <1>0, <2>2 DEF Model!Move, Slots
  <2> QED
    BY <2>3 DEF Model!Next
<1>7. CASE NodeMovesOver
  <2>1. PICK x, p, c, i, q, d, j, y :
            MovesOver(nodes, containments, x, p, c, i, q, d, j, y, nodes', containments')
    BY <1>7 DEF NodeMovesOver
  <2>2. \E place, other \in Model!Places(T) :
            /\ Model!NodeAt(T, place) = x
            /\ Model!NodeAt(T, other) = y
            /\ x \notin Model!Below(T, y)
            /\ y \notin Model!Below(T, x)
            /\ T2 = Model!Instead(Model!Taken(T, place), x, y)
    BY <2>1, MovesOverIsMoveAndReplace
  <2> HIDE DEF T, T2
  <2>3. Model!MoveAndReplace
    BY <1>0, <2>2 DEF Model!MoveAndReplace
  <2> QED
    BY <2>3 DEF Model!Next
<1> QED
  BY <1>1, <1>2, <1>3, <1>4, <1>5, <1>6, <1>7 DEF OneChange

\* A step does to the lists what the model says.
LEMMA StepOfModel ==
    ASSUME IInv, [Next]_vars
    PROVE  [~stray' => Model!Next]_lists
<1>1. CASE Next
  <2>1. Typed(nodes, containments) /\ Well(nodes, containments)
    BY <1>1 DEF IInv, Sound, Next
  <2>2. ~stray' => OneChange
    BY <1>1, CommandsKeep
  <2> QED
    BY <2>1, <2>2, ChangeIsModelStep
<1>2. CASE UNCHANGED vars
  <2>1. lists' = lists
    <3>1. nodes' = nodes /\ containments' = containments
      BY <1>2 DEF vars
    <3> QED
      BY <3>1, ListsAreOf
  <2> QED
    BY <2>1
<1> QED
  BY <1>1, <1>2

--------------------------------------------------------------------------------
(***************************************************************************)
(* A command changes nothing outside of the partition that its event names.*)
(***************************************************************************)
\* The partition that an event names is above the nodes of the command; if it names one that
\* the two nodes of a move have, above both.
LEMMA ToldHas ==
    ASSUME Typed(nodes', containments'), Well(nodes', containments'),
           NEW p \in DOMAIN nodes', NEW q \in DOMAIN nodes', Tells(p, q)
    PROVE  /\ Has(nodes', event'.partition, {p})
           /\ ~event'.crossed => Has(nodes', event'.partition, {p, q})
<1>1. /\ PartitionIn(nodes', p) \in DOMAIN nodes' /\ nodes'[PartitionIn(nodes', p)].parent = None
      /\ p \in Under(ParentsOf(nodes'), PartitionIn(nodes', p))
  BY PartitionAbove
<1>2. q \in Under(ParentsOf(nodes'), PartitionIn(nodes', q))
  BY PartitionAbove
<1>3. event'.partition = PartitionIn(nodes', p)
  BY PartitionIsNext DEF Tells
<1>4. ~event'.crossed => PartitionIn(nodes', p) = PartitionIn(nodes', q)
  BY PartitionIsNext DEF Tells
<1> QED
  BY <1>1, <1>2, <1>3, <1>4 DEF Has

\* A change is one within the partition that its event names.
LEMMA ChangeIsWithin ==
    ASSUME Typed(nodes, containments), Well(nodes, containments),
           Typed(nodes', containments'), Well(nodes', containments'),
           OneChange, ~event'.crossed
    PROVE  \E A, T : Within(nodes, containments, A, T, event'.partition, nodes', containments')
<1> DEFINE r == event'.partition
<1>1. CASE PartitionComes
  <2>1. PICK new :
            /\ IsTree(new, None) /\ DOMAIN new.rows \intersect DOMAIN nodes = {}
            /\ GraftedTables(nodes, containments, new, nodes', containments')
            /\ Tells(new.root, new.root)
    BY <1>1 DEF PartitionComes
  <2>2. new.root \in DOMAIN nodes' /\ nodes'[new.root].parent = None
    BY <2>1 DEF GraftedTables, IsTree
  <2>3. Has(nodes', r, {new.root})
    BY <2>1, <2>2, ToldHas
  <2>4. r = new.root
    <3>1. /\ new.root \in Under(ParentsOf(nodes'), r)
          /\ new.root # r => ParentsOf(nodes')[new.root] \in Under(ParentsOf(nodes'), r)
      BY <2>3, UnderParts DEF Has
    <3>2. /\ Under(ParentsOf(nodes'), r) \subseteq DOMAIN nodes'
          /\ ParentsOf(nodes')[new.root] = None
      BY <2>2, NamedIs, UnderClosed
    <3>3. None \notin DOMAIN nodes'
      BY NamedIs DEF Well, Forest
    <3> QED
      BY <3>1, <3>2, <3>3
  <2> QED
    BY <2>1, <2>4, PartitionComesWithin
<1>2. CASE PartitionGoes
  <2>1. PICK y \in DOMAIN nodes :
            /\ nodes[y].parent = None
            /\ DeletedTables(nodes, containments, y, nodes', containments')
            /\ event' = [partition |-> y, crossed |-> FALSE]
    BY <1>2 DEF PartitionGoes
  <2>2. r = y
    BY <2>1
  <2> QED
    BY <2>1, <2>2, PartitionGoesWithin
<1>3. CASE TreeComes
  <2>1. PICK p, u, i, new :
            /\ Comes(nodes, containments, new, p, u, i, nodes', containments')
            /\ Tells(p, p)
    BY <1>3 DEF TreeComes
  <2>2. p \in DOMAIN nodes'
    BY <2>1 DEF Comes
  <2>3. Has(nodes', r, {p})
    BY <2>1, <2>2, ToldHas
  <2> QED
    BY <2>1, <2>3, TreeComesWithin
<1>4. CASE NodeGoes
  <2>1. PICK p, u, i, y :
            /\ Goes(nodes, containments, p, u, i, y, nodes', containments')
            /\ Tells(p, p)
    BY <1>4 DEF NodeGoes
  <2>2. p \in DOMAIN nodes'
    BY <2>1, AtIsListed, ListedOnce DEF Goes, Rest, At
  <2>3. Has(nodes', r, {p})
    BY <2>1, <2>2, ToldHas
  <2> QED
    BY <2>1, <2>3, NodeGoesWithin
<1>5. CASE NodeIsReplaced
  <2>1. PICK p, u, i, y, new :
            /\ IsReplaced(nodes, containments, p, u, i, y, new, nodes', containments')
            /\ Tells(p, p)
    BY <1>5 DEF NodeIsReplaced
  <2>2. p \in DOMAIN nodes'
    BY <2>1, AtIsListed, ListedOnce DEF IsReplaced, Rest, At
  <2>3. Has(nodes', r, {p})
    BY <2>1, <2>2, ToldHas
  <2> QED
    BY <2>1, <2>3, NodeIsReplacedWithin
<1>6. CASE NodeMoves
  <2>1. PICK x, p, c, i, q, d, j :
            /\ Moves(nodes, containments, x, p, c, i, q, d, j, nodes', containments')
            /\ Tells(p, q)
    BY <1>6 DEF NodeMoves
  <2>2. p \in DOMAIN nodes' /\ q \in DOMAIN nodes'
    BY <2>1 DEF Moves, At
  <2>3. Has(nodes', r, {p, q})
    BY <2>1, <2>2, ToldHas
  <2> QED
    BY <2>1, <2>3, NodeMovesWithin
<1>7. CASE NodeMovesOver
  <2>1. PICK x, p, c, i, q, d, j, y :
            /\ MovesOver(nodes, containments, x, p, c, i, q, d, j, y, nodes', containments')
            /\ Tells(p, q)
    BY <1>7 DEF NodeMovesOver
  <2>2. p \in DOMAIN nodes' /\ q \in DOMAIN nodes'
    <3>1. /\ DOMAIN nodes' = DOMAIN nodes \ Under(ParentsOf(nodes), y)
          /\ x \notin Under(ParentsOf(nodes), y)
          /\ p \in DOMAIN nodes /\ q \in DOMAIN nodes
      BY <2>1 DEF MovesOver, Rest, At
    <3>2. q \notin Under(ParentsOf(nodes), y)
      BY <2>1, AtIsListed, ListedOnce DEF MovesOver
    <3>3. nodes[x].parent = p /\ x \in DOMAIN nodes
      BY <2>1, AtIsListed, ListedOnce DEF MovesOver
    <3>4. p \notin Under(ParentsOf(nodes), y)
      BY <3>1, <3>3, NamedIs, UnderClosed
    <3> QED
      BY <3>1, <3>2, <3>4
  <2>3. Has(nodes', r, {p, q})
    BY <2>1, <2>2, ToldHas
  <2>4. Within(nodes, containments, {p, q},
               Under(ParentsOf(nodes), x) \union Under(ParentsOf(nodes), y),
               r, nodes', containments')
    BY <2>1, <2>3, NodeMovesOverWithin
  <2> QED
    BY <2>4
<1> QED
  BY <1>1, <1>2, <1>3, <1>4, <1>5, <1>6, <1>7 DEF OneChange

\* Partitions and Contents are read from the two tables.
LEMMA ContentsAre ==
    ASSUME NEW x
    PROVE  /\ Contents(x) = ContentsOf(nodes, containments, x)
           /\ Contents(x)' = ContentsOf(nodes', containments', x)
           /\ x \in Partitions <=> x \in DOMAIN nodes /\ nodes[x].parent = None
           /\ x \in Partitions' <=> x \in DOMAIN nodes' /\ nodes'[x].parent = None
<1>1. /\ Subtree(x) = Under(ParentsOf(nodes), x)
      /\ Subtree(x)' = Under(ParentsOf(nodes'), x)
  <2>1. Subtree(x) = Under(ParentsOf(nodes), x)
    BY SubtreeIs
  <2>2. \A X : ChildrenOf(X)' = {m \in DOMAIN nodes' : ParentsOf(nodes')[m] \in X}
    BY DEF ChildrenOf, ParentsOf
  <2>3. DOMAIN ParentsOf(nodes') = DOMAIN nodes'
    BY DEF ParentsOf
  <2>4. Subtree(x)' = Under(ParentsOf(nodes'), x)
    <3> HIDE DEF ParentsOf
    <3> QED
      BY <2>2, <2>3 DEF Subtree, Under
  <2> QED
    BY <2>1, <2>4
<1>2. Contents(x) = ContentsOf(nodes, containments, x)
  BY <1>1 DEF Contents, ContentsOf, children, RowOf
<1>3. Contents(x)' = ContentsOf(nodes', containments', x)
  BY <1>1 DEF Contents, ContentsOf, children, RowOf
<1> QED
  BY <1>2, <1>3 DEF Partitions

\* A step changes no partition but the one that its event names.
LEMMA StepIsTold ==
    ASSUME IInv, [Next]_vars
    PROVE  [~stray' /\ ~event'.crossed =>
               \A x \in Ids \ {event'.partition} :
                   /\ x \in Partitions <=> x \in Partitions'
                   /\ x \in Partitions => Contents(x)' = Contents(x)]_vars
<1>1. SUFFICES ASSUME Next, ~stray', ~event'.crossed, NEW x \in Ids \ {event'.partition}
               PROVE  /\ x \in Partitions <=> x \in Partitions'
                      /\ x \in Partitions => Contents(x)' = Contents(x)
  OBVIOUS
<1>2. Typed(nodes, containments) /\ Well(nodes, containments)
  BY <1>1 DEF IInv, Sound, Next
<1>3. IInv' /\ OneChange
  BY <1>1, CommandsKeep
<1>4. Typed(nodes', containments') /\ Well(nodes', containments')
  BY <1>1, <1>3 DEF IInv, Sound
<1>5. PICK A, T : Within(nodes, containments, A, T, event'.partition, nodes', containments')
  BY <1>1, <1>2, <1>3, <1>4, ChangeIsWithin
<1>6. /\ x \in DOMAIN nodes /\ nodes[x].parent = None
             <=> x \in DOMAIN nodes' /\ nodes'[x].parent = None
      /\ x \in DOMAIN nodes /\ nodes[x].parent = None
             => ContentsOf(nodes', containments', x) = ContentsOf(nodes, containments, x)
  BY <1>1, <1>2, <1>4, <1>5, OthersStay
<1> QED
  BY <1>6, ContentsAre

--------------------------------------------------------------------------------
(***************************************************************************)
(* The theorems.                                                           *)
(***************************************************************************)
\* Every command, stray or not, leaves tables and an event of their types; in particular no
\* containment row without children stays behind (FeatureMissing, DbChanges.ts).
THEOREM TypesAreKept == Spec => []TypeOK
<1>1. Init => IInv
  BY InitInv
<1>2. IInv /\ [Next]_vars => IInv'
  BY NextInv
<1>3. IInv => TypeOK
  BY InvTypes
<1> QED
  BY <1>1, <1>2, <1>3, PTL DEF Spec

\* Every command, stray or not, leaves no row whose parent or node does not exist: the
\* subtree that SQL_deleteFullNodes() deletes is complete.
THEOREM NoRowsDangle == Spec => []NoDanglingRows
<1>1. Init => IInv
  BY InitInv
<1>2. IInv /\ [Next]_vars => IInv'
  BY NextInv
<1>3. IInv => NoDanglingRows
  BY InvNoDanglingRows
<1> QED
  BY <1>1, <1>2, <1>3, PTL DEF Spec

\* As long as no stray command was executed, the parent columns and the lists of children
\* and annotations are the same tree, and the recursive query for a subtree ends, after
\* any number of commands in any order (ChildCommands.ts, AnnotationCommands.ts).
THEOREM TreeIsProper == Spec => []ProperTree
<1>1. Init => IInv
  BY InitInv
<1>2. IInv /\ [Next]_vars => IInv'
  BY NextInv
<1>3. IInv => ProperTree
  BY TreeOfTables DEF IInv, Sound, ProperTree
<1> QED
  BY <1>1, <1>2, <1>3, PTL DEF Spec

\* A command that is not a stray one does to the lists what its kind promises the clients, and
\* nothing else: it adds, deletes, replaces or moves one node with all that is below it, in one
\* place (ChildCommands.ts, AnnotationCommands.ts, PartitionCommands.ts).
THEOREM CommandsImplementModelTree == Spec => ImplementsModelTree
<1>1. Init => IInv
  BY InitInv
<1>2. IInv /\ [Next]_vars => IInv'
  BY NextInv
<1>3. IInv /\ [Next]_vars => [~stray' => Model!Next]_lists
  BY StepOfModel
<1> QED
  BY <1>1, <1>2, <1>3, PTL DEF Spec, ImplementsModelTree

\* As long as no stray command is executed, the repository is ModelTree, from the empty one on.
THEOREM RepositoryIsModelTree == Spec /\ []~stray => Model!Spec
<1>1. Init => IInv
  BY InitInv
<1>2. IInv /\ [Next]_vars => IInv'
  BY NextInv
<1>3. Init => Model!Init
  <2>1. SUFFICES ASSUME Init PROVE lists = <<>>
    BY DEF Model!Init
  <2>2. nodes = <<>>
    BY <2>1 DEF Init
  <2>3. DOMAIN nodes = {}
    BY <2>2
  <2>4. lists = ListsOf(nodes, containments)
    BY ListsAreOf
  <2>5. lists = [n \in {} |-> [s \in Slots |-> ListOf(nodes, containments, n, s)]]
    BY <2>3, <2>4 DEF ListsOf
  <2> QED
    BY <2>5
<1>4. IInv /\ [Next]_vars /\ ~stray' => [Model!Next]_lists
  BY StepOfModel
<1> QED
  BY <1>1, <1>2, <1>3, <1>4, PTL DEF Spec, Model!Spec

\* A command that is not a stray one changes no partition but the one that its event names, whose
\* subscribers are told of it, unless it moves a node to another partition (DB_affectedPartition(),
\* DeltaProcessor.ts).
THEOREM EventNamesWhatChanges == Spec => ToldPartition
<1>1. Init => IInv
  BY InitInv
<1>2. IInv /\ [Next]_vars => IInv'
  BY NextInv
<1>3. IInv /\ [Next]_vars =>
          [~stray' /\ ~event'.crossed =>
               \A x \in Ids \ {event'.partition} :
                   /\ x \in Partitions <=> x \in Partitions'
                   /\ x \in Partitions => Contents(x)' = Contents(x)]_vars
  BY StepIsTold
<1> QED
  BY <1>1, <1>2, <1>3, PTL DEF Spec, ToldPartition
================================================================================
