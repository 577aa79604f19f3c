------------------------------ MODULE BulkImportProofs ------------------------------
(***************************************************************************)
(* Proofs about the bulk API and the bulk import: what BulkImport's run    *)
(* checks with four ids holds for any number of ids and containments.      *)
(*                                                                         *)
(* ImportInv, the inductive invariant, has a case for each point at which  *)
(* an import can be.  Before its first COPY the tables are those of a      *)
(* forest (Right).  When the nodes are copied and their containments are   *)
(* not, the nodes that were there still are one.  While roots wait to be   *)
(* attached, the tables are a forest but for these roots, and every        *)
(* container of one is below a partition (Graftable): a root that is       *)
(* attached takes what is below it there.                                  *)
(*                                                                         *)
(* For the requests the work is in store.  Storing says what Merged makes  *)
(* of a chunk, Tells what Diff finds; NotKeptIsGone and GoneIsNotKept show *)
(* that the orphans are the nodes that the merged lists no longer reach,   *)
(* by induction along the old tree (ForestInduction) and because a list    *)
(* cannot go in a circle (NoCycle); AfterIsMerged puts it together.  For   *)
(* retrieve, SubtreeLeast and SubtreeCloses compare the levels of the      *)
(* parent column, which are recursive functions, with the lists.           *)
(***************************************************************************)
EXTENDS BulkImport, Induction, SequenceTheorems, TLAPS

(***************************************************************************)
(* Lists, and what is below a node by them.                                *)
(***************************************************************************)
ListsType == [Ids \X Places -> Seq(Ids)]

\* Node n lists x under k.
Lists(l, n, k, x) == x \in ToSet(l[<<n, k>>])

\* What a node lists, it lists under some place.
LEMMA ListedMeans ==
    ASSUME NEW l, NEW n, NEW x
    PROVE  x \in Listed(l, n) <=> \E k \in Places : Lists(l, n, k, x)
BY DEF Listed, Lists

\* The items of a sequence over a set are in the set.
LEMMA ItemsOfSeq ==
    ASSUME NEW S, NEW s \in Seq(S)
    PROVE  ToSet(s) \subseteq S
<1>1. s \in [1..Len(s) -> S]
    BY LenProperties
<1>2. DOMAIN s = 1..Len(s)
    BY <1>1
<1> QED
    BY <1>1, <1>2 DEF ToSet

\* Lists name ids only.
LEMMA ListedType ==
    ASSUME NEW l \in ListsType, NEW n \in Ids
    PROVE  Listed(l, n) \subseteq Ids
<1>1. ASSUME NEW k \in Places, NEW x, Lists(l, n, k, x) PROVE x \in Ids
    <2>1. l[<<n, k>>] \in Seq(Ids)
        BY DEF ListsType
    <2> QED
        BY <1>1, <2>1, ItemsOfSeq DEF Lists
<1> QED
    BY <1>1, ListedMeans

\* What a node of S lists is in S.
Closed(l, S) == \A n \in S : Listed(l, n) \subseteq S

\* What is below nodes N is in every closed set that has N.
LEMMA BelowLeast ==
    ASSUME NEW l, NEW N, NEW S \in SUBSET Ids, N \subseteq S, Closed(l, S)
    PROVE  Below(l, N) \subseteq S
BY DEF Below, Closed

\* N is below itself, and what is below N is closed.
LEMMA BelowHas ==
    ASSUME NEW l \in ListsType, NEW N \in SUBSET Ids
    PROVE  /\ N \subseteq Below(l, N) /\ Below(l, N) \subseteq Ids
           /\ Closed(l, Below(l, N))
<1>1. N \subseteq Below(l, N) /\ Below(l, N) \subseteq Ids
    BY DEF Below
<1>2. ASSUME NEW n \in Below(l, N), NEW x \in Listed(l, n) PROVE x \in Below(l, N)
    <2>1. x \in Ids
        BY <1>1, ListedType
    <2>2. ASSUME NEW S \in SUBSET Ids, N \subseteq S, \A m \in S : Listed(l, m) \subseteq S
          PROVE  x \in S
        BY <2>2 DEF Below
    <2> QED
        BY <2>1, <2>2 DEF Below
<1> QED
    BY <1>1, <1>2 DEF Closed

\* Longer lists, from nodes that reach as far, reach no less.
LEMMA BelowMore ==
    ASSUME NEW l \in ListsType, NEW m \in ListsType, NEW N \in SUBSET Ids, NEW M \in SUBSET Ids,
           N \subseteq Below(m, M), \A n \in Ids : Listed(l, n) \subseteq Listed(m, n)
    PROVE  Below(l, N) \subseteq Below(m, M)
<1> DEFINE S == Below(m, M)
<1>1. S \in SUBSET Ids /\ Closed(m, S)
    BY BelowHas
<1>2. Closed(l, S)
    BY <1>1 DEF Closed
<1> HIDE DEF S
<1>3. Below(l, N) \subseteq S
    BY <1>1, <1>2, BelowLeast DEF S
<1> QED
    BY <1>3 DEF S

(***************************************************************************)
(* Forests.                                                                *)
(***************************************************************************)
\* Parents of some nodes.
IsParents(p) == DOMAIN p \subseteq Ids /\ \A n \in DOMAIN p : p[n] \in Ids \union {None}

\* Roots are ids.
LEMMA RootsType ==
    ASSUME NEW p, IsParents(p)
    PROVE  Roots(p) \in SUBSET Ids
BY DEF Roots, IsParents

\* In a forest, what is listed exists, and so does its lister, which is its parent.
LEMMA ForestLists ==
    ASSUME NEW p, NEW l \in ListsType, IsForest(p, l), NEW n \in Ids, NEW x \in Listed(l, n)
    PROVE  n \in DOMAIN p /\ x \in DOMAIN p /\ p[x] = n
BY ListedType DEF IsForest

\* In a forest every node but a root is listed by its parent.
LEMMA ForestParent ==
    ASSUME NEW p, IsParents(p), NEW l \in ListsType, IsForest(p, l), NEW x \in DOMAIN p, p[x] # None
    PROVE  p[x] \in DOMAIN p /\ x \in Listed(l, p[x])
<1>1. ListsOnce(l, p[x], x) /\ p[x] \in Ids
    BY DEF IsForest, Roots, IsParents
<1>2. PICK k \in Places : \E i \in DOMAIN l[<<p[x], k>>] : l[<<p[x], k>>][i] = x
    BY <1>1 DEF ListsOnce
<1>3. Lists(l, p[x], k, x)
    BY <1>2 DEF Lists, ToSet
<1>4. x \in Listed(l, p[x])
    BY <1>3, ListedMeans
<1> QED
    BY <1>1, <1>4, ForestLists

\* A node that is listed once is listed under one place.
LEMMA OnePlace ==
    ASSUME NEW l, NEW n, NEW x, ListsOnce(l, n, x),
           NEW k \in Places, NEW j \in Places, Lists(l, n, k, x), Lists(l, n, j, x)
    PROVE  j = k
BY DEF ListsOnce, Lists, ToSet

\* What is below m but for m has its parent below m.
LEMMA BelowOne ==
    ASSUME NEW p, NEW l \in ListsType, IsForest(p, l), NEW m \in Ids,
           NEW x \in Below(l, {m}), x # m
    PROVE  x \in DOMAIN p /\ p[x] \in Below(l, {m})
<1> DEFINE B == Below(l, {m})
           T == {y \in B : y = m \/ (y \in DOMAIN p /\ p[y] \in B)}
<1>1. m \in B /\ B \subseteq Ids /\ Closed(l, B)
    BY BelowHas
<1>2. Closed(l, T)
    BY <1>1, ForestLists DEF Closed
<1>3. {m} \subseteq T /\ T \in SUBSET Ids
    BY <1>1
<1> HIDE DEF T
<1>4. B \subseteq T
    BY <1>2, <1>3, BelowLeast
<1> QED
    BY <1>4 DEF T

\* No node is below what it lists.
LEMMA NoCycle ==
    ASSUME NEW p, IsParents(p), NEW l \in ListsType, IsForest(p, l), NEW n \in Ids, NEW m \in Listed(l, n)
    PROVE  n \notin Below(l, {m})
<1> DEFINE B == Below(l, {m})
           S == DOMAIN p \ B
<1>1. m \in DOMAIN p /\ p[m] = n /\ m \in Ids
    BY ForestLists DEF IsParents
<1>2. SUFFICES ASSUME n \in B PROVE FALSE
    OBVIOUS
<1>3. m \in B /\ B \subseteq Ids
    BY <1>1, BelowHas
<1>4. \A x \in B : x \in DOMAIN p /\ p[x] \in B
    BY <1>1, <1>2, BelowOne
<1>5. Roots(p) \subseteq S
    BY <1>3, <1>4, IdsAssumption DEF Roots
<1>6. Closed(l, S)
    <2> SUFFICES ASSUME NEW y \in S, NEW x \in Listed(l, y) PROVE x \in S
        BY DEF Closed
    <2>1. x \in DOMAIN p /\ p[x] = y
        BY ForestLists DEF IsParents
    <2> QED
        BY <1>4, <2>1
<1>7. S \in SUBSET Ids
    BY DEF IsParents
<1> HIDE DEF S
<1>8. Below(l, Roots(p)) \subseteq S
    BY <1>5, <1>6, <1>7, BelowLeast
<1>9. m \in S
    BY <1>1, <1>8 DEF IsForest
<1> QED
    BY <1>3, <1>9 DEF S

\* A set of nodes with all roots and with what its nodes list has all nodes.
LEMMA ForestInduction ==
    ASSUME NEW p, NEW l, IsForest(p, l), NEW S \in SUBSET Ids, Roots(p) \subseteq S, Closed(l, S)
    PROVE  DOMAIN p \subseteq S
BY BelowLeast DEF IsForest

(***************************************************************************)
(* The queries of trees by the parent column.                              *)
(***************************************************************************)
\* level[d] is d levels below the nodes N.
IsLevels(N, limit, level) ==
    level = [d \in 0..limit |-> IF d = 0 THEN N \intersect DOMAIN parent
                                ELSE {m \in DOMAIN parent : parent[m] \in level[d - 1]}]

\* The recursive function of TreeRows exists.
LEMMA LevelsExist ==
    ASSUME NEW N, NEW limit \in Nat, IsParents(parent)
    PROVE  \E level : IsLevels(N, limit, level)
<1> DEFINE first == N \intersect DOMAIN parent
           step == [q \in (SUBSET Ids) \X (1..limit) |-> {m \in DOMAIN parent : parent[m] \in q[1]}]
<1>1. \A L \in SUBSET Ids, d \in 1..limit : step[<<L, d>>] = {m \in DOMAIN parent : parent[m] \in L}
    OBVIOUS
<1>2. first \in SUBSET Ids /\ \A L \in SUBSET Ids, d \in 1..limit : step[<<L, d>>] \in SUBSET Ids
    BY DEF IsParents
<1> HIDE DEF first, step
<1>3. PICK f : IsIterated(first, step, limit, f)
    BY Iterated
<1>4. \A d \in 0..limit : f[d] = IF d = 0 THEN first ELSE step[<<f[d - 1], d>>]
    BY <1>3 DEF IsIterated
<1>5. f[0] \in SUBSET Ids
    <2>1. 0 \in 0..limit
        OBVIOUS
    <2> QED
        BY <1>2, <1>4, <2>1
<1>6. Steps(SUBSET Ids, limit, f)
    <2> SUFFICES ASSUME NEW d \in 1..limit, f[d - 1] \in SUBSET Ids PROVE f[d] \in SUBSET Ids
        BY DEF Steps
    <2>1. d \in 0..limit /\ d # 0
        OBVIOUS
    <2> QED
        BY <1>2, <1>4, <2>1
<1>7. \A d \in 0..limit : f[d] \in SUBSET Ids
    <2> DEFINE S == SUBSET Ids
    <2>1. f[0] \in S /\ Steps(S, limit, f)
        BY <1>5, <1>6
    <2> HIDE DEF S
    <2>2. \A d \in 0..limit : f[d] \in S
        BY <2>1, StaysIn
    <2> QED
        BY <2>2 DEF S
<1>8. ASSUME NEW d \in 0..limit, d # 0
      PROVE  step[<<f[d - 1], d>>] = {m \in DOMAIN parent : parent[m] \in f[d - 1]}
    <2>1. d - 1 \in 0..limit /\ d \in 1..limit
        BY <1>8
    <2> QED
        BY <1>1, <1>7, <2>1
<1>9. f = [d \in 0..limit |-> IF d = 0 THEN first ELSE step[<<f[d - 1], d>>]]
    BY <1>3 DEF IsIterated
<1>10. f = [d \in 0..limit |-> IF d = 0 THEN first
                               ELSE {m \in DOMAIN parent : parent[m] \in f[d - 1]}]
    BY <1>8, <1>9
<1> QED
    BY <1>10 DEF IsLevels, first

\* The rows of TreeRows are the levels of that function.
LEMMA RowsByLevel ==
    ASSUME NEW N, NEW limit \in Nat, IsParents(parent)
    PROVE  \E level : /\ IsLevels(N, limit, level)
                      /\ TreeRows(N, limit) = UNION {level[d] \X {d} : d \in 0..limit}
<1> DEFINE level == CHOOSE level : IsLevels(N, limit, level)
<1>1. IsLevels(N, limit, level)
    BY LevelsExist
<1>2. TreeRows(N, limit) = UNION {level[d] \X {d} : d \in 0..limit}
    BY DEF TreeRows, IsLevels
<1> HIDE DEF level
<1> QED
    BY <1>1, <1>2

Descends(N, limit, level) ==
    /\ level[0] = N \intersect DOMAIN parent
    /\ \A d \in 1..limit : level[d] = {m \in DOMAIN parent : parent[m] \in level[d - 1]}

\* The levels, one from the other.
LEMMA LevelsAre ==
    ASSUME NEW N, NEW limit \in Nat, NEW level, IsLevels(N, limit, level)
    PROVE  Descends(N, limit, level)
<1>1. \A d \in 0..limit : level[d] = IF d = 0 THEN N \intersect DOMAIN parent
                                    ELSE {m \in DOMAIN parent : parent[m] \in level[d - 1]}
    BY DEF IsLevels
<1>2. 0 \in 0..limit /\ \A d \in 1..limit : d \in 0..limit /\ d # 0
    OBVIOUS
<1> QED
    BY <1>1, <1>2 DEF Descends

\* UNLIMITED_DEPTH is a number: there are finitely many ids.
LEMMA UnlimitedType == Unlimited \in Nat
BY IdsAssumption, FS_CardinalityType DEF Unlimited

\* Level d has nodes only if there are more than d nodes above them.
Deep(l, d, x) == \E A \in SUBSET Ids : Cardinality(A) = d + 1 /\ \A a \in A : x \in Below(l, {a})

\* A node on level d has d other nodes above it, by the lists.
LEMMA LevelsAreDeep ==
    ASSUME NEW l \in ListsType, IsParents(parent), IsForest(parent, l),
           NEW N, NEW limit \in Nat, NEW level, IsLevels(N, limit, level)
    PROVE  \A d \in 0..limit : \A x \in level[d] : Deep(l, d, x)
<1> DEFINE T == {d \in Nat : d <= limit => \A x \in level[d] : x \in DOMAIN parent /\ Deep(l, d, x)}
<1>1. 0 \in T
    <2> SUFFICES ASSUME NEW x \in level[0] PROVE x \in DOMAIN parent /\ Deep(l, 0, x)
        OBVIOUS
    <2>1. x \in DOMAIN parent
        BY LevelsAre DEF Descends
    <2>2. x \in Ids
        BY <2>1 DEF IsParents
    <2>3. Cardinality({x}) = 0 + 1
        BY FS_Singleton
    <2>4. x \in Below(l, {x})
        BY <2>2, BelowHas
    <2> QED
        BY <2>1, <2>2, <2>3, <2>4 DEF Deep
<1>2. ASSUME NEW d \in T PROVE d + 1 \in T
    <2> SUFFICES ASSUME d + 1 <= limit, NEW x \in level[d + 1]
                 PROVE  x \in DOMAIN parent /\ Deep(l, d + 1, x)
        OBVIOUS
    <2>1. d + 1 \in 1..limit /\ d + 1 - 1 = d /\ d <= limit /\ d \in Nat
        OBVIOUS
    <2>2. x \in DOMAIN parent /\ parent[x] \in level[d]
        BY <2>1, LevelsAre DEF Descends
    <2> DEFINE n == parent[x]
    <2>3. n \in DOMAIN parent /\ Deep(l, d, n)
        BY <2>1, <2>2
    <2>4. n \in Ids /\ x \in Ids
        BY <2>2, <2>3 DEF IsParents
    <2>5. x \in Listed(l, n)
        BY <2>2, <2>4, IdsAssumption, ForestParent
    <2>6. n \notin Below(l, {x})
        BY <2>4, <2>5, NoCycle
    <2> HIDE DEF n
    <2>7. PICK A \in SUBSET Ids : Cardinality(A) = d + 1 /\ \A a \in A : n \in Below(l, {a})
        BY <2>3 DEF Deep
    <2>8. x \notin A
        BY <2>6, <2>7
    <2>9. IsFiniteSet(A)
        BY IdsAssumption, FS_Subset
    <2>10. Cardinality(A \union {x}) = d + 1 + 1
        BY <2>7, <2>8, <2>9, FS_AddElement
    <2>11. \A a \in A : x \in Below(l, {a})
        <3> SUFFICES ASSUME NEW a \in A PROVE x \in Below(l, {a})
            OBVIOUS
        <3>1. {a} \in SUBSET Ids
            OBVIOUS
        <3>2. Closed(l, Below(l, {a}))
            BY <3>1, BelowHas
        <3> QED
            BY <2>5, <2>7, <3>2 DEF Closed
    <2>12. x \in Below(l, {x})
        BY <2>4, BelowHas
    <2>13. A \union {x} \in SUBSET Ids /\ \A a \in A \union {x} : x \in Below(l, {a})
        BY <2>4, <2>11, <2>12
    <2> QED
        BY <2>2, <2>10, <2>13 DEF Deep
<1>3. T = Nat
    <2> HIDE DEF T
    <2>1. T \in SUBSET Nat
        BY DEF T
    <2> QED
        BY <1>1, <1>2, <2>1, SetOfNaturals
<1> QED
    BY <1>3

(***************************************************************************)
(* The ids below some nodes, at any depth.                                 *)
(***************************************************************************)
LEMMA SubtreeByLevel ==
    ASSUME NEW N, NEW level, IsParents(parent), IsLevels(N, Unlimited, level),
           TreeRows(N, Unlimited) = UNION {level[d] \X {d} : d \in 0..Unlimited}
    PROVE  Subtree(N) = UNION {level[d] : d \in 0..Unlimited}
<1>1. ASSUME NEW x \in Subtree(N) PROVE x \in UNION {level[d] : d \in 0..Unlimited}
    <2>1. PICK row \in TreeRows(N, Unlimited) : row[1] = x
        BY DEF Subtree
    <2> QED
        BY <2>1
<1>2. ASSUME NEW d \in 0..Unlimited, NEW x \in level[d] PROVE x \in Subtree(N)
    <2> DEFINE row == <<x, d>>
    <2>1. row \in TreeRows(N, Unlimited) /\ row[1] = x
        OBVIOUS
    <2> HIDE DEF row
    <2> QED
        BY <2>1 DEF Subtree
<1> QED
    BY <1>1, <1>2

\* Subtree has the nodes it is asked for that exist, and what is in it is one of them
\* or has its parent in it.
LEMMA SubtreeHas ==
    ASSUME NEW N, IsParents(parent)
    PROVE  /\ N \intersect DOMAIN parent \subseteq Subtree(N)
           /\ Subtree(N) \subseteq DOMAIN parent
           /\ \A x \in Subtree(N) : x \in N \/ parent[x] \in Subtree(N)
<1> DEFINE m == Unlimited
<1>1. PICK level : /\ IsLevels(N, m, level)
                   /\ TreeRows(N, m) = UNION {level[d] \X {d} : d \in 0..m}
    BY UnlimitedType, RowsByLevel
<1>2. Subtree(N) = UNION {level[d] : d \in 0..m}
    BY <1>1, SubtreeByLevel
<1>3. m \in Nat
    BY UnlimitedType
<1> HIDE DEF m
<1>4. 0 \in 0..m
    BY <1>3
<1>6. Descends(N, m, level)
    BY <1>1, <1>3, LevelsAre
<1>5. ASSUME NEW d \in 0..m, NEW x \in level[d]
      PROVE  x \in DOMAIN parent /\ (x \in N \/ parent[x] \in Subtree(N))
    <2>1. CASE d = 0
        BY <1>6, <2>1 DEF Descends
    <2>2. CASE d # 0
        <3>1. d \in 1..m /\ d - 1 \in 0..m
            BY <1>3, <2>2
        <3>2. x \in DOMAIN parent /\ parent[x] \in level[d - 1]
            BY <1>6, <3>1 DEF Descends
        <3> QED
            BY <1>2, <3>1, <3>2
    <2> QED
        BY <2>1, <2>2
<1> QED
    BY <1>2, <1>4, <1>5, <1>6 DEF Descends

\* Subtree is in every set that has these nodes and all children of what it has.
LEMMA SubtreeLeast ==
    ASSUME NEW N, IsParents(parent), NEW T, N \intersect DOMAIN parent \subseteq T,
           \A x \in DOMAIN parent : parent[x] \in T => x \in T
    PROVE  Subtree(N) \subseteq T
<1> DEFINE m == Unlimited
<1>1. PICK level : /\ IsLevels(N, m, level)
                   /\ TreeRows(N, m) = UNION {level[d] \X {d} : d \in 0..m}
    BY UnlimitedType, RowsByLevel
<1>2. Subtree(N) = UNION {level[d] : d \in 0..m}
    BY <1>1, SubtreeByLevel
<1>3. m \in Nat
    BY UnlimitedType
<1> HIDE DEF m
<1> DEFINE S == SUBSET T
<1>7. Descends(N, m, level)
    BY <1>1, <1>3, LevelsAre
<1>4. level[0] \in S
    BY <1>7 DEF Descends
<1>5. Steps(S, m, level)
    <2> SUFFICES ASSUME NEW d \in 1..m, level[d - 1] \in S PROVE level[d] \in S
        BY DEF Steps
    <2>1. level[d] = {x \in DOMAIN parent : parent[x] \in level[d - 1]}
        BY <1>7 DEF Descends
    <2> QED
        BY <2>1
<1> HIDE DEF S
<1>6. \A d \in 0..m : level[d] \in S
    BY <1>3, <1>4, <1>5, StaysIn
<1> QED
    BY <1>2, <1>6 DEF S

\* In a forest the query reaches the end of each tree.
LEMMA SubtreeCloses ==
    ASSUME NEW N, IsParents(parent), lists \in ListsType, IsForest(parent, lists),
           NEW x \in DOMAIN parent, parent[x] \in Subtree(N)
    PROVE  x \in Subtree(N)
<1> DEFINE m == Unlimited
<1>1. PICK level : /\ IsLevels(N, m, level)
                   /\ TreeRows(N, m) = UNION {level[d] \X {d} : d \in 0..m}
    BY UnlimitedType, RowsByLevel
<1>2. Subtree(N) = UNION {level[d] : d \in 0..m}
    BY <1>1, SubtreeByLevel
<1>3. m \in Nat /\ m = Cardinality(Ids)
    BY UnlimitedType DEF Unlimited
<1> HIDE DEF m
<1>4. PICK d \in 0..m : parent[x] \in level[d]
    BY <1>2
<1>5. Deep(lists, d, parent[x])
    BY <1>1, <1>3, <1>4, LevelsAreDeep
<1>6. d < m
    <2>1. PICK A \in SUBSET Ids : Cardinality(A) = d + 1
        BY <1>5 DEF Deep
    <2>2. Cardinality(A) <= Cardinality(Ids)
        BY IdsAssumption, FS_Subset
    <2> QED
        BY <1>3, <2>1, <2>2
<1>7. d + 1 \in 1..m /\ d + 1 - 1 = d /\ d + 1 \in 0..m
    BY <1>3, <1>6
<1>8. Descends(N, m, level)
    BY <1>1, <1>3, LevelsAre
<1>9. x \in level[d + 1]
    BY <1>4, <1>7, <1>8 DEF Descends
<1> QED
    BY <1>2, <1>7, <1>9

(***************************************************************************)
(* Lists without some of their items.                                      *)
(***************************************************************************)
IsKept(s, S, kept) ==
    kept = [i \in 0..Len(s) |->
                IF i = 0 THEN <<>> ELSE IF s[i] \in S THEN Append(kept[i - 1], s[i]) ELSE kept[i - 1]]

\* The recursive function of Filtered exists.
LEMMA KeptExists ==
    ASSUME NEW T, NEW s \in Seq(T), NEW S
    PROVE  \E kept : IsKept(s, S, kept)
<1> DEFINE m == Len(s)
           first == <<>>
           step == [q \in Seq(T) \X (1..m) |-> IF s[q[2]] \in S THEN Append(q[1], s[q[2]]) ELSE q[1]]
<1>1. m \in Nat /\ \A i \in 1..m : s[i] \in T
    BY LenProperties, ElementOfSeq
<1>2. \A u \in Seq(T), i \in 1..m : step[<<u, i>>] = IF s[i] \in S THEN Append(u, s[i]) ELSE u
    OBVIOUS
<1>3. first \in Seq(T) /\ \A u \in Seq(T), i \in 1..m : step[<<u, i>>] \in Seq(T)
    <2>1. \A u \in Seq(T), i \in 1..m : Append(u, s[i]) \in Seq(T)
        BY <1>1, AppendProperties
    <2> QED
        BY <1>2, <2>1
<1> HIDE DEF first, step, m
<1>4. PICK f : IsIterated(first, step, m, f)
    BY <1>1, Iterated
<1>5. \A i \in 0..m : f[i] = IF i = 0 THEN first ELSE step[<<f[i - 1], i>>]
    BY <1>4 DEF IsIterated
<1>6. f[0] \in Seq(T)
    <2>1. 0 \in 0..m
        BY <1>1
    <2> QED
        BY <1>3, <1>5, <2>1
<1>7. Steps(Seq(T), m, f)
    <2> SUFFICES ASSUME NEW i \in 1..m, f[i - 1] \in Seq(T) PROVE f[i] \in Seq(T)
        BY DEF Steps
    <2>1. i \in 0..m /\ i # 0
        BY <1>1
    <2> QED
        BY <1>3, <1>5, <2>1
<1>8. \A i \in 0..m : f[i] \in Seq(T)
    <2> DEFINE V == Seq(T)
    <2>1. f[0] \in V /\ Steps(V, m, f)
        BY <1>6, <1>7
    <2> HIDE DEF V
    <2>2. \A i \in 0..m : f[i] \in V
        BY <1>1, <2>1, StaysIn
    <2> QED
        BY <2>2 DEF V
<1>9. ASSUME NEW i \in 0..m, i # 0
      PROVE  step[<<f[i - 1], i>>] = IF s[i] \in S THEN Append(f[i - 1], s[i]) ELSE f[i - 1]
    <2>1. i - 1 \in 0..m /\ i \in 1..m
        BY <1>1, <1>9
    <2> QED
        BY <1>2, <1>8, <2>1
<1>10. f = [i \in 0..m |-> IF i = 0 THEN first ELSE step[<<f[i - 1], i>>]]
    BY <1>4 DEF IsIterated
<1>11. f = [i \in 0..m |-> IF i = 0 THEN first
                ELSE IF s[i] \in S THEN Append(f[i - 1], s[i]) ELSE f[i - 1]]
    BY <1>9, <1>10
<1> QED
    BY <1>11 DEF IsKept, first, m

Keeps(s, S, kept) ==
    /\ kept[0] = <<>>
    /\ \A i \in 1..Len(s) : kept[i] = IF s[i] \in S THEN Append(kept[i - 1], s[i]) ELSE kept[i - 1]
    /\ Filtered(s, S) = kept[Len(s)]

\* Filtered, one item after the other.
LEMMA FilteredIs ==
    ASSUME NEW T, NEW s \in Seq(T), NEW S
    PROVE  \E kept : Keeps(s, S, kept)
<1> DEFINE kept == CHOOSE kept : IsKept(s, S, kept)
<1>1. IsKept(s, S, kept)
    BY KeptExists
<1>2. Filtered(s, S) = kept[Len(s)]
    BY DEF Filtered, IsKept
<1> HIDE DEF kept
<1>3. Len(s) \in Nat
    BY LenProperties
<1>4. \A i \in 0..Len(s) : kept[i] = IF i = 0 THEN <<>>
            ELSE IF s[i] \in S THEN Append(kept[i - 1], s[i]) ELSE kept[i - 1]
    BY <1>1 DEF IsKept
<1>5. 0 \in 0..Len(s) /\ \A i \in 1..Len(s) : i \in 0..Len(s) /\ i # 0
    BY <1>3
<1> QED
    BY <1>2, <1>4, <1>5 DEF Keeps

\* The items among the first i of a list.
Firstly(s, i) == {s[j] : j \in 1..i}

\* The items of a sequence with one more at its end.
LEMMA AppendItems ==
    ASSUME NEW T, NEW u \in Seq(T), NEW x \in T
    PROVE  Append(u, x) \in Seq(T) /\ ToSet(Append(u, x)) = ToSet(u) \union {x}
<1> DEFINE v == Append(u, x)
           m == Len(u)
<1>1. m \in Nat /\ DOMAIN u = 1..m
    BY LenProperties
<1>2. /\ v \in Seq(T) /\ Len(v) = m + 1 /\ v[m + 1] = x
      /\ \A i \in 1..m : v[i] = u[i]
    BY AppendProperties
<1>3. DOMAIN v = 1..m + 1
    BY <1>2, LenProperties
<1> HIDE DEF v, m
<1>4. \A i \in 1..m + 1 : i \in 1..m \/ i = m + 1
    BY <1>1
<1>5. m + 1 \in 1..m + 1 /\ \A i \in 1..m : i \in 1..m + 1
    BY <1>1
<1>6. ToSet(v) = ToSet(u) \union {x}
    BY <1>1, <1>2, <1>3, <1>4, <1>5 DEF ToSet
<1> QED
    BY <1>2, <1>6 DEF v

\* Filtered keeps the items that are in the set.
LEMMA FilteredItems ==
    ASSUME NEW T, NEW s \in Seq(T), NEW S
    PROVE  Filtered(s, S) \in Seq(T) /\ ToSet(Filtered(s, S)) = ToSet(s) \intersect S
<1> DEFINE m == Len(s)
<1>1. PICK kept : Keeps(s, S, kept)
    BY FilteredIs
<1>2. m \in Nat /\ DOMAIN s = 1..m /\ \A i \in 1..m : s[i] \in T
    BY LenProperties, ElementOfSeq
<1> DEFINE Right(i) == kept[i] \in Seq(T) /\ ToSet(kept[i]) = Firstly(s, i) \intersect S
           X == {i \in Nat : i <= m => Right(i)}
<1>3. 0 \in X
    <2>1. <<>> \in Seq(T) /\ ToSet(<<>>) = {}
        BY DEF ToSet
    <2>2. Firstly(s, 0) = {}
        BY DEF Firstly
    <2>3. kept[0] = <<>>
        BY <1>1 DEF Keeps
    <2> QED
        BY <2>1, <2>2, <2>3
<1>4. ASSUME NEW i \in X PROVE i + 1 \in X
    <2> SUFFICES ASSUME i + 1 <= m PROVE Right(i + 1)
        OBVIOUS
    <2>1. i \in Nat /\ i + 1 \in 1..m /\ i + 1 - 1 = i /\ i <= m
        BY <1>2
    <2>2. kept[i] \in Seq(T) /\ ToSet(kept[i]) = Firstly(s, i) \intersect S
        BY <2>1
    <2>3. kept[i + 1] = IF s[i + 1] \in S THEN Append(kept[i], s[i + 1]) ELSE kept[i]
        BY <1>1, <2>1 DEF Keeps
    <2>4. Firstly(s, i + 1) = Firstly(s, i) \union {s[i + 1]}
        <3>1. 1..i + 1 = (1..i) \union {i + 1}
            BY <2>1
        <3> QED
            BY <3>1 DEF Firstly
    <2>5. s[i + 1] \in T
        BY <1>2, <2>1
    <2>6. /\ Append(kept[i], s[i + 1]) \in Seq(T)
          /\ ToSet(Append(kept[i], s[i + 1])) = ToSet(kept[i]) \union {s[i + 1]}
        BY <2>2, <2>5, AppendItems
    <2> QED
        BY <2>2, <2>3, <2>4, <2>6
<1>5. X = Nat
    <2> HIDE DEF X
    <2>1. X \in SUBSET Nat
        BY DEF X
    <2> QED
        BY <1>3, <1>4, <2>1, SetOfNaturals
<1>6. Right(m)
    BY <1>2, <1>5
<1>7. Firstly(s, m) = ToSet(s)
    BY <1>2 DEF Firstly, ToSet
<1> QED
    BY <1>1, <1>6, <1>7 DEF Keeps

\* Filtered looks at the set where the list has items, and nowhere else.
LEMMA FilteredSame ==
    ASSUME NEW T, NEW s \in Seq(T), NEW S, NEW R, \A x \in ToSet(s) : x \in S <=> x \in R
    PROVE  Filtered(s, S) = Filtered(s, R)
<1> DEFINE m == Len(s)
<1>1. PICK f : Keeps(s, S, f)
    BY FilteredIs
<1>2. PICK g : Keeps(s, R, g)
    BY FilteredIs
<1>3. m \in Nat /\ DOMAIN s = 1..m
    BY LenProperties
<1>4. \A i \in 1..m : s[i] \in S <=> s[i] \in R
    BY <1>3 DEF ToSet
<1> DEFINE X == {i \in Nat : i <= m => f[i] = g[i]}
<1>5. 0 \in X
    BY <1>1, <1>2 DEF Keeps
<1>6. ASSUME NEW i \in X PROVE i + 1 \in X
    <2> SUFFICES ASSUME i + 1 <= m PROVE f[i + 1] = g[i + 1]
        OBVIOUS
    <2>1. i \in Nat /\ i + 1 \in 1..m /\ i + 1 - 1 = i /\ i <= m
        BY <1>3
    <2>2. f[i + 1] = IF s[i + 1] \in S THEN Append(f[i], s[i + 1]) ELSE f[i]
        BY <1>1, <2>1 DEF Keeps
    <2>3. g[i + 1] = IF s[i + 1] \in R THEN Append(g[i], s[i + 1]) ELSE g[i]
        BY <1>2, <2>1 DEF Keeps
    <2>4. f[i] = g[i] /\ (s[i + 1] \in S <=> s[i + 1] \in R)
        BY <1>4, <2>1
    <2> QED
        BY <2>2, <2>3, <2>4
<1>7. X = Nat
    <2> HIDE DEF X
    <2>1. X \in SUBSET Nat
        BY DEF X
    <2> QED
        BY <1>5, <1>6, <2>1, SetOfNaturals
<1>8. f[m] = g[m]
    BY <1>3, <1>7
<1> QED
    BY <1>1, <1>2, <1>8 DEF Keeps

\* Filtered changes nothing when all items are in the set.
LEMMA FilteredAll ==
    ASSUME NEW T, NEW s \in Seq(T), NEW S, ToSet(s) \subseteq S
    PROVE  Filtered(s, S) = s
<1> DEFINE m == Len(s)
<1>1. PICK f : Keeps(s, S, f)
    BY FilteredIs
<1>2. m \in Nat /\ DOMAIN s = 1..m /\ \A i \in 1..m : s[i] \in T
    BY LenProperties, ElementOfSeq
<1>3. \A i \in 1..m : s[i] \in S
    BY <1>2 DEF ToSet
<1> DEFINE Right(i) == /\ f[i] \in Seq(T) /\ Len(f[i]) = i
                       /\ \A j \in 1..i : f[i][j] = s[j]
           X == {i \in Nat : i <= m => Right(i)}
<1>4. 0 \in X
    <2>1. f[0] = <<>>
        BY <1>1 DEF Keeps
    <2>2. <<>> \in Seq(T) /\ Len(<<>>) = 0
        OBVIOUS
    <2>3. 1..0 = {}
        OBVIOUS
    <2> QED
        BY <2>1, <2>2, <2>3
<1>5. ASSUME NEW i \in X PROVE i + 1 \in X
    <2> SUFFICES ASSUME i + 1 <= m PROVE Right(i + 1)
        OBVIOUS
    <2>1. i \in Nat /\ i + 1 \in 1..m /\ i + 1 - 1 = i /\ i <= m
        BY <1>2
    <2>2. f[i + 1] = Append(f[i], s[i + 1])
        <3>1. f[i + 1] = IF s[i + 1] \in S THEN Append(f[i], s[i + 1]) ELSE f[i]
            BY <1>1, <2>1 DEF Keeps
        <3>2. s[i + 1] \in S
            BY <1>3, <2>1
        <3> QED
            BY <3>1, <3>2
    <2>3. f[i] \in Seq(T) /\ Len(f[i]) = i /\ \A j \in 1..i : f[i][j] = s[j]
        BY <2>1
    <2>4. s[i + 1] \in T
        BY <1>2, <2>1
    <2> DEFINE u == f[i]
               x == s[i + 1]
    <2>5. u \in Seq(T) /\ Len(u) = i /\ x \in T
        BY <2>3, <2>4
    <2> HIDE DEF u, x
    <2>6. /\ Append(u, x) \in Seq(T) /\ Len(Append(u, x)) = Len(u) + 1
          /\ \A j \in 1..Len(u) : Append(u, x)[j] = u[j]
          /\ Append(u, x)[Len(u) + 1] = x
        BY <2>5, AppendProperties
    <2>7. \A j \in 1..i + 1 : j \in 1..i \/ j = i + 1
        BY <2>1
    <2> QED
        BY <2>2, <2>3, <2>5, <2>6, <2>7 DEF u, x
<1>6. X = Nat
    <2> HIDE DEF X
    <2>1. X \in SUBSET Nat
        BY DEF X
    <2> QED
        BY <1>4, <1>5, <2>1, SetOfNaturals
<1>7. Right(m)
    BY <1>2, <1>6
<1>8. f[m] = s
    BY <1>7, SeqEqual
<1> QED
    BY <1>1, <1>8 DEF Keeps

(***************************************************************************)
(* Chunks.                                                                 *)
(***************************************************************************)
\* Annotations are listed among annotations, other nodes under containments.
Placed(l) == \A n \in Ids, k \in Places, x \in Ids : Lists(l, n, k, x) => k \in PlacesFor(x)

\* A forest with lists of the right kinds, and all its parents in it.
Right(p, l) == IsParents(p) /\ l \in ListsType /\ IsForest(p, l) /\ Placed(l)

\* The forests of which clients send parts are forests.
LEMMA ForestsAre ==
    ASSUME NEW f \in Forests
    PROVE  Right(f.parent, f.lists)
<1>1. PICK N \in SUBSET Ids : f \in ForestsOf(N)
    BY DEF Forests
<1> DEFINE homes == [N -> {<<None, None>>} \union (N \X Places)]
           at == {h \in homes : \A x \in N :
                   h[x][1] # x /\ IF h[x][1] = None THEN x \notin AnnotationIds
                                  ELSE h[x][2] \in PlacesFor(x)}
           forest(h, s) == [parent |-> [x \in N |-> h[x][1]],
                            lists |-> [k \in Ids \X Places |-> Filtered(s, {x \in N : h[x] = k})]]
<1>2. f \in UNION {{forest(h, s) : s \in SetToSeqs(N)} : h \in at} /\ IsForest(f.parent, f.lists)
    BY <1>1 DEF ForestsOf
<1> HIDE DEF at, forest
<1>3. PICK h \in at : f \in {forest(h, s) : s \in SetToSeqs(N)}
    BY <1>2
<1>4. PICK s \in SetToSeqs(N) : f = forest(h, s)
    BY <1>3
<1>5. /\ f.parent = [x \in N |-> h[x][1]]
      /\ f.lists = [k \in Ids \X Places |-> Filtered(s, {x \in N : h[x] = k})]
    BY <1>4 DEF forest
<1>6. /\ \A x \in N : h[x] = <<None, None>> \/ h[x] \in N \X Places
      /\ \A x \in N : h[x][1] # None => h[x][2] \in PlacesFor(x)
    BY <1>3 DEF at
<1> HIDE DEF homes
<1>7. IsParents(f.parent)
    BY <1>5, <1>6 DEF IsParents
<1>8. s \in Seq(N)
    <2>1. Cardinality(N) \in Nat
        BY IdsAssumption, FS_Subset, FS_CardinalityType
    <2>2. s \in [1..Cardinality(N) -> N]
        BY DEF SetToSeqs
    <2> QED
        BY <2>1, <2>2
<1>9. ASSUME NEW k \in Ids \X Places
      PROVE  f.lists[k] \in Seq(Ids) /\ ToSet(f.lists[k]) \subseteq {x \in N : h[x] = k}
    <2> DEFINE S == {x \in N : h[x] = k}
    <2>1. f.lists[k] = Filtered(s, S)
        BY <1>5
    <2> HIDE DEF S
    <2>2. Filtered(s, S) \in Seq(N) /\ ToSet(Filtered(s, S)) = ToSet(s) \intersect S
        BY <1>8, FilteredItems
    <2>3. Seq(N) \subseteq Seq(Ids)
        OBVIOUS
    <2> QED
        BY <2>1, <2>2, <2>3 DEF S
<1>10. f.lists \in ListsType
    <2>1. f.lists = [k \in Ids \X Places |-> f.lists[k]]
        BY <1>5
    <2> QED
        BY <1>9, <2>1 DEF ListsType
<1>11. Placed(f.lists)
    <2> SUFFICES ASSUME NEW n \in Ids, NEW k \in Places, NEW x \in Ids, Lists(f.lists, n, k, x)
                 PROVE  k \in PlacesFor(x)
        BY DEF Placed
    <2> DEFINE q == <<n, k>>
    <2>1. q \in Ids \X Places /\ q[1] = n /\ q[2] = k
        OBVIOUS
    <2> HIDE DEF q
    <2>2. x \in ToSet(f.lists[q])
        BY DEF Lists, q
    <2>3. x \in N /\ h[x] = q
        BY <1>9, <2>1, <2>2
    <2> QED
        BY <1>6, <2>1, <2>3, IdsAssumption
<1> QED
    BY <1>2, <1>7, <1>10, <1>11 DEF Right

\* The chunk lists x under k of node n.
Says(chunk, n, k, x) == x \in ToSet(chunk[n].lists[k])

\* The nodes of a chunk have a parent and lists, and these do not contradict each
\* other.
IsChunk(chunk) ==
    /\ DOMAIN chunk \subseteq Ids
    /\ \A n \in DOMAIN chunk : /\ chunk[n].parent \in Ids \union {None}
                               /\ chunk[n].lists \in [Places -> Seq(Ids)]
    /\ \A n \in DOMAIN chunk, k \in Places, x \in Ids : Says(chunk, n, k, x) =>
        /\ k \in PlacesFor(x)
        /\ x \in DOMAIN chunk => chunk[x].parent = n
        /\ \A m \in DOMAIN chunk, j \in Places : Says(chunk, m, j, x) => m = n

\* A part of a forest is a chunk: nobody is listed by two, or away from its parent.
LEMMA PartOfForest ==
    ASSUME NEW f, Right(f.parent, f.lists), NEW N \in SUBSET DOMAIN f.parent
    PROVE  IsChunk(Part(f, N)) /\ DOMAIN Part(f, N) = N
<1> DEFINE c == Part(f, N)
           p == f.parent
           l == f.lists
<1>1. /\ DOMAIN c = N
      /\ \A n \in N : c[n].parent = p[n] /\ c[n].lists = [k \in Places |-> l[<<n, k>>]]
    BY DEF Part
<1>2. /\ N \subseteq Ids /\ N \subseteq DOMAIN p /\ l \in ListsType
      /\ IsParents(p) /\ IsForest(p, l) /\ Placed(l)
    BY DEF Right, IsParents
<1> HIDE DEF c, p, l
<1>3. \A n \in N : c[n].parent \in Ids \union {None} /\ c[n].lists \in [Places -> Seq(Ids)]
    <2> SUFFICES ASSUME NEW n \in N
                 PROVE  c[n].parent \in Ids \union {None} /\ c[n].lists \in [Places -> Seq(Ids)]
        OBVIOUS
    <2>1. \A k \in Places : l[<<n, k>>] \in Seq(Ids)
        BY <1>2 DEF ListsType
    <2> QED
        BY <1>1, <1>2, <2>1 DEF IsParents
<1>4. ASSUME NEW n \in N, NEW k \in Places, NEW x, Says(c, n, k, x)
      PROVE  Lists(l, n, k, x) /\ x \in DOMAIN p /\ p[x] = n
    <2>1. c[n].lists[k] = l[<<n, k>>]
        BY <1>1
    <2>2. Lists(l, n, k, x)
        BY <1>4, <2>1 DEF Says, Lists
    <2>3. x \in Listed(l, n) /\ n \in Ids
        BY <1>2, <2>2, ListedMeans
    <2> QED
        BY <1>2, <2>2, <2>3, ForestLists
<1>5. ASSUME NEW n \in N, NEW k \in Places, NEW x \in Ids, Says(c, n, k, x)
      PROVE  /\ k \in PlacesFor(x)
             /\ x \in N => c[x].parent = n
             /\ \A m \in N, j \in Places : Says(c, m, j, x) => m = n
    <2>1. Lists(l, n, k, x) /\ n \in Ids /\ p[x] = n
        BY <1>2, <1>4, <1>5
    <2>2. k \in PlacesFor(x)
        BY <1>2, <2>1 DEF Placed
    <2>3. x \in N => c[x].parent = n
        BY <1>1, <2>1
    <2>4. \A m \in N, j \in Places : Says(c, m, j, x) => p[x] = m
        BY <1>4
    <2> QED
        BY <2>1, <2>2, <2>3, <2>4
<1>6. IsChunk(c) /\ DOMAIN c = N
    BY <1>1, <1>2, <1>3, <1>5 DEF IsChunk
<1> QED
    BY <1>6 DEF c

\* So are the chunks that pass the validation.
LEMMA ChunksAre ==
    ASSUME NEW chunk \in Chunks
    PROVE  IsChunk(chunk)
<1>1. PICK f \in Forests : \E N \in SUBSET DOMAIN f.parent : chunk = Part(f, N)
    BY DEF Chunks
<1> QED
    BY <1>1, ForestsAre, PartOfForest

(***************************************************************************)
(* What a chunk says, and what is found out about it.                      *)
(***************************************************************************)
\* All that a list of a forest tells.
LEMMA ListsFacts ==
    ASSUME NEW p, NEW l, Right(p, l), NEW n \in Ids, NEW k \in Places, NEW x, Lists(l, n, k, x)
    PROVE  /\ n \in DOMAIN p /\ x \in DOMAIN p /\ x \in Ids /\ p[x] = n
           /\ x \in Listed(l, n) /\ k \in PlacesFor(x)
           /\ \A j \in Places : Lists(l, n, j, x) => j = k
<1>1. IsParents(p) /\ l \in ListsType /\ IsForest(p, l) /\ Placed(l)
    BY DEF Right
<1>2. x \in Listed(l, n)
    BY ListedMeans
<1>3. n \in DOMAIN p /\ x \in DOMAIN p /\ p[x] = n
    BY <1>1, <1>2, ForestLists
<1>4. x \in Ids
    BY <1>1, <1>3 DEF IsParents
<1>5. k \in PlacesFor(x)
    BY <1>1, <1>4 DEF Placed
<1>6. ListsOnce(l, n, x)
    BY <1>1, <1>3, IdsAssumption DEF IsForest, Roots
<1>7. \A j \in Places : Lists(l, n, j, x) => j = k
    BY <1>6, OnePlace
<1> QED
    BY <1>2, <1>3, <1>4, <1>5, <1>7

\* In a forest a node that has a parent is listed by it.
LEMMA ParentLists ==
    ASSUME NEW p, NEW l, Right(p, l), NEW x \in DOMAIN p, p[x] # None
    PROVE  p[x] \in DOMAIN p /\ \E k \in Places : Lists(l, p[x], k, x)
BY ForestParent, ListedMeans DEF Right

\* Node n of a chunk, which exists, gets x under one of K, or loses it.
Gains(chunk, K, n, x) ==
    /\ n \in DOMAIN chunk \intersect DOMAIN parent /\ x \in Ids
    /\ \E k \in K : Says(chunk, n, k, x) /\ ~Lists(lists, n, k, x)

Loses(chunk, K, n, x) ==
    /\ n \in DOMAIN chunk \intersect DOMAIN parent /\ x \in Ids
    /\ \E k \in K : Lists(lists, n, k, x) /\ ~Says(chunk, n, k, x)

Gained(chunk, K) == {x \in Ids : \E n \in Ids : Gains(chunk, K, n, x)}

Lost(chunk, K) == {x \in Ids : \E n \in Ids : Loses(chunk, K, n, x)}

Under(chunk) ==
    {x \in DOMAIN parent : \E n \in DOMAIN chunk \ DOMAIN parent, k \in Places : Says(chunk, n, k, x)}

\* The lists of a chunk as those of the tables.
Said(chunk) == [k \in (DOMAIN chunk) \X Places |-> chunk[k[1]].lists[k[2]]]

\* The lists of a chunk in the form of the table.
LEMMA SaidIs ==
    ASSUME NEW chunk, NEW n \in DOMAIN chunk, NEW k \in Places
    PROVE  Said(chunk)[<<n, k>>] = chunk[n].lists[k]
BY DEF Said

\* The parts of a difference.
DiffIs(chunk, d) ==
    /\ d.old = DOMAIN chunk \intersect DOMAIN parent
    /\ d.new = DOMAIN chunk \ DOMAIN parent
    /\ d.childAdded = Differs(d.old, Containments, Said(chunk), lists)
    /\ d.childRemoved = Differs(d.old, Containments, lists, Said(chunk))
    /\ d.annotationAdded = Differs(d.old, {Annotations}, Said(chunk), lists)
    /\ d.annotationRemoved = Differs(d.old, {Annotations}, lists, Said(chunk))
    /\ d.parentChanged = {n \in d.old : chunk[n].parent # parent[n]}
    /\ d.underNew = Under(chunk)

\* The fields of what Diff finds out.
LEMMA DiffFields ==
    ASSUME NEW chunk
    PROVE  DiffIs(chunk, Diff(chunk))
BY DEF DiffIs, Diff, Said, Under, Says

\* The pairs of Differs.
LEMMA DiffersMeans ==
    ASSUME NEW N, NEW K, NEW a, NEW b, NEW pair
    PROVE  pair \in Differs(N, K, a, b) <=>
            /\ pair \in N \X Ids
            /\ \E k \in K : pair[2] \in ToSet(a[<<pair[1], k>>]) /\ pair[2] \notin ToSet(b[<<pair[1], k>>])
BY DEF Differs

\* The pairs that are added are the children a chunk gives to nodes that exist.
LEMMA GainsAre ==
    ASSUME NEW chunk, IsChunk(chunk), IsParents(parent), NEW K, K \subseteq Places,
           NEW D, D = Differs(DOMAIN chunk \intersect DOMAIN parent, K, Said(chunk), lists)
    PROVE  /\ \A pair \in D : Gains(chunk, K, pair[1], pair[2])
           /\ \A n, x : Gains(chunk, K, n, x) => <<n, x>> \in D
           /\ Nodes(D) = Gained(chunk, K)
<1> DEFINE N == DOMAIN chunk \intersect DOMAIN parent
<1>1. ASSUME NEW pair \in D PROVE Gains(chunk, K, pair[1], pair[2])
    <2>1. pair \in N \X Ids
        BY DiffersMeans
    <2>2. PICK k \in K : /\ pair[2] \in ToSet(Said(chunk)[<<pair[1], k>>])
                         /\ pair[2] \notin ToSet(lists[<<pair[1], k>>])
        BY DiffersMeans
    <2>3. Says(chunk, pair[1], k, pair[2]) /\ ~Lists(lists, pair[1], k, pair[2])
        BY <2>1, <2>2, SaidIs DEF Says, Lists
    <2> QED
        BY <2>1, <2>3 DEF Gains
<1>2. ASSUME NEW n, NEW x, Gains(chunk, K, n, x) PROVE <<n, x>> \in D
    <2>1. n \in N /\ x \in Ids
        BY <1>2 DEF Gains
    <2>2. PICK k \in K : Says(chunk, n, k, x) /\ ~Lists(lists, n, k, x)
        BY <1>2 DEF Gains
    <2> DEFINE pair == <<n, x>>
    <2>3. pair[1] = n /\ pair[2] = x /\ pair \in N \X Ids
        BY <2>1
    <2> HIDE DEF pair
    <2>4. x \in ToSet(Said(chunk)[<<n, k>>]) /\ x \notin ToSet(lists[<<n, k>>])
        BY <2>1, <2>2, SaidIs DEF Says, Lists
    <2>5. pair \in D
        BY <2>3, <2>4, DiffersMeans
    <2> QED
        BY <2>5 DEF pair
<1>3. Nodes(D) = Gained(chunk, K)
    <2>1. ASSUME NEW x \in Nodes(D) PROVE x \in Gained(chunk, K)
        BY <1>1 DEF Nodes, Gained, Gains, IsParents
    <2>2. ASSUME NEW x \in Gained(chunk, K) PROVE x \in Nodes(D)
        <3>1. PICK n \in Ids : Gains(chunk, K, n, x)
            BY DEF Gained
        <3> DEFINE pair == <<n, x>>
        <3>2. pair \in D /\ pair[2] = x
            BY <1>2, <3>1
        <3> HIDE DEF pair
        <3> QED
            BY <3>2 DEF Nodes
    <2> QED
        BY <2>1, <2>2
<1> QED
    BY <1>1, <1>2, <1>3

\* The pairs that are removed are the children it takes from them.
LEMMA LossesAre ==
    ASSUME NEW chunk, IsChunk(chunk), IsParents(parent), NEW K, K \subseteq Places,
           NEW D, D = Differs(DOMAIN chunk \intersect DOMAIN parent, K, lists, Said(chunk))
    PROVE  Nodes(D) = Lost(chunk, K)
<1> DEFINE N == DOMAIN chunk \intersect DOMAIN parent
<1>1. ASSUME NEW x \in Nodes(D) PROVE x \in Lost(chunk, K)
    <2>1. PICK pair \in D : x = pair[2]
        BY DEF Nodes
    <2>2. pair \in N \X Ids
        BY DiffersMeans
    <2>3. PICK k \in K : /\ pair[2] \in ToSet(lists[<<pair[1], k>>])
                         /\ pair[2] \notin ToSet(Said(chunk)[<<pair[1], k>>])
        BY DiffersMeans
    <2>4. Lists(lists, pair[1], k, x) /\ ~Says(chunk, pair[1], k, x)
        BY <2>1, <2>2, <2>3, SaidIs DEF Says, Lists
    <2> QED
        BY <2>1, <2>2, <2>4 DEF Lost, Loses, IsParents
<1>2. ASSUME NEW x \in Lost(chunk, K) PROVE x \in Nodes(D)
    <2>1. PICK n \in Ids : Loses(chunk, K, n, x)
        BY DEF Lost
    <2>2. n \in N /\ x \in Ids
        BY <2>1 DEF Loses
    <2>3. PICK k \in K : Lists(lists, n, k, x) /\ ~Says(chunk, n, k, x)
        BY <2>1 DEF Loses
    <2> DEFINE pair == <<n, x>>
    <2>4. pair[1] = n /\ pair[2] = x /\ pair \in N \X Ids
        BY <2>2
    <2> HIDE DEF pair
    <2>5. x \in ToSet(lists[<<n, k>>]) /\ x \notin ToSet(Said(chunk)[<<n, k>>])
        BY <2>2, <2>3, SaidIs DEF Says, Lists
    <2>6. pair \in D
        BY <2>4, <2>5, DiffersMeans
    <2> QED
        BY <2>4, <2>6 DEF Nodes
<1> QED
    BY <1>1, <1>2

(***************************************************************************)
(* What a chunk means.                                                     *)
(***************************************************************************)
LEMMA ListedInMeans ==
    ASSUME NEW chunk, NEW x
    PROVE  x \in ListedIn(chunk) <=> \E n \in DOMAIN chunk, k \in Places : Says(chunk, n, k, x)
BY DEF ListedIn, Says

\* The parents that a chunk means.
MeansParents(chunk, p) ==
    /\ DOMAIN p = DOMAIN parent \union DOMAIN chunk
    /\ IsParents(p)
    /\ \A x \in DOMAIN chunk : p[x] = chunk[x].parent
    /\ \A x \in DOMAIN parent : x \notin DOMAIN chunk /\ x \notin ListedIn(chunk) => p[x] = parent[x]
    /\ \A n \in DOMAIN chunk, k \in Places, x \in DOMAIN p : Says(chunk, n, k, x) => p[x] = n

\* MeantParents gives a node of the chunk the parent told there, a node that the
\* chunk lists its lister, and leaves the others.
LEMMA MeantParentsAre ==
    ASSUME NEW chunk, IsChunk(chunk), IsParents(parent)
    PROVE  MeansParents(chunk, MeantParents(chunk))
<1> DEFINE N == DOMAIN chunk
           lister(x) == CHOOSE n \in N : \E k \in Places : x \in ToSet(chunk[n].lists[k])
           p == MeantParents(chunk)
<1>1. p = [x \in DOMAIN parent \union N |->
            CASE x \in N -> chunk[x].parent
              [] x \notin N /\ x \in ListedIn(chunk) -> lister(x)
              [] OTHER -> parent[x]]
    BY DEF MeantParents
<1>2. DOMAIN p = DOMAIN parent \union N
    BY <1>1
<1>3. ASSUME NEW x \in N PROVE p[x] = chunk[x].parent
    BY <1>1, <1>3
<1>4. ASSUME NEW x \in DOMAIN parent, x \notin N, x \notin ListedIn(chunk) PROVE p[x] = parent[x]
    BY <1>1, <1>4
<1>5. ASSUME NEW x \in DOMAIN parent, x \notin N, x \in ListedIn(chunk)
      PROVE  p[x] \in N /\ \E k \in Places : Says(chunk, p[x], k, x)
    <2>1. p[x] = lister(x)
        BY <1>1, <1>5
    <2>2. \E n \in N : \E k \in Places : x \in ToSet(chunk[n].lists[k])
        BY <1>5, ListedInMeans DEF Says
    <2>3. lister(x) \in N /\ \E k \in Places : x \in ToSet(chunk[lister(x)].lists[k])
        BY <2>2
    <2> HIDE DEF lister, p
    <2> QED
        BY <2>1, <2>3 DEF Says
<1> HIDE DEF p, lister
<1>6. N \subseteq Ids /\ \A n \in N : chunk[n].parent \in Ids \union {None}
    BY DEF IsChunk
<1>7. IsParents(p)
    BY <1>2, <1>3, <1>4, <1>5, <1>6 DEF IsParents
<1>8. ASSUME NEW n \in N, NEW k \in Places, NEW x \in DOMAIN p, Says(chunk, n, k, x)
      PROVE  p[x] = n
    <2>1. x \in Ids
        BY <1>7 DEF IsParents
    <2>2. CASE x \in N
        BY <1>3, <1>8, <2>1, <2>2 DEF IsChunk
    <2>3. CASE x \notin N
        <3>1. x \in DOMAIN parent /\ x \in ListedIn(chunk)
            BY <1>2, <1>8, <2>3, ListedInMeans
        <3>2. p[x] \in N /\ \E j \in Places : Says(chunk, p[x], j, x)
            BY <1>5, <2>3, <3>1
        <3> QED
            BY <1>8, <2>1, <3>2 DEF IsChunk
    <2> QED
        BY <2>2, <2>3
<1>9. MeansParents(chunk, p)
    BY <1>2, <1>3, <1>4, <1>7, <1>8 DEF MeansParents
<1> QED
    BY <1>9 DEF p

\* The lists that a chunk means.
MeansLists(chunk, l) ==
    /\ l \in ListsType
    /\ \A n \in DOMAIN chunk, k \in Places : l[<<n, k>>] = chunk[n].lists[k]
    /\ \A n \in DOMAIN chunk, k \in Places : \A x : Lists(l, n, k, x) <=> Says(chunk, n, k, x)
    /\ \A n \in Ids \ DOMAIN chunk, k \in Places : \A x :
            Lists(l, n, k, x) <=> Lists(lists, n, k, x) /\ x \notin ListedIn(chunk)

\* MeantLists has the lists of the chunk, and takes what it lists from all others.
LEMMA MeantListsAre ==
    ASSUME NEW chunk, IsChunk(chunk), lists \in ListsType
    PROVE  MeansLists(chunk, MeantLists(chunk))
<1> DEFINE N == DOMAIN chunk
           l == MeantLists(chunk)
           R == Ids \ ListedIn(chunk)
<1>1. l = [k \in Ids \X Places |-> IF k[1] \in N THEN chunk[k[1]].lists[k[2]] ELSE Filtered(lists[k], R)]
    BY DEF MeantLists
<1>2. N \subseteq Ids /\ \A n \in N : chunk[n].lists \in [Places -> Seq(Ids)]
    BY DEF IsChunk
<1>3. ASSUME NEW n \in N, NEW k \in Places
      PROVE  l[<<n, k>>] = chunk[n].lists[k]
    BY <1>1, <1>2
<1>4. ASSUME NEW n \in Ids, NEW k \in Places
      PROVE  lists[<<n, k>>] \in Seq(Ids)
    BY DEF ListsType
<1>5. ASSUME NEW n \in Ids \ N, NEW k \in Places
      PROVE  l[<<n, k>>] = Filtered(lists[<<n, k>>], R)
    BY <1>1
<1>6. ASSUME NEW n \in Ids \ N, NEW k \in Places
      PROVE  /\ l[<<n, k>>] \in Seq(Ids)
             /\ ToSet(l[<<n, k>>]) = ToSet(lists[<<n, k>>]) \intersect R
    BY <1>4, <1>5, FilteredItems
<1>7. l \in ListsType
    <2>1. l = [q \in Ids \X Places |-> l[q]]
        BY <1>1
    <2> HIDE DEF l
    <2>2. ASSUME NEW q \in Ids \X Places PROVE l[q] \in Seq(Ids)
        <3>1. PICK n \in Ids, k \in Places : q = <<n, k>>
            OBVIOUS
        <3>2. CASE n \in N
            BY <1>2, <1>3, <3>1, <3>2
        <3>3. CASE n \notin N
            BY <1>6, <3>1, <3>3
        <3> QED
            BY <3>2, <3>3
    <2> QED
        BY <2>1, <2>2 DEF ListsType
<1> HIDE DEF l
<1>8. ASSUME NEW n \in N, NEW k \in Places, NEW x PROVE Lists(l, n, k, x) <=> Says(chunk, n, k, x)
    BY <1>3 DEF Lists, Says
<1>9. ASSUME NEW n \in Ids \ N, NEW k \in Places, NEW x
      PROVE  Lists(l, n, k, x) <=> Lists(lists, n, k, x) /\ x \notin ListedIn(chunk)
    <2>1. ToSet(lists[<<n, k>>]) \subseteq Ids
        BY <1>4, ItemsOfSeq
    <2> QED
        BY <1>6, <2>1 DEF Lists
<1>10. MeansLists(chunk, l)
    BY <1>3, <1>7, <1>8, <1>9 DEF MeansLists
<1> QED
    BY <1>10 DEF l

\* What is there when a chunk was stored as it is meant.
Kept(chunk) == Below(MeantLists(chunk), Roots(MeantParents(chunk)))

\* Merged, by what is kept.
LEMMA MergedIs ==
    ASSUME NEW chunk
    PROVE  /\ Merged(chunk).parent = [x \in Kept(chunk) \intersect DOMAIN MeantParents(chunk) |->
                                        MeantParents(chunk)[x]]
           /\ Merged(chunk).lists = [k \in Ids \X Places |->
                IF k[1] \in Kept(chunk) THEN MeantLists(chunk)[k] ELSE <<>>]
BY DEF Merged, Kept, Restrict

\* A coherent chunk, and what is kept.
Keeping(chunk, p, l, kept) ==
    /\ MeansParents(chunk, p) /\ MeansLists(chunk, l)
    /\ kept \subseteq DOMAIN p /\ DOMAIN chunk \subseteq kept
    /\ Roots(p) \subseteq kept /\ Closed(l, kept)
    /\ \A S \in SUBSET Ids : Roots(p) \subseteq S /\ Closed(l, S) => kept \subseteq S
    /\ ListedIn(chunk) \subseteq kept

\* A coherent chunk keeps its nodes and what they list.
LEMMA CoherentKeeps ==
    ASSUME NEW chunk, IsChunk(chunk), IsParents(parent), lists \in ListsType, Coherent(chunk)
    PROVE  Keeping(chunk, MeantParents(chunk), MeantLists(chunk), Kept(chunk))
<1> DEFINE p == MeantParents(chunk)
           l == MeantLists(chunk)
           kept == Kept(chunk)
           mp == Merged(chunk).parent
           ml == Merged(chunk).lists
<1>1. MeansParents(chunk, p) /\ MeansLists(chunk, l)
    BY MeantParentsAre, MeantListsAre
<1>2. kept = Below(l, Roots(p))
    BY DEF Kept
<1>3. mp = [x \in kept \intersect DOMAIN p |-> p[x]]
    BY MergedIs
<1>4. ml = [k \in Ids \X Places |-> IF k[1] \in kept THEN l[k] ELSE <<>>]
    BY MergedIs
<1>5. DOMAIN chunk \subseteq DOMAIN mp /\ IsForest(mp, ml)
    BY DEF Coherent
<1> HIDE DEF p, l, kept, mp, ml
<1>6. l \in ListsType /\ IsParents(p)
    BY <1>1 DEF MeansLists, MeansParents
<1>7. Roots(p) \in SUBSET Ids
    BY <1>6, RootsType
<1>8. Roots(p) \subseteq kept /\ kept \subseteq Ids /\ Closed(l, kept)
    BY <1>2, <1>6, <1>7, BelowHas
<1>9. \A S \in SUBSET Ids : Roots(p) \subseteq S /\ Closed(l, S) => kept \subseteq S
    BY <1>2, BelowLeast
<1>10. Roots(mp) = Roots(p)
    BY <1>3, <1>8 DEF Roots
<1>11. DOMAIN mp = kept \intersect DOMAIN p
    BY <1>3
<1>12. ml \in ListsType
    <2>1. \A k \in Ids \X Places : l[k] \in Seq(Ids)
        BY <1>6 DEF ListsType
    <2>2. <<>> \in Seq(Ids)
        OBVIOUS
    <2> QED
        BY <1>4, <2>1, <2>2 DEF ListsType
<1>13. ASSUME NEW n \in kept PROVE Listed(ml, n) = Listed(l, n)
    <2>1. \A k \in Places : ml[<<n, k>>] = l[<<n, k>>]
        BY <1>4, <1>8
    <2> QED
        BY <2>1 DEF Listed
<1>14. Below(ml, Roots(p)) = kept \intersect DOMAIN p
    BY <1>5, <1>10, <1>11 DEF IsForest
<1>15. Closed(ml, kept \intersect DOMAIN p)
    BY <1>7, <1>12, <1>14, BelowHas
<1>16. Closed(l, kept \intersect DOMAIN p)
    BY <1>13, <1>15 DEF Closed
<1>17. kept \subseteq DOMAIN p
    <2>1. kept \intersect DOMAIN p \in SUBSET Ids /\ Roots(p) \subseteq kept \intersect DOMAIN p
        BY <1>8 DEF Roots
    <2> QED
        BY <1>9, <1>16, <2>1
<1>18. DOMAIN chunk \subseteq kept
    BY <1>5, <1>11
<1>19. ListedIn(chunk) \subseteq kept
    <2> SUFFICES ASSUME NEW x \in ListedIn(chunk) PROVE x \in kept
        OBVIOUS
    <2>1. PICK n \in DOMAIN chunk, k \in Places : Says(chunk, n, k, x)
        BY ListedInMeans
    <2>2. Lists(l, n, k, x)
        BY <1>1, <2>1 DEF MeansLists
    <2>3. x \in Listed(l, n)
        BY <2>2, ListedMeans
    <2> QED
        BY <1>8, <1>18, <2>3 DEF Closed
<1>20. Keeping(chunk, p, l, kept)
    BY <1>1, <1>8, <1>9, <1>17, <1>18, <1>19 DEF Keeping
<1> QED
    BY <1>20 DEF p, l, kept

(***************************************************************************)
(* What store finds out about a chunk.                                     *)
(***************************************************************************)
\* Children that the chunk lists where they are not.
Rescued(chunk) == Gained(chunk, Containments) \union Under(chunk)

\* Children that the chunk does not list, with all below them.
Dropped(chunk) == Subtree(Lost(chunk, Containments) \ Rescued(chunk))

Gone(chunk) ==
    (Dropped(chunk) \ Rescued(chunk))
    \union (Lost(chunk, {Annotations}) \ (Gained(chunk, {Annotations}) \union Under(chunk)))

TakenBy(chunk) == (Gained(chunk, Containments) \ Lost(chunk, Containments)) \intersect DOMAIN parent

\* The difference d is that of the chunk.
Tells(chunk, d) ==
    /\ d.old = DOMAIN chunk \intersect DOMAIN parent
    /\ d.new = DOMAIN chunk \ DOMAIN parent
    /\ d.parentChanged = {n \in d.old : chunk[n].parent # parent[n]}
    /\ d.underNew = Under(chunk)
    /\ Nodes(d.childAdded) = Gained(chunk, Containments)
    /\ Nodes(d.childRemoved) = Lost(chunk, Containments)
    /\ Nodes(d.annotationAdded) = Gained(chunk, {Annotations})
    /\ Nodes(d.annotationRemoved) = Lost(chunk, {Annotations})
    /\ \A pair \in d.childAdded : Gains(chunk, Containments, pair[1], pair[2])

\* Diff tells who gets and who loses a child.
LEMMA DiffTells ==
    ASSUME NEW chunk, IsChunk(chunk), IsParents(parent)
    PROVE  Tells(chunk, Diff(chunk))
<1> DEFINE d == Diff(chunk)
           D1 == d.childAdded
           D2 == d.childRemoved
           D3 == d.annotationAdded
           D4 == d.annotationRemoved
           N == DOMAIN chunk \intersect DOMAIN parent
<1>0. DiffIs(chunk, d)
    BY DiffFields
<1> HIDE DEF d
<1>1. /\ d.old = N
      /\ d.new = DOMAIN chunk \ DOMAIN parent
      /\ d.parentChanged = {n \in d.old : chunk[n].parent # parent[n]}
      /\ d.underNew = Under(chunk)
      /\ D1 = Differs(N, Containments, Said(chunk), lists)
      /\ D2 = Differs(N, Containments, lists, Said(chunk))
      /\ D3 = Differs(N, {Annotations}, Said(chunk), lists)
      /\ D4 = Differs(N, {Annotations}, lists, Said(chunk))
    BY <1>0 DEF DiffIs
<1>2. Containments \subseteq Places /\ {Annotations} \subseteq Places
    BY DEF Places
<1> HIDE DEF D1, D2, D3, D4
<1>3. /\ \A pair \in D1 : Gains(chunk, Containments, pair[1], pair[2])
      /\ Nodes(D1) = Gained(chunk, Containments)
    BY <1>1, <1>2, GainsAre
<1>4. Nodes(D2) = Lost(chunk, Containments)
    BY <1>1, <1>2, LossesAre
<1>5. Nodes(D3) = Gained(chunk, {Annotations})
    BY <1>1, <1>2, GainsAre
<1>6. Nodes(D4) = Lost(chunk, {Annotations})
    BY <1>1, <1>2, LossesAre
<1> USE DEF D1, D2, D3, D4
<1>7. Tells(chunk, d)
    BY <1>1, <1>3, <1>4, <1>5, <1>6 DEF Tells
<1> QED
    BY <1>7 DEF d

\* What Orphans and Taken make of it.
LEMMA TellsOrphans ==
    ASSUME NEW chunk, NEW d, Tells(chunk, d)
    PROVE  Orphans(d) = Gone(chunk) /\ Taken(d) = TakenBy(chunk)
BY DEF Tells, Orphans, Gone, Dropped, Rescued, Taken, TakenBy

\* A chunk that is none of the kinds that are not treated as they are meant.
Treated(chunk) ==
    /\ \A x \in Rescued(chunk) \intersect Dropped(chunk) : Subtree({x}) \subseteq Rescued(chunk)
    /\ \A x \in DOMAIN chunk \intersect DOMAIN parent : x \notin Gone(chunk)
    /\ \A x \in Lost(chunk, {Annotations}) \intersect Gone(chunk) : Subtree({x}) \subseteq Gone(chunk)
    /\ \A k \in Ids \X Containments :
            \A x \in ToSet(lists[k]), y \in ToSet(lists[k]) :
                x \in TakenBy(chunk) /\ y \in TakenBy(chunk) => x = y
    /\ \A x \in Gained(chunk, {Annotations}) \intersect DOMAIN parent :
            x \in DOMAIN chunk /\ x \in Lost(chunk, {Annotations})
    /\ \A x \in Under(chunk) :
            x \in DOMAIN chunk /\ x \in Lost(chunk, Containments) \union Lost(chunk, {Annotations})

\* What a chunk is like that is not mistreated.
LEMMA TreatedIs ==
    ASSUME NEW chunk, IsChunk(chunk), IsParents(parent), lists \in ListsType, ~Mistreated(chunk)
    PROVE  Treated(chunk)
<1> DEFINE d == Diff(chunk)
<1>1. Tells(chunk, d)
    BY DiffTells
<1>2. ~(RescuesWithoutRest(d) \/ DropsItsOwn(d) \/ LeavesBelowAnnotation(d)
        \/ TakesTwo(d) \/ TakesAnnotation(d) \/ TakesForNew(d))
    BY DEF Mistreated
<1> HIDE DEF d
<1>3. Orphans(d) = Gone(chunk) /\ Taken(d) = TakenBy(chunk)
    BY <1>1, TellsOrphans
<1>4. \A x \in Rescued(chunk) \intersect Dropped(chunk) : Subtree({x}) \subseteq Rescued(chunk)
    BY <1>1, <1>2 DEF RescuesWithoutRest, Tells, Rescued, Dropped
<1>5. \A x \in DOMAIN chunk \intersect DOMAIN parent : x \notin Gone(chunk)
    BY <1>1, <1>2, <1>3 DEF DropsItsOwn, Tells
<1>6. \A x \in Lost(chunk, {Annotations}) \intersect Gone(chunk) : Subtree({x}) \subseteq Gone(chunk)
    BY <1>1, <1>2, <1>3 DEF LeavesBelowAnnotation, Tells
<1>7. ASSUME NEW k \in Ids \X Containments, NEW x \in ToSet(lists[k]), NEW y \in ToSet(lists[k]),
             x \in TakenBy(chunk), y \in TakenBy(chunk)
      PROVE  x = y
    <2> DEFINE S == ToSet(lists[k]) \intersect TakenBy(chunk)
    <2>1. x \in S /\ y \in S
        BY <1>7
    <2>2. k \in Losers(d) /\ ~(Cardinality(S) > 1)
        BY <1>2, <1>3, <2>1 DEF TakesTwo, Losers
    <2>3. S \subseteq Ids
        <3>1. lists[k] \in Seq(Ids)
            BY DEF ListsType, Places
        <3> QED
            BY <3>1, ItemsOfSeq
    <2> HIDE DEF S
    <2>4. IsFiniteSet(S)
        BY <2>3, IdsAssumption, FS_Subset
    <2>5. SUFFICES ASSUME x # y PROVE FALSE
        OBVIOUS
    <2>6. {x, y} \subseteq S
        BY <2>1
    <2>7. IsFiniteSet({x}) /\ Cardinality({x}) = 1
        BY FS_Singleton
    <2>8. Cardinality({x} \union {y}) = Cardinality({x}) + 1
        BY <2>5, <2>7, FS_AddElement
    <2>9. {x, y} = {x} \union {y}
        OBVIOUS
    <2>10. Cardinality({x, y}) <= Cardinality(S) /\ Cardinality(S) \in Nat
        BY <2>4, <2>6, FS_Subset, FS_CardinalityType
    <2>11. Cardinality({x, y}) = 2
        BY <2>7, <2>8, <2>9
    <2> QED
        BY <2>2, <2>10, <2>11
<1>8. \A x \in Gained(chunk, {Annotations}) \intersect DOMAIN parent :
            x \in DOMAIN chunk /\ x \in Lost(chunk, {Annotations})
    BY <1>1, <1>2 DEF TakesAnnotation, Tells
<1>9. \A x \in Under(chunk) :
            x \in DOMAIN chunk /\ x \in Lost(chunk, Containments) \union Lost(chunk, {Annotations})
    BY <1>1, <1>2 DEF TakesForNew, Tells
<1> QED
    BY <1>4, <1>5, <1>6, <1>7, <1>8, <1>9 DEF Treated

(***************************************************************************)
(* What the code deletes is what is not kept.                              *)
(***************************************************************************)
\* A chunk that is treated as it is meant is stored.
Storing(chunk, p, l, kept) ==
    Right(parent, lists) /\ IsChunk(chunk) /\ Keeping(chunk, p, l, kept) /\ Treated(chunk)

\* What is lost is a child that its parent no longer lists in the same place.
LEMMA LostFacts ==
    ASSUME NEW chunk, Right(parent, lists), IsChunk(chunk), NEW K, K \subseteq Places,
           NEW x \in Lost(chunk, K)
    PROVE  /\ x \in DOMAIN parent /\ x \in Ids
           /\ parent[x] \in DOMAIN chunk /\ parent[x] \in DOMAIN parent /\ parent[x] \in Ids
           /\ \E k \in K : k \in PlacesFor(x) /\ Lists(lists, parent[x], k, x)
           /\ \A j \in Places : ~(Lists(lists, parent[x], j, x) /\ Says(chunk, parent[x], j, x))
<1>1. PICK n \in Ids : Loses(chunk, K, n, x)
    BY DEF Lost
<1>2. PICK k \in K : Lists(lists, n, k, x) /\ ~Says(chunk, n, k, x)
    BY <1>1 DEF Loses
<1>3. /\ n \in DOMAIN parent /\ x \in DOMAIN parent /\ x \in Ids /\ parent[x] = n
      /\ k \in PlacesFor(x)
      /\ \A j \in Places : Lists(lists, n, j, x) => j = k
    BY <1>2, ListsFacts
<1>4. n \in DOMAIN chunk
    BY <1>1 DEF Loses
<1> QED
    BY <1>2, <1>3, <1>4

\* What is dropped was lost, or is below something that is dropped.
LEMMA DroppedFacts ==
    ASSUME NEW chunk, Right(parent, lists), IsChunk(chunk), NEW x \in Dropped(chunk)
    PROVE  /\ x \in DOMAIN parent /\ x \in Ids /\ parent[x] \in Ids
           /\ x \in Lost(chunk, Containments) \/ parent[x] \in Dropped(chunk)
<1> DEFINE Y == Lost(chunk, Containments) \ Rescued(chunk)
<1>1. IsParents(parent) /\ Containments \subseteq Places
    BY DEF Right, Places
<1>2. /\ Subtree(Y) \subseteq DOMAIN parent
      /\ \A y \in Subtree(Y) : y \in Y \/ parent[y] \in Subtree(Y)
    BY <1>1, SubtreeHas
<1>3. x \in Lost(chunk, Containments) \/ parent[x] \in Dropped(chunk)
    BY <1>2 DEF Dropped
<1>4. x \in DOMAIN parent /\ x \in Ids
    BY <1>1, <1>2 DEF Dropped, IsParents
<1>5. CASE x \in Lost(chunk, Containments)
    BY <1>1, <1>3, <1>4, <1>5, LostFacts
<1>6. CASE parent[x] \in Dropped(chunk)
    BY <1>1, <1>2, <1>3, <1>4, <1>6 DEF Dropped, IsParents
<1> QED
    BY <1>3, <1>5, <1>6

\* A child whose parent is dropped but stays is rescued.
LEMMA RescuedWith ==
    ASSUME NEW chunk, Right(parent, lists), Treated(chunk),
           NEW x \in DOMAIN parent, parent[x] \in Dropped(chunk), parent[x] \in Rescued(chunk)
    PROVE  x \in Rescued(chunk)
<1> DEFINE n == parent[x]
<1>1. IsParents(parent) /\ lists \in ListsType /\ IsForest(parent, lists)
    BY DEF Right
<1>2. n \in DOMAIN parent
    BY <1>1, SubtreeHas DEF Dropped
<1>3. n \in Subtree({n})
    BY <1>1, <1>2, SubtreeHas
<1>4. x \in Subtree({n})
    BY <1>1, <1>3, SubtreeCloses
<1>5. Subtree({n}) \subseteq Rescued(chunk)
    BY DEF Treated
<1> QED
    BY <1>4, <1>5

\* A chunk lists ids, each where it can be.
LEMMA SaysIds ==
    ASSUME NEW chunk, IsChunk(chunk), NEW n \in DOMAIN chunk, NEW k \in Places, NEW x,
           Says(chunk, n, k, x)
    PROVE  x \in Ids /\ n \in Ids /\ k \in PlacesFor(x)
<1>1. chunk[n].lists[k] \in Seq(Ids) /\ n \in Ids
    BY DEF IsChunk
<1>2. x \in Ids
    BY <1>1, ItemsOfSeq DEF Says
<1> QED
    BY <1>1, <1>2 DEF IsChunk

\* What is dropped and not rescued is not in the chunk, nor listed by it.
LEMMA DroppedUnlisted ==
    ASSUME NEW chunk, Right(parent, lists), IsChunk(chunk), Treated(chunk),
           NEW b \in Dropped(chunk), b \notin Rescued(chunk)
    PROVE  b \notin DOMAIN chunk /\ b \notin ListedIn(chunk)
<1>1. Containments \subseteq Places /\ {Annotations} \subseteq Places
    BY DEF Places
<1>2. /\ b \in DOMAIN parent /\ b \in Ids /\ parent[b] \in Ids
      /\ b \in Lost(chunk, Containments) \/ parent[b] \in Dropped(chunk)
    BY DroppedFacts
<1>3. b \in Gone(chunk)
    BY DEF Gone
<1>4. b \notin DOMAIN chunk
    BY <1>2, <1>3 DEF Treated
<1>5. SUFFICES ASSUME NEW n \in DOMAIN chunk, NEW k \in Places, Says(chunk, n, k, b) PROVE FALSE
    BY <1>4, ListedInMeans
<1>6. n \in Ids /\ k \in PlacesFor(b)
    BY <1>5, SaysIds
<1>7. n \in DOMAIN parent
    BY <1>2, <1>5 DEF Rescued, Under
<1>8. CASE Lists(lists, n, k, b)
    <2>1. parent[b] = n
        BY <1>6, <1>8, ListsFacts
    <2>2. b \notin Lost(chunk, Containments)
        BY <1>1, <1>5, <1>8, <2>1, LostFacts
    <2>3. n \in Dropped(chunk)
        BY <1>2, <2>1, <2>2
    <2>4. n \notin Gone(chunk)
        BY <1>5, <1>7 DEF Treated
    <2>5. n \in Rescued(chunk)
        BY <2>3, <2>4 DEF Gone
    <2> QED
        BY <1>2, <2>1, <2>3, <2>5, RescuedWith
<1>9. CASE ~Lists(lists, n, k, b)
    <2>1. CASE k \in Containments
        <3>1. Gains(chunk, Containments, n, b)
            BY <1>2, <1>5, <1>7, <1>9, <2>1 DEF Gains
        <3> QED
            BY <1>2, <1>6, <3>1 DEF Rescued, Gained
    <2>2. CASE k = Annotations
        <3>1. Gains(chunk, {Annotations}, n, b)
            BY <1>2, <1>5, <1>7, <1>9, <2>2 DEF Gains
        <3>2. b \in Gained(chunk, {Annotations})
            BY <1>2, <1>6, <3>1 DEF Gained
        <3> QED
            BY <1>2, <1>4, <3>2 DEF Treated
    <2> QED
        BY <2>1, <2>2 DEF Places
<1> QED
    BY <1>8, <1>9

\* An annotation that its node loses, and no node gains.
LEMMA LostUnlisted ==
    ASSUME NEW chunk, Right(parent, lists), IsChunk(chunk), Treated(chunk),
           NEW b \in Lost(chunk, {Annotations}),
           b \notin Gained(chunk, {Annotations}), b \notin Under(chunk)
    PROVE  b \notin DOMAIN chunk /\ b \notin ListedIn(chunk)
<1>1. {Annotations} \subseteq Places
    BY DEF Places
<1>2. /\ b \in DOMAIN parent /\ b \in Ids /\ parent[b] \in Ids
      /\ Annotations \in PlacesFor(b)
      /\ \A j \in Places : ~(Lists(lists, parent[b], j, b) /\ Says(chunk, parent[b], j, b))
    BY <1>1, LostFacts
<1>3. b \in Gone(chunk)
    BY DEF Gone
<1>4. b \notin DOMAIN chunk
    BY <1>2, <1>3 DEF Treated
<1>5. SUFFICES ASSUME NEW n \in DOMAIN chunk, NEW k \in Places, Says(chunk, n, k, b) PROVE FALSE
    BY <1>4, ListedInMeans
<1>6. n \in Ids /\ k \in PlacesFor(b)
    BY <1>5, SaysIds
<1>7. k = Annotations
    BY <1>2, <1>6, PlacesAssumption DEF PlacesFor
<1>8. n \in DOMAIN parent
    BY <1>2, <1>5 DEF Under
<1>9. CASE Lists(lists, n, k, b)
    <2>1. parent[b] = n
        BY <1>6, <1>9, ListsFacts
    <2> QED
        BY <1>2, <1>5, <1>9, <2>1
<1>10. CASE ~Lists(lists, n, k, b)
    <2>1. Gains(chunk, {Annotations}, n, b)
        BY <1>2, <1>5, <1>7, <1>8, <1>10 DEF Gains
    <2> QED
        BY <1>2, <1>6, <2>1 DEF Gained
<1> QED
    BY <1>9, <1>10

\* What the meant lists say of a node that the chunk does not list.
LEMMA UnlistedStays ==
    ASSUME NEW chunk, NEW p, NEW l, NEW kept, Storing(chunk, p, l, kept),
           NEW b, b \notin ListedIn(chunk), NEW n \in Ids, b \in Listed(l, n)
    PROVE  n \notin DOMAIN chunk /\ n \in DOMAIN parent /\ b \in DOMAIN parent /\ parent[b] = n
<1>1. PICK k \in Places : Lists(l, n, k, b)
    BY ListedMeans
<1>2. MeansLists(chunk, l) /\ Right(parent, lists)
    BY DEF Storing, Keeping
<1>3. n \notin DOMAIN chunk
    BY <1>1, <1>2, ListedInMeans DEF MeansLists
<1>4. Lists(lists, n, k, b)
    BY <1>1, <1>2, <1>3 DEF MeansLists
<1> QED
    BY <1>2, <1>3, <1>4, ListsFacts

\* It is not kept: who lists it still is dropped too.
LEMMA DroppedNotKept ==
    ASSUME NEW chunk, NEW p, NEW l, NEW kept, Storing(chunk, p, l, kept),
           NEW b \in Dropped(chunk), b \notin Rescued(chunk)
    PROVE  b \notin kept
<1> DEFINE B == Dropped(chunk) \ Rescued(chunk)
           S == Ids \ B
<1>1. /\ Right(parent, lists) /\ IsChunk(chunk) /\ Keeping(chunk, p, l, kept) /\ Treated(chunk)
      /\ MeansParents(chunk, p)
    BY DEF Storing, Keeping
<1>2. ASSUME NEW x \in B
      PROVE  /\ x \in DOMAIN parent /\ parent[x] \in Ids
             /\ x \in Lost(chunk, Containments) \/ parent[x] \in Dropped(chunk)
             /\ x \notin DOMAIN chunk /\ x \notin ListedIn(chunk)
    BY <1>1, DroppedFacts, DroppedUnlisted
<1>3. Roots(p) \subseteq S
    <2> SUFFICES ASSUME NEW x \in B, x \in Roots(p) PROVE FALSE
        BY <1>1, RootsType DEF MeansParents
    <2>1. p[x] = parent[x]
        BY <1>1, <1>2 DEF MeansParents
    <2> QED
        BY <1>2, <2>1, IdsAssumption DEF Roots
<1>4. Closed(l, S)
    <2> SUFFICES ASSUME NEW n \in S, NEW x \in Listed(l, n), x \in B PROVE FALSE
        <3>1. l \in ListsType
            BY <1>1 DEF Keeping, MeansLists
        <3>2. \A n \in S : Listed(l, n) \subseteq Ids
            BY <3>1, ListedType
        <3> QED
            BY <3>2 DEF Closed
    <2>1. n \notin DOMAIN chunk /\ parent[x] = n
        BY <1>2, UnlistedStays
    <2>2. x \notin Lost(chunk, Containments)
        BY <1>1, <2>1, LostFacts DEF Places
    <2>3. n \in Dropped(chunk) /\ n \in Rescued(chunk)
        BY <1>2, <2>1, <2>2
    <2> QED
        BY <1>1, <1>2, <2>1, <2>3, RescuedWith
<1>5. b \in B /\ S \in SUBSET Ids
    OBVIOUS
<1>6. b \notin S
    BY <1>5
<1> HIDE DEF S
<1> QED
    BY <1>1, <1>3, <1>4, <1>5, <1>6 DEF Keeping

\* An annotation that is removed and nowhere added is not kept.
LEMMA LostNotKept ==
    ASSUME NEW chunk, NEW p, NEW l, NEW kept, Storing(chunk, p, l, kept),
           NEW b \in Lost(chunk, {Annotations}),
           b \notin Gained(chunk, {Annotations}), b \notin Under(chunk)
    PROVE  b \notin kept
<1> DEFINE S == Ids \ {b}
<1>1. /\ Right(parent, lists) /\ IsChunk(chunk) /\ Keeping(chunk, p, l, kept) /\ Treated(chunk)
      /\ MeansParents(chunk, p)
    BY DEF Storing, Keeping
<1>2. b \notin DOMAIN chunk /\ b \notin ListedIn(chunk)
    BY <1>1, LostUnlisted
<1>3. b \in DOMAIN parent /\ b \in Ids /\ parent[b] \in DOMAIN chunk /\ parent[b] \in Ids
    BY <1>1, LostFacts DEF Places
<1>4. Roots(p) \subseteq S
    <2>1. p[b] = parent[b]
        BY <1>1, <1>2, <1>3 DEF MeansParents
    <2>2. b \notin Roots(p)
        BY <1>3, <2>1, IdsAssumption DEF Roots
    <2> QED
        BY <1>1, <2>2, RootsType DEF MeansParents
<1>5. Closed(l, S)
    <2>1. \A n \in S : Listed(l, n) \subseteq Ids
        BY <1>1, ListedType DEF Keeping, MeansLists
    <2>2. ASSUME NEW n \in S, b \in Listed(l, n) PROVE FALSE
        BY <1>2, <1>3, <2>2, UnlistedStays
    <2> QED
        BY <2>1, <2>2 DEF Closed
<1>6. b \notin S /\ S \in SUBSET Ids
    OBVIOUS
<1> HIDE DEF S
<1> QED
    BY <1>1, <1>4, <1>5, <1>6 DEF Keeping

\* What is not kept is an orphan: by induction along the old tree, where either the
\* parent is an orphan or the node lost its place.
LEMMA NotKeptIsGone ==
    ASSUME NEW chunk, NEW p, NEW l, NEW kept, Storing(chunk, p, l, kept)
    PROVE  \A x \in DOMAIN parent : x \in kept \/ x \in Gone(chunk)
<1> DEFINE D == {x \in DOMAIN parent : x \in kept \/ x \in Gone(chunk)}
<1>1. /\ Right(parent, lists) /\ IsChunk(chunk) /\ Keeping(chunk, p, l, kept) /\ Treated(chunk)
      /\ MeansParents(chunk, p) /\ MeansLists(chunk, l)
    BY DEF Storing, Keeping
<1>2. IsParents(parent) /\ lists \in ListsType /\ IsForest(parent, lists)
    BY <1>1 DEF Right
<1>3. DOMAIN chunk \subseteq kept /\ ListedIn(chunk) \subseteq kept /\ Roots(p) \subseteq kept
      /\ Closed(l, kept)
    BY <1>1 DEF Keeping
<1>4. Roots(parent) \subseteq D
    <2> SUFFICES ASSUME NEW x \in Roots(parent) PROVE x \in kept
        BY DEF Roots
    <2>1. CASE x \in DOMAIN chunk \/ x \in ListedIn(chunk)
        BY <1>3, <2>1
    <2>2. CASE x \notin DOMAIN chunk /\ x \notin ListedIn(chunk)
        <3>1. x \in DOMAIN parent /\ parent[x] = None
            BY DEF Roots
        <3>2. x \in DOMAIN p /\ p[x] = None
            BY <1>1, <2>2, <3>1 DEF MeansParents
        <3> QED
            BY <1>3, <3>2 DEF Roots
    <2> QED
        BY <2>1, <2>2
<1>5. Closed(lists, D)
    <2> SUFFICES ASSUME NEW y \in D, NEW x \in Listed(lists, y), x \notin kept
                 PROVE  x \in DOMAIN parent /\ x \in Gone(chunk)
        <3>1. \A y \in D : \A x \in Listed(lists, y) : x \in DOMAIN parent
            BY <1>2, ForestLists DEF IsParents
        <3> QED
            BY <3>1 DEF Closed
    <2>1. y \in DOMAIN parent /\ y \in Ids
        BY <1>2 DEF IsParents
    <2>2. PICK k \in Places : Lists(lists, y, k, x)
        BY ListedMeans
    <2>3. x \in DOMAIN parent /\ x \in Ids /\ parent[x] = y
        BY <1>1, <2>1, <2>2, ListsFacts
    <2>4. x \notin DOMAIN chunk /\ x \notin ListedIn(chunk)
        BY <1>3
    <2>5. \A n \in DOMAIN chunk, j \in Places : ~Says(chunk, n, j, x)
        BY <2>4, ListedInMeans
    <2>6. \A K \in SUBSET Places : x \notin Gained(chunk, K)
        BY <2>5 DEF Gained, Gains
    <2>7. x \notin Under(chunk)
        BY <2>5 DEF Under
    <2>8. {Annotations} \in SUBSET Places /\ Containments \in SUBSET Places
        BY DEF Places
    <2>9. x \notin Rescued(chunk)
        BY <2>6, <2>7, <2>8 DEF Rescued
    <2>10. CASE y \in kept /\ y \notin DOMAIN chunk
        <3>1. Lists(l, y, k, x)
            BY <1>1, <2>1, <2>2, <2>4, <2>10 DEF MeansLists
        <3>2. x \in Listed(l, y)
            BY <3>1, ListedMeans
        <3> QED
            BY <1>3, <2>10, <3>2 DEF Closed
    <2>11. CASE y \in DOMAIN chunk /\ k = Annotations
        <3>1. Loses(chunk, {Annotations}, y, x)
            BY <2>1, <2>2, <2>3, <2>5, <2>11 DEF Loses
        <3>2. x \in Lost(chunk, {Annotations})
            BY <2>1, <2>3, <3>1 DEF Lost
        <3> QED
            BY <2>3, <2>6, <2>7, <2>8, <3>2 DEF Gone
    <2>12. CASE y \in DOMAIN chunk /\ k \in Containments
        <3>1. Loses(chunk, Containments, y, x)
            BY <2>1, <2>2, <2>3, <2>5, <2>12 DEF Loses
        <3>2. x \in Lost(chunk, Containments)
            BY <2>1, <2>3, <3>1 DEF Lost
        <3>3. x \in Dropped(chunk)
            BY <1>2, <2>3, <2>9, <3>2, SubtreeHas DEF Dropped
        <3> QED
            BY <2>3, <2>9, <3>3 DEF Gone
    <2>13. CASE y \notin kept /\ y \in Dropped(chunk)
        <3>1. x \in Dropped(chunk)
            BY <1>2, <2>3, <2>13, SubtreeCloses DEF Dropped
        <3> QED
            BY <2>3, <2>9, <3>1 DEF Gone
    <2>14. CASE y \notin kept /\ y \notin Dropped(chunk)
        <3>1. y \in Lost(chunk, {Annotations}) /\ y \in Gone(chunk)
            BY <2>14 DEF Gone
        <3>2. Subtree({y}) \subseteq Gone(chunk)
            BY <1>1, <3>1 DEF Treated
        <3>3. y \in Subtree({y})
            BY <1>2, <2>1, SubtreeHas
        <3>4. x \in Subtree({y})
            BY <1>2, <2>3, <3>3, SubtreeCloses
        <3> QED
            BY <2>3, <3>2, <3>4
    <2> QED
        BY <2>10, <2>11, <2>12, <2>13, <2>14 DEF Places
<1>6. D \in SUBSET Ids
    BY <1>2 DEF IsParents
<1> HIDE DEF D
<1>7. DOMAIN parent \subseteq D
    BY <1>2, <1>4, <1>5, <1>6, ForestInduction
<1> QED
    BY <1>7 DEF D

\* The code deletes what is not kept.
LEMMA GoneIsNotKept ==
    ASSUME NEW chunk, NEW p, NEW l, NEW kept, Storing(chunk, p, l, kept),
           NEW x \in DOMAIN parent
    PROVE  x \in Gone(chunk) <=> x \notin kept
<1>1. x \in Gone(chunk) => x \notin kept
    BY DroppedNotKept, LostNotKept DEF Gone
<1> QED
    BY <1>1, NotKeptIsGone

(***************************************************************************)
(* What store does is what the chunk means.                                *)
(***************************************************************************)
\* A node that the chunk does not hold, and does not take, has its parent.
LEMMA ListedByParent ==
    ASSUME NEW chunk, NEW p, NEW l, NEW kept, Storing(chunk, p, l, kept),
           NEW x \in DOMAIN parent, x \notin DOMAIN chunk, x \notin Gained(chunk, Containments),
           NEW n \in DOMAIN chunk, NEW k \in Places, Says(chunk, n, k, x)
    PROVE  parent[x] = n
<1>1. Right(parent, lists) /\ IsChunk(chunk) /\ Treated(chunk)
    BY DEF Storing
<1>2. n \in Ids /\ x \in Ids
    BY <1>1, SaysIds
<1>3. n \in DOMAIN parent
    BY <1>1 DEF Under, Treated
<1>4. CASE Lists(lists, n, k, x)
    BY <1>1, <1>2, <1>4, ListsFacts
<1>5. CASE ~Lists(lists, n, k, x)
    <2>1. k \notin Containments
        BY <1>2, <1>3, <1>5 DEF Gained, Gains
    <2>2. Gains(chunk, {Annotations}, n, x)
        BY <1>2, <1>3, <1>5, <2>1 DEF Gains, Places
    <2>3. x \in Gained(chunk, {Annotations})
        BY <1>2, <2>2 DEF Gained
    <2> QED
        BY <1>1, <2>3 DEF Treated
<1> QED
    BY <1>4, <1>5

\* The parents of the nodes that are kept are as the chunk means them.
LEMMA ParentsAsMeant ==
    ASSUME NEW chunk, NEW d, NEW p, NEW l, NEW kept, Storing(chunk, p, l, kept), Tells(chunk, d),
           NEW x \in DOMAIN parent, x \in kept
    PROVE  ParentsAfter(chunk, d)[x] = p[x]
<1>1. /\ Right(parent, lists) /\ IsChunk(chunk) /\ MeansParents(chunk, p)
    BY DEF Storing, Keeping
<1>2. x \in DOMAIN p
    BY <1>1 DEF MeansParents
<1>3. CASE x \in d.parentChanged
    <2>1. ParentsAfter(chunk, d)[x] = chunk[x].parent
        BY <1>3 DEF ParentsAfter
    <2>2. x \in DOMAIN chunk
        BY <1>3 DEF Tells
    <2> QED
        BY <1>1, <2>1, <2>2 DEF MeansParents
<1>4. CASE x \notin d.parentChanged /\ x \in Nodes(d.childAdded)
    <2> DEFINE first == CHOOSE pair \in d.childAdded : pair[2] = x
    <2>1. first \in d.childAdded /\ first[2] = x
        BY <1>4 DEF Nodes
    <2>2. ParentsAfter(chunk, d)[x] = first[1]
        BY <1>4 DEF ParentsAfter
    <2> HIDE DEF first
    <2>3. Gains(chunk, Containments, first[1], x)
        BY <2>1 DEF Tells
    <2>4. first[1] \in DOMAIN chunk /\ \E k \in Places : Says(chunk, first[1], k, x)
        BY <2>3 DEF Gains, Places
    <2> QED
        BY <1>1, <1>2, <2>2, <2>4 DEF MeansParents
<1>5. CASE x \notin d.parentChanged /\ x \notin Nodes(d.childAdded)
    <2>1. ParentsAfter(chunk, d)[x] = parent[x]
        BY <1>5 DEF ParentsAfter
    <2>2. CASE x \in DOMAIN chunk
        <3>1. chunk[x].parent = parent[x]
            BY <1>5, <2>2 DEF Tells
        <3> QED
            BY <1>1, <2>1, <2>2, <3>1 DEF MeansParents
    <2>3. CASE x \notin DOMAIN chunk /\ x \notin ListedIn(chunk)
        BY <1>1, <2>1, <2>3 DEF MeansParents
    <2>4. CASE x \notin DOMAIN chunk /\ x \in ListedIn(chunk)
        <3>1. PICK n \in DOMAIN chunk, k \in Places : Says(chunk, n, k, x)
            BY <2>4, ListedInMeans
        <3>2. x \notin Gained(chunk, Containments)
            BY <1>5 DEF Tells
        <3>3. parent[x] = n
            BY <2>4, <3>1, <3>2, ListedByParent
        <3>4. p[x] = n
            BY <1>1, <1>2, <3>1 DEF MeansParents
        <3> QED
            BY <2>1, <3>3, <3>4
    <2> QED
        BY <2>2, <2>3, <2>4
<1> QED
    BY <1>3, <1>4, <1>5

\* The children that are taken from a node that the chunk does not hold.
LEMMA TakenAre ==
    ASSUME NEW chunk, NEW p, NEW l, NEW kept, Storing(chunk, p, l, kept),
           NEW n \in Ids, n \notin DOMAIN chunk, NEW k \in Places, NEW x, Lists(lists, n, k, x)
    PROVE  x \in ListedIn(chunk) <=> x \in TakenBy(chunk) /\ k \in Containments
<1>1. Right(parent, lists) /\ IsChunk(chunk) /\ Treated(chunk)
    BY DEF Storing
<1>2. /\ x \in DOMAIN parent /\ x \in Ids /\ parent[x] = n /\ k \in PlacesFor(x)
    BY <1>1, ListsFacts
<1>3. x \notin Lost(chunk, Containments) /\ x \notin Lost(chunk, {Annotations})
    BY <1>1, <1>2, LostFacts DEF Places
<1>4. x \notin Gained(chunk, {Annotations})
    BY <1>1, <1>2, <1>3 DEF Treated
<1>5. x \notin Under(chunk)
    BY <1>1, <1>3 DEF Treated
<1>6. ASSUME x \in ListedIn(chunk) PROVE x \in TakenBy(chunk) /\ k \in Containments
    <2>1. PICK m \in DOMAIN chunk, j \in Places : Says(chunk, m, j, x)
        BY <1>6, ListedInMeans
    <2>2. m \in Ids /\ j \in PlacesFor(x)
        BY <1>1, <2>1, SaysIds
    <2>3. ~Lists(lists, m, j, x)
        BY <1>1, <1>2, <2>2, ListsFacts
    <2>4. m \in DOMAIN parent
        BY <1>2, <1>5, <2>1 DEF Under
    <2>5. j # Annotations
        <3>1. SUFFICES ASSUME j = Annotations PROVE FALSE
            OBVIOUS
        <3>2. Gains(chunk, {Annotations}, m, x)
            BY <1>2, <2>1, <2>3, <2>4, <3>1 DEF Gains
        <3> QED
            BY <1>2, <1>4, <2>2, <3>2 DEF Gained
    <2>6. j \in Containments
        BY <2>5 DEF Places
    <2>7. Gains(chunk, Containments, m, x)
        BY <1>2, <2>1, <2>3, <2>4, <2>6 DEF Gains
    <2>8. x \in Gained(chunk, Containments)
        BY <1>2, <2>2, <2>7 DEF Gained
    <2>9. k \in Containments
        BY <1>2, <2>2, <2>6, PlacesAssumption DEF PlacesFor
    <2> QED
        BY <1>2, <1>3, <2>8, <2>9 DEF TakenBy
<1>7. ASSUME x \in TakenBy(chunk) PROVE x \in ListedIn(chunk)
    <2>1. PICK m \in Ids : Gains(chunk, Containments, m, x)
        BY <1>7 DEF TakenBy, Gained
    <2>2. \E j \in Places : Says(chunk, m, j, x)
        BY <2>1 DEF Gains, Places
    <2>3. m \in DOMAIN chunk
        BY <2>1 DEF Gains
    <2> QED
        BY <2>2, <2>3, ListedInMeans
<1> QED
    BY <1>6, <1>7

\* A node that does not exist has no lists.
LEMMA NoListHere ==
    ASSUME Right(parent, lists), NEW n \in Ids, n \notin DOMAIN parent, NEW k \in Places
    PROVE  lists[<<n, k>>] = <<>>
<1>1. lists[<<n, k>>] \in Seq(Ids)
    BY DEF Right, ListsType
<1>2. ASSUME NEW x \in ToSet(lists[<<n, k>>]) PROVE FALSE
    <2>1. Lists(lists, n, k, x)
        BY DEF Lists
    <2> QED
        BY <2>1, ListsFacts
<1>3. Len(lists[<<n, k>>]) = 0
    <2> DEFINE s == lists[<<n, k>>]
    <2>1. s \in Seq(Ids) /\ ToSet(s) = {}
        BY <1>1, <1>2
    <2> HIDE DEF s
    <2>2. Len(s) \in Nat /\ (Len(s) # 0 => s[1] \in ToSet(s))
        BY <2>1 DEF ToSet
    <2> QED
        BY <2>1, <2>2 DEF s
<1> QED
    BY <1>1, <1>3, EmptySeq

\* The lists of the nodes that are kept and not in the chunk are as it means them:
\* of each list at most one child is taken.
LEMMA ListsAsMeant ==
    ASSUME NEW chunk, NEW d, NEW p, NEW l, NEW kept, Storing(chunk, p, l, kept), Tells(chunk, d),
           l = MeantLists(chunk), NEW first \in Firsts(chunk), d = Diff(chunk),
           NEW n \in Ids, n \notin DOMAIN chunk, n \in kept, NEW k \in Places
    PROVE  ListsAfter(chunk, d, first)[<<n, k>>] = l[<<n, k>>]
<1> DEFINE s == lists[<<n, k>>]
<1>1. Right(parent, lists) /\ IsChunk(chunk) /\ Treated(chunk)
    BY DEF Storing
<1>2. s \in Seq(Ids)
    BY <1>1 DEF Right, ListsType
<1>3. l[<<n, k>>] = Filtered(s, Ids \ ListedIn(chunk))
    BY DEF MeantLists
<1>4. n \notin d.old
    BY DEF Tells
<1>5. /\ DOMAIN first = Losers(d)
      /\ \A q \in Losers(d) : first[q] \in TakenBy(chunk) /\ first[q] \in ToSet(lists[q])
    BY TellsOrphans DEF Firsts
<1>6. <<n, k>> \in DOMAIN first <=> k \in Containments /\ \E x \in ToSet(s) : x \in TakenBy(chunk)
    BY <1>5, TellsOrphans DEF Losers
<1>7. \A x \in ToSet(s) : x \in ListedIn(chunk) <=> x \in TakenBy(chunk) /\ k \in Containments
    BY TakenAre DEF Lists
<1>8. ToSet(s) \subseteq Ids
    BY <1>2, ItemsOfSeq
<1>9. CASE <<n, k>> \in DOMAIN first
    <2> DEFINE y == first[<<n, k>>]
    <2>1. ListsAfter(chunk, d, first)[<<n, k>>] = Filtered(s, Ids \ {y})
        BY <1>4, <1>9 DEF ListsAfter
    <2>2. y \in ToSet(s) /\ y \in TakenBy(chunk) /\ k \in Containments
        BY <1>5, <1>6, <1>9
    <2>3. \A x \in ToSet(s) : x \in TakenBy(chunk) => x = y
        BY <1>1, <2>2 DEF Treated
    <2> HIDE DEF y, s
    <2>4. \A x \in ToSet(s) : x \in Ids \ {y} <=> x \in Ids \ ListedIn(chunk)
        BY <1>7, <1>8, <2>2, <2>3
    <2>5. Filtered(s, Ids \ {y}) = Filtered(s, Ids \ ListedIn(chunk))
        BY <1>2, <2>4, FilteredSame
    <2> QED
        BY <1>3, <2>1, <2>5
<1>10. CASE <<n, k>> \notin DOMAIN first
    <2>1. ListsAfter(chunk, d, first)[<<n, k>>] = s
        BY <1>4, <1>10 DEF ListsAfter
    <2>2. ToSet(s) \subseteq Ids \ ListedIn(chunk)
        BY <1>6, <1>7, <1>8, <1>10
    <2> HIDE DEF s
    <2>3. Filtered(s, Ids \ ListedIn(chunk)) = s
        BY <1>2, <2>2, FilteredAll
    <2> QED
        BY <1>3, <2>1, <2>3
<1> QED
    BY <1>9, <1>10

\* The parent column after the statements is the merged one.
LEMMA AfterParents ==
    ASSUME NEW chunk, NEW d, Storing(chunk, MeantParents(chunk), MeantLists(chunk), Kept(chunk)),
           Tells(chunk, d)
    PROVE  [n \in (DOMAIN parent \ Orphans(d)) \union d.new |->
                IF n \in d.new THEN chunk[n].parent ELSE ParentsAfter(chunk, d)[n]]
            = Merged(chunk).parent
<1> DEFINE p == MeantParents(chunk)
           l == MeantLists(chunk)
           kept == Kept(chunk)
           D == (DOMAIN parent \ Orphans(d)) \union d.new
           a == ParentsAfter(chunk, d)
<1>1. Storing(chunk, p, l, kept)
    OBVIOUS
<1>2. Merged(chunk).parent = [x \in kept \intersect DOMAIN p |-> p[x]]
    BY MergedIs
<1> HIDE DEF p, l, kept, a
<1>3. /\ MeansParents(chunk, p) /\ kept \subseteq DOMAIN p /\ DOMAIN chunk \subseteq kept
    BY <1>1 DEF Storing, Keeping
<1>4. Orphans(d) = Gone(chunk)
    BY TellsOrphans
<1>5. \A x \in DOMAIN parent : x \in Gone(chunk) <=> x \notin kept
    BY <1>1, GoneIsNotKept
<1>6. d.new = DOMAIN chunk \ DOMAIN parent
    BY DEF Tells
<1>7. D = kept \intersect DOMAIN p
    BY <1>3, <1>4, <1>5, <1>6 DEF MeansParents
<1>8. ASSUME NEW x \in D
      PROVE  (IF x \in d.new THEN chunk[x].parent ELSE a[x]) = p[x]
    <2>1. CASE x \in d.new
        BY <1>3, <1>6, <2>1 DEF MeansParents
    <2>2. CASE x \notin d.new
        <3>1. x \in DOMAIN parent /\ x \in kept
            BY <1>7, <2>2
        <3> QED
            BY <1>1, <2>2, <3>1, ParentsAsMeant DEF a
    <2> QED
        BY <2>1, <2>2
<1> HIDE DEF D
<1>9. [n \in D |-> IF n \in d.new THEN chunk[n].parent ELSE a[n]] = [n \in D |-> p[n]]
    BY <1>8
<1>10. [n \in D |-> IF n \in d.new THEN chunk[n].parent ELSE a[n]] = Merged(chunk).parent
    BY <1>2, <1>7, <1>9
<1> QED
    BY <1>10 DEF D, a

\* A node of the chunk that existed has the lists of the chunk.
LEMMA ListsOfOld ==
    ASSUME NEW chunk, NEW d, Tells(chunk, d), NEW first,
           NEW n \in Ids, NEW k \in Places, n \in DOMAIN chunk, n \in DOMAIN parent
    PROVE  ListsAfter(chunk, d, first)[<<n, k>>] = chunk[n].lists[k]
BY DEF ListsAfter, Tells

\* The lists after the statements are the merged ones.
LEMMA AfterLists ==
    ASSUME NEW chunk, NEW first \in Firsts(chunk),
           Storing(chunk, MeantParents(chunk), MeantLists(chunk), Kept(chunk)),
           Tells(chunk, Diff(chunk))
    PROVE  [k \in Ids \X Places |->
                CASE k[1] \in Diff(chunk).new -> chunk[k[1]].lists[k[2]]
                  [] k[1] \in Orphans(Diff(chunk)) \ Diff(chunk).new -> <<>>
                  [] OTHER -> ListsAfter(chunk, Diff(chunk), first)[k]]
            = Merged(chunk).lists
<1> DEFINE p == MeantParents(chunk)
           l == MeantLists(chunk)
           kept == Kept(chunk)
           d == Diff(chunk)
           b == ListsAfter(chunk, d, first)
           after(k) == CASE k[1] \in d.new -> chunk[k[1]].lists[k[2]]
                         [] k[1] \in Orphans(d) \ d.new -> <<>>
                         [] OTHER -> b[k]
           meant(k) == IF k[1] \in kept THEN l[k] ELSE <<>>
<1>1. Storing(chunk, p, l, kept) /\ Tells(chunk, d)
    OBVIOUS
<1>2. Merged(chunk).lists = [k \in Ids \X Places |-> meant(k)]
    BY MergedIs
<1>3. ASSUME NEW n \in Ids, n \notin DOMAIN chunk, n \in kept, NEW k \in Places
      PROVE  b[<<n, k>>] = l[<<n, k>>]
    BY <1>1, <1>3, ListsAsMeant
<1>4. ASSUME NEW n \in Ids, NEW k \in Places, n \in DOMAIN chunk, n \in DOMAIN parent
      PROVE  b[<<n, k>>] = chunk[n].lists[k]
    <2> HIDE DEF d
    <2> QED
        BY <1>1, <1>4, ListsOfOld
<1>5. ASSUME NEW n \in Ids, n \notin DOMAIN chunk, n \notin DOMAIN parent, NEW k \in Places
      PROVE  b[<<n, k>>] = <<>>
    <2>1. Right(parent, lists)
        BY DEF Storing
    <2>2. lists[<<n, k>>] = <<>>
        BY <1>5, <2>1, NoListHere
    <2>3. <<n, k>> \notin DOMAIN first
        <3>1. DOMAIN first = Losers(d)
            BY DEF Firsts
        <3>2. ToSet(lists[<<n, k>>]) = {}
            BY <2>2 DEF ToSet
        <3>3. <<n, k>> \notin Losers(d)
            BY <3>2 DEF Losers
        <3> QED
            BY <3>1, <3>3
    <2>4. n \notin d.old
        BY <1>1, <1>5 DEF Tells
    <2> QED
        BY <2>2, <2>3, <2>4 DEF ListsAfter
<1>6. Orphans(d) = Gone(chunk)
    BY <1>1, TellsOrphans
<1> HIDE DEF p, l, kept, d, b
<1>7. /\ MeansParents(chunk, p) /\ MeansLists(chunk, l)
      /\ kept \subseteq DOMAIN p /\ DOMAIN chunk \subseteq kept /\ IsParents(p) /\ IsParents(parent)
    BY <1>1 DEF Storing, Keeping, MeansParents, Right
<1>8. \A x \in DOMAIN parent : x \in Gone(chunk) <=> x \notin kept
    BY <1>1, GoneIsNotKept
<1>9. d.new = DOMAIN chunk \ DOMAIN parent /\ d.old = DOMAIN chunk \intersect DOMAIN parent
    BY <1>1 DEF Tells
<1>10. \A x \in Gone(chunk) : x \in DOMAIN parent
    <2>1. \A x \in Dropped(chunk) : x \in DOMAIN parent
        BY <1>7, SubtreeHas DEF Dropped
    <2>2. \A x \in Lost(chunk, {Annotations}) : x \in DOMAIN parent
        BY <1>1, LostFacts DEF Storing, Places
    <2> QED
        BY <2>1, <2>2 DEF Gone
<1>11. ASSUME NEW q \in Ids \X Places PROVE after(q) = meant(q)
    <2>1. PICK n \in Ids, k \in Places : q = <<n, k>>
        OBVIOUS
    <2>2. q[1] = n /\ q[2] = k
        BY <2>1
    <2>3. CASE n \in DOMAIN chunk
        <3>1. l[q] = chunk[n].lists[k]
            BY <1>7, <2>1, <2>3 DEF MeansLists
        <3>2. meant(q) = chunk[n].lists[k]
            BY <1>7, <2>2, <2>3, <3>1
        <3>3. CASE n \in d.new
            <4>1. after(<<n, k>>) = chunk[n].lists[k]
                BY <3>3
            <4> QED
                BY <2>1, <3>2, <4>1
        <3>4. CASE n \notin d.new
            <4>1. n \in DOMAIN parent /\ n \notin Orphans(d)
                BY <1>6, <1>7, <1>8, <1>9, <2>3, <3>4
            <4>2. b[q] = chunk[n].lists[k]
                BY <1>4, <2>1, <2>3, <4>1
            <4> QED
                BY <2>2, <3>2, <3>4, <4>1, <4>2
        <3> QED
            BY <3>3, <3>4
    <2>4. CASE n \notin DOMAIN chunk /\ n \in kept
        <3>1. n \notin d.new /\ n \notin Orphans(d)
            BY <1>6, <1>8, <1>9, <1>10, <2>4
        <3>2. b[q] = l[q]
            BY <1>3, <2>1, <2>4
        <3> QED
            BY <2>2, <2>4, <3>1, <3>2
    <2>5. CASE n \notin DOMAIN chunk /\ n \notin kept /\ n \in DOMAIN parent
        <3>1. n \notin d.new /\ n \in Orphans(d)
            BY <1>6, <1>8, <1>9, <2>5
        <3> QED
            BY <2>2, <2>5, <3>1
    <2>6. CASE n \notin DOMAIN chunk /\ n \notin kept /\ n \notin DOMAIN parent
        <3>1. n \notin d.new /\ n \notin Orphans(d)
            BY <1>6, <1>9, <1>10, <2>6
        <3>2. b[q] = <<>>
            BY <1>5, <2>1, <2>6
        <3> QED
            BY <2>2, <2>6, <3>1, <3>2
    <2> QED
        BY <2>3, <2>4, <2>5, <2>6
<1> HIDE DEF after, meant
<1>12. [k \in Ids \X Places |-> after(k)] = [k \in Ids \X Places |-> meant(k)]
    BY <1>11
<1>13. [k \in Ids \X Places |-> after(k)] = Merged(chunk).lists
    BY <1>2, <1>12
<1> QED
    BY <1>13 DEF after, d, b

\* Of a chunk that is coherent and not mistreated, store makes what it means.
LEMMA AfterIsMerged ==
    ASSUME NEW chunk, Right(parent, lists), IsChunk(chunk), Coherent(chunk), ~Mistreated(chunk),
           NEW first \in Firsts(chunk)
    PROVE  After(chunk, first) = Merged(chunk)
<1>1. IsParents(parent) /\ lists \in ListsType
    BY DEF Right
<1>2. Storing(chunk, MeantParents(chunk), MeantLists(chunk), Kept(chunk))
    BY <1>1, CoherentKeeps, TreatedIs DEF Storing
<1>3. Tells(chunk, Diff(chunk))
    BY <1>1, DiffTells
<1>4. After(chunk, first) =
        [parent |-> [n \in (DOMAIN parent \ Orphans(Diff(chunk))) \union Diff(chunk).new |->
                        IF n \in Diff(chunk).new THEN chunk[n].parent
                        ELSE ParentsAfter(chunk, Diff(chunk))[n]],
         lists |-> [k \in Ids \X Places |->
                        CASE k[1] \in Diff(chunk).new -> chunk[k[1]].lists[k[2]]
                          [] k[1] \in Orphans(Diff(chunk)) \ Diff(chunk).new -> <<>>
                          [] OTHER -> ListsAfter(chunk, Diff(chunk), first)[k]]]
    BY DEF After
<1>5. After(chunk, first) = [parent |-> Merged(chunk).parent, lists |-> Merged(chunk).lists]
    BY <1>2, <1>3, <1>4, AfterParents, AfterLists
<1>6. Merged(chunk) = [parent |-> Merged(chunk).parent, lists |-> Merged(chunk).lists]
    BY DEF Merged
<1> QED
    BY <1>5, <1>6

\* A coherent chunk leaves a forest.
LEMMA MergedIsRight ==
    ASSUME NEW chunk, Right(parent, lists), IsChunk(chunk), Coherent(chunk)
    PROVE  Right(Merged(chunk).parent, Merged(chunk).lists)
<1> DEFINE p == MeantParents(chunk)
           l == MeantLists(chunk)
           kept == Kept(chunk)
           mp == Merged(chunk).parent
           ml == Merged(chunk).lists
<1>1. IsParents(parent) /\ lists \in ListsType /\ Placed(lists)
    BY DEF Right
<1>2. MeansParents(chunk, p) /\ MeansLists(chunk, l)
    BY <1>1, MeantParentsAre, MeantListsAre
<1>3. mp = [x \in kept \intersect DOMAIN p |-> p[x]]
    BY MergedIs
<1>4. ml = [k \in Ids \X Places |-> IF k[1] \in kept THEN l[k] ELSE <<>>]
    BY MergedIs
<1>5. IsForest(mp, ml)
    BY DEF Coherent
<1> HIDE DEF p, l, kept, mp, ml
<1>6. IsParents(mp)
    BY <1>2, <1>3 DEF MeansParents, IsParents
<1>7. ml \in ListsType
    <2>1. \A k \in Ids \X Places : l[k] \in Seq(Ids)
        BY <1>2 DEF MeansLists, ListsType
    <2>2. <<>> \in Seq(Ids)
        OBVIOUS
    <2> QED
        BY <1>4, <2>1, <2>2 DEF ListsType
<1>8. Placed(ml)
    <2> SUFFICES ASSUME NEW n \in Ids, NEW k \in Places, NEW x \in Ids, Lists(ml, n, k, x)
                 PROVE  k \in PlacesFor(x)
        BY DEF Placed
    <2>1. n \in kept
        <3>1. ToSet(<<>>) = {}
            BY DEF ToSet
        <3> QED
            BY <1>4, <3>1 DEF Lists
    <2>2. Lists(l, n, k, x)
        BY <1>4, <2>1 DEF Lists
    <2>3. CASE n \in DOMAIN chunk
        <3>1. Says(chunk, n, k, x)
            BY <1>2, <2>2, <2>3 DEF MeansLists
        <3> QED
            BY <2>3, <3>1, SaysIds
    <2>4. CASE n \notin DOMAIN chunk
        <3>1. Lists(lists, n, k, x)
            BY <1>2, <2>2, <2>4 DEF MeansLists
        <3> QED
            BY <1>1, <3>1 DEF Placed
    <2> QED
        BY <2>3, <2>4
<1>9. Right(mp, ml)
    BY <1>5, <1>6, <1>7, <1>8 DEF Right
<1> QED
    BY <1>9 DEF mp, ml

(***************************************************************************)
(* What retrieve finds, and that storing it again changes nothing.         *)
(***************************************************************************)
\* The parents are a function.
IsTable(p) == p = [n \in DOMAIN p |-> p[n]]

\* A chunk of nodes as they are.
AsItIs(chunk) ==
    /\ DOMAIN chunk \subseteq DOMAIN parent
    /\ \A n \in DOMAIN chunk : chunk[n].parent = parent[n]
    /\ \A n \in DOMAIN chunk, k \in Places : chunk[n].lists[k] = lists[<<n, k>>]

\* What is retrieved is a chunk of nodes as they are.
LEMMA FullNodesAre ==
    ASSUME Right(parent, lists), NEW N \in SUBSET DOMAIN parent
    PROVE  IsChunk(FullNodes(N)) /\ AsItIs(FullNodes(N)) /\ DOMAIN FullNodes(N) = N
<1> DEFINE f == [parent |-> parent, lists |-> lists]
<1>1. f.parent = parent /\ f.lists = lists
    OBVIOUS
<1>2. FullNodes(N) = Part(f, N)
    BY <1>1 DEF FullNodes, Part
<1> HIDE DEF f
<1>3. Right(f.parent, f.lists) /\ N \in SUBSET DOMAIN f.parent
    BY <1>1
<1>4. IsChunk(Part(f, N)) /\ DOMAIN Part(f, N) = N
    BY <1>3, PartOfForest
<1>5. AsItIs(FullNodes(N))
    BY DEF AsItIs, FullNodes
<1> QED
    BY <1>2, <1>4, <1>5

\* Diff finds no change in nodes as they are.
LEMMA NothingFound ==
    ASSUME NEW chunk, NEW d, Right(parent, lists), AsItIs(chunk), Tells(chunk, d)
    PROVE  /\ d.new = {} /\ d.parentChanged = {} /\ Nodes(d.childAdded) = {}
           /\ Orphans(d) = {} /\ Taken(d) = {}
<1>1. \A K \in SUBSET Places : Gained(chunk, K) = {} /\ Lost(chunk, K) = {}
    BY DEF AsItIs, Gained, Lost, Gains, Loses, Says, Lists
<1>2. {Annotations} \in SUBSET Places /\ Containments \in SUBSET Places
    BY DEF Places
<1>3. d.new = {} /\ d.parentChanged = {}
    BY DEF AsItIs, Tells
<1>4. Nodes(d.childAdded) = {}
    BY <1>1, <1>2 DEF Tells
<1>5. Subtree({}) = {}
    <2>1. IsParents(parent)
        BY DEF Right
    <2>2. Subtree({}) \subseteq {}
        BY <2>1, SubtreeLeast
    <2> QED
        BY <2>2
<1>6. Lost(chunk, Containments) \ Rescued(chunk) = {}
    BY <1>1, <1>2
<1>7. Gone(chunk) = {} /\ TakenBy(chunk) = {}
    BY <1>1, <1>2, <1>5, <1>6 DEF Gone, Dropped, TakenBy
<1> QED
    BY <1>3, <1>4, <1>7, TellsOrphans

\* To store nodes as they are changes nothing.
LEMMA AsItIsStoresNothing ==
    ASSUME NEW chunk, Right(parent, lists), IsTable(parent), IsChunk(chunk), AsItIs(chunk)
    PROVE  StoresNothing(chunk)
<1> DEFINE d == Diff(chunk)
<1>1. IsParents(parent) /\ lists \in ListsType
    BY DEF Right
<1>2. Tells(chunk, d)
    BY <1>1, DiffTells
<1>3. Accepted(chunk)
    <2>1. /\ d.new = {} /\ Nodes(d.childAdded) = {} /\ Taken(d) = {}
        BY <1>2, NothingFound
    <2> QED
        BY <2>1 DEF Accepted
<1>4. ASSUME NEW first \in Firsts(chunk)
      PROVE  After(chunk, first) = [parent |-> parent, lists |-> lists]
    <2>1. DOMAIN first = Losers(d)
        BY DEF Firsts
    <2>2. After(chunk, first) =
        [parent |-> [n \in (DOMAIN parent \ Orphans(d)) \union d.new |->
                        IF n \in d.new THEN chunk[n].parent ELSE ParentsAfter(chunk, d)[n]],
         lists |-> [k \in Ids \X Places |->
                        CASE k[1] \in d.new -> chunk[k[1]].lists[k[2]]
                          [] k[1] \in Orphans(d) \ d.new -> <<>>
                          [] OTHER -> ListsAfter(chunk, d, first)[k]]]
        BY DEF After
    <2> HIDE DEF d
    <2>3. /\ d.new = {} /\ d.parentChanged = {} /\ Nodes(d.childAdded) = {}
          /\ Orphans(d) = {} /\ Taken(d) = {}
        BY <1>2, NothingFound
    <2>4. DOMAIN first = {}
        BY <2>1, <2>3 DEF Losers
    <2>5. ASSUME NEW n \in DOMAIN parent PROVE ParentsAfter(chunk, d)[n] = parent[n]
        BY <2>3 DEF ParentsAfter
    <2>6. [n \in (DOMAIN parent \ Orphans(d)) \union d.new |->
                IF n \in d.new THEN chunk[n].parent ELSE ParentsAfter(chunk, d)[n]] = parent
        <3>1. (DOMAIN parent \ Orphans(d)) \union d.new = DOMAIN parent
            BY <2>3
        <3>2. [n \in DOMAIN parent |->
                IF n \in d.new THEN chunk[n].parent ELSE ParentsAfter(chunk, d)[n]] = parent
            BY <2>3, <2>5 DEF IsTable
        <3> QED
            BY <3>1, <3>2
    <2>7. ASSUME NEW n \in Ids, NEW k \in Places
          PROVE  ListsAfter(chunk, d, first)[<<n, k>>] = lists[<<n, k>>]
        <3>1. CASE n \in DOMAIN chunk
            <4>1. n \in DOMAIN parent /\ chunk[n].lists[k] = lists[<<n, k>>]
                BY <3>1 DEF AsItIs
            <4> QED
                BY <1>2, <3>1, <4>1, ListsOfOld
        <3>2. CASE n \notin DOMAIN chunk
            <4>1. n \notin d.old
                BY <1>2, <3>2 DEF Tells
            <4> QED
                BY <2>4, <4>1 DEF ListsAfter
        <3> QED
            BY <3>1, <3>2
    <2>8. [k \in Ids \X Places |->
                CASE k[1] \in d.new -> chunk[k[1]].lists[k[2]]
                  [] k[1] \in Orphans(d) \ d.new -> <<>>
                  [] OTHER -> ListsAfter(chunk, d, first)[k]] = lists
        <3>1. \A k \in Ids \X Places :
                (CASE k[1] \in d.new -> chunk[k[1]].lists[k[2]]
                   [] k[1] \in Orphans(d) \ d.new -> <<>>
                   [] OTHER -> ListsAfter(chunk, d, first)[k]) = lists[k]
            BY <2>3, <2>7
        <3>2. lists = [k \in Ids \X Places |-> lists[k]]
            BY <1>1 DEF ListsType
        <3> QED
            BY <3>1, <3>2
    <2> QED
        BY <2>2, <2>6, <2>8
<1> QED
    BY <1>3, <1>4 DEF StoresNothing

\* What the nodes N list.
ListedBy(N) == UNION {Listed(lists, n) : n \in N}

\* reached[d] is what the lists name up to d levels below the nodes N.
IsReached(N, levels, reached) ==
    reached = [d \in 0..levels |-> IF d = 0 THEN N \intersect DOMAIN parent
                                   ELSE reached[d - 1] \union ListedBy(reached[d - 1])]

\* The recursive function of Reached exists.
LEMMA ReachedExists ==
    ASSUME NEW N, NEW levels \in Nat, Right(parent, lists)
    PROVE  \E reached : IsReached(N, levels, reached)
<1> DEFINE first == N \intersect DOMAIN parent
           step == [q \in (SUBSET Ids) \X (1..levels) |-> q[1] \union ListedBy(q[1])]
<1>1. \A L \in SUBSET Ids, d \in 1..levels : step[<<L, d>>] = L \union ListedBy(L)
    OBVIOUS
<1>2. first \in SUBSET Ids /\ \A L \in SUBSET Ids, d \in 1..levels : step[<<L, d>>] \in SUBSET Ids
    <2>1. \A n \in Ids : Listed(lists, n) \subseteq Ids
        BY ListedType DEF Right
    <2>2. first \in SUBSET Ids
        BY DEF Right, IsParents
    <2> HIDE DEF first
    <2> QED
        BY <2>1, <2>2 DEF ListedBy
<1> HIDE DEF first, step
<1>3. PICK f : IsIterated(first, step, levels, f)
    BY Iterated
<1>4. \A d \in 0..levels : f[d] = IF d = 0 THEN first ELSE step[<<f[d - 1], d>>]
    BY <1>3 DEF IsIterated
<1>5. f[0] \in SUBSET Ids
    <2>1. 0 \in 0..levels
        OBVIOUS
    <2> QED
        BY <1>2, <1>4, <2>1
<1>6. Steps(SUBSET Ids, levels, f)
    <2> SUFFICES ASSUME NEW d \in 1..levels, f[d - 1] \in SUBSET Ids PROVE f[d] \in SUBSET Ids
        BY DEF Steps
    <2>1. d \in 0..levels /\ d # 0
        OBVIOUS
    <2> QED
        BY <1>2, <1>4, <2>1
<1>7. \A d \in 0..levels : f[d] \in SUBSET Ids
    <2> DEFINE S == SUBSET Ids
    <2>1. f[0] \in S /\ Steps(S, levels, f)
        BY <1>5, <1>6
    <2> HIDE DEF S
    <2>2. \A d \in 0..levels : f[d] \in S
        BY <2>1, StaysIn
    <2> QED
        BY <2>2 DEF S
<1>8. ASSUME NEW d \in 0..levels, d # 0
      PROVE  step[<<f[d - 1], d>>] = f[d - 1] \union ListedBy(f[d - 1])
    <2>1. d - 1 \in 0..levels /\ d \in 1..levels
        BY <1>8
    <2> QED
        BY <1>1, <1>7, <2>1
<1>9. f = [d \in 0..levels |-> IF d = 0 THEN first ELSE step[<<f[d - 1], d>>]]
    BY <1>3 DEF IsIterated
<1>10. f = [d \in 0..levels |-> IF d = 0 THEN first ELSE f[d - 1] \union ListedBy(f[d - 1])]
    BY <1>8, <1>9
<1> QED
    BY <1>10 DEF IsReached, first

\* Reached, by that function.
LEMMA ReachedBy ==
    ASSUME NEW N, NEW levels \in Nat, Right(parent, lists)
    PROVE  \E reached : IsReached(N, levels, reached) /\ Reached(N, levels) = reached[levels]
<1> DEFINE reached == CHOOSE reached : IsReached(N, levels, reached)
<1>1. IsReached(N, levels, reached)
    BY ReachedExists
<1>2. Reached(N, levels) = reached[levels]
    BY DEF Reached, IsReached, ListedBy
<1> HIDE DEF reached
<1> QED
    BY <1>1, <1>2

\* What the queries find down to a depth is what the lists name.
LEMMA LevelsReach ==
    ASSUME NEW N, NEW limit \in Nat, NEW depth \in 0..limit, Right(parent, lists),
           NEW level, IsLevels(N, limit, level)
    PROVE  Reached(N, depth) = UNION {level[d] : d \in 0..depth}
<1>1. PICK reached : IsReached(N, depth, reached) /\ Reached(N, depth) = reached[depth]
    BY ReachedBy
<1>2. /\ level[0] = N \intersect DOMAIN parent
      /\ \A d \in 1..limit : level[d] = {m \in DOMAIN parent : parent[m] \in level[d - 1]}
    <2>1. Descends(N, limit, level)
        BY LevelsAre
    <2> QED
        BY <2>1 DEF Descends
<1>3. /\ reached[0] = N \intersect DOMAIN parent
      /\ \A d \in 1..depth : reached[d] = reached[d - 1] \union ListedBy(reached[d - 1])
    <2>1. 0 \in 0..depth
        OBVIOUS
    <2>2. \A d \in 0..depth : reached[d] = IF d = 0 THEN N \intersect DOMAIN parent
                                ELSE reached[d - 1] \union ListedBy(reached[d - 1])
        BY <1>1 DEF IsReached
    <2>3. reached[0] = N \intersect DOMAIN parent
        BY <2>1, <2>2
    <2>4. ASSUME NEW d \in 1..depth
          PROVE  reached[d] = reached[d - 1] \union ListedBy(reached[d - 1])
        <3>1. d \in 0..depth /\ d # 0
            OBVIOUS
        <3> QED
            BY <2>2, <3>1
    <2> QED
        BY <2>3, <2>4
<1>4. IsParents(parent) /\ lists \in ListsType /\ IsForest(parent, lists)
    BY DEF Right
<1>5. \A d \in 0..limit : level[d] \subseteq DOMAIN parent
    BY <1>2
<1> DEFINE Same(e) == \A x : x \in reached[e] <=> \E d \in 0..e : x \in level[d]
           T == {e \in Nat : e <= depth => Same(e)}
<1>6. 0 \in T
    BY <1>2, <1>3
<1>7. ASSUME NEW e \in T PROVE e + 1 \in T
    <2> SUFFICES ASSUME e + 1 <= depth PROVE Same(e + 1)
        OBVIOUS
    <2>1. e \in Nat /\ e \in 0..limit /\ e + 1 \in 1..limit /\ e + 1 \in 1..depth /\ (e + 1) - 1 = e
        OBVIOUS
    <2>2. Same(e)
        BY <2>1
    <2>3. reached[e + 1] = reached[e] \union ListedBy(reached[e])
        BY <1>3, <2>1
    <2>4. level[e + 1] = {m \in DOMAIN parent : parent[m] \in level[e]}
        BY <1>2, <2>1
    <2>5. ASSUME NEW x, x \in ListedBy(reached[e]) PROVE \E d \in 0..e + 1 : x \in level[d]
        <3>1. PICK n \in reached[e] : x \in Listed(lists, n)
            BY <2>5 DEF ListedBy
        <3>2. PICK d \in 0..e : n \in level[d]
            BY <2>2, <3>1
        <3>3. d \in 0..limit /\ d + 1 \in 1..limit /\ d + 1 \in 0..e + 1 /\ (d + 1) - 1 = d
            BY <2>1
        <3>4. n \in Ids
            BY <1>4, <1>5, <3>2, <3>3 DEF IsParents
        <3>5. x \in DOMAIN parent /\ parent[x] = n
            BY <1>4, <3>1, <3>4, ForestLists
        <3>6. x \in level[d + 1]
            BY <1>2, <3>2, <3>3, <3>5
        <3> QED
            BY <3>3, <3>6
    <2>6. ASSUME NEW x \in level[e + 1] PROVE x \in ListedBy(reached[e])
        <3>1. x \in DOMAIN parent /\ parent[x] \in level[e]
            BY <2>4
        <3>2. parent[x] # None
            BY <1>4, <1>5, <2>1, <3>1, IdsAssumption DEF IsParents
        <3>3. x \in Listed(lists, parent[x])
            BY <1>4, <3>1, <3>2, ForestParent
        <3>4. parent[x] \in reached[e]
            BY <2>1, <2>2, <3>1
        <3> QED
            BY <3>3, <3>4 DEF ListedBy
    <2>7. ASSUME NEW x, NEW d \in 0..e + 1, x \in level[d] PROVE x \in reached[e + 1]
        <3>1. CASE d = e + 1
            BY <2>3, <2>6, <2>7, <3>1
        <3>2. CASE d # e + 1
            <4>1. d \in 0..e
                BY <2>1, <3>2
            <4> QED
                BY <2>2, <2>3, <2>7, <4>1
        <3> QED
            BY <3>1, <3>2
    <2>8. ASSUME NEW x \in reached[e + 1] PROVE \E d \in 0..e + 1 : x \in level[d]
        <3>1. CASE x \in reached[e]
            <4>1. PICK d \in 0..e : x \in level[d]
                BY <2>2, <3>1
            <4>2. d \in 0..e + 1
                BY <2>1
            <4> QED
                BY <4>1, <4>2
        <3>2. CASE x \in ListedBy(reached[e])
            BY <2>5, <3>2
        <3> QED
            BY <2>3, <3>1, <3>2
    <2> QED
        BY <2>7, <2>8
<1>8. T \subseteq Nat
    OBVIOUS
<1> HIDE DEF T
<1>9. T = Nat
    BY <1>6, <1>7, <1>8, SetOfNaturals
<1>10. Same(depth)
    BY <1>9 DEF T
<1> QED
    BY <1>1, <1>10

\* The nodes of the rows down to a depth.
LEMMA RowsReach ==
    ASSUME NEW N, NEW limit \in Nat, NEW depth \in 0..limit, Right(parent, lists)
    PROVE  /\ {row[1] : row \in TreeRows(N, limit)} = Reached(N, limit)
           /\ {row[1] : row \in {r \in TreeRows(N, limit) : r[2] <= depth}} = Reached(N, depth)
<1>1. IsParents(parent)
    BY DEF Right
<1>2. PICK level : /\ IsLevels(N, limit, level)
                   /\ TreeRows(N, limit) = UNION {level[d] \X {d} : d \in 0..limit}
    BY <1>1, RowsByLevel
<1>3. limit \in 0..limit
    OBVIOUS
<1>4. /\ Reached(N, limit) = UNION {level[d] : d \in 0..limit}
      /\ Reached(N, depth) = UNION {level[d] : d \in 0..depth}
    <2>1. Reached(N, limit) = UNION {level[d] : d \in 0..limit}
        <3>1. IsLevels(N, limit, level)
            BY <1>2
        <3> QED
            BY <1>3, <3>1, LevelsReach
    <2>2. Reached(N, depth) = UNION {level[d] : d \in 0..depth}
        <3>1. IsLevels(N, limit, level) /\ depth \in 0..limit
            BY <1>2
        <3> QED
            BY <3>1, LevelsReach
    <2> QED
        BY <2>1, <2>2
<1> DEFINE R == TreeRows(N, limit)
<1>5. ASSUME NEW x, NEW d \in 0..limit, x \in level[d]
      PROVE  \E row \in R : row[1] = x /\ row[2] = d
    <2> DEFINE row == <<x, d>>
    <2>1. row[1] = x /\ row[2] = d /\ row \in level[d] \X {d}
        BY <1>5
    <2> HIDE DEF row
    <2>2. row \in R
        BY <1>2, <2>1
    <2> QED
        BY <2>1, <2>2
<1>6. ASSUME NEW row \in R PROVE \E d \in 0..limit : row[1] \in level[d] /\ row[2] = d
    BY <1>2
<1> HIDE DEF R
<1>7. {row[1] : row \in R} = UNION {level[d] : d \in 0..limit}
    <2>1. ASSUME NEW x \in {row[1] : row \in R} PROVE x \in UNION {level[d] : d \in 0..limit}
        BY <1>6
    <2>2. ASSUME NEW x \in UNION {level[d] : d \in 0..limit} PROVE x \in {row[1] : row \in R}
        <3>1. PICK d \in 0..limit : x \in level[d]
            OBVIOUS
        <3> QED
            BY <1>5, <3>1
    <2> QED
        BY <2>1, <2>2
<1>8. {row[1] : row \in {r \in R : r[2] <= depth}} = UNION {level[d] : d \in 0..depth}
    <2>1. ASSUME NEW x \in {row[1] : row \in {r \in R : r[2] <= depth}}
          PROVE  x \in UNION {level[d] : d \in 0..depth}
        <3>1. PICK row \in R : row[2] <= depth /\ x = row[1]
            BY <2>1
        <3>2. PICK d \in 0..limit : row[1] \in level[d] /\ row[2] = d
            BY <1>6
        <3>3. d \in 0..depth
            BY <3>1, <3>2
        <3> QED
            BY <3>1, <3>2, <3>3
    <2>2. ASSUME NEW x \in UNION {level[d] : d \in 0..depth}
          PROVE  x \in {row[1] : row \in {r \in R : r[2] <= depth}}
        <3>1. PICK d \in 0..depth : x \in level[d]
            OBVIOUS
        <3>2. d \in 0..limit /\ d <= depth
            OBVIOUS
        <3>3. PICK row \in R : row[1] = x /\ row[2] = d
            BY <1>5, <3>1, <3>2
        <3>4. row[2] <= depth
            BY <3>2, <3>3
        <3> QED
            BY <3>3, <3>4
    <2> QED
        BY <2>1, <2>2
<1> QED
    BY <1>4, <1>7, <1>8 DEF R

(***************************************************************************)
(* The requests.                                                           *)
(***************************************************************************)
\* The types of the tables.
AreTables(p, l, s) == IsTable(p) /\ IsParents(p) /\ l \in ListsType /\ s \in BOOLEAN

\* createPartitions leaves a forest.
LEMMA CreateKeeps ==
    ASSUME Right(parent, lists), createPartitions
    PROVE  AreTables(parent', lists', stray') /\ Right(parent', lists')
<1>1. PICK N \in SUBSET (Ids \ AnnotationIds) \ {{}} :
        /\ AllNew(N)
        /\ Becomes([n \in DOMAIN parent \union N |-> IF n \in N THEN None ELSE parent[n]], lists, FALSE)
    BY DEF createPartitions
<1> DEFINE p == [n \in DOMAIN parent \union N |-> IF n \in N THEN None ELSE parent[n]]
           S == Below(lists, Roots(p))
<1>2. parent' = p /\ lists' = lists /\ stray' = FALSE
    BY <1>1 DEF Becomes
<1>3. N \subseteq Ids /\ N \intersect DOMAIN parent = {}
    BY <1>1 DEF AllNew
<1>4. IsParents(parent) /\ lists \in ListsType /\ IsForest(parent, lists) /\ Placed(lists)
    BY DEF Right
<1>5. IsParents(p) /\ IsTable(p) /\ DOMAIN p = DOMAIN parent \union N
    BY <1>3, <1>4 DEF IsParents, IsTable
<1>6. \A n \in N : p[n] = None
    OBVIOUS
<1>7. \A n \in DOMAIN parent : p[n] = parent[n]
    BY <1>3
<1> HIDE DEF p
<1>8. Roots(p) = Roots(parent) \union N
    BY <1>5, <1>6, <1>7 DEF Roots
<1>9. ASSUME NEW n \in Ids, NEW x \in Listed(lists, n)
      PROVE  n \in DOMAIN parent /\ x \in DOMAIN parent /\ parent[x] = n
    BY <1>4, ForestLists
<1>10. Roots(p) \in SUBSET Ids /\ Roots(parent) \in SUBSET Ids
    BY <1>4, <1>5, RootsType
<1>11. S \subseteq DOMAIN p
    <2>1. Closed(lists, DOMAIN p)
        BY <1>5, <1>9 DEF Closed, IsParents
    <2>2. Roots(p) \subseteq DOMAIN p /\ DOMAIN p \in SUBSET Ids
        BY <1>5 DEF Roots, IsParents
    <2> QED
        BY <2>1, <2>2, BelowLeast
<1>12. DOMAIN p \subseteq S
    <2>1. Roots(p) \subseteq S /\ Closed(lists, S) /\ S \in SUBSET Ids
        BY <1>4, <1>10, BelowHas
    <2> HIDE DEF S
    <2>2. DOMAIN parent \subseteq S
        BY <1>4, <1>8, <2>1, ForestInduction
    <2> QED
        BY <1>5, <1>8, <2>1, <2>2
<1>13. ASSUME NEW n \in DOMAIN p \ Roots(p) PROVE ListsOnce(lists, p[n], n)
    <2>1. n \in DOMAIN parent \ Roots(parent) /\ p[n] = parent[n]
        BY <1>5, <1>7, <1>8
    <2> QED
        BY <1>4, <2>1 DEF IsForest
<1>14. IsForest(p, lists)
    BY <1>5, <1>7, <1>9, <1>11, <1>12, <1>13 DEF IsForest
<1> QED
    BY <1>2, <1>4, <1>5, <1>14 DEF Right, AreTables

\* deletePartitions leaves a forest: no list of a node that stays names one that goes.
LEMMA DeleteKeeps ==
    ASSUME Right(parent, lists), deletePartitions
    PROVE  AreTables(parent', lists', stray') /\ Right(parent', lists')
<1>1. PICK N \in SUBSET Ids \ {{}} :
        /\ AllPartitions(N)
        /\ Becomes(Restrict(parent, DOMAIN parent \ Subtree(N)),
                   [k \in Ids \X Places |-> IF k[1] \in Subtree(N) THEN <<>> ELSE lists[k]], FALSE)
    BY DEF deletePartitions
<1> DEFINE G == Subtree(N)
           p == [n \in DOMAIN parent \ G |-> parent[n]]
           l == [k \in Ids \X Places |-> IF k[1] \in G THEN <<>> ELSE lists[k]]
           S == Below(l, Roots(p))
<1>2. parent' = p /\ lists' = l /\ stray' = FALSE
    BY <1>1 DEF Becomes, Restrict
<1>3. IsParents(parent) /\ lists \in ListsType /\ IsForest(parent, lists) /\ Placed(lists)
    BY DEF Right
<1>4. \A x \in N : x \in DOMAIN parent => parent[x] = None
    BY <1>1 DEF AllPartitions, Roots
<1>5. /\ G \subseteq DOMAIN parent
      /\ \A x \in G : x \in N \/ parent[x] \in G
      /\ \A x \in DOMAIN parent : parent[x] \in G => x \in G
    BY <1>3, SubtreeHas, SubtreeCloses
<1>6. DOMAIN p = DOMAIN parent \ G /\ \A n \in DOMAIN parent \ G : p[n] = parent[n]
    OBVIOUS
<1>7. IsParents(p) /\ IsTable(p)
    BY <1>3 DEF IsParents, IsTable
<1>8. l \in ListsType
    <2>1. \A k \in Ids \X Places : lists[k] \in Seq(Ids)
        BY <1>3 DEF ListsType
    <2>2. <<>> \in Seq(Ids)
        OBVIOUS
    <2> QED
        BY <2>1, <2>2 DEF ListsType
<1>9. ASSUME NEW n \in Ids, n \in G, NEW x PROVE x \notin Listed(l, n)
    <2>1. \A k \in Places : l[<<n, k>>] = <<>>
        BY <1>9
    <2>2. ToSet(<<>>) = {}
        BY DEF ToSet
    <2> QED
        BY <2>1, <2>2, ListedMeans DEF Lists
<1>10. ASSUME NEW n \in Ids, n \notin G, NEW k \in Places PROVE l[<<n, k>>] = lists[<<n, k>>]
    BY <1>10
<1> HIDE DEF p, l, G
<1>11. ASSUME NEW n \in Ids, n \notin G PROVE Listed(l, n) = Listed(lists, n)
    BY <1>10, <1>11 DEF Listed
<1>12. ASSUME NEW n \in Ids, NEW x \in Listed(lists, n)
       PROVE  n \in DOMAIN parent /\ x \in DOMAIN parent /\ parent[x] = n
    BY <1>3, ForestLists
<1>13. ASSUME NEW n \in Ids, NEW x \in Ids, x \in Listed(l, n)
       PROVE  n \in DOMAIN p /\ x \in DOMAIN p /\ p[x] = n
    <2>1. n \notin G /\ x \in Listed(lists, n)
        BY <1>9, <1>11, <1>13
    <2>2. n \in DOMAIN parent /\ x \in DOMAIN parent /\ parent[x] = n
        BY <1>12, <2>1
    <2>3. x \notin G
        BY <1>4, <1>5, <2>1, <2>2, IdsAssumption
    <2> QED
        BY <1>6, <2>1, <2>2, <2>3
<1>14. Roots(p) \in SUBSET Ids /\ Roots(p) = Roots(parent) \ G
    BY <1>6, <1>7, RootsType DEF Roots
<1>15. S \subseteq DOMAIN p
    <2>1. \A n \in Ids : Listed(l, n) \subseteq Ids
        BY <1>8, ListedType
    <2>2. DOMAIN p \in SUBSET Ids
        BY <1>7 DEF IsParents
    <2>3. Closed(l, DOMAIN p)
        BY <1>13, <2>1, <2>2 DEF Closed
    <2>4. Roots(p) \subseteq DOMAIN p
        BY DEF Roots
    <2> QED
        BY <2>2, <2>3, <2>4, BelowLeast
<1>16. DOMAIN p \subseteq S
    <2>1. Roots(p) \subseteq S /\ Closed(l, S) /\ S \in SUBSET Ids
        BY <1>8, <1>14, BelowHas
    <2> HIDE DEF S
    <2> DEFINE D == {x \in DOMAIN parent : x \in G \/ x \in S}
    <2>2. Roots(parent) \subseteq D
        BY <1>14, <2>1 DEF Roots
    <2>3. Closed(lists, D)
        <3> SUFFICES ASSUME NEW y \in D, NEW x \in Listed(lists, y) PROVE x \in D
            BY DEF Closed
        <3>1. y \in Ids
            BY <1>3 DEF IsParents
        <3>2. x \in DOMAIN parent /\ parent[x] = y
            BY <1>12, <3>1
        <3>3. CASE y \in G
            BY <1>5, <3>2, <3>3
        <3>4. CASE y \notin G
            <4>1. x \in Listed(l, y) /\ y \in S
                BY <1>11, <3>1, <3>4
            <4> QED
                BY <2>1, <3>2, <4>1 DEF Closed
        <3> QED
            BY <3>3, <3>4
    <2>4. D \in SUBSET Ids
        BY <1>3 DEF IsParents
    <2> HIDE DEF D
    <2>5. DOMAIN parent \subseteq D
        BY <1>3, <2>2, <2>3, <2>4, ForestInduction
    <2> QED
        BY <1>6, <2>5 DEF D
<1>17. ASSUME NEW n \in DOMAIN p \ Roots(p) PROVE ListsOnce(l, p[n], n)
    <2>1. n \in DOMAIN parent \ Roots(parent) /\ n \notin G /\ p[n] = parent[n]
        BY <1>6, <1>14
    <2>2. parent[n] \notin G /\ parent[n] \in Ids
        BY <1>3, <1>5, <2>1 DEF IsParents, Roots
    <2>3. ListsOnce(lists, parent[n], n)
        BY <1>3, <2>1 DEF IsForest
    <2>4. \A k \in Places : l[<<parent[n], k>>] = lists[<<parent[n], k>>]
        BY <1>10, <2>2
    <2> QED
        BY <2>1, <2>3, <2>4 DEF ListsOnce
<1>18. IsForest(p, l)
    BY <1>13, <1>15, <1>16, <1>17 DEF IsForest
<1>19. Placed(l)
    <2> SUFFICES ASSUME NEW n \in Ids, NEW k \in Places, NEW x \in Ids, Lists(l, n, k, x)
                 PROVE  k \in PlacesFor(x)
        BY DEF Placed
    <2>1. n \notin G
        BY <1>9, ListedMeans
    <2>2. Lists(lists, n, k, x)
        BY <1>10, <2>1 DEF Lists
    <2> QED
        BY <1>3, <2>2 DEF Placed
<1> QED
    BY <1>2, <1>7, <1>8, <1>18, <1>19 DEF Right, AreTables

\* store writes parents of the right type.
LEMMA ParentsAfterType ==
    ASSUME NEW chunk, NEW d, IsChunk(chunk), IsParents(parent), Tells(chunk, d),
           NEW n \in DOMAIN parent
    PROVE  ParentsAfter(chunk, d)[n] \in Ids \union {None}
<1>1. CASE n \in d.parentChanged
    <2>1. ParentsAfter(chunk, d)[n] = chunk[n].parent
        BY <1>1 DEF ParentsAfter
    <2>2. n \in DOMAIN chunk
        BY <1>1 DEF Tells
    <2> QED
        BY <2>1, <2>2 DEF IsChunk
<1>2. CASE n \notin d.parentChanged /\ n \in Nodes(d.childAdded)
    <2> DEFINE first == CHOOSE pair \in d.childAdded : pair[2] = n
    <2>1. first \in d.childAdded
        BY <1>2 DEF Nodes
    <2>2. ParentsAfter(chunk, d)[n] = first[1]
        BY <1>2 DEF ParentsAfter
    <2> HIDE DEF first
    <2>3. first[1] \in DOMAIN parent
        BY <2>1 DEF Tells, Gains
    <2> QED
        BY <2>2, <2>3 DEF IsParents
<1>3. CASE n \notin d.parentChanged /\ n \notin Nodes(d.childAdded)
    <2>1. ParentsAfter(chunk, d)[n] = parent[n]
        BY <1>3 DEF ParentsAfter
    <2> QED
        BY <2>1 DEF IsParents
<1> QED
    BY <1>1, <1>2, <1>3

\* The lists of a chunk are sequences of ids.
LEMMA ChunkLists ==
    ASSUME NEW chunk, IsChunk(chunk), NEW n \in DOMAIN chunk, NEW k \in Places
    PROVE  chunk[n].lists[k] \in Seq(Ids)
BY DEF IsChunk

\* store writes lists of the right type.
LEMMA ListsAfterType ==
    ASSUME NEW chunk, NEW d, IsChunk(chunk), lists \in ListsType, Tells(chunk, d), NEW first,
           NEW n \in Ids, NEW k \in Places
    PROVE  ListsAfter(chunk, d, first)[<<n, k>>] \in Seq(Ids)
<1>1. lists[<<n, k>>] \in Seq(Ids)
    BY DEF ListsType
<1>2. CASE n \in d.old
    <2>1. n \in DOMAIN chunk /\ n \in DOMAIN parent
        BY <1>2 DEF Tells
    <2>2. ListsAfter(chunk, d, first)[<<n, k>>] = chunk[n].lists[k]
        BY <2>1, ListsOfOld
    <2> QED
        BY <2>1, <2>2, ChunkLists
<1>3. CASE n \notin d.old /\ <<n, k>> \in DOMAIN first
    <2>1. ListsAfter(chunk, d, first)[<<n, k>>] = Filtered(lists[<<n, k>>], Ids \ {first[<<n, k>>]})
        BY <1>3 DEF ListsAfter
    <2> QED
        BY <1>1, <2>1, FilteredItems
<1>4. CASE n \notin d.old /\ <<n, k>> \notin DOMAIN first
    <2>1. ListsAfter(chunk, d, first)[<<n, k>>] = lists[<<n, k>>]
        BY <1>4 DEF ListsAfter
    <2> QED
        BY <1>1, <2>1
<1> QED
    BY <1>2, <1>3, <1>4

\* So the tables after store have their types, whatever the chunk says.
LEMMA AfterType ==
    ASSUME NEW chunk, IsChunk(chunk), IsParents(parent), lists \in ListsType, NEW first
    PROVE  /\ IsTable(After(chunk, first).parent)
           /\ IsParents(After(chunk, first).parent)
           /\ After(chunk, first).lists \in ListsType
<1> DEFINE d == Diff(chunk)
           D == (DOMAIN parent \ Orphans(d)) \union d.new
           p == [n \in D |-> IF n \in d.new THEN chunk[n].parent ELSE ParentsAfter(chunk, d)[n]]
           after(k) == CASE k[1] \in d.new -> chunk[k[1]].lists[k[2]]
                         [] k[1] \in Orphans(d) \ d.new -> <<>>
                         [] OTHER -> ListsAfter(chunk, d, first)[k]
           l == [k \in Ids \X Places |-> after(k)]
<1>1. After(chunk, first) = [parent |-> p, lists |-> l]
    BY DEF After
<1>2. Tells(chunk, d)
    BY DiffTells
<1> HIDE DEF d
<1>3. d.new \subseteq DOMAIN chunk /\ DOMAIN chunk \subseteq Ids
    BY <1>2 DEF Tells, IsChunk
<1>4. DOMAIN p = D /\ D \subseteq Ids
    BY <1>3 DEF IsParents
<1>5. ASSUME NEW n \in D PROVE p[n] \in Ids \union {None}
    <2>1. CASE n \in d.new
        BY <1>3, <2>1 DEF IsChunk
    <2>2. CASE n \notin d.new
        BY <1>2, <2>2, ParentsAfterType
    <2> QED
        BY <2>1, <2>2
<1>6. IsTable(p) /\ IsParents(p)
    <2>1. IsTable(p)
        BY DEF IsTable
    <2> HIDE DEF p
    <2> QED
        BY <1>4, <1>5, <2>1 DEF IsParents
<1>7. ASSUME NEW n \in Ids, NEW k \in Places PROVE after(<<n, k>>) \in Seq(Ids)
    <2>1. CASE n \in d.new
        <3>1. after(<<n, k>>) = chunk[n].lists[k]
            BY <2>1
        <3> QED
            BY <1>3, <2>1, <3>1, ChunkLists
    <2>2. CASE n \notin d.new /\ n \in Orphans(d)
        <3>1. after(<<n, k>>) = <<>>
            BY <2>2
        <3>2. <<>> \in Seq(Ids)
            OBVIOUS
        <3> HIDE DEF after
        <3> QED
            BY <3>1, <3>2
    <2>3. CASE n \notin d.new /\ n \notin Orphans(d)
        <3>1. after(<<n, k>>) = ListsAfter(chunk, d, first)[<<n, k>>]
            BY <2>3
        <3> QED
            BY <1>2, <3>1, ListsAfterType
    <2> QED
        BY <2>1, <2>2, <2>3
<1> HIDE DEF after
<1>8. l \in ListsType
    BY <1>7 DEF ListsType
<1> QED
    BY <1>1, <1>6, <1>8

\* store leaves a forest, when the chunk is coherent and not mistreated.
LEMMA StoreKeeps ==
    ASSUME Right(parent, lists), store
    PROVE  AreTables(parent', lists', stray') /\ (~stray' => Right(parent', lists'))
<1>0. PICK chunk \in Chunks : \E first \in Firsts(chunk) :
        Becomes(After(chunk, first).parent, After(chunk, first).lists,
                ~Coherent(chunk) \/ Mistreated(chunk))
    BY DEF store
<1>1. PICK first \in Firsts(chunk) :
        Becomes(After(chunk, first).parent, After(chunk, first).lists,
                ~Coherent(chunk) \/ Mistreated(chunk))
    BY <1>0
<1>2. /\ parent' = After(chunk, first).parent
      /\ lists' = After(chunk, first).lists
      /\ stray' = (~Coherent(chunk) \/ Mistreated(chunk))
    BY <1>1 DEF Becomes
<1>3. IsChunk(chunk)
    BY ChunksAre
<1>4. AreTables(parent', lists', stray')
    BY <1>2, <1>3, AfterType DEF AreTables, Right
<1>5. ASSUME ~stray' PROVE Right(parent', lists')
    <2>1. Coherent(chunk) /\ ~Mistreated(chunk)
        BY <1>2, <1>5
    <2>2. After(chunk, first) = Merged(chunk)
        BY <1>3, <2>1, AfterIsMerged
    <2>3. Right(Merged(chunk).parent, Merged(chunk).lists)
        BY <1>3, <2>1, MergedIsRight
    <2> QED
        BY <1>2, <2>2, <2>3
<1> QED
    BY <1>4, <1>5

\* Every request leaves a forest, or is a stray one.
LEMMA RequestKeeps ==
    ASSUME AreTables(parent, lists, stray), ~stray => Right(parent, lists), Next
    PROVE  AreTables(parent', lists', stray') /\ (~stray' => Right(parent', lists'))
BY CreateKeeps, DeleteKeeps, StoreKeeps DEF Next

(***************************************************************************)
(* The invariant of requests and imports.                                  *)
(***************************************************************************)
LEMMA ForestRoots ==
    ASSUME NEW f \in Forests
    PROVE  \A x \in Roots(f.parent) : x \notin AnnotationIds
<1>1. PICK N \in SUBSET Ids : f \in ForestsOf(N)
    BY DEF Forests
<1> DEFINE homes == [N -> {<<None, None>>} \union (N \X Places)]
           at == {h \in homes : \A x \in N :
                   h[x][1] # x /\ IF h[x][1] = None THEN x \notin AnnotationIds
                                  ELSE h[x][2] \in PlacesFor(x)}
           forest(h, s) == [parent |-> [x \in N |-> h[x][1]],
                            lists |-> [k \in Ids \X Places |-> Filtered(s, {x \in N : h[x] = k})]]
<1>2. f \in UNION {{forest(h, s) : s \in SetToSeqs(N)} : h \in at}
    BY <1>1 DEF ForestsOf
<1> HIDE DEF at, forest
<1>3. PICK h \in at : f \in {forest(h, s) : s \in SetToSeqs(N)}
    BY <1>2
<1>4. PICK s \in SetToSeqs(N) : f = forest(h, s)
    BY <1>3
<1>5. f.parent = [x \in N |-> h[x][1]]
    BY <1>4 DEF forest
<1>6. \A x \in N : h[x][1] = None => x \notin AnnotationIds
    BY <1>3 DEF at
<1> QED
    BY <1>5, <1>6 DEF Roots

\* The rows of an import are a forest of trees, some of whose roots get a container
\* outside of it as their parent.
Grafted(p, l, rows, attach) ==
    /\ DOMAIN rows = DOMAIN p
    /\ \A n \in DOMAIN rows, k \in Places : rows[n].lists[k] = l[<<n, k>>]
    /\ DOMAIN attach \subseteq Roots(p)
    /\ \A n \in DOMAIN attach : attach[n] \in (Ids \ DOMAIN rows) \X Containments
    /\ \A n \in DOMAIN rows : rows[n].parent = IF n \in DOMAIN attach THEN attach[n][1] ELSE p[n]

IsImport(imp) ==
    /\ imp = [next |-> imp.next, rows |-> imp.rows, attach |-> imp.attach, left |-> imp.left]
    /\ \E f \in Forests : Grafted(f.parent, f.lists, imp.rows, imp.attach)
    /\ imp.left \subseteq DOMAIN imp.attach

\* The nodes that were there, when those of the import are copied and their
\* containments are not.
OldParents == [n \in DOMAIN parent \ DOMAIN import.rows |-> parent[n]]
OldLists == [k \in Ids \X Places |-> IF k[1] \in DOMAIN import.rows THEN <<>> ELSE lists[k]]

\* A forest, but for some nodes that are no roots and that no list names yet.
PartialForest(p, l, left) ==
    /\ left \subseteq DOMAIN p \ Roots(p)
    /\ Below(l, Roots(p) \union left) = DOMAIN p
    /\ \A n \in Ids, x \in Ids : x \in Listed(l, n) =>
            n \in DOMAIN p /\ x \in DOMAIN p /\ p[x] = n /\ x \notin left
    /\ \A n \in DOMAIN p \ (Roots(p) \union left) : ListsOnce(l, p[n], n)

\* It gets a forest when each of these nodes is added to a list of its parent, which
\* is not below one of them.
Graftable(p, l, left, rows, attach) ==
    /\ Placed(l) /\ PartialForest(p, l, left)
    /\ DOMAIN p \ DOMAIN rows \subseteq Below(l, Roots(p))
    /\ \A n \in left : p[n] = attach[n][1] /\ n \notin AnnotationIds

Started ==
    /\ IsImport(import) /\ import.next = "nodes" /\ import.left = DOMAIN import.attach
    /\ ~stray /\ Right(parent, lists)

HalfCopied ==
    /\ IsImport(import) /\ import.next = "containments" /\ import.left = DOMAIN import.attach
    /\ ~stray /\ Right(OldParents, OldLists)
    /\ DOMAIN import.rows \subseteq DOMAIN parent
    /\ \A n \in DOMAIN import.rows :
        /\ parent[n] = import.rows[n].parent
        /\ lists[<<n, Annotations>>] = import.rows[n].lists[Annotations]

Attaching ==
    /\ IsImport(import) /\ import.next = "attach"
    /\ DOMAIN import.rows \subseteq DOMAIN parent
    /\ ~stray => Graftable(parent, lists, import.left, import.rows, import.attach)

ImportInv ==
    /\ AreTables(parent, lists, stray)
    /\ \/ import = Idle /\ (~stray => Right(parent, lists))
       \/ Started \/ HalfCopied \/ Attaching

\* Which of the cases it is shows the next step of the import.
LEMMA NextTells ==
    ASSUME ImportInv
    PROVE  /\ import = Idle \/ import.next \in {"nodes", "containments", "attach"}
           /\ import = Idle => import.next = "idle" /\ (~stray => Right(parent, lists))
           /\ import.next = "nodes" => Started
           /\ import.next = "containments" => HalfCopied
           /\ import.next = "attach" => Attaching
<1>1. Idle.next = "idle"
    BY DEF Idle
<1>2. import = Idle => import.next = "idle"
    BY <1>1
<1>3. (import = Idle /\ (~stray => Right(parent, lists))) \/ Started \/ HalfCopied \/ Attaching
    BY DEF ImportInv
<1>4. /\ Started => import.next = "nodes"
      /\ HalfCopied => import.next = "containments"
      /\ Attaching => import.next = "attach"
    BY DEF Started, HalfCopied, Attaching
<1> QED
    BY <1>2, <1>3, <1>4

\* What is known of the rows of an import.
LEMMA GraftedFacts ==
    ASSUME NEW f \in Forests, NEW rows, NEW attach, Grafted(f.parent, f.lists, rows, attach)
    PROVE  /\ Right(f.parent, f.lists)
           /\ DOMAIN rows = DOMAIN f.parent /\ DOMAIN rows \subseteq Ids
           /\ \A n \in DOMAIN rows : rows[n].parent \in Ids \union {None}
           /\ \A n \in DOMAIN rows, k \in Places : rows[n].lists[k] \in Seq(Ids)
           /\ \A n \in DOMAIN attach :
                /\ n \in DOMAIN rows /\ n \notin AnnotationIds /\ f.parent[n] = None
                /\ attach[n][1] \in Ids \ DOMAIN rows /\ attach[n][2] \in Containments
                /\ attach[n] \in Ids \X Places /\ attach[n] = <<attach[n][1], attach[n][2]>>
                /\ rows[n].parent = attach[n][1]
           /\ \A n \in DOMAIN rows \ DOMAIN attach : rows[n].parent = f.parent[n]
<1> DEFINE p == f.parent
           l == f.lists
<1>1. Right(p, l)
    BY ForestsAre
<1>2. \A x \in Roots(p) : x \notin AnnotationIds
    BY ForestRoots
<1>3. Grafted(p, l, rows, attach)
    OBVIOUS
<1> HIDE DEF p, l
<1>4. DOMAIN rows = DOMAIN p /\ DOMAIN rows \subseteq Ids
    BY <1>1, <1>3 DEF Grafted, Right, IsParents
<1>5. ASSUME NEW n \in DOMAIN attach
      PROVE  /\ n \in DOMAIN rows /\ n \notin AnnotationIds /\ p[n] = None
             /\ attach[n][1] \in Ids \ DOMAIN rows /\ attach[n][2] \in Containments
             /\ attach[n] \in Ids \X Places /\ attach[n] = <<attach[n][1], attach[n][2]>>
             /\ rows[n].parent = attach[n][1]
    <2>1. n \in Roots(p) /\ attach[n] \in (Ids \ DOMAIN rows) \X Containments
        BY <1>3 DEF Grafted
    <2>2. n \in DOMAIN rows /\ n \notin AnnotationIds /\ p[n] = None
        BY <1>2, <1>4, <2>1 DEF Roots
    <2>3. rows[n].parent = attach[n][1]
        BY <1>3, <2>2 DEF Grafted
    <2>4. /\ attach[n][1] \in Ids \ DOMAIN rows /\ attach[n][2] \in Containments
          /\ attach[n] \in Ids \X Places /\ attach[n] = <<attach[n][1], attach[n][2]>>
        BY <2>1 DEF Places
    <2> QED
        BY <2>2, <2>3, <2>4
<1>6. ASSUME NEW n \in DOMAIN rows, n \notin DOMAIN attach PROVE rows[n].parent = p[n]
    BY <1>3, <1>6 DEF Grafted
<1>7. \A n \in DOMAIN rows : rows[n].parent \in Ids \union {None}
    <2> SUFFICES ASSUME NEW n \in DOMAIN rows PROVE rows[n].parent \in Ids \union {None}
        OBVIOUS
    <2>1. CASE n \in DOMAIN attach
        BY <1>5, <2>1
    <2>2. CASE n \notin DOMAIN attach
        BY <1>1, <1>4, <1>6, <2>2 DEF Right, IsParents
    <2> QED
        BY <2>1, <2>2
<1>8. ASSUME NEW n \in DOMAIN rows, NEW k \in Places PROVE rows[n].lists[k] \in Seq(Ids)
    <2>1. rows[n].lists[k] = l[<<n, k>>]
        BY <1>3 DEF Grafted
    <2>2. l[<<n, k>>] \in Seq(Ids)
        BY <1>1, <1>4 DEF Right, ListsType
    <2> QED
        BY <2>1, <2>2
<1>9. /\ Right(p, l)
      /\ DOMAIN rows = DOMAIN p /\ DOMAIN rows \subseteq Ids
      /\ \A n \in DOMAIN rows : rows[n].parent \in Ids \union {None}
      /\ \A n \in DOMAIN rows, k \in Places : rows[n].lists[k] \in Seq(Ids)
      /\ \A n \in DOMAIN attach :
            /\ n \in DOMAIN rows /\ n \notin AnnotationIds /\ p[n] = None
            /\ attach[n][1] \in Ids \ DOMAIN rows /\ attach[n][2] \in Containments
            /\ attach[n] \in Ids \X Places /\ attach[n] = <<attach[n][1], attach[n][2]>>
            /\ rows[n].parent = attach[n][1]
      /\ \A n \in DOMAIN rows \ DOMAIN attach : rows[n].parent = p[n]
    BY <1>1, <1>4, <1>5, <1>6, <1>7, <1>8
<1> QED
    BY <1>9 DEF p, l

\* The record of an import after a step.
Later(imp, next) == [imp EXCEPT !.next = next]
Without(imp, n) == [imp EXCEPT !.left = @ \ {n}]

\* An import at its next step.
LEMMA LaterIs ==
    ASSUME NEW imp, IsImport(imp), NEW next
    PROVE  /\ IsImport(Later(imp, next)) /\ Later(imp, next).next = next
           /\ Later(imp, next).rows = imp.rows /\ Later(imp, next).attach = imp.attach
           /\ Later(imp, next).left = imp.left
<1> DEFINE j == Later(imp, next)
<1>1. imp = [next |-> imp.next, rows |-> imp.rows, attach |-> imp.attach, left |-> imp.left]
    BY DEF IsImport
<1>2. j = [next |-> next, rows |-> imp.rows, attach |-> imp.attach, left |-> imp.left]
    BY <1>1 DEF Later
<1> HIDE DEF j
<1>3. j.next = next /\ j.rows = imp.rows /\ j.attach = imp.attach /\ j.left = imp.left
    BY <1>2
<1>4. IsImport(j)
    BY <1>2, <1>3 DEF IsImport
<1> QED
    BY <1>3, <1>4 DEF j

\* An import with a root that need no longer be attached.
LEMMA WithoutIs ==
    ASSUME NEW imp, IsImport(imp), NEW n
    PROVE  /\ IsImport(Without(imp, n)) /\ Without(imp, n).next = imp.next
           /\ Without(imp, n).rows = imp.rows /\ Without(imp, n).attach = imp.attach
           /\ Without(imp, n).left = imp.left \ {n}
<1> DEFINE j == Without(imp, n)
<1>1. imp = [next |-> imp.next, rows |-> imp.rows, attach |-> imp.attach, left |-> imp.left]
    BY DEF IsImport
<1>2. j = [next |-> imp.next, rows |-> imp.rows, attach |-> imp.attach, left |-> imp.left \ {n}]
    BY <1>1 DEF Without
<1> HIDE DEF j
<1>3. j.next = imp.next /\ j.rows = imp.rows /\ j.attach = imp.attach /\ j.left = imp.left \ {n}
    BY <1>2
<1>4. IsImport(j)
    BY <1>2, <1>3 DEF IsImport
<1> QED
    BY <1>3, <1>4 DEF j

(***************************************************************************)
(* The start of an import.                                                 *)
(***************************************************************************)
IsWhole(chunk, f) == chunk = Part(f, DOMAIN f.parent)

\* The rows of an import are a grafted forest.
LEMMA ImportsAre ==
    ASSUME NEW f \in Forests, NEW chunk, IsWhole(chunk, f),
           NEW attach \in AttachPoints(chunk)
    PROVE  Grafted(f.parent, f.lists, AttachedRows(chunk, attach), attach)
<1> DEFINE rows == AttachedRows(chunk, attach)
<1>1. PICK roots \in SUBSET {n \in DOMAIN chunk : chunk[n].parent = None} :
        attach \in [roots -> (Ids \ DOMAIN chunk) \X Containments]
    BY DEF AttachPoints
<1>2. DOMAIN chunk = DOMAIN f.parent
    BY DEF Part, IsWhole
<1>3. ASSUME NEW n \in DOMAIN chunk
      PROVE  chunk[n] = [parent |-> f.parent[n], lists |-> [k \in Places |-> f.lists[<<n, k>>]]]
    BY DEF Part, IsWhole
<1> HIDE DEF rows
<1>4. DOMAIN rows = DOMAIN chunk
    BY DEF rows, AttachedRows
<1>5. ASSUME NEW n \in DOMAIN chunk
      PROVE  /\ rows[n].parent = IF n \in DOMAIN attach THEN attach[n][1] ELSE f.parent[n]
             /\ \A k \in Places : rows[n].lists[k] = f.lists[<<n, k>>]
    <2> DEFINE r == chunk[n]
    <2>1. rows[n] = IF n \in DOMAIN attach THEN [r EXCEPT !.parent = attach[n][1]] ELSE r
        BY DEF rows, AttachedRows
    <2>2. r = [parent |-> f.parent[n], lists |-> [k \in Places |-> f.lists[<<n, k>>]]]
        BY <1>3
    <2> HIDE DEF r
    <2>3. CASE n \in DOMAIN attach
        <3>1. rows[n] = [parent |-> attach[n][1], lists |-> [k \in Places |-> f.lists[<<n, k>>]]]
            BY <2>1, <2>2, <2>3
        <3> QED
            BY <2>3, <3>1
    <2>4. CASE n \notin DOMAIN attach
        BY <2>1, <2>2, <2>4
    <2> QED
        BY <2>3, <2>4
<1>6. DOMAIN attach \subseteq Roots(f.parent)
    <2> SUFFICES ASSUME NEW n \in DOMAIN attach PROVE n \in Roots(f.parent)
        OBVIOUS
    <2>1. n \in DOMAIN chunk /\ chunk[n].parent = None
        BY <1>1
    <2>2. chunk[n].parent = f.parent[n]
        BY <1>3, <2>1
    <2> QED
        BY <1>2, <2>1, <2>2 DEF Roots
<1>7. \A n \in DOMAIN attach : attach[n] \in (Ids \ DOMAIN rows) \X Containments
    BY <1>1, <1>4
<1>8. Grafted(f.parent, f.lists, rows, attach)
    BY <1>2, <1>4, <1>5, <1>6, <1>7 DEF Grafted
<1> QED
    BY <1>8 DEF rows

\* An import starts on a forest.
LEMMA BulkImportKeeps ==
    ASSUME ImportInv, ~stray, bulkImport
    PROVE  ImportInv'
<1>0. PICK chunk \in Imports : \E attach \in AttachPoints(chunk) :
        /\ import = Idle
        /\ import' = [next |-> "nodes", rows |-> AttachedRows(chunk, attach),
                      attach |-> attach, left |-> DOMAIN attach]
        /\ UNCHANGED vars
    BY DEF bulkImport
<1>1. PICK attach \in AttachPoints(chunk) :
        /\ import = Idle
        /\ import' = [next |-> "nodes", rows |-> AttachedRows(chunk, attach),
                      attach |-> attach, left |-> DOMAIN attach]
        /\ UNCHANGED vars
    BY <1>0
<1>2. PICK f \in Forests : chunk = Part(f, DOMAIN f.parent)
    BY DEF Imports
<1>3. Grafted(f.parent, f.lists, AttachedRows(chunk, attach), attach)
    BY <1>2, ImportsAre DEF IsWhole
<1>4. /\ import'.next = "nodes" /\ import'.rows = AttachedRows(chunk, attach)
      /\ import'.attach = attach /\ import'.left = DOMAIN attach
      /\ import' = [next |-> import'.next, rows |-> import'.rows,
                    attach |-> import'.attach, left |-> import'.left]
    BY <1>1
<1>5. IsImport(import')
    BY <1>3, <1>4 DEF IsImport
<1>6. parent' = parent /\ lists' = lists /\ stray' = stray
    BY <1>1 DEF vars
<1>7. Right(parent, lists)
    BY <1>1, NextTells
<1>8. Started'
    BY <1>4, <1>5, <1>6, <1>7 DEF Started
<1> QED
    BY <1>6, <1>8 DEF ImportInv

(***************************************************************************)
(* Copying the rows.                                                       *)
(***************************************************************************)
LEMMA CopyNodesKeeps ==
    ASSUME ImportInv, CopyNodes
    PROVE  ImportInv'
<1> DEFINE rows == import.rows
<1>1. /\ import.next = "nodes" /\ DOMAIN rows \intersect DOMAIN parent = {}
      /\ parent' = NodeRows /\ lists' = AnnotationColumn /\ import' = Later(import, "containments")
      /\ stray' = stray
    BY DEF CopyNodes, Rows, Later
<1>2. Started
    BY <1>1, NextTells
<1>3. IsImport(import) /\ import.left = DOMAIN import.attach /\ ~stray /\ Right(parent, lists)
    BY <1>2 DEF Started
<1>4. IsTable(parent) /\ IsParents(parent) /\ lists \in ListsType /\ stray \in BOOLEAN
    BY DEF ImportInv, AreTables
<1>5. /\ IsImport(import') /\ import'.next = "containments" /\ import'.rows = rows
      /\ import'.attach = import.attach /\ import'.left = import.left
    BY <1>1, <1>3, LaterIs
<1>6. PICK f \in Forests : Grafted(f.parent, f.lists, rows, import.attach)
    BY <1>3 DEF IsImport
<1>7. /\ DOMAIN rows \subseteq Ids
      /\ \A n \in DOMAIN rows : rows[n].parent \in Ids \union {None}
      /\ \A n \in DOMAIN rows, k \in Places : rows[n].lists[k] \in Seq(Ids)
    BY <1>6, GraftedFacts
<1> HIDE DEF rows
<1>8. parent' = [n \in DOMAIN parent \union DOMAIN rows |->
                    IF n \in DOMAIN rows THEN rows[n].parent ELSE parent[n]]
    BY <1>1 DEF NodeRows, Rows, rows
<1>9. lists' = [k \in Ids \X Places |->
                    IF k[1] \in DOMAIN rows /\ k[2] = Annotations
                    THEN rows[k[1]].lists[k[2]] ELSE lists[k]]
    BY <1>1 DEF AnnotationColumn, Rows, rows
<1>10. DOMAIN parent' = DOMAIN parent \union DOMAIN rows
    BY <1>8
<1>11. \A n \in DOMAIN rows : parent'[n] = rows[n].parent
    BY <1>8
<1>12. \A n \in DOMAIN parent : parent'[n] = parent[n]
    BY <1>1, <1>8
<1>13. IsTable(parent')
    BY <1>8, <1>10 DEF IsTable
<1>14. IsParents(parent')
    BY <1>4, <1>7, <1>10, <1>11, <1>12 DEF IsParents
<1>15. Annotations \in Places
    BY DEF Places
<1>16. ASSUME NEW n \in DOMAIN rows
       PROVE  lists'[<<n, Annotations>>] = rows[n].lists[Annotations]
    BY <1>7, <1>9, <1>15
<1>17. ASSUME NEW n \in Ids, NEW k \in Places, n \notin DOMAIN rows \/ k # Annotations
       PROVE  lists'[<<n, k>>] = lists[<<n, k>>]
    BY <1>9, <1>17
<1>18. lists' \in ListsType
    <2>1. ASSUME NEW n \in Ids, NEW k \in Places PROVE lists'[<<n, k>>] \in Seq(Ids)
        <3>1. lists[<<n, k>>] \in Seq(Ids)
            BY <1>4 DEF ListsType
        <3>2. CASE n \in DOMAIN rows /\ k = Annotations
            BY <1>7, <1>16, <3>2
        <3>3. CASE n \notin DOMAIN rows \/ k # Annotations
            BY <1>17, <3>1, <3>3
        <3> QED
            BY <3>2, <3>3
    <2>2. lists' = [k \in Ids \X Places |-> lists'[k]]
        BY <1>9
    <2> QED
        BY <2>1, <2>2 DEF ListsType
<1>19. OldParents' = parent
    <2>1. OldParents' = [n \in DOMAIN parent' \ DOMAIN rows |-> parent'[n]]
        BY <1>5 DEF OldParents
    <2>2. DOMAIN parent' \ DOMAIN rows = DOMAIN parent
        BY <1>1, <1>10 DEF rows
    <2>3. [n \in DOMAIN parent |-> parent'[n]] = [n \in DOMAIN parent |-> parent[n]]
        BY <1>12
    <2> QED
        BY <1>4, <2>1, <2>2, <2>3 DEF IsTable
<1>20. OldLists' = lists
    <2>1. OldLists' = [k \in Ids \X Places |-> IF k[1] \in DOMAIN rows THEN <<>> ELSE lists'[k]]
        BY <1>5 DEF OldLists
    <2>2. ASSUME NEW n \in Ids, NEW k \in Places
          PROVE  (IF n \in DOMAIN rows THEN <<>> ELSE lists'[<<n, k>>]) = lists[<<n, k>>]
        <3>1. CASE n \in DOMAIN rows
            <4>1. n \notin DOMAIN parent
                BY <1>1, <3>1 DEF rows
            <4>2. lists[<<n, k>>] = <<>>
                BY <1>3, <4>1, NoListHere
            <4> QED
                BY <3>1, <4>2
        <3>2. CASE n \notin DOMAIN rows
            BY <1>17, <3>2
        <3> QED
            BY <3>1, <3>2
    <2>3. lists = [k \in Ids \X Places |-> lists[k]]
        BY <1>4 DEF ListsType
    <2> DEFINE old(k) == IF k[1] \in DOMAIN rows THEN <<>> ELSE lists'[k]
    <2>4. OldLists' = [k \in Ids \X Places |-> old(k)]
        BY <2>1
    <2>5. \A k \in Ids \X Places : old(k) = lists[k]
        BY <2>2
    <2> HIDE DEF old
    <2>6. [k \in Ids \X Places |-> old(k)] = [k \in Ids \X Places |-> lists[k]]
        BY <2>5
    <2> QED
        BY <2>3, <2>4, <2>6
<1>21. Right(OldParents', OldLists')
    BY <1>3, <1>19, <1>20
<1>22. HalfCopied'
    BY <1>1, <1>3, <1>5, <1>10, <1>11, <1>16, <1>21 DEF HalfCopied
<1> QED
    BY <1>1, <1>4, <1>13, <1>14, <1>18, <1>22 DEF ImportInv, AreTables

\* p and l hold two forests without common nodes: a and b, and f and g, but for
\* some roots of the latter that have a parent.
Joins(p, l, a, b, f, g, left) ==
    /\ IsParents(p) /\ l \in ListsType /\ Right(a, b) /\ Right(f, g)
    /\ DOMAIN a \intersect DOMAIN f = {} /\ DOMAIN p = DOMAIN a \union DOMAIN f
    /\ \A n \in DOMAIN a : p[n] = a[n]
    /\ left \subseteq Roots(f) /\ \A n \in left : p[n] # None
    /\ \A n \in DOMAIN f \ left : p[n] = f[n]
    /\ \A n \in DOMAIN f, k \in Places : l[<<n, k>>] = g[<<n, k>>]
    /\ \A n \in Ids \ DOMAIN f, k \in Places : l[<<n, k>>] = b[<<n, k>>]

\* Two forests in one table, of which the roots of one have parents in the other, are a
\* forest but for these roots.
LEMMA Together ==
    ASSUME NEW p, NEW l, NEW a, NEW b, NEW f, NEW g, NEW left, Joins(p, l, a, b, f, g, left)
    PROVE  Placed(l) /\ PartialForest(p, l, left) /\ DOMAIN a \subseteq Below(l, Roots(p))
<1>0. /\ IsParents(p) /\ l \in ListsType /\ Right(a, b) /\ Right(f, g)
      /\ DOMAIN a \intersect DOMAIN f = {} /\ DOMAIN p = DOMAIN a \union DOMAIN f
      /\ \A n \in DOMAIN a : p[n] = a[n]
      /\ left \subseteq Roots(f) /\ \A n \in left : p[n] # None
      /\ \A n \in DOMAIN f \ left : p[n] = f[n]
      /\ \A n \in DOMAIN f, k \in Places : l[<<n, k>>] = g[<<n, k>>]
      /\ \A n \in Ids \ DOMAIN f, k \in Places : l[<<n, k>>] = b[<<n, k>>]
    BY DEF Joins
<1> USE <1>0
<1>1. /\ IsParents(a) /\ b \in ListsType /\ IsForest(a, b) /\ Placed(b)
      /\ IsParents(f) /\ g \in ListsType /\ IsForest(f, g) /\ Placed(g)
    BY DEF Right
<1>2. ASSUME NEW n \in DOMAIN f PROVE Listed(l, n) = Listed(g, n)
    BY DEF Listed
<1>3. ASSUME NEW n \in Ids \ DOMAIN f PROVE Listed(l, n) = Listed(b, n)
    BY DEF Listed
<1>4. ASSUME NEW n \in Ids, NEW x \in Listed(b, n)
      PROVE  n \in DOMAIN a /\ x \in DOMAIN a /\ a[x] = n
    BY <1>1, ForestLists
<1>5. ASSUME NEW n \in Ids, NEW x \in Listed(g, n)
      PROVE  n \in DOMAIN f /\ x \in DOMAIN f /\ f[x] = n
    BY <1>1, ForestLists
<1>6. Roots(a) \subseteq Roots(p) /\ Roots(f) \subseteq Roots(p) \union left
    BY DEF Roots
<1>7. Roots(p) \subseteq Roots(a) \union Roots(f) /\ left \subseteq DOMAIN p
    BY DEF Roots
<1>8. Roots(p) \in SUBSET Ids /\ Roots(p) \union left \in SUBSET Ids
    <2>1. Roots(p) \in SUBSET Ids /\ Roots(f) \in SUBSET Ids
        BY <1>1, RootsType
    <2> QED
        BY <2>1
<1>9. \A n \in Ids : Listed(b, n) \subseteq Listed(l, n)
    <2> SUFFICES ASSUME NEW n \in Ids, NEW x \in Listed(b, n) PROVE x \in Listed(l, n)
        OBVIOUS
    <2>1. n \in Ids \ DOMAIN f
        BY <1>4
    <2> QED
        BY <1>3, <2>1
<1>10. \A n \in Ids : Listed(g, n) \subseteq Listed(l, n)
    BY <1>2, <1>5
<1>11. DOMAIN a \subseteq Below(l, Roots(p))
    <2>1. Roots(a) \subseteq Below(l, Roots(p)) /\ Roots(a) \in SUBSET Ids
        BY <1>1, <1>6, <1>8, BelowHas, RootsType
    <2>2. Below(b, Roots(a)) \subseteq Below(l, Roots(p))
        BY <1>1, <1>8, <1>9, <2>1, BelowMore
    <2> QED
        BY <1>1, <2>2 DEF IsForest
<1> DEFINE N == Roots(p) \union left
<1>12. DOMAIN p \subseteq Below(l, N)
    <2>1. N \in SUBSET Ids
        BY <1>8
    <2>2. Roots(a) \subseteq N /\ Roots(f) \subseteq N
        BY <1>6
    <2>3. Roots(a) \in SUBSET Ids /\ Roots(f) \in SUBSET Ids
        BY <1>1, RootsType
    <2> HIDE DEF N
    <2>4. N \subseteq Below(l, N)
        BY <2>1, BelowHas
    <2>5. Below(b, Roots(a)) \subseteq Below(l, N)
        <3>1. Roots(a) \subseteq Below(l, N)
            BY <2>2, <2>4
        <3> QED
            BY <1>1, <1>9, <2>1, <2>3, <3>1, BelowMore
    <2>6. Below(g, Roots(f)) \subseteq Below(l, N)
        <3>1. Roots(f) \subseteq Below(l, N)
            BY <2>2, <2>4
        <3> QED
            BY <1>1, <1>10, <2>1, <2>3, <3>1, BelowMore
    <2> QED
        BY <1>1, <2>5, <2>6 DEF IsForest
<1>13. ASSUME NEW n \in Ids, NEW x \in Ids, x \in Listed(l, n)
       PROVE  n \in DOMAIN p /\ x \in DOMAIN p /\ p[x] = n /\ x \notin left
    <2>1. CASE n \in DOMAIN f
        <3>1. x \in DOMAIN f /\ f[x] = n
            BY <1>2, <1>5, <1>13, <2>1
        <3>2. x \notin left
            BY <3>1, IdsAssumption DEF Roots
        <3> QED
            BY <2>1, <3>1, <3>2
    <2>2. CASE n \notin DOMAIN f
        <3>1. n \in DOMAIN a /\ x \in DOMAIN a /\ a[x] = n
            BY <1>3, <1>4, <1>13, <2>2
        <3> QED
            BY <3>1 DEF Roots
    <2> QED
        BY <2>1, <2>2
<1>14. Below(l, N) \subseteq DOMAIN p
    <2>1. \A n \in Ids : Listed(l, n) \subseteq Ids
        BY ListedType
    <2>2. DOMAIN p \in SUBSET Ids
        BY DEF IsParents
    <2>3. Closed(l, DOMAIN p)
        BY <1>13, <2>1, <2>2 DEF Closed
    <2>4. N \subseteq DOMAIN p
        BY <1>7 DEF Roots
    <2> HIDE DEF N
    <2> QED
        BY <2>2, <2>3, <2>4, BelowLeast
<1>15. ASSUME NEW n \in DOMAIN p \ N PROVE ListsOnce(l, p[n], n)
    <2>1. CASE n \in DOMAIN a
        <3>1. n \in DOMAIN a \ Roots(a) /\ p[n] = a[n]
            BY <1>6, <2>1
        <3>2. ListsOnce(b, a[n], n) /\ a[n] # None
            BY <1>1, <3>1 DEF IsForest, Roots
        <3>3. a[n] \in DOMAIN a /\ a[n] \in Ids
            BY <1>1, <2>1, <3>2, ForestParent DEF IsParents
        <3>4. \A k \in Places : l[<<a[n], k>>] = b[<<a[n], k>>]
            BY <3>3
        <3> QED
            BY <3>1, <3>2, <3>4 DEF ListsOnce
    <2>2. CASE n \in DOMAIN f
        <3>1. n \in DOMAIN f \ Roots(f) /\ p[n] = f[n]
            BY <1>6, <2>2
        <3>2. ListsOnce(g, f[n], n) /\ f[n] # None
            BY <1>1, <3>1 DEF IsForest, Roots
        <3>3. f[n] \in DOMAIN f
            BY <1>1, <2>2, <3>2, ForestParent
        <3>4. \A k \in Places : l[<<f[n], k>>] = g[<<f[n], k>>]
            BY <3>3
        <3> QED
            BY <3>1, <3>2, <3>4 DEF ListsOnce
    <2> QED
        BY <2>1, <2>2
<1>16. left \subseteq DOMAIN p \ Roots(p)
    BY <1>7 DEF Roots
<1>17. PartialForest(p, l, left)
    BY <1>12, <1>13, <1>14, <1>15, <1>16 DEF PartialForest
<1>18. Placed(l)
    <2> SUFFICES ASSUME NEW n \in Ids, NEW k \in Places, NEW x \in Ids, Lists(l, n, k, x)
                 PROVE  k \in PlacesFor(x)
        BY DEF Placed
    <2>1. CASE n \in DOMAIN f
        <3>1. Lists(g, n, k, x)
            BY <2>1 DEF Lists
        <3> QED
            BY <1>1, <3>1 DEF Placed
    <2>2. CASE n \notin DOMAIN f
        <3>1. Lists(b, n, k, x)
            BY <2>2 DEF Lists
        <3> QED
            BY <1>1, <3>1 DEF Placed
    <2> QED
        BY <2>1, <2>2
<1> QED
    BY <1>11, <1>17, <1>18

\* When the containments are copied, only the roots with an attach point are unlisted.
LEMMA CopyContainmentsKeeps ==
    ASSUME ImportInv, CopyContainments
    PROVE  ImportInv'
<1> DEFINE rows == import.rows
           attach == import.attach
           p0 == OldParents
           l0 == OldLists
           m == lists'
<1>1. /\ import.next = "containments" /\ lists' = ContainmentRows /\ import' = Later(import, "attach")
      /\ parent' = parent /\ stray' = stray
    BY DEF CopyContainments, Rows, Later
<1>2. HalfCopied
    BY <1>1, NextTells
<1>3. /\ IsImport(import) /\ import.left = DOMAIN attach /\ ~stray /\ Right(p0, l0)
      /\ DOMAIN rows \subseteq DOMAIN parent
      /\ \A n \in DOMAIN rows : parent[n] = rows[n].parent
      /\ \A n \in DOMAIN rows : lists[<<n, Annotations>>] = rows[n].lists[Annotations]
    BY <1>2 DEF HalfCopied
<1>4. IsTable(parent) /\ IsParents(parent) /\ lists \in ListsType /\ stray \in BOOLEAN
    BY DEF ImportInv, AreTables
<1>5. /\ IsImport(import') /\ import'.next = "attach" /\ import'.rows = rows
      /\ import'.attach = attach /\ import'.left = import.left
    BY <1>1, <1>3, LaterIs
<1>6. PICK f \in Forests : Grafted(f.parent, f.lists, rows, attach)
    BY <1>3 DEF IsImport
<1> DEFINE fp == f.parent
           fl == f.lists
<1>7. /\ Right(fp, fl)
      /\ DOMAIN rows = DOMAIN fp /\ DOMAIN rows \subseteq Ids
      /\ \A n \in DOMAIN rows, k \in Places : rows[n].lists[k] \in Seq(Ids)
      /\ \A n \in DOMAIN attach :
            /\ n \in DOMAIN rows /\ n \notin AnnotationIds /\ fp[n] = None
            /\ attach[n][1] \in Ids \ DOMAIN rows
            /\ rows[n].parent = attach[n][1]
      /\ \A n \in DOMAIN rows \ DOMAIN attach : rows[n].parent = fp[n]
    BY <1>6, GraftedFacts
<1>8. \A n \in DOMAIN rows, k \in Places : rows[n].lists[k] = fl[<<n, k>>]
    BY <1>6 DEF Grafted
<1>9. m = [k \in Ids \X Places |->
            IF k[1] \in DOMAIN rows /\ k[2] # Annotations THEN rows[k[1]].lists[k[2]] ELSE lists[k]]
    BY <1>1 DEF ContainmentRows, Rows
<1>10. p0 = [n \in DOMAIN parent \ DOMAIN rows |-> parent[n]]
    BY DEF OldParents
<1>11. l0 = [k \in Ids \X Places |-> IF k[1] \in DOMAIN rows THEN <<>> ELSE lists[k]]
    BY DEF OldLists
<1> HIDE DEF rows, attach, p0, l0, m, fp, fl
<1>12. ASSUME NEW n \in DOMAIN rows, NEW k \in Places PROVE m[<<n, k>>] = rows[n].lists[k]
    <2>1. CASE k = Annotations
        <3>1. m[<<n, k>>] = lists[<<n, k>>]
            BY <1>7, <1>9, <2>1
        <3> QED
            BY <1>3, <2>1, <3>1
    <2>2. CASE k # Annotations
        BY <1>7, <1>9, <2>2
    <2> QED
        BY <2>1, <2>2
<1>13. ASSUME NEW n \in Ids, n \notin DOMAIN rows, NEW k \in Places
       PROVE  m[<<n, k>>] = lists[<<n, k>>]
    BY <1>9, <1>13
<1>14. ASSUME NEW n \in Ids, n \notin DOMAIN rows, NEW k \in Places
       PROVE  m[<<n, k>>] = l0[<<n, k>>]
    BY <1>11, <1>13, <1>14
<1>15. m \in ListsType
    <2>1. ASSUME NEW n \in Ids, NEW k \in Places PROVE m[<<n, k>>] \in Seq(Ids)
        <3>1. lists[<<n, k>>] \in Seq(Ids)
            BY <1>4 DEF ListsType
        <3>2. CASE n \in DOMAIN rows
            BY <1>7, <1>12, <3>2
        <3>3. CASE n \notin DOMAIN rows
            BY <1>13, <3>1, <3>3
        <3> QED
            BY <3>2, <3>3
    <2>2. m = [k \in Ids \X Places |-> m[k]]
        BY <1>9
    <2>3. \A k \in Ids \X Places : m[k] \in Seq(Ids)
        BY <2>1
    <2> QED
        BY <2>2, <2>3 DEF ListsType
<1> DEFINE left == DOMAIN attach
<1>16. Joins(parent, m, p0, l0, fp, fl, left)
    <2>1. DOMAIN p0 = DOMAIN parent \ DOMAIN rows /\ \A n \in DOMAIN p0 : parent[n] = p0[n]
        BY <1>10
    <2>2. left \subseteq Roots(fp) /\ \A n \in left : parent[n] # None
        BY <1>3, <1>7, IdsAssumption DEF Roots
    <2>3. \A n \in DOMAIN fp \ left : parent[n] = fp[n]
        BY <1>3, <1>7
    <2>4. ASSUME NEW n \in DOMAIN fp, NEW k \in Places PROVE m[<<n, k>>] = fl[<<n, k>>]
        <3>1. n \in DOMAIN rows
            BY <1>7
        <3>2. m[<<n, k>>] = rows[n].lists[k]
            BY <1>12, <3>1
        <3>3. rows[n].lists[k] = fl[<<n, k>>]
            BY <1>8, <3>1
        <3> QED
            BY <3>2, <3>3
    <2>5. \A n \in Ids \ DOMAIN fp, k \in Places : m[<<n, k>>] = l0[<<n, k>>]
        BY <1>7, <1>14
    <2>6. DOMAIN p0 \intersect DOMAIN fp = {} /\ DOMAIN parent = DOMAIN p0 \union DOMAIN fp
        BY <1>3, <1>7, <2>1
    <2> HIDE DEF left
    <2> QED
        BY <1>3, <1>4, <1>7, <1>15, <2>1, <2>2, <2>3, <2>4, <2>5, <2>6 DEF Joins
<1>17. /\ Placed(m) /\ PartialForest(parent, m, left)
       /\ DOMAIN p0 \subseteq Below(m, Roots(parent))
    BY <1>16, Together
<1>18. DOMAIN parent \ DOMAIN rows \subseteq Below(m, Roots(parent))
    BY <1>10, <1>17
<1>19. \A n \in left : parent[n] = attach[n][1] /\ n \notin AnnotationIds
    BY <1>3, <1>7
<1>20. Graftable(parent, m, left, rows, attach)
    BY <1>17, <1>18, <1>19 DEF Graftable
<1>21. Attaching'
    BY <1>1, <1>3, <1>5, <1>20 DEF Attaching, m, rows, attach, left
<1> QED
    BY <1>1, <1>4, <1>15, <1>21 DEF ImportInv, AreTables, m

(***************************************************************************)
(* Attaching a root.                                                       *)
(***************************************************************************)
\* Lists m are lists l with n at the end of the list k of c.
Appends(l, m, c, j, n) ==
    /\ l \in ListsType /\ m \in ListsType /\ c \in Ids /\ j \in Containments /\ n \in Ids
    /\ m[<<c, j>>] = Append(l[<<c, j>>], n)
    /\ \A y \in Ids, k \in Places : y # c \/ k # j => m[<<y, k>>] = l[<<y, k>>]

\* What is listed after an append.
LEMMA AppendsMeans ==
    ASSUME NEW l, NEW m, NEW c, NEW j, NEW n, Appends(l, m, c, j, n)
    PROVE  \A y \in Ids, k \in Places : \A x :
                Lists(m, y, k, x) <=> Lists(l, y, k, x) \/ (y = c /\ k = j /\ x = n)
<1> SUFFICES ASSUME NEW y \in Ids, NEW k \in Places, NEW x
             PROVE  Lists(m, y, k, x) <=> Lists(l, y, k, x) \/ (y = c /\ k = j /\ x = n)
    OBVIOUS
<1>1. l[<<c, j>>] \in Seq(Ids)
    BY DEF Appends, ListsType, Places
<1>2. ToSet(Append(l[<<c, j>>], n)) = ToSet(l[<<c, j>>]) \union {n}
    BY <1>1, AppendItems DEF Appends
<1>3. CASE y = c /\ k = j
    BY <1>2, <1>3 DEF Appends, Lists
<1>4. CASE y # c \/ k # j
    BY <1>4 DEF Appends, Lists
<1> QED
    BY <1>3, <1>4

\* The items of a list after an append, by their places.
LEMMA AppendItem ==
    ASSUME NEW s \in Seq(Ids), NEW n \in Ids
    PROVE  /\ DOMAIN Append(s, n) = DOMAIN s \union {Len(s) + 1} /\ Len(s) + 1 \notin DOMAIN s
           /\ Append(s, n)[Len(s) + 1] = n
           /\ \A i \in DOMAIN s : Append(s, n)[i] = s[i]
<1>1. DOMAIN s = 1..Len(s) /\ Len(s) \in Nat
    OBVIOUS
<1>2. DOMAIN Append(s, n) = 1..Len(s) + 1
    OBVIOUS
<1>3. Append(s, n)[Len(s) + 1] = n /\ \A i \in 1..Len(s) : Append(s, n)[i] = s[i]
    OBVIOUS
<1> QED
    BY <1>1, <1>2, <1>3

\* What is appended and was not listed is listed once.
LEMMA AppendedOnce ==
    ASSUME NEW l, NEW m, NEW c, NEW j, NEW n, Appends(l, m, c, j, n), n \notin Listed(l, c)
    PROVE  ListsOnce(m, c, n)
<1> DEFINE s == l[<<c, j>>]
           t == m[<<c, j>>]
           h == Len(s) + 1
<1>1. s \in Seq(Ids) /\ n \in Ids /\ c \in Ids /\ j \in Places /\ t = Append(s, n)
    BY DEF Appends, ListsType, Places
<1>2. \A k \in Places : ~Lists(l, c, k, n)
    BY ListedMeans
<1>3. \A k \in Places : \A i \in DOMAIN l[<<c, k>>] : l[<<c, k>>][i] # n
    BY <1>2 DEF Lists, ToSet
<1>4. \A k \in Places : k # j => m[<<c, k>>] = l[<<c, k>>]
    BY <1>1 DEF Appends
<1>5. \A i \in DOMAIN s : s[i] # n
    BY <1>1, <1>3
<1> HIDE DEF s, t, h
<1>6. /\ DOMAIN t = DOMAIN s \union {h} /\ h \notin DOMAIN s /\ t[h] = n
      /\ \A i \in DOMAIN s : t[i] = s[i]
    BY <1>1, AppendItem DEF h
<1>7. h \in DOMAIN t /\ \A i \in DOMAIN t : t[i] = n <=> i = h
    BY <1>5, <1>6
<1>8. ASSUME NEW k \in Places, NEW i \in DOMAIN m[<<c, k>>]
      PROVE  m[<<c, k>>][i] = n <=> k = j /\ i = h
    <2>1. CASE k = j
        BY <1>7, <2>1 DEF t
    <2>2. CASE k # j
        BY <1>3, <1>4, <2>2
    <2> QED
        BY <2>1, <2>2
<1> QED
    BY <1>1, <1>7, <1>8 DEF ListsOnce, t

\* What was listed once still is.
LEMMA StillOnce ==
    ASSUME NEW l, NEW m, NEW c, NEW j, NEW n, Appends(l, m, c, j, n),
           NEW y \in Ids, NEW x, x # n, ListsOnce(l, y, x)
    PROVE  ListsOnce(m, y, x)
<1> DEFINE s == l[<<c, j>>]
           t == m[<<c, j>>]
           h == Len(s) + 1
<1>1. s \in Seq(Ids) /\ n \in Ids /\ c \in Ids /\ j \in Places /\ t = Append(s, n)
    BY DEF Appends, ListsType, Places
<1>2. PICK a \in Places : \E e \in DOMAIN l[<<y, a>>] :
        \A k \in Places : \A i \in DOMAIN l[<<y, k>>] : l[<<y, k>>][i] = x <=> k = a /\ i = e
    BY DEF ListsOnce
<1>3. PICK e \in DOMAIN l[<<y, a>>] :
        \A k \in Places : \A i \in DOMAIN l[<<y, k>>] : l[<<y, k>>][i] = x <=> k = a /\ i = e
    BY <1>2
<1>4. \A k \in Places : y # c \/ k # j => m[<<y, k>>] = l[<<y, k>>]
    BY <1>1 DEF Appends
<1> HIDE DEF s, t, h
<1>5. /\ DOMAIN t = DOMAIN s \union {h} /\ h \notin DOMAIN s /\ t[h] = n
      /\ \A i \in DOMAIN s : t[i] = s[i]
    BY <1>1, AppendItem DEF h
<1>6. e \in DOMAIN m[<<y, a>>]
    <2>1. CASE y = c /\ a = j
        BY <1>3, <1>5, <2>1 DEF s, t
    <2>2. CASE y # c \/ a # j
        BY <1>3, <1>4, <2>2
    <2> QED
        BY <2>1, <2>2
<1>7. ASSUME NEW k \in Places, NEW i \in DOMAIN m[<<y, k>>]
      PROVE  m[<<y, k>>][i] = x <=> k = a /\ i = e
    <2>1. CASE y = c /\ k = j
        <3>1. i \in DOMAIN t /\ m[<<y, k>>] = t /\ l[<<y, k>>] = s
            BY <2>1 DEF s, t
        <3>2. CASE i = h
            <4>1. t[i] # x
                BY <1>5, <3>2
            <4>2. ~(k = a /\ i = e)
                BY <1>3, <1>5, <3>1, <3>2
            <4> QED
                BY <3>1, <4>1, <4>2
        <3>3. CASE i # h
            <4>1. i \in DOMAIN s /\ t[i] = s[i]
                BY <1>5, <3>1, <3>3
            <4> QED
                BY <1>3, <3>1, <4>1
        <3> QED
            BY <3>2, <3>3
    <2>2. CASE y # c \/ k # j
        BY <1>3, <1>4, <2>2
    <2> QED
        BY <2>1, <2>2
<1> QED
    BY <1>6, <1>7 DEF ListsOnce

\* A root that is attached brings what is below it to where it can be reached, and one
\* root less is missing.
LEMMA GraftOne ==
    ASSUME NEW p, NEW l, NEW m, NEW left, NEW rows, NEW attach, NEW c, NEW j, NEW n \in left,
           IsParents(p), Graftable(p, l, left, rows, attach), Appends(l, m, c, j, n),
           attach[n][1] = c, c \notin DOMAIN rows, c \in DOMAIN p
    PROVE  Graftable(p, m, left \ {n}, rows, attach)
<1> DEFINE rest == left \ {n}
           N == Roots(p) \union left
           M == Roots(p) \union rest
<1>1. /\ l \in ListsType /\ m \in ListsType /\ c \in Ids /\ j \in Containments /\ n \in Ids
    BY DEF Appends
<1>2. Placed(l) /\ PartialForest(p, l, left)
      /\ DOMAIN p \ DOMAIN rows \subseteq Below(l, Roots(p))
      /\ \A x \in left : p[x] = attach[x][1] /\ x \notin AnnotationIds
    BY DEF Graftable
<1>3. /\ left \subseteq DOMAIN p \ Roots(p)
      /\ Below(l, N) = DOMAIN p
      /\ \A y \in Ids, x \in Ids : x \in Listed(l, y) =>
            y \in DOMAIN p /\ x \in DOMAIN p /\ p[x] = y /\ x \notin left
      /\ \A x \in DOMAIN p \ N : ListsOnce(l, p[x], x)
    BY <1>2 DEF PartialForest
<1>4. p[n] = c /\ n \notin AnnotationIds
    BY <1>2
<1>5. \A y \in Ids, k \in Places : \A x :
            Lists(m, y, k, x) <=> Lists(l, y, k, x) \/ (y = c /\ k = j /\ x = n)
    BY AppendsMeans
<1>6. \A y \in Ids : \A x : x \in Listed(m, y) <=> x \in Listed(l, y) \/ (y = c /\ x = n)
    <2> SUFFICES ASSUME NEW y \in Ids, NEW x
                 PROVE  x \in Listed(m, y) <=> x \in Listed(l, y) \/ (y = c /\ x = n)
        OBVIOUS
    <2>1. j \in Places
        BY <1>1 DEF Places
    <2> QED
        BY <1>5, <2>1, ListedMeans
<1>7. c \in DOMAIN p
    OBVIOUS
<1>8. Roots(p) \in SUBSET Ids /\ N \in SUBSET Ids /\ M \in SUBSET Ids
    <2>1. Roots(p) \in SUBSET Ids
        BY RootsType
    <2>2. left \subseteq Ids
        BY <1>3 DEF IsParents
    <2> QED
        BY <2>1, <2>2
<1>9. \A y \in Ids : Listed(l, y) \subseteq Listed(m, y)
    BY <1>6
<1>10. Below(l, Roots(p)) \subseteq Below(m, Roots(p))
    <2>1. Roots(p) \subseteq Below(m, Roots(p))
        BY <1>1, <1>8, BelowHas
    <2> QED
        BY <1>1, <1>8, <1>9, <2>1, BelowMore
<1>11. DOMAIN p \ DOMAIN rows \subseteq Below(m, Roots(p))
    BY <1>2, <1>10
<1>12. Below(m, Roots(p)) \subseteq Below(m, M)
    <2>1. Roots(p) \subseteq M
        OBVIOUS
    <2> HIDE DEF M
    <2>2. M \subseteq Below(m, M)
        BY <1>1, <1>8, BelowHas
    <2>3. Roots(p) \subseteq Below(m, M)
        BY <2>1, <2>2
    <2>4. \A y \in Ids : Listed(m, y) \subseteq Listed(m, y)
        OBVIOUS
    <2> QED
        BY <1>1, <1>8, <2>3, <2>4, BelowMore
<1>13. n \in Below(m, M)
    <2>1. c \in Below(m, M)
        BY <1>7, <1>11, <1>12
    <2>2. n \in Listed(m, c)
        BY <1>1, <1>6
    <2> HIDE DEF M
    <2>3. Closed(m, Below(m, M))
        BY <1>1, <1>8, BelowHas
    <2> QED
        BY <2>1, <2>2, <2>3 DEF Closed
<1>14. DOMAIN p \subseteq Below(m, M)
    <2>1. N \subseteq M \union {n}
        OBVIOUS
    <2> HIDE DEF M, N
    <2>2. M \subseteq Below(m, M)
        BY <1>1, <1>8, BelowHas
    <2>3. N \subseteq Below(m, M)
        BY <1>13, <2>1, <2>2
    <2>4. Below(l, N) \subseteq Below(m, M)
        BY <1>1, <1>8, <1>9, <2>3, BelowMore
    <2> QED
        BY <1>3, <2>4 DEF N
<1>15. \A y \in Ids, x \in Ids : x \in Listed(m, y) =>
            y \in DOMAIN p /\ x \in DOMAIN p /\ p[x] = y /\ x \notin rest
    BY <1>3, <1>4, <1>6, <1>7
<1>16. Below(m, M) \subseteq DOMAIN p
    <2>1. \A y \in Ids : Listed(m, y) \subseteq Ids
        BY <1>1, ListedType
    <2>2. DOMAIN p \in SUBSET Ids
        BY DEF IsParents
    <2>3. Closed(m, DOMAIN p)
        BY <1>15, <2>1, <2>2 DEF Closed
    <2>4. M \subseteq DOMAIN p
        BY <1>3 DEF Roots
    <2> HIDE DEF M
    <2> QED
        BY <2>2, <2>3, <2>4, BelowLeast
<1>17. ASSUME NEW x \in DOMAIN p \ M PROVE ListsOnce(m, p[x], x)
    <2>1. CASE x = n
        <3>1. n \notin Listed(l, c)
            BY <1>1, <1>3
        <3> QED
            BY <1>4, <2>1, <3>1, AppendedOnce
    <2>2. CASE x # n
        <3>1. x \in DOMAIN p \ N
            BY <2>2
        <3>2. ListsOnce(l, p[x], x) /\ p[x] \in Ids
            BY <1>3, <3>1 DEF IsParents, Roots
        <3> QED
            BY <2>2, <3>2, StillOnce
    <2> QED
        BY <2>1, <2>2
<1>18. PartialForest(p, m, rest)
    <2>1. rest \subseteq DOMAIN p \ Roots(p)
        BY <1>3
    <2>2. Below(m, M) = DOMAIN p
        BY <1>14, <1>16
    <2> QED
        BY <1>15, <1>17, <2>1, <2>2 DEF PartialForest
<1>19. Placed(m)
    <2> SUFFICES ASSUME NEW y \in Ids, NEW k \in Places, NEW x \in Ids, Lists(m, y, k, x)
                 PROVE  k \in PlacesFor(x)
        BY DEF Placed
    <2>1. CASE Lists(l, y, k, x)
        BY <1>2, <2>1 DEF Placed
    <2>2. CASE k = j /\ x = n
        BY <1>1, <1>4, <2>2 DEF PlacesFor
    <2> QED
        BY <1>5, <2>1, <2>2
<1>20. \A x \in rest : p[x] = attach[x][1] /\ x \notin AnnotationIds
    BY <1>2
<1> QED
    BY <1>11, <1>18, <1>19, <1>20 DEF Graftable

\* The UPDATE of an attach point changes one list.
LEMMA AppendChildIs ==
    ASSUME lists \in ListsType, NEW n \in Ids, NEW a \in Ids \X Places
    PROVE  /\ AppendChild(a, n) \in ListsType
           /\ \A y \in Ids, k \in Places : <<y, k>> # a => AppendChild(a, n)[<<y, k>>] = lists[<<y, k>>]
           /\ AppendChild(a, n)[a] = Append(lists[a], n)
<1> DEFINE b == Append(lists[a], n)
           m == AppendChild(a, n)
<1>1. m = [lists EXCEPT ![a] = b]
    BY DEF AppendChild
<1>2. lists[a] \in Seq(Ids)
    BY DEF ListsType
<1>3. b \in Seq(Ids)
    BY <1>2
<1> HIDE DEF m
<1>4. m \in ListsType
    <2> HIDE DEF b
    <2> QED
        BY <1>1, <1>3 DEF ListsType
<1>5. m[a] = b
    BY <1>1 DEF ListsType
<1>6. \A y \in Ids, k \in Places : <<y, k>> # a => m[<<y, k>>] = lists[<<y, k>>]
    BY <1>1 DEF ListsType
<1> QED
    BY <1>4, <1>5, <1>6 DEF m

\* What Attach does with a root n: it appends it, or nothing happens.
Appended(n) ==
    /\ import.attach[n][1] \in DOMAIN parent
    /\ lists' = AppendChild(import.attach[n], n)
    /\ stray' = stray

Attaches(n) ==
    /\ n \in import.left
    /\ Appended(n) \/ (lists' = lists /\ stray' = TRUE)
    /\ import' = Without(import, n)
    /\ parent' = parent

\* An attach point is a containment of a node that is not in the import.
LEMMA AttachPoint ==
    ASSUME NEW p, NEW l, NEW rows, NEW attach, Grafted(p, l, rows, attach), NEW n \in DOMAIN attach
    PROVE  /\ n \in DOMAIN rows
           /\ attach[n][1] \in Ids \ DOMAIN rows /\ attach[n][2] \in Containments
           /\ attach[n] \in Ids \X Places /\ attach[n] = <<attach[n][1], attach[n][2]>>
<1>1. attach[n] \in (Ids \ DOMAIN rows) \X Containments
    BY DEF Grafted
<1>2. n \in DOMAIN rows
    BY DEF Grafted, Roots
<1> QED
    BY <1>1, <1>2 DEF Places

\* What is known when a root is attached.
LEMMA AttachedTo ==
    ASSUME ImportInv, NEW n, Attaches(n), import.next = "attach"
    PROVE  /\ Attaching /\ n \in Ids /\ n \in DOMAIN import.rows /\ import.attach[n] \in Ids \X Places
           /\ import.attach[n][1] \in Ids \ DOMAIN import.rows
           /\ import.attach[n][2] \in Containments
           /\ import.attach[n] = <<import.attach[n][1], import.attach[n][2]>>
<1>1. Attaching
    BY NextTells
<1>2. IsImport(import)
    BY <1>1 DEF Attaching
<1> DEFINE rows == import.rows
           at == import.attach
<1>3. PICK f \in Forests : Grafted(f.parent, f.lists, rows, at)
    BY <1>2 DEF IsImport
<1>4. n \in DOMAIN at
    BY <1>2 DEF Attaches, IsImport
<1> HIDE DEF rows, at
<1>5. /\ n \in DOMAIN rows
      /\ at[n][1] \in Ids \ DOMAIN rows /\ at[n][2] \in Containments
      /\ at[n] \in Ids \X Places /\ at[n] = <<at[n][1], at[n][2]>>
    BY <1>3, <1>4, AttachPoint
<1>6. DOMAIN rows \subseteq Ids
    BY <1>3, GraftedFacts
<1>8. /\ n \in Ids /\ n \in DOMAIN rows /\ at[n] \in Ids \X Places
      /\ at[n][1] \in Ids \ DOMAIN rows /\ at[n][2] \in Containments
      /\ at[n] = <<at[n][1], at[n][2]>>
    BY <1>5, <1>6
<1> QED
    BY <1>1, <1>8 DEF rows, at

\* A root is attached.
LEMMA AttachKeeps ==
    ASSUME ImportInv, Attach
    PROVE  ImportInv'
<1>1. import.next = "attach" /\ \E n \in import.left : Attaches(n)
    BY DEF Attach, Attaches, Appended, Without
<1>2. PICK n \in import.left : Attaches(n)
    BY <1>1
<1> DEFINE a == import.attach[n]
           c == a[1]
           j == a[2]
<1>3. /\ Attaching /\ n \in Ids /\ n \in DOMAIN import.rows /\ a \in Ids \X Places
      /\ c \in Ids \ DOMAIN import.rows /\ j \in Containments /\ a = <<c, j>>
    BY <1>1, <1>2, AttachedTo
<1>4. /\ import' = Without(import, n) /\ parent' = parent
      /\ \/ c \in DOMAIN parent /\ lists' = AppendChild(a, n) /\ stray' = stray
         \/ lists' = lists /\ stray' = TRUE
    BY <1>2 DEF Attaches, Appended
<1>5. import.attach[n][1] = c
    OBVIOUS
<1> HIDE DEF a, c, j
<1>6. IsTable(parent) /\ IsParents(parent) /\ lists \in ListsType /\ stray \in BOOLEAN
    BY DEF ImportInv, AreTables
<1>7. ASSUME lists' = AppendChild(a, n)
      PROVE  lists' \in ListsType /\ Appends(lists, lists', c, j, n)
    <2>1. /\ lists' \in ListsType
          /\ \A y \in Ids, k \in Places : <<y, k>> # a => lists'[<<y, k>>] = lists[<<y, k>>]
          /\ lists'[a] = Append(lists[a], n)
        BY <1>3, <1>6, <1>7, AppendChildIs
    <2>2. \A y \in Ids, k \in Places : y # c \/ k # j => lists'[<<y, k>>] = lists[<<y, k>>]
        BY <1>3, <2>1
    <2> QED
        BY <1>3, <1>6, <2>1, <2>2 DEF Appends
<1>8. IsImport(import) /\ DOMAIN import.rows \subseteq DOMAIN parent
    BY <1>3 DEF Attaching
<1>9. /\ IsImport(import') /\ import'.next = "attach" /\ import'.rows = import.rows
      /\ import'.attach = import.attach /\ import'.left = import.left \ {n}
    BY <1>1, <1>4, <1>8, WithoutIs
<1>10. stray' \in BOOLEAN /\ lists' \in ListsType
    BY <1>4, <1>6, <1>7
<1>11. ASSUME ~stray'
       PROVE  Graftable(parent', lists', import'.left, import'.rows, import'.attach)
    <2>1. ~stray /\ c \in DOMAIN parent /\ lists' = AppendChild(a, n)
        BY <1>4, <1>11
    <2>2. Graftable(parent, lists, import.left, import.rows, import.attach)
        BY <1>3, <2>1 DEF Attaching
    <2>3. Appends(lists, lists', c, j, n)
        BY <1>7, <2>1
    <2>4. c \notin DOMAIN import.rows
        BY <1>3
    <2>5. Graftable(parent, lists', import.left \ {n}, import.rows, import.attach)
        BY <1>5, <1>6, <2>1, <2>2, <2>3, <2>4, GraftOne
    <2> QED
        BY <1>4, <1>9, <2>5
<1>12. Attaching'
    BY <1>4, <1>8, <1>9, <1>11 DEF Attaching
<1> QED
    BY <1>4, <1>6, <1>10, <1>12 DEF ImportInv, AreTables

\* When nothing is left to attach, the tables hold a forest.
LEMMA ImportedKeeps ==
    ASSUME ImportInv, Imported
    PROVE  ImportInv'
<1>1. /\ import.next = "attach" /\ import.left = {} /\ import' = Idle
      /\ parent' = parent /\ lists' = lists /\ stray' = stray
    BY DEF Imported, vars
<1>2. Attaching
    BY <1>1, NextTells
<1>3. IsTable(parent) /\ IsParents(parent) /\ lists \in ListsType /\ stray \in BOOLEAN
    BY DEF ImportInv, AreTables
<1>4. ASSUME ~stray PROVE Right(parent, lists)
    <2>1. Placed(lists) /\ PartialForest(parent, lists, import.left)
        BY <1>2, <1>4 DEF Attaching, Graftable
    <2>2. Roots(parent) \union import.left = Roots(parent)
        BY <1>1
    <2>3. IsForest(parent, lists)
        BY <2>1, <2>2 DEF PartialForest, IsForest
    <2> QED
        BY <1>3, <2>1, <2>3 DEF Right
<1> QED
    BY <1>1, <1>3, <1>4 DEF ImportInv, AreTables

\* An import that is interrupted before its first COPY leaves the forest; after it the
\* behaviour ends.
LEMMA InterruptedKeeps ==
    ASSUME ImportInv, Interrupted
    PROVE  ImportInv'
<1>1. /\ import # Idle /\ import' = Idle /\ stray' = (import.next # "nodes")
      /\ parent' = parent /\ lists' = lists
    BY DEF Interrupted, tables
<1>2. IsTable(parent) /\ IsParents(parent) /\ lists \in ListsType
    BY DEF ImportInv, AreTables
<1>3. ASSUME ~stray' PROVE Right(parent, lists)
    <2>1. Started
        BY <1>1, <1>3, NextTells
    <2> QED
        BY <2>1 DEF Started
<1> QED
    BY <1>1, <1>2, <1>3 DEF ImportInv, AreTables

\* A COPY that fails leaves the forest.
LEMMA CopyNodesFailsKeeps ==
    ASSUME ImportInv, CopyNodesFails
    PROVE  ImportInv'
<1>1. /\ import.next = "nodes" /\ import' = Idle
      /\ parent' = parent /\ lists' = lists /\ stray' = stray
    BY DEF CopyNodesFails, vars
<1>2. Started
    BY <1>1, NextTells
<1> QED
    BY <1>1, <1>2 DEF ImportInv, AreTables, Started

(***************************************************************************)
(* The invariant.                                                          *)
(***************************************************************************)
LEMMA ImportInvInit ==
    ASSUME ImportInit
    PROVE  ImportInv
<1>1. parent = <<>> /\ lists = NoLists /\ stray = FALSE /\ import = Idle
    BY DEF ImportInit, Init
<1>2. DOMAIN parent = {}
    BY <1>1
<1>3. IsTable(parent) /\ IsParents(parent)
    BY <1>1, <1>2 DEF IsTable, IsParents
<1>4. \A k \in Ids \X Places : lists[k] = <<>>
    BY <1>1 DEF NoLists
<1>5. lists \in ListsType
    <2>1. <<>> \in Seq(Ids)
        OBVIOUS
    <2> QED
        BY <1>1, <2>1 DEF ListsType, NoLists
<1>6. \A n \in Ids, k \in Places : \A x : ~Lists(lists, n, k, x)
    <2>1. ToSet(<<>>) = {}
        BY DEF ToSet
    <2> QED
        BY <1>4, <2>1 DEF Lists
<1>7. \A n \in Ids : \A x : x \notin Listed(lists, n)
    BY <1>6, ListedMeans
<1>8. Roots(parent) = {}
    BY <1>2 DEF Roots
<1>9. Below(lists, {}) = {}
    <2>1. Closed(lists, {})
        BY DEF Closed
    <2> QED
        BY <2>1, BelowLeast
<1>10. IsForest(parent, lists)
    BY <1>2, <1>7, <1>8, <1>9 DEF IsForest
<1>11. Placed(lists)
    BY <1>6 DEF Placed
<1> QED
    BY <1>1, <1>3, <1>5, <1>10, <1>11 DEF ImportInv, AreTables, Right

\* Every step of requests and imports keeps it.
LEMMA ImportInvNext ==
    ASSUME ImportInv, [ImportNext]_importVars
    PROVE  ImportInv'
<1>1. CASE import = Idle /\ Next /\ UNCHANGED import
    <2>1. AreTables(parent, lists, stray) /\ (~stray => Right(parent, lists))
        BY <1>1, NextTells DEF ImportInv
    <2>2. AreTables(parent', lists', stray') /\ (~stray' => Right(parent', lists'))
        BY <1>1, <2>1, RequestKeeps
    <2> QED
        BY <1>1, <2>2 DEF ImportInv
<1>2. CASE ~stray /\ bulkImport
    BY <1>2, BulkImportKeeps
<1>3. CASE CopyNodes
    BY <1>3, CopyNodesKeeps
<1>4. CASE CopyNodesFails
    BY <1>4, CopyNodesFailsKeeps
<1>5. CASE CopyContainments
    BY <1>5, CopyContainmentsKeeps
<1>6. CASE Attach
    BY <1>6, AttachKeeps
<1>7. CASE Imported
    BY <1>7, ImportedKeeps
<1>8. CASE Interrupted
    BY <1>8, InterruptedKeeps
<1>9. CASE UNCHANGED importVars
    <2>1. parent' = parent /\ lists' = lists /\ stray' = stray /\ import' = import
        BY <1>9 DEF importVars
    <2>2. /\ OldParents' = OldParents /\ OldLists' = OldLists
        BY <2>1 DEF OldParents, OldLists
    <2>3. (Started => Started') /\ (Attaching => Attaching')
        BY <2>1 DEF Started, Attaching
    <2>4. HalfCopied => HalfCopied'
        BY <2>1, <2>2 DEF HalfCopied
    <2> QED
        BY <2>1, <2>3, <2>4 DEF ImportInv, AreTables
<1> QED
    BY <1>1, <1>2, <1>3, <1>4, <1>5, <1>6, <1>7, <1>8, <1>9 DEF ImportNext

(***************************************************************************)
(* What the invariant says when no import is running, and of the types.    *)
(***************************************************************************)
LEMMA IdleIsRight ==
    ASSUME ImportInv, import = Idle, ~stray
    PROVE  Right(parent, lists) /\ IsTable(parent)
BY NextTells DEF ImportInv, AreTables

\* A node that does not exist has no lists: not in a forest, not in one that is half
\* copied, and not before all roots are attached.
LEMMA UnknownListNothing ==
    ASSUME ImportInv, ~stray, NEW n \in Ids, n \notin DOMAIN parent
    PROVE  Listed(lists, n) = {}
<1>1. lists \in ListsType
    BY DEF ImportInv, AreTables
<1>2. ASSUME Right(parent, lists) PROVE Listed(lists, n) = {}
    <2>1. IsForest(parent, lists)
        BY <1>2 DEF Right
    <2> QED
        BY <1>1, <2>1, ForestLists
<1>3. CASE import = Idle
    BY <1>2, <1>3, NextTells
<1>4. CASE Started
    BY <1>2, <1>4 DEF Started
<1>5. CASE HalfCopied
    <2>1. Right(OldParents, OldLists) /\ DOMAIN import.rows \subseteq DOMAIN parent
        BY <1>5 DEF HalfCopied
    <2>2. n \notin DOMAIN OldParents /\ n \notin DOMAIN import.rows
        BY <2>1 DEF OldParents
    <2>3. OldLists \in ListsType /\ IsForest(OldParents, OldLists)
        BY <2>1 DEF Right
    <2>4. Listed(OldLists, n) = {}
        BY <2>2, <2>3, ForestLists
    <2>5. \A k \in Places : OldLists[<<n, k>>] = lists[<<n, k>>]
        BY <2>2 DEF OldLists
    <2> QED
        BY <2>4, <2>5 DEF Listed
<1>6. CASE Attaching
    <2>1. PartialForest(parent, lists, import.left)
        BY <1>6 DEF Attaching, Graftable
    <2>2. \A x \in Ids : x \notin Listed(lists, n)
        BY <2>1 DEF PartialForest
    <2> QED
        BY <1>1, <2>2, ListedType
<1> QED
    BY <1>3, <1>4, <1>5, <1>6 DEF ImportInv

\* The invariant has the types.
LEMMA InvHasTypes ==
    ASSUME ImportInv
    PROVE  ImportTypeOK
<1>1. IsParents(parent) /\ lists \in ListsType /\ stray \in BOOLEAN
    BY DEF ImportInv, AreTables
<1>2. TypeOK
    BY <1>1, UnknownListNothing DEF TypeOK, IsParents, ListsType
<1>3. ASSUME import # Idle
      PROVE  /\ import.next \in {"nodes", "containments", "attach"}
             /\ import.left \subseteq DOMAIN import.attach
             /\ DOMAIN import.attach \subseteq DOMAIN import.rows
             /\ import.next # "nodes" => DOMAIN import.rows \subseteq DOMAIN parent
    <2>1. IsImport(import)
        BY <1>3 DEF ImportInv, Started, HalfCopied, Attaching
    <2>2. import.next # "nodes" => DOMAIN import.rows \subseteq DOMAIN parent
        BY <1>3, NextTells DEF HalfCopied, Attaching
    <2> DEFINE rows == import.rows
               at == import.attach
    <2>3. PICK f \in Forests : Grafted(f.parent, f.lists, rows, at)
        BY <2>1 DEF IsImport
    <2> HIDE DEF rows, at
    <2>4. DOMAIN at \subseteq DOMAIN rows
        BY <2>3, AttachPoint
    <2> QED
        BY <1>3, <2>1, <2>2, <2>4, NextTells DEF IsImport, rows, at
<1> QED
    BY <1>2, <1>3 DEF ImportTypeOK

\* And the trees.
LEMMA InvIsTree ==
    ASSUME ImportInv
    PROVE  TreeWhenIdle
BY IdleIsRight DEF TreeWhenIdle, ProperTree, Right

\* In a forest store does what is meant.
LEMMA InvStoresAsMeant ==
    ASSUME ImportInv
    PROVE  StoresAsMeantWhenIdle
BY IdleIsRight, ChunksAre, AfterIsMerged DEF StoresAsMeantWhenIdle, StoresAsMeant

\* What the queries find exists.
LEMMA RowsExist ==
    ASSUME NEW N, NEW limit \in Nat, Right(parent, lists)
    PROVE  {row[1] : row \in TreeRows(N, limit)} \in SUBSET DOMAIN parent
<1>1. IsParents(parent)
    BY DEF Right
<1>2. PICK level : /\ IsLevels(N, limit, level)
                   /\ TreeRows(N, limit) = UNION {level[d] \X {d} : d \in 0..limit}
    BY <1>1, RowsByLevel
<1>3. \A d \in 0..limit : level[d] \subseteq DOMAIN parent
    BY <1>2 DEF IsLevels
<1> QED
    BY <1>2, <1>3

\* The additional API asks no database for the trees of no nodes.
LEMMA NoTreesNoRows ==
    ASSUME NEW limit \in Nat, Right(parent, lists)
    PROVE  TreeRows({}, limit) = {}
<1>1. IsParents(parent)
    BY DEF Right
<1>2. PICK level : /\ IsLevels({}, limit, level)
                   /\ TreeRows({}, limit) = UNION {level[d] \X {d} : d \in 0..limit}
    BY <1>1, RowsByLevel
<1>3. \A d \in 0..limit : level[d] = {}
    <2> DEFINE T == {d \in Nat : d <= limit => level[d] = {}}
    <2>1. Descends({}, limit, level)
        BY <1>2, LevelsAre
    <2>2. 0 \in T
        BY <2>1 DEF Descends
    <2>3. ASSUME NEW d \in T PROVE d + 1 \in T
        <3> SUFFICES ASSUME d + 1 <= limit PROVE level[d + 1] = {}
            OBVIOUS
        <3>1. d + 1 \in 1..limit /\ (d + 1) - 1 = d /\ level[d] = {}
            OBVIOUS
        <3> QED
            BY <2>1, <3>1 DEF Descends
    <2> HIDE DEF T
    <2>4. T \in SUBSET Nat
        BY DEF T
    <2>5. T = Nat
        BY <2>2, <2>3, <2>4, SetOfNaturals
    <2> QED
        BY <2>5 DEF T
<1> QED
    BY <1>2, <1>3

\* In a forest retrieve finds the trees, and its chunks store nothing.
LEMMA InvRetrievesTrees ==
    ASSUME ImportInv
    PROVE  RetrievesTreesWhenIdle
<1> SUFFICES ASSUME import = Idle, ~stray
             PROVE  /\ RetrievesTrees
                    /\ \A N \in SUBSET Ids, limit \in 0..Unlimited : \A depth \in 0..limit :
                        {row[1] : row \in {r \in getNodeTree(N, limit) : r[2] <= depth}} = Reached(N, depth)
    BY DEF RetrievesTreesWhenIdle, RetrievesTrees
<1>1. Right(parent, lists) /\ IsTable(parent)
    BY IdleIsRight
<1>2. \A limit \in 0..Unlimited : limit \in Nat
    BY UnlimitedType
<1>3. ASSUME NEW N \in SUBSET DOMAIN parent
      PROVE  StoresNothing(FullNodes(N)) /\ DOMAIN FullNodes(N) = N
    <2>1. IsChunk(FullNodes(N)) /\ AsItIs(FullNodes(N)) /\ DOMAIN FullNodes(N) = N
        BY <1>1, FullNodesAre
    <2> QED
        BY <1>1, <2>1, AsItIsStoresNothing
<1>4. ASSUME NEW N \in SUBSET Ids, NEW limit \in 0..Unlimited
      PROVE  DOMAIN retrieve(N, limit) = Reached(N, limit) /\ StoresNothing(retrieve(N, limit))
    <2> DEFINE found == {row[1] : row \in TreeRows(N, limit)}
    <2>1. limit \in Nat /\ limit \in 0..limit
        BY <1>2
    <2>2. found \in SUBSET DOMAIN parent /\ found = Reached(N, limit)
        BY <1>1, <2>1, RowsExist, RowsReach
    <2>3. retrieve(N, limit) = FullNodes(found)
        BY DEF retrieve
    <2> HIDE DEF found
    <2> QED
        BY <1>3, <2>2, <2>3
<1>5. StoresNothing(listPartitions)
    <2>1. Roots(parent) \in SUBSET DOMAIN parent
        BY DEF Roots
    <2> QED
        BY <1>3, <2>1 DEF listPartitions
<1>6. ASSUME NEW N \in SUBSET Ids, NEW limit \in 0..Unlimited, NEW depth \in 0..limit
      PROVE  {row[1] : row \in {r \in getNodeTree(N, limit) : r[2] <= depth}} = Reached(N, depth)
    <2>1. limit \in Nat
        BY <1>2
    <2>2. {row[1] : row \in {r \in TreeRows(N, limit) : r[2] <= depth}} = Reached(N, depth)
        BY <1>1, <2>1, RowsReach
    <2>3. getNodeTree(N, limit) = TreeRows(N, limit)
        <3>1. CASE N = {}
            BY <1>1, <2>1, <3>1, NoTreesNoRows DEF getNodeTree
        <3>2. CASE N # {}
            BY <3>2 DEF getNodeTree
        <3> QED
            BY <3>1, <3>2
    <2> QED
        BY <2>2, <2>3
<1> QED
    BY <1>4, <1>5, <1>6 DEF RetrievesTrees

(***************************************************************************)
(* What the steps of an import do to the nodes that were there, and to     *)
(* what the tables name.                                                   *)
(***************************************************************************)
LEMMA PrefixOfItself ==
    ASSUME NEW s \in Seq(Ids)
    PROVE  IsPrefix(s, s)
<1>1. Len(s) <= Len(s)
    OBVIOUS
<1> QED
    BY <1>1 DEF IsPrefix

\* A list is a prefix of what an append makes of it.
LEMMA PrefixOfAppended ==
    ASSUME NEW s \in Seq(Ids), NEW x \in Ids
    PROVE  IsPrefix(s, Append(s, x))
<1>1. Len(s) <= Len(Append(s, x))
    OBVIOUS
<1>2. SubSeq(s, 1, Len(s)) = SubSeq(Append(s, x), 1, Len(s))
    OBVIOUS
<1> QED
    BY <1>1, <1>2 DEF IsPrefix

\* The steps of an import, and what each of them writes.
Writes(p, l) == parent' = p /\ lists' = l

\* What the steps write.
LEMMA ImportSteps ==
    ASSUME ImportInv, import # Idle, [ImportNext]_importVars
    PROVE  \/ /\ import.next = "nodes" /\ DOMAIN import.rows \intersect DOMAIN parent = {}
              /\ Writes(NodeRows, AnnotationColumn)
           \/ import.next = "containments" /\ Writes(parent, ContainmentRows)
           \/ import.next = "attach" /\ \E n : Attaches(n)
           \/ Writes(parent, lists)
<1>1. CASE CopyNodes
    BY <1>1 DEF CopyNodes, Writes, Rows
<1>2. CASE CopyContainments
    BY <1>2 DEF CopyContainments, Writes
<1>3. CASE Attach
    BY <1>3 DEF Attach, Attaches, Appended, Without
<1>4. CASE CopyNodesFails \/ Imported \/ Interrupted \/ UNCHANGED importVars
    BY <1>4 DEF CopyNodesFails, Imported, Interrupted, importVars, vars, tables, Writes
<1> QED
    BY <1>1, <1>2, <1>3, <1>4 DEF ImportNext, bulkImport

\* Node n, which existed, is as it was but for children at the end of its lists.
Stays(n) ==
    /\ n \in DOMAIN parent' /\ parent'[n] = parent[n]
    /\ \A k \in Places : IsPrefix(lists[<<n, k>>], lists'[<<n, k>>])

\* No step of an import touches a node that was there, but for an append to a list.
LEMMA StepsKeepOldNodes ==
    ASSUME ImportInv, import # Idle, [ImportNext]_importVars, NEW n \in DOMAIN parent,
           import.next # "nodes" => n \notin DOMAIN import.rows
    PROVE  Stays(n)
<1>1. n \in Ids /\ \A k \in Places : lists[<<n, k>>] \in Seq(Ids)
    BY DEF ImportInv, AreTables, IsParents, ListsType
<1> DEFINE rows == import.rows
<1>2. CASE import.next = "nodes" /\ DOMAIN rows \intersect DOMAIN parent = {}
           /\ Writes(NodeRows, AnnotationColumn)
    <2>1. n \notin DOMAIN rows
        BY <1>2
    <2>2. parent' = NodeRows /\ lists' = AnnotationColumn
        BY <1>2 DEF Writes
    <2>3. n \in DOMAIN parent' /\ parent'[n] = parent[n]
        BY <2>1, <2>2 DEF NodeRows, Rows
    <2>4. \A k \in Places : lists'[<<n, k>>] = lists[<<n, k>>]
        BY <1>1, <2>1, <2>2 DEF AnnotationColumn, Rows
    <2> QED
        BY <1>1, <2>3, <2>4, PrefixOfItself DEF Stays
<1>3. CASE import.next = "containments" /\ Writes(parent, ContainmentRows)
    <2>1. n \notin DOMAIN rows
        BY <1>3
    <2>2. parent' = parent /\ lists' = ContainmentRows
        BY <1>3 DEF Writes
    <2>3. \A k \in Places : lists'[<<n, k>>] = lists[<<n, k>>]
        BY <1>1, <2>1, <2>2 DEF ContainmentRows, Rows
    <2> QED
        BY <1>1, <2>2, <2>3, PrefixOfItself DEF Stays
<1>4. CASE import.next = "attach" /\ \E m : Attaches(m)
    <2>1. PICK m : Attaches(m)
        BY <1>4
    <2> DEFINE a == import.attach[m]
    <2>2. m \in Ids /\ a \in Ids \X Places
        BY <1>4, <2>1, AttachedTo
    <2>3. parent' = parent /\ (lists' = AppendChild(a, m) \/ lists' = lists)
        BY <2>1 DEF Attaches, Appended
    <2> HIDE DEF a
    <2>4. lists \in ListsType
        BY DEF ImportInv, AreTables
    <2>5. /\ \A y \in Ids, k \in Places : <<y, k>> # a => lists'[<<y, k>>] = lists[<<y, k>>]
          /\ lists'[a] = lists[a] \/ lists'[a] = Append(lists[a], m)
        BY <2>2, <2>3, <2>4, AppendChildIs
    <2>6. ASSUME NEW k \in Places
          PROVE  IsPrefix(lists[<<n, k>>], lists'[<<n, k>>])
        <3> DEFINE s == lists[<<n, k>>]
                   t == lists'[<<n, k>>]
        <3>1. t = s \/ t = Append(s, m)
            BY <1>1, <2>5
        <3>2. s \in Seq(Ids)
            BY <1>1
        <3> HIDE DEF s, t
        <3>3. IsPrefix(s, t)
            BY <2>2, <3>1, <3>2, PrefixOfItself, PrefixOfAppended
        <3> QED
            BY <3>3 DEF s, t
    <2> QED
        BY <2>3, <2>6 DEF Stays
<1>5. CASE Writes(parent, lists)
    BY <1>1, <1>5, PrefixOfItself DEF Writes, Stays
<1> QED
    BY <1>2, <1>3, <1>4, <1>5, ImportSteps

\* The same as an action property.
LEMMA StepsOldNodesStay ==
    ASSUME ImportInv, [ImportNext]_importVars
    PROVE  [import # Idle =>
            \A n \in DOMAIN parent \ (IF import.next = "nodes" THEN {} ELSE DOMAIN Rows) :
                /\ n \in DOMAIN parent' /\ parent'[n] = parent[n]
                /\ \A k \in Places : IsPrefix(lists[<<n, k>>], lists'[<<n, k>>])]_importVars
BY StepsKeepOldNodes DEF Stays, Rows

(***************************************************************************)
(* Nothing dangles: what tables p and l name, p has.                       *)
(***************************************************************************)
Complete(p, l) ==
    /\ \A n \in Ids, k \in Places : \A x : Lists(l, n, k, x) => n \in DOMAIN p /\ x \in DOMAIN p
    /\ \A n \in DOMAIN p : p[n] \in DOMAIN p \union {None}

\* Complete is NothingDangling.
LEMMA CompleteMeans ==
    ASSUME NEW p, NEW l
    PROVE  Complete(p, l) <=>
            /\ \A n \in Ids : Listed(l, n) # {} => n \in DOMAIN p /\ Listed(l, n) \subseteq DOMAIN p
            /\ \A n \in DOMAIN p : p[n] \in DOMAIN p \union {None}
<1>1. (\A n \in Ids, k \in Places : \A x : Lists(l, n, k, x) => n \in DOMAIN p /\ x \in DOMAIN p)
      <=> \A n \in Ids : \A x : x \in Listed(l, n) => n \in DOMAIN p /\ x \in DOMAIN p
    BY ListedMeans
<1>2. (\A n \in Ids : \A x : x \in Listed(l, n) => n \in DOMAIN p /\ x \in DOMAIN p)
      <=> \A n \in Ids : Listed(l, n) # {} => n \in DOMAIN p /\ Listed(l, n) \subseteq DOMAIN p
    OBVIOUS
<1> QED
    BY <1>1, <1>2 DEF Complete

\* The rows of an import name rows and containers only.
LEMMA RowsAreComplete ==
    ASSUME NEW imp, IsImport(imp)
    PROVE  /\ \A n \in DOMAIN imp.rows, k \in Places :
                ToSet(imp.rows[n].lists[k]) \subseteq DOMAIN imp.rows
           /\ \A n \in DOMAIN imp.rows : imp.rows[n].parent \in
                DOMAIN imp.rows \union {None} \union {imp.attach[m][1] : m \in DOMAIN imp.attach}
<1> DEFINE rows == imp.rows
           at == imp.attach
<1>1. PICK f \in Forests : Grafted(f.parent, f.lists, rows, at)
    BY DEF IsImport
<1> DEFINE p == f.parent
           l == f.lists
<1>2. Grafted(p, l, rows, at) /\ Right(p, l) /\ DOMAIN rows = DOMAIN p /\ DOMAIN rows \subseteq Ids
    BY <1>1, GraftedFacts
<1> HIDE DEF rows, at, p, l
<1>3. ASSUME NEW n \in DOMAIN rows, NEW k \in Places, NEW x \in ToSet(rows[n].lists[k])
      PROVE  x \in DOMAIN rows
    <2>1. Lists(l, n, k, x)
        BY <1>2, <1>3 DEF Grafted, Lists
    <2> QED
        BY <1>2, <1>3, <2>1, ListsFacts
<1>4. ASSUME NEW n \in DOMAIN rows
      PROVE  rows[n].parent \in DOMAIN rows \union {None} \union {at[m][1] : m \in DOMAIN at}
    <2>1. CASE n \in DOMAIN at
        BY <1>2, <2>1 DEF Grafted
    <2>2. CASE n \notin DOMAIN at
        <3>1. rows[n].parent = p[n]
            BY <1>2, <2>2 DEF Grafted
        <3>2. p[n] # None => p[n] \in DOMAIN p
            BY <1>2, ParentLists
        <3> QED
            BY <1>2, <3>1, <3>2
    <2> QED
        BY <2>1, <2>2
<1>5. /\ \A n \in DOMAIN rows, k \in Places : ToSet(rows[n].lists[k]) \subseteq DOMAIN rows
      /\ \A n \in DOMAIN rows :
            rows[n].parent \in DOMAIN rows \union {None} \union {at[m][1] : m \in DOMAIN at}
    BY <1>3, <1>4
<1> QED
    BY <1>5 DEF rows, at

\* Every step of an import keeps the tables complete: rows come before what names them.
LEMMA StepsKeepComplete ==
    ASSUME ImportInv, import # Idle, [ImportNext]_importVars, HasContainers, Complete(parent, lists)
    PROVE  Complete(parent', lists')
<1> DEFINE rows == import.rows
           at == import.attach
<1>1. IsImport(import)
    BY DEF ImportInv, Started, HalfCopied, Attaching
<1>2. \A n \in DOMAIN rows, k \in Places : ToSet(rows[n].lists[k]) \subseteq DOMAIN rows
    BY <1>1, RowsAreComplete
<1>3. \A n \in DOMAIN rows : rows[n].parent \in DOMAIN rows \union {None} \union DOMAIN parent
    <2>1. {at[m][1] : m \in DOMAIN at} \subseteq DOMAIN parent
        BY DEF HasContainers
    <2> QED
        BY <1>1, <2>1, RowsAreComplete
<1>4. CASE Writes(NodeRows, AnnotationColumn)
    <2>1. parent' = [n \in DOMAIN parent \union DOMAIN rows |->
                        IF n \in DOMAIN rows THEN rows[n].parent ELSE parent[n]]
        BY <1>4 DEF Writes, NodeRows, Rows
    <2>2. ASSUME NEW n \in Ids, NEW k \in Places
          PROVE  lists'[<<n, k>>] = IF n \in DOMAIN rows /\ k = Annotations
                                    THEN rows[n].lists[k] ELSE lists[<<n, k>>]
        BY <1>4 DEF Writes, AnnotationColumn, Rows
    <2> HIDE DEF rows
    <2>3. ASSUME NEW n \in Ids, NEW k \in Places, NEW x, Lists(lists', n, k, x)
          PROVE  n \in DOMAIN parent' /\ x \in DOMAIN parent'
        <3>1. CASE n \in DOMAIN rows /\ k = Annotations
            <4>1. x \in ToSet(rows[n].lists[k])
                BY <2>2, <2>3, <3>1 DEF Lists
            <4> QED
                BY <1>2, <2>1, <3>1, <4>1
        <3>2. CASE ~(n \in DOMAIN rows /\ k = Annotations)
            <4>1. Lists(lists, n, k, x)
                BY <2>2, <2>3, <3>2 DEF Lists
            <4> QED
                BY <2>1, <4>1 DEF Complete
        <3> QED
            BY <3>1, <3>2
    <2>4. \A n \in DOMAIN parent' : parent'[n] \in DOMAIN parent' \union {None}
        BY <1>3, <2>1 DEF Complete
    <2> QED
        BY <2>3, <2>4 DEF Complete
<1>5. CASE import.next = "containments" /\ Writes(parent, ContainmentRows)
    <2>1. parent' = parent /\ DOMAIN rows \subseteq DOMAIN parent
        BY <1>5, NextTells DEF Writes, HalfCopied
    <2>2. ASSUME NEW n \in Ids, NEW k \in Places
          PROVE  lists'[<<n, k>>] = IF n \in DOMAIN rows /\ k # Annotations
                                    THEN rows[n].lists[k] ELSE lists[<<n, k>>]
        BY <1>5 DEF Writes, ContainmentRows, Rows
    <2> HIDE DEF rows
    <2>3. ASSUME NEW n \in Ids, NEW k \in Places, NEW x, Lists(lists', n, k, x)
          PROVE  n \in DOMAIN parent /\ x \in DOMAIN parent
        <3>1. CASE n \in DOMAIN rows /\ k # Annotations
            <4>1. x \in ToSet(rows[n].lists[k])
                BY <2>2, <2>3, <3>1 DEF Lists
            <4> QED
                BY <1>2, <2>1, <3>1, <4>1
        <3>2. CASE ~(n \in DOMAIN rows /\ k # Annotations)
            <4>1. Lists(lists, n, k, x)
                BY <2>2, <2>3, <3>2 DEF Lists
            <4> QED
                BY <4>1 DEF Complete
        <3> QED
            BY <3>1, <3>2
    <2> QED
        BY <2>1, <2>3 DEF Complete
<1>6. CASE import.next = "attach" /\ \E n : Attaches(n)
    <2>1. PICK n : Attaches(n)
        BY <1>6
    <2> DEFINE a == at[n]
               c == a[1]
               j == a[2]
    <2>2. /\ Attaching /\ n \in Ids /\ n \in DOMAIN rows /\ a \in Ids \X Places
          /\ c \in Ids /\ j \in Places /\ a = <<c, j>>
        <3>1. /\ Attaching /\ n \in Ids /\ n \in DOMAIN rows /\ a \in Ids \X Places
              /\ c \in Ids \ DOMAIN rows /\ j \in Containments /\ a = <<c, j>>
            BY <1>6, <2>1, AttachedTo
        <3> QED
            BY <3>1 DEF Places
    <2>3. c \in DOMAIN parent /\ n \in DOMAIN parent
        <3>1. n \in DOMAIN at
            BY <1>1, <2>1 DEF Attaches, IsImport
        <3>2. c \in DOMAIN parent
            BY <3>1 DEF HasContainers
        <3> QED
            BY <2>2, <3>2 DEF Attaching
    <2>4. parent' = parent /\ (lists' = AppendChild(a, n) \/ lists' = lists)
        BY <2>1 DEF Attaches, Appended
    <2> HIDE DEF a, c, j, rows, at
    <2>5. lists \in ListsType
        BY DEF ImportInv, AreTables
    <2>6. /\ \A y \in Ids, k \in Places : <<y, k>> # a => lists'[<<y, k>>] = lists[<<y, k>>]
          /\ lists'[a] = lists[a] \/ lists'[a] = Append(lists[a], n)
        <3>1. CASE lists' = AppendChild(a, n)
            BY <2>2, <2>5, <3>1, AppendChildIs
        <3>2. CASE lists' = lists
            BY <3>2
        <3> QED
            BY <2>4, <3>1, <3>2
    <2>7. ASSUME NEW y \in Ids, NEW k \in Places, NEW x, Lists(lists', y, k, x)
          PROVE  y \in DOMAIN parent /\ x \in DOMAIN parent
        <3>1. CASE <<y, k>> = a /\ lists'[a] = Append(lists[a], n)
            <4> DEFINE s == lists[a]
            <4>1. s \in Seq(Ids)
                BY <2>2, <2>5 DEF ListsType
            <4>2. lists'[a] = Append(s, n)
                BY <2>6, <3>1
            <4>3. ToSet(Append(s, n)) = ToSet(s) \union {n}
                <5> HIDE DEF s
                <5> QED
                    BY <2>2, <4>1, AppendItems
            <4>4. y = c
                BY <2>2, <3>1
            <4>5. x \in ToSet(lists'[a])
                BY <2>7, <3>1 DEF Lists
            <4>6. x = n \/ x \in ToSet(lists[a])
                BY <4>2, <4>3, <4>5
            <4>7. y = c /\ (x = n \/ Lists(lists, y, k, x))
                BY <3>1, <4>4, <4>6 DEF Lists
            <4> QED
                BY <2>3, <4>7 DEF Complete
        <3>2. CASE ~(<<y, k>> = a /\ lists'[a] = Append(lists[a], n))
            <4>1. lists'[<<y, k>>] = lists[<<y, k>>]
                BY <2>6, <3>2
            <4>2. Lists(lists, y, k, x)
                BY <2>7, <4>1 DEF Lists
            <4> QED
                BY <4>2 DEF Complete
        <3> QED
            BY <3>1, <3>2
    <2> QED
        BY <2>4, <2>7 DEF Complete
<1>7. CASE Writes(parent, lists)
    BY <1>7 DEF Writes
<1> QED
    BY <1>4, <1>5, <1>6, <1>7, ImportSteps

\* The same as an action property.
LEMMA StepsLeaveNothingDangling ==
    ASSUME ImportInv, [ImportNext]_importVars
    PROVE  [import # Idle /\ HasContainers /\ NothingDangling => NothingDangling']_importVars
<1> SUFFICES ASSUME import # Idle, HasContainers, NothingDangling PROVE NothingDangling'
    OBVIOUS
<1>1. Complete(parent, lists)
    BY CompleteMeans DEF NothingDangling
<1>2. Complete(parent', lists')
    BY <1>1, StepsKeepComplete
<1>3. /\ \A n \in Ids : Listed(lists', n) # {} =>
            n \in DOMAIN parent' /\ Listed(lists', n) \subseteq DOMAIN parent'
      /\ \A n \in DOMAIN parent' : parent'[n] \in DOMAIN parent' \union {None}
    BY <1>2, CompleteMeans
<1>4. \A n : Listed(lists', n) = Listed(lists, n)'
    BY DEF Listed
<1> QED
    BY <1>3, <1>4 DEF NothingDangling

(***************************************************************************)
(* The theorems.                                                           *)
(***************************************************************************)
\* However requests and imports follow each other, wherever an import is
\* interrupted, and whatever a chunk says, the tables have their types; and as long as
\* no request was a stray one, a node that was deleted leaves no row of a containment
\* behind (BulkApiWorker.ts and ImportLogic.ts).
THEOREM ImportTypesAreRight == ImportSpec => []ImportTypeOK
<1>1. ImportInit => ImportInv
    BY ImportInvInit
<1>2. ImportInv /\ [ImportNext]_importVars => ImportInv'
    BY ImportInvNext
<1>3. ImportInv => ImportTypeOK
    BY InvHasTypes
<1> QED
    BY <1>1, <1>2, <1>3, PTL DEF ImportSpec

\* The parent column and the containments tell of the same trees when a request or an
\* import is over: createPartitions, deletePartitions and store leave every node
\* listed once and by its parent, and so do the three COPYs and the updates of an
\* import that was not interrupted and whose attach points have children.
THEOREM TreesStayTrees == ImportSpec => []TreeWhenIdle
<1>1. ImportInit => ImportInv
    BY ImportInvInit
<1>2. ImportInv /\ [ImportNext]_importVars => ImportInv'
    BY ImportInvNext
<1>3. ImportInv => TreeWhenIdle
    BY InvIsTree
<1> QED
    BY <1>1, <1>2, <1>3, PTL DEF ImportSpec

\* In every tree that requests and imports leave, what store derives from the
\* differences between a chunk and the nodes it holds (LionWebQueries.ts) is what the
\* chunk means, but for the kinds of chunks that Mistreated names: these are all the
\* kinds there are.
THEOREM StoreDoesWhatIsMeant == ImportSpec => []StoresAsMeantWhenIdle
<1>1. ImportInit => ImportInv
    BY ImportInvInit
<1>2. ImportInv /\ [ImportNext]_importVars => ImportInv'
    BY ImportInvNext
<1>3. ImportInv => StoresAsMeantWhenIdle
    BY InvStoresAsMeant
<1> QED
    BY <1>1, <1>2, <1>3, PTL DEF ImportSpec

\* A retrieve to any depth, which goes by the parent column, finds what the lists name
\* down to that depth; the additional API tells the same depths; and storing again
\* what was retrieved, to whatever depth, is accepted and changes nothing.
THEOREM RetrieveFindsTrees == ImportSpec => []RetrievesTreesWhenIdle
<1>1. ImportInit => ImportInv
    BY ImportInvInit
<1>2. ImportInv /\ [ImportNext]_importVars => ImportInv'
    BY ImportInvNext
<1>3. ImportInv => RetrievesTreesWhenIdle
    BY InvRetrievesTrees
<1> QED
    BY <1>1, <1>2, <1>3, PTL DEF ImportSpec

\* No step of an import, nor its end at any point, changes a node that was there but
\* for children at the end of a containment (ImportLogic.ts and
\* makeQueryToAttachNode()).
THEOREM ImportsSpareOldNodes == ImportSpec => OldNodesStay
<1>1. ImportInit => ImportInv
    BY ImportInvInit
<1>2. ImportInv /\ [ImportNext]_importVars => ImportInv'
    BY ImportInvNext
<1>3. ImportInv /\ [ImportNext]_importVars =>
        [import # Idle =>
            \A n \in DOMAIN parent \ (IF import.next = "nodes" THEN {} ELSE DOMAIN Rows) :
                /\ n \in DOMAIN parent' /\ parent'[n] = parent[n]
                /\ \A k \in Places : IsPrefix(lists[<<n, k>>], lists'[<<n, k>>])]_importVars
    BY StepsOldNodesStay
<1> QED
    BY <1>1, <1>2, <1>3, PTL DEF ImportSpec, OldNodesStay

\* The COPYs of an import come in an order that leaves nothing dangling in between:
\* if the process ends after any of them, no list names a node that is not there, and
\* no parent is missing, as long as the containers of the attach points exist.
THEOREM CrashesLeaveNothingDangling == ImportSpec => ImportLeavesNothingDangling
<1>1. ImportInit => ImportInv
    BY ImportInvInit
<1>2. ImportInv /\ [ImportNext]_importVars => ImportInv'
    BY ImportInvNext
<1>3. ImportInv /\ [ImportNext]_importVars =>
        [import # Idle /\ HasContainers /\ NothingDangling => NothingDangling']_importVars
    BY StepsLeaveNothingDangling
<1> QED
    BY <1>1, <1>2, <1>3, PTL DEF ImportSpec, ImportLeavesNothingDangling
====================================================================================
