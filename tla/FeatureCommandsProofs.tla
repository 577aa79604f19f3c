-------------------------- MODULE FeatureCommandsProofs --------------------------
(***************************************************************************)
(* Proofs about FeatureCommands: in every version of a repository a key has*)
(* one row, the view of the current rows is the last version, features are *)
(* of nodes that exist, and what the history API answers about a version   *)
(* never changes; and a command does to what the repository holds, now and *)
(* in earlier versions, what module RepositoryHistory says; for any sets of*)
(* ids, metapointers and values, with and without history.                 *)
(*                                                                         *)
(* Every statement ends the current rows with some keys K and makes rows   *)
(* with some keys D.  Lemma Replacing is about one table and one such      *)
(* change; what is left for the commands is to say which K and D are theirs*)
(* and that no row is made for a key that keeps its own.                   *)
(***************************************************************************)
EXTENDS FeatureCommands, SequenceTheorems, TLAPS

\* Table t in version v after the current rows with keys in K were ended and rows
\* with the keys D were made.
Replaced(t, K, D, x, v) ==
    Ended(history, t, K, v) \union {Row(k, IF history THEN v ELSE 0, x[k]) : k \in D}

\* No row of t begins after version v or ends in a later one; without history all
\* rows are current from version 0; in no version up to v a key has two rows.
Versioned(t, v) ==
    /\ \A r \in t : /\ r.from <= v
                    /\ r.to = Forever \/ (history /\ r.to < v)
                    /\ ~history => r.from = 0
    /\ \A w \in 0..v : UniqueKeys(AsOf(t, w))

\* What table t tells of version v.
Facts(t, v) == {<<r.key, r.value>> : r \in AsOf(t, v)}

LEMMA RowFields ==
    ASSUME NEW k, NEW first, NEW x
    PROVE  /\ Row(k, first, x).key = k /\ Row(k, first, x).from = first
           /\ Row(k, first, x).to = Forever /\ Row(k, first, x).value = x
BY DEF Row

LEMMA CloseFields ==
    ASSUME NEW K, NEW V, NEW r \in Rows(K, V), NEW v \in Int
    PROVE  /\ Close(r, v) \in Rows(K, V)
           /\ Close(r, v).key = r.key /\ Close(r, v).from = r.from
           /\ Close(r, v).to = v - 1 /\ Close(r, v).value = r.value
BY DEF Rows, Close

\* The current rows are those of the last version.
LEMMA CurrentRows ==
    ASSUME NEW K, NEW V, NEW t, t \subseteq Rows(K, V), NEW v \in 0..MaxVersion, Versioned(t, v)
    PROVE  AsOf(t, v) = Current(t)
<1> USE MaxVersionAssumption, ForeverAssumption
<1>1. ASSUME NEW r \in t PROVE (r.from <= v /\ r.to >= v) <=> r.to = Forever
    <2>1. r.from <= v /\ (r.to = Forever \/ r.to < v) /\ r.to \in Int
        BY DEF Rows, Versioned
    <2> QED
        BY <2>1
<1> QED
    BY <1>1 DEF AsOf, Current

\* A key has one current row.
LEMMA CurrentUnique ==
    ASSUME NEW K, NEW V, NEW t, t \subseteq Rows(K, V), NEW v \in 0..MaxVersion, Versioned(t, v)
    PROVE  UniqueKeys(Current(t))
<1>1. v \in 0..v
    BY MaxVersionAssumption
<1> QED
    BY <1>1, CurrentRows DEF Versioned

\* The value of a key that has a current row.
LEMMA ValueOfCurrent ==
    ASSUME NEW K, NEW V, NEW t, t \subseteq Rows(K, V), NEW k \in Keys(Current(t))
    PROVE  Value(t, k) \in V
<1>1. PICK r \in Current(t) : r.key = k
    BY DEF Keys
<1> DEFINE c == CHOOSE q \in Current(t) : q.key = k
<1>2. c \in Current(t)
    BY <1>1
<1>3. c.value \in V
    BY <1>2 DEF Current, Rows
<1> QED
    BY <1>3 DEF Value, Contents

\* u is table t, with keys in Ks and values in V, one version later.
Succeeds(t, u, Ks, V) ==
    /\ u \subseteq Rows(Ks, V)
    /\ Versioned(u, version + 1)
    /\ history => \A w \in 0..version : Facts(u, w) = Facts(t, w)

\* What the statements of a transaction may assume of a table.
Ready(t, Ks, V) ==
    /\ history \in BOOLEAN
    /\ version \in 0..MaxVersion /\ version < MaxVersion
    /\ t \subseteq Rows(Ks, V)
    /\ Versioned(t, version)

\* One change of a table.
LEMMA Replacing ==
    ASSUME NEW Ks, NEW V, NEW t, Ready(t, Ks, V),
           NEW K, NEW D, D \subseteq Ks, NEW x, \A k \in D : x[k] \in V,
           \A k \in D : k \in Keys(Current(t)) => k \in K,
           NEW u, u = Replaced(t, K, D, x, version + 1)
    PROVE  /\ Succeeds(t, u, Ks, V)
           /\ Keys(Current(u)) = (Keys(Current(t)) \ K) \union D
<1>0. /\ history \in BOOLEAN
      /\ version \in 0..MaxVersion /\ version < MaxVersion
      /\ t \subseteq Rows(Ks, V)
      /\ Versioned(t, version)
    BY DEF Ready
<1> USE MaxVersionAssumption, ForeverAssumption, <1>0
<1> DEFINE first == IF history THEN version + 1 ELSE 0
           gone == {r \in t : r.to = Forever /\ r.key \in K}
           old == IF history THEN {Close(r, version + 1) : r \in gone} ELSE {}
           new == {Row(k, first, x[k]) : k \in D}
<1>1. u = (t \ gone) \union old \union new
    BY DEF Replaced, Ended, Current
<1>2. \A r \in t : /\ r \in Rows(Ks, V)
                   /\ r.key \in Ks /\ r.from \in 0..MaxVersion /\ r.to \in Int /\ r.value \in V
                   /\ r.from <= version /\ (r.to = Forever \/ (history /\ r.to < version))
                   /\ (~history => r.from = 0)
    BY DEF Rows, Versioned
<1>3. \A r \in gone : /\ Close(r, version + 1) \in Rows(Ks, V)
                      /\ Close(r, version + 1).key = r.key /\ Close(r, version + 1).from = r.from
                      /\ Close(r, version + 1).to = version /\ Close(r, version + 1).value = r.value
    <2> TAKE r \in gone
    <2> DEFINE w == version + 1
    <2>1. r \in Rows(Ks, V) /\ w \in Int /\ w - 1 = version
        BY <1>2
    <2> HIDE DEF w
    <2>2. /\ Close(r, w) \in Rows(Ks, V)
          /\ Close(r, w).key = r.key /\ Close(r, w).from = r.from
          /\ Close(r, w).to = w - 1 /\ Close(r, w).value = r.value
        BY <2>1, CloseFields
    <2> QED
        BY <2>1, <2>2 DEF w
<1>4. \A k \in D : /\ Row(k, first, x[k]) \in Rows(Ks, V)
                   /\ Row(k, first, x[k]).key = k /\ Row(k, first, x[k]).from = first
                   /\ Row(k, first, x[k]).to = Forever
    BY DEF Row, Rows
<1> HIDE DEF first
<1>5. u \subseteq Rows(Ks, V)
    BY <1>1, <1>2, <1>3, <1>4
<1>6. \A r \in u : /\ r.from <= version + 1
                   /\ r.to = Forever \/ (history /\ r.to < version + 1)
                   /\ ~history => r.from = 0
    <2> TAKE r \in u
    <2>1. CASE r \in t
        BY <2>1, <1>2
    <2>2. CASE r \in old
        BY <2>2, <1>2, <1>3
    <2>3. CASE r \in new
        BY <2>3, <1>4 DEF first
    <2> QED
        BY <1>1, <2>1, <2>2, <2>3
<1>7. Keys(Current(u)) = (Keys(Current(t)) \ K) \union D
    <2>1. Current(u) = {r \in t : r.to = Forever /\ r.key \notin K} \union new
        BY <1>1, <1>3, <1>4 DEF Current
    <2>2. ASSUME NEW k PROVE k \in Keys(Current(u)) <=> k \in (Keys(Current(t)) \ K) \union D
        BY <2>1, <1>4 DEF Keys, Current
    <2> QED
        BY <2>2
<1>8. UniqueKeys(Current(u))
    <2>1. Current(u) = {r \in Current(t) : r.key \notin K} \union new
        BY <1>1, <1>3, <1>4 DEF Current
    <2>2. UniqueKeys(Current(t))
        BY CurrentUnique
    <2>3. ASSUME NEW r \in Current(u), NEW s \in Current(u), r.key = s.key PROVE r = s
        <3>1. CASE r \notin new /\ s \notin new
            BY <3>1, <2>1, <2>2, <2>3 DEF UniqueKeys
        <3>2. CASE r \in new /\ s \in new
            BY <3>2, <2>3, <1>4
        <3>3. CASE r \in new /\ s \notin new
            BY <3>3, <2>1, <2>3, <1>4 DEF Keys
        <3>4. CASE r \notin new /\ s \in new
            BY <3>4, <2>1, <2>3, <1>4 DEF Keys
        <3> QED
            BY <3>1, <3>2, <3>3, <3>4
    <2> QED
        BY <2>3 DEF UniqueKeys
\* A row of u that holds in a version up to version is one of t, or was closed in it.
<1>9. ASSUME NEW w \in 0..version, history
      PROVE  AsOf(u, w) = {r \in AsOf(t, w) : r \notin gone}
                            \union {Close(r, version + 1) : r \in AsOf(t, w) \intersect gone}
    <2>1. ASSUME NEW r \in gone
          PROVE  Close(r, version + 1) \in AsOf(u, w) <=> r \in AsOf(t, w)
        BY <2>1, <1>1, <1>2, <1>3, <1>9 DEF AsOf
    <2>2. ASSUME NEW r \in new PROVE r \notin AsOf(u, w)
        BY <2>2, <1>4, <1>9 DEF AsOf, first
    <2>3. ASSUME NEW r \in t, r \notin gone PROVE r \in AsOf(u, w) <=> r \in AsOf(t, w)
        BY <2>3, <1>1 DEF AsOf
    <2>4. AsOf(u, w) \subseteq u /\ AsOf(t, w) \subseteq t
        BY DEF AsOf
    <2>5. old = {Close(r, version + 1) : r \in gone}
        BY <1>9
    <2> HIDE DEF gone, new, old
    <2> QED
        BY <2>1, <2>2, <2>3, <2>4, <2>5, <1>1
<1>10. ASSUME history PROVE \A w \in 0..version : Facts(u, w) = Facts(t, w)
    <2> TAKE w \in 0..version
    <2>1. \A r \in gone : Close(r, version + 1).key = r.key /\ Close(r, version + 1).value = r.value
        BY <1>3
    <2> HIDE DEF gone
    <2> QED
        BY <1>9, <1>10, <2>1 DEF Facts
<1>11. \A w \in 0..version + 1 : UniqueKeys(AsOf(u, w))
    <2> TAKE w \in 0..version + 1
    <2>1. CASE history /\ w \in 0..version
        <3>1. UniqueKeys(AsOf(t, w))
            BY <2>1 DEF Versioned
        <3>2. \A r \in gone : Close(r, version + 1).key = r.key
            BY <1>3
        <3> HIDE DEF gone
        <3> QED
            BY <2>1, <1>9, <3>1, <3>2 DEF UniqueKeys
    <2>2. CASE ~history \/ w = version + 1
        <3>1. AsOf(u, w) \subseteq Current(u)
            <4>1. ASSUME NEW r \in u, r.to >= w PROVE r.to = Forever
                BY <4>1, <2>2, <1>5, <1>6 DEF Rows
            <4> QED
                BY <4>1 DEF AsOf, Current
        <3> QED
            BY <3>1, <1>8 DEF UniqueKeys
    <2> QED
        BY <2>1, <2>2
<1> QED
    BY <1>5, <1>6, <1>7, <1>10, <1>11 DEF Versioned, Succeeds

(***************************************************************************)
(* The statements as replacements.                                         *)
(***************************************************************************)
LEMMA KeptSucceeds ==
    ASSUME NEW Ks, NEW V, NEW t, Ready(t, Ks, V)
    PROVE  Succeeds(t, t, Ks, V)
<1>1. Replaced(t, {}, {}, <<>>, version + 1) = t
    BY DEF Replaced, Ended, Current
<1> QED
    BY <1>1, Replacing

LEMMA EndedSucceeds ==
    ASSUME NEW Ks, NEW V, NEW t, Ready(t, Ks, V), NEW K
    PROVE  LET u == Ended(history, t, K, version + 1) IN
           /\ Succeeds(t, u, Ks, V)
           /\ Keys(Current(u)) = Keys(Current(t)) \ K
<1> DEFINE u == Ended(history, t, K, version + 1)
           r == Replaced(t, K, {}, <<>>, version + 1)
<1>1. r = u
    BY DEF Replaced
<1>2. Succeeds(t, r, Ks, V) /\ Keys(Current(r)) = (Keys(Current(t)) \ K) \union {}
    <2> DEFINE D == {}
    <2>1. D \subseteq Ks /\ (\A k \in D : <<>>[k] \in V)
          /\ (\A k \in D : k \in Keys(Current(t)) => k \in K)
        OBVIOUS
    <2>2. r = Replaced(t, K, D, <<>>, version + 1)
        OBVIOUS
    <2> HIDE DEF r, D
    <2>3. Succeeds(t, r, Ks, V) /\ Keys(Current(r)) = (Keys(Current(t)) \ K) \union D
        BY <2>1, <2>2, Replacing
    <2> QED
        BY <2>3 DEF D
<1> HIDE DEF u, r
<1>3. Succeeds(t, u, Ks, V) /\ Keys(Current(u)) = Keys(Current(t)) \ K
    BY <1>1, <1>2
<1> QED
    BY <1>3 DEF u

LEMMA InsertAllSucceeds ==
    ASSUME NEW Ks, NEW V, NEW t, Ready(t, Ks, V),
           NEW x, DOMAIN x \subseteq Ks, \A k \in DOMAIN x : x[k] \in V,
           \A k \in DOMAIN x : k \notin Keys(Current(t))
    PROVE  LET u == InsertAll(history, t, x, nextRepoVersion) IN
           /\ Succeeds(t, u, Ks, V)
           /\ Keys(Current(u)) = Keys(Current(t)) \union DOMAIN x
<1> DEFINE u == InsertAll(history, t, x, nextRepoVersion)
           r == Replaced(t, {}, DOMAIN x, x, version + 1)
<1>1. r = u
    BY DEF Replaced, Ended, Current, InsertAll, nextRepoVersion
<1>2. Succeeds(t, r, Ks, V) /\ Keys(Current(r)) = (Keys(Current(t)) \ {}) \union DOMAIN x
    BY Replacing
<1> HIDE DEF u, r
<1>3. Succeeds(t, u, Ks, V) /\ Keys(Current(u)) = Keys(Current(t)) \union DOMAIN x
    BY <1>1, <1>2
<1> QED
    BY <1>3 DEF u

LEMMA InsertedSucceeds ==
    ASSUME NEW Ks, NEW V, NEW t, Ready(t, Ks, V),
           NEW k \in Ks, k \notin Keys(Current(t)), NEW x \in V
    PROVE  /\ Succeeds(t, Inserted(t, k, x), Ks, V)
           /\ Keys(Current(Inserted(t, k, x))) = Keys(Current(t)) \union {k}
<1> DEFINE y == [q \in {k} |-> x]
           r == Replaced(t, {}, {k}, y, version + 1)
<1>1. r = Inserted(t, k, x)
    BY DEF Replaced, Ended, Current, Inserted, Insert, nextRepoVersion
<1>2. Succeeds(t, r, Ks, V) /\ Keys(Current(r)) = (Keys(Current(t)) \ {}) \union {k}
    <2>1. \A q \in {k} : y[q] \in V
        OBVIOUS
    <2> HIDE DEF y
    <2> QED
        BY <2>1, Replacing
<1> HIDE DEF r
<1> QED
    BY <1>1, <1>2

LEMMA UpdatedSucceeds ==
    ASSUME NEW Ks, NEW V, NEW t, Ready(t, Ks, V), NEW k \in Ks, NEW x \in V
    PROVE  /\ Succeeds(t, UpdatedTo(t, k, x), Ks, V)
           /\ Keys(Current(UpdatedTo(t, k, x))) = Keys(Current(t))
<1> DEFINE y == [q \in {k} |-> x]
           r == Replaced(t, {k}, {k}, y, version + 1)
<1>1. CASE k \in Keys(Current(t))
    <2>1. r = UpdatedTo(t, k, x)
        BY <1>1 DEF Replaced, UpdatedTo, Update, Insert, nextRepoVersion
    <2>2. Succeeds(t, r, Ks, V) /\ Keys(Current(r)) = (Keys(Current(t)) \ {k}) \union {k}
        <3> DEFINE K == {k}
        <3>1. K \subseteq Ks /\ (\A q \in K : y[q] \in V) /\ k \in K
            OBVIOUS
        <3> HIDE DEF y, K
        <3>2. LET w == Replaced(t, K, K, y, version + 1) IN
              Succeeds(t, w, Ks, V) /\ Keys(Current(w)) = (Keys(Current(t)) \ K) \union K
            BY <3>1, Replacing
        <3> QED
            BY <3>2 DEF K
    <2> HIDE DEF r
    <2> QED
        BY <1>1, <2>1, <2>2
<1>2. CASE k \notin Keys(Current(t))
    <2>1. UpdatedTo(t, k, x) = t
        BY <1>2 DEF UpdatedTo, Update
    <2> QED
        BY <2>1, KeptSucceeds
<1> QED
    BY <1>1, <1>2

\* With history a DELETE may end more than the keys K, and never fewer.
LEMMA WithoutSucceeds ==
    ASSUME NEW Ks, NEW V, NEW t, Ready(t, Ks, V), NEW K
    PROVE  /\ Succeeds(t, Without(t, K), Ks, V)
           /\ Keys(Current(Without(t, K))) \subseteq Keys(Current(t)) \ K
<1> DEFINE N == {k[1] : k \in K \intersect Keys(Current(t))}
           E == IF history THEN OfNodes(t, N) ELSE K
           u == Ended(history, t, E, version + 1)
<1>1. Without(t, K) = u
    BY DEF Without, DeleteFeatures, nextRepoVersion
<1>2. Succeeds(t, u, Ks, V) /\ Keys(Current(u)) = Keys(Current(t)) \ E
    <2> HIDE DEF E
    <2> QED
        BY EndedSucceeds
<1>3. ASSUME NEW k \in Keys(Current(t)), k \in K PROVE k \in E
    BY <1>3 DEF OfNodes, Keys, Current
<1> HIDE DEF E, u
<1> QED
    BY <1>1, <1>2, <1>3

\* Feature k becomes x, or is gone.
LEMMA ChangedSucceeds ==
    ASSUME NEW Ks, NEW V, NEW t, Ready(t, Ks, V),
           NEW k \in Ks, NEW x, NEW gone \in BOOLEAN, gone \/ x \in V,
           NEW u, u = Changed(t, k, x, FeatureMissing(t, k, gone))
    PROVE  /\ Succeeds(t, u, Ks, V)
           /\ Keys(Current(u)) \subseteq Keys(Current(t)) \union {k}
<1>1. CASE gone
    <2>1. Changed(t, k, x, FeatureMissing(t, k, gone)) = Without(t, {k})
        BY <1>1 DEF Changed, FeatureMissing
    <2> QED
        BY <2>1, WithoutSucceeds
<1>2. CASE ~gone /\ k \in Keys(Current(t))
    <2>1. Changed(t, k, x, FeatureMissing(t, k, gone)) = UpdatedTo(t, k, x)
        BY <1>2 DEF Changed, FeatureMissing
    <2>2. x \in V
        BY <1>2
    <2> QED
        BY <2>1, <2>2, UpdatedSucceeds
<1>3. CASE ~gone /\ k \notin Keys(Current(t))
    <2>1. Changed(t, k, x, FeatureMissing(t, k, gone)) = Inserted(t, k, x)
        BY <1>3 DEF Changed, FeatureMissing
    <2>2. x \in V
        BY <1>3
    <2> QED
        BY <1>3, <2>1, <2>2, InsertedSucceeds
<1> QED
    BY <1>1, <1>2, <1>3

\* splice() makes a list of what was in the two lists.
LEMMA SpliceType ==
    ASSUME NEW S, NEW s \in Seq(S), NEW start \in Int, NEW count \in Nat, NEW items \in Seq(S)
    PROVE  Splice(s, start, count, items) \in Seq(S)
<1> DEFINE from == IF start >= 0 THEN IF start < Len(s) THEN start ELSE Len(s)
                   ELSE IF Len(s) + start > 0 THEN Len(s) + start ELSE 0
<1>1. Len(s) \in Nat /\ s \in [1..Len(s) -> S]
    BY LenProperties
<1>2. from \in Nat /\ from <= Len(s)
    BY <1>1
<1>3. Splice(s, start, count, items) =
        SubSeq(s, 1, from) \o items \o SubSeq(s, from + count + 1, Len(s))
    BY DEF Splice
<1> HIDE DEF from
<1>4. SubSeq(s, 1, from) \in Seq(S)
    <2>1. \A i \in 1..from : s[i] \in S
        BY <1>1, <1>2
    <2> QED
        BY <1>2, <2>1, SubSeqProperties
<1>5. SubSeq(s, from + count + 1, Len(s)) \in Seq(S)
    <2>1. \A i \in from + count + 1..Len(s) : s[i] \in S
        BY <1>1, <1>2
    <2> QED
        BY <1>1, <1>2, <2>1, SubSeqProperties
<1>6. SubSeq(s, 1, from) \o items \in Seq(S)
    BY <1>4, ConcatProperties
<1> QED
    BY <1>3, <1>5, <1>6, ConcatProperties

(***************************************************************************)
(* The inductive invariant.  FeaturesOfNodes is about all versions; for    *)
(* what a command may assume its last version counts.                      *)
(***************************************************************************)
Inv ==
    /\ TypeOK
    /\ Versioned(nodes, version)
    /\ Versioned(properties, version)
    /\ Versioned(references, version)
    /\ FeaturesOfNodes

\* The features are of nodes.
Owned(n, p, r) ==
    \A k \in Keys(Current(p)) \union Keys(Current(r)) : k[1] \in Keys(Current(n))

\* What a step does to the tables, in terms of versions only.
Step ==
    /\ version < MaxVersion /\ version' = version + 1
    /\ history' = history /\ stray' \in BOOLEAN
    /\ Succeeds(nodes, nodes', Ids, Classifiers)
    /\ Succeeds(properties, properties', Ids \X Properties, Values)
    /\ Succeeds(references, references', Ids \X References, Seq(TargetsOfReferences))
    /\ Owned(nodes', properties', references')

LEMMA ReadyTables ==
    ASSUME Inv, version < MaxVersion
    PROVE  /\ Ready(nodes, Ids, Classifiers)
           /\ Ready(properties, Ids \X Properties, Values)
           /\ Ready(references, Ids \X References, Seq(TargetsOfReferences))
BY DEF Inv, TypeOK, Ready

LEMMA LastVersion ==
    ASSUME Inv
    PROVE  /\ AsOf(nodes, version) = Current(nodes)
           /\ AsOf(properties, version) = Current(properties)
           /\ AsOf(references, version) = Current(references)
BY CurrentRows DEF Inv, TypeOK

LEMMA OwnedNow ==
    ASSUME Inv
    PROVE  Owned(nodes, properties, references)
<1>1. version \in 0..version
    BY MaxVersionAssumption DEF Inv, TypeOK
<1> QED
    BY <1>1, LastVersion DEF Inv, FeaturesOfNodes, Owned

(***************************************************************************)
(* Every command is such a step.                                           *)
(***************************************************************************)
LEMMA AddPartitionStep == Inv /\ AddPartition => Step
<1> SUFFICES ASSUME Inv, NEW n \in Ids, NEW c \in Classifiers,
                    NEW ps \in [Properties -> Values \union {Null}],
                    NEW rs \in [References -> {<<>>} \union {<<x>> : x \in TargetsOfReferences}],
                    ~Exists(n),
                    Commit(Inserted(nodes, n, c),
                           InsertAll(history, properties, RowsToInsert(n, ps, Null), nextRepoVersion),
                           InsertAll(history, references, RowsToInsert(n, rs, <<>>), nextRepoVersion),
                           FALSE)
             PROVE  Step
    BY DEF AddPartition
<1> DEFINE x == RowsToInsert(n, ps, Null)
           y == RowsToInsert(n, rs, <<>>)
<1>1. version < MaxVersion
    BY DEF Commit
<1>2. \A k \in Keys(Current(properties)) \union Keys(Current(references)) : k[1] # n
    BY OwnedNow DEF Owned, Exists
<1>3. /\ Succeeds(nodes, nodes', Ids, Classifiers)
      /\ Keys(Current(nodes')) = Keys(Current(nodes)) \union {n}
    BY <1>1, ReadyTables, InsertedSucceeds DEF Exists, Commit
<1>4. /\ Succeeds(properties, properties', Ids \X Properties, Values)
      /\ Keys(Current(properties')) = Keys(Current(properties)) \union DOMAIN x
    <2>1. /\ DOMAIN x \subseteq Ids \X Properties
          /\ \A k \in DOMAIN x : x[k] \in Values /\ k[1] = n
        BY DEF RowsToInsert
    <2> HIDE DEF x
    <2>2. properties' = InsertAll(history, properties, x, nextRepoVersion)
        BY DEF Commit, x
    <2> QED
        BY <1>1, <1>2, <2>1, <2>2, ReadyTables, InsertAllSucceeds
<1>5. /\ Succeeds(references, references', Ids \X References, Seq(TargetsOfReferences))
      /\ Keys(Current(references')) = Keys(Current(references)) \union DOMAIN y
    <2>1. /\ DOMAIN y \subseteq Ids \X References
          /\ \A k \in DOMAIN y : k[1] = n
        BY DEF RowsToInsert
    <2>2. \A k \in DOMAIN y : y[k] \in Seq(TargetsOfReferences)
        <3>1. \A z \in TargetsOfReferences : <<z>> \in Seq(TargetsOfReferences)
            OBVIOUS
        <3>2. \A r \in References : rs[r] # <<>> => rs[r] \in Seq(TargetsOfReferences)
            BY <3>1
        <3> QED
            BY <3>2 DEF RowsToInsert
    <2> HIDE DEF y
    <2>3. references' = InsertAll(history, references, y, nextRepoVersion)
        BY DEF Commit, y
    <2> QED
        BY <1>1, <1>2, <2>1, <2>2, <2>3, ReadyTables, InsertAllSucceeds
<1>6. Owned(nodes', properties', references')
    <2>1. \A k \in DOMAIN x \union DOMAIN y : k[1] = n
        BY DEF RowsToInsert
    <2> HIDE DEF x, y
    <2> QED
        BY <1>3, <1>4, <1>5, <2>1, OwnedNow DEF Owned
<1> QED
    BY <1>1, <1>3, <1>4, <1>5, <1>6 DEF Step, Commit

LEMMA DeletePartitionStep == Inv /\ DeletePartition => Step
<1> SUFFICES ASSUME Inv, NEW n \in Ids, Exists(n),
                    Commit(Ended(history, nodes, {n}, nextRepoVersion),
                           Without(properties, KeysOf(n, Properties)),
                           Without(references, KeysOf(n, References)), FALSE)
             PROVE  Step
    BY DEF DeletePartition
<1>1. version < MaxVersion
    BY DEF Commit
<1>2. /\ Succeeds(nodes, nodes', Ids, Classifiers)
      /\ Keys(Current(nodes')) = Keys(Current(nodes)) \ {n}
    BY <1>1, ReadyTables, EndedSucceeds DEF Commit, nextRepoVersion
<1>3. /\ Succeeds(properties, properties', Ids \X Properties, Values)
      /\ Keys(Current(properties')) \subseteq Keys(Current(properties)) \ KeysOf(n, Properties)
    BY <1>1, ReadyTables, WithoutSucceeds DEF Commit
<1>4. /\ Succeeds(references, references', Ids \X References, Seq(TargetsOfReferences))
      /\ Keys(Current(references')) \subseteq Keys(Current(references)) \ KeysOf(n, References)
    BY <1>1, ReadyTables, WithoutSucceeds DEF Commit
<1>5. Owned(nodes', properties', references')
    <2>1. /\ Keys(Current(properties)) \subseteq Ids \X Properties
          /\ Keys(Current(references)) \subseteq Ids \X References
        BY DEF Inv, TypeOK, Keys, Current, Rows
    <2>2. ASSUME NEW k \in Keys(Current(properties')) PROVE k[1] \in Keys(Current(nodes'))
        <3>1. k \in Keys(Current(properties)) /\ k \in Ids \X Properties /\ k \notin KeysOf(n, Properties)
            BY <2>1, <2>2, <1>3
        <3>2. k[1] # n
            BY <3>1 DEF KeysOf
        <3> QED
            BY <1>2, <3>1, <3>2, OwnedNow DEF Owned
    <2>3. ASSUME NEW k \in Keys(Current(references')) PROVE k[1] \in Keys(Current(nodes'))
        <3>1. k \in Keys(Current(references)) /\ k \in Ids \X References /\ k \notin KeysOf(n, References)
            BY <2>1, <2>3, <1>4
        <3>2. k[1] # n
            BY <3>1 DEF KeysOf
        <3> QED
            BY <1>2, <3>1, <3>2, OwnedNow DEF Owned
    <2> QED
        BY <2>2, <2>3 DEF Owned
<1> QED
    BY <1>1, <1>2, <1>3, <1>4, <1>5 DEF Step, Commit

\* The commands on a property.
LEMMA PropertyStep ==
    ASSUME Inv, NEW n \in Ids, Exists(n), NEW p \in Properties,
           NEW x \in Values \union {Null}, NEW others \in BOOLEAN,
           Commit(nodes, WithProperty(n, p, x), references, others)
    PROVE  Step
<1>1. version < MaxVersion
    BY DEF Commit
<1>2. /\ Succeeds(properties, properties', Ids \X Properties, Values)
      /\ Keys(Current(properties')) \subseteq Keys(Current(properties)) \union {<<n, p>>}
    <2> DEFINE gone == x = Null
               k == <<n, p>>
    <2>1. gone \in BOOLEAN /\ (gone \/ x \in Values) /\ k \in Ids \X Properties
        OBVIOUS
    <2>2. properties' = Changed(properties, k, x, FeatureMissing(properties, k, gone))
        BY DEF Commit, WithProperty
    <2>3. Ready(properties, Ids \X Properties, Values)
        BY <1>1, ReadyTables
    <2> HIDE DEF gone, k
    <2>4. /\ Succeeds(properties, properties', Ids \X Properties, Values)
          /\ Keys(Current(properties')) \subseteq Keys(Current(properties)) \union {k}
        BY <2>1, <2>2, <2>3, ChangedSucceeds
    <2> QED
        BY <2>4 DEF k
<1>3. /\ Succeeds(nodes, nodes', Ids, Classifiers)
      /\ Succeeds(references, references', Ids \X References, Seq(TargetsOfReferences))
    BY <1>1, ReadyTables, KeptSucceeds DEF Commit
<1>4. Owned(nodes', properties', references')
    BY <1>2, OwnedNow DEF Owned, Commit, Exists
<1> QED
    BY <1>1, <1>2, <1>3, <1>4 DEF Step, Commit

\* The commands on a reference.
LEMMA ReferenceStep ==
    ASSUME Inv, NEW n \in Ids, Exists(n), NEW r \in References,
           NEW s \in Seq(TargetsOfReferences), NEW others \in BOOLEAN,
           Commit(nodes, properties, WithTargets(n, r, s), others)
    PROVE  Step
<1>1. version < MaxVersion
    BY DEF Commit
<1>2. /\ Succeeds(references, references', Ids \X References, Seq(TargetsOfReferences))
      /\ Keys(Current(references')) \subseteq Keys(Current(references)) \union {<<n, r>>}
    <2> DEFINE gone == s = <<>>
               k == <<n, r>>
               V == Seq(TargetsOfReferences)
    <2>1. gone \in BOOLEAN /\ (gone \/ s \in V) /\ k \in Ids \X References
        OBVIOUS
    <2>2. references' = Changed(references, k, s, FeatureMissing(references, k, gone))
        BY DEF Commit, WithTargets
    <2>3. Ready(references, Ids \X References, V)
        BY <1>1, ReadyTables
    <2> HIDE DEF gone, k, V
    <2> DEFINE Ks == Ids \X References
               u == Changed(references, k, s, FeatureMissing(references, k, gone))
    <2> HIDE DEF Ks
    <2>4. gone \in BOOLEAN /\ (gone \/ s \in V) /\ k \in Ks /\ Ready(references, Ks, V)
        BY <2>1, <2>3 DEF Ks
    <2>5. /\ Succeeds(references, u, Ks, V)
          /\ Keys(Current(u)) \subseteq Keys(Current(references)) \union {k}
        BY <2>4, ChangedSucceeds
    <2> QED
        BY <2>2, <2>5 DEF k, V, Ks
<1>3. /\ Succeeds(nodes, nodes', Ids, Classifiers)
      /\ Succeeds(properties, properties', Ids \X Properties, Values)
    BY <1>1, ReadyTables, KeptSucceeds DEF Commit
<1>4. Owned(nodes', properties', references')
    BY <1>2, OwnedNow DEF Owned, Commit, Exists
<1> QED
    BY <1>1, <1>2, <1>3, <1>4 DEF Step, Commit

\* The targets of a reference are a list, and its length is a number.
LEMMA TargetsType ==
    ASSUME Inv, NEW n \in Ids, NEW r \in References
    PROVE  TargetsOf(n, r) \in Seq(TargetsOfReferences) /\ Len(TargetsOf(n, r)) \in Nat
<1>1. references \subseteq Rows(Ids \X References, Seq(TargetsOfReferences))
    BY DEF Inv, TypeOK
<1>2. TargetsOf(n, r) \in Seq(TargetsOfReferences)
    <2>1. CASE HasReference(n, r)
        <3>1. <<n, r>> \in Keys(Current(references))
            BY <2>1 DEF HasReference
        <3> QED
            BY <2>1, <3>1, <1>1, ValueOfCurrent DEF TargetsOf
    <2>2. CASE ~HasReference(n, r)
        BY <2>2 DEF TargetsOf
    <2> QED
        BY <2>1, <2>2
<1> QED
    BY <1>2, LenProperties

LEMMA SplicedTargets ==
    ASSUME Inv, NEW n \in Ids, NEW r \in References, NEW i \in Int, NEW count \in Nat,
           NEW items \in Seq(TargetsOfReferences)
    PROVE  Splice(TargetsOf(n, r), i, count, items) \in Seq(TargetsOfReferences)
BY TargetsType, SpliceType

LEMMA AddReferenceStep == Inv /\ AddReference => Step
<1> SUFFICES ASSUME Inv, NEW n \in Ids, NEW r \in References, NEW x \in TargetsOfReferences,
                    NEW i \in AddIndexes(n, r), Exists(n),
                    Commit(nodes, properties,
                           WithTargets(n, r, Splice(TargetsOf(n, r), i, 0, <<x>>)), FALSE)
             PROVE  Step
    BY DEF AddReference
<1>1. i \in Int
    BY TargetsType DEF AddIndexes
<1>2. <<x>> \in Seq(TargetsOfReferences)
    OBVIOUS
<1>3. Splice(TargetsOf(n, r), i, 0, <<x>>) \in Seq(TargetsOfReferences)
    BY <1>1, <1>2, SplicedTargets
<1> QED
    BY <1>3, ReferenceStep

LEMMA DeleteReferenceStep == Inv /\ DeleteReference => Step
<1> SUFFICES ASSUME Inv, NEW n \in Ids, NEW r \in References, NEW i \in Indexes(n, r), Exists(n),
                    NEW others \in BOOLEAN,
                    Commit(nodes, properties,
                           WithTargets(n, r, Splice(TargetsOf(n, r), i, 1, <<>>)), others)
             PROVE  Step
    BY DEF DeleteReference, EndsOthers
<1>1. i \in Int
    BY TargetsType DEF Indexes
<1>2. <<>> \in Seq(TargetsOfReferences)
    OBVIOUS
<1>3. Splice(TargetsOf(n, r), i, 1, <<>>) \in Seq(TargetsOfReferences)
    BY <1>1, <1>2, SplicedTargets
<1> QED
    BY <1>3, ReferenceStep

LEMMA ChangeReferenceStep == Inv /\ ChangeReference => Step
<1> SUFFICES ASSUME Inv, NEW n \in Ids, NEW r \in References, NEW x \in TargetsOfReferences,
                    NEW i \in Indexes(n, r), Exists(n),
                    Commit(nodes, properties,
                           WithTargets(n, r, Splice(TargetsOf(n, r), i, 1, <<x>>)), FALSE)
             PROVE  Step
    BY DEF ChangeReference
<1>1. i \in Int
    BY TargetsType DEF Indexes
<1>2. <<x>> \in Seq(TargetsOfReferences)
    OBVIOUS
<1>3. Splice(TargetsOf(n, r), i, 1, <<x>>) \in Seq(TargetsOfReferences)
    BY <1>1, <1>2, SplicedTargets
<1> QED
    BY <1>3, ReferenceStep

LEMMA ChangeClassifierStep == Inv /\ ChangeClassifier => Step
<1> SUFFICES ASSUME Inv, NEW n \in Ids, NEW c \in Classifiers, Exists(n),
                    Commit(WithClassifier(n, c), properties, references, FALSE)
             PROVE  Step
    BY DEF ChangeClassifier
<1>1. version < MaxVersion
    BY DEF Commit
<1>2. /\ Succeeds(nodes, nodes', Ids, Classifiers)
      /\ Keys(Current(nodes')) = Keys(Current(nodes))
    BY <1>1, ReadyTables, UpdatedSucceeds DEF Commit, WithClassifier
<1>3. /\ Succeeds(properties, properties', Ids \X Properties, Values)
      /\ Succeeds(references, references', Ids \X References, Seq(TargetsOfReferences))
    BY <1>1, ReadyTables, KeptSucceeds DEF Commit
<1>4. Owned(nodes', properties', references')
    BY <1>2, OwnedNow DEF Owned, Commit
<1> QED
    BY <1>1, <1>2, <1>3, <1>4 DEF Step, Commit

LEMMA NextStep == Inv /\ Next => Step
<1> SUFFICES ASSUME Inv, Next PROVE Step
    OBVIOUS
<1>1. ASSUME AddProperty PROVE Step
    BY <1>1, PropertyStep DEF AddProperty
<1>2. ASSUME DeleteProperty PROVE Step
    BY <1>2, PropertyStep DEF DeleteProperty, EndsOthers
<1>3. ASSUME ChangeProperty PROVE Step
    BY <1>3, PropertyStep DEF ChangeProperty
<1> QED
    BY <1>1, <1>2, <1>3, AddPartitionStep, DeletePartitionStep, AddReferenceStep,
       DeleteReferenceStep, ChangeReferenceStep, ChangeClassifierStep DEF Next

(***************************************************************************)
(* The invariant is kept.                                                  *)
(***************************************************************************)
LEMMA InitInv == Init => Inv
<1> SUFFICES ASSUME Init PROVE Inv
    OBVIOUS
<1>1. \A w : AsOf({}, w) = {}
    BY DEF AsOf
<1>2. TypeOK
    <2>1. version \in 0..MaxVersion
        BY MaxVersionAssumption DEF Init
    <2>2. history \in BOOLEAN /\ stray \in BOOLEAN
        BY DEF Init
    <2>3. nodes = {} /\ properties = {} /\ references = {}
        BY DEF Init
    <2> QED
        BY <2>1, <2>2, <2>3 DEF TypeOK
<1>3. Versioned({}, version)
    BY <1>1 DEF Versioned, UniqueKeys
<1>4. FeaturesOfNodes
    BY <1>1 DEF Init, FeaturesOfNodes, Keys
<1> QED
    BY <1>2, <1>3, <1>4 DEF Init, Inv

\* A version that tells the same facts has the same keys.
LEMMA FactsTellKeys ==
    ASSUME NEW t, NEW u, NEW v, Facts(t, v) = Facts(u, v)
    PROVE  Keys(AsOf(t, v)) = Keys(AsOf(u, v))
<1> SUFFICES ASSUME NEW k PROVE k \in Keys(AsOf(t, v)) <=> k \in Keys(AsOf(u, v))
    OBVIOUS
<1>1. \A w : k \in Keys(AsOf(w, v)) <=> \E x : <<k, x>> \in Facts(w, v)
    BY DEF Keys, Facts
<1> QED
    BY <1>1

\* Without history every version up to the last one is the last one.
LEMMA WithoutHistory ==
    ASSUME ~history, NEW Ks, NEW V, NEW t, t \subseteq Rows(Ks, V),
           NEW v \in 0..MaxVersion, Versioned(t, v), NEW w \in 0..v
    PROVE  AsOf(t, w) = Current(t)
<1> USE MaxVersionAssumption, ForeverAssumption
<1> QED
    BY DEF Versioned, Rows, AsOf, Current

LEMMA StepKeepsFeatures ==
    ASSUME Inv, Step
    PROVE  \A w \in 0..version + 1 :
                \A k \in Keys(AsOf(properties', w)) \union Keys(AsOf(references', w)) :
                    k[1] \in Keys(AsOf(nodes', w))
<1> USE MaxVersionAssumption
<1> TAKE w \in 0..version + 1
<1>0. history \in BOOLEAN /\ version \in 0..MaxVersion /\ version + 1 \in 0..MaxVersion
    BY DEF Inv, TypeOK, Step
<1>1. CASE history /\ w \in 0..version
    <2>1. /\ Facts(nodes', w) = Facts(nodes, w)
          /\ Facts(properties', w) = Facts(properties, w)
          /\ Facts(references', w) = Facts(references, w)
        BY <1>1 DEF Step, Succeeds
    <2>2. /\ Keys(AsOf(nodes', w)) = Keys(AsOf(nodes, w))
          /\ Keys(AsOf(properties', w)) = Keys(AsOf(properties, w))
          /\ Keys(AsOf(references', w)) = Keys(AsOf(references, w))
        BY <2>1, FactsTellKeys
    <2> QED
        BY <1>1, <2>2 DEF Inv, FeaturesOfNodes
<1>2. CASE ~history \/ w = version + 1
    <2> DEFINE v == version + 1
    <2>1. /\ nodes' \subseteq Rows(Ids, Classifiers) /\ Versioned(nodes', v)
          /\ properties' \subseteq Rows(Ids \X Properties, Values) /\ Versioned(properties', v)
          /\ references' \subseteq Rows(Ids \X References, Seq(TargetsOfReferences))
          /\ Versioned(references', v)
        BY DEF Step, Succeeds
    <2>2. v \in 0..MaxVersion /\ w \in 0..v
        BY <1>0
    <2>3. w = v \/ ~history
        BY <1>2
    <2> HIDE DEF v
    <2>4. /\ AsOf(nodes', w) = Current(nodes')
          /\ AsOf(properties', w) = Current(properties')
          /\ AsOf(references', w) = Current(references')
        BY <2>1, <2>2, <2>3, CurrentRows, WithoutHistory
    <2> QED
        BY <2>4 DEF Step, Owned
<1> QED
    BY <1>0, <1>1, <1>2

LEMMA StepInv == Inv /\ Step => Inv'
<1> SUFFICES ASSUME Inv, Step PROVE Inv'
    OBVIOUS
<1>1. /\ Versioned(nodes, version)'
      /\ Versioned(properties, version)'
      /\ Versioned(references, version)'
    BY DEF Step, Succeeds, Versioned
<1>2. TypeOK'
    <2>1. history' \in BOOLEAN /\ stray' \in BOOLEAN /\ version' \in 0..MaxVersion
        BY MaxVersionAssumption DEF Inv, TypeOK, Step
    <2>2. /\ nodes' \subseteq Rows(Ids, Classifiers)
          /\ properties' \subseteq Rows(Ids \X Properties, Values)
          /\ references' \subseteq Rows(Ids \X References, Seq(TargetsOfReferences))
        BY DEF Step, Succeeds
    <2>3. \A r \in nodes' \union properties' \union references' :
            r.from <= version' /\ (r.to = Forever \/ (history' /\ r.to < version'))
        BY <1>1 DEF Versioned
    <2> QED
        BY <2>1, <2>2, <2>3 DEF TypeOK
<1>3. FeaturesOfNodes'
    BY StepKeepsFeatures DEF Step, FeaturesOfNodes
<1> QED
    BY <1>1, <1>2, <1>3 DEF Inv

LEMMA StutterInv == Inv /\ UNCHANGED vars => Inv'
<1> SUFFICES ASSUME Inv, UNCHANGED vars PROVE Inv'
    OBVIOUS
<1>1. /\ history' = history /\ version' = version /\ stray' = stray
      /\ nodes' = nodes /\ properties' = properties /\ references' = references
    BY DEF vars
<1>2. TypeOK'
    BY <1>1 DEF Inv, TypeOK
<1>3. /\ Versioned(nodes, version)'
      /\ Versioned(properties, version)'
      /\ Versioned(references, version)'
    BY <1>1 DEF Inv, Versioned
<1>4. FeaturesOfNodes'
    BY <1>1 DEF Inv, FeaturesOfNodes
<1> QED
    BY <1>2, <1>3, <1>4 DEF Inv

\* The inductive invariant of all commands.
THEOREM FeatureInvariant == Spec => []Inv
<1>1. Inv /\ [Next]_vars => Inv'
    BY NextStep, StepInv, StutterInv
<1> QED
    BY InitInv, <1>1, PTL DEF Spec

\* The tables have rows of their types, and no row is of a version to come.
THEOREM TypeCorrect == Spec => []TypeOK
<1>1. Inv => TypeOK
    BY DEF Inv
<1> QED
    BY FeatureInvariant, <1>1, PTL

\* In every version a key has one row.
THEOREM OneRow == Spec => []OneRowPerVersion
<1>1. Inv => OneRowPerVersion
    BY DEF Inv, Versioned, OneRowPerVersion
<1> QED
    BY FeatureInvariant, <1>1, PTL

\* What the commands read is the last version.
THEOREM CurrentIsLast == Spec => []CurrentIsLastVersion
<1>1. Inv => CurrentIsLastVersion
    BY LastVersion DEF CurrentIsLastVersion
<1> QED
    BY FeatureInvariant, <1>1, PTL

\* No version has features of a node that it has not.
THEOREM FeaturesOwned == Spec => []FeaturesOfNodes
<1>1. Inv => FeaturesOfNodes
    BY DEF Inv
<1> QED
    BY FeatureInvariant, <1>1, PTL

(***************************************************************************)
(* What the history API answers about a version depends on its facts.      *)
(***************************************************************************)
FeaturesIn(F, n) == {<<f[1][2], f[2]>> : f \in {g \in F : g[1][1] = n}}

NodeWith(k, x, P, R) ==
    [id |-> k, classifier |-> x, properties |-> FeaturesIn(P, k), references |-> FeaturesIn(R, k)]

NodesIn(N, P, R) == {NodeWith(f[1], f[2], P, R) : f \in N}

LEMMA FeaturesFromFacts ==
    ASSUME NEW t, NEW v, NEW n
    PROVE  {<<r.key[2], r.value>> : r \in {q \in AsOf(t, v) : q.key[1] = n}}
                = FeaturesIn(Facts(t, v), n)
<1> DEFINE L == {<<r.key[2], r.value>> : r \in {q \in AsOf(t, v) : q.key[1] = n}}
<1>1. ASSUME NEW r \in AsOf(t, v), r.key[1] = n
      PROVE  <<r.key[2], r.value>> \in FeaturesIn(Facts(t, v), n)
    <2> DEFINE f == <<r.key, r.value>>
    <2>1. f \in Facts(t, v) /\ f[1] = r.key /\ f[2] = r.value
        BY DEF Facts
    <2> HIDE DEF f
    <2>2. f \in {g \in Facts(t, v) : g[1][1] = n}
        BY <1>1, <2>1
    <2>3. <<f[1][2], f[2]>> \in FeaturesIn(Facts(t, v), n)
        BY <2>2 DEF FeaturesIn
    <2> QED
        BY <2>1, <2>3
<1>2. ASSUME NEW e \in FeaturesIn(Facts(t, v), n) PROVE e \in L
    <2>1. PICK f \in Facts(t, v) : f[1][1] = n /\ e = <<f[1][2], f[2]>>
        BY <1>2 DEF FeaturesIn
    <2>2. PICK r \in AsOf(t, v) : f = <<r.key, r.value>>
        BY DEF Facts
    <2> QED
        BY <2>1, <2>2
<1> QED
    BY <1>1, <1>2

LEMMA NodesFromFacts ==
    ASSUME NEW t, NEW v, NEW P, NEW R
    PROVE  {NodeWith(r.key, r.value, P, R) : r \in AsOf(t, v)} = NodesIn(Facts(t, v), P, R)
<1> DEFINE L == {NodeWith(r.key, r.value, P, R) : r \in AsOf(t, v)}
<1>1. ASSUME NEW r \in AsOf(t, v)
      PROVE  NodeWith(r.key, r.value, P, R) \in NodesIn(Facts(t, v), P, R)
    <2> DEFINE f == <<r.key, r.value>>
    <2>1. f \in Facts(t, v) /\ f[1] = r.key /\ f[2] = r.value
        BY DEF Facts
    <2> HIDE DEF f
    <2>2. NodeWith(f[1], f[2], P, R) \in NodesIn(Facts(t, v), P, R)
        BY <2>1 DEF NodesIn
    <2> QED
        BY <2>1, <2>2
<1>2. ASSUME NEW e \in NodesIn(Facts(t, v), P, R) PROVE e \in L
    <2>1. PICK f \in Facts(t, v) : e = NodeWith(f[1], f[2], P, R)
        BY DEF NodesIn
    <2>2. PICK r \in AsOf(t, v) : f = <<r.key, r.value>>
        BY DEF Facts
    <2> QED
        BY <2>1, <2>2
<1> QED
    BY <1>1, <1>2

\* The nodes with rows in n, their features having rows in p and r.
Told(n, p, r, v) ==
    {[id |-> q.key, classifier |-> q.value,
      properties |-> {<<s.key[2], s.value>> : s \in {s \in AsOf(p, v) : s.key[1] = q.key}},
      references |-> {<<s.key[2], s.value>> : s \in {s \in AsOf(r, v) : s.key[1] = q.key}}] :
        q \in AsOf(n, v)}

LEMMA ToldFromFacts ==
    ASSUME NEW n, NEW p, NEW r, NEW v
    PROVE  Told(n, p, r, v) = NodesIn(Facts(n, v), Facts(p, v), Facts(r, v))
<1> DEFINE A(q) == [id |-> q.key, classifier |-> q.value,
      properties |-> {<<s.key[2], s.value>> : s \in {s \in AsOf(p, v) : s.key[1] = q.key}},
      references |-> {<<s.key[2], s.value>> : s \in {s \in AsOf(r, v) : s.key[1] = q.key}}]
           B(q) == NodeWith(q.key, q.value, Facts(p, v), Facts(r, v))
<1>1. \A q : A(q) = B(q)
    BY FeaturesFromFacts DEF NodeWith
<1>2. Told(n, p, r, v) = {A(q) : q \in AsOf(n, v)}
    BY DEF Told
<1> HIDE DEF A
<1>3. Told(n, p, r, v) = {B(q) : q \in AsOf(n, v)}
    BY <1>1, <1>2
<1> QED
    BY <1>3, NodesFromFacts

LEMMA FullNodesNow ==
    ASSUME NEW v
    PROVE  FullNodes(v) = Told(nodes, properties, references, v)
BY DEF FullNodes, Told, PropertiesForVersion, ReferencesForVersion

LEMMA FullNodesNext ==
    ASSUME NEW v
    PROVE  FullNodes(v)' = Told(nodes', properties', references', v)
BY DEF FullNodes, Told, PropertiesForVersion, ReferencesForVersion

LEMMA StepKeepsAnswers ==
    ASSUME Step, history, NEW v \in 0..version
    PROVE  /\ ListPartitions(v)' = ListPartitions(v)
           /\ \A ids \in SUBSET Ids : Retrieve(ids, v)' = Retrieve(ids, v)
<1>1. /\ Facts(nodes', v) = Facts(nodes, v)
      /\ Facts(properties', v) = Facts(properties, v)
      /\ Facts(references', v) = Facts(references, v)
    BY DEF Step, Succeeds
<1>2. FullNodes(v)' = FullNodes(v)
    BY <1>1, FullNodesNow, FullNodesNext, ToldFromFacts
<1>3. Keys(AsOf(nodes', v)) = Keys(AsOf(nodes, v))
    BY <1>1, FactsTellKeys
<1> QED
    BY <1>2, <1>3 DEF ListPartitions, Retrieve, NodesFromIds, FoundIds

\* What the history API answers about a version never changes.
THEOREM PastStays == Spec => PastAnswersStay
<1> DEFINE Stays == history => \A v \in 0..version :
                        /\ ListPartitions(v)' = ListPartitions(v)
                        /\ \A ids \in SUBSET Ids : Retrieve(ids, v)' = Retrieve(ids, v)
<1>1. Inv /\ [Next]_vars => [Stays]_vars
    BY NextStep, StepKeepsAnswers
<1>2. Spec => [][Stays]_vars
    BY FeatureInvariant, <1>1, PTL DEF Spec
<1> QED
    BY <1>2 DEF PastAnswersStay

(***************************************************************************)
(* What the tables hold, as the contents of RepositoryHistory.             *)
(***************************************************************************)
\* What table t holds now.
Held(t) == Contents(Current(t))

\* f without K and with x for the keys in D.
With(f, K, D, x) == [k \in (DOMAIN f \ K) \union D |-> IF k \in D THEN x[k] ELSE f[k]]

LEMMA ContentsAre ==
    ASSUME NEW t, UniqueKeys(t)
    PROVE  /\ DOMAIN Contents(t) = Keys(t)
           /\ \A r \in t : r.key \in Keys(t) /\ Contents(t)[r.key] = r.value
<1>1. DOMAIN Contents(t) = Keys(t)
    BY DEF Contents
<1>2. ASSUME NEW r \in t PROVE r.key \in Keys(t) /\ Contents(t)[r.key] = r.value
    <2> DEFINE c == CHOOSE q \in t : q.key = r.key
    <2>1. r.key \in Keys(t)
        BY DEF Keys
    <2>2. c \in t /\ c.key = r.key
        OBVIOUS
    <2>3. c = r
        BY <2>2 DEF UniqueKeys
    <2>4. Contents(t)[r.key] = c.value
        BY <2>1 DEF Contents
    <2> QED
        BY <2>1, <2>3, <2>4
<1> QED
    BY <1>1, <1>2

\* Two functions that are defined by an expression are equal if they agree.
LEMMA ContentsSame ==
    ASSUME NEW t, NEW f, DOMAIN f = Keys(t), f = [k \in DOMAIN f |-> f[k]],
           \A k \in Keys(t) : Contents(t)[k] = f[k]
    PROVE  Contents(t) = f
<1>1. Contents(t) = [k \in Keys(t) |-> Contents(t)[k]]
    BY DEF Contents
<1>2. [k \in Keys(t) |-> Contents(t)[k]] = [k \in Keys(t) |-> f[k]]
    OBVIOUS
<1> QED
    BY <1>1, <1>2

\* A version that tells the same facts has the same contents.
LEMMA FactsTellContents ==
    ASSUME NEW t, NEW u, NEW v, UniqueKeys(AsOf(t, v)), UniqueKeys(AsOf(u, v)),
           Facts(t, v) = Facts(u, v)
    PROVE  Contents(AsOf(t, v)) = Contents(AsOf(u, v))
<1> DEFINE T == AsOf(t, v)
           U == AsOf(u, v)
<1>1. Keys(T) = Keys(U)
    BY FactsTellKeys
<1>2. ASSUME NEW k \in Keys(T) PROVE Contents(T)[k] = Contents(U)[k]
    <2>1. PICK r \in T : r.key = k
        BY DEF Keys
    <2> DEFINE f == <<r.key, r.value>>
    <2>2. f \in Facts(t, v) /\ f[1] = k /\ f[2] = r.value
        BY <2>1 DEF Facts
    <2> HIDE DEF f
    <2>3. PICK s \in U : f = <<s.key, s.value>>
        BY <2>2 DEF Facts
    <2>4. s.key = k /\ s.value = r.value
        BY <2>2, <2>3
    <2> HIDE DEF T, U
    <2>5. Contents(T)[r.key] = r.value /\ Contents(U)[s.key] = s.value
        BY ContentsAre DEF T, U
    <2> QED
        BY <2>1, <2>4, <2>5
<1>3. Contents(U) = [k \in Keys(U) |-> Contents(U)[k]] /\ DOMAIN Contents(U) = Keys(U)
    BY DEF Contents
<1> HIDE DEF T, U
<1>4. Contents(T) = Contents(U)
    BY <1>1, <1>2, <1>3, ContentsSame
<1> QED
    BY <1>4 DEF T, U

\* The view of the current rows is version Forever.
LEMMA ForeverIsNow ==
    ASSUME NEW Ks, NEW V, NEW t, t \subseteq Rows(Ks, V), NEW v \in 0..MaxVersion, Versioned(t, v)
    PROVE  AsOf(t, Forever) = Current(t)
<1> USE MaxVersionAssumption, ForeverAssumption
<1>1. ASSUME NEW r \in t PROVE (r.from <= Forever /\ r.to >= Forever) <=> r.to = Forever
    <2>1. r.from <= v /\ (r.to = Forever \/ r.to < v) /\ r.to \in Int /\ r.from \in Int
        BY DEF Rows, Versioned
    <2> QED
        BY <2>1
<1> QED
    BY <1>1 DEF AsOf, Current

\* One change of a table.
LEMMA ReplacingHolds ==
    ASSUME NEW Ks, NEW V, NEW t, Ready(t, Ks, V),
           NEW K, NEW D, D \subseteq Ks, NEW x, \A k \in D : x[k] \in V,
           \A k \in D : k \in Keys(Current(t)) => k \in K,
           NEW u, u = Replaced(t, K, D, x, version + 1)
    PROVE  Held(u) = With(Held(t), K, D, x)
<1> USE MaxVersionAssumption, ForeverAssumption
<1> DEFINE first == IF history THEN version + 1 ELSE 0
<1>1. Succeeds(t, u, Ks, V) /\ Keys(Current(u)) = (Keys(Current(t)) \ K) \union D
    BY Replacing
<1>2. UniqueKeys(Current(t)) /\ UniqueKeys(Current(u))
    <2>1. version \in 0..MaxVersion /\ version + 1 \in 0..MaxVersion
        BY DEF Ready
    <2>2. t \subseteq Rows(Ks, V) /\ Versioned(t, version)
        BY DEF Ready
    <2> DEFINE v == version + 1
    <2>3. u \subseteq Rows(Ks, V) /\ Versioned(u, v) /\ v \in 0..MaxVersion
        BY <1>1, <2>1 DEF Succeeds
    <2> HIDE DEF v
    <2> QED
        BY <2>1, <2>2, <2>3, CurrentUnique
<1>3. ASSUME NEW k \in D PROVE Held(u)[k] = x[k]
    <2> DEFINE r == Row(k, first, x[k])
    <2>1. r \in u
        BY DEF Replaced
    <2>2. r.key = k /\ r.to = Forever /\ r.value = x[k]
        BY RowFields
    <2> HIDE DEF r
    <2>3. r \in Current(u)
        BY <2>1, <2>2 DEF Current
    <2> QED
        BY <1>2, <2>2, <2>3, ContentsAre DEF Held
<1>4. ASSUME NEW k \in Keys(Current(t)), k \notin K PROVE Held(u)[k] = Held(t)[k]
    <2>1. PICK r \in Current(t) : r.key = k
        BY DEF Keys
    <2>2. r \in u /\ r.to = Forever
        BY <1>4, <2>1 DEF Replaced, Ended, Current
    <2>3. r \in Current(u)
        BY <2>2 DEF Current
    <2> QED
        BY <1>2, <2>1, <2>3, ContentsAre DEF Held
<1> DEFINE w == With(Held(t), K, D, x)
<1>5. DOMAIN Held(t) = Keys(Current(t))
    BY <1>2, ContentsAre DEF Held
<1>6. DOMAIN w = Keys(Current(u)) /\ w = [k \in DOMAIN w |-> w[k]]
    BY <1>1, <1>5 DEF With
<1>7. \A k \in Keys(Current(u)) : w[k] = IF k \in D THEN x[k] ELSE Held(t)[k]
    BY <1>1, <1>5 DEF With
<1> HIDE DEF w
<1>8. \A k \in Keys(Current(u)) : Held(u)[k] = w[k]
    BY <1>1, <1>3, <1>4, <1>7
<1> QED
    BY <1>6, <1>8, ContentsSame DEF Held, w

LEMMA HeldDomain ==
    ASSUME NEW t
    PROVE  DOMAIN Held(t) = Keys(Current(t)) /\ Held(t) = [k \in Keys(Current(t)) |-> Held(t)[k]]
BY DEF Held, Contents

LEMMA EndedHolds ==
    ASSUME NEW Ks, NEW V, NEW t, Ready(t, Ks, V), NEW K
    PROVE  Held(Ended(history, t, K, version + 1)) = Restrict(Held(t), DOMAIN Held(t) \ K)
<1> DEFINE D == {}
           u == Ended(history, t, K, version + 1)
<1>1. D \subseteq Ks /\ (\A k \in D : <<>>[k] \in V)
      /\ (\A k \in D : k \in Keys(Current(t)) => k \in K)
    OBVIOUS
<1>2. u = Replaced(t, K, D, <<>>, version + 1)
    BY DEF Replaced
<1> HIDE DEF u, D
<1>3. Held(u) = With(Held(t), K, D, <<>>)
    BY <1>1, <1>2, ReplacingHolds
<1>4. With(Held(t), K, D, <<>>) = Restrict(Held(t), DOMAIN Held(t) \ K)
    BY DEF With, Restrict, D
<1>5. Held(u) = Restrict(Held(t), DOMAIN Held(t) \ K)
    BY <1>3, <1>4
<1> QED
    BY <1>5 DEF u

LEMMA InsertAllHolds ==
    ASSUME NEW Ks, NEW V, NEW t, Ready(t, Ks, V),
           NEW x, DOMAIN x \subseteq Ks, \A k \in DOMAIN x : x[k] \in V,
           \A k \in DOMAIN x : k \notin Keys(Current(t))
    PROVE  Held(InsertAll(history, t, x, nextRepoVersion)) = With(Held(t), {}, DOMAIN x, x)
<1> DEFINE u == InsertAll(history, t, x, nextRepoVersion)
           K == {}
<1>1. u = Replaced(t, K, DOMAIN x, x, version + 1)
    BY DEF Replaced, Ended, Current, InsertAll, nextRepoVersion
<1>2. \A k \in DOMAIN x : k \in Keys(Current(t)) => k \in K
    OBVIOUS
<1> HIDE DEF u, K
<1>3. Held(u) = With(Held(t), K, DOMAIN x, x)
    BY <1>1, <1>2, ReplacingHolds
<1> QED
    BY <1>3 DEF u, K

\* The function with one entry.
Entry(k, x) == [q \in {k} |-> x]

LEMMA InsertedHolds ==
    ASSUME NEW Ks, NEW V, NEW t, Ready(t, Ks, V),
           NEW k \in Ks, k \notin Keys(Current(t)), NEW x \in V
    PROVE  Held(Inserted(t, k, x)) = With(Held(t), {}, {k}, Entry(k, x))
<1> DEFINE y == Entry(k, x)
           u == Inserted(t, k, x)
<1>1. DOMAIN y = {k} /\ y[k] = x
    BY DEF Entry
<1>2. u = InsertAll(history, t, y, nextRepoVersion)
    <2>1. {Row(q, IF history THEN nextRepoVersion ELSE 0, y[q]) : q \in DOMAIN y}
            = {Row(k, IF history THEN nextRepoVersion ELSE 0, x)}
        BY <1>1
    <2> HIDE DEF y
    <2> QED
        BY <2>1 DEF Inserted, Insert, InsertAll
<1> HIDE DEF u, y
<1>3. Held(u) = With(Held(t), {}, {k}, y)
    BY <1>1, <1>2, InsertAllHolds
<1> QED
    BY <1>3 DEF u, y

LEMMA UpdatedHolds ==
    ASSUME NEW Ks, NEW V, NEW t, Ready(t, Ks, V), NEW k \in Ks, k \in Keys(Current(t)), NEW x \in V
    PROVE  Held(UpdatedTo(t, k, x)) = [Held(t) EXCEPT ![k] = x]
<1> DEFINE y == [q \in {k} |-> x]
           K == {k}
           u == UpdatedTo(t, k, x)
<1>1. u = Replaced(t, K, K, y, version + 1)
    BY DEF Replaced, UpdatedTo, Update, Insert, nextRepoVersion
<1>2. K \subseteq Ks /\ (\A q \in K : y[q] = x) /\ k \in K /\ (\A q \in K : q = k)
    OBVIOUS
<1> HIDE DEF y, K, u
<1>3. Held(u) = With(Held(t), K, K, y)
    BY <1>1, <1>2, ReplacingHolds
<1>4. With(Held(t), K, K, y) = [Held(t) EXCEPT ![k] = x]
    <2> DEFINE f == Held(t)
    <2>1. DOMAIN f = Keys(Current(t))
        BY HeldDomain
    <2> HIDE DEF f
    <2>2. (DOMAIN f \ K) \union K = DOMAIN f
        BY <1>2, <2>1
    <2>3. With(f, K, K, y) = [q \in DOMAIN f |-> IF q = k THEN x ELSE f[q]]
        BY <1>2, <2>2 DEF With
    <2>4. With(f, K, K, y) = [f EXCEPT ![k] = x]
        BY <2>3
    <2> QED
        BY <2>4 DEF f
<1>5. Held(u) = [Held(t) EXCEPT ![k] = x]
    BY <1>3, <1>4
<1> QED
    BY <1>5 DEF u

\* A DELETE that ends no other rows.
LEMMA WithoutHolds ==
    ASSUME NEW Ks, NEW V, NEW t, Ready(t, Ks, V), NEW K,
           Keys(Current(Without(t, K))) = Keys(Current(t)) \ K
    PROVE  Held(Without(t, K)) = Restrict(Held(t), DOMAIN Held(t) \ K)
<1> DEFINE N == {k[1] : k \in K \intersect Keys(Current(t))}
           E == IF history THEN OfNodes(t, N) ELSE K
           u == Ended(history, t, E, version + 1)
<1>1. Without(t, K) = u
    BY DEF Without, DeleteFeatures, nextRepoVersion
<1> HIDE DEF E
<1>2. Held(u) = Restrict(Held(t), DOMAIN Held(t) \ E)
    BY EndedHolds
<1> HIDE DEF u
<1>3. DOMAIN Held(t) \ E = DOMAIN Held(t) \ K
    <2>1. DOMAIN Held(u) = DOMAIN Held(t) \ E
        BY <1>2 DEF Restrict
    <2> QED
        BY <1>1, <2>1, HeldDomain
<1> QED
    BY <1>1, <1>2, <1>3

\* With history a DELETE of all features of a node ends the rows of that node.
LEMMA WithoutNode ==
    ASSUME NEW F, NEW V, NEW t, Ready(t, Ids \X F, V), NEW n \in Ids
    PROVE  Keys(Current(Without(t, KeysOf(n, F)))) = Keys(Current(t)) \ KeysOf(n, F)
<1> DEFINE Ks == Ids \X F
           K == KeysOf(n, F)
           N == {k[1] : k \in K \intersect Keys(Current(t))}
           E == IF history THEN OfNodes(t, N) ELSE K
           u == Ended(history, t, E, version + 1)
<1>1. Without(t, K) = u
    BY DEF Without, DeleteFeatures, nextRepoVersion
<1>2. Keys(Current(u)) = Keys(Current(t)) \ E
    <2> HIDE DEF E, Ks
    <2>1. Ready(t, Ks, V)
        BY DEF Ks
    <2> QED
        BY <2>1, EndedSucceeds
<1>3. Keys(t) \subseteq Ks
    BY DEF Ready, Rows, Keys
<1>4. \A k \in Ks : k \in K <=> k[1] = n
    BY DEF KeysOf
<1>5. ASSUME NEW k \in Keys(Current(t)) PROVE k \in E <=> k \in K
    <2>1. k \in Keys(t)
        BY DEF Keys, Current
    <2>2. ASSUME k \in K PROVE k \in E
        BY <2>1, <2>2 DEF OfNodes
    <2>3. ASSUME k \in E PROVE k \in K
        <3>1. N \subseteq {n}
            BY DEF KeysOf
        <3>2. history => k[1] \in N
            BY <2>3 DEF OfNodes
        <3> QED
            BY <1>3, <1>4, <2>1, <2>3, <3>1, <3>2
    <2> QED
        BY <2>2, <2>3
<1> HIDE DEF E, u
<1> QED
    BY <1>1, <1>2, <1>5

(***************************************************************************)
(* The refinement of RepositoryHistory.                                    *)
(***************************************************************************)
HeldBy(n, p, r) == [nodes |-> Held(n), properties |-> Held(p), references |-> Held(r)]

LEMMA CurrentContents ==
    ASSUME Inv
    PROVE  ContentsOf(Forever) = HeldBy(nodes, properties, references)
<1>1. /\ AsOf(nodes, Forever) = Current(nodes)
      /\ AsOf(properties, Forever) = Current(properties)
      /\ AsOf(references, Forever) = Current(references)
    BY ForeverIsNow DEF Inv, TypeOK
<1> QED
    BY <1>1 DEF ContentsOf, HeldBy, Held

LEMMA NextContents ==
    ASSUME Inv, Step
    PROVE  ContentsOf(Forever)' = HeldBy(nodes', properties', references')
<1>1. (Inv => ContentsOf(Forever) = HeldBy(nodes, properties, references))'
    BY CurrentContents, PTL
<1>2. Inv'
    BY StepInv
<1> QED
    BY <1>1, <1>2 DEF HeldBy, Held, Contents, Keys, Current

\* The earlier versions, in a repository with history.
Earlier == IF history THEN [v \in 0..version - 1 |-> ContentsOf(v)] ELSE <<>>

\* A step keeps the contents of the versions so far.
LEMMA StepKeepsContents ==
    ASSUME Inv, Step, history, NEW w \in 0..version
    PROVE  ContentsOf(w)' = ContentsOf(w)
<1>1. /\ UniqueKeys(AsOf(nodes, w)) /\ UniqueKeys(AsOf(properties, w))
      /\ UniqueKeys(AsOf(references, w))
    BY DEF Inv, Versioned
<1>2. w \in 0..version + 1
    BY DEF Inv, TypeOK
<1>3. /\ UniqueKeys(AsOf(nodes', w)) /\ UniqueKeys(AsOf(properties', w))
      /\ UniqueKeys(AsOf(references', w))
    BY <1>2 DEF Step, Succeeds, Versioned
<1>4. /\ Facts(nodes', w) = Facts(nodes, w)
      /\ Facts(properties', w) = Facts(properties, w)
      /\ Facts(references', w) = Facts(references, w)
    BY DEF Step, Succeeds
<1>5. /\ Contents(AsOf(nodes', w)) = Contents(AsOf(nodes, w))
      /\ Contents(AsOf(properties', w)) = Contents(AsOf(properties, w))
      /\ Contents(AsOf(references', w)) = Contents(AsOf(references, w))
    BY <1>1, <1>3, <1>4, FactsTellContents
<1>6. ContentsOf(w)' = [nodes |-> Contents(AsOf(nodes', w)),
                        properties |-> Contents(AsOf(properties', w)),
                        references |-> Contents(AsOf(references', w))]
    BY DEF ContentsOf
<1> QED
    BY <1>5, <1>6 DEF ContentsOf

LEMMA EarlierGrows ==
    ASSUME Inv, Step
    PROVE  Earlier' = IF history THEN Promise!Over(Promise!Only(version, ContentsOf(Forever)), Earlier)
                                 ELSE Earlier
<1> USE MaxVersionAssumption
<1>1. version \in Nat /\ version' = version + 1 /\ history' = history
    BY DEF Inv, TypeOK, Step
<1>2. CASE ~history
    BY <1>1, <1>2 DEF Earlier
<1>3. CASE history
    <2> DEFINE o == Promise!Over(Promise!Only(version, ContentsOf(Forever)), Earlier)
    <2>1. Earlier' = [v \in 0..version |-> ContentsOf(v)']
        BY <1>1, <1>3 DEF Earlier
    <2>2. Earlier' = [v \in 0..version |-> ContentsOf(v)]
        BY <2>1, <1>3, StepKeepsContents
    <2>3. ContentsOf(version) = ContentsOf(Forever)
        BY LastVersion, CurrentContents DEF ContentsOf, HeldBy, Held
    <2>4. Earlier = [v \in 0..version - 1 |-> ContentsOf(v)]
        BY <1>3 DEF Earlier
    <2>5. {version} \union 0..version - 1 = 0..version
        BY <1>1
    <2>6. o = [v \in 0..version |-> IF v = version THEN ContentsOf(Forever) ELSE Earlier[v]]
        BY <2>4, <2>5 DEF Promise!Over, Promise!Only
    <2> HIDE DEF o
    <2>7. \A v \in 0..version : v # version => v \in 0..version - 1
        BY <1>1
    <2>8. o = [v \in 0..version |-> ContentsOf(v)]
        BY <2>3, <2>4, <2>6, <2>7
    <2> QED
        BY <1>3, <2>2, <2>8 DEF o
<1> QED
    BY <1>2, <1>3

\* A step to contents `new' commits them.
LEMMA Commits ==
    ASSUME Inv, Step, NEW new, HeldBy(nodes', properties', references') = new
    PROVE  Promise!Commit(new)
BY NextContents, EarlierGrows DEF Promise!Commit, Earlier, Step

(***************************************************************************)
(* The commands on partitions and classifiers.                             *)
(***************************************************************************)
LEMMA HeldKeys ==
    ASSUME NEW Ks, NEW V, NEW t, t \subseteq Rows(Ks, V)
    PROVE  DOMAIN Held(t) \subseteq Ks
<1>1. \A r \in t : r.key \in Ks
    BY DEF Rows
<1> QED
    <2>1. ASSUME NEW k \in Keys(Current(t)) PROVE k \in Ks
        BY <1>1, <2>1 DEF Keys, Current
    <2> QED
        BY <2>1, HeldDomain

LEMMA ChangeClassifierRefines == Inv /\ ChangeClassifier => Promise!SetClassifier
<1> SUFFICES ASSUME Inv, ChangeClassifier, NEW n \in Ids, NEW c \in Classifiers, Exists(n),
                    Commit(WithClassifier(n, c), properties, references, FALSE)
             PROVE  Promise!SetClassifier
    BY DEF ChangeClassifier
<1> DEFINE cur == ContentsOf(Forever)
           new == HeldBy(nodes', properties', references')
<1>1. Step
    BY ChangeClassifierStep
<1>2. Held(nodes') = [Held(nodes) EXCEPT ![n] = c]
    BY ReadyTables, UpdatedHolds DEF Commit, WithClassifier, Exists
<1>3. n \in DOMAIN Held(nodes)
    BY HeldDomain DEF Exists
<1>4. Held(nodes')[n] = c
    BY <1>2, <1>3
<1>5. new = [HeldBy(nodes, properties, references) EXCEPT !.nodes[n] = Held(nodes')[n]]
    <2>1. properties' = properties /\ references' = references
        BY DEF Commit
    <2> QED
        BY <1>2, <1>4, <2>1 DEF HeldBy
<1>6. cur = HeldBy(nodes, properties, references) /\ cur' = new
    BY <1>1, CurrentContents, NextContents
<1>7. cur.nodes = Held(nodes) /\ new.nodes = Held(nodes')
    BY <1>6 DEF HeldBy
<1> HIDE DEF new
<1>8. new = [cur EXCEPT !.nodes[n] = (cur').nodes[n]]
    BY <1>5, <1>6, <1>7
<1>9. Promise!Commit([cur EXCEPT !.nodes[n] = (cur').nodes[n]])
    BY <1>1, <1>8, Commits DEF new
<1> QED
    BY <1>3, <1>7, <1>9 DEF Promise!SetClassifier

LEMMA DeletePartitionRefines == Inv /\ DeletePartition => Promise!DeleteNode
<1> SUFFICES ASSUME Inv, DeletePartition, NEW n \in Ids, Exists(n),
                    Commit(Ended(history, nodes, {n}, nextRepoVersion),
                           Without(properties, KeysOf(n, Properties)),
                           Without(references, KeysOf(n, References)), FALSE)
             PROVE  Promise!DeleteNode
    BY DEF DeletePartition
<1> DEFINE cur == ContentsOf(Forever)
           new == HeldBy(nodes', properties', references')
           N == DOMAIN Held(nodes) \ {n}
<1>1. Step
    BY DeletePartitionStep
<1>2. /\ Ready(nodes, Ids, Classifiers)
      /\ Ready(properties, Ids \X Properties, Values)
      /\ Ready(references, Ids \X References, Seq(TargetsOfReferences))
    BY ReadyTables DEF Commit
<1>3. Held(nodes') = Restrict(Held(nodes), N)
    BY <1>2, EndedHolds DEF Commit, nextRepoVersion
<1>4. Held(properties') = Restrict(Held(properties), DOMAIN Held(properties) \ KeysOf(n, Properties))
    BY <1>2, WithoutNode, WithoutHolds DEF Commit
<1>5. Held(references') = Restrict(Held(references), DOMAIN Held(references) \ KeysOf(n, References))
    <2> DEFINE V == Seq(TargetsOfReferences)
               Ks == Ids \X References
               K == KeysOf(n, References)
    <2>1. Ready(references, Ks, V) /\ references' = Without(references, K)
        BY <1>2 DEF Commit
    <2> HIDE DEF V
    <2>2. Keys(Current(Without(references, K))) = Keys(Current(references)) \ K
        BY <2>1, WithoutNode
    <2> HIDE DEF Ks, K
    <2>3. Held(references') = Restrict(Held(references), DOMAIN Held(references) \ K)
        BY <2>1, <2>2, WithoutHolds
    <2> QED
        BY <2>3 DEF K
<1>6. /\ DOMAIN Held(properties) \subseteq Ids \X Properties
      /\ DOMAIN Held(references) \subseteq Ids \X References
    <2> DEFINE Ks == Ids \X References
               V == Seq(TargetsOfReferences)
    <2>1. properties \subseteq Rows(Ids \X Properties, Values) /\ references \subseteq Rows(Ks, V)
        BY DEF Inv, TypeOK
    <2> HIDE DEF Ks, V
    <2>2. DOMAIN Held(references) \subseteq Ks
        BY <2>1, HeldKeys
    <2> QED
        BY <2>1, <2>2, HeldKeys DEF Ks
<1>7. /\ \A k \in DOMAIN Held(properties) \union DOMAIN Held(references) : k[1] \in DOMAIN Held(nodes)
      /\ n \in DOMAIN Held(nodes)
    BY OwnedNow, HeldDomain DEF Owned, Exists
<1>8. DOMAIN Held(properties) \ KeysOf(n, Properties) = {k \in DOMAIN Held(properties) : k[1] \in N}
    BY <1>6, <1>7 DEF KeysOf
<1>9. DOMAIN Held(references) \ KeysOf(n, References) = {k \in DOMAIN Held(references) : k[1] \in N}
    BY <1>6, <1>7 DEF KeysOf
<1>10. cur = HeldBy(nodes, properties, references)
    BY CurrentContents
<1>11. /\ cur.nodes = Held(nodes) /\ cur.properties = Held(properties)
       /\ cur.references = Held(references)
    BY <1>10 DEF HeldBy
<1>12. N \intersect DOMAIN cur.nodes = N
    BY <1>11
<1> HIDE DEF N
<1>13. new = Promise!About(cur, N)
    BY <1>3, <1>4, <1>5, <1>8, <1>9, <1>11, <1>12 DEF HeldBy, Promise!About, Promise!Of, Restrict,
       Promise!Restrict
<1>14. Promise!Commit(Promise!About(cur, N))
    BY <1>1, <1>13, Commits
<1> QED
    BY <1>7, <1>11, <1>14 DEF Promise!DeleteNode, N

\* What a new node brings to a table of features is told from the rest by the node.
Brings(f, x, n, old, g) ==
    /\ n \notin old
    /\ f = [k \in DOMAIN f |-> f[k]]
    /\ \A k \in DOMAIN f : k[1] \in old
    /\ \A k \in DOMAIN x : k[1] = n
    /\ g = With(f, {}, DOMAIN x, x)

LEMMA NewFeatures ==
    ASSUME NEW f, NEW x, NEW n, NEW old, NEW g, Brings(f, x, n, old, g)
    PROVE  Promise!Of(g, old) = f /\ Promise!Of(g, old \union {n}) = g
<1> USE DEF Brings
<1>1. DOMAIN g = DOMAIN f \union DOMAIN x
    BY DEF With
<1>2. \A k \in DOMAIN f : k \notin DOMAIN x /\ g[k] = f[k]
    BY DEF With
<1>3. {k \in DOMAIN g : k[1] \in old} = DOMAIN f
    BY <1>1
<1>4. {k \in DOMAIN g : k[1] \in old \union {n}} = DOMAIN g
    BY <1>1
<1>5. g = [k \in DOMAIN g |-> g[k]]
    BY DEF With
<1>6. Promise!Of(g, old) = [k \in DOMAIN f |-> f[k]]
    BY <1>2, <1>3 DEF Promise!Of, Promise!Restrict, Restrict
<1>7. Promise!Of(g, old \union {n}) = [k \in DOMAIN g |-> g[k]]
    BY <1>4 DEF Promise!Of, Promise!Restrict, Restrict
<1> QED
    BY <1>5, <1>6, <1>7

LEMMA AddPartitionRefines == Inv /\ AddPartition => Promise!AddNode
<1> SUFFICES ASSUME Inv, AddPartition, NEW n \in Ids, NEW c \in Classifiers,
                    NEW ps \in [Properties -> Values \union {Null}],
                    NEW rs \in [References -> {<<>>} \union {<<x>> : x \in TargetsOfReferences}],
                    ~Exists(n),
                    Commit(Inserted(nodes, n, c),
                           InsertAll(history, properties, RowsToInsert(n, ps, Null), nextRepoVersion),
                           InsertAll(history, references, RowsToInsert(n, rs, <<>>), nextRepoVersion),
                           FALSE)
             PROVE  Promise!AddNode
    BY DEF AddPartition
<1> DEFINE cur == ContentsOf(Forever)
           new == HeldBy(nodes', properties', references')
           old == DOMAIN Held(nodes)
           x == RowsToInsert(n, ps, Null)
           y == RowsToInsert(n, rs, <<>>)
           z == Entry(n, c)
<1>1. Step
    BY AddPartitionStep
<1>2. version < MaxVersion
    BY DEF Commit
<1>3. Held(nodes') = With(Held(nodes), {}, {n}, z)
    <2>1. nodes' = Inserted(nodes, n, c) /\ n \notin Keys(Current(nodes))
        BY DEF Commit, Exists
    <2>2. Held(Inserted(nodes, n, c)) = With(Held(nodes), {}, {n}, Entry(n, c))
        BY <1>2, <2>1, ReadyTables, InsertedHolds
    <2> QED
        BY <2>1, <2>2
<1>4. \A k \in Keys(Current(properties)) \union Keys(Current(references)) : k[1] # n
    BY OwnedNow DEF Owned, Exists
<1>5. Held(properties') = With(Held(properties), {}, DOMAIN x, x)
    <2>1. /\ DOMAIN x \subseteq Ids \X Properties
          /\ \A k \in DOMAIN x : x[k] \in Values /\ k[1] = n
        BY DEF RowsToInsert
    <2> HIDE DEF x
    <2>2. properties' = InsertAll(history, properties, x, nextRepoVersion)
        BY DEF Commit, x
    <2> QED
        BY <1>2, <1>4, <2>1, <2>2, ReadyTables, InsertAllHolds
<1>6. Held(references') = With(Held(references), {}, DOMAIN y, y)
    <2>1. /\ DOMAIN y \subseteq Ids \X References
          /\ \A k \in DOMAIN y : k[1] = n
        BY DEF RowsToInsert
    <2>2. \A k \in DOMAIN y : y[k] \in Seq(TargetsOfReferences)
        <3>1. \A w \in TargetsOfReferences : <<w>> \in Seq(TargetsOfReferences)
            OBVIOUS
        <3>2. \A r \in References : rs[r] # <<>> => rs[r] \in Seq(TargetsOfReferences)
            BY <3>1
        <3> QED
            BY <3>2 DEF RowsToInsert
    <2> HIDE DEF y
    <2>3. references' = InsertAll(history, references, y, nextRepoVersion)
        BY DEF Commit, y
    <2> QED
        BY <1>2, <1>4, <2>1, <2>2, <2>3, ReadyTables, InsertAllHolds
<1>7. n \notin old /\ \A k \in DOMAIN Held(properties) \union DOMAIN Held(references) : k[1] \in old
    BY OwnedNow, HeldDomain DEF Owned, Exists
<1>8. \A k \in DOMAIN x \union DOMAIN y : k[1] = n
    BY DEF RowsToInsert
<1> HIDE DEF x, y
<1>9. /\ Held(nodes) = [k \in old |-> Held(nodes)[k]]
      /\ Held(properties) = [k \in DOMAIN Held(properties) |-> Held(properties)[k]]
      /\ Held(references) = [k \in DOMAIN Held(references) |-> Held(references)[k]]
    BY HeldDomain
<1>10. /\ Promise!Of(Held(properties'), old) = Held(properties)
       /\ Promise!Of(Held(properties'), old \union {n}) = Held(properties')
    <2> DEFINE f == Held(properties)
               g == Held(properties')
    <2>1. Brings(f, x, n, old, g)
        BY <1>5, <1>7, <1>8, <1>9 DEF Brings
    <2> HIDE DEF f, g, old
    <2>2. Promise!Of(g, old) = f /\ Promise!Of(g, old \union {n}) = g
        BY <2>1, NewFeatures
    <2> QED
        BY <2>2 DEF f, g, old
<1>11. /\ Promise!Of(Held(references'), old) = Held(references)
       /\ Promise!Of(Held(references'), old \union {n}) = Held(references')
    <2> DEFINE f == Held(references)
               g == Held(references')
    <2>1. Brings(f, y, n, old, g)
        BY <1>6, <1>7, <1>8, <1>9 DEF Brings
    <2> HIDE DEF f, g, old
    <2>2. Promise!Of(g, old) = f /\ Promise!Of(g, old \union {n}) = g
        BY <2>1, NewFeatures
    <2> QED
        BY <2>2 DEF f, g, old
<1>12. /\ DOMAIN Held(nodes') = old \union {n}
       /\ Restrict(Held(nodes'), old) = Held(nodes)
       /\ Restrict(Held(nodes'), old \union {n}) = Held(nodes')
    BY <1>3, <1>7, <1>9 DEF With, Restrict, Entry
<1>13. cur = HeldBy(nodes, properties, references) /\ cur' = new
    BY <1>1, CurrentContents, NextContents
<1>14. /\ cur.nodes = Held(nodes) /\ new.nodes = Held(nodes')
       /\ new.properties = Held(properties') /\ new.references = Held(references')
    BY <1>13 DEF HeldBy
<1> HIDE DEF new, old
<1>15. Promise!About(new, old) = cur
    <2>1. old \intersect DOMAIN new.nodes = old
        BY <1>12, <1>14
    <2> QED
        BY <2>1, <1>10, <1>11, <1>12, <1>13, <1>14
        DEF Promise!About, HeldBy, Promise!Restrict, Restrict
<1>16. Promise!About(new, old \union {n}) = new
    <2>1. (old \union {n}) \intersect DOMAIN new.nodes = old \union {n}
        BY <1>12, <1>14
    <2> QED
        BY <2>1, <1>10, <1>11, <1>12, <1>14 DEF Promise!About, HeldBy, Promise!Restrict, Restrict, new
<1>17. Promise!Commit(new)
    BY <1>1, Commits DEF new
<1>18. n \in DOMAIN (cur').nodes \ DOMAIN cur.nodes /\ DOMAIN cur.nodes = old
    BY <1>7, <1>12, <1>13, <1>14 DEF old
<1> QED
    BY <1>13, <1>15, <1>16, <1>17, <1>18 DEF Promise!AddNode

(***************************************************************************)
(* The commands on properties.                                             *)
(***************************************************************************)
\* Feature k is x from now on, or is gone and no other with it.
SetTo(f, k, x) == With(f, {}, {k}, Entry(k, x))

LEMMA ChangedHolds ==
    ASSUME NEW Ks, NEW V, NEW t, Ready(t, Ks, V),
           NEW k \in Ks, NEW x \in V,
           NEW u, u = IF k \in Keys(Current(t)) THEN UpdatedTo(t, k, x) ELSE Inserted(t, k, x)
    PROVE  Held(u) = SetTo(Held(t), k, x)
<1>1. CASE k \in Keys(Current(t))
    <2>1. u = UpdatedTo(t, k, x)
        BY <1>1
    <2>2. Held(u) = [Held(t) EXCEPT ![k] = x]
        BY <1>1, <2>1, UpdatedHolds
    <2> DEFINE f == Held(t)
    <2>3. k \in DOMAIN f
        BY <1>1, HeldDomain
    <2> HIDE DEF f
    <2>4. (DOMAIN f \ {}) \union {k} = DOMAIN f
        BY <2>3
    <2>5. SetTo(f, k, x) = [q \in DOMAIN f |-> IF q = k THEN x ELSE f[q]]
        BY <2>4 DEF SetTo, With, Entry
    <2>6. SetTo(f, k, x) = [f EXCEPT ![k] = x]
        BY <2>5
    <2> QED
        BY <2>2, <2>6 DEF f
<1>2. CASE k \notin Keys(Current(t))
    <2>1. u = Inserted(t, k, x)
        BY <1>2
    <2> QED
        BY <1>2, <2>1, InsertedHolds DEF SetTo
<1> QED
    BY <1>1, <1>2

LEMMA GoneHolds ==
    ASSUME NEW Ks, NEW V, NEW t, Ready(t, Ks, V), NEW k,
           ~EndsOthers(t, {k}), NEW u, u = Without(t, {k})
    PROVE  Held(u) = Restrict(Held(t), DOMAIN Held(t) \ {k})
<1> DEFINE K == {k}
<1>1. u = Without(t, K)
    OBVIOUS
<1>2. Keys(Current(Without(t, K))) = Keys(Current(t)) \ K
    BY DEF EndsOthers
<1> HIDE DEF K
<1>3. Held(Without(t, K)) = Restrict(Held(t), DOMAIN Held(t) \ K)
    BY <1>2, WithoutHolds
<1> QED
    BY <1>1, <1>3 DEF K

\* Only property k is not what it was.
OnlyChanges(f, g, k) ==
    /\ k \in DOMAIN f \union DOMAIN g
    /\ g # f
    /\ Restrict(g, DOMAIN g \ {k}) = Restrict(f, DOMAIN f \ {k})

LEMMA SetsProperty ==
    ASSUME Inv, Step, nodes' = nodes, references' = references,
           NEW k, k[1] \in DOMAIN Held(nodes),
           OnlyChanges(Held(properties), Held(properties'), k)
    PROVE  Promise!SetProperty
<1> DEFINE cur == ContentsOf(Forever)
           new == HeldBy(nodes', properties', references')
<1>1. cur = HeldBy(nodes, properties, references) /\ cur' = new
    BY CurrentContents, NextContents
<1>2. /\ cur.nodes = Held(nodes) /\ cur.properties = Held(properties)
      /\ new.properties = Held(properties')
    BY <1>1 DEF HeldBy
<1>3. new = [cur EXCEPT !.properties = Held(properties')]
    BY <1>1 DEF HeldBy
<1>4. Promise!Commit([cur EXCEPT !.properties = Held(properties')])
    BY <1>3, Commits
<1> HIDE DEF new
<1> QED
    BY <1>1, <1>2, <1>4 DEF Promise!SetProperty, OnlyChanges, Restrict, Promise!Restrict

LEMMA SetToChanges ==
    ASSUME NEW f, NEW k, NEW x, f = [q \in DOMAIN f |-> f[q]], k \in DOMAIN f => f[k] # x
    PROVE  OnlyChanges(f, SetTo(f, k, x), k)
<1> DEFINE g == SetTo(f, k, x)
<1>1. DOMAIN g = DOMAIN f \union {k} /\ g[k] = x /\ \A q \in DOMAIN f : q # k => g[q] = f[q]
    BY DEF SetTo, With, Entry
<1> HIDE DEF g
<1>2. g # f
    BY <1>1
<1>3. DOMAIN g \ {k} = DOMAIN f \ {k}
    BY <1>1
<1>4. Restrict(g, DOMAIN g \ {k}) = Restrict(f, DOMAIN f \ {k})
    BY <1>1, <1>3 DEF Restrict
<1> QED
    BY <1>1, <1>2, <1>4 DEF g, OnlyChanges

LEMMA GoneChanges ==
    ASSUME NEW f, NEW k \in DOMAIN f
    PROVE  OnlyChanges(f, Restrict(f, DOMAIN f \ {k}), k)
<1> DEFINE g == Restrict(f, DOMAIN f \ {k})
<1>1. DOMAIN g = DOMAIN f \ {k} /\ \A q \in DOMAIN g : g[q] = f[q]
    BY DEF Restrict
<1> HIDE DEF g
<1>2. g # f
    BY <1>1
<1>3. DOMAIN g \ {k} = DOMAIN f \ {k}
    BY <1>1
<1>4. Restrict(g, DOMAIN g \ {k}) = Restrict(f, DOMAIN f \ {k})
    BY <1>1, <1>3 DEF Restrict
<1> QED
    BY <1>1, <1>2, <1>4 DEF g, OnlyChanges

\* What the three commands on a property have in common.
LEMMA PropertyRefines ==
    ASSUME Inv, Next, NEW n \in Ids, NEW p \in Properties, NEW x \in Values \union {Null}, Exists(n),
           nodes' = nodes, references' = references, version < MaxVersion,
           properties' = WithProperty(n, p, x),
           IF x = Null THEN HasProperty(n, p) /\ ~EndsOthers(properties, {<<n, p>>})
                       ELSE HasProperty(n, p) => HasChanged(n, p, x)
    PROVE  Promise!SetProperty
<1> DEFINE k == <<n, p>>
           Ks == Ids \X Properties
           f == Held(properties)
<1>1. Step
    BY NextStep
<1>2. Ready(properties, Ks, Values)
    BY ReadyTables
<1>3. k \in Ks /\ k[1] = n /\ k[1] \in DOMAIN Held(nodes)
    BY HeldDomain DEF Exists
<1>4. /\ f = [q \in DOMAIN f |-> f[q]]
      /\ HasProperty(n, p) <=> k \in DOMAIN f
      /\ HasChanged(n, p, x) <=> f[k] # x
    BY HeldDomain DEF HasProperty, HasChanged, Value, Held
<1>5. properties' = IF x = Null THEN Without(properties, {k})
                    ELSE IF k \in Keys(Current(properties)) THEN UpdatedTo(properties, k, x)
                                                          ELSE Inserted(properties, k, x)
    BY DEF WithProperty, Changed, FeatureMissing
<1> HIDE DEF Ks, k, f
<1>6. CASE x = Null
    <2>1. properties' = Without(properties, {k})
        BY <1>5, <1>6
    <2>2. ~EndsOthers(properties, {k}) /\ k \in DOMAIN f
        BY <1>4, <1>6 DEF k
    <2>3. Held(properties') = Restrict(f, DOMAIN f \ {k})
        BY <1>2, <2>1, <2>2, GoneHolds DEF f
    <2>4. OnlyChanges(f, Held(properties'), k)
        BY <2>2, <2>3, GoneChanges
    <2> QED
        BY <1>1, <1>3, <2>4, SetsProperty DEF f
<1>7. CASE x # Null
    <2>1. properties' = IF k \in Keys(Current(properties)) THEN UpdatedTo(properties, k, x)
                                                          ELSE Inserted(properties, k, x)
        BY <1>5, <1>7
    <2>2. x \in Values /\ (k \in DOMAIN f => f[k] # x)
        BY <1>4, <1>7
    <2>3. Held(properties') = SetTo(f, k, x)
        BY <1>2, <1>3, <2>1, <2>2, ChangedHolds DEF f
    <2>4. OnlyChanges(f, Held(properties'), k)
        BY <1>4, <2>2, <2>3, SetToChanges
    <2> QED
        BY <1>1, <1>3, <2>4, SetsProperty DEF f
<1> QED
    BY <1>6, <1>7

LEMMA PropertiesRefine ==
    Inv /\ (AddProperty \/ (DeleteProperty /\ ~stray') \/ ChangeProperty) => Promise!SetProperty
<1> SUFFICES ASSUME Inv, AddProperty \/ (DeleteProperty /\ ~stray') \/ ChangeProperty
             PROVE  Promise!SetProperty
    OBVIOUS
<1> USE NullAssumption
<1>1. Next
    BY DEF Next
<1>2. CASE AddProperty
    <2>1. PICK n \in Ids, p \in Properties, x \in Values :
            /\ Exists(n) /\ ~HasProperty(n, p)
            /\ Commit(nodes, WithProperty(n, p, x), references, FALSE)
        BY <1>2 DEF AddProperty
    <2> QED
        BY <1>1, <2>1, PropertyRefines DEF Commit
<1>3. CASE DeleteProperty /\ ~stray'
    <2>1. PICK n \in Ids, p \in Properties :
            /\ Exists(n) /\ HasProperty(n, p)
            /\ Commit(nodes, WithProperty(n, p, Null), references,
                      EndsOthers(properties, {<<n, p>>}))
        BY <1>3 DEF DeleteProperty
    <2>2. ~EndsOthers(properties, {<<n, p>>})
        BY <1>3, <2>1 DEF Commit
    <2> QED
        BY <1>1, <2>1, <2>2, PropertyRefines DEF Commit
<1>4. CASE ChangeProperty
    <2>1. PICK n \in Ids, p \in Properties, x \in Values :
            /\ Exists(n) /\ HasProperty(n, p)
            /\ HasChanged(n, p, x)
            /\ Commit(nodes, WithProperty(n, p, x), references, FALSE)
        BY <1>4 DEF ChangeProperty
    <2> QED
        BY <1>1, <2>1, PropertyRefines DEF Commit
<1> QED
    BY <1>2, <1>3, <1>4

(***************************************************************************)
(* splice(), as the operations on lists that it is used for.               *)
(***************************************************************************)
LEMMA SplicesIn ==
    ASSUME NEW S, NEW s \in Seq(S), NEW i \in Int, NEW x
    PROVE  \E j \in 1..Len(s) + 1 : Splice(s, i, 0, <<x>>) = InsertAt(s, j, x)
<1> DEFINE from == IF i >= 0 THEN IF i < Len(s) THEN i ELSE Len(s)
                   ELSE IF Len(s) + i > 0 THEN Len(s) + i ELSE 0
<1>1. Len(s) \in Nat
    BY LenProperties
<1>2. from \in Nat /\ from <= Len(s)
    BY <1>1
<1>3. Splice(s, i, 0, <<x>>) = SubSeq(s, 1, from) \o <<x>> \o SubSeq(s, from + 0 + 1, Len(s))
    BY DEF Splice
<1> HIDE DEF from
<1> DEFINE j == from + 1
<1>4. j \in 1..Len(s) + 1 /\ j - 1 = from /\ from + 0 + 1 = j
    BY <1>1, <1>2
<1>5. Splice(s, i, 0, <<x>>) = InsertAt(s, j, x)
    BY <1>3, <1>4 DEF InsertAt
<1> HIDE DEF j
<1> QED
    BY <1>4, <1>5

LEMMA SplicesAt ==
    ASSUME NEW S, NEW s \in Seq(S), NEW i \in 0..Len(s) - 1, NEW items
    PROVE  Splice(s, i, 1, items) = SubSeq(s, 1, i) \o items \o SubSeq(s, i + 2, Len(s))
<1> DEFINE from == IF i >= 0 THEN IF i < Len(s) THEN i ELSE Len(s)
                   ELSE IF Len(s) + i > 0 THEN Len(s) + i ELSE 0
<1>1. Len(s) \in Nat
    BY LenProperties
<1>2. from = i
    BY <1>1
<1>3. Splice(s, i, 1, items) = SubSeq(s, 1, from) \o items \o SubSeq(s, from + 1 + 1, Len(s))
    BY DEF Splice
<1> HIDE DEF from
<1>4. from + 1 + 1 = i + 2
    BY <1>1, <1>2
<1> QED
    BY <1>2, <1>3, <1>4

\* The items before place i + 1 of a list, and those after it.
LEMMA Around ==
    ASSUME NEW S, NEW s \in Seq(S), NEW i \in 0..Len(s) - 1
    PROVE  /\ SubSeq(s, 1, i) \in Seq(S) /\ Len(SubSeq(s, 1, i)) = i
           /\ \A q \in 1..i : SubSeq(s, 1, i)[q] = s[q]
           /\ SubSeq(s, i + 2, Len(s)) \in Seq(S) /\ Len(SubSeq(s, i + 2, Len(s))) = Len(s) - i - 1
           /\ \A q \in 1..Len(s) - i - 1 : SubSeq(s, i + 2, Len(s))[q] = s[i + 1 + q]
OBVIOUS

LEMMA SplicesOut ==
    ASSUME NEW S, NEW s \in Seq(S), NEW i \in 0..Len(s) - 1
    PROVE  Splice(s, i, 1, <<>>) = RemoveAt(s, i + 1)
<1>1. Len(s) \in Nat
    BY LenProperties
<1>2. Splice(s, i, 1, <<>>) = SubSeq(s, 1, i) \o <<>> \o SubSeq(s, i + 2, Len(s))
    BY SplicesAt
<1>3. SubSeq(s, 1, i) \in Seq(S)
    BY Around
<1>4. SubSeq(s, 1, i) \o <<>> = SubSeq(s, 1, i)
    BY <1>3, ConcatEmptySeq
<1> DEFINE j == i + 1
<1>5. j - 1 = i /\ j + 1 = i + 2
    BY <1>1
<1> HIDE DEF j
<1>6. RemoveAt(s, j) = SubSeq(s, 1, i) \o SubSeq(s, i + 2, Len(s))
    BY <1>5 DEF RemoveAt
<1> QED
    BY <1>2, <1>4, <1>6 DEF j

LEMMA SplicesOver ==
    ASSUME NEW S, NEW s \in Seq(S), NEW i \in 0..Len(s) - 1, NEW x \in S
    PROVE  Splice(s, i, 1, <<x>>) = ReplaceAt(s, i + 1, x)
<1> DEFINE n == Len(s)
           m == n - i - 1
           j == i + 1
           a == SubSeq(s, 1, i)
           one == <<x>>
           b == SubSeq(s, i + 2, n)
           r == ReplaceAt(s, j, x)
<1>1. n \in Nat /\ i \in Nat /\ j \in Nat /\ m \in Nat /\ j = i + 1 /\ m = n - j
    BY LenProperties
<1>2. Splice(s, i, 1, one) = a \o one \o b
    BY SplicesAt
<1>3. /\ a \in Seq(S) /\ Len(a) = i /\ \A q \in 1..i : a[q] = s[q]
      /\ b \in Seq(S) /\ Len(b) = m /\ \A q \in 1..m : b[q] = s[j + q]
    BY Around
<1>4. one \in Seq(S) /\ Len(one) = 1 /\ one[1] = x
    OBVIOUS
<1>5. r \in Seq(S) /\ Len(r) = n /\ \A q \in 1..n : r[q] = IF q = j THEN x ELSE s[q]
    BY DEF ReplaceAt
<1> HIDE DEF n, m, j, a, b, one, r
<1> DEFINE c == a \o one
<1>6. /\ c \in Seq(S) /\ Len(c) = Len(a) + Len(one)
      /\ \A q \in 1..Len(a) + Len(one) : c[q] = IF q <= Len(a) THEN a[q] ELSE one[q - Len(a)]
    BY <1>3, <1>4, ConcatProperties
<1> HIDE DEF c
<1>7. Len(a) + Len(one) = j /\ j + m = n
    BY <1>1, <1>3, <1>4
<1>8. Len(c) = j /\ \A q \in 1..j : c[q] = IF q <= i THEN a[q] ELSE one[q - i]
    BY <1>3, <1>6, <1>7
<1> DEFINE d == c \o b
<1>9. /\ d \in Seq(S) /\ Len(d) = Len(c) + Len(b)
      /\ \A q \in 1..Len(c) + Len(b) : d[q] = IF q <= Len(c) THEN c[q] ELSE b[q - Len(c)]
    BY <1>3, <1>6, ConcatProperties
<1> HIDE DEF d
<1>10. Len(d) = n /\ \A q \in 1..n : d[q] = IF q <= j THEN c[q] ELSE b[q - j]
    BY <1>3, <1>7, <1>8, <1>9
<1>11. ASSUME NEW q \in 1..n PROVE d[q] = r[q]
    <2>1. CASE q <= i
        <3>1. q \in 1..i /\ q \in 1..j /\ q # j
            BY <1>1, <2>1
        <3> QED
            BY <1>3, <1>5, <1>8, <1>10, <2>1, <3>1
    <2>2. CASE q = j
        <3>1. q - i = 1 /\ q \in 1..j /\ ~(q <= i)
            BY <1>1, <2>2
        <3> QED
            BY <1>4, <1>5, <1>8, <1>10, <2>2, <3>1
    <2>3. CASE q > j
        <3>1. q - j \in 1..m /\ j + (q - j) = q /\ ~(q <= j) /\ q # j
            BY <1>1, <2>3
        <3> QED
            BY <1>3, <1>5, <1>10, <3>1
    <2> QED
        BY <1>1, <2>1, <2>2, <2>3
<1>12. d = r
    BY <1>5, <1>9, <1>10, <1>11, SeqEqual
<1> QED
    BY <1>2, <1>12 DEF d, c, r, one, j

(***************************************************************************)
(* The commands on references.                                             *)
(***************************************************************************)
\* What a command on reference k leaves in the table: s, or no row for k.
Left(f, k, s) == IF s = <<>> THEN Restrict(f, DOMAIN f \ {k}) ELSE SetTo(f, k, s)

LEMMA LeftAsPromised ==
    ASSUME NEW f, NEW k, NEW s
    PROVE  Left(f, k, s) = IF s = <<>> THEN Restrict(f, DOMAIN f \ {k})
                           ELSE Promise!Over(Promise!Only(k, s), f)
<1> DEFINE g == Promise!Over(Promise!Only(k, s), f)
           h == SetTo(f, k, s)
<1>1. g = [q \in {k} \union DOMAIN f |-> IF q \in {k} THEN s ELSE f[q]]
    BY DEF Promise!Over, Promise!Only
<1>2. h = [q \in (DOMAIN f \ {}) \union {k} |-> IF q \in {k} THEN s ELSE f[q]]
    BY DEF SetTo, With, Entry
<1>3. (DOMAIN f \ {}) \union {k} = {k} \union DOMAIN f
    OBVIOUS
<1>4. g = h
    BY <1>1, <1>2, <1>3
<1> QED
    BY <1>4 DEF Left

\* A step that leaves s for k is what Refer says.
LEMMA Refers ==
    ASSUME Inv, Step, nodes' = nodes, properties' = properties, NEW k, NEW s,
           k[1] \in DOMAIN Held(nodes), Held(references') = Left(Held(references), k, s)
    PROVE  Promise!Refer(k, s)
<1> DEFINE cur == ContentsOf(Forever)
           new == HeldBy(nodes', properties', references')
           t == Promise!WithTargets(k, s)
<1>1. cur = HeldBy(nodes, properties, references)
    BY CurrentContents
<1>2. cur.nodes = Held(nodes) /\ cur.references = Held(references)
    BY <1>1 DEF HeldBy
<1>3. t = IF s = <<>> THEN Restrict(cur.references, DOMAIN cur.references \ {k})
          ELSE Promise!Over(Promise!Only(k, s), cur.references)
    BY DEF Promise!WithTargets, Promise!Restrict, Restrict
<1> HIDE DEF t
<1>4. Held(references') = t
    BY <1>2, <1>3, LeftAsPromised
<1>5. new = [cur EXCEPT !.references = t]
    BY <1>1, <1>4 DEF HeldBy
<1> HIDE DEF new
<1>6. Promise!Commit([cur EXCEPT !.references = t])
    BY <1>5, Commits DEF new
<1> QED
    BY <1>2, <1>6 DEF Promise!Refer, t

\* The targets of a reference and what a command makes of them.
LEMMA TargetsPromised ==
    ASSUME Inv, NEW n, NEW r
    PROVE  TargetsOf(n, r) = Promise!Targets(<<n, r>>)
<1> DEFINE cur == ContentsOf(Forever)
           k == <<n, r>>
<1>1. cur.references = Held(references)
    BY CurrentContents DEF HeldBy
<1>2. DOMAIN Held(references) = Keys(Current(references))
    BY HeldDomain
<1> QED
    BY <1>1, <1>2 DEF TargetsOf, HasReference, Value, Held, Promise!Targets

Leaving(t, k, s) ==
    IF s = <<>> THEN Without(t, {k})
    ELSE IF k \in Keys(Current(t)) THEN UpdatedTo(t, k, s) ELSE Inserted(t, k, s)

EndsOnly(t, k) == ~EndsOthers(t, {k})

LEMMA LeftHolds ==
    ASSUME NEW Ks, NEW V, NEW t, Ready(t, Ks, V), NEW k \in Ks, NEW s \in V,
           s = <<>> => EndsOnly(t, k), NEW u, u = Leaving(t, k, s)
    PROVE  Held(u) = Left(Held(t), k, s)
<1>1. CASE s = <<>>
    <2>1. u = Without(t, {k}) /\ ~EndsOthers(t, {k})
        BY <1>1 DEF Leaving, EndsOnly
    <2>2. Held(u) = Restrict(Held(t), DOMAIN Held(t) \ {k})
        <3> DEFINE K == {k}
        <3>1. u = Without(t, K) /\ Keys(Current(Without(t, K))) = Keys(Current(t)) \ K
            BY <2>1 DEF EndsOthers
        <3> HIDE DEF K
        <3>2. Held(Without(t, K)) = Restrict(Held(t), DOMAIN Held(t) \ K)
            BY <3>1, WithoutHolds
        <3> QED
            BY <3>1, <3>2 DEF K
    <2> QED
        BY <1>1, <2>2 DEF Left
<1>2. CASE s # <<>>
    <2>1. u = IF k \in Keys(Current(t)) THEN UpdatedTo(t, k, s) ELSE Inserted(t, k, s)
        BY <1>2 DEF Leaving
    <2>2. Held(u) = SetTo(Held(t), k, s)
        BY <2>1, ChangedHolds
    <2> QED
        BY <1>2, <2>2 DEF Left
<1> QED
    BY <1>1, <1>2

LEMMA WithTargetsHolds ==
    ASSUME Inv, version < MaxVersion, NEW n \in Ids, NEW r \in References,
           NEW s \in Seq(TargetsOfReferences),
           s = <<>> => EndsOnly(references, <<n, r>>),
           references' = WithTargets(n, r, s)
    PROVE  Held(references') = Left(Held(references), <<n, r>>, s)
<1> DEFINE k == <<n, r>>
           Ks == Ids \X References
           V == Seq(TargetsOfReferences)
           u == references'
<1>1. Ready(references, Ks, V) /\ k \in Ks /\ s \in V
    BY ReadyTables
<1>2. u = Leaving(references, k, s)
    BY DEF WithTargets, Changed, FeatureMissing, Leaving
<1>3. s = <<>> => EndsOnly(references, k)
    OBVIOUS
<1> HIDE DEF k, Ks, V, u
<1>4. Held(u) = Left(Held(references), k, s)
    BY <1>1, <1>2, <1>3, LeftHolds
<1> QED
    BY <1>4 DEF u, k

\* What the three commands on a reference have in common.
Refer(n, r, s) ==
    /\ Promise!Refer(<<n, r>>, s)
    /\ HasReference(n, r) \/ s # <<>> => <<n, r>> \in Promise!ReferencesNow
    /\ \A x \in ToSet(s) :
        x \in UNION {Promise!ToSet((ContentsOf(Forever)').references[l]) :
                        l \in DOMAIN (ContentsOf(Forever)').references}

LEMMA ReferenceRefines ==
    ASSUME Inv, Step, NEW n \in Ids, NEW r \in References, NEW s \in Seq(TargetsOfReferences),
           Exists(n), version < MaxVersion, nodes' = nodes, properties' = properties,
           s = <<>> => EndsOnly(references, <<n, r>>),
           references' = WithTargets(n, r, s)
    PROVE  Refer(n, r, s)
<1> DEFINE k == <<n, r>>
           cur == ContentsOf(Forever)
           f == Held(references)
           g == Held(references')
<1>1. g = Left(f, k, s)
    BY WithTargetsHolds
<1>2. k[1] \in DOMAIN Held(nodes)
    BY HeldDomain DEF Exists
<1>3. Promise!Refer(k, s)
    <2> HIDE DEF k
    <2> QED
        BY <1>1, <1>2, Refers
<1>4. cur.references = f /\ (cur').references = g
    BY CurrentContents, NextContents DEF HeldBy
<1>5. HasReference(n, r) <=> k \in DOMAIN f
    BY HeldDomain DEF HasReference
<1> HIDE DEF f, g
<1>6. s # <<>> => k \in DOMAIN g /\ g[k] = s
    BY <1>1 DEF Left, SetTo, With, Entry
<1>7. HasReference(n, r) \/ s # <<>> => k \in Promise!ReferencesNow
    BY <1>4, <1>5, <1>6 DEF Promise!ReferencesNow
<1>8. ASSUME NEW x \in ToSet(s)
      PROVE  x \in UNION {Promise!ToSet((cur').references[l]) : l \in DOMAIN (cur').references}
    <2>1. s # <<>>
        BY DEF ToSet
    <2>2. x \in Promise!ToSet((cur').references[k]) /\ k \in DOMAIN (cur').references
        BY <1>4, <1>6, <2>1 DEF ToSet, Promise!ToSet
    <2> QED
        BY <2>2
<1> QED
    BY <1>3, <1>7, <1>8 DEF Refer

\* The item that is put into a list is in it.
LEMMA InsertedIn ==
    ASSUME NEW S, NEW s \in Seq(S), NEW x \in S, NEW j \in 1..Len(s) + 1
    PROVE  InsertAt(s, j, x) # <<>> /\ x \in ToSet(InsertAt(s, j, x))
<1> DEFINE a == SubSeq(s, 1, j - 1)
           b == SubSeq(s, j, Len(s))
           one == <<x>>
           m == Len(s)
<1>1. m \in Nat /\ s \in [1..m -> S]
    BY LenProperties
<1>2. a \in Seq(S) /\ Len(a) = j - 1
    OBVIOUS
<1>3. b \in Seq(S) /\ Len(b) \in Nat
    OBVIOUS
<1>4. one \in Seq(S) /\ Len(one) = 1 /\ one[1] = x
    OBVIOUS
<1>5. InsertAt(s, j, x) = a \o one \o b
    BY DEF InsertAt
<1>6. j \in 1..m + 1
    OBVIOUS
<1> HIDE DEF a, b, one, m
<1> DEFINE c == a \o one
<1>7. /\ c \in Seq(S) /\ Len(c) = Len(a) + Len(one)
      /\ \A q \in 1..Len(a) + Len(one) : c[q] = IF q <= Len(a) THEN a[q] ELSE one[q - Len(a)]
    BY <1>2, <1>4, ConcatProperties
<1> HIDE DEF c
<1>8. Len(c) = j /\ j \in 1..Len(a) + Len(one) /\ ~(j <= Len(a)) /\ j - Len(a) = 1
    BY <1>1, <1>2, <1>4, <1>6, <1>7
<1>9. c[j] = x
    BY <1>4, <1>7, <1>8
<1> DEFINE d == c \o b
<1>10. /\ d \in Seq(S) /\ Len(d) = Len(c) + Len(b)
       /\ \A q \in 1..Len(c) + Len(b) : d[q] = IF q <= Len(c) THEN c[q] ELSE b[q - Len(c)]
    <2>1. b \in Seq(S) /\ c \in Seq(S)
        BY <1>3, <1>7
    <2> QED
        BY <2>1, ConcatProperties
<1> HIDE DEF d
<1>11. j \in 1..Len(c) + Len(b) /\ j <= Len(c)
    BY <1>1, <1>3, <1>6, <1>8
<1>12. d[j] = x /\ j \in 1..Len(d)
    BY <1>9, <1>10, <1>11
<1>13. d # <<>> /\ x \in ToSet(d)
    BY <1>10, <1>12 DEF ToSet
<1> QED
    BY <1>5, <1>13 DEF d, c

LEMMA ReplacedIn ==
    ASSUME NEW S, NEW s \in Seq(S), NEW x \in S, NEW j \in 1..Len(s)
    PROVE  ReplaceAt(s, j, x) # <<>> /\ x \in ToSet(ReplaceAt(s, j, x))
<1> DEFINE r == ReplaceAt(s, j, x)
<1>1. r \in Seq(S) /\ Len(r) = Len(s) /\ r[j] = x
    BY DEF ReplaceAt
<1> HIDE DEF r
<1>2. j \in 1..Len(r)
    BY <1>1
<1>3. r # <<>> /\ x \in ToSet(r)
    BY <1>1, <1>2 DEF ToSet
<1> QED
    BY <1>3 DEF r

LEMMA AddReferenceRefines == Inv /\ AddReference => Promise!AddTarget
<1> SUFFICES ASSUME Inv, AddReference, NEW n \in Ids, NEW r \in References,
                    NEW x \in TargetsOfReferences, NEW i \in AddIndexes(n, r), Exists(n),
                    Commit(nodes, properties,
                           WithTargets(n, r, Splice(TargetsOf(n, r), i, 0, <<x>>)), FALSE)
             PROVE  Promise!AddTarget
    BY DEF AddReference
<1> DEFINE k == <<n, r>>
           old == TargetsOf(n, r)
<1>1. old \in Seq(TargetsOfReferences) /\ i \in Int
    BY TargetsType DEF AddIndexes
<1>2. old = Promise!Targets(k)
    BY TargetsPromised
<1> HIDE DEF old
<1>3. PICK j \in 1..Len(old) + 1 : Splice(old, i, 0, <<x>>) = InsertAt(old, j, x)
    BY <1>1, SplicesIn
<1> DEFINE s == InsertAt(old, j, x)
<1>4. s # <<>> /\ x \in ToSet(s)
    BY <1>1, InsertedIn
<1>5. s \in Seq(TargetsOfReferences)
    <2>1. <<x>> \in Seq(TargetsOfReferences) /\ 0 \in Nat
        OBVIOUS
    <2> QED
        BY <1>1, <1>3, <2>1, SpliceType
<1>6. references' = WithTargets(n, r, s)
    BY <1>3 DEF Commit, old
<1> HIDE DEF s
<1>7. Step
    BY AddReferenceStep
<1>8. Refer(n, r, s)
    BY <1>4, <1>5, <1>6, <1>7, ReferenceRefines DEF Commit
<1>9. /\ k \in Promise!ReferencesNow /\ Promise!Refer(k, s)
      /\ x \in UNION {Promise!ToSet((ContentsOf(Forever)').references[l]) :
                        l \in DOMAIN (ContentsOf(Forever)').references}
    BY <1>4, <1>8 DEF Refer
<1>10. s = Promise!InsertAt(Promise!Targets(k), j, x) /\ j \in 1..Len(Promise!Targets(k)) + 1
    BY <1>2 DEF s, InsertAt, Promise!InsertAt
<1> QED
    BY <1>9, <1>10 DEF Promise!AddTarget

LEMMA DeleteReferenceRefines == Inv /\ DeleteReference /\ ~stray' => Promise!DeleteTarget
<1> SUFFICES ASSUME Inv, DeleteReference, ~stray', NEW n \in Ids, NEW r \in References,
                    NEW i \in Indexes(n, r), Exists(n),
                    Commit(nodes, properties,
                           WithTargets(n, r, Splice(TargetsOf(n, r), i, 1, <<>>)),
                           Splice(TargetsOf(n, r), i, 1, <<>>) = <<>>
                             /\ EndsOthers(references, {<<n, r>>}))
             PROVE  Promise!DeleteTarget
    BY DEF DeleteReference
<1> DEFINE k == <<n, r>>
           old == TargetsOf(n, r)
           j == i + 1
<1>1. old \in Seq(TargetsOfReferences) /\ i \in 0..Len(old) - 1
    BY TargetsType DEF Indexes
<1>2. old = Promise!Targets(k)
    BY TargetsPromised
<1>3. HasReference(n, r)
    <2>1. CASE ~HasReference(n, r)
        <3>1. Len(old) = 0
            BY <2>1 DEF TargetsOf
        <3> QED
            BY <1>1, <3>1
    <2> QED
        BY <2>1
<1>4. j \in DOMAIN old
    <2>1. DOMAIN old = 1..Len(old) /\ Len(old) \in Nat
        BY <1>1, LenProperties
    <2> HIDE DEF old
    <2> QED
        BY <1>1, <2>1
<1> HIDE DEF old, j
<1> DEFINE s == RemoveAt(old, j)
<1>5. Splice(old, i, 1, <<>>) = s
    BY <1>1, SplicesOut DEF j
<1>6. s \in Seq(TargetsOfReferences)
    <2>1. <<>> \in Seq(TargetsOfReferences) /\ 1 \in Nat /\ i \in Int
        BY <1>1
    <2> QED
        BY <1>1, <1>5, <2>1, SpliceType
<1> HIDE DEF s
<1>7. references' = WithTargets(n, r, s) /\ (s = <<>> => EndsOnly(references, k))
    BY <1>5 DEF Commit, old, EndsOnly
<1>8. Step
    BY DeleteReferenceStep
<1>9. Refer(n, r, s)
    BY <1>6, <1>7, <1>8, ReferenceRefines DEF Commit
<1>10. k \in Promise!ReferencesNow /\ Promise!Refer(k, s)
    BY <1>3, <1>9 DEF Refer
<1>11. s = Promise!RemoveAt(Promise!Targets(k), j) /\ j \in DOMAIN Promise!Targets(k)
    BY <1>2, <1>4 DEF s, RemoveAt, Promise!RemoveAt
<1> QED
    BY <1>10, <1>11 DEF Promise!DeleteTarget

LEMMA ChangeReferenceRefines == Inv /\ ChangeReference => Promise!ChangeTarget
<1> SUFFICES ASSUME Inv, ChangeReference, NEW n \in Ids, NEW r \in References,
                    NEW x \in TargetsOfReferences, NEW i \in Indexes(n, r), Exists(n),
                    Commit(nodes, properties,
                           WithTargets(n, r, Splice(TargetsOf(n, r), i, 1, <<x>>)), FALSE)
             PROVE  Promise!ChangeTarget
    BY DEF ChangeReference
<1> DEFINE k == <<n, r>>
           old == TargetsOf(n, r)
           j == i + 1
<1>1. old \in Seq(TargetsOfReferences) /\ i \in 0..Len(old) - 1
    BY TargetsType DEF Indexes
<1>2. old = Promise!Targets(k)
    BY TargetsPromised
<1>3. j \in DOMAIN old /\ j \in 1..Len(old)
    <2>1. DOMAIN old = 1..Len(old) /\ Len(old) \in Nat
        BY <1>1, LenProperties
    <2> HIDE DEF old
    <2> QED
        BY <1>1, <2>1
<1> HIDE DEF old, j
<1> DEFINE s == ReplaceAt(old, j, x)
<1>4. Splice(old, i, 1, <<x>>) = s
    BY <1>1, SplicesOver DEF j
<1>5. s # <<>> /\ x \in ToSet(s)
    BY <1>1, <1>3, ReplacedIn
<1>6. s \in Seq(TargetsOfReferences)
    <2>1. <<x>> \in Seq(TargetsOfReferences) /\ 1 \in Nat /\ i \in Int
        BY <1>1
    <2> QED
        BY <1>1, <1>4, <2>1, SpliceType
<1> HIDE DEF s
<1>7. references' = WithTargets(n, r, s)
    BY <1>4 DEF Commit, old
<1>8. Step
    BY ChangeReferenceStep
<1>9. Refer(n, r, s)
    BY <1>5, <1>6, <1>7, <1>8, ReferenceRefines DEF Commit
<1>10. /\ k \in Promise!ReferencesNow /\ Promise!Refer(k, s)
       /\ x \in UNION {Promise!ToSet((ContentsOf(Forever)').references[l]) :
                        l \in DOMAIN (ContentsOf(Forever)').references}
    BY <1>5, <1>9 DEF Refer
<1>11. s = Promise!ReplaceAt(Promise!Targets(k), j, x) /\ j \in DOMAIN Promise!Targets(k)
    BY <1>2, <1>3 DEF s, ReplaceAt, Promise!ReplaceAt
<1> QED
    BY <1>10, <1>11 DEF Promise!ChangeTarget

\* Every step is one of RepositoryHistory, or none, but for a stray one.
LEMMA NextRefines == Inv /\ Next /\ ~stray' => Promise!Next
<1> SUFFICES ASSUME Inv, Next, ~stray' PROVE Promise!Next
    OBVIOUS
<1>1. CASE AddPartition
    BY <1>1, AddPartitionRefines DEF Promise!Next
<1>2. CASE DeletePartition
    BY <1>2, DeletePartitionRefines DEF Promise!Next
<1>3. CASE AddProperty \/ DeleteProperty \/ ChangeProperty
    BY <1>3, PropertiesRefine DEF Promise!Next
<1>4. CASE AddReference
    BY <1>4, AddReferenceRefines DEF Promise!Next
<1>5. CASE DeleteReference
    BY <1>5, DeleteReferenceRefines DEF Promise!Next
<1>6. CASE ChangeReference
    BY <1>6, ChangeReferenceRefines DEF Promise!Next
<1>7. CASE ChangeClassifier
    BY <1>7, ChangeClassifierRefines DEF Promise!Next
<1> QED
    BY <1>1, <1>2, <1>3, <1>4, <1>5, <1>6, <1>7 DEF Next

\* Every command changes in the tables, with their versions, what its name says
\* and nothing else, in one new version, and leaves the contents of all earlier
\* versions as they were; but for a deletion that ends other features too.
THEOREM CommandsKeepHistory == Spec => ImplementsHistory
<1>1. Inv /\ [Next]_vars => [~stray' => Promise!Next]_vars
    BY NextRefines
<1>2. Spec => [][~stray' => Promise!Next]_vars
    BY FeatureInvariant, <1>1, PTL DEF Spec
<1> QED
    BY <1>2 DEF ImplementsHistory

\* Without history a DELETE ends the rows it names.
LEMMA PlainDeletes ==
    ASSUME Inv, ~history, version < MaxVersion, NEW K
    PROVE  ~EndsOthers(properties, K) /\ ~EndsOthers(references, K)
<1> DEFINE Ks == Ids \X References
           V == Seq(TargetsOfReferences)
<1>1. Ready(properties, Ids \X Properties, Values) /\ Ready(references, Ks, V)
    BY ReadyTables
<1> HIDE DEF Ks, V
<1>2. /\ Without(properties, K) = Ended(history, properties, K, version + 1)
      /\ Without(references, K) = Ended(history, references, K, version + 1)
    BY DEF Without, DeleteFeatures, nextRepoVersion
<1>3. /\ Keys(Current(Ended(history, properties, K, version + 1))) = Keys(Current(properties)) \ K
      /\ Keys(Current(Ended(history, references, K, version + 1))) = Keys(Current(references)) \ K
    BY <1>1, EndedSucceeds
<1> QED
    BY <1>2, <1>3 DEF EndsOthers

LEMMA PlainIsNotStray == Inv /\ ~history /\ Next => ~stray'
<1> SUFFICES ASSUME Inv, ~history, Next PROVE ~stray'
    OBVIOUS
<1>1. version < MaxVersion
    BY NextStep DEF Step
<1>2. \A n, f : ~EndsOthers(properties, {<<n, f>>}) /\ ~EndsOthers(references, {<<n, f>>})
    BY <1>1, PlainDeletes
<1>3. CASE AddPartition
    BY <1>3 DEF AddPartition, Commit
<1>4. CASE DeletePartition
    BY <1>4 DEF DeletePartition, Commit
<1>5. CASE AddProperty
    BY <1>5 DEF AddProperty, Commit
<1>6. CASE DeleteProperty
    BY <1>2, <1>6 DEF DeleteProperty, Commit
<1>7. CASE ChangeProperty
    BY <1>7 DEF ChangeProperty, Commit
<1>8. CASE AddReference
    BY <1>8 DEF AddReference, Commit
<1>9. CASE DeleteReference
    BY <1>2, <1>9 DEF DeleteReference, Commit
<1>10. CASE ChangeReference
    BY <1>10 DEF ChangeReference, Commit
<1>11. CASE ChangeClassifier
    BY <1>11 DEF ChangeClassifier, Commit
<1> QED
    BY <1>3, <1>4, <1>5, <1>6, <1>7, <1>8, <1>9, <1>10, <1>11 DEF Next

LEMMA StartsAsPromised == Init => Promise!Init
<1> SUFFICES ASSUME Init PROVE Promise!Init
    OBVIOUS
<1>1. nodes = {} /\ properties = {} /\ references = {} /\ version = 0 /\ history \in BOOLEAN
    BY DEF Init
<1>2. \A v : AsOf(nodes, v) = {} /\ AsOf(properties, v) = {} /\ AsOf(references, v) = {}
    BY <1>1 DEF AsOf
<1>3. Contents({}) = <<>>
    <2>1. Keys({}) = {}
        BY DEF Keys
    <2> QED
        BY <2>1 DEF Contents
<1>4. ContentsOf(Forever) = Promise!Empty
    BY <1>2, <1>3 DEF ContentsOf, Promise!Empty
<1>5. Earlier = <<>>
    <2>1. 0..version - 1 = {}
        BY <1>1
    <2> QED
        BY <2>1 DEF Earlier
<1> QED
    BY <1>1, <1>4, <1>5 DEF Promise!Init, Earlier

LEMMA StuttersAsPromised ==
    ASSUME UNCHANGED vars
    PROVE  UNCHANGED <<history, version, ContentsOf(Forever), Earlier>>
BY DEF vars, ContentsOf, Contents, AsOf, Keys, Earlier

\* A repository without history is exactly one of RepositoryHistory: its commands
\* do what their names say, the deletions too.
THEOREM PlainRepository == Spec /\ ~history => Promise!Spec
<1>1. Inv /\ ~history /\ [Next]_vars => (~history)'
    BY NextStep DEF Step, vars
<1>2. Inv /\ ~history /\ [Next]_vars
        => [Promise!Next]_<<history, version, ContentsOf(Forever), Earlier>>
    BY NextRefines, PlainIsNotStray, StuttersAsPromised
<1>3. Spec /\ ~history => Promise!Init /\ [][Promise!Next]_<<history, version, ContentsOf(Forever), Earlier>>
    BY FeatureInvariant, StartsAsPromised, <1>1, <1>2, PTL DEF Spec
<1> QED
    BY <1>3, PTL DEF Promise!Spec, Earlier
================================================================================
