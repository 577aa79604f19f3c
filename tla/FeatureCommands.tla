----------------------------- MODULE FeatureCommands -----------------------------
(***************************************************************************)
(* What the delta commands on properties, references and classifiers do to *)
(* the tables of a repository, with and without history                    *)
(* (packages/delta-server/src/delta/commands/PropertyCommands.ts,          *)
(* ReferenceCommands.ts, MiscCommands.ts, Validations.ts,                  *)
(* packages/common/src/queries/DbChanges.ts), and what the history API     *)
(* answers about earlier versions (packages/history).                      *)
(*                                                                         *)
(* A step is the transaction of one command.  A command that is refused    *)
(* changes nothing and is no step.  The nodes are partitions without       *)
(* children: the tree is module NodeTree.  Metapointers and values are     *)
(* model values; a target stands for a pair of reference and resolveInfo.  *)
(*                                                                         *)
(* The first statement of every command is nextRepoVersion(), so each runs *)
(* in a version of its own.  With history, deleting one feature closes all *)
(* features of the node in its table (see DeleteFeatures); a step that does*)
(* this to other features is marked as stray.                              *)
(*                                                                         *)
(* An operator X_Fault is X with one plausible mistake, which the property *)
(* named beside it must notice.                                            *)
(***************************************************************************)
EXTENDS VersionedTables, Functions, SequencesExt

CONSTANTS
    Ids,               \* the ids of nodes
    Classifiers,       \* the metapointers of classifiers,
    Properties,        \* properties
    References,        \* and references
    Values,            \* the values of properties
    Null,              \* null as the value of a property
    TargetsOfReferences,
    MaxTargets,        \* bound: targets of a reference
    MaxVersion         \* bound: versions of the repository

ASSUME MaxVersionAssumption == MaxVersion \in Nat /\ MaxVersion < Forever
ASSUME NullAssumption == Null \notin Values

VARIABLES
    history,           \* whether the repository was created with history
    version,           \* current_data: the version of the repository
    nodes,             \* table lionweb_nodes: the classifier of each node
    properties,        \* table lionweb_properties, with keys <<node, property>>
    references,        \* table lionweb_references, with keys <<node, reference>>
    stray              \* whether the last command closed other features too

vars == <<history, version, nodes, properties, references, stray>>

\* TypeOK: the number is taken twice.
nextRepoVersion_Fault == version + 2

nextRepoVersion == version + 1

Exists(n) == n \in Keys(Current(nodes))

Value(t, k) == Contents(Current(t))[k]

(***************************************************************************)
(* Statements, in the version that nextRepoVersion() has begun.            *)
(***************************************************************************)
Inserted(t, k, x) == Insert(history, t, k, x, nextRepoVersion)

UpdatedTo(t, k, x) == Update(history, t, k, x, nextRepoVersion)

Without(t, K) == DeleteFeatures(history, t, K, nextRepoVersion)

Commit(node, property, reference, others) ==
    /\ version < MaxVersion
    /\ version' = version + 1
    /\ nodes' = node
    /\ properties' = property
    /\ references' = reference
    /\ stray' = others
    /\ UNCHANGED history

\* A feature is there before and after a change, before it only or after it only.
FeatureMissing(t, k, gone) ==
    CASE gone -> "MissingAfter"
      [] ~gone /\ k \in Keys(Current(t)) -> "NotMissing"
      [] OTHER -> "MissingBefore"

\* createQueryForFeatures(): feature k of table t becomes x, or is gone.
Changed(t, k, x, missing) ==
    CASE missing = "MissingBefore" -> Inserted(t, k, x)
      [] missing = "MissingAfter" -> Without(t, {k})
      [] missing = "NotMissing" -> UpdatedTo(t, k, x)

\* Whether deleting the rows K of t ends other rows as well.
EndsOthers(t, K) == Keys(Current(Without(t, K))) # Keys(Current(t)) \ K

(***************************************************************************)
(* Partitions.                                                             *)
(***************************************************************************)
KeysOf(n, F) == {n} \X F

\* SQL_insertNodeArray() leaves out properties with null and references without
\* targets.
RowsToInsert(n, given, absent) ==
    [k \in {<<n, f>> : f \in {f \in DOMAIN given : given[f] # absent}} |-> given[k[2]]]

AddPartition ==
    \E n \in Ids, c \in Classifiers :
    \E ps \in [Properties -> Values \union {Null}],
       rs \in [References -> {<<>>} \union {<<x>> : x \in TargetsOfReferences}] :
        /\ ~Exists(n)
        /\ Commit(Inserted(nodes, n, c),
                  InsertAll(history, properties, RowsToInsert(n, ps, Null), nextRepoVersion),
                  InsertAll(history, references, RowsToInsert(n, rs, <<>>), nextRepoVersion),
                  FALSE)

\* FeaturesOfNodes: the references stay.
DeletePartition_Fault ==
    \E n \in Ids :
        /\ Exists(n)
        /\ Commit(Ended(history, nodes, {n}, nextRepoVersion),
                  Without(properties, KeysOf(n, Properties)), references, FALSE)

\* SQL_deleteFullNodes().
DeletePartition ==
    \E n \in Ids :
        /\ Exists(n)
        /\ Commit(Ended(history, nodes, {n}, nextRepoVersion),
                  Without(properties, KeysOf(n, Properties)),
                  Without(references, KeysOf(n, References)), FALSE)

(***************************************************************************)
(* Properties.                                                             *)
(***************************************************************************)
\* validatePropertyDoesNotExist(), findAndValidateProperty().
HasProperty(n, p) == <<n, p>> \in Keys(Current(properties))

\* PropertyAdded, PropertyValueChanged, and PropertyDeleted where x is Null.
WithProperty(n, p, x) ==
    Changed(properties, <<n, p>>, x, FeatureMissing(properties, <<n, p>>, x = Null))

AddProperty ==
    \E n \in Ids, p \in Properties, x \in Values :
        /\ Exists(n) /\ ~HasProperty(n, p)
        /\ Commit(nodes, WithProperty(n, p, x), references, FALSE)

DeleteProperty ==
    \E n \in Ids, p \in Properties :
        /\ Exists(n) /\ HasProperty(n, p)
        /\ Commit(nodes, WithProperty(n, p, Null), references,
                  EndsOthers(properties, {<<n, p>>}))

\* validatePropertyHasChanged() refuses the value that the property has.
HasChanged(n, p, x) == Value(properties, <<n, p>>) # x

ChangeProperty ==
    \E n \in Ids, p \in Properties, x \in Values :
        /\ Exists(n) /\ HasProperty(n, p)
        /\ HasChanged(n, p, x)
        /\ Commit(nodes, WithProperty(n, p, x), references, FALSE)

(***************************************************************************)
(* References.  An index is counted from 0; JavaScript's splice() counts a *)
(* negative one from the end.                                              *)
(***************************************************************************)
HasReference(n, r) == <<n, r>> \in Keys(Current(references))

TargetsOf(n, r) == IF HasReference(n, r) THEN Value(references, <<n, r>>) ELSE <<>>

Splice(s, start, count, items) ==
    LET len == Len(s)
        least(a, b) == IF a < b THEN a ELSE b
        from == IF start >= 0 THEN least(start, len)
                ELSE IF len + start > 0 THEN len + start ELSE 0
    IN  SubSeq(s, 1, from) \o items \o SubSeq(s, from + count + 1, len)

\* TargetAdded, TargetRemoved: a reference without targets is deleted.
WithTargets(n, r, s) ==
    Changed(references, <<n, r>>, s, FeatureMissing(references, <<n, r>>, s = <<>>))

\* findAndValidateReference(): a new reference starts at index 0; an index must
\* not be beyond the end, and a negative one is not refused.
AddIndexes(n, r) ==
    IF HasReference(n, r) THEN -1..Len(TargetsOf(n, r)) ELSE {0}

AddReference ==
    \E n \in Ids, r \in References, x \in TargetsOfReferences :
    \E i \in AddIndexes(n, r) :
        /\ Exists(n)
        /\ Len(TargetsOf(n, r)) < MaxTargets
        /\ Commit(nodes, properties,
                  WithTargets(n, r, Splice(TargetsOf(n, r), i, 0, <<x>>)), FALSE)

\* The target at the index must be the one that the command names.
Indexes(n, r) == 0..Len(TargetsOf(n, r)) - 1

\* ImplementsHistory: a reference without targets is kept.
DeleteReference_Fault ==
    \E n \in Ids, r \in References :
    \E i \in Indexes(n, r) :
        /\ Exists(n)
        /\ Commit(nodes, properties,
                  UpdatedTo(references, <<n, r>>, Splice(TargetsOf(n, r), i, 1, <<>>)), FALSE)

DeleteReference ==
    \E n \in Ids, r \in References :
    \E i \in Indexes(n, r) :
        LET rest == Splice(TargetsOf(n, r), i, 1, <<>>) IN
        /\ Exists(n)
        /\ Commit(nodes, properties, WithTargets(n, r, rest),
                  rest = <<>> /\ EndsOthers(references, {<<n, r>>}))

\* That the target changes is not checked.
ChangeReference ==
    \E n \in Ids, r \in References, x \in TargetsOfReferences :
    \E i \in Indexes(n, r) :
        /\ Exists(n)
        /\ Commit(nodes, properties, WithTargets(n, r, Splice(TargetsOf(n, r), i, 1, <<x>>)),
                  FALSE)

\* NodeClassifierChanged.
WithClassifier(n, c) == UpdatedTo(nodes, n, c)

ChangeClassifier ==
    \E n \in Ids, c \in Classifiers :
        /\ Exists(n)
        /\ Commit(WithClassifier(n, c), properties, references, FALSE)

(***************************************************************************)
(* The specification.                                                      *)
(***************************************************************************)
Init ==
    /\ history \in BOOLEAN
    /\ version = 0
    /\ nodes = {} /\ properties = {} /\ references = {}
    /\ stray = FALSE

Next ==
    \/ AddPartition \/ DeletePartition
    \/ AddProperty \/ DeleteProperty \/ ChangeProperty
    \/ AddReference \/ DeleteReference \/ ChangeReference
    \/ ChangeClassifier

Spec == Init /\ [][Next]_vars

(***************************************************************************)
(* The history API.                                                        *)
(***************************************************************************)
PropertiesForVersion(v) == AsOf(properties, v)

ReferencesForVersion(v) == AsOf(references, v)

\* QueryNodeForIdList(): the full nodes of a version.  The list of ids that the
\* query is made for does not occur in it.
FullNodes(v) ==
    LET of(t, n) == {<<r.key[2], r.value>> : r \in {r \in t : r.key[1] = n}}
    IN  {[id |-> r.key, classifier |-> r.value,
          properties |-> of(PropertiesForVersion(v), r.key),
          references |-> of(ReferencesForVersion(v), r.key)] :
            r \in AsOf(nodes, v)}

\* getNodesFromIdList().
NodesFromIds(ids, v) == IF ids = {} THEN {} ELSE FullNodes(v)

\* getNodeTree(): the nodes have no children here.
FoundIds(ids, v) == ids \intersect Keys(AsOf(nodes, v))

\* bulkRetrieve(): an empty chunk where no id is found.
Retrieve(ids, v) == NodesFromIds(FoundIds(ids, v), v)

\* getPartitionsForVersion(): all nodes are partitions here.
ListPartitions(v) == NodesFromIds(Keys(AsOf(nodes, v)), v)

(***************************************************************************)
(* Properties.                                                             *)
(***************************************************************************)
Rows(K, V) == [key : K, from : 0..MaxVersion, to : Int, value : V]

\* The types of the variables; no row begins after the current version or is
\* closed in a version that is still to come, so the key of a new row is free.
TypeOK ==
    /\ history \in BOOLEAN /\ stray \in BOOLEAN
    /\ version \in 0..MaxVersion
    /\ nodes \subseteq Rows(Ids, Classifiers)
    /\ properties \subseteq Rows(Ids \X Properties, Values)
    /\ references \subseteq Rows(Ids \X References, Seq(TargetsOfReferences))
    /\ \A r \in nodes \union properties \union references :
        r.from <= version /\ (r.to = Forever \/ (history /\ r.to < version))

UniqueKeys(t) == \A r, s \in t : r.key = s.key => r = s

\* In every version a key has one row: no reader of any version gets a node twice
\* (DB_retrieveNode() fails with TwoNodesWithSameId), or two values of a property.
OneRowPerVersion ==
    \A v \in 0..version :
        /\ UniqueKeys(AsOf(nodes, v))
        /\ UniqueKeys(AsOf(properties, v))
        /\ UniqueKeys(AsOf(references, v))

\* The view of the current rows, which all commands read, is what the history API
\* tells of the last version.
CurrentIsLastVersion ==
    \A t \in {nodes, properties, references} : AsOf(t, version) = Current(t)

\* In every version the rows of features are of nodes that exist.
FeaturesOfNodes ==
    \A v \in 0..version :
        \A k \in Keys(AsOf(properties, v)) \union Keys(AsOf(references, v)) :
            k[1] \in Keys(AsOf(nodes, v))

\* What the history API answers about a version never changes, whatever commands
\* come after it, not even by one that closes more rows than it should.
PastAnswersStay ==
    [][history => \A v \in 0..version :
        /\ ListPartitions(v)' = ListPartitions(v)
        /\ \A ids \in SUBSET Ids : Retrieve(ids, v)' = Retrieve(ids, v)]_vars

ContentsOf(v) ==
    [nodes |-> Contents(AsOf(nodes, v)),
     properties |-> Contents(AsOf(properties, v)),
     references |-> Contents(AsOf(references, v))]

Promise ==
    INSTANCE RepositoryHistory WITH
        keeps <- history,
        version <- version,
        current <- ContentsOf(Forever),
        past <- IF history THEN [v \in 0..version - 1 |-> ContentsOf(v)] ELSE <<>>

\* Every command begins one version, changes what its name says and nothing else,
\* and leaves the earlier versions as they were; but for deleting features of a
\* repository with history.
ImplementsHistory == [][~stray' => Promise!Next]_vars

\* "On delete property, just fill TO_VERSION of old row"
\* (init-schema-with-history.ts): deleting a property deletes that one.
DeletesOneFeature == [][DeleteProperty => Promise!SetProperty]_vars

\* "Retrieve a set of nodes including its parts": "`body.ids` contains the list of nodes
\* to be found" (HistoryApi.ts); the full nodes of a version are those "for which the
\* full node needs to be retrieved" (QueryNodeHistory.ts).  The nodes have no parts here.
RetrievesAsked ==
    history => \A ids \in SUBSET Ids, v \in 0..version : \A n \in Retrieve(ids, v) : n.id \in ids
================================================================================
