--------------------------- MODULE RepositoriesProofs ---------------------------
(***************************************************************************)
(* Proofs about Repositories.  For any repositories, metapointers and      *)
(* configuration, any number of tasks and of starts: the rows that were    *)
(* stored name the metapointers their clients gave, the global map never   *)
(* has the index of another metapointer, and only the configuration        *)
(* "always" can keep the server from starting again.                       *)
(*                                                                         *)
(* None of the three is inductive.  What a row names is decided when the   *)
(* index is read from the map, and written to the table of a schema at the *)
(* commit, possibly of another task; between the two are rows that may be  *)
(* rolled back, indexes in the map that no table has, and repositories     *)
(* that are deleted and created again with indexes that start at 1.  The   *)
(* invariant IInv says why that goes well: wherever an index of a          *)
(* repository is kept, it stands for one metapointer and has been given out*)
(* (Unambiguous); a repository without schema has nothing in the map       *)
(* (MapNeedsSchema), so that the indexes of its next schema are new; and a *)
(* task that uses a schema keeps it (WritesIn, Exclusive).                 *)
(***************************************************************************)
EXTENDS Repositories, FiniteSetTheorems, TLAPS

(***************************************************************************)
(* The inductive invariant.                                                *)
(***************************************************************************)
\* Tables of metapointers, and the map of one repository.
Tables == UNION {[keys -> Nat] : keys \in SUBSET MetaPointers}

Stages == {"lookup", "read", "collect", "obtain", "cache", "use", "execute", "commit",
           "schema", "drop", "refresh"}

\* The states of a task.
Tasks ==
    [kind : {"Store", "Command", "Create", "Delete", "List"},
     repository : Repos \union {None}, keys : SUBSET MetaPointers, stage : Stages,
     seen : Tables, own : Tables, missing : SUBSET MetaPointers, found : Tables,
     rows : SUBSET (Nat \X MetaPointers), locked : BOOLEAN]

Types ==
    /\ repositories \in SUBSET Repos
    /\ schemas \in [Repos -> Schemas \union {None}]
    /\ identity \in [Repos -> Nat]
    /\ globalMetaPointersMap \in [Repos -> Tables]
    /\ repositoryStore \in [names : SUBSET Repos, initialized : BOOLEAN]
    /\ server \in {"down", "starting", "up"}
    /\ toConfigure \in SUBSET DOMAIN creation
    /\ existing \in SUBSET Repos
    /\ tasks \in [TaskIds -> Tasks \union {None}]

\* Only a server that starts configures repositories, only one that is up has tasks.
Phases ==
    /\ toConfigure # {} => server = "starting"
    /\ \A t \in TaskIds : tasks[t] # None => server = "up"

\* The stages each kind of task goes through, and the ones in which it holds the
\* locks of a schema.  Only the request queue has other tasks than commands.
StageOK(t) ==
    /\ IsFiniteSet(tasks[t].missing)
    /\ IsFiniteSet(tasks[t].keys)
    /\ tasks[t].kind \in Writers =>
        /\ Repo(t) \in Repos
        /\ tasks[t].stage \notin {"schema", "drop", "refresh"}
        /\ tasks[t].locked <=> tasks[t].stage \notin {"lookup", "read"}
    /\ tasks[t].kind \in {"Create", "Delete"} =>
        /\ Repo(t) \in Repos
        /\ tasks[t].stage \in {"lookup", "schema", "drop", "refresh", "commit"}
        /\ tasks[t].locked <=> tasks[t].stage \in {"refresh", "commit"}
    /\ tasks[t].kind = "List" => tasks[t].stage \in {"refresh", "commit"} /\ ~tasks[t].locked
    /\ tasks[t].kind = "Command" => tasks[t].stage # "lookup"
    /\ tasks[t].stage = "schema" => tasks[t].kind = "Create"
    /\ tasks[t].stage = "drop" => tasks[t].kind = "Delete"
    /\ t = 1 => tasks[t].kind = "Command"

\* What a task knows and has written.  A writer that has locks has a schema; what it
\* saw of its table is still there, and what it adds is not there yet.
WritesIn(t) ==
    /\ tasks[t].kind \notin Writers \/ ~tasks[t].locked =>
        /\ DOMAIN tasks[t].own = {}
        /\ DOMAIN tasks[t].seen = {}
        /\ DOMAIN tasks[t].found = {}
        /\ tasks[t].rows = {}
    /\ tasks[t].kind \in Writers /\ tasks[t].locked => 
        /\ Schema(Repo(t))
        /\ \A k \in DOMAIN tasks[t].seen :
            /\ k \in DOMAIN schemas[Repo(t)].metapointers
            /\ schemas[Repo(t)].metapointers[k] = tasks[t].seen[k]
        /\ \A k \in DOMAIN tasks[t].own : k \notin DOMAIN schemas[Repo(t)].metapointers
    /\ \A k \in DOMAIN tasks[t].found :
        \/ k \in DOMAIN tasks[t].own /\ tasks[t].own[k] = tasks[t].found[k]
        \/ k \in DOMAIN tasks[t].seen /\ tasks[t].seen[k] = tasks[t].found[k]
    /\ tasks[t].stage = "commit" =>
        \A row \in tasks[t].rows :
            row[1] \in Range(tasks[t].seen) \union Range(tasks[t].own)

TasksOK == \A t \in TaskIds : tasks[t] # None => StageOK(t) /\ WritesIn(t)

\* Tasks on one repository give indexes to different metapointers, and have locks
\* at the same time only if both write nodes.
Exclusive ==
    \A t \in TaskIds : tasks[t] # None =>
        \A u \in Others(t) :
            /\ DOMAIN tasks[t].own \intersect DOMAIN tasks[u].own = {}
            /\ tasks[t].locked /\ tasks[u].locked =>
                    {tasks[u].kind, tasks[t].kind} \subseteq Writers

\* Exclusive, of a task t that becomes v.
Apart(t, v) ==
    \A u \in TaskIds \ {t} :
        v # None /\ tasks[u] # None /\ Repo(u) = v.repository =>
            /\ DOMAIN v.own \intersect DOMAIN tasks[u].own = {}
            /\ v.locked /\ tasks[u].locked => {tasks[u].kind, v.kind} \subseteq Writers

\* A schema has its name in the table of repositories; a name may be left without one
\* by the configuration "always" only.
SchemasNamed ==
    /\ \A r \in Repos : Schema(r) => r \in repositories
    /\ \A r \in repositories : Schema(r) \/ CreatedAlways(r)

\* The map has nothing of a repository without schema, or whose schema is dropped.
MapNeedsSchema ==
    /\ \A r \in Repos : ~Schema(r) => DOMAIN globalMetaPointersMap[r] = {}
    /\ \A t \in TaskIds : tasks[t] # None /\ tasks[t].kind = "Delete" /\ tasks[t].locked =>
            DOMAIN globalMetaPointersMap[Repo(t)] = {}

\* The table, the map or a task has i as the index of k in repository r.
Names(r, i, k) ==
    \/ Schema(r) /\ k \in DOMAIN schemas[r].metapointers /\ schemas[r].metapointers[k] = i
    \/ k \in DOMAIN globalMetaPointersMap[r] /\ globalMetaPointersMap[r][k] = i
    \/ \E t \in TaskIds :
        /\ tasks[t] # None /\ Repo(t) = r
        /\ \/ k \in DOMAIN tasks[t].own /\ tasks[t].own[k] = i
           \/ <<i, k>> \in tasks[t].rows

\* An index is given out once, to one metapointer.
Unambiguous ==
    \A r \in Repos, i \in Nat :
        \A k \in MetaPointers : Names(r, i, k) =>
            /\ i < identity[r]
            /\ \A j \in MetaPointers : Names(r, i, j) => j = k

IInv ==
    /\ Types /\ Phases /\ TasksOK /\ Exclusive /\ SchemasNamed /\ MapNeedsSchema
    /\ Unambiguous /\ StoredAsGiven

(***************************************************************************)
(* Tables and schemas.                                                     *)
(***************************************************************************)
\* A table is a function from metapointers to numbers.
LEMMA TableParts ==
    ASSUME NEW f \in Tables
    PROVE  /\ DOMAIN f \in SUBSET MetaPointers
           /\ f = [k \in DOMAIN f |-> f[k]]
           /\ \A k \in DOMAIN f : f[k] \in Nat
BY DEF Tables

\* What Over() of two tables contains.
LEMMA TableIsOverlay ==
    ASSUME NEW f \in Tables, NEW g \in Tables
    PROVE  /\ Over(f, g) \in Tables
           /\ DOMAIN Over(f, g) = DOMAIN f \union DOMAIN g
           /\ \A k \in DOMAIN f : Over(f, g)[k] = f[k]
           /\ \A k \in DOMAIN g \ DOMAIN f : Over(f, g)[k] = g[k]
<1> USE DEF Over
<1>1. /\ DOMAIN Over(f, g) = DOMAIN f \union DOMAIN g
      /\ \A k \in DOMAIN f : Over(f, g)[k] = f[k]
      /\ \A k \in DOMAIN g \ DOMAIN f : Over(f, g)[k] = g[k]
  OBVIOUS
<1>2. Over(f, g) \in [DOMAIN f \union DOMAIN g -> Nat]
  BY TableParts
<1>3. DOMAIN f \union DOMAIN g \in SUBSET MetaPointers
  BY TableParts
<1> QED  BY <1>1, <1>2, <1>3 DEF Tables

\* The empty table.
LEMMA NoTable == <<>> \in Tables /\ DOMAIN <<>> = {}
<1>1. DOMAIN <<>> = {}
  OBVIOUS
<1>2. <<>> \in [{} -> Nat]
  OBVIOUS
<1> QED  BY <1>1, <1>2 DEF Tables

\* A record of a table and rows is a schema.
LEMMA SchemaParts ==
    ASSUME NEW m \in Tables, NEW rows \in SUBSET (Nat \X MetaPointers)
    PROVE  /\ [metapointers |-> m, rows |-> rows] \in Schemas
           /\ [metapointers |-> m, rows |-> rows] # None
BY NoneAssumption DEF Tables, Schemas


(***************************************************************************)
(* Steps of one kind.                                                      *)
(***************************************************************************)
\* A step of one task that leaves the schemas alone keeps the invariant, if what the
\* map has after it was known before, and what the task adds is known or new.
LEMMA TaskAndMapStep ==
    ASSUME IInv, NEW t \in TaskIds, NEW v \in Tasks \union {None},
           tasks' = [tasks EXCEPT ![t] = v],
           UNCHANGED <<repositories, schemas, server, toConfigure, existing>>,
           repositoryStore' \in [names : SUBSET Repos, initialized : BOOLEAN],
           identity' \in [Repos -> Nat], \A r \in Repos : identity[r] <= identity'[r],
           globalMetaPointersMap' \in [Repos -> Tables],
           \A r \in Repos : ~Schema(r) => DOMAIN globalMetaPointersMap'[r] = {},
           \A r \in Repos : \A k \in DOMAIN globalMetaPointersMap'[r] :
                Names(r, globalMetaPointersMap'[r][k], k),
           v # None => server = "up" /\ StageOK(t)' /\ WritesIn(t)',
           Apart(t, v),
           \A u \in TaskIds : tasks'[u] # None /\ tasks'[u].kind = "Delete" /\ tasks'[u].locked =>
                DOMAIN globalMetaPointersMap'[tasks'[u].repository] = {},
           v # None => \A i \in Nat, k \in MetaPointers :
                <<i, k>> \in v.rows => Names(v.repository, i, k),
           v # None => \A k \in DOMAIN v.own :
                \/ Names(v.repository, v.own[k], k)
                \/ /\ identity[v.repository] <= v.own[k]
                   /\ v.own[k] < identity'[v.repository]
                   /\ \A j \in DOMAIN v.own : v.own[j] = v.own[k] => j = k
    PROVE  IInv'
<1>1. /\ repositories' = repositories /\ schemas' = schemas
      /\ server' = server /\ toConfigure' = toConfigure /\ existing' = existing
  OBVIOUS
<1>2. /\ tasks'[t] = v
      /\ \A u \in TaskIds \ {t} : tasks'[u] = tasks[u]
      /\ tasks' \in [TaskIds -> Tasks \union {None}]
  BY DEF IInv, Types
<1> HIDE DEF IInv
<1>3. Types'
  BY <1>1, <1>2 DEF IInv, Types
<1>4. Phases'
  BY <1>1, <1>2 DEF IInv, Phases
<1>5. TasksOK'
  <2> SUFFICES ASSUME NEW u \in TaskIds, tasks'[u] # None
               PROVE  StageOK(u)' /\ WritesIn(u)'
    BY DEF TasksOK
  <2>1. CASE u = t
    BY <2>1, <1>2
  <2>2. CASE u # t
    <3>1. tasks'[u] = tasks[u] /\ StageOK(u) /\ WritesIn(u)
      BY <2>2, <1>2 DEF IInv, TasksOK
    <3>2. StageOK(u)'
      BY <3>1 DEF StageOK, Repo
    <3>3. WritesIn(u)'
      BY <3>1, <1>1 DEF WritesIn, Repo, Schema
    <3> QED  BY <3>2, <3>3
  <2> QED  BY <2>1, <2>2
<1>6. Exclusive'
  <2> SUFFICES ASSUME NEW a \in TaskIds, NEW b \in TaskIds \ {a},
                      tasks'[a] # None, tasks'[b] # None, Repo(b)' = Repo(a)'
               PROVE  /\ DOMAIN tasks'[a].own \intersect DOMAIN tasks'[b].own = {}
                      /\ tasks'[a].locked /\ tasks'[b].locked =>
                            {tasks'[b].kind, tasks'[a].kind} \subseteq Writers
    BY DEF Exclusive, Others
  <2>1. CASE a = t
    BY <2>1, <1>2 DEF Repo, Apart
  <2>2. CASE b = t
    BY <2>2, <1>2 DEF Repo, Apart
  <2>3. CASE a # t /\ b # t
    BY <2>3, <1>2 DEF IInv, Exclusive, Others, Repo
  <2> QED  BY <2>1, <2>2, <2>3
<1>7. SchemasNamed'
  BY <1>1 DEF IInv, SchemasNamed, Schema
<1>8. MapNeedsSchema'
  BY <1>1 DEF MapNeedsSchema, Schema, Repo
<1>9. Unambiguous'
  <2> DEFINE New(r, i, k) ==
                /\ v # None /\ v.repository = r /\ k \in DOMAIN v.own /\ v.own[k] = i
                /\ identity[r] <= i /\ i < identity'[r]
                /\ \A j \in DOMAIN v.own : v.own[j] = i => j = k
  <2>1. ASSUME NEW r \in Repos, NEW i \in Nat, NEW k \in MetaPointers, Names(r, i, k)'
        PROVE  Names(r, i, k) \/ New(r, i, k)
    <3>1. CASE Schema(r)' /\ k \in DOMAIN schemas'[r].metapointers
                         /\ schemas'[r].metapointers[k] = i
      BY <3>1, <1>1 DEF Names, Schema
    <3>2. CASE k \in DOMAIN globalMetaPointersMap'[r] /\ globalMetaPointersMap'[r][k] = i
      BY <3>2
    <3>3. ASSUME NEW u \in TaskIds, tasks'[u] # None, Repo(u)' = r,
                 \/ k \in DOMAIN tasks'[u].own /\ tasks'[u].own[k] = i
                 \/ <<i, k>> \in tasks'[u].rows
          PROVE  Names(r, i, k) \/ New(r, i, k)
      <4>1. CASE u = t
        BY <3>3, <4>1, <1>2 DEF Repo
      <4>2. CASE u # t
        BY <3>3, <4>2, <1>2 DEF Repo, Names
      <4> QED  BY <4>1, <4>2
    <3> QED  BY <2>1, <3>1, <3>2, <3>3 DEF Names
  <2>2. ASSUME NEW r \in Repos, NEW i \in Nat, NEW k \in MetaPointers, NEW j \in MetaPointers,
               Names(r, i, k) \/ New(r, i, k), Names(r, i, j) \/ New(r, i, j)
        PROVE  i < identity'[r] /\ j = k
    <3>1. /\ identity[r] \in Nat /\ identity'[r] \in Nat /\ identity[r] <= identity'[r]
      BY DEF IInv, Types
    <3>2. CASE Names(r, i, k) /\ Names(r, i, j)
      BY <3>1, <3>2 DEF IInv, Unambiguous
    <3>3. CASE Names(r, i, k) /\ New(r, i, j)
      BY <3>1, <3>3 DEF IInv, Unambiguous
    <3>4. CASE New(r, i, k) /\ Names(r, i, j)
      BY <3>1, <3>4 DEF IInv, Unambiguous
    <3>5. CASE New(r, i, k) /\ New(r, i, j)
      BY <3>5
    <3> QED  BY <2>2, <3>2, <3>3, <3>4, <3>5
  <2> HIDE DEF New
  <2> QED  BY <2>1, <2>2 DEF Unambiguous
<1>10. StoredAsGiven'
  BY <1>1 DEF IInv, StoredAsGiven, Schema
<1> QED  BY <1>3, <1>4, <1>5, <1>6, <1>7, <1>8, <1>9, <1>10 DEF IInv

\* A step that changes the task only.
LEMMA TaskStep ==
    ASSUME IInv, NEW t \in TaskIds, NEW v \in Tasks \union {None},
           tasks' = [tasks EXCEPT ![t] = v],
           UNCHANGED <<databaseVars, globalMetaPointersMap, server, toConfigure, existing>>,
           repositoryStore' \in [names : SUBSET Repos, initialized : BOOLEAN],
           v # None => server = "up" /\ StageOK(t)' /\ WritesIn(t)',
           Apart(t, v),
           v # None /\ v.kind = "Delete" /\ v.locked =>
                DOMAIN globalMetaPointersMap[v.repository] = {},
           v # None => \A i \in Nat, k \in MetaPointers :
                \/ k \in DOMAIN v.own /\ v.own[k] = i
                \/ <<i, k>> \in v.rows
                => Names(v.repository, i, k)
    PROVE  IInv'
<1>1. /\ repositories' = repositories /\ schemas' = schemas /\ identity' = identity
      /\ globalMetaPointersMap' = globalMetaPointersMap
      /\ server' = server /\ toConfigure' = toConfigure /\ existing' = existing
  BY DEF databaseVars
<1>2. UNCHANGED <<repositories, schemas, server, toConfigure, existing>>
  BY <1>1
<1>3. /\ identity' \in [Repos -> Nat] /\ \A r \in Repos : identity[r] <= identity'[r]
      /\ globalMetaPointersMap' \in [Repos -> Tables]
      /\ \A r \in Repos : ~Schema(r) => DOMAIN globalMetaPointersMap'[r] = {}
  BY <1>1 DEF IInv, Types, MapNeedsSchema
<1>4. \A r \in Repos : \A k \in DOMAIN globalMetaPointersMap'[r] :
                Names(r, globalMetaPointersMap'[r][k], k)
  BY <1>1 DEF Names
<1>5. /\ tasks'[t] = v
      /\ \A u \in TaskIds \ {t} : tasks'[u] = tasks[u]
  BY DEF IInv, Types
<1>6. \A u \in TaskIds : tasks'[u] # None /\ tasks'[u].kind = "Delete" /\ tasks'[u].locked =>
                DOMAIN globalMetaPointersMap'[tasks'[u].repository] = {}
  BY <1>1, <1>5 DEF IInv, MapNeedsSchema, Repo
<1>7. v # None => /\ DOMAIN v.own \subseteq MetaPointers
                  /\ \A k \in DOMAIN v.own : v.own[k] \in Nat
  BY TableParts DEF Tasks
<1>8. v # None => \A k \in DOMAIN v.own :
                \/ Names(v.repository, v.own[k], k)
                \/ /\ identity[v.repository] <= v.own[k]
                   /\ v.own[k] < identity'[v.repository]
                   /\ \A j \in DOMAIN v.own : v.own[j] = v.own[k] => j = k
  BY <1>7
<1>9. v # None => \A i \in Nat, k \in MetaPointers :
                <<i, k>> \in v.rows => Names(v.repository, i, k)
  OBVIOUS
<1> HIDE DEF IInv
<1> QED  BY <1>2, <1>3, <1>4, <1>6, <1>8, <1>9, TaskAndMapStep

(***************************************************************************)
(* The invariant is kept by each action.                                   *)
(***************************************************************************)
\* A task begins.
LEMMA BeginKeeps ==
    ASSUME IInv, NEW t \in TaskIds, NEW kind \in {"Store", "Command", "Create", "Delete", "List"},
           NEW r \in Repos \union {None}, NEW keys \in SUBSET MetaPointers, IsFiniteSet(keys),
           kind # "List" => r \in Repos, t = 1 => kind = "Command", Begin(t, kind, r, keys)
    PROVE  IInv'
<1> DEFINE v == NewTask(kind, r, keys)
<1>1. /\ v.kind = kind /\ v.repository = r /\ v.keys = keys /\ v.stage = FirstStage(kind)
      /\ v.seen = <<>> /\ v.own = <<>> /\ v.missing = {} /\ v.found = <<>> /\ v.rows = {}
      /\ v.locked = FALSE
  BY DEF NewTask
<1>2. v \in Tasks
  BY NoTable DEF NewTask, Tasks, Stages, FirstStage
<1>3. /\ tasks' = [tasks EXCEPT ![t] = v] /\ tasks'[t] = v
      /\ UNCHANGED <<databaseVars, globalMetaPointersMap, server, toConfigure, existing>>
      /\ repositoryStore' \in [names : SUBSET Repos, initialized : BOOLEAN]
      /\ server = "up"
  BY DEF Begin, IInv, Types, memoryVars, serverVars
<1> HIDE DEF v
<1>4. StageOK(t)'
  BY <1>1, <1>3, FS_EmptySet DEF StageOK, Repo, FirstStage, Writers
<1>5. WritesIn(t)'
  BY <1>1, <1>3, NoTable DEF WritesIn
<1>6. v # None => \A i \in Nat, k \in MetaPointers :
                \/ k \in DOMAIN v.own /\ v.own[k] = i
                \/ <<i, k>> \in v.rows
                => Names(v.repository, i, k)
  BY <1>1, NoTable
<1>7. Apart(t, v)
  BY <1>1, NoTable DEF Apart
<1>8. v # None /\ v.kind = "Delete" /\ v.locked =>
                DOMAIN globalMetaPointersMap[v.repository] = {}
  BY <1>1
<1> QED  BY <1>2, <1>3, <1>4, <1>5, <1>6, <1>7, <1>8, TaskStep

\* A task fails: what it wrote is forgotten, what it left in the map is not.
LEMMA FailKeeps ==
    ASSUME IInv, NEW t \in TaskIds, Fail(t)
    PROVE  IInv'
<1>1. /\ tasks' = [tasks EXCEPT ![t] = None]
      /\ UNCHANGED <<databaseVars, globalMetaPointersMap, server, toConfigure, existing>>
      /\ repositoryStore' \in [names : SUBSET Repos, initialized : BOOLEAN]
  BY DEF Fail, Ends, IInv, Types, serverVars, NotInitialized
<1> QED  BY <1>1, TaskStep DEF Apart

\* A list of repositories is returned.
LEMMA CommitListKeeps ==
    ASSUME IInv, NEW t \in TaskIds, CommitList(t)
    PROVE  IInv'
<1>1. /\ tasks' = [tasks EXCEPT ![t] = None]
      /\ UNCHANGED <<databaseVars, globalMetaPointersMap, server, toConfigure, existing>>
      /\ repositoryStore' \in [names : SUBSET Repos, initialized : BOOLEAN]
  BY DEF CommitList, Ends, IInv, Types, serverVars, memoryVars
<1> QED  BY <1>1, TaskStep DEF Apart

\* The snapshot and the locks of a task.
LEMMA ReadNodesKeeps ==
    ASSUME IInv, NEW t \in TaskIds, ReadNodes(t)
    PROVE  IInv'
<1> DEFINE v == [tasks[t] EXCEPT !.seen = schemas[Repo(t)].metapointers,
                                 !.locked = TRUE, !.stage = "collect"]
<1>1. /\ tasks[t] # None /\ tasks[t] \in Tasks /\ tasks[t].stage = "read"
      /\ StageOK(t) /\ WritesIn(t)
      /\ server = "up" /\ Schema(Repo(t)) /\ Free(t)
  BY DEF ReadNodes, IsAt, IInv, Types, TasksOK, Phases
<1>2. tasks[t].kind \in Writers /\ Repo(t) \in Repos /\ ~tasks[t].locked
  BY <1>1 DEF StageOK, Tasks, Writers
<1>3. schemas[Repo(t)] \in Schemas /\ schemas[Repo(t)].metapointers \in Tables
  BY <1>1, <1>2 DEF IInv, Types, Schema, Schemas, Tables
<1>4. /\ v.kind = tasks[t].kind /\ v.repository = Repo(t) /\ v.keys = tasks[t].keys
      /\ v.stage = "collect" /\ v.seen = schemas[Repo(t)].metapointers
      /\ v.own = tasks[t].own /\ v.missing = tasks[t].missing /\ v.found = tasks[t].found
      /\ v.rows = tasks[t].rows /\ v.locked = TRUE
  BY <1>1 DEF Tasks, Repo
<1>5. v \in Tasks
  BY <1>1, <1>3 DEF Tasks, Stages
<1>6. /\ tasks' = [tasks EXCEPT ![t] = v] /\ tasks'[t] = v
      /\ UNCHANGED <<databaseVars, globalMetaPointersMap, server, toConfigure, existing>>
      /\ repositoryStore' \in [names : SUBSET Repos, initialized : BOOLEAN]
  BY DEF ReadNodes, IInv, Types, memoryVars, serverVars
<1> HIDE DEF v
<1>7. StageOK(t)'
  BY <1>1, <1>2, <1>4, <1>6 DEF StageOK, Repo, Writers
<1>8. WritesIn(t)'
  BY <1>1, <1>2, <1>4, <1>6 DEF WritesIn, Repo, Schema, databaseVars
<1>9. \A i \in Nat, k \in MetaPointers :
                \/ k \in DOMAIN v.own /\ v.own[k] = i
                \/ <<i, k>> \in v.rows
                => Names(v.repository, i, k)
  BY <1>1, <1>4 DEF Names
<1>10. Apart(t, v)
  BY <1>1, <1>2, <1>4 DEF Free, Others, WritesIn, Apart
<1>11. v # None /\ v.kind = "Delete" /\ v.locked =>
                DOMAIN globalMetaPointersMap[v.repository] = {}
  BY <1>2, <1>4 DEF Writers
<1> QED  BY <1>1, <1>5, <1>6, <1>7, <1>8, <1>9, <1>10, <1>11, TaskStep

\* WritesIn() of a task that goes on with the same tables.
LEMMA SameWrites ==
    ASSUME NEW t \in TaskIds, WritesIn(t), tasks[t].kind \in Writers, tasks[t].locked,
           tasks'[t].kind \in Writers, tasks'[t].locked, tasks'[t].repository = Repo(t),
           tasks'[t].seen = tasks[t].seen, tasks'[t].own = tasks[t].own,
           tasks'[t].found = tasks[t].found, schemas' = schemas,
           tasks'[t].stage = "commit" => \A row \in tasks'[t].rows :
                row[1] \in Range(tasks'[t].seen) \union Range(tasks'[t].own)
    PROVE  WritesIn(t)'
<1>1. Repo(t)' = Repo(t)
  BY DEF Repo
<1>2. /\ Schema(Repo(t))'
      /\ \A k \in DOMAIN tasks'[t].seen :
            /\ k \in DOMAIN schemas'[Repo(t)'].metapointers
            /\ schemas'[Repo(t)'].metapointers[k] = tasks'[t].seen[k]
      /\ \A k \in DOMAIN tasks'[t].own : k \notin DOMAIN schemas'[Repo(t)'].metapointers
  BY <1>1 DEF WritesIn, Schema
<1>3. \A k \in DOMAIN tasks'[t].found :
        \/ k \in DOMAIN tasks'[t].own /\ tasks'[t].own[k] = tasks'[t].found[k]
        \/ k \in DOMAIN tasks'[t].seen /\ tasks'[t].seen[k] = tasks'[t].found[k]
  BY DEF WritesIn
<1> QED  BY <1>2, <1>3 DEF WritesIn

\* A step of a task that writes nodes, within the task.
LEMMA WriterStep ==
    ASSUME IInv, NEW t \in TaskIds, NEW v \in Tasks,
           tasks[t] # None, tasks[t].locked, tasks[t].kind \in Writers,
           tasks' = [tasks EXCEPT ![t] = v],
           UNCHANGED <<databaseVars, memoryVars, serverVars>>,
           v.kind = tasks[t].kind, v.repository = Repo(t), v.keys = tasks[t].keys,
           v.locked = tasks[t].locked,
           v.seen = tasks[t].seen, v.own = tasks[t].own, v.found = tasks[t].found,
           v.stage \in {"use", "obtain", "execute", "commit"}, IsFiniteSet(v.missing),
           \A i \in Nat, k \in MetaPointers : <<i, k>> \in v.rows => Names(Repo(t), i, k),
           v.stage = "commit" => \A row \in v.rows : row[1] \in Range(v.seen) \union Range(v.own)
    PROVE  IInv'
<1>1. /\ tasks[t] \in Tasks /\ StageOK(t) /\ WritesIn(t) /\ server = "up"
      /\ tasks'[t] = v
      /\ repositoryStore' \in [names : SUBSET Repos, initialized : BOOLEAN]
      /\ UNCHANGED <<databaseVars, globalMetaPointersMap, server, toConfigure, existing>>
  BY DEF IInv, Types, TasksOK, Phases, memoryVars, serverVars
<1>2. StageOK(t)'
  BY <1>1 DEF StageOK, Repo, Writers
<1>3. WritesIn(t)'
  <2>1. /\ tasks'[t].kind \in Writers /\ tasks'[t].locked /\ tasks'[t].repository = Repo(t)
        /\ tasks'[t].seen = tasks[t].seen /\ tasks'[t].own = tasks[t].own
        /\ tasks'[t].found = tasks[t].found
        /\ schemas' = schemas
    BY <1>1 DEF databaseVars
  <2>2. tasks'[t].stage = "commit" =>
        \A row \in tasks'[t].rows :
            row[1] \in Range(tasks'[t].seen) \union Range(tasks'[t].own)
    BY <1>1
  <2> QED  BY <1>1, <2>1, <2>2, SameWrites
<1>4. \A i \in Nat, k \in MetaPointers :
                \/ k \in DOMAIN v.own /\ v.own[k] = i
                \/ <<i, k>> \in v.rows
                => Names(v.repository, i, k)
  BY DEF Names
<1>5. Apart(t, v)
  BY DEF IInv, Exclusive, Others, Apart
<1>6. v # None /\ v.kind = "Delete" /\ v.locked =>
                DOMAIN globalMetaPointersMap[v.repository] = {}
  BY DEF Writers
<1> QED  BY <1>1, <1>2, <1>3, <1>4, <1>5, <1>6, TaskStep

\* The metapointers that are not in the map.
LEMMA CollectKeeps ==
    ASSUME IInv, NEW t \in TaskIds, Collect(t)
    PROVE  IInv'
<1> DEFINE missing == {k \in tasks[t].keys : ~hasInGlobalMetaPointersMap(Repo(t), k)}
           v == [tasks[t] EXCEPT !.missing = missing,
                                 !.stage = IF missing = {} THEN "use" ELSE "obtain"]
<1>1. /\ tasks[t] # None /\ tasks[t] \in Tasks /\ tasks[t].stage = "collect"
      /\ StageOK(t) /\ WritesIn(t)
  BY DEF Collect, IsAt, IInv, Types, TasksOK
<1>2. tasks[t].kind \in Writers /\ tasks[t].locked
  BY <1>1 DEF StageOK, Tasks, Writers
<1>3. missing \in SUBSET MetaPointers /\ IsFiniteSet(missing)
  BY <1>1, FS_Subset DEF StageOK, Tasks
<1>4. tasks' = [tasks EXCEPT ![t] = v] /\ UNCHANGED <<databaseVars, memoryVars, serverVars>>
  BY DEF Collect
<1> HIDE DEF missing
<1>5. /\ v.kind = tasks[t].kind /\ v.repository = Repo(t) /\ v.keys = tasks[t].keys
      /\ v.stage \in {"use", "obtain"} /\ v.seen = tasks[t].seen
      /\ v.own = tasks[t].own /\ v.missing = missing /\ v.found = tasks[t].found
      /\ v.rows = tasks[t].rows /\ v.locked = tasks[t].locked
  BY <1>1 DEF Tasks, Repo
<1>6. v \in Tasks
  BY <1>1, <1>3 DEF Tasks, Stages
<1> HIDE DEF v
<1>7. \A i \in Nat, k \in MetaPointers : <<i, k>> \in v.rows => Names(Repo(t), i, k)
  BY <1>1, <1>5 DEF Names
<1> QED  BY <1>1, <1>2, <1>3, <1>4, <1>5, <1>6, <1>7, WriterStep

\* The rows of a task name what the map has.
LEMMA UseIndexesKeeps ==
    ASSUME IInv, NEW t \in TaskIds, UseIndexes(t)
    PROVE  IInv'
<1> DEFINE map == globalMetaPointersMap[Repo(t)]
           rows == {<<map[k], k>> : k \in tasks[t].keys}
           v == [tasks[t] EXCEPT !.rows = rows, !.stage = "execute"]
<1>1. /\ tasks[t] # None /\ tasks[t] \in Tasks /\ tasks[t].stage = "use"
      /\ StageOK(t) /\ WritesIn(t)
  BY DEF UseIndexes, IsAt, IInv, Types, TasksOK
<1>2. tasks[t].kind \in Writers /\ tasks[t].locked /\ Repo(t) \in Repos
  BY <1>1 DEF StageOK, Tasks, Writers
<1>3. tasks' = [tasks EXCEPT ![t] = v] /\ UNCHANGED <<databaseVars, memoryVars, serverVars>>
  BY DEF UseIndexes, getFromGlobalMetaPointersMap
<1>4. map \in Tables /\ \A k \in tasks[t].keys : k \in DOMAIN map
  BY <1>2 DEF UseIndexes, IInv, Types, hasInGlobalMetaPointersMap
<1>5. \A i \in Nat, k \in MetaPointers : <<i, k>> \in rows => k \in DOMAIN map /\ map[k] = i
  BY <1>4
<1>6. rows \in SUBSET (Nat \X MetaPointers)
  BY <1>1, <1>4, TableParts DEF Tasks
<1>7. \A i \in Nat, k \in MetaPointers : <<i, k>> \in rows => Names(Repo(t), i, k)
  BY <1>5 DEF Names
<1> HIDE DEF rows
<1>8. /\ v.kind = tasks[t].kind /\ v.repository = Repo(t) /\ v.keys = tasks[t].keys
      /\ v.stage = "execute" /\ v.seen = tasks[t].seen
      /\ v.own = tasks[t].own /\ v.missing = tasks[t].missing /\ v.found = tasks[t].found
      /\ v.rows = rows /\ v.locked = tasks[t].locked
  BY <1>1 DEF Tasks, Repo
<1>9. v \in Tasks
  BY <1>1, <1>6 DEF Tasks, Stages
<1>10. IsFiniteSet(v.missing)
  BY <1>1, <1>8 DEF StageOK
<1> HIDE DEF v
<1> QED  BY <1>1, <1>2, <1>3, <1>7, <1>8, <1>9, <1>10, WriterStep

\* The foreign keys: each index is in the table the task sees.
LEMMA InsertRowsKeeps ==
    ASSUME IInv, NEW t \in TaskIds, InsertRows(t)
    PROVE  IInv'
<1> DEFINE v == [tasks[t] EXCEPT !.stage = "commit"]
<1>1. /\ tasks[t] # None /\ tasks[t] \in Tasks /\ tasks[t].stage = "execute"
      /\ StageOK(t) /\ WritesIn(t)
  BY DEF InsertRows, IsAt, IInv, Types, TasksOK
<1>2. tasks[t].kind \in Writers /\ tasks[t].locked
  BY <1>1 DEF StageOK, Tasks, Writers
<1>3. tasks' = [tasks EXCEPT ![t] = v] /\ UNCHANGED <<databaseVars, memoryVars, serverVars>>
  BY DEF InsertRows, Goes
<1>4. /\ v.kind = tasks[t].kind /\ v.repository = Repo(t) /\ v.keys = tasks[t].keys
      /\ v.stage = "commit" /\ v.seen = tasks[t].seen
      /\ v.own = tasks[t].own /\ v.missing = tasks[t].missing /\ v.found = tasks[t].found
      /\ v.rows = tasks[t].rows /\ v.locked = tasks[t].locked
  BY <1>1 DEF Tasks, Repo
<1>5. v \in Tasks
  BY <1>1 DEF Tasks, Stages
<1>6. IsFiniteSet(v.missing)
  BY <1>1, <1>4 DEF StageOK
<1> HIDE DEF v
<1>7. \A i \in Nat, k \in MetaPointers : <<i, k>> \in v.rows => Names(Repo(t), i, k)
  BY <1>1, <1>4 DEF Names
<1>8. \A row \in v.rows : row[1] \in Range(v.seen) \union Range(v.own)
  BY <1>4 DEF InsertRows
<1> QED  BY <1>1, <1>2, <1>3, <1>4, <1>5, <1>6, <1>7, <1>8, WriterStep

\* A schema is created, where no other task has locks.
LEMMA CreateSchemaKeeps ==
    ASSUME IInv, NEW t \in TaskIds, CreateSchema(t)
    PROVE  IInv'
<1> DEFINE v == [tasks[t] EXCEPT !.locked = TRUE, !.stage = "refresh"]
<1>1. /\ tasks[t] # None /\ tasks[t] \in Tasks /\ tasks[t].stage = "schema"
      /\ StageOK(t) /\ WritesIn(t) /\ Free(t) /\ server = "up"
  BY DEF CreateSchema, IsAt, IInv, Types, TasksOK, Phases
<1>2. tasks[t].kind = "Create" /\ ~tasks[t].locked
  BY <1>1 DEF StageOK, Tasks, Writers
<1>3. /\ tasks' = [tasks EXCEPT ![t] = v] /\ tasks'[t] = v
      /\ UNCHANGED <<databaseVars, globalMetaPointersMap, server, toConfigure, existing>>
      /\ repositoryStore' \in [names : SUBSET Repos, initialized : BOOLEAN]
  BY DEF CreateSchema, IInv, Types, memoryVars, serverVars
<1>4. /\ v.kind = "Create" /\ v.repository = Repo(t) /\ v.keys = tasks[t].keys
      /\ v.stage = "refresh" /\ v.seen = tasks[t].seen
      /\ v.own = tasks[t].own /\ v.missing = tasks[t].missing /\ v.found = tasks[t].found
      /\ v.rows = tasks[t].rows /\ v.locked = TRUE
  BY <1>1, <1>2 DEF Tasks, Repo
<1>5. v \in Tasks
  BY <1>1 DEF Tasks, Stages
<1> HIDE DEF v
<1>6. StageOK(t)'
  BY <1>1, <1>2, <1>3, <1>4 DEF StageOK, Repo, Writers
<1>7. WritesIn(t)'
  BY <1>1, <1>2, <1>3, <1>4 DEF WritesIn, Repo, Writers
<1>8. \A i \in Nat, k \in MetaPointers :
                \/ k \in DOMAIN v.own /\ v.own[k] = i
                \/ <<i, k>> \in v.rows
                => Names(v.repository, i, k)
  BY <1>1, <1>4 DEF Names
<1>9. Apart(t, v)
  BY <1>1, <1>2, <1>4 DEF Free, Others, WritesIn, Writers, Apart
<1>10. v # None /\ v.kind = "Delete" /\ v.locked =>
                DOMAIN globalMetaPointersMap[v.repository] = {}
  BY <1>4
<1> QED  BY <1>1, <1>3, <1>5, <1>6, <1>7, <1>8, <1>9, <1>10, TaskStep

\* What is loaded into the map is in the tables.
LEMMA LoadedMap ==
    ASSUME IInv, NEW names \in SUBSET Repos, NEW new \in SUBSET Repos,
           \A r \in names \ new : Schema(r),
           NEW m, m = Loaded(globalMetaPointersMap, names, new)
    PROVE  /\ m \in [Repos -> Tables]
           /\ \A r \in Repos : r \notin names \ new => m[r] = globalMetaPointersMap[r]
           /\ \A r \in Repos : ~Schema(r) => DOMAIN m[r] = {}
           /\ \A r \in Repos : \A k \in DOMAIN m[r] : Names(r, m[r][k], k)
<1>1. \A r \in Repos : m[r] = IF r \in names \ new
                              THEN Over(schemas[r].metapointers, globalMetaPointersMap[r])
                              ELSE globalMetaPointersMap[r]
  BY DEF Loaded
<1>2. \A r \in Repos : r \notin names \ new => m[r] = globalMetaPointersMap[r]
  BY <1>1
<1>3. \A r \in Repos : globalMetaPointersMap[r] \in Tables
  BY DEF IInv, Types
<1>4. \A r \in Repos : Schema(r) => schemas[r].metapointers \in Tables
  BY DEF IInv, Types, Schema, Schemas, Tables
<1>5. ASSUME NEW r \in Repos
      PROVE  m[r] \in Tables
  <2>1. CASE r \notin names \ new
    BY <2>1, <1>2, <1>3
  <2>2. CASE r \in names \ new
    <3> DEFINE f == schemas[r].metapointers
               g == globalMetaPointersMap[r]
    <3>1. f \in Tables /\ g \in Tables /\ m[r] = Over(f, g)
      BY <2>2, <1>1, <1>3, <1>4
    <3> HIDE DEF f, g
    <3> QED  BY <3>1, TableIsOverlay
  <2> QED  BY <2>1, <2>2
<1>6. m \in [Repos -> Tables]
  BY <1>5 DEF Loaded
<1>7. \A r \in Repos : ~Schema(r) => DOMAIN m[r] = {}
  BY <1>2 DEF IInv, MapNeedsSchema
<1>8. ASSUME NEW r \in Repos, NEW k \in DOMAIN m[r]
      PROVE  Names(r, m[r][k], k)
  <2>1. CASE r \notin names \ new
    BY <2>1, <1>2 DEF Names
  <2>2. CASE r \in names \ new
    <3> DEFINE f == schemas[r].metapointers
               g == globalMetaPointersMap[r]
    <3>1. f \in Tables /\ g \in Tables /\ m[r] = Over(f, g) /\ Schema(r)
      BY <2>2, <1>1, <1>3, <1>4
    <3>2. \/ k \in DOMAIN f /\ m[r][k] = f[k]
          \/ k \in DOMAIN g /\ m[r][k] = g[k]
      <4> HIDE DEF f, g
      <4>1. /\ DOMAIN Over(f, g) = DOMAIN f \union DOMAIN g
            /\ \A j \in DOMAIN f : Over(f, g)[j] = f[j]
            /\ \A j \in DOMAIN g \ DOMAIN f : Over(f, g)[j] = g[j]
        BY <3>1, TableIsOverlay
      <4> QED  BY <3>1, <4>1
    <3> QED  BY <3>1, <3>2 DEF Names
  <2> QED  BY <2>1, <2>2
<1> QED  BY <1>2, <1>6, <1>7, <1>8

\* The map without one repository.
LEMMA CleanedMap ==
    ASSUME NEW map \in [Repos -> Tables], NEW r \in Repos,
           NEW m, m = cleanGlobalPointersMap(map, r)
    PROVE  /\ m \in [Repos -> Tables]
           /\ DOMAIN m[r] = {}
           /\ \A n \in Repos \ {r} : m[n] = map[n]
BY NoTable DEF cleanGlobalPointersMap

\* A task that only goes to another stage.
LEMMA StageStep ==
    ASSUME IInv, NEW t \in TaskIds, tasks[t] # None, NEW stage \in Stages,
           NEW v, v = [tasks[t] EXCEPT !.stage = stage]
    PROVE  /\ v.kind = tasks[t].kind /\ v.repository = Repo(t) /\ v.keys = tasks[t].keys
           /\ v.stage = stage /\ v.seen = tasks[t].seen
           /\ v.own = tasks[t].own /\ v.missing = tasks[t].missing /\ v.found = tasks[t].found
           /\ v.rows = tasks[t].rows /\ v.locked = tasks[t].locked
           /\ v \in Tasks
<1>1. tasks[t] \in Tasks
  BY DEF IInv, Types
<1> QED  BY <1>1 DEF Tasks, Repo

\* A request is looked up, and the map loaded if the store was not initialized.
LEMMA GetRepositoryKeeps ==
    ASSUME IInv, NEW t \in TaskIds, GetRepository(t)
    PROVE  IInv'
<1> DEFINE r == Repo(t)
           found == r \in getRepository.names
           map == getRepository.map
<1>1. /\ tasks[t] # None /\ tasks[t] \in Tasks /\ tasks[t].stage = "lookup"
      /\ StageOK(t) /\ WritesIn(t) /\ server = "up"
  BY DEF GetRepository, IsAt, IInv, Types, TasksOK, Phases
<1>2. /\ tasks[t].kind \in {"Store", "Create", "Delete"} /\ r \in Repos /\ ~tasks[t].locked
      /\ t = 0
  BY <1>1 DEF StageOK, Tasks, Writers, TaskIds
<1>3. /\ getRepository.names \in SUBSET Repos
      /\ map \in [Repos -> Tables]
      /\ \A n \in Repos : ~Schema(n) => DOMAIN map[n] = {}
      /\ \A n \in Repos : \A k \in DOMAIN map[n] : Names(n, map[n][k], k)
  <2>1. CASE repositoryStore.initialized
    <3>1. map = globalMetaPointersMap /\ getRepository.names = repositoryStore.names
      BY <2>1 DEF getRepository
    <3> QED  BY <3>1 DEF IInv, Types, MapNeedsSchema, Names
  <2>2. CASE ~repositoryStore.initialized
    <3>1. /\ map = Loaded(globalMetaPointersMap, repositories, {})
          /\ getRepository.names = repositories
      BY <2>2 DEF getRepository
    <3>2. repositories \in SUBSET Repos /\ \A n \in repositories \ {} : Schema(n)
      BY <2>2 DEF GetRepository, IInv, Types
    <3> HIDE DEF map, IInv
    <3> QED  BY <3>1, <3>2, LoadedMap
  <2> QED  BY <2>1, <2>2
<1>4. /\ globalMetaPointersMap' =
                IF tasks[t].kind = "Create" /\ ~found THEN cleanGlobalPointersMap(map, r) ELSE map
      /\ UNCHANGED <<repositories, schemas, server, toConfigure, existing>>
      /\ identity' = identity
      /\ repositoryStore' \in [names : SUBSET Repos, initialized : BOOLEAN]
  BY <1>3 DEF GetRepository, databaseVars, serverVars
<1>5. /\ globalMetaPointersMap' \in [Repos -> Tables]
      /\ \A n \in Repos : ~Schema(n) => DOMAIN globalMetaPointersMap'[n] = {}
      /\ \A n \in Repos : \A k \in DOMAIN globalMetaPointersMap'[n] :
                Names(n, globalMetaPointersMap'[n][k], k)
  <2>1. CASE tasks[t].kind = "Create" /\ ~found
    <3>1. globalMetaPointersMap' = cleanGlobalPointersMap(map, r)
      BY <2>1, <1>4
    <3> HIDE DEF map, r
    <3>2. /\ globalMetaPointersMap' \in [Repos -> Tables]
          /\ DOMAIN globalMetaPointersMap'[r] = {}
          /\ \A n \in Repos \ {r} : globalMetaPointersMap'[n] = map[n]
      BY <3>1, <1>2, <1>3, CleanedMap
    <3> QED  BY <3>2, <1>3
  <2>2. CASE ~(tasks[t].kind = "Create" /\ ~found)
    BY <2>2, <1>3, <1>4
  <2> QED  BY <2>1, <2>2
<1>6. \/ tasks[t].kind = "Store" /\ Goes(t, "read")
      \/ tasks[t].kind = "Delete" /\ Goes(t, "drop")
      \/ tasks[t].kind = "Create" /\ Goes(t, "schema")
      \/ Ends(t)
  BY <1>2 DEF GetRepository
<1>7. \A u \in TaskIds \ {t} : tasks[u] # None => tasks[u].kind = "Command"
  BY <1>2 DEF IInv, TasksOK, StageOK, TaskIds
<1>8. /\ identity' \in [Repos -> Nat] /\ \A n \in Repos : identity[n] <= identity'[n]
  BY <1>4 DEF IInv, Types
<1>9. CASE Ends(t)
  <2>1. tasks' = [tasks EXCEPT ![t] = None]
    BY <1>9 DEF Ends
  <2>2. tasks'[t] = None /\ \A u \in TaskIds \ {t} : tasks'[u] = tasks[u]
    BY <2>1 DEF IInv, Types
  <2>3. \A u \in TaskIds : tasks'[u] # None /\ tasks'[u].kind = "Delete" /\ tasks'[u].locked =>
                DOMAIN globalMetaPointersMap'[tasks'[u].repository] = {}
    BY <2>2, <1>7
  <2> HIDE DEF IInv
  <2> QED  BY <2>1, <2>3, <1>4, <1>5, <1>8, TaskAndMapStep DEF Apart
<1>10. ASSUME NEW stage \in {"read", "drop", "schema"}, Goes(t, stage),
              stage = "read" => tasks[t].kind = "Store",
              stage = "drop" => tasks[t].kind = "Delete",
              stage = "schema" => tasks[t].kind = "Create"
       PROVE  IInv'
  <2> DEFINE v == [tasks[t] EXCEPT !.stage = stage]
  <2>1. tasks' = [tasks EXCEPT ![t] = v]
    BY <1>10 DEF Goes
  <2>2. stage \in Stages
    BY DEF Stages
  <2> HIDE DEF v, IInv
  <2>3. /\ v.kind = tasks[t].kind /\ v.repository = Repo(t) /\ v.keys = tasks[t].keys
        /\ v.stage = stage /\ v.seen = tasks[t].seen
        /\ v.own = tasks[t].own /\ v.missing = tasks[t].missing /\ v.found = tasks[t].found
        /\ v.rows = tasks[t].rows /\ v.locked = tasks[t].locked
        /\ v \in Tasks
    BY <1>1, <2>2, StageStep DEF v
  <2>4. tasks'[t] = v /\ \A u \in TaskIds \ {t} : tasks'[u] = tasks[u]
    BY <2>1 DEF IInv, Types
  <2>5. StageOK(t)'
    BY <1>1, <1>2, <1>10, <2>3, <2>4 DEF StageOK, Repo, Writers
  <2>6. WritesIn(t)'
    BY <1>1, <1>2, <2>3, <2>4 DEF WritesIn, Repo
  <2>7. \A u \in TaskIds : tasks'[u] # None /\ tasks'[u].kind = "Delete" /\ tasks'[u].locked =>
                DOMAIN globalMetaPointersMap'[tasks'[u].repository] = {}
    BY <2>3, <2>4, <1>2, <1>7
  <2>8. /\ DOMAIN v.own = {} /\ v.rows = {} /\ ~v.locked
    BY <2>3, <1>1, <1>2 DEF WritesIn
  <2>9. Apart(t, v)
    BY <2>8 DEF Apart
  <2> QED  BY <2>1, <2>3, <2>5, <2>6, <2>7, <2>8, <2>9, <1>1, <1>4, <1>5, <1>8, TaskAndMapStep
<1> QED  BY <1>6, <1>9, <1>10

\* A schema is dropped, where no other task has locks: the map loses it at once.
LEMMA DropSchemaKeeps ==
    ASSUME IInv, NEW t \in TaskIds, DropSchema(t)
    PROVE  IInv'
<1> DEFINE v == [tasks[t] EXCEPT !.locked = TRUE, !.stage = "refresh"]
<1>1. /\ tasks[t] # None /\ tasks[t] \in Tasks /\ tasks[t].stage = "drop"
      /\ StageOK(t) /\ WritesIn(t) /\ Free(t) /\ server = "up"
  BY DEF DropSchema, IsAt, IInv, Types, TasksOK, Phases
<1>2. /\ tasks[t].kind = "Delete" /\ ~tasks[t].locked /\ Repo(t) \in Repos /\ t = 0
  BY <1>1 DEF StageOK, Tasks, Writers, TaskIds
<1>3. /\ tasks' = [tasks EXCEPT ![t] = v] /\ tasks'[t] = v
      /\ \A u \in TaskIds \ {t} : tasks'[u] = tasks[u]
      /\ UNCHANGED <<repositories, schemas, server, toConfigure, existing>>
      /\ repositoryStore' \in [names : SUBSET Repos, initialized : BOOLEAN]
  BY DEF DropSchema, IInv, Types, databaseVars, serverVars
<1>4. /\ v.kind = "Delete" /\ v.repository = Repo(t) /\ v.keys = tasks[t].keys
      /\ v.stage = "refresh" /\ v.seen = tasks[t].seen
      /\ v.own = tasks[t].own /\ v.missing = tasks[t].missing /\ v.found = tasks[t].found
      /\ v.rows = tasks[t].rows /\ v.locked = TRUE
  BY <1>1, <1>2 DEF Tasks, Repo
<1>5. v \in Tasks
  BY <1>1 DEF Tasks, Stages
<1> HIDE DEF v
<1>6. StageOK(t)'
  BY <1>1, <1>2, <1>3, <1>4 DEF StageOK, Repo, Writers
<1>7. WritesIn(t)'
  BY <1>1, <1>2, <1>3, <1>4 DEF WritesIn, Repo, Writers
<1>8. /\ DOMAIN v.own = {} /\ v.rows = {}
  BY <1>1, <1>2, <1>4 DEF WritesIn
<1>9. Apart(t, v)
  BY <1>1, <1>2, <1>4, <1>8 DEF Free, Others, Writers, Apart
<1>10. /\ identity' \in [Repos -> Nat] /\ \A n \in Repos : identity[n] <= identity'[n]
  BY DEF DropSchema, databaseVars, IInv, Types
<1>11. /\ globalMetaPointersMap' \in [Repos -> Tables]
       /\ DOMAIN globalMetaPointersMap'[Repo(t)] = {}
       /\ \A n \in Repos \ {Repo(t)} : globalMetaPointersMap'[n] = globalMetaPointersMap[n]
  <2>1. globalMetaPointersMap' = cleanGlobalPointersMap(globalMetaPointersMap, Repo(t))
    BY DEF DropSchema
  <2>2. globalMetaPointersMap \in [Repos -> Tables]
    BY DEF IInv, Types
  <2> HIDE DEF IInv
  <2> QED  BY <2>1, <2>2, <1>2, CleanedMap
<1>12. /\ globalMetaPointersMap' \in [Repos -> Tables]
       /\ \A n \in Repos : ~Schema(n) => DOMAIN globalMetaPointersMap'[n] = {}
       /\ \A n \in Repos : \A k \in DOMAIN globalMetaPointersMap'[n] :
                Names(n, globalMetaPointersMap'[n][k], k)
  BY <1>11 DEF IInv, MapNeedsSchema, Names
<1>13. \A u \in TaskIds : tasks'[u] # None /\ tasks'[u].kind = "Delete" /\ tasks'[u].locked =>
                DOMAIN globalMetaPointersMap'[tasks'[u].repository] = {}
  <2>1. \A u \in TaskIds \ {t} : tasks[u] # None => tasks[u].kind = "Command"
    BY <1>2 DEF IInv, TasksOK, StageOK, TaskIds
  <2> QED  BY <2>1, <1>3, <1>4, <1>11
<1>14. /\ \A i \in Nat, k \in MetaPointers : <<i, k>> \in v.rows => Names(v.repository, i, k)
       /\ \A k \in DOMAIN v.own : Names(v.repository, v.own[k], k)
  BY <1>8
<1>15. server = "up" /\ StageOK(t)' /\ WritesIn(t)'
  BY <1>1, <1>6, <1>7
<1> HIDE DEF IInv
<1> QED  BY <1>3, <1>5, <1>9, <1>10, <1>12, <1>13, <1>14, <1>15, TaskAndMapStep

\* The store is refreshed, and with it the map of every other repository.
LEMMA RefreshStoreKeeps ==
    ASSUME IInv, NEW t \in TaskIds, RefreshStore(t)
    PROVE  IInv'
<1> DEFINE v == [tasks[t] EXCEPT !.stage = "commit"]
<1>1. /\ tasks[t] # None /\ tasks[t] \in Tasks /\ tasks[t].stage = "refresh"
      /\ StageOK(t) /\ WritesIn(t) /\ server = "up"
  BY DEF RefreshStore, IsAt, IInv, Types, TasksOK, Phases
<1>2. /\ tasks[t].kind \in {"Create", "Delete", "List"} /\ t = 0
      /\ tasks[t].kind # "List" => Repo(t) \in Repos /\ tasks[t].locked
  BY <1>1 DEF StageOK, Tasks, Writers, TaskIds
<1>3. PICK names \in SUBSET Repos, new \in SUBSET Repos :
            /\ Initialize(names, new)
            /\ tasks[t].kind = "Delete" => Repo(t) \notin names \ new
  <2>1. CASE tasks[t].kind = "Create"
    <3>1. Initialize(repositories \union {Repo(t)}, {Repo(t)})
      BY <2>1 DEF RefreshStore
    <3> QED  BY <3>1, <2>1, <1>2 DEF IInv, Types
  <2>2. CASE tasks[t].kind = "Delete"
    <3>1. Initialize(repositories \ {Repo(t)}, {})
      BY <2>2 DEF RefreshStore
    <3> QED  BY <3>1 DEF IInv, Types
  <2>3. CASE tasks[t].kind = "List"
    <3>1. Initialize(repositories, {})
      BY <2>3 DEF RefreshStore
    <3> QED  BY <3>1, <2>3 DEF IInv, Types
  <2> QED  BY <1>2, <2>1, <2>2, <2>3
<1>4. /\ tasks' = [tasks EXCEPT ![t] = v] /\ tasks'[t] = v
      /\ \A u \in TaskIds \ {t} : tasks'[u] = tasks[u]
      /\ UNCHANGED <<repositories, schemas, server, toConfigure, existing>>
      /\ repositoryStore' \in [names : SUBSET Repos, initialized : BOOLEAN]
      /\ identity' \in [Repos -> Nat] /\ \A n \in Repos : identity[n] <= identity'[n]
  BY <1>3 DEF RefreshStore, Initialize, Goes, IInv, Types, databaseVars, serverVars
<1>5. "commit" \in Stages
  BY DEF Stages
<1>6. /\ globalMetaPointersMap' \in [Repos -> Tables]
      /\ \A n \in Repos : n \notin names \ new =>
            globalMetaPointersMap'[n] = globalMetaPointersMap[n]
      /\ \A n \in Repos : ~Schema(n) => DOMAIN globalMetaPointersMap'[n] = {}
      /\ \A n \in Repos : \A k \in DOMAIN globalMetaPointersMap'[n] :
                Names(n, globalMetaPointersMap'[n][k], k)
  <2> HIDE DEF IInv
  <2>1. \A n \in names \ new : Schema(n)
    BY <1>3 DEF Initialize
  <2> DEFINE m == globalMetaPointersMap'
  <2>2. m = Loaded(globalMetaPointersMap, names, new)
    BY <1>3 DEF Initialize
  <2> HIDE DEF m
  <2>3. /\ m \in [Repos -> Tables]
        /\ \A n \in Repos : n \notin names \ new => m[n] = globalMetaPointersMap[n]
        /\ \A n \in Repos : ~Schema(n) => DOMAIN m[n] = {}
        /\ \A n \in Repos : \A k \in DOMAIN m[n] : Names(n, m[n][k], k)
    BY <2>1, <2>2, LoadedMap
  <2> QED  BY <2>3 DEF m
<1>7. /\ v.kind = tasks[t].kind /\ v.repository = Repo(t) /\ v.keys = tasks[t].keys
      /\ v.stage = "commit" /\ v.seen = tasks[t].seen
      /\ v.own = tasks[t].own /\ v.missing = tasks[t].missing /\ v.found = tasks[t].found
      /\ v.rows = tasks[t].rows /\ v.locked = tasks[t].locked
      /\ v \in Tasks
  <2> HIDE DEF IInv, v
  <2> QED  BY <1>1, <1>5, StageStep DEF v
<1> HIDE DEF v
<1>8. StageOK(t)'
  BY <1>1, <1>2, <1>4, <1>7 DEF StageOK, Repo, Writers
<1>9. /\ DOMAIN v.own = {} /\ v.rows = {}
  BY <1>1, <1>2, <1>7 DEF WritesIn, Writers
<1>10. WritesIn(t)'
  BY <1>1, <1>2, <1>4, <1>7 DEF WritesIn, Repo, Writers
<1>11. Apart(t, v)
  BY <1>1, <1>7 DEF IInv, Exclusive, Others, Apart
<1>12. \A u \in TaskIds : tasks'[u] # None /\ tasks'[u].kind = "Delete" /\ tasks'[u].locked =>
                DOMAIN globalMetaPointersMap'[tasks'[u].repository] = {}
  <2>1. \A u \in TaskIds \ {t} : tasks[u] # None => tasks[u].kind = "Command"
    BY <1>2 DEF IInv, TasksOK, StageOK, TaskIds
  <2>2. tasks[t].kind = "Delete" => DOMAIN globalMetaPointersMap'[Repo(t)] = {}
    BY <1>1, <1>2, <1>3, <1>6 DEF IInv, MapNeedsSchema
  <2> QED  BY <2>1, <2>2, <1>4, <1>7
<1> HIDE DEF IInv
<1> QED  BY <1>1, <1>4, <1>6, <1>7, <1>8, <1>9, <1>10, <1>11, <1>12, TaskAndMapStep

\* The map gets the indexes of a task that is not committed.
LEMMA CacheIndexesKeeps ==
    ASSUME IInv, NEW t \in TaskIds, CacheIndexes(t)
    PROVE  IInv'
<1> DEFINE v == [tasks[t] EXCEPT !.stage = "use"]
           r == Repo(t)
           found == tasks[t].found
<1>1. /\ tasks[t] # None /\ tasks[t] \in Tasks /\ tasks[t].stage = "cache"
      /\ StageOK(t) /\ WritesIn(t) /\ server = "up"
  BY DEF CacheIndexes, IsAt, IInv, Types, TasksOK, Phases
<1>2. tasks[t].kind \in Writers /\ tasks[t].locked /\ r \in Repos /\ Schema(r)
  BY <1>1 DEF StageOK, WritesIn, Tasks, Writers
<1>3. /\ tasks' = [tasks EXCEPT ![t] = v] /\ tasks'[t] = v
      /\ \A u \in TaskIds \ {t} : tasks'[u] = tasks[u]
      /\ UNCHANGED <<repositories, schemas, server, toConfigure, existing>>
      /\ repositoryStore' \in [names : SUBSET Repos, initialized : BOOLEAN]
      /\ identity' \in [Repos -> Nat] /\ \A n \in Repos : identity[n] <= identity'[n]
  BY DEF CacheIndexes, Goes, IInv, Types, databaseVars, serverVars
<1>4. "use" \in Stages
  BY DEF Stages
<1>5. /\ v.kind = tasks[t].kind /\ v.repository = Repo(t) /\ v.keys = tasks[t].keys
      /\ v.stage = "use" /\ v.seen = tasks[t].seen
      /\ v.own = tasks[t].own /\ v.missing = tasks[t].missing /\ v.found = tasks[t].found
      /\ v.rows = tasks[t].rows /\ v.locked = tasks[t].locked
      /\ v \in Tasks
  <2> HIDE DEF IInv, v
  <2> QED  BY <1>1, <1>4, StageStep DEF v
<1> HIDE DEF v
<1>6. StageOK(t)'
  BY <1>1, <1>2, <1>3, <1>5 DEF StageOK, Repo, Writers
<1>7. WritesIn(t)'
  <2>1. /\ tasks'[t].kind \in Writers /\ tasks'[t].locked /\ tasks'[t].repository = Repo(t)
        /\ tasks'[t].seen = tasks[t].seen /\ tasks'[t].own = tasks[t].own
        /\ tasks'[t].found = tasks[t].found /\ schemas' = schemas
        /\ tasks'[t].stage # "commit"
    BY <1>2, <1>3, <1>5
  <2> QED  BY <1>1, <1>2, <2>1, SameWrites
<1>8. /\ \A i \in Nat, k \in MetaPointers :
            <<i, k>> \in v.rows => Names(v.repository, i, k)
      /\ \A k \in DOMAIN v.own : Names(v.repository, v.own[k], k)
  BY <1>1, <1>5 DEF Names
<1>9. Apart(t, v)
  BY <1>1, <1>5 DEF IInv, Exclusive, Others, Apart
<1>10. \A k \in DOMAIN found : Names(r, found[k], k)
  <2> SUFFICES ASSUME NEW k \in DOMAIN found
               PROVE  Names(r, found[k], k)
    OBVIOUS
  <2>1. CASE k \in DOMAIN tasks[t].own /\ tasks[t].own[k] = found[k]
    BY <2>1, <1>1 DEF Names
  <2>2. CASE k \in DOMAIN tasks[t].seen /\ tasks[t].seen[k] = found[k]
    BY <2>2, <1>1, <1>2 DEF Names, WritesIn
  <2> QED  BY <2>1, <2>2, <1>1 DEF WritesIn
<1>11. /\ globalMetaPointersMap' \in [Repos -> Tables]
       /\ \A n \in Repos \ {r} : globalMetaPointersMap'[n] = globalMetaPointersMap[n]
       /\ \A k \in DOMAIN globalMetaPointersMap'[r] :
                Names(r, globalMetaPointersMap'[r][k], k)
  <2> DEFINE g == globalMetaPointersMap[r]
  <2>1. /\ globalMetaPointersMap \in [Repos -> Tables] /\ found \in Tables
        /\ globalMetaPointersMap' = [globalMetaPointersMap EXCEPT ![r] = Over(found, g)]
    BY <1>1 DEF CacheIndexes, insertInGlobalMetaPointersMap, IInv, Types, Tasks
  <2>2. \A k \in DOMAIN g : Names(r, g[k], k)
    BY DEF Names
  <2>3. g \in Tables
    BY <2>1, <1>2
  <2> HIDE DEF g, found
  <2>4. /\ Over(found, g) \in Tables
        /\ DOMAIN Over(found, g) = DOMAIN found \union DOMAIN g
        /\ \A k \in DOMAIN found : Over(found, g)[k] = found[k]
        /\ \A k \in DOMAIN g \ DOMAIN found : Over(found, g)[k] = g[k]
    BY <2>1, <2>3, TableIsOverlay
  <2>5. \A k \in DOMAIN Over(found, g) : Names(r, Over(found, g)[k], k)
    BY <1>10, <2>2, <2>4
  <2>6. globalMetaPointersMap'[r] = Over(found, g)
    BY <2>1, <1>2
  <2> HIDE DEF r
  <2> QED  BY <1>2, <2>1, <2>4, <2>5, <2>6
<1>12. /\ \A n \in Repos : ~Schema(n) => DOMAIN globalMetaPointersMap'[n] = {}
       /\ \A n \in Repos : \A k \in DOMAIN globalMetaPointersMap'[n] :
                Names(n, globalMetaPointersMap'[n][k], k)
  BY <1>2, <1>11 DEF IInv, MapNeedsSchema, Names
<1>13. \A u \in TaskIds : tasks'[u] # None /\ tasks'[u].kind = "Delete" /\ tasks'[u].locked =>
                DOMAIN globalMetaPointersMap'[tasks'[u].repository] = {}
  <2> SUFFICES ASSUME NEW u \in TaskIds, tasks'[u] # None, tasks'[u].kind = "Delete",
                      tasks'[u].locked
               PROVE  DOMAIN globalMetaPointersMap'[tasks'[u].repository] = {}
    OBVIOUS
  <2>1. u # t
    BY <1>2, <1>3, <1>5 DEF Writers
  <2>2. tasks'[u] = tasks[u]
    BY <2>1, <1>3
  <2>3. Repo(u) \in Repos
    BY <2>2 DEF IInv, TasksOK, StageOK
  <2>4. Repo(u) # r
    BY <2>1, <2>2, <1>1, <1>2 DEF IInv, Exclusive, Others, Writers
  <2>5. DOMAIN globalMetaPointersMap[Repo(u)] = {}
    BY <2>2 DEF IInv, MapNeedsSchema
  <2> QED  BY <2>2, <2>3, <2>4, <2>5, <1>11 DEF Repo
<1> HIDE DEF IInv
<1> QED  BY <1>1, <1>3, <1>5, <1>6, <1>7, <1>8, <1>9, <1>11, <1>12, <1>13, TaskAndMapStep

\* The indexes of a statement are new, and so are its metapointers.
LEMMA ObtainIndexesKeeps ==
    ASSUME IInv, NEW t \in TaskIds, ObtainIndexes(t)
    PROVE  IInv'
<1> DEFINE r == Repo(t)
           missing == tasks[t].missing
           seen == tasks[t].seen
           new == missing \ DOMAIN seen
           first == identity[r]
           n == Cardinality(missing)
<1>1. /\ tasks[t] # None /\ tasks[t] \in Tasks /\ tasks[t].stage = "obtain"
      /\ StageOK(t) /\ WritesIn(t) /\ server = "up"
  BY DEF ObtainIndexes, IsAt, IInv, Types, TasksOK, Phases
<1>2. /\ tasks[t].kind \in Writers /\ tasks[t].locked /\ r \in Repos /\ Schema(r)
      /\ missing \in SUBSET MetaPointers /\ seen \in Tables
  BY <1>1 DEF StageOK, WritesIn, Tasks, Writers
<1>3. n \in Nat /\ first \in Nat
  BY <1>1, <1>2, FS_CardinalityType DEF StageOK, IInv, Types
<1>4. PICK ids \in Indexes(new, first, n) :
            tasks' = [tasks EXCEPT
                    ![t].own = ids,
                    ![t].found = Over(ids, Restrict(seen, missing \ new)),
                    ![t].stage = "cache"]
  BY DEF ObtainIndexes, ToMetaPointerIDs
<1>5. /\ ids \in [new -> first .. first + n - 1]
      /\ \A j, k \in new : ids[j] = ids[k] => j = k
  BY <1>4 DEF Indexes
<1>6. /\ DOMAIN ids = new
      /\ \A k \in new : ids[k] \in Nat /\ first <= ids[k] /\ ids[k] < first + n
  BY <1>3, <1>5
<1>7. /\ new \intersect DOMAIN schemas[r].metapointers = {}
      /\ \A u \in Others(t) : DOMAIN tasks[u].own \intersect missing = {}
      /\ identity' = [identity EXCEPT ![r] = first + n]
      /\ UNCHANGED <<repositories, schemas, memoryVars, serverVars>>
  BY DEF ObtainIndexes, ToMetaPointerIDs
<1> DEFINE old == Restrict(seen, missing \ new)
           v == [tasks[t] EXCEPT !.own = ids, !.found = Over(ids, old), !.stage = "cache"]
<1>8. ids \in Tables
  <2>1. new \in SUBSET MetaPointers /\ ids \in [new -> Nat]
    BY <1>2, <1>5, <1>6
  <2> HIDE DEF new
  <2> QED  BY <2>1 DEF Tables
<1>9. /\ DOMAIN old = missing \ new /\ DOMAIN old \subseteq DOMAIN seen
      /\ \A k \in DOMAIN old : old[k] = seen[k]
      /\ old \in Tables
  <2>1. /\ old = [k \in missing \ new |-> seen[k]]
        /\ missing \ new \subseteq DOMAIN seen
    BY DEF Restrict
  <2>2. \A k \in DOMAIN seen : seen[k] \in Nat
    BY <1>2, TableParts
  <2>3. old \in [missing \ new -> Nat] /\ missing \ new \in SUBSET MetaPointers
    BY <2>1, <2>2, <1>2
  <2> QED  BY <2>1, <2>3 DEF Tables
<1>10. /\ Over(ids, old) \in Tables
       /\ DOMAIN Over(ids, old) = DOMAIN ids \union DOMAIN old
       /\ \A k \in DOMAIN ids : Over(ids, old)[k] = ids[k]
       /\ \A k \in DOMAIN old \ DOMAIN ids : Over(ids, old)[k] = old[k]
  <2> HIDE DEF old
  <2> QED  BY <1>8, <1>9, TableIsOverlay
<1>11. tasks' = [tasks EXCEPT ![t] = v]
  BY <1>4
<1> HIDE DEF old
<1>12. /\ v.kind = tasks[t].kind /\ v.repository = r /\ v.keys = tasks[t].keys
       /\ v.stage = "cache" /\ v.seen = seen
       /\ v.own = ids /\ v.missing = missing /\ v.found = Over(ids, old)
       /\ v.rows = tasks[t].rows /\ v.locked = tasks[t].locked
  BY <1>1 DEF Tasks, Repo
<1>13. v \in Tasks
  BY <1>1, <1>8, <1>10 DEF Tasks, Stages
<1> HIDE DEF v
<1>14. /\ tasks'[t] = v /\ \A u \in TaskIds \ {t} : tasks'[u] = tasks[u]
       /\ UNCHANGED <<repositories, schemas, server, toConfigure, existing>>
       /\ globalMetaPointersMap' = globalMetaPointersMap
       /\ repositoryStore' \in [names : SUBSET Repos, initialized : BOOLEAN]
       /\ identity' \in [Repos -> Nat] /\ \A m \in Repos : identity[m] <= identity'[m]
  BY <1>2, <1>3, <1>7, <1>11 DEF IInv, Types, memoryVars, serverVars
<1>15. StageOK(t)'
  BY <1>1, <1>2, <1>12, <1>14 DEF StageOK, Repo, Writers
<1>16. WritesIn(t)'
  <2>1. /\ tasks'[t].kind \in Writers /\ tasks'[t].locked /\ Repo(t)' = r
        /\ tasks'[t].seen = seen /\ tasks'[t].own = ids /\ tasks'[t].found = Over(ids, old)
        /\ tasks'[t].stage = "cache" /\ schemas' = schemas
    BY <1>2, <1>12, <1>14 DEF Repo
  <2>2. /\ Schema(Repo(t))'
        /\ \A k \in DOMAIN tasks'[t].seen :
            /\ k \in DOMAIN schemas'[Repo(t)'].metapointers
            /\ schemas'[Repo(t)'].metapointers[k] = tasks'[t].seen[k]
        /\ \A k \in DOMAIN tasks'[t].own : k \notin DOMAIN schemas'[Repo(t)'].metapointers
    BY <1>1, <1>2, <1>6, <1>7, <2>1 DEF WritesIn, Schema
  <2>3. \A k \in DOMAIN tasks'[t].found :
        \/ k \in DOMAIN tasks'[t].own /\ tasks'[t].own[k] = tasks'[t].found[k]
        \/ k \in DOMAIN tasks'[t].seen /\ tasks'[t].seen[k] = tasks'[t].found[k]
    BY <1>9, <1>10, <2>1
  <2> QED  BY <2>1, <2>2, <2>3 DEF WritesIn
<1>17. Apart(t, v)
  BY <1>1, <1>6, <1>7, <1>12 DEF IInv, Exclusive, Others, Apart
<1>18. /\ \A m \in Repos : ~Schema(m) => DOMAIN globalMetaPointersMap'[m] = {}
       /\ \A m \in Repos : \A k \in DOMAIN globalMetaPointersMap'[m] :
                Names(m, globalMetaPointersMap'[m][k], k)
       /\ globalMetaPointersMap' \in [Repos -> Tables]
  BY <1>14 DEF IInv, Types, MapNeedsSchema, Names
<1>19. \A u \in TaskIds : tasks'[u] # None /\ tasks'[u].kind = "Delete" /\ tasks'[u].locked =>
                DOMAIN globalMetaPointersMap'[tasks'[u].repository] = {}
  <2>1. tasks'[t].kind # "Delete"
    BY <1>2, <1>12, <1>14 DEF Writers
  <2> QED  BY <2>1, <1>14 DEF IInv, MapNeedsSchema, Repo
<1>20. \A i \in Nat, k \in MetaPointers : <<i, k>> \in v.rows => Names(v.repository, i, k)
  BY <1>1, <1>12 DEF Names
<1>21. \A k \in DOMAIN v.own :
            \/ Names(v.repository, v.own[k], k)
            \/ /\ identity[v.repository] <= v.own[k]
               /\ v.own[k] < identity'[v.repository]
               /\ \A j \in DOMAIN v.own : v.own[j] = v.own[k] => j = k
  <2>1. identity'[r] = first + n
    BY <1>2, <1>7 DEF IInv, Types
  <2> HIDE DEF new, first, n, r
  <2> QED  BY <2>1, <1>5, <1>6, <1>12 DEF first
<1>22. server = "up" /\ StageOK(t)' /\ WritesIn(t)'
  BY <1>1, <1>15, <1>16
<1>23. /\ UNCHANGED <<repositories, schemas, server, toConfigure, existing>>
       /\ repositoryStore' \in [names : SUBSET Repos, initialized : BOOLEAN]
       /\ identity' \in [Repos -> Nat] /\ \A m \in Repos : identity[m] <= identity'[m]
  BY <1>14
<1> HIDE DEF IInv, r, missing, seen, new, first, n
<1> QED  BY <1>11, <1>13, <1>23, <1>17, <1>18, <1>19, <1>20, <1>21, <1>22, TaskAndMapStep

\* Where no index is given out, what is known can only become less.
LEMMA NamesKept ==
    ASSUME Types, Unambiguous, identity' = identity,
           \A r \in Repos, i \in Nat, k \in MetaPointers : Names(r, i, k)' => Names(r, i, k)
    PROVE  Unambiguous'
BY DEF Types, Unambiguous

\* The commit: by Unambiguous, the index of a row that the foreign key found in the
\* table of the task is there for the metapointer of that row.
LEMMA CommitRowsKeeps ==
    ASSUME IInv, NEW t \in TaskIds, CommitRows(t)
    PROVE  IInv'
<1> DEFINE r == Repo(t)
           own == tasks[t].own
           table == schemas[r].metapointers
           all == Over(own, table)
           rows == tasks[t].rows \union schemas[r].rows
<1>1. /\ tasks[t] # None /\ tasks[t] \in Tasks /\ tasks[t].stage = "commit"
      /\ tasks[t].kind \in Writers /\ StageOK(t) /\ WritesIn(t) /\ server = "up"
  BY DEF CommitRows, IsAt, IInv, Types, TasksOK, Phases
<1>2. /\ tasks[t].locked /\ r \in Repos /\ Schema(r)
      /\ own \in Tables /\ DOMAIN own \intersect DOMAIN table = {}
      /\ schemas[r] \in Schemas /\ table \in Tables
      /\ rows \in SUBSET (Nat \X MetaPointers)
  BY <1>1 DEF StageOK, WritesIn, Tasks, Tables, IInv, Types, Schema, Schemas
<1>3. /\ all \in Tables
      /\ DOMAIN all = DOMAIN own \union DOMAIN table
      /\ \A k \in DOMAIN own : all[k] = own[k]
      /\ \A k \in DOMAIN table : all[k] = table[k]
  <2> HIDE DEF own, table, rows, r
  <2>1. own \in Tables /\ table \in Tables
    BY <1>2
  <2>2. /\ Over(own, table) \in Tables
        /\ DOMAIN Over(own, table) = DOMAIN own \union DOMAIN table
        /\ \A k \in DOMAIN own : Over(own, table)[k] = own[k]
        /\ \A k \in DOMAIN table \ DOMAIN own : Over(own, table)[k] = table[k]
    BY <2>1, TableIsOverlay
  <2> QED  BY <1>2, <2>2
<1>4. /\ schemas' = [schemas EXCEPT ![r] = [metapointers |-> all, rows |-> rows]]
      /\ tasks' = [tasks EXCEPT ![t] = None]
      /\ UNCHANGED <<repositories, identity, memoryVars, serverVars>>
  BY DEF CommitRows, Ends
<1> HIDE DEF all, rows
<1>5. /\ [metapointers |-> all, rows |-> rows] \in Schemas
      /\ [metapointers |-> all, rows |-> rows] # None
  BY <1>2, <1>3, SchemaParts
<1>6. /\ schemas'[r].metapointers = all /\ schemas'[r].rows = rows
      /\ \A n \in Repos \ {r} : schemas'[n] = schemas[n]
      /\ \A n \in Repos : Schema(n)' <=> Schema(n)
  BY <1>2, <1>4, <1>5 DEF IInv, Types, Schema
<1>7. /\ tasks'[t] = None /\ \A u \in TaskIds \ {t} : tasks'[u] = tasks[u]
      /\ repositories' = repositories /\ identity' = identity
      /\ globalMetaPointersMap' = globalMetaPointersMap /\ repositoryStore' = repositoryStore
      /\ server' = server /\ toConfigure' = toConfigure /\ existing' = existing
  BY <1>4 DEF IInv, Types, memoryVars, serverVars
<1>8. Types'
  BY <1>4, <1>5, <1>7 DEF IInv, Types
<1>9. Phases'
  BY <1>7 DEF IInv, Phases
<1>10. TasksOK'
  <2> SUFFICES ASSUME NEW u \in TaskIds, tasks'[u] # None
               PROVE  StageOK(u)' /\ WritesIn(u)'
    BY DEF TasksOK
  <2>1. u # t /\ tasks'[u] = tasks[u] /\ Repo(u)' = Repo(u)
    BY <1>7 DEF Repo
  <2>2. StageOK(u) /\ WritesIn(u)
    BY <2>1 DEF IInv, TasksOK
  <2>3. StageOK(u)'
    BY <2>1, <2>2 DEF StageOK
  <2>4. ASSUME tasks[u].kind \in Writers, tasks[u].locked
        PROVE  /\ schemas'[Repo(u)] # None
               /\ \A k \in DOMAIN tasks[u].seen :
                    /\ k \in DOMAIN schemas'[Repo(u)].metapointers
                    /\ schemas'[Repo(u)].metapointers[k] = tasks[u].seen[k]
               /\ \A k \in DOMAIN tasks[u].own : k \notin DOMAIN schemas'[Repo(u)].metapointers
    <3> DEFINE n == Repo(u)
    <3>1. /\ n \in Repos /\ schemas[n] # None
          /\ \A k \in DOMAIN tasks[u].seen :
                k \in DOMAIN schemas[n].metapointers
                /\ schemas[n].metapointers[k] = tasks[u].seen[k]
          /\ \A k \in DOMAIN tasks[u].own : k \notin DOMAIN schemas[n].metapointers
      BY <2>2, <2>4 DEF StageOK, WritesIn, Schema
    <3>2. n = r => DOMAIN tasks[u].own \intersect DOMAIN own = {}
      BY <1>1, <2>1 DEF IInv, Exclusive, Others
    <3> HIDE DEF n
    <3>3. schemas'[n] # None
      BY <1>6, <3>1 DEF Schema
    <3>4. CASE n = r
      <4>1. \A k \in DOMAIN tasks[u].seen : k \in DOMAIN table /\ table[k] = tasks[u].seen[k]
        BY <3>1, <3>4
      <4>2. \A k \in DOMAIN tasks[u].own : k \notin DOMAIN table
        BY <3>1, <3>4
      <4>3. schemas'[n].metapointers = all
        BY <1>6, <3>4
      <4> HIDE DEF table, own
      <4>4. \A k \in DOMAIN tasks[u].seen : k \in DOMAIN all /\ all[k] = tasks[u].seen[k]
        BY <1>3, <4>1
      <4>5. \A k \in DOMAIN tasks[u].own : k \notin DOMAIN all
        BY <1>3, <3>2, <3>4, <4>2
      <4> QED  BY <3>3, <4>3, <4>4, <4>5 DEF n
    <3>5. CASE n # r
      <4>1. schemas'[n] = schemas[n]
        BY <1>6, <3>1, <3>5
      <4> QED  BY <3>1, <3>3, <4>1 DEF n
    <3> QED  BY <3>4, <3>5
  <2>5. WritesIn(u)'
    BY <2>1, <2>2, <2>4 DEF WritesIn, Schema
  <2> QED  BY <2>3, <2>5
<1>11. Exclusive'
  BY <1>7 DEF IInv, Exclusive, Others, Repo
<1>12. SchemasNamed'
  BY <1>6, <1>7 DEF IInv, Types, SchemasNamed
<1>13. MapNeedsSchema'
  BY <1>6, <1>7 DEF IInv, MapNeedsSchema, Repo
<1>14. Unambiguous'
  <2>1. ASSUME NEW n \in Repos, NEW i \in Nat, NEW k \in MetaPointers, Names(n, i, k)'
        PROVE  Names(n, i, k)
    <3>1. CASE Schema(n)' /\ k \in DOMAIN schemas'[n].metapointers
                         /\ schemas'[n].metapointers[k] = i
      <4>1. CASE n = r
        <5>1. \/ k \in DOMAIN own /\ own[k] = i
              \/ k \in DOMAIN table /\ table[k] = i
          BY <1>3, <1>6, <3>1, <4>1
        <5> QED  BY <1>1, <1>2, <4>1, <5>1 DEF Names
      <4>2. CASE n # r
        BY <1>6, <3>1, <4>2 DEF Names
      <4> QED  BY <4>1, <4>2
    <3>2. CASE k \in DOMAIN globalMetaPointersMap'[n] /\ globalMetaPointersMap'[n][k] = i
      BY <1>7, <3>2 DEF Names
    <3>3. CASE \E u \in TaskIds : /\ tasks'[u] # None /\ Repo(u)' = n
                                  /\ \/ k \in DOMAIN tasks'[u].own /\ tasks'[u].own[k] = i
                                     \/ <<i, k>> \in tasks'[u].rows
      BY <1>7, <3>3 DEF Names, Repo
    <3> QED  BY <2>1, <3>1, <3>2, <3>3 DEF Names
  <2>2. identity' = identity
    BY <1>7
  <2> QED  BY <2>1, <2>2, NamesKept DEF IInv
<1>15. StoredAsGiven'
  <2> SUFFICES ASSUME NEW n \in Repos, Schema(n)', NEW row \in schemas'[n].rows
               PROVE  /\ row[2] \in DOMAIN schemas'[n].metapointers
                      /\ schemas'[n].metapointers[row[2]] = row[1]
    BY DEF StoredAsGiven
  <2>1. CASE n # r
    BY <2>1, <1>6 DEF IInv, StoredAsGiven
  <2>2. CASE n = r /\ row \in schemas[r].rows
    BY <2>2, <1>2, <1>3, <1>6 DEF IInv, StoredAsGiven
  <2>3. CASE n = r /\ row \in tasks[t].rows
    <3>1. PICK i \in Nat, k \in MetaPointers : row = <<i, k>>
      BY <2>3, <1>1 DEF Tasks
    <3>2. /\ row[1] = i /\ row[2] = k /\ Names(r, i, k)
      BY <1>1, <2>3, <3>1 DEF Names
    <3>3. i \in Range(tasks[t].seen) \union Range(own)
      BY <1>1, <2>3, <3>2 DEF WritesIn
    <3>4. CASE i \in Range(own)
      <4>1. PICK j \in DOMAIN own : own[j] = i
        BY <3>4 DEF Range
      <4>2. j \in MetaPointers /\ Names(r, i, j)
        BY <1>1, <1>2, <4>1, TableParts DEF Names
      <4>3. j = k
        BY <1>2, <3>2, <4>2 DEF IInv, Unambiguous
      <4> QED  BY <1>3, <1>6, <2>3, <3>2, <4>1, <4>3
    <3>5. CASE i \in Range(tasks[t].seen)
      <4>1. PICK j \in DOMAIN tasks[t].seen : tasks[t].seen[j] = i
        BY <3>5 DEF Range
      <4>2. j \in DOMAIN table /\ table[j] = i
        BY <1>1, <1>2, <4>1 DEF WritesIn
      <4>3. j \in MetaPointers /\ Names(r, i, j)
        BY <1>2, <4>2, TableParts DEF Names
      <4>4. j = k
        BY <1>2, <3>2, <4>3 DEF IInv, Unambiguous
      <4> QED  BY <1>3, <1>6, <2>3, <3>2, <4>2, <4>4
    <3> QED  BY <3>3, <3>4, <3>5
  <2> QED  BY <2>1, <2>2, <2>3, <1>6 DEF rows
<1> QED  BY <1>8, <1>9, <1>10, <1>11, <1>12, <1>13, <1>14, <1>15 DEF IInv

\* A schema appears where no task uses it, and disappears where only the task that
\* drops it does.
LEMMA SchemaStep ==
    ASSUME IInv, NEW r \in Repos, NEW s \in Schemas \union {None}, s \in {None, EmptySchema},
           schemas' = [schemas EXCEPT ![r] = s],
           repositories' \in SUBSET Repos,
           \A n \in Repos \ {r} : n \in repositories' <=> n \in repositories,
           s # None => r \in repositories',
           r \in repositories' => s # None \/ CreatedAlways(r),
           identity' \in [Repos -> Nat],
           \A n \in Repos \ {r} : identity'[n] = identity[n],
           globalMetaPointersMap' \in [Repos -> Tables],
           DOMAIN globalMetaPointersMap'[r] = {},
           \A n \in Repos \ {r} : globalMetaPointersMap'[n] = globalMetaPointersMap[n],
           repositoryStore' \in [names : SUBSET Repos, initialized : BOOLEAN],
           server' = server, toConfigure' \in SUBSET toConfigure,
           existing' \in SUBSET Repos,
           tasks' \in [TaskIds -> Tasks \union {None}],
           \A u \in TaskIds : tasks'[u] # None =>
                tasks'[u] = tasks[u] /\ (Repo(u) = r => ~tasks[u].locked)
    PROVE  IInv'
<1>1. /\ (schemas'[r] = s /\ \A n \in Repos \ {r} : schemas'[n] = schemas[n])
      /\ (Schema(r)' <=> s # None)
      /\ \A n \in Repos \ {r} : Schema(n)' <=> Schema(n)
  BY DEF IInv, Types, Schema
<1>2. \A u \in TaskIds : tasks'[u] # None =>
            /\ tasks[u] # None /\ tasks'[u] = tasks[u] /\ Repo(u)' = Repo(u)
            /\ StageOK(u) /\ WritesIn(u)
            /\ Repo(u) = r => ~tasks[u].locked
  BY DEF Repo, IInv, TasksOK
<1>3. DOMAIN EmptySchema.metapointers = {} /\ EmptySchema.rows = {}
  BY NoTable DEF EmptySchema
<1>4. Types'
  BY DEF IInv, Types
<1>5. Phases'
  BY <1>2 DEF IInv, Phases
<1>6. TasksOK'
  <2> SUFFICES ASSUME NEW u \in TaskIds, tasks'[u] # None
               PROVE  StageOK(u)' /\ WritesIn(u)'
    BY DEF TasksOK
  <2>1. StageOK(u)'
    BY <1>2 DEF StageOK
  <2>2. WritesIn(u)'
    <3>1. CASE tasks[u].kind \in Writers /\ tasks[u].locked
      <4>1. Repo(u) \in Repos \ {r}
        BY <3>1, <1>2 DEF StageOK
      <4>2. schemas'[Repo(u)] = schemas[Repo(u)] /\ (Schema(Repo(u))' <=> Schema(Repo(u)))
        BY <1>1, <1>2, <4>1
      <4> QED  BY <3>1, <1>2, <4>1, <4>2 DEF WritesIn
    <3>2. CASE ~(tasks[u].kind \in Writers /\ tasks[u].locked)
      BY <3>2, <1>2 DEF WritesIn
    <3> QED  BY <3>1, <3>2
  <2> QED  BY <2>1, <2>2
<1>7. Exclusive'
  BY <1>2 DEF IInv, Exclusive, Others
<1>8. SchemasNamed'
  BY <1>1 DEF IInv, Types, SchemasNamed
<1>9. MapNeedsSchema'
  <2>1. \A n \in Repos : ~Schema(n)' => DOMAIN globalMetaPointersMap'[n] = {}
    BY <1>1 DEF IInv, MapNeedsSchema
  <2>2. ASSUME NEW u \in TaskIds, tasks'[u] # None, tasks'[u].kind = "Delete", tasks'[u].locked
        PROVE  DOMAIN globalMetaPointersMap'[Repo(u)'] = {}
    <3>1. Repo(u) \in Repos \ {r}
      BY <1>2, <2>2 DEF StageOK
    <3> QED  BY <1>2, <2>2, <3>1 DEF IInv, MapNeedsSchema
  <2> QED  BY <2>1, <2>2 DEF MapNeedsSchema
<1>10. \A u \in TaskIds : tasks'[u] # None /\ Repo(u) = r =>
            DOMAIN tasks[u].own = {} /\ tasks[u].rows = {}
  BY <1>2 DEF WritesIn
<1>11. ASSUME NEW n \in Repos, NEW i \in Nat, NEW k \in MetaPointers, Names(n, i, k)'
       PROVE  n # r /\ Names(n, i, k)
  <2>1. CASE Schema(n)' /\ k \in DOMAIN schemas'[n].metapointers
                       /\ schemas'[n].metapointers[k] = i
    BY <2>1, <1>1, <1>3 DEF Names
  <2>2. CASE k \in DOMAIN globalMetaPointersMap'[n] /\ globalMetaPointersMap'[n][k] = i
    BY <2>2 DEF Names
  <2>3. ASSUME NEW u \in TaskIds, tasks'[u] # None, Repo(u)' = n,
               \/ k \in DOMAIN tasks'[u].own /\ tasks'[u].own[k] = i
               \/ <<i, k>> \in tasks'[u].rows
        PROVE  n # r /\ Names(n, i, k)
    BY <2>3, <1>2, <1>10 DEF Names
  <2> QED  BY <1>11, <2>1, <2>2, <2>3 DEF Names
<1>12. Unambiguous'
  <2>1. \A n \in Repos \ {r} : identity'[n] = identity[n]
    OBVIOUS
  <2> QED  BY <1>11, <2>1 DEF IInv, Unambiguous
<1>13. StoredAsGiven'
  BY <1>1, <1>3 DEF IInv, StoredAsGiven
<1> QED  BY <1>4, <1>5, <1>6, <1>7, <1>8, <1>9, <1>12, <1>13 DEF IInv

\* A new schema is a schema.
LEMMA EmptySchemaParts == EmptySchema \in Schemas /\ EmptySchema # None
BY NoTable, SchemaParts DEF EmptySchema

\* A repository is created: its indexes start again, and nothing knows old ones.
LEMMA CommitCreateKeeps ==
    ASSUME IInv, NEW t \in TaskIds, CommitCreate(t)
    PROVE  IInv'
<1> DEFINE r == Repo(t)
<1>1. /\ tasks[t] # None /\ tasks[t] \in Tasks /\ tasks[t].stage = "commit"
      /\ tasks[t].kind = "Create" /\ StageOK(t)
  BY DEF CommitCreate, IsAt, IInv, Types, TasksOK
<1>2. tasks[t].locked /\ r \in Repos
  BY <1>1 DEF StageOK, Writers
<1>3. ~Schema(r) /\ DOMAIN globalMetaPointersMap[r] = {}
  BY <1>2 DEF CommitCreate, createRepositoryInfo, IInv, SchemasNamed, MapNeedsSchema
<1>4. \A u \in TaskIds \ {t} : tasks[u] # None /\ Repo(u) = r => ~tasks[u].locked
  BY <1>1, <1>2 DEF IInv, Exclusive, Others, Writers
<1>5. /\ schemas' = [schemas EXCEPT ![r] = EmptySchema]
      /\ repositories' = repositories \union {r}
      /\ identity' = [identity EXCEPT ![r] = 1]
      /\ tasks' = [tasks EXCEPT ![t] = None]
      /\ UNCHANGED <<memoryVars, serverVars>>
  BY DEF CommitCreate, createRepositoryInfo, Ends
<1>6. /\ repositories' \in SUBSET Repos
      /\ \A n \in Repos \ {r} : n \in repositories' <=> n \in repositories
      /\ identity' \in [Repos -> Nat]
      /\ \A n \in Repos \ {r} : identity'[n] = identity[n]
  BY <1>2, <1>5 DEF IInv, Types
<1>7. /\ globalMetaPointersMap' \in [Repos -> Tables]
      /\ DOMAIN globalMetaPointersMap'[r] = {}
      /\ \A n \in Repos \ {r} : globalMetaPointersMap'[n] = globalMetaPointersMap[n]
      /\ repositoryStore' \in [names : SUBSET Repos, initialized : BOOLEAN]
      /\ server' = server /\ toConfigure' \in SUBSET toConfigure /\ existing' \in SUBSET Repos
  BY <1>3, <1>5 DEF IInv, Types, memoryVars, serverVars
<1>8. /\ tasks' \in [TaskIds -> Tasks \union {None}]
      /\ \A u \in TaskIds : tasks'[u] # None =>
                tasks'[u] = tasks[u] /\ (Repo(u) = r => ~tasks[u].locked)
  BY <1>4, <1>5 DEF IInv, Types
<1> HIDE DEF IInv, r
<1>9. r \in repositories'
  BY <1>5
<1> DEFINE s == EmptySchema
<1>10. s \in Schemas \union {None} /\ s \in {None, EmptySchema} /\ s # None
  BY EmptySchemaParts
<1>11. schemas' = [schemas EXCEPT ![r] = s]
  BY <1>5
<1> HIDE DEF s
<1> QED  BY <1>2, <1>6, <1>7, <1>8, <1>9, <1>10, <1>11, SchemaStep

\* A repository is deleted, with its name.
LEMMA CommitDeleteKeeps ==
    ASSUME IInv, NEW t \in TaskIds, CommitDelete(t)
    PROVE  IInv'
<1> DEFINE r == Repo(t)
<1>1. /\ tasks[t] # None /\ tasks[t] \in Tasks /\ tasks[t].stage = "commit"
      /\ tasks[t].kind = "Delete" /\ StageOK(t)
  BY DEF CommitDelete, IsAt, IInv, Types, TasksOK
<1>2. tasks[t].locked /\ r \in Repos
  BY <1>1 DEF StageOK, Writers
<1>3. DOMAIN globalMetaPointersMap[r] = {}
  BY <1>1, <1>2 DEF IInv, MapNeedsSchema
<1>4. \A u \in TaskIds \ {t} : tasks[u] # None /\ Repo(u) = r => ~tasks[u].locked
  BY <1>1, <1>2 DEF IInv, Exclusive, Others, Writers
<1>5. /\ schemas' = [schemas EXCEPT ![r] = None]
      /\ repositories' = repositories \ {r}
      /\ tasks' = [tasks EXCEPT ![t] = None]
      /\ UNCHANGED <<identity, memoryVars, serverVars>>
  BY DEF CommitDelete, deleteRepositoryInfo, Ends
<1>6. /\ repositories' \in SUBSET Repos
      /\ \A n \in Repos \ {r} : n \in repositories' <=> n \in repositories
      /\ identity' \in [Repos -> Nat]
      /\ \A n \in Repos \ {r} : identity'[n] = identity[n]
  BY <1>2, <1>5 DEF IInv, Types
<1>7. /\ globalMetaPointersMap' \in [Repos -> Tables]
      /\ DOMAIN globalMetaPointersMap'[r] = {}
      /\ \A n \in Repos \ {r} : globalMetaPointersMap'[n] = globalMetaPointersMap[n]
      /\ repositoryStore' \in [names : SUBSET Repos, initialized : BOOLEAN]
      /\ server' = server /\ toConfigure' \in SUBSET toConfigure /\ existing' \in SUBSET Repos
  BY <1>3, <1>5 DEF IInv, Types, memoryVars, serverVars
<1>8. /\ tasks' \in [TaskIds -> Tasks \union {None}]
      /\ \A u \in TaskIds : tasks'[u] # None =>
                tasks'[u] = tasks[u] /\ (Repo(u) = r => ~tasks[u].locked)
  BY <1>4, <1>5 DEF IInv, Types
<1>9. r \notin repositories'
  BY <1>5
<1> DEFINE s == None
<1>10. s \in Schemas \union {None} /\ s \in {None, EmptySchema} /\ s = None
  OBVIOUS
<1>11. schemas' = [schemas EXCEPT ![r] = s]
  BY <1>5
<1> HIDE DEF s, IInv, r
<1> QED  BY <1>2, <1>6, <1>7, <1>8, <1>9, <1>10, <1>11, SchemaStep

\* The start removes the schema of a repository that is created always.
LEMMA RemoveKeeps ==
    ASSUME IInv, NEW r \in Repos, Remove(r)
    PROVE  IInv'
<1>1. \A u \in TaskIds : tasks[u] = None
  BY DEF Remove, IInv, Phases, Types
<1>2. CreatedAlways(r)
  BY DEF Remove, CreatedAlways, IInv, Types
<1>3. /\ globalMetaPointersMap' = cleanGlobalPointersMap(globalMetaPointersMap, r)
      /\ repositories' = repositories /\ identity' = identity /\ tasks' = tasks
      /\ repositoryStore' = repositoryStore /\ server' = server
      /\ toConfigure' = toConfigure /\ existing' = existing \ {r}
  BY DEF Remove
<1>4. globalMetaPointersMap \in [Repos -> Tables]
  BY DEF IInv, Types
<1> DEFINE m == globalMetaPointersMap'
<1>5. m = cleanGlobalPointersMap(globalMetaPointersMap, r)
  BY <1>3
<1>6. /\ repositories' \in SUBSET Repos
      /\ \A n \in Repos \ {r} : n \in repositories' <=> n \in repositories
      /\ identity' \in [Repos -> Nat]
      /\ \A n \in Repos \ {r} : identity'[n] = identity[n]
      /\ repositoryStore' \in [names : SUBSET Repos, initialized : BOOLEAN]
      /\ server' = server /\ toConfigure' \in SUBSET toConfigure /\ existing' \in SUBSET Repos
  BY <1>3 DEF IInv, Types
<1>7. /\ tasks' \in [TaskIds -> Tasks \union {None}]
      /\ \A u \in TaskIds : tasks'[u] # None =>
                tasks'[u] = tasks[u] /\ (Repo(u) = r => ~tasks[u].locked)
  BY <1>1, <1>3 DEF IInv, Types
<1> DEFINE s == None
<1>8. s \in Schemas \union {None} /\ s \in {None, EmptySchema} /\ s = None
  OBVIOUS
<1>9. schemas' = [schemas EXCEPT ![r] = s]
  BY DEF Remove
<1> HIDE DEF s, m, IInv
<1>10. /\ m \in [Repos -> Tables]
       /\ DOMAIN m[r] = {}
       /\ \A n \in Repos \ {r} : m[n] = globalMetaPointersMap[n]
  BY <1>4, <1>5, CleanedMap
<1>11. /\ globalMetaPointersMap' \in [Repos -> Tables]
       /\ DOMAIN globalMetaPointersMap'[r] = {}
       /\ \A n \in Repos \ {r} : globalMetaPointersMap'[n] = globalMetaPointersMap[n]
  BY <1>10 DEF m
<1> QED  BY <1>2, <1>6, <1>7, <1>8, <1>9, <1>11, SchemaStep

\* The start creates a repository.
LEMMA CreateConfiguredKeeps ==
    ASSUME IInv, NEW r \in Repos, CreateConfigured(r)
    PROVE  IInv'
<1>1. \A u \in TaskIds : tasks[u] = None
  BY DEF CreateConfigured, IInv, Phases, Types
<1>2. /\ globalMetaPointersMap' = cleanGlobalPointersMap(globalMetaPointersMap, r)
      /\ repositories' = repositories \union {r} /\ identity' = [identity EXCEPT ![r] = 1]
      /\ tasks' = tasks /\ repositoryStore' = repositoryStore /\ server' = server
      /\ toConfigure' = toConfigure \ {r} /\ existing' = existing
  BY DEF CreateConfigured, createRepositoryInfo
<1>3. globalMetaPointersMap \in [Repos -> Tables]
  BY DEF IInv, Types
<1> DEFINE m == globalMetaPointersMap'
<1>4. m = cleanGlobalPointersMap(globalMetaPointersMap, r)
  BY <1>2
<1>5. /\ repositories' \in SUBSET Repos
      /\ \A n \in Repos \ {r} : n \in repositories' <=> n \in repositories
      /\ r \in repositories'
      /\ identity' \in [Repos -> Nat]
      /\ \A n \in Repos \ {r} : identity'[n] = identity[n]
      /\ repositoryStore' \in [names : SUBSET Repos, initialized : BOOLEAN]
      /\ server' = server /\ toConfigure' \in SUBSET toConfigure /\ existing' \in SUBSET Repos
  BY <1>2 DEF IInv, Types
<1>6. /\ tasks' \in [TaskIds -> Tasks \union {None}]
      /\ \A u \in TaskIds : tasks'[u] # None =>
                tasks'[u] = tasks[u] /\ (Repo(u) = r => ~tasks[u].locked)
  BY <1>1, <1>2 DEF IInv, Types
<1> DEFINE s == EmptySchema
<1>7. s \in Schemas \union {None} /\ s \in {None, EmptySchema} /\ s # None
  BY EmptySchemaParts
<1>8. schemas' = [schemas EXCEPT ![r] = s]
  BY DEF CreateConfigured
<1> HIDE DEF s, m, IInv
<1>9. /\ m \in [Repos -> Tables]
      /\ DOMAIN m[r] = {}
      /\ \A n \in Repos \ {r} : m[n] = globalMetaPointersMap[n]
  BY <1>3, <1>4, CleanedMap
<1>10. /\ globalMetaPointersMap' \in [Repos -> Tables]
       /\ DOMAIN globalMetaPointersMap'[r] = {}
       /\ \A n \in Repos \ {r} : globalMetaPointersMap'[n] = globalMetaPointersMap[n]
  BY <1>9 DEF m
<1> QED  BY <1>5, <1>6, <1>7, <1>8, <1>10, SchemaStep

\* A step without tasks and without changes in the database.
LEMMA IdleStep ==
    ASSUME IInv, \A u \in TaskIds : tasks'[u] = None, tasks' \in [TaskIds -> Tasks \union {None}],
           UNCHANGED databaseVars,
           globalMetaPointersMap' \in [Repos -> Tables],
           \A r \in Repos : ~Schema(r) => DOMAIN globalMetaPointersMap'[r] = {},
           \A r \in Repos : \A k \in DOMAIN globalMetaPointersMap'[r] :
                Names(r, globalMetaPointersMap'[r][k], k),
           repositoryStore' \in [names : SUBSET Repos, initialized : BOOLEAN],
           server' \in {"down", "starting", "up"},
           toConfigure' \in SUBSET DOMAIN creation, existing' \in SUBSET Repos,
           toConfigure' # {} => server' = "starting"
    PROVE  IInv'
<1>1. repositories' = repositories /\ schemas' = schemas /\ identity' = identity
  BY DEF databaseVars
<1>2. Types'
  BY <1>1 DEF IInv, Types
<1>3. Phases' /\ TasksOK' /\ Exclusive'
  BY DEF Phases, TasksOK, Exclusive
<1>4. SchemasNamed' /\ StoredAsGiven' /\ MapNeedsSchema'
  BY <1>1 DEF IInv, SchemasNamed, StoredAsGiven, MapNeedsSchema, Schema
<1>5. ASSUME NEW r \in Repos, NEW i \in Nat, NEW k \in MetaPointers, Names(r, i, k)'
      PROVE  Names(r, i, k)
  <2>1. CASE Schema(r)' /\ k \in DOMAIN schemas'[r].metapointers
                       /\ schemas'[r].metapointers[k] = i
    BY <2>1, <1>1 DEF Names, Schema
  <2>2. CASE k \in DOMAIN globalMetaPointersMap'[r] /\ globalMetaPointersMap'[r][k] = i
    BY <2>2
  <2> QED  BY <1>5, <2>1, <2>2 DEF Names
<1>6. Unambiguous'
  BY <1>1, <1>5, NamesKept DEF IInv
<1> QED  BY <1>2, <1>3, <1>4, <1>6 DEF IInv

\* Start and Ready load the metapointers of every repository.
LEMMA InitializeLoads ==
    ASSUME IInv, Initialize(repositories, {})
    PROVE  /\ globalMetaPointersMap' \in [Repos -> Tables]
           /\ \A r \in Repos : ~Schema(r) => DOMAIN globalMetaPointersMap'[r] = {}
           /\ \A r \in Repos : \A k \in DOMAIN globalMetaPointersMap'[r] :
                Names(r, globalMetaPointersMap'[r][k], k)
           /\ repositoryStore' \in [names : SUBSET Repos, initialized : BOOLEAN]
<1> DEFINE m == globalMetaPointersMap'
           names == repositories
           new == {}
<1>1. names \in SUBSET Repos /\ new \in SUBSET Repos
  BY DEF IInv, Types
<1>2. \A r \in names \ new : Schema(r)
  BY DEF Initialize
<1>3. m = Loaded(globalMetaPointersMap, names, new)
  BY DEF Initialize
<1> HIDE DEF m, names, new, IInv
<1>4. /\ m \in [Repos -> Tables]
      /\ \A r \in Repos : ~Schema(r) => DOMAIN m[r] = {}
      /\ \A r \in Repos : \A k \in DOMAIN m[r] : Names(r, m[r][k], k)
  BY <1>1, <1>2, <1>3, LoadedMap
<1>5. repositoryStore' \in [names : SUBSET Repos, initialized : BOOLEAN]
  BY <1>1 DEF Initialize, names
<1> QED  BY <1>4, <1>5 DEF m

\* The other steps of the start.
LEMMA SetupKeeps ==
    ASSUME IInv, Start \/ Ready \/ \E r \in Repos : Keep(r)
    PROVE  IInv'
<1>1. CASE Start
  <2>1. \A u \in TaskIds : tasks'[u] = None
    BY <1>1 DEF Start, IInv, Phases
  <2>2. /\ Initialize(repositories, {}) /\ UNCHANGED databaseVars
        /\ tasks' \in [TaskIds -> Tasks \union {None}]
        /\ server' = "starting" /\ toConfigure' = DOMAIN creation /\ existing' \in SUBSET Repos
    BY <1>1 DEF Start, IInv, Types
  <2> HIDE DEF IInv
  <2> QED  BY <2>1, <2>2, InitializeLoads, IdleStep
<1>2. CASE Ready
  <2>1. \A u \in TaskIds : tasks'[u] = None
    BY <1>2 DEF Ready, IInv, Phases
  <2>2. /\ Initialize(repositories, {}) /\ UNCHANGED databaseVars
        /\ tasks' \in [TaskIds -> Tasks \union {None}]
        /\ server' = "up" /\ toConfigure' = {} /\ existing' \in SUBSET Repos
    BY <1>2 DEF Ready, IInv, Types
  <2> HIDE DEF IInv
  <2> QED  BY <2>1, <2>2, InitializeLoads, IdleStep
<1>3. ASSUME NEW r \in Repos, Keep(r)
      PROVE  IInv'
  <2>1. \A u \in TaskIds : tasks'[u] = None
    BY <1>3 DEF Keep, IInv, Phases, Types
  <2>2. /\ UNCHANGED databaseVars
        /\ tasks' \in [TaskIds -> Tasks \union {None}]
        /\ server' = "starting" /\ toConfigure' \in SUBSET DOMAIN creation
        /\ existing' \in SUBSET Repos
        /\ repositoryStore' \in [names : SUBSET Repos, initialized : BOOLEAN]
    BY <1>3 DEF Keep, IInv, Types, Phases, memoryVars
  <2>3. /\ globalMetaPointersMap' \in [Repos -> Tables]
        /\ \A n \in Repos : ~Schema(n) => DOMAIN globalMetaPointersMap'[n] = {}
        /\ \A n \in Repos : \A k \in DOMAIN globalMetaPointersMap'[n] :
                Names(n, globalMetaPointersMap'[n][k], k)
    BY <1>3 DEF Keep, IInv, Types, memoryVars, MapNeedsSchema, Names
  <2> HIDE DEF IInv
  <2> QED  BY <2>1, <2>2, <2>3, IdleStep
<1> QED  BY <1>1, <1>2, <1>3

\* The end of the process: the map and the tasks are gone.
LEMMA StopKeeps ==
    ASSUME IInv, Stop
    PROVE  IInv'
<1>1. /\ \A u \in TaskIds : tasks'[u] = None
      /\ tasks' \in [TaskIds -> Tasks \union {None}]
      /\ UNCHANGED databaseVars
      /\ server' = "down" /\ toConfigure' = {} /\ existing' = {}
      /\ repositoryStore' \in [names : SUBSET Repos, initialized : BOOLEAN]
  BY DEF Stop, NotInitialized
<1>2. /\ globalMetaPointersMap' \in [Repos -> Tables]
      /\ \A r \in Repos : DOMAIN globalMetaPointersMap'[r] = {}
  BY NoTable DEF Stop
<1> HIDE DEF IInv
<1> QED  BY <1>1, <1>2, IdleStep

(***************************************************************************)
(* The invariant holds in every state.                                     *)
(***************************************************************************)
\* The invariant holds in an empty database.
LEMMA InitInv == Init => IInv
<1> SUFFICES ASSUME Init PROVE IInv
  OBVIOUS
<1> USE DEF Init
<1>1. Types
  BY NoTable DEF Types, NotInitialized
<1>2. Phases /\ TasksOK /\ Exclusive /\ SchemasNamed
  BY DEF Phases, TasksOK, Exclusive, SchemasNamed, Schema
<1>3. MapNeedsSchema /\ StoredAsGiven
  BY NoTable DEF MapNeedsSchema, StoredAsGiven, Schema
<1>4. Unambiguous
  <2>1. ASSUME NEW r \in Repos, NEW i \in Nat, NEW k \in MetaPointers
        PROVE  ~Names(r, i, k)
    BY NoTable DEF Names, Schema
  <2> QED  BY <2>1 DEF Unambiguous
<1> QED  BY <1>1, <1>2, <1>3, <1>4 DEF IInv

\* The tasks that the environment may begin.
LEMMA BeginsKeep ==
    ASSUME IInv, BeginJob \/ BeginSplitCommand
    PROVE  IInv'
<1>1. ASSUME NEW kind \in Writers, NEW r \in Repos, NEW keys \in Requested, Begin(0, kind, r, keys)
      PROVE  IInv'
  <2>1. /\ keys \in SUBSET MetaPointers /\ IsFiniteSet(keys)
        /\ kind \in {"Store", "Command", "Create", "Delete", "List"}
        /\ r \in Repos \union {None} /\ 0 \in TaskIds
    BY DEF Requested, Writers, TaskIds
  <2> HIDE DEF IInv
  <2> QED  BY <1>1, <2>1, BeginKeeps
<1>2. ASSUME NEW kind \in {"Create", "Delete"}, NEW r \in Repos, Begin(0, kind, r, {})
      PROVE  IInv'
  <2> DEFINE keys == {}
  <2>1. /\ keys \in SUBSET MetaPointers /\ IsFiniteSet(keys)
        /\ kind \in {"Store", "Command", "Create", "Delete", "List"}
        /\ r \in Repos \union {None} /\ 0 \in TaskIds /\ Begin(0, kind, r, keys)
    BY <1>2, FS_EmptySet DEF TaskIds
  <2> HIDE DEF IInv, keys
  <2> QED  BY <2>1, BeginKeeps
<1>3. ASSUME Begin(0, "List", None, {})
      PROVE  IInv'
  <2> DEFINE keys == {}
             kind == "List"
             r == None
  <2>1. /\ keys \in SUBSET MetaPointers /\ IsFiniteSet(keys)
        /\ kind \in {"Store", "Command", "Create", "Delete", "List"} /\ kind = "List"
        /\ r \in Repos \union {None} /\ 0 \in TaskIds /\ Begin(0, kind, r, keys)
    BY <1>3, FS_EmptySet DEF TaskIds
  <2> HIDE DEF IInv, keys, kind, r
  <2> QED  BY <2>1, BeginKeeps
<1>4. ASSUME NEW r \in Repos, NEW keys \in Requested, Begin(1, "Command", r, keys)
      PROVE  IInv'
  <2> DEFINE kind == "Command"
  <2>1. /\ keys \in SUBSET MetaPointers /\ IsFiniteSet(keys)
        /\ kind \in {"Store", "Command", "Create", "Delete", "List"} /\ kind = "Command"
        /\ r \in Repos \union {None} /\ 1 \in TaskIds /\ Begin(1, kind, r, keys)
    BY <1>4 DEF Requested, TaskIds
  <2> HIDE DEF IInv, kind
  <2> QED  BY <2>1, BeginKeeps
<1> QED  BY <1>1, <1>2, <1>3, <1>4 DEF BeginJob, BeginSplitCommand

\* Every step keeps the invariant.
LEMMA NextInv == IInv /\ [Next]_vars => IInv'
<1> SUFFICES ASSUME IInv, [Next]_vars PROVE IInv'
  OBVIOUS
<1>1. CASE Setup
  <2>1. ASSUME NEW r \in Repos, Remove(r)
        PROVE  IInv'
    BY <2>1, RemoveKeeps
  <2>2. ASSUME NEW r \in Repos, CreateConfigured(r)
        PROVE  IInv'
    BY <2>2, CreateConfiguredKeeps
  <2> QED  BY <1>1, <2>1, <2>2, SetupKeeps DEF Setup
<1>2. CASE Stop
  BY <1>2, StopKeeps
<1>3. CASE BeginJob \/ BeginSplitCommand
  BY <1>3, BeginsKeep
<1>4. ASSUME NEW t \in TaskIds, GetRepository(t) \/ Fail(t)
      PROVE  IInv'
  BY <1>4, GetRepositoryKeeps, FailKeeps
<1>5. ASSUME NEW t \in TaskIds, Write(t)
      PROVE  IInv'
  BY <1>5, ReadNodesKeeps, CollectKeeps, ObtainIndexesKeeps, CacheIndexesKeeps, UseIndexesKeeps,
     InsertRowsKeeps, CommitRowsKeeps DEF Write
<1>6. ASSUME NEW t \in TaskIds, Administer(t)
      PROVE  IInv'
  BY <1>6, CreateSchemaKeeps, DropSchemaKeeps, RefreshStoreKeeps, CommitCreateKeeps,
     CommitDeleteKeeps, CommitListKeeps DEF Administer
<1>7. CASE UNCHANGED vars
  <2>1. /\ repositories' = repositories /\ schemas' = schemas /\ identity' = identity
        /\ globalMetaPointersMap' = globalMetaPointersMap /\ repositoryStore' = repositoryStore
        /\ server' = server /\ toConfigure' = toConfigure /\ existing' = existing
        /\ tasks' = tasks
    BY <1>7 DEF vars, databaseVars, memoryVars, serverVars
  <2>2. Types' /\ Phases'
    BY <2>1 DEF IInv, Types, Phases
  <2>3. TasksOK'
    <3>1. \A t \in TaskIds : (StageOK(t)' <=> StageOK(t)) /\ (WritesIn(t)' <=> WritesIn(t))
      BY <2>1 DEF StageOK, WritesIn, Repo, Schema
    <3> QED  BY <2>1, <3>1 DEF IInv, TasksOK
  <2>4. Exclusive'
    BY <2>1 DEF IInv, Exclusive, Others, Repo
  <2>5. SchemasNamed' /\ MapNeedsSchema' /\ StoredAsGiven'
    BY <2>1 DEF IInv, SchemasNamed, MapNeedsSchema, StoredAsGiven, Schema, Repo
  <2>6. \A r \in Repos, i \in Nat, k \in MetaPointers : Names(r, i, k)' => Names(r, i, k)
    BY <2>1 DEF Names, Schema, Repo
  <2>7. Unambiguous'
    BY <2>1, <2>6, NamesKept DEF IInv
  <2> QED  BY <2>2, <2>3, <2>4, <2>5, <2>7 DEF IInv
<1> QED  BY <1>1, <1>2, <1>3, <1>4, <1>5, <1>6, <1>7 DEF Next

(***************************************************************************)
(* Theorems.                                                               *)
(***************************************************************************)
\* Every reachable state satisfies the invariant.
THEOREM Invariance == Spec => []IInv
BY InitInv, NextInv, PTL DEF Spec

\* Type correctness: indexes in a table and of uncommitted rows have been given out
\* by the sequence of the table (INSERT ... ON CONFLICT of toMetaPointerIDs()), and an
\* uncommitted metapointer is not in it.
THEOREM TypeCorrect == Spec => []TypeOK
<1>1. IInv => TypeOK
  <2> SUFFICES ASSUME IInv PROVE TypeOK
    OBVIOUS
  <2>1. ASSUME NEW r \in Repos, Schema(r)
        PROVE  /\ DOMAIN schemas[r].metapointers \subseteq MetaPointers
               /\ \A k \in DOMAIN schemas[r].metapointers :
                    schemas[r].metapointers[k] < identity[r]
    <3>1. schemas[r].metapointers \in Tables
      BY <2>1 DEF IInv, Types, Schema, Schemas, Tables
    <3>2. \A k \in DOMAIN schemas[r].metapointers : Names(r, schemas[r].metapointers[k], k)
      BY <2>1 DEF Names
    <3> QED  BY <3>1, <3>2, TableParts DEF IInv, Unambiguous
  <2>2. \A r \in Repos : DOMAIN globalMetaPointersMap[r] \subseteq MetaPointers
    BY TableParts DEF IInv, Types
  <2>3. ASSUME NEW t \in TaskIds, tasks[t] # None
        PROVE  /\ server = "up"
               /\ tasks[t].own # <<>> => Schema(Repo(t))
               /\ \A k \in DOMAIN tasks[t].own :
                    /\ tasks[t].own[k] < identity[Repo(t)]
                    /\ k \notin DOMAIN schemas[Repo(t)].metapointers
    <3> DEFINE own == tasks[t].own
    <3>1. server = "up" /\ StageOK(t) /\ WritesIn(t) /\ own \in Tables
      BY <2>3 DEF IInv, Phases, TasksOK, Types, Tasks
    <3>2. CASE DOMAIN own = {}
      <4>1. own = [k \in DOMAIN own |-> own[k]]
        BY <3>1, TableParts
      <4>2. own = <<>>
        BY <3>2, <4>1
      <4> QED  BY <3>1, <3>2, <4>2
    <3>3. CASE DOMAIN own # {}
      <4>1. tasks[t].kind \in Writers /\ Repo(t) \in Repos /\ Schema(Repo(t))
        BY <3>1, <3>3 DEF WritesIn, StageOK
      <4>2. \A k \in DOMAIN own : k \in MetaPointers /\ own[k] \in Nat /\ Names(Repo(t), own[k], k)
        BY <2>3, <3>1, TableParts DEF Names
      <4>3. \A k \in DOMAIN own : own[k] < identity[Repo(t)]
        BY <4>1, <4>2 DEF IInv, Unambiguous
      <4>4. \A k \in DOMAIN own : k \notin DOMAIN schemas[Repo(t)].metapointers
        BY <3>1, <3>3 DEF WritesIn
      <4> QED  BY <3>1, <4>1, <4>3, <4>4
    <3> QED  BY <3>2, <3>3
  <2>4. /\ repositories \subseteq Repos /\ identity \in [Repos -> Nat]
        /\ repositoryStore.names \subseteq Repos /\ server \in {"down", "starting", "up"}
    BY DEF IInv, Types
  <2> QED  BY <2>1, <2>2, <2>3, <2>4 DEF TypeOK
<1> QED  BY <1>1, Invariance, PTL

\* However repositories of the same name are created and deleted, transactions fail
\* after they filled the map, the server restarts and a split command runs beside the
\* queue: a stored node, property, reference or containment names the metapointer its
\* client gave (MetaPointers.ts, DbChanges.ts).
THEOREM RowsAreStoredAsGiven == Spec => []StoredAsGiven
<1>1. IInv => StoredAsGiven
  BY DEF IInv
<1> QED  BY <1>1, Invariance, PTL

\* globalMetaPointersMap never has, for one metapointer, the index that the table
\* of the repository has for another one.
THEOREM MapNamesRight == Spec => []CacheNamesRight
<1>1. IInv => CacheNamesRight
  <2> SUFFICES ASSUME IInv, NEW r \in Repos, Schema(r),
                      NEW k \in DOMAIN globalMetaPointersMap[r],
                      NEW j \in DOMAIN schemas[r].metapointers,
                      schemas[r].metapointers[j] = globalMetaPointersMap[r][k]
               PROVE  j = k
    BY DEF CacheNamesRight
  <2> DEFINE i == globalMetaPointersMap[r][k]
  <2>1. schemas[r].metapointers \in Tables /\ globalMetaPointersMap[r] \in Tables
    BY DEF IInv, Types, Schema, Schemas, Tables
  <2>2. i \in Nat /\ k \in MetaPointers /\ j \in MetaPointers
    BY <2>1, TableParts
  <2>3. Names(r, i, k) /\ Names(r, i, j)
    BY DEF Names
  <2> QED  BY <2>2, <2>3 DEF IInv, Unambiguous
<1> QED  BY <1>1, Invariance, PTL

\* RepositoryStore.initialize() reads the metapointers of every repository in the
\* table of repositories; each one has its schema, unless it is configured "always".
THEOREM OnlyAlwaysStopsTheStart == Spec => []CanStartUnlessAlways
<1>1. IInv => CanStartUnlessAlways
  BY DEF IInv, SchemasNamed, CanStartUnlessAlways
<1> QED  BY <1>1, Invariance, PTL
================================================================================
