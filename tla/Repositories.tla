------------------------------ MODULE Repositories ------------------------------
(***************************************************************************)
(* Repositories, and what the server remembers of them outside the         *)
(* database: the RepositoryStore (packages/dbadmin/src/database/           *)
(* Repositories.ts) and the global map of metapointers (packages/common/   *)
(* src/metapointers/MetaPointers.ts).  They are created, deleted and listed*)
(* by packages/dbadmin/src/controllers/DBAdminApi.ts, and created at the   *)
(* start of the server (packages/server/src/server.ts).                    *)
(*                                                                         *)
(* Each repository is a schema with a table of metapointers.  Nodes,       *)
(* properties, references and containments name a metapointer by its index *)
(* in that table, and the index they store comes from the global map.      *)
(*                                                                         *)
(* A task is a transaction in progress: task 0 is the job of the request   *)
(* queue, task 1 a split command that runs beside it.  A step is the       *)
(* JavaScript between two statements, or one statement.  What a task did in*)
(* memory stays when its transaction fails.  PostgreSQL is external: a     *)
(* transaction (TransactionMode of server.ts is serializable) sees what was*)
(* committed at its first statement and what it did itself, waits for the  *)
(* locks of another one, and fails where it would write what another one   *)
(* has committed meanwhile.                                                *)
(*                                                                         *)
(* An operator X_Fault is X with one plausible mistake, which the property *)
(* named beside it must notice.                                            *)
(***************************************************************************)
EXTENDS Naturals, FiniteSets, Functions, Overlay

CONSTANTS
    Repos,               \* names of repositories
    MetaPointers,        \* the metapointers clients use
    creation,            \* RepositoryConfig.create of the configured repositories
    None,                \* undefined
    MaxTasks,            \* bound: tasks begun
    MaxStarts            \* bound: starts of the server

ASSUME CreationAssumption ==
    DOMAIN creation \subseteq Repos /\ Range(creation) \subseteq
        {"always", "never", "if-not-exists"}

VARIABLES
    repositories,        \* the names in the table of repositories
    schemas,             \* the committed contents of each schema
    identity,            \* the next index of each table of metapointers
    globalMetaPointersMap,
    repositoryStore,     \* the names in it, and whether it is initialized
    server,              \* "down", "starting" or "up"
    toConfigure,         \* configured repositories the start still has to look at
    existing,            \* existingRepositoryNames of setupDatabase()
    tasks,
    begun,               \* number of tasks begun
    starts               \* number of starts

databaseVars == <<repositories, schemas, identity>>
memoryVars == <<globalMetaPointersMap, repositoryStore>>
serverVars == <<server, toConfigure, existing, starts>>
vars == <<databaseVars, memoryVars, serverVars, tasks, begun>>

TaskIds == {0, 1}
Writers == {"Store", "Command"}

\* A schema: the index of each metapointer in its table, and the rows that name
\* one, each with its index and the metapointer that the client gave.
Schemas ==
    [metapointers : UNION {[keys -> Nat] : keys \in SUBSET MetaPointers},
     rows : SUBSET (Nat \X MetaPointers)]

ASSUME NoneAssumption == None \notin Repos \union Schemas

EmptySchema == [metapointers |-> <<>>, rows |-> {}]

Schema(r) == schemas[r] # None

(***************************************************************************)
(* The global map and the store.                                           *)
(***************************************************************************)
\* StoredAsGiven: a map survives the repository it was made for.
cleanGlobalPointersMap_Fault(map, r) == map

cleanGlobalPointersMap(map, r) == [map EXCEPT ![r] = <<>>]

\* initializeGlobalMetaPointersMap() for the repositories in names; metapointers
\* that are in the map and not in the table stay.
Loaded(map, names, new) ==
    [r \in Repos |-> IF r \in names \ new THEN Over(schemas[r].metapointers, map[r])
                                          ELSE map[r]]

\* RepositoryStore.initialize(), where the transaction sees `names' in the table
\* of repositories, of which it created `new'.
Initialize(names, new) ==
    /\ \A r \in names \ new : Schema(r)
    /\ repositoryStore' = [names |-> names, initialized |-> TRUE]
    /\ globalMetaPointersMap' = Loaded(globalMetaPointersMap, names, new)

NotInitialized == [names |-> {}, initialized |-> FALSE]

\* RepositoryStore.getRepository(): the names it looks in, and the map after it.
getRepository ==
    IF repositoryStore.initialized
    THEN [names |-> repositoryStore.names, map |-> globalMetaPointersMap]
    ELSE [names |-> repositories, map |-> Loaded(globalMetaPointersMap, repositories, {})]

hasInGlobalMetaPointersMap(r, k) == k \in DOMAIN globalMetaPointersMap[r]

getFromGlobalMetaPointersMap(r, k) == globalMetaPointersMap[r][k]

insertInGlobalMetaPointersMap(r, found) ==
    globalMetaPointersMap' = [globalMetaPointersMap EXCEPT ![r] = Over(found, @)]

\* The functions on the table of repositories, in which a name is unique.
createRepositoryInfo(r) == r \notin repositories /\ repositories' = repositories \union {r}

deleteRepositoryInfo(r) == repositories' = repositories \ {r}

(***************************************************************************)
(* The start of the server.                                                *)
(***************************************************************************)
\* setupDatabase() up to its loop over the configured repositories.
Start ==
    /\ server = "down"
    /\ starts < MaxStarts
    /\ starts' = starts + 1
    /\ Initialize(repositories, {})
    /\ server' = "starting"
    /\ toConfigure' = DOMAIN creation
    /\ existing' = repositories
    /\ UNCHANGED <<databaseVars, tasks, begun>>

\* The repository exists, or is not to be created.
Keep(r) ==
    /\ r \in toConfigure
    /\ \/ creation[r] = "never"
       \/ creation[r] = "if-not-exists" /\ r \in existing
    /\ toConfigure' = toConfigure \ {r}
    /\ UNCHANGED <<databaseVars, memoryVars, server, existing, starts, tasks, begun>>

\* "always" removes the schema of a repository that exists.  It does not remove
\* its name from the table of repositories.
Remove(r) ==
    /\ r \in toConfigure \intersect existing
    /\ creation[r] = "always"
    /\ schemas' = [schemas EXCEPT ![r] = None]
    /\ existing' = existing \ {r}
    /\ globalMetaPointersMap' = cleanGlobalPointersMap(globalMetaPointersMap, r)
    /\ UNCHANGED <<repositories, identity, repositoryStore, server, toConfigure, starts,
                   tasks, begun>>

\* createRepository() of server.ts.  Names are unique in the table.
CreateConfigured(r) ==
    /\ r \in toConfigure \ existing
    /\ creation[r] # "never"
    /\ globalMetaPointersMap' = cleanGlobalPointersMap(globalMetaPointersMap, r)
    /\ createRepositoryInfo(r)
    /\ schemas' = [schemas EXCEPT ![r] = EmptySchema]
    /\ identity' = [identity EXCEPT ![r] = 1]
    /\ toConfigure' = toConfigure \ {r}
    /\ UNCHANGED <<repositoryStore, server, existing, starts, tasks, begun>>

\* server() refreshes the store and starts to listen.
Ready ==
    /\ server = "starting"
    /\ toConfigure = {}
    /\ Initialize(repositories, {})
    /\ server' = "up"
    /\ UNCHANGED <<databaseVars, toConfigure, existing, starts, tasks, begun>>

\* The process ends: it crashes, is stopped, or the start throws, which it does
\* where a statement fails.  Transactions in progress are rolled back.
Stop ==
    /\ server # "down"
    /\ server' = "down"
    /\ toConfigure' = {}
    /\ existing' = {}
    /\ tasks' = [t \in TaskIds |-> None]
    /\ globalMetaPointersMap' = [r \in Repos |-> <<>>]
    /\ repositoryStore' = NotInitialized
    /\ UNCHANGED <<databaseVars, starts, begun>>

(***************************************************************************)
(* Tasks.                                                                  *)
(***************************************************************************)
FirstStage(kind) ==
    CASE kind = "Command" -> "read"
      [] kind = "List" -> "refresh"
      [] OTHER -> "lookup"

\* `seen' is the table of metapointers the transaction sees, `own' its uncommitted
\* rows of it, `missing' the metapointers without an index, `found' the result of toMetaPointerIDs(), `rows'
\* the uncommitted rows that name a metapointer.
NewTask(kind, r, keys) ==
    [kind |-> kind, repository |-> r, keys |-> keys, stage |-> FirstStage(kind),
     seen |-> <<>>, own |-> <<>>, missing |-> {}, found |-> <<>>, rows |-> {}, locked |-> FALSE]

\* A request, or a command of a client that signed on to r once, whether or not
\* r still exists.
Begin(t, kind, r, keys) ==
    /\ server = "up"
    /\ tasks[t] = None
    /\ begun < MaxTasks
    /\ begun' = begun + 1
    /\ tasks' = [tasks EXCEPT ![t] = NewTask(kind, r, keys)]
    /\ UNCHANGED <<databaseVars, memoryVars, serverVars>>

\* The metapointers of the nodes and features of a request.
Requested == {keys \in SUBSET MetaPointers : keys # {} /\ IsFiniteSet(keys)}

BeginJob ==
    \/ \E kind \in Writers, r \in Repos, keys \in Requested :
            Begin(0, kind, r, keys)
    \/ \E kind \in {"Create", "Delete"}, r \in Repos : Begin(0, kind, r, {})
    \/ Begin(0, "List", None, {})

BeginSplitCommand ==
    \E r \in Repos, keys \in Requested : Begin(1, "Command", r, keys)

IsAt(t, stage) == tasks[t] # None /\ tasks[t].stage = stage

Repo(t) == tasks[t].repository

Goes(t, stage) == tasks' = [tasks EXCEPT ![t].stage = stage]

Ends(t) == tasks' = [tasks EXCEPT ![t] = None]

\* The other task in progress on the same repository.
Others(t) == {u \in TaskIds \ {t} : tasks[u] # None /\ Repo(u) = Repo(t)}

\* Writers share the tables of a schema; its creation and removal do not.
Free(t) ==
    \A u \in Others(t) :
        tasks[u].locked => {tasks[u].kind, tasks[t].kind} \subseteq Writers

\* The transaction fails: its statement does, for any reason, or the code
\* throws, or the commit fails.
Fail(t) ==
    /\ tasks[t] # None
    /\ Ends(t)
    /\ repositoryStore' = IF tasks[t].stage = "refresh" THEN NotInitialized
                                                        ELSE repositoryStore
    /\ UNCHANGED <<databaseVars, globalMetaPointersMap, serverVars, begun>>

\* getRepositoryData() of a request, and what follows in memory.  A request for
\* an unknown repository, or to create a known one, is refused.
GetRepository(t) ==
    /\ IsAt(t, "lookup")
    /\ LET r == Repo(t)
           kind == tasks[t].kind
           found == r \in getRepository.names
           map == getRepository.map
       IN  /\ repositoryStore.initialized \/ \A n \in repositories : Schema(n)
           /\ repositoryStore' = [names |-> getRepository.names, initialized |-> TRUE]
           /\ globalMetaPointersMap' =
                IF kind = "Create" /\ ~found THEN cleanGlobalPointersMap(map, r) ELSE map
           /\ CASE kind = "Store" /\ found -> Goes(t, "read")
                [] kind = "Delete" /\ found -> Goes(t, "drop")
                [] kind = "Create" /\ ~found -> Goes(t, "schema")
                [] OTHER -> Ends(t)
    /\ UNCHANGED <<databaseVars, serverVars, begun>>

(***************************************************************************)
(* A task that writes nodes.                                               *)
(***************************************************************************)
\* The nodes in the database that a request is checked against.  A transaction
\* that read a table keeps it from being dropped.
ReadNodes(t) ==
    /\ IsAt(t, "read")
    /\ Schema(Repo(t))
    /\ Free(t)
    /\ tasks' = [tasks EXCEPT ![t].seen = schemas[Repo(t)].metapointers,
                              ![t].locked = TRUE,
                              ![t].stage = "collect"]
    /\ UNCHANGED <<databaseVars, memoryVars, serverVars, begun>>

\* considerAddingMetaPointer() for each metapointer of the nodes.
Collect(t) ==
    /\ IsAt(t, "collect")
    /\ LET missing == {k \in tasks[t].keys : ~hasInGlobalMetaPointersMap(Repo(t), k)} IN
       tasks' = [tasks EXCEPT ![t].missing = missing,
                              ![t].stage = IF missing = {} THEN "use" ELSE "obtain"]
    /\ UNCHANGED <<databaseVars, memoryVars, serverVars, begun>>

Indexes(keys, first, n) ==
    {f \in [keys -> first .. first + n - 1] : \A j, k \in keys : f[j] = f[k] => j = k}

\* The statement toMetaPointerIDs() where `new' are the metapointers it inserts.
\* Each one it was given takes an index, also if it is in the table; indexes
\* are not given back.  It waits for a transaction that inserts the same ones.
ToMetaPointerIDs(t, new) ==
    LET r == Repo(t)
        missing == tasks[t].missing
        n == Cardinality(missing)
    IN  /\ \A u \in Others(t) : DOMAIN tasks[u].own \intersect missing = {}
        /\ identity' = [identity EXCEPT ![r] = @ + n]
        /\ \E ids \in Indexes(new, identity[r], n) :
                tasks' = [tasks EXCEPT
                    ![t].own = ids,
                    ![t].found = Over(ids, Restrict(tasks[t].seen, missing \ new)),
                    ![t].stage = "cache"]
        /\ UNCHANGED <<repositories, schemas, memoryVars, serverVars, begun>>

\* TypeOK: ON CONFLICT and UNIQUE are left out.
ObtainIndexes_Fault(t) ==
    /\ IsAt(t, "obtain")
    /\ ToMetaPointerIDs(t, tasks[t].missing)

\* It fails for a metapointer that was committed since the first statement.
ObtainIndexes(t) ==
    /\ IsAt(t, "obtain")
    /\ LET new == tasks[t].missing \ DOMAIN tasks[t].seen IN
       /\ new \intersect DOMAIN schemas[Repo(t)].metapointers = {}
       /\ ToMetaPointerIDs(t, new)

\* CacheNamesRight: the rows of the result are taken for the metapointers in the
\* order of the request, and they come in any order.
CacheIndexes_Fault(t) ==
    /\ IsAt(t, "cache")
    /\ \E f \in Indexes(tasks[t].missing, 1, identity[Repo(t)]) :
        /\ Range(f) = Range(tasks[t].found)
        /\ globalMetaPointersMap' = [globalMetaPointersMap EXCEPT ![Repo(t)] = Over(f, @)]
    /\ Goes(t, "use")
    /\ UNCHANGED <<databaseVars, repositoryStore, serverVars, begun>>

\* For each row of the result, and before the commit.
CacheIndexes(t) ==
    /\ IsAt(t, "cache")
    /\ insertInGlobalMetaPointersMap(Repo(t), tasks[t].found)
    /\ Goes(t, "use")
    /\ UNCHANGED <<databaseVars, repositoryStore, serverVars, begun>>

\* forMetaPointer() for each metapointer throws if it is not in the map.
UseIndexes(t) ==
    /\ IsAt(t, "use")
    /\ \A k \in tasks[t].keys : hasInGlobalMetaPointersMap(Repo(t), k)
    /\ tasks' = [tasks EXCEPT
            ![t].rows = {<<getFromGlobalMetaPointersMap(Repo(t), k), k>> : k \in tasks[t].keys},
            ![t].stage = "execute"]
    /\ UNCHANGED <<databaseVars, memoryVars, serverVars, begun>>

\* The statements that insert nodes and features.  An index that the transaction
\* does not see in the table of metapointers violates a foreign key.
InsertRows(t) ==
    /\ IsAt(t, "execute")
    /\ \A row \in tasks[t].rows :
            row[1] \in Range(tasks[t].seen) \union Range(tasks[t].own)
    /\ Goes(t, "commit")
    /\ UNCHANGED <<databaseVars, memoryVars, serverVars, begun>>

CommitRows(t) ==
    /\ IsAt(t, "commit")
    /\ tasks[t].kind \in Writers
    /\ schemas' = [schemas EXCEPT
            ![Repo(t)] = [metapointers |-> Over(tasks[t].own, @.metapointers),
                          rows |-> tasks[t].rows \union @.rows]]
    /\ Ends(t)
    /\ UNCHANGED <<repositories, identity, memoryVars, serverVars, begun>>

(***************************************************************************)
(* Tasks that create, delete and list repositories.                        *)
(***************************************************************************)
\* The schema, and the name in the table of repositories, where it is unique.
CreateSchema(t) ==
    /\ IsAt(t, "schema")
    /\ Free(t)
    /\ Repo(t) \notin repositories
    /\ tasks' = [tasks EXCEPT ![t].locked = TRUE, ![t].stage = "refresh"]
    /\ UNCHANGED <<databaseVars, memoryVars, serverVars, begun>>

DropSchema(t) ==
    /\ IsAt(t, "drop")
    /\ Free(t)
    /\ globalMetaPointersMap' = cleanGlobalPointersMap(globalMetaPointersMap, Repo(t))
    /\ tasks' = [tasks EXCEPT ![t].locked = TRUE, ![t].stage = "refresh"]
    /\ UNCHANGED <<databaseVars, repositoryStore, serverVars, begun>>

\* RepositoryStore.refresh(), in the transaction and before its commit.
RefreshStore(t) ==
    /\ IsAt(t, "refresh")
    /\ LET r == {Repo(t)} IN
       CASE tasks[t].kind = "Create" -> Initialize(repositories \union r, r)
         [] tasks[t].kind = "Delete" -> Initialize(repositories \ r, {})
         [] tasks[t].kind = "List" -> Initialize(repositories, {})
    /\ Goes(t, "commit")
    /\ UNCHANGED <<databaseVars, serverVars, begun>>

CommitCreate(t) ==
    /\ IsAt(t, "commit")
    /\ tasks[t].kind = "Create"
    /\ createRepositoryInfo(Repo(t))
    /\ schemas' = [schemas EXCEPT ![Repo(t)] = EmptySchema]
    /\ identity' = [identity EXCEPT ![Repo(t)] = 1]
    /\ Ends(t)
    /\ UNCHANGED <<memoryVars, serverVars, begun>>

\* CanStartUnlessAlways: the name stays in the table of repositories.
CommitDelete_Fault(t) ==
    /\ IsAt(t, "commit")
    /\ tasks[t].kind = "Delete"
    /\ schemas' = [schemas EXCEPT ![Repo(t)] = None]
    /\ Ends(t)
    /\ UNCHANGED <<repositories, identity, memoryVars, serverVars, begun>>

CommitDelete(t) ==
    /\ IsAt(t, "commit")
    /\ tasks[t].kind = "Delete"
    /\ deleteRepositoryInfo(Repo(t))
    /\ schemas' = [schemas EXCEPT ![Repo(t)] = None]
    /\ Ends(t)
    /\ UNCHANGED <<identity, memoryVars, serverVars, begun>>

CommitList(t) ==
    /\ IsAt(t, "commit")
    /\ tasks[t].kind = "List"
    /\ Ends(t)
    /\ UNCHANGED <<databaseVars, memoryVars, serverVars, begun>>

(***************************************************************************)
(* The specification.                                                      *)
(***************************************************************************)
\* An empty database and a server that is not started yet.
Init ==
    /\ repositories = {}
    /\ schemas = [r \in Repos |-> None]
    /\ identity = [r \in Repos |-> 1]
    /\ globalMetaPointersMap = [r \in Repos |-> <<>>]
    /\ repositoryStore = NotInitialized
    /\ server = "down"
    /\ toConfigure = {}
    /\ existing = {}
    /\ tasks = [t \in TaskIds |-> None]
    /\ begun = 0
    /\ starts = 0

Setup ==
    \/ Start \/ Ready
    \/ \E r \in Repos : Keep(r) \/ Remove(r) \/ CreateConfigured(r)

Write(t) ==
    \/ ReadNodes(t) \/ Collect(t) \/ ObtainIndexes(t) \/ CacheIndexes(t)
    \/ UseIndexes(t) \/ InsertRows(t) \/ CommitRows(t)

Administer(t) ==
    \/ CreateSchema(t) \/ DropSchema(t) \/ RefreshStore(t)
    \/ CommitCreate(t) \/ CommitDelete(t) \/ CommitList(t)

Next ==
    \/ Setup
    \/ Stop
    \/ BeginJob
    \/ BeginSplitCommand
    \/ \E t \in TaskIds : GetRepository(t) \/ Write(t) \/ Administer(t) \/ Fail(t)

Spec == Init /\ [][Next]_vars

(***************************************************************************)
(* Properties.                                                             *)
(***************************************************************************)
CreatedAlways(r) == r \in DOMAIN creation /\ creation[r] = "always"

\* The types of the variables.  Indexes in a table and those of uncommitted rows
\* have been given out, and an uncommitted metapointer is not in the table.
TypeOK ==
    /\ repositories \subseteq Repos
    /\ identity \in [Repos -> Nat]
    /\ \A r \in Repos : Schema(r) =>
        /\ DOMAIN schemas[r].metapointers \subseteq MetaPointers
        /\ \A k \in DOMAIN schemas[r].metapointers : schemas[r].metapointers[k] < identity[r]
    /\ \A r \in Repos : DOMAIN globalMetaPointersMap[r] \subseteq MetaPointers
    /\ repositoryStore.names \subseteq Repos
    /\ server \in {"down", "starting", "up"}
    /\ \A t \in TaskIds : tasks[t] # None =>
        /\ server = "up"
        /\ tasks[t].own # <<>> => Schema(Repo(t))
        /\ \A k \in DOMAIN tasks[t].own :
            /\ tasks[t].own[k] < identity[Repo(t)]
            /\ k \notin DOMAIN schemas[Repo(t)].metapointers

\* A row that names a metapointer names the one its client gave, over every
\* creation and deletion of repositories with the same name, every failed
\* transaction and restart, and with a split command beside the queue.
StoredAsGiven ==
    \A r \in Repos : Schema(r) =>
        \A row \in schemas[r].rows :
            /\ row[2] \in DOMAIN schemas[r].metapointers
            /\ schemas[r].metapointers[row[2]] = row[1]

\* The map never has the index of another metapointer of the repository, not even
\* one that is used in a transaction that may still fail.
CacheNamesRight ==
    \A r \in Repos : Schema(r) =>
        \A k \in DOMAIN globalMetaPointersMap[r], j \in DOMAIN schemas[r].metapointers :
            schemas[r].metapointers[j] = globalMetaPointersMap[r][k] => j = k

\* The configuration has "the list of repositories to be created at start", each with
\* "always", "never" or "if-not-exists" (configuration.md), and to create one always the
\* start will "remove the repository first" (server.ts).  A server that is down can be
\* started again: the start reads the metapointers of every repository in the table of
\* repositories, so each must have its schema.
CanStart == server = "down" => \A r \in repositories : Schema(r)

\* The same, but for the repositories that are configured to be created always:
\* whatever was created, deleted, interrupted and started in between, only the
\* start itself can make the next start impossible.
CanStartUnlessAlways ==
    server = "down" => \A r \in repositories : Schema(r) \/ CreatedAlways(r)

\* "Map from the calculated metapointer id [...] to the id of the metapointer in the
\* metapointer table in the database" (MetaPointers.ts): when no transaction is in
\* progress, an index in the map is in the table.
CachedIndexExists ==
    (\A t \in TaskIds : tasks[t] = None) =>
        \A r \in repositories : Schema(r) =>
            \A k \in DOMAIN globalMetaPointersMap[r] :
                k \in DOMAIN schemas[r].metapointers
================================================================================
