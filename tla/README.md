# A TLA+ model of the LionWeb repository server

The LionWeb repository keeps models (trees of nodes, grouped in partitions) in PostgreSQL and
serves them in two ways: the **bulk API**, HTTP requests that store and retrieve chunks of nodes,
and the **delta protocol**, a websocket protocol in which clients send commands that change nodes
and get the events caused by the commands of others. A repository may keep its **history**. This
directory holds TLA+ modules for the parts of the server that change state, TLC runs that check
them on small instances, and proofs that TLAPS checks for every instance.

All paths below are relative to `src/packages/` unless they begin with `src/`.

## 1. Inventory

| Component | State | Operations | What makes it correct | Model |
|---|---|---|---|---|
| Request queue (`common/src/apiutil/RequestQueue.ts`, `runWithTry.ts`, `server/src/RunTry.ts`) | a list of jobs, a drain loop suspended in an `await` | `add`, continuation of the loop | one job at a time, in order of arrival, each once, none forgotten | `RequestQueue`, `SerialExecution` |
| Participations (`delta-server/src/delta/participation/participations.ts`) | map websocket → participation, old participations, id counter; per participation: websocket, id, status, repository, sequence number, subscriptions | new, delete, reconnect, start, number an event | an event reaches the right client once; ids are unique; numbers tell a client what it lost | `Participations` |
| Delta processor (`delta-server/src/delta/DeltaProcessor.ts`, `queries/RequestFunctions.ts`, `commands/SplitCommand.ts`, `CompositeEventBuffer.ts`, callbacks in `server/src/server.ts`) | tasks, stack of event buffers, unfinished split commands | message and close callbacks, requests, commands, events, composite and split commands | clients that are told of changes have what the database has; buffers are balanced; the queue drains; the server stays up | `DeltaServer` |
| Delta commands (`delta-server/src/delta/commands/`, `common/src/queries/`) | node, containment, property and reference tables | 18 commands on partitions, children and annotations; 7 on properties, references and classifiers | the parent columns and the lists of children describe one tree; a command does what its name says | `NodeTree`, `ModelTree`; `FeatureCommands` |
| Bulk API (`bulkapi/`) | the same tables | store, retrieve, create, delete and list partitions | store does what the chunk means, to the nodes in it and to those it does not mention | `BulkStore` |
| Repositories and metapointers (`dbadmin/`, `common/src/metapointers/`) | schemas in the database, `RepositoryStore`, the global metapointer cache | create, delete, list repositories; create them at the start; obtain indexes | the caches agree with what was committed; the server can be started | `Repositories` |
| History (`history/`, `dbadmin/src/tools/init-schema-with-history.ts`) | tables with `from_version`, `to_version` | the triggers of the views; queries as of a version | a version, once made, never changes; each command makes one | `VersionedTables`, `FeatureCommands`, `RepositoryHistory` |
| Additional API, bulk import (`additionalapi/`) | the same tables | import in steps, tree queries | an import, wherever it is interrupted, leaves nothing dangling and the old nodes as they were | `BulkImport` |
| Inspection, languages (`inspection/`, `languages/`) | none that a request changes | read-only queries | – | not modelled |
| Clients (`client/`, `delta-client/`) | a websocket, a state nothing reads | wrappers | – | not modelled |
| Shared types, protocol definitions, logging, configuration | none | – | – | not modelled |

### How they interact

The server is one Node process. Every HTTP request and every websocket message becomes a job of
one global `requestQueue`; `add()` runs the drain loop of the queue in the caller when the queue
was empty. A job for a message is `processDelta(socket, message)`: it looks up the participation of
the websocket, validates the message, runs a database transaction, and sends events to other
participations. Three things happen outside the queue: a websocket connects, it closes, and a
*split command* (sent in chunks) is executed when its last chunk is there, because `processDelta`
calls itself without `await`.

Events sent during a *composite command* are buffered on a stack and sent as one composite event.
The stack is a field of the one processor that all clients share. Each participation numbers the
events sent to it; a participation outlives its websocket, and a `ReconnectRequest` moves it to
a new one and answers with the last number sent.

### What is hard here

* the interleaving of the drain loop with new jobs; of `onclose` with the task of that client;
  of a split command with anything else;
* the shared buffer stack, entered by whatever sends events while a composite is being processed;
* numbering at the moment of sending, over reconnects and nested composites;
* state kept outside the transaction that fails (participations, caches);
* two representations of one tree, changed by 18 hand-written sequences of statements;
* a chunk that is stored concerns nodes it does not mention: their changes are derived from
  differences;
* versions of rows, kept by triggers that the commands know nothing of;
* an import that is not one transaction.

`PROJECT.json` lists these hazards at their lines. Those without a property say why.

## 2. Modules

### RequestQueue, SerialExecution, RequestQueueProofs

`RequestQueue` has the steps between two awaits: `Add(j)` up to the await of the job it starts,
`Settle(j)` (the promise of a job resolves), `Resume(j)` (the loop dequeues and starts the next).
Jobs never reject: `runWithTry` and `runWithTryDelta` catch everything. `items` is
`BaseQueue.items`; `submitted` and `started` are history variables. `SerialExecution` is the
promise of the class comment: requests are executed one at a time in order of arrival.
`RequestQueue` refines it with `order <- submitted`, `executing <- ` the jobs some loop awaits, and
`completed <-` the number of jobs that left the queue.

### Participations, DeltaServer, DeltaServerProofs

`Participations` has the operations of `ParticipationAdmin` and `Participation`; a participation is
named by the websocket it was made for. `DeltaServer` extends it and composes it with the callbacks,
the queue and the processor. `tasks[0]` is the job of the queue, `tasks[d]` are completed split
commands. Each task has a list of messages still to process (the parts of a composite, then the
marker of its end) and a stage:

| stage | what comes next | code |
|---|---|---|
| `ready` | look up the participation, validate, dispatch | `processDelta` up to the first await |
| `transaction` | one step: what the transaction does to the database and to memory; it commits or fails | the callback of `dbConnection.tx` |
| `answer` | response, or numbering and delivery of events | after `await func(...)` |
| `failed` | error event or error response | the `catch` of `processDelta` |

Actions of other clients, `onclose` and other tasks may come between any two stages. The repository
is one version number per partition: a command that changes a partition takes it to the next
version, contents and events carry versions. What the client of a participation can conclude is
in `client[p]`: its copy of each partition (`view`), versions it skipped (`missing`), events it got
twice, out of order or with a wrong number (`faults`), whether an event was handed to its closed
websocket (`lost`), and whether its participation was ever without a websocket (`away`).

Modelling decisions, all of which allow more behaviours than the code or say what is left out:

* Node runs microtasks before the next macrotask; the model lets any step of any task and any
  callback come next.
* A message handed to an open websocket counts as received. One handed to a websocket that the
  client or the server closed is lost.
* A repository that does not exist is one in which every transaction may fail (`TransactionFails`);
  so is a command that the nodes in the database do not allow, a database failure, and the check
  `validateProperTree` of a split command.
* A message is one that `JSON.parse` takes (`server.ts:219` throws for another). A message of an unknown kind,
  or one that `DeltaValidator` refuses, is one of kind `"Invalid"`.
* A response goes to its client at once; the code buffers one of a request inside a composite
  (`DeltaProcessor.ts:314-316`), but the parts of a composite are commands by their type
  (`delta-shared/src/types/Command.ts:356`), and no property is about responses.
* The contents that a subscriber gets are the whole partition; what a client makes of nodes that are cut
  at a depth (`DeltaProcessor.ts:376-386`) is left out.
* Left out: `ListPartitions`, `GetAvailableIds`, the administration requests and the monitor, which
  change no state of the delta server, and `additionalInfos`.

`Messages` are the messages clients may send, `Parts` the commands in composite and split commands
among them, which may be composites again; `MessagesAssumption` is what `DeltaValidator` makes
sure of before a message is processed, and that only commands that add nodes can be split.
`MCDeltaServer` gives both to each run.

### NodeTree, ModelTree, NodeTreeLemmas, NodeTreeProofs

`NodeTree` has the tables as functions: `nodes[n]` is the parent column and the annotations
column of the row of `n`, `containments[<<n, c>>]` the children listed in a containment. A step is
the committed transaction of one command. Statements are applied in the order in which
`DbChanges.createPostgresQuery` emits them. JavaScript's `splice` is modelled with all its
clamping (`Splice`), because the handlers pass it indexes they did not check (a negative
`newIndex`, an index beyond the end). Chunks have one node, or a node with a child or an annotation.

Many handlers accept commands that do not describe a change of a tree: a move of a node below
itself, a replacement of a node by a node below it. Such a command is *stray*. The model takes it
(`Execute(..., FALSE)`) and ends there; `NoDanglingRows` and `TypeOK` hold after it too. The two
commands that never do what they say (see findings) are stray for any arguments.

`ModelTree` is the abstract specification: ordered trees given by the lists that clients see, and the
seven kinds of change that the names of the commands promise. `ImplementsModelTree` is the
refinement, with `lists` computed from the tables.

`Overlay` holds the one operator on functions that several modules need. `Induction` has what the
proofs about `NodeTree`, `DeltaServer` and `BulkImport` need of the natural numbers. `NodeTreeLemmas` is
about lists, subtrees and forests, and about the two tables and the statements that change them,
`NodeTreeProofs` about the commands.

### Repositories, RepositoriesProofs

`Repositories` models what the server keeps outside the database about the repositories in it:
`repositoryStore` and the global map from metapointers to their indexes. A schema is its table of
metapointers and the rows that name a metapointer by index; beside the index such a row has the
metapointer that the client gave, which is a history variable. `identity[r]` is the generator of
indexes of the table, which a new schema starts again at 1. Task 0 is the job of the queue, task 1 a
split command beside it. A step of a task is one statement or the JavaScript between two:

| stage | step | code |
|---|---|---|
| `lookup` | `GetRepository` | `getRepositoryData`, and the map is cleaned for a repository to create |
| `read` | `ReadNodes` | the first query of a command or of a store |
| `collect` | `Collect` | `considerAddingMetaPointer` |
| `obtain`, `cache` | `ObtainIndexes`, `CacheIndexes` | the two halves of `obtainIndexes`, before and after its await |
| `use`, `execute` | `UseIndexes`, `InsertRows` | `forMetaPointer` while the SQL text is made; the text is executed |
| `schema`, `drop`, `refresh` | `CreateSchema`, `DropSchema`, `RefreshStore` | the statements of `createRepository` and `deleteRepository` |
| `commit` | `CommitRows`, `CommitCreate`, `CommitDelete`, `CommitList` | `dbConnection.tx` returns |

`Fail` ends a task at any stage: the database forgets its transaction, memory does not. `Stop` ends the
process at any moment and forgets memory. `Start`, `Keep`, `Remove`, `CreateConfigured` and `Ready`
are `setupDatabase()` and `server()` for the configured repositories, in any order. The option
`createDatabase: "always"`, which begins with an empty database, is left out, and the refresh of
`repositoryStore` is one step that reads what is committed.

Transactions are serializable (`server/src/server.ts:77-82`). The model has of it what these statements
can notice: a transaction sees the table of metapointers as it was at its first query, and fails
where it would insert a metapointer that was committed since; creation and removal of a schema
wait for the tasks that read it. This is also why the other modules take a transaction as one step.

### VersionedTables, FeatureCommands, RepositoryHistory

`VersionedTables` has the tables of a repository with history: a row has a key, a value and the
versions `from` and `to` in which it holds. `Insert`, `Update`, `Ended` and `DeleteFeatures` are the
triggers of the views, `AsOf` the stored functions that query a version. Without history a
statement changes rows in place. `FeatureCommands` has the commands on properties, references
and classifiers, and those that make and delete a node, as transactions on three such tables. The
first statement of each is `nextRepoVersion()`, so each has a version of its own. `history` is chosen at
the beginning: the same commands run on both kinds of schema.

`RepositoryHistory` is the abstract specification: a repository holds contents, each command changes
one thing in them and begins a new version, and the contents of earlier versions stay known.
`ImplementsHistory` is the refinement, with `past` computed from the rows. With history the triggers on
properties and references compare the node of a row only, so that one DELETE ends all of the
node's (see findings); such a step is *stray* when it ends others. `ImplementsHistory` excepts these
steps; everything else is checked after them too.

Left out: the tree of these nodes (it is `NodeTree`, on the tables without history) and the triggers
on containments, which are written like those on references. A change of a property has a value:
the new value of a `ChangeProperty` is a string by its type (`delta-shared/src/types/Command.ts:93`). For a null one
`DbChanges.ts:148-160` computes that the row is to be deleted and does not use it.

### BulkStore, BulkImport, BulkImportProofs

`BulkStore` has the requests of the bulk API on `parent` (the parent column) and `lists` (the rows of
containments and the annotations column; an empty list is a containment without children, with a row or
without). A
request is one transaction. `store` follows the code: `Diff` is `LionWebJsonDiff` on the nodes of the
chunk that exist, `Orphans` what is deleted, `Taken` the children that a node outside the chunk loses,
`ParentsAfter` and `ListsAfter` the UPDATEs, of which only the first on a containment is made.

`Merged` is the reference definition of what a chunk means: its nodes are as it says, what it lists
is there and nowhere else, and what is no longer below a partition is gone. `StoresAsMeant` compares
the two for every chunk in every reachable state, so that a store is checked in each state before
it is a step. Chunks for which `Merged` is no forest are not `Coherent`. For six kinds of coherent chunks
the code does something else; `Mistreated` names each: a node rescued from below an orphan whose
own children are deleted, a node of the chunk that is an orphan, an annotation deleted without
what is below it, two children taken from one containment (a TODO in the code), an annotation or a
child of a new node taken from a node that is not in the chunk. Such a step is stray and ends a
behaviour. The first kind is a finding.

`BulkImport` adds the import of the additional API: `bulkImport` (the request), `CopyNodes`,
`CopyContainments`, one `Attach` for each root and `Imported`, each committed by itself, and `Interrupted` at
any moment. `import` is the import that is running, or `Idle`. The queue keeps other requests away while
an import runs. The checks of `bulkImport` that
compare a list of rows with a number or return from a callback have no effect, and are no guards. The
model's requests are whole trees, so the checks of parents and roots (`AdditionalQueries.ts:77-96`) would
pass if they had an effect. A root whose attach point has no children may be listed or not: the UPDATE
changes a row with an empty list, and nothing where there is no row. The second ends a behaviour.

Left out: properties and references (they belong to one node and are replaced with it), classifiers (a
store ignores that one changes), the version counter (a store always raises it, `LionWebQueries.ts:290`), reserved ids,
the JSON, protobuf and flat buffer forms of requests, and `performImportFromProtobuf`, which nothing calls.

## 3. Runs

| Run | Specification | Checked | Bounds | Size |
|---|---|---|---|---|
| `RequestQueue` | `Spec` | `TypeOK`, `OneLoopOnTheHead`, `StartedInOrder`, `EveryJobIsDone`, `ImplementsSerialExecution` | 4 jobs | 457 states |
| `Sessions` | `Spec` | `RegistryConsistent`, `IdsUnique`, `NumbersTellLoss`, `InStep` | 2 websockets, 5 messages, 2 queued | 4.2 M |
| `Sharing` | `SignedOnSpec` | `InStepUnlessCrossing` | 2 clients, 1 partition, 4 messages with subscriptions, 1 queued; 1 split command running beside the queue | 1.8 M |
| `Composites` | `SignedOnSpec` | `TypeOK`, `NumbersTellLoss`, `BuffersBalanced`, `InStepUnlessCrossing`, `QueueDrains` | 3 messages, composites of up to 4 parts, nested; 1 split command running beside the queue | 791 k |
| `NodeTree` | `Spec` | `TypeOK`, `NoDanglingRows`, `ProperTree`, `ToldPartition`, `ImplementsModelTree` | 5 ids, 2 containments, lists up to 4 | 8.7 k up to symmetry |
| `Repositories` | `Spec` | `TypeOK`, `StoredAsGiven`, `CacheNamesRight`, `CanStartUnlessAlways` | 2 repositories, one of them created always, 2 metapointers, 4 tasks, 2 starts | 3.4 M |
| `Features` | `Spec` | `TypeOK`, `OneRowPerVersion`, `CurrentIsLastVersion`, `FeaturesOfNodes`, `PastAnswersStay`, `ImplementsHistory` | 2 nodes, 2 classifiers, 2 properties, 1 reference with up to 2 targets, 4 versions | 243 k up to symmetry |
| `Bulk` | `ImportSpec` | `ImportTypeOK`, `TreeWhenIdle`, `StoresAsMeantWhenIdle`, `RetrievesTreesWhenIdle`, `ImportLeavesNothingDangling`, `OldNodesStay` | 3 nodes and an annotation, 2 containments, imports of up to 2 nodes | 8.4 k up to symmetry |
| `ServerStaysUp` | `Spec` | violated | 1 websocket | – |
| `CachedIndexExists` | `Spec` | violated | as `Repositories` | – |
| `DeletesOneFeature` | `Spec` | violated | as `Features` | – |
| `StoresAllNodes` | `ImportSpec` | violated | 4 nodes, 1 containment | – |

What the passing runs show, property by property:

* `RegistryConsistent`, `IdsUnique`: whatever the order of connects, closes, sign-ons and reconnects,
  an event for a participation goes to the websocket its client uses now, once, and a reconnect or a
  chunk of a split command finds its own participation.
* `NumbersTellLoss`: the numbers a client gets have a gap exactly when an event was lost on the way
  to its closed websocket, through reconnects, composites, nested composites and error events.
* `InStep`: whenever the server is idle, a client that signed on and whose connection never broke has the
  version of the database of every partition it was given; no event is missing and none came twice. It may
  get events out of order, never lose one. `Sessions` checks it through sign-ons, reconnects and commands
  that fail, and section 5 proves it for all messages but the last chunk of a split command: as many as one likes,
  sent by any number of clients to one repository.
* `InStepUnlessCrossing`: with split commands beside the queue `InStep` does **not** hold. A client falls behind,
  or gets an event twice, when the contents of a partition and a change of it cross on the way
  (`Crossing`): two tasks have committed, both have still to tell of the partition, and one of them has its
  contents. There are three ways, each of which TLC finds as a violation of `InStep`
  with the constants of `Sharing`:
  1. A split command changes a partition and commits. Before its event is sent, the queue deletes the
     partition and adds it again with the same id. Its subscribers get the event of the old partition
     for the new one.
  2. A client unsubscribes and subscribes again. The subscription counts before its contents are
     read (`RequestFunctions.ts:91-92`), and a split change commits beside it. Either the event comes before the
     contents and meets nothing, and the contents that follow are older than the change; or the contents come
     first, hold the change already, and the event comes on top.
  3. A split command adds a partition and commits. The queue changes the partition and tells of it; then
     the addition arrives, with what the partition was before.

  The property is that nothing else does it: in every behaviour without a `Crossing`, `InStep` holds, with the events of
  split commands before, after and within the composites of others (`Composites`) and beside
  subscriptions, unsubscriptions, additions and deletions of the partition (`Sharing`).
* `BuffersBalanced`, `QueueDrains`: no composite leaves a buffer behind, and every message is processed
  to its end, also when its client is gone.
* `ProperTree`, `NoDanglingRows`, `ImplementsModelTree`: the commands keep the two forms of the tree
  equal, in every order, and each changes the tree as its name says.
* `ToldPartition`: a command changes no partition but the one whose subscribers are told, unless it
  moves a node between partitions.
* `StoredAsGiven`, `CacheNamesRight`: every stored row names the metapointer its client gave, and the
  map never has the index of another metapointer, while repositories of the same name come and
  go, transactions fail after the map was changed, a split command runs beside the queue with
  indexes the queue has not committed, and the process ends anywhere.
* `CanStartUnlessAlways`: only the option `always` makes a start impossible.
* `OneRowPerVersion`, `CurrentIsLastVersion`, `FeaturesOfNodes`: whatever is deleted and made again, a reader
  of any version finds each node and each value once, and the view that the commands read is the
  last version. `FeaturesOfNodes`: no version has properties or references of a node it has not.
* `PastAnswersStay`: what the history API answers about a version is the same after every later command,
  the stray ones included. `ImplementsHistory`: a command does what its name says and nothing else.
* `StoresAsMeantWhenIdle`: for every tree over these nodes that requests and imports lead to, and every
  chunk that is part of another such tree, store makes what `Merged` says.
* `RetrievesTreesWhenIdle`: retrieve, which follows the parent column, finds what the lists name, level by
  level, and to store what was retrieved changes nothing.
* `TreeWhenIdle`: requests and imports in any order keep one tree, but for chunks that are not `Coherent` or are
  `Mistreated`, imports that were interrupted after their first COPY, and imports of which a root was attached to
  a containment without a row (`ImportAttached`, section 4).
* `ImportLeavesNothingDangling`, `OldNodesStay`: an import that ends anywhere leaves no list and no parent
  that leads nowhere, and no old node loses anything.

The **bounds** are there to keep the state space finite: `MaxMessages` (messages sent in a
behaviour), `MaxQueue` (jobs waiting), `MaxDetached` (split commands running at once), `MaxList`
(length of a list), `Ids`, `MaxTasks` (requests and commands begun in a behaviour), `MaxStarts`
(starts of the server), `MaxVersion` (commands on a repository), `MaxTargets` (targets of a reference) and
`MaxImport` (nodes of an import). Two clients are enough for every interaction of a pair: the server's
state about a client is touched only by that client's messages and by events, which treat all
recipients alike. Five messages are enough for sign-on, sign-on again, close, reconnect and a command in
any order, and three for a split command and its chunk beside a composite of another client, or
for a split command with two chunks; four for a split command and its chunk beside two messages of the
queue, of which one may be of the same client, which is the least that all three crossings need. One place in the
queue is enough for `Sharing`: the queue takes messages in the order of their arrival, and which messages wait behind
the one that is processed changes nothing for it; closes between a message and its job are still there. Four tasks are enough for a repository to be written to, deleted,
created and written to again, or for two writers and what each left behind; two starts are
enough for a start that finds what an interrupted one left. Five ids give two partitions with a node each and one to move, and a parent with two
children with a child each. Four versions are enough for a node to be made, changed, deleted and made
again, and for a row to be closed while an older one of the same key is there. In `Bulk` every
forest of three nodes and an annotation is reached, and in each every chunk is stored: a child that
is moved with a child of its own, out of a node that is kept, dropped or not mentioned. The passing
runs reach every action of the model. **Symmetry** is used in `NodeTree`, `Features`, `Bulk` and
`Repositories`, where ids, metapointers and values are compared for equality only and no liveness is
checked. `CHECK_DEADLOCK
FALSE` is set because behaviours stop at the bounds, after a stray command, or when the server
process ended.

**Fairness** is weak fairness of `Settle` and `Resume` in `RequestQueue` and of `StartJob` and the steps
of a task in `DeltaServer`: Node runs the continuation of a resolved promise, and a transaction
commits or fails. Nothing is assumed of clients or of the network. It is used by `EveryJobIsDone`,
`QueueDrains` and `SerialExecution`'s own fairness. A query that never ends (see the hazard at
`ChildCommands.ts:236`) breaks this assumption; `NodeTree` stops before it.

**Mutants.** An operator `X_Fault` beside an operator `X` is `X` with one mistake; each property of a
passing run is violated when the mistake it names is put in. `PROJECT.json` lists them.

## 4. What disagrees with the documents

With a run that shows it:

* `ServerStaysUp` (`server/src/server.ts:228`): a websocket that closes before its client signed on
  stops the process; the log message reads a field of `undefined`.
* `CachedIndexExists` (`MetaPointers.ts:163`): the map is filled before the commit. After a rollback it
  has indexes that the table has not; no one inserts these metapointers again, and every
  node with one of them is refused by the foreign key until the server restarts.
* `DeletesOneFeature` (`init-schema-with-history.ts:416`): with history, deleting one property of a node
  ends all its properties; the trigger compares the node and not the property. The same is true of
  references.
* `StoresAllNodes` (`LionWebQueries.ts:192`): a chunk moves a node with its child out of a tree that
  it drops. The node is rescued, its child is deleted, although the chunk holds it.

Stated in the modules and found violated by TLC with the bounds of the passing run of the module, without a
run of their own:

* `OneAtATime` of `DeltaServer` (`DeltaProcessor.ts:148`), with the constants of `Sharing`: `RequestQueue.ts:4-5` says
  that the queue "keeps a queue of all requests done to the server and executes them one by one"; the last chunk of a
  split command ends its job while the command still runs. This is what makes a `Crossing` possible.
* `CanStart` of `Repositories` (`server.ts:138`): the option `always` of `src/configuration.md:30-37` drops the schema of
  a repository ("need to remove the repository first", `server.ts:136`) and keeps its row in the table of repositories.
  This start fails at the unique name, every later one at the missing schema.
* `ImportAttached` of `BulkImport` (`additionalapi/src/database/QueryNode.ts:48`): "The root of the tree will be appended
  to that containment" (`AdditionalApi.ts:28-30`); where the containment has no row the root gets its parent and is
  listed nowhere.
* `RetrievesAsked` of `FeatureCommands` (`history/src/database/QueryNodeHistory.ts:8`): "`body.ids` contains the list of
  nodes to be found" (`HistoryApi.ts:50-51`, and so `QueryNodeHistory.ts:4-5`); the query does not use the ids, and a
  retrieve of one node answers with all nodes of the version.
* `MovesWithinContainment` of `NodeTree` (`ChildCommands.ts:359`): the child is listed at both places.
* `MovesAnnotation` of `NodeTree` (`AnnotationCommands.ts:228`): the annotation keeps its old parent column.

Met while reading, with no document that says otherwise:

* a bulk import begins no version of a repository with history;
* `getAvailableIds` asked for no ids does not end; reserved ids are checked by `store` only;
* `RequestFunctions.ts:130`: a sign-on whose transaction fails leaves a participation that is signed on to
  no repository.

## 5. Proofs

`RequestQueueProofs` proves, for every set of jobs, `TypeOK`, `OneLoopOnTheHead`, `StartedInOrder` and the
safety part of the refinement of `SerialExecution`. The inductive invariant `IInv` adds to these
that what was started is exactly what was submitted less what still waits behind the head: without
it, a `Resume` could start a job that is not the next one. The assumption is `NoJobAssumption`.

`DeltaServerProofs` proves `RegistryConsistent`, `IdsUnique`, `TypeOK`, `NumbersTellLoss` and
`BuffersBalanced` over all actions of the server, for every set of websockets, partitions,
repositories and messages and every bound, and `InStep` for one repository while one message is
processed at a time. It has three inductive invariants, each on top of the one before.

* `RegistryInv` says, beside the first two properties, which participation may be behind which
  websocket: ids are below `nextIdNumber`, old participations exist, and the websocket of a task is
  one whose participation was made. Actions that leave the registry alone are one lemma; the
  others have one each.
* `ServerInv` adds `ServerRight`. Its parts are the types of participations, connections, database
  and queue, and four that carry the argument. `ClientsTyped`: the number a client expects is what
  `NumbersTellLoss` says, for every websocket and not only for participations that were made,
  and no client got a number that is still to be given. `TasksRight`: whoever waits for a
  transaction or for an answer is a participation that was made; a task other than the queue's has only
  commands that can be split to do, so no composites. `BuffersRight`: there are as many buffers as
  the queue's job has ends of composites left (`Depth`). A part that fails, a client that is
  gone, a nested composite and an event from a split command in between keep this equation; that
  the job takes the end of a composite off its list exactly when the buffer goes is why none is left
  when the queue is idle. `SplitsRight`: a command that waits for its chunks is one that can be
  split, and its id was given out.

  A composite event is computed by a recursive function, and so is what a client makes of the
  changes in it. `Induction` proves that such functions exist and that their values stay in a
  set that one step does not leave; `CompositeEventType` and `ReceiveStays` rest on it.

* `ClientsKeepUp` proves `InStep` as long as `OneAtATime` holds, which is what `RequestQueue.ts` says of the
  queue. `OneMessageAtATime` proves that this is so unless a client sends the last chunk of a split command
  (`NothingCompleted`), and `ClientsKeepUpWithoutSplits` puts the two together. Two more hypotheses say which
  messages and servers are meant. `OneRepository`: with two repositories that hold the same partition id, the
  event of one repository goes to the subscribers in the other. `CommandsOnly`: the parts of a
  composite command are commands, as their type says (`delta-shared/src/types/Command.ts:356`); an
  unsubscription in the middle of a composite would make its client miss what was buffered for
  it before.

  The inductive invariant is `ServerInv` with `StepInv`. At its center is `Follows`: a client has, for each
  partition of its view, the version of the database, once it has been given what is in the event buffers for
  it, in the order in which composite commands will take them out, and but for the one version whose
  event the task that committed still has to send (`Awaited`). `Takes` says what one change does to
  a view, `Chain` what a sequence of changes, of events or of buffers does; the proof of each action that
  tells something extends, joins or shortens such chains. The subtle part is who is subscribed at which
  moment. Whether a client applies the addition of a partition depends on its subscriptions
  when the event arrives, and those may grow while the event waits in a buffer. A
  client may be told of a partition that it is not subscribed to and ignore it only if it is a `Bystander`: it
  did not ask for automatic subscription, and its websocket sent nothing that is being processed. Its
  subscriptions cannot grow before the buffers are empty. The other parts say that nothing is buffered for a websocket
  that did not connect yet (`FreshClients`), that an old participation lost its connection (`OldAreAway`), that a
  request is alone in its task (`RequestsAlone`), that a task works for the participation of its
  websocket unless that one is gone (`ActorsRight`), and that an answer has the version that the
  database has now (`AnswersRight`), which is where one message at a time is needed. TLC checked `StepInv` on
  instances with sessions, shared partitions and composites before it was proved. The theorems are about
  `Spec`, from the start of the server on; the runs `Sharing` and `Composites` begin with two clients
  signed on. `Composites` checks `TypeOK` without sign-ons; with them it is this theorem.

The assumptions are those of the constants: `NoneAssumption` and `NoTaskAssumption` (`None` is none of
the other values), `BoundsAssumption` (the bounds are natural numbers) and `MessagesAssumption`. The parts
of `ServerRight` were checked by TLC on the constants of `Sessions`, `Sharing` and `Composites` first.

`RepositoriesProofs` proves `TypeOK`, `StoredAsGiven`, `CacheNamesRight` and `CanStartUnlessAlways` of
`Repositories`, for any repositories, metapointers and configuration, any number of tasks and starts, with
failures at every stage and the end of the process at any moment. The inductive invariant `IInv` was
checked by TLC on the states of the run first. `StoredAsGiven` needs that no index ever stands for two
metapointers of a schema, wherever an index is: `Unambiguous` says it of the table, of the map, and of the
indexes and rows that tasks have not committed. This needs that a fresh index is above all of
them (`Types`, from `identity`), that the map has an entry for a repository only while its schema
exists or is being created (`MapNeedsSchema`), and that a schema is not dropped while a task reads
it (`Exclusive`). `StoredAsGiven` itself is then one conjunct, with the rows a task is about to insert.
`CanStartUnlessAlways` needs which repositories a start has still to create (`Phases`). The assumptions are
`NoneAssumption` and `CreationAssumption` (how the configuration says to create each repository).

`NodeTreeProofs` proves `TypeOK`, `NoDanglingRows`, `ProperTree`, `ImplementsModelTree` and `ToldPartition` of
`NodeTree`, for any ids and containments and any length of lists. The inductive invariant is that the rows have their types, that they refer to
nodes that exist, and, as long as no stray command was executed, that they are a *forest* (`Forest`):
a node is listed exactly by the node that its parent column names, in one of its lists and once
there, and no node is below itself. `NodeTreeLemmas` proves that three changes of a
forest make a forest, for any parents and lists: a subtree goes (`Prune`), a tree comes (`Graft`), a
subtree goes to another place (`Transfer`). It then proves of each way to change the lists and the parent
columns that the tables after it are those of one of the three changes, or of two in a row for the
replacements; this is where the uses of `splice()` and the order of the statements matter.
`NodeTreeProofs` has one lemma for each command. That a subtree computed by
the recursive query is the one `Forest` speaks of, and that the query for the partition of a node
ends, rests on `Induction` and on the finite number of nodes. Stray commands keep `TypeOK` and `NoDanglingRows`
because what is deleted is deleted with its rows and its entries wherever it is listed.

For `ImplementsModelTree`, a command that is not a stray one makes one of seven changes of the two
tables (`OneChange`), each described list by list by a lemma about the statements of the command. Each
change is then the step of `ModelTree` with the same meaning: the subtree of the recursive query is what
`ModelTree` finds below a node in the lists (`BelowIsUnder`), a `splice()` at any index, a negative one or one
past the end, is an insertion or a removal (`InsertIs`, `RemoveIs`, `ReplaceIs`), and the place where `ModelTree`
puts the replacement is the only one there is (`OnlyPlace`). `RepositoryIsModelTree` states the refinement from the
empty repository on, for behaviors without stray commands.

For `ToldPartition`, the same seven changes are shown to be changes within one partition (`Within`): only the
lists of some nodes change that the partition has after the command, and subtrees come, go or move that
hang from these nodes. Two partitions have no node in common (`PartitionsApart`), so the rows of all
others stay (`OthersStay`). That the partition in the event is the right one rests on `PartitionAbove`: in a
tree, the chain of parents that `DB_affectedPartition` follows ends at a root after at most as many steps as
there are nodes.

The assumptions are `NoneAssumption` and `AnnotationsAssumption` (the annotations column is no containment).

`FeatureCommandsProofs` proves `TypeOK`, `OneRowPerVersion`, `CurrentIsLastVersion`, `FeaturesOfNodes`,
`PastAnswersStay` and `ImplementsHistory` of `FeatureCommands`, with and without history, for any sets of ids, metapointers, values
and targets and any number of versions. The assumptions are those of the constants: versions stay
below `Forever`. Every statement ends the current rows with some keys and makes rows with some
keys; lemma `Replacing` shows, for one table and any such change, that the new table is one that
the next version may have (`Versioned`) and tells the same of every earlier version (`Facts`). What
is left for each command is that it makes no row for a key that keeps its own, and no feature of a
node that is not there. `Versioned` is the strengthening: that two rows of a key never hold in one
version needs that no row begins after the current version or ends in a later one.

The refinement of `RepositoryHistory` rests on the same invariant. `Held` is what a table holds now;
`ReplacingHolds` says what it holds after any such change, and a lemma for each statement says it
in the words of the statement. The earlier versions need no induction of their own: facts that
stay are contents that stay (`FactsTellContents`), and the version that a step leaves is added to
them (`EarlierGrows`). So a command refines the step of its name as soon as its tables hold what
the step says (`Commits`). For references this needs that `splice()` at an index that a command may
have inserts, removes or replaces one target (`SplicesIn`, `SplicesOut`, `SplicesOver`), also at a
negative index. Only stray steps are excepted, and without history there are none: then the module implements the whole
of `RepositoryHistory`, its initial state and its deletions included (`PlainRepository`).

`BulkImportProofs` proves all that the run `Bulk` checks: `ImportTypeOK`, `TreeWhenIdle`,
`StoresAsMeantWhenIdle`, `RetrievesTreesWhenIdle`, `ImportLeavesNothingDangling` and `OldNodesStay`, for any
ids, any containments and imports of any size. The inductive invariant `ImportInv` has a case for each point at
which an import can be, and leaves nothing known of the trees after a stray step but the types.
`TreeWhenIdle` alone is not inductive, because it says nothing while an import runs. `Started`: the
tables are a forest. `HalfCopied`: the rows are copied and the containments are not; the nodes
that were there are still a forest, and the new rows are those of the client. `Attaching`: the
tables are a forest but for the roots that wait to be attached, and what was there is
reached from the partitions (`Graftable`), so that a root which is attached to a list can be reached itself. Nothing is needed beyond this about the order in which roots are attached.

The forests of the run come from an enumeration (`ForestsOf`); the proofs need of them only that they are
forests, that annotations are among the annotations and other nodes in containments (`Right`), and that an
annotation is no root.
For `store` the work is to show that two searches agree. The code goes by the parent column, down from
what lost its place; `Merged` goes by the new lists, down from the partitions, and by smallest sets.
`NotKeptIsGone` shows by induction along the old tree (`ForestInduction`) that a node which the
merged lists do not reach is an orphan, and `GoneIsNotKept` that no orphan is reached: who lists it would have to be
an orphan too, and a circle of lists is excluded by `NoCycle`. Each of the six kinds in `Mistreated` is used,
`AfterIsMerged` cites them as `Treated`: they are all the exceptions there are. `RetrievesTreesWhenIdle` rests on
`RowsReach`, level by level, and on a tree having no more levels than nodes (`LevelsAreDeep`). This is where
`IdsAssumption` is needed, that the ids are finitely many, of which `UNLIMITED_DEPTH` is more; the other
assumptions are that `None` is no id and `Annotations` no containment.

Only model-checked:

* liveness (`EveryJobIsDone`, `QueueDrains`) and the fairness part of the refinement of `SerialExecution`,
  which are beyond TLAPS;
* `InStepUnlessCrossing` of `DeltaServer`: where a split command runs beside the queue, the proof of `InStep` has no
  order of the commits and the deliveries to go by. The runs are `Sharing` and `Composites`.

Induction over the parts of a structure is possible only where it is induction over a set of natural
numbers (`SetOfNaturals`, proved from the well-foundedness of finite sets): the induction theorems of the
TLAPS library take an operator as a parameter, which none of the installed provers can instantiate.

## 6. Plan

Done: the modules above. Next, in this order:

1. A run of `DeltaServer` with two repositories that hold the same partition id.
2. Containments with history, which the bulk API and the delta commands change through the same views.
3. The rows of metapointers taken apart at commas that `MetaPointers.ts:162` expects.
