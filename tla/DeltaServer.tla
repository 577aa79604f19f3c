------------------------------- MODULE DeltaServer -------------------------------
(***************************************************************************)
(* The delta protocol server: websockets, the request queue, DeltaProcessor*)
(* (packages/delta-server/src/delta/DeltaProcessor.ts), its requests       *)
(* (queries/RequestFunctions.ts), split commands (commands/SplitCommand.ts)*)
(* and the event buffers of composite commands (CompositeEventBuffer.ts).  *)
(*                                                                         *)
(* The server is one JavaScript thread.  A step of this module is the code *)
(* between two awaits: processDelta up to the transaction of a command,    *)
(* the transaction itself, and what follows it (the events).  The request  *)
(* queue (module RequestQueue) awaits one job at a time; a split command   *)
(* that is complete runs without being awaited, in a task of its own.      *)
(*                                                                         *)
(* The repository is abstracted to one version per partition: a command    *)
(* that changes a partition takes it to its next version, and the contents *)
(* a client gets and the events it gets carry versions.  What commands do  *)
(* to the nodes of a partition is module NodeTree.                         *)
(*                                                                         *)
(* An operator X_Fault is X with one plausible mistake, which the property *)
(* named beside it must notice.                                            *)
(***************************************************************************)
EXTENDS Participations, Integers, Sequences, Overlay

CONSTANTS
    Messages,            \* the messages clients may send
    Parts,               \* the commands in composite and split commands
    MaxMessages,         \* bound: messages sent in a behaviour
    MaxQueue,            \* bound: jobs waiting in the request queue
    MaxDetached          \* bound: split commands running at the same time

VARIABLES
    connection,          \* "none", "open", "closing" or "closed" for a websocket
    up,                  \* whether the server process runs
    sent,                \* number of messages sent so far
    queue,               \* RequestQueue.items: the message of each job
    tasks,               \* the executions of processDelta; 0 is the queue's job
    eventBuffers,        \* CompositeEventBufferStack.eventBuffers
    unfinished,          \* SplitCommands.unfinishedSplitCommands
    database,            \* the version of each partition in each repository
    client               \* what the client of each participation has received

vars == <<participationVars, connection, up, sent, queue, tasks, eventBuffers,
          unfinished, database, client>>

TaskIds == 0..MaxDetached

Requests == {"SignOn", "SignOff", "Reconnect", "Subscribe", "Unsubscribe",
             "ListAndSubscribe", "SubscribeChanging"}
PartitionCommands == {"Change", "AddPartition", "DeletePartition"}

\* The kinds of messages and what DeltaValidator makes sure they contain; "Invalid"
\* is a command that it refuses, or of a kind that is not known.  Only commands that
\* add nodes can be split (SplitCommandType).
ASSUME MessagesAssumption ==
    \A m \in Messages \union Parts :
        /\ m.kind \in Requests \union PartitionCommands
                           \union {"Composite", "Split", "Continued", "Invalid"}
        /\ m.kind \in PartitionCommands \union {"Subscribe", "Unsubscribe"} =>
               m.partition \in Partitions
        /\ m.kind = "SignOn" => m.repository \in Repositories
        /\ m.kind = "SubscribeChanging" => m.subscription \in Subscription
        /\ m.kind = "Composite" => m.parts \in Seq(Parts)
        /\ m.kind = "Split" => /\ m.command \in Parts
                              /\ m.command.kind \in {"Change", "AddPartition"}

ASSUME BoundsAssumption == MaxMessages \in Nat /\ MaxDetached \in Nat

(***************************************************************************)
(* Clients.  A client keeps the partitions whose contents it was given and *)
(* applies the events it receives; `missing' are versions it skipped.      *)
(* `lost' means that an event was handed to its closed websocket, `away'   *)
(* that its participation was without a websocket once.                    *)
(***************************************************************************)
NewClient == [
    last |-> 0,
    view |-> [x \in Partitions |-> None],
    missing |-> {},
    faults |-> {},
    lost |-> FALSE,
    away |-> FALSE]

\* The versions of the partitions that are known, or given.
Versions == [Partitions -> Nat \union {None}]

Clients == [
    last : Nat,
    view : Versions,
    missing : SUBSET (Partitions \X Nat),
    faults : SUBSET {"order", "twice", "number"},
    lost : BOOLEAN,
    away : BOOLEAN]

Skipped(x, from, to) == {<<x, v>> : v \in from + 1 .. to - 1}

\* The client of p applies one change to its copy of a partition.
Apply(c, p, change) ==
    LET x == change.partition
        v == change.version
    IN  CASE change.kind = "AddPartition" ->
               IF x \in participations'[p].subscribedPartitions
               THEN [c EXCEPT !.view[x] = v, !.missing = {e \in @ : e[1] # x}] ELSE c
          [] change.kind # "AddPartition" /\ c.view[x] = None -> c
          [] change.kind = "DeletePartition" /\ c.view[x] # None ->
               [c EXCEPT !.view[x] = None]
          [] change.kind = "Change" /\ c.view[x] # None ->
               IF v > c.view[x]
               THEN [c EXCEPT !.view[x] = v,
                              !.missing = @ \union Skipped(x, c.view[x], v)]
               ELSE [c EXCEPT !.missing = @ \ {<<x, v>>},
                              !.faults = @ \union {IF <<x, v>> \in c.missing
                                                   THEN "order" ELSE "twice"}]

ApplyAll(client0, p, changes) ==
    LET step[i \in 0..Len(changes)] ==
            IF i = 0 THEN client0 ELSE Apply(step[i - 1], p, changes[i])
    IN  step[Len(changes)]

\* The client of p receives an event whose first sequence number is n.  It
\* learns from a gap in the numbers that it lost events, and only from a gap.
Receive(c, p, n, event) ==
    ApplyAll([c EXCEPT !.last = n + event.size - 1,
                       !.lost = FALSE,
                       !.faults = IF (n = c.last + 1) = c.lost
                                  THEN @ \union {"number"} ELSE @],
             p, event.changes)

(***************************************************************************)
(* Events.  An event has the number of sequence numbers it takes (a        *)
(* composite event takes one and one for each of its parts) and the changes*)
(* it tells of.                                                            *)
(***************************************************************************)
Changes == [kind : PartitionCommands, partition : Partitions, version : Nat]

Events == [size : Nat \ {0}, changes : Seq(Changes)]

ErrorEvent == [size |-> 1, changes |-> <<>>]

ChangeEvent(change) == [size |-> 1, changes |-> <<change>>]

\* The CompositeEvent built from the buffered events of a participation.
CompositeEvent(parts) ==
    LET join[i \in 0..Len(parts)] ==
            IF i = 0 THEN [size |-> 1, changes |-> <<>>]
            ELSE [size |-> join[i - 1].size + parts[i].size,
                  changes |-> join[i - 1].changes \o parts[i].changes]
    IN  join[Len(parts)]

\* Hand the numbered event to a websocket, which may have closed.
Handed(p, s, event) ==
    IF connection[s] = "open"
    THEN Receive(client[p], p, participations[p].eventSequenceNumber, event)
    ELSE [client[p] EXCEPT !.lost = TRUE]

\* NumbersTellLoss: an event that is buffered takes its number at once, and
\* again when the composite event is sent.
SendWith_Fault(buffers, objects, events, socketOf) ==
    LET P == DOMAIN events
        numbered == Numbered(objects,
                        [p \in Sockets |-> IF p \in P THEN events[p].size ELSE 0])
    IN  /\ participations' = numbered
        /\ IF buffers = <<>>
           THEN /\ client' = [p \in Sockets |->
                    IF p \in P THEN Handed(p, socketOf[p], events[p]) ELSE client[p]]
                /\ eventBuffers' = buffers
           ELSE /\ eventBuffers' = [buffers EXCEPT ![Len(buffers)] =
                    [p \in Sockets |-> IF p \in P THEN Append(@[p], events[p]) ELSE @[p]]]
                /\ UNCHANGED client

\* sendDelta(): events[p] goes to each p in DOMAIN events, through the websocket
\* socketOf[p].  While a composite command is being processed, it is kept in
\* the active buffer; otherwise it is numbered and sent.  `buffers' is the stack
\* of buffers, `objects' are the participations before the numbering.
SendWith(buffers, objects, events, socketOf) ==
    LET P == DOMAIN events IN
    IF buffers = <<>>
    THEN /\ participations' =
                Numbered(objects, [p \in Sockets |-> IF p \in P THEN events[p].size ELSE 0])
         /\ client' = [p \in Sockets |->
                IF p \in P THEN Handed(p, socketOf[p], events[p]) ELSE client[p]]
         /\ eventBuffers' = buffers
    ELSE /\ participations' = objects
         /\ eventBuffers' = [buffers EXCEPT ![Len(buffers)] =
                [p \in Sockets |-> IF p \in P THEN Append(@[p], events[p]) ELSE @[p]]]
         /\ UNCHANGED client

Send(events, socketOf) == SendWith(eventBuffers, participations, events, socketOf)

ownSocket == [p \in created |-> participations[p].socket]

(***************************************************************************)
(* Websockets.                                                             *)
(***************************************************************************)
Connect(s) ==
    /\ connection[s] = "none"
    /\ connection' = [connection EXCEPT ![s] = "open"]
    /\ newParticipation(s)
    /\ UNCHANGED <<up, sent, queue, tasks, eventBuffers, unfinished, database, client>>

\* The connection ends at the client's side; the server does not know yet.
ClientClose(s) ==
    /\ connection[s] = "open"
    /\ connection' = [connection EXCEPT ![s] = "closing"]
    /\ UNCHANGED <<participationVars, up, sent, queue, tasks, eventBuffers, unfinished,
                   database, client>>

\* socket.onclose runs at once, whatever the queue is doing.  Its log message
\* reads repositoryData.clientId: for a participation that never signed on
\* this throws in the event handler, and nothing catches it.
OnClose(s) ==
    /\ connection[s] = "closing"
    /\ connection' = [connection EXCEPT ![s] = "closed"]
    /\ LET p == getParticipation(s) IN
       IF p # None /\ participations[p].repositoryData = None
       THEN /\ up' = FALSE
            /\ UNCHANGED <<participationVars, client>>
       ELSE /\ deleteParticipation(s)
            /\ client' = IF p = None THEN client ELSE [client EXCEPT ![p].away = TRUE]
            /\ UNCHANGED up
    /\ UNCHANGED <<sent, queue, tasks, eventBuffers, unfinished, database>>

\* socket.onmessage: runWithTryDelta puts a job for the message on the queue.
OnMessage(s, m) ==
    /\ connection[s] = "open"
    /\ sent < MaxMessages
    /\ Len(queue) < MaxQueue
    /\ sent' = sent + 1
    /\ queue' = Append(queue, [socket |-> s, message |-> m])
    /\ UNCHANGED <<participationVars, connection, up, tasks, eventBuffers, unfinished,
                   database, client>>

(***************************************************************************)
(* Tasks.                                                                  *)
(***************************************************************************)
EndOfComposite == [kind |-> "End"]

Stages == {"ready", "transaction", "answer", "failed"}

\* What a command changed, or the contents of partitions that a request asks for.
Content == Versions \union Seq(Changes)

\* An execution of processDelta: what it has still to process, and the stage,
\* the participation and the content of the answer of what it processes now.
Tasks == [
    socket : Sockets,
    todo : Seq(Messages \union Parts \union {EndOfComposite}),
    stage : Stages,
    who : Sockets \union {None},
    content : Content]

ASSUME NoTaskAssumption == None \notin Tasks

\* processDelta(s, m) before its first statement.
NewTask(s, m) ==
    [socket |-> s, todo |-> <<m>>, stage |-> "ready", who |-> None, content |-> <<>>]

\* The queue starts the job at its head.
StartJob ==
    /\ tasks[0] = None
    /\ queue # <<>>
    /\ tasks' = [tasks EXCEPT ![0] = NewTask(Head(queue).socket, Head(queue).message)]
    /\ UNCHANGED <<participationVars, connection, up, sent, queue, eventBuffers, unfinished,
                   database, client>>

\* processDelta returns; the queue dequeues the job it awaited.
Finish(t) ==
    /\ tasks[t] # None
    /\ tasks[t].todo = <<>>
    /\ tasks' = [tasks EXCEPT ![t] = None]
    /\ queue' = IF t = 0 THEN Tail(queue) ELSE queue
    /\ UNCHANGED <<participationVars, connection, up, sent, eventBuffers, unfinished,
                   database, client>>

\* What task t is processing: a message, or the end of a composite command.
Current(t) == Head(tasks[t].todo)

IsAt(t, stage) == tasks[t] # None /\ tasks[t].todo # <<>> /\ tasks[t].stage = stage

\* The participation of the task's websocket, looked up by each processDelta.
Who(t) == getParticipation(tasks[t].socket)

\* The current message is done.
Done(t) == [tasks[t] EXCEPT !.todo = Tail(@), !.stage = "ready", !.who = None,
                            !.content = <<>>]

Waits(t, stage, who, content) ==
    tasks' = [tasks EXCEPT ![t].stage = stage, ![t].who = who, ![t].content = content]

\* processDelta got past validateParticipation() with the message k.
Accepted(t, k) ==
    /\ IsAt(t, "ready")
    /\ Current(t).kind = k
    /\ Who(t) # None
    /\ MayAct(Who(t)) \/ k \in {"SignOn", "Reconnect", "SignOff"}

(***************************************************************************)
(* processDelta: errors before the message is processed.                   *)
(***************************************************************************)
\* QueueDrains: without a participation, processDelta waits for one.
NoParticipation_Fault(t) ==
    /\ IsAt(t, "ready")
    /\ Who(t) = None
    /\ Current(t).kind # "End"
    /\ UNCHANGED vars

\* The websocket has no participation any more: a command makes sendDelta
\* throw, a request is answered, and a sign-on or reconnect returns; the state
\* stays as it is.
NoParticipation(t) ==
    /\ IsAt(t, "ready")
    /\ Who(t) = None
    /\ Current(t).kind # "End"
    /\ tasks' = [tasks EXCEPT ![t] = Done(t)]
    /\ UNCHANGED <<participationVars, connection, up, sent, queue, eventBuffers, unfinished,
                   database, client>>

\* An error event for the client of participation p.  Requests get an error
\* response, which has no sequence number and changes nothing.
SendError(t, p) ==
    IF Current(t).kind \in Requests
    THEN UNCHANGED <<participations, eventBuffers, client>>
    ELSE Send([q \in {p} |-> ErrorEvent], [q \in {p} |-> tasks[t].socket])

\* The message is checked before the participation is.
Invalid(t) ==
    /\ IsAt(t, "ready")
    /\ Who(t) # None
    /\ Current(t).kind = "Invalid"
    /\ SendError(t, Who(t))
    /\ tasks' = [tasks EXCEPT ![t] = Done(t)]
    /\ UNCHANGED <<activeSockets, oldParticipations, nextIdNumber, connection, up, sent,
                   queue, unfinished, database>>

NotSignedOn(t) ==
    /\ IsAt(t, "ready")
    /\ Who(t) # None
    /\ ~MayAct(Who(t))
    /\ Current(t).kind \notin {"SignOn", "Reconnect", "SignOff", "End", "Invalid"}
    /\ SendError(t, Who(t))
    /\ tasks' = [tasks EXCEPT ![t] = Done(t)]
    /\ UNCHANGED <<activeSockets, oldParticipations, nextIdNumber, connection, up, sent,
                   queue, unfinished, database>>

(***************************************************************************)
(* Requests that touch the participations only.                            *)
(***************************************************************************)
\* SignOffRequestFunction: an error response unless the client is signed on.
SignOff(t) ==
    /\ Accepted(t, "SignOff")
    /\ participations' = IF MayAct(Who(t))
           THEN [participations EXCEPT ![Who(t)].participationStatus = "connected"]
           ELSE participations
    /\ tasks' = [tasks EXCEPT ![t] = Done(t)]
    /\ UNCHANGED <<activeSockets, oldParticipations, nextIdNumber, connection, up, sent,
                   queue, eventBuffers, unfinished, database, client>>

Unsubscribe(t) ==
    /\ Accepted(t, "Unsubscribe")
    /\ LET x == Current(t).partition IN
       /\ participations' = [participations EXCEPT ![Who(t)].subscribedPartitions = @ \ {x}]
       /\ client' = [client EXCEPT ![Who(t)].view[x] = None,
                                   ![Who(t)].missing = {e \in @ : e[1] # x}]
    /\ tasks' = [tasks EXCEPT ![t] = Done(t)]
    /\ UNCHANGED <<activeSockets, oldParticipations, nextIdNumber, connection, up, sent,
                   queue, eventBuffers, unfinished, database>>

\* SubscribeToChangingPartitions and InformAboutChangingPartitions.
SubscribeChanging(t) ==
    /\ Accepted(t, "SubscribeChanging")
    /\ participations' = [participations EXCEPT
           ![Who(t)].partitionChangesSubscription = Current(t).subscription]
    /\ tasks' = [tasks EXCEPT ![t] = Done(t)]
    /\ UNCHANGED <<activeSockets, oldParticipations, nextIdNumber, connection, up, sent,
                   queue, eventBuffers, unfinished, database, client>>

\* ReconnectRequestFunction and the special case in processDelta.  The client
\* learns the last number sent before and asks for what it misses.
Reconnect(t) ==
    /\ Accepted(t, "Reconnect")
    /\ IF findOldParticipation(Current(t).id) = {}
       THEN UNCHANGED <<participationVars, client>>
       ELSE \E p \in findOldParticipation(Current(t).id) :
                /\ reconnect(tasks[t].socket, p)
                /\ client' = IF connection[tasks[t].socket] = "open"
                             THEN [client EXCEPT ![p].last = lastSequenceNumber(p),
                                                 ![p].lost = FALSE]
                             ELSE client
    /\ tasks' = [tasks EXCEPT ![t] = Done(t)]
    /\ UNCHANGED <<connection, up, sent, queue, eventBuffers, unfinished, database>>

(***************************************************************************)
(* Transactions.  Up to the transaction only the status of a participation *)
(* that signs on changes.  The transaction is one step: what it does in    *)
(* memory is not undone when it fails.  `who' is the participation that    *)
(* processDelta looked up before.                                          *)
(***************************************************************************)
\* SignOnRequestFunction up to its transaction.
SignOnBegins(t) ==
    /\ Accepted(t, "SignOn")
    /\ participations' = [participations EXCEPT ![Who(t)].participationStatus = "signedOn"]
    /\ Waits(t, "transaction", Who(t), <<>>)
    /\ UNCHANGED <<activeSockets, oldParticipations, nextIdNumber, connection, up, sent,
                   queue, eventBuffers, unfinished, database, client>>

TransactionBegins(t) ==
    /\ \E k \in {"Subscribe", "ListAndSubscribe"} \union PartitionCommands : Accepted(t, k)
    /\ Waits(t, "transaction", Who(t), <<>>)
    /\ UNCHANGED <<participationVars, connection, up, sent, queue, eventBuffers, unfinished,
                   database, client>>

InTransaction(t, k) == IsAt(t, "transaction") /\ Current(t).kind = k

Commits(t, content) == Waits(t, "answer", tasks[t].who, content)
Aborts(t) == Waits(t, "failed", tasks[t].who, <<>>)

repository(t) == participations[tasks[t].who].repositoryData

Present(r) == IF r = None THEN {} ELSE {x \in Partitions : database[r][x].present}

\* The contents of the partitions X, as far as they exist.
Contents(r, X) ==
    [x \in Partitions |-> IF x \in X \intersect Present(r) THEN database[r][x].version
                                                         ELSE None]

\* A transaction that fails without effect: the database fails, the command
\* is not valid for the nodes it finds, or the participation has no repository.
TransactionFails(t) ==
    /\ IsAt(t, "transaction")
    /\ Aborts(t)
    /\ UNCHANGED <<participationVars, connection, up, sent, queue, eventBuffers, unfinished,
                   database, client>>

\* startParticipation(): the repository is known only after an await, which
\* may fail, as may the commit that follows.
SignOn(t) ==
    /\ InTransaction(t, "SignOn")
    /\ \/ /\ startParticipation(tasks[t].who, Current(t).repository)
          /\ Commits(t, Contents(Current(t).repository, {})) \/ Aborts(t)
       \/ startParticipation(tasks[t].who, repository(t)) /\ Aborts(t)
    /\ UNCHANGED <<connection, up, sent, queue, eventBuffers, unfinished, database, client>>

\* SubscribeToPartitionContents: the subscription, then the contents.
Subscribe(t) ==
    /\ InTransaction(t, "Subscribe")
    /\ repository(t) # None
    /\ LET p == tasks[t].who
           x == Current(t).partition
       IN  IF x \in participations[p].subscribedPartitions
           THEN Aborts(t) /\ UNCHANGED participations
           ELSE /\ participations' = Subscribed(participations, {p}, {x})
                /\ Commits(t, Contents(repository(t), {x})) \/ Aborts(t)
    /\ UNCHANGED <<activeSockets, oldParticipations, nextIdNumber, connection, up, sent,
                   queue, eventBuffers, unfinished, database, client>>

ListAndSubscribe(t) ==
    /\ InTransaction(t, "ListAndSubscribe")
    /\ repository(t) # None
    /\ participations' = Subscribed(participations, {tasks[t].who}, Present(repository(t)))
    /\ Commits(t, Contents(repository(t), Partitions)) \/ Aborts(t)
    /\ UNCHANGED <<activeSockets, oldParticipations, nextIdNumber, connection, up, sent,
                   queue, eventBuffers, unfinished, database, client>>

\* The transaction takes partition x to its next version.
NextVersion(t, x, present) ==
    LET r == repository(t)
        v == database[r][x].version + 1
    IN  /\ database' = [database EXCEPT ![r][x] = [present |-> present, version |-> v]]
        /\ Commits(t, <<[kind |-> Current(t).kind, partition |-> x, version |-> v]>>)

\* Any command that changes nodes of a partition.
Change(t) ==
    /\ InTransaction(t, "Change")
    /\ Current(t).partition \in Present(repository(t))
    /\ NextVersion(t, Current(t).partition, TRUE)
    /\ UNCHANGED <<participationVars, connection, up, sent, queue, eventBuffers, unfinished,
                   client>>

\* InStep: the events are sent although the commit failed.
AddPartition_Fault(t) ==
    /\ InTransaction(t, "AddPartition")
    /\ repository(t) # None
    /\ Current(t).partition \notin Present(repository(t))
    /\ participations' =
           Subscribed(participations, {tasks[t].who}, {Current(t).partition})
    /\ LET next == [kind |-> "AddPartition", partition |-> Current(t).partition,
                    version |-> database[repository(t)][Current(t).partition].version + 1]
       IN  /\ Commits(t, <<next>>)
           /\ \/ NextVersion(t, Current(t).partition, TRUE)
              \/ UNCHANGED database
    /\ UNCHANGED <<activeSockets, oldParticipations, nextIdNumber, connection, up, sent,
                   queue, eventBuffers, unfinished, client>>

\* The client that adds a partition is subscribed to it, also when the
\* commit then fails.
AddPartition(t) ==
    /\ InTransaction(t, "AddPartition")
    /\ repository(t) # None
    /\ Current(t).partition \notin Present(repository(t))
    /\ participations' =
           Subscribed(participations, {tasks[t].who}, {Current(t).partition})
    /\ \/ NextVersion(t, Current(t).partition, TRUE)
       \/ Aborts(t) /\ UNCHANGED database
    /\ UNCHANGED <<activeSockets, oldParticipations, nextIdNumber, connection, up, sent,
                   queue, eventBuffers, unfinished, client>>

DeletePartition(t) ==
    /\ InTransaction(t, "DeletePartition")
    /\ Current(t).partition \in Present(repository(t))
    /\ NextVersion(t, Current(t).partition, FALSE)
    /\ UNCHANGED <<participationVars, connection, up, sent, queue, eventBuffers, unfinished,
                   client>>

(***************************************************************************)
(* Answers.                                                                *)
(***************************************************************************)
\* The response to a request; it may carry the contents of partitions.
RequestAnswered(t) ==
    /\ IsAt(t, "answer")
    /\ Current(t).kind \in Requests
    /\ LET contents == tasks[t].content IN
       client' = IF connection[tasks[t].socket] # "open" THEN client ELSE
           [client EXCEPT
               ![tasks[t].who].view = [x \in Partitions |->
                    IF contents[x] # None THEN contents[x] ELSE @[x]],
               ![tasks[t].who].missing = {e \in @ : contents[e[1]] = None}]
    /\ tasks' = [tasks EXCEPT ![t] = Done(t)]
    /\ UNCHANGED <<participationVars, connection, up, sent, queue, eventBuffers, unfinished,
                   database>>

Failed(t) ==
    /\ IsAt(t, "failed")
    /\ SendError(t, tasks[t].who)
    /\ tasks' = [tasks EXCEPT ![t] = Done(t)]
    /\ UNCHANGED <<activeSockets, oldParticipations, nextIdNumber, connection, up, sent,
                   queue, unfinished, database>>

changed(t) == tasks[t].content[1]

\* Every task of these kinds has events to send to the participations P.
Tell(t, kind, P, objects) ==
    /\ IsAt(t, "answer")
    /\ Current(t).kind = kind
    /\ SendWith(eventBuffers, objects, [p \in P |-> ChangeEvent(changed(t))], ownSocket)
    /\ tasks' = [tasks EXCEPT ![t] = Done(t)]
    /\ UNCHANGED <<activeSockets, oldParticipations, nextIdNumber, connection, up, sent,
                   queue, unfinished, database>>

subscribers(x) == {p \in allParticipations : x \in participations[p].subscribedPartitions}

\* The participations that asked for the creation or deletion of partitions.
changing(field) ==
    {p \in allParticipations :
        /\ participations[p].partitionChangesSubscription # None
        /\ participations[p].partitionChangesSubscription[field]}

\* sendToSubscribers().
SendToSubscribers(t) == Tell(t, "Change", subscribers(changed(t).partition), participations)

\* sendPartitionAddedEvents(): to those who asked, some of whom are subscribed
\* to the new partition by it, and to the client whose command it was.
SendPartitionAddedEvents(t) ==
    LET automatic == changing("creation") \intersect changing("autoSubscribe")
    IN  Tell(t, "AddPartition",
             changing("creation") \union
                 {p \in allParticipations : participations[p].socket = tasks[t].socket},
             Subscribed(participations, automatic, {changed(t).partition}))

\* InStepUnlessCrossing: only those who asked for deletions are told, not the subscribers.
SendPartitionDeletedEvents_Fault(t) ==
    Tell(t, "DeletePartition", changing("deletion"), participations)

\* sendPartitionDeletedEvents().
SendPartitionDeletedEvents(t) ==
    Tell(t, "DeletePartition",
         changing("deletion") \union subscribers(changed(t).partition), participations)

(***************************************************************************)
(* Composite commands.                                                     *)
(***************************************************************************)
\* CompositeCommandFunction: a new event buffer, then the parts one by one.
Composite(t) ==
    /\ Accepted(t, "Composite")
    /\ eventBuffers' = Append(eventBuffers, [p \in Sockets |-> <<>>])
    /\ tasks' = [tasks EXCEPT
           ![t].todo = Current(t).parts \o <<EndOfComposite>> \o Tail(@)]
    /\ UNCHANGED <<participationVars, connection, up, sent, queue, unfinished, database,
                   client>>

\* The end of a composite command with the buffer its events are taken from, the
\* buffers that remain, and the participations that are told.
EndsWith(t, buffer, buffers, P) ==
    /\ IsAt(t, "ready")
    /\ Current(t).kind = "End"
    /\ LET told == {p \in P : buffer[p] # <<>>}
       IN  SendWith(buffers, participations,
                    [p \in told |-> CompositeEvent(buffer[p])], ownSocket)
    /\ tasks' = [tasks EXCEPT ![t] = Done(t)]
    /\ UNCHANGED <<activeSockets, oldParticipations, nextIdNumber, connection, up, sent,
                   queue, unfinished, database>>

activeBuffer == eventBuffers[Len(eventBuffers)]

endComposite == SubSeq(eventBuffers, 1, Len(eventBuffers) - 1)

\* InStepUnlessCrossing: only the client that sent the command gets the composite event.
CompositeEnds_Originator_Fault(t) ==
    EndsWith(t, activeBuffer, endComposite, {Who(t)} \ {None})

\* BuffersBalanced: the buffer stays when the client has gone meanwhile.
CompositeEnds_Buffer_Fault(t) ==
    EndsWith(t, activeBuffer, IF Who(t) = None THEN eventBuffers ELSE endComposite,
             allParticipations)

\* All parts are done: one composite event for each active participation for
\* which events were buffered.  It goes to the buffer of the enclosing
\* composite command, if there is one.
CompositeEnds(t) == EndsWith(t, activeBuffer, endComposite, allParticipations)

(***************************************************************************)
(* Split commands.                                                         *)
(***************************************************************************)
\* addSplitCommand(): replaces an unfinished one of the same participation.
Split(t) ==
    /\ Accepted(t, "Split")
    /\ unfinished' = Over(Only(participations[Who(t)].participationId,
                              [command |-> Current(t).command, lastSequenceNumber |-> -1]),
                         unfinished)
    /\ tasks' = [tasks EXCEPT ![t] = Done(t)]
    /\ UNCHANGED <<participationVars, connection, up, sent, queue, eventBuffers, database,
                   client>>

\* addContinuedCommand(): the chunk with number n follows the ones received.
IsNextChunk(id, n) ==
    id \in DOMAIN unfinished /\ n = unfinished[id].lastSequenceNumber + 1

ContinuedRefused(t) ==
    /\ Accepted(t, "Continued")
    /\ ~IsNextChunk(participations[Who(t)].participationId, Current(t).number)
    /\ SendError(t, Who(t))
    /\ tasks' = [tasks EXCEPT ![t] = Done(t)]
    /\ UNCHANGED <<activeSockets, oldParticipations, nextIdNumber, connection, up, sent,
                   queue, unfinished, database>>

\* TypeOK: the completed command is queued under the participation that the
\* websocket has when it runs, and not under the one that sent it.
Continued_Fault(t) ==
    /\ Accepted(t, "Continued")
    /\ LET id == participations[Who(t)].participationId IN
       /\ IsNextChunk(id, Current(t).number)
       /\ unfinished' = [unfinished EXCEPT ![id].lastSequenceNumber = @ + 1]
       /\ \E d \in 1..MaxDetached :
            /\ tasks[d] = None
            /\ tasks' = [tasks EXCEPT
                 ![t] = Done(t),
                 ![d] = [NewTask(tasks[t].socket, unfinished[id].command)
                         EXCEPT !.stage = "transaction"]]
    /\ UNCHANGED <<participationVars, connection, up, sent, queue, eventBuffers, database,
                   client>>

\* The last chunk completes the command: processDelta runs for it at once, up
\* to its transaction, and is not awaited.
Continued(t) ==
    /\ Accepted(t, "Continued")
    /\ LET id == participations[Who(t)].participationId
           command == unfinished[id].command
       IN  /\ IsNextChunk(id, Current(t).number)
           /\ IF ~Current(t).completed
              THEN /\ unfinished' = [unfinished EXCEPT ![id].lastSequenceNumber = @ + 1]
                   /\ tasks' = [tasks EXCEPT ![t] = Done(t)]
              ELSE /\ unfinished' = [i \in DOMAIN unfinished \ {id} |-> unfinished[i]]
                   /\ \E d \in 1..MaxDetached :
                        /\ tasks[d] = None
                        /\ tasks' = [tasks EXCEPT
                             ![t] = Done(t),
                             ![d] = [NewTask(tasks[t].socket, command)
                                     EXCEPT !.stage = "transaction", !.who = Who(t)]]
    /\ UNCHANGED <<participationVars, connection, up, sent, queue, eventBuffers, database,
                   client>>

(***************************************************************************)
(* The specification.                                                      *)
(***************************************************************************)
ServerInit ==
    /\ connection = [s \in Sockets |-> "none"]
    /\ up = TRUE
    /\ sent = 0
    /\ queue = <<>>
    /\ tasks = [t \in TaskIds |-> None]
    /\ eventBuffers = <<>>
    /\ unfinished = <<>>
    /\ database = [r \in Repositories |-> [x \in Partitions |->
                        [present |-> FALSE, version |-> 0]]]

Init ==
    /\ ParticipationInit
    /\ ServerInit
    /\ client = [p \in Sockets |-> NewClient]

Answer(t) ==
    \/ RequestAnswered(t)
    \/ Failed(t)
    \/ SendToSubscribers(t)
    \/ SendPartitionAddedEvents(t)
    \/ SendPartitionDeletedEvents(t)

Transaction(t) ==
    \/ TransactionFails(t)
    \/ SignOn(t)
    \/ Subscribe(t)
    \/ ListAndSubscribe(t)
    \/ Change(t)
    \/ AddPartition(t)
    \/ DeletePartition(t)

Process(t) ==
    \/ NoParticipation(t)
    \/ Invalid(t)
    \/ NotSignedOn(t)
    \/ SignOff(t)
    \/ Unsubscribe(t)
    \/ SubscribeChanging(t)
    \/ Reconnect(t)
    \/ SignOnBegins(t)
    \/ TransactionBegins(t)
    \/ Composite(t)
    \/ CompositeEnds(t)
    \/ Split(t)
    \/ ContinuedRefused(t)
    \/ Continued(t)

TaskStep(t) == Process(t) \/ Transaction(t) \/ Answer(t) \/ Finish(t)

Next ==
    /\ up
    /\ \/ \E s \in Sockets : Connect(s) \/ ClientClose(s) \/ OnClose(s)
       \/ \E s \in Sockets, m \in Messages : OnMessage(s, m)
       \/ StartJob
       \/ \E t \in TaskIds : TaskStep(t)

\* Node runs what is ready, and the database answers every statement.
Fairness ==
    /\ WF_vars(up /\ StartJob)
    /\ \A t \in TaskIds : WF_vars(up /\ TaskStep(t))

Spec == Init /\ [][Next]_vars /\ Fairness
(***************************************************************************)
(* Properties.  RegistryConsistent and IdsUnique are in Participations.    *)
(***************************************************************************)
\* The types of the variables; a task that waits for its transaction, or has
\* an answer to give, belongs to a participation.
TypeOK ==
    /\ ParticipationTypeOK
    /\ connection \in [Sockets -> {"none", "open", "closing", "closed"}]
    /\ up \in BOOLEAN
    /\ sent \in 0..MaxMessages
    /\ queue \in Seq([socket : Sockets, message : Messages])
    /\ tasks \in [TaskIds -> Tasks \union {None}]
    /\ \A t \in TaskIds : tasks[t] # None =>
        IF tasks[t].stage = "ready" THEN tasks[t].who = None
                                    ELSE tasks[t].who \in created
    /\ eventBuffers \in Seq([Sockets -> Seq(Events)])
    /\ \A id \in DOMAIN unfinished :
        /\ id \in Nat /\ id < nextIdNumber
        /\ unfinished[id] \in [command : Parts, lastSequenceNumber : Int]
    /\ database \in [Repositories -> [Partitions -> [present : BOOLEAN, version : Nat]]]
    /\ client \in [Sockets -> Clients]

Idle == \A t \in TaskIds : tasks[t] = None

\* A client that signed on to a repository and whose connection never broke has,
\* whenever the server is idle, the version of the database of every partition it
\* was given: no event about a partition is missing, and none was received twice,
\* whatever the other clients did, whichever commands failed and wherever events
\* were buffered.
InStep ==
    Idle => \A p \in allParticipations :
        LET c == client[p] IN
        (/\ participations[p].repositoryData # None
         /\ connection[participations[p].socket] = "open"
         /\ ~c.away) =>
            /\ "twice" \notin c.faults
            /\ \A x \in Partitions : c.view[x] # None =>
                /\ database[participations[p].repositoryData][x] =
                       [present |-> TRUE, version |-> c.view[x]]
                /\ \A e \in c.missing : e[1] # x

\* The sequence numbers a client receives have a gap exactly when an event was
\* lost on the way to its closed websocket: over reconnects, composite events
\* and error events, a participation's numbers are neither used twice nor
\* skipped, and the lastSentSequenceNumber of a ReconnectResponse tells a loss.
NumbersTellLoss ==
    \A p \in created :
        /\ "number" \notin client[p].faults
        /\ client[p].lost <=> client[p].last # lastSequenceNumber(p)

\* No event buffer outlives its composite command, whatever became of its
\* parts and of the client that sent it: a buffer that stays would swallow
\* every later event of every client.
BuffersBalanced == Idle => eventBuffers = <<>>

\* Every message on the queue is processed to its end, so that the queue, which
\* all clients share, drains; unless the server stops.
QueueDrains == (queue # <<>>) ~> (queue = <<>> \/ ~up)

\* "connected => disconnected" is an allowed transition of a participation
\* (participations.ts): a client that closes its connection leaves the server
\* running, also before it signed on.
ServerStaysUp == up

\* The partitions of which task t has still to tell: whose contents its response
\* has, or that its command changed.
Untold(t) ==
    IF ~IsAt(t, "answer") THEN {}
    ELSE IF Current(t).kind \in Requests
         THEN {x \in Partitions : tasks[t].content[x] # None}
         ELSE {changed(t).partition}

\* Two tasks, of which one runs a split command, have both committed and have still
\* to tell of one partition, and one of them gives its contents: what reaches a
\* client first need not be what was committed first.
Crossing ==
    \E t, u \in TaskIds :
        /\ t # u /\ Untold(t) \intersect Untold(u) # {}
        /\ Current(t).kind \in Requests \union {"AddPartition"}

\* InStep for split commands that run beside the queue, in whatever order they and
\* the messages of the queue commit and tell: only where the contents of a partition
\* and a change of it cross on the way can a client fall behind.
InStepUnlessCrossing == []~Crossing => []InStep

\* "The RequestQueue keeps a queue of all requests done to the server and executes
\* them one by one in the order they are put into the queue (FIFO)"
\* (RequestQueue.ts): no two executions of processDelta for messages of the queue
\* overlap.
OneAtATime ==
    \A t, u \in {v \in TaskIds : tasks[v] # None /\ tasks[v].todo # <<>>} : t = u
================================================================================
