----------------------------- MODULE MCDeltaServer -----------------------------
(***************************************************************************)
(* Instances of DeltaServer for model checking: the messages the clients   *)
(* of each run may send, and the state in which the clients of some runs   *)
(* begin.                                                                  *)
(***************************************************************************)
EXTENDS DeltaServer

CONSTANTS s1, s2, x1, r1

On(kind) == [kind |-> kind, partition |-> x1]

Subscriptions(creation, deletion, autoSubscribe) ==
    [kind |-> "SubscribeChanging", subscription |->
        [creation |-> creation, deletion |-> deletion, autoSubscribe |-> autoSubscribe]]

SignOnMessage == [kind |-> "SignOn", repository |-> r1]

\* Sign-on, sign-off, reconnects to each participation that may exist, and a
\* command that fails or changes the partition.
SessionMessages ==
    {SignOnMessage, [kind |-> "SignOff"], On("AddPartition")}
        \union {[kind |-> "Reconnect", id |-> id] : id \in {0, 2}}

CompositeOf(parts) == [kind |-> "Composite", parts |-> parts]

InnerCommands ==
    {On(k) : k \in PartitionCommands} \union {CompositeOf(<<On("AddPartition")>>)}

\* A composite command that contains another one, with parts that may fail, a split
\* command with its chunks, and a message that is refused.
CommandMessages ==
    {CompositeOf(<<On("Change"), CompositeOf(<<On("AddPartition")>>),
                   On("DeletePartition")>>),
     [kind |-> "Split", command |-> On("Change")],
     [kind |-> "Invalid"]}
        \union {[kind |-> "Continued", number |-> c[1], completed |-> c[2]] :
                    c \in {<<0, FALSE>>, <<0, TRUE>>, <<1, TRUE>>}}

\* Everything that gives a client the contents of a partition, changes it or takes it
\* away, beside split commands.
SharingMessages ==
    {On(k) : k \in {"Subscribe", "Unsubscribe", "ListAndSubscribe"}
                       \union PartitionCommands}
        \union {Subscriptions(TRUE, TRUE, TRUE), Subscriptions(TRUE, FALSE, FALSE)}
        \union {[kind |-> "Split", command |-> On(k)] : k \in {"Change", "AddPartition"}}
        \union {[kind |-> "Continued", number |-> 0, completed |-> TRUE]}

\* Every client is connected, signed on to r1 and subscribed to its one
\* partition x1: the state after the clients connected, signed on in the same
\* order, and listed and subscribed the partitions.
SignedOnInit ==
    /\ connection = [s \in Sockets |-> "open"]
    /\ activeSockets = [s \in Sockets |-> s]
    /\ oldParticipations = {}
    /\ nextIdNumber = 4
    /\ participations = [s \in Sockets |-> [
           socket |-> s,
           participationId |-> IF s = s1 THEN 2 ELSE 3,
           participationStatus |-> "signedOn",
           repositoryData |-> r1,
           eventSequenceNumber |-> 1,
           subscribedPartitions |-> {x1},
           partitionChangesSubscription |-> None]]
    /\ up = TRUE
    /\ sent = 0
    /\ queue = <<>>
    /\ tasks = [t \in TaskIds |-> None]
    /\ eventBuffers = <<>>
    /\ unfinished = <<>>
    /\ database = [r \in Repositories |-> [x \in Partitions |->
                        [present |-> TRUE, version |-> 1]]]
    /\ client = [p \in Sockets |-> [NewClient EXCEPT !.view = [x \in Partitions |-> 1]]]

SignedOnSpec == SignedOnInit /\ [][Next]_vars /\ Fairness
================================================================================
