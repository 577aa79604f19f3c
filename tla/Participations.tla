----------------------------- MODULE Participations -----------------------------
(***************************************************************************)
(* The participations of the delta server: which websocket belongs to      *)
(* which participation, and what the server remembers of each one          *)
(* (packages/delta-server/src/delta/participation/participations.ts).      *)
(*                                                                         *)
(* A Participation object is made for each websocket that connects, and    *)
(* moves to another websocket when a client reconnects.  It is named here  *)
(* by the websocket it was made for.  Module DeltaServer says when these   *)
(* operations run.                                                         *)
(*                                                                         *)
(* An operator X_Fault is X with one plausible mistake, which the property *)
(* named beside it must notice.                                            *)
(***************************************************************************)
EXTENDS Naturals, FiniteSets

CONSTANTS
    Sockets,             \* the websockets clients open
    Partitions,          \* ids of partitions
    Repositories,        \* the repositories of the server
    None                 \* undefined

ASSUME NoneAssumption ==
    None \notin Sockets \union Repositories

VARIABLES
    activeSockets,       \* Map from an open websocket to its participation
    oldParticipations,   \* those whose websocket closed, kept for reconnecting
    nextIdNumber,        \* Participation.nextIdNumber
    participations       \* the fields of every Participation object

participationVars == <<activeSockets, oldParticipations, nextIdNumber, participations>>

Statuses == {"connected", "signedOn"}       \* those the code ever assigns

\* ChangingPartitionsSubscription; the depth only selects nodes of a message.
Subscription == [creation : BOOLEAN, deletion : BOOLEAN, autoSubscribe : BOOLEAN]

Participation == [
    socket : Sockets,
    participationId : Nat,
    participationStatus : Statuses,
    repositoryData : Repositories \union {None},
    eventSequenceNumber : Nat \ {0},
    subscribedPartitions : SUBSET Partitions,
    partitionChangesSubscription : Subscription \union {None}]

\* The place of an object that is not made yet.
NotCreated == [
    socket |-> None,
    participationId |-> None,
    participationStatus |-> None,
    repositoryData |-> None,
    eventSequenceNumber |-> 1,
    subscribedPartitions |-> {},
    partitionChangesSubscription |-> None]

created == {p \in Sockets : participations[p].socket # None}

(***************************************************************************)
(* ParticipationAdmin.                                                     *)
(***************************************************************************)
\* The object constructed for socket s; the constructor takes the next id.
FreshParticipation(s) == [
    socket |-> s,
    participationId |-> nextIdNumber,
    participationStatus |-> "connected",
    repositoryData |-> None,
    eventSequenceNumber |-> 1,
    subscribedPartitions |-> {},
    partitionChangesSubscription |-> None]

newParticipation(s) ==
    /\ participations' = [participations EXCEPT ![s] = FreshParticipation(s)]
    /\ nextIdNumber' = nextIdNumber + 1
    /\ activeSockets' = [activeSockets EXCEPT ![s] = s]
    /\ UNCHANGED oldParticipations

getParticipation(s) == activeSockets[s]

deleteParticipation(s) ==
    /\ activeSockets' = [activeSockets EXCEPT ![s] = None]
    /\ oldParticipations' = oldParticipations \union ({activeSockets[s]} \ {None})
    /\ UNCHANGED <<nextIdNumber, participations>>

allParticipations == {activeSockets[s] : s \in Sockets} \ {None}

findOldParticipation(id) ==
    {p \in oldParticipations : participations[p].participationId = id}

\* RegistryConsistent: the participation keeps its place among the old ones.
reconnect_Fault(s, p) ==
    /\ participations' = [participations EXCEPT ![p].socket = s]
    /\ activeSockets' = [activeSockets EXCEPT ![s] = p]
    /\ UNCHANGED <<oldParticipations, nextIdNumber>>

\* NumbersTellLoss: a participation that reconnects is numbered from 1 again.
reconnect_Renumber_Fault(s, p) ==
    /\ oldParticipations' = oldParticipations \ {p}
    /\ participations' = [participations EXCEPT ![p].socket = s,
                                                ![p].eventSequenceNumber = 1]
    /\ activeSockets' = [activeSockets EXCEPT ![s] = p]
    /\ UNCHANGED nextIdNumber

\* The websocket s is now that of the old participation p; the participation
\* made when s connected is dropped.
reconnect(s, p) ==
    /\ oldParticipations' = oldParticipations \ {p}
    /\ participations' = [participations EXCEPT ![p].socket = s]
    /\ activeSockets' = [activeSockets EXCEPT ![s] = p]
    /\ UNCHANGED nextIdNumber

(***************************************************************************)
(* The methods of Participation.                                           *)
(***************************************************************************)
\* IdsUnique: signing on resets the numbering of ids.
startParticipation_Fault(p, r) ==
    /\ participations' =
           [participations EXCEPT ![p].participationId = 0,
                                  ![p].participationStatus = "signedOn",
                                  ![p].repositoryData = r]
    /\ nextIdNumber' = 1
    /\ UNCHANGED <<activeSockets, oldParticipations>>

\* startParticipation(): a participation gets a new id whenever it signs on.
startParticipation(p, r) ==
    /\ participations' =
           [participations EXCEPT ![p].participationId = nextIdNumber,
                                  ![p].participationStatus = "signedOn",
                                  ![p].repositoryData = r]
    /\ nextIdNumber' = nextIdNumber + 1
    /\ UNCHANGED <<activeSockets, oldParticipations>>

lastSequenceNumber(p) == participations[p].eventSequenceNumber - 1

\* nextSequenceNumber() called n[p] times for each participation p.
Numbered(objects, n) ==
    [p \in Sockets |-> [objects[p] EXCEPT !.eventSequenceNumber = @ + n[p]]]

\* subscribedPartitions.add(x) for each x in X and each participation in P.
Subscribed(objects, P, X) ==
    [p \in Sockets |-> IF p \notin P THEN objects[p]
                       ELSE [objects[p] EXCEPT !.subscribedPartitions = @ \union X]]

\* validateParticipation() for a message that is neither a sign-on, a
\* reconnect nor a sign-off.
MayAct(p) == participations[p].participationStatus = "signedOn"

ParticipationInit ==
    /\ activeSockets = [s \in Sockets |-> None]
    /\ oldParticipations = {}
    /\ nextIdNumber = 0
    /\ participations = [s \in Sockets |-> NotCreated]

ParticipationTypeOK ==
    /\ activeSockets \in [Sockets -> Sockets \union {None}]
    /\ oldParticipations \subseteq created
    /\ nextIdNumber \in Nat
    /\ participations \in [Sockets -> Participation \union {NotCreated}]
    /\ allParticipations \subseteq created

(***************************************************************************)
(* Properties.                                                             *)
(***************************************************************************)
\* activeSockets and Participation.socket are inverse to each other, and no
\* participation is both active and old: an event for a participation goes to
\* the websocket its client uses now, and goes there once.
RegistryConsistent ==
    \A s \in Sockets : activeSockets[s] # None =>
        /\ participations[activeSockets[s]].socket = s
        /\ activeSockets[s] \notin oldParticipations

\* Participation ids name one participation, so a reconnect finds the
\* participation of the client that asks and a split command is continued by
\* the client that began it.
IdsUnique ==
    \A p, q \in created :
        participations[p].participationId = participations[q].participationId => p = q
================================================================================
