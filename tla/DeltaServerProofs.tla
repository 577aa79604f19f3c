--------------------------- MODULE DeltaServerProofs ---------------------------
(***************************************************************************)
(* Proofs about DeltaServer, for any number of clients, messages and       *)
(* tasks, in every interleaving: the registry of participations is         *)
(* consistent and participation ids are unique; the variables have their   *)
(* types; every client notices that it lost an event; no buffer of a       *)
(* composite command stays behind; and clients keep up with the database   *)
(* while one message is processed at a time.                               *)
(*                                                                         *)
(* RegistryConsistent is not inductive: that a new connection disturbs no  *)
(* participation needs that the object of a websocket that never connected *)
(* is not in use; that a reconnect does not give a participation two       *)
(* websockets needs that the old participations are none of the active     *)
(* ones; that a new id is fresh needs that all ids in use were given out.  *)
(*                                                                         *)
(* Nor are the others. A buffer goes with its composite command because    *)
(* the queue's job still has the ends of all that were begun before it, in *)
(* the order of the buffers, and because no other job, whatever split      *)
(* command it completes, has a composite command to do. The number an      *)
(* event gets is the one its client expects because the participation      *)
(* counts what it is sent whether or not it arrives, which needs that a    *)
(* task that answers a client does so for a participation that was         *)
(* created.                                                                *)
(*                                                                         *)
(* A client keeps up because at any moment what is buffered for it, and    *)
(* what the task that committed has still to tell, lead from what it has   *)
(* to the version of the database (Follows). Events are told to those who  *)
(* are subscribed when they are told, so it also matters who gets          *)
(* subscribed while events wait in a buffer, and that a request, which     *)
(* changes subscriptions, is no part of a composite command.               *)
(***************************************************************************)
EXTENDS DeltaServer, Induction, SequenceTheorems, TLAPS

Fields == {"socket", "participationId", "participationStatus", "repositoryData",
           "eventSequenceNumber", "subscribedPartitions", "partitionChangesSubscription"}

\* Every element is a Participation object with its fields.
Objects ==
    /\ DOMAIN participations = Sockets
    /\ \A p \in Sockets : DOMAIN participations[p] = Fields

IdsGivenOut ==
    /\ nextIdNumber \in Nat
    /\ \A p \in created : /\ participations[p].participationId \in Nat
                          /\ participations[p].participationId < nextIdNumber

Registered ==
    /\ activeSockets \in [Sockets -> Sockets \union {None}]
    /\ allParticipations \subseteq created
    /\ oldParticipations \subseteq created

\* A websocket that did not connect has no participation.
FreshSockets ==
    /\ DOMAIN connection = Sockets
    /\ \A s \in Sockets : connection[s] = "none" => s \notin created

\* The inductive invariant.
RegistryInv ==
    /\ Objects
    /\ IdsGivenOut
    /\ IdsUnique
    /\ Registered
    /\ RegistryConsistent
    /\ FreshSockets

\* A step that leaves the registry alone: it may change other fields of the
\* participations, and websockets may close.
RegistryKept ==
    /\ DOMAIN participations' = Sockets
    /\ \A p \in Sockets :
        /\ DOMAIN participations'[p] = DOMAIN participations[p]
        /\ participations'[p].socket = participations[p].socket
        /\ participations'[p].participationId = participations[p].participationId
    /\ UNCHANGED <<activeSockets, oldParticipations, nextIdNumber>>
    /\ DOMAIN connection' = Sockets
    /\ \A s \in Sockets : connection'[s] = "none" => connection[s] = "none"

(***************************************************************************)
(* The initial state.                                                      *)
(***************************************************************************)
LEMMA InitRegistry == Init => RegistryInv
BY DEF Init, ParticipationInit, ServerInit, NotCreated, RegistryInv, Objects, Fields,
       IdsGivenOut, IdsUnique, Registered, RegistryConsistent, FreshSockets, created,
       allParticipations

(***************************************************************************)
(* Steps that leave the registry alone.                                    *)
(***************************************************************************)
LEMMA KeptRegistry == RegistryInv /\ RegistryKept => RegistryInv'
<1> SUFFICES ASSUME RegistryInv, RegistryKept PROVE RegistryInv'
    OBVIOUS
<1>1. created' = created
    BY DEF RegistryKept, created
<1>2. Objects'
    BY DEF RegistryInv, RegistryKept, Objects
<1>3. IdsGivenOut' /\ IdsUnique'
    BY <1>1 DEF RegistryInv, RegistryKept, IdsGivenOut, IdsUnique, created
<1>4. Registered'
    BY <1>1 DEF RegistryInv, RegistryKept, Registered, allParticipations
<1>5. RegistryConsistent'
    BY DEF RegistryInv, RegistryKept, Registered, RegistryConsistent
<1>6. FreshSockets'
    BY <1>1 DEF RegistryInv, RegistryKept, FreshSockets
<1> QED
    BY <1>2, <1>3, <1>4, <1>5, <1>6 DEF RegistryInv
\* sendDelta changes the numbering of participations only.
LEMMA SendKeepsObjects ==
    ASSUME NEW buffers, NEW objects, NEW events, NEW socketOf,
           SendWith(buffers, objects, events, socketOf),
           DOMAIN objects = Sockets,
           \A p \in Sockets :
               /\ DOMAIN objects[p] = Fields
               /\ objects[p].socket = participations[p].socket
               /\ objects[p].participationId = participations[p].participationId
    PROVE  /\ DOMAIN participations' = Sockets
           /\ \A p \in Sockets :
               /\ DOMAIN participations'[p] = Fields
               /\ participations'[p].socket = participations[p].socket
               /\ participations'[p].participationId = participations[p].participationId
<1> DEFINE n == [p \in Sockets |-> IF p \in DOMAIN events THEN events[p].size ELSE 0]
<1>1. participations' = objects \/ participations' = Numbered(objects, n)
    BY DEF SendWith
<1>2. CASE participations' = objects
    BY <1>2
<1>3. CASE participations' = Numbered(objects, n)
    <2> HIDE DEF n
    <2> QED
        BY <1>3 DEF Numbered, Fields
<1> QED
    BY <1>1, <1>2, <1>3

\* subscribedPartitions.add changes the subscriptions only.
LEMMA SubscribedKeepsObjects ==
    ASSUME NEW P, NEW X, Objects
    PROVE  LET objects == Subscribed(participations, P, X) IN
           /\ DOMAIN objects = Sockets
           /\ \A p \in Sockets :
               /\ DOMAIN objects[p] = Fields
               /\ objects[p].socket = participations[p].socket
               /\ objects[p].participationId = participations[p].participationId
BY DEF Subscribed, Objects, Fields

\* An old participation that becomes active again keeps its id, and is no
\* longer old.
LEMMA ReconnectRegistry ==
    ASSUME RegistryInv, UNCHANGED connection, NEW s, NEW p \in oldParticipations,
           reconnect(s, p)
    PROVE  RegistryInv'
<1> USE DEF RegistryInv
<1>1. p \in created /\ created \subseteq Sockets
    BY DEF Registered, created
<1>2. /\ DOMAIN participations' = Sockets
      /\ \A q \in Sockets : /\ DOMAIN participations'[q] = Fields
                            /\ participations'[q].socket =
                                  IF q = p THEN s ELSE participations[q].socket
                            /\ participations'[q].participationId =
                                  participations[q].participationId
    BY <1>1 DEF reconnect, Objects, Fields
<1>3. created' \subseteq created /\ \A q \in created : q # p => q \in created'
    BY <1>1, <1>2 DEF created
<1>4. Objects'
    BY <1>2 DEF Objects
<1>5. IdsGivenOut' /\ IdsUnique'
    BY <1>1, <1>2, <1>3 DEF reconnect, IdsGivenOut, IdsUnique
<1>6. FreshSockets'
    BY <1>3 DEF FreshSockets
<1>7. CASE s \in Sockets
    <2>1. s # None
        BY <1>7, NoneAssumption
    <2>2. created' = created
        BY <1>1, <1>2, <1>3, <2>1 DEF created
    <2>3. /\ activeSockets' \in [Sockets -> Sockets \union {None}]
          /\ \A u \in Sockets : activeSockets'[u] = IF u = s THEN p ELSE activeSockets[u]
        BY <1>1, <1>7 DEF reconnect, Registered
    <2>4. Registered'
        BY <2>2, <2>3, <1>1 DEF reconnect, Registered, allParticipations
    <2>5. RegistryConsistent'
        <3> SUFFICES ASSUME NEW u \in Sockets, activeSockets'[u] # None
                     PROVE  /\ participations'[activeSockets'[u]].socket = u
                            /\ activeSockets'[u] \notin oldParticipations'
            BY DEF RegistryConsistent
        <3>1. CASE u = s
            BY <3>1, <2>3, <1>1, <1>2 DEF reconnect
        <3>2. CASE u # s
            BY <3>2, <2>3, <1>2 DEF reconnect, RegistryConsistent, Registered
        <3> QED BY <3>1, <3>2
    <2> QED BY <1>4, <1>5, <1>6, <2>4, <2>5
<1>8. CASE s \notin Sockets
    <2>1. activeSockets' = activeSockets
        BY <1>8 DEF reconnect, Registered
    <2>2. \A u \in Sockets : activeSockets[u] # p
        BY <1>1, NoneAssumption DEF RegistryConsistent
    <2>3. allParticipations \subseteq created' /\ oldParticipations' \subseteq created'
        BY <2>2, <1>3 DEF reconnect, Registered, allParticipations
    <2>4. Registered'
        BY <2>1, <2>3 DEF Registered, allParticipations
    <2>5. RegistryConsistent'
        <3> SUFFICES ASSUME NEW u \in Sockets, activeSockets[u] # None
                     PROVE  /\ participations'[activeSockets[u]].socket = u
                            /\ activeSockets[u] \notin oldParticipations'
            BY <2>1 DEF RegistryConsistent
        <3>1. activeSockets[u] \in Sockets /\ activeSockets[u] # p
            BY <2>2 DEF Registered
        <3> QED BY <3>1, <1>2 DEF reconnect, RegistryConsistent
    <2> QED BY <2>4, <2>5, <1>4, <1>5, <1>6
<1> QED BY <1>7, <1>8

\* A participation that signs on gets an id that no other one has.
LEMMA StartRegistry ==
    ASSUME RegistryInv, UNCHANGED connection, NEW p, NEW r, startParticipation(p, r)
    PROVE  RegistryInv'
<1> USE DEF RegistryInv
<1>1. /\ DOMAIN participations' = Sockets
      /\ \A q \in Sockets : /\ DOMAIN participations'[q] = Fields
                            /\ participations'[q].socket = participations[q].socket
                            /\ participations'[q].participationId =
                                  IF q = p THEN nextIdNumber
                                           ELSE participations[q].participationId
    BY DEF startParticipation, Objects, Fields
<1>2. created' = created
    BY <1>1 DEF created
<1>3. Objects'
    BY <1>1 DEF Objects
<1>4. IdsGivenOut'
    BY <1>1, <1>2 DEF startParticipation, IdsGivenOut, created
<1>5. IdsUnique'
    BY <1>1, <1>2 DEF startParticipation, IdsGivenOut, IdsUnique, created
<1>6. Registered' /\ RegistryConsistent' /\ FreshSockets'
    BY <1>1, <1>2
    DEF startParticipation, Registered, RegistryConsistent, FreshSockets, allParticipations
<1> QED BY <1>3, <1>4, <1>5, <1>6

\* The steps of processDelta before a transaction.
LEMMA ProcessRegistry ==
    ASSUME RegistryInv, NEW t \in TaskIds, Process(t)
    PROVE  RegistryInv'
<1> USE DEF RegistryInv
<1> HIDE DEF Objects
<1>0. Objects /\ DOMAIN connection = Sockets
    BY DEF FreshSockets
<1>1. CASE NoParticipation(t)
    BY <1>1, <1>0, KeptRegistry DEF NoParticipation, RegistryKept, participationVars, Objects
<1>2. CASE NotSignedOn(t)
    <2>1. RegistryKept
        BY <1>2, <1>0, SendKeepsObjects
        DEF NotSignedOn, SendError, Send, RegistryKept, Objects
    <2> QED BY <2>1, KeptRegistry
<1>3. CASE SignOff(t)
    <2>1. RegistryKept
        BY <1>3, <1>0 DEF SignOff, RegistryKept, Objects, Fields
    <2> QED BY <2>1, KeptRegistry
<1>4. CASE Unsubscribe(t)
    <2>1. RegistryKept
        BY <1>4, <1>0 DEF Unsubscribe, RegistryKept, Objects, Fields
    <2> QED BY <2>1, KeptRegistry
<1>5. CASE SubscribeChanging(t)
    <2>1. RegistryKept
        BY <1>5, <1>0 DEF SubscribeChanging, RegistryKept, Objects, Fields
    <2> QED BY <2>1, KeptRegistry
<1>6. CASE Reconnect(t)
    <2>1. CASE UNCHANGED <<participationVars, client>>
        BY <2>1, <1>6, <1>0, KeptRegistry
        DEF Reconnect, RegistryKept, participationVars, Objects
    <2>2. CASE \E p \in oldParticipations : reconnect(tasks[t].socket, p)
        BY <2>2, <1>6, ReconnectRegistry DEF Reconnect
    <2> QED
        BY <2>1, <2>2, <1>6 DEF Reconnect, findOldParticipation
<1>7. CASE SignOnBegins(t)
    <2>1. RegistryKept
        BY <1>7, <1>0 DEF SignOnBegins, RegistryKept, Objects, Fields
    <2> QED BY <2>1, KeptRegistry
<1>8. CASE TransactionBegins(t)
    BY <1>8, <1>0, KeptRegistry DEF TransactionBegins, RegistryKept, participationVars, Objects
<1>9. CASE Composite(t)
    BY <1>9, <1>0, KeptRegistry DEF Composite, RegistryKept, participationVars, Objects
<1>10. CASE CompositeEnds(t)
    <2>1. RegistryKept
        BY <1>10, <1>0, SendKeepsObjects DEF CompositeEnds, EndsWith, RegistryKept, Objects
    <2> QED BY <2>1, KeptRegistry
<1>11. CASE Split(t)
    BY <1>11, <1>0, KeptRegistry DEF Split, RegistryKept, participationVars, Objects
<1>12. CASE ContinuedRefused(t)
    <2>1. RegistryKept
        BY <1>12, <1>0, SendKeepsObjects
        DEF ContinuedRefused, SendError, Send, RegistryKept, Objects
    <2> QED BY <2>1, KeptRegistry
<1>13. CASE Continued(t)
    BY <1>13, <1>0, KeptRegistry DEF Continued, RegistryKept, participationVars, Objects
<1>14. CASE Invalid(t)
    <2>1. RegistryKept
        BY <1>14, <1>0, SendKeepsObjects DEF Invalid, SendError, Send, RegistryKept, Objects
    <2> QED BY <2>1, KeptRegistry
<1> QED
    BY <1>1, <1>2, <1>3, <1>4, <1>5, <1>6, <1>7, <1>8, <1>9, <1>10, <1>11, <1>12, <1>13,
       <1>14
    DEF Process
\* The transactions.
LEMMA TransactionRegistry ==
    ASSUME RegistryInv, NEW t \in TaskIds, Transaction(t)
    PROVE  RegistryInv'
<1>0. Objects /\ DOMAIN connection = Sockets
    BY DEF RegistryInv, FreshSockets
<1>1. CASE TransactionFails(t)
    BY <1>1, <1>0, KeptRegistry DEF TransactionFails, RegistryKept, participationVars, Objects
<1>2. CASE SignOn(t)
    <2>1. PICK r : startParticipation(tasks[t].who, r)
        BY <1>2 DEF SignOn
    <2> QED
        BY <1>2, <2>1, StartRegistry DEF SignOn
<1>3. CASE Subscribe(t)
    <2>1. RegistryKept
        BY <1>3, <1>0, SubscribedKeepsObjects DEF Subscribe, RegistryKept, Objects
    <2> QED BY <2>1, KeptRegistry
<1>4. CASE ListAndSubscribe(t)
    <2>1. RegistryKept
        BY <1>4, <1>0, SubscribedKeepsObjects DEF ListAndSubscribe, RegistryKept, Objects
    <2> QED BY <2>1, KeptRegistry
<1>5. CASE Change(t)
    BY <1>5, <1>0, KeptRegistry DEF Change, RegistryKept, participationVars, Objects
<1>6. CASE AddPartition(t)
    <2>1. RegistryKept
        BY <1>6, <1>0, SubscribedKeepsObjects DEF AddPartition, RegistryKept, Objects
    <2> QED BY <2>1, KeptRegistry
<1>7. CASE DeletePartition(t)
    BY <1>7, <1>0, KeptRegistry DEF DeletePartition, RegistryKept, participationVars, Objects
<1> QED
    BY <1>1, <1>2, <1>3, <1>4, <1>5, <1>6, <1>7 DEF Transaction

\* The answers.
LEMMA AnswerRegistry ==
    ASSUME RegistryInv, NEW t \in TaskIds, Answer(t)
    PROVE  RegistryInv'
<1>0. Objects /\ DOMAIN connection = Sockets
    BY DEF RegistryInv, FreshSockets
<1>1. CASE RequestAnswered(t)
    BY <1>1, <1>0, KeptRegistry DEF RequestAnswered, RegistryKept, participationVars, Objects
<1>2. CASE Failed(t)
    <2>1. RegistryKept
        BY <1>2, <1>0, SendKeepsObjects DEF Failed, SendError, Send, RegistryKept, Objects
    <2> QED BY <2>1, KeptRegistry
<1>3. CASE SendToSubscribers(t)
    <2>1. RegistryKept
        BY <1>3, <1>0, SendKeepsObjects DEF SendToSubscribers, Tell, RegistryKept, Objects
    <2> QED BY <2>1, KeptRegistry
<1>4. CASE SendPartitionAddedEvents(t)
    <2>1. RegistryKept
        BY <1>4, <1>0, SendKeepsObjects, SubscribedKeepsObjects
        DEF SendPartitionAddedEvents, Tell, RegistryKept, Objects
    <2> QED BY <2>1, KeptRegistry
<1>5. CASE SendPartitionDeletedEvents(t)
    <2>1. RegistryKept
        BY <1>5, <1>0, SendKeepsObjects
        DEF SendPartitionDeletedEvents, Tell, RegistryKept, Objects
    <2> QED BY <2>1, KeptRegistry
<1> QED
    BY <1>1, <1>2, <1>3, <1>4, <1>5 DEF Answer

(***************************************************************************)
(* The websockets.                                                         *)
(***************************************************************************)
LEMMA ConnectRegistry ==
    ASSUME RegistryInv, NEW s \in Sockets, Connect(s)
    PROVE  RegistryInv'
<1> USE DEF RegistryInv
<1>1. s \notin created
    BY DEF Connect, FreshSockets
<1>2. /\ DOMAIN participations' = Sockets
      /\ \A q \in Sockets : q # s => participations'[q] = participations[q]
      /\ participations'[s] = FreshParticipation(s)
      /\ nextIdNumber' = nextIdNumber + 1
      /\ oldParticipations' = oldParticipations
    BY DEF Connect, newParticipation, Objects
<1>3. /\ DOMAIN participations'[s] = Fields
      /\ participations'[s].socket = s
      /\ participations'[s].participationId = nextIdNumber
    BY <1>2 DEF FreshParticipation, Fields
<1>4. created' = created \union {s}
    BY <1>2, <1>3, NoneAssumption DEF created
<1>5. /\ activeSockets' \in [Sockets -> Sockets \union {None}]
      /\ \A u \in Sockets : activeSockets'[u] = IF u = s THEN s ELSE activeSockets[u]
    BY DEF Connect, newParticipation, Registered
<1>6. Objects'
    BY <1>2, <1>3 DEF Objects
<1>7. IdsGivenOut'
    BY <1>2, <1>3, <1>4 DEF IdsGivenOut, created
<1>8. IdsUnique'
    BY <1>2, <1>3, <1>4 DEF IdsGivenOut, IdsUnique, created
<1>9. Registered'
    BY <1>2, <1>4, <1>5 DEF Registered, allParticipations
<1>10. RegistryConsistent'
    <2> SUFFICES ASSUME NEW u \in Sockets, activeSockets'[u] # None
                 PROVE  /\ participations'[activeSockets'[u]].socket = u
                        /\ activeSockets'[u] \notin oldParticipations'
        BY DEF RegistryConsistent
    <2>1. CASE u = s
        BY <2>1, <1>1, <1>2, <1>3, <1>5 DEF Registered
    <2>2. CASE u # s
        <3>1. activeSockets[u] \in created /\ activeSockets'[u] = activeSockets[u]
            BY <2>2, <1>5 DEF Registered, allParticipations
        <3> QED BY <3>1, <1>1, <1>2 DEF RegistryConsistent, created
    <2> QED BY <2>1, <2>2
<1>11. FreshSockets'
    BY <1>4 DEF Connect, FreshSockets
<1> QED BY <1>6, <1>7, <1>8, <1>9, <1>10, <1>11

\* The connection ends at the client's side.
LEMMA ClientCloseRegistry ==
    ASSUME RegistryInv, NEW s \in Sockets, ClientClose(s)
    PROVE  RegistryInv'
<1>1. RegistryKept
    BY DEF ClientClose, RegistryInv, RegistryKept, participationVars, Objects, FreshSockets
<1> QED BY <1>1, KeptRegistry

\* A websocket whose participation becomes an old one.
LEMMA OnCloseRegistry ==
    ASSUME RegistryInv, NEW s \in Sockets, OnClose(s)
    PROVE  RegistryInv'
<1>1. CASE UNCHANGED participationVars
    <2>1. RegistryKept
        BY <1>1
        DEF OnClose, RegistryInv, RegistryKept, participationVars, Objects, FreshSockets
    <2> QED BY <2>1, KeptRegistry
<1>2. CASE deleteParticipation(s)
    <2> USE DEF RegistryInv
    <2>1. created' = created /\ UNCHANGED <<participations, nextIdNumber>>
        BY <1>2 DEF deleteParticipation, created
    <2>2. /\ activeSockets' \in [Sockets -> Sockets \union {None}]
          /\ activeSockets'[s] = None
          /\ \A u \in Sockets : u # s => activeSockets'[u] = activeSockets[u]
        BY <1>2 DEF deleteParticipation, Registered
    <2>3. Registered'
        BY <1>2, <2>1, <2>2 DEF deleteParticipation, Registered, allParticipations
    <2>4. RegistryConsistent'
        <3> SUFFICES ASSUME NEW u \in Sockets, activeSockets'[u] # None
                     PROVE  /\ participations'[activeSockets'[u]].socket = u
                            /\ activeSockets'[u] \notin oldParticipations'
            BY DEF RegistryConsistent
        <3>1. u # s /\ activeSockets'[u] = activeSockets[u]
            BY <2>2
        <3>2. activeSockets[u] # activeSockets[s]
            BY <3>1 DEF RegistryConsistent
        <3> QED
            BY <1>2, <2>1, <3>1, <3>2 DEF deleteParticipation, RegistryConsistent
    <2>5. Objects' /\ IdsGivenOut' /\ IdsUnique' /\ FreshSockets'
        BY <2>1 DEF Objects, IdsGivenOut, IdsUnique, FreshSockets, OnClose
    <2> QED BY <2>3, <2>4, <2>5
<1> QED
    BY <1>1, <1>2 DEF OnClose, participationVars

(***************************************************************************)
(* The theorems.                                                           *)
(***************************************************************************)
\* Every step keeps the inductive invariant.
LEMMA NextRegistry == RegistryInv /\ [Next]_vars => RegistryInv'
<1> SUFFICES ASSUME RegistryInv, [Next]_vars PROVE RegistryInv'
    OBVIOUS
<1>0. Objects /\ DOMAIN connection = Sockets
    BY DEF RegistryInv, FreshSockets
<1>1. ASSUME NEW s \in Sockets, Connect(s) PROVE RegistryInv'
    BY <1>1, ConnectRegistry
<1>2. ASSUME NEW s \in Sockets, ClientClose(s) PROVE RegistryInv'
    BY <1>2, ClientCloseRegistry
<1>3. ASSUME NEW s \in Sockets, OnClose(s) PROVE RegistryInv'
    BY <1>3, OnCloseRegistry
<1>4. ASSUME NEW s \in Sockets, NEW m \in Messages, OnMessage(s, m) PROVE RegistryInv'
    BY <1>4, <1>0, KeptRegistry DEF OnMessage, RegistryKept, participationVars, Objects
<1>5. CASE StartJob
    BY <1>5, <1>0, KeptRegistry DEF StartJob, RegistryKept, participationVars, Objects
<1>6. ASSUME NEW t \in TaskIds, Finish(t) PROVE RegistryInv'
    BY <1>6, <1>0, KeptRegistry DEF Finish, RegistryKept, participationVars, Objects
<1>7. ASSUME NEW t \in TaskIds, TaskStep(t) PROVE RegistryInv'
    BY <1>6, <1>7, ProcessRegistry, TransactionRegistry, AnswerRegistry DEF TaskStep
<1>8. CASE UNCHANGED vars
    BY <1>8, <1>0, KeptRegistry DEF vars, RegistryKept, participationVars, Objects
<1> QED
    BY <1>1, <1>2, <1>3, <1>4, <1>5, <1>7, <1>8 DEF Next

\* The inductive invariant holds in every behaviour of the server.
THEOREM RegistryInvariant == Spec => []RegistryInv
BY InitRegistry, NextRegistry, PTL DEF Spec

\* An event for a participation is sent to the websocket its client uses now,
\* and no participation is both in use and open to a reconnect, however
\* connections, sign-ons, reconnects and closes interleave with the queue.
THEOREM Registry == Spec => []RegistryConsistent
<1>1. RegistryInv => RegistryConsistent
    BY DEF RegistryInv
<1> QED BY <1>1, RegistryInvariant, PTL

\* Two participations never have the same id, so a client that reconnects gets
\* its own participation and continues its own split command.
THEOREM Ids == Spec => []IdsUnique
<1>1. RegistryInv => IdsUnique
    BY DEF RegistryInv
<1> QED BY <1>1, RegistryInvariant, PTL
--------------------------------------------------------------------------------
(***************************************************************************)
(* Events and what clients make of them.                                   *)
(***************************************************************************)
\* What the parts of a composite event come to: the function of CompositeEvent.
Joined(parts, join, i) ==
    IF i = 0 THEN [size |-> 1, changes |-> <<>>]
    ELSE [size |-> join[i - 1].size + parts[i].size,
          changes |-> join[i - 1].changes \o parts[i].changes]

IsJoin(parts, join) == join = [i \in 0..Len(parts) |-> Joined(parts, join, i)]

LEMMA JoinStays ==
    ASSUME NEW parts \in Seq(Events), NEW join, IsJoin(parts, join)
    PROVE  \A i \in 0..Len(parts) : join[i] \in Events
<1>1. Len(parts) \in Nat /\ \A i \in 1..Len(parts) : parts[i] \in Events
    BY LenProperties, ElementOfSeq
<1>2. \A i \in 0..Len(parts) : join[i] = Joined(parts, join, i)
    BY DEF IsJoin
<1>3. join[0] \in Events
    <2>1. 0 \in 0..Len(parts)
        BY <1>1
    <2>2. join[0] = [size |-> 1, changes |-> <<>>]
        BY <1>2, <2>1 DEF Joined
    <2> QED
        BY <2>2 DEF Events
<1>4. Steps(Events, Len(parts), join)
    <2> SUFFICES ASSUME NEW i \in 1..Len(parts), join[i - 1] \in Events
                 PROVE  join[i] \in Events
        BY DEF Steps
    <2>1. i \in 0..Len(parts) /\ i # 0
        BY <1>1
    <2>2. join[i] = [size |-> join[i - 1].size + parts[i].size,
                     changes |-> join[i - 1].changes \o parts[i].changes]
        BY <1>2, <2>1 DEF Joined
    <2>3. join[i - 1].size + parts[i].size \in Nat \ {0}
        BY <1>1 DEF Events
    <2>4. join[i - 1].changes \o parts[i].changes \in Seq(Changes)
        BY <1>1, ConcatProperties DEF Events
    <2> QED
        BY <2>2, <2>3, <2>4 DEF Events
<1> QED
    BY <1>1, <1>3, <1>4, StaysIn

LEMMA JoinExists ==
    ASSUME NEW parts \in Seq(Events)
    PROVE  \E join : IsJoin(parts, join)
<1> DEFINE m == Len(parts)
           first == [size |-> 1, changes |-> <<>>]
           step == [x \in Events \X (1..m) |->
                        [size |-> x[1].size + parts[x[2]].size,
                         changes |-> x[1].changes \o parts[x[2]].changes]]
<1>1. m \in Nat /\ \A i \in 1..m : parts[i] \in Events
    BY LenProperties, ElementOfSeq
<1>2. \A e \in Events, i \in 1..m : step[<<e, i>>] =
          [size |-> e.size + parts[i].size, changes |-> e.changes \o parts[i].changes]
    OBVIOUS
<1>3. \A e \in Events, i \in 1..m : step[<<e, i>>] \in Events
    <2> SUFFICES ASSUME NEW e \in Events, NEW i \in 1..m
                 PROVE  [size |-> e.size + parts[i].size,
                         changes |-> e.changes \o parts[i].changes] \in Events
        BY <1>2
    <2>1. e.size + parts[i].size \in Nat \ {0}
        BY <1>1 DEF Events
    <2>2. e.changes \o parts[i].changes \in Seq(Changes)
        BY <1>1, ConcatProperties DEF Events
    <2> QED
        BY <2>1, <2>2 DEF Events
<1> HIDE DEF m, step
<1>4. PICK f : IsIterated(first, step, m, f)
    BY <1>1, Iterated
<1>5. \A i \in 0..m : f[i] = IF i = 0 THEN first ELSE step[<<f[i - 1], i>>]
    BY <1>4 DEF IsIterated
<1>6. f[0] \in Events
    <2>1. 0 \in 0..m
        BY <1>1
    <2>2. f[0] = first
        BY <1>5, <2>1
    <2> QED
        BY <2>2 DEF Events
<1>7. Steps(Events, m, f)
    <2> SUFFICES ASSUME NEW i \in 1..m, f[i - 1] \in Events PROVE f[i] \in Events
        BY DEF Steps
    <2>1. i \in 0..m /\ i # 0
        BY <1>1
    <2> QED
        BY <1>3, <1>5, <2>1
<1>8. \A i \in 0..m : f[i] \in Events
    BY <1>1, <1>6, <1>7, StaysIn
<1>9. \A i \in 0..m : f[i] = Joined(parts, f, i)
    <2> SUFFICES ASSUME NEW i \in 0..m PROVE f[i] = Joined(parts, f, i)
        OBVIOUS
    <2>1. CASE i = 0
        BY <1>5, <2>1 DEF Joined
    <2>2. CASE i # 0
        <3>1. i \in 1..m /\ i - 1 \in 0..m
            BY <1>1, <2>2
        <3>2. f[i] = step[<<f[i - 1], i>>] /\ f[i - 1] \in Events
            BY <1>5, <1>8, <2>2, <3>1
        <3> QED
            BY <1>2, <2>2, <3>1, <3>2 DEF Joined
    <2> QED
        BY <2>1, <2>2
<1>10. f = [i \in 0..m |-> Joined(parts, f, i)]
    BY <1>4, <1>9 DEF IsIterated
<1>11. IsJoin(parts, f)
    BY <1>10 DEF IsJoin, m
<1> QED
    BY <1>11

\* A composite event is an event: it takes at least one number.
LEMMA CompositeEventType ==
    ASSUME NEW parts \in Seq(Events)
    PROVE  CompositeEvent(parts) \in Events
<1> DEFINE join == CHOOSE join : IsJoin(parts, join)
<1>1. IsJoin(parts, join)
    BY JoinExists
<1>2. CompositeEvent(parts) = join[Len(parts)]
    BY DEF CompositeEvent, IsJoin, Joined
<1> HIDE DEF join
<1>3. Len(parts) \in 0..Len(parts)
    BY LenProperties
<1> QED
    BY <1>1, <1>2, <1>3, JoinStays

\* The clients whose numbering is right and has these values.
Numbering(last, lost) ==
    {c \in Clients : c.last = last /\ c.lost = lost /\ "number" \notin c.faults}

\* A client that applies a change keeps its numbering.
LEMMA ApplyStays ==
    ASSUME NEW last, NEW lost, NEW c \in Numbering(last, lost), NEW p, NEW change \in Changes
    PROVE  Apply(c, p, change) \in Numbering(last, lost)
<1> DEFINE x == change.partition
           v == change.version
<1>1. x \in Partitions /\ v \in Nat
    BY DEF Changes
<1>2. c \in Clients /\ c.last = last /\ c.lost = lost /\ "number" \notin c.faults
    BY DEF Numbering
<1>3. change.kind \in {"Change", "AddPartition", "DeletePartition"}
    BY DEF Changes, PartitionCommands
<1>4. [c EXCEPT !.view[x] = None] \in Numbering(last, lost)
    BY <1>1, <1>2 DEF Numbering, Clients, Versions
<1>5. c.view[x] # None => c.view[x] \in Nat
    BY <1>1, <1>2 DEF Clients, Versions
<1>6. c.view[x] # None => Skipped(x, c.view[x], v) \subseteq Partitions \X Nat
    BY <1>1, <1>5 DEF Skipped
<1>7. c.view[x] # None =>
          [c EXCEPT !.view[x] = v,
                    !.missing = @ \union Skipped(x, c.view[x], v)] \in Numbering(last, lost)
    <2> SUFFICES ASSUME c.view[x] # None
                 PROVE  [c EXCEPT !.view[x] = v, !.missing =
                             @ \union Skipped(x, c.view[x], v)] \in Numbering(last, lost)
        OBVIOUS
    <2> DEFINE missing == c.missing \union Skipped(x, c.view[x], v)
    <2>1. missing \in SUBSET (Partitions \X Nat)
        BY <1>2, <1>6 DEF Clients
    <2> HIDE DEF missing
    <2>2. [c EXCEPT !.view[x] = v, !.missing = missing] \in Numbering(last, lost)
        BY <1>1, <1>2, <2>1 DEF Numbering, Clients, Versions
    <2> QED
        BY <2>2 DEF missing
<1>8. [c EXCEPT !.view[x] = v, !.missing = {e \in @ : e[1] # x}] \in Numbering(last, lost)
    <2> DEFINE missing == {e \in c.missing : e[1] # x}
    <2>1. missing \in SUBSET (Partitions \X Nat)
        BY <1>2 DEF Clients
    <2> HIDE DEF missing
    <2>2. [c EXCEPT !.view[x] = v, !.missing = missing] \in Numbering(last, lost)
        BY <1>1, <1>2, <2>1 DEF Numbering, Clients, Versions
    <2> QED
        BY <2>2 DEF missing
<1>9. ASSUME NEW fault \in {"order", "twice"}
      PROVE  [c EXCEPT !.missing = @ \ {<<x, v>>},
                       !.faults = @ \union {fault}] \in Numbering(last, lost)
    <2> DEFINE missing == c.missing \ {<<x, v>>}
               faults == c.faults \union {fault}
    <2>1. missing \in SUBSET (Partitions \X Nat)
        BY <1>2 DEF Clients
    <2>2. faults \in SUBSET {"order", "twice", "number"} /\ "number" \notin faults
        BY <1>2 DEF Clients
    <2> HIDE DEF missing, faults
    <2>3. [c EXCEPT !.missing = missing, !.faults = faults] \in Numbering(last, lost)
        BY <1>2, <2>1, <2>2 DEF Numbering, Clients
    <2> QED
        BY <2>3 DEF missing, faults
<1> QED
    BY <1>2, <1>3, <1>4, <1>7, <1>8, <1>9 DEF Apply

\* The function of ApplyAll.
Applied(client0, p, changes, step, i) ==
    IF i = 0 THEN client0 ELSE Apply(step[i - 1], p, changes[i])

IsApplied(client0, p, changes, step) ==
    step = [i \in 0..Len(changes) |-> Applied(client0, p, changes, step, i)]

LEMMA AppliedExists ==
    ASSUME NEW last, NEW lost, NEW c \in Numbering(last, lost), NEW p,
           NEW changes \in Seq(Changes)
    PROVE  \E step : IsApplied(c, p, changes, step)
<1> DEFINE m == Len(changes)
           K == Numbering(last, lost)
           g == [x \in K \X (1..m) |-> Apply(x[1], p, changes[x[2]])]
<1>1. m \in Nat /\ \A i \in 1..m : changes[i] \in Changes
    BY LenProperties, ElementOfSeq
<1>2. \A d \in K, i \in 1..m : g[<<d, i>>] = Apply(d, p, changes[i])
    OBVIOUS
<1>3. \A d \in K, i \in 1..m : Apply(d, p, changes[i]) \in K
    BY <1>1, ApplyStays
<1> HIDE DEF m, K, g
<1>4. PICK f : IsIterated(c, g, m, f)
    BY <1>1, Iterated
<1>5. \A i \in 0..m : f[i] = IF i = 0 THEN c ELSE g[<<f[i - 1], i>>]
    BY <1>4 DEF IsIterated
<1>6. f[0] \in K
    <2>1. 0 \in 0..m
        BY <1>1
    <2>2. f[0] = c
        BY <1>5, <2>1
    <2> QED
        BY <2>2 DEF K
<1>7. Steps(K, m, f)
    <2> SUFFICES ASSUME NEW i \in 1..m, f[i - 1] \in K PROVE f[i] \in K
        BY DEF Steps
    <2>1. i \in 0..m /\ i # 0
        BY <1>1
    <2> QED
        BY <1>2, <1>3, <1>5, <2>1
<1>8. \A i \in 0..m : f[i] \in K
    BY <1>1, <1>6, <1>7, StaysIn
<1>9. \A i \in 0..m : f[i] = Applied(c, p, changes, f, i)
    <2> SUFFICES ASSUME NEW i \in 0..m PROVE f[i] = Applied(c, p, changes, f, i)
        OBVIOUS
    <2>1. CASE i = 0
        BY <1>5, <2>1 DEF Applied
    <2>2. CASE i # 0
        <3>1. i \in 1..m /\ i - 1 \in 0..m
            BY <1>1, <2>2
        <3>2. f[i] = g[<<f[i - 1], i>>] /\ f[i - 1] \in K
            BY <1>5, <1>8, <2>2, <3>1
        <3> QED
            BY <1>2, <2>2, <3>1, <3>2 DEF Applied
    <2> QED
        BY <2>1, <2>2
<1>10. f = [i \in 0..m |-> Applied(c, p, changes, f, i)]
    BY <1>4, <1>9 DEF IsIterated
<1>11. IsApplied(c, p, changes, f)
    BY <1>10 DEF IsApplied, m
<1> QED
    BY <1>11

\* A client that applies changes keeps its numbering.
LEMMA ApplyAllStays ==
    ASSUME NEW last, NEW lost, NEW c \in Numbering(last, lost), NEW p,
           NEW changes \in Seq(Changes)
    PROVE  ApplyAll(c, p, changes) \in Numbering(last, lost)
<1> DEFINE m == Len(changes)
           K == Numbering(last, lost)
           step == CHOOSE step : IsApplied(c, p, changes, step)
<1>1. IsApplied(c, p, changes, step)
    BY AppliedExists
<1>2. ApplyAll(c, p, changes) = step[m]
    BY DEF ApplyAll, IsApplied, Applied
<1>3. m \in Nat /\ \A i \in 1..m : changes[i] \in Changes
    BY LenProperties, ElementOfSeq
<1> HIDE DEF step
<1>4. \A i \in 0..m : step[i] = Applied(c, p, changes, step, i)
    BY <1>1 DEF IsApplied
<1> HIDE DEF m, K
<1>5. step[0] \in K
    <2>1. 0 \in 0..m
        BY <1>3
    <2>2. step[0] = c
        BY <1>4, <2>1 DEF Applied
    <2> QED
        BY <2>2 DEF K
<1>6. Steps(K, m, step)
    <2> SUFFICES ASSUME NEW i \in 1..m, step[i - 1] \in K PROVE step[i] \in K
        BY DEF Steps
    <2>1. i \in 0..m /\ i # 0
        BY <1>3
    <2>2. step[i] = Apply(step[i - 1], p, changes[i])
        BY <1>4, <2>1 DEF Applied
    <2> QED
        BY <1>3, <2>2, ApplyStays DEF K
<1>7. step[m] \in K
    <2>1. \A i \in 0..m : step[i] \in K
        BY <1>3, <1>5, <1>6, StaysIn
    <2> QED
        BY <1>3, <2>1
<1> QED
    BY <1>2, <1>7 DEF K

\* A client whose numbering tells whether it lost an event before number n takes
\* an event with that number as what it is.
LEMMA ReceiveStays ==
    ASSUME NEW last \in Nat, NEW lost \in BOOLEAN, NEW c \in Numbering(last, lost), NEW p,
           NEW n \in Nat, NEW event \in Events, lost <=> last # n - 1
    PROVE  Receive(c, p, n, event) \in Numbering(n + event.size - 1, FALSE)
<1> DEFINE l == n + event.size - 1
           d == [c EXCEPT !.last = l, !.lost = FALSE,
                          !.faults = IF (n = c.last + 1) = c.lost
                                     THEN @ \union {"number"} ELSE @]
<1>1. l \in Nat /\ event.changes \in Seq(Changes)
    BY DEF Events
<1>2. c \in Clients /\ c.last = last /\ c.lost = lost /\ "number" \notin c.faults
    BY DEF Numbering
<1>3. ~((n = c.last + 1) = c.lost)
    BY <1>2
<1>4. d = [c EXCEPT !.last = l, !.lost = FALSE, !.faults = c.faults]
    BY <1>3
<1>5. d \in Numbering(l, FALSE)
    <2> HIDE DEF l
    <2> QED
        BY <1>1, <1>2, <1>4 DEF Numbering, Clients
<1>6. Receive(c, p, n, event) = ApplyAll(d, p, event.changes)
    BY DEF Receive
<1> HIDE DEF d, l
<1>7. ApplyAll(d, p, event.changes) \in Numbering(l, FALSE)
    BY <1>1, <1>5, ApplyAllStays
<1> QED
    BY <1>6, <1>7 DEF l
--------------------------------------------------------------------------------
(***************************************************************************)
(* The invariants of the server.                                           *)
(***************************************************************************)
ObjectsTyped == participations \in [Sockets -> Participation \union {NotCreated}]

\* Every client notices a loss: NumbersTellLoss, also for sockets without an
\* object, and with the numbers it got below those it will get.
NumbersRight(p) ==
    /\ client[p].last < participations[p].eventSequenceNumber
    /\ client[p].lost <=> client[p].last # participations[p].eventSequenceNumber - 1
    /\ "number" \notin client[p].faults

ClientsTyped ==
    /\ client \in [Sockets -> Clients]
    /\ \A p \in Sockets : NumbersRight(p)

BuffersTyped == eventBuffers \in Seq([Sockets -> Seq(Events)])

(***************************************************************************)
(* Sending.                                                                *)
(***************************************************************************)
\* Objects with other subscriptions than those of the participations at most.
Resubscribed(objects) ==
    /\ objects \in [Sockets -> Participation \union {NotCreated}]
    /\ \A p \in Sockets :
        /\ objects[p].socket = participations[p].socket
        /\ objects[p].eventSequenceNumber = participations[p].eventSequenceNumber

\* Events for participations.
ForParticipations(events) ==
    /\ DOMAIN events \subseteq created
    /\ \A p \in DOMAIN events : events[p] \in Events

LEMMA SubscribedTyped ==
    ASSUME ObjectsTyped, NEW P \in SUBSET created, NEW X \in SUBSET Partitions
    PROVE  Resubscribed(Subscribed(participations, P, X))
<1> DEFINE objects == Subscribed(participations, P, X)
<1> SUFFICES ASSUME NEW p \in Sockets
             PROVE  /\ objects[p] \in Participation \union {NotCreated}
                    /\ objects[p].socket = participations[p].socket
                    /\ objects[p].eventSequenceNumber = participations[p].eventSequenceNumber
    BY DEF Resubscribed, Subscribed
<1>1. participations[p] \in Participation \union {NotCreated}
    BY DEF ObjectsTyped
<1>2. CASE p \in P
    <2>1. participations[p] \in Participation
        BY <1>1, <1>2 DEF created, NotCreated
    <2>2. objects[p] = [participations[p] EXCEPT !.subscribedPartitions = @ \union X]
        BY <1>2 DEF Subscribed
    <2> HIDE DEF objects
    <2>3. participations[p].subscribedPartitions \union X \in SUBSET Partitions
        BY <2>1 DEF Participation
    <2> QED
        BY <2>1, <2>2, <2>3 DEF Participation
<1>3. CASE p \notin P
    BY <1>1, <1>3 DEF Subscribed
<1> QED
    BY <1>2, <1>3

\* The numbers of participations after an event of these sizes.
LEMMA NumberedTyped ==
    ASSUME NEW objects, Resubscribed(objects), ObjectsTyped, NEW n \in [Sockets -> Nat],
           \A p \in Sockets : n[p] # 0 => p \in created
    PROVE  /\ Numbered(objects, n) \in [Sockets -> Participation \union {NotCreated}]
           /\ \A p \in Sockets :
               /\ Numbered(objects, n)[p].socket = participations[p].socket
               /\ Numbered(objects, n)[p].eventSequenceNumber =
                      participations[p].eventSequenceNumber + n[p]
<1> DEFINE numbered == Numbered(objects, n)
<1> SUFFICES ASSUME NEW p \in Sockets
             PROVE  /\ numbered[p] \in Participation \union {NotCreated}
                    /\ numbered[p].socket = participations[p].socket
                    /\ numbered[p].eventSequenceNumber =
                           participations[p].eventSequenceNumber + n[p]
    BY DEF Numbered
<1>1. /\ objects[p] \in Participation \union {NotCreated}
      /\ objects[p].socket = participations[p].socket
      /\ objects[p].eventSequenceNumber = participations[p].eventSequenceNumber
    BY DEF Resubscribed
<1>2. numbered[p] = [objects[p] EXCEPT !.eventSequenceNumber = @ + n[p]]
    BY DEF Numbered
<1> HIDE DEF numbered
<1>3. n[p] \in Nat
    OBVIOUS
<1>4. CASE objects[p] \in Participation
    <2>1. objects[p].eventSequenceNumber + n[p] \in Nat \ {0}
        BY <1>3, <1>4 DEF Participation
    <2> QED
        BY <1>1, <1>2, <1>4, <2>1 DEF Participation
<1>5. CASE objects[p] = NotCreated
    <2>1. n[p] = 0
        BY <1>1, <1>5 DEF NotCreated, created
    <2> QED
        BY <1>1, <1>2, <1>5, <2>1 DEF NotCreated
<1> QED
    BY <1>1, <1>4, <1>5

\* What sendDelta keeps.
SendKeeps ==
    /\ ObjectsTyped'
    /\ created' = created
    /\ ClientsTyped'
    /\ BuffersTyped'

LEMMA SendIsRight ==
    ASSUME ObjectsTyped, ClientsTyped,
           NEW buffers \in Seq([Sockets -> Seq(Events)]),
           NEW objects, Resubscribed(objects),
           NEW events, ForParticipations(events), NEW socketOf,
           SendWith(buffers, objects, events, socketOf)
    PROVE  SendKeeps /\ Len(eventBuffers') = Len(buffers)
<1> DEFINE P == DOMAIN events
           n == [p \in Sockets |-> IF p \in P THEN events[p].size ELSE 0]
<1>1. P \subseteq created /\ created \subseteq Sockets /\ \A p \in P : events[p] \in Events
    BY DEF ForParticipations, created
<1>2. CASE buffers = <<>>
    <2>1. participations' = Numbered(objects, n)
        BY <1>2 DEF SendWith
    <2>2. /\ client' = [p \in Sockets |->
                 IF p \in P THEN Handed(p, socketOf[p], events[p]) ELSE client[p]]
          /\ eventBuffers' = buffers
        BY <1>2 DEF SendWith
    <2>3. n \in [Sockets -> Nat] /\ \A p \in Sockets : n[p] # 0 => p \in created
        BY <1>1 DEF Events
    <2>4. \A p \in Sockets : n[p] = IF p \in P THEN events[p].size ELSE 0
        OBVIOUS
    <2> HIDE DEF n, P
    <2>5. /\ participations' \in [Sockets -> Participation \union {NotCreated}]
          /\ \A p \in Sockets :
              /\ participations'[p].socket = participations[p].socket
              /\ participations'[p].eventSequenceNumber =
                     participations[p].eventSequenceNumber + n[p]
        BY <2>1, <2>3, NumberedTyped
    <2>6. ObjectsTyped' /\ created' = created
        BY <2>5 DEF ObjectsTyped, created
    <2>7. ASSUME NEW p \in Sockets
          PROVE  client'[p] \in Clients /\ NumbersRight(p)'
        <3> DEFINE c == client[p]
                   k == participations[p].eventSequenceNumber
        <3>1. /\ c \in Clients /\ c.last < k /\ (c.lost <=> c.last # k - 1)
              /\ "number" \notin c.faults
            BY DEF ClientsTyped, NumbersRight
        <3>2. k \in Nat \ {0}
            BY DEF ObjectsTyped, Participation, NotCreated
        <3>3. c.last \in Nat /\ c.lost \in BOOLEAN
            BY <3>1 DEF Clients
        <3>4. CASE p \notin P
            <4>1. client'[p] = c /\ participations'[p].eventSequenceNumber = k
                BY <2>2, <2>4, <2>5, <3>2, <3>4
            <4> QED
                BY <3>1, <4>1 DEF NumbersRight
        <3>5. CASE p \in P /\ connection[socketOf[p]] = "open"
            <4> DEFINE e == events[p]
            <4>1. e \in Events /\ e.size \in Nat \ {0} /\ n[p] = e.size
                BY <1>1, <2>4, <3>5 DEF P, Events
            <4>2. participations'[p].eventSequenceNumber = k + e.size
                BY <2>5, <4>1
            <4>3. client'[p] = Receive(c, p, k, e)
                BY <2>2, <3>5 DEF Handed
            <4>4. c \in Numbering(c.last, c.lost)
                BY <3>1 DEF Numbering
            <4>5. Receive(c, p, k, e) \in Numbering(k + e.size - 1, FALSE)
                <5> HIDE DEF c, e, k
                <5> QED
                    BY <3>1, <3>2, <3>3, <4>1, <4>4, ReceiveStays
            <4>6. /\ client'[p] \in Clients /\ client'[p].last = k + e.size - 1
                  /\ client'[p].lost = FALSE /\ "number" \notin client'[p].faults
                BY <4>3, <4>5 DEF Numbering
            <4> HIDE DEF e, k
            <4> QED
                BY <3>2, <4>1, <4>2, <4>6 DEF NumbersRight
        <3>6. CASE p \in P /\ connection[socketOf[p]] # "open"
            <4> DEFINE e == events[p]
            <4>1. e.size \in Nat \ {0} /\ n[p] = e.size
                BY <1>1, <2>4, <3>6 DEF P, Events
            <4>2. participations'[p].eventSequenceNumber = k + e.size
                BY <2>5, <4>1
            <4>3. client'[p] = [c EXCEPT !.lost = TRUE]
                BY <2>2, <3>6 DEF Handed
            <4>4. /\ client'[p] \in Clients /\ client'[p].last = c.last
                  /\ client'[p].lost = TRUE /\ "number" \notin client'[p].faults
                BY <3>1, <4>3 DEF Clients
            <4> HIDE DEF e, k, c
            <4> QED
                BY <3>1, <3>2, <3>3, <4>1, <4>2, <4>4 DEF NumbersRight
        <3> QED
            BY <3>4, <3>5, <3>6
    <2>8. ClientsTyped'
        BY <2>2, <2>7 DEF ClientsTyped
    <2> QED
        BY <2>2, <2>6, <2>8 DEF SendKeeps, BuffersTyped
<1>3. CASE buffers # <<>>
    <2> DEFINE S == [Sockets -> Seq(Events)]
               l == Len(buffers)
               added == [p \in Sockets |-> IF p \in P THEN Append(buffers[l][p], events[p])
                                                     ELSE buffers[l][p]]
    <2>1. /\ participations' = objects
          /\ eventBuffers' = [buffers EXCEPT ![l] = added]
          /\ client' = client
        BY <1>3 DEF SendWith
    <2>2. ObjectsTyped' /\ created' = created
        BY <2>1 DEF ObjectsTyped, Resubscribed, created
    <2>3. ClientsTyped'
        BY <2>1 DEF ClientsTyped, NumbersRight, Resubscribed
    <2>4. l \in 1..Len(buffers) /\ buffers[l] \in S
        BY <1>3, EmptySeq, LenProperties, ElementOfSeq
    <2>5. added \in S
        BY <1>1, <2>4
    <2> HIDE DEF added, l, S
    <2>6. [buffers EXCEPT ![l] = added] \in Seq(S) /\ Len([buffers EXCEPT ![l] = added]) = l
        BY <2>4, <2>5, ExceptSeq DEF S, l
    <2> QED
        BY <2>1, <2>2, <2>3, <2>6 DEF SendKeeps, BuffersTyped, S, l
<1> QED
    BY <1>2, <1>3
--------------------------------------------------------------------------------
(***************************************************************************)
(* Tasks.                                                                  *)
(***************************************************************************)
\* The commands that can be split.
Splittable == {"Change", "AddPartition"}

\* A task k with the id t, when the participations in `made' are created.
GoodTask(t, k, made) ==
    /\ k \in Tasks
    /\ IF k.stage = "ready" THEN k.who = None ELSE k.who \in made
    /\ k.stage # "ready" /\ k.todo # <<>> => Head(k.todo).kind # "End"
    /\ t # 0 => \A i \in 1..Len(k.todo) : k.todo[i].kind \in Splittable
    /\ k.stage = "answer" /\ k.todo # <<>> =>
        /\ Head(k.todo).kind \in PartitionCommands => k.content[1] \in Changes
        /\ Head(k.todo).kind \in Requests => k.content \in Versions

TasksRight ==
    /\ tasks \in [TaskIds -> Tasks \union {None}]
    /\ \A t \in TaskIds : tasks[t] # None => GoodTask(t, tasks[t], created)

Items == Messages \union Parts \union {EndOfComposite}

\* The ends of composite commands in s, by their places counted from its end.
Ends(s) == {n \in 0..Len(s) - 1 : s[Len(s) - n].kind = "End"}

\* How many composite commands are not at their end in the queue's job k.
Depth(k) == IF k = None THEN 0 ELSE Cardinality(Ends(k.todo))

LEMMA MessageKinds ==
    ASSUME NEW m \in Messages \union Parts
    PROVE  m.kind # "End"
BY MessagesAssumption DEF Requests, PartitionCommands

LEMMA EndsFinite ==
    ASSUME NEW s \in Seq(Items)
    PROVE  IsFiniteSet(Ends(s)) /\ Cardinality(Ends(s)) \in Nat
<1>1. Ends(s) \subseteq 0..Len(s) - 1
    BY DEF Ends
<1>2. IsFiniteSet(0..Len(s) - 1)
    BY LenProperties, FS_Interval
<1>3. IsFiniteSet(Ends(s))
    BY <1>1, <1>2, FS_Subset
<1> QED
    BY <1>3, FS_CardinalityType

\* The rest of a list without its head h.
LEMMA EndsOfTail ==
    ASSUME NEW s \in Seq(Items), s # <<>>
    PROVE  /\ Tail(s) \in Seq(Items)
           /\ Cardinality(Ends(s)) = IF Head(s).kind = "End"
                                     THEN Cardinality(Ends(Tail(s))) + 1
                                     ELSE Cardinality(Ends(Tail(s)))
<1> DEFINE l == Len(s)
           r == Tail(s)
<1>1. /\ l \in Nat \ {0} /\ r \in Seq(Items) /\ Len(r) = l - 1
      /\ Head(s) = s[1]
      /\ \A i \in 1..l - 1 : r[i] = s[i + 1]
    BY EmptySeq, LenProperties, HeadTailProperties
<1>2. \A n \in 0..l - 2 : r[Len(r) - n] = s[l - n]
    <2> SUFFICES ASSUME NEW n \in 0..l - 2 PROVE r[Len(r) - n] = s[l - n]
        OBVIOUS
    <2>1. (l - 1) - n \in 1..l - 1 /\ ((l - 1) - n) + 1 = l - n
        BY <1>1
    <2> HIDE DEF l, r
    <2> QED
        BY <1>1, <2>1
<1> HIDE DEF l, r
<1>3. Ends(r) = {n \in 0..l - 2 : s[l - n].kind = "End"}
    <2>1. Len(r) - 1 = l - 2
        BY <1>1
    <2> QED
        BY <1>2, <2>1 DEF Ends
<1>4. Ends(s) = {n \in 0..l - 1 : s[l - n].kind = "End"}
    BY DEF Ends, l
<1>5. l - 1 \notin 0..l - 2 /\ 0..l - 1 = (0..l - 2) \union {l - 1} /\ l - (l - 1) = 1
    BY <1>1
<1>6. l - 1 \notin Ends(r)
    BY <1>3, <1>5
<1>7. CASE Head(s).kind = "End"
    <2>1. Ends(s) = Ends(r) \union {l - 1}
        BY <1>1, <1>3, <1>4, <1>5, <1>7
    <2>2. Cardinality(Ends(r) \union {l - 1}) = Cardinality(Ends(r)) + 1
        BY <1>1, <1>6, EndsFinite, FS_AddElement
    <2> QED
        BY <1>1, <1>7, <2>1, <2>2 DEF r
<1>8. CASE Head(s).kind # "End"
    <2>1. Ends(s) = Ends(r)
        BY <1>1, <1>3, <1>4, <1>5, <1>8
    <2> QED
        BY <1>1, <1>8, <2>1 DEF r
<1> QED
    BY <1>7, <1>8

\* The parts of a composite command, its end and what follows.
LEMMA EndsOfOpened ==
    ASSUME NEW parts \in Seq(Parts), NEW r \in Seq(Items)
    PROVE  /\ parts \o <<EndOfComposite>> \o r \in Seq(Items)
           /\ Cardinality(Ends(parts \o <<EndOfComposite>> \o r)) =
                  Cardinality(Ends(r)) + 1
<1> DEFINE e == <<EndOfComposite>>
           s == parts \o e \o r
           k == Len(parts)
           l == Len(r)
<1>1. k \in Nat /\ l \in Nat /\ \A i \in 1..k : parts[i] \in Parts
    BY LenProperties, ElementOfSeq
<1>2. parts \in Seq(Items)
    <2>1. Parts \subseteq Items
        BY DEF Items
    <2> QED
        BY <2>1
<1>3. e \in Seq(Items) /\ Len(e) = 1 /\ e[1] = EndOfComposite
    BY DEF Items
<1> HIDE DEF e
<1>4. /\ parts \o e \in Seq(Items) /\ Len(parts \o e) = k + 1
      /\ \A i \in 1..k + 1 : (parts \o e)[i] = IF i <= k THEN parts[i] ELSE e[i - k]
    <2>1. /\ parts \o e \in Seq(Items)
          /\ Len(parts \o e) = Len(parts) + Len(e)
          /\ \A i \in 1..Len(parts) + Len(e) :
                 (parts \o e)[i] = IF i <= Len(parts) THEN parts[i] ELSE e[i - Len(parts)]
        BY <1>2, <1>3, ConcatProperties
    <2> QED
        BY <1>3, <2>1
<1>5. /\ s \in Seq(Items) /\ Len(s) = k + 1 + l
      /\ \A i \in 1..k + 1 + l : s[i] = IF i <= k + 1 THEN (parts \o e)[i] ELSE r[i - (k + 1)]
    <2> DEFINE q == parts \o e
    <2> HIDE DEF q
    <2>1. q \in Seq(Items) /\ Len(q) = k + 1
        BY <1>4 DEF q
    <2>2. /\ q \o r \in Seq(Items)
          /\ Len(q \o r) = Len(q) + Len(r)
          /\ \A i \in 1..Len(q) + Len(r) :
                 (q \o r)[i] = IF i <= Len(q) THEN q[i] ELSE r[i - Len(q)]
        BY <2>1, ConcatProperties
    <2>3. s = q \o r
        BY DEF q
    <2> HIDE DEF s, k, l
    <2> QED
        BY <2>1, <2>2, <2>3 DEF q, l
<1> DEFINE L == k + 1 + l
<1> HIDE DEF s
<1>6. \A n \in 0..l - 1 : s[L - n] = r[l - n]
    <2> SUFFICES ASSUME NEW n \in 0..l - 1 PROVE s[L - n] = r[l - n]
        OBVIOUS
    <2>1. L - n \in 1..k + 1 + l /\ ~(L - n <= k + 1) /\ (L - n) - (k + 1) = l - n
        BY <1>1
    <2> QED
        BY <1>5, <2>1
<1>7. s[L - l].kind = "End"
    <2>1. L - l = k + 1 /\ k + 1 \in 1..k + 1 + l /\ k + 1 <= k + 1 /\ k + 1 \in 1..k + 1
          /\ ~(k + 1 <= k) /\ (k + 1) - k = 1
        BY <1>1
    <2>2. s[k + 1] = EndOfComposite
        BY <1>3, <1>4, <1>5, <2>1
    <2> QED
        BY <2>1, <2>2 DEF EndOfComposite
<1>8. \A n \in l + 1..L - 1 : s[L - n].kind # "End"
    <2> SUFFICES ASSUME NEW n \in l + 1..L - 1 PROVE s[L - n].kind # "End"
        OBVIOUS
    <2>1. L - n \in 1..k /\ L - n \in 1..k + 1 /\ L - n \in 1..k + 1 + l
          /\ L - n <= k /\ L - n <= k + 1
        BY <1>1
    <2>2. s[L - n] = parts[L - n]
        BY <1>4, <1>5, <2>1
    <2> QED
        BY <1>1, <2>1, <2>2, MessageKinds
<1>9. Ends(s) = {n \in 0..L - 1 : s[L - n].kind = "End"}
    BY <1>5 DEF Ends
<1>10. Ends(r) = {n \in 0..l - 1 : r[l - n].kind = "End"}
    BY DEF Ends
<1>11. 0..L - 1 = (0..l - 1) \union {l} \union (l + 1..L - 1) /\ l \notin 0..l - 1
    BY <1>1
<1> HIDE DEF L, l
<1>12. Ends(s) = Ends(r) \union {l} /\ l \notin Ends(r)
    BY <1>6, <1>7, <1>8, <1>9, <1>10, <1>11
<1>13. Cardinality(Ends(r) \union {l}) = Cardinality(Ends(r)) + 1
    BY <1>12, EndsFinite, FS_AddElement
<1> QED
    BY <1>5, <1>12, <1>13 DEF s, e

\* A message is no end.
LEMMA EndsOfMessage ==
    ASSUME NEW m \in Messages \union Parts
    PROVE  <<m>> \in Seq(Items) /\ Cardinality(Ends(<<m>>)) = 0
<1>1. <<m>> \in Seq(Items) /\ Len(<<m>>) = 1 /\ <<m>>[1] = m
    BY DEF Items
<1>2. m.kind # "End"
    BY MessageKinds
<1> DEFINE s == <<m>>
<1> HIDE DEF s
<1>3. \A n \in 0..Len(s) - 1 : s[Len(s) - n] = m
    <2>1. \A n \in 0..Len(s) - 1 : n = 0
        BY <1>1 DEF s
    <2> QED
        BY <1>1, <2>1 DEF s
<1>4. Ends(s) = {}
    BY <1>2, <1>3 DEF Ends
<1> QED
    BY <1>1, <1>4, FS_EmptySet DEF s

\* 0, the id of the queue's job, is a task id.
LEMMA JobId == 0 \in TaskIds
BY BoundsAssumption DEF TaskIds

\* A task of which some fields are assigned.
LEMMA TaskFields ==
    ASSUME NEW k, k = [x \in {"socket", "todo", "stage", "who", "content"} |-> k[x]]
    PROVE  k = [socket |-> k.socket, todo |-> k.todo, stage |-> k.stage, who |-> k.who,
                content |-> k.content]
OBVIOUS

LEMMA TaskDone ==
    ASSUME NEW r \in Tasks, NEW todo,
           NEW k, k = [r EXCEPT !.todo = todo, !.stage = "ready", !.who = None,
                                !.content = <<>>]
    PROVE  k = [socket |-> r.socket, todo |-> todo, stage |-> "ready", who |-> None,
                content |-> <<>>]
<1>1. /\ k.socket = r.socket /\ k.todo = todo /\ k.stage = "ready" /\ k.who = None
      /\ k.content = <<>>
    BY DEF Tasks
<1>2. k = [x \in {"socket", "todo", "stage", "who", "content"} |-> k[x]]
    BY DEF Tasks
<1> QED
    BY <1>1, <1>2, TaskFields

LEMMA TaskWaits ==
    ASSUME NEW r \in Tasks, NEW stage, NEW who, NEW content,
           NEW k, k = [r EXCEPT !.stage = stage, !.who = who, !.content = content]
    PROVE  k = [socket |-> r.socket, todo |-> r.todo, stage |-> stage, who |-> who,
                content |-> content]
<1>1. /\ k.socket = r.socket /\ k.todo = r.todo /\ k.stage = stage /\ k.who = who
      /\ k.content = content
    BY DEF Tasks
<1>2. k = [x \in {"socket", "todo", "stage", "who", "content"} |-> k[x]]
    BY DEF Tasks
<1> QED
    BY <1>1, <1>2, TaskFields

\* A task that has something to process.
LEMMA BusyTask ==
    ASSUME TasksRight, NEW t \in TaskIds, tasks[t] # None, tasks[t].todo # <<>>
    PROVE  /\ GoodTask(t, tasks[t], created)
           /\ tasks[t] \in Tasks
           /\ tasks[t].todo \in Seq(Items)
           /\ Current(t) \in Items
           /\ Tail(tasks[t].todo) \in Seq(Items)
           /\ t # 0 => Current(t).kind \in Splittable
<1>1. GoodTask(t, tasks[t], created) /\ tasks[t] \in Tasks
    BY DEF TasksRight, GoodTask
<1>2. tasks[t].todo \in Seq(Items)
    BY <1>1 DEF Tasks, Items
<1> DEFINE s == tasks[t].todo
<1>3. Len(s) \in Nat \ {0} /\ Head(s) = s[1] /\ Tail(s) \in Seq(Items)
    BY <1>2, EmptySeq, LenProperties, HeadTailProperties
<1>4. s[1] \in Items
    BY <1>2, <1>3, ElementOfSeq
<1>5. t # 0 => s[1].kind \in Splittable
    BY <1>1, <1>3 DEF GoodTask
<1> QED
    BY <1>1, <1>2, <1>3, <1>4, <1>5 DEF Current

\* One task becomes k.
LEMMA TaskBecomes ==
    ASSUME TasksRight, created \subseteq created', NEW t \in TaskIds, NEW k,
           GoodTask(t, k, created'), tasks' = [tasks EXCEPT ![t] = k]
    PROVE  /\ TasksRight'
           /\ tasks'[t] = k /\ k # None
           /\ \A u \in TaskIds : u # t => tasks'[u] = tasks[u]
<1>1. k \in Tasks /\ k # None
    BY NoTaskAssumption DEF GoodTask
<1>2. /\ tasks' \in [TaskIds -> Tasks \union {None}]
      /\ tasks'[t] = k
      /\ \A u \in TaskIds : u # t => tasks'[u] = tasks[u]
    BY <1>1 DEF TasksRight
<1>3. ASSUME NEW u \in TaskIds, tasks'[u] # None PROVE GoodTask(u, tasks'[u], created')
    <2>1. CASE u = t
        BY <1>2, <2>1
    <2>2. CASE u # t
        BY <1>2, <1>3, <2>2 DEF TasksRight, GoodTask
    <2> QED
        BY <2>1, <2>2
<1> QED
    BY <1>1, <1>2, <1>3 DEF TasksRight

\* The queue's job goes on, with the same composite commands to end.
JobKept ==
    /\ tasks'[0] = None <=> tasks[0] = None
    /\ Depth(tasks'[0]) = Depth(tasks[0])

\* The current message is done.
LEMMA DoneIsGood ==
    ASSUME TasksRight, NEW t \in TaskIds, tasks[t] # None, tasks[t].todo # <<>>, NEW made
    PROVE  GoodTask(t, Done(t), made)
<1> DEFINE s == tasks[t].todo
<1>1. GoodTask(t, tasks[t], created) /\ tasks[t] \in Tasks /\ s \in Seq(Items)
    BY BusyTask
<1>2. /\ Tail(s) \in Seq(Items) /\ Len(s) \in Nat \ {0} /\ Len(Tail(s)) = Len(s) - 1
      /\ \A i \in 1..Len(s) - 1 : Tail(s)[i] = s[i + 1]
    BY <1>1, EmptySeq, LenProperties, HeadTailProperties
<1>3. Done(t) = [socket |-> tasks[t].socket, todo |-> Tail(s), stage |-> "ready",
                 who |-> None, content |-> <<>>]
    <2> DEFINE k == Done(t)
               todo == Tail(s)
    <2>1. k = [tasks[t] EXCEPT !.todo = todo, !.stage = "ready", !.who = None,
                               !.content = <<>>]
        BY DEF Done
    <2> HIDE DEF k, todo
    <2>2. k = [socket |-> tasks[t].socket, todo |-> todo, stage |-> "ready", who |-> None,
               content |-> <<>>]
        BY <1>1, <2>1, TaskDone
    <2> QED
        BY <2>2 DEF k, todo
<1>4. Done(t) \in Tasks
    <2>1. <<>> \in Content
        BY DEF Content
    <2>2. Tail(s) \in Seq(Messages \union Parts \union {EndOfComposite})
        BY <1>2 DEF Items
    <2> QED
        BY <1>1, <1>3, <2>1, <2>2 DEF Tasks, Stages
<1>5. t # 0 => \A i \in 1..Len(Tail(s)) : Tail(s)[i].kind \in Splittable
    BY <1>1, <1>2 DEF GoodTask
<1> HIDE DEF s
<1> QED
    BY <1>3, <1>4, <1>5 DEF GoodTask

LEMMA DoneKeeps ==
    ASSUME TasksRight, created \subseteq created', NEW t \in TaskIds,
           tasks[t] # None, tasks[t].todo # <<>>, tasks' = [tasks EXCEPT ![t] = Done(t)]
    PROVE  /\ TasksRight'
           /\ tasks'[0] = None <=> tasks[0] = None
           /\ Depth(tasks[0]) = IF Current(t).kind = "End" THEN Depth(tasks'[0]) + 1
                                                           ELSE Depth(tasks'[0])
<1> DEFINE k == Done(t)
<1>1. GoodTask(t, k, created')
    BY DoneIsGood
<1> HIDE DEF k
<1>2. /\ TasksRight' /\ tasks'[t] = k /\ k # None
      /\ \A u \in TaskIds : u # t => tasks'[u] = tasks[u]
    <2>1. tasks' = [tasks EXCEPT ![t] = k]
        BY DEF k
    <2> QED
        BY <1>1, <2>1, TaskBecomes
<1>3. CASE t = 0
    <2>1. tasks[t].todo \in Seq(Items)
        BY BusyTask
    <2>2. Cardinality(Ends(tasks[t].todo)) =
              IF Head(tasks[t].todo).kind = "End"
              THEN Cardinality(Ends(Tail(tasks[t].todo))) + 1
              ELSE Cardinality(Ends(Tail(tasks[t].todo)))
        BY <2>1, EndsOfTail
    <2>3. k.todo = Tail(tasks[t].todo)
        BY BusyTask DEF k, Done, Tasks
    <2> QED
        BY <1>2, <1>3, <2>2, <2>3 DEF Depth, Current
<1>4. CASE t # 0
    <2>1. Current(t).kind # "End"
        BY <1>4, BusyTask DEF Splittable
    <2>2. tasks'[0] = tasks[0]
        BY <1>2, <1>4, JobId
    <2> QED
        BY <1>2, <2>1, <2>2
<1> QED
    BY <1>3, <1>4

\* Done with something else than the end of a composite command.
LEMMA DoneKeepsJob ==
    ASSUME TasksRight, created \subseteq created', NEW t \in TaskIds,
           tasks[t] # None, tasks[t].todo # <<>>, Current(t).kind # "End",
           tasks' = [tasks EXCEPT ![t] = Done(t)]
    PROVE  TasksRight' /\ JobKept
BY DoneKeeps DEF JobKept

\* The task goes to the next stage of the current message.
LEMMA WaitsKeeps ==
    ASSUME TasksRight, created \subseteq created', NEW t \in TaskIds,
           tasks[t] # None, tasks[t].todo # <<>>, Current(t).kind # "End",
           NEW stage \in {"transaction", "answer", "failed"}, NEW who \in created',
           NEW content \in Content,
           stage = "answer" =>
               /\ Current(t).kind \in PartitionCommands => content[1] \in Changes
               /\ Current(t).kind \in Requests => content \in Versions,
           Waits(t, stage, who, content)
    PROVE  TasksRight' /\ JobKept
<1> DEFINE k == [tasks[t] EXCEPT !.stage = stage, !.who = who, !.content = content]
<1>1. GoodTask(t, tasks[t], created) /\ tasks[t] \in Tasks
    BY BusyTask
<1>2. k = [socket |-> tasks[t].socket, todo |-> tasks[t].todo, stage |-> stage,
           who |-> who, content |-> content]
    <2> DEFINE r == tasks[t]
    <2>1. k = [r EXCEPT !.stage = stage, !.who = who, !.content = content] /\ r \in Tasks
        BY <1>1
    <2> HIDE DEF k, r
    <2>2. k = [socket |-> r.socket, todo |-> r.todo, stage |-> stage, who |-> who,
               content |-> content]
        BY <2>1, TaskWaits
    <2> QED
        BY <2>2 DEF r
<1>3. k \in Tasks
    <2>1. who \in Sockets
        BY DEF created
    <2> QED
        BY <1>1, <1>2, <2>1 DEF Tasks, Stages
<1>4. GoodTask(t, k, created')
    BY <1>1, <1>2, <1>3 DEF GoodTask, Current
<1>5. tasks' = [tasks EXCEPT ![t] = k]
    BY DEF Waits, TasksRight
<1>6. k.todo = tasks[t].todo
    BY <1>2
<1> HIDE DEF k
<1>7. /\ TasksRight' /\ tasks'[t] = k /\ k # None
      /\ \A u \in TaskIds : u # t => tasks'[u] = tasks[u]
    BY <1>4, <1>5, TaskBecomes
<1>8. CASE t = 0
    BY <1>6, <1>7, <1>8 DEF JobKept, Depth
<1>9. CASE t # 0
    <2>1. tasks'[0] = tasks[0]
        BY <1>7, <1>9, JobId
    <2> QED
        BY <1>7, <2>1 DEF JobKept
<1> QED
    BY <1>8, <1>9

\* A task begins with the message m.
LEMMA NewTaskIsGood ==
    ASSUME NEW s \in Sockets, NEW m \in Messages \union Parts, NEW t,
           t # 0 => m.kind \in Splittable, NEW made
    PROVE  /\ GoodTask(t, NewTask(s, m), made)
           /\ NewTask(s, m) \in Tasks
           /\ NewTask(s, m).todo = <<m>>
           /\ Depth(NewTask(s, m)) = 0
<1> DEFINE k == NewTask(s, m)
<1>1. k = [socket |-> s, todo |-> <<m>>, stage |-> "ready", who |-> None, content |-> <<>>]
    BY DEF NewTask
<1>2. k \in Tasks
    <2>1. <<>> \in Content
        BY DEF Content
    <2>2. <<m>> \in Seq(Messages \union Parts \union {EndOfComposite})
        BY EndsOfMessage DEF Items
    <2> HIDE DEF k
    <2> QED
        BY <1>1, <2>1, <2>2 DEF Tasks, Stages
<1>3. t # 0 => \A i \in 1..Len(<<m>>) : <<m>>[i].kind \in Splittable
    OBVIOUS
<1> HIDE DEF k
<1>4. GoodTask(t, k, made)
    BY <1>1, <1>2, <1>3 DEF GoodTask
<1>5. Depth(k) = 0
    BY <1>1, <1>2, EndsOfMessage, NoTaskAssumption DEF Depth
<1> QED
    BY <1>1, <1>2, <1>4, <1>5 DEF k
--------------------------------------------------------------------------------
(***************************************************************************)
(* The inductive invariant of the server.                                  *)
(***************************************************************************)
ConnectionsTyped ==
    /\ connection \in [Sockets -> {"none", "open", "closing", "closed"}]
    /\ up \in BOOLEAN
    /\ sent \in 0..MaxMessages

\* The queue's job is still at the head of the queue.
JobsRight ==
    /\ queue \in Seq([socket : Sockets, message : Messages])
    /\ tasks[0] # None => queue # <<>>

\* There is one event buffer for each composite command that is not at its end.
BuffersRight == BuffersTyped /\ Len(eventBuffers) = Depth(tasks[0])

SplitsRight ==
    \A id \in DOMAIN unfinished :
        /\ id \in Nat /\ id < nextIdNumber
        /\ unfinished[id] \in [command : Parts, lastSequenceNumber : Int]
        /\ unfinished[id].command.kind \in Splittable

DatabaseTyped ==
    database \in [Repositories -> [Partitions -> [present : BOOLEAN, version : Nat]]]

ServerRight ==
    /\ ObjectsTyped
    /\ ClientsTyped
    /\ TasksRight
    /\ JobsRight
    /\ BuffersRight
    /\ SplitsRight
    /\ DatabaseTyped
    /\ ConnectionsTyped

ServerInv == RegistryInv /\ ServerRight

LEMMA InitServer == Init => ServerRight
<1> SUFFICES ASSUME Init PROVE ServerRight
    OBVIOUS
<1>1. ObjectsTyped
    BY DEF Init, ParticipationInit, ObjectsTyped
<1>2. ClientsTyped
    <2>1. NewClient \in Clients
        BY DEF NewClient, Clients, Versions
    <2>2. \A p \in Sockets : client[p] = NewClient /\ participations[p] = NotCreated
        BY DEF Init, ParticipationInit
    <2>3. \A p \in Sockets : NumbersRight(p)
        BY <2>2 DEF NumbersRight, NewClient, NotCreated
    <2> QED
        BY <2>1, <2>3 DEF Init, ClientsTyped
<1>3. TasksRight
    BY DEF Init, ServerInit, TasksRight
<1>4. tasks[0] = None /\ queue = <<>> /\ eventBuffers = <<>>
    BY JobId DEF Init, ServerInit
<1>5. JobsRight
    BY <1>4 DEF JobsRight
<1>6. BuffersRight
    BY <1>4 DEF BuffersRight, BuffersTyped, Depth
<1>7. SplitsRight
    BY DEF Init, ServerInit, SplitsRight
<1>8. DatabaseTyped /\ ConnectionsTyped
    BY BoundsAssumption DEF Init, ServerInit, DatabaseTyped, ConnectionsTyped
<1> QED
    BY <1>1, <1>2, <1>3, <1>5, <1>6, <1>7, <1>8 DEF ServerRight

(***************************************************************************)
(* What steps keep.                                                        *)
(***************************************************************************)
BuffersKept == BuffersTyped' /\ Len(eventBuffers') = Len(eventBuffers)

\* A step in which the queue's job goes on.
LEMMA JobGoesOn ==
    ASSUME ServerInv, ObjectsTyped', ClientsTyped', TasksRight', JobKept, BuffersKept,
           SplitsRight', DatabaseTyped', UNCHANGED <<connection, up, sent, queue>>
    PROVE  ServerRight'
<1>1. JobsRight'
    BY DEF ServerInv, ServerRight, JobsRight, JobKept
<1>2. BuffersRight'
    BY DEF ServerInv, ServerRight, BuffersRight, BuffersKept, JobKept
<1>3. ConnectionsTyped'
    BY DEF ServerInv, ServerRight, ConnectionsTyped
<1> QED
    BY <1>1, <1>2, <1>3 DEF ServerRight

LEMMA BuffersStay ==
    ASSUME ServerInv, UNCHANGED eventBuffers
    PROVE  BuffersKept
BY DEF ServerInv, ServerRight, BuffersRight, BuffersTyped, BuffersKept

LEMMA DatabaseStays ==
    ASSUME ServerInv, UNCHANGED database
    PROVE  DatabaseTyped'
BY DEF ServerInv, ServerRight, DatabaseTyped

LEMMA SplitsStay ==
    ASSUME ServerInv, UNCHANGED unfinished, nextIdNumber' \in {nextIdNumber, nextIdNumber + 1}
    PROVE  SplitsRight'
<1>1. nextIdNumber \in Nat /\ nextIdNumber' \in Nat /\ nextIdNumber <= nextIdNumber'
    BY DEF ServerInv, RegistryInv, IdsGivenOut
<1>2. SplitsRight
    BY DEF ServerInv, ServerRight
<1> SUFFICES ASSUME NEW id \in DOMAIN unfinished
             PROVE  /\ id \in Nat /\ id < nextIdNumber'
                    /\ unfinished[id] \in [command : Parts, lastSequenceNumber : Int]
                    /\ unfinished[id].command.kind \in Splittable
    BY DEF SplitsRight
<1>3. id \in Nat /\ id < nextIdNumber
    BY <1>2 DEF SplitsRight
<1>4. id < nextIdNumber'
    BY <1>1, <1>3
<1> QED
    BY <1>2, <1>3, <1>4 DEF SplitsRight

\* The clients and the numbers of participations stay as they are.
NumbersStay == \A p \in Sockets :
                   participations'[p].eventSequenceNumber = participations[p].eventSequenceNumber

LEMMA ClientsStay ==
    ASSUME ServerInv, UNCHANGED client, NumbersStay
    PROVE  ClientsTyped'
BY DEF ServerInv, ServerRight, ClientsTyped, NumbersRight, NumbersStay

LEMMA ObjectsStay ==
    ASSUME ServerInv, UNCHANGED participations
    PROVE  ObjectsTyped' /\ created' = created /\ NumbersStay
BY DEF ServerInv, ServerRight, ObjectsTyped, created, NumbersStay

\* A client whose numbering stays.
LEMMA ClientBecomes ==
    ASSUME ServerInv, NumbersStay, NEW p \in Sockets, NEW c \in Clients,
           c.last = client[p].last, c.lost = client[p].lost, c.faults = client[p].faults,
           client' = [client EXCEPT ![p] = c]
    PROVE  ClientsTyped'
<1>1. ClientsTyped
    BY DEF ServerInv, ServerRight
<1>2. /\ client' \in [Sockets -> Clients]
      /\ \A q \in Sockets : client'[q] = IF q = p THEN c ELSE client[q]
    BY <1>1 DEF ClientsTyped
<1>3. \A q \in Sockets : NumbersRight(q)'
    BY <1>1, <1>2 DEF ClientsTyped, NumbersRight, NumbersStay
<1> QED
    BY <1>2, <1>3 DEF ClientsTyped

\* A participation whose fields are assigned, but for its numbering.
LEMMA ObjectBecomes ==
    ASSUME ServerInv, NEW p \in created, NEW o \in Participation,
           o.eventSequenceNumber = participations[p].eventSequenceNumber,
           participations' = [participations EXCEPT ![p] = o]
    PROVE  ObjectsTyped' /\ created' = created /\ NumbersStay
<1>1. participations \in [Sockets -> Participation \union {NotCreated}]
    BY DEF ServerInv, ServerRight, ObjectsTyped
<1>2. p \in Sockets /\ o.socket # None
    BY NoneAssumption DEF created, Participation
<1>3. /\ ObjectsTyped'
      /\ \A q \in Sockets : participations'[q] = IF q = p THEN o ELSE participations[q]
    BY <1>1, <1>2 DEF ObjectsTyped
<1> QED
    BY <1>2, <1>3 DEF created, NumbersStay

\* The participations that act.
LEMMA CreatedIsTyped ==
    ASSUME ServerInv, NEW p \in created
    PROVE  p \in Sockets /\ participations[p] \in Participation
BY DEF ServerInv, ServerRight, ObjectsTyped, created, NotCreated

LEMMA WhoIsCreated ==
    ASSUME ServerInv, NEW t \in TaskIds, tasks[t] # None, Who(t) # None
    PROVE  Who(t) \in created
<1>1. tasks[t].socket \in Sockets
    BY DEF ServerInv, ServerRight, TasksRight, Tasks
<1> QED
    BY <1>1 DEF Who, getParticipation, ServerInv, RegistryInv, Registered, allParticipations

\* The message that a task processes, if it is not at the end of a composite
\* command.
LEMMA CurrentIsMessage ==
    ASSUME ServerInv, NEW t \in TaskIds, tasks[t] # None, tasks[t].todo # <<>>,
           Current(t).kind # "End"
    PROVE  Current(t) \in Messages \union Parts
<1>1. TasksRight
    BY DEF ServerInv, ServerRight
<1>2. Current(t) \in Items
    BY <1>1, BusyTask
<1> QED
    BY <1>2 DEF Items, EndOfComposite

\* An error event.
LEMMA SendErrorKeeps ==
    ASSUME ServerInv, NEW t \in TaskIds, NEW p \in created, SendError(t, p)
    PROVE  ObjectsTyped' /\ created' = created /\ ClientsTyped' /\ BuffersKept
<1>1. CASE UNCHANGED <<participations, eventBuffers, client>>
    BY <1>1, ObjectsStay, ClientsStay, BuffersStay
<1>2. CASE Send([q \in {p} |-> ErrorEvent], [q \in {p} |-> tasks[t].socket])
    <2> DEFINE events == [q \in {p} |-> ErrorEvent]
               socketOf == [q \in {p} |-> tasks[t].socket]
    <2>1. ForParticipations(events)
        BY DEF ForParticipations, ErrorEvent, Events
    <2>2. Resubscribed(participations) /\ ObjectsTyped /\ ClientsTyped
          /\ eventBuffers \in Seq([Sockets -> Seq(Events)])
        BY DEF ServerInv, ServerRight, ObjectsTyped, Resubscribed, BuffersRight, BuffersTyped
    <2> HIDE DEF events, socketOf
    <2>3. SendWith(eventBuffers, participations, events, socketOf)
        BY <1>2 DEF Send, events, socketOf
    <2>4. SendKeeps /\ Len(eventBuffers') = Len(eventBuffers)
        BY <2>1, <2>2, <2>3, SendIsRight
    <2> QED
        BY <2>4 DEF SendKeeps, BuffersKept
<1> QED
    BY <1>1, <1>2 DEF SendError
--------------------------------------------------------------------------------
(***************************************************************************)
(* The steps of processDelta before a transaction.                         *)
(***************************************************************************)
\* A task whose message is done, when the rest of the step is right.
LEMMA DoneIsRight ==
    ASSUME ServerInv, NEW t \in TaskIds, tasks[t] # None, tasks[t].todo # <<>>,
           Current(t).kind # "End", tasks' = [tasks EXCEPT ![t] = Done(t)],
           ObjectsTyped', created' = created, ClientsTyped', BuffersKept,
           UNCHANGED <<nextIdNumber, connection, up, sent, queue, unfinished, database>>
    PROVE  ServerRight'
<1>1. TasksRight' /\ JobKept
    BY DoneKeepsJob DEF ServerInv, ServerRight
<1>2. SplitsRight' /\ DatabaseTyped'
    BY SplitsStay, DatabaseStays
<1> QED
    BY <1>1, <1>2, JobGoesOn

\* A task that goes on to another stage, when the rest of the step is right.
LEMMA WaitsIsRight ==
    ASSUME ServerInv, NEW t \in TaskIds, tasks[t] # None, tasks[t].todo # <<>>,
           Current(t).kind # "End", NEW stage \in {"transaction", "answer", "failed"}, NEW who \in created,
           NEW content \in Content,
           stage = "answer" =>
               /\ Current(t).kind \in PartitionCommands => content[1] \in Changes
               /\ Current(t).kind \in Requests => content \in Versions,
           Waits(t, stage, who, content),
           ObjectsTyped', created' = created, ClientsTyped', BuffersKept, DatabaseTyped',
           nextIdNumber' \in {nextIdNumber, nextIdNumber + 1},
           UNCHANGED <<connection, up, sent, queue, unfinished>>
    PROVE  ServerRight'
<1>1. TasksRight
    BY DEF ServerInv, ServerRight
<1>2. TasksRight' /\ JobKept
    BY <1>1, WaitsKeeps
<1>3. SplitsRight'
    BY SplitsStay
<1> QED
    BY <1>2, <1>3, JobGoesOn

LEMMA NoParticipationIsRight ==
    ASSUME ServerInv, NEW t \in TaskIds, NoParticipation(t)
    PROVE  ServerRight'
<1>1. ObjectsTyped' /\ created' = created /\ ClientsTyped' /\ BuffersKept
    BY ObjectsStay, ClientsStay, BuffersStay DEF NoParticipation, participationVars
<1> QED
    BY <1>1, DoneIsRight DEF NoParticipation, IsAt, participationVars

LEMMA InvalidIsRight ==
    ASSUME ServerInv, NEW t \in TaskIds, Invalid(t)
    PROVE  ServerRight'
<1>1. Who(t) \in created
    BY WhoIsCreated DEF Invalid, IsAt
<1>2. ObjectsTyped' /\ created' = created /\ ClientsTyped' /\ BuffersKept
    BY <1>1, SendErrorKeeps DEF Invalid
<1> QED
    BY <1>2, DoneIsRight DEF Invalid, IsAt

LEMMA NotSignedOnIsRight ==
    ASSUME ServerInv, NEW t \in TaskIds, NotSignedOn(t)
    PROVE  ServerRight'
<1>1. Who(t) \in created
    BY WhoIsCreated DEF NotSignedOn, IsAt
<1>2. ObjectsTyped' /\ created' = created /\ ClientsTyped' /\ BuffersKept
    BY <1>1, SendErrorKeeps DEF NotSignedOn
<1> QED
    BY <1>2, DoneIsRight DEF NotSignedOn, IsAt

\* The participation of a message that is accepted.
LEMMA AcceptedFrom ==
    ASSUME ServerInv, NEW t \in TaskIds, NEW k, Accepted(t, k)
    PROVE  /\ tasks[t] # None /\ tasks[t].todo # <<>> /\ Current(t).kind = k
           /\ Who(t) \in created /\ Who(t) \in Sockets
           /\ participations[Who(t)] \in Participation
<1>1. tasks[t] # None /\ tasks[t].todo # <<>> /\ Current(t).kind = k /\ Who(t) # None
    BY DEF Accepted, IsAt
<1>2. Who(t) \in created
    BY <1>1, WhoIsCreated
<1> QED
    BY <1>1, <1>2, CreatedIsTyped

LEMMA SignOffIsRight ==
    ASSUME ServerInv, NEW t \in TaskIds, SignOff(t)
    PROVE  ServerRight'
<1> DEFINE p == Who(t)
           o == [participations[p] EXCEPT !.participationStatus = "connected"]
<1>1. /\ tasks[t] # None /\ tasks[t].todo # <<>> /\ Current(t).kind = "SignOff"
      /\ p \in created /\ p \in Sockets /\ participations[p] \in Participation
    BY AcceptedFrom DEF SignOff
<1>2. ObjectsTyped' /\ created' = created /\ NumbersStay
    <2>1. CASE MayAct(p)
        <3>1. participations' = [participations EXCEPT ![p] = o]
            BY <2>1 DEF SignOff
        <3>2. /\ o \in Participation
              /\ o.eventSequenceNumber = participations[p].eventSequenceNumber
            BY <1>1 DEF Participation, Statuses
        <3> HIDE DEF o, p
        <3> QED
            BY <1>1, <3>1, <3>2, ObjectBecomes
    <2>2. CASE ~MayAct(p)
        BY <2>2, ObjectsStay DEF SignOff
    <2> QED
        BY <2>1, <2>2
<1>3. ClientsTyped' /\ BuffersKept
    BY <1>2, ClientsStay, BuffersStay DEF SignOff
<1> QED
    BY <1>1, <1>2, <1>3, DoneIsRight DEF SignOff

LEMMA UnsubscribeIsRight ==
    ASSUME ServerInv, NEW t \in TaskIds, Unsubscribe(t)
    PROVE  ServerRight'
<1> DEFINE p == Who(t)
           x == Current(t).partition
           o == [participations[p] EXCEPT !.subscribedPartitions = @ \ {x}]
           missing == {e \in client[p].missing : e[1] # x}
           view == [client[p].view EXCEPT ![x] = None]
           c == [client[p] EXCEPT !.view = view, !.missing = missing]
<1>1. /\ tasks[t] # None /\ tasks[t].todo # <<>> /\ Current(t).kind = "Unsubscribe"
      /\ p \in created /\ p \in Sockets /\ participations[p] \in Participation
    BY AcceptedFrom DEF Unsubscribe
<1>2. ObjectsTyped' /\ created' = created /\ NumbersStay
    <2>1. participations' = [participations EXCEPT ![p] = o]
        BY DEF Unsubscribe
    <2>2. /\ o \in Participation
          /\ o.eventSequenceNumber = participations[p].eventSequenceNumber
        BY <1>1 DEF Participation
    <2> HIDE DEF o, p
    <2> QED
        BY <1>1, <2>1, <2>2, ObjectBecomes
<1>3. ClientsTyped'
    <2>1. client[p] \in Clients /\ client \in [Sockets -> Clients]
        BY <1>1 DEF ServerInv, ServerRight, ClientsTyped
    <2>2. view \in Versions /\ missing \in SUBSET (Partitions \X Nat)
        BY <2>1 DEF Clients, Versions
    <2>3. client' = [client EXCEPT ![p].view[x] = None,
                                   ![p].missing = {e \in @ : e[1] # x}]
        BY DEF Unsubscribe
    <2>4. client' = [client EXCEPT ![p] = c]
        BY <1>1, <2>1, <2>3 DEF Clients
    <2> HIDE DEF view, missing, p
    <2>5. /\ c \in Clients
          /\ c.last = client[p].last /\ c.lost = client[p].lost /\ c.faults = client[p].faults
        BY <2>1, <2>2 DEF Clients
    <2> HIDE DEF c
    <2> QED
        BY <1>1, <1>2, <2>4, <2>5, ClientBecomes
<1>4. BuffersKept
    BY BuffersStay DEF Unsubscribe
<1> QED
    BY <1>1, <1>2, <1>3, <1>4, DoneIsRight DEF Unsubscribe

LEMMA SubscribeChangingIsRight ==
    ASSUME ServerInv, NEW t \in TaskIds, SubscribeChanging(t)
    PROVE  ServerRight'
<1> DEFINE p == Who(t)
           o == [participations[p] EXCEPT
                    !.partitionChangesSubscription = Current(t).subscription]
<1>1. /\ tasks[t] # None /\ tasks[t].todo # <<>> /\ Current(t).kind = "SubscribeChanging"
      /\ p \in created /\ p \in Sockets /\ participations[p] \in Participation
    BY AcceptedFrom DEF SubscribeChanging
<1>2. Current(t).subscription \in Subscription
    BY <1>1, CurrentIsMessage, MessagesAssumption
<1>3. ObjectsTyped' /\ created' = created /\ NumbersStay
    <2>1. participations' = [participations EXCEPT ![p] = o]
        BY DEF SubscribeChanging
    <2>2. /\ o \in Participation
          /\ o.eventSequenceNumber = participations[p].eventSequenceNumber
        BY <1>1, <1>2 DEF Participation
    <2> HIDE DEF o, p
    <2> QED
        BY <1>1, <2>1, <2>2, ObjectBecomes
<1>4. ClientsTyped' /\ BuffersKept
    BY <1>3, ClientsStay, BuffersStay DEF SubscribeChanging
<1> QED
    BY <1>1, <1>3, <1>4, DoneIsRight DEF SubscribeChanging

LEMMA ReconnectIsRight ==
    ASSUME ServerInv, NEW t \in TaskIds, Reconnect(t)
    PROVE  ServerRight'
<1>1. /\ tasks[t] # None /\ tasks[t].todo # <<>> /\ Current(t).kind = "Reconnect"
    BY AcceptedFrom DEF Reconnect
<1>2. CASE UNCHANGED <<participationVars, client>>
    <2>1. ObjectsTyped' /\ created' = created /\ ClientsTyped' /\ BuffersKept
        BY <1>2, ObjectsStay, ClientsStay, BuffersStay DEF Reconnect, participationVars
    <2> QED
        BY <1>1, <1>2, <2>1, DoneIsRight DEF Reconnect, participationVars
<1>3. ASSUME NEW p \in oldParticipations,
             reconnect(tasks[t].socket, p),
             client' = IF connection[tasks[t].socket] = "open"
                       THEN [client EXCEPT ![p].last = lastSequenceNumber(p),
                                           ![p].lost = FALSE]
                       ELSE client
      PROVE  ServerRight'
    <2> DEFINE s == tasks[t].socket
               o == [participations[p] EXCEPT !.socket = s]
    <2>1. s \in Sockets
        BY <1>1 DEF ServerInv, ServerRight, TasksRight, Tasks
    <2>2. p \in created
        BY DEF ServerInv, RegistryInv, Registered
    <2>3. p \in Sockets /\ participations[p] \in Participation
        BY <2>2, CreatedIsTyped
    <2>4. ObjectsTyped' /\ created' = created /\ NumbersStay
        <3>1. participations' = [participations EXCEPT ![p] = o]
            BY <1>3 DEF reconnect
        <3>2. /\ o \in Participation
              /\ o.eventSequenceNumber = participations[p].eventSequenceNumber
            BY <2>1, <2>3 DEF Participation
        <3> HIDE DEF o
        <3> QED
            BY <2>2, <3>1, <3>2, ObjectBecomes
    <2>5. ClientsTyped'
        <3> DEFINE last == lastSequenceNumber(p)
                   c == [client[p] EXCEPT !.last = last, !.lost = FALSE]
        <3>1. CASE connection[s] = "open"
            <4>1. ClientsTyped
                BY DEF ServerInv, ServerRight
            <4>2. client' = [client EXCEPT ![p] = c]
                BY <1>3, <3>1, <2>3, <4>1 DEF ClientsTyped
            <4>3. last \in Nat /\ last = participations[p].eventSequenceNumber - 1
                BY <2>3 DEF lastSequenceNumber, Participation
            <4> HIDE DEF last
            <4>4. /\ c \in Clients /\ c.last = last /\ c.lost = FALSE
                  /\ c.faults = client[p].faults
                BY <2>3, <4>1, <4>3 DEF ClientsTyped, Clients
            <4> HIDE DEF c
            <4>5. /\ client' \in [Sockets -> Clients]
                  /\ \A q \in Sockets : client'[q] = IF q = p THEN c ELSE client[q]
                BY <2>3, <4>1, <4>2, <4>4 DEF ClientsTyped
            <4>6. ASSUME NEW q \in Sockets PROVE NumbersRight(q)'
                <5>1. NumbersRight(q)
                    BY <4>1 DEF ClientsTyped
                <5>2. CASE q = p
                    <6>1. participations[p].eventSequenceNumber \in Nat
                        BY <2>3 DEF Participation
                    <6> QED
                        BY <2>4, <4>3, <4>4, <4>5, <5>1, <5>2, <6>1
                        DEF NumbersRight, NumbersStay
                <5>3. CASE q # p
                    BY <2>4, <4>5, <5>1, <5>3 DEF NumbersRight, NumbersStay
                <5> QED
                    BY <5>2, <5>3
            <4> QED
                BY <4>5, <4>6 DEF ClientsTyped
        <3>2. CASE connection[s] # "open"
            BY <1>3, <2>4, <3>2, ClientsStay
        <3> QED
            BY <3>1, <3>2
    <2>6. BuffersKept
        BY BuffersStay DEF Reconnect
    <2>7. UNCHANGED nextIdNumber
        BY <1>3 DEF reconnect
    <2> QED
        BY <1>1, <2>4, <2>5, <2>6, <2>7, DoneIsRight DEF Reconnect
<1> QED
    BY <1>2, <1>3 DEF Reconnect, findOldParticipation

LEMMA SignOnBeginsIsRight ==
    ASSUME ServerInv, NEW t \in TaskIds, SignOnBegins(t)
    PROVE  ServerRight'
<1> DEFINE p == Who(t)
           o == [participations[p] EXCEPT !.participationStatus = "signedOn"]
<1>1. /\ tasks[t] # None /\ tasks[t].todo # <<>> /\ Current(t).kind # "End"
      /\ p \in created /\ p \in Sockets /\ participations[p] \in Participation
    BY AcceptedFrom DEF SignOnBegins
<1>2. ObjectsTyped' /\ created' = created /\ NumbersStay
    <2>1. participations' = [participations EXCEPT ![p] = o]
        BY DEF SignOnBegins
    <2>2. /\ o \in Participation
          /\ o.eventSequenceNumber = participations[p].eventSequenceNumber
        BY <1>1 DEF Participation, Statuses
    <2> HIDE DEF o, p
    <2> QED
        BY <1>1, <2>1, <2>2, ObjectBecomes
<1>3. ClientsTyped' /\ BuffersKept /\ DatabaseTyped'
    BY <1>2, ClientsStay, BuffersStay, DatabaseStays DEF SignOnBegins
<1>4. <<>> \in Content
    BY DEF Content
<1>5. Waits(t, "transaction", p, <<>>)
    BY DEF SignOnBegins
<1>6. UNCHANGED <<nextIdNumber, connection, up, sent, queue, unfinished>>
    BY DEF SignOnBegins
<1> HIDE DEF p
<1> QED
    BY <1>1, <1>2, <1>3, <1>4, <1>5, <1>6, WaitsIsRight

LEMMA TransactionBeginsIsRight ==
    ASSUME ServerInv, NEW t \in TaskIds, TransactionBegins(t)
    PROVE  ServerRight'
<1> DEFINE p == Who(t)
<1>1. tasks[t] # None /\ tasks[t].todo # <<>> /\ Current(t).kind # "End" /\ p \in created
    BY AcceptedFrom DEF TransactionBegins, PartitionCommands
<1>2. ObjectsTyped' /\ created' = created /\ NumbersStay
    BY ObjectsStay DEF TransactionBegins, participationVars
<1>3. ClientsTyped' /\ BuffersKept /\ DatabaseTyped'
    BY <1>2, ClientsStay, BuffersStay, DatabaseStays DEF TransactionBegins
<1>4. <<>> \in Content
    BY DEF Content
<1>5. Waits(t, "transaction", p, <<>>)
    BY DEF TransactionBegins
<1>6. UNCHANGED <<nextIdNumber, connection, up, sent, queue, unfinished>>
    BY DEF TransactionBegins, participationVars
<1> HIDE DEF p
<1> QED
    BY <1>1, <1>2, <1>3, <1>4, <1>5, <1>6, WaitsIsRight
--------------------------------------------------------------------------------
(***************************************************************************)
(* Composite commands.                                                     *)
(***************************************************************************)
\* A composite command has a buffer of its own.
LEMMA CompositeIsRight ==
    ASSUME ServerInv, NEW t \in TaskIds, Composite(t)
    PROVE  ServerRight'
<1> DEFINE s == tasks[t].todo
           parts == Current(t).parts
           todo == parts \o <<EndOfComposite>> \o Tail(s)
           k == [tasks[t] EXCEPT !.todo = todo]
           empty == [p \in Sockets |-> <<>>]
<1>1. tasks[t] # None /\ s # <<>> /\ Current(t).kind = "Composite" /\ tasks[t].stage = "ready"
    BY DEF Composite, Accepted, IsAt
<1>2. /\ TasksRight /\ ObjectsTyped' /\ created' = created /\ NumbersStay
    BY ObjectsStay DEF Composite, participationVars, ServerInv, ServerRight
<1>3. GoodTask(t, tasks[t], created) /\ tasks[t] \in Tasks /\ s \in Seq(Items)
      /\ Tail(s) \in Seq(Items) /\ t = 0
    BY <1>1, <1>2, BusyTask DEF Splittable
<1>4. parts \in Seq(Parts)
    BY <1>1, CurrentIsMessage, MessagesAssumption
<1> HIDE DEF parts
<1>5. todo \in Seq(Items)
      /\ Cardinality(Ends(todo)) = Cardinality(Ends(Tail(s))) + 1
    BY <1>3, <1>4, EndsOfOpened
<1>6. Cardinality(Ends(s)) = Cardinality(Ends(Tail(s)))
    BY <1>1, <1>3, EndsOfTail DEF Current
<1> HIDE DEF todo
<1>7. k = [socket |-> tasks[t].socket, todo |-> todo, stage |-> tasks[t].stage,
           who |-> tasks[t].who, content |-> tasks[t].content]
    BY <1>3 DEF Tasks
<1>8. k \in Tasks
    BY <1>3, <1>5, <1>7 DEF Tasks, Items
<1>9. GoodTask(t, k, created')
    BY <1>1, <1>2, <1>3, <1>7, <1>8 DEF GoodTask
<1>10. tasks' = [tasks EXCEPT ![t] = k]
    <2>1. tasks' = [tasks EXCEPT ![t].todo = todo]
        BY DEF Composite, todo, parts
    <2> QED
        BY <2>1
<1>11. k.todo = todo
    BY <1>7
<1> HIDE DEF k, s
<1>12. TasksRight' /\ tasks'[0] = k /\ k # None
    BY <1>2, <1>3, <1>9, <1>10, TaskBecomes
<1>13. Depth(tasks'[0]) = Depth(tasks[0]) + 1
    BY <1>1, <1>3, <1>5, <1>6, <1>11, <1>12 DEF Depth, s
<1>14. BuffersRight'
    <2>1. eventBuffers \in Seq([Sockets -> Seq(Events)])
          /\ Len(eventBuffers) = Depth(tasks[0])
        BY DEF ServerInv, ServerRight, BuffersRight, BuffersTyped
    <2>2. empty \in [Sockets -> Seq(Events)]
        OBVIOUS
    <2>3. eventBuffers' = Append(eventBuffers, empty)
        BY DEF Composite
    <2> HIDE DEF empty
    <2>4. eventBuffers' \in Seq([Sockets -> Seq(Events)])
          /\ Len(eventBuffers') = Len(eventBuffers) + 1
        BY <2>1, <2>2, <2>3, AppendProperties
    <2> QED
        BY <1>13, <2>1, <2>4 DEF BuffersRight, BuffersTyped
<1>15. JobsRight'
    BY <1>1, <1>3 DEF Composite, ServerInv, ServerRight, JobsRight
<1>16. ClientsTyped' /\ SplitsRight' /\ DatabaseTyped'
    BY <1>2, ClientsStay, SplitsStay, DatabaseStays DEF Composite, participationVars
<1>17. ConnectionsTyped'
    BY DEF Composite, ServerInv, ServerRight, ConnectionsTyped
<1> QED
    BY <1>2, <1>12, <1>14, <1>15, <1>16, <1>17 DEF ServerRight

\* Its events come from its own buffer, which goes.
LEMMA CompositeEndsIsRight ==
    ASSUME ServerInv, NEW t \in TaskIds, CompositeEnds(t)
    PROVE  ServerRight'
<1> DEFINE S == [Sockets -> Seq(Events)]
           told == {p \in allParticipations : activeBuffer[p] # <<>>}
           events == [p \in told |-> CompositeEvent(activeBuffer[p])]
<1>1. /\ tasks[t] # None /\ tasks[t].todo # <<>> /\ Current(t).kind = "End"
      /\ tasks' = [tasks EXCEPT ![t] = Done(t)]
    BY DEF CompositeEnds, EndsWith, IsAt
<1>2. TasksRight /\ ObjectsTyped /\ ClientsTyped
    BY DEF ServerInv, ServerRight
<1>3. t = 0 /\ tasks[t].todo \in Seq(Items)
    BY <1>1, <1>2, BusyTask DEF Splittable
<1>4. Depth(tasks[0]) \in Nat \ {0}
    <2>1. Cardinality(Ends(tasks[t].todo)) = Cardinality(Ends(Tail(tasks[t].todo))) + 1
          /\ Tail(tasks[t].todo) \in Seq(Items)
        BY <1>1, <1>3, EndsOfTail DEF Current
    <2>2. Cardinality(Ends(Tail(tasks[t].todo))) \in Nat
        BY <2>1, EndsFinite
    <2> QED
        BY <1>1, <1>3, <2>1, <2>2 DEF Depth
<1>5. eventBuffers \in Seq(S) /\ Len(eventBuffers) = Depth(tasks[0])
    BY DEF ServerInv, ServerRight, BuffersRight, BuffersTyped
<1>6. endComposite \in Seq(S) /\ Len(endComposite) = Depth(tasks[0]) - 1
    <2> DEFINE l == Len(eventBuffers)
    <2>1. l - 1 \in 0..l /\ 1 \in 1..l + 1 /\ (1 <= l - 1 + 1)
        BY <1>4, <1>5
    <2> HIDE DEF S
    <2>2. SubSeq(eventBuffers, 1, l - 1) \in Seq(S) /\ Len(SubSeq(eventBuffers, 1, l - 1)) = l - 1
        BY <1>4, <1>5, SubSeqProperties
    <2> QED
        BY <1>5, <2>2 DEF endComposite
<1>7. activeBuffer \in S
    <2>1. Len(eventBuffers) \in 1..Len(eventBuffers)
        BY <1>4, <1>5
    <2> HIDE DEF S
    <2> QED
        BY <1>5, <2>1, ElementOfSeq DEF activeBuffer
<1>8. allParticipations \subseteq created /\ created \subseteq Sockets
    BY DEF ServerInv, RegistryInv, Registered, created
<1>9. ForParticipations(events)
    <2>1. \A p \in told : CompositeEvent(activeBuffer[p]) \in Events
        BY <1>7, <1>8, CompositeEventType
    <2> QED
        BY <1>8, <2>1 DEF ForParticipations
<1>10. SendWith(endComposite, participations, events, ownSocket)
    BY DEF CompositeEnds, EndsWith
<1>11. Resubscribed(participations)
    BY <1>2 DEF ObjectsTyped, Resubscribed
<1> HIDE DEF events
<1>12. SendKeeps /\ Len(eventBuffers') = Len(endComposite)
    BY <1>2, <1>6, <1>9, <1>10, <1>11, SendIsRight
<1>13. /\ TasksRight' /\ (tasks'[0] = None <=> tasks[0] = None)
       /\ Depth(tasks[0]) = Depth(tasks'[0]) + 1
    BY <1>1, <1>2, <1>12, DoneKeeps DEF SendKeeps
<1>14. Depth(tasks'[0]) = Depth(tasks[0]) - 1
    <2>1. tasks'[0] # None
        BY <1>1, <1>3, <1>13
    <2>2. tasks'[0].todo \in Seq(Items)
        BY <1>13, <2>1, JobId DEF TasksRight, Tasks, Items
    <2>3. Depth(tasks'[0]) \in Nat
        BY <2>1, <2>2, EndsFinite DEF Depth
    <2> QED
        BY <1>13, <2>3
<1>15. BuffersRight'
    BY <1>6, <1>12, <1>14 DEF SendKeeps, BuffersRight
<1>16. JobsRight'
    BY <1>13 DEF CompositeEnds, EndsWith, ServerInv, ServerRight, JobsRight
<1>17. SplitsRight' /\ DatabaseTyped'
    BY SplitsStay, DatabaseStays DEF CompositeEnds, EndsWith
<1>18. ConnectionsTyped'
    BY DEF CompositeEnds, EndsWith, ServerInv, ServerRight, ConnectionsTyped
<1> QED
    BY <1>12, <1>13, <1>15, <1>16, <1>17, <1>18 DEF ServerRight, SendKeeps

(***************************************************************************)
(* Split commands.                                                         *)
(***************************************************************************)
LEMMA SplitIsRight ==
    ASSUME ServerInv, NEW t \in TaskIds, Split(t)
    PROVE  ServerRight'
<1> DEFINE id == participations[Who(t)].participationId
           entry == [command |-> Current(t).command, lastSequenceNumber |-> -1]
<1>1. /\ tasks[t] # None /\ tasks[t].todo # <<>> /\ Current(t).kind = "Split"
      /\ Who(t) \in created
    BY AcceptedFrom DEF Split
<1>2. /\ Current(t).command \in Parts /\ Current(t).command.kind \in Splittable
    BY <1>1, CurrentIsMessage, MessagesAssumption DEF Splittable
<1>3. id \in Nat /\ id < nextIdNumber
    BY <1>1 DEF ServerInv, RegistryInv, IdsGivenOut
<1>4. /\ entry \in [command : Parts, lastSequenceNumber : Int]
      /\ entry.command.kind \in Splittable
    BY <1>2
<1>5. unfinished' = Over(Only(id, entry), unfinished)
    BY DEF Split
<1> HIDE DEF id, entry
<1>6. /\ DOMAIN unfinished' = DOMAIN unfinished \union {id}
      /\ \A i \in DOMAIN unfinished' : unfinished'[i] = IF i = id THEN entry ELSE unfinished[i]
    BY <1>5 DEF Over, Only
<1>7. SplitsRight'
    <2>1. SplitsRight /\ nextIdNumber' = nextIdNumber
        BY DEF ServerInv, ServerRight, Split, participationVars
    <2> QED
        BY <1>3, <1>4, <1>6, <2>1 DEF SplitsRight
<1>8. ObjectsTyped' /\ created' = created /\ ClientsTyped' /\ BuffersKept /\ DatabaseTyped'
    BY ObjectsStay, ClientsStay, BuffersStay, DatabaseStays DEF Split, participationVars
<1>9. TasksRight' /\ JobKept
    BY <1>1, <1>8, DoneKeepsJob DEF ServerInv, ServerRight, Split
<1>10. UNCHANGED <<connection, up, sent, queue>>
    BY DEF Split
<1> QED
    BY <1>7, <1>8, <1>9, <1>10, JobGoesOn

LEMMA ContinuedRefusedIsRight ==
    ASSUME ServerInv, NEW t \in TaskIds, ContinuedRefused(t)
    PROVE  ServerRight'
<1>1. /\ tasks[t] # None /\ tasks[t].todo # <<>> /\ Current(t).kind = "Continued"
      /\ Who(t) \in created
    BY AcceptedFrom DEF ContinuedRefused
<1>2. ObjectsTyped' /\ created' = created /\ ClientsTyped' /\ BuffersKept
    BY <1>1, SendErrorKeeps DEF ContinuedRefused
<1> QED
    BY <1>1, <1>2, DoneIsRight DEF ContinuedRefused

\* The completed command gets a task of its own.
LEMMA ContinuedIsRight ==
    ASSUME ServerInv, NEW t \in TaskIds, Continued(t)
    PROVE  ServerRight'
<1> DEFINE id == participations[Who(t)].participationId
           command == unfinished[id].command
<1>1. /\ tasks[t] # None /\ tasks[t].todo # <<>> /\ Current(t).kind = "Continued"
      /\ Who(t) \in created
    BY AcceptedFrom DEF Continued
<1>2. ObjectsTyped' /\ created' = created /\ ClientsTyped' /\ BuffersKept /\ DatabaseTyped'
    BY ObjectsStay, ClientsStay, BuffersStay, DatabaseStays DEF Continued, participationVars
<1>3. TasksRight /\ SplitsRight /\ nextIdNumber' = nextIdNumber
    BY DEF ServerInv, ServerRight, Continued, participationVars
<1>4. UNCHANGED <<connection, up, sent, queue>>
    BY DEF Continued
<1>5. id \in DOMAIN unfinished
    BY DEF Continued, IsNextChunk
<1>6. /\ unfinished[id] \in [command : Parts, lastSequenceNumber : Int]
      /\ command \in Parts /\ command.kind \in Splittable
    BY <1>3, <1>5 DEF SplitsRight
<1>7. CASE ~Current(t).completed
    <2> DEFINE entry == [unfinished[id] EXCEPT !.lastSequenceNumber = @ + 1]
    <2>1. /\ entry \in [command : Parts, lastSequenceNumber : Int]
          /\ entry.command.kind \in Splittable
        BY <1>6
    <2>2. unfinished' = [unfinished EXCEPT ![id] = entry]
          /\ tasks' = [tasks EXCEPT ![t] = Done(t)]
        BY <1>7 DEF Continued
    <2> HIDE DEF entry
    <2>3. SplitsRight'
        BY <1>3, <1>5, <2>1, <2>2 DEF SplitsRight
    <2>4. TasksRight' /\ JobKept
        BY <1>1, <1>2, <1>3, <2>2, DoneKeepsJob
    <2> QED
        BY <1>2, <1>4, <2>3, <2>4, JobGoesOn
<1>8. CASE Current(t).completed
    <2>1. unfinished' = [i \in DOMAIN unfinished \ {id} |-> unfinished[i]]
        BY <1>8 DEF Continued
    <2>2. SplitsRight'
        BY <1>3, <2>1 DEF SplitsRight
    <2> DEFINE own == [NewTask(tasks[t].socket, command)
                           EXCEPT !.stage = "transaction", !.who = Who(t)]
    <2>3. PICK d \in 1..MaxDetached :
              tasks[d] = None /\ tasks' = [tasks EXCEPT ![t] = Done(t), ![d] = own]
        BY <1>8 DEF Continued
    <2>4. d \in TaskIds /\ d # 0 /\ d # t
        BY <1>1, <2>3, BoundsAssumption DEF TaskIds
    <2>5. tasks[t].socket \in Sockets
        BY <1>1, <1>3 DEF TasksRight, Tasks
    <2>6. GoodTask(d, own, created') /\ own # None
        <3> DEFINE k == NewTask(tasks[t].socket, command)
        <3>1. GoodTask(d, k, created') /\ k \in Tasks
            BY <1>6, <2>5, NewTaskIsGood
        <3>2. Who(t) \in Sockets
            BY <1>1 DEF created
        <3>3. k.stage = "ready" /\ k.todo = <<command>>
            BY DEF NewTask
        <3>4. own = [k EXCEPT !.stage = "transaction", !.who = Who(t)]
            OBVIOUS
        <3> HIDE DEF k, own
        <3>5. /\ own.socket = k.socket /\ own.todo = k.todo /\ own.stage = "transaction"
              /\ own.who = Who(t) /\ own.content = k.content
            BY <3>1, <3>4 DEF Tasks
        <3>6. own = [x \in {"socket", "todo", "stage", "who", "content"} |-> own[x]]
            BY <3>1, <3>4 DEF Tasks
        <3>7. own = [socket |-> own.socket, todo |-> own.todo, stage |-> own.stage,
                     who |-> own.who, content |-> own.content]
            BY <3>6, TaskFields
        <3>8. own \in Tasks
            BY <3>1, <3>2, <3>5, <3>7 DEF Tasks, Stages
        <3> QED
            BY <1>1, <1>2, <1>6, <3>1, <3>3, <3>5, <3>8, NoTaskAssumption
            DEF GoodTask, Splittable
    <2>7. GoodTask(t, Done(t), created') /\ Done(t) # None
        BY <1>1, <1>3, DoneIsGood, NoTaskAssumption DEF GoodTask
    <2> DEFINE done == [tasks EXCEPT ![t] = Done(t)]
    <2> HIDE DEF own
    <2>8. /\ tasks' \in [TaskIds -> Tasks \union {None}]
          /\ tasks'[t] = Done(t) /\ tasks'[d] = own
          /\ \A u \in TaskIds : u # t /\ u # d => tasks'[u] = tasks[u]
        BY <1>3, <2>3, <2>4, <2>6, <2>7 DEF TasksRight, GoodTask
    <2>9. TasksRight'
        BY <1>2, <1>3, <2>6, <2>7, <2>8 DEF TasksRight
    <2>10. JobKept
        <3>1. CASE t = 0
            <4>1. Head(tasks[t].todo).kind # "End" /\ tasks[t].todo \in Seq(Items)
                BY <1>1, <1>3, BusyTask DEF Current
            <4>2. Cardinality(Ends(tasks[t].todo)) = Cardinality(Ends(Tail(tasks[t].todo)))
                BY <1>1, <4>1, EndsOfTail
            <4>3. Done(t).todo = Tail(tasks[t].todo)
                BY <1>1, <1>3, BusyTask DEF Done, Tasks
            <4> QED
                BY <1>1, <2>7, <2>8, <3>1, <4>2, <4>3 DEF JobKept, Depth
        <3>2. CASE t # 0
            <4>1. tasks'[0] = tasks[0]
                BY <2>4, <2>8, <3>2, JobId
            <4> QED
                BY <4>1 DEF JobKept
        <3> QED
            BY <3>1, <3>2
    <2> QED
        BY <1>2, <1>4, <2>2, <2>9, <2>10, JobGoesOn
<1> QED
    BY <1>7, <1>8

LEMMA ProcessIsRight ==
    ASSUME ServerInv, NEW t \in TaskIds, Process(t)
    PROVE  ServerRight'
BY NoParticipationIsRight, InvalidIsRight, NotSignedOnIsRight, SignOffIsRight,
   UnsubscribeIsRight, SubscribeChangingIsRight, ReconnectIsRight, SignOnBeginsIsRight,
   TransactionBeginsIsRight, CompositeIsRight, CompositeEndsIsRight, SplitIsRight,
   ContinuedRefusedIsRight, ContinuedIsRight
DEF Process
--------------------------------------------------------------------------------
(***************************************************************************)
(* Transactions.                                                           *)
(***************************************************************************)
\* A task that waits for its transaction or has an answer to give.
LEMMA StagedTask ==
    ASSUME ServerInv, NEW t \in TaskIds, NEW stage, IsAt(t, stage), stage # "ready"
    PROVE  /\ tasks[t] # None /\ tasks[t].todo # <<>> /\ tasks[t].stage = stage
           /\ Current(t).kind # "End"
           /\ tasks[t].who \in created /\ tasks[t].who \in Sockets
           /\ participations[tasks[t].who] \in Participation
           /\ GoodTask(t, tasks[t], created)
<1>1. tasks[t] # None /\ tasks[t].todo # <<>> /\ tasks[t].stage = stage
    BY DEF IsAt
<1>2. GoodTask(t, tasks[t], created)
    BY <1>1 DEF ServerInv, ServerRight, TasksRight
<1>3. tasks[t].who \in created /\ Current(t).kind # "End"
    BY <1>1, <1>2 DEF GoodTask, Current
<1> QED
    BY <1>1, <1>2, <1>3, CreatedIsTyped

LEMMA EmptyIsContent == <<>> \in Content
BY DEF Content

LEMMA TransactionFailsIsRight ==
    ASSUME ServerInv, NEW t \in TaskIds, TransactionFails(t)
    PROVE  ServerRight'
<1> DEFINE p == tasks[t].who
<1>1. tasks[t] # None /\ tasks[t].todo # <<>> /\ Current(t).kind # "End" /\ p \in created
    BY StagedTask DEF TransactionFails
<1>2. ObjectsTyped' /\ created' = created /\ ClientsTyped' /\ BuffersKept /\ DatabaseTyped'
    BY ObjectsStay, ClientsStay, BuffersStay, DatabaseStays
    DEF TransactionFails, participationVars
<1>3. Waits(t, "failed", p, <<>>)
    BY DEF TransactionFails, Aborts
<1>4. UNCHANGED <<nextIdNumber, connection, up, sent, queue, unfinished>>
    BY DEF TransactionFails, participationVars
<1> HIDE DEF p
<1> QED
    BY <1>1, <1>2, <1>3, <1>4, EmptyIsContent, WaitsIsRight

\* The contents of any partitions of any repository are versions.
LEMMA ContentsTyped ==
    ASSUME ServerInv, NEW r \in Repositories \union {None}, NEW X
    PROVE  Contents(r, X) \in Versions /\ Contents(r, X) \in Content
<1>1. \A x \in X \intersect Present(r) : database[r][x].version \in Nat
    BY DEF Present, ServerInv, ServerRight, DatabaseTyped
<1> QED
    BY <1>1 DEF Contents, Versions, Content

\* What commits an answer with contents, or does not.
LEMMA AnswersIsRight ==
    ASSUME ServerInv, NEW t \in TaskIds, tasks[t] # None, tasks[t].todo # <<>>,
           tasks[t].who \in created, Current(t).kind \notin PartitionCommands,
           Current(t).kind # "End",
           NEW contents \in Versions,
           Commits(t, contents) \/ Aborts(t),
           ObjectsTyped', created' = created, ClientsTyped', BuffersKept, DatabaseTyped',
           nextIdNumber' \in {nextIdNumber, nextIdNumber + 1},
           UNCHANGED <<connection, up, sent, queue, unfinished>>
    PROVE  ServerRight'
<1> DEFINE p == tasks[t].who
<1>1. contents \in Content
    BY DEF Content
<1>2. p \in created
    OBVIOUS
<1>3. CASE Commits(t, contents)
    <2>1. Waits(t, "answer", p, contents)
        BY <1>3 DEF Commits
    <2> HIDE DEF p
    <2> QED
        BY <1>1, <1>2, <2>1, WaitsIsRight
<1>4. CASE Aborts(t)
    <2>1. Waits(t, "failed", p, <<>>)
        BY <1>4 DEF Aborts
    <2> HIDE DEF p
    <2> QED
        BY <1>2, <2>1, EmptyIsContent, WaitsIsRight
<1> QED
    BY <1>3, <1>4

LEMMA SignOnIsRight ==
    ASSUME ServerInv, NEW t \in TaskIds, SignOn(t)
    PROVE  ServerRight'
<1> DEFINE p == tasks[t].who
<1>1. /\ tasks[t] # None /\ tasks[t].todo # <<>> /\ p \in created /\ p \in Sockets
      /\ participations[p] \in Participation /\ Current(t).kind = "SignOn"
    BY StagedTask DEF SignOn, InTransaction
<1>2. Current(t).repository \in Repositories
    BY <1>1, CurrentIsMessage, MessagesAssumption
<1>3. PICK r \in Repositories \union {None} : startParticipation(p, r)
    BY <1>1, <1>2 DEF SignOn, repository, Participation
<1> DEFINE o == [participations[p] EXCEPT !.participationId = nextIdNumber,
                                          !.participationStatus = "signedOn",
                                          !.repositoryData = r]
<1>4. ObjectsTyped' /\ created' = created /\ NumbersStay
    <2>1. participations' = [participations EXCEPT ![p] = o]
        <3>1. participations \in [Sockets -> Participation \union {NotCreated}]
            BY DEF ServerInv, ServerRight, ObjectsTyped
        <3> QED
            BY <1>1, <1>3, <3>1 DEF startParticipation
    <2>2. nextIdNumber \in Nat
        BY DEF ServerInv, RegistryInv, IdsGivenOut
    <2>3. /\ o \in Participation
          /\ o.eventSequenceNumber = participations[p].eventSequenceNumber
        BY <1>1, <2>2 DEF Participation, Statuses
    <2> HIDE DEF o, p
    <2> QED
        BY <1>1, <2>1, <2>3, ObjectBecomes
<1>5. ClientsTyped' /\ BuffersKept /\ DatabaseTyped'
    BY <1>4, ClientsStay, BuffersStay, DatabaseStays DEF SignOn
<1> DEFINE contents == Contents(Current(t).repository, {})
<1>6. contents \in Versions
    BY <1>2, ContentsTyped
<1>7. Commits(t, contents) \/ Aborts(t)
    BY DEF SignOn
<1>8. nextIdNumber' = nextIdNumber + 1
    BY <1>3 DEF startParticipation
<1>9. UNCHANGED <<connection, up, sent, queue, unfinished>>
    BY DEF SignOn
<1>10. Current(t).kind \notin PartitionCommands
    BY <1>1 DEF PartitionCommands
<1> HIDE DEF contents
<1> QED
    BY <1>1, <1>4, <1>5, <1>6, <1>7, <1>8, <1>9, <1>10, AnswersIsRight

\* A step after which participations are subscribed to more partitions.
LEMMA SubscribedIsRight ==
    ASSUME ServerInv, NEW P \in SUBSET created, NEW X \in SUBSET Partitions,
           participations' = Subscribed(participations, P, X), UNCHANGED client
    PROVE  ObjectsTyped' /\ created' = created /\ ClientsTyped'
<1>1. ObjectsTyped
    BY DEF ServerInv, ServerRight
<1>2. Resubscribed(Subscribed(participations, P, X))
    BY <1>1, SubscribedTyped
<1>3. ObjectsTyped' /\ created' = created /\ NumbersStay
    BY <1>2 DEF Resubscribed, ObjectsTyped, created, NumbersStay
<1> QED
    BY <1>3, ClientsStay

LEMMA SubscribeIsRight ==
    ASSUME ServerInv, NEW t \in TaskIds, Subscribe(t)
    PROVE  ServerRight'
<1> DEFINE p == tasks[t].who
           x == Current(t).partition
           contents == Contents(repository(t), {x})
<1>1. /\ tasks[t] # None /\ tasks[t].todo # <<>> /\ p \in created /\ p \in Sockets
      /\ participations[p] \in Participation /\ Current(t).kind = "Subscribe"
    BY StagedTask DEF Subscribe, InTransaction
<1>2. x \in Partitions
    BY <1>1, CurrentIsMessage, MessagesAssumption
<1>3. contents \in Versions
    BY <1>1, ContentsTyped DEF repository, Participation
<1>4. BuffersKept /\ DatabaseTyped'
    BY BuffersStay, DatabaseStays DEF Subscribe
<1>5. ObjectsTyped' /\ created' = created /\ ClientsTyped'
    <2>1. CASE UNCHANGED participations
        BY <2>1, ObjectsStay, ClientsStay DEF Subscribe
    <2>2. CASE participations' = Subscribed(participations, {p}, {x})
        BY <1>1, <1>2, <2>2, SubscribedIsRight DEF Subscribe
    <2> QED
        BY <2>1, <2>2 DEF Subscribe
<1>6. Commits(t, contents) \/ Aborts(t)
    BY DEF Subscribe
<1>7. UNCHANGED <<nextIdNumber, connection, up, sent, queue, unfinished>>
    BY DEF Subscribe
<1>8. Current(t).kind \notin PartitionCommands
    BY <1>1 DEF PartitionCommands
<1> HIDE DEF contents
<1> QED
    BY <1>1, <1>3, <1>4, <1>5, <1>6, <1>7, <1>8, AnswersIsRight

LEMMA ListAndSubscribeIsRight ==
    ASSUME ServerInv, NEW t \in TaskIds, ListAndSubscribe(t)
    PROVE  ServerRight'
<1> DEFINE p == tasks[t].who
           X == Present(repository(t))
           contents == Contents(repository(t), Partitions)
<1>1. /\ tasks[t] # None /\ tasks[t].todo # <<>> /\ p \in created /\ p \in Sockets
      /\ participations[p] \in Participation /\ Current(t).kind = "ListAndSubscribe"
    BY StagedTask DEF ListAndSubscribe, InTransaction
<1>2. X \in SUBSET Partitions
    BY DEF Present
<1>3. contents \in Versions
    BY <1>1, ContentsTyped DEF repository, Participation
<1>4. BuffersKept /\ DatabaseTyped'
    BY BuffersStay, DatabaseStays DEF ListAndSubscribe
<1>5. participations' = Subscribed(participations, {p}, X)
    BY DEF ListAndSubscribe
<1>6. Commits(t, contents) \/ Aborts(t)
    BY DEF ListAndSubscribe
<1>7. UNCHANGED <<nextIdNumber, connection, up, sent, queue, unfinished, client>>
    BY DEF ListAndSubscribe
<1>8. Current(t).kind \notin PartitionCommands
    BY <1>1 DEF PartitionCommands
<1> HIDE DEF contents, X
<1>9. ObjectsTyped' /\ created' = created /\ ClientsTyped'
    BY <1>1, <1>2, <1>5, <1>7, SubscribedIsRight
<1> QED
    BY <1>1, <1>3, <1>4, <1>6, <1>7, <1>8, <1>9, AnswersIsRight

\* A command that takes a partition to its next version.
LEMMA NextVersionIsRight ==
    ASSUME ServerInv, NEW t \in TaskIds, InTransaction(t, Current(t).kind),
           Current(t).kind \in PartitionCommands,
           repository(t) # None, NEW present \in BOOLEAN,
           NextVersion(t, Current(t).partition, present),
           ObjectsTyped', created' = created, ClientsTyped',
           UNCHANGED <<nextIdNumber, connection, up, sent, queue, eventBuffers, unfinished>>
    PROVE  ServerRight'
<1> DEFINE p == tasks[t].who
           r == repository(t)
           x == Current(t).partition
           v == database[r][x].version + 1
           change == [kind |-> Current(t).kind, partition |-> x, version |-> v]
           content == <<change>>
<1>1. /\ tasks[t] # None /\ tasks[t].todo # <<>> /\ Current(t).kind # "End"
      /\ p \in created /\ p \in Sockets /\ participations[p] \in Participation
    BY StagedTask DEF InTransaction
<1>2. x \in Partitions
    BY <1>1, CurrentIsMessage, MessagesAssumption DEF PartitionCommands
<1>3. r \in Repositories
    BY <1>1 DEF repository, Participation
<1>4. DatabaseTyped
    BY DEF ServerInv, ServerRight
<1>5. v \in Nat
    BY <1>2, <1>3, <1>4 DEF DatabaseTyped
<1>6. change \in Changes
    BY <1>2, <1>5 DEF Changes
<1>7. DatabaseTyped'
    <2>1. database' = [database EXCEPT ![r][x] = [present |-> present, version |-> v]]
        BY DEF NextVersion
    <2> HIDE DEF v, r, x
    <2> QED
        BY <1>2, <1>3, <1>4, <1>5, <2>1 DEF DatabaseTyped
<1>8. Waits(t, "answer", p, content)
    BY DEF NextVersion, Commits
<1>9. content \in Content /\ content[1] \in Changes
    BY <1>6 DEF Content
<1>10. Current(t).kind \notin Requests
    BY DEF PartitionCommands, Requests
<1>11. BuffersKept
    BY BuffersStay
<1> HIDE DEF content, p
<1> QED
    BY <1>1, <1>7, <1>8, <1>9, <1>10, <1>11, WaitsIsRight

LEMMA ChangeIsRight ==
    ASSUME ServerInv, NEW t \in TaskIds, Change(t)
    PROVE  ServerRight'
<1>1. ObjectsTyped' /\ created' = created /\ ClientsTyped'
    BY ObjectsStay, ClientsStay DEF Change, participationVars
<1>2. repository(t) # None
    BY DEF Change, Present
<1>3. InTransaction(t, Current(t).kind) /\ Current(t).kind \in PartitionCommands
    BY DEF Change, InTransaction, PartitionCommands
<1> QED
    BY <1>1, <1>2, <1>3, NextVersionIsRight DEF Change, participationVars

LEMMA DeletePartitionIsRight ==
    ASSUME ServerInv, NEW t \in TaskIds, DeletePartition(t)
    PROVE  ServerRight'
<1>1. ObjectsTyped' /\ created' = created /\ ClientsTyped'
    BY ObjectsStay, ClientsStay DEF DeletePartition, participationVars
<1>2. repository(t) # None
    BY DEF DeletePartition, Present
<1>3. InTransaction(t, Current(t).kind) /\ Current(t).kind \in PartitionCommands
    BY DEF DeletePartition, InTransaction, PartitionCommands
<1> QED
    BY <1>1, <1>2, <1>3, NextVersionIsRight DEF DeletePartition, participationVars

LEMMA AddPartitionIsRight ==
    ASSUME ServerInv, NEW t \in TaskIds, AddPartition(t)
    PROVE  ServerRight'
<1> DEFINE p == tasks[t].who
           x == Current(t).partition
<1>1. /\ tasks[t] # None /\ tasks[t].todo # <<>> /\ p \in created
      /\ Current(t).kind = "AddPartition"
    BY StagedTask DEF AddPartition, InTransaction
<1>2. x \in Partitions
    BY <1>1, CurrentIsMessage, MessagesAssumption DEF PartitionCommands
<1>3. ObjectsTyped' /\ created' = created /\ ClientsTyped'
    BY <1>1, <1>2, SubscribedIsRight DEF AddPartition
<1>4. UNCHANGED <<nextIdNumber, connection, up, sent, queue, eventBuffers, unfinished>>
    BY DEF AddPartition
<1>5. CASE NextVersion(t, x, TRUE)
    <2>1. InTransaction(t, Current(t).kind) /\ Current(t).kind \in PartitionCommands
          /\ repository(t) # None
        BY DEF AddPartition, InTransaction, PartitionCommands
    <2> QED
        BY <1>3, <1>4, <1>5, <2>1, NextVersionIsRight
<1>6. CASE Aborts(t) /\ UNCHANGED database
    <2>1. BuffersKept /\ DatabaseTyped'
        BY <1>4, <1>6, BuffersStay, DatabaseStays
    <2>2. Waits(t, "failed", p, <<>>)
        BY <1>6 DEF Aborts
    <2> HIDE DEF p
    <2> QED
        BY <1>1, <1>3, <1>4, <2>1, <2>2, EmptyIsContent, WaitsIsRight
<1> QED
    BY <1>5, <1>6 DEF AddPartition

LEMMA TransactionIsRight ==
    ASSUME ServerInv, NEW t \in TaskIds, Transaction(t)
    PROVE  ServerRight'
BY TransactionFailsIsRight, SignOnIsRight, SubscribeIsRight, ListAndSubscribeIsRight,
   ChangeIsRight, AddPartitionIsRight, DeletePartitionIsRight
DEF Transaction
--------------------------------------------------------------------------------
(***************************************************************************)
(* Answers.                                                                *)
(***************************************************************************)
LEMMA RequestAnsweredIsRight ==
    ASSUME ServerInv, NEW t \in TaskIds, RequestAnswered(t)
    PROVE  ServerRight'
<1> DEFINE p == tasks[t].who
           contents == tasks[t].content
           view == [x \in Partitions |-> IF contents[x] # None THEN contents[x]
                                                               ELSE client[p].view[x]]
           missing == {e \in client[p].missing : contents[e[1]] = None}
           c == [client[p] EXCEPT !.view = view, !.missing = missing]
<1>1. /\ tasks[t] # None /\ tasks[t].todo # <<>> /\ p \in created /\ p \in Sockets
      /\ Current(t).kind \in Requests
    BY StagedTask DEF RequestAnswered
<1>2. contents \in Versions
    <2>1. GoodTask(t, tasks[t], created) /\ tasks[t].stage = "answer"
        BY StagedTask DEF RequestAnswered
    <2> QED
        BY <1>1, <2>1 DEF GoodTask, Current
<1>3. ObjectsTyped' /\ created' = created /\ NumbersStay /\ BuffersKept
    BY ObjectsStay, BuffersStay DEF RequestAnswered, participationVars
<1>4. ClientsTyped'
    <2>1. CASE client' = client
        BY <1>3, <2>1, ClientsStay
    <2>2. CASE client' = [client EXCEPT
              ![p].view = [x \in Partitions |-> IF contents[x] # None THEN contents[x]
                                                                     ELSE @[x]],
              ![p].missing = {e \in @ : contents[e[1]] = None}]
        <3>1. client \in [Sockets -> Clients] /\ client[p] \in Clients
            BY <1>1 DEF ServerInv, ServerRight, ClientsTyped
        <3>2. client' = [client EXCEPT ![p] = c]
            BY <1>1, <2>2, <3>1 DEF Clients
        <3>3. view \in Versions
            BY <1>2, <3>1 DEF Versions, Clients
        <3>4. missing \in SUBSET (Partitions \X Nat)
            BY <3>1 DEF Clients
        <3> HIDE DEF view, missing, p
        <3>5. /\ c \in Clients /\ c.last = client[p].last /\ c.lost = client[p].lost
              /\ c.faults = client[p].faults
            BY <3>1, <3>3, <3>4 DEF Clients
        <3> HIDE DEF c
        <3> QED
            BY <1>1, <1>3, <3>2, <3>5, ClientBecomes
    <2> QED
        BY <2>1, <2>2 DEF RequestAnswered
<1>5. Current(t).kind # "End"
    BY <1>1 DEF Requests
<1>6. /\ tasks' = [tasks EXCEPT ![t] = Done(t)]
      /\ UNCHANGED <<nextIdNumber, connection, up, sent, queue, unfinished, database>>
    BY DEF RequestAnswered, participationVars
<1> QED
    BY <1>1, <1>3, <1>4, <1>5, <1>6, DoneIsRight

LEMMA FailedIsRight ==
    ASSUME ServerInv, NEW t \in TaskIds, Failed(t)
    PROVE  ServerRight'
<1> DEFINE p == tasks[t].who
<1>1. /\ tasks[t] # None /\ tasks[t].todo # <<>> /\ Current(t).kind # "End"
      /\ p \in created
    BY StagedTask DEF Failed
<1>2. ObjectsTyped' /\ created' = created /\ ClientsTyped' /\ BuffersKept
    BY <1>1, SendErrorKeeps DEF Failed
<1>3. /\ tasks' = [tasks EXCEPT ![t] = Done(t)]
      /\ UNCHANGED <<nextIdNumber, connection, up, sent, queue, unfinished, database>>
    BY DEF Failed
<1> QED
    BY <1>1, <1>2, <1>3, DoneIsRight

\* The events of a command, for the participations P.
LEMMA TellIsRight ==
    ASSUME ServerInv, NEW t \in TaskIds, NEW kind \in PartitionCommands,
           NEW P \in SUBSET allParticipations, NEW objects, Resubscribed(objects),
           Tell(t, kind, P, objects)
    PROVE  ServerRight'
<1> DEFINE change == changed(t)
           events == [p \in P |-> ChangeEvent(change)]
<1>1. tasks[t] # None /\ tasks[t].todo # <<>> /\ Current(t).kind # "End"
    BY StagedTask DEF Tell
<1>2. change \in Changes
    <2>1. GoodTask(t, tasks[t], created) /\ tasks[t].stage = "answer" /\ Current(t).kind = kind
        BY StagedTask DEF Tell
    <2> QED
        BY <1>1, <2>1 DEF GoodTask, Current, changed
<1> HIDE DEF change
<1>3. ForParticipations(events)
    <2>1. P \subseteq created
        BY DEF ServerInv, RegistryInv, Registered
    <2>2. ChangeEvent(change) \in Events
        BY <1>2 DEF ChangeEvent, Events
    <2> QED
        BY <2>1, <2>2 DEF ForParticipations
<1>4. SendWith(eventBuffers, objects, events, ownSocket)
    BY DEF Tell, change
<1>5. /\ ObjectsTyped /\ ClientsTyped
      /\ eventBuffers \in Seq([Sockets -> Seq(Events)])
    BY DEF ServerInv, ServerRight, BuffersRight, BuffersTyped
<1> HIDE DEF events
<1>6. SendKeeps /\ Len(eventBuffers') = Len(eventBuffers)
    BY <1>3, <1>4, <1>5, SendIsRight
<1>7. ObjectsTyped' /\ created' = created /\ ClientsTyped' /\ BuffersKept
    BY <1>6 DEF SendKeeps, BuffersKept
<1>8. /\ tasks' = [tasks EXCEPT ![t] = Done(t)]
      /\ UNCHANGED <<nextIdNumber, connection, up, sent, queue, unfinished, database>>
    BY DEF Tell
<1> QED
    BY <1>1, <1>7, <1>8, DoneIsRight

LEMMA TellingIsRight ==
    ASSUME ServerInv, NEW t \in TaskIds,
           \/ SendToSubscribers(t)
           \/ SendPartitionAddedEvents(t)
           \/ SendPartitionDeletedEvents(t)
    PROVE  ServerRight'
<1>1. Resubscribed(participations)
    BY DEF ServerInv, ServerRight, ObjectsTyped, Resubscribed
<1>2. CASE SendToSubscribers(t)
    <2> DEFINE P == subscribers(changed(t).partition)
    <2>1. P \in SUBSET allParticipations
        BY DEF subscribers
    <2>2. Tell(t, "Change", P, participations)
        BY <1>2 DEF SendToSubscribers
    <2> HIDE DEF P
    <2> QED
        BY <1>1, <2>1, <2>2, TellIsRight DEF PartitionCommands
<1>3. CASE SendPartitionAddedEvents(t)
    <2> DEFINE automatic == changing("creation") \intersect changing("autoSubscribe")
               P == changing("creation") \union
                        {p \in allParticipations : participations[p].socket = tasks[t].socket}
               objects == Subscribed(participations, automatic, {changed(t).partition})
    <2>1. P \in SUBSET allParticipations /\ automatic \in SUBSET created
        BY DEF changing, ServerInv, RegistryInv, Registered
    <2>2. Tell(t, "AddPartition", P, objects)
        BY <1>3 DEF SendPartitionAddedEvents
    <2>3. {changed(t).partition} \in SUBSET Partitions
        <3>1. GoodTask(t, tasks[t], created) /\ tasks[t].stage = "answer"
              /\ tasks[t].todo # <<>> /\ Current(t).kind = "AddPartition"
            BY <2>2, StagedTask DEF Tell
        <3>2. changed(t) \in Changes
            BY <3>1 DEF GoodTask, Current, changed, PartitionCommands
        <3> QED
            BY <3>2 DEF Changes
    <2>4. Resubscribed(objects)
        <3>1. ObjectsTyped
            BY DEF ServerInv, ServerRight
        <3> HIDE DEF automatic
        <3> QED
            BY <2>1, <2>3, <3>1, SubscribedTyped
    <2> HIDE DEF P, objects
    <2> QED
        BY <2>1, <2>2, <2>4, TellIsRight DEF PartitionCommands
<1>4. CASE SendPartitionDeletedEvents(t)
    <2> DEFINE P == changing("deletion") \union subscribers(changed(t).partition)
    <2>1. P \in SUBSET allParticipations
        BY DEF subscribers, changing
    <2>2. Tell(t, "DeletePartition", P, participations)
        BY <1>4 DEF SendPartitionDeletedEvents
    <2> HIDE DEF P
    <2> QED
        BY <1>1, <2>1, <2>2, TellIsRight DEF PartitionCommands
<1> QED
    BY <1>2, <1>3, <1>4

LEMMA AnswerIsRight ==
    ASSUME ServerInv, NEW t \in TaskIds, Answer(t)
    PROVE  ServerRight'
BY RequestAnsweredIsRight, FailedIsRight, TellingIsRight DEF Answer

(***************************************************************************)
(* The queue and the websockets.                                           *)
(***************************************************************************)
LEMMA FinishIsRight ==
    ASSUME ServerInv, NEW t \in TaskIds, Finish(t)
    PROVE  ServerRight'
<1>1. TasksRight /\ JobsRight /\ BuffersRight
    BY DEF ServerInv, ServerRight
<1>2. /\ tasks' \in [TaskIds -> Tasks \union {None}] /\ tasks'[t] = None
      /\ \A u \in TaskIds : u # t => tasks'[u] = tasks[u]
    BY <1>1 DEF Finish, TasksRight
<1>3. ObjectsTyped' /\ created' = created /\ ClientsTyped' /\ BuffersKept
      /\ SplitsRight' /\ DatabaseTyped'
    BY ObjectsStay, ClientsStay, BuffersStay, SplitsStay, DatabaseStays
    DEF Finish, participationVars
<1>4. TasksRight'
    BY <1>1, <1>2, <1>3 DEF TasksRight
<1>5. JobsRight'
    <2>1. CASE t = 0
        <3>1. queue # <<>> /\ queue' = Tail(queue) /\ tasks'[0] = None
            BY <1>1, <1>2, <2>1 DEF Finish, JobsRight
        <3>2. Tail(queue) \in Seq([socket : Sockets, message : Messages])
            BY <1>1, <3>1, HeadTailProperties DEF JobsRight
        <3> QED
            BY <3>1, <3>2 DEF JobsRight
    <2>2. CASE t # 0
        BY <1>1, <1>2, <2>2, JobId DEF Finish, JobsRight
    <2> QED
        BY <2>1, <2>2
<1>6. BuffersRight'
    <2>1. CASE t = 0
        <3>1. Ends(tasks[0].todo) = {}
            BY <2>1 DEF Finish, Ends
        <3>2. Depth(tasks[0]) = 0 /\ Depth(tasks'[0]) = 0
            BY <1>2, <2>1, <3>1, FS_EmptySet DEF Finish, Depth
        <3> QED
            BY <1>1, <1>3, <3>2 DEF BuffersRight, BuffersKept
    <2>2. CASE t # 0
        BY <1>1, <1>2, <1>3, <2>2, JobId DEF BuffersRight, BuffersKept
    <2> QED
        BY <2>1, <2>2
<1>7. ConnectionsTyped'
    BY DEF Finish, ServerInv, ServerRight, ConnectionsTyped
<1> QED
    BY <1>3, <1>4, <1>5, <1>6, <1>7 DEF ServerRight

LEMMA StartJobIsRight ==
    ASSUME ServerInv, StartJob
    PROVE  ServerRight'
<1> DEFINE k == NewTask(Head(queue).socket, Head(queue).message)
<1>1. TasksRight /\ JobsRight /\ BuffersRight
    BY DEF ServerInv, ServerRight
<1>2. queue # <<>> /\ tasks[0] = None /\ tasks' = [tasks EXCEPT ![0] = k]
    BY DEF StartJob
<1>3. Head(queue).socket \in Sockets /\ Head(queue).message \in Messages
    <2>1. Head(queue) \in [socket : Sockets, message : Messages]
        BY <1>1, <1>2, HeadTailProperties DEF JobsRight
    <2> QED
        BY <2>1
<1>4. ObjectsTyped' /\ created' = created /\ ClientsTyped' /\ BuffersKept
      /\ SplitsRight' /\ DatabaseTyped'
    BY ObjectsStay, ClientsStay, BuffersStay, SplitsStay, DatabaseStays
    DEF StartJob, participationVars
<1>5. GoodTask(0, k, created') /\ Depth(k) = 0
    BY <1>3, NewTaskIsGood
<1> HIDE DEF k
<1>6. TasksRight' /\ tasks'[0] = k
    BY <1>1, <1>2, <1>4, <1>5, JobId, TaskBecomes
<1>7. BuffersRight'
    BY <1>1, <1>2, <1>4, <1>5, <1>6 DEF BuffersRight, BuffersKept, Depth
<1>8. JobsRight' /\ ConnectionsTyped'
    BY <1>1, <1>2 DEF StartJob, JobsRight, ServerInv, ServerRight, ConnectionsTyped
<1> QED
    BY <1>4, <1>6, <1>7, <1>8 DEF ServerRight

\* Steps that leave tasks and buffers alone.
LEMMA TasksStay ==
    ASSUME ServerInv, created \subseteq created', UNCHANGED <<tasks, eventBuffers>>
    PROVE  TasksRight' /\ BuffersRight'
<1>1. TasksRight /\ BuffersRight
    BY DEF ServerInv, ServerRight
<1>2. TasksRight'
    <2> SUFFICES ASSUME NEW t \in TaskIds, tasks[t] # None
                 PROVE  GoodTask(t, tasks[t], created')
        BY <1>1 DEF TasksRight
    <2>1. GoodTask(t, tasks[t], created)
        BY <1>1 DEF TasksRight
    <2> QED
        BY <2>1 DEF GoodTask
<1> QED
    BY <1>1, <1>2 DEF BuffersRight, BuffersTyped

LEMMA OnMessageIsRight ==
    ASSUME ServerInv, NEW s \in Sockets, NEW m \in Messages, OnMessage(s, m)
    PROVE  ServerRight'
<1> DEFINE job == [socket |-> s, message |-> m]
<1>1. ObjectsTyped' /\ created' = created /\ ClientsTyped' /\ SplitsRight' /\ DatabaseTyped'
    BY ObjectsStay, ClientsStay, SplitsStay, DatabaseStays DEF OnMessage, participationVars
<1>2. TasksRight' /\ BuffersRight'
    BY <1>1, TasksStay DEF OnMessage
<1>3. JobsRight'
    <2>1. JobsRight /\ job \in [socket : Sockets, message : Messages]
        BY DEF ServerInv, ServerRight
    <2>2. queue' = Append(queue, job) /\ tasks' = tasks
        BY DEF OnMessage
    <2> HIDE DEF job
    <2>3. /\ queue' \in Seq([socket : Sockets, message : Messages])
          /\ Len(queue') = Len(queue) + 1 /\ Len(queue) \in Nat
        BY <2>1, <2>2, AppendProperties, LenProperties DEF JobsRight
    <2>4. queue' # <<>>
        BY <2>3
    <2> QED
        BY <2>3, <2>4 DEF JobsRight
<1>4. ConnectionsTyped'
    BY BoundsAssumption DEF OnMessage, ServerInv, ServerRight, ConnectionsTyped
<1> QED
    BY <1>1, <1>2, <1>3, <1>4 DEF ServerRight

LEMMA ConnectIsRight ==
    ASSUME ServerInv, NEW s \in Sockets, Connect(s)
    PROVE  ServerRight'
<1> DEFINE o == FreshParticipation(s)
<1>1. s \notin created /\ nextIdNumber \in Nat
    BY DEF Connect, ServerInv, RegistryInv, FreshSockets, IdsGivenOut
<1>2. participations[s] = NotCreated
    BY <1>1, NoneAssumption
    DEF ServerInv, ServerRight, ObjectsTyped, Participation, created
<1>3. o \in Participation /\ o.eventSequenceNumber = 1
    BY <1>1 DEF FreshParticipation, Participation, Statuses
<1>4. participations' = [participations EXCEPT ![s] = o]
    BY DEF Connect, newParticipation
<1> HIDE DEF o
<1>5. /\ ObjectsTyped'
      /\ \A q \in Sockets : participations'[q] = IF q = s THEN o ELSE participations[q]
    BY <1>3, <1>4 DEF ServerInv, ServerRight, ObjectsTyped
<1>6. created \subseteq created' /\ NumbersStay
    BY <1>1, <1>2, <1>3, <1>5 DEF created, NumbersStay, NotCreated
<1>7. nextIdNumber' = nextIdNumber + 1
    BY DEF Connect, newParticipation
<1>8. ClientsTyped' /\ SplitsRight' /\ DatabaseTyped'
    BY <1>6, <1>7, ClientsStay, SplitsStay, DatabaseStays DEF Connect
<1>9. TasksRight' /\ BuffersRight'
    BY <1>6, TasksStay DEF Connect
<1>10. JobsRight' /\ ConnectionsTyped'
    BY DEF Connect, ServerInv, ServerRight, JobsRight, ConnectionsTyped
<1> QED
    BY <1>5, <1>8, <1>9, <1>10 DEF ServerRight

LEMMA ClientCloseIsRight ==
    ASSUME ServerInv, NEW s \in Sockets, ClientClose(s)
    PROVE  ServerRight'
<1>1. ObjectsTyped' /\ created' = created /\ ClientsTyped' /\ SplitsRight' /\ DatabaseTyped'
    BY ObjectsStay, ClientsStay, SplitsStay, DatabaseStays DEF ClientClose, participationVars
<1>2. TasksRight' /\ BuffersRight'
    BY <1>1, TasksStay DEF ClientClose
<1>3. JobsRight' /\ ConnectionsTyped'
    BY DEF ClientClose, ServerInv, ServerRight, JobsRight, ConnectionsTyped
<1> QED
    BY <1>1, <1>2, <1>3 DEF ServerRight

LEMMA OnCloseIsRight ==
    ASSUME ServerInv, NEW s \in Sockets, OnClose(s)
    PROVE  ServerRight'
<1> DEFINE p == getParticipation(s)
<1>1. UNCHANGED <<participations, nextIdNumber>>
    BY DEF OnClose, participationVars, deleteParticipation
<1>2. ObjectsTyped' /\ created' = created /\ NumbersStay /\ SplitsRight' /\ DatabaseTyped'
    BY <1>1, ObjectsStay, SplitsStay, DatabaseStays DEF OnClose
<1>3. TasksRight' /\ BuffersRight'
    BY <1>2, TasksStay DEF OnClose
<1>4. ClientsTyped'
    <2>1. CASE client' = client
        BY <1>2, <2>1, ClientsStay
    <2>2. CASE client' = [client EXCEPT ![p].away = TRUE] /\ p # None
        <3> DEFINE c == [client[p] EXCEPT !.away = TRUE]
        <3>1. p \in Sockets
            BY <2>2 DEF getParticipation, ServerInv, RegistryInv, Registered
        <3>2. client \in [Sockets -> Clients] /\ client[p] \in Clients
            BY <3>1 DEF ServerInv, ServerRight, ClientsTyped
        <3>3. client' = [client EXCEPT ![p] = c]
            BY <2>2, <3>1, <3>2
        <3>4. /\ c \in Clients /\ c.last = client[p].last /\ c.lost = client[p].lost
              /\ c.faults = client[p].faults
            BY <3>2 DEF Clients
        <3> HIDE DEF c, p
        <3> QED
            BY <1>2, <3>1, <3>3, <3>4, ClientBecomes
    <2> QED
        BY <2>1, <2>2 DEF OnClose
<1>5. JobsRight' /\ ConnectionsTyped'
    BY DEF OnClose, ServerInv, ServerRight, JobsRight, ConnectionsTyped
<1> QED
    BY <1>2, <1>3, <1>4, <1>5 DEF ServerRight

(***************************************************************************)
(* The theorems.                                                           *)
(***************************************************************************)
LEMMA NextServer == ServerInv /\ [Next]_vars => ServerInv'
<1> SUFFICES ASSUME ServerInv, [Next]_vars PROVE ServerInv'
    OBVIOUS
<1>1. RegistryInv'
    BY NextRegistry DEF ServerInv
<1> SUFFICES ServerRight'
    BY <1>1 DEF ServerInv
<1>2. ASSUME NEW s \in Sockets, Connect(s) \/ ClientClose(s) \/ OnClose(s)
      PROVE  ServerRight'
    BY <1>2, ConnectIsRight, ClientCloseIsRight, OnCloseIsRight
<1>3. ASSUME NEW s \in Sockets, NEW m \in Messages, OnMessage(s, m) PROVE ServerRight'
    BY <1>3, OnMessageIsRight
<1>4. ASSUME NEW t \in TaskIds, TaskStep(t) PROVE ServerRight'
    BY <1>4, ProcessIsRight, TransactionIsRight, AnswerIsRight, FinishIsRight DEF TaskStep
<1>5. CASE StartJob
    BY <1>5, StartJobIsRight
<1>6. CASE UNCHANGED vars
    <2>1. /\ participations' = participations /\ nextIdNumber' = nextIdNumber
          /\ client' = client /\ tasks' = tasks /\ queue' = queue
          /\ eventBuffers' = eventBuffers /\ unfinished' = unfinished
          /\ database' = database /\ connection' = connection /\ up' = up /\ sent' = sent
        BY <1>6 DEF vars, participationVars
    <2>2. ObjectsTyped' /\ created' = created /\ ClientsTyped' /\ SplitsRight' /\ DatabaseTyped'
        BY <2>1, ObjectsStay, ClientsStay, SplitsStay, DatabaseStays
    <2>3. TasksRight' /\ BuffersRight'
        BY <2>1, <2>2, TasksStay
    <2>4. JobsRight' /\ ConnectionsTyped'
        BY <2>1 DEF ServerInv, ServerRight, JobsRight, ConnectionsTyped
    <2> QED
        BY <2>2, <2>3, <2>4 DEF ServerRight
<1> QED
    BY <1>2, <1>3, <1>4, <1>5, <1>6 DEF Next

\* The inductive invariant holds in every behaviour of the server: the registry,
\* and that the clients' numbers, the tasks, the buffers of composite commands
\* and the split commands fit together.
THEOREM ServerInvariant == Spec => []ServerInv
<1>1. Init => ServerInv
    BY InitRegistry, InitServer DEF ServerInv
<1> QED
    BY <1>1, NextServer, PTL DEF Spec

\* The types of the variables, whatever the clients send: among them that a task
\* that waits for its transaction, or has an answer to give, belongs to a
\* participation.
THEOREM TypesAreKept == Spec => []TypeOK
<1>1. ServerInv => TypeOK
    <2> SUFFICES ASSUME ServerInv PROVE TypeOK
        OBVIOUS
    <2>1. ParticipationTypeOK
        BY DEF ServerInv, ServerRight, ObjectsTyped, RegistryInv, Registered, IdsGivenOut,
               ParticipationTypeOK
    <2>2. ConnectionsTyped /\ queue \in Seq([socket : Sockets, message : Messages])
        BY DEF ServerInv, ServerRight, JobsRight
    <2>3. /\ tasks \in [TaskIds -> Tasks \union {None}]
          /\ \A t \in TaskIds : tasks[t] # None =>
              IF tasks[t].stage = "ready" THEN tasks[t].who = None
                                          ELSE tasks[t].who \in created
        BY DEF ServerInv, ServerRight, TasksRight, GoodTask
    <2>4. eventBuffers \in Seq([Sockets -> Seq(Events)])
        BY DEF ServerInv, ServerRight, BuffersRight, BuffersTyped
    <2>5. SplitsRight
        BY DEF ServerInv, ServerRight
    <2>6. DatabaseTyped /\ client \in [Sockets -> Clients]
        BY DEF ServerInv, ServerRight, ClientsTyped
    <2> QED
        BY <2>1, <2>2, <2>3, <2>4, <2>5, <2>6
        DEF TypeOK, ConnectionsTyped, SplitsRight, DatabaseTyped
<1> QED
    BY <1>1, ServerInvariant, PTL

\* The numbers of the events a client gets have a gap exactly when an event for
\* it was lost, over reconnects, composite events and error events.
THEOREM LossesAreTold == Spec => []NumbersTellLoss
<1>1. ServerInv => NumbersTellLoss
    BY DEF ServerInv, ServerRight, ClientsTyped, NumbersRight, NumbersTellLoss,
           lastSequenceNumber, created
<1> QED
    BY <1>1, ServerInvariant, PTL

\* An idle server has no event buffer, whatever became of composite commands,
\* their parts and the clients that sent them.
THEOREM NoBufferStays == Spec => []BuffersBalanced
<1>1. ServerInv => BuffersBalanced
    <2> SUFFICES ASSUME ServerInv, Idle PROVE eventBuffers = <<>>
        BY DEF BuffersBalanced
    <2>1. tasks[0] = None
        BY JobId DEF Idle
    <2>2. Len(eventBuffers) = 0 /\ eventBuffers \in Seq([Sockets -> Seq(Events)])
        BY <2>1 DEF ServerInv, ServerRight, BuffersRight, BuffersTyped, Depth
    <2> QED
        BY <2>2, EmptySeq
<1> QED
    BY <1>1, ServerInvariant, PTL

(***************************************************************************)
(* Events that are still on their way to a client.                         *)
(***************************************************************************)
\* The elements of s lead from the view v of a client to w, each by a step in R.
Chain(R, s, v, w) ==
    \E f \in [0..Len(s) -> Versions] :
        /\ f[0] = v
        /\ f[Len(s)] = w
        /\ \A i \in 1..Len(s) : <<f[i - 1], s[i], f[i]>> \in R

LEMMA ChainOfNone ==
    ASSUME NEW R, NEW v \in Versions
    PROVE  /\ Chain(R, <<>>, v, v)
           /\ \A w : Chain(R, <<>>, v, w) => v = w
<1> DEFINE f == [i \in 0..0 |-> v]
<1>1. Chain(R, <<>>, v, v)
    <2>1. f \in [0..Len(<<>>) -> Versions] /\ f[0] = v /\ f[Len(<<>>)] = v
        OBVIOUS
    <2>2. 1..Len(<<>>) = {}
        OBVIOUS
    <2> HIDE DEF f
    <2> QED
        BY <2>1, <2>2 DEF Chain
<1> QED
    BY <1>1 DEF Chain

LEMMA ChainAppend ==
    ASSUME NEW R, NEW E, NEW s \in Seq(E), NEW e \in E, NEW v,
           NEW u \in Versions, NEW w \in Versions,
           Chain(R, s, v, u), <<u, e, w>> \in R
    PROVE  Chain(R, Append(s, e), v, w)
<1> DEFINE m == Len(s)
           t == Append(s, e)
<1>1. PICK f \in [0..m -> Versions] :
          f[0] = v /\ f[m] = u /\ \A i \in 1..m : <<f[i - 1], s[i], f[i]>> \in R
    BY DEF Chain
<1>2. /\ m \in Nat /\ Len(t) = m + 1 /\ t[m + 1] = e
      /\ \A i \in 1..m : t[i] = s[i]
    BY LenProperties, AppendProperties
<1> DEFINE g == [i \in 0..m + 1 |-> IF i = m + 1 THEN w ELSE f[i]]
<1> HIDE DEF m, t
<1>3. g \in [0..m + 1 -> Versions] /\ g[0] = v /\ g[m + 1] = w
    BY <1>1, <1>2
<1>4. ASSUME NEW i \in 1..m + 1 PROVE <<g[i - 1], t[i], g[i]>> \in R
    <2>1. CASE i = m + 1
        <3>1. g[i - 1] = u /\ g[i] = w
            BY <1>1, <1>2, <2>1
        <3> QED
            BY <1>2, <2>1, <3>1
    <2>2. CASE i # m + 1
        <3>1. i \in 1..m /\ g[i - 1] = f[i - 1] /\ g[i] = f[i]
            BY <1>2, <2>2
        <3> QED
            BY <1>1, <1>2, <3>1
    <2> QED
        BY <2>1, <2>2
<1> HIDE DEF g
<1> QED
    BY <1>2, <1>3, <1>4 DEF Chain, t

\* The last element is replaced, by one that leads on from wherever the old one
\* did.
LEMMA ChainReplaceLast ==
    ASSUME NEW R, NEW E, NEW s \in Seq(E), s # <<>>, NEW e \in E, NEW v,
           NEW u \in Versions, NEW w \in Versions, Chain(R, s, v, u),
           \A z \in Versions : <<z, s[Len(s)], u>> \in R => <<z, e, w>> \in R
    PROVE  Chain(R, [s EXCEPT ![Len(s)] = e], v, w)
<1> DEFINE m == Len(s)
           t == [s EXCEPT ![m] = e]
<1>1. PICK f \in [0..m -> Versions] :
          f[0] = v /\ f[m] = u /\ \A i \in 1..m : <<f[i - 1], s[i], f[i]>> \in R
    BY DEF Chain
<1>2. m \in Nat \ {0}
    BY EmptySeq, LenProperties
<1>3. Len(t) = m /\ t[m] = e /\ \A i \in 1..m : i # m => t[i] = s[i]
    BY <1>2, ExceptSeq, LenProperties
<1> DEFINE g == [f EXCEPT ![m] = w]
<1> HIDE DEF m, t
<1>4. g \in [0..m -> Versions] /\ g[0] = v /\ g[m] = w
      /\ \A i \in 0..m : i # m => g[i] = f[i]
    BY <1>1, <1>2
<1>5. ASSUME NEW i \in 1..m PROVE <<g[i - 1], t[i], g[i]>> \in R
    <2>1. i - 1 \in 0..m /\ i - 1 # m
        BY <1>2
    <2>2. CASE i = m
        <3>1. f[m - 1] \in Versions /\ <<f[m - 1], s[m], u>> \in R
            BY <1>1, <2>1, <2>2
        <3>2. <<f[m - 1], e, w>> \in R
            BY <3>1 DEF m
        <3> QED
            BY <1>3, <1>4, <2>1, <2>2, <3>2
    <2>3. CASE i # m
        BY <1>1, <1>3, <1>4, <2>1, <2>3
    <2> QED
        BY <2>2, <2>3
<1> HIDE DEF g
<1> QED
    BY <1>3, <1>4, <1>5 DEF Chain, t, m

\* Without its last element, and that element.
LEMMA ChainLast ==
    ASSUME NEW R, NEW E, NEW s \in Seq(E), s # <<>>, NEW v, NEW w, Chain(R, s, v, w)
    PROVE  \E u \in Versions :
               Chain(R, SubSeq(s, 1, Len(s) - 1), v, u) /\ <<u, s[Len(s)], w>> \in R
<1> DEFINE m == Len(s)
           t == SubSeq(s, 1, m - 1)
<1>1. PICK f \in [0..m -> Versions] :
          f[0] = v /\ f[m] = w /\ \A i \in 1..m : <<f[i - 1], s[i], f[i]>> \in R
    BY DEF Chain
<1>2. m \in Nat \ {0}
    BY EmptySeq, LenProperties
<1>3. Len(t) = m - 1 /\ \A i \in 1..m - 1 : t[i] = s[i]
    <2>1. 1 \in Int /\ m - 1 \in Int /\ \A i \in 1..m - 1 : s[i] \in E
        BY <1>2, ElementOfSeq
    <2>2. /\ Len(SubSeq(s, 1, m - 1)) = IF 1 <= m - 1 THEN (m - 1) - 1 + 1 ELSE 0
          /\ \A i \in 1..(m - 1) - 1 + 1 : SubSeq(s, 1, m - 1)[i] = s[1 + i - 1]
        BY <2>1, SubSeqProperties
    <2> HIDE DEF m
    <2> QED
        BY <1>2, <2>2
<1> DEFINE g == [i \in 0..m - 1 |-> f[i]]
<1> HIDE DEF m, t
<1>4. g \in [0..m - 1 -> Versions] /\ g[0] = v /\ g[m - 1] = f[m - 1]
    BY <1>1, <1>2
<1>5. \A i \in 1..m - 1 : <<g[i - 1], t[i], g[i]>> \in R
    <2> SUFFICES ASSUME NEW i \in 1..m - 1 PROVE <<g[i - 1], t[i], g[i]>> \in R
        OBVIOUS
    <2>1. i \in 1..m /\ g[i - 1] = f[i - 1] /\ g[i] = f[i]
        BY <1>2
    <2> QED
        BY <1>1, <1>3, <2>1
<1>6. f[m - 1] \in Versions /\ <<f[m - 1], s[m], w>> \in R
    BY <1>1, <1>2
<1> HIDE DEF g
<1>7. Chain(R, t, v, f[m - 1])
    BY <1>3, <1>4, <1>5 DEF Chain
<1> QED
    BY <1>6, <1>7 DEF t, m

LEMMA ChainConcat ==
    ASSUME NEW R, NEW E, NEW s \in Seq(E), NEW t \in Seq(E), NEW v, NEW u, NEW w,
           Chain(R, s, v, u), Chain(R, t, u, w)
    PROVE  Chain(R, s \o t, v, w)
<1> DEFINE m == Len(s)
           n == Len(t)
           c == s \o t
<1>1. PICK f \in [0..m -> Versions] :
          f[0] = v /\ f[m] = u /\ \A i \in 1..m : <<f[i - 1], s[i], f[i]>> \in R
    BY DEF Chain
<1>2. PICK g \in [0..n -> Versions] :
          g[0] = u /\ g[n] = w /\ \A i \in 1..n : <<g[i - 1], t[i], g[i]>> \in R
    BY DEF Chain
<1>3. /\ m \in Nat /\ n \in Nat /\ Len(c) = m + n
      /\ \A i \in 1..m + n : c[i] = IF i <= m THEN s[i] ELSE t[i - m]
    BY LenProperties, ConcatProperties
<1> DEFINE h == [i \in 0..m + n |-> IF i <= m THEN f[i] ELSE g[i - m]]
<1> HIDE DEF m, n, c
<1>4. h \in [0..m + n -> Versions]
    <2> SUFFICES ASSUME NEW i \in 0..m + n PROVE h[i] \in Versions
        OBVIOUS
    <2>1. CASE i <= m
        <3>1. i \in 0..m
            BY <1>3, <2>1
        <3> QED
            BY <2>1, <3>1
    <2>2. CASE ~(i <= m)
        <3>1. i - m \in 0..n
            BY <1>3, <2>2
        <3> QED
            BY <2>2, <3>1
    <2> QED
        BY <2>1, <2>2
<1>5. h[0] = v /\ h[m + n] = w
    <2>1. h[0] = v
        BY <1>1, <1>3
    <2>2. CASE n = 0
        BY <1>1, <1>2, <1>3, <2>2
    <2>3. CASE n # 0
        <3>1. m + n \in 0..m + n /\ ~(m + n <= m) /\ (m + n) - m = n
            BY <1>3, <2>3
        <3> QED
            BY <1>2, <2>1, <3>1
    <2> QED
        BY <2>2, <2>3
<1>6. ASSUME NEW i \in 1..m + n PROVE <<h[i - 1], c[i], h[i]>> \in R
    <2>1. CASE i <= m
        <3>1. i \in 1..m /\ h[i - 1] = f[i - 1] /\ h[i] = f[i]
            BY <1>3, <2>1
        <3> QED
            BY <1>1, <1>3, <2>1, <3>1
    <2>2. CASE i > m
        <3>1. i - m \in 1..n /\ ~(i <= m) /\ h[i] = g[i - m]
            BY <1>3, <2>2
        <3>2. h[i - 1] = g[(i - m) - 1]
            <4>1. CASE i - 1 = m
                BY <1>1, <1>2, <1>3, <4>1
            <4>2. CASE i - 1 # m
                <5>1. ~(i - 1 <= m) /\ i - 1 \in 0..m + n /\ (i - 1) - m = (i - m) - 1
                    BY <1>3, <2>2, <4>2
                <5> QED
                    BY <5>1
            <4> QED
                BY <4>1, <4>2
        <3>3. c[i] = t[i - m]
            BY <1>3, <3>1
        <3> QED
            BY <1>2, <3>1, <3>2, <3>3
    <2> QED
        BY <1>3, <2>1, <2>2
<1> HIDE DEF h
<1> QED
    BY <1>3, <1>4, <1>5, <1>6 DEF Chain, c

LEMMA ChainWider ==
    ASSUME NEW R, NEW Q, R \subseteq Q, NEW s, NEW v, NEW w, Chain(R, s, v, w)
    PROVE  Chain(Q, s, v, w)
BY DEF Chain

\* One element.
LEMMA ChainOfOne ==
    ASSUME NEW R, NEW e, NEW v \in Versions, NEW w \in Versions, <<v, e, w>> \in R
    PROVE  Chain(R, <<e>>, v, w)
<1> DEFINE f == [i \in 0..1 |-> IF i = 0 THEN v ELSE w]
           s == <<e>>
<1>1. Len(s) = 1 /\ s[1] = e
    OBVIOUS
<1>2. f \in [0..1 -> Versions] /\ f[0] = v /\ f[1] = w
    OBVIOUS
<1>3. \A i \in 1..1 : i = 1 /\ i - 1 = 0
    OBVIOUS
<1> HIDE DEF f, s
<1> QED
    BY <1>1, <1>2, <1>3 DEF Chain, s

\* The change takes the view v of a client to w. S are the partitions the client is
\* subscribed to, and `apart' is TRUE if it may be told of others that are added.
Takes(S, apart, v, change, w) ==
    LET x == change.partition IN
    \/ /\ change.kind = "AddPartition"
       /\ x \in S
       /\ w = [v EXCEPT ![x] = change.version]
    \/ /\ change.kind = "AddPartition"
       /\ x \notin S
       /\ apart
       /\ w = v
    \/ /\ change.kind # "AddPartition"
       /\ v[x] = None
       /\ w = v
    \/ /\ change.kind = "DeletePartition"
       /\ v[x] # None
       /\ w = [v EXCEPT ![x] = None]
    \/ /\ change.kind = "Change"
       /\ v[x] # None
       /\ change.version = v[x] + 1
       /\ w = [v EXCEPT ![x] = change.version]

\* The same as relations between views, for a change, an event and the buffered
\* events of p.
ByChange(S, apart) ==
    {z \in Versions \X Changes \X Versions : Takes(S, apart, z[1], z[2], z[3])}

ByEvent(S, apart) ==
    {z \in Versions \X Events \X Versions :
        Chain(ByChange(S, apart), z[2].changes, z[1], z[3])}

ByBuffer(S, apart, p) ==
    {z \in Versions \X [Sockets -> Seq(Events)] \X Versions :
        Chain(ByEvent(S, apart), z[2][p], z[1], z[3])}

\* Who is subscribed to more partitions, and is told of them only, understands
\* what it is told in the same way.
LEMMA MoreSubscribed ==
    ASSUME NEW S, NEW T, S \subseteq T, NEW a \in BOOLEAN, NEW b \in BOOLEAN,
           a => b /\ S = T, NEW p
    PROVE  /\ ByEvent(S, a) \subseteq ByEvent(T, b)
           /\ ByBuffer(S, a, p) \subseteq ByBuffer(T, b, p)
<1>1. ByChange(S, a) \subseteq ByChange(T, b)
    <2> SUFFICES ASSUME NEW z \in Versions \X Changes \X Versions,
                        Takes(S, a, z[1], z[2], z[3])
                 PROVE  Takes(T, b, z[1], z[2], z[3])
        BY DEF ByChange
    <2> DEFINE v == z[1]
               c == z[2]
               w == z[3]
    <2>1. Takes(S, a, v, c, w)
        OBVIOUS
    <2> HIDE DEF v, c, w
    <2>2. Takes(T, b, v, c, w)
        BY <2>1 DEF Takes
    <2> QED
        BY <2>2 DEF v, c, w
<1>2. ByEvent(S, a) \subseteq ByEvent(T, b)
    <2> DEFINE R == ByChange(S, a)
               Q == ByChange(T, b)
    <2> HIDE DEF R, Q
    <2>1. R \subseteq Q
        BY <1>1 DEF R, Q
    <2>2. \A s, v, w : Chain(R, s, v, w) => Chain(Q, s, v, w)
        BY <2>1, ChainWider
    <2> QED
        BY <2>2 DEF ByEvent, R, Q
<1>3. ByBuffer(S, a, p) \subseteq ByBuffer(T, b, p)
    <2> DEFINE R == ByEvent(S, a)
               Q == ByEvent(T, b)
    <2> HIDE DEF R, Q
    <2>1. R \subseteq Q
        BY <1>2 DEF R, Q
    <2>2. \A s, v, w : Chain(R, s, v, w) => Chain(Q, s, v, w)
        BY <2>1, ChainWider
    <2> QED
        BY <2>2 DEF ByBuffer, R, Q
<1> QED
    BY <1>2, <1>3

\* An event that tells of no change, and one that tells of one.
LEMMA EventLeads ==
    ASSUME NEW S, NEW apart, NEW v \in Versions
    PROVE  /\ <<v, ErrorEvent, v>> \in ByEvent(S, apart)
           /\ \A change \in Changes, w \in Versions :
                 Takes(S, apart, v, change, w) =>
                     <<v, ChangeEvent(change), w>> \in ByEvent(S, apart)
<1> DEFINE R == ByChange(S, apart)
<1> HIDE DEF R
<1>1. <<v, ErrorEvent, v>> \in ByEvent(S, apart)
    <2>1. ErrorEvent \in Events /\ ErrorEvent.changes = <<>>
        BY DEF ErrorEvent, Events
    <2>2. Chain(R, <<>>, v, v)
        BY ChainOfNone
    <2> QED
        BY <2>1, <2>2 DEF ByEvent, R
<1>2. ASSUME NEW change \in Changes, NEW w \in Versions, Takes(S, apart, v, change, w)
      PROVE  <<v, ChangeEvent(change), w>> \in ByEvent(S, apart)
    <2>1. <<v, change, w>> \in R
        BY <1>2 DEF ByChange, R
    <2>2. Chain(R, <<change>>, v, w)
        BY <2>1, ChainOfOne
    <2>3. ChangeEvent(change) \in Events /\ ChangeEvent(change).changes = <<change>>
        BY DEF ChangeEvent, Events
    <2> QED
        BY <2>2, <2>3 DEF ByEvent, R
<1> QED
    BY <1>1, <1>2

\* A composite event leads where its parts lead.
LEMMA CompositeLeads ==
    ASSUME NEW S, NEW apart, NEW parts \in Seq(Events), NEW v \in Versions, NEW w \in Versions,
           Chain(ByEvent(S, apart), parts, v, w)
    PROVE  <<v, CompositeEvent(parts), w>> \in ByEvent(S, apart)
<1> DEFINE m == Len(parts)
           R == ByChange(S, apart)
           join == CHOOSE join : IsJoin(parts, join)
<1>1. IsJoin(parts, join)
    BY JoinExists
<1>2. CompositeEvent(parts) = join[m]
    BY DEF CompositeEvent, IsJoin, Joined
<1>3. \A i \in 0..m : join[i] = Joined(parts, join, i) /\ join[i] \in Events
    BY <1>1, JoinStays DEF IsJoin
<1>4. PICK f \in [0..m -> Versions] :
          f[0] = v /\ f[m] = w /\ \A i \in 1..m : <<f[i - 1], parts[i], f[i]>> \in ByEvent(S, apart)
    BY DEF Chain
<1>5. m \in Nat
    BY LenProperties
<1> HIDE DEF join, m, R
<1> DEFINE T == {i \in Nat : i <= m => Chain(R, join[i].changes, v, f[i])}
<1>6. 0 \in T
    <2>1. 0 \in 0..m
        BY <1>5
    <2>2. join[0] = [size |-> 1, changes |-> <<>>]
        BY <1>3, <2>1 DEF Joined
    <2>3. join[0].changes = <<>>
        BY <2>2
    <2> QED
        BY <1>4, <2>3, ChainOfNone
<1>7. ASSUME NEW i \in T PROVE i + 1 \in T
    <2> SUFFICES ASSUME i + 1 <= m PROVE Chain(R, join[i + 1].changes, v, f[i + 1])
        OBVIOUS
    <2>1. /\ i \in Nat /\ i \in 0..m /\ i + 1 \in 0..m /\ i + 1 \in 1..m /\ i + 1 # 0
          /\ (i + 1) - 1 = i /\ i <= m
        BY <1>5
    <2>2. join[i + 1].changes = join[i].changes \o parts[i + 1].changes
        <3>1. join[i + 1] = [size |-> join[i].size + parts[i + 1].size,
                             changes |-> join[i].changes \o parts[i + 1].changes]
            BY <1>3, <2>1 DEF Joined
        <3>2. \A j, l, c : j = [size |-> l, changes |-> c] => j.changes = c
            OBVIOUS
        <3> HIDE DEF T
        <3> QED
            BY <3>1, <3>2
    <2>3. Chain(R, join[i].changes, v, f[i])
        BY <2>1
    <2>4. /\ parts[i + 1] \in Events
          /\ Chain(R, parts[i + 1].changes, f[i], f[i + 1])
        BY <1>4, <2>1 DEF ByEvent, R
    <2>5. join[i].changes \in Seq(Changes) /\ parts[i + 1].changes \in Seq(Changes)
        BY <1>3, <2>1, <2>4 DEF Events
    <2> QED
        BY <2>2, <2>3, <2>4, <2>5, ChainConcat
<1>8. T = Nat
    <2> HIDE DEF T
    <2>1. T \in SUBSET Nat
        BY DEF T
    <2> QED
        BY <1>6, <1>7, <2>1, SetOfNaturals
<1>9. Chain(R, join[m].changes, v, w) /\ join[m] \in Events
    BY <1>3, <1>4, <1>5, <1>8
<1> QED
    BY <1>2, <1>9 DEF ByEvent, R

\* The clients with a view that nothing is wrong with.
Viewing(v, away) ==
    {c \in Clients : /\ c.view = v
                     /\ c.away = away
                     /\ c.missing = {}
                     /\ "twice" \notin c.faults}

\* A client applies a change as the change takes its view.
LEMMA ApplyFollows ==
    ASSUME NEW away, NEW v \in Versions, NEW c \in Viewing(v, away), NEW p,
           NEW change \in Changes, NEW w \in Versions, NEW apart,
           Takes(participations'[p].subscribedPartitions, apart, v, change, w)
    PROVE  Apply(c, p, change) \in Viewing(w, away)
<1> DEFINE x == change.partition
           n == change.version
           S == participations'[p].subscribedPartitions
<1>1. x \in Partitions /\ n \in Nat
    BY DEF Changes
<1>2. /\ c \in Clients /\ c.view = v /\ c.away = away /\ c.missing = {}
      /\ "twice" \notin c.faults
    BY DEF Viewing
<1>3. v[x] # None => v[x] \in Nat
    BY <1>1 DEF Versions
<1> HIDE DEF S
<1>4. CASE change.kind = "AddPartition"
    <2>1. CASE x \in S
        <3> DEFINE missing == {e \in c.missing : e[1] # x}
        <3>1. /\ Apply(c, p, change) = [c EXCEPT !.view[x] = n, !.missing = missing]
              /\ w = [v EXCEPT ![x] = n]
            BY <1>4, <2>1 DEF Apply, Takes, S
        <3>2. missing = {}
            BY <1>2
        <3>3. [c EXCEPT !.view[x] = n, !.missing = {}] \in Viewing(w, away)
            BY <1>2, <3>1 DEF Viewing, Clients
        <3> QED
            BY <3>1, <3>2, <3>3
    <2>2. CASE x \notin S
        <3>1. Apply(c, p, change) = c /\ w = v
            BY <1>4, <2>2 DEF Apply, Takes, S
        <3> QED
            BY <3>1
    <2> QED
        BY <2>1, <2>2
<1>5. CASE change.kind # "AddPartition" /\ v[x] = None
    <2>1. Apply(c, p, change) = c /\ w = v
        BY <1>2, <1>5 DEF Apply, Takes
    <2> QED
        BY <2>1
<1>6. CASE change.kind = "DeletePartition" /\ v[x] # None
    <2>1. Apply(c, p, change) = [c EXCEPT !.view[x] = None] /\ w = [v EXCEPT ![x] = None]
        BY <1>2, <1>6 DEF Apply, Takes
    <2>2. [c EXCEPT !.view[x] = None] \in Viewing(w, away)
        BY <1>2, <2>1 DEF Viewing, Clients
    <2> QED
        BY <2>1, <2>2
<1>7. CASE change.kind = "Change" /\ v[x] # None
    <2>1. n = v[x] + 1 /\ w = [v EXCEPT ![x] = n]
        BY <1>7 DEF Takes
    <2>2. n > v[x] /\ v[x] + 1..n - 1 = {}
        BY <1>1, <1>3, <1>7, <2>1
    <2>3. Skipped(x, v[x], n) = {}
        BY <2>2 DEF Skipped
    <2>4. Apply(c, p, change) = [c EXCEPT !.view[x] = n,
                                          !.missing = @ \union Skipped(x, v[x], n)]
        BY <1>2, <1>7, <2>2 DEF Apply
    <2>5. [c EXCEPT !.view[x] = n, !.missing = @ \union Skipped(x, v[x], n)] =
              [c EXCEPT !.view = w, !.missing = {}]
        BY <1>2, <2>1, <2>3 DEF Clients
    <2>6. [c EXCEPT !.view = w, !.missing = {}] \in Viewing(w, away)
        BY <1>2 DEF Viewing, Clients
    <2> QED
        BY <2>4, <2>5, <2>6
<1>8. change.kind \in {"Change", "AddPartition", "DeletePartition"}
    BY DEF Changes, PartitionCommands
<1> QED
    BY <1>4, <1>5, <1>6, <1>7, <1>8

LEMMA ApplyAllFollows ==
    ASSUME NEW last, NEW lost, NEW away, NEW v \in Versions,
           NEW c \in Viewing(v, away), c \in Numbering(last, lost), NEW p,
           NEW changes \in Seq(Changes), NEW w, NEW apart,
           Chain(ByChange(participations'[p].subscribedPartitions, apart), changes, v, w)
    PROVE  ApplyAll(c, p, changes) \in Viewing(w, away)
<1> DEFINE m == Len(changes)
           S == participations'[p].subscribedPartitions
           step == CHOOSE step : IsApplied(c, p, changes, step)
<1>1. IsApplied(c, p, changes, step)
    BY AppliedExists
<1>2. ApplyAll(c, p, changes) = step[m]
    BY DEF ApplyAll, IsApplied, Applied
<1>3. m \in Nat /\ \A i \in 1..m : changes[i] \in Changes
    BY LenProperties, ElementOfSeq
<1>4. PICK f \in [0..m -> Versions] :
          f[0] = v /\ f[m] = w /\ \A i \in 1..m : <<f[i - 1], changes[i], f[i]>> \in ByChange(S, apart)
    BY DEF Chain
<1> HIDE DEF step
<1>5. \A i \in 0..m : step[i] = Applied(c, p, changes, step, i)
    BY <1>1 DEF IsApplied
<1> HIDE DEF m
<1> DEFINE T == {i \in Nat : i <= m => step[i] \in Viewing(f[i], away)}
<1>6. 0 \in T
    <2>1. 0 \in 0..m
        BY <1>3
    <2>2. step[0] = c
        BY <1>5, <2>1 DEF Applied
    <2> QED
        BY <1>4, <2>2
<1>7. ASSUME NEW i \in T PROVE i + 1 \in T
    <2> SUFFICES ASSUME i + 1 <= m PROVE step[i + 1] \in Viewing(f[i + 1], away)
        OBVIOUS
    <2>1. /\ i \in Nat /\ i \in 0..m /\ i + 1 \in 0..m /\ i + 1 \in 1..m /\ i + 1 # 0
          /\ (i + 1) - 1 = i /\ i <= m
        BY <1>3
    <2>2. step[i + 1] = Apply(step[i], p, changes[i + 1])
        BY <1>5, <2>1 DEF Applied
    <2>3. step[i] \in Viewing(f[i], away) /\ f[i] \in Versions /\ f[i + 1] \in Versions
        BY <2>1
    <2>4. Takes(S, apart, f[i], changes[i + 1], f[i + 1]) /\ changes[i + 1] \in Changes
        BY <1>4, <2>1 DEF ByChange
    <2> QED
        BY <2>2, <2>3, <2>4, ApplyFollows
<1>8. T = Nat
    <2> HIDE DEF T
    <2>1. T \in SUBSET Nat
        BY DEF T
    <2> QED
        BY <1>6, <1>7, <2>1, SetOfNaturals
<1>9. step[m] \in Viewing(w, away)
    BY <1>3, <1>4, <1>8
<1> QED
    BY <1>2, <1>9

\* A client that gets an event follows it.
LEMMA ReceiveFollows ==
    ASSUME NEW last \in Nat, NEW lost \in BOOLEAN, NEW away, NEW v \in Versions,
           NEW c \in Viewing(v, away), c \in Numbering(last, lost), NEW p,
           NEW n \in Nat, NEW event, NEW w, NEW apart,
           lost <=> last # n - 1,
           <<v, event, w>> \in ByEvent(participations'[p].subscribedPartitions, apart)
    PROVE  Receive(c, p, n, event) \in Viewing(w, away)
<1> DEFINE l == n + event.size - 1
           d == [c EXCEPT !.last = l, !.lost = FALSE,
                          !.faults = IF (n = c.last + 1) = c.lost
                                     THEN @ \union {"number"} ELSE @]
           R == ByChange(participations'[p].subscribedPartitions, apart)
<1>0. event \in Events /\ Chain(R, event.changes, v, w)
    BY DEF ByEvent
<1>1. l \in Nat /\ event.changes \in Seq(Changes)
    BY <1>0 DEF Events
<1>2. c \in Clients /\ c.last = last /\ c.lost = lost /\ "number" \notin c.faults
    BY DEF Numbering
<1>3. ~((n = c.last + 1) = c.lost)
    BY <1>2
<1>4. d = [c EXCEPT !.last = l, !.lost = FALSE, !.faults = c.faults]
    BY <1>3
<1>5. d \in Numbering(l, FALSE) /\ d \in Viewing(v, away)
    <2> HIDE DEF l
    <2> QED
        BY <1>1, <1>2, <1>4 DEF Numbering, Viewing, Clients
<1>6. Receive(c, p, n, event) = ApplyAll(d, p, event.changes)
    BY DEF Receive
<1> HIDE DEF d, l
<1> QED
    BY <1>0, <1>1, <1>5, <1>6, ApplyAllFollows DEF R

(***************************************************************************)
(* The clients that follow the database.                                   *)
(***************************************************************************)
\* The partitions x of a view w are in S, and the view has the version of each
\* in the database d, or the one before it where an event is awaited.
Agrees(S, d, awaited, w) ==
    \A x \in Partitions : w[x] # None =>
        /\ x \in S
        /\ "AddPartition" \notin awaited[x]
        /\ \A r \in Repositories :
              IF awaited[x] = {} THEN d[r][x] = [present |-> TRUE, version |-> w[x]]
                                 ELSE d[r][x].version = w[x] + 1

\* The client c of participation p gets to such a view by what is buffered for it.
Follows(p, S, apart, c, buffers, d, awaited) ==
    /\ c \in Viewing(c.view, FALSE)
    /\ \E w \in Versions :
          /\ Chain(ByBuffer(S, apart, p), buffers, c.view, w)
          /\ Agrees(S, d, awaited, w)

LEMMA AgreesMore ==
    ASSUME NEW S, NEW T, S \subseteq T, NEW d, NEW awaited, NEW w, Agrees(S, d, awaited, w)
    PROVE  Agrees(T, d, awaited, w)
BY DEF Agrees

LEMMA FollowsOn ==
    ASSUME NEW p, NEW S, NEW T, S \subseteq T, NEW a \in BOOLEAN, NEW b \in BOOLEAN,
           a => b /\ S = T, NEW c, NEW buffers, NEW d, NEW awaited,
           Follows(p, S, a, c, buffers, d, awaited)
    PROVE  Follows(p, T, b, c, buffers, d, awaited)
<1>1. PICK w \in Versions :
          Chain(ByBuffer(S, a, p), buffers, c.view, w) /\ Agrees(S, d, awaited, w)
    BY DEF Follows
<1>2. ByBuffer(S, a, p) \subseteq ByBuffer(T, b, p)
    BY MoreSubscribed
<1>3. Chain(ByBuffer(T, b, p), buffers, c.view, w)
    BY <1>1, <1>2, ChainWider
<1>4. Agrees(T, d, awaited, w)
    BY <1>1, AgreesMore
<1> QED
    BY <1>3, <1>4 DEF Follows

\* Without buffers there is nothing on its way.
LEMMA FollowsNow ==
    ASSUME NEW p, NEW S, NEW a, NEW b, NEW c, NEW d, NEW awaited
    PROVE  /\ Follows(p, S, a, c, <<>>, d, awaited) =>
                 c \in Viewing(c.view, FALSE) /\ Agrees(S, d, awaited, c.view)
           /\ c \in Viewing(c.view, FALSE) /\ Agrees(S, d, awaited, c.view) =>
                 Follows(p, S, b, c, <<>>, d, awaited)
<1>1. ASSUME c \in Viewing(c.view, FALSE) PROVE c.view \in Versions
    BY <1>1 DEF Viewing, Clients
<1>2. ASSUME NEW w \in Versions, Chain(ByBuffer(S, a, p), <<>>, c.view, w),
             c \in Viewing(c.view, FALSE)
      PROVE  w = c.view
    BY <1>1, <1>2, ChainOfNone
<1>3. ASSUME c \in Viewing(c.view, FALSE)
      PROVE  Chain(ByBuffer(S, b, p), <<>>, c.view, c.view)
    BY <1>1, <1>3, ChainOfNone
<1> QED
    BY <1>1, <1>2, <1>3 DEF Follows

\* A new client knows no partition, and nothing is buffered for it.
LEMMA NothingBuffered ==
    ASSUME NEW p \in Sockets, NEW S, NEW apart, NEW v \in Versions,
           NEW buffers \in Seq([Sockets -> Seq(Events)]),
           \A i \in 1..Len(buffers) : buffers[i][p] = <<>>
    PROVE  Chain(ByBuffer(S, apart, p), buffers, v, v)
<1> DEFINE R == ByBuffer(S, apart, p)
           Q == ByEvent(S, apart)
           f == [i \in 0..Len(buffers) |-> v]
<1>1. Len(buffers) \in Nat
    BY LenProperties
<1>2. ASSUME NEW i \in 1..Len(buffers) PROVE <<v, buffers[i], v>> \in R
    <2>1. buffers[i] \in [Sockets -> Seq(Events)] /\ buffers[i][p] = <<>>
        BY ElementOfSeq
    <2>2. Chain(Q, <<>>, v, v)
        BY ChainOfNone
    <2> QED
        BY <2>1, <2>2 DEF ByBuffer
<1> HIDE DEF R
<1>3. /\ f \in [0..Len(buffers) -> Versions] /\ f[0] = v /\ f[Len(buffers)] = v
      /\ \A i \in 1..Len(buffers) : f[i - 1] = v /\ f[i] = v
    BY <1>1
<1> HIDE DEF f
<1>4. \A i \in 1..Len(buffers) : <<f[i - 1], buffers[i], f[i]>> \in R
    BY <1>2, <1>3
<1> QED
    BY <1>3, <1>4 DEF Chain, R

LEMMA NewClientFollows ==
    ASSUME NEW p \in Sockets, NEW S, NEW apart, NEW d, NEW awaited,
           NEW buffers \in Seq([Sockets -> Seq(Events)]),
           \A i \in 1..Len(buffers) : buffers[i][p] = <<>>
    PROVE  Follows(p, S, apart, NewClient, buffers, d, awaited)
<1>1. /\ NewClient \in Viewing(NewClient.view, FALSE) /\ NewClient.view \in Versions
      /\ \A x \in Partitions : NewClient.view[x] = None
    BY DEF NewClient, Viewing, Clients, Versions
<1>2. Chain(ByBuffer(S, apart, p), buffers, NewClient.view, NewClient.view)
    BY <1>1, NothingBuffered
<1>3. Agrees(S, d, awaited, NewClient.view)
    BY <1>1 DEF Agrees
<1> HIDE DEF NewClient
<1> QED
    BY <1>1, <1>2, <1>3 DEF Follows

(***************************************************************************)
(* What sendDelta does to the clients.                                     *)
(***************************************************************************)
LEMMA ApplyAllAway ==
    ASSUME NEW last, NEW lost, NEW c \in Numbering(last, lost), NEW p,
           NEW changes \in Seq(Changes)
    PROVE  ApplyAll(c, p, changes).away = c.away
<1> DEFINE m == Len(changes)
           K == {k \in Numbering(last, lost) : k.away = c.away}
           step == CHOOSE step : IsApplied(c, p, changes, step)
<1>1. IsApplied(c, p, changes, step)
    BY AppliedExists
<1>2. ApplyAll(c, p, changes) = step[m]
    BY DEF ApplyAll, IsApplied, Applied
<1>3. m \in Nat /\ \A i \in 1..m : changes[i] \in Changes
    BY LenProperties, ElementOfSeq
<1> HIDE DEF step
<1>4. \A i \in 0..m : step[i] = Applied(c, p, changes, step, i)
    BY <1>1 DEF IsApplied
<1>5. ASSUME NEW k \in Numbering(last, lost), NEW change \in Changes
      PROVE  Apply(k, p, change).away = k.away
    <2>1. k \in Clients
        BY DEF Numbering
    <2>2. change.kind \in {"Change", "AddPartition", "DeletePartition"}
        BY DEF Changes, PartitionCommands
    <2> QED
        BY <2>1, <2>2 DEF Apply, Clients
<1> HIDE DEF m, K
<1>6. step[0] \in K
    <2>1. 0 \in 0..m
        BY <1>3
    <2>2. step[0] = c
        BY <1>4, <2>1 DEF Applied
    <2> QED
        BY <2>2 DEF K
<1>7. Steps(K, m, step)
    <2> SUFFICES ASSUME NEW i \in 1..m, step[i - 1] \in K PROVE step[i] \in K
        BY DEF Steps
    <2>1. i \in 0..m /\ i # 0
        BY <1>3
    <2>2. step[i] = Apply(step[i - 1], p, changes[i])
        BY <1>4, <2>1 DEF Applied
    <2>3. step[i - 1] \in Numbering(last, lost) /\ changes[i] \in Changes
        BY <1>3 DEF K
    <2> QED
        BY <1>5, <2>2, <2>3, ApplyStays DEF K
<1>8. step[m] \in K
    <2>1. \A i \in 0..m : step[i] \in K
        BY <1>3, <1>6, <1>7, StaysIn
    <2> QED
        BY <1>3, <2>1
<1> QED
    BY <1>2, <1>8 DEF K

LEMMA ReceiveAway ==
    ASSUME NEW last, NEW lost, NEW c \in Numbering(last, lost), NEW p,
           NEW n \in Nat, NEW event \in Events, lost <=> last # n - 1,
           last \in Nat, lost \in BOOLEAN
    PROVE  Receive(c, p, n, event).away = c.away
<1> DEFINE l == n + event.size - 1
           d == [c EXCEPT !.last = l, !.lost = FALSE,
                          !.faults = IF (n = c.last + 1) = c.lost
                                     THEN @ \union {"number"} ELSE @]
<1>1. l \in Nat /\ event.changes \in Seq(Changes)
    BY DEF Events
<1>2. c \in Clients /\ c.last = last /\ c.lost = lost /\ "number" \notin c.faults
    BY DEF Numbering
<1>3. ~((n = c.last + 1) = c.lost)
    BY <1>2
<1>4. d = [c EXCEPT !.last = l, !.lost = FALSE, !.faults = c.faults]
    BY <1>3
<1>5. d \in Numbering(l, FALSE) /\ d.away = c.away
    <2> HIDE DEF l
    <2> QED
        BY <1>1, <1>2, <1>4 DEF Numbering, Clients
<1>6. Receive(c, p, n, event) = ApplyAll(d, p, event.changes)
    BY DEF Receive
<1> HIDE DEF d, l
<1>7. ApplyAll(d, p, event.changes).away = d.away
    BY <1>1, <1>5, ApplyAllAway
<1> QED
    BY <1>5, <1>6, <1>7

\* A client that gets an event in its turn: its numbers are right.
LEMMA NumbersInTurn ==
    ASSUME ObjectsTyped, ClientsTyped, NEW p \in Sockets
    PROVE  LET c == client[p]
               n == participations[p].eventSequenceNumber
           IN  /\ c \in Clients /\ c \in Numbering(c.last, c.lost)
               /\ n \in Nat /\ c.last \in Nat /\ c.lost \in BOOLEAN
               /\ c.lost <=> c.last # n - 1
<1>1. client[p] \in Clients /\ NumbersRight(p)
    BY DEF ClientsTyped
<1>2. participations[p].eventSequenceNumber \in Nat
    BY DEF ObjectsTyped, Participation, NotCreated
<1>3. client[p].last \in Nat /\ client[p].lost \in BOOLEAN
    BY <1>1 DEF Clients
<1> QED
    BY <1>1, <1>2, <1>3 DEF NumbersRight, Numbering

\* No client is away, or not away any more, because of an event; and nothing is
\* sent, or kept, for an object that is not made.
LEMMA SendKeepsAway ==
    ASSUME ObjectsTyped, ClientsTyped,
           NEW buffers \in Seq([Sockets -> Seq(Events)]),
           NEW objects, NEW events, ForParticipations(events), NEW socketOf,
           SendWith(buffers, objects, events, socketOf)
    PROVE  /\ \A p \in Sockets : client'[p].away = client[p].away
           /\ \A p \in Sockets : p \notin created =>
                 /\ client'[p] = client[p]
                 /\ (\A i \in 1..Len(buffers) : buffers[i][p] = <<>>) =>
                        \A i \in 1..Len(eventBuffers') : eventBuffers'[i][p] = <<>>
<1>1. ASSUME NEW p \in Sockets, NEW s, NEW e \in Events
      PROVE  Handed(p, s, e).away = client[p].away
    <2>1. client[p] \in Clients
        BY DEF ClientsTyped
    <2>2. CASE connection[s] = "open"
        <3>1. Handed(p, s, e) = Receive(client[p], p, participations[p].eventSequenceNumber, e)
            BY <2>2 DEF Handed
        <3> QED
            BY <3>1, NumbersInTurn, ReceiveAway
    <2>3. CASE connection[s] # "open"
        <3>1. Handed(p, s, e) = [client[p] EXCEPT !.lost = TRUE]
            BY <2>3 DEF Handed
        <3> QED
            BY <2>1, <3>1 DEF Clients
    <2> QED
        BY <2>2, <2>3
<1>2. CASE buffers = <<>>
    <2>1. /\ client' = [p \in Sockets |-> IF p \in DOMAIN events
                            THEN Handed(p, socketOf[p], events[p]) ELSE client[p]]
          /\ eventBuffers' = <<>>
        BY <1>2 DEF SendWith
    <2>2. \A p \in DOMAIN events : events[p] \in Events /\ p \in created
        BY DEF ForParticipations
    <2>3. 1..Len(eventBuffers') = {}
        BY <2>1
    <2> QED
        BY <1>1, <2>1, <2>2, <2>3
<1>3. CASE buffers # <<>>
    <2> DEFINE l == Len(buffers)
               added == [p \in Sockets |-> IF p \in DOMAIN events
                             THEN Append(buffers[l][p], events[p]) ELSE buffers[l][p]]
    <2>1. client' = client /\ eventBuffers' = [buffers EXCEPT ![l] = added]
        BY <1>3 DEF SendWith
    <2>2. l \in 1..l
        BY <1>3, EmptySeq, LenProperties
    <2>3. ASSUME NEW p \in Sockets, p \notin created,
                 \A i \in 1..l : buffers[i][p] = <<>>,
                 NEW i \in 1..Len(eventBuffers')
          PROVE  eventBuffers'[i][p] = <<>>
        <3>1. added[p] = <<>>
            BY <2>2, <2>3 DEF ForParticipations
        <3> HIDE DEF added
        <3>2. Len(eventBuffers') = l
            BY <2>1, <2>2, ExceptSeq
        <3>3. i \in 1..l /\ eventBuffers'[i] = IF i = l THEN added ELSE buffers[i]
            BY <2>1, <2>2, <3>2, ExceptSeq
        <3> QED
            BY <2>3, <3>1, <3>3
    <2> QED
        BY <2>1, <2>3
<1> QED
    BY <1>2, <1>3

\* The events in the buffers, and after them the event that is sent to it, lead the
\* client of p to the view w.
Leads(p, S, apart, buffers, events, socketOf, w) ==
    \E u \in Versions :
        /\ Chain(ByBuffer(S, apart, p), buffers, client[p].view, u)
        /\ IF p \in DOMAIN events
           THEN /\ <<u, events[p], w>> \in ByEvent(S, apart)
                /\ connection[socketOf[p]] = "open" \/ w = u
           ELSE w = u

\* There the step, and what is still in the buffers after it, lead the client.
LEMMA SendLeads ==
    ASSUME ObjectsTyped, ClientsTyped,
           NEW buffers \in Seq([Sockets -> Seq(Events)]),
           NEW objects, Resubscribed(objects),
           NEW events, ForParticipations(events), NEW socketOf,
           SendWith(buffers, objects, events, socketOf),
           NEW p \in Sockets, client[p] \in Viewing(client[p].view, FALSE),
           NEW S, S = participations'[p].subscribedPartitions, NEW apart,
           NEW w \in Versions, Leads(p, S, apart, buffers, events, socketOf, w)
    PROVE  /\ client'[p] \in Viewing(client'[p].view, FALSE)
           /\ Chain(ByBuffer(S, apart, p), eventBuffers', client'[p].view, w)
<1> DEFINE c == client[p]
           R == ByBuffer(S, apart, p)
           Q == ByEvent(S, apart)
<1>1. c.view \in Versions /\ c \in Clients
    BY DEF Viewing, Clients
<1> PICK u \in Versions :
        /\ Chain(R, buffers, c.view, u)
        /\ IF p \in DOMAIN events
           THEN /\ <<u, events[p], w>> \in Q
                /\ connection[socketOf[p]] = "open" \/ w = u
           ELSE w = u
    BY DEF Leads
<1>2. CASE buffers = <<>>
    <2>1. u = c.view
        BY <1>1, <1>2, ChainOfNone
    <2>2. /\ client'[p] = IF p \in DOMAIN events
                          THEN Handed(p, socketOf[p], events[p]) ELSE client[p]
          /\ eventBuffers' = <<>>
        BY <1>2 DEF SendWith
    <2>3. client'[p] \in Viewing(w, FALSE)
        <3>1. CASE p \notin DOMAIN events
            BY <2>1, <2>2, <3>1
        <3>2. CASE p \in DOMAIN events /\ connection[socketOf[p]] = "open"
            <4> DEFINE n == participations[p].eventSequenceNumber
                       e == events[p]
            <4>1. client'[p] = Receive(c, p, n, e)
                BY <2>2, <3>2 DEF Handed
            <4>2. /\ c \in Numbering(c.last, c.lost) /\ n \in Nat /\ c.last \in Nat
                  /\ c.lost \in BOOLEAN /\ (c.lost <=> c.last # n - 1)
                BY NumbersInTurn
            <4>3. <<c.view, e, w>> \in ByEvent(participations'[p].subscribedPartitions, apart)
                BY <2>1, <3>2
            <4>4. c \in Viewing(c.view, FALSE) /\ c.view \in Versions
                BY <1>1
            <4> HIDE DEF n, e, c, R, Q
            <4>5. Receive(c, p, n, e) \in Viewing(w, FALSE)
                BY <4>2, <4>3, <4>4, ReceiveFollows
            <4> QED
                BY <4>1, <4>5
        <3>3. CASE p \in DOMAIN events /\ connection[socketOf[p]] # "open"
            <4>1. client'[p] = [c EXCEPT !.lost = TRUE] /\ w = c.view
                BY <2>1, <2>2, <3>3 DEF Handed
            <4> QED
                BY <1>1, <4>1 DEF Viewing, Clients
        <3> QED
            BY <3>1, <3>2, <3>3
    <2>4. client'[p].view = w
        BY <2>3 DEF Viewing
    <2> QED
        BY <2>2, <2>3, <2>4, ChainOfNone
<1>3. CASE buffers # <<>>
    <2> DEFINE l == Len(buffers)
               E == [Sockets -> Seq(Events)]
               old == buffers[l]
               added == [q \in Sockets |-> IF q \in DOMAIN events
                             THEN Append(old[q], events[q]) ELSE old[q]]
    <2>1. client' = client /\ eventBuffers' = [buffers EXCEPT ![l] = added]
        BY <1>3 DEF SendWith
    <2>2. l \in 1..l /\ old \in E
        BY <1>3, EmptySeq, LenProperties, ElementOfSeq
    <2>3. added \in E
        BY <2>2 DEF ForParticipations
    <2>4. ASSUME NEW z \in Versions, <<z, old, u>> \in R
          PROVE  <<z, added, w>> \in R
        <3>1. Chain(Q, old[p], z, u)
            BY <2>4 DEF ByBuffer
        <3>2. old[p] \in Seq(Events)
            BY <2>2
        <3>3. CASE p \notin DOMAIN events
            <4>1. added[p] = old[p] /\ w = u
                BY <3>3
            <4> HIDE DEF added, old, E
            <4> QED
                BY <2>3, <2>4, <3>1, <4>1 DEF ByBuffer, E
        <3>4. CASE p \in DOMAIN events
            <4>1. added[p] = Append(old[p], events[p]) /\ events[p] \in Events
                  /\ <<u, events[p], w>> \in Q
                BY <3>4 DEF ForParticipations
            <4> HIDE DEF added, old, E, Q
            <4>2. Chain(Q, added[p], z, w)
                BY <2>4, <3>1, <3>2, <4>1, ChainAppend
            <4> QED
                BY <2>3, <2>4, <4>2 DEF ByBuffer, E, Q
        <3> QED
            BY <3>3, <3>4
    <2> HIDE DEF added, old, R, E
    <2>5. Chain(R, [buffers EXCEPT ![l] = added], c.view, w)
        <3>1. \A z \in Versions : <<z, buffers[l], u>> \in R => <<z, added, w>> \in R
            BY <2>4 DEF old
        <3>2. Chain(R, buffers, c.view, u) /\ buffers \in Seq(E)
            BY DEF R, E
        <3> HIDE DEF c
        <3> QED
            BY <1>1, <1>3, <2>3, <3>1, <3>2, ChainReplaceLast
    <2> QED
        BY <2>1, <2>5 DEF R
<1> QED
    BY <1>2, <1>3

(***************************************************************************)
(* The tasks, and what they have not told yet.                             *)
(***************************************************************************)
\* The tasks of k that have something to process.
Busy(k) == {t \in TaskIds : k[t] # None /\ k[t].todo # <<>>}

\* They committed a command and did not send its events yet.
Telling(k) ==
    {t \in Busy(k) : k[t].stage = "answer" /\ Head(k[t].todo).kind \in PartitionCommands}

\* The kinds of the commands for each partition whose events are awaited.
Awaited(k) ==
    [x \in Partitions |->
        {Head(k[t].todo).kind : t \in {u \in Telling(k) : k[u].content[1].partition = x}}]

nothing == [x \in Partitions |-> {}]

LEMMA NoneAwaited ==
    ASSUME NEW k, Telling(k) = {}
    PROVE  Awaited(k) = nothing
BY DEF Awaited, nothing

LEMMA OneAwaited ==
    ASSUME NEW k, NEW t, Telling(k) = {t}
    PROVE  Awaited(k) = [x \in Partitions |-> IF x = k[t].content[1].partition
                                              THEN {Head(k[t].todo).kind} ELSE {}]
BY DEF Awaited

subscribed(p) == participations[p].subscribedPartitions

\* The participations whose websockets sent what is being processed.
acting == {activeSockets[tasks[t].socket] : t \in Busy(tasks)}

\* A participation that is told of new partitions it is not subscribed to.
Bystander(p) == p \notin changing("autoSubscribe") \union acting

\* The client of p never lost its connection.
Live(p) ==
    /\ p \in allParticipations
    /\ connection[participations[p].socket] = "open"
    /\ ~client[p].away

Following(p) ==
    Follows(p, subscribed(p), Bystander(p), client[p], eventBuffers, database, Awaited(tasks))

(***************************************************************************)
(* The inductive invariant.                                                *)
(***************************************************************************)
AllFollow == \A p \in Sockets : Live(p) => Following(p)

OldAreAway == \A p \in oldParticipations : client[p].away

\* Nothing was sent to a websocket that did not connect yet.
FreshClients ==
    \A p \in Sockets : p \notin created =>
        /\ client[p] = NewClient
        /\ \A i \in 1..Len(eventBuffers) : eventBuffers[i][p] = <<>>

\* A request is not part of a composite command.
RequestAlone(k) ==
    \A i \in 1..Len(k.todo) : k.todo[i].kind \in Requests => Len(k.todo) = 1

RequestsAlone == \A t \in TaskIds : tasks[t] # None => RequestAlone(tasks[t])

\* A task works for the participation of its websocket, unless that one is gone.
Actor(q, who) == q = who \/ (q = None /\ client[who].away)

ActorsRight ==
    \A t \in Busy(tasks) : tasks[t].stage # "ready" =>
        Actor(activeSockets[tasks[t].socket], tasks[t].who)

\* Messages come from websockets that connected.
SendersConnected ==
    /\ \A i \in 1..Len(queue) : connection[queue[i].socket] # "none"
    /\ \A t \in TaskIds : tasks[t] # None => connection[tasks[t].socket] # "none"

\* The answer of k is what the database d has, and the partition of an added
\* partition, or of contents, is one that its participation is subscribed to.
AnswerRight(k, d, S) ==
    LET kind == Head(k.todo).kind
        change == k.content[1]
    IN  IF kind \in Requests
        THEN \A x \in Partitions : k.content[x] # None =>
                /\ x \in S
                /\ \A r \in Repositories :
                      d[r][x] = [present |-> TRUE, version |-> k.content[x]]
        ELSE /\ kind \in PartitionCommands
             /\ change.kind = kind
             /\ kind = "AddPartition" => change.partition \in S
             /\ Repositories # {}
             /\ \A r \in Repositories :
                   d[r][change.partition] =
                       [present |-> kind # "DeletePartition", version |-> change.version]

AnswersRight ==
    \A t \in Busy(tasks) : tasks[t].stage = "answer" =>
        AnswerRight(tasks[t], database, subscribed(tasks[t].who))

StepInv ==
    /\ AllFollow
    /\ OldAreAway
    /\ FreshClients
    /\ RequestsAlone
    /\ ActorsRight
    /\ SendersConnected
    /\ AnswersRight

(***************************************************************************)
(* What stays.                                                             *)
(***************************************************************************)
LEMMA StaysFollowing ==
    ASSUME StepInv, NEW p \in Sockets, Live(p),
           client'[p] = client[p], UNCHANGED <<eventBuffers, database>>,
           Awaited(tasks') = Awaited(tasks), subscribed(p) \subseteq subscribed(p)',
           \/ eventBuffers = <<>>
           \/ Bystander(p) => Bystander(p)' /\ subscribed(p) = subscribed(p)'
    PROVE  Following(p)'
<1> DEFINE S == subscribed(p)
           T == subscribed(p)'
           a == Bystander(p)
           b == Bystander(p)'
           c == client[p]
           d == database
           awaited == Awaited(tasks)
<1>1. Follows(p, S, a, c, eventBuffers, d, awaited)
    BY DEF StepInv, AllFollow, Following
<1>2. a \in BOOLEAN /\ b \in BOOLEAN /\ S \subseteq T
    BY DEF Bystander
<1>3. Following(p)' <=> Follows(p, T, b, c, eventBuffers, d, awaited)
    BY DEF Following
<1> HIDE DEF S, T, a, b, c, d, awaited
<1>4. CASE eventBuffers = <<>>
    <2>1. c \in Viewing(c.view, FALSE) /\ Agrees(S, d, awaited, c.view)
        BY <1>1, <1>4, FollowsNow
    <2>2. Agrees(T, d, awaited, c.view)
        BY <1>2, <2>1, AgreesMore
    <2>3. Follows(p, T, b, c, <<>>, d, awaited)
        BY <2>1, <2>2, FollowsNow
    <2> QED
        BY <1>3, <1>4, <2>3
<1>5. CASE Bystander(p) => Bystander(p)' /\ subscribed(p) = subscribed(p)'
    <2>1. a => b /\ S = T
        BY <1>5 DEF a, b, S, T
    <2>2. Follows(p, T, b, c, eventBuffers, d, awaited)
        BY <1>1, <1>2, <2>1, FollowsOn
    <2> QED
        BY <1>3, <2>2
<1> QED
    BY <1>4, <1>5

\* The participations stay where they are, and who asked for changes.
Placed ==
    /\ UNCHANGED <<activeSockets, oldParticipations, connection>>
    /\ created' = created
    /\ \A p \in Sockets :
        /\ participations'[p].socket = participations[p].socket
        /\ participations'[p].partitionChangesSubscription =
               participations[p].partitionChangesSubscription

\* Nothing changes that tells what a client should be told.
Quiet ==
    /\ Placed
    /\ UNCHANGED <<eventBuffers, database>>
    /\ \A p \in Sockets :
        participations'[p].subscribedPartitions = participations[p].subscribedPartitions

LEMMA SocketsOnly == ServerInv => created \subseteq Sockets /\ allParticipations \subseteq created
BY DEF ServerInv, RegistryInv, Registered, created

LEMMA PlacedChanging ==
    ASSUME ServerInv, Placed, NEW field
    PROVE  changing(field)' = changing(field)
<1>1. allParticipations' = allParticipations /\ allParticipations \subseteq Sockets
    BY SocketsOnly DEF Placed, allParticipations
<1> QED
    BY <1>1 DEF Placed, changing

LEMMA PlacedLive ==
    ASSUME Placed, NEW p \in Sockets, client'[p].away = client[p].away, Live(p)'
    PROVE  Live(p)
BY DEF Live, Placed, allParticipations

LEMMA QuietFollowing ==
    ASSUME ServerInv, StepInv, Quiet, UNCHANGED client,
           Awaited(tasks') = Awaited(tasks), acting' \subseteq acting
    PROVE  AllFollow' /\ OldAreAway' /\ FreshClients'
<1>0. Placed
    BY DEF Quiet
<1>1. ASSUME NEW p \in Sockets, Live(p)' PROVE Following(p)'
    <2>1. Live(p)
        BY <1>0, <1>1, PlacedLive
    <2>2. subscribed(p)' = subscribed(p)
        BY DEF subscribed, Quiet
    <2>3. changing("autoSubscribe")' = changing("autoSubscribe")
        BY <1>0, PlacedChanging
    <2>4. Bystander(p) => Bystander(p)'
        BY <2>3 DEF Bystander
    <2> QED
        BY <2>1, <2>2, <2>4, StaysFollowing DEF Quiet
<1>2. OldAreAway' /\ FreshClients'
    BY <1>0 DEF StepInv, OldAreAway, FreshClients, Quiet, Placed
<1> QED
    BY <1>1, <1>2 DEF AllFollow

\* The one task that is busy.
LEMMA OnlyBusy ==
    ASSUME OneAtATime, NEW t \in TaskIds, tasks[t] # None, tasks[t].todo # <<>>
    PROVE  Busy(tasks) = {t}
BY DEF OneAtATime, Busy

\* Before the answer to a command nothing is awaited.
LEMMA NotTelling ==
    ASSUME OneAtATime, NEW t \in TaskIds, tasks[t] # None, tasks[t].todo # <<>>,
           tasks[t].stage # "answer" \/ Current(t).kind \notin PartitionCommands
    PROVE  Telling(tasks) = {} /\ Awaited(tasks) = nothing
<1>1. Busy(tasks) = {t}
    BY OnlyBusy
<1>2. Telling(tasks) = {}
    BY <1>1 DEF Telling, Current
<1> QED
    BY <1>2, NoneAwaited

\* The current message is done: what that makes of the task.
LEMMA DoneIs ==
    ASSUME ServerInv, OneAtATime, NEW t \in TaskIds, tasks[t] # None, tasks[t].todo # <<>>,
           tasks' = [tasks EXCEPT ![t] = Done(t)]
    PROVE  /\ tasks'[t] # None /\ tasks'[t].socket = tasks[t].socket
           /\ tasks'[t].todo = Tail(tasks[t].todo) /\ tasks'[t].stage = "ready"
           /\ \A u \in TaskIds : u # t => tasks'[u] = tasks[u]
           /\ Busy(tasks) = {t} /\ Busy(tasks') \subseteq {t}
           /\ Telling(tasks') = {} /\ Awaited(tasks') = nothing
<1>1. TasksRight /\ tasks[t] \in Tasks
    BY BusyTask DEF ServerInv, ServerRight
<1> DEFINE k == Done(t)
           todo == Tail(tasks[t].todo)
<1>2. k = [tasks[t] EXCEPT !.todo = todo, !.stage = "ready", !.who = None,
                           !.content = <<>>]
    BY DEF Done
<1>3. k \in Tasks /\ k # None
    BY <1>1, DoneIsGood, NoTaskAssumption DEF GoodTask
<1>4. /\ tasks'[t] = k
      /\ \A u \in TaskIds : u # t => tasks'[u] = tasks[u]
    BY <1>1 DEF TasksRight
<1> HIDE DEF k, todo
<1>5. k = [socket |-> tasks[t].socket, todo |-> todo, stage |-> "ready", who |-> None,
           content |-> <<>>]
    BY <1>1, <1>2, TaskDone
<1>6. Busy(tasks) = {t}
    BY OnlyBusy
<1>7. Busy(tasks') \subseteq {t}
    BY <1>4, <1>6 DEF Busy
<1>8. k.stage = "ready" /\ k.socket = tasks[t].socket /\ k.todo = todo
    BY <1>5
<1>9. Telling(tasks') = {}
    BY <1>4, <1>7, <1>8 DEF Telling
<1> QED
    BY <1>3, <1>4, <1>6, <1>7, <1>8, <1>9, NoneAwaited DEF todo

LEMMA RestAlone ==
    ASSUME NEW s \in Seq(Items), s # <<>>,
           \A i \in 1..Len(s) : s[i].kind \in Requests => Len(s) = 1
    PROVE  \A i \in 1..Len(Tail(s)) : Tail(s)[i].kind \notin Requests
<1>1. /\ Len(s) \in Nat \ {0} /\ Len(Tail(s)) = Len(s) - 1
      /\ \A i \in 1..Len(s) - 1 : Tail(s)[i] = s[i + 1]
    BY EmptySeq, LenProperties, HeadTailProperties
<1> SUFFICES ASSUME NEW i \in 1..Len(Tail(s)) PROVE Tail(s)[i].kind \notin Requests
    OBVIOUS
<1>2. i + 1 \in 1..Len(s) /\ Len(s) # 1 /\ Tail(s)[i] = s[i + 1]
    BY <1>1
<1> QED
    BY <1>2

\* What is not about clients is kept when a message is done.
LEMMA DoneKeepsRest ==
    ASSUME ServerInv, StepInv, OneAtATime, NEW t \in TaskIds, tasks[t] # None,
           tasks[t].todo # <<>>, tasks' = [tasks EXCEPT ![t] = Done(t)],
           UNCHANGED <<connection, queue>>
    PROVE  /\ RequestsAlone' /\ ActorsRight' /\ SendersConnected' /\ AnswersRight'
           /\ UNCHANGED activeSockets => acting' \subseteq acting
<1>1. /\ \A u \in TaskIds : u # t => tasks'[u] = tasks[u]
      /\ Busy(tasks) = {t} /\ Busy(tasks') \subseteq {t}
    BY DoneIs
<1>2. /\ tasks'[t].socket = tasks[t].socket /\ tasks'[t].stage = "ready"
      /\ tasks'[t].todo = Tail(tasks[t].todo)
    BY DoneIs
<1>3. RequestsAlone'
    <2>1. tasks[t].todo \in Seq(Items)
        BY BusyTask DEF ServerInv, ServerRight
    <2>2. RequestAlone(tasks[t])
        BY DEF StepInv, RequestsAlone
    <2>3. \A i \in 1..Len(Tail(tasks[t].todo)) : Tail(tasks[t].todo)[i].kind \notin Requests
        BY <2>1, <2>2, RestAlone DEF RequestAlone
    <2>4. RequestAlone(tasks'[t])
        BY <1>2, <2>3 DEF RequestAlone
    <2> QED
        BY <1>1, <2>4 DEF StepInv, RequestsAlone
<1>4. ActorsRight' /\ AnswersRight'
    BY <1>1, <1>2 DEF ActorsRight, AnswersRight
<1>5. SendersConnected'
    BY <1>1, <1>2 DEF StepInv, SendersConnected
<1>6. ASSUME UNCHANGED activeSockets PROVE acting' \subseteq acting
    <2> SUFFICES ASSUME NEW u \in Busy(tasks') PROVE activeSockets[tasks'[u].socket] \in acting
        BY <1>6 DEF acting
    <2>1. u = t /\ t \in Busy(tasks)
        BY <1>1
    <2> QED
        BY <1>2, <2>1 DEF acting
<1> QED
    BY <1>3, <1>4, <1>5, <1>6

\* The task goes to another stage.
LEMMA WaitsIs ==
    ASSUME ServerInv, OneAtATime, NEW t \in TaskIds, tasks[t] # None, tasks[t].todo # <<>>,
           NEW stage \in Stages, NEW who \in Sockets, NEW content \in Content,
           Waits(t, stage, who, content)
    PROVE  /\ tasks'[t].socket = tasks[t].socket /\ tasks'[t].todo = tasks[t].todo
           /\ tasks'[t].stage = stage /\ tasks'[t].who = who
           /\ tasks'[t].content = content
           /\ \A u \in TaskIds : u # t => tasks'[u] = tasks[u]
           /\ Busy(tasks) = {t} /\ Busy(tasks') = {t}
           /\ stage # "answer" \/ Current(t).kind \notin PartitionCommands =>
                  Telling(tasks') = {} /\ Awaited(tasks') = nothing
<1>1. TasksRight /\ tasks[t] \in Tasks
    BY BusyTask DEF ServerInv, ServerRight
<1> DEFINE k == [tasks[t] EXCEPT !.stage = stage, !.who = who, !.content = content]
<1>2. k = [tasks[t] EXCEPT !.stage = stage, !.who = who, !.content = content]
    OBVIOUS
<1>3. tasks' = [tasks EXCEPT ![t] = k]
    BY <1>1 DEF Waits, TasksRight
<1> HIDE DEF k
<1>4. /\ tasks'[t] = k
      /\ \A u \in TaskIds : u # t => tasks'[u] = tasks[u]
    BY <1>1, <1>3 DEF TasksRight
<1>5. k = [socket |-> tasks[t].socket, todo |-> tasks[t].todo, stage |-> stage,
           who |-> who, content |-> content]
    BY <1>1, <1>2, TaskWaits
<1>6. Busy(tasks) = {t}
    BY OnlyBusy
<1>7. /\ k.socket = tasks[t].socket /\ k.todo = tasks[t].todo /\ k.stage = stage
      /\ k.who = who /\ k.content = content
    BY <1>5
<1>8. k # None
    <2>1. k \in Tasks
        BY <1>1, <1>5 DEF Tasks
    <2> QED
        BY <2>1, NoTaskAssumption
<1>9. Busy(tasks') = {t}
    BY <1>4, <1>6, <1>7, <1>8 DEF Busy
<1>10. ASSUME stage # "answer" \/ Current(t).kind \notin PartitionCommands
       PROVE  Telling(tasks') = {} /\ Awaited(tasks') = nothing
    <2>1. Telling(tasks') = {}
        BY <1>4, <1>7, <1>9, <1>10 DEF Telling, Current
    <2> QED
        BY <2>1, NoneAwaited
<1> QED
    BY <1>4, <1>6, <1>7, <1>9, <1>10

LEMMA WaitsKeepsRest ==
    ASSUME ServerInv, StepInv, OneAtATime, NEW t \in TaskIds, tasks[t] # None,
           tasks[t].todo # <<>>, NEW stage \in Stages, NEW who \in Sockets,
           NEW content \in Content, Waits(t, stage, who, content),
           UNCHANGED <<activeSockets, connection, queue, client>>,
           Actor(activeSockets[tasks[t].socket], who),
           stage = "answer" =>
               AnswerRight(tasks'[t], database', participations'[who].subscribedPartitions)
    PROVE  /\ RequestsAlone' /\ ActorsRight' /\ SendersConnected' /\ AnswersRight'
           /\ acting' \subseteq acting
<1>1. /\ tasks'[t].socket = tasks[t].socket /\ tasks'[t].todo = tasks[t].todo
      /\ tasks'[t].stage = stage /\ tasks'[t].who = who
    BY WaitsIs
<1>2. /\ \A u \in TaskIds : u # t => tasks'[u] = tasks[u]
      /\ Busy(tasks) = {t} /\ Busy(tasks') = {t}
    BY WaitsIs
<1>3. RequestsAlone'
    <2>1. RequestAlone(tasks'[t])
        BY <1>1 DEF StepInv, RequestsAlone, RequestAlone
    <2> QED
        BY <1>2, <2>1 DEF StepInv, RequestsAlone
<1>4. ActorsRight'
    BY <1>1, <1>2 DEF ActorsRight, Actor
<1>5. AnswersRight'
    BY <1>1, <1>2 DEF AnswersRight, subscribed
<1>6. SendersConnected'
    BY <1>1, <1>2 DEF StepInv, SendersConnected
<1>7. acting' \subseteq acting
    <2> SUFFICES ASSUME NEW u \in Busy(tasks') PROVE activeSockets[tasks'[u].socket] \in acting
        BY DEF acting
    <2>1. u = t /\ t \in Busy(tasks)
        BY <1>2
    <2> QED
        BY <1>1, <2>1 DEF acting
<1> QED
    BY <1>3, <1>4, <1>5, <1>6, <1>7

\* Steps that tell no client anything and change nothing that tells what a client
\* should be told.
LEMMA QuietDone ==
    ASSUME ServerInv, StepInv, OneAtATime, NEW t \in TaskIds, tasks[t] # None,
           tasks[t].todo # <<>>, tasks' = [tasks EXCEPT ![t] = Done(t)],
           tasks[t].stage # "answer" \/ Current(t).kind \notin PartitionCommands,
           Quiet, UNCHANGED <<client, queue>>
    PROVE  StepInv'
<1>1. Awaited(tasks) = nothing /\ Awaited(tasks') = nothing
    BY NotTelling, DoneIs
<1>2. UNCHANGED <<connection, queue>> /\ UNCHANGED activeSockets
    BY DEF Quiet, Placed
<1>3. /\ RequestsAlone' /\ ActorsRight' /\ SendersConnected' /\ AnswersRight'
      /\ acting' \subseteq acting
    BY <1>2, DoneKeepsRest
<1>4. AllFollow' /\ OldAreAway' /\ FreshClients'
    BY <1>1, <1>3, QuietFollowing
<1> QED
    BY <1>3, <1>4 DEF StepInv

LEMMA QuietWaits ==
    ASSUME ServerInv, StepInv, OneAtATime, NEW t \in TaskIds, tasks[t] # None,
           tasks[t].todo # <<>>, NEW stage \in Stages, NEW who \in Sockets,
           NEW content \in Content, Waits(t, stage, who, content),
           tasks[t].stage # "answer",
           stage # "answer" \/ Current(t).kind \notin PartitionCommands,
           Quiet, UNCHANGED <<client, queue>>,
           Actor(activeSockets[tasks[t].socket], who),
           stage = "answer" =>
               AnswerRight(tasks'[t], database', participations'[who].subscribedPartitions)
    PROVE  StepInv'
<1>1. Awaited(tasks) = nothing /\ Awaited(tasks') = nothing
    BY NotTelling, WaitsIs
<1>2. UNCHANGED <<activeSockets, connection, queue, client>>
    BY DEF Quiet, Placed
<1>3. /\ RequestsAlone' /\ ActorsRight' /\ SendersConnected' /\ AnswersRight'
      /\ acting' \subseteq acting
    BY <1>2, WaitsKeepsRest
<1>4. AllFollow' /\ OldAreAway' /\ FreshClients'
    BY <1>1, <1>3, QuietFollowing
<1> QED
    BY <1>3, <1>4 DEF StepInv

\* One participation becomes o, which is the same to those that tell it of changes.
LEMMA QuietObject ==
    ASSUME ServerInv, NEW p \in created, NEW o,
           participations' = [participations EXCEPT ![p] = o],
           o.socket = participations[p].socket,
           o.subscribedPartitions = participations[p].subscribedPartitions,
           o.partitionChangesSubscription = participations[p].partitionChangesSubscription,
           UNCHANGED <<activeSockets, oldParticipations, connection, eventBuffers, database>>
    PROVE  Quiet
<1>1. participations \in [Sockets -> Participation \union {NotCreated}] /\ p \in Sockets
    BY DEF ServerInv, ServerRight, ObjectsTyped, created
<1>2. \A q \in Sockets : participations'[q] = IF q = p THEN o ELSE participations[q]
    BY <1>1
<1> QED
    BY <1>2 DEF Quiet, Placed, created

LEMMA QuietObjects ==
    ASSUME UNCHANGED <<activeSockets, oldParticipations, participations, connection,
                       eventBuffers, database>>
    PROVE  Quiet
BY DEF Quiet, Placed, created

\* The participation that acts in the transaction of t.
LEMMA ActorOf ==
    ASSUME ServerInv, StepInv, NEW t \in TaskIds, tasks[t] # None, tasks[t].todo # <<>>,
           tasks[t].stage # "ready"
    PROVE  Actor(activeSockets[tasks[t].socket], tasks[t].who) /\ tasks[t].who \in created
<1>1. t \in Busy(tasks)
    BY DEF Busy
<1>2. GoodTask(t, tasks[t], created)
    BY DEF ServerInv, ServerRight, TasksRight
<1> QED
    BY <1>1, <1>2 DEF StepInv, ActorsRight, GoodTask
--------------------------------------------------------------------------------
LEMMA NoParticipationFollows ==
    ASSUME ServerInv, StepInv, OneAtATime, NEW t \in TaskIds, NoParticipation(t)
    PROVE  StepInv'
<1>1. Quiet
    BY QuietObjects DEF NoParticipation, participationVars
<1> QED
    BY <1>1, QuietDone DEF NoParticipation, IsAt

LEMMA SignOffFollows ==
    ASSUME ServerInv, StepInv, OneAtATime, NEW t \in TaskIds, SignOff(t)
    PROVE  StepInv'
<1> DEFINE p == Who(t)
           o == [participations[p] EXCEPT !.participationStatus = "connected"]
<1>1. /\ tasks[t] # None /\ tasks[t].todo # <<>> /\ Current(t).kind = "SignOff"
      /\ p \in created /\ p \in Sockets /\ participations[p] \in Participation
    BY AcceptedFrom DEF SignOff
<1>2. UNCHANGED <<activeSockets, oldParticipations, connection, eventBuffers, database>>
    BY DEF SignOff
<1>3. Quiet
    <2>1. CASE participations' = [participations EXCEPT ![p] = o]
        <3>1. /\ o.socket = participations[p].socket
              /\ o.subscribedPartitions = participations[p].subscribedPartitions
              /\ o.partitionChangesSubscription =
                     participations[p].partitionChangesSubscription
            BY <1>1 DEF Participation
        <3> HIDE DEF o, p
        <3> QED
            BY <1>1, <1>2, <2>1, <3>1, QuietObject
    <2>2. CASE UNCHANGED participations
        BY <1>2, <2>2, QuietObjects
    <2> QED
        BY <2>1, <2>2 DEF SignOff
<1>4. Current(t).kind \notin PartitionCommands
    BY <1>1 DEF PartitionCommands
<1> QED
    BY <1>1, <1>3, <1>4, QuietDone DEF SignOff

LEMMA SplitFollows ==
    ASSUME ServerInv, StepInv, OneAtATime, NEW t \in TaskIds, Split(t)
    PROVE  StepInv'
<1>1. Quiet
    BY QuietObjects DEF Split, participationVars
<1> QED
    BY <1>1, QuietDone DEF Split, Accepted, IsAt

LEMMA SignOnBeginsFollows ==
    ASSUME ServerInv, StepInv, OneAtATime, NEW t \in TaskIds, SignOnBegins(t)
    PROVE  StepInv'
<1> DEFINE p == Who(t)
           o == [participations[p] EXCEPT !.participationStatus = "signedOn"]
<1>1. /\ tasks[t] # None /\ tasks[t].todo # <<>> /\ Current(t).kind = "SignOn"
      /\ p \in created /\ p \in Sockets /\ participations[p] \in Participation
    BY AcceptedFrom DEF SignOnBegins
<1>2. /\ UNCHANGED <<activeSockets, oldParticipations, connection, eventBuffers, database>>
      /\ UNCHANGED <<client, queue>>
      /\ Waits(t, "transaction", p, <<>>)
    BY DEF SignOnBegins
<1>3. Quiet
    <2>1. participations' = [participations EXCEPT ![p] = o]
        BY DEF SignOnBegins
    <2>2. /\ o.socket = participations[p].socket
          /\ o.subscribedPartitions = participations[p].subscribedPartitions
          /\ o.partitionChangesSubscription =
                 participations[p].partitionChangesSubscription
        BY <1>1 DEF Participation
    <2> HIDE DEF o, p
    <2> QED
        BY <1>1, <1>2, <2>1, <2>2, QuietObject
<1>4. tasks[t].stage # "answer" /\ "transaction" \in Stages
    BY DEF SignOnBegins, Accepted, IsAt, Stages
<1>5. Actor(activeSockets[tasks[t].socket], p)
    BY DEF Actor, Who, getParticipation
<1> HIDE DEF p
<1> QED
    BY <1>1, <1>2, <1>3, <1>4, <1>5, EmptyIsContent, QuietWaits

LEMMA TransactionBeginsFollows ==
    ASSUME ServerInv, StepInv, OneAtATime, NEW t \in TaskIds, TransactionBegins(t)
    PROVE  StepInv'
<1> DEFINE p == Who(t)
<1>1. tasks[t] # None /\ tasks[t].todo # <<>> /\ p \in created /\ p \in Sockets
    BY AcceptedFrom DEF TransactionBegins
<1>2. /\ UNCHANGED <<client, queue>>
      /\ Waits(t, "transaction", p, <<>>)
    BY DEF TransactionBegins
<1>3. Quiet
    BY QuietObjects DEF TransactionBegins, participationVars
<1>4. tasks[t].stage # "answer" /\ "transaction" \in Stages
    BY DEF TransactionBegins, Accepted, IsAt, Stages
<1>5. Actor(activeSockets[tasks[t].socket], p)
    BY DEF Actor, Who, getParticipation
<1> HIDE DEF p
<1> QED
    BY <1>1, <1>2, <1>3, <1>4, <1>5, EmptyIsContent, QuietWaits

LEMMA TransactionFailsFollows ==
    ASSUME ServerInv, StepInv, OneAtATime, NEW t \in TaskIds, TransactionFails(t)
    PROVE  StepInv'
<1> DEFINE p == tasks[t].who
<1>1. tasks[t] # None /\ tasks[t].todo # <<>> /\ tasks[t].stage = "transaction"
    BY DEF TransactionFails, IsAt
<1>2. /\ UNCHANGED <<client, queue>>
      /\ Waits(t, "failed", p, <<>>)
    BY DEF TransactionFails, Aborts
<1>3. Quiet
    BY QuietObjects DEF TransactionFails, participationVars
<1>4. Actor(activeSockets[tasks[t].socket], p) /\ p \in created /\ p \in Sockets
    BY <1>1, ActorOf, SocketsOnly
<1>5. "failed" \in Stages
    BY DEF Stages
<1> HIDE DEF p
<1> QED
    BY <1>1, <1>2, <1>3, <1>4, <1>5, EmptyIsContent, QuietWaits

LEMMA DoneBystander ==
    ASSUME ServerInv, StepInv, OneAtATime, NEW t \in TaskIds, tasks[t] # None,
           tasks[t].todo # <<>>, tasks' = [tasks EXCEPT ![t] = Done(t)],
           Placed, UNCHANGED queue, NEW p, Bystander(p)
    PROVE  Bystander(p)'
<1>1. changing("autoSubscribe")' = changing("autoSubscribe")
    BY PlacedChanging
<1>2. UNCHANGED <<connection, queue>> /\ UNCHANGED activeSockets
    BY DEF Placed
<1>3. acting' \subseteq acting
    BY <1>2, DoneKeepsRest
<1> QED
    BY <1>1, <1>3 DEF Bystander

\* sendDelta leaves the participations where they are.
LEMMA SendPlaced ==
    ASSUME ObjectsTyped, NEW buffers, NEW objects, Resubscribed(objects),
           \A p \in Sockets : objects[p].partitionChangesSubscription =
                                  participations[p].partitionChangesSubscription,
           NEW events, NEW socketOf,
           SendWith(buffers, objects, events, socketOf),
           UNCHANGED <<activeSockets, oldParticipations, connection>>
    PROVE  /\ Placed
           /\ \A p \in Sockets :
                 participations'[p].subscribedPartitions = objects[p].subscribedPartitions
<1> DEFINE n == [p \in Sockets |-> IF p \in DOMAIN events THEN events[p].size ELSE 0]
<1>1. ASSUME NEW p \in Sockets
      PROVE  /\ participations'[p].socket = objects[p].socket
             /\ participations'[p].subscribedPartitions = objects[p].subscribedPartitions
             /\ participations'[p].partitionChangesSubscription =
                    objects[p].partitionChangesSubscription
    <2>1. participations' = objects \/ participations' = Numbered(objects, n)
        BY DEF SendWith
    <2>2. CASE participations' = objects
        BY <2>2
    <2>3. CASE participations' = Numbered(objects, n)
        <3> HIDE DEF n
        <3>1. objects[p] \in Participation \union {NotCreated}
            BY DEF Resubscribed
        <3>2. participations'[p] = [objects[p] EXCEPT !.eventSequenceNumber = @ + n[p]]
            BY <2>3 DEF Numbered
        <3> QED
            BY <3>1, <3>2 DEF Participation, NotCreated
    <2> QED
        BY <2>1, <2>2, <2>3
<1>2. \A p \in Sockets : objects[p].socket = participations[p].socket
    BY DEF Resubscribed
<1>3. created' = created
    BY <1>1, <1>2 DEF created
<1> QED
    BY <1>1, <1>2, <1>3 DEF Placed

\* A step that ends what a task processes with events, to each client that follows
\* such events as lead it to the database.
LEMMA SendFollows ==
    ASSUME ServerInv, StepInv, OneAtATime, NEW t \in TaskIds, tasks[t] # None,
           tasks[t].todo # <<>>, tasks' = [tasks EXCEPT ![t] = Done(t)],
           UNCHANGED <<activeSockets, oldParticipations, connection, queue, database>>,
           NEW buffers \in Seq([Sockets -> Seq(Events)]),
           \A p \in Sockets : p \notin created =>
               \A i \in 1..Len(buffers) : buffers[i][p] = <<>>,
           NEW objects, Resubscribed(objects),
           \A p \in Sockets : objects[p].partitionChangesSubscription =
                                  participations[p].partitionChangesSubscription,
           NEW events, ForParticipations(events), NEW socketOf,
           SendWith(buffers, objects, events, socketOf),
           \A p \in Sockets : Live(p) =>
               \E w \in Versions :
                   LET S == objects[p].subscribedPartitions IN
                   /\ Leads(p, S, Bystander(p)', buffers, events, socketOf, w)
                   /\ Agrees(S, database, nothing, w)
    PROVE  StepInv'
<1>1. ObjectsTyped /\ ClientsTyped
    BY DEF ServerInv, ServerRight
<1>2. /\ Placed
      /\ \A p \in Sockets :
            participations'[p].subscribedPartitions = objects[p].subscribedPartitions
    BY <1>1, SendPlaced
<1>3. /\ RequestsAlone' /\ ActorsRight' /\ SendersConnected' /\ AnswersRight'
    BY DoneKeepsRest
<1>4. Awaited(tasks') = nothing
    BY DoneIs
<1>5. /\ \A p \in Sockets : client'[p].away = client[p].away
      /\ \A p \in Sockets : p \notin created =>
            /\ client'[p] = client[p]
            /\ \A i \in 1..Len(eventBuffers') : eventBuffers'[i][p] = <<>>
    BY <1>1, SendKeepsAway
<1>6. OldAreAway'
    BY <1>5, SocketsOnly DEF StepInv, OldAreAway, ServerInv, RegistryInv, Registered
<1>7. FreshClients'
    BY <1>2, <1>5 DEF StepInv, FreshClients, Placed
<1>8. ASSUME NEW p \in Sockets, Live(p)' PROVE Following(p)'
    <2> DEFINE S == objects[p].subscribedPartitions
               apart == Bystander(p)'
    <2>1. Live(p)
        BY <1>2, <1>5, <1>8, PlacedLive
    <2>2. PICK w \in Versions : /\ Leads(p, S, apart, buffers, events, socketOf, w)
                                /\ Agrees(S, database, nothing, w)
        BY <2>1
    <2>3. client[p] \in Viewing(client[p].view, FALSE)
        BY <2>1 DEF StepInv, AllFollow, Following, Follows
    <2>4. Following(p)' <=>
              Follows(p, S, apart, client'[p], eventBuffers', database, nothing)
        BY <1>2, <1>4 DEF Following, subscribed
    <2>5. S = participations'[p].subscribedPartitions
        BY <1>2
    <2> HIDE DEF S, apart
    <2>6. /\ client'[p] \in Viewing(client'[p].view, FALSE)
          /\ Chain(ByBuffer(S, apart, p), eventBuffers', client'[p].view, w)
        BY <1>1, <2>2, <2>3, <2>5, SendLeads
    <2> QED
        BY <2>2, <2>4, <2>6 DEF Follows
<1> QED
    BY <1>3, <1>6, <1>7, <1>8 DEF StepInv, AllFollow

LEMMA ParticipationsSend ==
    ASSUME ServerInv, StepInv
    PROVE  /\ Resubscribed(participations)
           /\ eventBuffers \in Seq([Sockets -> Seq(Events)])
           /\ \A p \in Sockets : p \notin created =>
                 \A i \in 1..Len(eventBuffers) : eventBuffers[i][p] = <<>>
BY DEF ServerInv, ServerRight, ObjectsTyped, Resubscribed, BuffersRight, BuffersTyped,
       StepInv, FreshClients

\* An error event tells a client nothing.
LEMMA SendErrorFollows ==
    ASSUME ServerInv, StepInv, OneAtATime, NEW t \in TaskIds, tasks[t] # None,
           tasks[t].todo # <<>>, tasks[t].stage # "answer",
           tasks' = [tasks EXCEPT ![t] = Done(t)], NEW p \in created, SendError(t, p),
           UNCHANGED <<activeSockets, oldParticipations, connection, queue, database>>
    PROVE  StepInv'
<1>1. CASE UNCHANGED <<participations, eventBuffers, client>>
    <2>1. Quiet
        BY <1>1, QuietObjects
    <2> QED
        BY <1>1, <2>1, QuietDone
<1>2. CASE Send([q \in {p} |-> ErrorEvent], [q \in {p} |-> tasks[t].socket])
    <2> DEFINE events == [q \in {p} |-> ErrorEvent]
               socketOf == [q \in {p} |-> tasks[t].socket]
    <2>1. ForParticipations(events) /\ DOMAIN events = {p} /\ events[p] = ErrorEvent
        BY DEF ForParticipations, ErrorEvent, Events
    <2>2. SendWith(eventBuffers, participations, events, socketOf)
        BY <1>2 DEF Send
    <2> HIDE DEF events, socketOf
    <2>3. Resubscribed(participations) /\ eventBuffers \in Seq([Sockets -> Seq(Events)])
          /\ \A q \in Sockets : q \notin created =>
                \A i \in 1..Len(eventBuffers) : eventBuffers[i][q] = <<>>
        BY ParticipationsSend
    <2>4. Placed
        BY <2>2, <2>3, SendPlaced DEF ServerInv, ServerRight
    <2>5. ASSUME NEW q \in Sockets, Live(q)
          PROVE  \E w \in Versions :
                   LET S == participations[q].subscribedPartitions IN
                   /\ Leads(q, S, Bystander(q)', eventBuffers, events, socketOf, w)
                   /\ Agrees(S, database, nothing, w)
        <3> DEFINE S == participations[q].subscribedPartitions
                   a == Bystander(q)
                   b == Bystander(q)'
        <3>1. Follows(q, S, a, client[q], eventBuffers, database, Awaited(tasks))
            BY <2>5 DEF StepInv, AllFollow, Following, subscribed
        <3>2. Awaited(tasks) = nothing
            BY NotTelling
        <3>3. a \in BOOLEAN /\ b \in BOOLEAN /\ (a => b)
            BY <2>4, DoneBystander DEF Bystander
        <3> HIDE DEF S, a, b
        <3>4. Follows(q, S, b, client[q], eventBuffers, database, nothing)
            BY <3>1, <3>2, <3>3, FollowsOn
        <3>5. PICK u \in Versions : /\ Chain(ByBuffer(S, b, q), eventBuffers, client[q].view, u)
                                    /\ Agrees(S, database, nothing, u)
            BY <3>4 DEF Follows
        <3>6. <<u, ErrorEvent, u>> \in ByEvent(S, b)
            BY EventLeads
        <3>7. q \in DOMAIN events => <<u, events[q], u>> \in ByEvent(S, b)
            BY <2>1, <3>6
        <3>8. Leads(q, S, b, eventBuffers, events, socketOf, u)
            BY <3>5, <3>7 DEF Leads
        <3> QED
            BY <3>5, <3>8 DEF S, b
    <2> QED
        BY <2>1, <2>2, <2>3, <2>5, SendFollows
<1> QED
    BY <1>1, <1>2 DEF SendError

LEMMA InvalidFollows ==
    ASSUME ServerInv, StepInv, OneAtATime, NEW t \in TaskIds, Invalid(t)
    PROVE  StepInv'
<1>1. tasks[t] # None /\ tasks[t].todo # <<>> /\ tasks[t].stage = "ready" /\ Who(t) \in created
    BY WhoIsCreated DEF Invalid, IsAt
<1> QED
    BY <1>1, SendErrorFollows DEF Invalid

LEMMA NotSignedOnFollows ==
    ASSUME ServerInv, StepInv, OneAtATime, NEW t \in TaskIds, NotSignedOn(t)
    PROVE  StepInv'
<1>1. tasks[t] # None /\ tasks[t].todo # <<>> /\ tasks[t].stage = "ready" /\ Who(t) \in created
    BY WhoIsCreated DEF NotSignedOn, IsAt
<1> QED
    BY <1>1, SendErrorFollows DEF NotSignedOn

LEMMA ContinuedRefusedFollows ==
    ASSUME ServerInv, StepInv, OneAtATime, NEW t \in TaskIds, ContinuedRefused(t)
    PROVE  StepInv'
<1>1. tasks[t] # None /\ tasks[t].todo # <<>> /\ tasks[t].stage = "ready" /\ Who(t) \in created
    BY WhoIsCreated DEF ContinuedRefused, Accepted, IsAt
<1> QED
    BY <1>1, SendErrorFollows DEF ContinuedRefused

LEMMA FailedFollows ==
    ASSUME ServerInv, StepInv, OneAtATime, NEW t \in TaskIds, Failed(t)
    PROVE  StepInv'
<1>1. tasks[t] # None /\ tasks[t].todo # <<>> /\ tasks[t].stage = "failed"
      /\ tasks[t].who \in created
    BY StagedTask DEF Failed
<1> QED
    BY <1>1, SendErrorFollows DEF Failed

(***************************************************************************)
(* Transactions.                                                           *)
(***************************************************************************)
\* The server has one repository: the ids of partitions do not tell them apart.
OneRepository == \A r, s \in Repositories : r = s

LEMMA SubscribedFields ==
    ASSUME ObjectsTyped, NEW P, NEW X, NEW p \in Sockets,
           NEW o, o = Subscribed(participations, P, X)[p]
    PROVE  /\ o.socket = participations[p].socket
           /\ o.partitionChangesSubscription =
                  participations[p].partitionChangesSubscription
           /\ p \in P => o.subscribedPartitions =
                             participations[p].subscribedPartitions \union X
           /\ p \notin P => o = participations[p]
<1>1. participations[p] \in Participation \union {NotCreated}
    BY DEF ObjectsTyped
<1>2. o = IF p \notin P THEN participations[p]
          ELSE [participations[p] EXCEPT !.subscribedPartitions = @ \union X]
    BY DEF Subscribed
<1> QED
    BY <1>1, <1>2 DEF Participation, NotCreated

\* Partitions that the acting participation is subscribed to, at most.
GrowsFor(who) ==
    /\ Placed
    /\ \A p \in Sockets :
        /\ participations[p].subscribedPartitions \subseteq
               participations'[p].subscribedPartitions
        /\ p # who => participations'[p].subscribedPartitions =
                          participations[p].subscribedPartitions

LEMMA SubscribedGrows ==
    ASSUME ServerInv, NEW who, NEW X,
           participations' = Subscribed(participations, {who}, X),
           UNCHANGED <<activeSockets, oldParticipations, connection>>
    PROVE  /\ GrowsFor(who)
           /\ who \in Sockets => participations'[who].subscribedPartitions =
                  participations[who].subscribedPartitions \union X
<1>1. ObjectsTyped
    BY DEF ServerInv, ServerRight
<1>2. ASSUME NEW p \in Sockets
      PROVE  /\ participations'[p].socket = participations[p].socket
             /\ participations'[p].partitionChangesSubscription =
                    participations[p].partitionChangesSubscription
             /\ p \in {who} => participations'[p].subscribedPartitions =
                                   participations[p].subscribedPartitions \union X
             /\ p \notin {who} => participations'[p].subscribedPartitions =
                                      participations[p].subscribedPartitions
    <2> DEFINE o == participations'[p]
    <2>1. o = Subscribed(participations, {who}, X)[p]
        OBVIOUS
    <2> HIDE DEF o
    <2>2. /\ o.socket = participations[p].socket
          /\ o.partitionChangesSubscription =
                 participations[p].partitionChangesSubscription
          /\ p \in {who} => o.subscribedPartitions =
                                participations[p].subscribedPartitions \union X
          /\ p \notin {who} => o = participations[p]
        BY <1>1, <2>1, SubscribedFields
    <2> QED
        BY <2>2 DEF o
<1>3. created' = created
    BY <1>2 DEF created
<1> QED
    BY <1>2, <1>3 DEF GrowsFor, Placed

LEMMA StaysGrows ==
    ASSUME UNCHANGED <<activeSockets, oldParticipations, participations, connection>>, NEW who
    PROVE  GrowsFor(who)
BY DEF GrowsFor, Placed, created

\* Who acts understands nothing that the others do not.
LEMMA ActorIsNoBystander ==
    ASSUME StepInv, NEW t \in TaskIds, tasks[t] # None, tasks[t].todo # <<>>,
           NEW who, Live(who), Actor(activeSockets[tasks[t].socket], who)
    PROVE  ~Bystander(who)
BY DEF Live, Actor, Bystander, acting, Busy

\* A transaction: the database may change as the awaited events tell.
LEMMA TransactionFollows ==
    ASSUME ServerInv, StepInv, OneAtATime, NEW t \in TaskIds, tasks[t] # None,
           tasks[t].todo # <<>>, tasks[t].stage = "transaction",
           NEW stage \in Stages, NEW content \in Content,
           Waits(t, stage, tasks[t].who, content), GrowsFor(tasks[t].who),
           UNCHANGED <<queue, eventBuffers, client>>,
           \A S, w : Agrees(S, database, nothing, w) =>
                         Agrees(S, database', Awaited(tasks'), w),
           stage = "answer" =>
               AnswerRight(tasks'[t], database',
                           participations'[tasks[t].who].subscribedPartitions)
    PROVE  StepInv'
<1> DEFINE who == tasks[t].who
<1>1. Actor(activeSockets[tasks[t].socket], who) /\ who \in created /\ who \in Sockets
    BY ActorOf, SocketsOnly
<1>2. Placed /\ UNCHANGED <<activeSockets, oldParticipations, connection>>
    BY DEF GrowsFor, Placed
<1>3. /\ RequestsAlone' /\ ActorsRight' /\ SendersConnected' /\ AnswersRight'
      /\ acting' \subseteq acting
    BY <1>1, <1>2, WaitsKeepsRest
<1>4. Awaited(tasks) = nothing
    BY NotTelling
<1>5. ASSUME NEW p \in Sockets, Live(p)' PROVE Following(p)'
    <2> DEFINE S == subscribed(p)
               T == subscribed(p)'
               a == Bystander(p)
               b == Bystander(p)'
               c == client[p]
               d == database'
               awaited == Awaited(tasks')
    <2>1. Live(p)
        BY <1>2, <1>5, PlacedLive
    <2>2. Follows(p, S, a, c, eventBuffers, database, nothing)
        BY <1>4, <2>1 DEF StepInv, AllFollow, Following
    <2>3. S \subseteq T /\ (p # who => S = T)
        BY DEF GrowsFor, subscribed
    <2>4. p = who => ~a
        BY <1>1, <2>1, ActorIsNoBystander
    <2>5. changing("autoSubscribe")' = changing("autoSubscribe")
        BY <1>2, PlacedChanging
    <2>6. a \in BOOLEAN /\ b \in BOOLEAN /\ (a => b)
        BY <1>3, <2>5 DEF Bystander
    <2>7. Following(p)' <=> Follows(p, T, b, c, eventBuffers, d, awaited)
        BY DEF Following
    <2> HIDE DEF S, T, a, b, c, d, awaited, who
    <2>8. Follows(p, T, b, c, eventBuffers, database, nothing)
        BY <2>2, <2>3, <2>4, <2>6, FollowsOn
    <2>9. PICK w \in Versions : /\ Chain(ByBuffer(T, b, p), eventBuffers, c.view, w)
                                /\ Agrees(T, database, nothing, w)
        BY <2>8 DEF Follows
    <2>10. Agrees(T, d, awaited, w)
        BY <2>9 DEF d, awaited
    <2> QED
        BY <2>7, <2>8, <2>9, <2>10 DEF Follows
<1>6. OldAreAway' /\ FreshClients'
    BY <1>2 DEF StepInv, OldAreAway, FreshClients, Placed
<1> QED
    BY <1>3, <1>5, <1>6 DEF StepInv, AllFollow

\* A transaction that tells nobody of a change, and what it answers.
LEMMA RequestFollows ==
    ASSUME ServerInv, StepInv, OneAtATime, NEW t \in TaskIds, tasks[t] # None,
           tasks[t].todo # <<>>, tasks[t].stage = "transaction",
           Current(t).kind \in Requests, NEW contents \in Versions,
           Commits(t, contents) \/ Aborts(t), GrowsFor(tasks[t].who),
           UNCHANGED <<queue, eventBuffers, client, database>>,
           \A x \in Partitions : contents[x] # None =>
               /\ x \in participations'[tasks[t].who].subscribedPartitions
               /\ \A r \in Repositories :
                     database[r][x] = [present |-> TRUE, version |-> contents[x]]
    PROVE  StepInv'
<1> DEFINE who == tasks[t].who
<1>1. who \in Sockets
    BY ActorOf, SocketsOnly
<1>2. ASSUME NEW stage \in {"answer", "failed"}, NEW content \in Content,
             Waits(t, stage, who, content), stage = "answer" => content = contents
      PROVE  StepInv'
    <2>1. /\ Current(t).kind \notin PartitionCommands /\ stage \in Stages
          /\ tasks'[t].todo = tasks[t].todo /\ tasks'[t].content = content
        BY <1>1, <1>2, WaitsIs DEF Requests, PartitionCommands, Stages
    <2>2. Awaited(tasks') = nothing
        BY <1>1, <1>2, <2>1, WaitsIs
    <2>3. stage = "answer" =>
              AnswerRight(tasks'[t], database', participations'[who].subscribedPartitions)
        BY <1>2, <2>1 DEF AnswerRight, Current
    <2>4. \A S, w : Agrees(S, database, nothing, w) =>
                        Agrees(S, database', Awaited(tasks'), w)
        BY <2>2
    <2> QED
        BY <1>2, <2>1, <2>3, <2>4, TransactionFollows
<1>3. contents \in Content
    BY DEF Content
<1>4. CASE Commits(t, contents)
    <2>1. Waits(t, "answer", who, contents)
        BY <1>4 DEF Commits
    <2> QED
        BY <1>2, <1>3, <2>1
<1>5. CASE Aborts(t)
    <2>1. Waits(t, "failed", who, <<>>)
        BY <1>5 DEF Aborts
    <2> QED
        BY <1>2, <2>1, EmptyIsContent
<1> QED
    BY <1>4, <1>5

LEMMA QuietGrows ==
    ASSUME Quiet, NEW who
    PROVE  GrowsFor(who)
BY DEF Quiet, GrowsFor

\* The contents of partitions are what the database has.
LEMMA ContentsRight ==
    ASSUME ServerInv, OneRepository, NEW r \in Repositories, NEW X,
           NEW x \in Partitions, NEW contents, contents = Contents(r, X),
           contents[x] # None
    PROVE  /\ x \in X /\ x \in Present(r)
           /\ \A s \in Repositories :
                 database[s][x] = [present |-> TRUE, version |-> contents[x]]
<1>1. x \in X \intersect Present(r) /\ contents[x] = database[r][x].version
    BY DEF Contents
<1>2. database[r][x].present
    BY <1>1 DEF Present
<1>3. database[r][x] \in [present : BOOLEAN, version : Nat]
    BY DEF ServerInv, ServerRight, DatabaseTyped
<1>4. database[r][x] = [present |-> TRUE, version |-> contents[x]]
    BY <1>1, <1>2, <1>3
<1> QED
    BY <1>1, <1>4 DEF OneRepository

LEMMA SignOnFollows ==
    ASSUME ServerInv, StepInv, OneAtATime, NEW t \in TaskIds, SignOn(t)
    PROVE  StepInv'
<1> DEFINE p == tasks[t].who
           contents == Contents(Current(t).repository, {})
<1>1. /\ tasks[t] # None /\ tasks[t].todo # <<>> /\ p \in created /\ p \in Sockets
      /\ participations[p] \in Participation /\ Current(t).kind = "SignOn"
      /\ tasks[t].stage = "transaction"
    BY StagedTask DEF SignOn, InTransaction
<1>2. Current(t).repository \in Repositories
    BY <1>1, CurrentIsMessage, MessagesAssumption
<1>3. PICK r : startParticipation(p, r)
    BY DEF SignOn
<1> DEFINE o == [participations[p] EXCEPT !.participationId = nextIdNumber,
                                          !.participationStatus = "signedOn",
                                          !.repositoryData = r]
<1>4. UNCHANGED <<connection, queue, eventBuffers, client, database>>
    BY DEF SignOn
<1>5. GrowsFor(p)
    <2>1. participations' = [participations EXCEPT ![p] = o]
        <3>1. participations \in [Sockets -> Participation \union {NotCreated}]
            BY DEF ServerInv, ServerRight, ObjectsTyped
        <3> QED
            BY <1>1, <1>3, <3>1 DEF startParticipation
    <2>2. /\ o.socket = participations[p].socket
          /\ o.subscribedPartitions = participations[p].subscribedPartitions
          /\ o.partitionChangesSubscription =
                 participations[p].partitionChangesSubscription
        BY <1>1 DEF Participation
    <2>3. UNCHANGED <<activeSockets, oldParticipations>>
        BY <1>3 DEF startParticipation
    <2> HIDE DEF o, p
    <2>4. Quiet
        BY <1>1, <1>4, <2>1, <2>2, <2>3, QuietObject
    <2> QED
        BY <2>4, QuietGrows
<1>6. contents \in Versions
    BY <1>2, ContentsTyped
<1>7. \A x \in Partitions : contents[x] = None
    BY DEF Contents
<1>8. Commits(t, contents) \/ Aborts(t)
    BY DEF SignOn
<1>9. Current(t).kind \in Requests
    BY <1>1 DEF Requests
<1> HIDE DEF contents
<1> QED
    BY <1>1, <1>4, <1>5, <1>6, <1>7, <1>8, <1>9, RequestFollows

LEMMA SubscribeFollows ==
    ASSUME ServerInv, StepInv, OneAtATime, OneRepository, NEW t \in TaskIds, Subscribe(t)
    PROVE  StepInv'
<1> DEFINE p == tasks[t].who
           x == Current(t).partition
           contents == Contents(repository(t), {x})
<1>1. /\ tasks[t] # None /\ tasks[t].todo # <<>> /\ p \in created /\ p \in Sockets
      /\ participations[p] \in Participation /\ Current(t).kind = "Subscribe"
      /\ tasks[t].stage = "transaction"
    BY StagedTask DEF Subscribe, InTransaction
<1>2. repository(t) \in Repositories
    BY <1>1 DEF Subscribe, repository, Participation
<1>3. contents \in Versions
    BY <1>2, ContentsTyped
<1>4. Commits(t, contents) \/ Aborts(t)
    BY DEF Subscribe
<1>5. UNCHANGED <<queue, eventBuffers, client, database>>
    BY DEF Subscribe
<1>6. UNCHANGED <<activeSockets, oldParticipations, connection>>
    BY DEF Subscribe
<1>7. GrowsFor(p) /\ x \in participations'[p].subscribedPartitions
    <2>1. CASE x \in participations[p].subscribedPartitions
        <3>1. UNCHANGED participations
            BY <2>1 DEF Subscribe
        <3> QED
            BY <1>6, <2>1, <3>1, StaysGrows
    <2>2. CASE x \notin participations[p].subscribedPartitions
        <3> DEFINE X == {x}
        <3>1. participations' = Subscribed(participations, {p}, X) /\ x \in X
            BY <2>2 DEF Subscribe
        <3> HIDE DEF p, x, X
        <3>2. /\ GrowsFor(p)
              /\ participations'[p].subscribedPartitions =
                     participations[p].subscribedPartitions \union X
            BY <1>1, <1>6, <3>1, SubscribedGrows
        <3> QED
            BY <3>1, <3>2
    <2> QED
        BY <2>1, <2>2
<1>8. \A y \in Partitions : contents[y] # None =>
          /\ y \in participations'[p].subscribedPartitions
          /\ \A r \in Repositories :
                database[r][y] = [present |-> TRUE, version |-> contents[y]]
    BY <1>2, <1>7, ContentsRight
<1>9. Current(t).kind \in Requests
    BY <1>1 DEF Requests
<1> HIDE DEF contents
<1> QED
    BY <1>1, <1>3, <1>4, <1>5, <1>7, <1>8, <1>9, RequestFollows

LEMMA ListAndSubscribeFollows ==
    ASSUME ServerInv, StepInv, OneAtATime, OneRepository, NEW t \in TaskIds,
           ListAndSubscribe(t)
    PROVE  StepInv'
<1> DEFINE p == tasks[t].who
           X == Present(repository(t))
           contents == Contents(repository(t), Partitions)
<1>1. /\ tasks[t] # None /\ tasks[t].todo # <<>> /\ p \in created /\ p \in Sockets
      /\ participations[p] \in Participation /\ Current(t).kind = "ListAndSubscribe"
      /\ tasks[t].stage = "transaction"
    BY StagedTask DEF ListAndSubscribe, InTransaction
<1>2. repository(t) \in Repositories
    BY <1>1 DEF ListAndSubscribe, repository, Participation
<1>3. contents \in Versions
    BY <1>2, ContentsTyped
<1>4. Commits(t, contents) \/ Aborts(t)
    BY DEF ListAndSubscribe
<1>5. UNCHANGED <<queue, eventBuffers, client, database>>
    BY DEF ListAndSubscribe
<1>6. UNCHANGED <<activeSockets, oldParticipations, connection>>
    BY DEF ListAndSubscribe
<1>7. GrowsFor(p) /\ X \subseteq participations'[p].subscribedPartitions
    <2>1. participations' = Subscribed(participations, {p}, X)
        BY DEF ListAndSubscribe
    <2> HIDE DEF p, X
    <2> QED
        BY <1>1, <1>6, <2>1, SubscribedGrows
<1>8. \A y \in Partitions : contents[y] # None =>
          /\ y \in participations'[p].subscribedPartitions
          /\ \A r \in Repositories :
                database[r][y] = [present |-> TRUE, version |-> contents[y]]
    BY <1>2, <1>7, ContentsRight
<1>9. Current(t).kind \in Requests
    BY <1>1 DEF Requests
<1> HIDE DEF contents
<1> QED
    BY <1>1, <1>3, <1>4, <1>5, <1>7, <1>8, <1>9, RequestFollows

\* A command that takes a partition to its next version: the clients that have
\* the partition have the version before it, until they are told.
LEMMA NextVersionFollows ==
    ASSUME ServerInv, StepInv, OneAtATime, OneRepository, NEW t \in TaskIds,
           InTransaction(t, Current(t).kind), Current(t).kind \in PartitionCommands,
           repository(t) # None,
           NextVersion(t, Current(t).partition, Current(t).kind # "DeletePartition"),
           Current(t).kind = "AddPartition" =>
               /\ Current(t).partition \notin Present(repository(t))
               /\ Current(t).partition \in participations'[tasks[t].who].subscribedPartitions,
           GrowsFor(tasks[t].who), UNCHANGED <<queue, eventBuffers, client>>
    PROVE  StepInv'
<1> DEFINE p == tasks[t].who
           r == repository(t)
           x == Current(t).partition
           kind == Current(t).kind
           v == database[r][x].version + 1
           present == kind # "DeletePartition"
           change == [kind |-> kind, partition |-> x, version |-> v]
           content == <<change>>
<1>1. /\ tasks[t] # None /\ tasks[t].todo # <<>> /\ kind # "End"
      /\ p \in created /\ p \in Sockets /\ participations[p] \in Participation
      /\ tasks[t].stage = "transaction"
    BY StagedTask DEF InTransaction
<1>2. x \in Partitions
    BY <1>1, CurrentIsMessage, MessagesAssumption DEF PartitionCommands
<1>3. r \in Repositories /\ \A s \in Repositories : s = r
    BY <1>1 DEF repository, Participation, OneRepository
<1>4. /\ database \in [Repositories -> [Partitions -> [present : BOOLEAN, version : Nat]]]
      /\ database[r] \in [Partitions -> [present : BOOLEAN, version : Nat]]
    BY <1>3 DEF ServerInv, ServerRight, DatabaseTyped
<1>5. v \in Nat
    BY <1>2, <1>4
<1>6. change \in Changes /\ content \in Content
    BY <1>2, <1>5 DEF Changes, Content
<1>7. Waits(t, "answer", p, content)
    BY DEF NextVersion, Commits
<1>8. /\ database'[r][x] = [present |-> present, version |-> v]
      /\ \A y \in Partitions : y # x => database'[r][y] = database[r][y]
    <2>1. database' = [database EXCEPT ![r][x] = [present |-> present, version |-> v]]
        BY DEF NextVersion
    <2> HIDE DEF v, r, x, present
    <2> QED
        BY <1>2, <1>3, <1>4, <2>1
<1>9. content[1].kind = kind /\ content[1].partition = x /\ content[1].version = v
    OBVIOUS
<1>10. "answer" \in Stages
    BY DEF Stages
<1>11. v = database[r][x].version + 1 /\ kind = Current(t).kind /\ x = Current(t).partition
    OBVIOUS
<1>12. kind = "AddPartition" => ~database[r][x].present /\ present
    BY <1>2, <1>3 DEF Present
<1>13. kind = "AddPartition" => x \in participations'[p].subscribedPartitions
    OBVIOUS
<1>14. present = (kind # "DeletePartition")
    OBVIOUS
<1> HIDE DEF v, r, x, kind, present, change, content, p
<1>15. /\ tasks'[t].todo = tasks[t].todo /\ tasks'[t].stage = "answer"
       /\ tasks'[t].content = content /\ Busy(tasks') = {t}
    BY <1>1, <1>6, <1>7, <1>10, WaitsIs
<1>16. Head(tasks'[t].todo).kind = kind
    BY <1>11, <1>15 DEF Current
<1>17. Telling(tasks') = {t}
    BY <1>11, <1>15, <1>16 DEF Telling
<1>18. Awaited(tasks') = [y \in Partitions |-> IF y = x THEN {kind} ELSE {}]
    BY <1>9, <1>15, <1>16, <1>17, OneAwaited
<1>19. ASSUME NEW S, NEW w, Agrees(S, database, nothing, w)
       PROVE  Agrees(S, database', Awaited(tasks'), w)
    <2> SUFFICES ASSUME NEW y \in Partitions, w[y] # None
                 PROVE  /\ y \in S
                        /\ "AddPartition" \notin Awaited(tasks')[y]
                        /\ \A s \in Repositories :
                              IF Awaited(tasks')[y] = {}
                              THEN database'[s][y] = [present |-> TRUE, version |-> w[y]]
                              ELSE database'[s][y].version = w[y] + 1
        BY DEF Agrees
    <2>1. y \in S /\ database[r][y] = [present |-> TRUE, version |-> w[y]]
        BY <1>3, <1>19 DEF Agrees, nothing
    <2>2. CASE y = x
        <3>1. Awaited(tasks')[y] = {kind} /\ {kind} # {}
            BY <1>18, <2>2
        <3>2. database[r][x].present /\ database[r][x].version = w[y]
            BY <2>1, <2>2
        <3>3. kind # "AddPartition"
            BY <1>12, <3>2
        <3>4. database'[r][y].version = w[y] + 1
            BY <1>8, <1>11, <2>2, <3>2
        <3> QED
            BY <1>3, <2>1, <3>1, <3>3, <3>4
    <2>3. CASE y # x
        BY <1>3, <1>8, <1>18, <2>1, <2>3
    <2> QED
        BY <2>2, <2>3
<1>20. AnswerRight(tasks'[t], database', participations'[p].subscribedPartitions)
    <2>1. kind \in PartitionCommands /\ kind \notin Requests
        BY <1>11 DEF PartitionCommands, Requests
    <2>2. \A s \in Repositories :
              database'[s][x] = [present |-> kind # "DeletePartition", version |-> v]
        BY <1>3, <1>8, <1>14
    <2> QED
        BY <1>3, <1>9, <1>13, <1>15, <1>16, <2>1, <2>2 DEF AnswerRight
<1> QED
    BY <1>1, <1>6, <1>7, <1>10, <1>19, <1>20, TransactionFollows DEF p

LEMMA ChangeFollows ==
    ASSUME ServerInv, StepInv, OneAtATime, OneRepository, NEW t \in TaskIds, Change(t)
    PROVE  StepInv'
<1>1. GrowsFor(tasks[t].who)
    BY StaysGrows DEF Change, participationVars
<1>2. repository(t) # None
    BY DEF Change, Present
<1>3. InTransaction(t, Current(t).kind) /\ Current(t).kind = "Change"
    BY DEF Change, InTransaction
<1>4. Current(t).kind \in PartitionCommands /\ (Current(t).kind # "DeletePartition") = TRUE
    BY <1>3 DEF PartitionCommands
<1>5. NextVersion(t, Current(t).partition, Current(t).kind # "DeletePartition")
    BY <1>4 DEF Change
<1> QED
    BY <1>1, <1>2, <1>3, <1>4, <1>5, NextVersionFollows DEF Change

LEMMA DeletePartitionFollows ==
    ASSUME ServerInv, StepInv, OneAtATime, OneRepository, NEW t \in TaskIds,
           DeletePartition(t)
    PROVE  StepInv'
<1>1. GrowsFor(tasks[t].who)
    BY StaysGrows DEF DeletePartition, participationVars
<1>2. repository(t) # None
    BY DEF DeletePartition, Present
<1>3. InTransaction(t, Current(t).kind) /\ Current(t).kind = "DeletePartition"
    BY DEF DeletePartition, InTransaction
<1>4. Current(t).kind \in PartitionCommands /\ (Current(t).kind # "DeletePartition") = FALSE
    BY <1>3 DEF PartitionCommands
<1>5. NextVersion(t, Current(t).partition, Current(t).kind # "DeletePartition")
    BY <1>4 DEF DeletePartition
<1> QED
    BY <1>1, <1>2, <1>3, <1>4, <1>5, NextVersionFollows DEF DeletePartition

LEMMA AddPartitionFollows ==
    ASSUME ServerInv, StepInv, OneAtATime, OneRepository, NEW t \in TaskIds, AddPartition(t)
    PROVE  StepInv'
<1> DEFINE p == tasks[t].who
           x == Current(t).partition
<1>1. /\ tasks[t] # None /\ tasks[t].todo # <<>> /\ p \in created /\ p \in Sockets
      /\ tasks[t].stage = "transaction"
    BY StagedTask DEF AddPartition, InTransaction
<1>2. GrowsFor(p) /\ x \in participations'[p].subscribedPartitions
    <2> DEFINE X == {x}
    <2>1. /\ participations' = Subscribed(participations, {p}, X) /\ x \in X
          /\ UNCHANGED <<activeSockets, oldParticipations, connection>>
        BY DEF AddPartition
    <2> HIDE DEF p, x, X
    <2>2. /\ GrowsFor(p)
          /\ participations'[p].subscribedPartitions =
                 participations[p].subscribedPartitions \union X
        BY <1>1, <2>1, SubscribedGrows
    <2> QED
        BY <2>1, <2>2
<1>3. UNCHANGED <<queue, eventBuffers, client>>
    BY DEF AddPartition
<1>4. CASE NextVersion(t, x, TRUE)
    <2>1. /\ InTransaction(t, Current(t).kind) /\ Current(t).kind = "AddPartition"
          /\ repository(t) # None /\ x \notin Present(repository(t))
        BY DEF AddPartition, InTransaction
    <2>2. Current(t).kind \in PartitionCommands /\ (Current(t).kind # "DeletePartition") = TRUE
        BY <2>1 DEF PartitionCommands
    <2>3. NextVersion(t, Current(t).partition, Current(t).kind # "DeletePartition")
        BY <1>4, <2>2
    <2> QED
        BY <1>2, <1>3, <2>1, <2>2, <2>3, NextVersionFollows
<1>5. CASE Aborts(t) /\ UNCHANGED database
    <2>1. Waits(t, "failed", p, <<>>) /\ "failed" \in Stages
        BY <1>5 DEF Aborts, Stages
    <2>2. Awaited(tasks') = nothing
        BY <1>1, <2>1, WaitsIs, EmptyIsContent
    <2>3. \A S, w : Agrees(S, database, nothing, w) => Agrees(S, database', Awaited(tasks'), w)
        BY <1>5, <2>2
    <2> QED
        BY <1>1, <1>2, <1>3, <2>1, <2>3, EmptyIsContent, TransactionFollows
<1> QED
    BY <1>4, <1>5 DEF AddPartition

(***************************************************************************)
(* Requests.                                                               *)
(***************************************************************************)
\* While a request is processed there is no composite command, and so no buffer.
LEMMA RequestNoBuffers ==
    ASSUME ServerInv, StepInv, NEW t \in TaskIds, tasks[t] # None, tasks[t].todo # <<>>,
           Current(t).kind \in Requests
    PROVE  eventBuffers = <<>>
<1> DEFINE s == tasks[t].todo
<1>1. TasksRight /\ BuffersRight
    BY DEF ServerInv, ServerRight
<1>2. t = 0
    <2>1. t # 0 => Current(t).kind \in Splittable
        BY <1>1, BusyTask
    <2> QED
        BY <2>1 DEF Splittable, Requests
<1>3. s \in Seq(Items)
    BY <1>1, BusyTask
<1>4. Len(s) \in Nat \ {0} /\ Head(s) = s[1]
    BY <1>3, EmptySeq, LenProperties, HeadTailProperties
<1>5. Len(s) = 1
    <2>1. RequestAlone(tasks[t])
        BY DEF StepInv, RequestsAlone
    <2>2. 1 \in 1..Len(s) /\ s[1].kind \in Requests
        BY <1>4 DEF Current
    <2> QED
        BY <2>1, <2>2 DEF RequestAlone
<1>6. Ends(s) = {}
    <2>1. s[1].kind # "End"
        BY <1>4 DEF Current, Requests
    <2>2. \A n \in 0..Len(s) - 1 : Len(s) - n = 1
        BY <1>5
    <2> HIDE DEF s
    <2> QED
        BY <2>1, <2>2 DEF Ends
<1>7. Depth(tasks[0]) = 0
    BY <1>2, <1>6, FS_EmptySet DEF Depth
<1>8. Len(eventBuffers) = 0 /\ eventBuffers \in Seq([Sockets -> Seq(Events)])
    BY <1>1, <1>7 DEF BuffersRight, BuffersTyped
<1> QED
    BY <1>8, EmptySeq

\* What a client has when nothing is buffered or awaited.
LEMMA LiveNow ==
    ASSUME StepInv, eventBuffers = <<>>, Awaited(tasks) = nothing, NEW p \in Sockets, Live(p)
    PROVE  /\ client[p] \in Viewing(client[p].view, FALSE)
           /\ Agrees(subscribed(p), database, nothing, client[p].view)
<1>1. Follows(p, subscribed(p), Bystander(p), client[p], <<>>, database, nothing)
    BY DEF StepInv, AllFollow, Following
<1> QED
    BY <1>1, FollowsNow

LEMMA FollowsThen ==
    ASSUME eventBuffers' = <<>>, Awaited(tasks') = nothing, NEW p,
           client'[p] \in Viewing(client'[p].view, FALSE),
           Agrees(subscribed(p)', database', nothing, client'[p].view)
    PROVE  Following(p)'
<1> DEFINE S == subscribed(p)'
           b == Bystander(p)'
           c == client'[p]
           d == database'
<1>1. Following(p)' <=> Follows(p, S, b, c, <<>>, d, nothing)
    BY DEF Following
<1>2. c \in Viewing(c.view, FALSE) /\ Agrees(S, d, nothing, c.view)
    OBVIOUS
<1> HIDE DEF S, b, c, d
<1>3. Follows(p, S, b, c, <<>>, d, nothing)
    BY <1>2, FollowsNow
<1> QED
    BY <1>1, <1>3

\* A request that changes a participation p, or what its client has.
LEMMA RequestDoneFollows ==
    ASSUME ServerInv, StepInv, OneAtATime, NEW t \in TaskIds, tasks[t] # None,
           tasks[t].todo # <<>>, Current(t).kind \in Requests,
           tasks' = [tasks EXCEPT ![t] = Done(t)], NEW p \in created,
           UNCHANGED <<activeSockets, oldParticipations, connection, queue, eventBuffers,
                       database>>,
           \A q \in Sockets : q # p => client'[q] = client[q]
                                       /\ participations'[q] = participations[q],
           participations'[p].socket = participations[p].socket,
           client'[p].away = client[p].away,
           Live(p) => /\ client'[p] \in Viewing(client'[p].view, FALSE)
                      /\ Agrees(participations'[p].subscribedPartitions, database, nothing,
                                client'[p].view)
    PROVE  StepInv'
<1>1. eventBuffers = <<>>
    BY RequestNoBuffers
<1>2. Awaited(tasks) = nothing /\ Awaited(tasks') = nothing
    <2>1. Current(t).kind \notin PartitionCommands
        BY DEF Requests, PartitionCommands
    <2> QED
        BY <2>1, NotTelling, DoneIs
<1>3. RequestsAlone' /\ ActorsRight' /\ SendersConnected' /\ AnswersRight'
    BY DoneKeepsRest
<1>4. p \in Sockets /\ allParticipations \subseteq Sockets /\ oldParticipations \subseteq Sockets
    BY SocketsOnly DEF ServerInv, RegistryInv, Registered
<1>5. created' = created
    BY DEF created
<1>6. ASSUME NEW q \in Sockets, Live(q)' PROVE Following(q)'
    <2>1. Live(q)
        BY <1>6 DEF Live, allParticipations
    <2>2. CASE q = p
        BY <1>1, <1>2, <2>1, <2>2, FollowsThen DEF subscribed
    <2>3. CASE q # p
        <3>1. client'[q] = client[q] /\ subscribed(q)' = subscribed(q)
            BY <2>3 DEF subscribed
        <3> QED
            BY <1>1, <1>2, <2>1, <3>1, StaysFollowing
    <2> QED
        BY <2>2, <2>3
<1>7. OldAreAway'
    BY <1>4 DEF StepInv, OldAreAway
<1>8. FreshClients'
    BY <1>5 DEF StepInv, FreshClients
<1> QED
    BY <1>3, <1>6, <1>7, <1>8 DEF StepInv, AllFollow

LEMMA SubscribeChangingFollows ==
    ASSUME ServerInv, StepInv, OneAtATime, NEW t \in TaskIds, SubscribeChanging(t)
    PROVE  StepInv'
<1> DEFINE p == Who(t)
           o == [participations[p] EXCEPT
                    !.partitionChangesSubscription = Current(t).subscription]
<1>1. /\ tasks[t] # None /\ tasks[t].todo # <<>> /\ Current(t).kind = "SubscribeChanging"
      /\ p \in created /\ p \in Sockets /\ participations[p] \in Participation
    BY AcceptedFrom DEF SubscribeChanging
<1>2. /\ participations' = [participations EXCEPT ![p] = o]
      /\ participations \in [Sockets -> Participation \union {NotCreated}]
    BY DEF SubscribeChanging, ServerInv, ServerRight, ObjectsTyped
<1>3. /\ o.socket = participations[p].socket
      /\ o.subscribedPartitions = participations[p].subscribedPartitions
    BY <1>1 DEF Participation
<1>4. Current(t).kind \in Requests /\ Current(t).kind \notin PartitionCommands
    BY <1>1 DEF Requests, PartitionCommands
<1>5. eventBuffers = <<>> /\ Awaited(tasks) = nothing
    BY <1>1, <1>4, RequestNoBuffers, NotTelling
<1> HIDE DEF o, p
<1>6. /\ \A q \in Sockets : q # p => participations'[q] = participations[q]
      /\ participations'[p] = o
    BY <1>1, <1>2
<1>7. /\ UNCHANGED <<activeSockets, oldParticipations, connection, queue, eventBuffers,
                     database>>
      /\ UNCHANGED client /\ tasks' = [tasks EXCEPT ![t] = Done(t)]
    BY DEF SubscribeChanging
<1>8. Live(p) => /\ client'[p] \in Viewing(client'[p].view, FALSE)
                 /\ Agrees(participations'[p].subscribedPartitions, database, nothing,
                                client'[p].view)
    <2>1. participations'[p].subscribedPartitions = subscribed(p)
        BY <1>3, <1>6 DEF subscribed
    <2> QED
        BY <1>1, <1>5, <1>7, <2>1, LiveNow
<1> QED
    BY <1>1, <1>3, <1>4, <1>6, <1>7, <1>8, RequestDoneFollows

LEMMA UnsubscribeFollows ==
    ASSUME ServerInv, StepInv, OneAtATime, NEW t \in TaskIds, Unsubscribe(t)
    PROVE  StepInv'
<1> DEFINE p == Who(t)
           x == Current(t).partition
           o == [participations[p] EXCEPT !.subscribedPartitions = @ \ {x}]
           missing == {e \in client[p].missing : e[1] # x}
           view == [client[p].view EXCEPT ![x] = None]
           c == [client[p] EXCEPT !.view = view, !.missing = missing]
<1>1. /\ tasks[t] # None /\ tasks[t].todo # <<>> /\ Current(t).kind = "Unsubscribe"
      /\ p \in created /\ p \in Sockets /\ participations[p] \in Participation
    BY AcceptedFrom DEF Unsubscribe
<1>2. /\ participations' = [participations EXCEPT ![p] = o]
      /\ participations \in [Sockets -> Participation \union {NotCreated}]
    BY DEF Unsubscribe, ServerInv, ServerRight, ObjectsTyped
<1>3. /\ o.socket = participations[p].socket
      /\ o.subscribedPartitions = participations[p].subscribedPartitions \ {x}
    BY <1>1 DEF Participation
<1>4. Current(t).kind \in Requests /\ Current(t).kind \notin PartitionCommands
    BY <1>1 DEF Requests, PartitionCommands
<1>5. eventBuffers = <<>> /\ Awaited(tasks) = nothing
    BY <1>1, <1>4, RequestNoBuffers, NotTelling
<1>6. client[p] \in Clients /\ client \in [Sockets -> Clients]
    BY <1>1 DEF ServerInv, ServerRight, ClientsTyped
<1>7. client' = [client EXCEPT ![p] = c]
    <2>1. client' = [client EXCEPT ![p].view[x] = None,
                                   ![p].missing = {e \in @ : e[1] # x}]
        BY DEF Unsubscribe
    <2> QED
        BY <1>1, <1>6, <2>1 DEF Clients
<1>8. view \in Versions /\ missing \subseteq client[p].missing
      /\ \A y \in Partitions : view[y] # None => y # x /\ view[y] = client[p].view[y]
    BY <1>6 DEF Clients, Versions
<1> HIDE DEF view, missing
<1>9. /\ c.away = client[p].away /\ c.view = view
      /\ client[p] \in Viewing(client[p].view, FALSE) => c \in Viewing(view, FALSE)
    <2>1. /\ c.view = view /\ c.away = client[p].away /\ c.missing = missing
          /\ c.faults = client[p].faults
        BY <1>6 DEF Clients
    <2>2. missing \in SUBSET (Partitions \X Nat)
        BY <1>6, <1>8 DEF Clients
    <2>3. c \in Clients
        BY <1>6, <1>8, <2>2 DEF Clients
    <2> HIDE DEF c
    <2>4. client[p] \in Viewing(client[p].view, FALSE) => missing = {}
        BY <1>8 DEF Viewing
    <2> QED
        BY <2>1, <2>3, <2>4 DEF Viewing
<1> HIDE DEF c, o, p, x
<1>10. /\ \A q \in Sockets : q # p => client'[q] = client[q]
                                      /\ participations'[q] = participations[q]
       /\ participations'[p] = o /\ client'[p] = c
    BY <1>1, <1>2, <1>6, <1>7
<1>11. /\ UNCHANGED <<activeSockets, oldParticipations, connection, queue, eventBuffers,
                      database>>
       /\ tasks' = [tasks EXCEPT ![t] = Done(t)]
    BY DEF Unsubscribe
<1>12. Live(p) => /\ client'[p] \in Viewing(client'[p].view, FALSE)
                  /\ Agrees(participations'[p].subscribedPartitions, database, nothing,
                                client'[p].view)
    <2> SUFFICES ASSUME Live(p) PROVE c \in Viewing(view, FALSE)
                                      /\ Agrees(participations'[p].subscribedPartitions, database,
                                                 nothing, view)
        BY <1>9, <1>10
    <2>1. /\ client[p] \in Viewing(client[p].view, FALSE)
          /\ Agrees(subscribed(p), database, nothing, client[p].view)
        BY <1>1, <1>5, LiveNow
    <2>2. participations'[p].subscribedPartitions = subscribed(p) \ {x}
        BY <1>3, <1>10 DEF subscribed
    <2>3. Agrees(participations'[p].subscribedPartitions, database,
                                                 nothing, view)
        BY <1>8, <2>1, <2>2 DEF Agrees
    <2> QED
        BY <1>9, <2>1, <2>3
<1> QED
    BY <1>1, <1>3, <1>4, <1>9, <1>10, <1>11, <1>12, RequestDoneFollows

LEMMA RequestAnsweredFollows ==
    ASSUME ServerInv, StepInv, OneAtATime, OneRepository, NEW t \in TaskIds,
           RequestAnswered(t)
    PROVE  StepInv'
<1> DEFINE p == tasks[t].who
           contents == tasks[t].content
           view == [x \in Partitions |-> IF contents[x] # None THEN contents[x]
                                                               ELSE client[p].view[x]]
           missing == {e \in client[p].missing : contents[e[1]] = None}
           c == [client[p] EXCEPT !.view = view, !.missing = missing]
<1>1. /\ tasks[t] # None /\ tasks[t].todo # <<>> /\ p \in created /\ p \in Sockets
      /\ Current(t).kind \in Requests /\ tasks[t].stage = "answer"
    BY StagedTask DEF RequestAnswered
<1>2. contents \in Versions
    <2>1. GoodTask(t, tasks[t], created) /\ tasks[t].stage = "answer"
        BY StagedTask DEF RequestAnswered
    <2> QED
        BY <1>1, <2>1 DEF GoodTask, Current
<1>3. Current(t).kind \notin PartitionCommands
    BY <1>1 DEF Requests, PartitionCommands
<1>4. /\ UNCHANGED <<activeSockets, oldParticipations, participations, connection, queue,
                     eventBuffers, database>>
      /\ tasks' = [tasks EXCEPT ![t] = Done(t)]
    BY DEF RequestAnswered, participationVars
<1>5. CASE client' = client
    <2>1. Quiet
        BY <1>4, QuietObjects
    <2> QED
        BY <1>1, <1>3, <1>4, <1>5, <2>1, QuietDone
<1>6. CASE client' = [client EXCEPT
              ![p].view = [x \in Partitions |-> IF contents[x] # None THEN contents[x]
                                                                     ELSE @[x]],
              ![p].missing = {e \in @ : contents[e[1]] = None}]
    <2>1. client \in [Sockets -> Clients] /\ client[p] \in Clients
        BY <1>1 DEF ServerInv, ServerRight, ClientsTyped
    <2>2. client' = [client EXCEPT ![p] = c]
        BY <1>1, <1>6, <2>1 DEF Clients
    <2>3. view \in Versions /\ missing \subseteq client[p].missing
          /\ \A x \in Partitions : view[x] # None =>
                \/ contents[x] # None /\ view[x] = contents[x]
                \/ contents[x] = None /\ view[x] = client[p].view[x]
        BY <1>2, <2>1 DEF Versions, Clients
    <2>4. eventBuffers = <<>> /\ Awaited(tasks) = nothing
        BY <1>1, <1>3, RequestNoBuffers, NotTelling
    <2>5. \A x \in Partitions : contents[x] # None =>
              /\ x \in subscribed(p)
              /\ \A r \in Repositories :
                    database[r][x] = [present |-> TRUE, version |-> contents[x]]
        <3>1. AnswerRight(tasks[t], database, subscribed(p))
            BY <1>1 DEF StepInv, AnswersRight, Busy
        <3> QED
            BY <1>1, <3>1 DEF AnswerRight, Current
    <2> HIDE DEF view, missing
    <2>6. /\ c.away = client[p].away /\ c.view = view
          /\ client[p] \in Viewing(client[p].view, FALSE) => c \in Viewing(view, FALSE)
        <3>1. /\ c.view = view /\ c.away = client[p].away /\ c.missing = missing
              /\ c.faults = client[p].faults
            BY <2>1 DEF Clients
        <3>2. missing \in SUBSET (Partitions \X Nat)
            BY <2>1, <2>3 DEF Clients
        <3>3. c \in Clients
            BY <2>1, <2>3, <3>2 DEF Clients
        <3> HIDE DEF c
        <3>4. client[p] \in Viewing(client[p].view, FALSE) => missing = {}
            BY <2>3 DEF Viewing
        <3> QED
            BY <3>1, <3>3, <3>4 DEF Viewing
    <2> HIDE DEF c, p, contents
    <2>7. /\ \A q \in Sockets : q # p => client'[q] = client[q]
          /\ client'[p] = c
        BY <1>1, <2>1, <2>2
    <2>8. Live(p) => /\ client'[p] \in Viewing(client'[p].view, FALSE)
                     /\ Agrees(participations'[p].subscribedPartitions, database, nothing,
                                client'[p].view)
        <3> SUFFICES ASSUME Live(p) PROVE c \in Viewing(view, FALSE)
                                          /\ Agrees(participations'[p].subscribedPartitions, database,
                                                 nothing, view)
            BY <2>6, <2>7
        <3>1. /\ client[p] \in Viewing(client[p].view, FALSE)
              /\ Agrees(subscribed(p), database, nothing, client[p].view)
            BY <1>1, <2>4, LiveNow
        <3>2. participations'[p].subscribedPartitions = subscribed(p)
            BY <1>4 DEF subscribed
        <3>3. Agrees(participations'[p].subscribedPartitions, database,
                                                 nothing, view)
            BY <2>3, <2>5, <3>1, <3>2 DEF Agrees, nothing
        <3> QED
            BY <2>6, <3>1, <3>3
    <2> QED
        BY <1>1, <1>4, <2>6, <2>7, <2>8, RequestDoneFollows
<1> QED
    BY <1>5, <1>6 DEF RequestAnswered

LEMMA ReconnectFollows ==
    ASSUME ServerInv, StepInv, OneAtATime, NEW t \in TaskIds, Reconnect(t)
    PROVE  StepInv'
<1>1. /\ tasks[t] # None /\ tasks[t].todo # <<>> /\ Current(t).kind = "Reconnect"
    BY AcceptedFrom DEF Reconnect
<1>2. Current(t).kind \in Requests /\ Current(t).kind \notin PartitionCommands
    BY <1>1 DEF Requests, PartitionCommands
<1>3. /\ UNCHANGED <<connection, queue, eventBuffers, database>>
      /\ tasks' = [tasks EXCEPT ![t] = Done(t)]
    BY DEF Reconnect
<1>4. CASE UNCHANGED <<participationVars, client>>
    <2>1. Quiet
        BY <1>3, <1>4, QuietObjects DEF participationVars
    <2> QED
        BY <1>1, <1>2, <1>3, <1>4, <2>1, QuietDone
<1>5. ASSUME NEW p \in findOldParticipation(Current(t).id),
             reconnect(tasks[t].socket, p),
             client' = IF connection[tasks[t].socket] = "open"
                       THEN [client EXCEPT ![p].last = lastSequenceNumber(p),
                                           ![p].lost = FALSE]
                       ELSE client
      PROVE  StepInv'
    <2> DEFINE s == tasks[t].socket
    <2>1. p \in oldParticipations /\ p \in created /\ p \in Sockets /\ s \in Sockets
        <3>1. p \in oldParticipations /\ p \in created /\ p \in Sockets
            BY SocketsOnly DEF findOldParticipation, ServerInv, RegistryInv, Registered
        <3> QED
            BY <1>1, <3>1, BusyTask DEF ServerInv, ServerRight, Tasks
    <2>2. /\ participations \in [Sockets -> Participation \union {NotCreated}]
          /\ activeSockets \in [Sockets -> Sockets \union {None}]
          /\ client \in [Sockets -> Clients]
        BY DEF ServerInv, ServerRight, ObjectsTyped, ClientsTyped, RegistryInv, Registered
    <2>3. /\ \A q \in Sockets : q # p => participations'[q] = participations[q]
          /\ participations[p] \in Participation => participations'[p].socket = s
          /\ participations[p] \in Participation
        BY <1>5, <2>1, <2>2, CreatedIsTyped DEF reconnect, Participation
    <2>4. created' = created
        BY <2>1, <2>3, NoneAssumption DEF created
    <2>5. /\ \A q \in Sockets : q # p => client'[q] = client[q]
          /\ client'[p].away = client[p].away
        BY <1>5, <2>1, <2>2 DEF Clients
    <2>6. client'[p].away
        BY <2>1, <2>5 DEF StepInv, OldAreAway
    <2>7. eventBuffers = <<>> /\ Awaited(tasks) = nothing /\ Awaited(tasks') = nothing
        BY <1>1, <1>2, <1>3, RequestNoBuffers, NotTelling, DoneIs
    <2>8. ASSUME NEW q \in Sockets, Live(q)' PROVE Following(q)'
        <3>1. q # p
            BY <2>6, <2>8 DEF Live
        <3>2. client'[q] = client[q] /\ participations'[q] = participations[q]
            BY <2>3, <2>5, <3>1
        <3>3. q \in allParticipations
            <4>1. activeSockets' = [activeSockets EXCEPT ![s] = p]
                BY <1>5 DEF reconnect
            <4>2. PICK u \in Sockets : q = activeSockets'[u] /\ q # None
                BY <2>8 DEF Live, allParticipations
            <4>3. activeSockets'[u] = activeSockets[u]
                BY <2>1, <2>2, <3>1, <4>1, <4>2
            <4> QED
                BY <4>2, <4>3 DEF allParticipations
        <3>4. Live(q)
            BY <1>3, <2>8, <3>2, <3>3 DEF Live
        <3>5. subscribed(q)' = subscribed(q)
            BY <3>2 DEF subscribed
        <3> QED
            BY <1>3, <2>7, <3>2, <3>4, <3>5, StaysFollowing
    <2>9. OldAreAway'
        <3>1. oldParticipations' = oldParticipations \ {p}
            BY <1>5 DEF reconnect
        <3>2. oldParticipations \subseteq Sockets
            BY SocketsOnly DEF ServerInv, RegistryInv, Registered
        <3> QED
            BY <2>5, <3>1, <3>2 DEF StepInv, OldAreAway
    <2>10. FreshClients'
        BY <1>3, <2>1, <2>4, <2>5 DEF StepInv, FreshClients
    <2>11. RequestsAlone' /\ ActorsRight' /\ SendersConnected' /\ AnswersRight'
        BY <1>1, <1>3, DoneKeepsRest
    <2> QED
        BY <2>8, <2>9, <2>10, <2>11 DEF StepInv, AllFollow
<1> QED
    BY <1>4, <1>5 DEF Reconnect

(***************************************************************************)
(* Events about partitions.                                                *)
(***************************************************************************)
\* The partition of the change is as the change tells, in every repository.
Tells(change, kind, d) ==
    /\ change \in Changes
    /\ change.kind = kind
    /\ Repositories # {}
    /\ \A r \in Repositories :
          d[r][change.partition] =
              [present |-> kind # "DeletePartition", version |-> change.version]

\* The kinds of the commands that are awaited, if it is only the change.
AwaitedOf(change) ==
    [y \in Partitions |-> IF y = change.partition THEN {change.kind} ELSE {}]

\* A view that waits for the change, and who does not get it is not concerned.
LEMMA UntoldAgrees ==
    ASSUME NEW S, NEW T, S \subseteq T, NEW change, NEW kind, NEW d, Tells(change, kind, d),
           kind = "AddPartition" \/ change.partition \notin S,
           NEW u, Agrees(S, d, AwaitedOf(change), u)
    PROVE  Agrees(T, d, nothing, u)
<1> SUFFICES ASSUME NEW y \in Partitions, u[y] # None
             PROVE  y \in T /\ \A r \in Repositories :
                                  d[r][y] = [present |-> TRUE, version |-> u[y]]
    BY DEF Agrees, nothing
<1>1. y \in S /\ "AddPartition" \notin AwaitedOf(change)[y]
    BY DEF Agrees
<1>2. y # change.partition
    <2>1. CASE kind = "AddPartition"
        BY <1>1, <2>1 DEF AwaitedOf, Tells
    <2>2. CASE change.partition \notin S
        BY <1>1, <2>2
    <2> QED
        BY <2>1, <2>2
<1>3. AwaitedOf(change)[y] = {}
    BY <1>2 DEF AwaitedOf
<1> QED
    BY <1>1, <1>3 DEF Agrees

\* Who gets the change is taken by it to what the database has.
LEMMA ToldAgrees ==
    ASSUME NEW S, NEW T, S \subseteq T, NEW b, NEW change, NEW kind, NEW d,
           Tells(change, kind, d), kind \in PartitionCommands,
           kind = "AddPartition" => change.partition \in T \/ b,
           NEW u \in Versions, Agrees(S, d, AwaitedOf(change), u)
    PROVE  \E w \in Versions : Takes(T, b, u, change, w) /\ Agrees(T, d, nothing, w)
<1> DEFINE x == change.partition
           n == change.version
<1>1. x \in Partitions /\ n \in Nat /\ change.kind = kind
    BY DEF Tells, Changes
<1>2. \A r \in Repositories : d[r][x] = [present |-> kind # "DeletePartition", version |-> n]
    BY DEF Tells
<1>3. \A y \in Partitions : u[y] # None =>
          /\ y \in S
          /\ y # x => \A r \in Repositories : d[r][y] = [present |-> TRUE, version |-> u[y]]
    BY DEF Agrees, AwaitedOf
<1>4. u[x] # None =>
          /\ kind # "AddPartition"
          /\ \A r \in Repositories : d[r][x].version = u[x] + 1
    BY <1>1 DEF Agrees, AwaitedOf
<1> HIDE DEF x, n
<1>5. ASSUME u[x] = None PROVE Agrees(T, d, nothing, u)
    BY <1>3, <1>5 DEF Agrees, nothing
<1>6. CASE kind = "AddPartition"
    <2>1. u[x] = None
        BY <1>4, <1>6
    <2>2. CASE x \in T
        <3> DEFINE w == [u EXCEPT ![x] = n]
        <3>1. w \in Versions /\ w[x] = n /\ \A y \in Partitions : y # x => w[y] = u[y]
            BY <1>1 DEF Versions
        <3>2. Takes(T, b, u, change, w)
            BY <1>1, <1>6, <2>2 DEF Takes, x, n
        <3>3. \A r \in Repositories : d[r][x] = [present |-> TRUE, version |-> n]
            BY <1>2, <1>6
        <3> HIDE DEF w
        <3>4. Agrees(T, d, nothing, w)
            BY <1>3, <2>2, <3>1, <3>3 DEF Agrees, nothing
        <3> QED
            BY <3>1, <3>2, <3>4
    <2>3. CASE x \notin T
        <3>1. Takes(T, b, u, change, u)
            BY <1>1, <1>6, <2>3 DEF Takes, x, n
        <3> QED
            BY <1>5, <2>1, <3>1
    <2> QED
        BY <2>2, <2>3
<1>7. CASE kind # "AddPartition" /\ u[x] = None
    <2>1. Takes(T, b, u, change, u)
        BY <1>1, <1>7 DEF Takes, x, n
    <2> QED
        BY <1>5, <1>7, <2>1
<1>8. CASE kind = "Change" /\ u[x] # None
    <2> DEFINE w == [u EXCEPT ![x] = n]
    <2>1. w \in Versions /\ w[x] = n /\ \A y \in Partitions : y # x => w[y] = u[y]
        BY <1>1 DEF Versions
    <2>2. PICK r \in Repositories : TRUE
        BY DEF Tells
    <2>3. d[r][x].version = n /\ d[r][x].version = u[x] + 1
        BY <1>2, <1>4, <1>8
    <2>4. Takes(T, b, u, change, w)
        BY <1>1, <1>8, <2>3 DEF Takes, x, n
    <2>5. \A s \in Repositories : d[s][x] = [present |-> TRUE, version |-> n]
        BY <1>2, <1>8
    <2> HIDE DEF w
    <2>6. x \in T
        BY <1>1, <1>3, <1>8
    <2>7. Agrees(T, d, nothing, w)
        BY <1>3, <2>1, <2>5, <2>6 DEF Agrees, nothing
    <2> QED
        BY <2>1, <2>4, <2>7
<1>9. CASE kind = "DeletePartition" /\ u[x] # None
    <2> DEFINE w == [u EXCEPT ![x] = None]
    <2>1. w \in Versions /\ w[x] = None /\ \A y \in Partitions : y # x => w[y] = u[y]
        BY <1>1 DEF Versions
    <2>2. Takes(T, b, u, change, w)
        BY <1>1, <1>9 DEF Takes, x, n
    <2> HIDE DEF w
    <2>3. Agrees(T, d, nothing, w)
        BY <1>3, <2>1 DEF Agrees, nothing
    <2> QED
        BY <2>1, <2>2, <2>3
<1> QED
    BY <1>6, <1>7, <1>8, <1>9 DEF PartitionCommands

\* A task that has events to send tells what the database has.
LEMMA ToldChange ==
    ASSUME ServerInv, StepInv, OneAtATime, NEW t \in TaskIds, NEW kind \in PartitionCommands,
           IsAt(t, "answer"), Current(t).kind = kind, NEW change, change = changed(t)
    PROVE  /\ tasks[t] # None /\ tasks[t].todo # <<>>
           /\ Tells(change, kind, database)
           /\ Awaited(tasks) = AwaitedOf(change)
           /\ kind = "AddPartition" => change.partition \in subscribed(tasks[t].who)
<1>1. tasks[t] # None /\ tasks[t].todo # <<>> /\ tasks[t].stage = "answer"
      /\ GoodTask(t, tasks[t], created)
    BY StagedTask
<1>2. change \in Changes /\ change = tasks[t].content[1]
    BY <1>1 DEF GoodTask, Current, changed
<1>3. AnswerRight(tasks[t], database, subscribed(tasks[t].who))
    BY <1>1 DEF StepInv, AnswersRight, Busy
<1>4. kind \notin Requests /\ Head(tasks[t].todo).kind = kind
    BY DEF PartitionCommands, Requests, Current
<1>5. /\ change.kind = kind
      /\ kind = "AddPartition" => change.partition \in subscribed(tasks[t].who)
      /\ Repositories # {}
      /\ \A r \in Repositories :
            database[r][change.partition] =
                [present |-> kind # "DeletePartition", version |-> change.version]
    BY <1>2, <1>3, <1>4 DEF AnswerRight
<1>6. Telling(tasks) = {t}
    <2>1. Busy(tasks) = {t}
        BY <1>1, OnlyBusy
    <2> QED
        BY <1>1, <1>4, <2>1 DEF Telling
<1>7. Awaited(tasks) = AwaitedOf(change)
    BY <1>2, <1>4, <1>5, <1>6, OneAwaited DEF AwaitedOf
<1> QED
    BY <1>1, <1>2, <1>5, <1>7 DEF Tells

LEMMA TellFollows ==
    ASSUME ServerInv, StepInv, OneAtATime, NEW t \in TaskIds, NEW kind \in PartitionCommands,
           NEW P \in SUBSET allParticipations, NEW objects, Resubscribed(objects),
           \A p \in Sockets : objects[p].partitionChangesSubscription =
                                  participations[p].partitionChangesSubscription,
           Tell(t, kind, P, objects), NEW x, x = changed(t).partition,
           \A p \in Sockets : Live(p) =>
               /\ subscribed(p) \subseteq objects[p].subscribedPartitions
               /\ Bystander(p) => subscribed(p) = objects[p].subscribedPartitions
               /\ IF p \in P
                  THEN kind = "AddPartition" =>
                           x \in objects[p].subscribedPartitions \/ Bystander(p)'
                  ELSE kind = "AddPartition" \/ x \notin subscribed(p)
    PROVE  StepInv'
<1> DEFINE change == changed(t)
           events == [p \in P |-> ChangeEvent(change)]
           socketOf == ownSocket
<1>1. /\ tasks[t] # None /\ tasks[t].todo # <<>>
      /\ Tells(change, kind, database)
      /\ Awaited(tasks) = AwaitedOf(change)
    BY ToldChange DEF Tell
<1>2. x = change.partition
    OBVIOUS
<1>3. /\ tasks' = [tasks EXCEPT ![t] = Done(t)]
      /\ UNCHANGED <<activeSockets, oldParticipations, connection, queue, database>>
    BY DEF Tell
<1>4. SendWith(eventBuffers, objects, events, socketOf)
    BY DEF Tell
<1>5. P \subseteq created
    BY SocketsOnly
<1>6. \A p \in created : socketOf[p] = participations[p].socket
    BY DEF ownSocket
<1> HIDE DEF change, socketOf
<1>7. ForParticipations(events) /\ DOMAIN events = P
    <2>1. ChangeEvent(change) \in Events
        BY <1>1 DEF ChangeEvent, Events, Tells
    <2> QED
        BY <1>5, <2>1 DEF ForParticipations
<1>8. \A p \in P : events[p] = ChangeEvent(change)
    OBVIOUS
<1> HIDE DEF events
<1>9. /\ eventBuffers \in Seq([Sockets -> Seq(Events)])
      /\ \A q \in Sockets : q \notin created =>
            \A i \in 1..Len(eventBuffers) : eventBuffers[i][q] = <<>>
    BY ParticipationsSend
<1>10. Placed
    BY <1>3, <1>4, SendPlaced DEF ServerInv, ServerRight
<1>11. ASSUME NEW p \in Sockets, Live(p)
       PROVE  \E w \in Versions :
                   LET S == objects[p].subscribedPartitions IN
                   /\ Leads(p, S, Bystander(p)', eventBuffers, events, socketOf, w)
                   /\ Agrees(S, database, nothing, w)
    <2> DEFINE S == subscribed(p)
               T == objects[p].subscribedPartitions
               a == Bystander(p)
               b == Bystander(p)'
    <2>1. Follows(p, S, a, client[p], eventBuffers, database, AwaitedOf(change))
        BY <1>1, <1>11 DEF StepInv, AllFollow, Following
    <2>2. a \in BOOLEAN /\ b \in BOOLEAN /\ (a => b)
        BY <1>1, <1>3, <1>10, DoneBystander DEF Bystander
    <2>3. S \subseteq T /\ (a => S = T)
          /\ IF p \in P THEN kind = "AddPartition" => x \in T \/ b
                        ELSE kind = "AddPartition" \/ x \notin S
        BY <1>11
    <2>4. connection[socketOf[p]] = "open"
        BY <1>6, <1>11, SocketsOnly DEF Live
    <2> HIDE DEF S, T, a, b
    <2>5. PICK u \in Versions : /\ Chain(ByBuffer(S, a, p), eventBuffers, client[p].view, u)
                                /\ Agrees(S, database, AwaitedOf(change), u)
        BY <2>1 DEF Follows
    <2>6. ByBuffer(S, a, p) \subseteq ByBuffer(T, b, p)
        BY <2>2, <2>3, MoreSubscribed
    <2>7. Chain(ByBuffer(T, b, p), eventBuffers, client[p].view, u)
        BY <2>5, <2>6, ChainWider
    <2>8. CASE p \in P
        <3>1. PICK w \in Versions : Takes(T, b, u, change, w) /\ Agrees(T, database, nothing, w)
            BY <1>1, <1>2, <2>3, <2>5, <2>8, ToldAgrees
        <3>2. change \in Changes
            BY <1>1 DEF Tells
        <3>3. <<u, ChangeEvent(change), w>> \in ByEvent(T, b)
            BY <3>1, <3>2, EventLeads
        <3>4. Leads(p, T, b, eventBuffers, events, socketOf, w)
            BY <1>7, <1>8, <2>4, <2>7, <2>8, <3>3 DEF Leads
        <3> QED
            BY <3>1, <3>4 DEF T, b
    <2>9. CASE p \notin P
        <3>1. Agrees(T, database, nothing, u)
            BY <1>1, <1>2, <2>3, <2>5, <2>9, UntoldAgrees
        <3>2. Leads(p, T, b, eventBuffers, events, socketOf, u)
            BY <1>7, <2>7, <2>9 DEF Leads
        <3> QED
            BY <3>1, <3>2 DEF T, b
    <2> QED
        BY <2>8, <2>9
<1> QED
    BY <1>1, <1>3, <1>4, <1>7, <1>9, <1>11, SendFollows

LEMMA SendToSubscribersFollows ==
    ASSUME ServerInv, StepInv, OneAtATime, NEW t \in TaskIds, SendToSubscribers(t)
    PROVE  StepInv'
<1> DEFINE x == changed(t).partition
           P == subscribers(x)
<1>1. Tell(t, "Change", P, participations)
    BY DEF SendToSubscribers
<1>2. P \in SUBSET allParticipations
    BY DEF subscribers
<1>3. \A p \in Sockets : Live(p) => (p \in P <=> x \in subscribed(p))
    BY DEF Live, subscribers, subscribed
<1>4. Resubscribed(participations)
    BY ParticipationsSend
<1>5. "Change" \in PartitionCommands /\ "Change" # "AddPartition"
    BY DEF PartitionCommands
<1>6. \A p \in Sockets : participations[p].subscribedPartitions = subscribed(p)
    BY DEF subscribed
<1>7. x = changed(t).partition
    OBVIOUS
<1> HIDE DEF P, x
<1> QED
    BY <1>1, <1>2, <1>3, <1>4, <1>5, <1>6, <1>7, TellFollows

LEMMA SendPartitionDeletedEventsFollows ==
    ASSUME ServerInv, StepInv, OneAtATime, NEW t \in TaskIds, SendPartitionDeletedEvents(t)
    PROVE  StepInv'
<1> DEFINE x == changed(t).partition
           P == changing("deletion") \union subscribers(x)
<1>1. Tell(t, "DeletePartition", P, participations)
    BY DEF SendPartitionDeletedEvents
<1>2. P \in SUBSET allParticipations
    BY DEF subscribers, changing
<1>3. \A p \in Sockets : Live(p) /\ p \notin P => x \notin subscribed(p)
    BY DEF Live, subscribers, subscribed
<1>4. Resubscribed(participations)
    BY ParticipationsSend
<1>5. "DeletePartition" \in PartitionCommands /\ "DeletePartition" # "AddPartition"
    BY DEF PartitionCommands
<1>6. \A p \in Sockets : participations[p].subscribedPartitions = subscribed(p)
    BY DEF subscribed
<1>7. x = changed(t).partition
    OBVIOUS
<1> HIDE DEF P, x
<1> QED
    BY <1>1, <1>2, <1>3, <1>4, <1>5, <1>6, <1>7, TellFollows

\* The participation that websocket s has now.
LEMMA OwnSocket ==
    ASSUME ServerInv, NEW p \in allParticipations
    PROVE  /\ participations[p].socket \in Sockets
           /\ activeSockets[participations[p].socket] = p
<1>1. PICK s \in Sockets : activeSockets[s] = p /\ p # None
    BY DEF allParticipations
<1>2. participations[p].socket = s
    BY <1>1 DEF ServerInv, RegistryInv, RegistryConsistent
<1> QED
    BY <1>1, <1>2

LEMMA SendPartitionAddedEventsFollows ==
    ASSUME ServerInv, StepInv, OneAtATime, NEW t \in TaskIds, SendPartitionAddedEvents(t)
    PROVE  StepInv'
<1> DEFINE x == changed(t).partition
           X == {x}
           creation == changing("creation")
           autoSubscribe == changing("autoSubscribe")
           automatic == creation \intersect autoSubscribe
           own == {p \in allParticipations : participations[p].socket = tasks[t].socket}
           P == creation \union own
           objects == Subscribed(participations, automatic, X)
<1>1. Tell(t, "AddPartition", P, objects)
    BY DEF SendPartitionAddedEvents
<1>2. /\ P \in SUBSET allParticipations /\ automatic \in SUBSET created
      /\ "AddPartition" \in PartitionCommands
    BY SocketsOnly DEF changing, PartitionCommands
<1>3. /\ tasks[t] # None /\ tasks[t].todo # <<>>
      /\ x \in subscribed(tasks[t].who)
      /\ x \in Partitions
    <2>1. /\ tasks[t] # None /\ tasks[t].todo # <<>>
          /\ Tells(changed(t), "AddPartition", database)
          /\ x \in subscribed(tasks[t].who)
        BY <1>1, <1>2, ToldChange DEF Tell
    <2> QED
        BY <2>1 DEF Tells, Changes
<1>4. X \in SUBSET Partitions /\ x \in X
    BY <1>3
<1>5. ObjectsTyped
    BY DEF ServerInv, ServerRight
<1>6. Bystander(tasks[t].who) \in BOOLEAN /\ autoSubscribe = changing("autoSubscribe")
    BY DEF Bystander
<1>7. x = changed(t).partition
    OBVIOUS
<1>8. \A p \in Sockets : objects[p] = Subscribed(participations, automatic, X)[p]
    OBVIOUS
<1>9. own = {p \in allParticipations : participations[p].socket = tasks[t].socket}
      /\ P = creation \union own /\ automatic = creation \intersect autoSubscribe
      /\ objects = Subscribed(participations, automatic, X)
    OBVIOUS
<1> HIDE DEF X, creation, autoSubscribe, automatic, own, P, objects
<1>10. Resubscribed(objects)
    BY <1>2, <1>4, <1>5, <1>9, SubscribedTyped
<1>11. ASSUME NEW p \in Sockets
       PROVE  /\ objects[p].partitionChangesSubscription =
                     participations[p].partitionChangesSubscription
              /\ p \in automatic => objects[p].subscribedPartitions = subscribed(p) \union X
              /\ p \notin automatic => objects[p].subscribedPartitions = subscribed(p)
    <2> DEFINE o == objects[p]
    <2>1. o = Subscribed(participations, automatic, X)[p]
        BY <1>9
    <2> HIDE DEF o
    <2>2. /\ o.partitionChangesSubscription =
                 participations[p].partitionChangesSubscription
          /\ p \in automatic => o.subscribedPartitions =
                                    participations[p].subscribedPartitions \union X
          /\ p \notin automatic => o = participations[p]
        BY <1>5, <2>1, SubscribedFields
    <2> QED
        BY <2>2 DEF o, subscribed
<1>12. Placed
    <2>1. SendWith(eventBuffers, objects, [p \in P |-> ChangeEvent(changed(t))], ownSocket)
        BY <1>1 DEF Tell
    <2>2. UNCHANGED <<activeSockets, oldParticipations, connection>>
        BY <1>1 DEF Tell
    <2> QED
        BY <1>5, <1>10, <1>11, <2>1, <2>2, SendPlaced
<1>13. acting' \subseteq acting /\ acting = {activeSockets[tasks[t].socket]}
    <2>1. acting' \subseteq acting
        BY <1>1, <1>3, DoneKeepsRest DEF Tell
    <2>2. Busy(tasks) = {t}
        BY <1>3, OnlyBusy
    <2> QED
        BY <2>1, <2>2 DEF acting
<1>14. changing("autoSubscribe")' = autoSubscribe
    BY <1>6, <1>12, PlacedChanging
<1>15. ASSUME NEW p \in Sockets, Live(p)
       PROVE  /\ subscribed(p) \subseteq objects[p].subscribedPartitions
              /\ Bystander(p) => subscribed(p) = objects[p].subscribedPartitions
              /\ p \in P => x \in objects[p].subscribedPartitions \/ Bystander(p)'
    <2>1. p \in allParticipations /\ p # None
        BY <1>15 DEF Live, allParticipations
    <2>2. subscribed(p) \subseteq objects[p].subscribedPartitions
        BY <1>11
    <2>3. Bystander(p) => p \notin automatic
        BY <1>6, <1>9 DEF Bystander
    <2>4. CASE p \in acting
        <3>1. p = activeSockets[tasks[t].socket]
            BY <1>13, <2>4
        <3>2. tasks[t].stage # "ready"
            BY <1>1 DEF Tell, IsAt
        <3>3. Actor(p, tasks[t].who)
            BY <1>3, <3>1, <3>2, ActorOf
        <3>4. p = tasks[t].who
            BY <2>1, <3>3 DEF Actor
        <3> QED
            BY <1>3, <1>11, <2>2, <2>3, <3>4
    <2>5. CASE p \notin acting
        <3>1. p \notin own
            BY <1>9, <1>13, <2>1, <2>5, OwnSocket
        <3>2. p \notin autoSubscribe => Bystander(p)'
            BY <1>13, <1>14, <2>5 DEF Bystander
        <3>3. p \in P => p \in automatic \/ Bystander(p)'
            BY <1>9, <3>1, <3>2
        <3> QED
            BY <1>4, <1>11, <2>2, <2>3, <3>3
    <2> QED
        BY <2>4, <2>5
<1> QED
    BY <1>1, <1>2, <1>7, <1>10, <1>11, <1>15, TellFollows

(***************************************************************************)
(* Composite commands.                                                     *)
(***************************************************************************)
\* The parts of composite and split commands are commands.
CommandsOnly == \A m \in Parts : m.kind \notin Requests

LEMMA OpenedAlone ==
    ASSUME CommandsOnly, NEW parts \in Seq(Parts), NEW r \in Seq(Items),
           \A i \in 1..Len(r) : r[i].kind \notin Requests,
           NEW s, s = parts \o <<EndOfComposite>> \o r
    PROVE  \A i \in 1..Len(s) : s[i].kind \notin Requests
<1> DEFINE Q == {m \in Items : m.kind \notin Requests}
           e == <<EndOfComposite>>
<1>1. Parts \subseteq Q
    BY DEF CommandsOnly, Items
<1>2. EndOfComposite \in Q
    BY DEF Items, EndOfComposite, Requests
<1>3. \A m \in Q : m.kind \notin Requests /\ m \in Items
    OBVIOUS
<1> HIDE DEF Q
<1>4. parts \in Seq(Q) /\ e \in Seq(Q)
    BY <1>1, <1>2
<1> DEFINE q == parts \o e
<1>5. q \in Seq(Q)
    BY <1>4, ConcatProperties
<1>6. s = q \o r
    OBVIOUS
<1> HIDE DEF q
<1>7. Len(q) \in Nat /\ Len(r) \in Nat /\ \A i \in 1..Len(q) : q[i].kind \notin Requests
    BY <1>3, <1>5, ElementOfSeq, LenProperties
<1>8. q \in Seq(Items)
    <2>1. Q \subseteq Items
        BY <1>3
    <2> QED
        BY <1>5, <2>1
<1>9. /\ Len(s) = Len(q) + Len(r)
      /\ \A i \in 1..Len(q) + Len(r) : s[i] = IF i <= Len(q) THEN q[i] ELSE r[i - Len(q)]
    BY <1>6, <1>8, ConcatProperties
<1>10. ASSUME NEW i \in 1..Len(s) PROVE s[i].kind \notin Requests
    <2>1. CASE i <= Len(q)
        BY <1>7, <1>9, <2>1
    <2>2. CASE ~(i <= Len(q))
        <3>1. i - Len(q) \in 1..Len(r)
            BY <1>7, <1>9, <2>2
        <3> QED
            BY <1>9, <2>2, <3>1
    <2> QED
        BY <2>1, <2>2
<1> QED
    BY <1>10

\* An empty buffer for every participation.
LEMMA EmptyBuffer ==
    ASSUME NEW S, NEW apart, NEW p \in Sockets, NEW v \in Versions,
           NEW empty, empty = [q \in Sockets |-> <<>>]
    PROVE  /\ empty \in [Sockets -> Seq(Events)] /\ empty[p] = <<>>
           /\ <<v, empty, v>> \in ByBuffer(S, apart, p)
<1>1. empty \in [Sockets -> Seq(Events)] /\ empty[p] = <<>>
    OBVIOUS
<1> DEFINE R == ByEvent(S, apart)
<1> HIDE DEF R
<1>2. Chain(R, empty[p], v, v)
    BY <1>1, ChainOfNone
<1> QED
    BY <1>1, <1>2 DEF ByBuffer, R

LEMMA CompositeFollows ==
    ASSUME ServerInv, StepInv, OneAtATime, CommandsOnly, NEW t \in TaskIds, Composite(t)
    PROVE  StepInv'
<1> DEFINE s == tasks[t].todo
           parts == Current(t).parts
           todo == parts \o <<EndOfComposite>> \o Tail(s)
           k == [tasks[t] EXCEPT !.todo = todo]
           empty == [p \in Sockets |-> <<>>]
           E == [Sockets -> Seq(Events)]
<1>1. /\ tasks[t] # None /\ s # <<>> /\ Current(t).kind = "Composite"
      /\ tasks[t].stage = "ready"
    BY DEF Composite, Accepted, IsAt
<1>2. TasksRight /\ eventBuffers \in Seq(E)
    BY DEF ServerInv, ServerRight, BuffersRight, BuffersTyped
<1>3. tasks[t] \in Tasks /\ s \in Seq(Items) /\ Tail(s) \in Seq(Items)
    BY <1>1, <1>2, BusyTask
<1>4. parts \in Seq(Parts)
    BY <1>1, CurrentIsMessage, MessagesAssumption
<1>5. \A i \in 1..Len(todo) : todo[i].kind \notin Requests
    <2>1. \A i \in 1..Len(Tail(s)) : Tail(s)[i].kind \notin Requests
        BY <1>1, <1>3, RestAlone DEF StepInv, RequestsAlone, RequestAlone
    <2> HIDE DEF parts, s
    <2> QED
        BY <1>3, <1>4, <2>1, OpenedAlone
<1>6. /\ tasks' = [tasks EXCEPT ![t] = k]
      /\ UNCHANGED <<activeSockets, oldParticipations, participations, connection, queue,
                     database, client>>
      /\ eventBuffers' = Append(eventBuffers, empty)
    BY DEF Composite, participationVars
<1> HIDE DEF todo
<1>7. /\ k.socket = tasks[t].socket /\ k.todo = todo /\ k.stage = "ready"
    BY <1>1, <1>3 DEF Tasks
<1>8. empty = [p \in Sockets |-> <<>>]
    OBVIOUS
<1> HIDE DEF k, s, empty, parts
<1>9. tasks'[t] = k /\ \A u \in TaskIds : u # t => tasks'[u] = tasks[u]
    BY <1>2, <1>6 DEF TasksRight
<1>10. Busy(tasks) = {t} /\ Busy(tasks') \subseteq {t}
    <2>1. Busy(tasks) = {t}
        BY <1>1, OnlyBusy DEF s
    <2> QED
        BY <1>9, <2>1 DEF Busy
<1>11. Awaited(tasks) = nothing /\ Awaited(tasks') = nothing
    <2>1. Telling(tasks') = {}
        BY <1>7, <1>9, <1>10 DEF Telling
    <2> QED
        BY <1>1, <2>1, NoneAwaited, NotTelling DEF s
<1>12. acting' \subseteq acting
    <2> SUFFICES ASSUME NEW u \in Busy(tasks') PROVE activeSockets[tasks'[u].socket] \in acting
        BY <1>6 DEF acting
    <2>1. u = t /\ t \in Busy(tasks)
        BY <1>10
    <2> QED
        BY <1>7, <1>9, <2>1 DEF acting
<1>13. RequestsAlone'
    <2>1. RequestAlone(tasks'[t])
        BY <1>5, <1>7, <1>9 DEF RequestAlone
    <2> QED
        BY <1>9, <2>1 DEF StepInv, RequestsAlone
<1>14. ActorsRight' /\ AnswersRight'
    BY <1>7, <1>9, <1>10 DEF ActorsRight, AnswersRight
<1>15. SendersConnected'
    BY <1>1, <1>6, <1>7, <1>9 DEF StepInv, SendersConnected
<1>16. Placed
    BY <1>6 DEF Placed, created
<1>17. ASSUME NEW p \in Sockets, Live(p)' PROVE Following(p)'
    <2> DEFINE S == subscribed(p)
               a == Bystander(p)
               b == Bystander(p)'
               c == client[p]
               buffers == eventBuffers'
               d == database
    <2>1. Live(p)
        BY <1>6, <1>16, <1>17, PlacedLive
    <2>2. Follows(p, S, a, c, eventBuffers, d, nothing)
        BY <1>11, <2>1 DEF StepInv, AllFollow, Following
    <2>3. a \in BOOLEAN /\ b \in BOOLEAN /\ (a => b)
        <3>1. changing("autoSubscribe")' = changing("autoSubscribe")
            BY <1>16, PlacedChanging
        <3> QED
            BY <1>12, <3>1 DEF Bystander
    <2>4. Following(p)' <=> Follows(p, S, b, c, buffers, d, nothing)
        BY <1>6, <1>11 DEF Following, subscribed
    <2>5. empty \in E /\ empty[p] = <<>>
        BY <1>8, EmptyBuffer
    <2>6. buffers = Append(eventBuffers, empty)
        BY <1>6
    <2> HIDE DEF S, a, b, c, buffers, d, E
    <2>7. Follows(p, S, b, c, eventBuffers, d, nothing)
        BY <2>2, <2>3, FollowsOn
    <2>8. PICK w \in Versions : /\ Chain(ByBuffer(S, b, p), eventBuffers, c.view, w)
                                /\ Agrees(S, d, nothing, w)
                                /\ c \in Viewing(c.view, FALSE)
        BY <2>7 DEF Follows
    <2>9. <<w, empty, w>> \in ByBuffer(S, b, p)
        BY <1>8, EmptyBuffer
    <2>10. Chain(ByBuffer(S, b, p), buffers, c.view, w)
        BY <1>2, <2>5, <2>6, <2>8, <2>9, ChainAppend
    <2> QED
        BY <2>4, <2>8, <2>10 DEF Follows
<1>18. OldAreAway'
    BY <1>6 DEF StepInv, OldAreAway
<1>19. FreshClients'
    <2> SUFFICES ASSUME NEW p \in Sockets, p \notin created
                 PROVE  /\ client'[p] = NewClient
                        /\ \A i \in 1..Len(eventBuffers') : eventBuffers'[i][p] = <<>>
        BY <1>16 DEF FreshClients, Placed
    <2>1. empty \in E /\ empty[p] = <<>>
        BY <1>8
    <2> HIDE DEF E
    <2>2. /\ Len(eventBuffers') = Len(eventBuffers) + 1
          /\ \A i \in 1..Len(eventBuffers) : eventBuffers'[i] = eventBuffers[i]
          /\ eventBuffers'[Len(eventBuffers) + 1] = empty /\ Len(eventBuffers) \in Nat
        BY <1>2, <1>6, <2>1, AppendProperties, LenProperties
    <2>3. \A i \in 1..Len(eventBuffers) : eventBuffers[i][p] = <<>>
        BY DEF StepInv, FreshClients
    <2>4. client'[p] = NewClient
        BY <1>6 DEF StepInv, FreshClients
    <2>5. ASSUME NEW i \in 1..Len(eventBuffers') PROVE eventBuffers'[i][p] = <<>>
        <3>1. i \in 1..Len(eventBuffers) \/ i = Len(eventBuffers) + 1
            BY <2>2
        <3> QED
            BY <2>1, <2>2, <2>3, <3>1
    <2> QED
        BY <2>4, <2>5
<1> QED
    BY <1>13, <1>14, <1>15, <1>17, <1>18, <1>19 DEF StepInv, AllFollow

\* The composite event takes a client where the buffered events would.
LEMMA CompositeEndsFollows ==
    ASSUME ServerInv, StepInv, OneAtATime, NEW t \in TaskIds, CompositeEnds(t)
    PROVE  StepInv'
<1> DEFINE E == [Sockets -> Seq(Events)]
           buffer == activeBuffer
           buffers == endComposite
           told == {p \in allParticipations : buffer[p] # <<>>}
           events == [p \in told |-> CompositeEvent(buffer[p])]
           socketOf == ownSocket
<1>1. /\ tasks[t] # None /\ tasks[t].todo # <<>> /\ Current(t).kind = "End"
      /\ tasks' = [tasks EXCEPT ![t] = Done(t)] /\ tasks[t].stage = "ready"
      /\ UNCHANGED <<activeSockets, oldParticipations, connection, queue, database>>
    BY DEF CompositeEnds, EndsWith, IsAt
<1>2. TasksRight
    BY DEF ServerInv, ServerRight
<1>3. t = 0 /\ tasks[t].todo \in Seq(Items)
    BY <1>1, <1>2, BusyTask DEF Splittable
<1>4. Depth(tasks[0]) \in Nat \ {0}
    <2>1. Cardinality(Ends(tasks[t].todo)) = Cardinality(Ends(Tail(tasks[t].todo))) + 1
          /\ Tail(tasks[t].todo) \in Seq(Items)
        BY <1>1, <1>3, EndsOfTail DEF Current
    <2>2. Cardinality(Ends(Tail(tasks[t].todo))) \in Nat
        BY <2>1, EndsFinite
    <2> QED
        BY <1>1, <1>3, <2>1, <2>2 DEF Depth
<1>5. /\ eventBuffers \in Seq(E) /\ Len(eventBuffers) = Depth(tasks[0])
      /\ eventBuffers # <<>>
    <2>1. eventBuffers \in Seq(E) /\ Len(eventBuffers) = Depth(tasks[0])
        BY DEF ServerInv, ServerRight, BuffersRight, BuffersTyped
    <2> QED
        BY <1>4, <2>1
<1>6. /\ buffers \in Seq(E) /\ Len(buffers) = Len(eventBuffers) - 1
      /\ \A i \in 1..Len(buffers) : buffers[i] = eventBuffers[i] /\ i \in 1..Len(eventBuffers)
    <2> DEFINE l == Len(eventBuffers)
    <2>1. l \in Nat \ {0} /\ l - 1 \in Int /\ 1 \in Int /\ \A i \in 1..l - 1 : eventBuffers[i] \in E
        BY <1>4, <1>5, ElementOfSeq
    <2> HIDE DEF E
    <2>2. /\ SubSeq(eventBuffers, 1, l - 1) \in Seq(E)
          /\ Len(SubSeq(eventBuffers, 1, l - 1)) = IF 1 <= l - 1 THEN (l - 1) - 1 + 1 ELSE 0
          /\ \A i \in 1..(l - 1) - 1 + 1 : SubSeq(eventBuffers, 1, l - 1)[i] = eventBuffers[1 + i - 1]
        BY <2>1, SubSeqProperties
    <2>3. buffers = SubSeq(eventBuffers, 1, l - 1)
        BY DEF endComposite
    <2> HIDE DEF buffers, l
    <2>4. buffers \in Seq(E) /\ Len(buffers) = l - 1
        BY <2>1, <2>2, <2>3
    <2>5. ASSUME NEW i \in 1..Len(buffers)
          PROVE  buffers[i] = eventBuffers[i] /\ i \in 1..l
        <3>1. i \in 1..(l - 1) - 1 + 1 /\ 1 + i - 1 = i /\ i \in 1..l
            BY <2>1, <2>4
        <3> QED
            BY <2>2, <2>3, <3>1
    <2> QED
        BY <2>4, <2>5 DEF l
<1>7. buffer \in E
    <2>1. Len(eventBuffers) \in 1..Len(eventBuffers)
        BY <1>4, <1>5
    <2> HIDE DEF E
    <2> QED
        BY <1>5, <2>1, ElementOfSeq DEF activeBuffer
<1>8. allParticipations \subseteq created /\ created \subseteq Sockets
    BY SocketsOnly
<1>9. ForParticipations(events) /\ DOMAIN events = told
    <2>1. \A p \in told : CompositeEvent(buffer[p]) \in Events
        BY <1>7, <1>8, CompositeEventType
    <2> QED
        BY <1>8, <2>1 DEF ForParticipations
<1>10. SendWith(buffers, participations, events, socketOf)
    BY DEF CompositeEnds, EndsWith
<1>11. Resubscribed(participations)
    BY ParticipationsSend
<1>12. \A p \in Sockets : p \notin created =>
           \A i \in 1..Len(buffers) : buffers[i][p] = <<>>
    BY <1>6 DEF StepInv, FreshClients
<1>13. \A p \in created : socketOf[p] = participations[p].socket
    BY DEF ownSocket
<1>14. /\ \A p \in told : events[p] = CompositeEvent(buffer[p])
       /\ told = {p \in allParticipations : buffer[p] # <<>>}
       /\ buffer = eventBuffers[Len(eventBuffers)]
       /\ buffers = SubSeq(eventBuffers, 1, Len(eventBuffers) - 1)
    BY DEF activeBuffer, endComposite
<1> HIDE DEF events, socketOf, buffer, buffers, told
<1>15. Placed
    BY <1>1, <1>10, <1>11, SendPlaced DEF ServerInv, ServerRight
<1>16. Awaited(tasks) = nothing
    BY <1>1, NotTelling
<1>17. ASSUME NEW p \in Sockets, Live(p)
       PROVE  \E w \in Versions :
                   LET S == participations[p].subscribedPartitions IN
                   /\ Leads(p, S, Bystander(p)', buffers, events, socketOf, w)
                   /\ Agrees(S, database, nothing, w)
    <2> DEFINE S == participations[p].subscribedPartitions
               a == Bystander(p)
               b == Bystander(p)'
    <2>1. Follows(p, S, a, client[p], eventBuffers, database, nothing)
        BY <1>16, <1>17 DEF StepInv, AllFollow, Following, subscribed
    <2>2. a \in BOOLEAN /\ b \in BOOLEAN /\ (a => b)
        BY <1>1, <1>15, DoneBystander DEF Bystander
    <2>3. p \in allParticipations /\ p \in created /\ connection[socketOf[p]] = "open"
        BY <1>8, <1>13, <1>17 DEF Live
    <2> HIDE DEF S, a, b
    <2>4. Follows(p, S, b, client[p], eventBuffers, database, nothing)
        BY <2>1, <2>2, FollowsOn
    <2>5. PICK w \in Versions : /\ Chain(ByBuffer(S, b, p), eventBuffers, client[p].view, w)
                                /\ Agrees(S, database, nothing, w)
        BY <2>4 DEF Follows
    <2> HIDE DEF E
    <2>6. PICK u \in Versions : /\ Chain(ByBuffer(S, b, p), buffers, client[p].view, u)
                                /\ <<u, buffer, w>> \in ByBuffer(S, b, p)
        BY <1>5, <1>14, <2>5, ChainLast
    <2>7. Chain(ByEvent(S, b), buffer[p], u, w)
        BY <2>6 DEF ByBuffer
    <2>8. buffer[p] \in Seq(Events)
        BY <1>7 DEF E
    <2>9. CASE p \in told
        <3>1. <<u, events[p], w>> \in ByEvent(S, b)
            BY <1>14, <2>7, <2>8, <2>9, CompositeLeads
        <3>2. Leads(p, S, b, buffers, events, socketOf, w)
            BY <1>9, <2>3, <2>6, <2>9, <3>1 DEF Leads
        <3> QED
            BY <2>5, <3>2 DEF S, b
    <2>10. CASE p \notin told
        <3>1. buffer[p] = <<>>
            BY <1>14, <2>3, <2>10
        <3>2. u = w
            BY <2>7, <3>1, ChainOfNone
        <3>3. Leads(p, S, b, buffers, events, socketOf, w)
            BY <1>9, <2>6, <2>10, <3>2 DEF Leads
        <3> QED
            BY <2>5, <3>3 DEF S, b
    <2> QED
        BY <2>9, <2>10
<1> QED
    BY <1>1, <1>6, <1>9, <1>10, <1>11, <1>12, <1>17, SendFollows

\* The completed command works for the participation whose websocket sent it.
LEMMA ContinuedFollows ==
    ASSUME ServerInv, StepInv, OneAtATime, NEW t \in TaskIds, Continued(t)
    PROVE  StepInv'
<1> DEFINE id == participations[Who(t)].participationId
           command == unfinished[id].command
<1>1. /\ tasks[t] # None /\ tasks[t].todo # <<>> /\ Current(t).kind = "Continued"
      /\ Who(t) \in created /\ tasks[t].stage = "ready"
    BY AcceptedFrom DEF Continued, Accepted, IsAt
<1>2. TasksRight /\ SplitsRight
    BY DEF ServerInv, ServerRight
<1>3. UNCHANGED <<activeSockets, oldParticipations, participations, connection, queue,
                  eventBuffers, database, client>>
    BY DEF Continued, participationVars
<1>4. Quiet
    BY <1>3, QuietObjects
<1>5. id \in DOMAIN unfinished
    BY DEF Continued, IsNextChunk
<1>6. command \in Parts /\ command.kind \in Splittable
    BY <1>2, <1>5 DEF SplitsRight
<1>7. CASE ~Current(t).completed
    <2>1. tasks' = [tasks EXCEPT ![t] = Done(t)]
        BY <1>7 DEF Continued
    <2> QED
        BY <1>1, <1>3, <1>4, <2>1, QuietDone
<1>8. CASE Current(t).completed
    <2> DEFINE own == [NewTask(tasks[t].socket, command)
                           EXCEPT !.stage = "transaction", !.who = Who(t)]
    <2>1. PICK d \in 1..MaxDetached :
              tasks[d] = None /\ tasks' = [tasks EXCEPT ![t] = Done(t), ![d] = own]
        BY <1>8 DEF Continued
    <2>2. d \in TaskIds /\ d # t
        BY <1>1, <2>1, BoundsAssumption DEF TaskIds
    <2>3. /\ own.socket = tasks[t].socket /\ own.todo = <<command>>
          /\ own.stage = "transaction" /\ own.who = Who(t)
        BY DEF NewTask
    <2>4. /\ Done(t).socket = tasks[t].socket /\ Done(t).todo = Tail(tasks[t].todo)
          /\ Done(t).stage = "ready"
        BY <1>1, <1>2, BusyTask DEF Done, Tasks
    <2> HIDE DEF own, command, id
    <2>5. /\ tasks'[t] = Done(t) /\ tasks'[d] = own
          /\ \A u \in TaskIds : u # t /\ u # d => tasks'[u] = tasks[u]
        BY <1>2, <2>1, <2>2 DEF TasksRight
    <2>6. Busy(tasks) = {t} /\ Busy(tasks') \subseteq {t, d}
        <3>1. Busy(tasks) = {t}
            BY <1>1, OnlyBusy
        <3> QED
            BY <2>5, <3>1 DEF Busy
    <2>7. Awaited(tasks) = nothing /\ Awaited(tasks') = nothing
        <3>1. Telling(tasks') = {}
            BY <2>3, <2>4, <2>5, <2>6 DEF Telling
        <3> QED
            BY <1>1, <3>1, NoneAwaited, NotTelling
    <2>8. acting' \subseteq acting
        <3> SUFFICES ASSUME NEW u \in Busy(tasks')
                     PROVE  activeSockets[tasks'[u].socket] \in acting
            BY <1>3 DEF acting
        <3>1. tasks'[u].socket = tasks[t].socket /\ t \in Busy(tasks)
            BY <2>3, <2>4, <2>5, <2>6
        <3> QED
            BY <3>1 DEF acting
    <2>9. AllFollow' /\ OldAreAway' /\ FreshClients'
        BY <1>3, <1>4, <2>7, <2>8, QuietFollowing
    <2>10. RequestsAlone'
        <3>1. tasks[t].todo \in Seq(Items)
            BY <1>1, <1>2, BusyTask
        <3>2. \A i \in 1..Len(Tail(tasks[t].todo)) : Tail(tasks[t].todo)[i].kind \notin Requests
            BY <1>1, <3>1, RestAlone DEF StepInv, RequestsAlone, RequestAlone
        <3>3. RequestAlone(tasks'[t])
            BY <2>4, <2>5, <3>2 DEF RequestAlone
        <3>4. RequestAlone(tasks'[d])
            <4>1. tasks'[d].todo = <<command>> /\ Len(<<command>>) = 1
                BY <2>3, <2>5
            <4> QED
                BY <4>1 DEF RequestAlone
        <3> QED
            BY <2>5, <3>3, <3>4 DEF StepInv, RequestsAlone
    <2>11. ActorsRight'
        <3>1. activeSockets[tasks[t].socket] = Who(t)
            BY DEF Who, getParticipation
        <3> QED
            BY <1>3, <2>3, <2>4, <2>5, <2>6, <3>1 DEF ActorsRight, Actor
    <2>12. AnswersRight'
        BY <2>3, <2>4, <2>5, <2>6 DEF AnswersRight
    <2>13. SendersConnected'
        BY <1>1, <1>3, <2>3, <2>4, <2>5 DEF StepInv, SendersConnected
    <2> QED
        BY <2>9, <2>10, <2>11, <2>12, <2>13 DEF StepInv
<1> QED
    BY <1>7, <1>8

(***************************************************************************)
(* The queue and the websockets.                                           *)
(***************************************************************************)
\* The task that ends has nothing left to process.
LEMMA FinishFollows ==
    ASSUME ServerInv, StepInv, NEW t \in TaskIds, Finish(t)
    PROVE  StepInv'
<1>1. TasksRight /\ JobsRight
    BY DEF ServerInv, ServerRight
<1>2. UNCHANGED <<activeSockets, oldParticipations, participations, connection,
                  eventBuffers, database, client>>
    BY DEF Finish, participationVars
<1>3. Quiet
    BY <1>2, QuietObjects
<1>4. /\ tasks[t] # None /\ tasks[t].todo = <<>> /\ tasks'[t] = None
      /\ \A u \in TaskIds : u # t => tasks'[u] = tasks[u]
    BY <1>1 DEF Finish, TasksRight
<1>5. Busy(tasks') = Busy(tasks) /\ \A u \in Busy(tasks) : u \in TaskIds /\ tasks'[u] = tasks[u]
    BY <1>4 DEF Busy
<1>6. Telling(tasks') = Telling(tasks) /\ Telling(tasks) \subseteq Busy(tasks)
    BY <1>5 DEF Telling
<1>7. Awaited(tasks') = Awaited(tasks)
    BY <1>5, <1>6 DEF Awaited
<1>8. acting' = acting
    BY <1>2, <1>5 DEF acting
<1>9. AllFollow' /\ OldAreAway' /\ FreshClients'
    BY <1>2, <1>3, <1>7, <1>8, QuietFollowing
<1>10. RequestsAlone'
    BY <1>4 DEF StepInv, RequestsAlone
<1>11. ActorsRight'
    BY <1>2, <1>5 DEF StepInv, ActorsRight, Actor
<1>12. AnswersRight'
    BY <1>2, <1>5 DEF StepInv, AnswersRight, subscribed
<1>13. SendersConnected'
    <2>1. \A i \in 1..Len(queue') : connection[queue'[i].socket] # "none"
        <3>1. CASE t = 0
            <4>1. queue # <<>> /\ queue' = Tail(queue)
                BY <1>1, <1>4, <3>1 DEF Finish, JobsRight
            <4>2. /\ Len(queue) \in Nat \ {0} /\ Len(Tail(queue)) = Len(queue) - 1
                  /\ \A i \in 1..Len(queue) - 1 : Tail(queue)[i] = queue[i + 1]
                BY <1>1, <4>1, EmptySeq, LenProperties, HeadTailProperties DEF JobsRight
            <4> QED
                BY <4>1, <4>2 DEF StepInv, SendersConnected
        <3>2. CASE t # 0
            BY <3>2 DEF Finish, StepInv, SendersConnected
        <3> QED
            BY <3>1, <3>2
    <2>2. \A u \in TaskIds : tasks'[u] # None => connection[tasks'[u].socket] # "none"
        BY <1>4 DEF StepInv, SendersConnected
    <2> QED
        BY <1>2, <2>1, <2>2 DEF SendersConnected
<1> QED
    BY <1>9, <1>10, <1>11, <1>12, <1>13 DEF StepInv

\* The queue's next job: without one nothing is buffered.
LEMMA StartJobFollows ==
    ASSUME ServerInv, StepInv, StartJob
    PROVE  StepInv'
<1> DEFINE job == Head(queue)
           k == NewTask(job.socket, job.message)
<1>1. TasksRight /\ JobsRight /\ BuffersRight
    BY DEF ServerInv, ServerRight
<1>2. UNCHANGED <<activeSockets, oldParticipations, participations, connection, queue,
                  eventBuffers, database, client>>
    BY DEF StartJob, participationVars
<1>3. Quiet
    BY <1>2, QuietObjects
<1>4. /\ k.socket = job.socket /\ k.todo = <<job.message>> /\ k.stage = "ready"
      /\ Len(<<job.message>>) = 1
    BY DEF NewTask
<1>5. tasks[0] = None /\ queue # <<>> /\ tasks' = [tasks EXCEPT ![0] = k]
    BY DEF StartJob
<1>6. connection[job.socket] # "none"
    <2>1. Len(queue) \in Nat \ {0} /\ job = queue[1]
        BY <1>1, <1>5, EmptySeq, LenProperties, HeadTailProperties DEF JobsRight
    <2> QED
        BY <2>1 DEF StepInv, SendersConnected
<1> HIDE DEF k, job
<1>7. tasks'[0] = k /\ \A u \in TaskIds : u # 0 => tasks'[u] = tasks[u]
    BY <1>1, <1>5, JobId DEF TasksRight
<1>8. /\ Busy(tasks') \subseteq Busy(tasks) \union {0} /\ 0 \notin Busy(tasks)
      /\ \A u \in Busy(tasks) : u \in TaskIds /\ u # 0 /\ u \in Busy(tasks')
    BY <1>5, <1>7 DEF Busy
<1>9. /\ Telling(tasks') = Telling(tasks)
      /\ \A u \in Telling(tasks) : tasks'[u] = tasks[u]
    BY <1>4, <1>7, <1>8 DEF Telling
<1>10. Awaited(tasks') = Awaited(tasks)
    BY <1>9 DEF Awaited
<1>11. eventBuffers = <<>>
    <2>1. Len(eventBuffers) = 0 /\ eventBuffers \in Seq([Sockets -> Seq(Events)])
        BY <1>1, <1>5 DEF BuffersRight, BuffersTyped, Depth
    <2> QED
        BY <2>1, EmptySeq
<1>12. AllFollow'
    <2> SUFFICES ASSUME NEW p \in Sockets, Live(p)' PROVE Following(p)'
        BY DEF AllFollow
    <2>1. Live(p)
        BY <1>2, <1>3, PlacedLive DEF Quiet
    <2>2. subscribed(p)' = subscribed(p)
        BY <1>2 DEF subscribed
    <2> QED
        BY <1>2, <1>10, <1>11, <2>1, <2>2, StaysFollowing
<1>13. OldAreAway' /\ FreshClients'
    BY <1>2 DEF StepInv, OldAreAway, FreshClients, created
<1>14. RequestsAlone'
    BY <1>4, <1>7 DEF StepInv, RequestsAlone, RequestAlone
<1>15. ActorsRight'
    BY <1>2, <1>4, <1>7, <1>8 DEF StepInv, ActorsRight, Actor, Busy
<1>16. AnswersRight'
    BY <1>2, <1>4, <1>7, <1>8 DEF StepInv, AnswersRight, subscribed, Busy
<1>17. SendersConnected'
    BY <1>2, <1>4, <1>6, <1>7 DEF StepInv, SendersConnected
<1> QED
    BY <1>12, <1>13, <1>14, <1>15, <1>16, <1>17 DEF StepInv

\* Nothing that the tasks do: the queue, or a connection.
LEMMA TasksStayFollowing ==
    ASSUME UNCHANGED tasks
    PROVE  /\ Busy(tasks') = Busy(tasks) /\ Awaited(tasks') = Awaited(tasks)
           /\ UNCHANGED activeSockets => acting' = acting
BY DEF acting

LEMMA OnMessageFollows ==
    ASSUME ServerInv, StepInv, NEW s \in Sockets, NEW m \in Messages, OnMessage(s, m)
    PROVE  StepInv'
<1> DEFINE job == [socket |-> s, message |-> m]
<1>1. UNCHANGED <<activeSockets, oldParticipations, participations, connection, tasks,
                  eventBuffers, database, client>>
    BY DEF OnMessage, participationVars
<1>2. Quiet
    BY <1>1, QuietObjects
<1>3. AllFollow' /\ OldAreAway' /\ FreshClients'
    BY <1>1, <1>2, TasksStayFollowing, QuietFollowing
<1>4. RequestsAlone' /\ ActorsRight' /\ AnswersRight'
    BY <1>1 DEF StepInv, RequestsAlone, ActorsRight, Actor, AnswersRight, subscribed
<1>5. SendersConnected'
    <2>1. JobsRight /\ job \in [socket : Sockets, message : Messages] /\ job.socket = s
        BY DEF ServerInv, ServerRight
    <2>2. queue' = Append(queue, job) /\ connection[s] = "open"
        BY DEF OnMessage
    <2> HIDE DEF job
    <2>3. /\ Len(queue') = Len(queue) + 1 /\ Len(queue) \in Nat
          /\ queue'[Len(queue) + 1] = job
          /\ \A i \in 1..Len(queue) : queue'[i] = queue[i]
        BY <2>1, <2>2, AppendProperties, LenProperties DEF JobsRight
    <2>4. \A i \in 1..Len(queue') : i \in 1..Len(queue) \/ i = Len(queue) + 1
        BY <2>3
    <2> QED
        BY <1>1, <2>1, <2>2, <2>3, <2>4 DEF StepInv, SendersConnected
<1> QED
    BY <1>3, <1>4, <1>5 DEF StepInv

\* Connections that end: no websocket becomes open again.
LEMMA ConnectionEnds ==
    ASSUME ServerInv, StepInv, NEW s \in Sockets,
           NEW state, state \notin {"none", "open"},
           connection[s] # "none",
           connection' = [connection EXCEPT ![s] = state],
           UNCHANGED <<activeSockets, oldParticipations, participations, queue, tasks,
                       eventBuffers, database, client>>
    PROVE  StepInv'
<1>1. \A u \in Sockets : connection'[u] = IF u = s THEN state ELSE connection[u]
    BY DEF ServerInv, ServerRight, ConnectionsTyped
<1>2. created' = created /\ allParticipations' = allParticipations
    BY DEF created, allParticipations
<1>3. AllFollow'
    <2> SUFFICES ASSUME NEW p \in Sockets, Live(p)' PROVE Following(p)'
        BY DEF AllFollow
    <2>1. Live(p)
        <3>1. p \in allParticipations /\ connection'[participations[p].socket] = "open"
              /\ ~client[p].away
            BY <1>2 DEF Live
        <3>2. participations[p].socket \in Sockets
            BY <3>1, OwnSocket
        <3> QED
            BY <1>1, <3>1, <3>2 DEF Live
    <2>2. subscribed(p)' = subscribed(p) /\ changing("autoSubscribe")' = changing("autoSubscribe")
        BY <1>2 DEF subscribed, changing
    <2>3. Bystander(p) => Bystander(p)'
        BY <2>2, TasksStayFollowing DEF Bystander
    <2> QED
        BY <2>1, <2>2, <2>3, TasksStayFollowing, StaysFollowing
<1>4. OldAreAway' /\ FreshClients'
    BY <1>2 DEF StepInv, OldAreAway, FreshClients
<1>5. RequestsAlone' /\ ActorsRight' /\ AnswersRight'
    BY DEF StepInv, RequestsAlone, ActorsRight, Actor, AnswersRight, subscribed
<1>6. SendersConnected'
    <2>1. /\ \A i \in 1..Len(queue) : queue[i].socket \in Sockets
          /\ \A t \in TaskIds : tasks[t] # None => tasks[t].socket \in Sockets
        <3>1. \A i \in 1..Len(queue) : queue[i] \in [socket : Sockets, message : Messages]
            BY ElementOfSeq DEF ServerInv, ServerRight, JobsRight
        <3>2. \A t \in TaskIds : tasks[t] # None => tasks[t] \in Tasks
            BY DEF ServerInv, ServerRight, TasksRight
        <3> QED
            BY <3>1, <3>2 DEF Tasks
    <2> QED
        BY <1>1, <2>1 DEF StepInv, SendersConnected
<1> QED
    BY <1>3, <1>4, <1>5, <1>6 DEF StepInv

LEMMA ClientCloseFollows ==
    ASSUME ServerInv, StepInv, NEW s \in Sockets, ClientClose(s)
    PROVE  StepInv'
BY ConnectionEnds DEF ClientClose, participationVars

\* A websocket that connects sent nothing that is being processed.
LEMMA ConnectFollows ==
    ASSUME ServerInv, StepInv, NEW s \in Sockets, Connect(s)
    PROVE  StepInv'
<1> DEFINE o == FreshParticipation(s)
<1>1. s \notin created /\ connection[s] = "none"
    BY DEF Connect, ServerInv, RegistryInv, FreshSockets
<1>2. /\ UNCHANGED <<oldParticipations, queue, tasks, eventBuffers, database, client>>
      /\ participations' = [participations EXCEPT ![s] = o]
      /\ activeSockets' = [activeSockets EXCEPT ![s] = s]
      /\ connection' = [connection EXCEPT ![s] = "open"]
    BY DEF Connect, newParticipation
<1>3. o.socket = s /\ o.subscribedPartitions = {} /\ o.partitionChangesSubscription = None
    BY DEF FreshParticipation
<1> HIDE DEF o
<1>4. \A q \in Sockets : participations'[q] = IF q = s THEN o ELSE participations[q]
    BY <1>2 DEF ServerInv, ServerRight, ObjectsTyped
<1>5. \A u \in Sockets : activeSockets'[u] = IF u = s THEN s ELSE activeSockets[u]
    BY <1>2 DEF ServerInv, RegistryInv, Registered
<1>6. \A u \in Sockets : connection'[u] = IF u = s THEN "open" ELSE connection[u]
    BY <1>2 DEF ServerInv, ServerRight, ConnectionsTyped
<1>7. created' = created \union {s}
    BY <1>3, <1>4, NoneAssumption DEF created
<1>8. \A t \in TaskIds : tasks[t] # None =>
          tasks[t] \in Tasks /\ tasks[t].socket \in Sockets \ {s}
    <2> SUFFICES ASSUME NEW t \in TaskIds, tasks[t] # None
                 PROVE  tasks[t] \in Tasks /\ tasks[t].socket \in Sockets \ {s}
        OBVIOUS
    <2>1. tasks[t] \in Tasks
        BY DEF ServerInv, ServerRight, TasksRight
    <2>2. connection[tasks[t].socket] # "none"
        BY DEF StepInv, SendersConnected
    <2> QED
        BY <1>1, <2>1, <2>2 DEF Tasks
<1>9. \A t \in Busy(tasks) : /\ t \in TaskIds /\ tasks[t] # None
                             /\ tasks[t].socket \in Sockets
                             /\ activeSockets'[tasks[t].socket] = activeSockets[tasks[t].socket]
    BY <1>5, <1>8 DEF Busy
<1>10. acting' = acting
    BY <1>2, <1>9 DEF acting
<1>11. \A q \in allParticipations' : q # s => q \in allParticipations /\ q \in Sockets
    <2> SUFFICES ASSUME NEW q \in allParticipations', q # s
                 PROVE  q \in allParticipations /\ q \in Sockets
        OBVIOUS
    <2>1. PICK u \in Sockets : activeSockets'[u] = q /\ q # None
        BY DEF allParticipations
    <2>2. activeSockets[u] = q
        BY <1>5, <2>1
    <2>3. q \in allParticipations
        BY <2>1, <2>2 DEF allParticipations
    <2> QED
        BY <2>3, SocketsOnly
<1>12. changing("autoSubscribe")' \subseteq changing("autoSubscribe")
    BY <1>3, <1>4, <1>11 DEF changing
<1>13. ASSUME NEW p \in Sockets, Live(p)' PROVE Following(p)'
    <2>1. CASE p = s
        <3>1. /\ client[s] = NewClient
              /\ \A i \in 1..Len(eventBuffers) : eventBuffers[i][s] = <<>>
            BY <1>1 DEF StepInv, FreshClients
        <3>2. eventBuffers \in Seq([Sockets -> Seq(Events)])
            BY DEF ServerInv, ServerRight, BuffersRight, BuffersTyped
        <3> DEFINE S == subscribed(s)'
                   b == Bystander(s)'
                   d == database'
                   awaited == Awaited(tasks)'
        <3>3. Following(s)' <=> Follows(s, S, b, client[s], eventBuffers, d, awaited)
            BY <1>2 DEF Following
        <3> HIDE DEF S, b, d, awaited
        <3>4. Follows(s, S, b, NewClient, eventBuffers, d, awaited)
            BY <3>1, <3>2, NewClientFollows
        <3> QED
            BY <2>1, <3>1, <3>3, <3>4
    <2>2. CASE p # s
        <3>1. /\ p \in allParticipations /\ ~client[p].away
              /\ connection'[participations[p].socket] = "open"
            BY <1>2, <1>4, <1>11, <1>13, <2>2 DEF Live
        <3>2. participations[p].socket \in Sockets \ {s}
            <4>1. PICK u \in Sockets : activeSockets'[u] = p /\ p # None
                BY <1>13 DEF Live, allParticipations
            <4>2. u # s /\ activeSockets[u] = p
                BY <1>5, <2>2, <4>1
            <4>3. participations[p].socket = u
                BY <4>1, <4>2 DEF ServerInv, RegistryInv, RegistryConsistent
            <4> QED
                BY <4>2, <4>3
        <3>3. Live(p)
            BY <1>6, <3>1, <3>2 DEF Live
        <3>4. subscribed(p)' = subscribed(p)
            BY <1>4, <2>2 DEF subscribed
        <3>5. Bystander(p) => Bystander(p)'
            BY <1>10, <1>12 DEF Bystander
        <3> QED
            BY <1>2, <3>3, <3>4, <3>5, TasksStayFollowing, StaysFollowing
    <2> QED
        BY <2>1, <2>2
<1>14. AllFollow' /\ OldAreAway' /\ FreshClients'
    BY <1>2, <1>7, <1>13 DEF StepInv, AllFollow, OldAreAway, FreshClients
<1>15. RequestsAlone' /\ ActorsRight'
    BY <1>2, <1>9 DEF StepInv, RequestsAlone, ActorsRight, Actor
<1>16. AnswersRight'
    <2> SUFFICES ASSUME NEW t \in Busy(tasks), tasks[t].stage = "answer"
                 PROVE  AnswerRight(tasks[t], database, subscribed(tasks[t].who)')
        BY <1>2 DEF AnswersRight, subscribed
    <2>1. tasks[t].who \in created
        BY <1>9 DEF ServerInv, ServerRight, TasksRight, GoodTask
    <2>2. participations'[tasks[t].who] = participations[tasks[t].who]
        BY <1>1, <1>4, <2>1 DEF created
    <2> QED
        BY <1>2, <2>2 DEF StepInv, AnswersRight, subscribed
<1>17. SendersConnected'
    <2>1. \A i \in 1..Len(queue) : queue[i].socket \in Sockets
        <3>1. \A i \in 1..Len(queue) : queue[i] \in [socket : Sockets, message : Messages]
            BY ElementOfSeq DEF ServerInv, ServerRight, JobsRight
        <3> QED
            BY <3>1
    <2> QED
        BY <1>2, <1>6, <1>8, <2>1 DEF StepInv, SendersConnected
<1> QED
    BY <1>14, <1>15, <1>16, <1>17 DEF StepInv

\* The websocket of a participation is closed: its client is away from now on.
LEMMA OnCloseFollows ==
    ASSUME ServerInv, StepInv, NEW s \in Sockets, OnClose(s)
    PROVE  StepInv'
<1> DEFINE p == activeSockets[s]
<1>1. /\ connection[s] = "closing" /\ connection' = [connection EXCEPT ![s] = "closed"]
      /\ UNCHANGED <<participations, queue, tasks, eventBuffers, database>>
    BY DEF OnClose, participationVars, deleteParticipation
<1>2. CASE UNCHANGED <<participationVars, client>>
    BY <1>1, <1>2, ConnectionEnds DEF participationVars
<1>3. CASE /\ deleteParticipation(s)
           /\ client' = IF p = None THEN client ELSE [client EXCEPT ![p].away = TRUE]
    <2>1. /\ activeSockets' = [activeSockets EXCEPT ![s] = None]
          /\ oldParticipations' = oldParticipations \union ({p} \ {None})
        BY <1>3 DEF deleteParticipation
    <2>2. p \in Sockets \union {None}
        BY DEF ServerInv, RegistryInv, Registered
    <2>3. \A u \in Sockets : activeSockets'[u] = IF u = s THEN None ELSE activeSockets[u]
        BY <2>1 DEF ServerInv, RegistryInv, Registered
    <2>4. \A u \in Sockets : connection'[u] = IF u = s THEN "closed" ELSE connection[u]
        BY <1>1 DEF ServerInv, ServerRight, ConnectionsTyped
    <2>5. /\ \A q \in Sockets : q # p => client'[q] = client[q]
          /\ p # None => client'[p].away
          /\ \A q \in Sockets : client[q].away => client'[q].away
        <3>1. client \in [Sockets -> Clients]
            BY DEF ServerInv, ServerRight, ClientsTyped
        <3>2. ASSUME p # None
              PROVE  /\ \A q \in Sockets : client'[q] =
                            IF q = p THEN [client[p] EXCEPT !.away = TRUE] ELSE client[q]
                     /\ client'[p].away
            BY <1>3, <2>2, <3>1, <3>2 DEF Clients
        <3> HIDE DEF p
        <3> QED
            BY <1>3, <3>2
    <2>6. created' = created
        BY <1>1 DEF created
    <2>7. p # None => p \in created
        BY DEF ServerInv, RegistryInv, Registered, allParticipations
    <2>8. allParticipations' \subseteq allParticipations
        BY <2>3 DEF allParticipations
    <2> HIDE DEF p
    <2>9. acting' \subseteq acting \union {None}
        <3> SUFFICES ASSUME NEW t \in Busy(tasks)
                     PROVE  activeSockets'[tasks[t].socket] \in acting \union {None}
            BY <1>1 DEF acting
        <3>1. tasks[t].socket \in Sockets
            BY BusyTask DEF Busy, Tasks, ServerInv, ServerRight
        <3> QED
            BY <2>3, <3>1 DEF acting
    <2>10. changing("autoSubscribe")' \subseteq changing("autoSubscribe")
        BY <1>1, <2>8 DEF changing
    <2>11. AllFollow'
        <3> SUFFICES ASSUME NEW q \in Sockets, Live(q)' PROVE Following(q)'
            BY DEF AllFollow
        <3>1. /\ q \in allParticipations /\ q # p /\ client'[q] = client[q] /\ q # None
              /\ connection'[participations[q].socket] = "open" /\ ~client[q].away
            BY <1>1, <2>5, <2>8, NoneAssumption DEF Live
        <3>2. Live(q)
            <4>1. participations[q].socket \in Sockets
                BY <3>1, OwnSocket
            <4> QED
                BY <2>4, <3>1, <4>1 DEF Live
        <3>3. subscribed(q)' = subscribed(q)
            BY <1>1 DEF subscribed
        <3>4. Bystander(q) => Bystander(q)'
            BY <2>9, <2>10, <3>1 DEF Bystander
        <3> QED
            BY <1>1, <3>1, <3>2, <3>3, <3>4, TasksStayFollowing, StaysFollowing
    <2>12. OldAreAway'
        <3>1. oldParticipations \subseteq Sockets
            BY SocketsOnly DEF ServerInv, RegistryInv, Registered
        <3> QED
            BY <2>1, <2>5, <3>1 DEF StepInv, OldAreAway
    <2>13. FreshClients'
        <3>1. \A q \in Sockets : q \notin created => q # p
            BY <2>7, NoneAssumption
        <3> QED
            BY <1>1, <2>5, <2>6, <3>1 DEF StepInv, FreshClients
    <2>14. RequestsAlone' /\ AnswersRight'
        BY <1>1 DEF StepInv, RequestsAlone, AnswersRight, subscribed
    <2>15. ActorsRight'
        <3> SUFFICES ASSUME NEW t \in Busy(tasks), tasks[t].stage # "ready"
                     PROVE  Actor(activeSockets[tasks[t].socket], tasks[t].who)'
            BY <1>1 DEF ActorsRight
        <3> DEFINE u == tasks[t].socket
                   who == tasks[t].who
        <3>1. u \in Sockets /\ who \in Sockets
            BY BusyTask, SocketsOnly DEF Busy, Tasks, GoodTask, ServerInv, ServerRight
        <3>2. Actor(activeSockets[u], who)
            BY DEF StepInv, ActorsRight
        <3>3. CASE u = s
            BY <1>1, <2>3, <2>5, <3>1, <3>2, <3>3 DEF Actor, p
        <3>4. CASE u # s
            BY <1>1, <2>3, <2>5, <3>1, <3>2, <3>4 DEF Actor
        <3> QED
            BY <3>3, <3>4
    <2>16. SendersConnected'
        <3>1. /\ \A i \in 1..Len(queue) : queue[i].socket \in Sockets
              /\ \A t \in TaskIds : tasks[t] # None => tasks[t].socket \in Sockets
            <4>1. \A i \in 1..Len(queue) : queue[i] \in [socket : Sockets, message : Messages]
                BY ElementOfSeq DEF ServerInv, ServerRight, JobsRight
            <4>2. \A t \in TaskIds : tasks[t] # None => tasks[t] \in Tasks
                BY DEF ServerInv, ServerRight, TasksRight
            <4> QED
                BY <4>1, <4>2 DEF Tasks
        <3> QED
            BY <1>1, <2>4, <3>1 DEF StepInv, SendersConnected
    <2> QED
        BY <2>11, <2>12, <2>13, <2>14, <2>15, <2>16 DEF StepInv
<1> QED
    BY <1>2, <1>3 DEF OnClose, getParticipation

(***************************************************************************)
(* One message at a time.                                                  *)
(***************************************************************************)
\* No client sends the last chunk of a split command.
NothingCompleted == \A m \in Messages \union Parts : m.kind = "Continued" => ~m.completed

\* The queue's job is the only task.
OnlyJob == \A t \in TaskIds : t # 0 => tasks[t] = None

LEMMA WaitsOnly ==
    ASSUME ServerInv, NEW t \in TaskIds, NEW stage, NEW who, NEW content,
           Waits(t, stage, who, content)
    PROVE  \E k : tasks' = [tasks EXCEPT ![t] = k]
<1> DEFINE k == [tasks[t] EXCEPT !.stage = stage, !.who = who, !.content = content]
<1>1. tasks' = [tasks EXCEPT ![t] = k]
    BY DEF Waits, ServerInv, ServerRight, TasksRight
<1> QED
    BY <1>1

\* A step of a task that completes no split command changes no other task.
LEMMA OnlyOwnTask ==
    ASSUME ServerInv, NothingCompleted, NEW t \in TaskIds, TaskStep(t)
    PROVE  tasks[t] # None /\ \E k : tasks' = [tasks EXCEPT ![t] = k]
<1> DEFINE Alone == tasks[t] # None /\ \E k : tasks' = [tasks EXCEPT ![t] = k]
<1>1. ASSUME tasks[t] # None, tasks' = [tasks EXCEPT ![t] = Done(t)] PROVE Alone
    BY <1>1
<1> HIDE DEF Alone
<1>3. CASE Process(t)
    <2>1. CASE NoParticipation(t) \/ NotSignedOn(t) \/ SignOff(t) \/ Unsubscribe(t)
               \/ SubscribeChanging(t) \/ Reconnect(t) \/ CompositeEnds(t) \/ Split(t)
               \/ ContinuedRefused(t) \/ Invalid(t)
        BY <1>1, <2>1
        DEF NoParticipation, Invalid, NotSignedOn, SignOff, Unsubscribe, SubscribeChanging, Reconnect,
            CompositeEnds, EndsWith, Split, ContinuedRefused, Accepted, IsAt
    <2>2. CASE SignOnBegins(t) \/ TransactionBegins(t)
        <3>1. Waits(t, "transaction", Who(t), <<>>) /\ tasks[t] # None
            BY <2>2 DEF SignOnBegins, TransactionBegins, Accepted, IsAt
        <3> QED
            BY <3>1, WaitsOnly DEF Alone
    <2>3. CASE Composite(t)
        <3> DEFINE todo == Current(t).parts \o <<EndOfComposite>> \o Tail(tasks[t].todo)
                   k == [tasks[t] EXCEPT !.todo = todo]
        <3>1. tasks[t] # None /\ tasks' = [tasks EXCEPT ![t] = k]
            BY <2>3 DEF Composite, Accepted, IsAt, ServerInv, ServerRight, TasksRight
        <3> QED
            BY <3>1 DEF Alone
    <2>4. CASE Continued(t)
        <3>1. tasks[t] # None /\ tasks[t].todo # <<>> /\ Current(t).kind = "Continued"
            BY <2>4 DEF Continued, Accepted, IsAt
        <3>2. Current(t) \in Items
            BY <3>1, BusyTask DEF ServerInv, ServerRight
        <3>3. ~Current(t).completed
            BY <3>1, <3>2 DEF NothingCompleted, Items, EndOfComposite
        <3> QED
            BY <1>1, <2>4, <3>1, <3>3 DEF Continued
    <2> QED
        BY <1>3, <2>1, <2>2, <2>3, <2>4 DEF Process
<1>4. CASE Transaction(t)
    <2>1. tasks[t] # None
        BY <1>4
        DEF Transaction, TransactionFails, SignOn, Subscribe, ListAndSubscribe, Change,
            AddPartition, DeletePartition, InTransaction, IsAt
    <2>4. CASE TransactionFails(t) \/ SignOn(t)
        BY <2>1, <2>4, WaitsOnly DEF TransactionFails, SignOn, Commits, Aborts, Alone
    <2>5. CASE Subscribe(t) \/ ListAndSubscribe(t)
        BY <2>1, <2>5, WaitsOnly DEF Subscribe, ListAndSubscribe, Commits, Aborts, Alone
    <2>6. CASE Change(t) \/ AddPartition(t) \/ DeletePartition(t)
        BY <2>1, <2>6, WaitsOnly
        DEF Change, AddPartition, DeletePartition, NextVersion, Commits, Aborts, Alone
    <2> QED
        BY <1>4, <2>4, <2>5, <2>6 DEF Transaction
<1>5. CASE Answer(t)
    BY <1>1, <1>5
    DEF Answer, RequestAnswered, Failed, SendToSubscribers, SendPartitionAddedEvents,
        SendPartitionDeletedEvents, Tell, IsAt
<1>6. CASE Finish(t)
    BY <1>6 DEF Finish, Alone
<1> QED
    BY <1>3, <1>4, <1>5, <1>6 DEF TaskStep, Alone

LEMMA NextJob ==
    ASSUME ServerInv, NothingCompleted, OnlyJob, [Next]_vars
    PROVE  OnlyJob'
<1>0. DOMAIN tasks = TaskIds
    BY DEF ServerInv, ServerRight, TasksRight
<1>1. ASSUME NEW t \in TaskIds, TaskStep(t) PROVE OnlyJob'
    <2>1. PICK k : tasks' = [tasks EXCEPT ![t] = k] /\ tasks[t] # None
        BY <1>1, OnlyOwnTask
    <2>2. t = 0
        BY <2>1 DEF OnlyJob
    <2> QED
        BY <1>0, <2>1, <2>2 DEF OnlyJob
<1>2. CASE StartJob
    BY <1>0, <1>2 DEF StartJob, OnlyJob
<1>3. CASE UNCHANGED tasks
    BY <1>3 DEF OnlyJob
<1> QED
    BY <1>1, <1>2, <1>3 DEF Next, Connect, ClientClose, OnClose, OnMessage, vars

\* What RequestQueue.ts promises is kept as long as no split command is completed:
\* only then processDelta runs outside the queue.
THEOREM OneMessageAtATime == NothingCompleted /\ Spec => []OneAtATime
<1> DEFINE Inv == ServerInv /\ OnlyJob /\ NothingCompleted
<1>1. Init /\ NothingCompleted => Inv
    BY InitRegistry, InitServer DEF ServerInv, OnlyJob, Init, ServerInit
<1>2. Inv /\ [Next]_vars => Inv'
    BY NextServer, NextJob DEF NothingCompleted
<1>3. Inv => OneAtATime
    BY DEF OnlyJob, OneAtATime
<1> QED
    BY <1>1, <1>2, <1>3, PTL DEF Spec

(***************************************************************************)
(* The theorem.                                                            *)
(***************************************************************************)
LEMMA InitStep ==
    ASSUME Init
    PROVE  StepInv
<1>1. /\ activeSockets = [s \in Sockets |-> None] /\ oldParticipations = {}
      /\ queue = <<>> /\ eventBuffers = <<>> /\ tasks = [t \in TaskIds |-> None]
      /\ client = [p \in Sockets |-> NewClient]
    BY DEF Init, ParticipationInit, ServerInit
<1>2. allParticipations = {}
    BY <1>1 DEF allParticipations
<1>3. Busy(tasks) = {}
    BY <1>1 DEF Busy
<1>4. Len(queue) = 0 /\ Len(eventBuffers) = 0
    BY <1>1
<1>5. AllFollow /\ OldAreAway
    BY <1>1, <1>2 DEF AllFollow, OldAreAway, Live
<1>6. FreshClients
    BY <1>1, <1>4 DEF FreshClients
<1>7. RequestsAlone /\ SendersConnected
    BY <1>1, <1>4 DEF RequestsAlone, SendersConnected
<1>8. ActorsRight /\ AnswersRight
    BY <1>3 DEF ActorsRight, AnswersRight
<1> QED
    BY <1>5, <1>6, <1>7, <1>8 DEF StepInv

LEMMA ProcessFollows ==
    ASSUME ServerInv, StepInv, OneAtATime, OneRepository, CommandsOnly,
           NEW t \in TaskIds, Process(t)
    PROVE  StepInv'
BY NoParticipationFollows, InvalidFollows, NotSignedOnFollows, SignOffFollows,
   UnsubscribeFollows, SubscribeChangingFollows, ReconnectFollows, SignOnBeginsFollows,
   TransactionBeginsFollows, CompositeFollows, CompositeEndsFollows, SplitFollows,
   ContinuedRefusedFollows, ContinuedFollows
DEF Process

LEMMA TransactionsFollow ==
    ASSUME ServerInv, StepInv, OneAtATime, OneRepository, NEW t \in TaskIds, Transaction(t)
    PROVE  StepInv'
BY TransactionFailsFollows, SignOnFollows, SubscribeFollows, ListAndSubscribeFollows,
   ChangeFollows, AddPartitionFollows, DeletePartitionFollows
DEF Transaction

LEMMA AnswerFollows ==
    ASSUME ServerInv, StepInv, OneAtATime, OneRepository, NEW t \in TaskIds, Answer(t)
    PROVE  StepInv'
BY RequestAnsweredFollows, FailedFollows, SendToSubscribersFollows,
   SendPartitionAddedEventsFollows, SendPartitionDeletedEventsFollows
DEF Answer

\* Every step that begins when one message is processed at most.
LEMMA NextStep ==
    ASSUME ServerInv, StepInv, OneAtATime, OneRepository, CommandsOnly, [Next]_vars
    PROVE  StepInv'
<1>1. ASSUME NEW s \in Sockets, Connect(s) \/ ClientClose(s) \/ OnClose(s)
      PROVE  StepInv'
    BY <1>1, ConnectFollows, ClientCloseFollows, OnCloseFollows
<1>2. ASSUME NEW s \in Sockets, NEW m \in Messages, OnMessage(s, m) PROVE StepInv'
    BY <1>2, OnMessageFollows
<1>3. ASSUME NEW t \in TaskIds, TaskStep(t) PROVE StepInv'
    BY <1>3, ProcessFollows, TransactionsFollow, AnswerFollows, FinishFollows DEF TaskStep
<1>4. CASE StartJob
    BY <1>4, StartJobFollows
<1>5. CASE UNCHANGED vars
    <2>1. UNCHANGED <<activeSockets, oldParticipations, participations, connection, queue,
                      tasks, eventBuffers, database, client>>
        BY <1>5 DEF vars, participationVars
    <2>2. AllFollow' /\ OldAreAway' /\ FreshClients'
        BY <2>1, QuietObjects, TasksStayFollowing, QuietFollowing
    <2>3. RequestsAlone' /\ ActorsRight' /\ AnswersRight' /\ SendersConnected'
        BY <2>1 DEF StepInv, RequestsAlone, ActorsRight, Actor, AnswersRight, subscribed,
                    SendersConnected
    <2> QED
        BY <2>2, <2>3 DEF StepInv
<1> QED
    BY <1>1, <1>2, <1>3, <1>4, <1>5 DEF Next

\* What the invariant means when nothing is being processed.
LEMMA IdleInStep ==
    ASSUME ServerInv, StepInv
    PROVE  InStep
<1> SUFFICES ASSUME Idle, NEW p \in allParticipations,
                    participations[p].repositoryData # None,
                    connection[participations[p].socket] = "open", ~client[p].away
             PROVE  /\ "twice" \notin client[p].faults
                    /\ \A x \in Partitions : client[p].view[x] # None =>
                        /\ database[participations[p].repositoryData][x] =
                               [present |-> TRUE, version |-> client[p].view[x]]
                        /\ \A e \in client[p].missing : e[1] # x
    BY DEF InStep
<1>1. p \in created /\ p \in Sockets /\ Live(p)
    BY SocketsOnly DEF Live
<1>2. participations[p].repositoryData \in Repositories
    <2>1. participations[p] \in Participation
        BY <1>1, CreatedIsTyped DEF ServerInv, ServerRight
    <2> QED
        BY <2>1 DEF Participation
<1>3. eventBuffers = <<>>
    <2>1. tasks[0] = None
        BY JobId DEF Idle
    <2>2. Len(eventBuffers) = 0 /\ eventBuffers \in Seq([Sockets -> Seq(Events)])
        BY <2>1 DEF ServerInv, ServerRight, BuffersRight, BuffersTyped, Depth
    <2> QED
        BY <2>2, EmptySeq
<1>4. Awaited(tasks) = nothing
    <2>1. Telling(tasks) = {}
        BY DEF Idle, Telling, Busy
    <2> QED
        BY <2>1, NoneAwaited
<1>5. /\ client[p] \in Viewing(client[p].view, FALSE)
      /\ Agrees(subscribed(p), database, nothing, client[p].view)
    BY <1>1, <1>3, <1>4, LiveNow
<1>6. client[p].missing = {} /\ "twice" \notin client[p].faults
    BY <1>5 DEF Viewing
<1>7. \A x \in Partitions : client[p].view[x] # None =>
          \A r \in Repositories :
              database[r][x] = [present |-> TRUE, version |-> client[p].view[x]]
    BY <1>5 DEF Agrees, nothing
<1> QED
    BY <1>2, <1>6, <1>7

\* Whatever the clients of a repository send, and whichever commands fail: as
\* long as the queue processes one message at a time, as RequestQueue.ts says it
\* does, a client whose connection never broke has the database's version of
\* every partition it was given whenever the server is idle.
THEOREM ClientsKeepUp ==
    OneRepository /\ CommandsOnly /\ Spec /\ []OneAtATime => []InStep
<1> DEFINE Inv == ServerInv /\ StepInv /\ OneRepository /\ CommandsOnly
<1>1. Init /\ OneRepository /\ CommandsOnly => Inv
    BY InitRegistry, InitServer, InitStep DEF ServerInv
<1>2. Inv /\ OneAtATime /\ [Next]_vars => Inv'
    <2> SUFFICES ASSUME Inv, OneAtATime, [Next]_vars PROVE Inv'
        OBVIOUS
    <2>1. ServerInv'
        BY NextServer
    <2>2. StepInv'
        BY NextStep
    <2> QED
        BY <2>1, <2>2 DEF OneRepository, CommandsOnly
<1>3. Inv => InStep
    BY IdleInStep
<1> QED
    BY <1>1, <1>2, <1>3, PTL DEF Spec

\* Without completed split commands nothing is assumed of the behavior.
THEOREM ClientsKeepUpWithoutSplits ==
    OneRepository /\ CommandsOnly /\ NothingCompleted /\ Spec => []InStep
BY ClientsKeepUp, OneMessageAtATime, PTL
================================================================================
