-------------------------------- MODULE ModelTree --------------------------------
(***************************************************************************)
(* What the names of the delta commands promise their clients: the nodes of*)
(* a repository are ordered trees, one for each partition, and a command   *)
(* adds, deletes, replaces or moves a node together with all that is below *)
(* it.  Nothing is said of tables, parent columns or queries: a node is    *)
(* where the list that names it is.                                        *)
(***************************************************************************)
EXTENDS Naturals, FiniteSets, SequencesExt, Overlay

CONSTANT Slots       \* where a node lists others: its containments, its annotations

VARIABLE lists       \* for each node that exists, the nodes in each of its slots

Listed(t, n) == UNION {ToSet(t[n][s]) : s \in Slots}

\* n and all that is below it.
Below(t, n) ==
    {m \in DOMAIN t : \A S \in SUBSET DOMAIN t :
        (n \in S /\ \A k \in S : Listed(t, k) \subseteq S) => m \in S}

Without(t, X) == Restrict(t, DOMAIN t \ X)

\* The places of lists: a slot of a node and a position.
Places(t) ==
    UNION {UNION {{[node |-> n, slot |-> s, at |-> i] : i \in 1..Len(t[n][s])} :
                      s \in Slots} : n \in DOMAIN t}

NodeAt(t, place) == t[place.node][place.slot][place.at]

Taken(t, place) == [t EXCEPT ![place.node][place.slot] = RemoveAt(@, place.at)]

Put(t, n, s, i, x) == [t EXCEPT ![n][s] = InsertAt(@, i, x)]

\* x takes the place of y, which goes with all that is below it.
Instead(t, x, y) ==
    LET place == CHOOSE p \in Places(t) : NodeAt(t, p) = y
    IN  Without([t EXCEPT ![place.node][place.slot][place.at] = x], Below(t, y))

\* The nodes that are new are one tree, and x is its root.
NewTree(x) ==
    LET new == Restrict(lists', DOMAIN lists' \ DOMAIN lists)
    IN  x \in DOMAIN new /\ Below(new, x) = DOMAIN new

New == Over(Restrict(lists', DOMAIN lists' \ DOMAIN lists), lists)

AddPartition ==
    \E x \in DOMAIN lists' : NewTree(x) /\ lists' = New

DeletePartition ==
    \E x \in DOMAIN lists :
        /\ \A n \in DOMAIN lists : x \notin Listed(lists, n)
        /\ lists' = Without(lists, Below(lists, x))

Add ==
    \E x \in DOMAIN lists', n \in DOMAIN lists, s \in Slots :
        /\ NewTree(x)
        /\ \E i \in 1..Len(lists[n][s]) + 1 : lists' = Put(New, n, s, i, x)

Delete ==
    \E place \in Places(lists) :
        lists' = Without(Taken(lists, place), Below(lists, NodeAt(lists, place)))

Replace ==
    \E x \in DOMAIN lists', place \in Places(lists) :
        NewTree(x) /\ lists' = Instead(New, x, NodeAt(lists, place))

\* A node goes anywhere but below itself.
Move ==
    \E place \in Places(lists) :
        LET x == NodeAt(lists, place) IN
        \E n \in DOMAIN lists \ Below(lists, x), s \in Slots :
        \E i \in 1..Len(Taken(lists, place)[n][s]) + 1 :
            lists' = Put(Taken(lists, place), n, s, i, x)

MoveAndReplace ==
    \E place, other \in Places(lists) :
        LET x == NodeAt(lists, place)
            y == NodeAt(lists, other)
        IN  /\ x \notin Below(lists, y)
            /\ y \notin Below(lists, x)
            /\ lists' = Instead(Taken(lists, place), x, y)

Init == lists = <<>>

Next ==
    \/ AddPartition \/ DeletePartition
    \/ Add \/ Delete \/ Replace
    \/ Move \/ MoveAndReplace

Spec == Init /\ [][Next]_lists
================================================================================
