---------------------------- MODULE RepositoryHistory ----------------------------
(***************************************************************************)
(* What a repository promises about its nodes and its versions: a command  *)
(* changes the node or the feature it names and nothing else, and begins a *)
(* new version; a repository with history still knows what it held in every*)
(* earlier version.                                                        *)
(***************************************************************************)
EXTENDS Integers, Functions, SequencesExt, Overlay

VARIABLES
    keeps,       \* whether the repository has history
    version,     \* its version
    current,     \* what it holds: the classifiers of nodes, and the values
                 \* of the properties and references <<node, feature>>
    past         \* what it held in each earlier version, with history

Empty == [nodes |-> <<>>, properties |-> <<>>, references |-> <<>>]

Of(f, N) == Restrict(f, {k \in DOMAIN f : k[1] \in N})

\* The part of content c that is about the nodes N.
About(c, N) ==
    [nodes |-> Restrict(c.nodes, N \intersect DOMAIN c.nodes),
     properties |-> Of(c.properties, N),
     references |-> Of(c.references, N)]

Commit(new) ==
    /\ current' = new
    /\ version' = version + 1
    /\ past' = IF keeps THEN Over(Only(version, current), past) ELSE past
    /\ UNCHANGED keeps

AddNode ==
    \E n \in DOMAIN current'.nodes \ DOMAIN current.nodes :
        LET old == DOMAIN current.nodes IN
        /\ Commit(current')
        /\ About(current', old) = current
        /\ About(current', old \union {n}) = current'

DeleteNode ==
    \E n \in DOMAIN current.nodes : Commit(About(current, DOMAIN current.nodes \ {n}))

SetClassifier ==
    \E n \in DOMAIN current.nodes :
        Commit([current EXCEPT !.nodes[n] = current'.nodes[n]])

\* A property of a node gets a value, another value, or none.
SetProperty ==
    \E n \in DOMAIN current.nodes, k \in DOMAIN current.properties \union DOMAIN current'.properties :
        LET others == DOMAIN current.properties \ {k}
            new == current'.properties
        IN  /\ k[1] = n
            /\ Commit([current EXCEPT !.properties = new])
            /\ new # current.properties
            /\ Restrict(new, DOMAIN new \ {k}) = Restrict(current.properties, others)

Targets(k) == IF k \in DOMAIN current.references THEN current.references[k] ELSE <<>>

\* A reference without targets is none.
WithTargets(k, s) ==
    IF s = <<>> THEN Restrict(current.references, DOMAIN current.references \ {k})
    ELSE Over(Only(k, s), current.references)

ReferencesNow == DOMAIN current.references \union DOMAIN current'.references

Refer(k, s) ==
    /\ k[1] \in DOMAIN current.nodes
    /\ Commit([current EXCEPT !.references = WithTargets(k, s)])

AddTarget ==
    \E k \in ReferencesNow : \E i \in 1..Len(Targets(k)) + 1 :
    \E x \in UNION {ToSet(current'.references[l]) : l \in DOMAIN current'.references} :
        Refer(k, InsertAt(Targets(k), i, x))

DeleteTarget ==
    \E k \in ReferencesNow : \E i \in DOMAIN Targets(k) : Refer(k, RemoveAt(Targets(k), i))

ChangeTarget ==
    \E k \in ReferencesNow : \E i \in DOMAIN Targets(k) :
    \E x \in UNION {ToSet(current'.references[l]) : l \in DOMAIN current'.references} :
        Refer(k, ReplaceAt(Targets(k), i, x))

Init == keeps \in BOOLEAN /\ version = 0 /\ current = Empty /\ past = <<>>

Next ==
    \/ AddNode \/ DeleteNode \/ SetClassifier \/ SetProperty
    \/ AddTarget \/ DeleteTarget \/ ChangeTarget

Spec == Init /\ [][Next]_<<keeps, version, current, past>>
================================================================================
