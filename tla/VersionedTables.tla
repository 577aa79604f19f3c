----------------------------- MODULE VersionedTables -----------------------------
(***************************************************************************)
(* The tables of a repository and what an INSERT, UPDATE or DELETE does to *)
(* them, with history (dbadmin/src/tools/init-schema-with-history.ts) and  *)
(* without (init-schema-without-history.ts).                               *)
(*                                                                         *)
(* With history a row is kept for ever and says in which versions of the   *)
(* repository it holds: from `from' to `to', which is Forever while it is  *)
(* current.  The name of the table is that of a view of the current rows,  *)
(* and statements on the view run the triggers modelled here.  Without     *)
(* history the rows have no versions; they are written here as rows that   *)
(* are current from version 0.                                             *)
(***************************************************************************)
EXTENDS Integers, FiniteSets

CONSTANT Forever       \* FOREVER, the version of rows that are current

ASSUME ForeverAssumption == Forever \in Nat

Row(k, first, x) == [key |-> k, from |-> first, to |-> Forever, value |-> x]

Keys(t) == {r.key : r \in t}

\* nodesForVersion() and its like; version Forever gives the view.
AsOf(t, v) == {r \in t : r.from <= v /\ r.to >= v}

Current(t) == {r \in t : r.to = Forever}

\* The rows of t as a function from keys to values.
Contents(t) == [k \in Keys(t) |-> (CHOOSE r \in t : r.key = k).value]

\* CurrentIsLastVersion: the row still holds in the version that ends it.
Close_Fault(r, v) == [r EXCEPT !.to = v]

\* PastAnswersStay: the row ends one version too early.
Close_TooEarly_Fault(r, v) == [r EXCEPT !.to = v - 2]

Close(r, v) == [r EXCEPT !.to = v - 1]

\* The current rows with a key in K end before version v: with history they are
\* closed, without it they are removed.
Ended(history, t, K, v) ==
    LET gone == {r \in Current(t) : r.key \in K}
    IN  (t \ gone) \union (IF history THEN {Close(r, v) : r \in gone} ELSE {})

Insert(history, t, k, x, v) == t \union {Row(k, IF history THEN v ELSE 0, x)}

InsertAll(history, t, new, v) ==
    t \union {Row(k, IF history THEN v ELSE 0, new[k]) : k \in DOMAIN new}

\* OneRowPerVersion: the old row stays current.
Update_Fault(history, t, k, x, v) ==
    IF k \in Keys(Current(t)) THEN Insert(history, t, k, x, v) ELSE t

\* The trigger runs for each row of the view that the statement selects.
Update(history, t, k, x, v) ==
    IF k \in Keys(Current(t)) THEN Insert(history, Ended(history, t, {k}, v), k, x, v)
    ELSE t

\* The keys of table t whose first part is in N.
OfNodes(t, N) == {k \in Keys(t) : k[1] \in N}

\* A DELETE that selects the keys K of a feature table, whose keys are
\* <<node, feature>>.  The trigger compares only the node of the row it runs for.
DeleteFeatures(history, t, K, v) ==
    LET N == {k[1] : k \in K \intersect Keys(Current(t))}
    IN  Ended(history, t, IF history THEN OfNodes(t, N) ELSE K, v)
================================================================================
