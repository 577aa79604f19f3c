---------------------------- MODULE SerialExecution ----------------------------
(***************************************************************************)
(* What the server promises about the order of its clients' requests: they *)
(* are executed one at a time, in the order in which they arrive.  This is *)
(* the class comment of RequestQueue ("executes them one by one in the     *)
(* order they are put into the queue (FIFO)") as a state machine.          *)
(***************************************************************************)
EXTENDS Naturals, Sequences

CONSTANT Jobs        \* the requests clients may hand to the server

VARIABLES
    order,           \* every accepted request, in order of arrival
    completed,       \* how many of them are done
    executing        \* the set of requests being executed

vars == <<order, completed, executing>>

Init ==
    /\ order = <<>>
    /\ completed = 0
    /\ executing = {}

\* A request arrives; an idle server takes it up at once.
Submit(j) ==
    /\ \A i \in 1..Len(order) : order[i] # j
    /\ order' = Append(order, j)
    /\ executing' = IF completed = Len(order) THEN {j} ELSE executing
    /\ UNCHANGED completed

\* The oldest request is done; the next one, if any, is taken up.
Complete ==
    /\ completed < Len(order)
    /\ completed' = completed + 1
    /\ executing' = IF completed + 1 < Len(order) THEN {order[completed + 2]} ELSE {}
    /\ UNCHANGED order

Next ==
    \/ \E j \in Jobs : Submit(j)
    \/ Complete

Safety == Init /\ [][Next]_vars

Spec == Safety /\ WF_vars(Complete)
================================================================================
