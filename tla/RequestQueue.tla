------------------------------ MODULE RequestQueue ------------------------------
(***************************************************************************)
(* The queue every HTTP request and every websocket message goes through   *)
(* (packages/common/src/apiutil/RequestQueue.ts).                          *)
(*                                                                         *)
(* The server is one JavaScript thread: code runs without interruption up  *)
(* to an await.  An add() that finds the queue empty becomes the drain     *)
(* loop: it starts the job at the head, awaits its promise, dequeues and   *)
(* goes on with the next one.  Every other add() only enqueues.  So the    *)
(* atomic steps are                                                        *)
(*   Add(j)     a call of add(), up to the await of the job it starts      *)
(*   Settle(j)  the promise of a running job resolves                      *)
(*   Resume(j)  the loop that awaits j continues: it dequeues, and starts  *)
(*              the next job or ends                                       *)
(* and a new request may arrive between any two of them.  The jobs that    *)
(* runWithTry and runWithTryDelta build catch every exception, so a        *)
(* promise resolves or stays pending; it is never rejected.                *)
(*                                                                         *)
(* An operator X_Fault is X with one plausible mistake, which the property *)
(* named beside it must notice.                                            *)
(***************************************************************************)
EXTENDS Naturals, Sequences

CONSTANTS
    Jobs,                \* the Job objects, one for each request
    NoJob                \* null or undefined

ASSUME NoJobAssumption == NoJob \notin Jobs

VARIABLES
    items,               \* BaseQueue.items
    running,             \* jobs started whose promise is pending
    settled,             \* jobs whose promise resolved, their loop not resumed
    submitted,           \* history: the jobs in the order of their add()
    started              \* history: the jobs in the order they were started

vars == <<items, running, settled, submitted, started>>

(***************************************************************************)
(* The operations of the queue.                                            *)
(***************************************************************************)
isEmpty == items = <<>>

\* Start the job at the head of the queue and await it.
StartHead(queue) ==
    /\ running' = running \union {Head(queue)}
    /\ started' = Append(started, Head(queue))

\* `new Job` makes a fresh object for each request.
IsFresh(j) == \A i \in 1..Len(submitted) : submitted[i] # j

Enqueue(j) ==
    /\ submitted' = Append(submitted, j)
    /\ items' = Append(items, j)
    /\ IF isEmpty THEN StartHead(<<j>>) ELSE UNCHANGED <<running, started>>
    /\ UNCHANGED settled

\* TypeOK: the early return for a null job is gone.
Add_Fault(j) == IsFresh(j) /\ Enqueue(j)

\* OneLoopOnTheHead: the job is dequeued before it is awaited.
Add_DequeueFirst_Fault(j) ==
    /\ j # NoJob
    /\ IsFresh(j)
    /\ submitted' = Append(submitted, j)
    /\ IF isEmpty THEN StartHead(<<j>>) /\ UNCHANGED items
                  ELSE items' = Append(items, j) /\ UNCHANGED <<running, started>>
    /\ UNCHANGED settled

\* ImplementsSerialExecution: every add() starts its own job.
Add_StartAll_Fault(j) ==
    /\ j # NoJob
    /\ IsFresh(j)
    /\ submitted' = Append(submitted, j)
    /\ items' = Append(items, j)
    /\ StartHead(<<j>>)
    /\ UNCHANGED settled

\* add(job): a null job has no effect.
Add(j) ==
    /\ j # NoJob
    /\ IsFresh(j)
    /\ Enqueue(j)

\* The work of job j is done: its promise resolves.
Settle(j) ==
    /\ j \in running
    /\ running' = running \ {j}
    /\ settled' = settled \union {j}
    /\ UNCHANGED <<items, submitted, started>>

\* StartedInOrder: dequeue() takes the last item (pop instead of shift).
Resume_Fault(j) ==
    /\ j \in settled
    /\ settled' = settled \ {j}
    /\ items' = SubSeq(items, 1, Len(items) - 1)
    /\ IF Len(items) = 1 THEN UNCHANGED <<running, started>>
                         ELSE StartHead(items)
    /\ UNCHANGED submitted

\* EveryJobIsDone: the loop ends although one more job waits.
Resume_EndsEarly_Fault(j) ==
    /\ j \in settled
    /\ settled' = settled \ {j}
    /\ items' = Tail(items)
    /\ IF Len(items) <= 2 THEN UNCHANGED <<running, started>>
                          ELSE StartHead(Tail(items))
    /\ UNCHANGED submitted

\* The loop awaiting j dequeues "only after the job has been done".
Resume(j) ==
    /\ j \in settled
    /\ settled' = settled \ {j}
    /\ items' = Tail(items)
    /\ IF Len(items) = 1 THEN UNCHANGED <<running, started>>
                         ELSE StartHead(Tail(items))
    /\ UNCHANGED submitted

Init ==
    /\ items = <<>>
    /\ running = {}
    /\ settled = {}
    /\ submitted = <<>>
    /\ started = <<>>

Next ==
    \/ \E j \in Jobs \union {NoJob} : Add(j)
    \/ \E j \in Jobs : Settle(j)
    \/ \E j \in Jobs : Resume(j)

\* Node runs the continuation of a resolved promise; a job settles because
\* the database answers every statement or fails it.
Fairness == \A j \in Jobs : WF_vars(Settle(j)) /\ WF_vars(Resume(j))

Spec == Init /\ [][Next]_vars /\ Fairness

(***************************************************************************)
(* Properties.                                                             *)
(***************************************************************************)
\* The types of the variables; no null job is ever in the queue.
TypeOK ==
    /\ items \in Seq(Jobs)
    /\ running \subseteq Jobs
    /\ settled \subseteq Jobs
    /\ submitted \in Seq(Jobs)
    /\ started \in Seq(Jobs)

active == running \union settled       \* the jobs some loop is awaiting

\* At most one loop drains the queue, it awaits the job at the head, and a
\* queue with jobs in it has such a loop: no add() made during an await
\* starts a second loop, and no job is left behind when the loop ends.
OneLoopOnTheHead ==
    active = IF isEmpty THEN {} ELSE {Head(items)}

\* Jobs start in the order of their add() (FIFO), each of them once, and
\* none overtakes another that still waits.
StartedInOrder ==
    /\ Len(started) <= Len(submitted)
    /\ \A i \in 1..Len(started) : started[i] = submitted[i]

\* A job that was added is done in the end, whatever arrives meanwhile.
EveryJobIsDone ==
    \A j \in Jobs :
        (\E i \in 1..Len(submitted) : submitted[i] = j)
            ~> (j \notin active /\ \E i \in 1..Len(started) : started[i] = j)

\* The queue executes requests one at a time in their order of arrival; a job
\* counts as completed when its loop has dequeued it.
Serial == INSTANCE SerialExecution
    WITH order <- submitted, completed <- Len(submitted) - Len(items), executing <- active

ImplementsSerialExecution == Serial!Spec
================================================================================
