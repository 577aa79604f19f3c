--------------------------- MODULE RequestQueueProofs ---------------------------
(***************************************************************************)
(* Proofs about RequestQueue, for every set of jobs.                       *)
(*                                                                         *)
(* The argument rests on IInv: the queue is the suffix of the submitted    *)
(* jobs that are not completed, exactly its head has been started beyond   *)
(* the completed ones, and the only loop awaits that head.                 *)
(***************************************************************************)
EXTENDS RequestQueue, SequenceTheorems, TLAPS

\* The queue holds the jobs submitted last.
QueueIsSuffix ==
    /\ Len(items) <= Len(submitted)
    /\ \A i \in 1..Len(items) :
           items[i] = submitted[Len(submitted) - Len(items) + i]

\* The completed jobs and the head of the queue, and no others, were started.
StartedUpToHead ==
    Len(started) = Len(submitted) - Len(items) + (IF isEmpty THEN 0 ELSE 1)

IInv ==
    /\ TypeOK
    /\ OneLoopOnTheHead
    /\ running \intersect settled = {}
    /\ QueueIsSuffix
    /\ StartedUpToHead
    /\ StartedInOrder

--------------------------------------------------------------------------------
(***************************************************************************)
(* The invariant.                                                          *)
(***************************************************************************)
\* The empty queue of a server that just started satisfies the invariant.
LEMMA InitIInv == Init => IInv
BY DEF Init, IInv, TypeOK, OneLoopOnTheHead, active, isEmpty, QueueIsSuffix,
       StartedUpToHead, StartedInOrder

\* add() keeps it: a second add() during an await finds the queue non-empty.
LEMMA AddIInv == ASSUME IInv, NEW j \in Jobs \union {NoJob}, Add(j) PROVE IInv'
<1>1. /\ j \in Jobs /\ settled' = settled
      /\ submitted' = Append(submitted, j) /\ items' = Append(items, j)
  BY DEF Add, Enqueue
<1>2. TypeOK
  BY DEF IInv
<1>3. /\ items \in Seq(Jobs) /\ items' \in Seq(Jobs)
      /\ Len(items) \in Nat /\ Len(items') = Len(items) + 1
      /\ \A i \in 1..Len(items) : items'[i] = items[i]
      /\ items'[Len(items) + 1] = j
  BY <1>1, <1>2, AppendProperties, LenProperties DEF TypeOK
<1>4. /\ submitted' \in Seq(Jobs)
      /\ Len(submitted) \in Nat /\ Len(submitted') = Len(submitted) + 1
      /\ \A i \in 1..Len(submitted) : submitted'[i] = submitted[i]
      /\ submitted'[Len(submitted) + 1] = j
  BY <1>1, <1>2, AppendProperties, LenProperties DEF TypeOK
<1>5. QueueIsSuffix'
  <2>1. QueueIsSuffix
    BY DEF IInv
  <2>2. ASSUME NEW i \in 1..Len(items')
        PROVE  items'[i] = submitted'[Len(submitted') - Len(items') + i]
    <3>1. CASE i \in 1..Len(items)
      BY <1>3, <1>4, <2>1, <3>1 DEF QueueIsSuffix
    <3>2. CASE i = Len(items) + 1
      BY <1>3, <1>4, <3>2
    <3>3. QED
      BY <1>3, <3>1, <3>2
  <2>3. QED
    BY <1>3, <1>4, <2>1, <2>2 DEF QueueIsSuffix
<1>6. items' # <<>>
  BY <1>3, EmptySeq
<1>7. StartedInOrder
  BY DEF IInv
<1>8. CASE items = <<>>
  <2>1. running' = running \union {j} /\ started' = Append(started, j)
    BY <1>8 DEF Add, Enqueue, StartHead, isEmpty
  <2>2. running = {} /\ settled = {}
    BY <1>8 DEF IInv, OneLoopOnTheHead, active, isEmpty
  <2>3. Head(items') = j
    BY <1>1, <1>8
  <2>4. /\ started' \in Seq(Jobs) /\ Len(started) \in Nat /\ Len(started') = Len(started) + 1
        /\ \A i \in 1..Len(started) : started'[i] = started[i]
        /\ started'[Len(started) + 1] = j
    BY <1>1, <1>2, <2>1, AppendProperties, LenProperties DEF TypeOK
  <2>5. Len(started) = Len(submitted) /\ Len(items) = 0
    BY <1>3, <1>4, <1>8, <2>4, EmptySeq DEF IInv, StartedUpToHead, isEmpty
  <2>6. StartedInOrder'
    BY <1>4, <1>7, <2>4, <2>5 DEF StartedInOrder
  <2>7. StartedUpToHead'
    BY <1>3, <1>4, <1>6, <2>4, <2>5 DEF StartedUpToHead, isEmpty
  <2>8. OneLoopOnTheHead' /\ (running \intersect settled = {})'
    BY <1>1, <1>6, <2>1, <2>2, <2>3 DEF OneLoopOnTheHead, active, isEmpty
  <2>9. TypeOK'
    BY <1>1, <1>2, <1>3, <1>4, <2>1, <2>4 DEF TypeOK
  <2>10. QED
    BY <1>5, <2>6, <2>7, <2>8, <2>9 DEF IInv
<1>9. CASE items # <<>>
  <2>1. running' = running /\ started' = started
    BY <1>9 DEF Add, Enqueue, isEmpty
  <2>2. Head(items') = Head(items)
    BY <1>1, <1>3, <1>9, <1>6, EmptySeq
  <2>3. Len(started) \in Nat
    BY <1>2 DEF TypeOK
  <2>4. StartedInOrder'
    BY <1>4, <1>7, <2>1, <2>3 DEF StartedInOrder
  <2>5. StartedUpToHead'
    BY <1>3, <1>4, <1>6, <1>9, <2>1 DEF IInv, StartedUpToHead, isEmpty
  <2>6. OneLoopOnTheHead' /\ (running \intersect settled = {})'
    BY <1>1, <1>6, <1>9, <2>1, <2>2 DEF IInv, OneLoopOnTheHead, active, isEmpty
  <2>7. TypeOK'
    BY <1>1, <1>2, <1>3, <1>4, <2>1 DEF TypeOK
  <2>8. QED
    BY <1>5, <2>4, <2>5, <2>6, <2>7 DEF IInv
<1>10. QED
  BY <1>8, <1>9

\* A job that settles stays at the head of the queue.
LEMMA SettleIInv == ASSUME IInv, NEW j \in Jobs, Settle(j) PROVE IInv'
BY DEF IInv, TypeOK, Settle, OneLoopOnTheHead, active, isEmpty, QueueIsSuffix,
       StartedUpToHead, StartedInOrder

\* The loop that resumes dequeues the job it awaited, and no other.
LEMMA ResumeIInv == ASSUME IInv, NEW j \in Jobs, Resume(j) PROVE IInv'
<1>1. /\ settled = {j} /\ running = {} /\ items # <<>>
      /\ settled' = {} /\ submitted' = submitted /\ items' = Tail(items)
  BY DEF IInv, Resume, OneLoopOnTheHead, active, isEmpty
<1>2. TypeOK /\ QueueIsSuffix /\ StartedInOrder
  BY DEF IInv
<1>3. /\ items' \in Seq(Jobs) /\ Len(items') = Len(items) - 1 /\ Len(items) >= 1
      /\ Len(items) \in Nat
      /\ \A i \in 1..Len(items') : items'[i] = items[i + 1]
  BY <1>1, <1>2, HeadTailProperties, EmptySeq DEF TypeOK
<1>4. Len(submitted) \in Nat /\ Len(started) \in Nat
  BY <1>2, LenProperties DEF TypeOK
<1>5. QueueIsSuffix'
  <2>1. ASSUME NEW i \in 1..Len(items')
        PROVE  items'[i] = submitted'[Len(submitted') - Len(items') + i]
    <3>1. i + 1 \in 1..Len(items) /\ items'[i] = items[i + 1]
      BY <1>3
    <3>2. items[i + 1] = submitted[Len(submitted) - Len(items) + (i + 1)]
      BY <1>2, <3>1 DEF QueueIsSuffix
    <3>3. Len(submitted) - Len(items) + (i + 1) = Len(submitted) - Len(items') + i
      BY <1>3, <1>4
    <3>4. QED
      BY <1>1, <3>1, <3>2, <3>3
  <2>2. QED
    BY <1>1, <1>2, <1>3, <1>4, <2>1 DEF QueueIsSuffix
<1>6. Len(started) = Len(submitted) - Len(items) + 1
  BY <1>1 DEF IInv, StartedUpToHead, isEmpty
<1>7. CASE Len(items) = 1
  <2>1. running' = running /\ started' = started
    BY <1>7 DEF Resume
  <2>2. items' = <<>>
    BY <1>3, <1>7, EmptySeq
  <2>3. TypeOK'
    BY <1>1, <1>2, <1>3, <2>1 DEF TypeOK
  <2>4. StartedInOrder'
    BY <1>1, <1>2, <2>1 DEF StartedInOrder
  <2>5. StartedUpToHead'
    <3>1. isEmpty'
      BY <2>2 DEF isEmpty
    <3>2. Len(started') = Len(submitted') - Len(items') /\ Len(started') \in Nat
      BY <1>1, <1>3, <1>4, <1>6, <2>1
    <3>3. Len(submitted') - Len(items') \in Int
      BY <1>1, <1>3, <1>4
    <3>4. QED
      BY <3>1, <3>2, <3>3 DEF StartedUpToHead
  <2>6. OneLoopOnTheHead' /\ (running \intersect settled = {})'
    BY <1>1, <2>1, <2>2 DEF OneLoopOnTheHead, active, isEmpty
  <2>7. QED
    BY <1>5, <2>3, <2>4, <2>5, <2>6 DEF IInv
<1>8. CASE Len(items) # 1
  <2>1. items' # <<>>
    BY <1>3, <1>8, EmptySeq
  <2>2. Head(items') = items'[1] /\ Head(items') \in Jobs
    BY <1>3, <2>1, HeadTailProperties
  <2>3. running' = running \union {Head(items')} /\ started' = Append(started, Head(items'))
    BY <1>1, <1>8 DEF Resume, StartHead
  <2>4. /\ started' \in Seq(Jobs) /\ Len(started') = Len(started) + 1
        /\ started'[Len(started) + 1] = Head(items')
        /\ \A i \in 1..Len(started) : started'[i] = started[i]
    BY <1>2, <2>2, <2>3, AppendProperties DEF TypeOK
  <2>5. Head(items') = submitted[Len(started) + 1]
    <3>1. items'[1] = submitted'[Len(submitted') - Len(items') + 1]
      BY <1>3, <1>5, <1>8 DEF QueueIsSuffix
    <3>2. Len(submitted) - Len(items') + 1 = Len(started) + 1
      BY <1>3, <1>4, <1>6
    <3>3. QED
      BY <1>1, <2>2, <3>1, <3>2
  <2>6. StartedInOrder'
    <3>1. Len(started') <= Len(submitted')
      BY <1>1, <1>3, <1>4, <1>6, <1>8, <2>4
    <3>2. ASSUME NEW i \in 1..Len(started') PROVE started'[i] = submitted'[i]
      <4>1. CASE i \in 1..Len(started)
        BY <1>1, <1>2, <2>4, <4>1 DEF StartedInOrder
      <4>2. CASE i = Len(started) + 1
        BY <1>1, <2>4, <2>5, <4>2
      <4>3. QED
        BY <1>4, <2>4, <4>1, <4>2
    <3>3. QED
      BY <3>1, <3>2 DEF StartedInOrder
  <2>7. StartedUpToHead'
    BY <1>1, <1>3, <1>4, <1>6, <2>1, <2>4 DEF StartedUpToHead, isEmpty
  <2>8. OneLoopOnTheHead' /\ (running \intersect settled = {})'
    BY <1>1, <2>1, <2>3 DEF OneLoopOnTheHead, active, isEmpty
  <2>9. TypeOK'
    BY <1>1, <1>2, <1>3, <2>2, <2>3, <2>4 DEF TypeOK
  <2>10. QED
    BY <1>5, <2>6, <2>7, <2>8, <2>9 DEF IInv
<1>9. QED
  BY <1>7, <1>8

\* Every reachable state satisfies the invariant.
LEMMA Invariance == Spec => []IInv
<1>1. IInv /\ [Next]_vars => IInv'
  <2>1. ASSUME IInv, UNCHANGED vars PROVE IInv'
    BY <2>1 DEF vars, IInv, TypeOK, OneLoopOnTheHead, active, isEmpty, QueueIsSuffix,
                StartedUpToHead, StartedInOrder
  <2>2. QED
    BY <2>1, AddIInv, SettleIInv, ResumeIInv DEF Next
<1>2. QED
  BY InitIInv, <1>1, PTL DEF Spec

\* No null job enters the queue and the variables keep their types.
THEOREM TypeCorrect == Spec => []TypeOK
BY Invariance, PTL DEF IInv

\* There is never a second drain loop, and a non-empty queue is never stuck.
THEOREM OneLoop == Spec => []OneLoopOnTheHead
BY Invariance, PTL DEF IInv

\* Jobs start in the order in which they were added, each of them once.
THEOREM Fifo == Spec => []StartedInOrder
BY Invariance, PTL DEF IInv

--------------------------------------------------------------------------------
(***************************************************************************)
(* The refinement.                                                         *)
(***************************************************************************)
\* Every step of the queue is a step of SerialExecution or a stutter.
THEOREM SerialSafety == Spec => Serial!Safety
<1>1. Init => Serial!Init
  BY DEF Init, Serial!Init, active
<1>2. IInv /\ [Next]_vars => [Serial!Next]_(Serial!vars)
  <2> SUFFICES ASSUME IInv, [Next]_vars PROVE [Serial!Next]_(Serial!vars)
    OBVIOUS
  <2> USE DEF IInv, TypeOK, isEmpty
  <2>1. ASSUME NEW j \in Jobs \union {NoJob}, Add(j) PROVE Serial!Submit(j) /\ j \in Jobs
    <3>1. /\ j \in Jobs /\ submitted' = Append(submitted, j) /\ IsFresh(j)
          /\ items' = Append(items, j) /\ settled' = settled
      BY <2>1 DEF Add, Enqueue
    <3>2. Len(items') = Len(items) + 1 /\ Len(submitted') = Len(submitted) + 1
      BY <3>1, AppendProperties
    <3>3. items = <<>> <=> Len(submitted) - Len(items) = Len(submitted)
      BY EmptySeq DEF QueueIsSuffix
    <3>4. active' = IF items = <<>> THEN {j} ELSE active
      BY <2>1, <3>1 DEF Add, Enqueue, StartHead, OneLoopOnTheHead, active
    <3>5. QED
      BY <3>1, <3>2, <3>3, <3>4 DEF Serial!Submit, IsFresh
  <2>2. ASSUME NEW j \in Jobs, Settle(j) PROVE UNCHANGED Serial!vars
    BY <2>2 DEF Settle, active, Serial!vars
  <2>3. ASSUME NEW j \in Jobs, Resume(j) PROVE Serial!Complete
    <3>1. IInv' /\ items # <<>> /\ items' = Tail(items) /\ submitted' = submitted
      BY <2>3, ResumeIInv DEF Resume, OneLoopOnTheHead, active
    <3>2. /\ items' \in Seq(Jobs)
          /\ Len(items') = Len(items) - 1 /\ Len(items) >= 1 /\ Len(items) \in Nat
          /\ Len(items) <= Len(submitted) /\ Len(submitted) \in Nat
      BY <3>1, HeadTailProperties, EmptySeq, LenProperties DEF QueueIsSuffix
    <3> HIDE DEF IInv, TypeOK, isEmpty
    <3>3. CASE Len(items) = 1
      <4>1. active' = {}
        BY <3>1, <3>2, <3>3, EmptySeq DEF IInv, OneLoopOnTheHead, isEmpty
      <4>2. QED
        BY <3>1, <3>2, <3>3, <4>1 DEF Serial!Complete
    <3>4. CASE Len(items) # 1
      <4>1. items' # <<>>
        BY <3>2, <3>4, EmptySeq
      <4>2. Head(items') = items'[1]
        BY <3>2, <4>1, HeadTailProperties
      <4>3. items'[1] = submitted'[Len(submitted') - Len(items') + 1]
        BY <3>1, <3>2, <3>4 DEF IInv, QueueIsSuffix
      <4>4. active' = {submitted[Len(submitted) - Len(items) + 2]}
        <5>1. Len(submitted) - Len(items') + 1 = Len(submitted) - Len(items) + 2
          BY <3>2
        <5>2. QED
          BY <3>1, <4>1, <4>2, <4>3, <5>1 DEF IInv, OneLoopOnTheHead, isEmpty
      <4>5. QED
        BY <3>1, <3>2, <3>4, <4>4 DEF Serial!Complete
    <3>5. QED
      BY <3>3, <3>4
  <2>4. CASE UNCHANGED vars
    BY <2>4 DEF vars, Serial!vars, active
  <2>5. QED
    BY <2>1, <2>2, <2>3, <2>4 DEF Next, Serial!Next
<1>3. QED
  BY <1>1, <1>2, Invariance, PTL DEF Spec, Serial!Safety
================================================================================
