------------------------------- MODULE Induction -------------------------------
(***************************************************************************)
(* Induction over the natural numbers for sets, which the proofs about     *)
(* recursive functions need: such a function exists, and its values stay   *)
(* in a set that its steps do not leave.                                   *)
(***************************************************************************)
EXTENDS FiniteSetTheorems, WellFoundedInduction, TLAPS

\* A set of natural numbers with 0 and all successors has all of them.
LEMMA SetOfNaturals ==
    ASSUME NEW S \in SUBSET Nat, 0 \in S, \A i \in S : i + 1 \in S
    PROVE  S = Nat
<1> DEFINE T == {0..n : n \in Nat \ S}
           F == FiniteSubsetsOf(Nat)
           L == StrictSubsetOrdering(Nat)
<1>1. SUFFICES ASSUME Nat \ S # {} PROVE FALSE
  OBVIOUS
<1>2. T \subseteq F
  <2>1. \A n \in Nat : IsFiniteSet(0..n)
    BY FS_Interval
  <2> QED
    BY <2>1 DEF FiniteSubsetsOf
<1>3. T # {}
  BY <1>1
<1>4. IsWellFoundedOn(L, F)
  BY FS_StrictSubsetOrderingWellFounded
<1>5. PICK x \in T : \A y \in T : ~(<<y, x>> \in L)
  <2> HIDE DEF T, F, L
  <2> QED
    BY <1>2, <1>3, <1>4, WFMin
<1>6. PICK n \in Nat \ S : x = 0..n
  OBVIOUS
<1>7. n - 1 \in Nat \ S
  BY <1>6
<1>8. <<0..(n - 1), x>> \in L
  <2>1. 0..(n - 1) \subseteq 0..n /\ 0..(n - 1) # 0..n
    BY <1>7
  <2>2. 0..(n - 1) \in SUBSET Nat /\ 0..n \in SUBSET Nat
    BY <1>7
  <2> QED
    BY <1>6, <2>1, <2>2 DEF StrictSubsetOrdering
<1> QED
  BY <1>5, <1>7, <1>8

\* The values of a recursive function are in S if the first one is and every
\* step stays there.
Steps(S, m, f) == \A i \in 1..m : f[i - 1] \in S => f[i] \in S

LEMMA StaysIn ==
    ASSUME NEW S, NEW m \in Nat, NEW f, f[0] \in S, Steps(S, m, f)
    PROVE  \A i \in 0..m : f[i] \in S
<1> DEFINE T == {i \in Nat : i <= m => f[i] \in S}
<1>1. 0 \in T
    OBVIOUS
<1>2. ASSUME NEW i \in T PROVE i + 1 \in T
    <2>1. SUFFICES ASSUME i + 1 <= m PROVE f[i + 1] \in S
        OBVIOUS
    <2>2. i + 1 \in 1..m /\ (i + 1) - 1 = i /\ f[i] \in S
        BY <2>1
    <2> QED
        BY <2>2 DEF Steps
<1>3. T = Nat
    <2> HIDE DEF T
    <2>1. T \in SUBSET Nat
        BY DEF T
    <2> QED
        BY <1>1, <1>2, <2>1, SetOfNaturals
<1> QED
    BY <1>3

\* The function whose value at 0 is `first', and at i the one that `step' makes of
\* the value at i - 1.
IsIterated(first, step, m, f) ==
    f = [i \in 0..m |-> IF i = 0 THEN first ELSE step[<<f[i - 1], i>>]]

LEMMA Iterated ==
    ASSUME NEW first, NEW step, NEW m \in Nat
    PROVE  \E f : IsIterated(first, step, m, f)
<1> DEFINE T == {k \in Nat : \E f : IsIterated(first, step, k, f)}
<1>1. 0 \in T
    <2> DEFINE f == [i \in 0..0 |-> first]
    <2>1. IsIterated(first, step, 0, f)
        BY DEF IsIterated
    <2> QED
        BY <2>1
<1>2. ASSUME NEW k \in T PROVE k + 1 \in T
    <2>1. k \in Nat
        OBVIOUS
    <2>2. PICK f : IsIterated(first, step, k, f)
        OBVIOUS
    <2> DEFINE next == [i \in 0..k + 1 |-> IF i = k + 1 THEN step[<<f[k], i>>] ELSE f[i]]
    <2>3. ASSUME NEW i \in 0..k + 1
          PROVE  next[i] = IF i = 0 THEN first ELSE step[<<next[i - 1], i>>]
        <3>1. CASE i = k + 1
            BY <2>1, <3>1
        <3>2. CASE i # k + 1
            <4>1. i \in 0..k /\ next[i] = f[i]
                BY <2>1, <3>2
            <4>2. i # 0 => next[i - 1] = f[i - 1]
                BY <2>1, <3>2
            <4>3. f[i] = IF i = 0 THEN first ELSE step[<<f[i - 1], i>>]
                BY <2>2, <4>1 DEF IsIterated
            <4> QED
                BY <4>1, <4>2, <4>3
        <3> QED
            BY <3>1, <3>2
    <2>4. next = [i \in 0..k + 1 |-> IF i = 0 THEN first ELSE step[<<next[i - 1], i>>]]
        BY <2>3
    <2>5. IsIterated(first, step, k + 1, next)
        <3> HIDE DEF next
        <3> QED
            BY <2>4 DEF IsIterated
    <2> QED
        BY <2>1, <2>5
<1>3. T = Nat
    <2> HIDE DEF T
    <2>1. T \in SUBSET Nat
        BY DEF T
    <2> QED
        BY <1>1, <1>2, <2>1, SetOfNaturals
<1> QED
    BY <1>3
================================================================================
