---------------------------- MODULE NodeTreeLemmas ----------------------------
(***************************************************************************)
(* What the proofs about NodeTree rest on.  First, facts that say nothing  *)
(* of its tables and commands: what the uses of splice() in the commands do*)
(* to a list; subtrees by the parents of nodes; and forests, where parents *)
(* and lists say the same, with the three changes that every command is    *)
(* made of: a subtree goes (Prune), a tree comes (Graft), a subtree goes   *)
(* to another place (Transfer).                                            *)
(*                                                                         *)
(* Then the tables of NodeTree as a forest, what the SQL statements do to  *)
(* the tables, and that each way in which a command changes the lists and  *)
(* the parent columns keeps the tree.  All of it is about any two tables t *)
(* (of nodes) and k (of containments): a command applies several statements*)
(* to the tables, one after the other.                                     *)
(***************************************************************************)
EXTENDS NodeTree, Induction, SequenceTheorems, TLAPS

(***************************************************************************)
(* Lists.                                                                  *)
(***************************************************************************)
\* What a list names, and that it names nothing twice.
Entries(s) == {s[i] : i \in 1..Len(s)}

OnceEach(s) == \A i, j \in 1..Len(s) : s[i] = s[j] => i = j

--------------------------------------------------------------------------------
(***************************************************************************)
(* splice().                                                               *)
(***************************************************************************)
\* What splice() returns is a list of what it is given, whatever the index.
LEMMA SpliceType ==
    ASSUME NEW S, NEW s \in Seq(S), NEW start \in Int, NEW n \in Nat, NEW items \in Seq(S)
    PROVE  Splice(s, start, n, items) \in Seq(S)
<1> DEFINE len == Len(s)
           from == CASE start >= 0 /\ start <= len -> start
                     [] start > len -> len
                     [] start < 0 /\ len + start >= 0 -> len + start
                     [] OTHER -> 0
<1>1. len \in Nat /\ \A i \in 1..len : s[i] \in S
  BY LenProperties, ElementOfSeq
<1>2. from \in 0..len
  BY <1>1
<1>3. Splice(s, start, n, items) = SubSeq(s, 1, from) \o items \o SubSeq(s, from + n + 1, len)
  BY DEF Splice
<1> HIDE DEF from, len
<1>4. SubSeq(s, 1, from) \in Seq(S)
  BY <1>1, <1>2, SubSeqProperties
<1>5. SubSeq(s, from + n + 1, len) \in Seq(S)
  BY <1>1, <1>2, SubSeqProperties
<1> QED
  BY <1>3, <1>4, <1>5, ConcatProperties

\* The splices of the commands, and the combination of two.
LEMMA SpliceTypes ==
    ASSUME NEW S, NEW s \in Seq(S), NEW i \in Int, NEW x \in S
    PROVE  /\ Splice(s, i, 0, <<x>>) \in Seq(S)
           /\ Splice(s, i, 1, <<x>>) \in Seq(S)
           /\ Splice(s, i, 1, <<>>) \in Seq(S)
<1>1. \A n \in Nat, items \in Seq(S) : Splice(s, i, n, items) \in Seq(S)
  BY SpliceType
<1>2. <<x>> \in Seq(S) /\ <<>> \in Seq(S) /\ 0 \in Nat /\ 1 \in Nat
  BY EmptySeq
<1> QED
  BY <1>1, <1>2

\* The same of the two calls of splice() of a move that replaces.
LEMMA MovedAndReplacedType ==
    ASSUME NEW S, NEW s \in Seq(S), NEW i \in Int, NEW offset \in Int, NEW x \in S
    PROVE  MovedAndReplaced(s, i, offset, x) \in Seq(S)
<1> DEFINE t == Splice(s, i, 1, <<>>)
           j == IF offset < 0 THEN i + offset ELSE i + offset - 1
<1>1. t \in Seq(S)
  BY SpliceTypes
<1>2. j \in Int
  OBVIOUS
<1>3. MovedAndReplaced(s, i, offset, x) = Splice(t, j, 1, <<x>>)
  BY DEF MovedAndReplaced
<1> HIDE DEF t, j
<1> QED
  BY <1>1, <1>2, <1>3, SpliceTypes

\* For an index in the list splice() replaces the n elements that follow it.
Replaces(S, s, i, n, items, r) ==
    /\ r \in Seq(S)
    /\ Len(r) = Len(s) - n + Len(items)
    /\ \A q \in 1..Len(s) - n + Len(items) :
           r[q] = IF q <= i THEN s[q]
                  ELSE IF q <= i + Len(items) THEN items[q - i]
                  ELSE s[q - Len(items) + n]

\* splice() at an index of the list, with nothing beyond its end.
LEMMA SpliceAt ==
    ASSUME NEW S, NEW s \in Seq(S), NEW items \in Seq(S),
           NEW i \in Nat, NEW n \in Nat, i + n <= Len(s)
    PROVE  Replaces(S, s, i, n, items, Splice(s, i, n, items))
<1>1. Len(s) \in Nat /\ Len(items) \in Nat /\ \A q \in 1..Len(s) : s[q] \in S
  BY LenProperties, ElementOfSeq
<1> DEFINE a == SubSeq(s, 1, i)
           b == SubSeq(s, i + n + 1, Len(s))
<1>2. Splice(s, i, n, items) = a \o items \o b
  <2> DEFINE from == CASE i >= 0 /\ i <= Len(s) -> i
                       [] i > Len(s) -> Len(s)
                       [] i < 0 /\ Len(s) + i >= 0 -> Len(s) + i
                       [] OTHER -> 0
  <2>1. Splice(s, i, n, items) = SubSeq(s, 1, from) \o items \o SubSeq(s, from + n + 1, Len(s))
    BY DEF Splice
  <2>2. from = i
    BY <1>1
  <2> HIDE DEF from
  <2> QED
    BY <2>1, <2>2
<1>3. /\ a \in Seq(S)
      /\ Len(a) = i
      /\ \A q \in 1..i : a[q] = s[q]
  BY <1>1, SubSeqProperties
<1>4. /\ b \in Seq(S)
      /\ Len(b) = Len(s) - i - n
      /\ \A q \in 1..Len(s) - i - n : b[q] = s[i + n + q]
  <2>1. i + n + 1 \in Int /\ Len(s) \in Int /\ \A q \in i + n + 1..Len(s) : s[q] \in S
    BY <1>1
  <2>2. /\ b \in Seq(S)
        /\ Len(b) = IF i + n + 1 <= Len(s) THEN Len(s) - (i + n + 1) + 1 ELSE 0
        /\ \A q \in 1..Len(s) - (i + n + 1) + 1 : b[q] = s[i + n + 1 + q - 1]
    BY <2>1, SubSeqProperties
  <2> QED
    BY <2>2, <1>1
<1> HIDE DEF a, b
<1> DEFINE ab == a \o items
           abc == ab \o b
           k == Len(items)
           len == Len(s)
<1>5. /\ ab \in Seq(S)
      /\ Len(ab) = i + k
      /\ \A q \in 1..i + k : ab[q] = IF q <= i THEN a[q] ELSE items[q - i]
  BY <1>3, ConcatProperties
<1> HIDE DEF ab
<1>6. /\ abc \in Seq(S)
      /\ Len(abc) = Len(ab) + Len(b)
      /\ \A q \in 1..Len(ab) + Len(b) : abc[q] = IF q <= Len(ab) THEN ab[q] ELSE b[q - Len(ab)]
  <2>3. ab \in Seq(S) /\ b \in Seq(S)
    BY <1>4, <1>5
  <2>1. abc \in Seq(S) /\ Len(abc) = Len(ab) + Len(b)
    BY <2>3, ConcatProperties
  <2>2. ASSUME NEW q \in 1..Len(ab) + Len(b)
        PROVE  abc[q] = IF q <= Len(ab) THEN ab[q] ELSE b[q - Len(ab)]
    BY <2>3, ConcatProperties
  <2> QED
    BY <2>1, <2>2
<1>8. Splice(s, i, n, items) = abc
  BY <1>2 DEF ab
<1> HIDE DEF abc
<1>9. len \in Nat /\ k \in Nat /\ i \in 0..len /\ n \in 0..len - i
  BY <1>1
<1>10. Len(ab) = i + k /\ Len(b) = len - i - n /\ Len(abc) = len - n + k
  BY <1>4, <1>5, <1>6, <1>9
<1>7. ASSUME NEW q \in 1..len - n + k
      PROVE  abc[q] = IF q <= i THEN s[q] ELSE IF q <= i + k THEN items[q - i] ELSE s[q - k + n]
  <2> HIDE DEF k, len
  <2>1. q \in 1..i + k + (len - i - n)
    BY <1>9
  <2>2. CASE q <= i
    <3>1. abc[q] = ab[q] /\ ab[q] = a[q] /\ a[q] = s[q]
      BY <2>1, <2>2, <1>3, <1>5, <1>6, <1>9, <1>10
    <3> QED
      BY <3>1, <2>2
  <2>3. CASE q > i /\ q <= i + k
    <3>1. abc[q] = ab[q] /\ ab[q] = items[q - i]
      BY <2>1, <2>3, <1>5, <1>6, <1>9, <1>10
    <3> QED
      BY <3>1, <2>3, <1>9
  <2>4. CASE q > i + k
    <3>1. abc[q] = b[q - (i + k)]
      BY <2>1, <2>4, <1>6, <1>9, <1>10
    <3>2. q - (i + k) \in 1..len - i - n
      BY <2>1, <2>4, <1>9
    <3>3. b[q - (i + k)] = s[i + n + (q - (i + k))]
      BY <3>2, <1>4 DEF len
    <3>4. i + n + (q - (i + k)) = q - k + n
      BY <1>9
    <3> QED
      BY <3>1, <3>3, <3>4, <2>4, <1>9
  <2> QED
    BY <2>2, <2>3, <2>4, <1>9
<1> QED
  BY <1>6, <1>7, <1>8, <1>10 DEF Replaces

\* A start that is not an index of the list stands for one that is.
LEMMA SpliceFrom ==
    ASSUME NEW S, NEW s \in Seq(S), NEW start \in Int, NEW n \in Nat, NEW items \in Seq(S)
    PROVE  \E i \in 0..Len(s) : Splice(s, start, n, items) = Splice(s, i, n, items)
<1> DEFINE len == Len(s)
           from(i) == CASE i >= 0 /\ i <= len -> i
                        [] i > len -> len
                        [] i < 0 /\ len + i >= 0 -> len + i
                        [] OTHER -> 0
<1>1. len \in Nat
  BY LenProperties
<1>2. \A i \in Int : from(i) \in 0..len
  BY <1>1
<1>3. \A i \in 0..len : from(i) = i
  BY <1>1
<1>4. \A i : Splice(s, i, n, items) = SubSeq(s, 1, from(i)) \o items \o SubSeq(s, from(i) + n + 1, len)
  BY DEF Splice
<1> HIDE DEF from
<1>5. Splice(s, start, n, items) = Splice(s, from(start), n, items)
  <2>1. from(from(start)) = from(start)
    BY <1>2, <1>3
  <2> QED
    BY <2>1, <1>4
<1> QED
  BY <1>2, <1>5

\* r is s with x inserted, one element removed, one replaced by x; i counts from 0.
InsertedAt(S, s, i, x, r) ==
    /\ r \in Seq(S)
    /\ Len(r) = Len(s) + 1
    /\ \A q \in 1..Len(s) + 1 :
           r[q] = IF q <= i THEN s[q] ELSE IF q = i + 1 THEN x ELSE s[q - 1]

RemovedAt(S, s, i, r) ==
    /\ r \in Seq(S)
    /\ Len(r) = Len(s) - 1
    /\ \A q \in 1..Len(s) - 1 : r[q] = IF q <= i THEN s[q] ELSE s[q + 1]

ReplacedAt(S, s, i, x, r) ==
    /\ r \in Seq(S)
    /\ Len(r) = Len(s)
    /\ \A q \in 1..Len(s) : r[q] = IF q = i + 1 THEN x ELSE s[q]

\* splice(i, 0, x), splice(i, 1) and splice(i, 1, x) at an index of the list.
LEMMA InsertAtIndex ==
    ASSUME NEW S, NEW s \in Seq(S), NEW i \in Nat, i <= Len(s), NEW x \in S
    PROVE  InsertedAt(S, s, i, x, Splice(s, i, 0, <<x>>))
<1> DEFINE one == <<x>>
<1>1. one \in Seq(S) /\ Len(one) = 1 /\ one[1] = x
  OBVIOUS
<1>2. Len(s) \in Nat
  BY LenProperties
<1>9. one \in Seq(S)
  BY <1>1
<1> HIDE DEF one
<1>3. ASSUME NEW n \in Nat, i + n <= Len(s)
      PROVE  Replaces(S, s, i, n, one, Splice(s, i, n, one))
  BY <1>9, <1>3, SpliceAt
<1>5. 0 \in Nat /\ i + 0 <= Len(s)
  BY <1>2
<1> DEFINE r == Splice(s, i, 0, one)
<1>6. /\ r \in Seq(S)
      /\ Len(r) = Len(s) - 0 + Len(one)
      /\ \A q \in 1..Len(s) - 0 + Len(one) :
             r[q] = IF q <= i THEN s[q]
                    ELSE IF q <= i + Len(one) THEN one[q - i]
                    ELSE s[q - Len(one) + 0]
  BY <1>3, <1>5 DEF Replaces
<1> HIDE DEF r
<1>7. Len(r) = Len(s) + 1
  BY <1>1, <1>2, <1>6
<1>8. ASSUME NEW q \in 1..Len(s) + 1
      PROVE  r[q] = IF q <= i THEN s[q] ELSE IF q = i + 1 THEN x ELSE s[q - 1]
  <2>1. r[q] = IF q <= i THEN s[q] ELSE IF q <= i + 1 THEN one[q - i] ELSE s[q - 1 + 0]
    BY <1>1, <1>2, <1>6
  <2>2. q = i + 1 => one[q - i] = x
    BY <1>1
  <2> QED
    BY <2>1, <2>2, <1>2
<1> QED
  BY <1>6, <1>7, <1>8 DEF InsertedAt, r, one

\* The second of them.
LEMMA RemoveAtIndex ==
    ASSUME NEW S, NEW s \in Seq(S), NEW i \in Nat, i < Len(s)
    PROVE  RemovedAt(S, s, i, Splice(s, i, 1, <<>>))
<1> DEFINE nil == <<>>
<1>1. nil \in Seq(S) /\ Len(nil) = 0
  BY EmptySeq
<1>2. Len(s) \in Nat
  BY LenProperties
<1>9. nil \in Seq(S)
  BY <1>1
<1> HIDE DEF nil
<1>3. ASSUME NEW n \in Nat, i + n <= Len(s)
      PROVE  Replaces(S, s, i, n, nil, Splice(s, i, n, nil))
  BY <1>9, <1>3, SpliceAt
<1>5. 1 \in Nat /\ i + 1 <= Len(s)
  BY <1>2
<1> DEFINE r == Splice(s, i, 1, nil)
<1>6. /\ r \in Seq(S)
      /\ Len(r) = Len(s) - 1 + Len(nil)
      /\ \A q \in 1..Len(s) - 1 + Len(nil) :
             r[q] = IF q <= i THEN s[q]
                    ELSE IF q <= i + Len(nil) THEN nil[q - i]
                    ELSE s[q - Len(nil) + 1]
  BY <1>3, <1>5 DEF Replaces
<1> HIDE DEF r
<1>7. Len(r) = Len(s) - 1
  BY <1>1, <1>2, <1>6
<1>8. ASSUME NEW q \in 1..Len(s) - 1
      PROVE  r[q] = IF q <= i THEN s[q] ELSE s[q + 1]
  <2>1. r[q] = IF q <= i THEN s[q] ELSE IF q <= i + 0 THEN nil[q - i] ELSE s[q - 0 + 1]
    BY <1>1, <1>2, <1>6
  <2> QED
    BY <2>1, <1>2
<1> QED
  BY <1>6, <1>7, <1>8 DEF RemovedAt, r, nil

\* The third.
LEMMA ReplaceAtIndex ==
    ASSUME NEW S, NEW s \in Seq(S), NEW i \in Nat, i < Len(s), NEW x \in S
    PROVE  ReplacedAt(S, s, i, x, Splice(s, i, 1, <<x>>))
<1> DEFINE one == <<x>>
<1>1. one \in Seq(S) /\ Len(one) = 1 /\ one[1] = x
  OBVIOUS
<1>2. Len(s) \in Nat
  BY LenProperties
<1>9. one \in Seq(S)
  BY <1>1
<1> HIDE DEF one
<1>3. ASSUME NEW n \in Nat, i + n <= Len(s)
      PROVE  Replaces(S, s, i, n, one, Splice(s, i, n, one))
  BY <1>9, <1>3, SpliceAt
<1>5. 1 \in Nat /\ i + 1 <= Len(s)
  BY <1>2
<1> DEFINE r == Splice(s, i, 1, one)
<1>6. /\ r \in Seq(S)
      /\ Len(r) = Len(s) - 1 + Len(one)
      /\ \A q \in 1..Len(s) - 1 + Len(one) :
             r[q] = IF q <= i THEN s[q]
                    ELSE IF q <= i + Len(one) THEN one[q - i]
                    ELSE s[q - Len(one) + 1]
  BY <1>3, <1>5 DEF Replaces
<1> HIDE DEF r
<1>7. Len(r) = Len(s)
  BY <1>1, <1>2, <1>6
<1>8. ASSUME NEW q \in 1..Len(s)
      PROVE  r[q] = IF q = i + 1 THEN x ELSE s[q]
  <2>1. r[q] = IF q <= i THEN s[q] ELSE IF q <= i + 1 THEN one[q - i] ELSE s[q - 1 + 1]
    BY <1>1, <1>2, <1>6
  <2>2. q = i + 1 => one[q - i] = x
    BY <1>1
  <2> QED
    BY <2>1, <2>2, <1>2
<1> QED
  BY <1>6, <1>7, <1>8 DEF ReplacedAt, r, one

\* Inserted, wherever the index says.
LEMMA SpliceInserts ==
    ASSUME NEW S, NEW s \in Seq(S), NEW start \in Int, NEW x \in S
    PROVE  /\ Entries(Splice(s, start, 0, <<x>>)) = Entries(s) \union {x}
           /\ OnceEach(s) /\ x \notin Entries(s) => OnceEach(Splice(s, start, 0, <<x>>))
<1> DEFINE one == <<x>>
<1>1. one \in Seq(S) /\ Len(one) = 1 /\ one[1] = x
  OBVIOUS
<1> HIDE DEF one
<1>2. PICK i \in 0..Len(s) : Splice(s, start, 0, one) = Splice(s, i, 0, one)
  <2>1. ASSUME NEW m \in Nat, NEW items \in Seq(S)
        PROVE  \E i \in 0..Len(s) : Splice(s, start, m, items) = Splice(s, i, m, items)
    BY SpliceFrom, ZenonT(30)
  <2> QED
    BY <1>1, <2>1
<1>3. Len(s) \in Nat
  BY LenProperties
<1> DEFINE r == Splice(s, i, 0, one)
           len == Len(s)
<1>6. Len(r) = len + 1 /\ \A q \in 1..len + 1 :
          r[q] = IF q <= i THEN s[q] ELSE IF q = i + 1 THEN x ELSE s[q - 1]
  <2>1. i \in Nat /\ i <= Len(s)
    BY <1>3
  <2> QED
    BY <2>1, InsertAtIndex DEF one, InsertedAt
<1> HIDE DEF r
<1>12. len \in Nat /\ i \in 0..len
  BY <1>3
<1> HIDE DEF len
<1> USE <1>12
<1>7. ASSUME NEW q \in 1..len + 1 PROVE r[q] \in Entries(s) \union {x}
  <2>1. q <= i => q \in 1..len
    BY DEF len
  <2>2. q > i + 1 => q - 1 \in 1..len
    BY DEF len
  <2> QED
    BY <2>1, <2>2, <1>6 DEF Entries, len
<1>8. ASSUME NEW q \in 1..len PROVE \E p \in 1..len + 1 : r[p] = s[q]
  <2>1. CASE q <= i
    BY <2>1, <1>6 DEF len
  <2>2. CASE q > i
    <3>1. q + 1 \in 1..len + 1 /\ r[q + 1] = s[q + 1 - 1]
      BY <2>2, <1>6 DEF len
    <3>2. q + 1 - 1 = q
      OBVIOUS
    <3> QED
      BY <3>1, <3>2
  <2> QED
    BY <2>1, <2>2 DEF len
<1>9. i + 1 \in 1..len + 1 /\ r[i + 1] = x
  BY <1>6 DEF len
<1>10. Entries(r) = Entries(s) \union {x}
  <2>1. Entries(r) = {r[q] : q \in 1..len + 1}
    BY <1>6 DEF Entries
  <2>2. Entries(s) = {s[q] : q \in 1..len}
    BY DEF Entries, len
  <2> QED
    BY <2>1, <2>2, <1>7, <1>8, <1>9
<1>11. ASSUME OnceEach(s), x \notin Entries(s),
              NEW p \in 1..len + 1, NEW q \in 1..len + 1, r[p] = r[q]
       PROVE  p = q
  <2>1. \A k \in 1..len : s[k] # x
    BY <1>11 DEF Entries, len
  <2>2. \A k, l \in 1..len : s[k] = s[l] => k = l
    BY <1>11 DEF OnceEach, len
  <2> QED
    BY <2>1, <2>2, <1>6, <1>11 DEF len
<1> QED
  BY <1>2, <1>6, <1>10, <1>11 DEF OnceEach, r, len, one

\* Removed.
LEMMA SpliceRemoves ==
    ASSUME NEW S, NEW s \in Seq(S), NEW i \in Nat, i < Len(s), OnceEach(s)
    PROVE  /\ RemovedAt(S, s, i, Splice(s, i, 1, <<>>))
           /\ Entries(Splice(s, i, 1, <<>>)) = Entries(s) \ {s[i + 1]}
           /\ OnceEach(Splice(s, i, 1, <<>>))
<1>3. Len(s) \in Nat
  BY LenProperties
<1> DEFINE r == Splice(s, i, 1, <<>>)
           len == Len(s)
<1>4. len \in Nat /\ 1 \in 0..len - i /\ i \in 0..len /\ i \in 0..len - 1
  BY <1>3
<1>6. r \in Seq(S) /\ Len(r) = len - 1 /\ \A q \in 1..len - 1 : r[q] = IF q <= i THEN s[q] ELSE s[q + 1]
  BY RemoveAtIndex DEF RemovedAt
<1> HIDE DEF r
<1>7. \A k, l \in 1..len : s[k] = s[l] => k = l
  BY DEF OnceEach
<1> HIDE DEF len
<1>8. ASSUME NEW q \in 1..len - 1 PROVE r[q] \in Entries(s) \ {s[i + 1]}
  <2>1. q <= i => q \in 1..len /\ q # i + 1
    BY <1>3, <1>4
  <2>2. q > i => q + 1 \in 1..len /\ q + 1 # i + 1
    BY <1>3, <1>4
  <2>3. i + 1 \in 1..len
    BY <1>3, <1>4
  <2> QED
    BY <2>1, <2>2, <2>3, <1>3, <1>4, <1>6, <1>7 DEF Entries, len
<1>9. ASSUME NEW q \in 1..len, q # i + 1 PROVE \E p \in 1..len - 1 : r[p] = s[q]
  <2>1. CASE q <= i
    BY <2>1, <1>3, <1>6 DEF len
  <2>2. CASE q > i + 1
    <3>1. q - 1 \in 1..len - 1 /\ r[q - 1] = s[q - 1 + 1]
      BY <2>2, <1>3, <1>6 DEF len
    <3>2. q - 1 + 1 = q
      OBVIOUS
    <3> QED
      BY <3>1, <3>2
  <2> QED
    BY <2>1, <2>2, <1>9, <1>3 DEF len
<1>10. Entries(r) = Entries(s) \ {s[i + 1]}
  <2>1. Entries(r) = {r[q] : q \in 1..len - 1}
    BY <1>6 DEF Entries
  <2>2. Entries(s) = {s[q] : q \in 1..len}
    BY DEF Entries, len
  <2>3. ASSUME NEW q \in 1..len, s[q] # s[i + 1] PROVE s[q] \in Entries(r)
    BY <2>1, <2>3, <1>9
  <2> QED
    BY <2>1, <2>2, <2>3, <1>8
<1>11. ASSUME NEW p \in 1..len - 1, NEW q \in 1..len - 1, r[p] = r[q]
       PROVE  p = q
  BY <1>11, <1>3, <1>4, <1>6, <1>7
<1> QED
  BY <1>6, <1>10, <1>11 DEF OnceEach, RemovedAt, r, len

\* Replaced.
LEMMA SpliceReplaces ==
    ASSUME NEW S, NEW s \in Seq(S), NEW i \in Nat, i < Len(s), NEW x \in S,
           OnceEach(s), x \notin Entries(s) \ {s[i + 1]}
    PROVE  /\ Entries(Splice(s, i, 1, <<x>>)) = (Entries(s) \ {s[i + 1]}) \union {x}
           /\ OnceEach(Splice(s, i, 1, <<x>>))
<1> DEFINE r == Splice(s, i, 1, <<x>>)
           len == Len(s)
<1>1. len \in Nat /\ i + 1 \in 1..len
  BY LenProperties
<1>2. Len(r) = len /\ \A q \in 1..len : r[q] = IF q = i + 1 THEN x ELSE s[q]
  BY ReplaceAtIndex DEF ReplacedAt
<1> HIDE DEF r
<1>3. \A k, l \in 1..len : s[k] = s[l] => k = l
  BY DEF OnceEach
<1>4. Entries(r) = {r[q] : q \in 1..len}
  BY <1>2 DEF Entries
<1>5. Entries(s) = {s[q] : q \in 1..len}
  BY DEF Entries
<1> HIDE DEF len
<1>6. \A q \in 1..len : q # i + 1 => s[q] # x /\ s[q] # s[i + 1]
  <2>1. \A q \in 1..len : q # i + 1 => s[q] # s[i + 1]
    BY <1>1, <1>3
  <2> QED
    BY <2>1, <1>5
<1>7. Entries(r) = (Entries(s) \ {s[i + 1]}) \union {x}
  <2>1. ASSUME NEW q \in 1..len PROVE r[q] \in (Entries(s) \ {s[i + 1]}) \union {x}
    BY <1>2, <1>5, <1>6
  <2>2. ASSUME NEW q \in 1..len, s[q] # s[i + 1] PROVE s[q] \in Entries(r)
    <3>1. q # i + 1
      BY <2>2
    <3>2. r[q] = s[q]
      BY <3>1, <1>2
    <3> QED
      BY <3>2, <1>4
  <2>3. x \in Entries(r)
    BY <1>1, <1>2, <1>4
  <2> QED
    BY <2>1, <2>2, <2>3, <1>4, <1>5
<1>8. \A p, q \in 1..len : r[p] = r[q] => p = q
  BY <1>2, <1>3, <1>6
<1> QED
  BY <1>2, <1>7, <1>8 DEF OnceEach, r

\* In one list, the entry at i takes the place of the one at j and leaves its own.
LEMMA SpliceMovesOver ==
    ASSUME NEW S, NEW s \in Seq(S), OnceEach(s),
           NEW i \in Nat, i < Len(s), NEW j \in Nat, j < Len(s), i # j,
           NEW r, r = Splice(Splice(s, j, 1, <<s[i + 1]>>), i, 1, <<>>)
    PROVE  Entries(r) = Entries(s) \ {s[j + 1]} /\ OnceEach(r)
<1> DEFINE len == Len(s)
           x == s[i + 1]
           t == Splice(s, j, 1, <<x>>)
<1>1. len \in Nat /\ i + 1 \in 1..len /\ j + 1 \in 1..len /\ x \in S
  BY LenProperties, ElementOfSeq
<1>2. t \in Seq(S) /\ Len(t) = len /\ \A q \in 1..len : t[q] = IF q = j + 1 THEN x ELSE s[q]
  <2>1. ReplacedAt(S, s, j, x, t)
    <3> HIDE DEF x
    <3> QED
      BY <1>1, ReplaceAtIndex
  <2> QED
    BY <2>1 DEF ReplacedAt
<1>3. r = Splice(t, i, 1, <<>>)
  OBVIOUS
<1> HIDE DEF t
<1>4. Len(r) = len - 1 /\ \A q \in 1..len - 1 : r[q] = IF q <= i THEN t[q] ELSE t[q + 1]
  BY <1>1, <1>2, <1>3, RemoveAtIndex DEF RemovedAt
<1>5. \A k, l \in 1..len : s[k] = s[l] => k = l
  BY DEF OnceEach
<1>6. Entries(r) = {r[q] : q \in 1..len - 1}
  BY <1>4 DEF Entries
<1>7. Entries(s) = {s[q] : q \in 1..len}
  BY DEF Entries
\* Where the entries of r are in s.
<1> DEFINE at(q) == LET p == IF q <= i THEN q ELSE q + 1 IN IF p = j + 1 THEN i + 1 ELSE p
<1>10. i \in Nat /\ j \in Nat /\ i # j
  OBVIOUS
<1> HIDE DEF len
<1>8. ASSUME NEW q \in 1..len - 1
      PROVE  at(q) \in 1..len /\ at(q) # j + 1 /\ r[q] = s[at(q)]
  <2> DEFINE p == IF q <= i THEN q ELSE q + 1
  <2>1. p \in 1..len /\ p # i + 1
    BY <1>1
  <2>2. r[q] = t[p]
    BY <1>4
  <2>3. t[p] = IF p = j + 1 THEN x ELSE s[p]
    BY <1>2, <2>1
  <2>4. at(q) = IF p = j + 1 THEN i + 1 ELSE p
    OBVIOUS
  <2> HIDE DEF p, at
  <2> QED
    BY <2>1, <2>2, <2>3, <2>4, <1>1, <1>10
<1>9. ASSUME NEW q \in 1..len, q # j + 1
      PROVE  \E p \in 1..len - 1 : at(p) = q
  <2> DEFINE m == IF q = i + 1 THEN j + 1 ELSE q
             p == IF m <= i THEN m ELSE m - 1
  <2>1. m \in 1..len /\ m # i + 1
    BY <1>1, <1>10
  <2>2. p \in 1..len - 1 /\ (IF p <= i THEN p ELSE p + 1) = m
    <3> HIDE DEF m
    <3> QED
      BY <2>1, <1>1
  <2>3. at(p) = IF m = j + 1 THEN i + 1 ELSE m
    BY <2>2
  <2>4. (IF m = j + 1 THEN i + 1 ELSE m) = q
    BY <1>9
  <2> HIDE DEF at, p, m
  <2> QED
    BY <2>2, <2>3, <2>4
<1>11. ASSUME NEW p \in 1..len - 1, NEW q \in 1..len - 1, at(p) = at(q) PROVE p = q
  BY <1>1, <1>10, <1>11
<1> HIDE DEF at
<1>12. Entries(r) = Entries(s) \ {s[j + 1]}
  <2>1. ASSUME NEW q \in 1..len - 1 PROVE r[q] \in Entries(s) \ {s[j + 1]}
    BY <1>1, <1>5, <1>7, <1>8
  <2>2. ASSUME NEW q \in 1..len, s[q] # s[j + 1] PROVE s[q] \in Entries(r)
    <3>1. PICK p \in 1..len - 1 : at(p) = q
      BY <2>2, <1>9
    <3> QED
      BY <3>1, <1>6, <1>8
  <2> QED
    BY <2>1, <2>2, <1>6, <1>7
<1>13. \A p, q \in 1..len - 1 : r[p] = r[q] => p = q
  BY <1>5, <1>8, <1>11
<1> QED
  BY <1>4, <1>12, <1>13 DEF OnceEach

\* The same in the order of MovedAndReplaced.
LEMMA MovesAndReplaces ==
    ASSUME NEW S, NEW s \in Seq(S), OnceEach(s),
           NEW i \in Nat, i < Len(s), NEW j \in Nat, j < Len(s), i # j,
           NEW r, r = MovedAndReplaced(s, i, j - i, s[i + 1])
    PROVE  Entries(r) = Entries(s) \ {s[j + 1]} /\ OnceEach(r)
<1> DEFINE len == Len(s)
           x == s[i + 1]
           t == Splice(s, i, 1, <<>>)
           k == IF j < i THEN j ELSE j - 1
<1>1. len \in Nat /\ i + 1 \in 1..len /\ j + 1 \in 1..len /\ x \in S
  BY LenProperties, ElementOfSeq
<1>2. /\ t \in Seq(S)
      /\ Len(t) = len - 1
      /\ \A q \in 1..len - 1 : t[q] = IF q <= i THEN s[q] ELSE s[q + 1]
      /\ Entries(t) = Entries(s) \ {x}
      /\ OnceEach(t)
  BY SpliceRemoves DEF RemovedAt
<1>3. r = Splice(t, k, 1, <<x>>)
  <2>1. (IF j - i < 0 THEN i + (j - i) ELSE i + (j - i) - 1) = k
    OBVIOUS
  <2>2. r = Splice(t, IF j - i < 0 THEN i + (j - i) ELSE i + (j - i) - 1, 1, <<x>>)
    BY DEF MovedAndReplaced
  <2> HIDE DEF k, t, x
  <2> QED
    BY <2>1, <2>2
<1>4. k \in Nat /\ k < Len(t) /\ t[k + 1] = s[j + 1]
  <2>1. k \in Nat /\ k + 1 \in 1..len - 1
    BY <1>1
  <2>2. t[k + 1] = IF k + 1 <= i THEN s[k + 1] ELSE s[k + 1 + 1]
    BY <1>2, <2>1
  <2>3. (IF k + 1 <= i THEN k + 1 ELSE k + 1 + 1) = j + 1
    OBVIOUS
  <2> HIDE DEF t, k
  <2> QED
    BY <2>1, <2>2, <2>3, <1>1, <1>2
<1>5. x # s[j + 1] /\ x \in Entries(s) /\ x \notin Entries(t)
  BY <1>1, <1>2 DEF OnceEach, Entries
<1> HIDE DEF t, k, x
<1>6. x \notin Entries(t) \ {t[k + 1]}
  BY <1>5
<1>7. Entries(r) = (Entries(t) \ {t[k + 1]}) \union {x} /\ OnceEach(r)
  BY <1>1, <1>2, <1>3, <1>4, <1>6, SpliceReplaces
<1> QED
  BY <1>2, <1>4, <1>5, <1>7

--------------------------------------------------------------------------------
(***************************************************************************)
(* Subtrees, of a function P from nodes to their parents.                  *)
(***************************************************************************)
\* n and the nodes below it: Subtree(n), of any such function.
Under(P, n) ==
    {m \in DOMAIN P : \A X \in SUBSET DOMAIN P :
        ({n} \intersect DOMAIN P) \union {k \in DOMAIN P : P[k] \in X} \subseteq X => m \in X}

\* A subtree contains its root, and the children of all that it contains.
LEMMA UnderClosed ==
    ASSUME NEW P, NEW n
    PROVE  /\ Under(P, n) \in SUBSET DOMAIN P
           /\ n \in DOMAIN P => n \in Under(P, n)
           /\ \A m \in DOMAIN P : P[m] \in Under(P, n) => m \in Under(P, n)
<1>1. Under(P, n) \in SUBSET DOMAIN P /\ (n \in DOMAIN P => n \in Under(P, n))
  BY DEF Under
<1>2. ASSUME NEW m \in DOMAIN P, P[m] \in Under(P, n),
             NEW X \in SUBSET DOMAIN P,
             ({n} \intersect DOMAIN P) \union {k \in DOMAIN P : P[k] \in X} \subseteq X
      PROVE  m \in X
  <2>1. P[m] \in X
    BY <1>2 DEF Under
  <2> QED
    BY <1>2, <2>1
<1> QED
  BY <1>1, <1>2 DEF Under

\* It is the smallest set that does.
LEMMA UnderLeast ==
    ASSUME NEW P, NEW n, NEW X, n \in X, \A m \in DOMAIN P : P[m] \in X => m \in X
    PROVE  Under(P, n) \subseteq X
<1> DEFINE Y == X \intersect DOMAIN P
<1>1. Y \in SUBSET DOMAIN P
  OBVIOUS
<1>2. ({n} \intersect DOMAIN P) \union {k \in DOMAIN P : P[k] \in Y} \subseteq Y
  OBVIOUS
<1> HIDE DEF Y
<1>3. Under(P, n) \subseteq Y
  BY <1>1, <1>2 DEF Under
<1> QED
  BY <1>3 DEF Y

\* Every node of it but the root has its parent in it, and its own subtree too.
LEMMA UnderParts ==
    ASSUME NEW P, NEW n, NEW m \in Under(P, n)
    PROVE  /\ m # n => P[m] \in Under(P, n)
           /\ Under(P, m) \subseteq Under(P, n)
<1>1. m # n => P[m] \in Under(P, n)
  <2> DEFINE X == {n} \union {k \in Under(P, n) : P[k] \in Under(P, n)}
  <2>1. ASSUME NEW k \in DOMAIN P, P[k] \in X PROVE k \in X
    <3>1. n \in DOMAIN P
      <4>1. CASE n \in DOMAIN P
        BY <4>1
      <4>2. CASE n \notin DOMAIN P
        <5>1. {} \in SUBSET DOMAIN P /\ ({n} \intersect DOMAIN P) \union {j \in DOMAIN P : P[j] \in {}} \subseteq {}
          BY <4>2
        <5> QED
          BY <5>1 DEF Under
      <4> QED
        BY <4>1, <4>2
    <3>2. P[k] \in Under(P, n)
      BY <2>1, <3>1, UnderClosed
    <3> QED
      BY <3>2, UnderClosed
  <2>2. n \in X
    OBVIOUS
  <2> HIDE DEF X
  <2>3. Under(P, n) \subseteq X
    BY <2>1, <2>2, UnderLeast
  <2> QED
    BY <2>3 DEF X
<1>2. Under(P, m) \subseteq Under(P, n)
  <2>1. \A k \in DOMAIN P : P[k] \in Under(P, n) => k \in Under(P, n)
    BY UnderClosed
  <2> QED
    BY <2>1, UnderLeast
<1> QED
  BY <1>1, <1>2

--------------------------------------------------------------------------------
(***************************************************************************)
(* Forests: the parents P of the nodes, and what each slot of a node       *)
(* names.  The three changes of a forest from which all commands are made. *)
(***************************************************************************)
\* Where a node lists others.
Slots == Containments \union {Annotations}

\* A parent exists.
Parents(P) == \A m \in DOMAIN P : P[m] \in DOMAIN P \union {None}

\* Who is listed by n has n as its parent.
ParentsNameWhatListsSay(P, L) ==
    \A n \in DOMAIN P, s \in Slots : \A x \in L[<<n, s>>] : x \in DOMAIN P /\ P[x] = n

\* A node that has a parent is listed by it.
ChildrenAreListed(P, L) ==
    \A x \in DOMAIN P : P[x] # None => \E s \in Slots : x \in L[<<P[x], s>>]

\* In one slot.
InOneSlot(P, L) ==
    \A n \in DOMAIN P, s, r \in Slots : s # r => L[<<n, s>>] \intersect L[<<n, r>>] = {}

\* No node is below itself.
Acyclic(P) == \A m \in DOMAIN P : P[m] \notin Under(P, m)

Forest(P, L) ==
    /\ None \notin DOMAIN P
    /\ Parents(P)
    /\ ParentsNameWhatListsSay(P, L)
    /\ ChildrenAreListed(P, L)
    /\ InOneSlot(P, L)
    /\ Acyclic(P)

\* The subtree of y goes, and y from the lists.
Pruned(P, L, y, Q, M) ==
    /\ y \in DOMAIN P
    /\ DOMAIN Q = DOMAIN P \ Under(P, y)
    /\ \A m \in DOMAIN Q : Q[m] = P[m]
    /\ \A n \in DOMAIN Q, s \in Slots : M[<<n, s>>] = L[<<n, s>>] \ {y}

\* A new tree comes: a, and nodes below a that the slots of a name.  It comes to
\* slot u of p, or is a partition.
Grafted(P, L, N, a, p, u, Q, M) ==
    /\ N \intersect DOMAIN P = {}
    /\ None \notin N
    /\ a \in N
    /\ p \in DOMAIN P \union {None}
    /\ p # None => u \in Slots
    /\ DOMAIN Q = DOMAIN P \union N
    /\ \A m \in DOMAIN P : Q[m] = P[m]
    /\ Q[a] = p
    /\ \A b \in N \ {a} : Q[b] = a
    /\ \A n \in DOMAIN P, s \in Slots :
           M[<<n, s>>] = L[<<n, s>>] \union (IF n = p /\ s = u THEN {a} ELSE {})
    /\ \A s \in Slots : M[<<a, s>>] \subseteq N \ {a}
    /\ \A b \in N \ {a} : \E s \in Slots : b \in M[<<a, s>>]
    /\ \A s, r \in Slots : s # r => M[<<a, s>>] \intersect M[<<a, r>>] = {}
    /\ \A b \in N \ {a}, s \in Slots : M[<<b, s>>] = {}

\* x leaves its slot for slot u of `new', which is not below x.
Transferred(P, L, x, new, u, Q, M) ==
    /\ x \in DOMAIN P
    /\ P[x] # None
    /\ new \in DOMAIN P
    /\ new \notin Under(P, x)
    /\ u \in Slots
    /\ DOMAIN Q = DOMAIN P
    /\ \A m \in DOMAIN P : Q[m] = IF m = x THEN new ELSE P[m]
    /\ \A n \in DOMAIN P, s \in Slots :
           M[<<n, s>>] = (L[<<n, s>>] \ {x}) \union (IF n = new /\ s = u THEN {x} ELSE {})

\* A forest without a subtree is a forest.
LEMMA Prune ==
    ASSUME NEW P, NEW L, Forest(P, L), NEW y, NEW Q, NEW M, Pruned(P, L, y, Q, M)
    PROVE  Forest(Q, M)
<1> USE DEF Pruned
<1> DEFINE gone == Under(P, y)
<1>1. gone \in SUBSET DOMAIN P /\ y \in gone /\ \A m \in DOMAIN P : P[m] \in gone => m \in gone
  BY UnderClosed
<1>2. \A m \in gone : m # y => P[m] \in gone
  BY UnderParts
<1> HIDE DEF gone
<1>3. DOMAIN Q = DOMAIN P \ gone
  BY DEF gone
<1>4. None \notin DOMAIN Q /\ Parents(Q)
  BY <1>1, <1>3 DEF Forest, Parents
<1>5. ParentsNameWhatListsSay(Q, M)
  <2>1. ASSUME NEW n \in DOMAIN Q, NEW s \in Slots, NEW x \in M[<<n, s>>]
        PROVE  x \in DOMAIN Q /\ Q[x] = n
    <3>1. x \in L[<<n, s>>] /\ x # y
      BY <2>1
    <3>2. x \in DOMAIN P /\ P[x] = n
      BY <3>1, <1>3 DEF Forest, ParentsNameWhatListsSay
    <3>3. x \notin gone
      BY <3>1, <3>2, <1>2, <1>3
    <3> QED
      BY <3>2, <3>3, <1>3
  <2> QED
    BY <2>1 DEF ParentsNameWhatListsSay
<1>6. ChildrenAreListed(Q, M)
  <2>1. ASSUME NEW x \in DOMAIN Q, Q[x] # None
        PROVE  \E s \in Slots : x \in M[<<Q[x], s>>]
    <3>1. x \in DOMAIN P /\ P[x] = Q[x] /\ P[x] \in DOMAIN Q
      BY <2>1, <1>3, <1>4 DEF Parents
    <3>2. PICK s \in Slots : x \in L[<<P[x], s>>]
      BY <2>1, <3>1 DEF Forest, ChildrenAreListed
    <3>3. x # y
      BY <1>1, <1>3
    <3> QED
      BY <3>1, <3>2, <3>3
  <2> QED
    BY <2>1 DEF ChildrenAreListed
<1>7. InOneSlot(Q, M)
  <2>1. ASSUME NEW n \in DOMAIN Q, NEW s \in Slots, NEW r \in Slots, s # r
        PROVE  M[<<n, s>>] \intersect M[<<n, r>>] = {}
    <3>1. L[<<n, s>>] \intersect L[<<n, r>>] = {}
      BY <2>1, <1>3 DEF Forest, InOneSlot
    <3> QED
      BY <3>1
  <2> QED
    BY <2>1 DEF InOneSlot
<1>8. Acyclic(Q)
  <2>1. ASSUME NEW m \in DOMAIN Q PROVE Q[m] \notin Under(Q, m)
    <3>1. m \in Under(P, m) /\ \A k \in DOMAIN P : P[k] \in Under(P, m) => k \in Under(P, m)
      BY <1>3, UnderClosed
    <3>2. \A k \in DOMAIN Q : Q[k] \in Under(P, m) => k \in Under(P, m)
      BY <3>1, <1>3
    <3>3. Under(Q, m) \subseteq Under(P, m)
      BY <3>1, <3>2, UnderLeast
    <3> QED
      BY <3>3, <1>3 DEF Forest, Acyclic
  <2> QED
    BY <2>1 DEF Acyclic
<1> QED
  BY <1>4, <1>5, <1>6, <1>7, <1>8 DEF Forest

\* A forest with a new tree is a forest.
LEMMA Graft ==
    ASSUME NEW P, NEW L, Forest(P, L), NEW N, NEW a, NEW p, NEW u, NEW Q, NEW M,
           Grafted(P, L, N, a, p, u, Q, M)
    PROVE  Forest(Q, M)
<1> USE DEF Grafted
<1>1. None \notin DOMAIN Q /\ Parents(Q)
  <2>1. ASSUME NEW m \in DOMAIN Q PROVE Q[m] \in DOMAIN Q \union {None}
    BY DEF Forest, Parents
  <2> QED
    BY <2>1 DEF Forest, Parents
<1>2. ParentsNameWhatListsSay(Q, M)
  <2>1. ASSUME NEW n \in DOMAIN Q, NEW s \in Slots, NEW x \in M[<<n, s>>]
        PROVE  x \in DOMAIN Q /\ Q[x] = n
    <3>1. CASE n \in DOMAIN P /\ x \in L[<<n, s>>]
      <4>1. x \in DOMAIN P /\ P[x] = n
        BY <3>1 DEF Forest, ParentsNameWhatListsSay
      <4> QED
        BY <4>1
    <3>2. CASE n \in DOMAIN P /\ x \notin L[<<n, s>>]
      <4>1. x = a /\ n = p
        BY <3>2
      <4> QED
        BY <4>1
    <3>3. CASE n = a
      BY <3>3
    <3>4. CASE n \in N \ {a}
      BY <3>4
    <3> QED
      BY <3>1, <3>2, <3>3, <3>4
  <2> QED
    BY <2>1 DEF ParentsNameWhatListsSay
<1>3. ChildrenAreListed(Q, M)
  <2>1. ASSUME NEW x \in DOMAIN Q, Q[x] # None
        PROVE  \E s \in Slots : x \in M[<<Q[x], s>>]
    <3>1. CASE x \in DOMAIN P
      <4>1. P[x] \in DOMAIN P /\ P[x] = Q[x]
        BY <2>1, <3>1 DEF Forest, Parents
      <4>2. PICK s \in Slots : x \in L[<<P[x], s>>]
        BY <2>1, <3>1, <4>1 DEF Forest, ChildrenAreListed
      <4> QED
        BY <4>1, <4>2
    <3>2. CASE x = a
      <4>1. p \in DOMAIN P /\ u \in Slots
        BY <2>1, <3>2
      <4>2. a \in M[<<p, u>>]
        BY <4>1
      <4> QED
        BY <3>2, <4>1, <4>2
    <3>3. CASE x \in N \ {a}
      BY <3>3
    <3> QED
      BY <3>1, <3>2, <3>3
  <2> QED
    BY <2>1 DEF ChildrenAreListed
<1>4. InOneSlot(Q, M)
  <2>1. ASSUME NEW n \in DOMAIN Q, NEW s \in Slots, NEW r \in Slots, s # r
        PROVE  M[<<n, s>>] \intersect M[<<n, r>>] = {}
    <3>1. CASE n \in DOMAIN P
      <4>1. L[<<n, s>>] \intersect L[<<n, r>>] = {}
        BY <2>1, <3>1 DEF Forest, InOneSlot
      <4>2. a \notin L[<<n, s>>] /\ a \notin L[<<n, r>>]
        BY <3>1 DEF Forest, ParentsNameWhatListsSay
      <4> QED
        BY <2>1, <3>1, <4>1, <4>2
    <3>2. CASE n = a
      BY <2>1, <3>2
    <3>3. CASE n \in N \ {a}
      BY <3>3
    <3> QED
      BY <3>1, <3>2, <3>3
  <2> QED
    BY <2>1 DEF InOneSlot
<1>5. Acyclic(Q)
  <2>1. ASSUME NEW m \in DOMAIN Q PROVE Q[m] \notin Under(Q, m)
    <3>1. CASE m \in DOMAIN P
      <4> DEFINE X == Under(P, m) \union N
      <4>1. m \in X /\ \A k \in DOMAIN P : P[k] \in Under(P, m) => k \in Under(P, m)
        BY <3>1, UnderClosed
      <4>2. \A k \in DOMAIN Q : Q[k] \in X => k \in X
        <5>1. ASSUME NEW k \in DOMAIN P, Q[k] \in X PROVE k \in X
          <6>1. Q[k] = P[k] /\ P[k] \notin N
            BY DEF Forest, Parents
          <6> QED
            BY <5>1, <6>1, <4>1
        <5> QED
          BY <5>1
      <4>3. Under(Q, m) \subseteq X
        <5> HIDE DEF X
        <5> QED
          BY <4>1, <4>2, UnderLeast
      <4>4. P[m] \notin N /\ P[m] \notin Under(P, m) /\ Q[m] = P[m]
        BY <3>1 DEF Forest, Acyclic, Parents
      <4> QED
        BY <4>3, <4>4
    <3>2. CASE m = a
      <4>1. \A k \in DOMAIN Q : Q[k] \in N => k \in N
        BY DEF Forest, Parents
      <4>2. Under(Q, m) \subseteq N
        BY <3>2, <4>1, UnderLeast
      <4> QED
        BY <3>2, <4>2
    <3>3. CASE m \in N \ {a}
      <4> DEFINE X == {m}
      <4>1. m \in X /\ \A k \in DOMAIN Q : Q[k] \in X => k \in X
        BY <3>3 DEF Forest, Parents
      <4>2. Under(Q, m) \subseteq X
        <5> HIDE DEF X
        <5> QED
          BY <4>1, UnderLeast
      <4> QED
        BY <3>3, <4>2
    <3> QED
      BY <3>1, <3>2, <3>3
  <2> QED
    BY <2>1 DEF Acyclic
<1> QED
  BY <1>1, <1>2, <1>3, <1>4, <1>5 DEF Forest

\* A forest where a subtree goes to a place outside of it is a forest.
LEMMA Transfer ==
    ASSUME NEW P, NEW L, Forest(P, L), NEW x, NEW new, NEW u, NEW Q, NEW M,
           Transferred(P, L, x, new, u, Q, M)
    PROVE  Forest(Q, M)
<1> USE DEF Transferred
<1>1. None \notin DOMAIN Q /\ Parents(Q)
  BY DEF Forest, Parents
<1>2. ParentsNameWhatListsSay(Q, M)
  <2>1. ASSUME NEW n \in DOMAIN P, NEW s \in Slots, NEW k \in M[<<n, s>>]
        PROVE  k \in DOMAIN P /\ Q[k] = n
    <3>1. CASE k # x
      BY <3>1 DEF Forest, ParentsNameWhatListsSay
    <3>2. CASE k = x
      BY <3>2
    <3> QED
      BY <3>1, <3>2
  <2> QED
    BY <2>1 DEF ParentsNameWhatListsSay
<1>3. ChildrenAreListed(Q, M)
  <2>1. ASSUME NEW k \in DOMAIN P, Q[k] # None
        PROVE  \E s \in Slots : k \in M[<<Q[k], s>>]
    <3>1. CASE k # x
      <4>1. Q[k] = P[k] /\ P[k] \in DOMAIN P
        BY <2>1, <3>1 DEF Forest, Parents
      <4>2. PICK s \in Slots : k \in L[<<P[k], s>>]
        BY <2>1, <4>1 DEF Forest, ChildrenAreListed
      <4> QED
        BY <3>1, <4>1, <4>2
    <3>2. CASE k = x
      <4>1. x \in M[<<new, u>>]
        OBVIOUS
      <4> QED
        BY <3>2, <4>1
    <3> QED
      BY <3>1, <3>2
  <2> QED
    BY <2>1 DEF ChildrenAreListed
<1>4. InOneSlot(Q, M)
  <2>1. ASSUME NEW n \in DOMAIN P, NEW s \in Slots, NEW r \in Slots, s # r
        PROVE  M[<<n, s>>] \intersect M[<<n, r>>] = {}
    <3>1. L[<<n, s>>] \intersect L[<<n, r>>] = {}
      BY <2>1 DEF Forest, InOneSlot
    <3> QED
      BY <2>1, <3>1
  <2> QED
    BY <2>1 DEF InOneSlot
<1>5. Acyclic(Q)
  <2>1. ASSUME NEW m \in DOMAIN P PROVE Q[m] \notin Under(Q, m)
    <3>1. /\ m \in Under(P, m)
          /\ \A k \in DOMAIN P : P[k] \in Under(P, m) => k \in Under(P, m)
          /\ x \in Under(P, x)
          /\ \A k \in DOMAIN P : P[k] \in Under(P, x) => k \in Under(P, x)
      BY UnderClosed
    <3>2. P[m] \notin Under(P, m)
      BY DEF Forest, Acyclic
    <3>3. CASE m = x
      <4>1. \A k \in DOMAIN Q : Q[k] \in Under(P, x) => k \in Under(P, x)
        BY <3>1
      <4>2. Under(Q, x) \subseteq Under(P, x)
        BY <3>1, <4>1, UnderLeast
      <4> QED
        BY <3>3, <4>2
    <3>4. CASE m # x /\ new \notin Under(P, m)
      <4>1. \A k \in DOMAIN Q : Q[k] \in Under(P, m) => k \in Under(P, m)
        BY <3>1, <3>4
      <4>2. Under(Q, m) \subseteq Under(P, m)
        BY <3>1, <4>1, UnderLeast
      <4> QED
        BY <3>2, <3>4, <4>2
    <3>5. CASE m # x /\ new \in Under(P, m)
      <4> DEFINE X == Under(P, m) \union Under(P, x)
      <4>1. m \in X /\ \A k \in DOMAIN Q : Q[k] \in X => k \in X
        BY <3>1, <3>5
      <4>2. Under(Q, m) \subseteq X
        <5> HIDE DEF X
        <5> QED
          BY <4>1, UnderLeast
      <4>3. P[m] \notin Under(P, x)
        <5>1. SUFFICES ASSUME P[m] \in Under(P, x) PROVE FALSE
          OBVIOUS
        <5>2. m \in Under(P, x)
          BY <5>1, <3>1
        <5>3. Under(P, m) \subseteq Under(P, x)
          BY <5>2, UnderParts
        <5> QED
          BY <5>3, <3>5
      <4> QED
        BY <3>2, <3>5, <4>2, <4>3
    <3> QED
      BY <3>3, <3>4, <3>5
  <2> QED
    BY <2>1 DEF Acyclic
<1> QED
  BY <1>1, <1>2, <1>3, <1>4, <1>5 DEF Forest

--------------------------------------------------------------------------------

(***************************************************************************)
(* The tables as a forest.                                                 *)
(***************************************************************************)
\* The parent column.
ParentsOf(t) == [n \in DOMAIN t |-> t[n].parent]

\* The children of containment c of n.
RowOf(k, n, c) == IF <<n, c>> \in DOMAIN k THEN k[<<n, c>>] ELSE <<>>

\* The list of slot s of n, in the tables t and k.
ListOf(t, k, n, s) == IF s = Annotations THEN t[n].annotations ELSE RowOf(k, n, s)

\* What the slots of the nodes name.
Named(t, k) == [q \in (DOMAIN t) \X Slots |-> Entries(ListOf(t, k, q[1], q[2]))]

\* The types of the rows of both tables; D are the nodes that have lists.
NodeRows(t) == \A m \in DOMAIN t : t[m] \in NodeRow

ListRows(k, D) ==
    /\ DOMAIN k \subseteq D \X Containments
    /\ \A j \in DOMAIN k : k[j] \in Seq(Ids) \ {<<>>}

\* What every command keeps, also a stray one.
Typed(t, k) ==
    /\ IsFiniteSet(DOMAIN t)
    /\ DOMAIN t \subseteq Ids
    /\ NodeRows(t)
    /\ ListRows(k, DOMAIN t)
    /\ Parents(ParentsOf(t))

\* What every command keeps that is not a stray one.
Well(t, k) ==
    /\ Forest(ParentsOf(t), Named(t, k))
    /\ \A n \in DOMAIN t, s \in Slots : OnceEach(ListOf(t, k, n, s))

\* A chunk `new' that is one tree below p.
IsTree(new, p) ==
    /\ IsFiniteSet(DOMAIN new.rows)
    /\ DOMAIN new.rows \subseteq Ids
    /\ new.root \in DOMAIN new.rows
    /\ NodeRows(new.rows)
    /\ ListRows(new.lists, {new.root})
    /\ new.rows[new.root].parent = p
    /\ \A b \in DOMAIN new.rows \ {new.root} : new.rows[b].parent = new.root
    /\ \A s \in Slots :
           /\ OnceEach(ListOf(new.rows, new.lists, new.root, s))
           /\ Entries(ListOf(new.rows, new.lists, new.root, s))
                  \subseteq DOMAIN new.rows \ {new.root}
    /\ \A b \in DOMAIN new.rows \ {new.root} :
           \E s \in Slots : b \in Entries(ListOf(new.rows, new.lists, new.root, s))
    /\ \A s, r \in Slots :
           s # r => Entries(ListOf(new.rows, new.lists, new.root, s))
                        \intersect Entries(ListOf(new.rows, new.lists, new.root, r)) = {}
    /\ \A b \in DOMAIN new.rows \ {new.root}, s \in Slots :
           ListOf(new.rows, new.lists, b, s) = <<>>

\* Lists of one node and of none.
LEMMA OneOrNone ==
    /\ OnceEach(<<>>) /\ Entries(<<>>) = {}
    /\ \A x : OnceEach(<<x>>) /\ Entries(<<x>>) = {x}
  BY DEF OnceEach, Entries

\* What a row, and tables of one or two rows, hold.
LEMMA RowHolds ==
    ASSUME NEW parent, NEW list
    PROVE  /\ Row(parent, list).parent = parent
           /\ Row(parent, list).annotations = list
           /\ parent \in Ids \union {None} /\ list \in Seq(Ids) => Row(parent, list) \in NodeRow
  BY DEF Row, NodeRow

HasTwoRows(f, a, v, b, w) == DOMAIN f = {a, b} /\ f[a] = v /\ f[b] = w

\* A table of two rows.
LEMMA TwoRows ==
    ASSUME NEW a, NEW b, a # b, NEW v, NEW w
    PROVE  HasTwoRows(Over(Only(a, v), Only(b, w)), a, v, b, w)
  BY DEF Over, Only, HasTwoRows

\* A tree of one node, and a tree of a node that names another one in slot u.
LEMMA OneNodeIsTree ==
    ASSUME NEW new, NEW p, NEW a \in Ids, new.root = a,
           DOMAIN new.rows = {a}, NodeRows(new.rows), ListRows(new.lists, {a}),
           new.rows[a].parent = p, \A s : ListOf(new.rows, new.lists, a, s) = <<>>
    PROVE  IsTree(new, p)
<1>1. IsFiniteSet(DOMAIN new.rows)
  BY FS_Singleton
<1>2. DOMAIN new.rows \ {new.root} = {} /\ DOMAIN new.rows \subseteq Ids
  OBVIOUS
<1>3. \A s : /\ OnceEach(ListOf(new.rows, new.lists, new.root, s))
             /\ Entries(ListOf(new.rows, new.lists, new.root, s)) = {}
  BY OneOrNone
<1> QED
  BY <1>1, <1>2, <1>3 DEF IsTree

\* A node with a child or an annotation is a tree.
LEMMA TwoNodesAreTree ==
    ASSUME NEW new, NEW p, NEW a \in Ids, NEW b \in Ids, a # b, NEW u \in Slots,
           new.root = a, DOMAIN new.rows = {a, b},
           NodeRows(new.rows), ListRows(new.lists, {a}),
           new.rows[a].parent = p, new.rows[b].parent = a,
           ListOf(new.rows, new.lists, a, u) = <<b>>,
           \A s : s # u => ListOf(new.rows, new.lists, a, s) = <<>>,
           \A s : ListOf(new.rows, new.lists, b, s) = <<>>
    PROVE  IsTree(new, p)
<1>1. IsFiniteSet(DOMAIN new.rows)
  <2>1. IsFiniteSet({a} \union {b})
    BY FS_Singleton, FS_AddElement
  <2>2. {a} \union {b} = {a, b}
    OBVIOUS
  <2> QED
    BY <2>1, <2>2
<1>2. DOMAIN new.rows \ {new.root} = {b} /\ DOMAIN new.rows \subseteq Ids
  OBVIOUS
<1>3. \A s : /\ OnceEach(ListOf(new.rows, new.lists, new.root, s))
             /\ Entries(ListOf(new.rows, new.lists, new.root, s)) = IF s = u THEN {b} ELSE {}
  <2>1. ASSUME NEW s
        PROVE  /\ OnceEach(ListOf(new.rows, new.lists, new.root, s))
               /\ Entries(ListOf(new.rows, new.lists, new.root, s)) = IF s = u THEN {b} ELSE {}
    <3>1. CASE s = u
      BY <3>1, OneOrNone
    <3>2. CASE s # u
      BY <3>2, OneOrNone
    <3> QED
      BY <3>1, <3>2
  <2> QED
    BY <2>1
<1>4. \A s \in Slots :
           /\ OnceEach(ListOf(new.rows, new.lists, new.root, s))
           /\ Entries(ListOf(new.rows, new.lists, new.root, s)) \subseteq DOMAIN new.rows \ {new.root}
  BY <1>2, <1>3
<1>5. \A c \in DOMAIN new.rows \ {new.root} :
           \E s \in Slots : c \in Entries(ListOf(new.rows, new.lists, new.root, s))
  BY <1>2, <1>3
<1>6. \A s, r \in Slots :
           s # r => Entries(ListOf(new.rows, new.lists, new.root, s))
                        \intersect Entries(ListOf(new.rows, new.lists, new.root, r)) = {}
  BY <1>3
<1> QED
  BY <1>1, <1>2, <1>4, <1>5, <1>6 DEF IsTree

\* A chunk that a command brings is one tree of nodes that are new.
LEMMA ChunkIsTree ==
    ASSUME NEW p \in Ids \union {None}, NEW new \in NewTrees(p)
    PROVE  IsTree(new, p) /\ DOMAIN new.rows \intersect DOMAIN nodes = {}
<1> DEFINE free == Ids \ DOMAIN nodes
           nil == <<>>
<1>1. nil \in Seq(Ids) /\ DOMAIN nil = {}
  BY EmptySeq
<1>2. \A a, b \in Ids : <<b>> \in Seq(Ids) \ {nil}
  OBVIOUS
<1>4. \A n : ListRows(nil, {n})
  BY <1>1 DEF ListRows
<1>5. \A n, s : RowOf(nil, n, s) = nil
  BY <1>1 DEF RowOf
<1>11. \A q, l : Row(q, l).parent = q /\ Row(q, l).annotations = l
  BY RowHolds
<1>12. \A q \in Ids \union {None}, l \in Seq(Ids) : Row(q, l) \in NodeRow
  BY RowHolds
<1>6. CASE \E a \in free : new = [root |-> a, rows |-> Only(a, Row(p, nil)), lists |-> nil]
  <2>1. PICK a \in free : new = [root |-> a, rows |-> Only(a, Row(p, nil)), lists |-> nil]
    BY <1>6
  <2>9. new.rows = Only(a, Row(p, nil)) /\ new.root = a /\ new.lists = nil
    BY <2>1
  <2> DEFINE v == Row(p, nil)
  <2>2. DOMAIN new.rows = {a} /\ new.rows[a] = v
    BY <2>9 DEF Only
  <2>3. v \in NodeRow /\ v.parent = p /\ v.annotations = nil
    BY <1>1, <1>11, <1>12
  <2> HIDE DEF v, nil
  <2>4. NodeRows(new.rows) /\ ListRows(new.lists, {a}) /\ new.rows[a].parent = p
    BY <2>2, <2>3, <2>9, <1>4 DEF NodeRows
  <2>5. \A s : ListOf(new.rows, new.lists, a, s) = nil
    BY <2>2, <2>3, <2>9, <1>5 DEF ListOf
  <2>6. IsTree(new, p)
    BY <2>2, <2>4, <2>5, <2>9, OneNodeIsTree DEF nil
  <2> QED
    BY <2>2, <2>6
<1>7. CASE \E a, b \in free, c \in Containments :
              /\ a # b
              /\ new = [root |-> a,
                        rows |-> Over(Only(a, Row(p, nil)), Only(b, Row(a, nil))),
                        lists |-> Only(<<a, c>>, <<b>>)]
  <2>1. PICK a \in free, b \in free, c \in Containments :
              /\ a # b
              /\ new = [root |-> a,
                        rows |-> Over(Only(a, Row(p, nil)), Only(b, Row(a, nil))),
                        lists |-> Only(<<a, c>>, <<b>>)]
    BY <1>7
  <2> DEFINE v == Row(p, nil)
             w == Row(a, nil)
             one == <<b>>
             l == Only(<<a, c>>, one)
  <2>9. new.rows = Over(Only(a, v), Only(b, w)) /\ new.root = a /\ new.lists = l
    BY <2>1
  <2>3. v \in NodeRow /\ v.parent = p /\ v.annotations = nil
    BY <1>1, <1>11, <1>12
  <2>4. w \in NodeRow /\ w.parent = a /\ w.annotations = nil
    BY <1>1, <1>11, <1>12
  <2>5. one \in Seq(Ids) \ {nil}
    BY <1>2
  <2>6. DOMAIN l = {<<a, c>>} /\ l[<<a, c>>] = one
    BY DEF Only
  <2> HIDE DEF v, w, l, one, nil
  <2>16. a \in Ids /\ b \in Ids /\ a # b
    BY <2>1
  <2>2. DOMAIN new.rows = {a, b} /\ new.rows[a] = v /\ new.rows[b] = w
    <3>1. HasTwoRows(Over(Only(a, v), Only(b, w)), a, v, b, w)
      BY <2>16, TwoRows
    <3> QED
      BY <2>9, <3>1 DEF HasTwoRows
  <2>7. NodeRows(new.rows) /\ new.rows[a].parent = p /\ new.rows[b].parent = a
    BY <2>2, <2>3, <2>4 DEF NodeRows
  <2>8. ListRows(new.lists, {a})
    BY <2>5, <2>6, <2>9 DEF ListRows, nil
  <2>10. /\ RowOf(l, a, c) = one
         /\ \A s : s # c => RowOf(l, a, s) = nil
         /\ \A s : RowOf(l, b, s) = nil
    <3>1. \A s : s # c => <<a, s>> \notin DOMAIN l
      BY <2>6
    <3>2. \A s : <<b, s>> \notin DOMAIN l
      BY <2>1, <2>6
    <3>3. <<a, c>> \in DOMAIN l
      BY <2>6
    <3> QED
      BY <2>6, <3>1, <3>2, <3>3 DEF RowOf, nil
  <2>11. c \in Slots /\ c # Annotations
    BY AnnotationsAssumption DEF Slots
  <2>12. ListOf(new.rows, new.lists, a, c) = one
    BY <2>9, <2>10, <2>11 DEF ListOf
  <2>13. \A s : s # c => ListOf(new.rows, new.lists, a, s) = nil
    BY <2>2, <2>3, <2>9, <2>10 DEF ListOf
  <2>14. \A s : ListOf(new.rows, new.lists, b, s) = nil
    BY <2>2, <2>4, <2>9, <2>10 DEF ListOf
  <2>15. IsTree(new, p)
    BY <2>2, <2>7, <2>8, <2>9, <2>11, <2>12, <2>13, <2>14, <2>16, TwoNodesAreTree DEF nil, one
  <2> QED
    BY <2>2, <2>15
<1>8. CASE \E a, b \in free :
              /\ a # b
              /\ new = [root |-> a,
                        rows |-> Over(Only(a, Row(p, <<b>>)), Only(b, Row(a, nil))),
                        lists |-> nil]
  <2>1. PICK a \in free, b \in free :
              /\ a # b
              /\ new = [root |-> a,
                        rows |-> Over(Only(a, Row(p, <<b>>)), Only(b, Row(a, nil))),
                        lists |-> nil]
    BY <1>8
  <2> DEFINE one == <<b>>
             v == Row(p, one)
             w == Row(a, nil)
  <2>9. new.rows = Over(Only(a, v), Only(b, w)) /\ new.root = a /\ new.lists = nil
    BY <2>1
  <2>5. one \in Seq(Ids) \ {nil}
    BY <1>2
  <2> HIDE DEF one
  <2>3. v \in NodeRow /\ v.parent = p /\ v.annotations = one
    BY <2>5, <1>11, <1>12
  <2>4. w \in NodeRow /\ w.parent = a /\ w.annotations = nil
    BY <1>1, <1>11, <1>12
  <2> HIDE DEF v, w, nil
  <2>16. a \in Ids /\ b \in Ids /\ a # b
    BY <2>1
  <2>2. DOMAIN new.rows = {a, b} /\ new.rows[a] = v /\ new.rows[b] = w
    <3>1. HasTwoRows(Over(Only(a, v), Only(b, w)), a, v, b, w)
      BY <2>16, TwoRows
    <3> QED
      BY <2>9, <3>1 DEF HasTwoRows
  <2>7. NodeRows(new.rows) /\ new.rows[a].parent = p /\ new.rows[b].parent = a
    BY <2>2, <2>3, <2>4 DEF NodeRows
  <2>8. ListRows(new.lists, {a})
    BY <2>9, <1>4
  <2>11. Annotations \in Slots
    BY DEF Slots
  <2>12. ListOf(new.rows, new.lists, a, Annotations) = one
    BY <2>2, <2>3 DEF ListOf
  <2>13. \A s : s # Annotations => ListOf(new.rows, new.lists, a, s) = nil
    BY <2>9, <1>5 DEF ListOf
  <2>14. \A s : ListOf(new.rows, new.lists, b, s) = nil
    BY <2>2, <2>4, <2>9, <1>5 DEF ListOf
  <2>15. IsTree(new, p)
    BY <2>2, <2>7, <2>8, <2>9, <2>11, <2>12, <2>13, <2>14, <2>16, TwoNodesAreTree DEF nil, one
  <2> QED
    BY <2>2, <2>15
<1>9. \A pair \in {q \in free \X free : q[1] # q[2]} :
          pair[1] \in free /\ pair[2] \in free /\ pair[1] # pair[2]
  OBVIOUS
<1> DEFINE pairs == {q \in free \X free : q[1] # q[2]}
<1>13. \/ new \in {[root |-> a, rows |-> Only(a, Row(p, nil)), lists |-> nil] : a \in free}
       \/ new \in UNION {{[root |-> q[1],
                           rows |-> Over(Only(q[1], Row(p, nil)), Only(q[2], Row(q[1], nil))),
                           lists |-> Only(<<q[1], c>>, <<q[2]>>)] : q \in pairs} : c \in Containments}
       \/ new \in {[root |-> q[1],
                    rows |-> Over(Only(q[1], Row(p, <<q[2]>>)), Only(q[2], Row(q[1], nil))),
                    lists |-> nil] : q \in pairs}
  BY DEF NewTrees
<1>14. CASE new \in UNION {{[root |-> q[1],
                             rows |-> Over(Only(q[1], Row(p, nil)), Only(q[2], Row(q[1], nil))),
                             lists |-> Only(<<q[1], c>>, <<q[2]>>)] : q \in pairs} : c \in Containments}
  <2>3. PICK c \in Containments :
            new \in {[root |-> q[1],
                     rows |-> Over(Only(q[1], Row(p, nil)), Only(q[2], Row(q[1], nil))),
                     lists |-> Only(<<q[1], c>>, <<q[2]>>)] : q \in pairs}
    BY <1>14
  <2>1. PICK q \in pairs :
            new = [root |-> q[1],
                   rows |-> Over(Only(q[1], Row(p, nil)), Only(q[2], Row(q[1], nil))),
                   lists |-> Only(<<q[1], c>>, <<q[2]>>)]
    BY <2>3
  <2>2. q[1] \in free /\ q[2] \in free /\ q[1] # q[2]
    BY <1>9
  <2> QED
    BY <2>1, <2>2, <1>7
<1>15. CASE new \in {[root |-> q[1],
                      rows |-> Over(Only(q[1], Row(p, <<q[2]>>)), Only(q[2], Row(q[1], nil))),
                      lists |-> nil] : q \in pairs}
  <2>1. PICK q \in pairs :
            new = [root |-> q[1],
                   rows |-> Over(Only(q[1], Row(p, <<q[2]>>)), Only(q[2], Row(q[1], nil))),
                   lists |-> nil]
    BY <1>15
  <2>2. q[1] \in free /\ q[2] \in free /\ q[1] # q[2]
    BY <1>9
  <2> QED
    BY <2>1, <2>2, <1>8
<1> QED
  BY <1>6, <1>13, <1>14, <1>15

--------------------------------------------------------------------------------
(***************************************************************************)
(* The three changes, and their combinations, as changes of the tables.    *)
(***************************************************************************)
\* A pair is in the product.
LEMMA InProduct ==
    ASSUME NEW A, NEW B, NEW a \in A, NEW b \in B
    PROVE  <<a, b>> \in A \X B
  OBVIOUS

\* What ParentsOf and Named are.
LEMMA NamedIs ==
    ASSUME NEW t, NEW k
    PROVE  /\ DOMAIN ParentsOf(t) = DOMAIN t
           /\ \A n \in DOMAIN t : ParentsOf(t)[n] = t[n].parent
           /\ \A n \in DOMAIN t, s \in Slots : Named(t, k)[<<n, s>>] = Entries(ListOf(t, k, n, s))
<1>1. /\ DOMAIN ParentsOf(t) = DOMAIN t
      /\ \A n \in DOMAIN t : ParentsOf(t)[n] = t[n].parent
  BY DEF ParentsOf
<1>2. ASSUME NEW n \in DOMAIN t, NEW s \in Slots
      PROVE  Named(t, k)[<<n, s>>] = Entries(ListOf(t, k, n, s))
  <2> DEFINE q == <<n, s>>
  <2>3. q \in (DOMAIN t) \X Slots
    BY InProduct
  <2>4. q[1] = n /\ q[2] = s
    OBVIOUS
  <2>1. q \in (DOMAIN t) \X Slots /\ q[1] = n /\ q[2] = s
    BY <2>3, <2>4
  <2> HIDE DEF q
  <2>2. Named(t, k)[q] = Entries(ListOf(t, k, q[1], q[2]))
    BY <2>1 DEF Named
  <2> QED
    BY <2>1, <2>2 DEF q
<1> QED
  BY <1>1, <1>2

\* The subtree of y goes; y was named in slot u of p, or is a partition and p is None.
TablesPruned(t, k, y, p, u, t2, k2) ==
    /\ y \in DOMAIN t
    /\ DOMAIN t2 = DOMAIN t \ Under(ParentsOf(t), y)
    /\ \A m \in DOMAIN t2 : t2[m].parent = t[m].parent
    /\ \A n \in DOMAIN t2, s \in Slots :
           <<n, s>> # <<p, u>> => ListOf(t2, k2, n, s) = ListOf(t, k, n, s)
    /\ \/ p = None /\ t[y].parent = None
       \/ /\ p \in DOMAIN t /\ u \in Slots
          /\ y \in Entries(ListOf(t, k, p, u))
          /\ OnceEach(ListOf(t2, k2, p, u))
          /\ Entries(ListOf(t2, k2, p, u)) = Entries(ListOf(t, k, p, u)) \ {y}

\* Prune, Graft and Transfer of the tables.
LEMMA PruneTables ==
    ASSUME NEW t, NEW k, Well(t, k), NEW y, NEW p, NEW u, NEW t2, NEW k2,
           TablesPruned(t, k, y, p, u, t2, k2)
    PROVE  Well(t2, k2)
<1> DEFINE P == ParentsOf(t)
           L == Named(t, k)
           Q == ParentsOf(t2)
           M == Named(t2, k2)
<1> USE DEF TablesPruned
<1>1. /\ DOMAIN P = DOMAIN t /\ \A n \in DOMAIN t : P[n] = t[n].parent
      /\ \A n \in DOMAIN t, s \in Slots : L[<<n, s>>] = Entries(ListOf(t, k, n, s))
  BY NamedIs
<1>2. /\ DOMAIN Q = DOMAIN t2 /\ \A n \in DOMAIN t2 : Q[n] = t2[n].parent
      /\ \A n \in DOMAIN t2, s \in Slots : M[<<n, s>>] = Entries(ListOf(t2, k2, n, s))
  BY NamedIs
<1>3. Forest(P, L) /\ \A n \in DOMAIN t, s \in Slots : OnceEach(ListOf(t, k, n, s))
  BY DEF Well
<1> HIDE DEF P, L, Q, M
<1>4. DOMAIN t2 = DOMAIN t \ Under(P, y)
  BY DEF P
<1>5. \A n \in DOMAIN t, s \in Slots : <<n, s>> # <<p, u>> => y \notin L[<<n, s>>]
  <2>1. SUFFICES ASSUME NEW n \in DOMAIN t, NEW s \in Slots, <<n, s>> # <<p, u>>, y \in L[<<n, s>>]
                 PROVE  FALSE
    OBVIOUS
  <2>2. P[y] = n
    BY <2>1, <1>1, <1>3 DEF Forest, ParentsNameWhatListsSay
  <2>3. n # None
    BY <1>1, <1>3 DEF Forest
  <2>4. p \in DOMAIN t /\ u \in Slots /\ y \in L[<<p, u>>]
    BY <1>1, <2>2, <2>3
  <2>5. P[y] = p
    BY <2>4, <1>1, <1>3 DEF Forest, ParentsNameWhatListsSay
  <2>6. s # u
    BY <2>1, <2>2, <2>5
  <2> QED
    BY <2>1, <2>2, <2>4, <2>5, <2>6, <1>1, <1>3 DEF Forest, InOneSlot
<1>6. ASSUME NEW n \in DOMAIN Q, NEW s \in Slots
      PROVE  M[<<n, s>>] = L[<<n, s>>] \ {y} /\ OnceEach(ListOf(t2, k2, n, s))
  <2>1. n \in DOMAIN t2 /\ n \in DOMAIN t /\ n # None
    BY <1>1, <1>2, <1>3, <1>4 DEF Forest
  <2>2. CASE <<n, s>> # <<p, u>>
    BY <2>1, <2>2, <1>1, <1>2, <1>3, <1>5
  <2>3. CASE n = p /\ s = u
    BY <2>1, <2>3, <1>1, <1>2
  <2> QED
    BY <2>2, <2>3
<1>7. Pruned(P, L, y, Q, M)
  BY <1>1, <1>2, <1>4, <1>6 DEF Pruned
<1>8. Forest(Q, M)
  BY <1>3, <1>7, Prune
<1> QED
  BY <1>8, <1>6, <1>2 DEF Well, Q, M

\* The tree `new' comes to slot u of p, or is a partition and p is None.
TablesGrafted(t, k, new, p, u, t2, k2) ==
    /\ IsTree(new, p)
    /\ DOMAIN new.rows \intersect DOMAIN t = {}
    /\ DOMAIN t2 = DOMAIN t \union DOMAIN new.rows
    /\ \A m \in DOMAIN t : t2[m].parent = t[m].parent
    /\ \A m \in DOMAIN new.rows : t2[m].parent = new.rows[m].parent
    /\ \A m \in DOMAIN new.rows, s \in Slots :
           ListOf(t2, k2, m, s) = ListOf(new.rows, new.lists, m, s)
    /\ \A n \in DOMAIN t, s \in Slots :
           <<n, s>> # <<p, u>> => ListOf(t2, k2, n, s) = ListOf(t, k, n, s)
    /\ \/ p = None
       \/ /\ p \in DOMAIN t /\ u \in Slots
          /\ OnceEach(ListOf(t2, k2, p, u))
          /\ Entries(ListOf(t2, k2, p, u)) = Entries(ListOf(t, k, p, u)) \union {new.root}

\* Graft of the tables.
LEMMA GraftTables ==
    ASSUME NEW t, NEW k, Well(t, k), NEW new, NEW p, NEW u, NEW t2, NEW k2,
           TablesGrafted(t, k, new, p, u, t2, k2)
    PROVE  Well(t2, k2)
<1> DEFINE P == ParentsOf(t)
           L == Named(t, k)
           Q == ParentsOf(t2)
           M == Named(t2, k2)
           N == DOMAIN new.rows
           a == new.root
<1> USE DEF TablesGrafted
<1>1. /\ DOMAIN P = DOMAIN t /\ \A n \in DOMAIN t : P[n] = t[n].parent
      /\ \A n \in DOMAIN t, s \in Slots : L[<<n, s>>] = Entries(ListOf(t, k, n, s))
  BY NamedIs
<1>2. /\ DOMAIN Q = DOMAIN t2 /\ \A n \in DOMAIN t2 : Q[n] = t2[n].parent
      /\ \A n \in DOMAIN t2, s \in Slots : M[<<n, s>>] = Entries(ListOf(t2, k2, n, s))
  BY NamedIs
<1>3. Forest(P, L) /\ \A n \in DOMAIN t, s \in Slots : OnceEach(ListOf(t, k, n, s))
  BY DEF Well
<1> HIDE DEF P, L, Q, M
<1>4. None \notin N /\ None \notin DOMAIN t /\ N \subseteq DOMAIN t2 /\ DOMAIN t \subseteq DOMAIN t2
  BY <1>1, <1>3, NoneAssumption DEF Forest, IsTree
<1>5. ASSUME NEW n \in DOMAIN t, NEW s \in Slots
      PROVE  /\ M[<<n, s>>] = L[<<n, s>>] \union (IF n = p /\ s = u THEN {a} ELSE {})
             /\ OnceEach(ListOf(t2, k2, n, s))
  <2>1. CASE <<n, s>> # <<p, u>>
    BY <2>1, <1>1, <1>2, <1>3, <1>4
  <2>2. CASE n = p /\ s = u
    BY <2>2, <1>1, <1>2, <1>4
  <2> QED
    BY <2>1, <2>2
<1>6. ASSUME NEW m \in N, NEW s \in Slots
      PROVE  /\ M[<<m, s>>] = Entries(ListOf(new.rows, new.lists, m, s))
             /\ OnceEach(ListOf(t2, k2, m, s))
  <2>1. M[<<m, s>>] = Entries(ListOf(new.rows, new.lists, m, s))
    BY <1>2, <1>4
  <2>2. OnceEach(ListOf(new.rows, new.lists, m, s))
    <3>1. CASE m = a
      BY <3>1 DEF IsTree
    <3>2. CASE m # a
      BY <3>2, OneOrNone DEF IsTree
    <3> QED
      BY <3>1, <3>2
  <2> QED
    BY <2>1, <2>2
<1>7. a \in N /\ \A b \in N \ {a} : new.rows[b].parent = a
  BY DEF IsTree
<1>8. /\ \A s \in Slots : M[<<a, s>>] \subseteq N \ {a}
      /\ \A b \in N \ {a} : \E s \in Slots : b \in M[<<a, s>>]
      /\ \A s, r \in Slots : s # r => M[<<a, s>>] \intersect M[<<a, r>>] = {}
      /\ \A b \in N \ {a}, s \in Slots : M[<<b, s>>] = {}
  BY <1>6, <1>7, OneOrNone DEF IsTree
<1>9. new.rows[a].parent = p
  BY DEF IsTree
<1>10. Grafted(P, L, N, a, p, u, Q, M)
  <2>1. N \intersect DOMAIN P = {} /\ DOMAIN Q = DOMAIN P \union N
    BY <1>1, <1>2
  <2>2. p \in DOMAIN P \union {None} /\ (p # None => u \in Slots)
    BY <1>1
  <2>3. \A m \in DOMAIN P : Q[m] = P[m]
    BY <1>1, <1>2, <1>4
  <2>4. Q[a] = p /\ \A b \in N \ {a} : Q[b] = a
    BY <1>2, <1>4, <1>7, <1>9
  <2>5. \A n \in DOMAIN P, s \in Slots :
            M[<<n, s>>] = L[<<n, s>>] \union (IF n = p /\ s = u THEN {a} ELSE {})
    BY <1>1, <1>5
  <2> HIDE DEF N, a, TablesGrafted
  <2> QED
    BY <1>4, <1>7, <1>8, <2>1, <2>2, <2>3, <2>4, <2>5 DEF Grafted
<1>11. Forest(Q, M)
  BY <1>3, <1>10, Graft
<1>12. \A n \in DOMAIN t2, s \in Slots : OnceEach(ListOf(t2, k2, n, s))
  BY <1>5, <1>6
<1> QED
  BY <1>11, <1>12 DEF Well, Q, M

\* What a slot lists is a node below it that no other slot lists.
Listed(t, k, p, u, y) ==
    /\ p \in DOMAIN t /\ u \in Slots
    /\ y \in Entries(ListOf(t, k, p, u))

\* A listed node exists, is below the one that lists it, and listed once.
LEMMA ListedOnce ==
    ASSUME NEW t, NEW k, Well(t, k), NEW p, NEW u, NEW y, Listed(t, k, p, u, y)
    PROVE  /\ y \in DOMAIN t /\ t[y].parent = p /\ p # None
           /\ p \notin Under(ParentsOf(t), y)
           /\ y \in Under(ParentsOf(t), y)
           /\ \A n \in DOMAIN t, s \in Slots :
                  y \in Entries(ListOf(t, k, n, s)) => n = p /\ s = u
<1> DEFINE P == ParentsOf(t)
           L == Named(t, k)
<1>1. /\ DOMAIN P = DOMAIN t /\ \A n \in DOMAIN t : P[n] = t[n].parent
      /\ \A n \in DOMAIN t, s \in Slots : L[<<n, s>>] = Entries(ListOf(t, k, n, s))
  BY NamedIs
<1>2. Forest(P, L)
  BY DEF Well
<1> HIDE DEF P, L
<1>3. p \in DOMAIN P /\ u \in Slots /\ y \in L[<<p, u>>]
  BY <1>1 DEF Listed
<1>4. \A n \in DOMAIN P, s \in Slots : y \in L[<<n, s>>] => y \in DOMAIN P /\ P[y] = n
  BY <1>2 DEF Forest, ParentsNameWhatListsSay
<1>5. \A n \in DOMAIN P, s \in Slots : y \in L[<<n, s>>] => n = p /\ s = u
  BY <1>2, <1>3, <1>4 DEF Forest, InOneSlot
<1>6. y \in DOMAIN P /\ P[y] = p /\ p # None
  BY <1>2, <1>3, <1>4 DEF Forest
<1>7. p \notin Under(P, y) /\ y \in Under(P, y)
  BY <1>2, <1>6, UnderClosed DEF Forest, Acyclic
<1> QED
  BY <1>1, <1>5, <1>6, <1>7 DEF P

\* The nodes `out' leave all lists, and the nodes `in' come to slot u of p.
ListsChange(t, k, D, out, in, p, u, t2, k2) ==
    \A n \in D, s \in Slots :
        /\ OnceEach(ListOf(t2, k2, n, s))
        /\ Entries(ListOf(t2, k2, n, s)) =
               (Entries(ListOf(t, k, n, s)) \ out) \union (IF n = p /\ s = u THEN in ELSE {})

\* x leaves its slot for slot u of `new'.
TablesTransferred(t, k, x, new, u, t2, k2) ==
    /\ x \in DOMAIN t
    /\ t[x].parent # None
    /\ new \in DOMAIN t
    /\ new \notin Under(ParentsOf(t), x)
    /\ u \in Slots
    /\ DOMAIN t2 = DOMAIN t
    /\ \A m \in DOMAIN t : t2[m].parent = IF m = x THEN new ELSE t[m].parent
    /\ ListsChange(t, k, DOMAIN t, {x}, {x}, new, u, t2, k2)

\* Transfer of the tables.
LEMMA TransferTables ==
    ASSUME NEW t, NEW k, Well(t, k), NEW x, NEW new, NEW u, NEW t2, NEW k2,
           TablesTransferred(t, k, x, new, u, t2, k2)
    PROVE  Well(t2, k2)
<1> DEFINE P == ParentsOf(t)
           L == Named(t, k)
           Q == ParentsOf(t2)
           M == Named(t2, k2)
<1> USE DEF TablesTransferred
<1>1. /\ DOMAIN P = DOMAIN t /\ \A n \in DOMAIN t : P[n] = t[n].parent
      /\ \A n \in DOMAIN t, s \in Slots : L[<<n, s>>] = Entries(ListOf(t, k, n, s))
  BY NamedIs
<1>2. /\ DOMAIN Q = DOMAIN t2 /\ \A n \in DOMAIN t2 : Q[n] = t2[n].parent
      /\ \A n \in DOMAIN t2, s \in Slots : M[<<n, s>>] = Entries(ListOf(t2, k2, n, s))
  BY NamedIs
<1>3. Forest(P, L)
  BY DEF Well
<1>4. new \notin Under(P, x)
  OBVIOUS
<1> HIDE DEF P, L, Q, M
<1>5. Transferred(P, L, x, new, u, Q, M)
  <2>1. \A n \in DOMAIN P, s \in Slots :
            M[<<n, s>>] = (L[<<n, s>>] \ {x}) \union (IF n = new /\ s = u THEN {x} ELSE {})
    <3>1. ASSUME NEW n \in DOMAIN P, NEW s \in Slots
          PROVE  M[<<n, s>>] = (L[<<n, s>>] \ {x}) \union (IF n = new /\ s = u THEN {x} ELSE {})
      <4>1. n \in DOMAIN t /\ n \in DOMAIN t2
        BY <1>1
      <4>2. M[<<n, s>>] = Entries(ListOf(t2, k2, n, s)) /\ L[<<n, s>>] = Entries(ListOf(t, k, n, s))
        BY <4>1, <1>1, <1>2
      <4>3. ListsChange(t, k, DOMAIN t, {x}, {x}, new, u, t2, k2)
        OBVIOUS
      <4> HIDE DEF TablesTransferred
      <4>4. Entries(ListOf(t2, k2, n, s)) =
                (Entries(ListOf(t, k, n, s)) \ {x}) \union (IF n = new /\ s = u THEN {x} ELSE {})
        BY <4>1, <4>3 DEF ListsChange
      <4> QED
        BY <4>2, <4>4
    <3> QED
      BY <3>1
  <2>2. DOMAIN Q = DOMAIN P /\ \A m \in DOMAIN P : Q[m] = IF m = x THEN new ELSE P[m]
    BY <1>1, <1>2
  <2>3. x \in DOMAIN P /\ P[x] # None /\ new \in DOMAIN P /\ u \in Slots
    BY <1>1
  <2> QED
    BY <2>1, <2>2, <2>3, <1>4 DEF Transferred
<1>6. Forest(Q, M)
  BY <1>3, <1>5, Transfer
<1> QED
  BY <1>6 DEF Well, Q, M, ListsChange

\* The subtree of y goes, and the tree `new' comes to slot u of p, which listed y.
TablesRegrafted(t, k, y, new, p, u, t2, k2) ==
    /\ Listed(t, k, p, u, y)
    /\ IsTree(new, p)
    /\ DOMAIN new.rows \intersect DOMAIN t = {}
    /\ DOMAIN t2 = (DOMAIN t \ Under(ParentsOf(t), y)) \union DOMAIN new.rows
    /\ \A m \in DOMAIN t \ Under(ParentsOf(t), y) : t2[m].parent = t[m].parent
    /\ \A m \in DOMAIN new.rows : t2[m].parent = new.rows[m].parent
    /\ \A m \in DOMAIN new.rows, s \in Slots :
           ListOf(t2, k2, m, s) = ListOf(new.rows, new.lists, m, s)
    /\ ListsChange(t, k, DOMAIN t \ Under(ParentsOf(t), y), {y}, {new.root}, p, u, t2, k2)

\* A subtree goes and a new tree comes to its place.
LEMMA RegraftTables ==
    ASSUME NEW t, NEW k, Well(t, k), NEW y, NEW new, NEW p, NEW u, NEW t2, NEW k2,
           TablesRegrafted(t, k, y, new, p, u, t2, k2)
    PROVE  Well(t2, k2)
<1> DEFINE P == ParentsOf(t)
           L == Named(t, k)
           Q == ParentsOf(t2)
           M == Named(t2, k2)
           N == DOMAIN new.rows
           a == new.root
           gone == Under(ParentsOf(t), y)
           D == DOMAIN t \ gone
           R == [m \in D |-> P[m]]
           K == [q \in D \X Slots |-> L[q] \ {y}]
<1> USE DEF TablesRegrafted
<1>1. /\ DOMAIN P = DOMAIN t /\ \A n \in DOMAIN t : P[n] = t[n].parent
      /\ \A n \in DOMAIN t, s \in Slots : L[<<n, s>>] = Entries(ListOf(t, k, n, s))
  BY NamedIs
<1>2. /\ DOMAIN Q = DOMAIN t2 /\ \A n \in DOMAIN t2 : Q[n] = t2[n].parent
      /\ \A n \in DOMAIN t2, s \in Slots : M[<<n, s>>] = Entries(ListOf(t2, k2, n, s))
  BY NamedIs
<1>3. Forest(P, L)
  BY DEF Well
<1>4. y \in DOMAIN t /\ p \in D /\ u \in Slots
  BY ListedOnce DEF Listed
<1>5. DOMAIN R = D /\ \A m \in DOMAIN R : R[m] = P[m]
  OBVIOUS
<1>6. \A n \in DOMAIN R, s \in Slots : K[<<n, s>>] = L[<<n, s>>] \ {y}
  OBVIOUS
<1> HIDE DEF P, L, Q, M, R, K
<1>7. Forest(R, K)
  <2>1. Pruned(P, L, y, R, K)
    BY <1>1, <1>4, <1>5, <1>6 DEF Pruned, P
  <2> QED
    BY <1>3, <2>1, Prune
<1>8. None \notin N /\ a \in N /\ new.rows[a].parent = p
  BY NoneAssumption DEF IsTree
<1>9. \A b \in N \ {a} : new.rows[b].parent = a
  BY DEF IsTree
<1>10. \A m \in N, s \in Slots : M[<<m, s>>] = Entries(ListOf(new.rows, new.lists, m, s))
  BY <1>2
<1>11. /\ \A s \in Slots : M[<<a, s>>] \subseteq N \ {a}
       /\ \A b \in N \ {a} : \E s \in Slots : b \in M[<<a, s>>]
       /\ \A s, r \in Slots : s # r => M[<<a, s>>] \intersect M[<<a, r>>] = {}
       /\ \A b \in N \ {a}, s \in Slots : M[<<b, s>>] = {}
  BY <1>8, <1>10, OneOrNone DEF IsTree
<1>12. Grafted(R, K, N, a, p, u, Q, M)
  <2>1. N \intersect DOMAIN R = {} /\ DOMAIN Q = DOMAIN R \union N
    BY <1>2, <1>5
  <2>2. p \in DOMAIN R \union {None} /\ (p # None => u \in Slots)
    BY <1>4, <1>5
  <2>3. \A m \in DOMAIN R : Q[m] = R[m]
    BY <1>1, <1>2, <1>5
  <2>4. Q[a] = p /\ \A b \in N \ {a} : Q[b] = a
    BY <1>2, <1>8, <1>9
  <2>5. \A n \in DOMAIN R, s \in Slots :
            M[<<n, s>>] = K[<<n, s>>] \union (IF n = p /\ s = u THEN {a} ELSE {})
    <3>1. ASSUME NEW n \in DOMAIN R, NEW s \in Slots
          PROVE  M[<<n, s>>] = K[<<n, s>>] \union (IF n = p /\ s = u THEN {a} ELSE {})
      <4>1. n \in D /\ n \in DOMAIN t /\ n \in DOMAIN t2
        BY <1>5
      <4>2. M[<<n, s>>] = Entries(ListOf(t2, k2, n, s)) /\ L[<<n, s>>] = Entries(ListOf(t, k, n, s))
        BY <4>1, <1>1, <1>2
      <4>5. K[<<n, s>>] = L[<<n, s>>] \ {y}
        BY <1>6
      <4>3. ListsChange(t, k, D, {y}, {a}, p, u, t2, k2)
        OBVIOUS
      <4> HIDE DEF TablesRegrafted, D, a
      <4>4. Entries(ListOf(t2, k2, n, s)) =
                (Entries(ListOf(t, k, n, s)) \ {y}) \union (IF n = p /\ s = u THEN {a} ELSE {})
        BY <4>1, <4>3 DEF ListsChange
      <4> QED
        BY <4>2, <4>4, <4>5
    <3> QED
      BY <3>1
  <2> HIDE DEF N, a, TablesRegrafted
  <2> QED
    BY <1>8, <1>11, <2>1, <2>2, <2>3, <2>4, <2>5 DEF Grafted
<1>13. Forest(Q, M)
  BY <1>7, <1>12, Graft
<1>14. \A n \in D, s \in Slots : OnceEach(ListOf(t2, k2, n, s))
  BY DEF ListsChange
<1>15. \A n \in N, s \in Slots : OnceEach(ListOf(t2, k2, n, s))
  BY OneOrNone DEF IsTree
<1> QED
  BY <1>13, <1>14, <1>15 DEF Well, Q, M

\* The subtree of y goes, and x comes to slot u of `new', which listed y.
TablesMovedOver(t, k, y, x, new, u, t2, k2) ==
    /\ Listed(t, k, new, u, y)
    /\ x \in DOMAIN t \ Under(ParentsOf(t), y)
    /\ t[x].parent # None
    /\ new \notin Under(ParentsOf(t), x)
    /\ DOMAIN t2 = DOMAIN t \ Under(ParentsOf(t), y)
    /\ \A m \in DOMAIN t2 : t2[m].parent = IF m = x THEN new ELSE t[m].parent
    /\ ListsChange(t, k, DOMAIN t2, {x, y}, {x}, new, u, t2, k2)

\* A subtree goes and another one, of the same forest, comes to its place.
LEMMA MoveOverTables ==
    ASSUME NEW t, NEW k, Well(t, k), NEW y, NEW x, NEW new, NEW u, NEW t2, NEW k2,
           TablesMovedOver(t, k, y, x, new, u, t2, k2)
    PROVE  Well(t2, k2)
<1> DEFINE P == ParentsOf(t)
           L == Named(t, k)
           Q == ParentsOf(t2)
           M == Named(t2, k2)
           D == DOMAIN t \ Under(ParentsOf(t), y)
           R == [m \in D |-> P[m]]
           K == [q \in D \X Slots |-> L[q] \ {y}]
<1> USE DEF TablesMovedOver
<1>1. /\ DOMAIN P = DOMAIN t /\ \A n \in DOMAIN t : P[n] = t[n].parent
      /\ \A n \in DOMAIN t, s \in Slots : L[<<n, s>>] = Entries(ListOf(t, k, n, s))
  BY NamedIs
<1>2. /\ DOMAIN Q = DOMAIN t2 /\ \A n \in DOMAIN t2 : Q[n] = t2[n].parent
      /\ \A n \in DOMAIN t2, s \in Slots : M[<<n, s>>] = Entries(ListOf(t2, k2, n, s))
  BY NamedIs
<1>3. Forest(P, L)
  BY DEF Well
<1>4. y \in DOMAIN t /\ new \in D /\ u \in Slots
  BY ListedOnce DEF Listed
<1>5. DOMAIN R = D /\ \A m \in DOMAIN R : R[m] = P[m]
  OBVIOUS
<1>6. \A n \in DOMAIN R, s \in Slots : K[<<n, s>>] = L[<<n, s>>] \ {y}
  OBVIOUS
<1> HIDE DEF P, L, Q, M, R, K
<1>7. Forest(R, K)
  <2>1. Pruned(P, L, y, R, K)
    BY <1>1, <1>4, <1>5, <1>6 DEF Pruned, P
  <2> QED
    BY <1>3, <2>1, Prune
<1>8. new \notin Under(R, x)
  <2>1. \A m \in DOMAIN P : P[m] \in Under(P, x) => m \in Under(P, x)
    BY UnderClosed
  <2>2. x \in Under(P, x)
    BY <1>1, UnderClosed
  <2>3. D \subseteq DOMAIN P
    BY <1>1
  <2>4. \A m \in DOMAIN R : R[m] \in Under(P, x) => m \in Under(P, x)
    BY <2>1, <2>3, <1>5
  <2>5. Under(R, x) \subseteq Under(P, x)
    BY <2>2, <2>4, UnderLeast
  <2> QED
    BY <2>5 DEF P
<1>9. Transferred(R, K, x, new, u, Q, M)
  <2>1. \A n \in DOMAIN R, s \in Slots :
            M[<<n, s>>] = (K[<<n, s>>] \ {x}) \union (IF n = new /\ s = u THEN {x} ELSE {})
    <3>1. ASSUME NEW n \in DOMAIN R, NEW s \in Slots
          PROVE  M[<<n, s>>] = (K[<<n, s>>] \ {x}) \union (IF n = new /\ s = u THEN {x} ELSE {})
      <4>1. n \in D /\ n \in DOMAIN t /\ n \in DOMAIN t2
        BY <1>5
      <4>2. M[<<n, s>>] = Entries(ListOf(t2, k2, n, s)) /\ L[<<n, s>>] = Entries(ListOf(t, k, n, s))
        BY <4>1, <1>1, <1>2
      <4>3. K[<<n, s>>] = L[<<n, s>>] \ {y}
        BY <1>6
      <4>4. ListsChange(t, k, DOMAIN t2, {x, y}, {x}, new, u, t2, k2)
        OBVIOUS
      <4> HIDE DEF TablesMovedOver, D
      <4>5. Entries(ListOf(t2, k2, n, s)) =
                (Entries(ListOf(t, k, n, s)) \ {x, y}) \union (IF n = new /\ s = u THEN {x} ELSE {})
        BY <4>1, <4>4 DEF ListsChange
      <4> QED
        BY <4>2, <4>3, <4>5
    <3> QED
      BY <3>1
  <2>2. DOMAIN Q = DOMAIN R /\ \A m \in DOMAIN R : Q[m] = IF m = x THEN new ELSE R[m]
    BY <1>1, <1>2, <1>5
  <2>3. x \in DOMAIN R /\ R[x] # None /\ new \in DOMAIN R /\ u \in Slots
    BY <1>1, <1>4, <1>5
  <2> QED
    BY <2>1, <2>2, <2>3, <1>8 DEF Transferred
<1>10. Forest(Q, M)
  BY <1>7, <1>9, Transfer
<1> QED
  BY <1>10 DEF Well, Q, M, ListsChange

--------------------------------------------------------------------------------
(***************************************************************************)
(* What the statements do to the tables.                                   *)
(***************************************************************************)
\* Subtree(n) is the subtree by the parents of nodes.
LEMMA SubtreeIs ==
    ASSUME NEW n
    PROVE  Subtree(n) = Under(ParentsOf(nodes), n)
<1>1. \A X : ChildrenOf(X) = {m \in DOMAIN nodes : ParentsOf(nodes)[m] \in X}
  BY DEF ChildrenOf, ParentsOf
<1>2. DOMAIN ParentsOf(nodes) = DOMAIN nodes
  BY DEF ParentsOf
<1> HIDE DEF ParentsOf
<1> QED
  BY <1>1, <1>2 DEF Subtree, Under

\* children() and annotations() are the lists of the two tables.
LEMMA Accessors ==
    /\ \A p, c : children(p, c) = RowOf(containments, p, c)
    /\ \A p : annotations(p) = nodes[p].annotations
  BY DEF children, annotations, RowOf

\* What the rows of typed tables are.
LEMMA RowTypes ==
    ASSUME NEW t, NEW k, Typed(t, k), NEW n \in DOMAIN t
    PROVE  /\ n \in Ids
           /\ t[n].parent \in DOMAIN t \union {None}
           /\ t[n].parent \in Ids \union {None}
           /\ t[n].annotations \in Seq(Ids)
           /\ t[n] = [parent |-> t[n].parent, annotations |-> t[n].annotations]
           /\ \A s : RowOf(k, n, s) \in Seq(Ids)
           /\ \A s : ListOf(t, k, n, s) \in Seq(Ids)
<1>1. n \in Ids /\ t[n] \in NodeRow
  BY DEF Typed, NodeRows
<1>2. t[n].parent \in DOMAIN t \union {None}
  BY NamedIs DEF Typed, Parents
<1>3. \A s : RowOf(k, n, s) \in Seq(Ids)
  BY EmptySeq DEF Typed, ListRows, RowOf
<1>4. /\ t[n].parent \in Ids \union {None} /\ t[n].annotations \in Seq(Ids)
      /\ t[n] = [parent |-> t[n].parent, annotations |-> t[n].annotations]
  BY <1>1 DEF NodeRow
<1> QED
  BY <1>1, <1>2, <1>3, <1>4 DEF ListOf

\* The rows of subtree y go, and no other.
DeletedTables(t, k, y, t1, k1) ==
    /\ DOMAIN t1 = DOMAIN t \ Under(ParentsOf(t), y)
    /\ \A n \in DOMAIN t1 : t1[n].parent = t[n].parent
    /\ \A n \in DOMAIN t1, s \in Slots : ListOf(t1, k1, n, s) = ListOf(t, k, n, s)

\* SQL_deleteFullNodes() deletes the rows of the subtree.
LEMMA Deletes ==
    ASSUME Typed(nodes, containments), NEW y
    PROVE  /\ Typed(Deleted(Subtree(y)), DeletedLists(Subtree(y)))
           /\ DeletedTables(nodes, containments, y,
                            Deleted(Subtree(y)), DeletedLists(Subtree(y)))
<1> DEFINE gone == Under(ParentsOf(nodes), y)
           t1 == Deleted(Subtree(y))
           k1 == DeletedLists(Subtree(y))
<1>1. /\ DOMAIN t1 = DOMAIN nodes \ gone
      /\ \A n \in DOMAIN t1 : t1[n] = nodes[n]
  BY SubtreeIs DEF Deleted, Restrict
<1>2. /\ DOMAIN k1 = {j \in DOMAIN containments : j[1] \notin gone}
      /\ \A j \in DOMAIN k1 : k1[j] = containments[j]
  BY SubtreeIs DEF DeletedLists, Restrict
<1>3. \A m \in DOMAIN nodes : nodes[m].parent \in gone => m \in gone
  BY UnderClosed, NamedIs
<1> HIDE DEF t1, k1, gone
<1>4. IsFiniteSet(DOMAIN t1)
  <2>1. DOMAIN t1 \subseteq DOMAIN nodes /\ IsFiniteSet(DOMAIN nodes)
    BY <1>1 DEF Typed
  <2> QED
    BY <2>1, FS_Subset
<1>5. DOMAIN t1 \subseteq Ids /\ NodeRows(t1)
  BY <1>1 DEF Typed, NodeRows
<1>6. ListRows(k1, DOMAIN t1)
  <2>1. ASSUME NEW j \in DOMAIN k1 PROVE j \in (DOMAIN t1) \X Containments
    <3>1. j \in DOMAIN containments /\ j[1] \notin gone
      BY <1>2
    <3>2. j \in (DOMAIN nodes) \X Containments
      BY <3>1 DEF Typed, ListRows
    <3> QED
      BY <3>1, <3>2, <1>1
  <2>2. \A j \in DOMAIN k1 : k1[j] \in Seq(Ids) \ {<<>>}
    BY <1>2 DEF Typed, ListRows
  <2> QED
    BY <2>1, <2>2 DEF ListRows
<1>7. Parents(ParentsOf(t1))
  <2>1. ASSUME NEW m \in DOMAIN t1 PROVE t1[m].parent \in DOMAIN t1 \union {None}
    <3>1. nodes[m].parent \in DOMAIN nodes \union {None}
      BY <1>1, NamedIs DEF Typed, Parents
    <3> QED
      BY <3>1, <1>1, <1>3
  <2> QED
    BY <2>1, NamedIs DEF Parents
<1>8. ASSUME NEW n \in DOMAIN t1, NEW s \in Slots
      PROVE  ListOf(t1, k1, n, s) = ListOf(nodes, containments, n, s)
  <2> DEFINE q == <<n, s>>
  <2>1. q[1] = n
    OBVIOUS
  <2> HIDE DEF q
  <2>2. q \in DOMAIN k1 <=> q \in DOMAIN containments
    BY <2>1, <1>1, <1>2
  <2>3. RowOf(k1, n, s) = RowOf(containments, n, s)
    BY <2>2, <1>2 DEF RowOf, q
  <2>4. t1[n].annotations = nodes[n].annotations
    BY <1>1
  <2> QED
    BY <2>3, <2>4 DEF ListOf
<1>9. DeletedTables(nodes, containments, y, t1, k1)
  BY <1>1, <1>8 DEF DeletedTables, gone
<1> QED
  BY <1>4, <1>5, <1>6, <1>7, <1>9 DEF Typed, t1, k1

\* The rows of the chunk `new' come beside those of the tables.
GraftedTables(t, k, new, t1, k1) ==
    /\ DOMAIN t1 = DOMAIN t \union DOMAIN new.rows
    /\ \A n \in DOMAIN t : t1[n].parent = t[n].parent
    /\ \A m \in DOMAIN new.rows : t1[m].parent = new.rows[m].parent
    /\ \A n \in DOMAIN t, s \in Slots : ListOf(t1, k1, n, s) = ListOf(t, k, n, s)
    /\ \A m \in DOMAIN new.rows, s \in Slots :
           ListOf(t1, k1, m, s) = ListOf(new.rows, new.lists, m, s)

\* The rows of a chunk are inserted.
LEMMA Grafts ==
    ASSUME NEW t, NEW k, Typed(t, k), NEW p \in DOMAIN t \union {None}, NEW new,
           IsTree(new, p), DOMAIN new.rows \intersect DOMAIN t = {}
    PROVE  /\ Typed(Over(new.rows, t), Over(new.lists, k))
           /\ GraftedTables(t, k, new, Over(new.rows, t), Over(new.lists, k))
<1> DEFINE N == DOMAIN new.rows
           a == new.root
           t1 == Over(new.rows, t)
           k1 == Over(new.lists, k)
<1>1. /\ DOMAIN t1 = DOMAIN t \union N
      /\ \A n \in DOMAIN t : t1[n] = t[n]
      /\ \A m \in N : t1[m] = new.rows[m]
  BY DEF Over
<1>2. /\ DOMAIN k1 = DOMAIN k \union DOMAIN new.lists
      /\ \A j \in DOMAIN new.lists : k1[j] = new.lists[j]
      /\ \A j \in DOMAIN k \ DOMAIN new.lists : k1[j] = k[j]
  BY DEF Over
<1> HIDE DEF t1, k1
<1>3. IsFiniteSet(DOMAIN t1)
  <2>1. IsFiniteSet(DOMAIN t) /\ IsFiniteSet(N)
    BY DEF Typed, IsTree
  <2> DEFINE D == DOMAIN t
  <2>3. IsFiniteSet(D) /\ IsFiniteSet(N)
    BY <2>1
  <2> HIDE DEF D, N
  <2>2. IsFiniteSet(D \union N)
    BY <2>3, FS_Union
  <2> QED
    BY <2>2, <1>1 DEF D
<1>4. DOMAIN t1 \subseteq Ids
  BY <1>1 DEF Typed, IsTree
<1>5. NodeRows(t1)
  BY <1>1 DEF Typed, IsTree, NodeRows
<1>6. DOMAIN k \subseteq (DOMAIN t) \X Containments /\ DOMAIN new.lists \subseteq {a} \X Containments
  BY DEF Typed, IsTree, ListRows
<1>7. a \in N
  BY DEF IsTree
<1>8. ListRows(k1, DOMAIN t1)
  <2>1. (DOMAIN t) \X Containments \subseteq (DOMAIN t1) \X Containments
    BY <1>1
  <2>2. {a} \X Containments \subseteq (DOMAIN t1) \X Containments
    BY <1>1, <1>7
  <2>3. \A j \in DOMAIN k1 : k1[j] \in Seq(Ids) \ {<<>>}
    BY <1>2 DEF Typed, IsTree, ListRows
  <2> QED
    BY <2>1, <2>2, <2>3, <1>2, <1>6 DEF ListRows
<1>9. Parents(ParentsOf(t1))
  <2>1. ASSUME NEW m \in DOMAIN t1 PROVE t1[m].parent \in DOMAIN t1 \union {None}
    <3>1. CASE m \in DOMAIN t
      BY <3>1, <1>1, NamedIs DEF Typed, Parents
    <3>2. CASE m \in N
      BY <3>2, <1>1, <1>7 DEF IsTree
    <3> QED
      BY <3>1, <3>2, <1>1
  <2> QED
    BY <2>1, NamedIs DEF Parents
<1>10. ASSUME NEW n \in DOMAIN t, NEW s \in Slots
       PROVE  ListOf(t1, k1, n, s) = ListOf(t, k, n, s)
  <2> DEFINE q == <<n, s>>
  <2>1. q[1] = n
    OBVIOUS
  <2>2. n # a
    BY <1>7
  <2> HIDE DEF q
  <2>3. q \notin DOMAIN new.lists
    <3>1. ASSUME q \in DOMAIN new.lists PROVE FALSE
      <4>1. q[1] \in {a}
        BY <3>1, <1>6
      <4> QED
        BY <4>1, <2>1, <2>2
    <3> QED
      BY <3>1
  <2>4. RowOf(k1, n, s) = RowOf(k, n, s)
    BY <2>3, <1>2 DEF RowOf, q
  <2>5. t1[n].annotations = t[n].annotations
    BY <1>1
  <2> QED
    BY <2>4, <2>5 DEF ListOf
<1>11. ASSUME NEW m \in N, NEW s \in Slots
       PROVE  ListOf(t1, k1, m, s) = ListOf(new.rows, new.lists, m, s)
  <2> DEFINE q == <<m, s>>
  <2>1. q[1] = m
    OBVIOUS
  <2>2. m \notin DOMAIN t
    OBVIOUS
  <2> HIDE DEF q
  <2>3. q \notin DOMAIN k
    <3>1. ASSUME q \in DOMAIN k PROVE FALSE
      <4>1. q[1] \in DOMAIN t
        BY <3>1, <1>6
      <4> QED
        BY <4>1, <2>1, <2>2
    <3> QED
      BY <3>1
  <2>4. RowOf(k1, m, s) = RowOf(new.lists, m, s)
    BY <2>3, <1>2 DEF RowOf, q
  <2>5. t1[m].annotations = new.rows[m].annotations
    BY <1>1
  <2> QED
    BY <2>4, <2>5 DEF ListOf
<1>12. GraftedTables(t, k, new, t1, k1)
  BY <1>1, <1>10, <1>11 DEF GraftedTables
<1> QED
  BY <1>3, <1>4, <1>5, <1>8, <1>9, <1>12 DEF Typed, t1, k1

\* The list of slot u of p becomes `list', and nothing else changes.
SetList(t, k, p, u, list, t2, k2) ==
    /\ DOMAIN t2 = DOMAIN t
    /\ \A n \in DOMAIN t : t2[n].parent = t[n].parent
    /\ \A n \in DOMAIN t, s \in Slots :
           ListOf(t2, k2, n, s) = IF n = p /\ s = u THEN list ELSE ListOf(t, k, n, s)

\* An update of an annotations column.
LEMMA SetsAnnotations ==
    ASSUME NEW t, NEW k, Typed(t, k), NEW p, NEW list \in Seq(Ids)
    PROVE  /\ Typed(WithAnnotations(t, p, list), k)
           /\ SetList(t, k, p, Annotations, list, WithAnnotations(t, p, list), k)
<1> DEFINE t2 == WithAnnotations(t, p, list)
<1>1. DOMAIN t2 = DOMAIN t
  BY DEF WithAnnotations
<1>2. ASSUME NEW n \in DOMAIN t
      PROVE  /\ t2[n] = [parent |-> t[n].parent,
                         annotations |-> IF n = p THEN list ELSE t[n].annotations]
             /\ t2[n] \in NodeRow
             /\ t2[n].parent = t[n].parent
             /\ t2[n].annotations = IF n = p THEN list ELSE t[n].annotations
  <2> DEFINE row == t[n]
  <2>1. row = [parent |-> row.parent, annotations |-> row.annotations]
    BY RowTypes
  <2>2. t2[n] = IF n = p THEN [row EXCEPT !.annotations = list] ELSE row
    BY DEF WithAnnotations
  <2>3. row.parent \in Ids \union {None} /\ row.annotations \in Seq(Ids)
    BY RowTypes
  <2> HIDE DEF row
  <2>4. t2[n] = [parent |-> row.parent, annotations |-> IF n = p THEN list ELSE row.annotations]
    BY <2>1, <2>2
  <2> HIDE DEF t2
  <2>5. t2[n].parent = row.parent /\ t2[n].annotations = IF n = p THEN list ELSE row.annotations
    BY <2>4
  <2>6. t2[n] \in NodeRow
    BY <2>3, <2>4 DEF NodeRow
  <2> QED
    BY <2>4, <2>5, <2>6 DEF row
<1> HIDE DEF t2
<1>3. Parents(ParentsOf(t2))
  <2>1. \A n \in DOMAIN t2 : t2[n].parent \in DOMAIN t2 \union {None}
    BY <1>1, <1>2, RowTypes
  <2> QED
    BY <2>1, NamedIs DEF Parents
<1>4. Typed(t2, k)
  BY <1>1, <1>2, <1>3 DEF Typed, NodeRows
<1>5. ASSUME NEW n \in DOMAIN t, NEW s \in Slots
      PROVE  ListOf(t2, k, n, s) = IF n = p /\ s = Annotations THEN list ELSE ListOf(t, k, n, s)
  BY <1>2 DEF ListOf
<1> QED
  BY <1>1, <1>2, <1>4, <1>5 DEF SetList, t2

\* The rows that UPDATE and INSERT leave.
LEMMA UpdatedRows ==
    ASSUME NEW k, NEW new, NEW n, NEW c
    PROVE  /\ <<n, c>> \in DOMAIN k /\ <<n, c>> \in DOMAIN new =>
                  RowOf(Updated(k, new), n, c) = new[<<n, c>>]
           /\ ~(<<n, c>> \in DOMAIN k /\ <<n, c>> \in DOMAIN new) =>
                  RowOf(Updated(k, new), n, c) = RowOf(k, n, c)
<1> DEFINE q == <<n, c>>
<1>1. /\ DOMAIN Updated(k, new) = DOMAIN k \ {j \in DOMAIN new : new[j] = <<>>}
      /\ \A j \in DOMAIN Updated(k, new) :
             Updated(k, new)[j] = IF j \in DOMAIN new THEN new[j] ELSE k[j]
  BY DEF Updated
<1> HIDE DEF q
<1>2. CASE q \in DOMAIN k /\ q \in DOMAIN new
  <2>1. CASE new[q] = <<>>
    BY <2>1, <1>1, <1>2 DEF RowOf, q
  <2>2. CASE new[q] # <<>>
    BY <2>2, <1>1, <1>2 DEF RowOf, q
  <2> QED
    BY <2>1, <2>2, <1>2 DEF q
<1>3. CASE ~(q \in DOMAIN k /\ q \in DOMAIN new)
  <2>1. q \in DOMAIN Updated(k, new) <=> q \in DOMAIN k
    BY <1>1, <1>3
  <2>2. q \in DOMAIN k => Updated(k, new)[q] = k[q]
    BY <1>1, <1>3
  <2> QED
    BY <2>1, <2>2, <1>3 DEF RowOf, q
<1> QED
  BY <1>2, <1>3 DEF q

\* Stored gives the new lists, whether they have rows or not.
LEMMA StoredRows ==
    ASSUME NEW k, NEW new, NEW n, NEW c
    PROVE  /\ <<n, c>> \in DOMAIN new => RowOf(Stored(k, new), n, c) = new[<<n, c>>]
           /\ <<n, c>> \notin DOMAIN new => RowOf(Stored(k, new), n, c) = RowOf(k, n, c)
<1> DEFINE q == <<n, c>>
           both == Over(new, k)
<1>1. /\ DOMAIN both = DOMAIN new \union DOMAIN k
      /\ \A j \in DOMAIN new : both[j] = new[j]
      /\ \A j \in DOMAIN k \ DOMAIN new : both[j] = k[j]
  BY DEF Over
<1>2. Stored(k, new) = Updated(both, new)
  BY DEF Stored
<1> HIDE DEF q, both
<1>3. /\ q \in DOMAIN both /\ q \in DOMAIN new => RowOf(Updated(both, new), n, c) = new[q]
      /\ ~(q \in DOMAIN both /\ q \in DOMAIN new) =>
             RowOf(Updated(both, new), n, c) = RowOf(both, n, c)
  BY UpdatedRows DEF q
<1>4. q \notin DOMAIN new => RowOf(both, n, c) = RowOf(k, n, c)
  BY <1>1 DEF RowOf, q
<1> QED
  BY <1>1, <1>2, <1>3, <1>4 DEF q

\* Both keep the types: no list without children gets a row.
LEMMA UpdatedTypes ==
    ASSUME NEW t, NEW k, Typed(t, k), NEW new, \A j \in DOMAIN new : new[j] \in Seq(Ids)
    PROVE  Typed(t, Updated(k, new))
<1>1. /\ DOMAIN Updated(k, new) = DOMAIN k \ {j \in DOMAIN new : new[j] = <<>>}
      /\ \A j \in DOMAIN Updated(k, new) :
             Updated(k, new)[j] = IF j \in DOMAIN new THEN new[j] ELSE k[j]
  BY DEF Updated
<1>2. ListRows(Updated(k, new), DOMAIN t)
  <2>1. \A j \in DOMAIN Updated(k, new) : Updated(k, new)[j] \in Seq(Ids) \ {<<>>}
    BY <1>1 DEF Typed, ListRows
  <2>2. DOMAIN Updated(k, new) \subseteq (DOMAIN t) \X Containments
    BY <1>1 DEF Typed, ListRows
  <2> QED
    BY <2>1, <2>2 DEF ListRows
<1> QED
  BY <1>2 DEF Typed

\* Stored keeps them too.
LEMMA StoredTypes ==
    ASSUME NEW t, NEW k, Typed(t, k), NEW new, \A j \in DOMAIN new : new[j] \in Seq(Ids),
           DOMAIN new \subseteq (DOMAIN t) \X Containments
    PROVE  Typed(t, Stored(k, new))
<1> DEFINE both == Over(new, k)
<1>1. /\ DOMAIN both = DOMAIN new \union DOMAIN k
      /\ \A j \in DOMAIN new : both[j] = new[j]
      /\ \A j \in DOMAIN k \ DOMAIN new : both[j] = k[j]
  BY DEF Over
<1> HIDE DEF both
<1>2. /\ DOMAIN Updated(both, new) = DOMAIN both \ {j \in DOMAIN new : new[j] = <<>>}
      /\ \A j \in DOMAIN Updated(both, new) :
             Updated(both, new)[j] = IF j \in DOMAIN new THEN new[j] ELSE both[j]
  BY DEF Updated
<1>3. ListRows(Updated(both, new), DOMAIN t)
  <2>1. \A j \in DOMAIN Updated(both, new) : Updated(both, new)[j] \in Seq(Ids) \ {<<>>}
    BY <1>1, <1>2 DEF Typed, ListRows
  <2>2. DOMAIN Updated(both, new) \subseteq (DOMAIN t) \X Containments
    BY <1>1, <1>2 DEF Typed, ListRows
  <2> QED
    BY <2>1, <2>2 DEF ListRows
<1> QED
  BY <1>3 DEF Typed, Stored, both

\* x gets parent p.
ParentChanged(t, x, p, t2) ==
    /\ DOMAIN t2 = DOMAIN t
    /\ \A n \in DOMAIN t : /\ t2[n].parent = IF n = x THEN p ELSE t[n].parent
                           /\ t2[n].annotations = t[n].annotations
                           /\ t2[n] = [parent |-> IF n = x THEN p ELSE t[n].parent,
                                       annotations |-> t[n].annotations]

\* An update of a parent column changes that column.
LEMMA ParentsKept ==
    ASSUME NEW t, NEW k, Typed(t, k), NEW x, NEW p
    PROVE  ParentChanged(t, x, p, WithParent(t, x, p))
<1> DEFINE t2 == WithParent(t, x, p)
<1>1. DOMAIN t2 = DOMAIN t
  BY DEF WithParent
<1>2. ASSUME NEW n \in DOMAIN t
      PROVE  /\ t2[n].parent = IF n = x THEN p ELSE t[n].parent
             /\ t2[n].annotations = t[n].annotations
             /\ t2[n] = [parent |-> IF n = x THEN p ELSE t[n].parent,
                         annotations |-> t[n].annotations]
  <2> DEFINE row == t[n]
  <2>1. row = [parent |-> row.parent, annotations |-> row.annotations]
    BY RowTypes
  <2>2. t2[n] = IF n = x THEN [row EXCEPT !.parent = p] ELSE row
    BY DEF WithParent
  <2> HIDE DEF row
  <2>4. t2[n] = [parent |-> IF n = x THEN p ELSE row.parent, annotations |-> row.annotations]
    BY <2>1, <2>2
  <2>5. t2[n].parent = (IF n = x THEN p ELSE row.parent) /\ t2[n].annotations = row.annotations
    BY <2>4
  <2> QED
    BY <2>4, <2>5 DEF row
<1> QED
  BY <1>1, <1>2 DEF ParentChanged

\* It keeps the types, and all lists.
LEMMA ParentTypes ==
    ASSUME NEW t, NEW k, Typed(t, k), NEW x, NEW p \in DOMAIN t
    PROVE  /\ Typed(WithParent(t, x, p), k)
           /\ \A n, s : n \in DOMAIN t =>
                  ListOf(WithParent(t, x, p), k, n, s) = ListOf(t, k, n, s)
<1> DEFINE t2 == WithParent(t, x, p)
<1>1. /\ DOMAIN t2 = DOMAIN t
      /\ \A n \in DOMAIN t : /\ t2[n].parent = IF n = x THEN p ELSE t[n].parent
                             /\ t2[n].annotations = t[n].annotations
                             /\ t2[n] = [parent |-> IF n = x THEN p ELSE t[n].parent,
                                         annotations |-> t[n].annotations]
  <2>1. ParentChanged(t, x, p, t2)
    BY ParentsKept
  <2> QED
    BY <2>1 DEF ParentChanged
<1> HIDE DEF t2
<1>2. NodeRows(t2)
  <2>1. ASSUME NEW n \in DOMAIN t PROVE t2[n] \in NodeRow
    <3>1. (IF n = x THEN p ELSE t[n].parent) \in Ids \union {None} /\ t[n].annotations \in Seq(Ids)
      BY RowTypes
    <3>2. t2[n] = [parent |-> IF n = x THEN p ELSE t[n].parent, annotations |-> t[n].annotations]
      BY <1>1
    <3> QED
      BY <3>1, <3>2 DEF NodeRow
  <2> QED
    BY <2>1, <1>1 DEF NodeRows
<1>3. Parents(ParentsOf(t2))
  <2>1. \A n \in DOMAIN t2 : t2[n].parent \in DOMAIN t2 \union {None}
    BY <1>1, RowTypes
  <2> QED
    BY <2>1, NamedIs DEF Parents
<1>4. Typed(t2, k)
  BY <1>1, <1>2, <1>3 DEF Typed
<1> QED
  BY <1>1, <1>4 DEF t2, ListOf

\* An update of one list of children that is not empty.
LEMMA SetsRow ==
    ASSUME NEW t, NEW k, Typed(t, k), NEW p \in DOMAIN t, NEW c \in Containments,
           NEW list \in Seq(Ids), RowOf(k, p, c) # <<>>
    PROVE  /\ Typed(t, Updated(k, Only(<<p, c>>, list)))
           /\ SetList(t, k, p, c, list, t, Updated(k, Only(<<p, c>>, list)))
<1> DEFINE new == Only(<<p, c>>, list)
           k2 == Updated(k, new)
<1>1. DOMAIN new = {<<p, c>>} /\ new[<<p, c>>] = list
  BY DEF Only
<1>2. <<p, c>> \in DOMAIN k
  BY DEF RowOf
<1> HIDE DEF new
<1>3. Typed(t, k2)
  <2>1. \A j \in DOMAIN new : new[j] \in Seq(Ids)
    BY <1>1
  <2> QED
    BY <2>1, UpdatedTypes
<1>4. ASSUME NEW n \in DOMAIN t, NEW s \in Slots
      PROVE  ListOf(t, k2, n, s) = IF n = p /\ s = c THEN list ELSE ListOf(t, k, n, s)
  <2>1. c # Annotations
    BY AnnotationsAssumption
  <2>2. CASE n = p /\ s = c
    <3>1. RowOf(k2, n, s) = list
      BY <2>2, <1>1, <1>2, UpdatedRows
    <3> QED
      BY <3>1, <2>1, <2>2 DEF ListOf
  <2>3. CASE ~(n = p /\ s = c)
    <3>1. <<n, s>> \notin DOMAIN new
      BY <2>3, <1>1
    <3>2. RowOf(k2, n, s) = RowOf(k, n, s)
      BY <3>1, UpdatedRows
    <3> QED
      BY <3>2, <2>3 DEF ListOf
  <2> QED
    BY <2>2, <2>3
<1> QED
  BY <1>3, <1>4 DEF SetList, new

\* The same with Stored, also where there is no row.
LEMMA StoresRow ==
    ASSUME NEW t, NEW k, Typed(t, k), NEW p \in DOMAIN t, NEW c \in Containments,
           NEW list \in Seq(Ids)
    PROVE  /\ Typed(t, Stored(k, Only(<<p, c>>, list)))
           /\ SetList(t, k, p, c, list, t, Stored(k, Only(<<p, c>>, list)))
<1> DEFINE new == Only(<<p, c>>, list)
           k2 == Stored(k, new)
<1>1. DOMAIN new = {<<p, c>>} /\ new[<<p, c>>] = list
  BY DEF Only
<1> HIDE DEF new
<1>3. Typed(t, k2)
  <2>1. \A j \in DOMAIN new : new[j] \in Seq(Ids)
    BY <1>1
  <2>2. DOMAIN new \subseteq (DOMAIN t) \X Containments
    BY <1>1, InProduct
  <2> QED
    BY <2>1, <2>2, StoredTypes
<1>4. ASSUME NEW n \in DOMAIN t, NEW s \in Slots
      PROVE  ListOf(t, k2, n, s) = IF n = p /\ s = c THEN list ELSE ListOf(t, k, n, s)
  <2>1. c # Annotations
    BY AnnotationsAssumption
  <2>2. CASE n = p /\ s = c
    <3>1. RowOf(k2, n, s) = list
      BY <2>2, <1>1, StoredRows
    <3> QED
      BY <3>1, <2>1, <2>2 DEF ListOf
  <2>3. CASE ~(n = p /\ s = c)
    <3>1. <<n, s>> \notin DOMAIN new
      BY <2>3, <1>1
    <3>2. RowOf(k2, n, s) = RowOf(k, n, s)
      BY <3>1, StoredRows
    <3> QED
      BY <3>2, <2>3 DEF ListOf
  <2> QED
    BY <2>2, <2>3
<1> QED
  BY <1>3, <1>4 DEF SetList, new

--------------------------------------------------------------------------------
(***************************************************************************)
(* The commands keep the tree: one lemma for each way of changing a list.  *)
(***************************************************************************)
\* Place i of slot u of p holds y.
At(t, k, p, u, i, y) ==
    /\ p \in DOMAIN t /\ u \in Slots
    /\ i \in Nat /\ i < Len(ListOf(t, k, p, u))
    /\ ListOf(t, k, p, u)[i + 1] = y

\* What a place holds is listed.
LEMMA AtIsListed ==
    ASSUME NEW t, NEW k, Typed(t, k), Well(t, k),
           NEW p, NEW u, NEW i, NEW y, At(t, k, p, u, i, y)
    PROVE  /\ Listed(t, k, p, u, y)
           /\ y \in Ids
           /\ ListOf(t, k, p, u) \in Seq(Ids)
           /\ OnceEach(ListOf(t, k, p, u))
<1> DEFINE s == ListOf(t, k, p, u)
<1>1. s \in Seq(Ids) /\ OnceEach(s)
  BY RowTypes DEF At, Well
<1>2. i \in Nat /\ i < Len(s) /\ s[i + 1] = y /\ p \in DOMAIN t /\ u \in Slots
  BY DEF At
<1> HIDE DEF s
<1>3. Len(s) \in Nat
  BY <1>1, LenProperties
<1>4. y \in Entries(s)
  <2>1. i + 1 \in 1..Len(s)
    BY <1>2, <1>3
  <2> QED
    BY <1>2, <2>1 DEF Entries
<1>5. y \in Ids
  BY <1>1, <1>2, <1>3, ElementOfSeq
<1> QED
  BY <1>1, <1>2, <1>4, <1>5 DEF Listed, s

\* Lists name nodes that exist.
LEMMA EntriesExist ==
    ASSUME NEW t, NEW k, Well(t, k), NEW p \in DOMAIN t, NEW u \in Slots
    PROVE  Entries(ListOf(t, k, p, u)) \subseteq DOMAIN t
<1>1. ASSUME NEW y \in Entries(ListOf(t, k, p, u)) PROVE y \in DOMAIN t
  <2>1. Listed(t, k, p, u, y)
    BY DEF Listed
  <2> QED
    BY <2>1, ListedOnce
<1> QED
  BY <1>1

\* A node is taken from its list, and its subtree deleted.
LEMMA RemoveListed ==
    ASSUME NEW t, NEW k, Typed(t, k), Well(t, k), NEW p, NEW u, NEW i, NEW y,
           At(t, k, p, u, i, y), NEW t1, NEW k1, DeletedTables(t, k, y, t1, k1),
           NEW list, Entries(list) = Entries(ListOf(t, k, p, u)) \ {y}, OnceEach(list),
           NEW t2, NEW k2, SetList(t1, k1, p, u, list, t2, k2)
    PROVE  Well(t2, k2)
<1>1. Listed(t, k, p, u, y)
  BY AtIsListed
<1>2. y \in DOMAIN t /\ p \in DOMAIN t1 /\ u \in Slots
  BY <1>1, ListedOnce DEF Listed, DeletedTables
<1>3. TablesPruned(t, k, y, p, u, t2, k2)
  <2>1. DOMAIN t2 = DOMAIN t \ Under(ParentsOf(t), y) /\ DOMAIN t2 = DOMAIN t1
    BY DEF SetList, DeletedTables
  <2>2. \A m \in DOMAIN t2 : t2[m].parent = t[m].parent
    BY <2>1 DEF SetList, DeletedTables
  <2>3. ASSUME NEW n \in DOMAIN t2, NEW s \in Slots
        PROVE  ListOf(t2, k2, n, s) = IF n = p /\ s = u THEN list ELSE ListOf(t, k, n, s)
    <3>1. ListOf(t2, k2, n, s) = IF n = p /\ s = u THEN list ELSE ListOf(t1, k1, n, s)
      BY <2>1 DEF SetList
    <3>2. ListOf(t1, k1, n, s) = ListOf(t, k, n, s)
      BY <2>1 DEF DeletedTables
    <3> QED
      BY <3>1, <3>2
  <2>4. ListOf(t2, k2, p, u) = list
    BY <2>1, <2>3, <1>2
  <2>5. p \in DOMAIN t /\ u \in Slots /\ y \in Entries(ListOf(t, k, p, u))
    BY <1>1 DEF Listed
  <2>6. \A n \in DOMAIN t2, s \in Slots :
            <<n, s>> # <<p, u>> => ListOf(t2, k2, n, s) = ListOf(t, k, n, s)
    BY <2>3
  <2> QED
    BY <1>2, <2>1, <2>2, <2>4, <2>5, <2>6 DEF TablesPruned
<1> QED
  BY <1>3, PruneTables

\* The root of a new tree is put into a list.
LEMMA AddListed ==
    ASSUME NEW t, NEW k, Typed(t, k), Well(t, k), NEW p \in DOMAIN t, NEW u \in Slots,
           NEW new, IsTree(new, p), DOMAIN new.rows \intersect DOMAIN t = {},
           NEW t1, NEW k1, GraftedTables(t, k, new, t1, k1),
           NEW i \in Int, NEW list, list = Splice(ListOf(t, k, p, u), i, 0, <<new.root>>),
           NEW t2, NEW k2, SetList(t1, k1, p, u, list, t2, k2)
    PROVE  Well(t2, k2)
<1> DEFINE a == new.root
           s0 == ListOf(t, k, p, u)
<1>1. a \in DOMAIN new.rows /\ a \in Ids /\ a \notin DOMAIN t
  BY DEF IsTree
<1>2. s0 \in Seq(Ids) /\ OnceEach(s0) /\ a \notin Entries(s0)
  BY <1>1, RowTypes, EntriesExist DEF Well
<1> HIDE DEF s0, a
<1>3. Entries(list) = Entries(s0) \union {a} /\ OnceEach(list)
  BY <1>1, <1>2, SpliceInserts DEF s0, a
<1>4. TablesGrafted(t, k, new, p, u, t2, k2)
  <2>1. DOMAIN t2 = DOMAIN t \union DOMAIN new.rows /\ DOMAIN t2 = DOMAIN t1
    BY DEF SetList, GraftedTables
  <2>2. /\ \A m \in DOMAIN t : t2[m].parent = t[m].parent
        /\ \A m \in DOMAIN new.rows : t2[m].parent = new.rows[m].parent
    BY <2>1 DEF SetList, GraftedTables
  <2>3. ASSUME NEW m \in DOMAIN new.rows, NEW s \in Slots
        PROVE  ListOf(t2, k2, m, s) = ListOf(new.rows, new.lists, m, s)
    <3>1. m # p /\ m \in DOMAIN t1
      BY <2>1
    <3>2. ListOf(t2, k2, m, s) = ListOf(t1, k1, m, s)
      BY <3>1 DEF SetList
    <3> QED
      BY <3>2 DEF GraftedTables
  <2>4. ASSUME NEW n \in DOMAIN t, NEW s \in Slots
        PROVE  ListOf(t2, k2, n, s) = IF n = p /\ s = u THEN list ELSE ListOf(t, k, n, s)
    <3>1. n \in DOMAIN t1
      BY <2>1
    <3>2. ListOf(t2, k2, n, s) = IF n = p /\ s = u THEN list ELSE ListOf(t1, k1, n, s)
      BY <3>1 DEF SetList
    <3>3. ListOf(t1, k1, n, s) = ListOf(t, k, n, s)
      BY DEF GraftedTables
    <3> QED
      BY <3>2, <3>3
  <2>5. ListOf(t2, k2, p, u) = list
    BY <2>4
  <2>6. \A n \in DOMAIN t, s \in Slots :
            <<n, s>> # <<p, u>> => ListOf(t2, k2, n, s) = ListOf(t, k, n, s)
    BY <2>4
  <2>7. /\ p \in DOMAIN t /\ u \in Slots
        /\ OnceEach(ListOf(t2, k2, p, u))
        /\ Entries(ListOf(t2, k2, p, u)) = Entries(ListOf(t, k, p, u)) \union {new.root}
    BY <2>5, <1>3 DEF s0, a
  <2> QED
    BY <2>1, <2>2, <2>3, <2>6, <2>7 DEF TablesGrafted
<1> QED
  BY <1>4, GraftTables

\* The root of a new tree replaces a node, whose subtree is deleted.
LEMMA ReplaceListed ==
    ASSUME NEW t, NEW k, Typed(t, k), Well(t, k), NEW p, NEW u, NEW i, NEW y,
           At(t, k, p, u, i, y), NEW t1, NEW k1, DeletedTables(t, k, y, t1, k1),
           NEW new, IsTree(new, p), DOMAIN new.rows \intersect DOMAIN t = {},
           NEW t2, NEW k2, GraftedTables(t1, k1, new, t2, k2),
           NEW list, list = Splice(ListOf(t, k, p, u), i, 1, <<new.root>>),
           NEW t3, NEW k3, SetList(t2, k2, p, u, list, t3, k3)
    PROVE  Well(t3, k3)
<1> DEFINE a == new.root
           s0 == ListOf(t, k, p, u)
           D == DOMAIN t \ Under(ParentsOf(t), y)
<1>1. a \in DOMAIN new.rows /\ a \in Ids /\ a \notin DOMAIN t
  BY DEF IsTree
<1>2. Listed(t, k, p, u, y) /\ s0 \in Seq(Ids) /\ OnceEach(s0)
  BY AtIsListed
<1>3. i \in Nat /\ i < Len(s0) /\ s0[i + 1] = y /\ p \in DOMAIN t /\ u \in Slots
  BY DEF At
<1>4. a \notin Entries(s0)
  BY <1>1, <1>3, EntriesExist
<1>5. \A n \in DOMAIN t, s \in Slots :
          y \in Entries(ListOf(t, k, n, s)) => n = p /\ s = u
  BY <1>2, ListedOnce
<1> HIDE DEF s0, a
<1>6. Entries(list) = (Entries(s0) \ {y}) \union {a} /\ OnceEach(list)
  <2>1. a \notin Entries(s0) \ {s0[i + 1]}
    BY <1>4
  <2>2. list = Splice(s0, i, 1, <<a>>)
    BY DEF s0, a
  <2>3. /\ Entries(Splice(s0, i, 1, <<a>>)) = (Entries(s0) \ {s0[i + 1]}) \union {a}
        /\ OnceEach(Splice(s0, i, 1, <<a>>))
    BY <2>1, <1>1, <1>2, <1>3, SpliceReplaces
  <2> QED
    BY <2>2, <2>3, <1>3
<1>7. /\ DOMAIN t1 = D
      /\ DOMAIN t2 = D \union DOMAIN new.rows
      /\ DOMAIN t3 = D \union DOMAIN new.rows
  BY DEF DeletedTables, GraftedTables, SetList
<1>8. \A m \in D : t3[m].parent = t[m].parent
  BY <1>7 DEF DeletedTables, GraftedTables, SetList
<1>9. \A m \in DOMAIN new.rows : t3[m].parent = new.rows[m].parent
  BY <1>7 DEF GraftedTables, SetList
<1>10. ASSUME NEW m \in DOMAIN new.rows, NEW s \in Slots
       PROVE  ListOf(t3, k3, m, s) = ListOf(new.rows, new.lists, m, s)
  <2>1. m # p /\ m \in DOMAIN t2
    BY <1>3, <1>7
  <2>2. ListOf(t3, k3, m, s) = ListOf(t2, k2, m, s)
    BY <2>1 DEF SetList
  <2> QED
    BY <2>2 DEF GraftedTables
<1>11. ASSUME NEW n \in D, NEW s \in Slots
       PROVE  ListOf(t3, k3, n, s) = IF n = p /\ s = u THEN list ELSE ListOf(t, k, n, s)
  <2>1. n \in DOMAIN t1 /\ n \in DOMAIN t2
    BY <1>7
  <2>2. ListOf(t3, k3, n, s) = IF n = p /\ s = u THEN list ELSE ListOf(t2, k2, n, s)
    BY <2>1 DEF SetList
  <2>3. ListOf(t2, k2, n, s) = ListOf(t1, k1, n, s)
    BY <2>1 DEF GraftedTables
  <2>4. ListOf(t1, k1, n, s) = ListOf(t, k, n, s)
    BY <2>1 DEF DeletedTables
  <2> QED
    BY <2>2, <2>3, <2>4
<1>12. ListsChange(t, k, D, {y}, {a}, p, u, t3, k3)
  <2>1. ASSUME NEW n \in D, NEW s \in Slots
        PROVE  /\ OnceEach(ListOf(t3, k3, n, s))
               /\ Entries(ListOf(t3, k3, n, s)) =
                      (Entries(ListOf(t, k, n, s)) \ {y}) \union (IF n = p /\ s = u THEN {a} ELSE {})
    <3>1. CASE n = p /\ s = u
      <4>1. ListOf(t3, k3, n, s) = list
        BY <3>1, <1>11
      <4> QED
        BY <3>1, <4>1, <1>6 DEF s0
    <3>2. CASE ~(n = p /\ s = u)
      <4>1. ListOf(t3, k3, n, s) = ListOf(t, k, n, s)
        BY <3>2, <1>11
      <4>2. y \notin Entries(ListOf(t, k, n, s))
        BY <3>2, <1>5
      <4>3. OnceEach(ListOf(t, k, n, s))
        BY DEF Well
      <4> QED
        BY <3>2, <4>1, <4>2, <4>3
    <3> QED
      BY <3>1, <3>2
  <2> HIDE DEF D
  <2> QED
    BY <2>1 DEF ListsChange
<1>13. TablesRegrafted(t, k, y, new, p, u, t3, k3)
  BY <1>2, <1>7, <1>8, <1>9, <1>10, <1>12 DEF TablesRegrafted, a
<1> QED
  BY <1>13, RegraftTables

\* An entry moves within its list.
LEMMA MoveInList ==
    ASSUME NEW t, NEW k, Typed(t, k), Well(t, k), NEW p, NEW u, NEW i, NEW x,
           At(t, k, p, u, i, x), NEW j \in Int,
           NEW list, list = Splice(Splice(ListOf(t, k, p, u), i, 1, <<>>), j, 0, <<x>>),
           NEW t2, NEW k2, SetList(t, k, p, u, list, t2, k2)
    PROVE  Well(t2, k2)
<1> DEFINE s0 == ListOf(t, k, p, u)
           s1 == Splice(s0, i, 1, <<>>)
<1>2. Listed(t, k, p, u, x) /\ x \in Ids /\ s0 \in Seq(Ids) /\ OnceEach(s0)
  BY AtIsListed
<1>3. i \in Nat /\ i < Len(s0) /\ s0[i + 1] = x /\ p \in DOMAIN t /\ u \in Slots
  BY DEF At
<1>5. /\ x \in DOMAIN t /\ t[x].parent = p /\ p # None /\ p \notin Under(ParentsOf(t), x)
      /\ \A n \in DOMAIN t, s \in Slots :
             x \in Entries(ListOf(t, k, n, s)) => n = p /\ s = u
  BY <1>2, ListedOnce
<1>9. x \in Entries(s0)
  BY <1>2 DEF Listed
<1>7. list = Splice(s1, j, 0, <<x>>)
  OBVIOUS
<1> HIDE DEF s0
<1>6. RemovedAt(Ids, s0, i, s1) /\ Entries(s1) = Entries(s0) \ {s0[i + 1]} /\ OnceEach(s1)
  BY <1>2, <1>3, SpliceRemoves
<1> HIDE DEF s1
<1>10. s1 \in Seq(Ids) /\ Entries(s1) = Entries(s0) \ {x} /\ OnceEach(s1)
  BY <1>3, <1>6 DEF RemovedAt
<1>11. x \notin Entries(s1)
  BY <1>10
<1>12. /\ Entries(Splice(s1, j, 0, <<x>>)) = Entries(s1) \union {x}
       /\ OnceEach(s1) /\ x \notin Entries(s1) => OnceEach(Splice(s1, j, 0, <<x>>))
  BY <1>2, <1>10, SpliceInserts
<1>8. Entries(list) = Entries(s0) /\ OnceEach(list)
  BY <1>7, <1>9, <1>10, <1>11, <1>12
<1>13. ListsChange(t, k, DOMAIN t, {x}, {x}, p, u, t2, k2)
  <2>1. ASSUME NEW n \in DOMAIN t, NEW s \in Slots
        PROVE  /\ OnceEach(ListOf(t2, k2, n, s))
               /\ Entries(ListOf(t2, k2, n, s)) =
                      (Entries(ListOf(t, k, n, s)) \ {x}) \union (IF n = p /\ s = u THEN {x} ELSE {})
    <3>0. ListOf(t2, k2, n, s) = IF n = p /\ s = u THEN list ELSE ListOf(t, k, n, s)
      BY DEF SetList
    <3>1. CASE n = p /\ s = u
      <4>1. ListOf(t2, k2, n, s) = list /\ ListOf(t, k, n, s) = s0
        BY <3>0, <3>1 DEF s0
      <4> QED
        BY <3>1, <4>1, <1>8, <1>9
    <3>2. CASE ~(n = p /\ s = u)
      <4>1. ListOf(t2, k2, n, s) = ListOf(t, k, n, s)
        BY <3>0, <3>2
      <4>2. x \notin Entries(ListOf(t, k, n, s))
        BY <3>2, <1>5
      <4>3. OnceEach(ListOf(t, k, n, s))
        BY DEF Well
      <4> QED
        BY <3>2, <4>1, <4>2, <4>3
    <3> QED
      BY <3>1, <3>2
  <2> QED
    BY <2>1 DEF ListsChange
<1>14. TablesTransferred(t, k, x, p, u, t2, k2)
  <2>1. \A m \in DOMAIN t : t2[m].parent = IF m = x THEN p ELSE t[m].parent
    BY <1>5 DEF SetList
  <2> QED
    BY <1>3, <1>5, <1>13, <2>1 DEF TablesTransferred, SetList
<1> QED
  BY <1>14, TransferTables

\* x gets parent q; the lists of slot c of p and slot d of q become l1 and l2.
SetLists(t, k, x, p, c, l1, q, d, l2, t2, k2) ==
    /\ DOMAIN t2 = DOMAIN t
    /\ \A n \in DOMAIN t : t2[n].parent = IF n = x THEN q ELSE t[n].parent
    /\ \A n \in DOMAIN t, s \in Slots :
           /\ n = p /\ s = c => ListOf(t2, k2, n, s) = l1
           /\ n = q /\ s = d => ListOf(t2, k2, n, s) = l2
           /\ ~(n = p /\ s = c) /\ ~(n = q /\ s = d) => ListOf(t2, k2, n, s) = ListOf(t, k, n, s)

\* An entry moves to another list.
LEMMA MoveBetween ==
    ASSUME NEW t, NEW k, Typed(t, k), Well(t, k), NEW p, NEW c, NEW i, NEW x,
           At(t, k, p, c, i, x), NEW q \in DOMAIN t, NEW d \in Slots, ~(p = q /\ c = d),
           q \notin Under(ParentsOf(t), x), NEW j \in Int,
           NEW l1, l1 = Splice(ListOf(t, k, p, c), i, 1, <<>>),
           NEW l2, l2 = Splice(ListOf(t, k, q, d), j, 0, <<x>>),
           NEW t2, NEW k2, SetLists(t, k, x, p, c, l1, q, d, l2, t2, k2)
    PROVE  Well(t2, k2)
<1> DEFINE s1 == ListOf(t, k, p, c)
           s2 == ListOf(t, k, q, d)
<1>2. Listed(t, k, p, c, x) /\ x \in Ids /\ s1 \in Seq(Ids) /\ OnceEach(s1)
  BY AtIsListed
<1>3. i \in Nat /\ i < Len(s1) /\ s1[i + 1] = x /\ p \in DOMAIN t /\ c \in Slots
  BY DEF At
<1>4. s2 \in Seq(Ids) /\ OnceEach(s2)
  BY RowTypes DEF Well
<1>5. /\ x \in DOMAIN t /\ t[x].parent = p /\ p # None
      /\ \A n \in DOMAIN t, s \in Slots :
             x \in Entries(ListOf(t, k, n, s)) => n = p /\ s = c
  BY <1>2, ListedOnce
<1>6. x \notin Entries(s2)
  BY <1>5
<1> HIDE DEF s1, s2
<1>7. Entries(l1) = Entries(s1) \ {x} /\ OnceEach(l1)
  <2>1. /\ Entries(Splice(s1, i, 1, <<>>)) = Entries(s1) \ {s1[i + 1]}
        /\ OnceEach(Splice(s1, i, 1, <<>>))
    BY <1>2, <1>3, SpliceRemoves
  <2> QED
    BY <2>1, <1>3 DEF s1
<1>8. Entries(l2) = Entries(s2) \union {x} /\ OnceEach(l2)
  <2>1. /\ Entries(Splice(s2, j, 0, <<x>>)) = Entries(s2) \union {x}
        /\ OnceEach(s2) /\ x \notin Entries(s2) => OnceEach(Splice(s2, j, 0, <<x>>))
    BY <1>2, <1>4, SpliceInserts
  <2> QED
    BY <2>1, <1>4, <1>6 DEF s2
<1>13. ListsChange(t, k, DOMAIN t, {x}, {x}, q, d, t2, k2)
  <2>1. ASSUME NEW n \in DOMAIN t, NEW s \in Slots
        PROVE  /\ OnceEach(ListOf(t2, k2, n, s))
               /\ Entries(ListOf(t2, k2, n, s)) =
                      (Entries(ListOf(t, k, n, s)) \ {x}) \union (IF n = q /\ s = d THEN {x} ELSE {})
    <3>1. CASE n = p /\ s = c
      <4>1. ListOf(t2, k2, n, s) = l1 /\ ListOf(t, k, n, s) = s1 /\ ~(n = q /\ s = d)
        BY <3>1 DEF SetLists, s1
      <4> QED
        BY <4>1, <1>7
    <3>2. CASE n = q /\ s = d
      <4>1. ListOf(t2, k2, n, s) = l2 /\ ListOf(t, k, n, s) = s2
        BY <3>2 DEF SetLists, s2
      <4> QED
        BY <3>2, <4>1, <1>6, <1>8
    <3>3. CASE ~(n = p /\ s = c) /\ ~(n = q /\ s = d)
      <4>1. ListOf(t2, k2, n, s) = ListOf(t, k, n, s)
        BY <3>3 DEF SetLists
      <4>2. x \notin Entries(ListOf(t, k, n, s))
        BY <3>3, <1>5
      <4>3. OnceEach(ListOf(t, k, n, s))
        BY DEF Well
      <4> QED
        BY <3>3, <4>1, <4>2, <4>3
    <3> QED
      BY <3>1, <3>2, <3>3
  <2> QED
    BY <2>1 DEF ListsChange
<1>14. TablesTransferred(t, k, x, q, d, t2, k2)
  BY <1>5, <1>13 DEF TablesTransferred, SetLists
<1> QED
  BY <1>14, TransferTables

\* An entry moves to another list, and takes the place of one that goes.
LEMMA MoveOverBetween ==
    ASSUME NEW t, NEW k, Typed(t, k), Well(t, k), NEW p, NEW c, NEW i, NEW x,
           At(t, k, p, c, i, x), NEW q, NEW d, NEW j, NEW y,
           At(t, k, q, d, j, y), ~(p = q /\ c = d),
           x \notin Under(ParentsOf(t), y), q \notin Under(ParentsOf(t), x),
           NEW l1, l1 = Splice(ListOf(t, k, p, c), i, 1, <<>>),
           NEW l2, l2 = Splice(ListOf(t, k, q, d), j, 1, <<x>>),
           NEW t1, NEW k1, DeletedTables(t, k, y, t1, k1),
           NEW t2, NEW k2, SetLists(t1, k1, x, p, c, l1, q, d, l2, t2, k2)
    PROVE  Well(t2, k2)
<1> DEFINE s1 == ListOf(t, k, p, c)
           s2 == ListOf(t, k, q, d)
           D == DOMAIN t \ Under(ParentsOf(t), y)
<1>2. Listed(t, k, p, c, x) /\ x \in Ids /\ s1 \in Seq(Ids) /\ OnceEach(s1)
  BY AtIsListed
<1>3. i \in Nat /\ i < Len(s1) /\ s1[i + 1] = x /\ p \in DOMAIN t /\ c \in Slots
  BY DEF At
<1>4. Listed(t, k, q, d, y) /\ s2 \in Seq(Ids) /\ OnceEach(s2)
  BY AtIsListed
<1>9. j \in Nat /\ j < Len(s2) /\ s2[j + 1] = y /\ q \in DOMAIN t /\ d \in Slots
  BY DEF At
<1>5. /\ x \in DOMAIN t /\ t[x].parent = p /\ p # None
      /\ \A n \in DOMAIN t, s \in Slots :
             x \in Entries(ListOf(t, k, n, s)) => n = p /\ s = c
  BY <1>2, ListedOnce
<1>10. \A n \in DOMAIN t, s \in Slots :
             y \in Entries(ListOf(t, k, n, s)) => n = q /\ s = d
  BY <1>4, ListedOnce
<1>6. x \notin Entries(s2) \ {s2[j + 1]} /\ x \notin Entries(s2) /\ y \notin Entries(s1)
  BY <1>5, <1>9, <1>10, <1>3
<1> HIDE DEF s1, s2
<1>7. Entries(l1) = Entries(s1) \ {x} /\ OnceEach(l1)
  <2>1. /\ Entries(Splice(s1, i, 1, <<>>)) = Entries(s1) \ {s1[i + 1]}
        /\ OnceEach(Splice(s1, i, 1, <<>>))
    BY <1>2, <1>3, SpliceRemoves
  <2> QED
    BY <2>1, <1>3 DEF s1
<1>8. Entries(l2) = (Entries(s2) \ {y}) \union {x} /\ OnceEach(l2)
  <2>1. /\ Entries(Splice(s2, j, 1, <<x>>)) = (Entries(s2) \ {s2[j + 1]}) \union {x}
        /\ OnceEach(Splice(s2, j, 1, <<x>>))
    BY <1>2, <1>4, <1>6, <1>9, SpliceReplaces
  <2> QED
    BY <2>1, <1>9 DEF s2
<1>11. DOMAIN t1 = D /\ DOMAIN t2 = D
  BY DEF DeletedTables, SetLists
<1>13. ListsChange(t, k, D, {x, y}, {x}, q, d, t2, k2)
  <2>1. ASSUME NEW n \in D, NEW s \in Slots
        PROVE  /\ OnceEach(ListOf(t2, k2, n, s))
               /\ Entries(ListOf(t2, k2, n, s)) =
                      (Entries(ListOf(t, k, n, s)) \ {x, y}) \union (IF n = q /\ s = d THEN {x} ELSE {})
    <3>0. n \in DOMAIN t1 /\ n \in DOMAIN t
      BY <1>11
    <3>1. CASE n = p /\ s = c
      <4>1. ListOf(t2, k2, n, s) = l1 /\ ListOf(t, k, n, s) = s1 /\ ~(n = q /\ s = d)
        BY <3>0, <3>1 DEF SetLists, s1
      <4> QED
        BY <4>1, <1>6, <1>7
    <3>2. CASE n = q /\ s = d
      <4>1. ListOf(t2, k2, n, s) = l2 /\ ListOf(t, k, n, s) = s2
        BY <3>0, <3>2 DEF SetLists, s2
      <4> QED
        BY <3>2, <4>1, <1>6, <1>8
    <3>3. CASE ~(n = p /\ s = c) /\ ~(n = q /\ s = d)
      <4>1. ListOf(t2, k2, n, s) = ListOf(t1, k1, n, s)
        BY <3>0, <3>3 DEF SetLists
      <4>4. ListOf(t1, k1, n, s) = ListOf(t, k, n, s)
        BY <3>0 DEF DeletedTables
      <4>2. x \notin Entries(ListOf(t, k, n, s)) /\ y \notin Entries(ListOf(t, k, n, s))
        BY <3>0, <3>3, <1>5, <1>10
      <4>3. OnceEach(ListOf(t, k, n, s))
        BY <3>0 DEF Well
      <4> QED
        BY <3>3, <4>1, <4>2, <4>3, <4>4
    <3> QED
      BY <3>1, <3>2, <3>3
  <2> HIDE DEF D
  <2> QED
    BY <2>1 DEF ListsChange
<1>14. TablesMovedOver(t, k, y, x, q, d, t2, k2)
  <2>1. \A m \in D : t2[m].parent = IF m = x THEN q ELSE t[m].parent
    BY <1>11 DEF DeletedTables, SetLists
  <2> QED
    BY <1>4, <1>5, <1>11, <1>13, <2>1 DEF TablesMovedOver
<1> QED
  BY <1>14, MoveOverTables

--------------------------------------------------------------------------------
(***************************************************************************)
(* What a command that is not a stray one does to the tables, list by list *)
(* and without the statements by which it does it.                         *)
(***************************************************************************)
\* The nodes of D keep their parents.
SameParents(t, D, t2) == \A m \in D : t2[m].parent = t[m].parent

\* The list of slot u of p becomes `list', and the nodes of D keep all others.
OnlyAt(t, k, D, p, u, list, t2, k2) ==
    \A n \in D, s \in Slots :
        ListOf(t2, k2, n, s) = IF n = p /\ s = u THEN list ELSE ListOf(t, k, n, s)

\* The nodes of the chunk `new' are as the client sent them.
NewIn(new, t2, k2) ==
    \A m \in DOMAIN new.rows :
        /\ t2[m].parent = new.rows[m].parent
        /\ \A s \in Slots : ListOf(t2, k2, m, s) = ListOf(new.rows, new.lists, m, s)

\* What is left without the subtree of y.
Rest(t, y) == DOMAIN t \ Under(ParentsOf(t), y)

\* A tree comes to index i of slot u of p.
Comes(t, k, new, p, u, i, t2, k2) ==
    /\ p \in DOMAIN t /\ u \in Slots /\ i \in Int
    /\ IsTree(new, p)
    /\ DOMAIN new.rows \intersect DOMAIN t = {}
    /\ DOMAIN t2 = DOMAIN t \union DOMAIN new.rows
    /\ SameParents(t, DOMAIN t, t2)
    /\ NewIn(new, t2, k2)
    /\ OnlyAt(t, k, DOMAIN t, p, u, Splice(ListOf(t, k, p, u), i, 0, <<new.root>>), t2, k2)

\* Node y at index i of slot u of p goes.
Goes(t, k, p, u, i, y, t2, k2) ==
    /\ At(t, k, p, u, i, y)
    /\ DOMAIN t2 = Rest(t, y)
    /\ SameParents(t, Rest(t, y), t2)
    /\ OnlyAt(t, k, Rest(t, y), p, u, Splice(ListOf(t, k, p, u), i, 1, <<>>), t2, k2)

\* A tree comes in the place of y.
IsReplaced(t, k, p, u, i, y, new, t2, k2) ==
    /\ At(t, k, p, u, i, y)
    /\ IsTree(new, p)
    /\ DOMAIN new.rows \intersect DOMAIN t = {}
    /\ DOMAIN t2 = Rest(t, y) \union DOMAIN new.rows
    /\ SameParents(t, Rest(t, y), t2)
    /\ NewIn(new, t2, k2)
    /\ OnlyAt(t, k, Rest(t, y), p, u, Splice(ListOf(t, k, p, u), i, 1, <<new.root>>), t2, k2)

\* The list of slot s of n when what was at index i of slot c of p has left.
Left(t, k, p, c, i, n, s) ==
    IF n = p /\ s = c THEN Splice(ListOf(t, k, p, c), i, 1, <<>>) ELSE ListOf(t, k, n, s)

\* The lists of D when then x comes to slot d of q, by a splice that takes n away.
LeftAndCome(t, k, D, x, p, c, i, q, d, j, n, t2, k2) ==
    \A m \in D, s \in Slots :
        ListOf(t2, k2, m, s) =
            IF m = q /\ s = d THEN Splice(Left(t, k, p, c, i, q, d), j, n, <<x>>)
            ELSE Left(t, k, p, c, i, m, s)

\* Node x leaves index i of slot c of p and comes to index j of slot d of q.
Moves(t, k, x, p, c, i, q, d, j, t2, k2) ==
    /\ At(t, k, p, c, i, x)
    /\ q \in DOMAIN t /\ d \in Slots /\ j \in Int
    /\ q \notin Under(ParentsOf(t), x)
    /\ DOMAIN t2 = DOMAIN t
    /\ \A m \in DOMAIN t : t2[m].parent = IF m = x THEN q ELSE t[m].parent
    /\ LeftAndCome(t, k, DOMAIN t, x, p, c, i, q, d, j, 0, t2, k2)

\* The index at which an entry is when the one at i of the same list has left.
Shifted(same, i, j) == IF same /\ i < j THEN j - 1 ELSE j

\* Node x comes in the place of y, which is at index j of slot d of q.
MovesOver(t, k, x, p, c, i, q, d, j, y, t2, k2) ==
    /\ At(t, k, p, c, i, x)
    /\ At(t, k, q, d, j, y)
    /\ x \notin Under(ParentsOf(t), y) /\ q \notin Under(ParentsOf(t), x)
    /\ DOMAIN t2 = Rest(t, y)
    /\ \A m \in Rest(t, y) : t2[m].parent = IF m = x THEN q ELSE t[m].parent
    /\ LeftAndCome(t, k, Rest(t, y), x, p, c, i, q, d,
                   Shifted(p = q /\ c = d, i, j), 1, t2, k2)

\* The root of a new tree is put into a list.
LEMMA ComesIs ==
    ASSUME NEW t, NEW k, NEW p \in DOMAIN t, NEW u \in Slots, NEW new, IsTree(new, p),
           DOMAIN new.rows \intersect DOMAIN t = {},
           NEW t1, NEW k1, GraftedTables(t, k, new, t1, k1),
           NEW i \in Int, NEW list, list = Splice(ListOf(t, k, p, u), i, 0, <<new.root>>),
           NEW t2, NEW k2, SetList(t1, k1, p, u, list, t2, k2)
    PROVE  Comes(t, k, new, p, u, i, t2, k2)
<1>1. DOMAIN t2 = DOMAIN t \union DOMAIN new.rows /\ DOMAIN t2 = DOMAIN t1
  BY DEF SetList, GraftedTables
<1>2. SameParents(t, DOMAIN t, t2)
  BY <1>1 DEF SetList, GraftedTables, SameParents
<1>3. NewIn(new, t2, k2)
  <2>1. ASSUME NEW m \in DOMAIN new.rows
        PROVE  /\ t2[m].parent = new.rows[m].parent
               /\ \A s \in Slots : ListOf(t2, k2, m, s) = ListOf(new.rows, new.lists, m, s)
    <3>1. m # p /\ m \in DOMAIN t1
      BY <1>1
    <3>2. \A s \in Slots : ListOf(t2, k2, m, s) = ListOf(t1, k1, m, s)
      BY <3>1 DEF SetList
    <3>3. t2[m].parent = t1[m].parent
      BY <3>1 DEF SetList
    <3> QED
      BY <3>2, <3>3 DEF GraftedTables
  <2> QED
    BY <2>1 DEF NewIn
<1>4. OnlyAt(t, k, DOMAIN t, p, u, list, t2, k2)
  <2>1. ASSUME NEW n \in DOMAIN t, NEW s \in Slots
        PROVE  ListOf(t2, k2, n, s) = IF n = p /\ s = u THEN list ELSE ListOf(t, k, n, s)
    <3>1. n \in DOMAIN t1
      BY <1>1
    <3>2. ListOf(t2, k2, n, s) = IF n = p /\ s = u THEN list ELSE ListOf(t1, k1, n, s)
      BY <3>1 DEF SetList
    <3>3. ListOf(t1, k1, n, s) = ListOf(t, k, n, s)
      BY DEF GraftedTables
    <3> QED
      BY <3>2, <3>3
  <2> QED
    BY <2>1 DEF OnlyAt
<1> QED
  BY <1>1, <1>2, <1>3, <1>4 DEF Comes

\* A node is taken from its list, and its subtree deleted.
LEMMA GoesIs ==
    ASSUME NEW t, NEW k, NEW p, NEW u, NEW i, NEW y, At(t, k, p, u, i, y),
           NEW t1, NEW k1, DeletedTables(t, k, y, t1, k1),
           NEW list, list = Splice(ListOf(t, k, p, u), i, 1, <<>>),
           NEW t2, NEW k2, SetList(t1, k1, p, u, list, t2, k2)
    PROVE  Goes(t, k, p, u, i, y, t2, k2)
<1>1. DOMAIN t2 = Rest(t, y) /\ DOMAIN t1 = Rest(t, y)
  BY DEF SetList, DeletedTables, Rest
<1>2. SameParents(t, Rest(t, y), t2)
  BY <1>1 DEF SetList, DeletedTables, SameParents
<1>3. OnlyAt(t, k, Rest(t, y), p, u, list, t2, k2)
  <2>1. ASSUME NEW n \in Rest(t, y), NEW s \in Slots
        PROVE  ListOf(t2, k2, n, s) = IF n = p /\ s = u THEN list ELSE ListOf(t, k, n, s)
    <3>1. ListOf(t2, k2, n, s) = IF n = p /\ s = u THEN list ELSE ListOf(t1, k1, n, s)
      BY <1>1 DEF SetList
    <3>2. ListOf(t1, k1, n, s) = ListOf(t, k, n, s)
      BY <1>1 DEF DeletedTables
    <3> QED
      BY <3>1, <3>2
  <2> QED
    BY <2>1 DEF OnlyAt
<1> QED
  BY <1>1, <1>2, <1>3 DEF Goes

\* The root of a new tree replaces a node, whose subtree is deleted.
LEMMA IsReplacedIs ==
    ASSUME NEW t, NEW k, NEW p, NEW u, NEW i, NEW y, At(t, k, p, u, i, y),
           NEW t1, NEW k1, DeletedTables(t, k, y, t1, k1),
           NEW new, IsTree(new, p), DOMAIN new.rows \intersect DOMAIN t = {},
           NEW t2, NEW k2, GraftedTables(t1, k1, new, t2, k2),
           NEW list, list = Splice(ListOf(t, k, p, u), i, 1, <<new.root>>),
           NEW t3, NEW k3, SetList(t2, k2, p, u, list, t3, k3)
    PROVE  IsReplaced(t, k, p, u, i, y, new, t3, k3)
<1>1. /\ DOMAIN t1 = Rest(t, y)
      /\ DOMAIN t2 = Rest(t, y) \union DOMAIN new.rows
      /\ DOMAIN t3 = Rest(t, y) \union DOMAIN new.rows
  BY DEF DeletedTables, GraftedTables, SetList, Rest
<1>2. SameParents(t, Rest(t, y), t3)
  <2>1. ASSUME NEW m \in Rest(t, y) PROVE t3[m].parent = t[m].parent
    <3>1. t3[m].parent = t2[m].parent
      BY <1>1 DEF SetList
    <3>2. t2[m].parent = t1[m].parent /\ t1[m].parent = t[m].parent
      BY <1>1 DEF GraftedTables, DeletedTables
    <3> QED
      BY <3>1, <3>2
  <2> QED
    BY <2>1 DEF SameParents
<1>3. NewIn(new, t3, k3)
  <2>1. ASSUME NEW m \in DOMAIN new.rows
        PROVE  /\ t3[m].parent = new.rows[m].parent
               /\ \A s \in Slots : ListOf(t3, k3, m, s) = ListOf(new.rows, new.lists, m, s)
    <3>1. m # p /\ m \in DOMAIN t2
      BY <1>1 DEF At
    <3>2. \A s \in Slots : ListOf(t3, k3, m, s) = ListOf(t2, k2, m, s)
      BY <3>1 DEF SetList
    <3>3. t3[m].parent = t2[m].parent
      BY <3>1 DEF SetList
    <3> QED
      BY <3>2, <3>3 DEF GraftedTables
  <2> QED
    BY <2>1 DEF NewIn
<1>4. OnlyAt(t, k, Rest(t, y), p, u, list, t3, k3)
  <2>1. ASSUME NEW n \in Rest(t, y), NEW s \in Slots
        PROVE  ListOf(t3, k3, n, s) = IF n = p /\ s = u THEN list ELSE ListOf(t, k, n, s)
    <3>1. n \in DOMAIN t1 /\ n \in DOMAIN t2
      BY <1>1
    <3>2. ListOf(t3, k3, n, s) = IF n = p /\ s = u THEN list ELSE ListOf(t2, k2, n, s)
      BY <3>1 DEF SetList
    <3>3. ListOf(t2, k2, n, s) = ListOf(t1, k1, n, s)
      BY <3>1 DEF GraftedTables
    <3>4. ListOf(t1, k1, n, s) = ListOf(t, k, n, s)
      BY <3>1 DEF DeletedTables
    <3> QED
      BY <3>2, <3>3, <3>4
  <2> QED
    BY <2>1 DEF OnlyAt
<1> QED
  BY <1>1, <1>2, <1>3, <1>4 DEF IsReplaced

\* An entry moves within its list.
LEMMA MovesInList ==
    ASSUME NEW t, NEW k, Typed(t, k), Well(t, k), NEW p, NEW u, NEW i, NEW x,
           At(t, k, p, u, i, x), NEW j \in Int,
           NEW list, list = Splice(Splice(ListOf(t, k, p, u), i, 1, <<>>), j, 0, <<x>>),
           NEW t2, NEW k2, SetList(t, k, p, u, list, t2, k2)
    PROVE  Moves(t, k, x, p, u, i, p, u, j, t2, k2)
<1>1. t[x].parent = p /\ p \notin Under(ParentsOf(t), x) /\ p \in DOMAIN t /\ u \in Slots
  BY AtIsListed, ListedOnce DEF Listed
<1>2. DOMAIN t2 = DOMAIN t /\ \A m \in DOMAIN t : t2[m].parent = IF m = x THEN p ELSE t[m].parent
  BY <1>1 DEF SetList
<1>3. list = Splice(Left(t, k, p, u, i, p, u), j, 0, <<x>>)
  BY DEF Left
<1>4. LeftAndCome(t, k, DOMAIN t, x, p, u, i, p, u, j, 0, t2, k2)
  BY <1>3 DEF LeftAndCome, SetList, Left
<1> QED
  BY <1>1, <1>2, <1>4 DEF Moves

\* An entry moves to another list.
LEMMA MovesBetween ==
    ASSUME NEW t, NEW k, NEW p, NEW c, NEW i, NEW x,
           At(t, k, p, c, i, x), NEW q \in DOMAIN t, NEW d \in Slots, ~(p = q /\ c = d),
           q \notin Under(ParentsOf(t), x), NEW j \in Int,
           NEW l1, l1 = Splice(ListOf(t, k, p, c), i, 1, <<>>),
           NEW l2, l2 = Splice(ListOf(t, k, q, d), j, 0, <<x>>),
           NEW t2, NEW k2, SetLists(t, k, x, p, c, l1, q, d, l2, t2, k2)
    PROVE  Moves(t, k, x, p, c, i, q, d, j, t2, k2)
<1>1. Left(t, k, p, c, i, q, d) = ListOf(t, k, q, d)
  BY DEF Left
<1>2. LeftAndCome(t, k, DOMAIN t, x, p, c, i, q, d, j, 0, t2, k2)
  BY <1>1 DEF LeftAndCome, SetLists, Left
<1> QED
  BY <1>2 DEF Moves, SetLists

\* An entry moves to another list, and takes the place of one that goes.
LEMMA MovesOverBetween ==
    ASSUME NEW t, NEW k, NEW p, NEW c, NEW i, NEW x,
           At(t, k, p, c, i, x), NEW q, NEW d, NEW j, NEW y,
           At(t, k, q, d, j, y), ~(p = q /\ c = d),
           x \notin Under(ParentsOf(t), y), q \notin Under(ParentsOf(t), x),
           NEW l1, l1 = Splice(ListOf(t, k, p, c), i, 1, <<>>),
           NEW l2, l2 = Splice(ListOf(t, k, q, d), j, 1, <<x>>),
           NEW t1, NEW k1, DeletedTables(t, k, y, t1, k1),
           NEW t2, NEW k2, SetLists(t1, k1, x, p, c, l1, q, d, l2, t2, k2)
    PROVE  MovesOver(t, k, x, p, c, i, q, d, j, y, t2, k2)
<1>1. DOMAIN t1 = Rest(t, y) /\ DOMAIN t2 = Rest(t, y)
  BY DEF DeletedTables, SetLists, Rest
<1>2. \A m \in Rest(t, y) : t2[m].parent = IF m = x THEN q ELSE t[m].parent
  BY <1>1 DEF DeletedTables, SetLists
<1>3. Left(t, k, p, c, i, q, d) = ListOf(t, k, q, d) /\ Shifted(p = q /\ c = d, i, j) = j
  BY DEF Left, Shifted
<1>4. ASSUME NEW n \in Rest(t, y), NEW s \in Slots
      PROVE  ListOf(t2, k2, n, s) = IF n = q /\ s = d THEN l2 ELSE Left(t, k, p, c, i, n, s)
  <2>1. ListOf(t1, k1, n, s) = ListOf(t, k, n, s)
    BY <1>1 DEF DeletedTables
  <2>2. /\ n = p /\ s = c => ListOf(t2, k2, n, s) = l1
        /\ n = q /\ s = d => ListOf(t2, k2, n, s) = l2
        /\ ~(n = p /\ s = c) /\ ~(n = q /\ s = d) => ListOf(t2, k2, n, s) = ListOf(t1, k1, n, s)
    BY <1>1 DEF SetLists
  <2> QED
    BY <2>1, <2>2 DEF Left
<1>5. LeftAndCome(t, k, Rest(t, y), x, p, c, i, q, d, j, 1, t2, k2)
  BY <1>3, <1>4 DEF LeftAndCome
<1> QED
  BY <1>1, <1>2, <1>3, <1>5 DEF MovesOver

\* In one list, it does not matter whether an entry first comes to its new place or first leaves.
LEMMA EitherOrder ==
    ASSUME NEW S, NEW s \in Seq(S),
           NEW i \in Nat, i < Len(s), NEW j \in Nat, j < Len(s), i # j, NEW x \in S,
           NEW h, h = IF i < j THEN j - 1 ELSE j
    PROVE  Splice(Splice(s, j, 1, <<x>>), i, 1, <<>>) = Splice(Splice(s, i, 1, <<>>), h, 1, <<x>>)
<1> DEFINE len == Len(s)
           a == Splice(s, j, 1, <<x>>)
           b == Splice(s, i, 1, <<>>)
           l == Splice(a, i, 1, <<>>)
           r == Splice(b, h, 1, <<x>>)
<1>1. len \in Nat /\ i < len /\ j < len
  BY LenProperties
<1>2. a \in Seq(S) /\ Len(a) = len /\ \A q \in 1..len : a[q] = IF q = j + 1 THEN x ELSE s[q]
  <2>1. ReplacedAt(S, s, j, x, a)
    BY ReplaceAtIndex
  <2> QED
    BY <2>1 DEF ReplacedAt
<1>3. b \in Seq(S) /\ Len(b) = len - 1 /\ \A q \in 1..len - 1 : b[q] = IF q <= i THEN s[q] ELSE s[q + 1]
  <2>1. RemovedAt(S, s, i, b)
    BY RemoveAtIndex
  <2> QED
    BY <2>1 DEF RemovedAt
<1>4. h = IF i < j THEN j - 1 ELSE j
  OBVIOUS
<1> HIDE DEF len, a, b
<1>5. l \in Seq(S) /\ Len(l) = len - 1 /\ \A q \in 1..len - 1 : l[q] = IF q <= i THEN a[q] ELSE a[q + 1]
  <2>1. RemovedAt(S, a, i, l)
    BY <1>1, <1>2, RemoveAtIndex
  <2> QED
    BY <2>1, <1>2 DEF RemovedAt
<1>6. h \in Nat /\ h < len - 1
  BY <1>1, <1>4
<1>7. r \in Seq(S) /\ Len(r) = len - 1 /\ \A q \in 1..len - 1 : r[q] = IF q = h + 1 THEN x ELSE b[q]
  <2>1. ReplacedAt(S, b, h, x, r)
    BY <1>3, <1>6, ReplaceAtIndex
  <2> QED
    BY <2>1, <1>3 DEF ReplacedAt
<1> HIDE DEF l, r
<1>8. ASSUME NEW q \in 1..len - 1 PROVE l[q] = r[q]
  <2>1. q \in 1..len /\ q + 1 \in 1..len
    BY <1>1
  <2>2. CASE q <= i
    <3>1. l[q] = IF q = j + 1 THEN x ELSE s[q]
      BY <2>1, <2>2, <1>2, <1>5
    <3>2. r[q] = IF q = h + 1 THEN x ELSE s[q]
      BY <2>1, <2>2, <1>3, <1>7
    <3>3. q = h + 1 <=> q = j + 1
      BY <2>2, <1>1, <1>4
    <3> QED
      BY <3>1, <3>2, <3>3
  <2>3. CASE ~(q <= i)
    <3>1. l[q] = IF q + 1 = j + 1 THEN x ELSE s[q + 1]
      BY <2>1, <2>3, <1>2, <1>5
    <3>2. r[q] = IF q = h + 1 THEN x ELSE s[q + 1]
      BY <2>1, <2>3, <1>3, <1>7
    <3>3. q = h + 1 <=> q + 1 = j + 1
      BY <2>3, <1>1, <1>4
    <3> QED
      BY <3>1, <3>2, <3>3
  <2> QED
    BY <2>2, <2>3
<1>9. l = r
  BY <1>1, <1>5, <1>7, <1>8, SeqEqual
<1> QED
  BY <1>9 DEF l, r, a, b

\* An entry takes the place of another one of its list, which goes.
LEMMA MovesOverInList ==
    ASSUME NEW t, NEW k, Typed(t, k), Well(t, k), NEW p, NEW u, NEW i, NEW x,
           At(t, k, p, u, i, x), NEW j, NEW y, At(t, k, p, u, j, y), x # y,
           NEW list,
           \/ list = Splice(Splice(ListOf(t, k, p, u), j, 1, <<x>>), i, 1, <<>>)
           \/ list = MovedAndReplaced(ListOf(t, k, p, u), i, j - i, x),
           NEW t1, NEW k1, DeletedTables(t, k, y, t1, k1),
           NEW t2, NEW k2, SetList(t1, k1, p, u, list, t2, k2)
    PROVE  MovesOver(t, k, x, p, u, i, p, u, j, y, t2, k2)
<1> DEFINE s0 == ListOf(t, k, p, u)
           h == IF i < j THEN j - 1 ELSE j
<1>1. /\ i \in Nat /\ i < Len(s0) /\ s0[i + 1] = x
      /\ j \in Nat /\ j < Len(s0) /\ s0[j + 1] = y /\ p \in DOMAIN t /\ u \in Slots
  BY DEF At
<1>2. s0 \in Seq(Ids) /\ x \in Ids
  BY AtIsListed
<1>3. i # j
  BY <1>1
<1>4. list = Splice(Splice(s0, i, 1, <<>>), h, 1, <<x>>)
  <2>1. CASE list = Splice(Splice(ListOf(t, k, p, u), j, 1, <<x>>), i, 1, <<>>)
    <3>1. list = Splice(Splice(s0, j, 1, <<x>>), i, 1, <<>>)
      BY <2>1
    <3> HIDE DEF s0
    <3> QED
      <4>1. Splice(Splice(s0, j, 1, <<x>>), i, 1, <<>>)
                = Splice(Splice(s0, i, 1, <<>>), h, 1, <<x>>)
        BY <1>1, <1>2, <1>3, EitherOrder
      <4> QED
        BY <3>1, <4>1
  <2>2. CASE list = MovedAndReplaced(ListOf(t, k, p, u), i, j - i, x)
    <3>1. list = MovedAndReplaced(s0, i, j - i, x)
      BY <2>2
    <3> HIDE DEF s0
    <3>2. list = Splice(Splice(s0, i, 1, <<>>),
                        IF j - i < 0 THEN i + (j - i) ELSE i + (j - i) - 1, 1, <<x>>)
      BY <3>1 DEF MovedAndReplaced
    <3>3. (IF j - i < 0 THEN i + (j - i) ELSE i + (j - i) - 1) = h
      BY <1>1, <1>3
    <3> QED
      BY <3>2, <3>3
  <2> QED
    BY <2>1, <2>2
<1>5. /\ t[x].parent = p /\ p \notin Under(ParentsOf(t), x) /\ x \in DOMAIN t
  BY AtIsListed, ListedOnce
<1>6. p \notin Under(ParentsOf(t), y)
  BY AtIsListed, ListedOnce
<1>7. x \notin Under(ParentsOf(t), y)
  <2>1. x \in Under(ParentsOf(t), y) => ParentsOf(t)[x] \in Under(ParentsOf(t), y)
    BY UnderParts
  <2> QED
    BY <2>1, <1>5, <1>6, NamedIs
<1>9. DOMAIN t1 = Rest(t, y) /\ DOMAIN t2 = Rest(t, y)
  BY DEF DeletedTables, SetList, Rest
<1>10. \A m \in Rest(t, y) : t2[m].parent = IF m = x THEN p ELSE t[m].parent
  BY <1>5, <1>9 DEF DeletedTables, SetList
<1>11. Left(t, k, p, u, i, p, u) = Splice(s0, i, 1, <<>>)
  BY DEF Left
<1>12. ASSUME NEW n \in Rest(t, y), NEW s \in Slots
       PROVE  ListOf(t2, k2, n, s) = IF n = p /\ s = u THEN list ELSE Left(t, k, p, u, i, n, s)
  <2>1. ListOf(t2, k2, n, s) = IF n = p /\ s = u THEN list ELSE ListOf(t1, k1, n, s)
    BY <1>9 DEF SetList
  <2>2. ListOf(t1, k1, n, s) = ListOf(t, k, n, s)
    BY <1>9 DEF DeletedTables
  <2> QED
    BY <2>1, <2>2 DEF Left
<1> HIDE DEF s0, h
<1>13. LeftAndCome(t, k, Rest(t, y), x, p, u, i, p, u, h, 1, t2, k2)
  BY <1>4, <1>11, <1>12 DEF LeftAndCome
<1>14. h = Shifted(p = p /\ u = u, i, j)
  BY DEF h, Shifted
<1> QED
  BY <1>5, <1>7, <1>9, <1>10, <1>13, <1>14 DEF MovesOver

--------------------------------------------------------------------------------
(***************************************************************************)
(* The partition of a node (DB_affectedPartition): it is a node of the     *)
(* table, or the node itself; and in a tree, the root above the node,      *)
(* because as many steps as there are nodes lead there.                    *)
(***************************************************************************)
\* The node that is i steps above n, where `up' has those before it.
Above(t, n, up, i) ==
    IF i = 0 THEN n
    ELSE LET p == IF up[i - 1] \in DOMAIN t THEN t[up[i - 1]].parent ELSE None
         IN  IF p \in DOMAIN t /\ \A j \in 0..i - 1 : up[j] # p
             THEN p ELSE up[i - 1]

\* The first m steps up from n: the function of PartitionOf.
IsChain(t, n, m, up) == up = [i \in 0..m |-> Above(t, n, up, i)]

\* There are such steps, and so a function of PartitionOf.
LEMMA ChainExists ==
    ASSUME NEW t, NEW n, NEW m \in Nat
    PROVE  \E up : IsChain(t, n, m, up)
<1> DEFINE S == {k \in Nat : \E up : IsChain(t, n, k, up)}
<1>1. 0 \in S
  <2> DEFINE up == [i \in 0..0 |-> n]
  <2>1. \A i \in 0..0 : Above(t, n, up, i) = n
    BY DEF Above
  <2>2. IsChain(t, n, 0, up)
    BY <2>1 DEF IsChain
  <2> QED
    BY <2>2
<1>2. ASSUME NEW k \in S PROVE k + 1 \in S
  <2>1. PICK up : IsChain(t, n, k, up)
    OBVIOUS
  <2> DEFINE next == [i \in 0..k + 1 |-> IF i = k + 1 THEN Above(t, n, up, i) ELSE up[i]]
  <2>2. k \in Nat
    OBVIOUS
  <2>3. ASSUME NEW i \in 0..k + 1 PROVE Above(t, n, next, i) = Above(t, n, up, i)
    <3>1. i # 0 => i - 1 \in 0..k + 1 /\ i - 1 # k + 1
      BY <2>2
    <3>2. \A j \in 0..i - 1 : j \in 0..k + 1 /\ j # k + 1
      BY <2>2
    <3>3. \A j \in 0..i - 1 : next[j] = up[j]
      BY <3>2
    <3>4. i # 0 => next[i - 1] = up[i - 1]
      BY <3>1
    <3> HIDE DEF next
    <3> QED
      BY <3>3, <3>4 DEF Above
  <2>4. \A i \in 0..k : up[i] = Above(t, n, up, i)
    BY <2>1 DEF IsChain
  <2>5. \A i \in 0..k + 1 : next[i] = Above(t, n, up, i)
    <3>1. \A i \in 0..k + 1 : i = k + 1 \/ i \in 0..k
      BY <2>2
    <3> QED
      BY <3>1, <2>4
  <2>6. next = [i \in 0..k + 1 |-> Above(t, n, next, i)]
    BY <2>3, <2>5
  <2>7. IsChain(t, n, k + 1, next)
    <3> HIDE DEF next
    <3> QED
      BY <2>6 DEF IsChain
  <2> QED
    BY <2>2, <2>7
<1>3. S = Nat
  <2> HIDE DEF S
  <2>1. S \in SUBSET Nat
    BY DEF S
  <2> QED
    BY <1>1, <1>2, <2>1, SetOfNaturals
<1> QED
  BY <1>3

\* They lead to nodes of the table.
LEMMA ChainStays ==
    ASSUME NEW t, NEW n, NEW m \in Nat, NEW up, IsChain(t, n, m, up)
    PROVE  up[m] \in DOMAIN t \union {n}
<1> DEFINE S == {i \in Nat : i <= m => up[i] \in DOMAIN t \union {n}}
<1>1. \A i \in 0..m : up[i] = Above(t, n, up, i)
  BY DEF IsChain
<1>2. 0 \in S
  <2>1. up[0] = Above(t, n, up, 0)
    BY <1>1
  <2> QED
    BY <2>1 DEF Above
<1>3. ASSUME NEW i \in S PROVE i + 1 \in S
  <2>1. SUFFICES ASSUME i + 1 <= m PROVE up[i + 1] \in DOMAIN t \union {n}
    OBVIOUS
  <2>2. i \in Nat /\ i + 1 \in 0..m /\ i + 1 # 0 /\ (i + 1) - 1 = i /\ i <= m
    BY <2>1
  <2>3. up[i] \in DOMAIN t \union {n}
    BY <2>2
  <2>4. up[i + 1] \in DOMAIN t \/ up[i + 1] = up[i]
    BY <1>1, <2>2 DEF Above
  <2> QED
    BY <2>3, <2>4
<1>4. S = Nat
  <2> HIDE DEF S
  <2>1. S \in SUBSET Nat
    BY DEF S
  <2> QED
    BY <1>2, <1>3, <2>1, SetOfNaturals
<1> QED
  BY <1>4

\* PartitionOf, of any table.
PartitionIn(t, n) ==
    LET up == CHOOSE up : IsChain(t, n, Cardinality(DOMAIN t), up)
    IN  up[Cardinality(DOMAIN t)]

\* PartitionOf after a command.
LEMMA PartitionIsNext ==
    ASSUME NEW n
    PROVE  PartitionOf(n)' = PartitionIn(nodes', n)
  BY DEF PartitionOf, PartitionIn, IsChain, Above

\* It is a node of the table, or n itself.
LEMMA PartitionType ==
    ASSUME NEW t, IsFiniteSet(DOMAIN t), NEW n
    PROVE  PartitionIn(t, n) \in DOMAIN t \union {n}
<1> DEFINE m == Cardinality(DOMAIN t)
           up == CHOOSE up : IsChain(t, n, m, up)
<1>1. m \in Nat
  BY FS_CardinalityType
<1> HIDE DEF m
<1>2. IsChain(t, n, m, up)
  BY <1>1, ChainExists
<1> HIDE DEF up
<1>3. up[m] \in DOMAIN t \union {n}
  BY <1>1, <1>2, ChainStays
<1> QED
  BY <1>3 DEF PartitionIn, up, m

\* Up to the root of n: node i of the chain is above those before it, and a root or i nodes
\* are below it.
Rises(t, n, up, i) ==
    /\ up[i] \in DOMAIN t
    /\ \A j \in 0..i : up[j] \in Under(ParentsOf(t), up[i])
    /\ \/ t[up[i]].parent = None
       \/ Cardinality(Under(ParentsOf(t), up[i])) >= i + 1

\* One step up.
LEMMA RisesOn ==
    ASSUME NEW t, IsFiniteSet(DOMAIN t), None \notin DOMAIN t,
           Parents(ParentsOf(t)), Acyclic(ParentsOf(t)),
           NEW n, NEW up, NEW i \in Nat, Rises(t, n, up, i),
           up[i + 1] = Above(t, n, up, i + 1)
    PROVE  Rises(t, n, up, i + 1)
<1> DEFINE P == ParentsOf(t)
           m == up[i]
<1>1. DOMAIN P = DOMAIN t /\ \A b \in DOMAIN t : P[b] = t[b].parent
  BY NamedIs
<1>2. i + 1 # 0 /\ (i + 1) - 1 = i /\ i + 1 \in Nat
  OBVIOUS
<1>3. m \in DOMAIN t /\ \A j \in 0..i : up[j] \in Under(P, m)
  BY DEF Rises
<1>4. up[i + 1] = IF t[m].parent \in DOMAIN t /\ \A j \in 0..i : up[j] # t[m].parent
                  THEN t[m].parent ELSE m
  BY <1>2, <1>3 DEF Above
<1>5. \A j \in 0..i + 1 : j = i + 1 \/ j \in 0..i
  OBVIOUS
<1>6. t[m].parent \in DOMAIN t \union {None}
  BY <1>1, <1>3 DEF Parents
<1>7. t[m].parent \notin Under(P, m)
  BY <1>1, <1>3 DEF Acyclic
<1>8. CASE t[m].parent = None
  <2>1. up[i + 1] = m
    BY <1>4, <1>8
  <2>2. m \in Under(P, m)
    BY <1>1, <1>3, UnderClosed
  <2>3. \A j \in 0..i + 1 : up[j] \in Under(P, m)
    BY <1>3, <1>5, <2>1, <2>2
  <2> QED
    BY <1>3, <1>8, <2>1, <2>3 DEF Rises
<1>9. CASE t[m].parent # None
  <2> DEFINE q == t[m].parent
  <2>1. q \in DOMAIN t /\ \A j \in 0..i : up[j] # q
    BY <1>3, <1>6, <1>7, <1>9
  <2>2. up[i + 1] = q
    BY <1>4, <2>1
  <2>3. q \in Under(P, q) /\ m \in Under(P, q)
    BY <1>1, <1>3, <2>1, UnderClosed
  <2>4. Under(P, m) \subseteq Under(P, q)
    BY <2>3, UnderParts
  <2>5. \A j \in 0..i + 1 : up[j] \in Under(P, q)
    BY <1>3, <1>5, <2>2, <2>3, <2>4
  <2>6. Cardinality(Under(P, q)) >= (i + 1) + 1
    <3>1. Under(P, q) \subseteq DOMAIN t /\ IsFiniteSet(DOMAIN t)
      BY <1>1, UnderClosed
    <3>2. IsFiniteSet(Under(P, q))
      BY <3>1, FS_Subset
    <3>3. IsFiniteSet(Under(P, m)) /\ Cardinality(Under(P, m)) <= Cardinality(Under(P, q))
          /\ (Cardinality(Under(P, m)) = Cardinality(Under(P, q)) => Under(P, m) = Under(P, q))
      BY <2>4, <3>2, FS_Subset
    <3>4. Cardinality(Under(P, m)) # Cardinality(Under(P, q))
      BY <1>7, <2>3, <3>3
    <3>5. Cardinality(Under(P, m)) \in Nat /\ Cardinality(Under(P, q)) \in Nat
      BY <3>2, <3>3, FS_CardinalityType
    <3>6. Cardinality(Under(P, m)) >= i + 1
      BY <1>9 DEF Rises
    <3> QED
      BY <3>3, <3>4, <3>5, <3>6
  <2> QED
    BY <2>1, <2>2, <2>5, <2>6 DEF Rises
<1> QED
  BY <1>8, <1>9

\* The partition of a node is a root above it.
LEMMA PartitionAbove ==
    ASSUME NEW t, NEW k, Typed(t, k), Well(t, k), NEW n \in DOMAIN t
    PROVE  /\ PartitionIn(t, n) \in DOMAIN t
           /\ t[PartitionIn(t, n)].parent = None
           /\ n \in Under(ParentsOf(t), PartitionIn(t, n))
<1> DEFINE m == Cardinality(DOMAIN t)
           up == CHOOSE up : IsChain(t, n, m, up)
           P == ParentsOf(t)
           S == {i \in Nat : i <= m => Rises(t, n, up, i) /\ up[0] = n}
<1>1. /\ IsFiniteSet(DOMAIN t) /\ None \notin DOMAIN t
      /\ Parents(P) /\ Acyclic(P)
      /\ DOMAIN P = DOMAIN t /\ \A b \in DOMAIN t : P[b] = t[b].parent
  BY NamedIs DEF Typed, Well, Forest
<1>2. m \in Nat
  BY <1>1, FS_CardinalityType
<1>3. IsChain(t, n, m, up)
  <2> HIDE DEF m
  <2> QED
    BY <1>2, ChainExists
<1> HIDE DEF up
<1>4. \A i \in 0..m : up[i] = Above(t, n, up, i)
  BY <1>3 DEF IsChain
<1>5. up[0] = n
  BY <1>2, <1>4 DEF Above
<1>6. 0 \in S
  <2>1. n \in Under(P, n) /\ Under(P, n) \subseteq DOMAIN t
    BY <1>1, UnderClosed
  <2>2. IsFiniteSet(Under(P, n))
    BY <1>1, <2>1, FS_Subset
  <2>3. Cardinality(Under(P, n)) \in Nat /\ Cardinality(Under(P, n)) # 0
    BY <2>1, <2>2, FS_CardinalityType, FS_EmptySet
  <2>4. \A j \in 0..0 : j = 0
    OBVIOUS
  <2> QED
    BY <1>5, <2>1, <2>3, <2>4 DEF Rises
<1>7. ASSUME NEW i \in S PROVE i + 1 \in S
  <2>1. SUFFICES ASSUME i + 1 <= m PROVE Rises(t, n, up, i + 1)
    BY <1>5
  <2>2. i \in Nat /\ i + 1 \in 0..m /\ i <= m
    BY <1>2, <2>1
  <2>3. Rises(t, n, up, i)
    BY <2>2
  <2>4. up[i + 1] = Above(t, n, up, i + 1)
    BY <1>4, <2>2
  <2> QED
    BY <1>1, <2>2, <2>3, <2>4, RisesOn
<1>8. S = Nat
  <2> HIDE DEF S
  <2>1. S \in SUBSET Nat
    BY DEF S
  <2> QED
    BY <1>6, <1>7, <2>1, SetOfNaturals
<1>9. Rises(t, n, up, m)
  BY <1>2, <1>8
<1>10. 0 \in 0..m
  BY <1>2
<1>11. up[m] \in DOMAIN t /\ n \in Under(P, up[m])
  BY <1>5, <1>9, <1>10 DEF Rises
<1>12. t[up[m]].parent = None
  <2>1. Under(P, up[m]) \subseteq DOMAIN t
    BY <1>1, UnderClosed
  <2>2. Cardinality(Under(P, up[m])) \in Nat /\ Cardinality(Under(P, up[m])) <= m
    BY <1>1, <2>1, FS_Subset, FS_CardinalityType
  <2> QED
    BY <1>2, <1>9, <2>2 DEF Rises
<1> QED
  BY <1>11, <1>12 DEF PartitionIn, up

\* Two partitions have no node in common.
LEMMA PartitionsApart ==
    ASSUME NEW P, None \notin DOMAIN P, NEW r \in DOMAIN P, NEW z \in DOMAIN P,
           P[r] = None, P[z] = None, r # z
    PROVE  Under(P, r) \intersect Under(P, z) = {}
<1> DEFINE X == (DOMAIN P \ Under(P, z)) \union {r}
<1>1. Under(P, z) \in SUBSET DOMAIN P /\ \A m \in Under(P, z) : m # z => P[m] \in Under(P, z)
  BY UnderClosed, UnderParts
<1>2. r \notin Under(P, z)
  BY <1>1
<1>3. \A m \in DOMAIN P : P[m] \in X => m \in X
  BY <1>1, <1>2
<1>4. r \in X
  OBVIOUS
<1> HIDE DEF X
<1>5. Under(P, r) \subseteq X
  BY <1>3, <1>4, UnderLeast
<1> QED
  BY <1>2, <1>5 DEF X

--------------------------------------------------------------------------------
(***************************************************************************)
(* The partitions that a change leaves alone.                              *)
(***************************************************************************)
\* The rows of the partition z.
ContentsOf(t, k, z) ==
    [n \in Under(ParentsOf(t), z) |-> <<t[n], [c \in Containments |-> RowOf(k, n, c)]>>]

\* The nodes U have the same rows in both tables, and no other node comes below them.
SameRows(t, k, U, t2, k2) ==
    /\ U \subseteq DOMAIN t2
    /\ \A m \in U : t2[m].parent = t[m].parent
    /\ \A m \in U, s \in Slots : ListOf(t2, k2, m, s) = ListOf(t, k, m, s)
    /\ \A m \in DOMAIN t2 \ U : t2[m].parent \notin U

\* A partition whose nodes have the same rows has the same contents.
LEMMA SameContents ==
    ASSUME NEW t, NEW k, Typed(t, k), NEW t2, NEW k2, Typed(t2, k2), NEW z \in DOMAIN t,
           SameRows(t, k, Under(ParentsOf(t), z), t2, k2)
    PROVE  ContentsOf(t2, k2, z) = ContentsOf(t, k, z)
<1> DEFINE P == ParentsOf(t)
           Q == ParentsOf(t2)
           U == Under(P, z)
           V == Under(Q, z)
<1>1. /\ DOMAIN P = DOMAIN t /\ \A m \in DOMAIN t : P[m] = t[m].parent
      /\ DOMAIN Q = DOMAIN t2 /\ \A m \in DOMAIN t2 : Q[m] = t2[m].parent
  BY NamedIs
<1>2. /\ U \in SUBSET DOMAIN t /\ z \in U
      /\ \A m \in U : m # z => P[m] \in U
  BY <1>1, UnderClosed, UnderParts
<1>3. /\ U \subseteq DOMAIN t2
      /\ \A m \in U : t2[m].parent = t[m].parent
      /\ \A m \in U, s \in Slots : ListOf(t2, k2, m, s) = ListOf(t, k, m, s)
      /\ \A m \in DOMAIN t2 \ U : t2[m].parent \notin U
  BY DEF SameRows
<1>4. z \in V /\ \A m \in DOMAIN t2 : Q[m] \in V => m \in V
  BY <1>1, <1>2, <1>3, UnderClosed
<1> HIDE DEF P, Q
<1>5. V \subseteq U
  <2>1. \A m \in DOMAIN Q : Q[m] \in U => m \in U
    BY <1>1, <1>3
  <2> HIDE DEF U
  <2> QED
    BY <1>2, <2>1, UnderLeast
<1>6. U \subseteq V
  <2> DEFINE X == V \union (DOMAIN t \ U)
  <2> HIDE DEF U, V
  <2>1. \A m \in DOMAIN P : P[m] \in X => m \in X
    <3>1. ASSUME NEW m \in DOMAIN P, P[m] \in X, m \in U PROVE m \in V
      <4>1. CASE m = z
        BY <1>4, <4>1
      <4>2. CASE m # z
        <5>1. P[m] \in U
          BY <1>2, <3>1, <4>2
        <5>2. Q[m] = P[m] /\ m \in DOMAIN t2
          BY <1>1, <1>2, <1>3, <3>1
        <5> QED
          BY <1>4, <3>1, <5>1, <5>2
      <4> QED
        BY <4>1, <4>2
    <3> QED
      BY <1>1, <3>1
  <2>2. z \in X
    BY <1>4
  <2> HIDE DEF X
  <2>3. Under(P, z) \subseteq X
    BY <2>1, <2>2, UnderLeast
  <2> QED
    BY <2>3 DEF X, U
<1>7. U = V
  BY <1>5, <1>6
<1>8. ASSUME NEW m \in U PROVE t2[m] = t[m] /\ \A c \in Containments : RowOf(k2, m, c) = RowOf(k, m, c)
  <2>1. m \in DOMAIN t /\ m \in DOMAIN t2
    BY <1>2, <1>3
  <2>2. t[m] = [parent |-> t[m].parent, annotations |-> t[m].annotations]
    BY <2>1, RowTypes
  <2>3. t2[m] = [parent |-> t2[m].parent, annotations |-> t2[m].annotations]
    BY <2>1, RowTypes
  <2>4. t2[m].annotations = t[m].annotations
    <3>1. Annotations \in Slots
      BY DEF Slots
    <3>2. ListOf(t2, k2, m, Annotations) = ListOf(t, k, m, Annotations)
      BY <1>3, <3>1
    <3> QED
      BY <3>2 DEF ListOf
  <2>5. t2[m].parent = t[m].parent
    BY <1>3
  <2>6. ASSUME NEW c \in Containments PROVE RowOf(k2, m, c) = RowOf(k, m, c)
    <3>1. c \in Slots /\ c # Annotations
      BY AnnotationsAssumption DEF Slots
    <3>2. ListOf(t2, k2, m, c) = ListOf(t, k, m, c)
      BY <1>3, <3>1
    <3> QED
      BY <3>1, <3>2 DEF ListOf
  <2> QED
    BY <2>2, <2>3, <2>4, <2>5, <2>6
<1>9. ASSUME NEW m \in U
      PROVE <<t2[m], [c \in Containments |-> RowOf(k2, m, c)]>>
                = <<t[m], [c \in Containments |-> RowOf(k, m, c)]>>
  BY <1>8
<1> HIDE DEF U, V
<1>10. [m \in V |-> <<t2[m], [c \in Containments |-> RowOf(k2, m, c)]>>]
           = [m \in U |-> <<t[m], [c \in Containments |-> RowOf(k, m, c)]>>]
  BY <1>7, <1>9
<1> QED
  BY <1>10 DEF ContentsOf, U, V, P, Q

\* A change of the lists of the nodes A and of the nodes T, which come, go or move with all
\* that is below them, from and to the nodes A.  Partition r, after it, has the nodes A; or it
\* comes or goes itself.
Within(t, k, A, T, r, t2, k2) ==
    /\ A \intersect T = {} /\ A \subseteq DOMAIN t2
    /\ T \subseteq DOMAIN t \union DOMAIN t2
    /\ \A m \in DOMAIN t \ T :
           /\ m \in DOMAIN t2 /\ t2[m].parent = t[m].parent
           /\ m \notin A => \A s \in Slots : ListOf(t2, k2, m, s) = ListOf(t, k, m, s)
    /\ DOMAIN t2 \ T \subseteq DOMAIN t
    /\ \A m \in DOMAIN t \intersect T :
           t[m].parent \in T \union A \/ (m = r /\ t[m].parent = None)
    /\ \A m \in DOMAIN t2 \intersect T :
           t2[m].parent \in T \union A \/ (m = r /\ t2[m].parent = None)
    /\ \A m \in DOMAIN t : t[m].parent \in T => m \in T
    /\ \A m \in DOMAIN t2 : t2[m].parent \in T => m \in T
    /\ \/ A = {}
       \/ /\ r \in DOMAIN t2 \ T /\ t2[r].parent = None
          /\ A \subseteq Under(ParentsOf(t2), r)

\* All other partitions stay what they are.
LEMMA OthersStay ==
    ASSUME NEW t, NEW k, Typed(t, k), Well(t, k), NEW t2, NEW k2, Typed(t2, k2), Well(t2, k2),
           NEW A, NEW T, NEW r, Within(t, k, A, T, r, t2, k2), NEW z, z # r
    PROVE  /\ z \in DOMAIN t /\ t[z].parent = None <=> z \in DOMAIN t2 /\ t2[z].parent = None
           /\ z \in DOMAIN t /\ t[z].parent = None => ContentsOf(t2, k2, z) = ContentsOf(t, k, z)
<1> DEFINE P == ParentsOf(t)
           Q == ParentsOf(t2)
           U == Under(P, z)
<1>1. /\ DOMAIN P = DOMAIN t /\ \A m \in DOMAIN t : P[m] = t[m].parent
      /\ DOMAIN Q = DOMAIN t2 /\ \A m \in DOMAIN t2 : Q[m] = t2[m].parent
  BY NamedIs
<1>2. None \notin DOMAIN t /\ None \notin DOMAIN t2
  BY <1>1 DEF Well, Forest
<1>3. None \notin A /\ None \notin T
  BY <1>2 DEF Within
<1> HIDE DEF P, Q
<1>4. ASSUME z \in DOMAIN t2, t2[z].parent = None PROVE z \in DOMAIN t /\ t[z].parent = None
  <2>1. z \notin T
    BY <1>3, <1>4 DEF Within
  <2> QED
    BY <1>4, <2>1 DEF Within
<1>5. ASSUME z \in DOMAIN t, t[z].parent = None
      PROVE  z \in DOMAIN t2 /\ t2[z].parent = None /\ ContentsOf(t2, k2, z) = ContentsOf(t, k, z)
  <2>1. z \notin T
    BY <1>3, <1>5 DEF Within
  <2>2. z \in DOMAIN t2 /\ t2[z].parent = None
    BY <1>5, <2>1 DEF Within
  <2>3. U \in SUBSET DOMAIN t /\ z \in U /\ \A m \in DOMAIN t : t[m].parent \in U => m \in U
    BY <1>1, <1>5, UnderClosed
  <2>4. U \intersect A = {}
    <3>1. CASE A = {}
      BY <3>1
    <3>2. CASE A # {}
      <4>1. r \in DOMAIN t2 \ T /\ t2[r].parent = None /\ A \subseteq Under(Q, r)
        BY <3>2 DEF Within, Q
      <4>2. r \in DOMAIN t /\ t[r].parent = None
        BY <4>1 DEF Within
      <4>3. Under(Q, r) \subseteq Under(P, r) \union T
        <5> DEFINE X == Under(P, r) \union T
        <5>1. r \in Under(P, r) /\ \A m \in DOMAIN t : P[m] \in Under(P, r) => m \in Under(P, r)
          BY <1>1, <4>2, UnderClosed
        <5>2. ASSUME NEW m \in DOMAIN Q, Q[m] \in X PROVE m \in X
          <6>1. CASE m \in T
            BY <6>1
          <6>2. CASE m \notin T
            <7>1. m \in DOMAIN t /\ Q[m] = P[m]
              BY <1>1, <5>2, <6>2 DEF Within
            <7>2. Q[m] \notin T
              BY <1>1, <5>2, <6>2 DEF Within
            <7> QED
              BY <5>1, <5>2, <7>1, <7>2
          <6> QED
            BY <6>1, <6>2
        <5>3. r \in X
          BY <5>1
        <5> HIDE DEF X
        <5>4. Under(Q, r) \subseteq X
          BY <5>2, <5>3, UnderLeast
        <5> QED
          BY <5>4 DEF X
      <4>4. A \subseteq Under(P, r)
        BY <4>1, <4>3 DEF Within
      <4>5. Under(P, r) \intersect Under(P, z) = {}
        BY <1>1, <1>2, <1>5, <4>2, PartitionsApart
      <4> QED
        BY <4>4, <4>5
    <3> QED
      BY <3>1, <3>2
  <2>5. U \intersect T = {}
    <3> DEFINE X == U \ T
    <3>1. ASSUME NEW m \in DOMAIN P, P[m] \in X PROVE m \in X
      <4>1. m \in DOMAIN t /\ t[m].parent \in U /\ t[m].parent \notin T
        BY <1>1, <3>1
      <4>2. m \in U
        BY <2>3, <4>1
      <4>3. m \notin T
        BY <1>2, <2>3, <2>4, <4>1 DEF Within
      <4> QED
        BY <4>2, <4>3
    <3>2. z \in X
      BY <2>1, <2>3
    <3> HIDE DEF X
    <3>3. Under(P, z) \subseteq X
      BY <3>1, <3>2, UnderLeast
    <3> QED
      BY <3>3 DEF X
  <2> HIDE DEF U
  <2>6. \A m \in DOMAIN t2 \ U : t2[m].parent \notin U
    <3>1. ASSUME NEW m \in DOMAIN t2, m \notin U, t2[m].parent \in U PROVE FALSE
      <4>1. CASE m \in T
        BY <1>2, <2>3, <2>4, <2>5, <3>1, <4>1 DEF Within
      <4>2. CASE m \notin T
        <5>1. m \in DOMAIN t /\ t2[m].parent = t[m].parent
          BY <3>1, <4>2 DEF Within
        <5> QED
          BY <2>3, <3>1, <5>1
      <4> QED
        BY <4>1, <4>2
    <3> QED
      BY <3>1
  <2>7. \A m \in U : m \in DOMAIN t /\ m \notin T /\ m \notin A
    BY <2>3, <2>4, <2>5
  <2>8. SameRows(t, k, U, t2, k2)
    BY <2>6, <2>7 DEF SameRows, Within
  <2>9. ContentsOf(t2, k2, z) = ContentsOf(t, k, z)
    BY <1>5, <2>8, SameContents DEF U, P
  <2> QED
    BY <2>2, <2>9
<1> QED
  BY <1>4, <1>5

\* r is a partition that has the nodes A.
Has(t, r, A) == r \in DOMAIN t /\ t[r].parent = None /\ A \subseteq Under(ParentsOf(t), r)

\* A partition comes.
LEMMA PartitionComesWithin ==
    ASSUME NEW t, NEW k, Typed(t, k), Well(t, k), NEW t2, NEW k2, Well(t2, k2),
           NEW new, IsTree(new, None), DOMAIN new.rows \intersect DOMAIN t = {},
           GraftedTables(t, k, new, t2, k2), NEW r, r = new.root
    PROVE  Within(t, k, {}, DOMAIN new.rows, r, t2, k2)
<1> DEFINE T == DOMAIN new.rows
<1>1. \A m \in DOMAIN t : t[m].parent \in DOMAIN t \union {None}
  BY RowTypes
<1>2. None \notin T
  <2>1. None \notin DOMAIN t2 /\ T \subseteq DOMAIN t2
    BY NamedIs DEF Well, Forest, GraftedTables
  <2> QED
    BY <2>1
<1>3. /\ r \in T /\ new.rows[r].parent = None
      /\ \A b \in T \ {r} : new.rows[b].parent = r
  BY DEF IsTree
<1>4. /\ DOMAIN t2 = DOMAIN t \union T
      /\ \A m \in DOMAIN t : t2[m].parent = t[m].parent
      /\ \A m \in T : t2[m].parent = new.rows[m].parent
      /\ \A m \in DOMAIN t, s \in Slots : ListOf(t2, k2, m, s) = ListOf(t, k, m, s)
  BY DEF GraftedTables
<1>5. T \intersect DOMAIN t = {}
  OBVIOUS
<1> HIDE DEF T
<1>6. \A m \in DOMAIN t2 \intersect T : t2[m].parent \in T \/ (m = r /\ t2[m].parent = None)
  BY <1>3, <1>4
<1>7. \A m \in DOMAIN t2 : t2[m].parent \in T => m \in T
  BY <1>1, <1>2, <1>4, <1>5
<1>8. \A m \in DOMAIN t : t[m].parent \in T => m \in T
  BY <1>1, <1>2, <1>5
<1> QED
  BY <1>4, <1>5, <1>6, <1>7, <1>8 DEF Within, T

\* A partition goes.
LEMMA PartitionGoesWithin ==
    ASSUME NEW t, NEW k, Typed(t, k), NEW t2, NEW k2, Typed(t2, k2), Well(t, k),
           NEW y \in DOMAIN t, t[y].parent = None, DeletedTables(t, k, y, t2, k2)
    PROVE  Within(t, k, {}, Under(ParentsOf(t), y), y, t2, k2)
<1> DEFINE T == Under(ParentsOf(t), y)
<1>1. \A m \in DOMAIN t2 : t2[m].parent \in DOMAIN t2 \union {None}
  BY RowTypes
<1>2. /\ T \in SUBSET DOMAIN t /\ \A m \in DOMAIN t : t[m].parent \in T => m \in T
      /\ \A m \in T : m # y => t[m].parent \in T
  BY UnderClosed, UnderParts, NamedIs
<1>3. /\ DOMAIN t2 = DOMAIN t \ T
      /\ \A m \in DOMAIN t2 : t2[m].parent = t[m].parent
      /\ \A m \in DOMAIN t2, s \in Slots : ListOf(t2, k2, m, s) = ListOf(t, k, m, s)
  BY DEF DeletedTables
<1>4. None \notin DOMAIN t
  BY NamedIs DEF Well, Forest
<1> HIDE DEF T
<1> QED
  BY <1>1, <1>2, <1>3, <1>4 DEF Within, T

\* A tree comes to a node of r.
LEMMA TreeComesWithin ==
    ASSUME NEW t, NEW k, Typed(t, k), NEW t2, NEW k2, Well(t2, k2),
           NEW new, NEW p, NEW u, NEW i, Comes(t, k, new, p, u, i, t2, k2),
           NEW r, Has(t2, r, {p})
    PROVE  Within(t, k, {p}, DOMAIN new.rows, r, t2, k2)
<1> DEFINE T == DOMAIN new.rows
<1>1. \A m \in DOMAIN t : t[m].parent \in DOMAIN t \union {None}
  BY RowTypes
<1>2. None \notin DOMAIN t2
  BY NamedIs DEF Well, Forest
<1>3. /\ new.root \in T /\ new.rows[new.root].parent = p
      /\ \A b \in T \ {new.root} : new.rows[b].parent = new.root
  BY DEF Comes, IsTree
<1>4. /\ DOMAIN t2 = DOMAIN t \union T /\ p \in DOMAIN t
      /\ \A m \in DOMAIN t : t2[m].parent = t[m].parent
      /\ \A m \in T : t2[m].parent = new.rows[m].parent
      /\ \A m \in DOMAIN t, s \in Slots : m # p => ListOf(t2, k2, m, s) = ListOf(t, k, m, s)
  BY DEF Comes, SameParents, NewIn, OnlyAt
<1>5. T \intersect DOMAIN t = {}
  BY DEF Comes
<1> HIDE DEF T
<1>6. \A m \in T : t2[m].parent \in T \union {p}
  BY <1>3, <1>4
<1>7. \A m \in DOMAIN t2 : t2[m].parent \in T => m \in T
  BY <1>1, <1>2, <1>4, <1>5
<1>8. \A m \in DOMAIN t : t[m].parent \in T => m \in T
  BY <1>1, <1>2, <1>4, <1>5
<1>9. r \in DOMAIN t2 \ T /\ t2[r].parent = None /\ {p} \subseteq Under(ParentsOf(t2), r)
  BY <1>2, <1>4, <1>6 DEF Has
<1> QED
  BY <1>4, <1>5, <1>6, <1>7, <1>8, <1>9 DEF Within, T

\* A node of r goes.
LEMMA NodeGoesWithin ==
    ASSUME NEW t, NEW k, Typed(t, k), Well(t, k), NEW t2, NEW k2, Typed(t2, k2),
           NEW p, NEW u, NEW i, NEW y, Goes(t, k, p, u, i, y, t2, k2),
           NEW r, Has(t2, r, {p})
    PROVE  Within(t, k, {p}, Under(ParentsOf(t), y), r, t2, k2)
<1> DEFINE T == Under(ParentsOf(t), y)
<1>1. \A m \in DOMAIN t2 : t2[m].parent \in DOMAIN t2 \union {None}
  BY RowTypes
<1>2. /\ T \in SUBSET DOMAIN t /\ \A m \in DOMAIN t : t[m].parent \in T => m \in T
      /\ \A m \in T : m # y => t[m].parent \in T
  BY UnderClosed, UnderParts, NamedIs
<1>3. /\ DOMAIN t2 = DOMAIN t \ T
      /\ \A m \in DOMAIN t2 : t2[m].parent = t[m].parent
      /\ \A m \in DOMAIN t2, s \in Slots : m # p => ListOf(t2, k2, m, s) = ListOf(t, k, m, s)
  BY DEF Goes, Rest, SameParents, OnlyAt
<1>4. None \notin DOMAIN t
  BY NamedIs DEF Well, Forest
<1>5. t[y].parent = p /\ p \notin T /\ p \in DOMAIN t
  BY AtIsListed, ListedOnce DEF Goes, At
<1> HIDE DEF T
<1> QED
  BY <1>1, <1>2, <1>3, <1>4, <1>5 DEF Within, T, Has

\* A node of r is replaced.
LEMMA NodeIsReplacedWithin ==
    ASSUME NEW t, NEW k, Typed(t, k), Well(t, k), NEW t2, NEW k2, Typed(t2, k2), Well(t2, k2),
           NEW p, NEW u, NEW i, NEW y, NEW new, IsReplaced(t, k, p, u, i, y, new, t2, k2),
           NEW r, Has(t2, r, {p})
    PROVE  Within(t, k, {p}, Under(ParentsOf(t), y) \union DOMAIN new.rows, r, t2, k2)
<1> DEFINE G == Under(ParentsOf(t), y)
           N == DOMAIN new.rows
           T == G \union N
<1>1. /\ \A m \in DOMAIN t : t[m].parent \in DOMAIN t \union {None}
      /\ \A m \in DOMAIN t2 : t2[m].parent \in DOMAIN t2 \union {None}
  BY RowTypes
<1>2. /\ G \in SUBSET DOMAIN t /\ \A m \in DOMAIN t : t[m].parent \in G => m \in G
      /\ \A m \in G : m # y => t[m].parent \in G
  BY UnderClosed, UnderParts, NamedIs
<1>3. /\ DOMAIN t2 = (DOMAIN t \ G) \union N
      /\ \A m \in DOMAIN t \ G : t2[m].parent = t[m].parent
      /\ \A m \in N : t2[m].parent = new.rows[m].parent
      /\ \A m \in DOMAIN t \ G, s \in Slots : m # p => ListOf(t2, k2, m, s) = ListOf(t, k, m, s)
  BY DEF IsReplaced, Rest, SameParents, OnlyAt, NewIn
<1>4. None \notin DOMAIN t /\ None \notin DOMAIN t2
  BY NamedIs DEF Well, Forest
<1>5. t[y].parent = p /\ p \notin G /\ p \in DOMAIN t
  BY AtIsListed, ListedOnce DEF IsReplaced, At
<1>6. N \intersect DOMAIN t = {}
  BY DEF IsReplaced
<1>7. /\ new.root \in N /\ new.rows[new.root].parent = p
      /\ \A b \in N \ {new.root} : new.rows[b].parent = new.root
  BY DEF IsReplaced, IsTree
<1> HIDE DEF G, N
<1>8. \A m \in N : t2[m].parent \in N \union {p}
  BY <1>3, <1>7
<1>9. \A m \in DOMAIN t2 : t2[m].parent \in T => m \in T
  BY <1>1, <1>2, <1>3, <1>4, <1>6
<1>10. \A m \in DOMAIN t : t[m].parent \in T => m \in T
  BY <1>1, <1>2, <1>3, <1>4, <1>6
<1>11. r \in DOMAIN t2 \ T /\ t2[r].parent = None /\ {p} \subseteq Under(ParentsOf(t2), r)
  BY <1>2, <1>3, <1>4, <1>5, <1>6, <1>8 DEF Has
<1>12. /\ \A m \in DOMAIN t \intersect T : t[m].parent \in T \union {p}
       /\ \A m \in DOMAIN t2 \intersect T : t2[m].parent \in T \union {p}
  BY <1>2, <1>3, <1>5, <1>6, <1>8
<1>13. /\ {p} \intersect T = {} /\ {p} \subseteq DOMAIN t2
       /\ T \subseteq DOMAIN t \union DOMAIN t2 /\ DOMAIN t2 \ T \subseteq DOMAIN t
  BY <1>2, <1>3, <1>5, <1>6
<1>14. \A m \in DOMAIN t \ T :
           /\ m \in DOMAIN t2 /\ t2[m].parent = t[m].parent
           /\ m \notin {p} => \A s \in Slots : ListOf(t2, k2, m, s) = ListOf(t, k, m, s)
  BY <1>3
<1> HIDE DEF T
<1> QED
  BY <1>9, <1>10, <1>11, <1>12, <1>13, <1>14 DEF Within, T, G, N

\* A node of r moves within r.
LEMMA NodeMovesWithin ==
    ASSUME NEW t, NEW k, Typed(t, k), Well(t, k), NEW t2, NEW k2, Typed(t2, k2),
           NEW x, NEW p, NEW c, NEW i, NEW q, NEW d, NEW j,
           Moves(t, k, x, p, c, i, q, d, j, t2, k2),
           NEW r, Has(t2, r, {p, q})
    PROVE  Within(t, k, {p, q}, Under(ParentsOf(t), x), r, t2, k2)
<1> DEFINE T == Under(ParentsOf(t), x)
<1>1. /\ T \in SUBSET DOMAIN t /\ \A m \in DOMAIN t : t[m].parent \in T => m \in T
      /\ \A m \in T : m # x => t[m].parent \in T
  BY UnderClosed, UnderParts, NamedIs
<1>2. None \notin DOMAIN t
  BY NamedIs DEF Well, Forest
<1>3. t[x].parent = p /\ p \notin T /\ p \in DOMAIN t /\ x \in T
  BY AtIsListed, ListedOnce DEF Moves, At
<1>4. /\ q \in DOMAIN t /\ q \notin T /\ DOMAIN t2 = DOMAIN t
      /\ \A m \in DOMAIN t : t2[m].parent = IF m = x THEN q ELSE t[m].parent
      /\ \A m \in DOMAIN t, s \in Slots :
             m # p /\ m # q => ListOf(t2, k2, m, s) = ListOf(t, k, m, s)
  BY DEF Moves, LeftAndCome, Left
<1> HIDE DEF T
<1>5. \A m \in DOMAIN t : t2[m].parent \in T => m \in T
  BY <1>1, <1>3, <1>4
<1>6. /\ \A m \in T : t[m].parent \in T \union {p, q}
      /\ \A m \in T : t2[m].parent \in T \union {p, q}
  BY <1>1, <1>3, <1>4
<1>7. r \in DOMAIN t2 \ T /\ t2[r].parent = None /\ {p, q} \subseteq Under(ParentsOf(t2), r)
  BY <1>1, <1>2, <1>3, <1>4, <1>6 DEF Has
<1>8. \A m \in DOMAIN t \ T :
          /\ m \in DOMAIN t2 /\ t2[m].parent = t[m].parent
          /\ m \notin {p, q} => \A s \in Slots : ListOf(t2, k2, m, s) = ListOf(t, k, m, s)
  BY <1>3, <1>4
<1>9. /\ {p, q} \intersect T = {} /\ {p, q} \subseteq DOMAIN t2
      /\ T \subseteq DOMAIN t \union DOMAIN t2 /\ DOMAIN t2 \ T \subseteq DOMAIN t
  BY <1>1, <1>3, <1>4
<1> QED
  BY <1>1, <1>4, <1>5, <1>6, <1>7, <1>8, <1>9 DEF Within, T

\* A node of r moves within r, in the place of another one.
LEMMA NodeMovesOverWithin ==
    ASSUME NEW t, NEW k, Typed(t, k), Well(t, k), NEW t2, NEW k2, Typed(t2, k2),
           NEW x, NEW p, NEW c, NEW i, NEW q, NEW d, NEW j, NEW y,
           MovesOver(t, k, x, p, c, i, q, d, j, y, t2, k2),
           NEW r, Has(t2, r, {p, q})
    PROVE  Within(t, k, {p, q}, Under(ParentsOf(t), x) \union Under(ParentsOf(t), y), r, t2, k2)
<1> DEFINE U == Under(ParentsOf(t), x)
           G == Under(ParentsOf(t), y)
           T == U \union G
<1>0. \A m \in DOMAIN t2 : t2[m].parent \in DOMAIN t2 \union {None}
  BY RowTypes
<1>1. /\ U \in SUBSET DOMAIN t /\ \A m \in DOMAIN t : t[m].parent \in U => m \in U
      /\ \A m \in U : m # x => t[m].parent \in U
      /\ G \in SUBSET DOMAIN t /\ \A m \in DOMAIN t : t[m].parent \in G => m \in G
      /\ \A m \in G : m # y => t[m].parent \in G
  BY UnderClosed, UnderParts, NamedIs
<1>2. None \notin DOMAIN t
  BY NamedIs DEF Well, Forest
<1>3. t[x].parent = p /\ p \notin U /\ p \in DOMAIN t /\ x \in U /\ x \in DOMAIN t
  BY AtIsListed, ListedOnce DEF MovesOver, At
<1>4. t[y].parent = q /\ q \notin G /\ q \in DOMAIN t
  BY AtIsListed, ListedOnce DEF MovesOver, At
<1>5. x \notin G /\ q \notin U
  BY DEF MovesOver
<1>6. p \notin G
  BY <1>1, <1>3, <1>5
<1>7. /\ DOMAIN t2 = DOMAIN t \ G
      /\ \A m \in DOMAIN t \ G : t2[m].parent = IF m = x THEN q ELSE t[m].parent
      /\ \A m \in DOMAIN t \ G, s \in Slots :
             m # p /\ m # q => ListOf(t2, k2, m, s) = ListOf(t, k, m, s)
  BY DEF MovesOver, LeftAndCome, Left, Rest
<1> HIDE DEF U, G
<1>8. \A m \in DOMAIN t2 : t2[m].parent \in T => m \in T
  BY <1>0, <1>1, <1>2, <1>3, <1>7
<1>9. \A m \in DOMAIN t : t[m].parent \in T => m \in T
  BY <1>1
<1>10. /\ \A m \in DOMAIN t \intersect T : t[m].parent \in T \union {p, q}
       /\ \A m \in DOMAIN t2 \intersect T : t2[m].parent \in T \union {p, q}
  BY <1>1, <1>3, <1>4, <1>7
<1>11. r \in DOMAIN t2 \ T /\ t2[r].parent = None /\ {p, q} \subseteq Under(ParentsOf(t2), r)
  BY <1>1, <1>2, <1>3, <1>4, <1>7, <1>10 DEF Has
<1>12. \A m \in DOMAIN t \ T :
           /\ m \in DOMAIN t2 /\ t2[m].parent = t[m].parent
           /\ m \notin {p, q} => \A s \in Slots : ListOf(t2, k2, m, s) = ListOf(t, k, m, s)
  BY <1>3, <1>7
<1>13. /\ {p, q} \intersect T = {} /\ {p, q} \subseteq DOMAIN t2
       /\ T \subseteq DOMAIN t \union DOMAIN t2 /\ DOMAIN t2 \ T \subseteq DOMAIN t
  BY <1>1, <1>3, <1>4, <1>5, <1>6, <1>7
<1> HIDE DEF T
<1> QED
  BY <1>8, <1>9, <1>10, <1>11, <1>12, <1>13 DEF Within, T, U, G
================================================================================
