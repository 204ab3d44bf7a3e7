---------------------------- MODULE ListLemmas ----------------------------
(***************************************************************************)
(* What folds do to sequences and what insertions do to lists, in forms    *)
(* that the proofs about the models can cite.                              *)
(*                                                                         *)
(* FoldLeft is a recursive function on the sets of positions, from the     *)
(* greatest position down; a proof about it needs that such a function     *)
(* exists, and induction over the natural numbers, here as a statement     *)
(* about sets of numbers.  Then come the places of sequences: stacks, and  *)
(* lists that gain and lose elements.  The last part is about PlanGroup of *)
(* ListGroups: when the plan made for a whole run of recorded elements is  *)
(* the list they make one after the other (PlanBuilt), and when it is the  *)
(* list they were taken from (PlanListed).                                 *)
(***************************************************************************)
EXTENDS ListGroups, SequenceTheorems, FiniteSetTheorems, WellFoundedInduction, TLAPS

(* Induction: a set of numbers that holds 0, and with each number below    *)
(* the bound the next one, holds all numbers up to the bound.  It carries  *)
(* every argument here from one operation of a change set to the next.     *)
LEMMA Induction ==
  ASSUME NEW N \in Nat, NEW T, 0 \in T,
         \A n \in 0..(N - 1) : n \in T => n + 1 \in T
  PROVE  0..N \subseteq T
PROOF
<1> DEFINE Rest == (0..N) \ T
<1> DEFINE R == OpToRel(<, Nat)
<1>1. SUFFICES ASSUME Rest # {} PROVE FALSE
  OBVIOUS
<1>2. PICK n \in Rest : \A m \in Rest : <<m, n>> \notin R
  <2>1. Rest \subseteq Nat
    OBVIOUS
  <2> QED BY <1>1, <2>1, NatLessThanWellFounded, WFMin
<1>3. \A m \in Rest : ~(m < n)
  <2> SUFFICES ASSUME NEW m \in Rest, m < n PROVE FALSE
    OBVIOUS
  <2>1. m \in Nat /\ n \in Nat
    OBVIOUS
  <2>2. <<m, n>> \in Nat \X Nat
    BY <2>1
  <2>3. <<m, n>> \in R
    BY <2>2 DEF OpToRel
  <2> QED BY <1>2, <2>3
<1>4. n # 0 /\ n - 1 \in 0..(N - 1) /\ n - 1 \in Nat
  OBVIOUS
<1>5. n - 1 \in T
  BY <1>3, <1>4
<1> QED BY <1>4, <1>5

(* The greatest of the first n positions is n, and the others are the      *)
(* first n - 1: the order in which FoldLeft takes the operations.          *)
LEMMA LastPosition ==
  ASSUME NEW n \in Nat \ {0}
  PROVE  /\ Max(1..n) = n
         /\ (1..n) \ {n} = 1..(n - 1)
         /\ 1..n # {}
PROOF
<1>1. n \in 1..n /\ \A y \in 1..n : n >= y
  OBVIOUS
<1>2. \A x \in 1..n : (\A y \in 1..n : x >= y) => x = n
  OBVIOUS
<1>3. Max(1..n) = n
  BY <1>1, <1>2 DEF Max
<1> QED BY <1>1, <1>3

(* The greatest of a nonempty set of positions is one of them.             *)
LEMMA MaxInside ==
  ASSUME NEW N \in Nat, NEW s \in SUBSET (1..N), s # {}
  PROVE  Max(s) \in s /\ \A y \in s : Max(s) >= y
PROOF
<1>1. \E x \in s : \A y \in s : x >= y
  <2> SUFFICES ASSUME \A x \in s : \E y \in s : ~(x >= y) PROVE FALSE
    OBVIOUS
  <2> DEFINE T == {n \in 0..(N + 1) : \E y \in s : y >= n}
  <2>1. 0 \in T
    <3>1. PICK y \in s : TRUE
      OBVIOUS
    <3>2. y >= 0 /\ 0 \in 0..(N + 1)
      OBVIOUS
    <3> QED BY <3>2
  <2>2. ASSUME NEW n \in 0..N, n \in T PROVE n + 1 \in T
    <3>1. PICK y \in s : y >= n
      BY <2>2
    <3>2. PICK z \in s : ~(y >= z)
      OBVIOUS
    <3> QED BY <3>1, <3>2
  <2> HIDE DEF T
  <2>3. 0..(N + 1) \subseteq T
    <3>1. N + 1 \in Nat /\ (N + 1) - 1 = N
      OBVIOUS
    <3> QED BY <2>1, <2>2, <3>1, Induction
  <2>4. N + 1 \in T
    BY <2>3
  <2> QED BY <2>4 DEF T
<1> QED BY <1>1 DEF Max

(* Recurs(iter, N, base, F): iter is the recursive function of a fold over *)
(* N operations, which begins with base, and in which F[<<acc, n>>] is     *)
(* what operation n makes of acc.                                          *)
Recurs(iter, N, base, F) ==
  \A s \in SUBSET (1..N) :
    iter[s] = IF s = {} THEN base ELSE F[<<iter[s \ {Max(s)}], Max(s)>>]

(* The recursion of a fold has a solution: by induction over the number of *)
(* operations.                                                             *)
LEMMA FoldExists ==
  ASSUME NEW N \in Nat, NEW A, NEW base \in A, NEW F \in [A \X (1..N) -> A]
  PROVE  \E iter \in [SUBSET (1..N) -> A] : Recurs(iter, N, base, F)
PROOF
<1> DEFINE T == {n \in 0..N : \E g \in [SUBSET (1..n) -> A] : Recurs(g, n, base, F)}
<1>1. 0 \in T
  <2> DEFINE g == [s \in SUBSET (1..0) |-> base]
  <2>1. g \in [SUBSET (1..0) -> A]
    OBVIOUS
  <2>2. \A s \in SUBSET (1..0) : s = {} /\ g[s] = base
    OBVIOUS
  <2>3. Recurs(g, 0, base, F)
    BY <2>2 DEF Recurs
  <2> HIDE DEF g
  <2>4. \E h \in [SUBSET (1..0) -> A] : Recurs(h, 0, base, F)
    BY <2>1, <2>3
  <2>5. 0 \in 0..N
    OBVIOUS
  <2> QED BY <2>4, <2>5
<1>2. ASSUME NEW n \in 0..(N - 1), n \in T PROVE n + 1 \in T
  <2>1. PICK g \in [SUBSET (1..n) -> A] : Recurs(g, n, base, F)
    BY <1>2
  <2> DEFINE h == [s \in SUBSET (1..(n + 1)) |->
                     IF n + 1 \in s THEN F[<<g[s \ {n + 1}], n + 1>>] ELSE g[s]]
  <2>2. n \in Nat /\ n + 1 \in Nat /\ n + 1 \in 1..N
    OBVIOUS
  <2>3. ASSUME NEW s \in SUBSET (1..(n + 1)), n + 1 \in s
        PROVE  /\ s \ {n + 1} \in SUBSET (1..n) /\ Max(s) = n + 1
               /\ h[s] = F[<<g[s \ {n + 1}], n + 1>>]
               /\ h[s \ {n + 1}] = g[s \ {n + 1}]
    <3>1. s \ {n + 1} \in SUBSET (1..n)
      BY <2>2
    <3>2. Max(s) = n + 1
      <4>1. Max(s) \in s /\ \A y \in s : Max(s) >= y
        BY <2>2, <2>3, MaxInside
      <4>2. Max(s) >= n + 1 /\ Max(s) \in 1..(n + 1)
        BY <4>1, <2>3
      <4> QED BY <4>2, <2>2
    <3>3. s \ {n + 1} \in SUBSET (1..(n + 1)) /\ n + 1 \notin s \ {n + 1}
      OBVIOUS
    <3> QED BY <2>3, <3>1, <3>2, <3>3
  <2>4. ASSUME NEW s \in SUBSET (1..(n + 1)), n + 1 \notin s
        PROVE  s \in SUBSET (1..n) /\ h[s] = g[s]
    <3>1. s \in SUBSET (1..n)
      BY <2>2, <2>4
    <3> QED BY <2>4, <3>1
  <2>5. h \in [SUBSET (1..(n + 1)) -> A]
    <3>1. ASSUME NEW s \in SUBSET (1..(n + 1)) PROVE h[s] \in A
      <4>1. CASE n + 1 \in s
        <5>1. g[s \ {n + 1}] \in A
          BY <4>1, <2>3
        <5>2. <<g[s \ {n + 1}], n + 1>> \in A \X (1..N)
          BY <5>1, <2>2
        <5> QED BY <4>1, <5>2, <2>3
      <4>2. CASE n + 1 \notin s
        BY <4>2, <2>4
      <4> QED BY <4>1, <4>2
    <3> QED BY <3>1
  <2> HIDE DEF h
  <2>6. ASSUME NEW s \in SUBSET (1..(n + 1))
        PROVE  h[s] = IF s = {} THEN base ELSE F[<<h[s \ {Max(s)}], Max(s)>>]
    <3>1. CASE n + 1 \in s
      BY <3>1, <2>3
    <3>2. CASE n + 1 \notin s
      <4>1. s \in SUBSET (1..n) /\ h[s] = g[s]
        BY <3>2, <2>4
      <4>2. g[s] = IF s = {} THEN base ELSE F[<<g[s \ {Max(s)}], Max(s)>>]
        BY <4>1, <2>1 DEF Recurs
      <4>3. n + 1 \notin s \ {Max(s)} /\ s \ {Max(s)} \in SUBSET (1..(n + 1))
        BY <3>2
      <4>4. h[s \ {Max(s)}] = g[s \ {Max(s)}]
        BY <4>3, <2>4
      <4> QED BY <4>1, <4>2, <4>4
    <3> QED BY <3>1, <3>2
  <2>7. Recurs(h, n + 1, base, F)
    BY <2>6 DEF Recurs
  <2>8. \E k \in [SUBSET (1..(n + 1)) -> A] : Recurs(k, n + 1, base, F)
    BY <2>5, <2>7
  <2> QED BY <2>8, <2>2
<1> HIDE DEF T
<1>3. N \in T
  <2>1. 0..N \subseteq T
    BY <1>1, <1>2, Induction
  <2> QED BY <2>1
<1> QED BY <1>3 DEF T

(* A sequence without its last element, as stacks are popped               *)
LEMMA FrontFacts ==
  ASSUME NEW S, NEW s \in Seq(S), s # <<>>
  PROVE  /\ Front(s) \in Seq(S) /\ Len(Front(s)) = Len(s) - 1 /\ Len(s) \in Nat \ {0}
         /\ \A k \in 1..(Len(s) - 1) : Front(s)[k] = s[k]
PROOF
<1> DEFINE m == Len(s) - 1
<1>1. m \in Nat /\ Len(s) \in Nat \ {0} /\ m \in 0..Len(s)
  OBVIOUS
<1>2. Front(s) = SubSeq(s, 1, m)
  BY DEF Front
<1> HIDE DEF m
<1>3. /\ SubSeq(s, 1, m) \in Seq(S) /\ Len(SubSeq(s, 1, m)) = m
      /\ \A k \in 1..m : SubSeq(s, 1, m)[k] = s[k]
  <2>1. \A k \in 1..m : s[k] \in S
    BY <1>1 DEF m
  <2>2. SubSeq(s, 1, m) = [k \in 1..m |-> s[k]]
    BY <1>1
  <2> QED BY <1>1, <2>1, <2>2
<1> QED BY <1>1, <1>2, <1>3 DEF m

(* The places after an erasure: those before the erased one stay, the      *)
(* others move up by one.                                                  *)
LEMMA RemoveAtFacts ==
  ASSUME NEW S, NEW s \in Seq(S), NEW i \in 1..Len(s)
  PROVE  /\ RemoveAt(s, i) \in Seq(S)
         /\ Len(RemoveAt(s, i)) = Len(s) - 1
         /\ \A n \in 1..(i - 1) : RemoveAt(s, i)[n] = s[n]
         /\ \A n \in i..(Len(s) - 1) : RemoveAt(s, i)[n] = s[n + 1]
PROOF
<1> DEFINE N == Len(s)
<1> DEFINE head == SubSeq(s, 1, i - 1)
<1> DEFINE tail == SubSeq(s, i + 1, N)
<1>1. N \in Nat /\ i \in Int /\ 1 <= i /\ i <= N /\ \A k \in 1..N : s[k] \in S
  OBVIOUS
<1> HIDE DEF N
<1>2. head \in Seq(S) /\ Len(head) = i - 1 /\ \A k \in 1..(i - 1) : head[k] = s[k]
  <2>1. \A k \in 1..(i - 1) : s[k] \in S
    BY <1>1
  <2>2. /\ head \in Seq(S)
        /\ Len(head) = IF 1 <= i - 1 THEN (i - 1) - 1 + 1 ELSE 0
        /\ \A k \in 1..((i - 1) - 1 + 1) : head[k] = s[1 + k - 1]
    BY <1>1, <2>1, SubSeqProperties
  <2>3. \A k \in 1..(i - 1) : k \in 1..((i - 1) - 1 + 1) /\ 1 + k - 1 = k
    BY <1>1
  <2> QED BY <1>1, <2>2, <2>3
<1>3. tail \in Seq(S) /\ Len(tail) = N - i /\ \A k \in 1..(N - i) : tail[k] = s[i + k]
  <2>1. \A k \in (i + 1)..N : s[k] \in S
    BY <1>1
  <2>2. /\ tail \in Seq(S)
        /\ Len(tail) = IF i + 1 <= N THEN N - (i + 1) + 1 ELSE 0
        /\ \A k \in 1..(N - (i + 1) + 1) : tail[k] = s[(i + 1) + k - 1]
    BY <1>1, <2>1, SubSeqProperties
  <2>3. \A k \in 1..(N - i) : k \in 1..(N - (i + 1) + 1) /\ (i + 1) + k - 1 = i + k
    BY <1>1
  <2> QED BY <1>1, <2>2, <2>3
<1> HIDE DEF head, tail
<1>4. RemoveAt(s, i) = head \o tail
  BY DEF RemoveAt, head, tail, N
<1>5. /\ head \o tail \in Seq(S)
      /\ Len(head \o tail) = (i - 1) + (N - i)
      /\ \A k \in 1..((i - 1) + (N - i)) :
           (head \o tail)[k] = IF k <= i - 1 THEN head[k] ELSE tail[k - (i - 1)]
  BY SMTT(30), <1>2, <1>3, ConcatProperties
<1>6. (i - 1) + (N - i) = N - 1
  BY <1>1
<1>7. ASSUME NEW n \in 1..(i - 1) PROVE (head \o tail)[n] = s[n]
  <2>1. n \in 1..(N - 1) /\ n <= i - 1
    BY <1>1
  <2> QED BY <1>2, <1>5, <1>6, <2>1
<1>8. ASSUME NEW n \in i..(N - 1) PROVE (head \o tail)[n] = s[n + 1]
  <2>1. /\ n \in 1..(N - 1) /\ ~(n <= i - 1)
        /\ n - (i - 1) \in 1..(N - i) /\ i + (n - (i - 1)) = n + 1
    BY <1>1
  <2>2. (head \o tail)[n] = tail[n - (i - 1)]
    BY <1>5, <1>6, <2>1
  <2> QED BY <1>3, <2>1, <2>2
<1> QED BY <1>4, <1>5, <1>6, <1>7, <1>8 DEF N


(* The places after an insertion at place i: those before it stay, the     *)
(* others move down by one.                                                *)
LEMMA InsertAtFacts ==
  ASSUME NEW S, NEW s \in Seq(S), NEW i \in 1..(Len(s) + 1), NEW e \in S
  PROVE  /\ InsertAt(s, i, e) \in Seq(S)
         /\ Len(InsertAt(s, i, e)) = Len(s) + 1
         /\ InsertAt(s, i, e)[i] = e
         /\ \A n \in 1..(i - 1) : InsertAt(s, i, e)[n] = s[n]
         /\ \A n \in (i + 1)..(Len(s) + 1) : InsertAt(s, i, e)[n] = s[n - 1]
PROOF
<1> DEFINE N == Len(s)
<1> DEFINE head == SubSeq(s, 1, i - 1)
<1> DEFINE tail == SubSeq(s, i, N)
<1> DEFINE front == head \o <<e>>
<1>1. N \in Nat /\ i \in Int /\ 1 <= i /\ i <= N + 1 /\ \A k \in 1..N : s[k] \in S
  OBVIOUS
<1> HIDE DEF N
<1>2. head \in Seq(S) /\ Len(head) = i - 1 /\ \A k \in 1..(i - 1) : head[k] = s[k]
  <2>1. \A k \in 1..(i - 1) : s[k] \in S
    BY <1>1
  <2>2. /\ head \in Seq(S)
        /\ Len(head) = IF 1 <= i - 1 THEN (i - 1) - 1 + 1 ELSE 0
        /\ \A k \in 1..((i - 1) - 1 + 1) : head[k] = s[1 + k - 1]
    BY <1>1, <2>1, SubSeqProperties
  <2>3. \A k \in 1..(i - 1) : k \in 1..((i - 1) - 1 + 1) /\ 1 + k - 1 = k
    BY <1>1
  <2> QED BY <1>1, <2>2, <2>3
<1>3. /\ tail \in Seq(S) /\ Len(tail) = N - i + 1
      /\ \A k \in 1..(N - i + 1) : tail[k] = s[i + k - 1]
  <2>1. \A k \in i..N : s[k] \in S
    BY <1>1
  <2>2. /\ tail \in Seq(S)
        /\ Len(tail) = IF i <= N THEN N - i + 1 ELSE 0
        /\ \A k \in 1..(N - i + 1) : tail[k] = s[i + k - 1]
    BY <1>1, <2>1, SubSeqProperties
  <2> QED BY <1>1, <2>2
<1> HIDE DEF head, tail
<1>4. /\ front \in Seq(S) /\ Len(front) = i /\ front[i] = e
      /\ \A k \in 1..(i - 1) : front[k] = s[k]
  <2>1. front = Append(head, e)
    BY <1>2, AppendIsConcat
  <2>2. Len(head) + 1 = i
    BY <1>1, <1>2
  <2>3. head \in Seq(S)
    BY <1>2
  <2>4. /\ Append(head, e) \in Seq(S)
        /\ Len(Append(head, e)) = Len(head) + 1
        /\ \A k \in 1..Len(head) : Append(head, e)[k] = head[k]
        /\ Append(head, e)[Len(head) + 1] = e
    BY <2>3, AppendProperties
  <2> HIDE DEF front
  <2> QED BY <1>2, <2>1, <2>2, <2>4
<1>5. InsertAt(s, i, e) = front \o tail
  BY DEF InsertAt, head, tail, front, N
<1> HIDE DEF front
<1>6. /\ front \o tail \in Seq(S)
      /\ Len(front \o tail) = i + (N - i + 1)
      /\ \A k \in 1..(i + (N - i + 1)) :
           (front \o tail)[k] = IF k <= i THEN front[k] ELSE tail[k - i]
  <2>1. front \in Seq(S) /\ tail \in Seq(S)
    BY <1>3, <1>4
  <2>2. /\ front \o tail \in Seq(S)
        /\ Len(front \o tail) = Len(front) + Len(tail)
        /\ \A k \in 1..(Len(front) + Len(tail)) :
             (front \o tail)[k] = IF k <= Len(front) THEN front[k] ELSE tail[k - Len(front)]
    BY <2>1, ConcatProperties
  <2> QED BY <1>3, <1>4, <2>2
<1>7. i + (N - i + 1) = N + 1 /\ i \in 1..(N + 1)
  BY <1>1
<1>8. (front \o tail)[i] = e
  BY <1>1, <1>4, <1>6, <1>7
<1>9. ASSUME NEW n \in 1..(i - 1) PROVE (front \o tail)[n] = s[n]
  <2>1. n \in 1..(N + 1) /\ n <= i
    BY <1>1
  <2> QED BY <1>4, <1>6, <1>7, <2>1
<1>10. ASSUME NEW n \in (i + 1)..(N + 1) PROVE (front \o tail)[n] = s[n - 1]
  <2>1. /\ n \in 1..(N + 1) /\ ~(n <= i)
        /\ n - i \in 1..(N - i + 1) /\ i + (n - i) - 1 = n - 1
    BY <1>1
  <2>2. (front \o tail)[n] = tail[n - i]
    BY <1>6, <1>7, <2>1
  <2> QED BY <1>3, <2>1, <2>2
<1> QED BY <1>5, <1>6, <1>7, <1>8, <1>9, <1>10 DEF N
-----------------------------------------------------------------------------
(* list goes through the lists that arise when the elements of inserts are *)
(* inserted one after the other, each at its recorded index.               *)
Grows(S, list, inserts) ==
  /\ list[0] \in Seq(S)
  /\ \A p \in 1..Len(inserts) :
       /\ inserts[p].id \in S
       /\ inserts[p].index \in 0..(Len(list[0]) + p - 1)
       /\ list[p] = InsertElement(list[p - 1], inserts[p].index, inserts[p].id)

(* Where the k-th element stands when one is inserted at the index         *)
Place(index, k) == IF k <= index THEN k ELSE k + 1

(* What each insertion does                                                *)
Growth(S, list, inserts) ==
  /\ \A p \in 0..Len(inserts) :
       list[p] \in Seq(S) /\ Len(list[p]) = Len(list[0]) + p
  /\ \A p \in 1..Len(inserts) :
       /\ inserts[p].index \in 0..Len(list[p - 1])
       /\ list[p][inserts[p].index + 1] = inserts[p].id
       /\ \A k \in 1..Len(list[p - 1]) :
            list[p][Place(inserts[p].index, k)] = list[p - 1][k]

LEMMA GrowsFacts ==
  ASSUME NEW S, NEW list, NEW R, NEW inserts \in Seq(R), Grows(S, list, inserts)
  PROVE  Growth(S, list, inserts)
PROOF
<1> SUFFICES /\ \A p \in 0..Len(inserts) :
                  list[p] \in Seq(S) /\ Len(list[p]) = Len(list[0]) + p
             /\ \A p \in 1..Len(inserts) :
                  /\ inserts[p].index \in 0..Len(list[p - 1])
                  /\ list[p][inserts[p].index + 1] = inserts[p].id
                  /\ \A k \in 1..Len(list[p - 1]) :
                       list[p][Place(inserts[p].index, k)] = list[p - 1][k]
  BY DEF Growth
<1>1. PICK m \in Nat : m = Len(inserts)
  OBVIOUS
<1> DEFINE T == {p \in 0..m : list[p] \in Seq(S) /\ Len(list[p]) = Len(list[0]) + p}
<1>2. ASSUME NEW p \in 1..m, p - 1 \in T
      PROVE  /\ p \in T
             /\ inserts[p].index \in 0..Len(list[p - 1])
             /\ list[p][inserts[p].index + 1] = inserts[p].id
             /\ \A k \in 1..Len(list[p - 1]) :
                  list[p][Place(inserts[p].index, k)] = list[p - 1][k]
  <2>1. PICK l, n, x, i : l = list[p - 1] /\ n = list[p] /\ x = inserts[p].id /\ i = inserts[p].index
    OBVIOUS
  <2>2. PICK N : N = Len(list[0])
    OBVIOUS
  <2>3. l \in Seq(S) /\ Len(l) = N + (p - 1)
    BY <1>2, <2>1, <2>2
  <2>4. x \in S /\ i \in 0..(N + p - 1) /\ n = InsertElement(l, i, x) /\ N \in Nat
    BY <1>1, <2>1, <2>2 DEF Grows
  <2>5. i \in 0..Len(l) /\ i + 1 \in 1..(Len(l) + 1)
    BY <2>3, <2>4
  <2>6. n = InsertAt(l, i + 1, x)
    BY <2>4 DEF InsertElement
  <2>7. PICK j \in 1..(Len(l) + 1) : j = i + 1
    BY <2>5
  <2>8. /\ n \in Seq(S) /\ Len(n) = Len(l) + 1 /\ n[j] = x
        /\ \A k \in 1..(j - 1) : n[k] = l[k]
        /\ \A k \in (j + 1)..(Len(l) + 1) : n[k] = l[k - 1]
    <3>1. x \in S /\ l \in Seq(S)
      BY <2>3, <2>4
    <3>2. /\ InsertAt(l, j, x) \in Seq(S)
          /\ Len(InsertAt(l, j, x)) = Len(l) + 1
          /\ InsertAt(l, j, x)[j] = x
          /\ \A k \in 1..(j - 1) : InsertAt(l, j, x)[k] = l[k]
          /\ \A k \in (j + 1)..(Len(l) + 1) : InsertAt(l, j, x)[k] = l[k - 1]
      BY <3>1, InsertAtFacts
    <3>3. n = InsertAt(l, j, x)
      BY <2>6, <2>7
    <3> QED BY <3>2, <3>3
  <2>9. ASSUME NEW k \in 1..Len(l) PROVE n[Place(i, k)] = l[k]
    <3>1. CASE k <= i
      <4>1. k \in 1..(j - 1)
        BY <2>5, <2>7, <3>1
      <4> QED BY <2>8, <3>1, <4>1 DEF Place
    <3>2. CASE ~(k <= i)
      <4>1. k + 1 \in (j + 1)..(Len(l) + 1) /\ (k + 1) - 1 = k
        BY <2>3, <2>5, <2>7, <3>2
      <4>2. n[k + 1] = l[k]
        BY <2>8, <4>1
      <4>3. Place(i, k) = k + 1
        BY <3>2 DEF Place
      <4> QED BY <4>2, <4>3
    <3> QED BY <3>1, <3>2
  <2>10. n \in Seq(S) /\ Len(n) = N + p
    BY <2>3, <2>4, <2>8
  <2>11. p \in T
    BY <2>1, <2>2, <2>10
  <2> QED BY <2>1, <2>5, <2>7, <2>8, <2>9, <2>11
<1>3. 0 \in T
  BY DEF Grows
<1>4. \A n \in 0..(m - 1) : n \in T => n + 1 \in T
  <2> SUFFICES ASSUME NEW n \in 0..(m - 1), n \in T PROVE n + 1 \in T
    OBVIOUS
  <2>1. n + 1 \in 1..m /\ (n + 1) - 1 = n
    OBVIOUS
  <2> HIDE DEF T
  <2> QED BY <1>2, <2>1
<1> HIDE DEF T
<1>5. 0..m \subseteq T
  BY <1>3, <1>4, Induction
<1>6. \A p \in 1..m : p - 1 \in T
  <2>1. \A p \in 1..m : p - 1 \in 0..m
    OBVIOUS
  <2> QED BY <1>5, <2>1
<1>7. \A p \in 0..m : list[p] \in Seq(S) /\ Len(list[p]) = Len(list[0]) + p
  BY <1>5 DEF T
<1> QED BY <1>1, <1>2, <1>6, <1>7

Straight(m) == [p \in 1..m |-> p]

(* Each element is ready when those before it are in the list, so that the *)
(* plan takes them in their order.                                         *)
LEMMA StraightOrder ==
  ASSUME NEW S, NEW list, NEW R, NEW inserts \in Seq(R), Grows(S, list, inserts)
  PROVE  InsertionOrder(list[0], inserts) = Straight(Len(inserts))
PROOF
<1>1. PICK m \in Nat : m = Len(inserts) /\ DOMAIN inserts = 1..m
  OBVIOUS
<1> DEFINE ready(done) == Ready(list[0], inserts, done)
<1> DEFINE next(done) == IF ready(done) = {} THEN done
                         ELSE Append(done, NextPosition(ready(done), done))
<1>2. ASSUME NEW n \in 1..m PROVE next(Straight(n - 1)) = Straight(n)
  <2>1. PICK done : done = Straight(n - 1)
    OBVIOUS
  <2>2. /\ done \in Seq(1..m) /\ Len(done) = n - 1 /\ ToSet(done) = 1..(n - 1)
        /\ n # 1 => done # <<>> /\ Last(done) = n - 1
        /\ n = 1 => done = <<>>
    <3>1. done = [p \in 1..(n - 1) |-> p] /\ n - 1 \in Nat /\ n - 1 <= m
      BY <2>1 DEF Straight
    <3>2. done \in Seq(1..m) /\ Len(done) = n - 1 /\ DOMAIN done = 1..(n - 1)
      BY <3>1
    <3>3. ToSet(done) = 1..(n - 1)
      BY <3>1 DEF ToSet
    <3>4. ASSUME n # 1 PROVE done # <<>> /\ Last(done) = n - 1
      BY <3>1, <3>2, <3>4 DEF Last
    <3>5. ASSUME n = 1 PROVE done = <<>>
      BY <3>2, <3>5
    <3> QED BY <3>2, <3>3, <3>4, <3>5
  <2>3. inserts[n].index <= Len(list[0]) + Len(done)
    <3>1. Len(list[0]) \in Nat /\ inserts[n].index \in 0..(Len(list[0]) + n - 1)
      BY <1>1 DEF Grows
    <3> QED BY <2>2, <3>1
  <2>4. PICK rd : rd = ready(done)
    OBVIOUS
  <2>5. n \in rd /\ rd \subseteq 1..m /\ \A p \in rd : p >= n
    <3>1. rd = {p \in (1..m) \ (1..(n - 1)) : inserts[p].index <= Len(list[0]) + Len(done)}
      BY <1>1, <2>2, <2>4 DEF Ready
    <3> QED BY <2>3, <3>1
  <2>6. \A set : n \in set /\ set \subseteq rd => Min(set) = n
    <3> SUFFICES ASSUME NEW set, n \in set, set \subseteq rd PROVE Min(set) = n
      OBVIOUS
    <3>1. \A p \in set : n <= p
      BY <2>5
    <3>2. \A x \in set : (\A p \in set : x <= p) => x = n
      BY <2>5, <3>1
    <3> QED BY <3>1, <3>2 DEF Min
  <2>7. NextPosition(rd, done) = n
    <3> DEFINE after == {p \in rd : done # <<>> /\ p > Last(done)}
    <3>1. NextPosition(rd, done) = Min(IF after # {} THEN after ELSE rd)
      BY DEF NextPosition
    <3>2. CASE n = 1
      <4>1. after = {}
        BY <2>2, <3>2
      <4> QED BY <2>5, <2>6, <3>1, <4>1
    <3>3. CASE n # 1
      <4>1. n \in after /\ after \subseteq rd
        BY <2>2, <2>5, <3>3
      <4> HIDE DEF after
      <4> QED BY <2>6, <3>1, <4>1
    <3> QED BY <3>2, <3>3
  <2>8. next(done) = Append(done, n)
    BY <2>4, <2>5, <2>7
  <2>9. Append(done, n) = Straight(n)
    <3>1. PICK a : a = Append(done, n)
      OBVIOUS
    <3>2. /\ a \in Seq(1..m) /\ Len(a) = n /\ DOMAIN a = 1..n /\ a[n] = n
          /\ \A k \in 1..(n - 1) : a[k] = done[k]
      BY <2>2, <3>1
    <3>3. \A k \in 1..(n - 1) : done[k] = k
      BY <2>1 DEF Straight
    <3>4. \A k \in 1..n : k = n \/ k \in 1..(n - 1)
      OBVIOUS
    <3>5. \A k \in 1..n : a[k] = k
      BY <3>2, <3>3, <3>4
    <3>6. a = [k \in 1..n |-> a[k]]
      BY <3>2
    <3> QED BY <3>1, <3>5, <3>6 DEF Straight
  <2> QED BY <2>1, <2>8, <2>9
<1> HIDE DEF next
<1> DEFINE Solves(o) == o = [n \in 0..m |-> IF n = 0 THEN <<>> ELSE next(o[n - 1])]
<1>3. InsertionOrder(list[0], inserts) = (CHOOSE o : Solves(o))[m]
  BY <1>1, ZenonT(30) DEF InsertionOrder, next
<1> DEFINE o == [n \in 0..m |-> Straight(n)]
<1> DEFINE c == CHOOSE f : Solves(f)
<1>4. Solves(o)
  <2>1. ASSUME NEW n \in 0..m PROVE Straight(n) = IF n = 0 THEN <<>> ELSE next(o[n - 1])
    <3>1. CASE n = 0
      <4>1. Straight(0) = <<>>
        BY DEF Straight
      <4> QED BY <3>1, <4>1
    <3>2. CASE n # 0
      <4>1. n \in 1..m /\ n - 1 \in 0..m
        BY <3>2
      <4> QED BY <1>2, <3>2, <4>1
    <3> QED BY <3>1, <3>2
  <2>2. o = [n \in 0..m |-> IF n = 0 THEN <<>> ELSE next(o[n - 1])]
    BY <2>1, Zenon
  <2> QED BY <2>2
<1>5. Solves(c)
  BY <1>4
<1> HIDE DEF c
<1> DEFINE T == {n \in 0..m : c[n] = Straight(n)}
<1>6. 0 \in T
  <2>1. c[0] = <<>> /\ 0 \in 0..m
    BY <1>5
  <2> QED BY <2>1 DEF Straight
<1>7. \A n \in 0..(m - 1) : n \in T => n + 1 \in T
  <2> SUFFICES ASSUME NEW n \in 0..(m - 1), n \in T PROVE n + 1 \in T
    OBVIOUS
  <2>1. n + 1 \in 1..m /\ (n + 1) - 1 = n /\ n + 1 \in 0..m /\ n + 1 # 0
    OBVIOUS
  <2>2. c[n + 1] = next(c[n])
    BY <1>5, <2>1
  <2>3. next(Straight(n)) = Straight(n + 1)
    BY <1>2, <2>1
  <2> QED BY <2>1, <2>2, <2>3
<1> HIDE DEF T
<1>8. 0..m \subseteq T
  BY <1>6, <1>7, Induction
<1>9. m \in T
  BY <1>8
<1> QED BY <1>1, <1>3, <1>9 DEF T, c

(* f goes through the first n free slots of N, from the first to the last; *)
(* there are no others.                                                    *)
Enumerates(f, taken, n, N) ==
  /\ f \in [1..n -> 1..N]
  /\ \A j, k \in 1..n : j < k => f[j] < f[k]
  /\ \A j \in 1..N : (\A p \in DOMAIN taken : taken[p] # j) <=> (\E k \in 1..n : f[k] = j)

(* The k-th of them is the one that has k free slots up to it.             *)
LEMMA FreeRank ==
  ASSUME NEW n \in Nat, NEW N \in Nat, NEW f, NEW taken, Enumerates(f, taken, n, N)
  PROVE  \A k \in 1..n : /\ Cardinality(FreeUpTo(taken, f[k])) = k
                         /\ FreeSlot(taken, N, k - 1) = f[k]
PROOF
<1>1. /\ \A k \in 1..n : f[k] \in 1..N
      /\ \A j, k \in 1..n : j < k => f[j] < f[k]
      /\ \A j \in 1..N : (\A p \in DOMAIN taken : taken[p] # j) <=> (\E k \in 1..n : f[k] = j)
  BY DEF Enumerates
<1>2. ASSUME NEW k \in 1..n PROVE Cardinality(FreeUpTo(taken, f[k])) = k
  <2> DEFINE U == FreeUpTo(taken, f[k])
  <2> DEFINE b == [j \in 1..k |-> f[j]]
  <2>1. \A j \in 1..k : j \in 1..n /\ f[j] \in 1..f[k] /\ f[j] \in 1..N
    <3> SUFFICES ASSUME NEW j \in 1..k PROVE j \in 1..n /\ f[j] \in 1..f[k] /\ f[j] \in 1..N
      OBVIOUS
    <3>1. j \in 1..n /\ f[j] \in 1..N /\ f[k] \in 1..N /\ (j = k \/ j < k)
      BY <1>1
    <3>2. f[j] <= f[k]
      BY <1>1, <3>1
    <3> QED BY <3>1, <3>2
  <2>2. \A j \in 1..k : f[j] \in U
    BY <1>1, <2>1 DEF FreeUpTo
  <2>3. \A s \in U : \E j \in 1..k : f[j] = s
    <3> SUFFICES ASSUME NEW s \in U PROVE \E j \in 1..k : f[j] = s
      OBVIOUS
    <3>1. s \in 1..f[k] /\ \A p \in DOMAIN taken : taken[p] # s
      BY DEF FreeUpTo
    <3>2. s \in 1..N /\ f[k] \in 1..N
      BY <1>1, <3>1
    <3>3. PICK j \in 1..n : f[j] = s
      BY <1>1, <3>1, <3>2
    <3>4. ~(k < j)
      BY <1>1, <3>1, <3>2, <3>3
    <3>5. j \in 1..k
      BY <3>4
    <3> QED BY <3>3, <3>5
  <2>4. \A j, l \in 1..k : f[j] = f[l] => j = l
    <3> SUFFICES ASSUME NEW j \in 1..k, NEW l \in 1..k, f[j] = f[l], j # l PROVE FALSE
      OBVIOUS
    <3>1. j < l \/ l < j
      OBVIOUS
    <3>2. f[j] \in 1..N /\ j \in 1..n /\ l \in 1..n
      BY <2>1
    <3> QED BY <1>1, <3>1, <3>2
  <2>5. b \in [1..k -> U] /\ \A j \in 1..k : b[j] = f[j]
    BY <2>2
  <2> HIDE DEF b, U
  <2>6. b \in Bijection(1..k, U)
    <3>1. IsInjective(b)
      BY <2>4, <2>5 DEF IsInjective
    <3>2. \A s \in U : \E j \in 1..k : b[j] = s
      BY <2>3, <2>5
    <3> QED BY <2>5, <3>1, <3>2 DEF Bijection, Injection, Surjection
  <2>7. IsFiniteSet(1..k) /\ Cardinality(1..k) = k
    BY FS_Interval
  <2>8. Cardinality(U) = Cardinality(1..k)
    BY <2>6, <2>7, FS_Bijection DEF ExistsBijection
  <2> QED BY <2>7, <2>8 DEF U
<1>3. ASSUME NEW k \in 1..n PROVE FreeSlot(taken, N, k - 1) = f[k]
  <2>1. f[k] \in FreeUpTo(taken, N)
    BY <1>1 DEF FreeUpTo
  <2>2. ASSUME NEW s \in FreeUpTo(taken, N), Cardinality(FreeUpTo(taken, s)) = k PROVE s = f[k]
    <3>1. s \in 1..N /\ \A p \in DOMAIN taken : taken[p] # s
      BY DEF FreeUpTo
    <3>2. PICK j \in 1..n : f[j] = s
      BY <1>1, <3>1
    <3>3. j = k
      BY <1>2, <2>2, <3>2
    <3> QED BY <3>2, <3>3
  <2>3. FreeSlot(taken, N, k - 1)
          = CHOOSE s \in FreeUpTo(taken, N) : Cardinality(FreeUpTo(taken, s)) = k
    <3>1. (k - 1) + 1 = k
      OBVIOUS
    <3> QED BY <3>1 DEF FreeSlot
  <2> QED BY <1>2, <2>1, <2>2, <2>3
<1> QED BY <1>2, <1>3

(* The others, when the slot at index i, from 0, has been taken            *)
Others(f, i, n) == [k \in 1..n |-> f[Place(i, k)]]

(* u and h are t and f after the position p has taken the slot at index i. *)
SlotStep(f, t, i, p, u, h, n, N) ==
  /\ Enumerates(h, u, n, N)
  /\ DOMAIN u = DOMAIN t \cup {p}
  /\ u[p] = f[i + 1] /\ f[i + 1] \in 1..N
  /\ \A q \in DOMAIN t : u[q] = t[q] /\ t[q] # f[i + 1]

(* A slot is taken.                                                        *)
LEMMA SlotTaken ==
  ASSUME NEW n \in Nat, NEW N \in Nat, NEW f, NEW t, Enumerates(f, t, n + 1, N),
         NEW i \in 0..n, NEW p, p \notin DOMAIN t,
         NEW u, u = Taking(t, p, f[i + 1]), NEW h, h = Others(f, i, n)
  PROVE  SlotStep(f, t, i, p, u, h, n, N)
PROOF
<1>1. /\ \A k \in 1..(n + 1) : f[k] \in 1..N
      /\ \A j, k \in 1..(n + 1) : j < k => f[j] < f[k]
      /\ \A j \in 1..N : (\A q \in DOMAIN t : t[q] # j) <=> (\E k \in 1..(n + 1) : f[k] = j)
  BY DEF Enumerates
<1>2. PICK s : s = f[i + 1]
  OBVIOUS
<1>3. i + 1 \in 1..(n + 1) /\ s \in 1..N
  BY <1>1, <1>2
<1>4. /\ DOMAIN u = DOMAIN t \cup {p} /\ u[p] = s
      /\ \A q \in DOMAIN t : u[q] = t[q]
  BY <1>2 DEF Taking
<1>5. \A q \in DOMAIN t : t[q] # s
  BY <1>1, <1>2, <1>3
<1>6. \A k \in 1..n : Place(i, k) \in 1..(n + 1) /\ Place(i, k) # i + 1 /\ h[k] = f[Place(i, k)]
  BY DEF Place, Others
<1>7. h \in [1..n -> 1..N]
  BY <1>1, <1>6 DEF Others
<1>8. \A j, k \in 1..n : j < k => h[j] < h[k]
  <2> SUFFICES ASSUME NEW j \in 1..n, NEW k \in 1..n, j < k PROVE h[j] < h[k]
    OBVIOUS
  <2>1. Place(i, j) < Place(i, k)
    BY DEF Place
  <2> QED BY <1>1, <1>6, <2>1
<1>9. ASSUME NEW j \in 1..N
      PROVE  (\A q \in DOMAIN u : u[q] # j) <=> (\E k \in 1..n : h[k] = j)
  <2>1. ASSUME \A q \in DOMAIN u : u[q] # j PROVE \E k \in 1..n : h[k] = j
    <3>1. (\A q \in DOMAIN t : t[q] # j) /\ j # s
      BY <1>4, <2>1
    <3>2. PICK l \in 1..(n + 1) : f[l] = j
      BY <1>1, <3>1
    <3>3. l # i + 1
      BY <1>2, <3>1, <3>2
    <3>4. \E k \in 1..n : Place(i, k) = l
      <4>1. CASE l <= i
        <5>1. l \in 1..n /\ Place(i, l) = l
          BY <4>1 DEF Place
        <5> QED BY <5>1
      <4>2. CASE ~(l <= i)
        <5>1. l - 1 \in 1..n /\ ~(l - 1 <= i) /\ (l - 1) + 1 = l
          BY <3>3, <4>2
        <5>2. Place(i, l - 1) = l
          BY <5>1 DEF Place
        <5> QED BY <5>1, <5>2
      <4> QED BY <4>1, <4>2
    <3> QED BY <1>6, <3>2, <3>4
  <2>2. ASSUME NEW k \in 1..n, h[k] = j PROVE \A q \in DOMAIN u : u[q] # j
    <3>1. PICK l : l = Place(i, k)
      OBVIOUS
    <3>2. l \in 1..(n + 1) /\ l # i + 1 /\ f[l] = j
      BY <1>6, <2>2, <3>1
    <3>3. \A q \in DOMAIN t : t[q] # j
      BY <1>1, <3>2
    <3>4. s # j
      <4>1. l < i + 1 \/ i + 1 < l
        BY <3>2
      <4> QED BY <1>1, <1>2, <1>3, <3>2, <4>1
    <3> QED BY <1>4, <3>3, <3>4
  <2> QED BY <2>1, <2>2
<1>10. Enumerates(h, u, n, N)
  BY <1>7, <1>8, <1>9 DEF Enumerates
<1> QED BY <1>2, <1>3, <1>4, <1>5, <1>10 DEF SlotStep

(* The slots taken are those of the inserted elements in the list l, and   *)
(* the others those of the elements of rest.                               *)
Settles(S, l, rest, inserts, taken, f, first, m) ==
  /\ DOMAIN taken = first..m
  /\ Enumerates(f, taken, Len(rest), Len(l))
  /\ \A k \in 1..Len(rest) : l[f[k]] = rest[k]
  /\ \A p \in first..m : taken[p] \in 1..Len(l) /\ l[taken[p]] = inserts[p].id
  /\ \A p, q \in first..m : taken[p] = taken[q] => p = q

(* Taken from the last insertion to the first, the slots are those that    *)
(* the elements come to stand in.                                          *)
LEMMA StraightSlots ==
  ASSUME NEW S, NEW list, NEW R, NEW inserts \in Seq(R), Grows(S, list, inserts)
  PROVE  \E f : Settles(S, list[Len(inserts)], list[0], inserts,
                       TakenSlots(list[0], inserts, Straight(Len(inserts))), f, 1, Len(inserts))
PROOF
<1>1. PICK m \in Nat : m = Len(inserts)
  OBVIOUS
<1>2. PICK N : N = Len(list[0]) + m
  OBVIOUS
<1>3. PICK l : l = list[m]
  OBVIOUS
<1>4. /\ \A p \in 0..m : list[p] \in Seq(S) /\ Len(list[p]) = Len(list[0]) + p
      /\ \A p \in 1..m : /\ inserts[p].index \in 0..Len(list[p - 1])
                         /\ list[p][inserts[p].index + 1] = inserts[p].id
                         /\ \A k \in 1..Len(list[p - 1]) :
                              list[p][Place(inserts[p].index, k)] = list[p - 1][k]
  <2>0. Growth(S, list, inserts)
    BY GrowsFacts
  <2>1. \A p \in 0..m : list[p] \in Seq(S) /\ Len(list[p]) = Len(list[0]) + p
    BY <1>1, <2>0 DEF Growth
  <2>2. \A p \in 1..m : /\ inserts[p].index \in 0..Len(list[p - 1])
                       /\ list[p][inserts[p].index + 1] = inserts[p].id
                       /\ \A k \in 1..Len(list[p - 1]) :
                            list[p][Place(inserts[p].index, k)] = list[p - 1][k]
    BY <1>1, <2>0 DEF Growth
  <2> QED BY <2>1, <2>2
<1>5. Len(list[0]) \in Nat /\ Len(l) = N /\ N \in Nat
  <2>1. 0 \in 0..m /\ m \in 0..m
    OBVIOUS
  <2>2. list[0] \in Seq(S) /\ Len(list[m]) = Len(list[0]) + m
    BY <1>4, <2>1
  <2> QED BY <1>2, <1>3, <2>2
<1> DEFINE next(t, p) == Taking(t, p, FreeSlot(t, N, inserts[p].index))
<1> DEFINE Solves(u) == u = [n \in 0..m |-> IF n = 0 THEN << >> ELSE next(u[n - 1], m - n + 1)]
<1> DEFINE c == CHOOSE u : Solves(u)
<1>6. TakenSlots(list[0], inserts, Straight(m)) = c[m]
  <2>1. PICK o : o = Straight(m)
    OBVIOUS
  <2>2. Len(o) = m /\ \A n \in 0..m : n = 0 \/ o[m - n + 1] = m - n + 1
    <3>1. o = [p \in 1..m |-> p]
      BY <2>1 DEF Straight
    <3>2. Len(o) = m
      BY <3>1
    <3>3. \A n \in 0..m : n = 0 \/ m - n + 1 \in 1..m
      OBVIOUS
    <3> QED BY <3>1, <3>2, <3>3
  <2> DEFINE Other(u) == u = [n \in 0..m |-> IF n = 0 THEN << >> ELSE next(u[n - 1], o[m - n + 1])]
  <2>3. TakenSlots(list[0], inserts, o) = (CHOOSE u : Other(u))[m]
    BY <1>1, <1>2, <2>2, ZenonT(30) DEF TakenSlots, next
  <2> HIDE DEF next
  <2>4. ASSUME NEW u PROVE Other(u) <=> Solves(u)
    <3>1. \A n \in 0..m : (IF n = 0 THEN << >> ELSE next(u[n - 1], o[m - n + 1]))
                             = IF n = 0 THEN << >> ELSE next(u[n - 1], m - n + 1)
      BY <2>2
    <3> QED BY <3>1
  <2> HIDE DEF Other, Solves
  <2>5. (CHOOSE u : Other(u)) = (CHOOSE u : Solves(u))
    BY <2>4
  <2> QED BY <2>1, <2>3, <2>5
<1> HIDE DEF next
<1>7. Solves(c)
  <2> DEFINE Upto(u, n) == /\ u = [j \in 0..n |-> u[j]] /\ u[0] = << >>
                           /\ \A j \in 1..n : u[j] = next(u[j - 1], m - j + 1)
  <2> DEFINE T == {n \in 0..m : \E u : Upto(u, n)}
  <2>1. 0 \in T
    <3> DEFINE u == [j \in 0..0 |-> << >>]
    <3>1. u = [j \in 0..0 |-> u[j]] /\ u[0] = << >> /\ 1..0 = {}
      OBVIOUS
    <3> HIDE DEF u
    <3>2. Upto(u, 0)
      BY <3>1
    <3> HIDE DEF Upto
    <3> QED BY <3>2
  <2>2. \A n \in 0..(m - 1) : n \in T => n + 1 \in T
    <3> SUFFICES ASSUME NEW n \in 0..(m - 1), n \in T PROVE n + 1 \in T
      OBVIOUS
    <3>1. PICK u : Upto(u, n)
      OBVIOUS
    <3> DEFINE v == [j \in 0..(n + 1) |-> IF j = n + 1 THEN next(u[n], m - (n + 1) + 1) ELSE u[j]]
    <3>2. /\ v = [j \in 0..(n + 1) |-> v[j]]
          /\ v[n + 1] = next(u[n], m - (n + 1) + 1) /\ \A j \in 0..n : v[j] = u[j]
      OBVIOUS
    <3> HIDE DEF v
    <3>3. v[0] = << >>
      <4>1. 0 \in 0..n
        OBVIOUS
      <4>2. u[0] = << >>
        BY <3>1
      <4> QED BY <3>2, <4>1, <4>2
    <3>4. ASSUME NEW j \in 1..(n + 1) PROVE v[j] = next(v[j - 1], m - j + 1)
      <4>1. CASE j = n + 1
        <5>1. j - 1 = n /\ n \in 0..n
          BY <4>1
        <5> QED BY <3>2, <4>1, <5>1
      <4>2. CASE j # n + 1
        <5>1. j \in 1..n /\ j \in 0..n /\ j - 1 \in 0..n
          BY <4>2
        <5> QED BY <3>1, <3>2, <5>1
      <4> QED BY <4>1, <4>2
    <3>5. Upto(v, n + 1)
      BY <3>2, <3>3, <3>4
    <3> HIDE DEF Upto
    <3> QED BY <3>5
  <2> HIDE DEF T
  <2>3. 0..m \subseteq T
    BY <2>1, <2>2, Induction
  <2>4. PICK u : Upto(u, m)
    <3>1. m \in T
      BY <2>3
    <3>2. \E u : Upto(u, m)
      BY <3>1, Zenon DEF T
    <3> QED BY <3>2
  <2>5. ASSUME NEW n \in 0..m PROVE u[n] = IF n = 0 THEN << >> ELSE next(u[n - 1], m - n + 1)
    <3>1. n = 0 \/ n \in 1..m
      OBVIOUS
    <3> QED BY <2>4, <3>1
  <2>6. u = [n \in 0..m |-> IF n = 0 THEN << >> ELSE next(u[n - 1], m - n + 1)]
    <3>1. u = [n \in 0..m |-> u[n]]
      BY <2>4
    <3> QED BY <2>5, <3>1
  <2>7. Solves(u)
    BY <2>6
  <2> HIDE DEF Solves
  <2> QED BY <2>7
<1>8. c[0] = << >> /\ \A n \in 1..m : c[n] = next(c[n - 1], m - n + 1)
  <2> HIDE DEF c
  <2>1. \A n \in 0..m : c[n] = IF n = 0 THEN << >> ELSE next(c[n - 1], m - n + 1)
    BY <1>7
  <2> QED BY <2>1
<1> HIDE DEF c
<1> DEFINE T == {n \in 0..m : \E f : Settles(S, l, list[m - n], inserts, c[n], f, m - n + 1, m)}
<1>9. 0 \in T
  <2>1. m - 0 = m /\ (m - 0 + 1)..m = {} /\ DOMAIN c[0] = {}
    BY <1>8
  <2> DEFINE f == [k \in 1..N |-> k]
  <2>2. Enumerates(f, c[0], N, N)
    BY <2>1 DEF Enumerates
  <2>3. \A k \in 1..N : f[k] = k
    OBVIOUS
  <2> HIDE DEF f
  <2>4. Settles(S, l, l, inserts, c[0], f, m - 0 + 1, m)
    BY <1>5, <2>1, <2>2, <2>3 DEF Settles
  <2> QED BY <1>3, <2>1, <2>4
<1>10. \A n \in 0..(m - 1) : n \in T => n + 1 \in T
  <2> SUFFICES ASSUME NEW n \in 0..(m - 1), n \in T PROVE n + 1 \in T
    OBVIOUS
  <2>1. PICK f : Settles(S, l, list[m - n], inserts, c[n], f, m - n + 1, m)
    OBVIOUS
  <2>2. PICK p \in 1..m : p = m - n
    OBVIOUS
  <2>3. PICK i, t, rest, less : i = inserts[p].index /\ t = c[n] /\ rest = list[p] /\ less = list[p - 1]
    OBVIOUS
  <2>4. p \in 0..m /\ p - 1 \in 0..m /\ m - (n + 1) + 1 = p /\ m - (n + 1) = p - 1 /\ (n + 1) - 1 = n
        /\ n + 1 \in 1..m /\ n + 1 \in 0..m
    BY <2>2
  <2>5. PICK k0 \in Nat : k0 = Len(less) /\ Len(rest) = k0 + 1
    <3>1. Len(less) = Len(list[0]) + (p - 1) /\ Len(rest) = Len(list[0]) + p
      BY <1>4, <2>3, <2>4
    <3>2. Len(less) \in Nat /\ Len(rest) = Len(less) + 1
      BY <1>5, <2>4, <3>1
    <3> QED BY <3>2
  <2>6. /\ i \in 0..k0 /\ rest[i + 1] = inserts[p].id
        /\ \A k \in 1..k0 : rest[Place(i, k)] = less[k]
    BY <1>4, <2>3, <2>5
  <2>7. /\ DOMAIN t = (p + 1)..m
        /\ Enumerates(f, t, k0 + 1, N)
        /\ \A k \in 1..(k0 + 1) : l[f[k]] = rest[k]
        /\ \A q \in (p + 1)..m : t[q] \in 1..N /\ l[t[q]] = inserts[q].id
        /\ \A q, r \in (p + 1)..m : t[q] = t[r] => q = r
    BY <1>5, <2>1, <2>2, <2>3, <2>5 DEF Settles
  <2>8. FreeSlot(t, N, i) = f[i + 1]
    <3>1. i + 1 \in 1..(k0 + 1) /\ (i + 1) - 1 = i /\ k0 + 1 \in Nat
      BY <2>6
    <3>2. FreeSlot(t, N, (i + 1) - 1) = f[i + 1]
      BY <1>5, <2>7, <3>1, FreeRank
    <3> QED BY <3>1, <3>2
  <2>9. PICK u : u = Taking(t, p, f[i + 1])
    OBVIOUS
  <2>10. c[n + 1] = u
    <3>1. c[n + 1] = next(t, p)
      BY <1>8, <2>3, <2>4
    <3> QED BY <2>3, <2>8, <2>9, <3>1 DEF next
  <2>11. PICK h : h = Others(f, i, k0)
    OBVIOUS
  <2>12. /\ Enumerates(h, u, k0, N)
         /\ DOMAIN u = DOMAIN t \cup {p}
         /\ u[p] = f[i + 1] /\ f[i + 1] \in 1..N
         /\ \A q \in DOMAIN t : u[q] = t[q] /\ t[q] # f[i + 1]
    <3>1. p \notin DOMAIN t /\ k0 \in Nat /\ N \in Nat /\ Enumerates(f, t, k0 + 1, N) /\ i \in 0..k0
      BY <1>5, <2>6, <2>7
    <3> HIDE DEF T
    <3>2. SlotStep(f, t, i, p, u, h, k0, N)
      BY <2>9, <2>11, <3>1, SlotTaken
    <3> QED BY <3>2 DEF SlotStep
  <2>13. DOMAIN u = p..m /\ \A q \in p..m : q = p \/ q \in (p + 1)..m
    BY <2>7, <2>12
  <2>14. ASSUME NEW k \in 1..k0 PROVE l[h[k]] = less[k]
    <3>1. Place(i, k) \in 1..(k0 + 1)
      BY <2>6 DEF Place
    <3>2. h[k] = f[Place(i, k)]
      BY <2>11 DEF Others
    <3> QED BY <2>6, <2>7, <3>1, <3>2
  <2>15. ASSUME NEW q \in p..m PROVE u[q] \in 1..N /\ l[u[q]] = inserts[q].id
    <3>1. CASE q = p
      <4>1. i + 1 \in 1..(k0 + 1)
        BY <2>6
      <4> QED BY <2>6, <2>7, <2>12, <3>1, <4>1
    <3>2. CASE q \in (p + 1)..m
      BY <2>7, <2>12, <3>2
    <3> QED BY <2>13, <3>1, <3>2
  <2>16. ASSUME NEW q \in p..m, NEW r \in p..m, u[q] = u[r] PROVE q = r
    <3>1. CASE q = p /\ r # p
      <4>1. r \in DOMAIN t
        BY <2>7, <2>13, <3>1
      <4> QED BY <2>12, <2>16, <3>1, <4>1
    <3>2. CASE q # p /\ r = p
      <4>1. q \in DOMAIN t
        BY <2>7, <2>13, <3>2
      <4> QED BY <2>12, <2>16, <3>2, <4>1
    <3>3. CASE q # p /\ r # p
      <4>1. q \in (p + 1)..m /\ r \in (p + 1)..m
        BY <2>13, <3>3
      <4>2. u[q] = t[q] /\ u[r] = t[r]
        BY <2>7, <2>12, <4>1
      <4> QED BY <2>7, <2>16, <4>1, <4>2
    <3> QED BY <3>1, <3>2, <3>3
  <2>17. Settles(S, l, less, inserts, u, h, p, m)
    BY <1>5, <2>5, <2>12, <2>13, <2>14, <2>15, <2>16 DEF Settles
  <2> QED BY <2>3, <2>4, <2>10, <2>17
<1> HIDE DEF T
<1>11. 0..m \subseteq T
  BY <1>9, <1>10, Induction
<1>12. m \in T /\ m - m = 0 /\ m - m + 1 = 1
  BY <1>11
<1>13. \E f : Settles(S, l, list[0], inserts, c[m], f, 1, m)
  BY <1>12 DEF T
<1> QED BY <1>1, <1>3, <1>6, <1>13
(* The plan that takes the elements in their order is the list they grow.  *)
LEMMA StraightPlacement ==
  ASSUME NEW S, NEW list, NEW R, NEW inserts \in Seq(R), Grows(S, list, inserts)
  PROVE  SlotPlacement(list[0], inserts, TakenSlots(list[0], inserts, Straight(Len(inserts))))
           = list[Len(inserts)]
PROOF
<1>1. PICK m \in Nat : m = Len(inserts)
  OBVIOUS
<1>2. PICK t, l, rest : /\ t = TakenSlots(list[0], inserts, Straight(m))
                        /\ l = list[m] /\ rest = list[0]
  OBVIOUS
<1>3. PICK f : Settles(S, l, rest, inserts, t, f, 1, m)
  BY <1>1, <1>2, StraightSlots
<1>4. l \in Seq(S) /\ rest \in Seq(S) /\ Len(l) = Len(rest) + m
  <2>0. Growth(S, list, inserts)
    BY GrowsFacts
  <2>1. \A p \in 0..m : list[p] \in Seq(S) /\ Len(list[p]) = Len(list[0]) + p
    BY <1>1, <2>0 DEF Growth
  <2>2. 0 \in 0..m /\ m \in 0..m
    OBVIOUS
  <2> QED BY <1>2, <2>1, <2>2
<1>5. PICK N \in Nat : N = Len(l) /\ N = Len(rest) + Len(inserts)
  BY <1>1, <1>4
<1>6. PICK n \in Nat : n = Len(rest)
  BY <1>4
<1>7. /\ DOMAIN t = 1..m
      /\ Enumerates(f, t, n, N)
      /\ \A k \in 1..n : l[f[k]] = rest[k]
      /\ \A p \in 1..m : l[t[p]] = inserts[p].id
  BY <1>3, <1>5, <1>6 DEF Settles
<1>8. ASSUME NEW k \in 1..N
      PROVE  l[k] = IF \E p \in DOMAIN t : t[p] = k
                      THEN inserts[CHOOSE p \in DOMAIN t : t[p] = k].id
                      ELSE rest[Cardinality(FreeUpTo(t, k))]
  <2>1. CASE \E p \in DOMAIN t : t[p] = k
    <3>1. PICK p : p = CHOOSE q \in DOMAIN t : t[q] = k
      OBVIOUS
    <3>2. p \in DOMAIN t /\ t[p] = k
      BY <2>1, <3>1
    <3>3. inserts[p].id = l[k]
      BY <1>7, <3>2
    <3> QED BY <2>1, <3>1, <3>3
  <2>2. CASE ~ \E p \in DOMAIN t : t[p] = k
    <3>1. PICK j \in 1..n : f[j] = k
      BY <1>7, <2>2 DEF Enumerates
    <3>2. Cardinality(FreeUpTo(t, f[j])) = j
      BY <1>7, FreeRank
    <3>3. l[k] = rest[j]
      BY <1>7, <3>1
    <3> QED BY <2>2, <3>1, <3>2, <3>3
  <2> QED BY <2>1, <2>2
<1>9. l = [k \in 1..N |-> l[k]]
  BY <1>4, <1>5
<1>10. l = [k \in 1..N |-> IF \E p \in DOMAIN t : t[p] = k
                             THEN inserts[CHOOSE p \in DOMAIN t : t[p] = k].id
                             ELSE rest[Cardinality(FreeUpTo(t, k))]]
  BY <1>8, <1>9, Zenon
<1>11. SlotPlacement(rest, inserts, t) = l
  BY <1>5, <1>10, Zenon DEF SlotPlacement
<1> QED BY <1>1, <1>2, <1>11

(* Indexes that are the next ones of the list come one after the other.    *)
LEMMA TailIndexes ==
  ASSUME NEW S, NEW list, NEW R, NEW inserts \in Seq(R), Grows(S, list, inserts),
         ContiguousTail(list[0], inserts)
  PROVE  \A p \in 1..Len(inserts) : inserts[p].index = Len(list[0]) + p - 1
PROOF
<1>1. PICK m \in Nat : m = Len(inserts) /\ DOMAIN inserts = 1..m
  OBVIOUS
<1>2. PICK n \in Nat : n = Len(list[0])
  BY DEF Grows
<1>3. \A p \in 1..m : inserts[p].index \in 0..(n + p - 1)
  BY <1>1, <1>2 DEF Grows
<1>4. {inserts[p].index : p \in 1..m} = n..(n + m - 1)
  BY <1>1, <1>2 DEF ContiguousTail
<1> DEFINE T == {j \in 0..m : \A k \in 1..m : k > m - j => inserts[k].index = n + k - 1}
<1>5. 0 \in T
  OBVIOUS
<1>6. \A j \in 0..(m - 1) : j \in T => j + 1 \in T
  <2> SUFFICES ASSUME NEW j \in 0..(m - 1), j \in T PROVE j + 1 \in T
    OBVIOUS
  <2> DEFINE Set(q) == q > m - j => inserts[q].index = n + q - 1
  <2>0. \A q \in 1..m : Set(q)
    OBVIOUS
  <2>1. PICK k \in 1..m : k = m - j
    OBVIOUS
  <2>2. n + k - 1 \in n..(n + m - 1)
    OBVIOUS
  <2>3. PICK p \in 1..m : inserts[p].index = n + k - 1
    BY <1>4, <2>2
  <2>4. p >= k
    <3>1. PICK i : i = inserts[p].index
      OBVIOUS
    <3>2. i \in 0..(n + p - 1)
      BY <1>3, <3>1
    <3>3. i = n + k - 1
      BY <2>3, <3>1
    <3> HIDE DEF T, Set
    <3> QED BY <3>2, <3>3
  <2>5. p > m - j => inserts[p].index = n + p - 1
    <3> HIDE DEF T
    <3> QED BY <2>0
  <2>6. p = k
    <3>1. p > k => inserts[p].index = n + p - 1
      BY <2>1, <2>5
    <3> QED BY <2>3, <2>4, <3>1
  <2>7. ASSUME NEW q \in 1..m, q > m - (j + 1) PROVE inserts[q].index = n + q - 1
    <3>1. q = k \/ q > m - j
      BY <2>1, <2>7
    <3> QED BY <2>3, <2>6, <3>1
  <2>8. j + 1 \in 0..m
    OBVIOUS
  <2> QED BY <2>7, <2>8
<1> HIDE DEF T
<1>7. 0..m \subseteq T
  BY <1>5, <1>6, Induction
<1>8. m \in T
  BY <1>7
<1>9. \A k \in 1..m : k > m - m => inserts[k].index = n + k - 1
  BY <1>8 DEF T
<1>10. \A k \in 1..m : inserts[k].index = n + k - 1
  BY <1>9
<1> QED BY <1>1, <1>2, <1>10

(* Then the list grows at its end.                                         *)
LEMMA TailGrows ==
  ASSUME NEW S, NEW list, NEW R, NEW inserts \in Seq(R), Grows(S, list, inserts),
         ContiguousTail(list[0], inserts)
  PROVE  PlanGroup(list[0], inserts) = list[Len(inserts)]
PROOF
<1>1. PICK m \in Nat : m = Len(inserts) /\ DOMAIN inserts = 1..m
  OBVIOUS
<1>2. PICK n \in Nat : n = Len(list[0])
  BY DEF Grows
<1>3. \A p \in 1..m : inserts[p].index = n + p - 1
  BY <1>1, <1>2, TailIndexes
<1>0. Growth(S, list, inserts)
  BY GrowsFacts
<1>4. \A p \in 0..m : list[p] \in Seq(S) /\ Len(list[p]) = n + p
  BY <1>0, <1>1, <1>2 DEF Growth
<1>5. \A p \in 1..m : /\ list[p][inserts[p].index + 1] = inserts[p].id
                      /\ \A k \in 1..Len(list[p - 1]) :
                           list[p][Place(inserts[p].index, k)] = list[p - 1][k]
  BY <1>0, <1>1 DEF Growth
<1> DEFINE Grown(p) == /\ \A k \in 1..n : list[p][k] = list[0][k]
                      /\ \A k \in 1..p : list[p][n + k] = inserts[k].id
<1> DEFINE T == {p \in 0..m : Grown(p)}
<1>6. 0 \in T
  <2>1. 0 \in 0..m /\ 1..0 = {}
    OBVIOUS
  <2> QED BY <2>1
<1>7. \A p \in 0..(m - 1) : p \in T => p + 1 \in T
  <2> SUFFICES ASSUME NEW p \in 0..(m - 1), p \in T PROVE p + 1 \in T
    OBVIOUS
  <2>1. PICK q \in 1..m : q = p + 1
    OBVIOUS
  <2>2. PICK a, b : a = list[p] /\ b = list[q]
    OBVIOUS
  <2>3. q - 1 = p /\ p \in 0..m /\ Len(a) = n + p /\ inserts[q].index = n + p
    BY <1>3, <1>4, <2>1, <2>2
  <2>4. b[n + p + 1] = inserts[q].id /\ \A k \in 1..(n + p) : b[Place(n + p, k)] = a[k]
    BY <1>5, <2>2, <2>3
  <2>5. \A k \in 1..(n + p) : b[k] = a[k]
    BY <2>4 DEF Place
  <2>6. /\ \A k \in 1..n : a[k] = list[0][k]
        /\ \A k \in 1..p : a[n + k] = inserts[k].id
    BY <2>2
  <2>7. \A k \in 1..n : b[k] = list[0][k]
    BY <2>5, <2>6
  <2>8. \A k \in 1..q : b[n + k] = inserts[k].id
    <3> SUFFICES ASSUME NEW k \in 1..q PROVE b[n + k] = inserts[k].id
      OBVIOUS
    <3>1. k = q \/ k \in 1..p
      BY <2>1
    <3>2. n + q = n + p + 1
      BY <2>1
    <3>3. k \in 1..p => n + k \in 1..(n + p)
      OBVIOUS
    <3> QED BY <2>4, <2>5, <2>6, <3>1, <3>2, <3>3
  <2> QED BY <2>1, <2>2, <2>7, <2>8
<1> HIDE DEF T
<1>8. 0..m \subseteq T
  BY <1>6, <1>7, Induction
<1>9. m \in T
  BY <1>8
<1>10. PICK l, rest : l = list[m] /\ rest = list[0]
  OBVIOUS
<1>11. /\ l \in Seq(S) /\ Len(l) = n + m /\ rest \in Seq(S) /\ Len(rest) = n
       /\ \A k \in 1..n : l[k] = rest[k]
       /\ \A k \in 1..m : l[n + k] = inserts[k].id
  <2>1. 0 \in 0..m /\ m \in 0..m
    OBVIOUS
  <2>2. Grown(m)
    BY <1>9 DEF T
  <2> QED BY <1>2, <1>4, <1>10, <2>1, <2>2
<1> DEFINE tail == [k \in DOMAIN inserts |->
                      inserts[CHOOSE p \in DOMAIN inserts : inserts[p].index = Len(rest) + k - 1].id]
<1>12. ASSUME NEW k \in 1..m
       PROVE  inserts[CHOOSE p \in DOMAIN inserts : inserts[p].index = Len(rest) + k - 1].id
                = l[n + k]
  <2>1. \A p \in DOMAIN inserts : inserts[p].index = Len(rest) + k - 1 <=> p = k
    BY <1>1, <1>3, <1>11
  <2>2. (CHOOSE p \in DOMAIN inserts : inserts[p].index = Len(rest) + k - 1) = k
    BY <1>1, <2>1
  <2> QED BY <1>11, <2>2
<1>13. tail = [k \in 1..m |-> l[n + k]]
  BY <1>1, <1>12, Zenon
<1>14. PICK u : u = tail
  OBVIOUS
<1>15. u \in Seq(S) /\ Len(u) = m /\ \A k \in 1..m : u[k] = l[n + k]
  <2>1. \A k \in 1..m : l[n + k] \in S
    BY <1>11
  <2>2. u = [k \in 1..m |-> l[n + k]]
    BY <1>13, <1>14
  <2> HIDE DEF tail
  <2> QED BY <2>1, <2>2
<1>16. rest \o u = l
  <2>1. /\ rest \o u \in Seq(S) /\ Len(rest \o u) = n + m
        /\ \A k \in 1..(n + m) : (rest \o u)[k] = IF k <= n THEN rest[k] ELSE u[k - n]
    BY <1>11, <1>15, ConcatProperties
  <2>2. ASSUME NEW k \in 1..(n + m) PROVE (rest \o u)[k] = l[k]
    <3>1. CASE k <= n
      BY <1>11, <2>1, <3>1
    <3>2. CASE ~(k <= n)
      <4>1. k - n \in 1..m /\ n + (k - n) = k
        BY <3>2
      <4>2. u[k - n] = l[k]
        BY <1>15, <4>1
      <4> QED BY <2>1, <3>2, <4>2
    <3> QED BY <3>1, <3>2
  <2>3. \A k \in 1..Len(rest \o u) : (rest \o u)[k] = l[k]
    BY <2>1, <2>2
  <2>4. rest \o u \in Seq(S) /\ l \in Seq(S) /\ Len(rest \o u) = Len(l)
    BY <1>11, <2>1
  <2> QED BY <2>3, <2>4, SeqEqual
<1>17. PlanGroup(rest, inserts) = rest \o u
  <2>1. ContiguousTail(rest, inserts)
    BY <1>10
  <2> QED BY <1>14, <2>1 DEF PlanGroup
<1> QED BY <1>1, <1>10, <1>16, <1>17

(* Inserted one after the other at their indexes, the elements make result *)
(* of existing.                                                            *)
Builds(S, existing, inserts, result) ==
  \E list : /\ Grows(S, list, inserts)
            /\ list[0] = existing
            /\ list[Len(inserts)] = result

(* Then the plan is made, and gives result.                                *)
LEMMA PlanBuilt ==
  ASSUME NEW S, NEW R, NEW inserts \in Seq(R), NEW existing, NEW result,
         Builds(S, existing, inserts, result)
  PROVE  /\ Plannable(existing, inserts)
         /\ PlanGroup(existing, inserts) = result
         /\ result \in Seq(S)
PROOF
<1>1. PICK list : /\ Grows(S, list, inserts)
                  /\ list[0] = existing
                  /\ list[Len(inserts)] = result
  BY DEF Builds
<1>2. PICK m \in Nat : m = Len(inserts)
  OBVIOUS
<1>3. result \in Seq(S)
  <2>1. \A p \in 0..m : list[p] \in Seq(S)
    <3>1. Growth(S, list, inserts)
      BY <1>1, GrowsFacts
    <3> QED BY <1>2, <3>1 DEF Growth
  <2>2. m \in 0..m
    OBVIOUS
  <2> QED BY <1>1, <1>2, <2>1, <2>2
<1>4. PICK o : o = InsertionOrder(existing, inserts)
  OBVIOUS
<1>5. o = Straight(m)
  BY <1>1, <1>2, <1>4, StraightOrder
<1>6. Len(o) = m
  BY <1>5 DEF Straight
<1>7. Plannable(existing, inserts)
  BY <1>2, <1>4, <1>6 DEF Plannable
<1>8. PlanGroup(existing, inserts) = result
  <2>1. CASE ContiguousTail(existing, inserts)
    <3>1. ContiguousTail(list[0], inserts)
      BY <1>1, <2>1
    <3>2. PlanGroup(list[0], inserts) = list[Len(inserts)]
      BY <1>1, <3>1, TailGrows
    <3> QED BY <1>1, <3>2
  <2>2. CASE ~ContiguousTail(existing, inserts)
    <3>1. SlotPlacement(existing, inserts, TakenSlots(existing, inserts, o)) = result
      <4>1. SlotPlacement(list[0], inserts, TakenSlots(list[0], inserts, Straight(Len(inserts))))
              = list[Len(inserts)]
        BY <1>1, StraightPlacement
      <4> QED BY <1>1, <1>2, <1>5, <4>1
    <3> QED BY <1>4, <2>2, <3>1 DEF PlanGroup
  <2> QED BY <2>1, <2>2
<1> QED BY <1>3, <1>7, <1>8

(* Nothing is inserted.                                                    *)
LEMMA BuildsNothing ==
  ASSUME NEW S, NEW existing \in Seq(S)
  PROVE  Builds(S, existing, <<>>, existing)
PROOF
<1> DEFINE list == [p \in 0..0 |-> existing]
<1>1. list[0] = existing /\ Len(<<>>) = 0 /\ 1..Len(<<>>) = {}
  OBVIOUS
<1> HIDE DEF list
<1>2. Grows(S, list, <<>>)
  BY <1>1 DEF Grows
<1> QED BY <1>1, <1>2 DEF Builds

(* One element more is inserted.                                           *)
LEMMA BuildsAppend ==
  ASSUME NEW S, NEW R, NEW inserts \in Seq(R), NEW existing, NEW l,
         Builds(S, existing, inserts, l),
         NEW e \in R, e.id \in S, e.index \in 0..Len(l)
  PROVE  Builds(S, existing, Append(inserts, e), InsertElement(l, e.index, e.id))
PROOF
<1>1. PICK list : /\ Grows(S, list, inserts)
                  /\ list[0] = existing
                  /\ list[Len(inserts)] = l
  BY DEF Builds
<1>2. PICK m \in Nat : m = Len(inserts)
  OBVIOUS
<1>8. Len(l) = Len(existing) + m
  <2>1. \A p \in 0..m : list[p] \in Seq(S) /\ Len(list[p]) = Len(list[0]) + p
    <3>1. Grows(S, list, inserts)
      BY <1>1
    <3>2. \A p \in 0..Len(inserts) : list[p] \in Seq(S) /\ Len(list[p]) = Len(list[0]) + p
      <4>1. Growth(S, list, inserts)
        BY <3>1, GrowsFacts
      <4> QED BY <4>1 DEF Growth
    <3> QED BY <1>2, <3>2
  <2>2. m \in 0..m
    OBVIOUS
  <2> QED BY <1>1, <1>2, <2>1, <2>2
<1>3. PICK longer, r : longer = Append(inserts, e) /\ r = InsertElement(l, e.index, e.id)
  OBVIOUS
<1>4. /\ longer \in Seq(R) /\ Len(longer) = m + 1 /\ longer[m + 1] = e
      /\ \A p \in 1..m : longer[p] = inserts[p]
  <2>1. /\ Append(inserts, e) \in Seq(R)
        /\ Len(Append(inserts, e)) = Len(inserts) + 1
        /\ \A p \in 1..Len(inserts) : Append(inserts, e)[p] = inserts[p]
        /\ Append(inserts, e)[Len(inserts) + 1] = e
    BY AppendProperties
  <2> QED BY <1>2, <1>3, <2>1
<1> DEFINE more == [p \in 0..(m + 1) |-> IF p = m + 1 THEN r ELSE list[p]]
<1>5. more[m + 1] = r /\ \A p \in 0..m : more[p] = list[p]
  OBVIOUS
<1>6. more[0] = existing
  <2>1. 0 \in 0..m
    OBVIOUS
  <2> QED BY <1>1, <1>5, <2>1
<1> HIDE DEF more
<1>7. existing \in Seq(S)
  BY <1>1 DEF Grows
<1>9. ASSUME NEW p \in 1..(m + 1)
      PROVE  /\ longer[p].id \in S
             /\ longer[p].index \in 0..(Len(existing) + p - 1)
             /\ more[p] = InsertElement(more[p - 1], longer[p].index, longer[p].id)
  <2>1. CASE p = m + 1
    <3>1. p - 1 = m /\ m \in 0..m
      BY <2>1
    <3>2. more[p - 1] = l
      BY <1>1, <1>2, <1>5, <3>1
    <3>3. more[p] = r /\ longer[p] = e
      BY <1>4, <1>5, <2>1
    <3>4. e.index \in 0..(Len(existing) + p - 1)
      <4>1. PICK i : i = e.index
        OBVIOUS
      <4>2. Len(existing) \in Nat /\ i \in 0..(Len(existing) + m)
        BY <1>7, <1>8, <4>1
      <4>3. i \in 0..(Len(existing) + p - 1)
        BY <2>1, <4>2
      <4> QED BY <4>1, <4>3
    <3> QED BY <1>3, <3>2, <3>3, <3>4
  <2>2. CASE p # m + 1
    <3>1. p \in 1..m /\ p \in 0..m /\ p - 1 \in 0..m
      BY <2>2
    <3>2. /\ inserts[p].id \in S
          /\ inserts[p].index \in 0..(Len(list[0]) + p - 1)
          /\ list[p] = InsertElement(list[p - 1], inserts[p].index, inserts[p].id)
      BY <1>1, <1>2, <3>1 DEF Grows
    <3>3. longer[p] = inserts[p] /\ more[p] = list[p] /\ more[p - 1] = list[p - 1]
      BY <1>4, <1>5, <3>1
    <3> QED BY <1>1, <3>2, <3>3
  <2> QED BY <2>1, <2>2
<1>10. Grows(S, more, longer)
  <2>1. more[0] \in Seq(S)
    BY <1>6, <1>7
  <2>2. Len(longer) = m + 1
    BY <1>4
  <2> QED BY <1>6, <1>9, <2>1, <2>2 DEF Grows
<1>11. more[Len(longer)] = r
  BY <1>4, <1>5
<1>12. Builds(S, existing, longer, r)
  BY <1>6, <1>10, <1>11 DEF Builds
<1> QED BY <1>3, <1>12

(* inserts records every element of l, in any order, each with its index.  *)
Lists(S, l, inserts) ==
  /\ l \in Seq(S)
  /\ \A p \in 1..Len(inserts) : /\ inserts[p].index \in 0..(Len(l) - 1)
                                /\ l[inserts[p].index + 1] = inserts[p].id
  /\ \A p, q \in 1..Len(inserts) : inserts[p].index = inserts[q].index => p = q
  /\ \A k \in 1..Len(l) : \E p \in 1..Len(inserts) : inserts[p].index = k - 1

(* Planned into an empty group, they make l.                               *)
LEMMA PlanListed ==
  ASSUME NEW S, NEW R, NEW inserts \in Seq(R), NEW l, Lists(S, l, inserts)
  PROVE  Plannable(<<>>, inserts) /\ PlanGroup(<<>>, inserts) = l
PROOF
<1>1. PICK m \in Nat : m = Len(inserts) /\ DOMAIN inserts = 1..m
  OBVIOUS
<1>2. l \in Seq(S)
  BY DEF Lists
<1>3. PICK n \in Nat : n = Len(l)
  BY <1>2
<1>4. /\ \A p \in 1..m : inserts[p].index \in 0..(n - 1) /\ l[inserts[p].index + 1] = inserts[p].id
      /\ \A p, q \in 1..m : inserts[p].index = inserts[q].index => p = q
      /\ \A k \in 1..n : \E p \in 1..m : inserts[p].index = k - 1
  BY <1>1, <1>3 DEF Lists
<1>5. m = n
  <2> DEFINE b == [p \in 1..m |-> inserts[p].index + 1]
  <2>1. b \in [1..m -> 1..n] /\ \A p \in 1..m : b[p] = inserts[p].index + 1
    BY <1>4
  <2> HIDE DEF b
  <2>2. IsInjective(b)
    <3> SUFFICES ASSUME NEW p \in 1..m, NEW q \in 1..m, b[p] = b[q] PROVE p = q
      BY <2>1 DEF IsInjective
    <3>1. PICK i, j : i = inserts[p].index /\ j = inserts[q].index
      OBVIOUS
    <3>2. i \in 0..(n - 1) /\ j \in 0..(n - 1) /\ i + 1 = j + 1
      BY <1>4, <2>1, <3>1
    <3>3. i = j
      BY <3>2
    <3> QED BY <1>4, <3>1, <3>3
  <2>3. \A k \in 1..n : \E p \in 1..m : b[p] = k
    <3> SUFFICES ASSUME NEW k \in 1..n PROVE \E p \in 1..m : b[p] = k
      OBVIOUS
    <3>1. PICK p \in 1..m : inserts[p].index = k - 1
      BY <1>4
    <3>2. b[p] = k
      BY <2>1, <3>1
    <3> QED BY <3>2
  <2>4. b \in Bijection(1..m, 1..n)
    BY <2>1, <2>2, <2>3 DEF Bijection, Injection, Surjection
  <2>5. IsFiniteSet(1..m) /\ Cardinality(1..m) = m /\ Cardinality(1..n) = n
    BY FS_Interval
  <2>6. Cardinality(1..n) = Cardinality(1..m)
    BY <2>4, <2>5, FS_Bijection DEF ExistsBijection
  <2> QED BY <2>5, <2>6
<1>6. {inserts[p].index : p \in 1..m} = 0..(m - 1)
  <2>1. ASSUME NEW i \in 0..(m - 1) PROVE \E p \in 1..m : inserts[p].index = i
    <3>1. i + 1 \in 1..n /\ (i + 1) - 1 = i
      BY <1>5
    <3> QED BY <1>4, <3>1
  <2>2. \A p \in 1..m : inserts[p].index \in 0..(m - 1)
    BY <1>4, <1>5
  <2> QED BY <2>1, <2>2
<1>7. ContiguousTail(<<>>, inserts)
  <2>1. Len(<<>>) = 0 /\ 0..(0 + m - 1) = 0..(m - 1)
    OBVIOUS
  <2> QED BY <1>1, <1>6, <2>1 DEF ContiguousTail
<1> DEFINE tail == [k \in DOMAIN inserts |->
                      inserts[CHOOSE p \in DOMAIN inserts : inserts[p].index = Len(<<>>) + k - 1].id]
<1>8. ASSUME NEW k \in 1..m
      PROVE  inserts[CHOOSE p \in DOMAIN inserts : inserts[p].index = Len(<<>>) + k - 1].id = l[k]
  <2>1. PICK p \in 1..m : inserts[p].index = k - 1
    BY <1>4, <1>5
  <2>2. Len(<<>>) + k - 1 = k - 1
    OBVIOUS
  <2>3. \A q \in DOMAIN inserts : inserts[q].index = Len(<<>>) + k - 1 <=> q = p
    BY <1>1, <1>4, <2>1, <2>2
  <2>4. (CHOOSE q \in DOMAIN inserts : inserts[q].index = Len(<<>>) + k - 1) = p
    BY <1>1, <2>3
  <2>5. l[inserts[p].index + 1] = inserts[p].id /\ (k - 1) + 1 = k
    BY <1>4
  <2> QED BY <2>1, <2>4, <2>5
<1>9. tail = [k \in 1..m |-> l[k]]
  BY <1>1, <1>8, Zenon
<1>10. PICK u : u = tail
  OBVIOUS
<1>11. u = l
  <2>1. l = [k \in 1..m |-> l[k]]
    BY <1>2, <1>3, <1>5
  <2> HIDE DEF tail
  <2> QED BY <1>9, <1>10, <2>1
<1>12. PlanGroup(<<>>, inserts) = <<>> \o u
  BY <1>7, <1>10 DEF PlanGroup
<1>13. <<>> \o u = u
  BY <1>2, <1>11, ConcatEmptySeq
<1>14. Plannable(<<>>, inserts)
  BY <1>7 DEF Plannable
<1> QED BY <1>11, <1>12, <1>13, <1>14
=============================================================================
