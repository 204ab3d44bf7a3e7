--------------------------- MODULE DocumentProofs ---------------------------
(***************************************************************************)
(* Theorems about Document, for any number of ids, rows, elements and undo *)
(* steps: undo and redo give back whole documents, the lists and the items *)
(* stay consistent, and the steps implement EditHistory.                   *)
(*                                                                         *)
(* The parts, from the bottom up: places in sequences (insert, remove,     *)
(* rotate); documents whose lists and indexes agree (InOrder); moves of an *)
(* item between lists and back; parents (Rooted, by a rank that falls      *)
(* towards the root); write methods, whose recorded operations do what the *)
(* method did and whose inverses undo it (Written); runs of operations     *)
(* that are applied at once (InRuns); change sets that lead from a         *)
(* document to another and back (Connects), among them removals that       *)
(* cascade (Cascade); the rollback journal (JournalOf); the stacks         *)
(* (Trail); and the inductive invariant, DocInv.                           *)
(***************************************************************************)
EXTENDS Document, ListLemmas, FiniteSetTheorems

(* The offset of a rotation and its negative cancel.                       *)
LEMMA Turned ==
  ASSUME NEW c \in Nat \ {0}, NEW a \in 0..(c - 1), NEW o \in Int
  PROVE  (a + o) % c \in 0..(c - 1) /\ (((a + o) % c) + (-o)) % c = a
PROOF
<1> DEFINE r == (a + o) % c
<1> DEFINE q == (a + o) \div c
<1>1. r \in 0..(c - 1) /\ q \in Int /\ a + o = c * q + r
  OBVIOUS
<1> HIDE DEF r, q
<1> DEFINE p == (r + (-o)) \div c
<1> DEFINE b == (r + (-o)) % c
<1>2. b \in 0..(c - 1) /\ p \in Int /\ r + (-o) = c * p + b
  BY <1>1
<1> HIDE DEF p, b
<1>3. a - b = c * (q + p)
  BY <1>1, <1>2
<1>4. a = b
  BY <1>1, <1>2, <1>3
<1> QED BY <1>1, <1>4 DEF r, b


(***************************************************************************)
(* List groups                                                             *)
(***************************************************************************)
Distinct(group) ==
  \A j, k \in DOMAIN group : group[j] = group[k] => j = k

(* The index of an element is where it stands.                             *)
LEMMA IndexOfFacts ==
  ASSUME NEW group \in Seq(Ids), Distinct(group)
  PROVE  /\ \A k \in DOMAIN group : IndexOf(group, group[k]) = k - 1
         /\ \A id : Contains(group, id) =>
              /\ IndexOf(group, id) + 1 \in DOMAIN group
              /\ IndexOf(group, id) \in 0..(Len(group) - 1)
              /\ group[IndexOf(group, id) + 1] = id
PROOF
<1>1. DOMAIN group = 1..Len(group) /\ Len(group) \in Nat
  OBVIOUS
<1>2. ASSUME NEW k \in DOMAIN group PROVE IndexOf(group, group[k]) = k - 1
  <2> DEFINE c == CHOOSE j \in DOMAIN group : group[j] = group[k]
  <2>1. c \in DOMAIN group /\ group[c] = group[k]
    OBVIOUS
  <2>2. c = k
    BY <2>1 DEF Distinct
  <2>3. IndexOf(group, group[k]) = c - 1
    BY DEF IndexOf
  <2> QED BY <2>2, <2>3
<1>3. ASSUME NEW id, Contains(group, id)
      PROVE  /\ IndexOf(group, id) + 1 \in DOMAIN group
             /\ IndexOf(group, id) \in 0..(Len(group) - 1)
             /\ group[IndexOf(group, id) + 1] = id
  <2>1. PICK k \in DOMAIN group : group[k] = id
    BY <1>1, <1>3 DEF Contains
  <2>2. IndexOf(group, id) = k - 1
    BY <1>2, <2>1
  <2>3. k - 1 + 1 = k /\ k - 1 \in 0..(Len(group) - 1)
    BY <1>1
  <2> QED BY <2>1, <2>2, <2>3
<1> QED BY <1>2, <1>3

(* InsertElement and RemoveElement, element by element                     *)
InsertedTo(list, group, index, id) ==
  /\ list \in Seq(Ids)
  /\ Len(list) = Len(group) + 1
  /\ list[index + 1] = id
  /\ \A n \in 1..index : list[n] = group[n]
  /\ \A n \in (index + 2)..(Len(group) + 1) : list[n] = group[n - 1]

LEMMA InsertElementFacts ==
  ASSUME NEW group \in Seq(Ids), NEW index \in 0..Len(group), NEW id \in Ids
  PROVE  InsertedTo(InsertElement(group, index, id), group, index, id)
PROOF
<1>1. PICK i \in 1..(Len(group) + 1) : i = index + 1
  OBVIOUS
<1>2. PICK S : S = Ids
  OBVIOUS
<1>3. group \in Seq(S) /\ id \in S
  BY <1>2
<1>4. /\ InsertAt(group, i, id) \in Seq(S)
      /\ Len(InsertAt(group, i, id)) = Len(group) + 1
      /\ InsertAt(group, i, id)[i] = id
      /\ \A n \in 1..(i - 1) : InsertAt(group, i, id)[n] = group[n]
      /\ \A n \in (i + 1)..(Len(group) + 1) : InsertAt(group, i, id)[n] = group[n - 1]
  BY <1>3, InsertAtFacts
<1>5. i - 1 = index /\ i + 1 = index + 2
  BY <1>1
<1>6. PICK list : list = InsertElement(group, index, id)
  OBVIOUS
<1>7. list = InsertAt(group, i, id)
  BY <1>1, <1>6 DEF InsertElement
<1>8. /\ list \in Seq(Ids)
      /\ Len(list) = Len(group) + 1
      /\ list[index + 1] = id
      /\ \A n \in 1..index : list[n] = group[n]
      /\ \A n \in (index + 2)..(Len(group) + 1) : list[n] = group[n - 1]
  BY <1>1, <1>2, <1>4, <1>5, <1>7
<1>9. InsertedTo(list, group, index, id)
  BY <1>8 DEF InsertedTo
<1> QED BY <1>6, <1>9

(* RemoveElement takes one element out, and those behind it move up.       *)
LEMMA RemoveElementFacts ==
  ASSUME NEW group \in Seq(Ids), Distinct(group), NEW k \in DOMAIN group
  PROVE  /\ RemoveElement(group, group[k]) \in Seq(Ids)
         /\ Len(RemoveElement(group, group[k])) = Len(group) - 1
         /\ \A n \in 1..(k - 1) : RemoveElement(group, group[k])[n] = group[n]
         /\ \A n \in k..(Len(group) - 1) :
              RemoveElement(group, group[k])[n] = group[n + 1]
PROOF
<1>1. k \in 1..Len(group) /\ k - 1 + 1 = k
  OBVIOUS
<1>2. Contains(group, group[k])
  BY <1>1 DEF Contains
<1>3. IndexOf(group, group[k]) = k - 1
  BY IndexOfFacts
<1>4. RemoveElement(group, group[k]) = RemoveAt(group, k)
  BY <1>1, <1>2, <1>3 DEF RemoveElement
<1> QED BY <1>1, <1>4, RemoveAtFacts

(* An element that is taken out leaves the others in order, and stands     *)
(* where it stood when it is put back.                                     *)
LEMMA Removed ==
  ASSUME NEW group \in Seq(Ids), Distinct(group), NEW k \in DOMAIN group
  PROVE  /\ Distinct(RemoveElement(group, group[k]))
         /\ \A x : Contains(RemoveElement(group, group[k]), x)
                     <=> Contains(group, x) /\ x # group[k]
         /\ InsertElement(RemoveElement(group, group[k]), k - 1, group[k]) = group
PROOF
<1> DEFINE N == Len(group)
<1> DEFINE id == group[k]
<1> DEFINE rest == RemoveElement(group, id)
<1> DEFINE back == InsertElement(rest, k - 1, id)
<1>1. N \in Nat /\ k \in 1..N /\ DOMAIN group = 1..N /\ id \in Ids
  OBVIOUS
<1>2. /\ rest \in Seq(Ids) /\ Len(rest) = N - 1
      /\ \A n \in 1..(k - 1) : rest[n] = group[n]
      /\ \A n \in k..(N - 1) : rest[n] = group[n + 1]
  BY RemoveElementFacts
<1>3. DOMAIN rest = 1..(N - 1)
  BY <1>2
<1> HIDE DEF rest, N
<1> DEFINE Old(n) == IF n < k THEN n ELSE n + 1
<1>4. ASSUME NEW n \in 1..(N - 1) PROVE Old(n) \in 1..N /\ Old(n) # k /\ rest[n] = group[Old(n)]
  <2>1. CASE n < k
    <3>1. n \in 1..(k - 1) /\ n \in 1..N
      BY <1>1, <2>1
    <3> QED BY <1>2, <2>1, <3>1
  <2>2. CASE ~(n < k)
    <3>1. n \in k..(N - 1) /\ n + 1 \in 1..N /\ n + 1 # k
      BY <1>1, <2>2
    <3> QED BY <1>2, <2>2, <3>1
  <2> QED BY <2>1, <2>2
<1>5. Distinct(rest)
  <2> SUFFICES ASSUME NEW m \in 1..(N - 1), NEW n \in 1..(N - 1), rest[m] = rest[n]
               PROVE  m = n
    BY <1>3 DEF Distinct
  <2>1. Old(m) = Old(n)
    BY <1>1, <1>4 DEF Distinct
  <2> QED BY <2>1
<1>6. ASSUME NEW x PROVE Contains(rest, x) <=> Contains(group, x) /\ x # id
  <2>1. ASSUME Contains(rest, x) PROVE Contains(group, x) /\ x # id
    <3>1. PICK n \in 1..(N - 1) : rest[n] = x
      BY <1>2, <2>1 DEF Contains
    <3>2. Old(n) \in 1..N /\ Old(n) # k /\ group[Old(n)] = x
      BY <1>4, <3>1
    <3> QED BY <1>1, <3>2 DEF Contains, Distinct, N
  <2>2. ASSUME Contains(group, x), x # id PROVE Contains(rest, x)
    <3>1. PICK n \in 1..N : group[n] = x
      BY <2>2 DEF Contains, N
    <3>2. n # k
      BY <2>2, <3>1
    <3>3. CASE n < k
      <4>1. n \in 1..(k - 1) /\ n \in 1..(N - 1)
        BY <1>1, <3>3
      <4> QED BY <1>2, <3>1, <4>1 DEF Contains
    <3>4. CASE n > k
      <4>1. n - 1 \in k..(N - 1) /\ n - 1 \in 1..(N - 1) /\ n - 1 + 1 = n
        BY <1>1, <3>4
      <4> QED BY <1>2, <3>1, <4>1 DEF Contains
    <3> QED BY <1>1, <3>2, <3>3, <3>4
  <2> QED BY <2>1, <2>2
<1>7. back = group
  <2>1. k - 1 \in 0..Len(rest) /\ (k - 1) + 1 = k /\ (k - 1) + 2 = k + 1 /\ Len(rest) + 1 = N
    BY <1>1, <1>2
  <2>2. /\ back \in Seq(Ids) /\ Len(back) = N /\ back[k] = id
        /\ \A n \in 1..(k - 1) : back[n] = rest[n]
        /\ \A n \in (k + 1)..N : back[n] = rest[n - 1]
    <3> HIDE DEF id, back
    <3>1. PICK index \in 0..Len(rest) : index = k - 1
      BY <2>1
    <3>2. back = InsertElement(rest, index, id)
      BY <3>1 DEF back
    <3>3. /\ InsertElement(rest, index, id) \in Seq(Ids)
          /\ Len(InsertElement(rest, index, id)) = Len(rest) + 1
          /\ InsertElement(rest, index, id)[index + 1] = id
          /\ \A n \in 1..index : InsertElement(rest, index, id)[n] = rest[n]
          /\ \A n \in (index + 2)..(Len(rest) + 1) :
               InsertElement(rest, index, id)[n] = rest[n - 1]
      <4>1. InsertedTo(InsertElement(rest, index, id), rest, index, id)
        BY <1>1, <1>2, InsertElementFacts
      <4> QED BY <4>1 DEF InsertedTo
    <3> QED BY <1>1, <2>1, <3>1, <3>2, <3>3
  <2> HIDE DEF back
  <2>3. ASSUME NEW n \in 1..N PROVE back[n] = group[n]
    <3>1. CASE n < k
      <4>1. n \in 1..(k - 1)
        BY <1>1, <3>1
      <4> QED BY <1>2, <2>2, <4>1
    <3>2. CASE n > k
      <4>1. n \in (k + 1)..N /\ n - 1 \in k..(N - 1) /\ n - 1 + 1 = n
        BY <1>1, <3>2
      <4> QED BY <1>2, <2>2, <4>1
    <3>3. CASE n = k
      BY <2>2, <3>3
    <3> QED BY <1>1, <3>1, <3>2, <3>3
  <2> QED BY <2>2, <2>3, SeqEqual DEF N
<1> QED BY <1>5, <1>6, <1>7 DEF rest

(* An element that is put in leaves the others in order, and they are the  *)
(* list again when it is taken out.                                        *)
LEMMA Inserted ==
  ASSUME NEW group \in Seq(Ids), Distinct(group), NEW index \in 0..Len(group),
         NEW id \in Ids, ~Contains(group, id)
  PROVE  /\ Distinct(InsertElement(group, index, id))
         /\ \A x : Contains(InsertElement(group, index, id), x)
                     <=> Contains(group, x) \/ x = id
         /\ IndexOf(InsertElement(group, index, id), id) = index
         /\ RemoveElement(InsertElement(group, index, id), id) = group
PROOF
<1> DEFINE N == Len(group)
<1> DEFINE list == InsertElement(group, index, id)
<1> DEFINE k == index + 1
<1> DEFINE back == RemoveElement(list, id)
<1>1. /\ N \in Nat /\ k \in 1..(N + 1) /\ DOMAIN group = 1..N
      /\ \A n \in 1..N : group[n] \in Ids /\ group[n] # id
  BY DEF Contains
<1>2. /\ list \in Seq(Ids) /\ Len(list) = N + 1 /\ list[k] = id
      /\ \A n \in 1..(k - 1) : list[n] = group[n]
      /\ \A n \in (k + 1)..(N + 1) : list[n] = group[n - 1]
  <2>1. k - 1 = index /\ k + 1 = index + 2
    OBVIOUS
  <2> HIDE DEF list
  <2>2. /\ list \in Seq(Ids) /\ Len(list) = Len(group) + 1 /\ list[index + 1] = id
        /\ \A n \in 1..index : list[n] = group[n]
        /\ \A n \in (index + 2)..(Len(group) + 1) : list[n] = group[n - 1]
    <3>1. InsertedTo(list, group, index, id)
      BY InsertElementFacts DEF list
    <3> QED BY <3>1 DEF InsertedTo
  <2> QED BY <2>1, <2>2
<1>3. DOMAIN list = 1..(N + 1)
  BY <1>2
<1>4. k - 1 = index
  OBVIOUS
<1> HIDE DEF list, N, k
<1> DEFINE Old(n) == IF n < k THEN n ELSE n - 1
<1>5. ASSUME NEW n \in 1..(N + 1), n # k PROVE Old(n) \in 1..N /\ list[n] = group[Old(n)]
  <2>1. CASE n < k
    <3>1. n \in 1..(k - 1) /\ n \in 1..N
      BY <1>1, <2>1
    <3> QED BY <1>2, <2>1, <3>1
  <2>2. CASE ~(n < k)
    <3>1. n \in (k + 1)..(N + 1) /\ n - 1 \in 1..N
      BY <1>1, <1>5, <2>2
    <3> QED BY <1>2, <2>2, <3>1
  <2> QED BY <2>1, <2>2
<1>6. Distinct(list)
  <2> SUFFICES ASSUME NEW m \in 1..(N + 1), NEW n \in 1..(N + 1), list[m] = list[n]
               PROVE  m = n
    BY <1>3 DEF Distinct
  <2>1. CASE m = k \/ n = k
    BY <1>1, <1>2, <1>5, <2>1
  <2>2. CASE m # k /\ n # k
    <3>1. Old(m) \in 1..N /\ Old(n) \in 1..N /\ group[Old(m)] = group[Old(n)]
      BY <1>5, <2>2
    <3>2. Old(m) = Old(n)
      BY <1>1, <3>1 DEF Distinct
    <3> QED BY <1>1, <2>2, <3>2
  <2> QED BY <2>1, <2>2
<1>7. ASSUME NEW x PROVE Contains(list, x) <=> Contains(group, x) \/ x = id
  <2>1. ASSUME Contains(list, x) PROVE Contains(group, x) \/ x = id
    <3>1. PICK n \in 1..(N + 1) : list[n] = x
      BY <1>2, <2>1 DEF Contains
    <3>2. CASE n = k
      BY <1>2, <3>1, <3>2
    <3>3. CASE n # k
      <4>1. Old(n) \in 1..N /\ group[Old(n)] = x
        BY <1>5, <3>1, <3>3
      <4> QED BY <4>1 DEF Contains, N
    <3> QED BY <3>2, <3>3
  <2>2. CASE x = id
    BY <1>1, <1>2, <2>2 DEF Contains
  <2>3. ASSUME Contains(group, x) PROVE Contains(list, x)
    <3>1. PICK n \in 1..N : group[n] = x
      BY <2>3 DEF Contains, N
    <3>2. CASE n < k
      <4>1. n \in 1..(k - 1) /\ n \in 1..(N + 1)
        BY <1>1, <3>2
      <4> QED BY <1>2, <3>1, <4>1 DEF Contains
    <3>3. CASE ~(n < k)
      <4>1. n + 1 \in (k + 1)..(N + 1) /\ n + 1 \in 1..(N + 1) /\ n + 1 - 1 = n
        BY <1>1, <3>3
      <4> QED BY <1>2, <3>1, <4>1 DEF Contains
    <3> QED BY <3>2, <3>3
  <2> QED BY <2>1, <2>2, <2>3
<1>8. IndexOf(list, id) = index
  <2>1. IndexOf(list, list[k]) = k - 1
    BY <1>1, <1>2, <1>3, <1>6, IndexOfFacts
  <2> QED BY <1>2, <1>4, <2>1
<1>9. back = group
  <2>1. /\ back \in Seq(Ids) /\ Len(back) = Len(list) - 1
        /\ \A n \in 1..(k - 1) : back[n] = list[n]
        /\ \A n \in k..(Len(list) - 1) : back[n] = list[n + 1]
    <3>1. k \in DOMAIN list /\ list[k] = id
      BY <1>1, <1>2, <1>3
    <3>2. /\ RemoveElement(list, list[k]) \in Seq(Ids)
          /\ Len(RemoveElement(list, list[k])) = Len(list) - 1
          /\ \A n \in 1..(k - 1) : RemoveElement(list, list[k])[n] = list[n]
          /\ \A n \in k..(Len(list) - 1) : RemoveElement(list, list[k])[n] = list[n + 1]
      BY <1>2, <1>6, <3>1, RemoveElementFacts
    <3> QED BY <3>1, <3>2
  <2>2. Len(list) - 1 = N
    BY <1>1, <1>2
  <2> HIDE DEF back
  <2>3. ASSUME NEW n \in 1..N PROVE back[n] = group[n]
    <3>1. CASE n < k
      <4>1. n \in 1..(k - 1)
        BY <1>1, <3>1
      <4> QED BY <1>2, <2>1, <4>1
    <3>2. CASE ~(n < k)
      <4>1. n + 1 \in (k + 1)..(N + 1) /\ n \in k..N /\ n + 1 - 1 = n
        BY <1>1, <3>2
      <4> QED BY <1>2, <2>1, <2>2, <4>1
    <3> QED BY <3>1, <3>2
  <2> QED BY <2>1, <2>2, <2>3, SeqEqual DEF N
<1> QED BY <1>6, <1>7, <1>8, <1>9 DEF list

(* A rotation moves the elements of its window, and the rotation by the    *)
(* negative offset moves them back.                                        *)
Permutes(list, group, s) ==
  /\ list \in Seq(Ids)
  /\ Len(list) = Len(group)
  /\ \A n \in 1..s : n \in DOMAIN group /\ list[n] = group[n]
  /\ \A n \in DOMAIN group : \E m \in DOMAIN group : list[n] = group[m]
  /\ Distinct(group) => Distinct(list)

LEMMA RotatedBack ==
  ASSUME NEW group \in Seq(Ids), NEW s \in Nat, NEW c \in Nat, s + c <= Len(group),
         NEW o \in Int
  PROVE  /\ Permutes(RotateWindow(group, s, c, o), group, s)
         /\ RotateWindow(RotateWindow(group, s, c, o), s, c, -o) = group
PROOF
<1> SUFFICES /\ RotateWindow(group, s, c, o) \in Seq(Ids)
             /\ Len(RotateWindow(group, s, c, o)) = Len(group)
             /\ \A n \in 1..s : n \in DOMAIN group /\ RotateWindow(group, s, c, o)[n] = group[n]
             /\ \A n \in DOMAIN group : \E m \in DOMAIN group :
                  RotateWindow(group, s, c, o)[n] = group[m]
             /\ Distinct(group) => Distinct(RotateWindow(group, s, c, o))
             /\ RotateWindow(RotateWindow(group, s, c, o), s, c, -o) = group
  BY DEF Permutes
<1> DEFINE N == Len(group)
<1> DEFINE list == RotateWindow(group, s, c, o)
<1>1. N \in Nat /\ DOMAIN group = 1..N /\ \A n \in 1..N : group[n] \in Ids
  OBVIOUS
<1>2. CASE c = 0
  <2>1. ~(c > 0)
    BY <1>2
  <2>2. \A g, p : RotateWindow(g, s, c, p) = g
    BY <2>1 DEF RotateWindow
  <2> QED BY <1>1, <2>2
<1>3. CASE c # 0
  <2> DEFINE From(n, p) == s + 1 + ((n - 1 - s + p) % c)
  <2> DEFINE window == (s + 1)..(s + c)
  <2>1. c \in Nat \ {0} /\ c > 0 /\ s + c <= N /\ -o \in Int /\ -(-o) = o
    BY <1>3
  <2>0. window \subseteq 1..N
    BY <2>1
  <2>2. ASSUME NEW n \in window, NEW p \in Int
        PROVE  From(n, p) \in window /\ From(From(n, p), -p) = n
    <3> DEFINE a == n - 1 - s
    <3>1. a \in 0..(c - 1) /\ n = s + 1 + a
      BY <2>1
    <3> DEFINE r == (a + p) % c
    <3>2. r \in 0..(c - 1) /\ (r + (-p)) % c = a
      BY <2>1, <3>1, Turned
    <3> HIDE DEF a, r
    <3>3. From(n, p) = s + 1 + r
      BY DEF a, r
    <3>4. (s + 1 + r) - 1 - s = r /\ s + 1 + r \in window
      BY <2>1, <3>2
    <3> HIDE DEF window
    <3>5. From(s + 1 + r, -p) = s + 1 + ((r + (-p)) % c)
      BY <3>4
    <3> HIDE DEF From
    <3>6. From(s + 1 + r, -p) = n
      BY <3>1, <3>2, <3>5
    <3> QED BY <3>3, <3>4, <3>6
  <2> HIDE DEF From
  <2>3. /\ list \in Seq(Ids) /\ Len(list) = N /\ DOMAIN list = 1..N
        /\ \A n \in 1..N : list[n] = IF n \in window THEN group[From(n, o)] ELSE group[n]
    <3>1. list = [n \in 1..N |-> IF n \in window THEN group[From(n, o)] ELSE group[n]]
      BY <1>1, <2>1 DEF RotateWindow, From
    <3> HIDE DEF list, window, N
    <3>2. \A n \in 1..N : (IF n \in window THEN group[From(n, o)] ELSE group[n]) \in Ids
      BY <1>1, <2>0, <2>2
    <3> QED BY <1>1, <3>1, <3>2
  <2>4. RotateWindow(list, s, c, -o) = group
    <3> DEFINE back == RotateWindow(list, s, c, -o)
    <3>1. back = [n \in 1..N |-> IF n \in window THEN list[From(n, -o)] ELSE list[n]]
      <4> HIDE DEF list
      <4> QED BY <2>1, <2>3 DEF RotateWindow, From
    <3>2. ASSUME NEW n \in 1..N PROVE back[n] = group[n]
      <4> HIDE DEF list
      <4>1. CASE n \in window
        <5> HIDE DEF window
        <5>1. From(n, -o) \in window /\ From(n, -o) \in 1..N
          BY <2>0, <2>1, <2>2, <4>1
        <5>2. From(From(n, -o), o) = n
          BY <2>1, <2>2, <4>1
        <5>3. back[n] = list[From(n, -o)]
          BY <3>1, <4>1
        <5> HIDE DEF back
        <5> QED BY <2>3, <5>1, <5>2, <5>3
      <4>2. CASE n \notin window
        BY <2>3, <3>1, <4>2
      <4> QED BY <4>1, <4>2
    <3> HIDE DEF back, list
    <3>3. back \in Seq(Ids) /\ Len(back) = N
      BY <1>1, <3>1, <3>2
    <3>4. back = group
      BY <1>1, <3>2, <3>3, SeqEqual
    <3> QED BY <3>4 DEF back
  <2>5. ASSUME NEW n \in 1..s PROVE n \in 1..N /\ list[n] = group[n]
    <3>1. n \in 1..N /\ n \notin window
      BY <2>1
    <3> HIDE DEF list, window
    <3> QED BY <2>3, <3>1
  <2>6. ASSUME NEW n \in 1..N PROVE \E m \in 1..N : list[n] = group[m]
    <3> HIDE DEF list, window
    <3> QED BY <2>0, <2>1, <2>2, <2>3
  <2>7. ASSUME Distinct(group) PROVE Distinct(list)
    <3> DEFINE At(n) == IF n \in window THEN From(n, o) ELSE n
    <3> HIDE DEF list, window
    <3>1. ASSUME NEW n \in 1..N PROVE At(n) \in 1..N /\ list[n] = group[At(n)]
      BY <2>0, <2>1, <2>2, <2>3
    <3>2. ASSUME NEW m \in 1..N, NEW n \in 1..N, At(m) = At(n) PROVE m = n
      <4>1. CASE m \in window /\ n \in window
        <5>1. From(From(m, o), -o) = m /\ From(From(n, o), -o) = n
          BY <2>1, <2>2, <4>1
        <5> QED BY <3>2, <4>1, <5>1
      <4>2. CASE ~(m \in window /\ n \in window)
        BY <2>1, <2>2, <3>2, <4>2
      <4> QED BY <4>1, <4>2
    <3> HIDE DEF At
    <3> SUFFICES ASSUME NEW m \in 1..N, NEW n \in 1..N, list[m] = list[n] PROVE m = n
      BY <2>3 DEF Distinct
    <3>3. At(m) = At(n)
      <4>1. At(m) \in DOMAIN group /\ At(n) \in DOMAIN group /\ group[At(m)] = group[At(n)]
        BY <1>1, <3>1
      <4> QED BY <2>7, <4>1 DEF Distinct
    <3> QED BY <3>2, <3>3
  <2> HIDE DEF list
  <2> QED BY <1>1, <2>3, <2>4, <2>5, <2>6, <2>7 DEF list
<1> QED BY <1>2, <1>3
-----------------------------------------------------------------------------
(***************************************************************************)
(* Documents in order                                                      *)
(***************************************************************************)
Items == [kind : {"row", "elem", "absent"}, parent : Ids \cup {NoId}, index : Nat]
Docs == [items : [Ids -> Items], groups : [Ids -> Seq(Ids)]]

(* An item that is not in a list has no index, and no item no parent.      *)
Plain(s) == ~Participates(s) => s.index = 0 /\ (s.kind = "absent" => s.parent = NoId)

(* d is in order, x aside, which stands in no list: ListsConsistent, as a  *)
(* property of documents.                                                  *)
InOrderBut(d, x) ==
  /\ d \in Docs
  /\ \A g \in Ids : \A k \in DOMAIN d.groups[g] :
       d.groups[g][k] # x /\ d.items[d.groups[g][k]] = Elem(g, k - 1)
  /\ \A id \in Ids \ {x} :
       /\ Participates(d.items[id]) => Contains(d.groups[d.items[id].parent], id)
       /\ Plain(d.items[id])

InOrder(d) == InOrderBut(d, NoId)

(* s and t have the same kind and parent.                                  *)
Akin(s, t) == s.kind = t.kind /\ s.parent = t.parent

AkinBut(d, e, x) == \A id \in Ids \ {x} : Akin(d.items[id], e.items[id])

(* What the snapshots of this model look like: an element of a list is     *)
(* Elem of its parent and its index, an item that is not there is Absent.  *)
LEMMA ItemFacts ==
  /\ NoId \notin Ids /\ Ids \subseteq Nat
  /\ \A s \in Items :
       /\ s.kind \in {"row", "elem", "absent"}
       /\ s.parent \in Ids \cup {NoId} /\ s.index \in Nat
       /\ s = [kind |-> s.kind, parent |-> s.parent, index |-> s.index]
       /\ \A index \in Nat : /\ [s EXCEPT !.index = index] \in Items
                             /\ [s EXCEPT !.index = index].kind = s.kind
                             /\ [s EXCEPT !.index = index].parent = s.parent
                             /\ [s EXCEPT !.index = index].index = index
       /\ Plain(s) /\ s.kind = "absent" => s = Absent
  /\ Absent \in Items /\ Plain(Absent) /\ ~Participates(Absent)
  /\ \A g \in Ids, index \in Nat :
       /\ Elem(g, index) \in Items /\ Participates(Elem(g, index)) /\ Elem(g, index) # Absent
       /\ Elem(g, index).parent = g /\ Elem(g, index).index = index
       /\ Elem(g, index).kind = "elem"
  /\ \A s \in Items : Participates(s) => s = Elem(s.parent, s.index) /\ s.parent \in Ids
PROOF
<1>1. NoId \notin Ids /\ Ids \subseteq Nat
  BY DEF NoId, Ids
<1>2. ASSUME NEW s \in Items
      PROVE  /\ s.kind \in {"row", "elem", "absent"}
             /\ s.parent \in Ids \cup {NoId} /\ s.index \in Nat
             /\ s = [kind |-> s.kind, parent |-> s.parent, index |-> s.index]
             /\ \A index \in Nat : /\ [s EXCEPT !.index = index] \in Items
                                   /\ [s EXCEPT !.index = index].kind = s.kind
                                   /\ [s EXCEPT !.index = index].parent = s.parent
                                   /\ [s EXCEPT !.index = index].index = index
  BY DEF Items
<1>3. ASSUME NEW s \in Items, Plain(s), s.kind = "absent" PROVE s = Absent
  BY <1>2, <1>3 DEF Plain, Participates, Absent
<1>4. Absent \in Items /\ Plain(Absent) /\ ~Participates(Absent)
  BY DEF Absent, Items, Plain, Participates
<1>5. ASSUME NEW g \in Ids, NEW index \in Nat
      PROVE  /\ Elem(g, index) \in Items /\ Participates(Elem(g, index))
             /\ Elem(g, index) # Absent
             /\ Elem(g, index).parent = g /\ Elem(g, index).index = index
             /\ Elem(g, index).kind = "elem"
  BY <1>1 DEF Elem, Items, Participates, Absent
<1>6. ASSUME NEW s \in Items, Participates(s)
      PROVE  s = Elem(s.parent, s.index) /\ s.parent \in Ids
  BY <1>2, <1>6 DEF Participates, Elem
<1> HIDE DEF Items
<1> QED BY <1>1, <1>2, <1>3, <1>4, <1>5, <1>6

(* Two items that differ at most in their indexes, which are the same      *)
LEMMA SameItem ==
  ASSUME NEW s \in Items, NEW t \in Items, Plain(s), Plain(t), Akin(s, t),
         Participates(s) => t.index = s.index
  PROVE  s = t
PROOF
<1>1. s.index = t.index
  BY DEF Plain, Akin, Participates
<1> QED BY <1>1, ItemFacts DEF Akin

(* The list of a document in order holds the elements whose parent it is   *)
(* of, each at its index.                                                  *)
LEMMA OrderFacts ==
  ASSUME NEW d, NEW x, InOrderBut(d, x)
  PROVE  /\ d.items \in [Ids -> Items] /\ d.groups \in [Ids -> Seq(Ids)]
         /\ d = [items |-> d.items, groups |-> d.groups]
         /\ \A g \in Ids :
              /\ d.groups[g] \in Seq(Ids) /\ Distinct(d.groups[g])
              /\ \A k \in DOMAIN d.groups[g] : k \in Nat /\ k - 1 \in Nat
              /\ ~Contains(d.groups[g], x)
              /\ \A id : Contains(d.groups[g], id) =>
                   /\ id \in Ids \ {x}
                   /\ IndexOf(d.groups[g], id) \in Nat
                   /\ d.items[id] = Elem(g, IndexOf(d.groups[g], id))
              /\ \A id \in Ids \ {x} :
                   Contains(d.groups[g], id)
                     <=> Participates(d.items[id]) /\ d.items[id].parent = g
PROOF
<1>1. /\ d.items \in [Ids -> Items] /\ d.groups \in [Ids -> Seq(Ids)]
      /\ d = [items |-> d.items, groups |-> d.groups]
  BY DEF InOrderBut, Docs
<1>2. ASSUME NEW g \in Ids
      PROVE  /\ d.groups[g] \in Seq(Ids) /\ Distinct(d.groups[g])
             /\ \A k \in DOMAIN d.groups[g] : k \in Nat /\ k - 1 \in Nat
             /\ ~Contains(d.groups[g], x)
             /\ \A id : Contains(d.groups[g], id) =>
                  /\ id \in Ids \ {x}
                  /\ IndexOf(d.groups[g], id) \in Nat
                  /\ d.items[id] = Elem(g, IndexOf(d.groups[g], id))
             /\ \A id \in Ids \ {x} :
                  Contains(d.groups[g], id)
                    <=> Participates(d.items[id]) /\ d.items[id].parent = g
  <2> DEFINE group == d.groups[g]
  <2>1. group \in Seq(Ids)
    BY <1>1
  <2>2. \A k \in DOMAIN group : group[k] # x /\ d.items[group[k]] = Elem(g, k - 1)
    BY DEF InOrderBut
  <2>3. \A id \in Ids \ {x} :
           Participates(d.items[id]) => Contains(d.groups[d.items[id].parent], id)
    BY DEF InOrderBut
  <2> HIDE DEF group
  <2>4. DOMAIN group = 1..Len(group) /\ \A k \in DOMAIN group : k \in Nat /\ k - 1 \in Nat
    BY <2>1
  <2>5. Distinct(group)
    <3> SUFFICES ASSUME NEW j \in DOMAIN group, NEW k \in DOMAIN group, group[j] = group[k]
                 PROVE  j = k
      BY DEF Distinct
    <3>1. Elem(g, j - 1).index = Elem(g, k - 1).index
      BY <2>2
    <3>2. j - 1 = k - 1
      BY <2>4, <3>1, ItemFacts
    <3> QED BY <2>4, <3>2
  <2>6. ~Contains(group, x)
    BY <2>2, <2>4 DEF Contains
  <2>7. ASSUME NEW id, Contains(group, id)
        PROVE  /\ id \in Ids \ {x} /\ IndexOf(group, id) \in Nat
               /\ d.items[id] = Elem(g, IndexOf(group, id))
    <3> DEFINE k == IndexOf(group, id) + 1
    <3>1. /\ k \in DOMAIN group /\ group[k] = id /\ IndexOf(group, id) \in Nat
          /\ k - 1 = IndexOf(group, id)
      <4>1. /\ IndexOf(group, id) + 1 \in DOMAIN group
            /\ IndexOf(group, id) \in 0..(Len(group) - 1)
            /\ group[IndexOf(group, id) + 1] = id
        BY <2>1, <2>5, <2>7, IndexOfFacts
      <4> QED BY <4>1
    <3> HIDE DEF k
    <3>2. group[k] \in Ids
      BY <2>1, <3>1
    <3> QED BY <2>2, <3>1, <3>2
  <2>8. ASSUME NEW id \in Ids \ {x}
        PROVE  Contains(group, id) <=> Participates(d.items[id]) /\ d.items[id].parent = g
    <3>1. Contains(group, id) => Participates(d.items[id]) /\ d.items[id].parent = g
      BY <2>7, ItemFacts
    <3>2. Participates(d.items[id]) /\ d.items[id].parent = g => Contains(group, id)
      BY <2>3 DEF group
    <3> QED BY <3>1, <3>2
  <2> QED BY <2>1, <2>4, <2>5, <2>6, <2>7, <2>8 DEF group
<1> QED BY <1>1, <1>2

(* A document in order is known by its lists, and the items outside them.  *)
LEMMA SameDocument ==
  ASSUME NEW d, NEW e, InOrder(d), InOrder(e), d.groups = e.groups,
         \A id \in Ids : ~Participates(d.items[id]) => e.items[id] = d.items[id]
  PROVE  d = e
PROOF
<1>1. /\ d.items \in [Ids -> Items] /\ d = [items |-> d.items, groups |-> d.groups]
      /\ e.items \in [Ids -> Items] /\ e = [items |-> e.items, groups |-> e.groups]
  BY OrderFacts DEF InOrder
<1>2. ASSUME NEW id \in Ids PROVE d.items[id] = e.items[id]
  <2>1. CASE ~Participates(d.items[id])
    BY <2>1
  <2>2. CASE Participates(d.items[id])
    <3> DEFINE g == d.items[id].parent
    <3>1. g \in Ids /\ id \in Ids \ {NoId}
      BY <1>1, <2>2, ItemFacts
    <3> HIDE DEF g
    <3>2. Contains(d.groups[g], id)
      BY <2>2, <3>1, OrderFacts DEF InOrder, g
    <3>3. d.items[id] = Elem(g, IndexOf(d.groups[g], id))
      BY <3>1, <3>2, OrderFacts DEF InOrder
    <3>4. e.items[id] = Elem(g, IndexOf(e.groups[g], id))
      BY <3>1, <3>2, OrderFacts DEF InOrder
    <3> QED BY <3>3, <3>4
  <2> QED BY <2>1, <2>2
<1>3. d.items = e.items
  BY <1>1, <1>2
<1> QED BY <1>1, <1>3

(* A document with other items, and one with other lists                   *)
LEMMA DocFacts ==
  /\ \A d \in Docs : /\ d.items \in [Ids -> Items] /\ d.groups \in [Ids -> Seq(Ids)]
                     /\ d = [items |-> d.items, groups |-> d.groups]
                     /\ \A i \in Ids : d.items[i] \in Items /\ d.groups[i] \in Seq(Ids)
  /\ \A items \in [Ids -> Items], groups \in [Ids -> Seq(Ids)] :
       [items |-> items, groups |-> groups] \in Docs
PROOF
  BY DEF Docs

(* Writing one field of a document, or one entry of it                     *)
LEMMA FieldFacts ==
  ASSUME NEW d \in Docs, NEW new
  PROVE  /\ [d EXCEPT !.items = new] = [items |-> new, groups |-> d.groups]
         /\ [d EXCEPT !.groups = new] = [items |-> d.items, groups |-> new]
PROOF
<1>1. PICK a, b : a = d.items /\ b = d.groups
  OBVIOUS
<1>2. d = [items |-> a, groups |-> b]
  BY <1>1, DocFacts
<1>3. [[items |-> a, groups |-> b] EXCEPT !.items = new] = [items |-> new, groups |-> b]
  OBVIOUS
<1>4. [[items |-> a, groups |-> b] EXCEPT !.groups = new] = [items |-> a, groups |-> new]
  OBVIOUS
<1> QED BY <1>1, <1>2, <1>3, <1>4

(* What is in a document in order                                          *)
LEMMA OrderTyped ==
  ASSUME NEW d, InOrder(d)
  PROVE  /\ d \in Docs
         /\ d.items \in [Ids -> Items] /\ d.groups \in [Ids -> Seq(Ids)]
         /\ \A i \in Ids : i \in Ids \ {NoId} /\ d.items[i] \in Items /\ Plain(d.items[i])
         /\ \A g \in Ids : \A k \in DOMAIN d.groups[g] :
              d.items[d.groups[g][k]] = Elem(g, k - 1)
PROOF
<1>1. \A i \in Ids : i \in Ids \ {NoId}
  BY ItemFacts
<1>2. d \in Docs /\ \A i \in Ids \ {NoId} : Plain(d.items[i])
  BY DEF InOrder, InOrderBut
<1>3. \A g \in Ids : \A k \in DOMAIN d.groups[g] : d.items[d.groups[g][k]] = Elem(g, k - 1)
  BY DEF InOrder, InOrderBut
<1> QED BY <1>1, <1>2, <1>3, DocFacts

(* d with another list g                                                   *)
Relisted(d, g, list) == [items |-> d.items, groups |-> [d.groups EXCEPT ![g] = list]]

(* Giving a document another list g changes that list and nothing else.    *)
LEMMA RelistedFacts ==
  ASSUME NEW d \in Docs, NEW g \in Ids, NEW list \in Seq(Ids)
  PROVE  /\ [d EXCEPT !.groups[g] = list] = Relisted(d, g, list)
         /\ Relisted(d, g, list).items = d.items
         /\ Relisted(d, g, list) \in Docs
         /\ Relisted(d, g, list).groups[g] = list
         /\ \A h \in Ids : h # g => Relisted(d, g, list).groups[h] = d.groups[h]
PROOF
<1>0. d.items \in [Ids -> Items] /\ d.groups \in [Ids -> Seq(Ids)]
  BY DocFacts
<1>1. [d EXCEPT !.groups[g] = list] = [d EXCEPT !.groups = [d.groups EXCEPT ![g] = list]]
  OBVIOUS
<1>2. [d EXCEPT !.groups = [d.groups EXCEPT ![g] = list]] = Relisted(d, g, list)
  BY FieldFacts DEF Relisted
<1>3. /\ [d.groups EXCEPT ![g] = list] \in [Ids -> Seq(Ids)]
      /\ [d.groups EXCEPT ![g] = list][g] = list
      /\ \A h \in Ids : h # g => [d.groups EXCEPT ![g] = list][h] = d.groups[h]
  BY <1>0
<1>4. Relisted(d, g, list) \in Docs
  BY <1>0, <1>3, DocFacts DEF Relisted
<1> QED BY <1>1, <1>2, <1>3, <1>4 DEF Relisted

(* refreshListIndexes gives the elements of list g, from a place on, their *)
(* places for indexes.                                                     *)
LEMMA RefreshFacts ==
  ASSUME NEW d \in Docs, NEW g \in Ids, Distinct(d.groups[g]), NEW start \in Nat
  PROVE  /\ Refresh(d, g, start) \in Docs
         /\ Refresh(d, g, start).groups = d.groups
         /\ \A id \in Ids :
              Refresh(d, g, start).items[id] =
                IF /\ Contains(d.groups[g], id)
                   /\ IndexOf(d.groups[g], id) >= start
                   /\ d.items[id] # Absent
                  THEN [d.items[id] EXCEPT !.index = IndexOf(d.groups[g], id)]
                  ELSE d.items[id]
PROOF
<1> DEFINE new == [id \in Ids |->
      IF /\ Contains(d.groups[g], id)
         /\ IndexOf(d.groups[g], id) >= start
         /\ d.items[id] # Absent
        THEN [d.items[id] EXCEPT !.index = IndexOf(d.groups[g], id)]
        ELSE d.items[id]]
<1>0. /\ d.items \in [Ids -> Items] /\ d.groups \in [Ids -> Seq(Ids)]
      /\ d.groups[g] \in Seq(Ids) /\ \A id \in Ids : d.items[id] \in Items
  BY DocFacts
<1>1. Refresh(d, g, start) = [d EXCEPT !.items = new]
  BY DEF Refresh, Present
<1>2. new \in [Ids -> Items]
  <2>1. ASSUME NEW id \in Ids, Contains(d.groups[g], id)
        PROVE  [d.items[id] EXCEPT !.index = IndexOf(d.groups[g], id)] \in Items
    <3>1. d.groups[g] \in Seq(Ids) /\ d.items[id] \in Items
      BY <1>0
    <3>2. IndexOf(d.groups[g], id) \in Nat
      <4>1. IndexOf(d.groups[g], id) \in 0..(Len(d.groups[g]) - 1)
        BY <2>1, <3>1, IndexOfFacts
      <4> QED BY <4>1
    <3> QED BY <3>1, <3>2, ItemFacts
  <2> QED BY <1>0, <2>1
<1>3. \A id \in Ids : new[id] =
                IF /\ Contains(d.groups[g], id)
                   /\ IndexOf(d.groups[g], id) >= start
                   /\ d.items[id] # Absent
                  THEN [d.items[id] EXCEPT !.index = IndexOf(d.groups[g], id)]
                  ELSE d.items[id]
  OBVIOUS
<1> HIDE DEF new
<1>4. [d EXCEPT !.items = new] = [items |-> new, groups |-> d.groups]
  BY FieldFacts
<1>5. /\ [items |-> new, groups |-> d.groups].items = new
      /\ [items |-> new, groups |-> d.groups].groups = d.groups
  OBVIOUS
<1>6. [items |-> new, groups |-> d.groups] \in Docs
  BY <1>0, <1>2, DocFacts
<1> QED BY <1>1, <1>3, <1>4, <1>5, <1>6

(* refreshListIndexes after a change of the list g: the elements before    *)
(* start have their indexes already.  The item x is left aside.            *)
OrderedTo(d, g, list, start, x) ==
  \A n \in DOMAIN list : list[n] # x =>
    /\ d.items[list[n]].kind = "elem" /\ d.items[list[n]].parent = g
    /\ n <= start => d.items[list[n]].index = n - 1

RenumberedTo(e, d, g, list, x) ==
  /\ e \in Docs /\ e.groups = Relisted(d, g, list).groups
  /\ \A n \in DOMAIN list : list[n] # x => e.items[list[n]] = Elem(g, n - 1)
  /\ \A id \in Ids : ~Contains(list, id) => e.items[id] = d.items[id]
  /\ \A id \in Ids : Akin(d.items[id], e.items[id])

(* If the elements before start have their places for indexes already, all *)
(* have them after refreshListIndexes.                                     *)
LEMMA Renumbered ==
  ASSUME NEW d \in Docs, NEW g \in Ids, NEW list \in Seq(Ids), Distinct(list),
         NEW start \in Nat, NEW x, OrderedTo(d, g, list, start, x)
  PROVE  RenumberedTo(Refresh(Relisted(d, g, list), g, start), d, g, list, x)
PROOF
<1> DEFINE c == Relisted(d, g, list)
<1> DEFINE e == Refresh(c, g, start)
<1> SUFFICES /\ e \in Docs /\ e.groups = c.groups
             /\ \A n \in DOMAIN list : list[n] # x => e.items[list[n]] = Elem(g, n - 1)
             /\ \A id \in Ids : ~Contains(list, id) => e.items[id] = d.items[id]
             /\ \A id \in Ids : Akin(d.items[id], e.items[id])
  BY DEF RenumberedTo
<1>1. c \in Docs /\ c.items = d.items /\ c.groups[g] = list
  BY RelistedFacts
<1> HIDE DEF c
<1>2. /\ e \in Docs /\ e.groups = c.groups
      /\ \A id \in Ids :
           e.items[id] = IF /\ Contains(list, id) /\ IndexOf(list, id) >= start
                            /\ d.items[id] # Absent
                           THEN [d.items[id] EXCEPT !.index = IndexOf(list, id)]
                           ELSE d.items[id]
  <2>1. Distinct(c.groups[g])
    BY <1>1
  <2>2. /\ Refresh(c, g, start) \in Docs
        /\ Refresh(c, g, start).groups = c.groups
        /\ \A id \in Ids :
             Refresh(c, g, start).items[id] =
               IF /\ Contains(c.groups[g], id) /\ IndexOf(c.groups[g], id) >= start
                  /\ c.items[id] # Absent
                 THEN [c.items[id] EXCEPT !.index = IndexOf(c.groups[g], id)]
                 ELSE c.items[id]
    BY <1>1, <2>1, RefreshFacts
  <2> QED BY <1>1, <2>2
<1> HIDE DEF e
<1>3. /\ DOMAIN list = 1..Len(list)
      /\ \A n \in DOMAIN list : list[n] \in Ids /\ Contains(list, list[n])
  <2>1. DOMAIN list = 1..Len(list)
    OBVIOUS
  <2>2. \A n \in DOMAIN list : list[n] \in Ids
    OBVIOUS
  <2>3. \A n \in DOMAIN list : Contains(list, list[n])
    BY <2>1, Zenon DEF Contains
  <2> QED BY <2>1, <2>2, <2>3
<1>4. \A id \in Ids : Contains(list, id) => IndexOf(list, id) \in Nat
  <2> SUFFICES ASSUME NEW id \in Ids, Contains(list, id) PROVE IndexOf(list, id) \in Nat
    OBVIOUS
  <2>1. IndexOf(list, id) \in 0..(Len(list) - 1)
    BY IndexOfFacts
  <2> QED BY <2>1
<1>5. ASSUME NEW id \in Ids PROVE Akin(d.items[id], e.items[id])
  <2>1. d.items[id] \in Items
    BY DocFacts
  <2>2. CASE e.items[id] = d.items[id]
    BY <2>2 DEF Akin
  <2>3. CASE e.items[id] # d.items[id]
    <3>1. /\ IndexOf(list, id) \in Nat
          /\ e.items[id] = [d.items[id] EXCEPT !.index = IndexOf(list, id)]
      BY <1>2, <1>4, <2>3
    <3> QED BY <2>1, <3>1, ItemFacts DEF Akin
  <2> QED BY <2>2, <2>3
<1>6. ASSUME NEW n \in DOMAIN list, list[n] # x PROVE e.items[list[n]] = Elem(g, n - 1)
  <2> DEFINE id == list[n]
  <2>1. id \in Ids /\ Contains(list, id) /\ IndexOf(list, id) = n - 1 /\ n - 1 \in Nat /\ n \in Nat
    BY <1>3, IndexOfFacts
  <2>2. d.items[id] \in Items /\ d.items[id].kind = "elem" /\ d.items[id].parent = g
    BY <1>6, <2>1, DocFacts DEF OrderedTo
  <2>3. n <= start => d.items[id].index = n - 1
    BY <1>6 DEF OrderedTo
  <2> HIDE DEF id
  <2>4. d.items[id].kind = "elem" /\ d.items[id].parent = g /\ d.items[id] # Absent
    BY <2>2 DEF Absent
  <2>5. Participates(d.items[id])
    BY <2>4, ItemFacts DEF Participates
  <2>6. d.items[id] = Elem(g, d.items[id].index)
    BY <2>2, <2>4, <2>5, ItemFacts
  <2>7. [d.items[id] EXCEPT !.index = n - 1] = Elem(g, n - 1)
    <3>1. [d.items[id] EXCEPT !.index = n - 1] \in Items
      BY <2>1, <2>2, ItemFacts
    <3>2. /\ [d.items[id] EXCEPT !.index = n - 1].kind = "elem"
          /\ [d.items[id] EXCEPT !.index = n - 1].parent = g
          /\ [d.items[id] EXCEPT !.index = n - 1].index = n - 1
      BY <2>1, <2>2, <2>4, ItemFacts
    <3> DEFINE t == [d.items[id] EXCEPT !.index = n - 1]
    <3> HIDE DEF t
    <3>3. t = [kind |-> t.kind, parent |-> t.parent, index |-> t.index]
      BY <3>1, ItemFacts DEF t
    <3> QED BY <3>2, <3>3 DEF t, Elem
  <2>8. CASE n - 1 >= start
    <3>1. e.items[id] = [d.items[id] EXCEPT !.index = n - 1]
      BY <1>2, <2>1, <2>4, <2>8
    <3> QED BY <2>7, <3>1 DEF id
  <2>9. CASE ~(n - 1 >= start)
    <3>1. n <= start
      BY <2>1, <2>9
    <3>2. e.items[id] = d.items[id]
      BY <1>2, <2>1, <2>9
    <3> QED BY <2>3, <2>6, <3>1, <3>2 DEF id
  <2> QED BY <2>8, <2>9
<1>7. ASSUME NEW id \in Ids, ~Contains(list, id) PROVE e.items[id] = d.items[id]
  BY <1>2, <1>7
<1> QED BY <1>2, <1>5, <1>6, <1>7 DEF e, c

(* removeFromListGroup: the others are in order.                           *)
LEMMA TakenOut ==
  ASSUME NEW d, InOrder(d), NEW id \in Ids
  PROVE  LET e == RemoveFromListGroup(d, id, d.items[id])
         IN  /\ InOrderBut(e, id)
             /\ e.groups = [g \in Ids |-> RemoveElement(d.groups[g], id)]
             /\ e.items[id] = d.items[id]
             /\ \A i \in Ids : Akin(d.items[i], e.items[i])
             /\ \A i \in Ids : ~Participates(d.items[i]) => e.items[i] = d.items[i]
PROOF
<1> DEFINE s == d.items[id]
<1> DEFINE p == s.parent
<1> DEFINE e == RemoveFromListGroup(d, id, s)
<1>0. d \in Docs
  BY DEF InOrder, InOrderBut
<1>1. /\ d.items \in [Ids -> Items] /\ d.groups \in [Ids -> Seq(Ids)]
      /\ s \in Items /\ id \in Ids \ {NoId}
  BY <1>0, DocFacts, ItemFacts
<1>2. ASSUME NEW g \in Ids, ~(Participates(s) /\ g = p)
      PROVE  ~Contains(d.groups[g], id) /\ RemoveElement(d.groups[g], id) = d.groups[g]
  <2>1. ~Contains(d.groups[g], id)
    BY <1>1, <1>2, OrderFacts DEF InOrder
  <2> QED BY <2>1 DEF RemoveElement
<1>3. CASE ~Participates(s)
  <2>1. e = d
    BY <1>3 DEF RemoveFromListGroup
  <2>2. d.groups = [g \in Ids |-> RemoveElement(d.groups[g], id)]
    BY <1>1, <1>2, <1>3
  <2>3. \A g \in Ids : \A k \in DOMAIN d.groups[g] : d.groups[g][k] # id
    <3> SUFFICES ASSUME NEW g \in Ids, NEW k \in DOMAIN d.groups[g] PROVE d.groups[g][k] # id
      OBVIOUS
    <3>1. ~Contains(d.groups[g], id)
      BY <1>2, <1>3
    <3>2. k \in 1..Len(d.groups[g])
      BY <1>1
    <3> QED BY <3>1, <3>2 DEF Contains
  <2>4. InOrderBut(d, id)
    <3>1. \A i \in Ids \ {id} : i \in Ids \ {NoId}
      BY ItemFacts
    <3>2. /\ d \in Docs
          /\ \A g \in Ids : \A k \in DOMAIN d.groups[g] : d.items[d.groups[g][k]] = Elem(g, k - 1)
          /\ \A i \in Ids \ {id} :
               /\ Participates(d.items[i]) => Contains(d.groups[d.items[i].parent], i)
               /\ Plain(d.items[i])
      BY <3>1 DEF InOrder, InOrderBut
    <3> QED BY <2>3, <3>2 DEF InOrderBut
  <2> HIDE DEF e
  <2> QED BY <2>1, <2>2, <2>4 DEF Akin, e
<1>4. CASE Participates(s)
  <2> DEFINE group == d.groups[p]
  <2> DEFINE k == IndexOf(group, id) + 1
  <2> DEFINE list == RemoveElement(group, id)
  <2>1. /\ p \in Ids /\ group \in Seq(Ids) /\ Distinct(group) /\ Contains(group, id)
        /\ s = Elem(p, IndexOf(group, id))
    <3>1. p \in Ids
      BY <1>1, <1>4, ItemFacts
    <3>2. Contains(group, id)
      BY <1>1, <1>4, <3>1, OrderFacts DEF InOrder
    <3> QED BY <3>1, <3>2, OrderFacts DEF InOrder
  <2>2. /\ k \in DOMAIN group /\ group[k] = id /\ k - 1 = IndexOf(group, id)
        /\ k \in Nat /\ k - 1 \in Nat
    <3>1. /\ IndexOf(group, id) + 1 \in DOMAIN group
          /\ IndexOf(group, id) \in 0..(Len(group) - 1)
          /\ group[IndexOf(group, id) + 1] = id
      BY <2>1, IndexOfFacts
    <3> QED BY <3>1
  <2>3. e = Refresh(Relisted(d, p, list), p, k - 1)
    <3>1. list \in Seq(Ids)
      <4> HIDE DEF group, k
      <4> QED BY <2>1, <2>2, RemoveElementFacts
    <3>2. [d EXCEPT !.groups[p] = list] = Relisted(d, p, list)
      <4> HIDE DEF list, p
      <4> QED BY <1>0, <2>1, <3>1, RelistedFacts
    <3> QED BY <1>4, <2>1, <2>2, <3>2 DEF RemoveFromListGroup
  <2>4. \A n \in DOMAIN group : d.items[group[n]] = Elem(p, n - 1) /\ n \in Nat /\ n - 1 \in Nat
    <3>1. \A n \in DOMAIN group : d.items[group[n]] = Elem(p, n - 1)
      BY <2>1, OrderTyped
    <3>2. \A n \in DOMAIN group : n \in Nat /\ n - 1 \in Nat
      BY <2>1
    <3> QED BY <3>1, <3>2
  <2> HIDE DEF group, k
  <2>5. /\ list \in Seq(Ids) /\ Len(list) = Len(group) - 1
        /\ \A n \in 1..(k - 1) : list[n] = group[n]
        /\ \A n \in k..(Len(group) - 1) : list[n] = group[n + 1]
        /\ Distinct(list)
        /\ \A i : Contains(list, i) <=> Contains(group, i) /\ i # id
    <3> HIDE DEF list
    <3>1. RemoveElement(group, group[k]) = list
      BY <2>2 DEF list
    <3>2. /\ RemoveElement(group, group[k]) \in Seq(Ids)
          /\ Len(RemoveElement(group, group[k])) = Len(group) - 1
          /\ \A n \in 1..(k - 1) : RemoveElement(group, group[k])[n] = group[n]
          /\ \A n \in k..(Len(group) - 1) : RemoveElement(group, group[k])[n] = group[n + 1]
      BY <2>1, <2>2, RemoveElementFacts
    <3>3. /\ Distinct(RemoveElement(group, group[k]))
          /\ \A i : Contains(RemoveElement(group, group[k]), i)
                      <=> Contains(group, i) /\ i # group[k]
      BY <2>1, <2>2, Removed
    <3> QED BY <2>2, <3>1, <3>2, <3>3
  <2>6. DOMAIN group = 1..Len(group) /\ DOMAIN list = 1..(Len(group) - 1) /\ Len(group) \in Nat
    BY <2>1, <2>5
  <2> HIDE DEF list
  <2>7. ASSUME NEW n \in DOMAIN list
        PROVE  /\ list[n] # id
               /\ d.items[list[n]].kind = "elem" /\ d.items[list[n]].parent = p
               /\ n <= k - 1 => d.items[list[n]].index = n - 1
    <3>1. CASE n <= k - 1
      <4>1. n \in 1..(k - 1) /\ n \in DOMAIN group /\ n # k
        BY <2>2, <2>6, <3>1
      <4>2. list[n] = group[n] /\ group[n] # id
        BY <2>1, <2>2, <2>5, <4>1 DEF Distinct
      <4>3. d.items[list[n]] = Elem(p, n - 1) /\ n - 1 \in Nat
        BY <2>4, <4>1, <4>2
      <4>4. /\ d.items[list[n]].kind = "elem" /\ d.items[list[n]].parent = p
            /\ d.items[list[n]].index = n - 1
        <5> HIDE DEF p
        <5> QED BY <2>1, <4>3 DEF Elem
      <4> QED BY <4>2, <4>4
    <3>2. CASE ~(n <= k - 1)
      <4>1. n \in k..(Len(group) - 1) /\ n + 1 \in DOMAIN group /\ n + 1 # k /\ n + 1 - 1 \in Nat
        BY <2>2, <2>6, <3>2
      <4>2. list[n] = group[n + 1] /\ group[n + 1] # id
        BY <2>1, <2>2, <2>5, <4>1 DEF Distinct
      <4>3. d.items[list[n]] = Elem(p, n + 1 - 1)
        BY <2>4, <4>1, <4>2
      <4>4. d.items[list[n]].kind = "elem" /\ d.items[list[n]].parent = p
        <5> HIDE DEF p
        <5> QED BY <2>1, <4>3 DEF Elem
      <4> QED BY <3>2, <4>2, <4>4
    <3> QED BY <3>1, <3>2
  <2>8. /\ e \in Docs /\ e.groups = Relisted(d, p, list).groups
        /\ \A n \in DOMAIN list : e.items[list[n]] = Elem(p, n - 1)
        /\ \A i \in Ids : ~Contains(list, i) => e.items[i] = d.items[i]
        /\ \A i \in Ids : Akin(d.items[i], e.items[i])
    <3> DEFINE f == Refresh(Relisted(d, p, list), p, k - 1)
    <3> HIDE DEF e, f, s, p
    <3>1. OrderedTo(d, p, list, k - 1, id)
      BY <2>7 DEF OrderedTo
    <3>2. /\ f \in Docs /\ f.groups = Relisted(d, p, list).groups
          /\ \A n \in DOMAIN list : list[n] # id => f.items[list[n]] = Elem(p, n - 1)
          /\ \A i \in Ids : ~Contains(list, i) => f.items[i] = d.items[i]
          /\ \A i \in Ids : Akin(d.items[i], f.items[i])
      <4>1. RenumberedTo(f, d, p, list, id)
        BY <1>0, <2>1, <2>2, <2>5, <3>1, Renumbered DEF f
      <4> QED BY <4>1 DEF RenumberedTo
    <3> QED BY <2>3, <2>7, <3>2 DEF f
  <2> HIDE DEF e
  <2>9. e.groups \in [Ids -> Seq(Ids)] /\ e.groups[p] = list
        /\ \A g \in Ids : g # p => e.groups[g] = d.groups[g]
    <3> HIDE DEF p
    <3>1. /\ Relisted(d, p, list).groups[p] = list
          /\ \A g \in Ids : g # p => Relisted(d, p, list).groups[g] = d.groups[g]
      BY <1>0, <2>1, <2>5, RelistedFacts
    <3>2. e.groups \in [Ids -> Seq(Ids)]
      BY <2>8, DocFacts
    <3> QED BY <2>8, <3>1, <3>2
  <2>10. e.groups = [g \in Ids |-> RemoveElement(d.groups[g], id)]
    <3> HIDE DEF s, p
    <3>1. \A g \in Ids : e.groups[g] = RemoveElement(d.groups[g], id)
      BY <1>2, <2>9 DEF list, group
    <3> QED BY <2>9, <3>1
  <2>11. ASSUME NEW i \in Ids, Contains(list, i)
         PROVE  i # id /\ Participates(d.items[i]) /\ d.items[i].parent = p
    <3>1. i # id /\ Contains(group, i) /\ i \in Ids \ {NoId}
      BY <2>5, <2>11, ItemFacts
    <3> QED BY <2>1, <3>1, OrderFacts DEF InOrder, group
  <2>12. e.items[id] = d.items[id]
    BY <2>5, <2>8
  <2>13. \A i \in Ids : ~Participates(d.items[i]) => e.items[i] = d.items[i]
    BY <2>8, <2>11
  <2>14. ASSUME NEW g \in Ids, NEW n \in DOMAIN e.groups[g]
         PROVE  e.groups[g][n] # id /\ e.items[e.groups[g][n]] = Elem(g, n - 1)
    <3>1. CASE g = p
      BY <2>7, <2>8, <2>9, <2>14, <3>1
    <3>2. CASE g # p
      <4> DEFINE i == d.groups[g][n]
      <4>1. e.groups[g] = d.groups[g] /\ n \in DOMAIN d.groups[g]
        BY <2>9, <2>14, <3>2
      <4>2. d.items[i] = Elem(g, n - 1) /\ n - 1 \in Nat
        BY <4>1, OrderFacts DEF InOrder, InOrderBut
      <4>3. Contains(d.groups[g], i) /\ i \in Ids
        <5>1. d.groups[g] \in Seq(Ids)
          BY <1>1
        <5>2. n \in 1..Len(d.groups[g])
          BY <4>1, <5>1
        <5> QED BY <5>1, <5>2 DEF Contains
      <4>4. i # id
        BY <1>2, <3>2, <4>3
      <4>5. d.items[i].parent # p
        BY <3>2, <4>2, ItemFacts
      <4>6. ~Contains(list, i)
        BY <2>11, <4>3, <4>5
      <4> QED BY <2>8, <4>1, <4>2, <4>3, <4>4, <4>6
    <3> QED BY <3>1, <3>2
  <2>15. ASSUME NEW i \in Ids \ {id}
         PROVE  /\ Participates(e.items[i]) => Contains(e.groups[e.items[i].parent], i)
                /\ Plain(e.items[i])
    <3>1. i \in Ids \ {NoId} /\ i # id
      BY ItemFacts
    <3>2. CASE Contains(list, i)
      <4>1. e.items[i].parent = p /\ Participates(e.items[i])
        BY <2>8, <2>11, <3>1, <3>2 DEF Akin, Participates
      <4> QED BY <2>9, <3>2, <4>1 DEF Plain
    <3>3. CASE ~Contains(list, i)
      <4>1. e.items[i] = d.items[i]
        BY <2>8, <3>3
      <4>2. Plain(d.items[i])
        BY <3>1 DEF InOrder, InOrderBut
      <4>3. ASSUME Participates(d.items[i]) PROVE Contains(e.groups[d.items[i].parent], i)
        <5>1. d.items[i].parent \in Ids /\ Contains(d.groups[d.items[i].parent], i)
          BY <1>1, <3>1, <4>3, ItemFacts DEF InOrder, InOrderBut
        <5>2. d.items[i].parent # p
          BY <2>5, <3>1, <3>3, <5>1 DEF group
        <5> QED BY <2>9, <5>1, <5>2
      <4> QED BY <4>1, <4>2, <4>3
    <3> QED BY <3>2, <3>3
  <2>16. InOrderBut(e, id)
    BY <2>8, <2>14, <2>15 DEF InOrderBut
  <2> QED BY <2>8, <2>10, <2>12, <2>13, <2>16 DEF e
<1> QED BY <1>3, <1>4


(* insertIntoListGroup, and the item stored: all are in order again.       *)
LEMMA PutIn ==
  ASSUME NEW d, NEW id \in Ids, InOrderBut(d, id), NEW s \in Items, Plain(s)
  PROVE  LET r == InsertIntoListGroup(d, id, s)
             e == [r.doc EXCEPT !.items[id] = s]
         IN  /\ r.ok <=> (Participates(s) => InsertableAt(d.groups[s.parent], s.index))
             /\ r.ok \in BOOLEAN /\ r.doc \in Docs
             /\ ~r.ok => r = Throws(d)
             /\ r.ok =>
                  /\ r = Done(r.doc)
                  /\ InOrder(e)
                  /\ e.groups = [g \in Ids |->
                       IF Participates(s) /\ g = s.parent
                         THEN InsertElement(d.groups[g], s.index, id) ELSE d.groups[g]]
                  /\ e.items[id] = s
                  /\ AkinBut(d, e, id)
                  /\ \A i \in Ids \ {id} : ~Participates(d.items[i]) => e.items[i] = d.items[i]
PROOF
<1> DEFINE p == s.parent
<1> DEFINE r == InsertIntoListGroup(d, id, s)
<1> DEFINE e == [r.doc EXCEPT !.items[id] = s]
<1>1. d \in Docs /\ id \in Ids \ {NoId}
  BY ItemFacts DEF InOrderBut
<1>2. \A f : Done(f).ok = TRUE /\ Done(f).doc = f /\ Throws(f).ok = FALSE /\ Throws(f).doc = f
  BY DEF Done, Throws
<1>3. ASSUME NEW f \in Docs
      PROVE  LET h == [f EXCEPT !.items[id] = s]
             IN  /\ h \in Docs /\ h.groups = f.groups /\ h.items[id] = s
                 /\ \A i \in Ids : i # id => h.items[i] = f.items[i]
  <2>1. [f EXCEPT !.items[id] = s] = [f EXCEPT !.items = [f.items EXCEPT ![id] = s]]
    OBVIOUS
  <2>2. f.items \in [Ids -> Items] /\ f.groups \in [Ids -> Seq(Ids)]
    BY DocFacts
  <2> DEFINE new == [f.items EXCEPT ![id] = s]
  <2>3. new \in [Ids -> Items] /\ new[id] = s /\ \A i \in Ids : i # id => new[i] = f.items[i]
    BY <2>2
  <2> HIDE DEF new
  <2>4. [f EXCEPT !.items = new] = [items |-> new, groups |-> f.groups]
    BY FieldFacts
  <2>5. [items |-> new, groups |-> f.groups] \in Docs
    BY <2>2, <2>3, DocFacts
  <2> QED BY <2>1, <2>3, <2>4, <2>5 DEF new
<1>4. CASE ~Participates(s)
  <2>1. r = Done(d)
    BY <1>4 DEF InsertIntoListGroup
  <2>2. r.doc = d /\ r.ok
    BY <1>2, <2>1
  <2>3. /\ e \in Docs /\ e.groups = d.groups /\ e.items[id] = s
        /\ \A i \in Ids : i # id => e.items[i] = d.items[i]
    BY <1>1, <1>3, <2>2
  <2> HIDE DEF e, r
  <2>4. e.groups = [g \in Ids |-> IF Participates(s) /\ g = p
                       THEN InsertElement(d.groups[g], s.index, id) ELSE d.groups[g]]
    BY <1>1, <1>4, <2>3, DocFacts
  <2>5. InOrder(e)
    <3>1. ASSUME NEW g \in Ids, NEW k \in DOMAIN e.groups[g]
          PROVE  e.groups[g][k] # NoId /\ e.items[e.groups[g][k]] = Elem(g, k - 1)
      <4>1. k \in DOMAIN d.groups[g] /\ e.groups[g] = d.groups[g]
        BY <2>3, <3>1
      <4>2. d.groups[g][k] # id /\ d.items[d.groups[g][k]] = Elem(g, k - 1)
        BY <4>1 DEF InOrderBut
      <4>3. d.groups[g][k] \in Ids
        BY <1>1, <4>1, DocFacts
      <4> QED BY <2>3, <4>1, <4>2, <4>3, ItemFacts
    <3>2. ASSUME NEW i \in Ids
          PROVE  /\ Participates(e.items[i]) => Contains(e.groups[e.items[i].parent], i)
                 /\ Plain(e.items[i])
      <4>1. CASE i = id
        BY <1>4, <2>3, <4>1
      <4>2. CASE i # id
        <5>1. e.items[i] = d.items[i] /\ i \in Ids \ {id}
          BY <2>3, <4>2
        <5>2. /\ Participates(d.items[i]) => Contains(d.groups[d.items[i].parent], i)
              /\ Plain(d.items[i])
          BY <5>1 DEF InOrderBut
        <5> QED BY <2>3, <5>1, <5>2
      <4> QED BY <4>1, <4>2
    <3> QED BY <2>3, <3>1, <3>2 DEF InOrder, InOrderBut
  <2>6. AkinBut(d, e, id)
    BY <2>3 DEF AkinBut, Akin
  <2> QED BY <1>1, <1>2, <1>4, <2>1, <2>2, <2>3, <2>4, <2>5, <2>6 DEF e, r
<1>5. CASE Participates(s) /\ ~InsertableAt(d.groups[p], s.index)
  <2>1. r = Throws(d)
    BY <1>5 DEF InsertIntoListGroup
  <2> HIDE DEF r
  <2> QED BY <1>1, <1>2, <1>5, <2>1 DEF r
<1>6. CASE Participates(s) /\ InsertableAt(d.groups[p], s.index)
  <2> DEFINE group == d.groups[p]
  <2> DEFINE t == s.index
  <2> DEFINE list == InsertElement(group, t, id)
  <2> DEFINE f == Refresh(Relisted(d, p, list), p, t + 1)
  <2>1. /\ p \in Ids /\ t \in 0..Len(group) /\ t \in Nat /\ t + 1 \in Nat /\ s = Elem(p, t)
        /\ group \in Seq(Ids) /\ Distinct(group) /\ ~Contains(group, id)
    <3>1. p \in Ids /\ s = Elem(p, t) /\ t \in Nat
      BY <1>6, ItemFacts
    <3>2. group \in Seq(Ids) /\ Distinct(group) /\ ~Contains(group, id)
      BY <3>1, OrderFacts
    <3>3. t \in 0..Len(group)
      BY <1>6 DEF InsertableAt
    <3> QED BY <3>1, <3>2, <3>3
  <2>2. \A n \in DOMAIN group : group[n] # id /\ d.items[group[n]] = Elem(p, n - 1)
    BY <2>1 DEF InOrderBut
  <2>0. InsertedTo(list, group, t, id)
    <3> HIDE DEF group, t
    <3> QED BY <2>1, InsertElementFacts
  <2>3. r = Done(f)
    <3>1. list \in Seq(Ids)
      <4> HIDE DEF list, group, t
      <4> QED BY <2>0 DEF InsertedTo
    <3>2. [d EXCEPT !.groups[p] = list] = Relisted(d, p, list)
      <4> HIDE DEF list, p
      <4> QED BY <1>1, <2>1, <3>1, RelistedFacts
    <3> QED BY <1>6, <3>2 DEF InsertIntoListGroup
  <2> HIDE DEF group, t
  <2>4. /\ list \in Seq(Ids) /\ Len(list) = Len(group) + 1 /\ list[t + 1] = id
        /\ \A n \in 1..t : list[n] = group[n]
        /\ \A n \in (t + 2)..(Len(group) + 1) : list[n] = group[n - 1]
    <3> HIDE DEF list
    <3> QED BY <2>0 DEF InsertedTo
  <2>5. Distinct(list) /\ \A i : Contains(list, i) <=> Contains(group, i) \/ i = id
    BY <2>1, Inserted
  <2> HIDE DEF list
  <2>6. DOMAIN group = 1..Len(group) /\ DOMAIN list = 1..(Len(group) + 1) /\ Len(group) \in Nat
    BY <2>1, <2>4
  <2>7. ASSUME NEW n \in DOMAIN list, list[n] # id
        PROVE  /\ d.items[list[n]].kind = "elem" /\ d.items[list[n]].parent = p
               /\ n <= t + 1 => d.items[list[n]].index = n - 1
    <3>1. n # t + 1 /\ n \in Nat
      BY <2>4, <2>6, <2>7
    <3>2. CASE n <= t
      <4>1. n \in 1..t /\ n \in DOMAIN group
        BY <2>1, <2>6, <3>2
      <4>2. d.items[list[n]] = Elem(p, n - 1)
        BY <2>2, <2>4, <4>1
      <4> HIDE DEF p
      <4> QED BY <4>2 DEF Elem
    <3>3. CASE ~(n <= t)
      <4>1. n \in (t + 2)..(Len(group) + 1) /\ n - 1 \in DOMAIN group /\ ~(n <= t + 1)
        BY <2>1, <2>6, <3>1, <3>3
      <4>2. d.items[list[n]] = Elem(p, n - 1 - 1)
        BY <2>2, <2>4, <4>1
      <4> HIDE DEF p
      <4> QED BY <4>1, <4>2 DEF Elem
    <3> QED BY <3>2, <3>3
  <2>8. /\ f \in Docs /\ f.groups = Relisted(d, p, list).groups
        /\ \A n \in DOMAIN list : list[n] # id => f.items[list[n]] = Elem(p, n - 1)
        /\ \A i \in Ids : ~Contains(list, i) => f.items[i] = d.items[i]
        /\ \A i \in Ids : Akin(d.items[i], f.items[i])
    <3> HIDE DEF p
    <3>1. PICK start : start = t + 1
      OBVIOUS
    <3>2. OrderedTo(d, p, list, start, id)
      BY <2>7, <3>1 DEF OrderedTo
    <3> HIDE DEF e, r, f
    <3>3. f = Refresh(Relisted(d, p, list), p, start)
      BY <3>1 DEF f
    <3>4. start \in Nat /\ d \in Docs /\ p \in Ids /\ list \in Seq(Ids) /\ Distinct(list)
      BY <1>1, <2>1, <2>4, <2>5, <3>1
    <3>5. RenumberedTo(f, d, p, list, id)
      BY <3>2, <3>3, <3>4, Renumbered
    <3> QED BY <3>5 DEF RenumberedTo
  <2>9. /\ f.groups \in [Ids -> Seq(Ids)] /\ f.groups[p] = list
        /\ \A g \in Ids : g # p => f.groups[g] = d.groups[g]
    <3> HIDE DEF p
    <3>1. /\ Relisted(d, p, list).groups[p] = list
          /\ \A g \in Ids : g # p => Relisted(d, p, list).groups[g] = d.groups[g]
      BY <1>1, <2>1, <2>4, RelistedFacts
    <3> HIDE DEF f
    <3>2. f.groups \in [Ids -> Seq(Ids)]
      BY <2>8, DocFacts
    <3> QED BY <2>8, <3>1, <3>2
  <2> HIDE DEF f
  <2>10. r.doc = f /\ r.ok
    BY <1>2, <2>3
  <2>11. /\ e \in Docs /\ e.groups = f.groups /\ e.items[id] = s
         /\ \A i \in Ids : i # id => e.items[i] = f.items[i]
    BY <1>1, <1>3, <2>8, <2>10
  <2> HIDE DEF e, r
  <2>12. e.groups = [g \in Ids |-> IF Participates(s) /\ g = p
                        THEN InsertElement(d.groups[g], t, id) ELSE d.groups[g]]
    <3> HIDE DEF p
    <3>1. \A g \in Ids : e.groups[g] = IF Participates(s) /\ g = p
                        THEN InsertElement(d.groups[g], t, id) ELSE d.groups[g]
      BY <1>6, <2>9, <2>11 DEF list, group
    <3> QED BY <2>9, <2>11, <3>1
  <2>13. ASSUME NEW g \in Ids, NEW k \in DOMAIN e.groups[g]
         PROVE  e.groups[g][k] # NoId /\ e.items[e.groups[g][k]] = Elem(g, k - 1)
    <3>1. CASE g = p
      <4>1. k \in DOMAIN list /\ e.groups[g] = list /\ list[k] \in Ids
        <5>1. k \in DOMAIN list /\ e.groups[g] = list
          BY <2>9, <2>11, <2>13, <3>1
        <5> QED BY <2>4, <5>1
      <4>2. CASE list[k] = id
        <5>1. t + 1 \in DOMAIN list
          BY <2>1, <2>6
        <5>2. k = t + 1
          BY <2>4, <2>5, <4>1, <4>2, <5>1 DEF Distinct
        <5>3. k - 1 = t
          BY <2>1, <5>2
        <5> QED BY <1>1, <2>1, <2>11, <3>1, <4>1, <4>2, <5>3, ItemFacts
      <4>3. CASE list[k] # id
        BY <2>8, <2>11, <3>1, <4>1, <4>3, ItemFacts
      <4> QED BY <4>2, <4>3
    <3>2. CASE g # p
      <4> DEFINE i == d.groups[g][k]
      <4>1. e.groups[g] = d.groups[g] /\ k \in DOMAIN d.groups[g]
        BY <2>9, <2>11, <2>13, <3>2
      <4>2. i # id /\ d.items[i] = Elem(g, k - 1) /\ k - 1 \in Nat
        <5>1. i # id /\ d.items[i] = Elem(g, k - 1)
          BY <4>1 DEF InOrderBut
        <5>2. k - 1 \in Nat
          BY <4>1, OrderFacts
        <5> QED BY <5>1, <5>2
      <4>3. i \in Ids
        BY <1>1, <4>1, DocFacts
      <4>4. ~Contains(list, i)
        <5>1. d.items[i].parent # p
          BY <3>2, <4>2, ItemFacts
        <5>2. ~Contains(group, i)
          <6>1. Contains(d.groups[p], i) => d.items[i].parent = p
            <7>1. \A j \in Ids \ {id} :
                    Contains(d.groups[p], j) => d.items[j].parent = p
              BY <2>1, OrderFacts
            <7> QED BY <4>2, <4>3, <7>1
          <6> QED BY <5>1, <6>1 DEF group
        <5> QED BY <2>5, <4>2, <5>2
      <4> QED BY <2>8, <2>11, <4>1, <4>2, <4>3, <4>4, ItemFacts
    <3> QED BY <3>1, <3>2
  <2>14. ASSUME NEW i \in Ids
         PROVE  /\ Participates(e.items[i]) => Contains(e.groups[e.items[i].parent], i)
                /\ Plain(e.items[i])
    <3>1. CASE i = id
      BY <2>5, <2>9, <2>11, <3>1
    <3>2. CASE i # id /\ Contains(list, i)
      <4>1. Contains(group, i) /\ i \in Ids \ {id}
        BY <2>5, <3>2
      <4>2. Participates(d.items[i]) /\ d.items[i].parent = p
        BY <2>1, <4>1, OrderFacts DEF group
      <4>3. e.items[i].parent = p /\ Participates(e.items[i])
        BY <2>8, <2>11, <3>2, <4>2 DEF Akin, Participates
      <4> QED BY <2>9, <2>11, <3>2, <4>3 DEF Plain
    <3>3. CASE i # id /\ ~Contains(list, i)
      <4>1. e.items[i] = d.items[i] /\ i \in Ids \ {id} /\ d.items[i] \in Items
        BY <1>1, <2>8, <2>11, <3>3, DocFacts
      <4>2. /\ Participates(d.items[i]) => Contains(d.groups[d.items[i].parent], i)
            /\ Plain(d.items[i])
        BY <4>1 DEF InOrderBut
      <4>3. ASSUME Participates(d.items[i]) PROVE Contains(e.groups[d.items[i].parent], i)
        <5>1. d.items[i].parent \in Ids
          BY <4>1, <4>3, ItemFacts
        <5>2. d.items[i].parent # p
          BY <2>5, <3>3, <4>2, <4>3 DEF group
        <5> QED BY <2>9, <2>11, <4>2, <4>3, <5>1, <5>2
      <4> QED BY <4>1, <4>2, <4>3
    <3> QED BY <3>1, <3>2, <3>3
  <2>15. InOrder(e)
    BY <2>11, <2>13, <2>14 DEF InOrder, InOrderBut
  <2>16. AkinBut(d, e, id)
    BY <2>8, <2>11 DEF AkinBut
  <2>17. ASSUME NEW i \in Ids \ {id}, ~Participates(d.items[i]) PROVE e.items[i] = d.items[i]
    <3>1. ~Contains(list, i)
      BY <2>1, <2>5, <2>17, OrderFacts DEF group
    <3> QED BY <2>8, <2>11, <3>1
  <2>18. r = Done(r.doc)
    BY <2>3, <2>10
  <2> QED
    BY <1>1, <1>6, <2>8, <2>10, <2>11, <2>12, <2>15, <2>16, <2>17, <2>18 DEF e, r, t
<1> QED BY <1>4, <1>5, <1>6

(* id leaves its list and gets the snapshot t, in its list: what inserting *)
(* an item, erasing one (t being Absent) and updating its association do   *)
(* once they have checked the parent.                                      *)
Move(d, id, t) ==
  Stored(InsertIntoListGroup(RemoveFromListGroup(d, id, d.items[id]), id, t), id, t)

(* d's list g without id, and with it as t says                            *)
ListAfter(d, id, t, g) ==
  IF Participates(t) /\ g = t.parent
    THEN InsertElement(RemoveElement(d.groups[g], id), t.index, id)
    ELSE RemoveElement(d.groups[g], id)

Movable(d, id, t) ==
  Participates(t) => InsertableAt(RemoveElement(d.groups[t.parent], id), t.index)

(* What a move does: it succeeds exactly if the target list takes the item *)
(* at that place, the document it leaves is in order with the item where   *)
(* it should be, and everything else differs in indexes alone.             *)
LEMMA Moved ==
  ASSUME NEW d, InOrder(d), NEW id \in Ids, NEW t \in Items, Plain(t)
  PROVE  LET r == Move(d, id, t)
         IN  /\ r.ok \in BOOLEAN /\ r.doc \in Docs
             /\ r.ok <=> Movable(d, id, t)
             /\ r.ok => /\ r = Done(r.doc) /\ InOrder(r.doc) /\ r.doc.items[id] = t
                        /\ r.doc.groups = [g \in Ids |-> ListAfter(d, id, t, g)]
             /\ AkinBut(d, r.doc, id)
             /\ \A i \in Ids : Plain(r.doc.items[i])
             /\ \A i \in Ids \ {id} :
                  ~Participates(d.items[i]) => r.doc.items[i] = d.items[i]
             /\ \A g \in Ids \ (GroupsOf(d.items[id]) \cup GroupsOf(t)) :
                  r.doc.groups[g] = d.groups[g]
PROOF
<1> DEFINE f == RemoveFromListGroup(d, id, d.items[id])
<1> DEFINE q == InsertIntoListGroup(f, id, t)
<1> DEFINE e == [q.doc EXCEPT !.items[id] = t]
<1> DEFINE r == Move(d, id, t)
<1>1. /\ InOrderBut(f, id)
      /\ f.groups = [g \in Ids |-> RemoveElement(d.groups[g], id)]
      /\ f.items[id] = d.items[id]
      /\ \A i \in Ids : Akin(d.items[i], f.items[i])
      /\ \A i \in Ids : ~Participates(d.items[i]) => f.items[i] = d.items[i]
  BY TakenOut
<1> HIDE DEF f
<1>2. /\ q.ok <=> (Participates(t) => InsertableAt(f.groups[t.parent], t.index))
      /\ q.ok \in BOOLEAN /\ q.doc \in Docs
      /\ ~q.ok => q = Throws(f)
      /\ q.ok =>
           /\ q = Done(q.doc)
           /\ InOrder(e)
           /\ e.groups = [g \in Ids |-> IF Participates(t) /\ g = t.parent
                            THEN InsertElement(f.groups[g], t.index, id) ELSE f.groups[g]]
           /\ e.items[id] = t
           /\ AkinBut(f, e, id)
           /\ \A i \in Ids \ {id} : ~Participates(f.items[i]) => e.items[i] = f.items[i]
  BY <1>1, PutIn
<1>3. /\ Throws(f).ok = FALSE /\ Throws(f).doc = f
      /\ Done(e).ok = TRUE /\ Done(e).doc = e
  BY DEF Throws, Done
<1>4. r = IF q.ok THEN Done(e) ELSE q
  BY DEF Move, Stored, f
<1> HIDE DEF q, e, r
<1>5. Participates(t) => t.parent \in Ids
  BY ItemFacts
<1>6. q.ok <=> Movable(d, id, t)
  <2>1. CASE Participates(t)
    <3>1. f.groups[t.parent] = RemoveElement(d.groups[t.parent], id)
      BY <1>1, <1>5, <2>1
    <3> QED BY <1>2, <2>1, <3>1 DEF Movable
  <2>2. CASE ~Participates(t)
    BY <1>2, <2>2 DEF Movable
  <2> QED BY <2>1, <2>2
<1>7. \A i \in Ids : i # NoId
  BY ItemFacts
<1>8. ASSUME NEW g \in Ids, ~(Participates(d.items[id]) /\ g = d.items[id].parent)
      PROVE  f.groups[g] = d.groups[g]
  <2>1. ~Contains(d.groups[g], id)
    BY <1>7, <1>8, OrderFacts DEF InOrder
  <2> QED BY <1>1, <2>1 DEF RemoveElement
<1>9. \A i \in Ids : Participates(d.items[i]) <=> Participates(f.items[i])
  BY <1>1 DEF Akin, Participates
<1>10. ASSUME NEW g \in Ids \ (GroupsOf(d.items[id]) \cup GroupsOf(t))
       PROVE  /\ ~(Participates(d.items[id]) /\ g = d.items[id].parent)
              /\ ~(Participates(t) /\ g = t.parent)
  BY DEF GroupsOf
<1>11. CASE q.ok
  <2>1. r = Done(e) /\ r.ok = TRUE /\ r.doc = e
    BY <1>3, <1>4, <1>11
  <2>2. e.groups = [g \in Ids |-> ListAfter(d, id, t, g)]
    BY <1>1, <1>2, <1>11 DEF ListAfter
  <2>3. e \in Docs /\ \A i \in Ids : Plain(e.items[i])
    BY <1>2, <1>7, <1>11 DEF InOrder, InOrderBut
  <2>4. AkinBut(d, e, id)
    BY <1>1, <1>2, <1>11 DEF AkinBut, Akin
  <2>5. \A i \in Ids \ {id} : ~Participates(d.items[i]) => e.items[i] = d.items[i]
    BY <1>1, <1>2, <1>9, <1>11
  <2>6. ASSUME NEW g \in Ids \ (GroupsOf(d.items[id]) \cup GroupsOf(t))
        PROVE  e.groups[g] = d.groups[g]
    BY <1>2, <1>8, <1>11, <1>10
  <2> QED BY <1>2, <1>6, <1>11, <2>1, <2>2, <2>3, <2>4, <2>5, <2>6 DEF r
<1>12. CASE ~q.ok
  <2>1. r.ok = FALSE /\ r.doc = f
    BY <1>2, <1>3, <1>4, <1>12
  <2>2. f \in Docs /\ \A i \in Ids : Plain(f.items[i])
    <3>1. f \in Docs /\ \A i \in Ids \ {id} : Plain(f.items[i])
      BY <1>1 DEF InOrderBut
    <3>2. Plain(d.items[id])
      BY <1>7 DEF InOrder, InOrderBut
    <3> QED BY <1>1, <3>1, <3>2
  <2>3. AkinBut(d, f, id)
    BY <1>1 DEF AkinBut
  <2>4. \A g \in Ids \ (GroupsOf(d.items[id]) \cup GroupsOf(t)) : f.groups[g] = d.groups[g]
    BY <1>8, <1>10
  <2> QED BY <1>1, <1>6, <1>12, <2>1, <2>2, <2>3, <2>4 DEF r
<1> QED BY <1>11, <1>12

(* A list without id, and with it where it stood                           *)
LEMMA GroupWithout ==
  ASSUME NEW d, InOrder(d), NEW id \in Ids, NEW g \in Ids
  PROVE  LET group == d.groups[g]
             rest == RemoveElement(group, id)
             s == d.items[id]
         IN  /\ rest \in Seq(Ids) /\ Distinct(rest) /\ ~Contains(rest, id)
             /\ Participates(s) /\ g = s.parent =>
                  /\ s.index \in 0..Len(rest)
                  /\ InsertElement(rest, s.index, id) = group
             /\ ~(Participates(s) /\ g = s.parent) => rest = group
PROOF
<1> DEFINE group == d.groups[g]
<1> DEFINE rest == RemoveElement(group, id)
<1> DEFINE s == d.items[id]
<1>1. group \in Seq(Ids) /\ Distinct(group)
  BY OrderFacts DEF InOrder
<1>2. id \in Ids \ {NoId}
  BY ItemFacts
<1>3. Contains(group, id) <=> Participates(s) /\ s.parent = g
  BY <1>2, OrderFacts DEF InOrder
<1>4. Contains(group, id) => s = Elem(g, IndexOf(group, id)) /\ IndexOf(group, id) \in Nat
  BY OrderFacts DEF InOrder
<1> HIDE DEF group, s
<1>5. CASE ~Contains(group, id)
  <2>1. rest = group
    BY <1>5 DEF RemoveElement
  <2> HIDE DEF rest
  <2> QED BY <1>1, <1>3, <1>5, <2>1 DEF group, s, rest
<1>6. CASE Contains(group, id)
  <2>1. PICK k \in DOMAIN group : group[k] = id /\ k - 1 = IndexOf(group, id) /\ k \in 1..Len(group)
    <3>1. /\ IndexOf(group, id) + 1 \in DOMAIN group
          /\ IndexOf(group, id) \in 0..(Len(group) - 1)
          /\ group[IndexOf(group, id) + 1] = id
      BY <1>1, <1>6, IndexOfFacts
    <3> QED BY <3>1
  <2>2. /\ RemoveElement(group, group[k]) \in Seq(Ids)
        /\ Len(RemoveElement(group, group[k])) = Len(group) - 1
    BY <1>1, RemoveElementFacts
  <2>3. /\ Distinct(RemoveElement(group, group[k]))
        /\ \A x : Contains(RemoveElement(group, group[k]), x)
                    <=> Contains(group, x) /\ x # group[k]
        /\ InsertElement(RemoveElement(group, group[k]), k - 1, group[k]) = group
    BY <1>1, Removed
  <2>4. s.index = k - 1
    BY <1>4, <1>6, <2>1, ItemFacts
  <2>5. s.index \in 0..Len(RemoveElement(group, group[k]))
    BY <2>1, <2>2, <2>4
  <2> QED BY <1>3, <1>6, <2>1, <2>2, <2>3, <2>4, <2>5 DEF group, s
<1> QED BY <1>5, <1>6

(* The same list comes out whether id stands in it as s or t say.          *)
LEMMA GroupAfter ==
  ASSUME NEW d, InOrder(d), NEW id \in Ids, NEW t \in Items, Movable(d, id, t), NEW g \in Ids
  PROVE  RemoveElement(ListAfter(d, id, t, g), id) = RemoveElement(d.groups[g], id)
PROOF
<1> DEFINE rest == RemoveElement(d.groups[g], id)
<1>1. rest \in Seq(Ids) /\ Distinct(rest) /\ ~Contains(rest, id)
  BY GroupWithout
<1>2. CASE Participates(t) /\ g = t.parent
  <2>1. ListAfter(d, id, t, g) = InsertElement(rest, t.index, id)
    BY <1>2 DEF ListAfter
  <2>2. t.index \in 0..Len(rest)
    BY <1>2 DEF Movable, InsertableAt
  <2> HIDE DEF rest
  <2>3. RemoveElement(InsertElement(rest, t.index, id), id) = rest
    BY <1>1, <2>2, Inserted
  <2> QED BY <2>1, <2>3 DEF rest
<1>3. CASE ~(Participates(t) /\ g = t.parent)
  <2>1. ListAfter(d, id, t, g) = rest
    BY <1>3 DEF ListAfter
  <2> HIDE DEF rest
  <2>2. RemoveElement(rest, id) = rest
    BY <1>1 DEF RemoveElement
  <2> QED BY <2>1, <2>2 DEF rest
<1> QED BY <1>2, <1>3

(* A move to where id is changes nothing, and a move is undone by the move *)
(* to where it was.                                                        *)
LEMMA MovedNowhere ==
  ASSUME NEW d, InOrder(d), NEW id \in Ids
  PROVE  Move(d, id, d.items[id]) = Done(d)
PROOF
<1> DEFINE s == d.items[id]
<1> DEFINE r == Move(d, id, s)
<1>1. s \in Items /\ Plain(s) /\ id \in Ids \ {NoId} /\ d.groups \in [Ids -> Seq(Ids)]
  BY OrderTyped
<1>2. \A g \in Ids : ListAfter(d, id, s, g) = d.groups[g]
  BY GroupWithout DEF ListAfter
<1>3. Movable(d, id, s)
  <2> SUFFICES ASSUME Participates(s)
               PROVE  InsertableAt(RemoveElement(d.groups[s.parent], id), s.index)
    BY DEF Movable
  <2>1. s.parent \in Ids
    BY <1>1, ItemFacts
  <2> QED BY <2>1, GroupWithout DEF InsertableAt
<1> HIDE DEF s
<1>4. /\ r.ok => /\ r = Done(r.doc) /\ InOrder(r.doc) /\ r.doc.items[id] = s
                 /\ r.doc.groups = [g \in Ids |-> ListAfter(d, id, s, g)]
      /\ r.ok <=> Movable(d, id, s)
      /\ \A i \in Ids \ {id} : ~Participates(d.items[i]) => r.doc.items[i] = d.items[i]
  BY <1>1, Moved
<1> HIDE DEF r
<1>5. r.doc.groups = d.groups
  BY <1>1, <1>2, <1>3, <1>4
<1>6. \A i \in Ids : ~Participates(d.items[i]) => r.doc.items[i] = d.items[i]
  BY <1>3, <1>4 DEF s
<1>7. r.doc = d
  BY <1>3, <1>4, <1>5, <1>6, SameDocument
<1> QED BY <1>3, <1>4, <1>7 DEF r, s

(* An item that moves back to its old snapshot leaves the document as it   *)
(* was: what undo relies on for inserts, removals and updates.             *)
LEMMA MovedBack ==
  ASSUME NEW d, InOrder(d), NEW id \in Ids, NEW t \in Items, Plain(t), Movable(d, id, t)
  PROVE  Move(Move(d, id, t).doc, id, d.items[id]) = Done(d)
PROOF
<1> DEFINE s == d.items[id]
<1> DEFINE e == Move(d, id, t).doc
<1> DEFINE r == Move(e, id, s)
<1>1. s \in Items /\ Plain(s) /\ id \in Ids \ {NoId} /\ d.groups \in [Ids -> Seq(Ids)]
  BY OrderTyped
<1>2. /\ InOrder(e) /\ e.items[id] = t
      /\ e.groups = [g \in Ids |-> ListAfter(d, id, t, g)]
      /\ AkinBut(d, e, id)
      /\ \A i \in Ids \ {id} : ~Participates(d.items[i]) => e.items[i] = d.items[i]
  BY Moved
<1> HIDE DEF e
<1>3. \A g \in Ids : RemoveElement(e.groups[g], id) = RemoveElement(d.groups[g], id)
  BY <1>2, GroupAfter
<1>4. \A g \in Ids : ListAfter(e, id, s, g) = d.groups[g]
  BY <1>3, GroupWithout DEF ListAfter
<1>5. Movable(e, id, s)
  <2> SUFFICES ASSUME Participates(s)
               PROVE  InsertableAt(RemoveElement(e.groups[s.parent], id), s.index)
    BY DEF Movable
  <2>1. s.parent \in Ids
    BY <1>1, ItemFacts
  <2> QED BY <1>3, <2>1, GroupWithout DEF InsertableAt
<1> HIDE DEF s
<1>6. /\ r.ok => /\ r = Done(r.doc) /\ InOrder(r.doc) /\ r.doc.items[id] = s
                 /\ r.doc.groups = [g \in Ids |-> ListAfter(e, id, s, g)]
      /\ r.ok <=> Movable(e, id, s)
      /\ \A i \in Ids \ {id} : ~Participates(e.items[i]) => r.doc.items[i] = e.items[i]
  BY <1>1, <1>2, Moved
<1> HIDE DEF r
<1>7. r.doc.groups = d.groups
  BY <1>1, <1>4, <1>5, <1>6
<1>8. \A i \in Ids : ~Participates(d.items[i]) => r.doc.items[i] = d.items[i]
  <2> SUFFICES ASSUME NEW i \in Ids, ~Participates(d.items[i]) PROVE r.doc.items[i] = d.items[i]
    OBVIOUS
  <2>1. CASE i = id
    BY <1>5, <1>6, <2>1 DEF s
  <2>2. CASE i # id
    <3>1. e.items[i] = d.items[i]
      BY <1>2, <2>2
    <3> QED BY <1>6, <2>2, <3>1
  <2> QED BY <2>1, <2>2
<1>9. r.doc = d
  BY <1>5, <1>6, <1>7, <1>8, SameDocument
<1> QED BY <1>5, <1>6, <1>9 DEF r, s, e

(* The elements of a list, in another order                                *)
Reorders(list, group, s) ==
  /\ list \in Seq(Ids) /\ Len(list) = Len(group) /\ Distinct(list)
  /\ \A n \in 1..s : n \in DOMAIN group /\ list[n] = group[n]
  /\ \A i : Contains(list, i) <=> Contains(group, i)

LEMMA WindowTurned ==
  ASSUME NEW group \in Seq(Ids), Distinct(group), NEW s \in Nat, NEW c \in Nat,
         s + c <= Len(group), NEW o \in Int
  PROVE  /\ Reorders(RotateWindow(group, s, c, o), group, s)
         /\ RotateWindow(RotateWindow(group, s, c, o), s, c, -o) = group
PROOF
<1> DEFINE list == RotateWindow(group, s, c, o)
<1>1. /\ list \in Seq(Ids) /\ Len(list) = Len(group) /\ Distinct(list)
      /\ \A n \in 1..s : n \in DOMAIN group /\ list[n] = group[n]
      /\ \A n \in DOMAIN group : \E m \in DOMAIN group : list[n] = group[m]
      /\ RotateWindow(list, s, c, -o) = group
  <2>1. Permutes(list, group, s) /\ RotateWindow(list, s, c, -o) = group
    BY RotatedBack
  <2> HIDE DEF list
  <2> QED BY <2>1 DEF Permutes
<1> HIDE DEF list
<1>2. -o \in Int /\ s + c <= Len(list) /\ DOMAIN list = 1..Len(list) /\ DOMAIN group = 1..Len(list)
  BY <1>1
<1>3. \A n \in DOMAIN list : \E m \in DOMAIN list :
        RotateWindow(list, s, c, -o)[n] = list[m]
  <2>1. PICK p \in Int : p = -o
    BY <1>2
  <2>2. PICK l \in Seq(Ids) : l = list
    BY <1>1
  <2>3. s + c <= Len(l)
    BY <1>2, <2>2
  <2>4. \A n \in DOMAIN l : \E m \in DOMAIN l : RotateWindow(l, s, c, p)[n] = l[m]
    <3>1. Permutes(RotateWindow(l, s, c, p), l, s)
      BY <2>3, RotatedBack
    <3> QED BY <3>1 DEF Permutes
  <2> QED BY <2>1, <2>2, <2>4
<1>4. ASSUME NEW i PROVE Contains(list, i) <=> Contains(group, i)
  <2>1. ASSUME Contains(list, i) PROVE Contains(group, i)
    <3>1. PICK n \in DOMAIN list : list[n] = i
      BY <1>2, <2>1 DEF Contains
    <3>2. PICK m \in DOMAIN group : group[m] = i
      BY <1>1, <1>2, <3>1
    <3> QED BY <1>1, <1>2, <3>2 DEF Contains
  <2>2. ASSUME Contains(group, i) PROVE Contains(list, i)
    <3>1. PICK n \in DOMAIN group : group[n] = i
      BY <1>1, <1>2, <2>2 DEF Contains
    <3>2. PICK m \in DOMAIN list : list[m] = i
      BY <1>1, <1>2, <1>3, <3>1
    <3> QED BY <1>1, <1>2, <3>2 DEF Contains
  <2> QED BY <2>1, <2>2
<1>5. Reorders(list, group, s)
  BY <1>1, <1>4 DEF Reorders
<1> QED BY <1>1, <1>5 DEF list

(* rotate, and the rotation that undoes it                                 *)
TurnedTo(e, d, g, list) ==
  /\ InOrder(e)
  /\ e.groups[g] = list
  /\ \A h \in Ids : h # g => e.groups[h] = d.groups[h]
  /\ \A i \in Ids : Akin(d.items[i], e.items[i])
  /\ \A i \in Ids : ~Participates(d.items[i]) => e.items[i] = d.items[i]

LEMMA ListTurned ==
  ASSUME NEW d, InOrder(d), NEW g \in Ids, NEW s \in Nat, NEW c \in Nat,
         s + c <= Len(d.groups[g]), NEW o \in Int
  PROVE  TurnedTo(RotateList(d, g, s, c, o), d, g, RotateWindow(d.groups[g], s, c, o))
PROOF
<1> DEFINE group == d.groups[g]
<1> DEFINE list == RotateWindow(group, s, c, o)
<1> DEFINE e == RotateList(d, g, s, c, o)
<1>1. /\ d \in Docs /\ group \in Seq(Ids) /\ Distinct(group)
      /\ d.items \in [Ids -> Items] /\ d.groups \in [Ids -> Seq(Ids)]
      /\ \A k \in DOMAIN group : k \in Nat /\ k - 1 \in Nat
      /\ \A i : Contains(group, i) => i \in Ids /\ Participates(d.items[i]) /\ d.items[i].parent = g
  <2>1. \A i : Contains(group, i) =>
          /\ i \in Ids /\ IndexOf(group, i) \in Nat
          /\ d.items[i] = Elem(g, IndexOf(group, i))
    BY OrderFacts DEF InOrder
  <2>2. \A i : Contains(group, i) => i \in Ids /\ Participates(d.items[i]) /\ d.items[i].parent = g
    BY <2>1, ItemFacts
  <2>3. group \in Seq(Ids) /\ Distinct(group) /\ \A k \in DOMAIN group : k \in Nat /\ k - 1 \in Nat
    BY OrderFacts DEF InOrder
  <2> HIDE DEF group
  <2> QED BY <2>2, <2>3, OrderTyped
<1>2. \A k \in DOMAIN group : d.items[group[k]] = Elem(g, k - 1)
  BY OrderTyped
<1> HIDE DEF group
<1>3. /\ list \in Seq(Ids) /\ Len(list) = Len(group) /\ Distinct(list)
      /\ \A n \in 1..s : n \in DOMAIN group /\ list[n] = group[n]
      /\ \A i : Contains(list, i) <=> Contains(group, i)
  <2>1. s + c <= Len(group)
    BY DEF group
  <2>2. Reorders(list, group, s)
    BY <1>1, <2>1, WindowTurned
  <2> HIDE DEF list
  <2> QED BY <2>2 DEF Reorders
<1>4. e = Refresh(Relisted(d, g, list), g, s)
  <2>1. [d EXCEPT !.groups[g] = list] = Relisted(d, g, list)
    <3> HIDE DEF list
    <3> QED BY <1>1, <1>3, RelistedFacts
  <2> QED BY <2>1 DEF RotateList, group
<1> HIDE DEF list, e
<1>5. ASSUME NEW n \in DOMAIN list
      PROVE  /\ list[n] \in Ids /\ d.items[list[n]].kind = "elem" /\ d.items[list[n]].parent = g
             /\ n <= s => d.items[list[n]].index = n - 1
  <2>1. n \in 1..Len(list) /\ list[n] \in Ids
    BY <1>3
  <2>2. Contains(group, list[n])
    BY <1>3, <2>1 DEF Contains
  <2>3. d.items[list[n]].kind = "elem" /\ d.items[list[n]].parent = g
    BY <1>1, <2>2 DEF Participates
  <2>4. ASSUME n <= s PROVE d.items[list[n]].index = n - 1
    <3>1. n \in 1..s /\ n \in DOMAIN group /\ list[n] = group[n]
      BY <1>3, <2>1, <2>4
    <3>2. d.items[list[n]] = Elem(g, n - 1) /\ n - 1 \in Nat
      BY <1>1, <1>2, <3>1
    <3> QED BY <3>2 DEF Elem
  <2> QED BY <2>1, <2>3, <2>4
<1>6. /\ e \in Docs /\ e.groups = Relisted(d, g, list).groups
      /\ \A n \in DOMAIN list : list[n] # NoId => e.items[list[n]] = Elem(g, n - 1)
      /\ \A id \in Ids : ~Contains(list, id) => e.items[id] = d.items[id]
      /\ \A id \in Ids : Akin(d.items[id], e.items[id])
  <2>1. OrderedTo(d, g, list, s, NoId)
    BY <1>5 DEF OrderedTo
  <2>2. /\ d \in Docs /\ list \in Seq(Ids) /\ Distinct(list)
        /\ \A id \in Ids : id # NoId
    BY <1>1, <1>3, ItemFacts
  <2>3. RenumberedTo(Refresh(Relisted(d, g, list), g, s), d, g, list, NoId)
    BY <2>1, <2>2, Renumbered
  <2> QED BY <1>4, <2>3 DEF RenumberedTo
<1>7. e.groups[g] = list /\ \A h \in Ids : h # g => e.groups[h] = d.groups[h]
  BY <1>1, <1>3, <1>6, RelistedFacts
<1>8. \A i \in Ids : ~Participates(d.items[i]) => e.items[i] = d.items[i]
  BY <1>1, <1>3, <1>6
<1>9. InOrder(e)
  <2>1. ASSUME NEW h \in Ids, NEW k \in DOMAIN e.groups[h]
        PROVE  e.groups[h][k] # NoId /\ e.items[e.groups[h][k]] = Elem(h, k - 1)
    <3>1. CASE h = g
      <4>1. k \in DOMAIN list /\ e.groups[h][k] = list[k]
        BY <1>7, <2>1, <3>1
      <4> QED BY <1>5, <1>6, <3>1, <4>1, ItemFacts
    <3>2. CASE h # g
      <4> DEFINE i == d.groups[h][k]
      <4>1. e.groups[h] = d.groups[h] /\ k \in DOMAIN d.groups[h]
        BY <1>7, <2>1, <3>2
      <4>2. i # NoId /\ d.items[i] = Elem(h, k - 1)
        BY <4>1 DEF InOrder, InOrderBut
      <4>3. i \in Ids /\ k - 1 \in Nat
        <5>1. i \in Ids
          BY <1>1, <4>1, DocFacts
        <5>2. k - 1 \in Nat
          BY <4>1, OrderFacts DEF InOrder
        <5> QED BY <5>1, <5>2
      <4> HIDE DEF i
      <4>4. ~Contains(list, i)
        BY <1>1, <1>3, <3>2, <4>2, <4>3, ItemFacts
      <4>5. e.items[i] = Elem(h, k - 1)
        BY <1>6, <4>2, <4>3, <4>4
      <4> QED BY <4>1, <4>2, <4>5 DEF i
    <3> QED BY <3>1, <3>2
  <2>2. ASSUME NEW i \in Ids
        PROVE  /\ Participates(e.items[i]) => Contains(e.groups[e.items[i].parent], i)
               /\ Plain(e.items[i])
    <3>1. CASE Contains(list, i)
      <4>1. e.items[i].parent = g /\ Participates(e.items[i])
        BY <1>1, <1>3, <1>6, <3>1 DEF Akin, Participates
      <4> QED BY <1>7, <3>1, <4>1 DEF Plain
    <3>2. CASE ~Contains(list, i)
      <4>1. e.items[i] = d.items[i] /\ d.items[i] \in Items
        BY <1>1, <1>6, <3>2
      <4>2. /\ Participates(d.items[i]) => Contains(d.groups[d.items[i].parent], i)
            /\ Plain(d.items[i])
        BY ItemFacts DEF InOrder, InOrderBut
      <4>3. ASSUME Participates(d.items[i]) PROVE Contains(e.groups[d.items[i].parent], i)
        <5>1. d.items[i].parent \in Ids
          BY <4>1, <4>3, ItemFacts
        <5>2. d.items[i].parent # g
          BY <1>3, <3>2, <4>2, <4>3 DEF group
        <5> QED BY <1>7, <4>2, <4>3, <5>1, <5>2
      <4> QED BY <4>1, <4>2, <4>3
    <3> QED BY <3>1, <3>2
  <2> QED BY <1>6, <2>1, <2>2 DEF InOrder, InOrderBut
<1>10. TurnedTo(e, d, g, list)
  BY <1>6, <1>7, <1>8, <1>9 DEF TurnedTo
<1> QED BY <1>10 DEF e, list, group

(* A rotation by the negative offset leaves the document as it was.        *)
LEMMA ListTurnedBack ==
  ASSUME NEW d, InOrder(d), NEW g \in Ids, NEW s \in Nat, NEW c \in Nat,
         s + c <= Len(d.groups[g]), NEW o \in Int
  PROVE  RotateList(RotateList(d, g, s, c, o), g, s, c, -o) = d
PROOF
<1> DEFINE e == RotateList(d, g, s, c, o)
<1> DEFINE f == RotateList(e, g, s, c, -o)
<1>1. /\ InOrder(e)
      /\ e.groups[g] = RotateWindow(d.groups[g], s, c, o)
      /\ \A h \in Ids : h # g => e.groups[h] = d.groups[h]
      /\ \A i \in Ids : ~Participates(d.items[i]) => e.items[i] = d.items[i]
      /\ \A i \in Ids : Akin(d.items[i], e.items[i])
  <2>1. TurnedTo(e, d, g, RotateWindow(d.groups[g], s, c, o))
    BY ListTurned
  <2> HIDE DEF e
  <2> QED BY <2>1 DEF TurnedTo
<1>2. /\ d.groups \in [Ids -> Seq(Ids)] /\ d.groups[g] \in Seq(Ids) /\ Distinct(d.groups[g])
  BY OrderFacts DEF InOrder
<1>3. /\ Len(e.groups[g]) = Len(d.groups[g])
      /\ RotateWindow(e.groups[g], s, c, -o) = d.groups[g]
  <2> DEFINE list == RotateWindow(d.groups[g], s, c, o)
  <2>1. Reorders(list, d.groups[g], s) /\ RotateWindow(list, s, c, -o) = d.groups[g]
    BY <1>2, WindowTurned
  <2> HIDE DEF list
  <2>2. Len(list) = Len(d.groups[g])
    BY <2>1 DEF Reorders
  <2>3. e.groups[g] = list
    BY <1>1 DEF list
  <2> QED BY <2>1, <2>2, <2>3
<1> HIDE DEF e
<1>4. -o \in Int /\ s + c <= Len(e.groups[g])
  BY <1>3
<1>5. /\ InOrder(f)
      /\ f.groups[g] = RotateWindow(e.groups[g], s, c, -o)
      /\ \A h \in Ids : h # g => f.groups[h] = e.groups[h]
      /\ \A i \in Ids : ~Participates(e.items[i]) => f.items[i] = e.items[i]
  <2>1. PICK p \in Int : p = -o
    BY <1>4
  <2>2. /\ InOrder(RotateList(e, g, s, c, p))
        /\ RotateList(e, g, s, c, p).groups[g] = RotateWindow(e.groups[g], s, c, p)
        /\ \A h \in Ids : h # g => RotateList(e, g, s, c, p).groups[h] = e.groups[h]
        /\ \A i \in Ids : ~Participates(e.items[i]) =>
             RotateList(e, g, s, c, p).items[i] = e.items[i]
    <3>1. TurnedTo(RotateList(e, g, s, c, p), e, g, RotateWindow(e.groups[g], s, c, p))
      BY <1>1, <1>4, ListTurned
    <3> QED BY <3>1 DEF TurnedTo
  <2> QED BY <2>1, <2>2
<1> HIDE DEF f
<1>6. f.groups \in [Ids -> Seq(Ids)]
  BY <1>5, OrderFacts DEF InOrder
<1>7. \A h \in Ids : f.groups[h] = d.groups[h]
  BY <1>1, <1>3, <1>5
<1>8. f.groups = d.groups
  BY <1>2, <1>6, <1>7
<1>9. ASSUME NEW i \in Ids, ~Participates(d.items[i]) PROVE f.items[i] = d.items[i]
  <2>1. e.items[i] = d.items[i]
    BY <1>1, <1>9
  <2> QED BY <1>5, <1>9, <2>1
<1>10. f = d
  BY <1>5, <1>8, <1>9, SameDocument
<1> QED BY <1>10 DEF f, e
-----------------------------------------------------------------------------
(***************************************************************************)
(* Parents                                                                 *)
(***************************************************************************)
(* What stands above i *)
Above(d, i) == IF Present(d, i) THEN d.items[i].parent ELSE NoId

KindAbove(s) == IF s.kind = "elem" THEN "row" ELSE RowTarget

(* Every parent is there, of the kind the association asks for, and        *)
(* following parents ends: they have smaller and smaller ranks.            *)
Ranked(d, rank) ==
  /\ rank \in [Ids -> Nat]
  /\ \A i \in Ids : d.items[i].parent # NoId =>
       /\ d.items[d.items[i].parent].kind = KindAbove(d.items[i])
       /\ rank[d.items[i].parent] < rank[i]

Rooted(d) == \E rank : Ranked(d, rank)

(* Kinds of items that are there, and of their parents                     *)
LEMMA KindFacts ==
  /\ RowTarget # "absent" /\ \A s : KindAbove(s) # "absent"
  /\ \A s \in Items : s.kind # "absent" => s # Absent
  /\ \A s \in Items : Plain(s) /\ s # Absent => s.kind # "absent"
PROOF
<1>1. RowTarget # "absent"
  BY ChangesAssumption
<1>2. \A s \in Items : s.kind # "absent" => s # Absent
  BY DEF Absent
<1> QED BY <1>1, <1>2, ItemFacts DEF KindAbove

(* The recursion of Lineage has a solution.                                *)
LEMMA LineageIs ==
  ASSUME NEW d \in Docs, NEW id \in Ids \cup {NoId}
  PROVE  \E up \in [0..MaxId -> Ids \cup {NoId}] :
           /\ up[0] = id
           /\ \A n \in 1..MaxId : up[n] = Above(d, up[n - 1])
           /\ Lineage(d, id) = {up[n] : n \in 0..MaxId} \ {NoId}
PROOF
<1> DEFINE A == Ids \cup {NoId}
<1> DEFINE F == [p \in A \X (1..MaxId) |-> Above(d, p[1])]
<1>1. MaxId \in Nat
  BY ChangesAssumption
<1>2. \A i \in A : Above(d, i) \in A
  BY DocFacts, ItemFacts DEF Above, Present
<1>3. F \in [A \X (1..MaxId) -> A] /\ \A i \in A, n \in 1..MaxId : F[<<i, n>>] = Above(d, i)
  BY <1>2
<1> HIDE DEF A, F
<1>4. PICK iter \in [SUBSET (1..MaxId) -> A] : Recurs(iter, MaxId, id, F)
  BY <1>1, <1>3, FoldExists DEF A
<1> DEFINE up == [n \in 0..MaxId |-> iter[1..n]]
<1>5. \A n \in 0..MaxId : 1..n \in SUBSET (1..MaxId)
  BY <1>1
<1>6. up \in [0..MaxId -> A] /\ \A n \in 0..MaxId : up[n] = iter[1..n]
  BY <1>4, <1>5
<1> HIDE DEF up
<1>7. up[0] = id
  <2>1. 1..0 = {} /\ 0 \in 0..MaxId
    BY <1>1
  <2> QED BY <1>4, <1>5, <1>6, <2>1 DEF Recurs
<1>8. ASSUME NEW n \in 1..MaxId PROVE up[n] = Above(d, up[n - 1])
  <2>1. Max(1..n) = n /\ (1..n) \ {n} = 1..(n - 1) /\ 1..n # {}
    BY LastPosition
  <2>2. n \in 0..MaxId /\ n - 1 \in 0..MaxId
    BY <1>1
  <2>3. iter[1..n] = F[<<iter[1..(n - 1)], n>>]
    BY <1>4, <1>5, <2>1, <2>2 DEF Recurs
  <2> QED BY <1>3, <1>6, <2>2, <2>3
<1>9. Lineage(d, id) = {up[n] : n \in 0..MaxId} \ {NoId}
  <2> DEFINE Up(u) == [n \in 0..MaxId |->
                         IF n = 0 THEN id
                         ELSE IF Present(d, u[n - 1]) THEN d.items[u[n - 1]].parent ELSE NoId]
  <2> DEFINE c == CHOOSE u : u = Up(u)
  <2>1. up = Up(up)
    <3>1. \A n \in 0..MaxId : n = 0 \/ n \in 1..MaxId
      BY <1>1
    <3>2. \A n \in 0..MaxId : up[n] = IF n = 0 THEN id ELSE Above(d, up[n - 1])
      BY <1>1, <1>7, <1>8, <3>1
    <3> QED BY <1>6, <3>2 DEF Above
  <2>2. c = Up(c)
    BY <2>1
  <2>3. Lineage(d, id) = {c[n] : n \in 0..MaxId} \ {NoId}
    BY DEF Lineage
  <2> HIDE DEF c
  <2>4. \A n \in 0..MaxId : c[n] = IF n = 0 THEN id ELSE Above(d, c[n - 1])
    BY <2>2 DEF Above
  <2> DEFINE T == {n \in 0..MaxId : c[n] = up[n]}
  <2>5. 0 \in T
    BY <1>1, <1>7, <2>4
  <2>6. ASSUME NEW n \in 0..(MaxId - 1), n \in T PROVE n + 1 \in T
    <3>1. n + 1 \in 0..MaxId /\ n + 1 \in 1..MaxId /\ n + 1 # 0 /\ n + 1 - 1 = n
      BY <1>1
    <3> QED BY <1>8, <2>4, <2>6, <3>1
  <2> HIDE DEF T
  <2>7. 0..MaxId \subseteq T
    BY <1>1, <2>5, <2>6, Induction
  <2> QED BY <2>3, <2>7 DEF T
<1> QED BY <1>6, <1>7, <1>8, <1>9 DEF A

(* A set that holds id, and what stands above its members, holds the       *)
(* ancestors of id.                                                        *)
LEMMA LineageInside ==
  ASSUME NEW d \in Docs, NEW id \in Ids, NEW S \in SUBSET Ids, id \in S,
         \A i \in S : Above(d, i) \in S \cup {NoId}
  PROVE  Lineage(d, id) \subseteq S
PROOF
<1>1. MaxId \in Nat
  BY ChangesAssumption
<1>2. PICK up \in [0..MaxId -> Ids \cup {NoId}] :
           /\ up[0] = id
           /\ \A n \in 1..MaxId : up[n] = Above(d, up[n - 1])
           /\ Lineage(d, id) = {up[n] : n \in 0..MaxId} \ {NoId}
  BY LineageIs
<1> DEFINE T == {n \in 0..MaxId : up[n] \in S \cup {NoId}}
<1>3. 0 \in T
  BY <1>1, <1>2
<1>4. ASSUME NEW n \in 0..(MaxId - 1), n \in T PROVE n + 1 \in T
  <2>1. n + 1 \in 0..MaxId /\ n + 1 \in 1..MaxId /\ n + 1 - 1 = n
    BY <1>1
  <2>2. up[n + 1] = Above(d, up[n])
    BY <1>2, <2>1
  <2>3. CASE up[n] = NoId
    <3>1. ~Present(d, up[n])
      BY <2>3, ItemFacts DEF Present
    <3> QED BY <2>1, <2>2, <3>1 DEF Above
  <2>4. CASE up[n] # NoId
    <3>1. up[n] \in S
      BY <1>4, <2>4
    <3> QED BY <2>1, <2>2, <3>1
  <2> QED BY <2>3, <2>4
<1> HIDE DEF T
<1>5. 0..MaxId \subseteq T
  BY <1>1, <1>3, <1>4, Induction
<1>6. \A n \in 0..MaxId : up[n] \in S \cup {NoId}
  BY <1>5 DEF T
<1> QED BY <1>2, <1>6

(* Following parents ends within MaxId steps, so a Lineage is complete.    *)
LEMMA LineageClosed ==
  ASSUME NEW d \in Docs, NEW rank, Ranked(d, rank), NEW id \in Ids
  PROVE  /\ id \in Lineage(d, id) /\ Lineage(d, id) \subseteq Ids
         /\ \A i \in Lineage(d, id) : Above(d, i) \in Lineage(d, id) \cup {NoId}
PROOF
<1> DEFINE A == Ids \cup {NoId}
<1>1. MaxId \in Nat \ {0} /\ 0 \in 0..MaxId /\ MaxId \in 0..MaxId
  BY ChangesAssumption
<1>2. PICK up \in [0..MaxId -> A] :
           /\ up[0] = id
           /\ \A n \in 1..MaxId : up[n] = Above(d, up[n - 1])
           /\ Lineage(d, id) = {up[n] : n \in 0..MaxId} \ {NoId}
  BY LineageIs
<1>3. \A n \in 0..MaxId : up[n] \in A
  BY <1>2
<1>4. \A n \in 0..(MaxId - 1) :
        /\ n \in 0..MaxId /\ n + 1 \in 0..MaxId /\ n + 1 \in 1..MaxId
        /\ up[n + 1] = Above(d, up[n])
  <2> SUFFICES ASSUME NEW n \in 0..(MaxId - 1)
               PROVE  /\ n \in 0..MaxId /\ n + 1 \in 0..MaxId /\ n + 1 \in 1..MaxId
                      /\ up[n + 1] = Above(d, up[n])
    OBVIOUS
  <2>1. n \in 0..MaxId /\ n + 1 \in 0..MaxId /\ n + 1 \in 1..MaxId /\ n + 1 - 1 = n
    BY <1>1
  <2> QED BY <1>2, <2>1
<1>5. ASSUME NEW i \in A, Above(d, i) # NoId
      PROVE  /\ i \in Ids /\ Above(d, i) \in Ids
             /\ rank[Above(d, i)] \in Nat /\ rank[i] \in Nat /\ rank[Above(d, i)] < rank[i]
  <2>1. Present(d, i)
    BY <1>5 DEF Above
  <2>2. i \in Ids /\ Above(d, i) = d.items[i].parent
    BY <2>1 DEF Above, Present
  <2>3. d.items[i].parent \in Ids
    BY <1>5, <2>2, DocFacts, ItemFacts
  <2> QED BY <1>5, <2>2, <2>3 DEF Ranked
<1>6. up[MaxId] = NoId \/ Above(d, up[MaxId]) = NoId
  <2> SUFFICES ASSUME up[MaxId] # NoId, Above(d, up[MaxId]) # NoId PROVE FALSE
    OBVIOUS
  <2> DEFINE T == {n \in 0..MaxId : up[MaxId - n] # NoId}
  <2>1. 0 \in T
    BY <1>1
  <2>2. ASSUME NEW n \in 0..(MaxId - 1), n \in T PROVE n + 1 \in T
    <3>1. /\ MaxId - (n + 1) \in 0..(MaxId - 1) /\ n + 1 \in 0..MaxId
          /\ (MaxId - (n + 1)) + 1 = MaxId - n
      BY <1>1
    <3>2. PICK m \in 0..(MaxId - 1) : m = MaxId - (n + 1)
      BY <3>1
    <3>3. up[m + 1] # NoId /\ up[m + 1] = Above(d, up[m])
      BY <1>4, <2>2, <3>1, <3>2
    <3>4. up[m] # NoId
      BY <3>3, ItemFacts DEF Above, Present
    <3> QED BY <3>1, <3>2, <3>4
  <2> HIDE DEF T
  <2>3. 0..MaxId \subseteq T
    BY <1>1, <2>1, <2>2, Induction
  <2>4. ASSUME NEW n \in 0..MaxId PROVE up[n] \in Ids
    <3>1. MaxId - n \in T /\ MaxId - (MaxId - n) = n
      BY <1>1, <2>3
    <3>2. up[n] # NoId
      BY <3>1 DEF T
    <3> QED BY <1>3, <3>2
  <2>5. ASSUME NEW n \in 0..(MaxId - 1)
        PROVE  rank[up[n + 1]] \in Nat /\ rank[up[n]] \in Nat /\ rank[up[n + 1]] < rank[up[n]]
    <3>1. up[n + 1] = Above(d, up[n]) /\ up[n + 1] \in Ids /\ up[n] \in A
      BY <1>3, <1>4, <2>4
    <3>2. Above(d, up[n]) # NoId
      BY <3>1, ItemFacts
    <3> QED BY <1>5, <3>1, <3>2
  <2> DEFINE U == {n \in 0..MaxId : \A m \in 0..(n - 1) : rank[up[n]] < rank[up[m]]}
  <2>6. 0 \in U
    BY <1>1
  <2>7. ASSUME NEW n \in 0..(MaxId - 1), n \in U PROVE n + 1 \in U
    <3>1. ASSUME NEW m \in 0..(n + 1 - 1) PROVE rank[up[n + 1]] < rank[up[m]]
      <4>1. CASE m = n
        BY <2>5, <4>1
      <4>2. CASE m # n
        <5>1. m \in 0..(n - 1) /\ m \in 0..MaxId
          BY <1>1, <3>1, <4>2
        <5>2. rank[up[n]] < rank[up[m]] /\ rank[up[m]] \in Nat
          BY <2>4, <2>7, <5>1 DEF Ranked
        <5> QED BY <2>5, <5>2
      <4> QED BY <4>1, <4>2
    <3> QED BY <1>4, <3>1
  <2> HIDE DEF U
  <2>8. 0..MaxId \subseteq U
    BY <1>1, <2>6, <2>7, Induction
  <2>9. ASSUME NEW m \in 0..MaxId, NEW n \in 0..MaxId, m < n PROVE up[m] # up[n]
    <3>1. m \in 0..(n - 1)
      BY <2>9
    <3>2. rank[up[n]] < rank[up[m]] /\ rank[up[m]] \in Nat
      BY <2>4, <2>8, <3>1 DEF U, Ranked
    <3> QED BY <3>2
  <2>10. \E m, n \in 0..MaxId : m # n /\ up[m] = up[n]
    <3>1. up \in [0..MaxId -> Ids]
      BY <1>2, <2>4
    <3>2. IsFiniteSet(0..MaxId) /\ Cardinality(0..MaxId) = MaxId + 1
      BY <1>1, FS_Interval
    <3>3. IsFiniteSet(Ids) /\ Cardinality(Ids) = MaxId
      BY <1>1, FS_Interval DEF Ids
    <3>4. Cardinality(Ids) < Cardinality(0..MaxId)
      BY <1>1, <3>2, <3>3
    <3>5. \E m, n \in 0..MaxId : m # n /\ up[m] = up[n]
      <4>1. PICK X, Y : X = 0..MaxId /\ Y = Ids
        OBVIOUS
      <4>2. /\ IsFiniteSet(X) /\ IsFiniteSet(Y) /\ Cardinality(Y) < Cardinality(X)
            /\ up \in [X -> Y]
        BY <3>1, <3>2, <3>3, <3>4, <4>1
      <4>3. \E x, y \in X : x # y /\ up[x] = up[y]
        BY <4>2, FS_PigeonHole
      <4> QED BY <4>1, <4>3
    <3> QED BY <3>5
  <2>11. PICK m, n \in 0..MaxId : m # n /\ up[m] = up[n]
    BY <2>10
  <2>12. m < n \/ n < m
    BY <2>11
  <2> QED BY <2>9, <2>11, <2>12
<1>7. id \in Lineage(d, id) /\ Lineage(d, id) \subseteq Ids
  <2>1. id # NoId
    BY ItemFacts
  <2> QED BY <1>1, <1>2, <1>3, <2>1
<1>8. ASSUME NEW i \in Lineage(d, id) PROVE Above(d, i) \in Lineage(d, id) \cup {NoId}
  <2>1. PICK n \in 0..MaxId : up[n] = i
    BY <1>2, <1>8
  <2>2. CASE n = MaxId
    BY <1>2, <1>6, <1>8, <2>1, <2>2
  <2>3. CASE n # MaxId
    <3>1. n \in 0..(MaxId - 1)
      BY <1>1, <2>3
    <3> QED BY <1>2, <1>4, <2>1, <3>1
  <2> QED BY <2>2, <2>3
<1> QED BY <1>7, <1>8

(* insertSnapshot and the update of an association, checked by             *)
(* validateParentRelations, close no cycle.                                *)
LEMMA Attached ==
  ASSUME NEW d \in Docs, Rooted(d), NEW id \in Ids, NEW s \in Items, ValidParent(d, id, s),
         NEW e \in Docs, AkinBut(d, e, id), e.items[id] = s,
         d.items[id].kind \in {"absent", s.kind}
  PROVE  Rooted(e)
PROOF
<1>1. PICK rank : Ranked(d, rank)
  BY DEF Rooted
<1> DEFINE p == s.parent
<1>2. /\ \A i \in Ids : d.items[i] \in Items /\ e.items[i] \in Items /\ rank[i] \in Nat
      /\ \A i \in Ids : e.items[i].parent \in Ids \cup {NoId}
      /\ p \in Ids \cup {NoId}
  BY <1>1, DocFacts, ItemFacts DEF Ranked
<1>3. ASSUME NEW i \in Ids, i # id, e.items[i].parent # NoId
      PROVE  LET q == e.items[i].parent
             IN  /\ q \in Ids /\ q = d.items[i].parent
                 /\ e.items[q].kind = KindAbove(e.items[i])
                 /\ d.items[q].kind # "absent"
                 /\ rank[q] < rank[i] /\ rank[q] \in Nat /\ rank[i] \in Nat
  <2> DEFINE q == e.items[i].parent
  <2>1. q \in Ids
    BY <1>2, <1>3
  <2>2. e.items[i].kind = d.items[i].kind /\ q = d.items[i].parent
    BY <1>3 DEF AkinBut, Akin
  <2> HIDE DEF q
  <2>3. d.items[q].kind = KindAbove(d.items[i]) /\ rank[q] < rank[i]
    BY <1>1, <1>3, <2>2 DEF Ranked, q
  <2>4. d.items[q].kind # "absent"
    BY <2>3, KindFacts
  <2>5. e.items[q].kind = d.items[q].kind
    BY <2>1, <2>4 DEF AkinBut, Akin
  <2>6. KindAbove(e.items[i]) = KindAbove(d.items[i])
    BY <2>2 DEF KindAbove
  <2> QED BY <1>2, <2>1, <2>2, <2>3, <2>4, <2>5, <2>6 DEF q
<1>4. CASE p = NoId
  <2>1. Ranked(e, rank)
    <3>1. ASSUME NEW i \in Ids, e.items[i].parent # NoId
          PROVE  /\ e.items[e.items[i].parent].kind = KindAbove(e.items[i])
                 /\ rank[e.items[i].parent] < rank[i]
      <4>1. i # id
        BY <1>4, <3>1
      <4> QED BY <1>3, <3>1, <4>1
    <3> QED BY <1>1, <3>1 DEF Ranked
  <2> QED BY <2>1 DEF Rooted
<1>5. CASE p # NoId
  <2> DEFINE C == Lineage(d, p)
  <2>1. p \in Ids /\ Present(d, p) /\ d.items[p].kind = KindAbove(s)
    BY <1>2, <1>5 DEF ValidParent, KindAbove
  <2>2. \A i \in C : i # id /\ Present(d, i)
    BY <1>5 DEF ValidParent
  <2>3. p \in C /\ C \subseteq Ids /\ \A i \in C : Above(d, i) \in C \cup {NoId}
    BY <1>1, <2>1, LineageClosed
  <2>4. \A i \in C : d.items[i].parent \in C \cup {NoId}
    BY <2>2, <2>3 DEF Above
  <2> HIDE DEF C, p
  <2> DEFINE new == [i \in Ids |-> IF i \in C THEN rank[i] ELSE rank[i] + rank[p] + 1]
  <2>5. new \in [Ids -> Nat]
    BY <1>2, <2>1
  <2>6. \A i \in Ids : new[i] = IF i \in C THEN rank[i] ELSE rank[i] + rank[p] + 1
    OBVIOUS
  <2> HIDE DEF new
  <2>7. ASSUME NEW i \in Ids, e.items[i].parent # NoId
        PROVE  /\ e.items[e.items[i].parent].kind = KindAbove(e.items[i])
               /\ new[e.items[i].parent] < new[i]
    <3> DEFINE q == e.items[i].parent
    <3>1. CASE i = id
      <4>1. q = p /\ e.items[i] = s /\ i \notin C
        BY <2>2, <3>1 DEF p
      <4>2. p # id
        BY <2>2, <2>3
      <4>3. e.items[p].kind = KindAbove(s)
        BY <2>1, <4>2 DEF AkinBut, Akin
      <4>4. new[p] = rank[p] /\ new[i] = rank[i] + rank[p] + 1
        BY <2>1, <2>3, <2>6, <4>1
      <4>5. new[p] < new[i]
        BY <1>2, <2>1, <4>4
      <4> QED BY <4>1, <4>3, <4>5
    <3>2. CASE i # id
      <4>1. /\ q \in Ids /\ q = d.items[i].parent
            /\ e.items[q].kind = KindAbove(e.items[i])
            /\ rank[q] < rank[i] /\ rank[q] \in Nat /\ rank[i] \in Nat
        BY <1>3, <2>7, <3>2
      <4>2. i \in C => q \in C
        BY <2>4, <2>7, <4>1
      <4> HIDE DEF q
      <4>3. new[q] < new[i]
        <5>1. rank[p] \in Nat
          BY <1>2, <2>1
        <5>2. CASE i \in C
          BY <2>6, <4>1, <4>2, <5>2
        <5>3. CASE i \notin C
          BY <2>6, <4>1, <5>1, <5>3
        <5> QED BY <5>2, <5>3
      <4> QED BY <4>1, <4>3 DEF q
    <3> QED BY <3>1, <3>2
  <2>8. Ranked(e, new)
    BY <2>5, <2>7 DEF Ranked
  <2> QED BY <2>8 DEF Rooted
<1> QED BY <1>4, <1>5

(* An item without children may go, and nothing else depends on indexes.   *)
LEMMA Detached ==
  ASSUME NEW d \in Docs, Rooted(d), NEW x, NEW e \in Docs, AkinBut(d, e, x),
         x \in Ids => e.items[x].parent = NoId,
         \A i \in Ids : d.items[i].parent # x
  PROVE  Rooted(e)
PROOF
<1>1. PICK rank : Ranked(d, rank)
  BY DEF Rooted
<1>2. ASSUME NEW i \in Ids, e.items[i].parent # NoId
      PROVE  /\ e.items[e.items[i].parent].kind = KindAbove(e.items[i])
             /\ rank[e.items[i].parent] < rank[i]
  <2> DEFINE q == d.items[i].parent
  <2>1. i # x
    BY <1>2
  <2>2. e.items[i].parent = q /\ e.items[i].kind = d.items[i].kind
    BY <2>1 DEF AkinBut, Akin
  <2>3. q \in Ids
    BY <1>2, <2>2, DocFacts, ItemFacts
  <2>4. e.items[q].kind = d.items[q].kind
    BY <2>3 DEF AkinBut, Akin
  <2>5. d.items[q].kind = KindAbove(d.items[i]) /\ rank[q] < rank[i]
    BY <1>1, <1>2, <2>2 DEF Ranked
  <2> QED BY <2>2, <2>4, <2>5 DEF KindAbove
<1>3. Ranked(e, rank)
  BY <1>1, <1>2 DEF Ranked
<1> QED BY <1>3 DEF Rooted

(* The parent an item of a sound document has is valid for it, also while  *)
(* it is elsewhere: the inverse operation passes validateParentRelations.  *)
LEMMA BackValid ==
  ASSUME NEW d \in Docs, Rooted(d), NEW id \in Ids, NEW e \in Docs, AkinBut(d, e, id)
  PROVE  ValidParent(e, id, d.items[id])
PROOF
<1> DEFINE s == d.items[id]
<1> DEFINE p == s.parent
<1>1. PICK rank : Ranked(d, rank)
  BY DEF Rooted
<1>2. SUFFICES ASSUME p # NoId
               PROVE  /\ Present(e, p)
                      /\ e.items[p].kind = (IF s.kind = "elem" THEN "row" ELSE RowTarget)
                      /\ \A a \in Lineage(e, p) : a # id /\ Present(e, a)
  BY DEF ValidParent
<1>3. p \in Ids
  BY <1>2, DocFacts, ItemFacts
<1>4. d.items[p].kind = KindAbove(s) /\ rank[p] < rank[id]
  BY <1>1, <1>2 DEF Ranked
<1>5. \A i \in Ids : rank[i] \in Nat /\ e.items[i] \in Items
  BY <1>1, DocFacts DEF Ranked
<1> HIDE DEF s, p
<1>6. p # id /\ d.items[p].kind # "absent"
  BY <1>3, <1>4, <1>5, KindFacts
<1>7. e.items[p].kind = d.items[p].kind
  BY <1>3, <1>6 DEF AkinBut, Akin
<1> DEFINE S == {i \in Ids : d.items[i].kind # "absent" /\ rank[i] <= rank[p]}
<1>8. \A i \in S : i \in Ids /\ i # id /\ Present(e, i)
  <2> SUFFICES ASSUME NEW i \in S PROVE i \in Ids /\ i # id /\ Present(e, i)
    OBVIOUS
  <2>1. i \in Ids /\ i # id
    BY <1>3, <1>4, <1>5
  <2>2. e.items[i].kind = d.items[i].kind /\ d.items[i].kind # "absent"
    BY <2>1 DEF AkinBut, Akin
  <2> QED BY <1>5, <2>1, <2>2, KindFacts DEF Present
<1>9. ASSUME NEW i \in S PROVE Above(e, i) \in S \cup {NoId}
  <2> DEFINE q == d.items[i].parent
  <2>1. i \in Ids /\ Above(e, i) = q
    BY <1>8 DEF Above, AkinBut, Akin
  <2>2. CASE q = NoId
    BY <2>1, <2>2
  <2>3. CASE q # NoId
    <3>1. q \in Ids
      BY <2>1, <2>3, DocFacts, ItemFacts
    <3>2. d.items[q].kind = KindAbove(d.items[i]) /\ rank[q] < rank[i]
      BY <1>1, <2>1, <2>3 DEF Ranked
    <3>3. d.items[q].kind # "absent"
      BY <3>2, KindFacts
    <3>4. rank[q] <= rank[p]
      BY <1>3, <1>5, <2>1, <3>1, <3>2
    <3> QED BY <2>1, <3>1, <3>3, <3>4
  <2> QED BY <2>2, <2>3
<1>10. p \in S /\ S \in SUBSET Ids
  BY <1>3, <1>5, <1>6
<1> HIDE DEF S
<1>11. Lineage(e, p) \subseteq S
  BY <1>3, <1>9, <1>10, LineageInside
<1> QED BY <1>4, <1>7, <1>8, <1>10, <1>11 DEF KindAbove
-----------------------------------------------------------------------------
(***************************************************************************)
(* Operations and their inverses                                           *)
(***************************************************************************)
Sound(d) == InOrder(d) /\ Rooted(d)

Childless(d, id) == \A i \in Ids : d.items[i].parent # id

(* e differs from d in the items and groups named, and in indexes.         *)
Near(d, e, items, groups) ==
  /\ e \in Docs
  /\ \A i \in Ids : Plain(e.items[i])
  /\ \A i \in Ids \ items : Akin(d.items[i], e.items[i])
  /\ \A g \in Ids \ groups : e.groups[g] = d.groups[g]

Insertions == {"ItemInserted", "ListInserted"}

(* What op removes is in d as op says, and what it inserts is not there.   *)
Fits(d, op) ==
  /\ op.kind \in Removals => d.items[op.id] = op.item
  /\ op.kind \in Insertions => d.items[op.id] = Absent

(* r is what the operation makes of d: it has touched no items and groups  *)
(* but those named, and unless it throws its inverse gives back d.         *)
Written(d, op, r, items, groups) ==
  /\ r = ApplyOperation(d, op)
  /\ r.ok \in BOOLEAN
  /\ Near(d, r.doc, items, groups)
  /\ r.ok => /\ r = Done(r.doc)
             /\ Sound(r.doc)
             /\ ApplyOperation(r.doc, InvertOperation(op)) = Done(d)
             /\ Fits(d, op)
             /\ Fits(r.doc, InvertOperation(op))

(* The two outcomes of an operation, taken apart                           *)
LEMMA OutcomeFacts ==
  \A d : Done(d).ok = TRUE /\ Done(d).doc = d /\ Throws(d).ok = FALSE /\ Throws(d).doc = d
PROOF
  BY DEF Done, Throws

(* The parts of a sound document                                           *)
LEMMA SoundFacts ==
  ASSUME NEW d, Sound(d)
  PROVE  /\ d \in Docs /\ InOrder(d) /\ Rooted(d)
         /\ \A i \in Ids : d.items[i] \in Items /\ Plain(d.items[i])
         /\ d.items \in [Ids -> Items] /\ d.groups \in [Ids -> Seq(Ids)]
PROOF
<1>1. d \in Docs /\ \A i \in Ids : Plain(d.items[i])
  BY ItemFacts DEF Sound, InOrder, InOrderBut
<1> QED BY <1>1, DocFacts DEF Sound

(* An operation that touches nothing                                       *)
LEMMA Untouched ==
  ASSUME NEW d, Sound(d), NEW items, NEW groups
  PROVE  Near(d, d, items, groups)
PROOF
<1> QED BY SoundFacts DEF Near, Akin

(* A move touches the item and the lists it leaves and joins, as the write *)
(* methods record them in the journal.                                     *)
LEMMA MoveNear ==
  ASSUME NEW d, Sound(d), NEW id \in Ids, NEW t \in Items, Plain(t)
  PROVE  Near(d, Move(d, id, t).doc, {id}, GroupsOf(d.items[id]) \cup GroupsOf(t))
PROOF
<1>1. InOrder(d)
  BY DEF Sound
<1>2. LET r == Move(d, id, t)
      IN  /\ r.ok \in BOOLEAN /\ r.doc \in Docs
          /\ r.ok <=> Movable(d, id, t)
          /\ r.ok => /\ r = Done(r.doc) /\ InOrder(r.doc) /\ r.doc.items[id] = t
                     /\ r.doc.groups = [g \in Ids |-> ListAfter(d, id, t, g)]
          /\ AkinBut(d, r.doc, id)
          /\ \A i \in Ids : Plain(r.doc.items[i])
          /\ \A i \in Ids \ {id} :
               ~Participates(d.items[i]) => r.doc.items[i] = d.items[i]
          /\ \A g \in Ids \ (GroupsOf(d.items[id]) \cup GroupsOf(t)) :
               r.doc.groups[g] = d.groups[g]
  BY <1>1, Moved, ZenonT(20)
<1>3. PICK e : e = Move(d, id, t).doc
  OBVIOUS
<1>4. /\ e \in Docs /\ AkinBut(d, e, id) /\ \A i \in Ids : Plain(e.items[i])
      /\ \A g \in Ids \ (GroupsOf(d.items[id]) \cup GroupsOf(t)) : e.groups[g] = d.groups[g]
  BY <1>2, <1>3
<1>5. \A i \in Ids \ {id} : Akin(d.items[i], e.items[i])
  BY <1>4 DEF AkinBut
<1>6. Near(d, e, {id}, GroupsOf(d.items[id]) \cup GroupsOf(t))
  BY <1>4, <1>5 DEF Near
<1> QED BY <1>3, <1>6

(* Erasing a snapshot is a move to Absent.                                 *)
LEMMA EraseIsMove ==
  ASSUME NEW d, NEW id \in Ids
  PROVE  Done(EraseSnapshot(d, id, d.items[id])) = Move(d, id, Absent)
PROOF
<1> DEFINE f == RemoveFromListGroup(d, id, d.items[id])
<1>1. InsertIntoListGroup(f, id, Absent) = Done(f)
  BY ItemFacts DEF InsertIntoListGroup
<1>2. Move(d, id, Absent) = Done([f EXCEPT !.items[id] = Absent])
  BY <1>1, OutcomeFacts DEF Move, Stored
<1> QED BY <1>2 DEF EraseSnapshot

(* Inserting a snapshot is a move from Absent, for a valid parent.         *)
LEMMA InsertIsMove ==
  ASSUME NEW d, NEW id \in Ids, d.items[id] = Absent, NEW s
  PROVE  InsertSnapshot(d, id, s) = IF ValidParent(d, id, s) THEN Move(d, id, s) ELSE Throws(d)
PROOF
<1>1. RemoveFromListGroup(d, id, d.items[id]) = d
  BY ItemFacts DEF RemoveFromListGroup
<1> QED BY <1>1 DEF InsertSnapshot, Move

(* Transaction::insert: the operation it records does what it did, and the *)
(* inverse of that operation undoes it.                                    *)
LEMMA InsertWritten ==
  ASSUME NEW d, Sound(d), NEW id \in Ids, d.items[id] = Absent,
         NEW s \in Items, Plain(s), s.kind # "absent",
         NEW op \in {ItemInserted(id, s), ListInserted(id, s)}
  PROVE  Written(d, op, InsertSnapshot(d, id, s), {id}, GroupsOf(s))
PROOF
<1> DEFINE r == InsertSnapshot(d, id, s)
<1> DEFINE m == Move(d, id, s)
<1>1. r = ApplyOperation(d, op)
  BY DEF ApplyOperation, ItemInserted, ListInserted, Removals
<1>2. /\ \A e : ApplyOperation(e, InvertOperation(op)) = Done(EraseSnapshot(e, id, s))
      /\ Fits(d, op) /\ \A e : e.items[id] = s => Fits(e, InvertOperation(op))
  <2>1. InvertOperation(op) \in {ItemRemoved(id, s), ListRemoved(id, s)}
    BY DEF InvertOperation, ItemInserted, ListInserted
  <2>2. Fits(d, op)
    BY DEF Fits, ItemInserted, ListInserted, Removals
  <2>3. \A e : e.items[id] = s => Fits(e, InvertOperation(op))
    BY <2>1 DEF Fits, ItemRemoved, ListRemoved, Insertions
  <2> QED BY <2>1, <2>2, <2>3 DEF ApplyOperation, ItemRemoved, ListRemoved, Removals
<1>3. r = IF ValidParent(d, id, s) THEN m ELSE Throws(d)
  BY InsertIsMove
<1>4. GroupsOf(d.items[id]) = {}
  BY ItemFacts DEF GroupsOf
<1>5. Near(d, m.doc, {id}, GroupsOf(s))
  BY <1>4, MoveNear
<1>6. /\ m.ok \in BOOLEAN
      /\ m.ok <=> Movable(d, id, s)
      /\ m.ok => m = Done(m.doc) /\ InOrder(m.doc) /\ m.doc.items[id] = s
      /\ AkinBut(d, m.doc, id)
  BY Moved DEF Sound
<1>7. ASSUME m.ok PROVE Move(m.doc, id, Absent) = Done(d)
  BY <1>6, <1>7, MovedBack DEF Sound
<1> HIDE DEF m, r
<1>8. CASE ~ValidParent(d, id, s)
  <2>1. Near(d, d, {id}, GroupsOf(s))
    BY Untouched
  <2> QED BY <1>1, <1>3, <1>8, <2>1, OutcomeFacts DEF Written, r
<1>9. CASE ValidParent(d, id, s)
  <2>1. r = m
    BY <1>3, <1>9
  <2>2. ASSUME m.ok
        PROVE  /\ m = Done(m.doc) /\ Sound(m.doc)
               /\ ApplyOperation(m.doc, InvertOperation(op)) = Done(d)
               /\ Fits(m.doc, InvertOperation(op))
    <3>1. Rooted(m.doc)
      <4>1. d \in Docs /\ Rooted(d) /\ m.doc \in Docs
        BY <1>5, SoundFacts DEF Near
      <4>2. d.items[id].kind \in {"absent", s.kind}
        BY DEF Absent
      <4> QED BY <1>6, <1>9, <2>2, <4>1, <4>2, Attached
    <3>2. Done(EraseSnapshot(m.doc, id, m.doc.items[id])) = Move(m.doc, id, Absent)
      BY EraseIsMove
    <3> QED BY <1>2, <1>6, <1>7, <2>2, <3>1, <3>2 DEF Sound
  <2> QED BY <1>1, <1>2, <1>5, <1>6, <2>1, <2>2 DEF Written, r
<1> QED BY <1>8, <1>9

(* The removal of an item without children: the operation it records does  *)
(* what it did, and the inverse of that operation undoes it.               *)
LEMMA EraseWritten ==
  ASSUME NEW d, Sound(d), NEW id \in Ids, d.items[id].kind # "absent", Childless(d, id),
         NEW op \in {ItemRemoved(id, d.items[id]), CascadeRemoved(id, d.items[id]),
                     ListRemoved(id, d.items[id])}
  PROVE  Written(d, op, Done(EraseSnapshot(d, id, d.items[id])), {id}, GroupsOf(d.items[id]))
PROOF
<1> DEFINE s == d.items[id]
<1> DEFINE m == Move(d, id, Absent)
<1>1. m = ApplyOperation(d, op)
  <2>1. ApplyOperation(d, op) = Done(EraseSnapshot(d, id, s))
    BY DEF ApplyOperation, ItemRemoved, CascadeRemoved, ListRemoved, Removals
  <2> QED BY <2>1, EraseIsMove
<1>2. /\ \A e : ApplyOperation(e, InvertOperation(op)) = InsertSnapshot(e, id, s)
      /\ Fits(d, op) /\ \A e : e.items[id] = Absent => Fits(e, InvertOperation(op))
  <2>1. InvertOperation(op) \in {ItemInserted(id, s), ListInserted(id, s)}
    BY DEF InvertOperation, ItemRemoved, CascadeRemoved, ListRemoved
  <2>2. Fits(d, op)
    BY DEF Fits, ItemRemoved, CascadeRemoved, ListRemoved, Insertions
  <2>3. \A e : e.items[id] = Absent => Fits(e, InvertOperation(op))
    BY <2>1 DEF Fits, ItemInserted, ListInserted, Removals
  <2> QED BY <2>1, <2>2, <2>3 DEF ApplyOperation, ItemInserted, ListInserted, Removals
<1>3. Absent \in Items /\ Plain(Absent) /\ ~Participates(Absent) /\ Absent.parent = NoId
  BY ItemFacts DEF Absent
<1>4. s \in Items /\ Plain(s) /\ d \in Docs /\ Rooted(d) /\ InOrder(d)
  BY SoundFacts
<1>5. Near(d, m.doc, {id}, GroupsOf(s))
  <2>1. GroupsOf(Absent) = {}
    BY <1>3 DEF GroupsOf
  <2> QED BY <1>3, <2>1, MoveNear
<1>6. Movable(d, id, Absent)
  BY <1>3 DEF Movable
<1>7. /\ m.ok = TRUE /\ m = Done(m.doc) /\ InOrder(m.doc) /\ m.doc.items[id] = Absent
      /\ AkinBut(d, m.doc, id) /\ m.doc \in Docs
  BY <1>3, <1>4, <1>6, Moved
<1>8. Move(m.doc, id, s) = Done(d)
  BY <1>3, <1>4, <1>6, MovedBack
<1>9. m = Done(EraseSnapshot(d, id, s))
  BY EraseIsMove
<1> HIDE DEF m, s
<1>10. Rooted(m.doc)
  <2>1. \A i \in Ids : d.items[i].parent # id
    BY DEF Childless
  <2> QED BY <1>3, <1>4, <1>7, <2>1, Detached
<1>11. ValidParent(m.doc, id, s)
  BY <1>4, <1>7, BackValid DEF s
<1>12. InsertSnapshot(m.doc, id, s) = Done(d)
  BY <1>7, <1>8, <1>11, InsertIsMove
<1>13. ApplyOperation(m.doc, InvertOperation(op)) = Done(d)
  BY <1>2, <1>12
<1>14. Written(d, op, m, {id}, GroupsOf(s))
  BY <1>1, <1>2, <1>5, <1>7, <1>10, <1>13 DEF Written, Sound
<1> QED BY <1>9, <1>14 DEF s

(* Two fields of a snapshot, set one after the other                       *)
TwoSet(s, p, i) == [s EXCEPT !.parent = p, !.index = i]

(* A snapshot whose parent and index are set                               *)
LEMMA TwoFields ==
  ASSUME NEW a, NEW b, NEW c, NEW p, NEW i, NEW s, s = [kind |-> a, parent |-> b, index |-> c]
  PROVE  TwoSet(s, p, i) = [kind |-> a, parent |-> p, index |-> i]
PROOF
<1>1. [s EXCEPT !.parent = p] = [kind |-> a, parent |-> p, index |-> c]
  OBVIOUS
<1>2. [s EXCEPT !.parent = p, !.index = i] = [[s EXCEPT !.parent = p] EXCEPT !.index = i]
  BY Zenon
<1>3. [[s EXCEPT !.parent = p] EXCEPT !.index = i]
        = [[kind |-> a, parent |-> p, index |-> c] EXCEPT !.index = i]
  BY <1>1, Zenon
<1>4. [[kind |-> a, parent |-> p, index |-> c] EXCEPT !.index = i]
        = [kind |-> a, parent |-> p, index |-> i]
  OBVIOUS
<1> QED BY <1>2, <1>3, <1>4, Zenon DEF TwoSet

(* A snapshot with another parent, and with its own parent and index again *)
ReparentedTo(new, s, parent) ==
  /\ new \in Items /\ Plain(new) /\ new.kind = s.kind /\ new.parent = parent
  /\ \A k : Reparented(new, s.parent, IF s.parent # NoId THEN s.index ELSE k) = s

LEMMA ReparentedFacts ==
  ASSUME NEW s \in Items, Plain(s), s.kind # "absent",
         NEW parent \in Ids \cup {NoId}, NEW targetIndex \in Nat
  PROVE  ReparentedTo(Reparented(s, parent, targetIndex), s, parent)
PROOF
<1> DEFINE index == IF s.kind = "elem" /\ parent # NoId THEN targetIndex ELSE 0
<1> DEFINE new == [kind |-> s.kind, parent |-> parent, index |-> index]
<1>1. /\ s.kind \in {"row", "elem", "absent"} /\ s.parent \in Ids \cup {NoId} /\ s.index \in Nat
      /\ s = [kind |-> s.kind, parent |-> s.parent, index |-> s.index]
  BY ItemFacts
<1>2. PICK a, b, c : a = s.kind /\ b = s.parent /\ c = s.index
  OBVIOUS
<1>3. s = [kind |-> a, parent |-> b, index |-> c]
  BY <1>1, <1>2
<1>4. Reparented(s, parent, targetIndex) = new
  <2>1. [s EXCEPT !.parent = parent] = [kind |-> a, parent |-> parent, index |-> c]
    BY <1>3
  <2>2. Participates([s EXCEPT !.parent = parent]) <=> a = "elem" /\ parent # NoId
    BY <2>1 DEF Participates
  <2>3. \A i : TwoSet(s, parent, i) = [kind |-> a, parent |-> parent, index |-> i]
    BY <1>3, TwoFields
  <2>4. Reparented(s, parent, targetIndex) = TwoSet(s, parent, index)
    <3>1. PICK i : i = IF Participates([s EXCEPT !.parent = parent]) THEN targetIndex ELSE 0
      OBVIOUS
    <3>2. i = index
      BY <1>2, <2>2, <3>1
    <3>3. Reparented(s, parent, targetIndex) = TwoSet(s, parent, i)
      BY <3>1, Zenon DEF Reparented, TwoSet
    <3> QED BY <3>2, <3>3
  <2> QED BY <1>2, <2>3, <2>4
<1>5. new \in Items
  BY <1>1 DEF Items
<1>6. Plain(new)
  BY <1>1 DEF Plain, Participates
<1>7. ASSUME NEW k
      PROVE  Reparented(new, b, IF b # NoId THEN c ELSE k) = [kind |-> a, parent |-> b,
               index |-> IF a = "elem" /\ b # NoId THEN c ELSE 0]
  <2>1. [new EXCEPT !.parent = b] = [kind |-> a, parent |-> b, index |-> index]
    BY <1>2
  <2>2. Participates([new EXCEPT !.parent = b]) <=> a = "elem" /\ b # NoId
    BY <2>1 DEF Participates
  <2>3. \A i : TwoSet(new, b, i) = [kind |-> a, parent |-> b, index |-> i]
    <3>1. PICK p, x : p = parent /\ x = index
      OBVIOUS
    <3>2. new = [kind |-> a, parent |-> p, index |-> x]
      BY <1>2, <3>1
    <3> HIDE DEF new
    <3> QED BY <3>2, TwoFields
  <2> HIDE DEF new
  <2>4. PICK i : i = IF b # NoId THEN c ELSE k
    OBVIOUS
  <2>5. PICK x : x = IF Participates([new EXCEPT !.parent = b]) THEN i ELSE 0
    OBVIOUS
  <2>6. Reparented(new, b, i) = TwoSet(new, b, x)
    BY <2>5, Zenon DEF Reparented, TwoSet
  <2>7. x = IF a = "elem" /\ b # NoId THEN c ELSE 0
    BY <2>2, <2>4, <2>5
  <2> QED BY <2>3, <2>4, <2>6, <2>7
<1>8. ~(a = "elem" /\ b # NoId) => c = 0
  BY <1>1, <1>2 DEF Plain, Participates
<1>9. \A k : Reparented(new, b, IF b # NoId THEN c ELSE k) = s
  BY <1>3, <1>7, <1>8
<1>10. new.kind = s.kind /\ new.parent = parent
  BY <1>2
<1> HIDE DEF new
<1>11. ReparentedTo(new, s, parent)
  BY <1>2, <1>5, <1>6, <1>9, <1>10 DEF ReparentedTo
<1> QED BY <1>4, <1>11

(* Replacing the snapshot of an item is a move, for a valid parent.        *)
LEMMA ReplaceIsMove ==
  ASSUME NEW d, Sound(d), NEW id \in Ids, NEW new
  PROVE  ReplaceSnapshot(d, id, d.items[id], new)
           = IF ValidParent(d, id, new) THEN Move(d, id, new) ELSE Throws(d)
PROOF
<1>1. CASE d.items[id] # new
  BY <1>1 DEF ReplaceSnapshot, UpdateListGroup, Move
<1>2. CASE d.items[id] = new
  <2>1. /\ d \in Docs /\ d.items \in [Ids -> Items] /\ InOrder(d)
        /\ d = [items |-> d.items, groups |-> d.groups]
    BY SoundFacts, DocFacts
  <2>2. Move(d, id, new) = Done(d)
    BY <1>2, <2>1, MovedNowhere
  <2>3. Stored(UpdateListGroup(d, id, d.items[id], new), id, new)
          = Done([d EXCEPT !.items[id] = new])
    BY <1>2, OutcomeFacts DEF UpdateListGroup, Stored
  <2>4. [d EXCEPT !.items[id] = new] = d
    <3>1. [d.items EXCEPT ![id] = new] = d.items
      BY <1>2, <2>1
    <3>2. [d EXCEPT !.items[id] = new] = [d EXCEPT !.items = [d.items EXCEPT ![id] = new]]
      OBVIOUS
    <3>3. [d EXCEPT !.items = d.items] = [items |-> d.items, groups |-> d.groups]
      BY <2>1, FieldFacts
    <3> QED BY <2>1, <3>1, <3>2, <3>3
  <2> QED BY <2>2, <2>3, <2>4 DEF ReplaceSnapshot
<1> QED BY <1>1, <1>2

(* Transaction::update of an association: the operation it records does    *)
(* what it did, and the inverse of that operation undoes it.               *)
LEMMA UpdateWritten ==
  ASSUME NEW d, Sound(d), NEW id \in Ids, d.items[id].kind # "absent",
         NEW parent \in Ids \cup {NoId}, NEW targetIndex \in Nat
  PROVE  LET old == d.items[id]
         IN  Written(d, Updated(id, old.parent, old.index, parent, targetIndex),
                     UpdateAssociation(d, id, parent, targetIndex),
                     {id}, GroupsOf(old) \cup GroupsOf(Reparented(old, parent, targetIndex)))
PROOF
<1> DEFINE old == d.items[id]
<1> DEFINE new == Reparented(old, parent, targetIndex)
<1> DEFINE op == Updated(id, old.parent, old.index, parent, targetIndex)
<1> DEFINE back == IF old.parent # NoId THEN old.index ELSE 0
<1> DEFINE r == UpdateAssociation(d, id, parent, targetIndex)
<1> DEFINE m == Move(d, id, new)
<1>1. old \in Items /\ Plain(old) /\ d \in Docs /\ Rooted(d) /\ InOrder(d)
  BY SoundFacts
<1>0. ReparentedTo(new, old, parent)
  BY <1>1, ReparentedFacts
<1>2. new \in Items /\ Plain(new) /\ new.kind = old.kind
  <2> HIDE DEF new, old
  <2> QED BY <1>0 DEF ReparentedTo
<1>3. Reparented(new, old.parent, back) = old
  <2>1. \A k : Reparented(new, old.parent, IF old.parent # NoId THEN old.index ELSE k) = old
    <3> HIDE DEF new, old
    <3> QED BY <1>0 DEF ReparentedTo
  <2> QED BY <2>1
<1>4. r = ApplyOperation(d, op)
  BY DEF ApplyOperation, Updated, Removals
<1>5. \A e : /\ ApplyOperation(e, InvertOperation(op)) = UpdateAssociation(e, id, old.parent, back)
             /\ Fits(e, op) /\ Fits(e, InvertOperation(op))
  <2>1. InvertOperation(op) = Updated(id, parent, targetIndex, old.parent, back)
    BY DEF InvertOperation, Updated
  <2>2. \A e : Fits(e, op) /\ Fits(e, InvertOperation(op))
    BY <2>1 DEF Fits, Updated, Removals, Insertions
  <2> QED BY <2>1, <2>2 DEF ApplyOperation, Updated, Removals
<1>6. r = IF ValidParent(d, id, new) THEN m ELSE Throws(d)
  <2>1. Present(d, id)
    BY <1>1, KindFacts DEF Present
  <2> QED BY <2>1, ReplaceIsMove DEF UpdateAssociation
<1> HIDE DEF r, new, old, back, op
<1>7. Near(d, m.doc, {id}, GroupsOf(old) \cup GroupsOf(new))
  BY <1>2, MoveNear DEF old
<1>8. /\ m.ok \in BOOLEAN
      /\ m.ok <=> Movable(d, id, new)
      /\ m.ok => m = Done(m.doc) /\ InOrder(m.doc) /\ m.doc.items[id] = new
      /\ AkinBut(d, m.doc, id) /\ m.doc \in Docs
  BY <1>1, <1>2, Moved
<1>9. ASSUME m.ok PROVE Move(m.doc, id, old) = Done(d)
  BY <1>1, <1>2, <1>8, <1>9, MovedBack DEF old
<1> HIDE DEF m
<1>10. CASE ~ValidParent(d, id, new)
  <2>1. Near(d, d, {id}, GroupsOf(old) \cup GroupsOf(new))
    BY Untouched
  <2>2. Written(d, op, r, {id}, GroupsOf(old) \cup GroupsOf(new))
    BY <1>4, <1>6, <1>10, <2>1, OutcomeFacts DEF Written
  <2> QED BY <2>2 DEF op, old, r, new
<1>11. CASE ValidParent(d, id, new)
  <2>1. r = m
    BY <1>6, <1>11
  <2>2. ASSUME m.ok
        PROVE  /\ m = Done(m.doc) /\ Sound(m.doc)
               /\ ApplyOperation(m.doc, InvertOperation(op)) = Done(d)
    <3>1. Rooted(m.doc)
      BY <1>1, <1>2, <1>8, <1>11, <2>2, Attached DEF old
    <3>2. Sound(m.doc)
      BY <1>8, <2>2, <3>1 DEF Sound
    <3>3. Present(m.doc, id)
      <4>1. new.kind # "absent"
        BY <1>2 DEF old
      <4> QED BY <1>2, <1>8, <2>2, <4>1, KindFacts DEF Present
    <3>4. ValidParent(m.doc, id, old)
      BY <1>1, <1>8, BackValid DEF old
    <3>5. UpdateAssociation(m.doc, id, old.parent, back)
            = ReplaceSnapshot(m.doc, id, m.doc.items[id], old)
      BY <1>3, <1>8, <2>2, <3>3 DEF UpdateAssociation
    <3>6. ReplaceSnapshot(m.doc, id, m.doc.items[id], old) = Move(m.doc, id, old)
      BY <3>2, <3>4, ReplaceIsMove
    <3> QED BY <1>5, <1>8, <1>9, <2>2, <3>2, <3>5, <3>6
  <2>3. Written(d, op, r, {id}, GroupsOf(old) \cup GroupsOf(new))
    BY <1>4, <1>5, <1>7, <1>8, <2>1, <2>2 DEF Written
  <2> QED BY <2>3 DEF op, old, r, new
<1> QED BY <1>10, <1>11

(* Transaction::rotate: the operation it records does what it did, and the *)
(* inverse of that operation undoes it.                                    *)
LEMMA RotateWritten ==
  ASSUME NEW d, Sound(d), NEW g \in Ids, NEW startIndex \in Nat, NEW count \in Nat,
         startIndex + count <= Len(d.groups[g]), NEW offset \in Int
  PROVE  Written(d, Rotated(g, startIndex, count, offset),
                 Done(RotateList(d, g, startIndex, count, offset)), {},
                 IF count > 0 THEN {g} ELSE {})
PROOF
<1> DEFINE op == Rotated(g, startIndex, count, offset)
<1> DEFINE e == RotateList(d, g, startIndex, count, offset)
<1> DEFINE groups == IF count > 0 THEN {g} ELSE {}
<1>1. Done(e) = ApplyOperation(d, op)
  BY DEF ApplyOperation, Rotated, Removals
<1>2. \A f : /\ ApplyOperation(f, InvertOperation(op))
                  = Done(RotateList(f, g, startIndex, count, -offset))
             /\ Fits(f, op) /\ Fits(f, InvertOperation(op))
  <2>1. InvertOperation(op) = Rotated(g, startIndex, count, -offset)
    BY DEF InvertOperation, Rotated
  <2>2. \A f : Fits(f, op) /\ Fits(f, InvertOperation(op))
    BY <2>1 DEF Fits, Rotated, Removals, Insertions
  <2> QED BY <2>1, <2>2 DEF ApplyOperation, Rotated, Removals
<1>3. d \in Docs /\ InOrder(d) /\ Rooted(d)
  BY SoundFacts
<1>4. /\ InOrder(e)
      /\ e.groups[g] = RotateWindow(d.groups[g], startIndex, count, offset)
      /\ \A h \in Ids : h # g => e.groups[h] = d.groups[h]
      /\ \A i \in Ids : Akin(d.items[i], e.items[i])
  <2>1. TurnedTo(e, d, g, RotateWindow(d.groups[g], startIndex, count, offset))
    BY <1>3, ListTurned
  <2> HIDE DEF e
  <2> QED BY <2>1 DEF TurnedTo
<1>5. RotateList(e, g, startIndex, count, -offset) = d
  BY <1>3, ListTurnedBack
<1> HIDE DEF e, op, groups
<1>6. e \in Docs /\ \A i \in Ids : Plain(e.items[i])
  BY <1>4, ItemFacts DEF InOrder, InOrderBut
<1>7. Rooted(e)
  <2>2. PICK rank : Ranked(d, rank)
    BY <1>3 DEF Rooted
  <2>3. ASSUME NEW i \in Ids, e.items[i].parent # NoId
        PROVE  /\ e.items[e.items[i].parent].kind = KindAbove(e.items[i])
               /\ rank[e.items[i].parent] < rank[i]
    <3>1. e.items[i].parent = d.items[i].parent /\ e.items[i].kind = d.items[i].kind
      BY <1>4 DEF Akin
    <3>2. d.items[i].parent \in Ids
      BY <1>3, <2>3, <3>1, DocFacts, ItemFacts
    <3>3. e.items[d.items[i].parent].kind = d.items[d.items[i].parent].kind
      BY <1>4, <3>2 DEF Akin
    <3>4. /\ d.items[d.items[i].parent].kind = KindAbove(d.items[i])
          /\ rank[d.items[i].parent] < rank[i]
      BY <2>2, <2>3, <3>1 DEF Ranked
    <3> QED BY <3>1, <3>3, <3>4 DEF KindAbove
  <2> QED BY <2>2, <2>3 DEF Ranked, Rooted
<1>8. ASSUME NEW h \in Ids \ groups PROVE e.groups[h] = d.groups[h]
  <2>1. CASE h # g
    BY <1>4, <2>1
  <2>2. CASE h = g
    <3>1. ~(count > 0)
      BY <2>2 DEF groups
    <3> QED BY <1>4, <2>2, <3>1 DEF RotateWindow
  <2> QED BY <2>1, <2>2
<1>9. Near(d, e, {}, groups)
  BY <1>4, <1>6, <1>8 DEF Near
<1>10. Written(d, op, Done(e), {}, groups)
  BY <1>1, <1>2, <1>4, <1>5, <1>7, <1>9, OutcomeFacts DEF Written, Sound
<1> QED BY <1>10 DEF op, e, groups
-----------------------------------------------------------------------------
(***************************************************************************)
(* Change sets that are applied operation by operation                     *)
(***************************************************************************)
SameRun(a, b) ==
  \/ a.kind = "ItemInserted" /\ b.kind = "ItemInserted"
  \/ a.kind \in Removals /\ b.kind \in Removals

Extended(runs, op) ==
  IF runs # <<>> /\ SameRun(Last(Last(runs)), op)
    THEN Append(Front(runs), Append(Last(runs), op))
    ELSE Append(runs, <<op>>)

(* The folds of applyChangeSet, and those in eraseSnapshots, over elements *)
(* that are marked as kept or not, and in insertItemSnapshots              *)
Act(fold, acc, x) ==
  CASE fold = "extend" -> Extended(acc, x)
    [] fold = "step" -> Step(acc, x)
    [] fold = "run" -> ApplyRun(acc, x)
    [] fold = "round" -> Retry(acc)
    [] fold = "keep" -> IF x.kept THEN Append(acc, x.id) ELSE acc
    [] fold = "renumber" -> Refresh(acc, x, 0)

Marked(group, removed) ==
  [k \in 1..Len(group) |-> [id |-> group[k], kept |-> group[k] \notin removed]]

FoldsTo(iter, fold, init, seq) ==
  iter = [s \in SUBSET (DOMAIN seq) |->
            IF s = {} THEN init ELSE Act(fold, iter[s \ {Max(s)}], seq[Max(s)])]

Folded(fold, init, seq) == (CHOOSE iter : FoldsTo(iter, fold, init, seq))[DOMAIN seq]

(* Such a fold has a solution, whatever values it goes through.            *)
LEMMA FoldsExist ==
  ASSUME NEW fold, NEW init, NEW N \in Nat, NEW seq, DOMAIN seq = 1..N
  PROVE  \E iter : FoldsTo(iter, fold, init, seq)
PROOF
<1> DEFINE Runs1(g, n) == /\ g = [s \in SUBSET (1..n) |-> g[s]]
                          /\ \A s \in SUBSET (1..n) :
                               g[s] = IF s = {} THEN init
                                      ELSE Act(fold, g[s \ {Max(s)}], seq[Max(s)])
<1> DEFINE T == {n \in 0..N : \E g : Runs1(g, n)}
<1>1. 0 \in T
  <2> DEFINE g == [s \in SUBSET (1..0) |-> init]
  <2>1. g = [s \in SUBSET (1..0) |-> g[s]]
    OBVIOUS
  <2>2. \A s \in SUBSET (1..0) : s = {} /\ g[s] = init
    OBVIOUS
  <2> HIDE DEF g
  <2>3. Runs1(g, 0)
    BY <2>1, <2>2
  <2> HIDE DEF Runs1
  <2> QED BY <2>3
<1>2. ASSUME NEW n \in 0..(N - 1), n \in T PROVE n + 1 \in T
  <2>1. PICK g : Runs1(g, n)
    BY <1>2
  <2> DEFINE h == [s \in SUBSET (1..(n + 1)) |->
                     IF n + 1 \in s THEN Act(fold, g[s \ {n + 1}], seq[n + 1]) ELSE g[s]]
  <2>2. n \in Nat /\ n + 1 \in Nat /\ n + 1 \in 1..N
    OBVIOUS
  <2>3. ASSUME NEW s \in SUBSET (1..(n + 1)), n + 1 \in s
        PROVE  /\ s \ {n + 1} \in SUBSET (1..n) /\ Max(s) = n + 1
               /\ h[s] = Act(fold, g[s \ {n + 1}], seq[n + 1])
               /\ h[s \ {n + 1}] = g[s \ {n + 1}]
    <3>1. s \ {n + 1} \in SUBSET (1..n)
      BY <2>2
    <3>2. Max(s) = n + 1
      <4>1. Max(s) \in s /\ \A y \in s : Max(s) >= y
        BY <2>2, <2>3, MaxInside
      <4>2. Max(s) >= n + 1 /\ Max(s) \in 1..(n + 1)
        BY <4>1, <2>3
      <4> QED BY <4>2, <2>2
    <3>3. s \ {n + 1} \in SUBSET (1..(n + 1)) /\ n + 1 \notin s \ {n + 1}
      OBVIOUS
    <3> QED BY <2>3, <3>1, <3>2, <3>3
  <2>4. ASSUME NEW s \in SUBSET (1..(n + 1)), n + 1 \notin s
        PROVE  s \in SUBSET (1..n) /\ h[s] = g[s]
    <3>1. s \in SUBSET (1..n)
      BY <2>2, <2>4
    <3> QED BY <2>4, <3>1
  <2>5. h = [s \in SUBSET (1..(n + 1)) |-> h[s]]
    OBVIOUS
  <2> HIDE DEF h
  <2>6. ASSUME NEW s \in SUBSET (1..(n + 1))
        PROVE  h[s] = IF s = {} THEN init ELSE Act(fold, h[s \ {Max(s)}], seq[Max(s)])
    <3>1. CASE n + 1 \in s
      BY <3>1, <2>3
    <3>2. CASE n + 1 \notin s
      <4>1. s \in SUBSET (1..n) /\ h[s] = g[s]
        BY <3>2, <2>4
      <4>2. g[s] = IF s = {} THEN init ELSE Act(fold, g[s \ {Max(s)}], seq[Max(s)])
        BY <4>1, <2>1
      <4>3. n + 1 \notin s \ {Max(s)} /\ s \ {Max(s)} \in SUBSET (1..(n + 1))
        BY <3>2
      <4>4. h[s \ {Max(s)}] = g[s \ {Max(s)}]
        BY <4>3, <2>4
      <4> QED BY <4>1, <4>2, <4>4
    <3> QED BY <3>1, <3>2
  <2>7. Runs1(h, n + 1)
    BY <2>5, <2>6
  <2>8. n + 1 \in 0..N
    BY <2>2
  <2> HIDE DEF Runs1
  <2> QED BY <2>7, <2>8
<1> HIDE DEF T
<1>3. N \in T
  <2>1. 0..N \subseteq T
    BY <1>1, <1>2, Induction
  <2> QED BY <2>1
<1>4. PICK g : Runs1(g, N)
  BY <1>3 DEF T
<1>5. g = [s \in SUBSET (1..N) |->
            IF s = {} THEN init ELSE Act(fold, g[s \ {Max(s)}], seq[Max(s)])]
  <2>1. g = [s \in SUBSET (1..N) |-> g[s]]
    BY <1>4
  <2>2. \A s \in SUBSET (1..N) :
          g[s] = IF s = {} THEN init ELSE Act(fold, g[s \ {Max(s)}], seq[Max(s)])
    BY <1>4
  <2> QED BY <2>1, <2>2
<1> QED BY <1>5 DEF FoldsTo

(* The values that the fold over a sequence of N operations goes through   *)
Traces(fold, N, seq, trace) ==
  /\ DOMAIN seq = 1..N
  /\ \A n \in 1..N : trace[n] = Act(fold, trace[n - 1], seq[n])

(* The fold over a sequence goes where its steps lead.                     *)
LEMMA FoldedIs ==
  ASSUME NEW fold, NEW N \in Nat, NEW seq, NEW trace, Traces(fold, N, seq, trace)
  PROVE  Folded(fold, trace[0], seq) = trace[N]
PROOF
<1> /\ DOMAIN seq = 1..N
    /\ \A n \in 1..N : trace[n] = Act(fold, trace[n - 1], seq[n])
  BY DEF Traces
<1> DEFINE I == CHOOSE iter : FoldsTo(iter, fold, trace[0], seq)
<1>1. FoldsTo(I, fold, trace[0], seq)
  BY FoldsExist
<1>2. Folded(fold, trace[0], seq) = I[1..N]
  BY DEF Folded
<1> HIDE DEF I
<1>3. ASSUME NEW s \in SUBSET (1..N)
      PROVE  I[s] = IF s = {} THEN trace[0] ELSE Act(fold, I[s \ {Max(s)}], seq[Max(s)])
  BY <1>1 DEF FoldsTo
<1>4. I[1..0] = trace[0]
  <2>1. 1..0 = {} /\ {} \in SUBSET (1..N)
    OBVIOUS
  <2> QED BY <1>3, <2>1
<1>5. ASSUME NEW n \in 1..N PROVE I[1..n] = Act(fold, I[1..(n - 1)], seq[n])
  <2>1. 1..n \in SUBSET (1..N)
    OBVIOUS
  <2>2. Max(1..n) = n /\ (1..n) \ {n} = 1..(n - 1) /\ 1..n # {}
    <3>1. n \in Nat \ {0}
      OBVIOUS
    <3> QED BY <3>1, LastPosition
  <2> QED BY <1>3, <2>1, <2>2
<1> DEFINE T == {n \in 0..N : I[1..n] = trace[n]}
<1>6. 0 \in T
  BY <1>4
<1>7. ASSUME NEW n \in 0..(N - 1), n \in T PROVE n + 1 \in T
  <2>1. n + 1 \in 1..N /\ (n + 1) - 1 = n /\ n + 1 \in 0..N
    OBVIOUS
  <2>2. I[1..(n + 1)] = Act(fold, I[1..n], seq[n + 1])
    BY <1>5, <2>1
  <2>3. trace[n + 1] = Act(fold, trace[n], seq[n + 1])
    BY <2>1
  <2> QED BY <1>7, <2>1, <2>2, <2>3
<1> HIDE DEF T
<1>8. 0..N \subseteq T
  BY <1>6, <1>7, Induction
<1> QED BY <1>2, <1>8 DEF T

(* There are such values, whatever they are.                               *)
HasTrace(fold, N, seq, init) ==
  \E trace : /\ Traces(fold, N, seq, trace) /\ trace[0] = init
             /\ Folded(fold, init, seq) = trace[N]

LEMMA FoldTrace ==
  ASSUME NEW fold, NEW N \in Nat, NEW seq, DOMAIN seq = 1..N, NEW init
  PROVE  HasTrace(fold, N, seq, init)
PROOF
<1> SUFFICES \E trace : /\ Traces(fold, N, seq, trace) /\ trace[0] = init
                       /\ Folded(fold, init, seq) = trace[N]
  BY DEF HasTrace
<1>1. PICK iter : FoldsTo(iter, fold, init, seq)
  BY FoldsExist
<1> DEFINE trace == [n \in 0..N |-> iter[1..n]]
<1>2. ASSUME NEW s \in SUBSET (1..N)
      PROVE  iter[s] = IF s = {} THEN init ELSE Act(fold, iter[s \ {Max(s)}], seq[Max(s)])
  BY <1>1 DEF FoldsTo
<1>3. ASSUME NEW n \in 1..N PROVE trace[n] = Act(fold, trace[n - 1], seq[n])
  <2>1. 1..n \in SUBSET (1..N) /\ n \in 0..N /\ n - 1 \in 0..N
    OBVIOUS
  <2>2. Max(1..n) = n /\ (1..n) \ {n} = 1..(n - 1) /\ 1..n # {}
    <3>1. n \in Nat \ {0}
      OBVIOUS
    <3> QED BY <3>1, LastPosition
  <2>3. iter[1..n] = Act(fold, iter[1..(n - 1)], seq[n])
    BY <1>2, <2>1, <2>2
  <2> QED BY <2>1, <2>3
<1>4. trace[0] = init
  <2>1. 1..0 = {} /\ {} \in SUBSET (1..N) /\ 0 \in 0..N
    OBVIOUS
  <2>2. trace[0] = iter[{}]
    BY <2>1
  <2> QED BY <1>2, <2>1, <2>2
<1> HIDE DEF trace
<1>5. Traces(fold, N, seq, trace)
  BY <1>3 DEF Traces
<1> QED BY <1>4, <1>5, FoldedIs

(* Runs and applyChangeSet as such folds                                   *)
LEMMA FoldForms ==
  /\ \A ops : Runs(ops) = Folded("extend", <<>>, ops)
  /\ \A state, run : FoldLeft(Step, state, run) = Folded("step", state, run)
  /\ \A d, ops : ApplyChangeSet(d, ops) =
       Outcome(Folded("round",
                      Folded("run", [ok |-> TRUE, doc |-> d, pending |-> <<>>], Runs(ops)),
                      ops))
  /\ \A group \in Seq(Ids) : \A removed :
       RetainElements(group, removed) = Folded("keep", <<>>, Marked(group, removed))
PROOF
<1>1. ASSUME NEW acc, NEW x
      PROVE  /\ Act("extend", acc, x) = Extended(acc, x)
             /\ Act("step", acc, x) = Step(acc, x)
             /\ Act("run", acc, x) = ApplyRun(acc, x)
             /\ Act("round", acc, x) = Retry(acc)
  BY DEF Act
<1>2. ASSUME NEW ops PROVE Runs(ops) = Folded("extend", <<>>, ops)
  <2> DEFINE Solves(iter) == iter = [s \in SUBSET (DOMAIN ops) |->
               IF s = {} THEN <<>> ELSE Extended(iter[s \ {Max(s)}], ops[Max(s)])]
  <2>1. Runs(ops) = (CHOOSE iter : Solves(iter))[DOMAIN ops]
    BY ZenonT(30) DEF Runs, FoldLeft, MapThenFoldSet, Extended, SameRun
  <2>2. ASSUME NEW iter
        PROVE  Solves(iter) <=> FoldsTo(iter, "extend", <<>>, ops)
    BY <1>1 DEF FoldsTo
  <2> HIDE DEF Solves
  <2>3. (CHOOSE iter : Solves(iter)) = (CHOOSE iter : FoldsTo(iter, "extend", <<>>, ops))
    BY <2>2
  <2> QED BY <2>1, <2>3 DEF Folded
<1>3. ASSUME NEW state, NEW run PROVE FoldLeft(Step, state, run) = Folded("step", state, run)
  <2> DEFINE Solves(iter) == iter = [s \in SUBSET (DOMAIN run) |->
               IF s = {} THEN state ELSE Step(iter[s \ {Max(s)}], run[Max(s)])]
  <2>1. FoldLeft(Step, state, run) = (CHOOSE iter : Solves(iter))[DOMAIN run]
    BY ZenonT(30) DEF FoldLeft, MapThenFoldSet
  <2>2. ASSUME NEW iter
        PROVE  Solves(iter) <=> FoldsTo(iter, "step", state, run)
    BY <1>1 DEF FoldsTo
  <2> HIDE DEF Solves
  <2>3. (CHOOSE iter : Solves(iter)) = (CHOOSE iter : FoldsTo(iter, "step", state, run))
    BY <2>2
  <2> QED BY <2>1, <2>3 DEF Folded
<1>4. ASSUME NEW state, NEW runs
      PROVE  FoldLeft(ApplyRun, state, runs) = Folded("run", state, runs)
  <2> DEFINE Solves(iter) == iter = [s \in SUBSET (DOMAIN runs) |->
               IF s = {} THEN state ELSE ApplyRun(iter[s \ {Max(s)}], runs[Max(s)])]
  <2>1. FoldLeft(ApplyRun, state, runs) = (CHOOSE iter : Solves(iter))[DOMAIN runs]
    BY ZenonT(30) DEF FoldLeft, MapThenFoldSet
  <2>2. ASSUME NEW iter
        PROVE  Solves(iter) <=> FoldsTo(iter, "run", state, runs)
    BY <1>1 DEF FoldsTo
  <2> HIDE DEF Solves
  <2>3. (CHOOSE iter : Solves(iter)) = (CHOOSE iter : FoldsTo(iter, "run", state, runs))
    BY <2>2
  <2> QED BY <2>1, <2>3 DEF Folded
<1>5. ASSUME NEW d, NEW ops
      PROVE  ApplyChangeSet(d, ops) =
               Outcome(Folded("round",
                      Folded("run", [ok |-> TRUE, doc |-> d, pending |-> <<>>], Runs(ops)),
                      ops))
  <2> DEFINE state == FoldLeft(ApplyRun, [ok |-> TRUE, doc |-> d, pending |-> <<>>], Runs(ops))
  <2> DEFINE Solves(iter) == iter = [s \in SUBSET (DOMAIN ops) |->
               IF s = {} THEN state ELSE Retry(iter[s \ {Max(s)}])]
  <2>1. ApplyChangeSet(d, ops) = Outcome((CHOOSE iter : Solves(iter))[DOMAIN ops])
    BY ZenonT(30) DEF ApplyChangeSet, FoldLeft, MapThenFoldSet
  <2>2. ASSUME NEW iter
        PROVE  Solves(iter) <=> FoldsTo(iter, "round", state, ops)
    BY <1>1 DEF FoldsTo
  <2> HIDE DEF Solves
  <2>3. (CHOOSE iter : Solves(iter)) = (CHOOSE iter : FoldsTo(iter, "round", state, ops))
    BY <2>2
  <2>4. state = Folded("run", [ok |-> TRUE, doc |-> d, pending |-> <<>>], Runs(ops))
    BY <1>4
  <2> HIDE DEF state
  <2> QED BY <2>1, <2>3, <2>4 DEF Folded
<1>6. ASSUME NEW group \in Seq(Ids), NEW removed
      PROVE  RetainElements(group, removed) = Folded("keep", <<>>, Marked(group, removed))
  <2> DEFINE marked == Marked(group, removed)
  <2> DEFINE Solves(iter) == iter = [s \in SUBSET (DOMAIN group) |->
               IF s = {} THEN <<>>
               ELSE IF group[Max(s)] \in removed THEN iter[s \ {Max(s)}]
                    ELSE Append(iter[s \ {Max(s)}], group[Max(s)])]
  <2>1. RetainElements(group, removed) = (CHOOSE iter : Solves(iter))[DOMAIN group]
    BY ZenonT(30) DEF RetainElements, FoldLeft, MapThenFoldSet
  <2>2. DOMAIN group = 1..Len(group) /\ DOMAIN marked = 1..Len(group) /\ Len(group) \in Nat
    BY DEF Marked
  <2>3. ASSUME NEW s \in SUBSET (DOMAIN group), s # {}, NEW acc
        PROVE  Act("keep", acc, marked[Max(s)])
                 = IF group[Max(s)] \in removed THEN acc ELSE Append(acc, group[Max(s)])
    <3>1. Max(s) \in 1..Len(group)
      BY <2>2, <2>3, MaxInside
    <3>2. marked[Max(s)] = [id |-> group[Max(s)], kept |-> group[Max(s)] \notin removed]
      BY <3>1 DEF Marked
    <3>3. PICK m : m = marked[Max(s)]
      OBVIOUS
    <3>4. m.id = group[Max(s)] /\ m.kept = (group[Max(s)] \notin removed)
      BY <3>2, <3>3
    <3>5. Act("keep", acc, m) = IF m.kept THEN Append(acc, m.id) ELSE acc
      BY DEF Act
    <3> QED BY <3>3, <3>4, <3>5
  <2>4. ASSUME NEW iter
        PROVE  Solves(iter) <=> FoldsTo(iter, "keep", <<>>, marked)
    BY <2>2, <2>3 DEF FoldsTo
  <2> HIDE DEF Solves, marked
  <2>5. (CHOOSE iter : Solves(iter)) = (CHOOSE iter : FoldsTo(iter, "keep", <<>>, marked))
    BY <2>4
  <2> QED BY <2>1, <2>2, <2>5 DEF Folded, marked
<1> QED BY <1>2, <1>3, <1>5, <1>6

(* A list that an element is appended to, and taken out of again           *)
LEMMA AppendRemoved ==
  ASSUME NEW a \in Seq(Ids), Distinct(a), NEW i \in Ids, ~Contains(a, i)
  PROVE  /\ Append(a, i) \in Seq(Ids) /\ Distinct(Append(a, i))
         /\ \A y : Contains(Append(a, i), y) <=> Contains(a, y) \/ y = i
         /\ \A x : RemoveElement(Append(a, i), x)
                     = IF x = i THEN a ELSE Append(RemoveElement(a, x), i)
PROOF
<1>1. PICK b : b = Append(a, i)
  OBVIOUS
<1>2. PICK n \in Nat : n = Len(a)
  OBVIOUS
<1>3. /\ b \in Seq(Ids) /\ Len(b) = n + 1 /\ DOMAIN b = 1..(n + 1) /\ DOMAIN a = 1..n
      /\ b[n + 1] = i /\ \A k \in 1..n : b[k] = a[k] /\ a[k] # i
  BY <1>1, <1>2 DEF Contains
<1>4. Distinct(b)
  <2> SUFFICES ASSUME NEW j \in 1..(n + 1), NEW k \in 1..(n + 1), b[j] = b[k] PROVE j = k
    BY <1>3 DEF Distinct
  <2>1. \A m \in 1..(n + 1) : m = n + 1 \/ m \in 1..n
    OBVIOUS
  <2> QED BY <1>3, <2>1 DEF Distinct
<1>5. ASSUME NEW y PROVE Contains(b, y) <=> Contains(a, y) \/ y = i
  <2>1. \A m \in 1..(n + 1) : m = n + 1 \/ m \in 1..n
    OBVIOUS
  <2>2. (\A m \in 1..n : m \in 1..(n + 1)) /\ n + 1 \in 1..(n + 1)
    OBVIOUS
  <2> QED BY <1>2, <1>3, <2>1, <2>2 DEF Contains
<1>6. ASSUME NEW x
      PROVE  RemoveElement(b, x) = IF x = i THEN a ELSE Append(RemoveElement(a, x), i)
  <2>1. CASE x = i
    <3>1. n + 1 \in DOMAIN b
      BY <1>3
    <3>2. /\ RemoveElement(b, b[n + 1]) \in Seq(Ids)
          /\ Len(RemoveElement(b, b[n + 1])) = Len(b) - 1
          /\ \A k \in 1..((n + 1) - 1) : RemoveElement(b, b[n + 1])[k] = b[k]
      BY <1>3, <1>4, <3>1, RemoveElementFacts
    <3>3. Len(RemoveElement(b, i)) = n /\ \A k \in 1..n : RemoveElement(b, i)[k] = a[k]
      BY <1>3, <3>2
    <3>4. RemoveElement(b, i) = a
      BY <1>2, <1>3, <3>2, <3>3, SeqEqual
    <3> QED BY <2>1, <3>4
  <2>2. CASE x # i /\ ~Contains(a, x)
    <3>1. ~Contains(b, x)
      BY <1>5, <2>2
    <3> QED BY <1>1, <2>2, <3>1 DEF RemoveElement
  <2>3. CASE x # i /\ Contains(a, x)
    <3>1. PICK k \in 1..n : a[k] = x
      BY <1>2, <2>3 DEF Contains
    <3>2. PICK c : c = RemoveElement(a, x)
      OBVIOUS
    <3>3. PICK e : e = RemoveElement(b, x)
      OBVIOUS
    <3>4. /\ c \in Seq(Ids) /\ Len(c) = n - 1
          /\ \A m \in 1..(k - 1) : c[m] = a[m]
          /\ \A m \in k..(n - 1) : c[m] = a[m + 1]
      <4>1. k \in DOMAIN a /\ Len(a) = n
        BY <1>2, <1>3
      <4> QED BY <3>1, <3>2, <4>1, RemoveElementFacts
    <3>5. /\ e \in Seq(Ids) /\ Len(e) = n
          /\ \A m \in 1..(k - 1) : e[m] = b[m]
          /\ \A m \in k..n : e[m] = b[m + 1]
      <4>1. k \in DOMAIN b /\ b[k] = x /\ Len(b) - 1 = n
        BY <1>3, <3>1
      <4>2. /\ RemoveElement(b, b[k]) \in Seq(Ids)
            /\ Len(RemoveElement(b, b[k])) = Len(b) - 1
            /\ \A m \in 1..(k - 1) : RemoveElement(b, b[k])[m] = b[m]
            /\ \A m \in k..(Len(b) - 1) : RemoveElement(b, b[k])[m] = b[m + 1]
        BY <1>3, <1>4, <4>1, RemoveElementFacts
      <4> QED BY <3>3, <4>1, <4>2
    <3>6. PICK f : f = Append(c, i)
      OBVIOUS
    <3>7. /\ f \in Seq(Ids) /\ Len(f) = n /\ f[n] = i
          /\ \A m \in 1..(n - 1) : f[m] = c[m]
      BY <3>4, <3>6
    <3>8. ASSUME NEW m \in 1..n PROVE e[m] = f[m]
      <4>1. CASE m = n
        <5>1. m \in k..n
          BY <3>1, <4>1
        <5> QED BY <1>3, <3>5, <3>7, <4>1, <5>1
      <4>2. CASE m < k
        <5>1. m \in 1..(k - 1) /\ m \in 1..(n - 1) /\ m \in 1..n
          BY <3>1, <4>2
        <5> QED BY <1>3, <3>4, <3>5, <3>7, <5>1
      <4>3. CASE m # n /\ ~(m < k)
        <5>1. m \in k..(n - 1) /\ m \in 1..(n - 1) /\ m \in k..n /\ m + 1 \in 1..n
          BY <3>1, <4>3
        <5> QED BY <1>3, <3>4, <3>5, <3>7, <5>1
      <4> QED BY <4>1, <4>2, <4>3
    <3>9. e = f
      BY <3>5, <3>7, <3>8, SeqEqual
    <3> QED BY <2>3, <3>2, <3>3, <3>6, <3>9
  <2> QED BY <2>1, <2>2, <2>3
<1> QED BY <1>1, <1>3, <1>4, <1>5, <1>6

(* The values that RetainElements goes through                             *)
Retains(trace, group, removed) ==
  /\ trace[0] = <<>> /\ trace[Len(group)] = RetainElements(group, removed)
  /\ \A n \in 1..Len(group) :
       trace[n] = IF group[n] \in removed THEN trace[n - 1]
                  ELSE Append(trace[n - 1], group[n])

(* There are such values.                                                  *)
LEMMA RetainTrace ==
  ASSUME NEW group \in Seq(Ids), NEW removed
  PROVE  \E trace : Retains(trace, group, removed)
PROOF
<1>1. PICK marked : marked = Marked(group, removed)
  OBVIOUS
<1>2. Len(group) \in Nat /\ DOMAIN marked = 1..Len(group)
  BY <1>1 DEF Marked
<1>3. PICK trace : /\ Traces("keep", Len(group), marked, trace) /\ trace[0] = <<>>
                   /\ Folded("keep", <<>>, marked) = trace[Len(group)]
  <2>1. PICK N \in Nat : N = Len(group)
    BY <1>2
  <2>2. DOMAIN marked = 1..N
    BY <1>2, <2>1
  <2>3. \E trace : /\ Traces("keep", N, marked, trace) /\ trace[0] = <<>>
                  /\ Folded("keep", <<>>, marked) = trace[N]
    <3>1. HasTrace("keep", N, marked, <<>>)
      BY <2>2, FoldTrace
    <3> QED BY <3>1 DEF HasTrace
  <2> QED BY <2>1, <2>3
<1>4. RetainElements(group, removed) = trace[Len(group)]
  BY <1>1, <1>3, FoldForms
<1>5. ASSUME NEW n \in 1..Len(group)
      PROVE  trace[n] = IF group[n] \in removed THEN trace[n - 1]
                        ELSE Append(trace[n - 1], group[n])
  <2>1. trace[n] = Act("keep", trace[n - 1], marked[n])
    BY <1>3 DEF Traces
  <2>2. marked[n] = [id |-> group[n], kept |-> group[n] \notin removed]
    BY <1>1 DEF Marked
  <2>3. marked[n].id = group[n] /\ marked[n].kept = (group[n] \notin removed)
    BY <2>2
  <2>4. Act("keep", trace[n - 1], marked[n])
          = IF marked[n].kept THEN Append(trace[n - 1], marked[n].id) ELSE trace[n - 1]
    BY DEF Act
  <2> QED BY <2>1, <2>3, <2>4
<1> QED BY <1>3, <1>4, <1>5 DEF Retains

(* eraseSnapshots takes elements out of a list as removeFromListGroup does *)
(* one after the other.                                                    *)
LEMMA RetainFacts ==
  ASSUME NEW group \in Seq(Ids), Distinct(group)
  PROVE  /\ RetainElements(group, {}) = group
         /\ \A removed : \A x :
              RetainElements(group, removed \cup {x})
                = RemoveElement(RetainElements(group, removed), x)
PROOF
<1>1. PICK N \in Nat : N = Len(group) /\ DOMAIN group = 1..N
  OBVIOUS
<1>2. RetainElements(group, {}) = group
  <2>1. PICK t : /\ t[0] = <<>> /\ t[N] = RetainElements(group, {})
                 /\ \A n \in 1..N : t[n] = IF group[n] \in {} THEN t[n - 1]
                                           ELSE Append(t[n - 1], group[n])
    <3>1. PICK trace : Retains(trace, group, {})
      BY RetainTrace
    <3> QED BY <1>1, <3>1 DEF Retains
  <2> DEFINE T == {n \in 0..N : /\ t[n] \in Seq(Ids) /\ Len(t[n]) = n
                                /\ \A k \in 1..n : t[n][k] = group[k]}
  <2>2. 0 \in T
    <3>1. t[0] \in Seq(Ids) /\ Len(t[0]) = 0
      BY <2>1
    <3> QED BY <1>1, <3>1
  <2>3. ASSUME NEW n \in 0..(N - 1), n \in T PROVE n + 1 \in T
    <3>1. n + 1 \in 1..N /\ n + 1 \in 0..N /\ (n + 1) - 1 = n /\ group[n + 1] \in Ids
      BY <1>1
    <3>2. t[n + 1] = Append(t[n], group[n + 1])
      BY <2>1, <3>1
    <3>3. t[n] \in Seq(Ids) /\ Len(t[n]) = n /\ \A k \in 1..n : t[n][k] = group[k]
      BY <2>3
    <3>4. /\ Append(t[n], group[n + 1]) \in Seq(Ids)
          /\ Len(Append(t[n], group[n + 1])) = n + 1
          /\ \A k \in 1..n : Append(t[n], group[n + 1])[k] = t[n][k]
          /\ Append(t[n], group[n + 1])[n + 1] = group[n + 1]
      BY <3>1, <3>3, AppendProperties
    <3>5. \A k \in 1..(n + 1) : k = n + 1 \/ k \in 1..n
      OBVIOUS
    <3>6. \A k \in 1..(n + 1) : t[n + 1][k] = group[k]
      BY <3>2, <3>3, <3>4, <3>5
    <3> QED BY <3>1, <3>2, <3>4, <3>6
  <2> HIDE DEF T
  <2>4. 0..N \subseteq T
    BY <2>2, <2>3, Induction
  <2>5. N \in T
    BY <2>4
  <2>6. t[N] \in Seq(Ids) /\ Len(t[N]) = N /\ \A k \in 1..N : t[N][k] = group[k]
    BY <2>5 DEF T
  <2>7. t[N] = group
    BY <1>1, <2>6, SeqEqual
  <2> QED BY <2>1, <2>7
<1>3. ASSUME NEW removed, NEW x
      PROVE  RetainElements(group, removed \cup {x})
               = RemoveElement(RetainElements(group, removed), x)
  <2>1. PICK t : /\ t[0] = <<>> /\ t[N] = RetainElements(group, removed)
                 /\ \A n \in 1..N : t[n] = IF group[n] \in removed THEN t[n - 1]
                                           ELSE Append(t[n - 1], group[n])
    <3>1. PICK trace : Retains(trace, group, removed)
      BY RetainTrace
    <3> QED BY <1>1, <3>1 DEF Retains
  <2>2. PICK u : /\ u[0] = <<>> /\ u[N] = RetainElements(group, removed \cup {x})
                 /\ \A n \in 1..N : u[n] = IF group[n] \in removed \cup {x} THEN u[n - 1]
                                           ELSE Append(u[n - 1], group[n])
    <3>1. PICK trace : Retains(trace, group, removed \cup {x})
      BY RetainTrace
    <3> QED BY <1>1, <3>1 DEF Retains
  <2> DEFINE T == {n \in 0..N : /\ t[n] \in Seq(Ids) /\ Distinct(t[n])
                                /\ \A y : Contains(t[n], y) => \E k \in 1..n : group[k] = y
                                /\ u[n] = RemoveElement(t[n], x)}
  <2>3. 0 \in T
    <3>1. t[0] \in Seq(Ids) /\ DOMAIN t[0] = {} /\ Len(t[0]) = 0
      BY <2>1
    <3>2. Distinct(t[0]) /\ \A y : ~Contains(t[0], y)
      BY <3>1 DEF Distinct, Contains
    <3>3. u[0] = RemoveElement(t[0], x)
      BY <2>1, <2>2, <3>2 DEF RemoveElement
    <3> QED BY <1>1, <3>1, <3>2, <3>3
  <2>4. ASSUME NEW n \in 0..(N - 1), n \in T PROVE n + 1 \in T
    <3>1. n + 1 \in 1..N /\ n + 1 \in 0..N /\ (n + 1) - 1 = n /\ group[n + 1] \in Ids
      BY <1>1
    <3>2. PICK a, i : a = t[n] /\ i = group[n + 1]
      OBVIOUS
    <3>3. /\ a \in Seq(Ids) /\ Distinct(a) /\ u[n] = RemoveElement(a, x)
          /\ \A y : Contains(a, y) => \E k \in 1..n : group[k] = y
      BY <2>4, <3>2
    <3>4. /\ t[n + 1] = IF i \in removed THEN a ELSE Append(a, i)
          /\ u[n + 1] = IF i \in removed \cup {x} THEN RemoveElement(a, x)
                        ELSE Append(RemoveElement(a, x), i)
      BY <2>1, <2>2, <3>1, <3>2, <3>3
    <3>5. ~Contains(a, i)
      <4> SUFFICES ASSUME Contains(a, i) PROVE FALSE
        OBVIOUS
      <4>1. PICK k \in 1..n : group[k] = i
        BY <3>3
      <4>2. k \in DOMAIN group /\ n + 1 \in DOMAIN group /\ k # n + 1
        BY <1>1, <3>1
      <4> QED BY <3>2, <4>1, <4>2 DEF Distinct
    <3>6. i \in Ids
      BY <3>1, <3>2
    <3>7. /\ Append(a, i) \in Seq(Ids) /\ Distinct(Append(a, i))
          /\ \A y : Contains(Append(a, i), y) <=> Contains(a, y) \/ y = i
          /\ RemoveElement(Append(a, i), x)
               = IF x = i THEN a ELSE Append(RemoveElement(a, x), i)
      BY <3>3, <3>5, <3>6, AppendRemoved
    <3>8. (\A k \in 1..n : k \in 1..(n + 1)) /\ n + 1 \in 1..(n + 1)
      OBVIOUS
    <3>9. RemoveElement(a, i) = a
      BY <3>5 DEF RemoveElement
    <3>10. CASE i \in removed
      BY <3>1, <3>3, <3>4, <3>8, <3>10
    <3>11. CASE i \notin removed
      <4>1. u[n + 1] = RemoveElement(t[n + 1], x)
        BY <3>4, <3>7, <3>9, <3>11
      <4>2. \A y : Contains(t[n + 1], y) => \E k \in 1..(n + 1) : group[k] = y
        BY <3>2, <3>3, <3>4, <3>7, <3>8, <3>11
      <4> QED BY <3>1, <3>4, <3>7, <3>11, <4>1, <4>2
    <3> QED BY <3>10, <3>11
  <2> HIDE DEF T
  <2>5. 0..N \subseteq T
    BY <2>3, <2>4, Induction
  <2>6. N \in T
    BY <2>5
  <2> QED BY <2>1, <2>2, <2>6 DEF T
<1> QED BY <1>2, <1>3

(* A fold over one element more                                            *)
LEMMA FoldAppend ==
  ASSUME NEW fold, NEW init, NEW S, NEW seq \in Seq(S), NEW x \in S
  PROVE  Folded(fold, init, Append(seq, x)) = Act(fold, Folded(fold, init, seq), x)
PROOF
<1> DEFINE more == Append(seq, x)
<1>1. PICK N \in Nat : N = Len(seq)
  OBVIOUS
<1>2. /\ DOMAIN seq = 1..N /\ DOMAIN more = 1..(N + 1)
      /\ more[N + 1] = x /\ \A n \in 1..N : more[n] = seq[n]
  BY <1>1
<1> HIDE DEF more
<1>3. PICK t : Traces(fold, N, seq, t) /\ t[0] = init /\ Folded(fold, init, seq) = t[N]
  <2>1. HasTrace(fold, N, seq, init)
    BY <1>2, FoldTrace
  <2> QED BY <2>1 DEF HasTrace
<1> DEFINE u == [n \in 0..(N + 1) |-> IF n = N + 1 THEN Act(fold, t[N], x) ELSE t[n]]
<1>4. u[N + 1] = Act(fold, t[N], x) /\ \A n \in 0..N : u[n] = t[n]
  OBVIOUS
<1> HIDE DEF u
<1>5. ASSUME NEW n \in 1..(N + 1) PROVE u[n] = Act(fold, u[n - 1], more[n])
  <2>1. CASE n = N + 1
    <3>1. n - 1 = N /\ N \in 0..N
      BY <2>1
    <3> QED BY <1>2, <1>4, <2>1, <3>1
  <2>2. CASE n # N + 1
    <3>1. n \in 1..N /\ n \in 0..N /\ n - 1 \in 0..N
      BY <2>2
    <3>2. t[n] = Act(fold, t[n - 1], seq[n])
      BY <1>3, <3>1 DEF Traces
    <3> QED BY <1>2, <1>4, <3>1, <3>2
  <2> QED BY <2>1, <2>2
<1>6. Traces(fold, N + 1, more, u)
  BY <1>2, <1>5 DEF Traces
<1>7. Folded(fold, u[0], more) = u[N + 1]
  BY <1>6, FoldedIs
<1>8. u[0] = init
  BY <1>3, <1>4
<1> QED BY <1>3, <1>4, <1>7, <1>8 DEF more

(* applyChangeSet in the course of a change set                            *)
Applying(d) == [ok |-> TRUE, doc |-> d, pending |-> <<>>]

(* Without pending operations a retry changes nothing, and a run of one    *)
(* operation that succeeds makes it.                                       *)
LEMMA ApplyingFacts ==
  ASSUME NEW d
  PROVE  /\ Retry(Applying(d)) = Applying(d)
         /\ Outcome(Applying(d)) = Done(d)
         /\ \A op, e : ApplyOperation(d, op) = Done(e) =>
              ApplyRun(Applying(d), <<op>>) = Applying(e)
PROOF
<1>1. Retry(Applying(d)) = Applying(d)
  <2> DEFINE trace == [n \in 0..0 |-> Applying(d)]
  <2>1. [Applying(d) EXCEPT !.pending = <<>>] = Applying(d) /\ Applying(d).pending = <<>>
    <3>1. PICK s : s = Applying(d)
      OBVIOUS
    <3>2. s = [ok |-> TRUE, doc |-> d, pending |-> <<>>]
      BY <3>1 DEF Applying
    <3>3. [s EXCEPT !.pending = <<>>] = s
      <4>1. PICK t, p : t = TRUE /\ p = <<>>
        OBVIOUS
      <4>2. s = [ok |-> t, doc |-> d, pending |-> p]
        BY <3>2, <4>1
      <4>3. [[ok |-> t, doc |-> d, pending |-> p] EXCEPT !.pending = p]
              = [ok |-> t, doc |-> d, pending |-> p]
        OBVIOUS
      <4>4. [s EXCEPT !.pending = p] = s
        BY <4>2, <4>3, Zenon
      <4> QED BY <4>1, <4>4, Zenon
    <3>4. s.pending = <<>>
      BY <3>2
    <3> QED BY <3>1, <3>3, <3>4
  <2>2. Retry(Applying(d)) = FoldLeft(Step, Applying(d), <<>>)
    BY <2>1 DEF Retry
  <2>3. FoldLeft(Step, Applying(d), <<>>) = Folded("step", Applying(d), <<>>)
    BY FoldForms
  <2>4. trace[0] = Applying(d) /\ DOMAIN <<>> = 1..0 /\ 0 \in Nat
    OBVIOUS
  <2>5. \A n \in 1..0 : trace[n] = Act("step", trace[n - 1], <<>>[n])
    OBVIOUS
  <2> HIDE DEF trace
  <2>6. Folded("step", trace[0], <<>>) = trace[0]
    <3>1. Traces("step", 0, <<>>, trace)
      BY <2>4, <2>5 DEF Traces
    <3> QED BY <2>4, <3>1, FoldedIs
  <2> QED BY <2>2, <2>3, <2>4, <2>6
<1>2. Outcome(Applying(d)) = Done(d)
  BY DEF Outcome, Applying, Done
<1>3. ASSUME NEW op, NEW e, ApplyOperation(d, op) = Done(e)
      PROVE  ApplyRun(Applying(d), <<op>>) = Applying(e)
  <2> DEFINE trace == [n \in 0..1 |-> IF n = 0 THEN Applying(d) ELSE Applying(e)]
  <2>1. ApplyRun(Applying(d), <<op>>) = FoldLeft(Step, Applying(d), <<op>>)
    <3>1. Applying(d).ok /\ ~(Len(<<op>>) > 1)
      BY DEF Applying
    <3>2. ApplyRun(Applying(d), <<op>>)
            = InsertRun(Throws(Applying(d).doc), Applying(d), <<op>>)
      BY <3>1 DEF ApplyRun
    <3> QED BY <3>2, OutcomeFacts DEF InsertRun
  <2>2. FoldLeft(Step, Applying(d), <<op>>) = Folded("step", Applying(d), <<op>>)
    BY FoldForms
  <2>3. Step(Applying(d), op) = Applying(e)
    <3>1. Applying(d).ok /\ Applying(d).doc = d
      BY DEF Applying
    <3>2. Step(Applying(d), op) = StepTo(Done(e), Applying(d), op)
      BY <1>3, <3>1 DEF Step
    <3>3. StepTo(Done(e), Applying(d), op) = [Applying(d) EXCEPT !.ok = TRUE, !.doc = e]
      BY OutcomeFacts DEF StepTo
    <3> QED BY <3>2, <3>3 DEF Applying
  <2>4. /\ trace[0] = Applying(d) /\ trace[1] = Applying(e)
        /\ DOMAIN <<op>> = 1..1 /\ <<op>>[1] = op
    OBVIOUS
  <2> HIDE DEF trace
  <2>5. \A n \in 1..1 : trace[n] = Act("step", trace[n - 1], <<op>>[n])
    BY <2>3, <2>4 DEF Act
  <2>6. Folded("step", trace[0], <<op>>) = trace[1]
    <3>1. 1 \in Nat
      OBVIOUS
    <3>2. Traces("step", 1, <<op>>, trace)
      BY <2>4, <2>5 DEF Traces
    <3> QED BY <3>1, <3>2, FoldedIs
  <2> QED BY <2>1, <2>2, <2>4, <2>6
<1> QED BY <1>1, <1>2, <1>3

-----------------------------------------------------------------------------
(***************************************************************************)
(* Change sets and their inverses                                          *)
(***************************************************************************)
Ops ==
  [kind : {"ItemInserted", "ListInserted"} \cup Removals, id : Ids, item : Items]
    \cup [kind : {"ColumnUpdated"}, id : Ids, old : Ids \cup {NoId}, oldListIndex : Nat,
          new : Ids \cup {NoId}, targetIndex : Nat]
    \cup [kind : {"ListRotated"}, group : Ids, startIndex : Nat, count : Nat, offset : Int]

(* The snapshots of a change set are of items.                             *)
Mild(op) ==
  op.kind \in Removals \cup Insertions => Plain(op.item) /\ op.item.kind # "absent"

MildOps == {op \in Ops : Mild(op)}

(* op leads from d to e.                                                   *)
Leads(d, op, e) ==
  /\ Sound(d) /\ Sound(e)
  /\ Fits(d, op)
  /\ ApplyOperation(d, op) = Done(e)

(* Items that go as a whole, by remove                                     *)
Erasures == {"ItemRemoved", "CascadeRemoved"}

(* e has the item of op, and d has not; apart from that, they have the     *)
(* same items, indexes aside, and in lists the same order.                 *)
Gains(d, op, e) ==
  /\ InOrder(d) /\ InOrder(e)
  /\ op.id \in Ids /\ op.item.kind # "absent"
  /\ d.items[op.id] = Absent /\ Akin(op.item, e.items[op.id])
  /\ \A i \in Ids \ {op.id} : Akin(d.items[i], e.items[i])
  /\ \A g \in Ids : d.groups[g] = RemoveElement(e.groups[g], op.id)

(* op takes d to e.  Operations on whole items are applied in runs, and    *)
(* amid a run, parents may be missing, and recorded indexes may not be     *)
(* those of the moment: removing an item with its descendants records them *)
(* as they are before the first of them goes.                              *)
Moves(d, op, e) ==
  IF op.kind = "ItemInserted" THEN Gains(d, op, e)
  ELSE IF op.kind \in Erasures THEN Gains(e, op, d)
  ELSE Leads(d, op, e)

(* op takes d to e, and its inverse back.                                  *)
Reverses(d, op, e) == Moves(d, op, e) /\ Moves(e, InvertOperation(op), d)

(* The inverse of an operation is an operation, of a mild one a mild one.  *)
LEMMA OpFacts ==
  ASSUME NEW op \in Ops
  PROVE  /\ op.kind \in OperationKinds
         /\ InvertOperation(op) \in Ops
         /\ Mild(op) => Mild(InvertOperation(op))
PROOF
<1>1. CASE op \in [kind : {"ItemInserted", "ListInserted"} \cup Removals, id : Ids, item : Items]
  <2>1. /\ op.kind \in {"ItemInserted", "ListInserted"} \cup Removals
        /\ op.id \in Ids /\ op.item \in Items
    BY <1>1
  <2>2. InvertOperation(op) \in {ItemRemoved(op.id, op.item), ItemInserted(op.id, op.item),
                                 ListRemoved(op.id, op.item), ListInserted(op.id, op.item)}
    BY <2>1 DEF InvertOperation, Removals
  <2>3. InvertOperation(op) \in Ops
    BY <2>1, <2>2 DEF Ops, ItemRemoved, ItemInserted, ListRemoved, ListInserted, Removals
  <2>4. ASSUME Mild(op) PROVE Mild(InvertOperation(op))
    <3>1. Plain(op.item) /\ op.item.kind # "absent"
      BY <2>1, <2>4 DEF Mild, Removals, Insertions
    <3> QED BY <2>2, <3>1 DEF Mild, ItemRemoved, ItemInserted, ListRemoved, ListInserted
  <2> QED BY <2>1, <2>3, <2>4 DEF OperationKinds, Removals
<1>2. CASE op \in [kind : {"ColumnUpdated"}, id : Ids, old : Ids \cup {NoId}, oldListIndex : Nat,
                   new : Ids \cup {NoId}, targetIndex : Nat]
  <2>1. InvertOperation(op) = Updated(op.id, op.new, op.targetIndex, op.old,
                                      IF op.old # NoId THEN op.oldListIndex ELSE 0)
    BY <1>2 DEF InvertOperation
  <2>2. op.kind = "ColumnUpdated" /\ (IF op.old # NoId THEN op.oldListIndex ELSE 0) \in Nat
    BY <1>2
  <2>3. Mild(InvertOperation(op))
    BY <2>1 DEF Mild, Updated, Removals, Insertions
  <2> QED BY <1>2, <2>1, <2>2, <2>3 DEF Ops, Updated, OperationKinds
<1>3. CASE op \in [kind : {"ListRotated"}, group : Ids, startIndex : Nat, count : Nat, offset : Int]
  <2>1. InvertOperation(op) = Rotated(op.group, op.startIndex, op.count, -op.offset)
    BY <1>3 DEF InvertOperation
  <2>2. op.kind = "ListRotated" /\ -op.offset \in Int
    BY <1>3
  <2>3. Mild(InvertOperation(op))
    BY <2>1 DEF Mild, Rotated, Removals, Insertions
  <2> QED BY <1>3, <2>1, <2>2, <2>3 DEF Ops, Rotated, OperationKinds
<1> QED BY <1>1, <1>2, <1>3 DEF Ops

(* Whole items come back by the inverse of what removed them, and go by    *)
(* the inverse of what inserted them.                                      *)
LEMMA InverseKind ==
  ASSUME NEW op \in Ops
  PROVE  LET inv == InvertOperation(op)
         IN  /\ op.kind = "ItemInserted" <=> inv.kind \in Erasures
             /\ op.kind \in Erasures <=> inv.kind = "ItemInserted"
             /\ op.kind = "ItemInserted" \/ op.kind \in Erasures =>
                  inv.id = op.id /\ inv.item = op.item
PROOF
<1>1. op.kind \in OperationKinds
  BY OpFacts
<1>2. PICK inv : inv = InvertOperation(op)
  OBVIOUS
<1>3. CASE op.kind = "ItemInserted"
  <2>1. inv = ItemRemoved(op.id, op.item)
    BY <1>2, <1>3 DEF InvertOperation
  <2> QED BY <1>2, <1>3, <2>1 DEF ItemRemoved, Erasures
<1>4. CASE op.kind \in Erasures
  <2>1. inv = ItemInserted(op.id, op.item)
    BY <1>2, <1>4 DEF InvertOperation, Erasures
  <2> QED BY <1>2, <1>4, <2>1 DEF ItemInserted, Erasures
<1>5. CASE op.kind \in {"ListInserted", "ListRemoved", "ColumnUpdated", "ListRotated"}
  <2>1. inv.kind \in {"ListRemoved", "ListInserted", "ColumnUpdated", "ListRotated"}
    BY <1>2, <1>5 DEF InvertOperation, ListRemoved, ListInserted, Updated, Rotated
  <2> QED BY <1>2, <1>5, <2>1 DEF Erasures
<1> QED BY <1>1, <1>3, <1>4, <1>5 DEF OperationKinds, Removals, Erasures

(* The inverse of a change set has the inverses of its operations, the     *)
(* last one first.                                                         *)
LEMMA InverseFacts ==
  ASSUME NEW ops \in Seq(Ops)
  PROVE  /\ InvertChangeSet(ops) \in Seq(Ops) /\ Len(InvertChangeSet(ops)) = Len(ops)
         /\ \A n \in 1..Len(ops) :
              /\ Len(ops) - n + 1 \in 1..Len(ops)
              /\ InvertChangeSet(ops)[n] = InvertOperation(ops[Len(ops) - n + 1])
         /\ ops \in Seq(MildOps) => InvertChangeSet(ops) \in Seq(MildOps)
PROOF
<1> DEFINE N == Len(ops)
<1> DEFINE each == [k \in DOMAIN ops |-> InvertOperation(ops[k])]
<1> DEFINE inv == InvertChangeSet(ops)
<1>1. N \in Nat /\ DOMAIN ops = 1..N /\ \A n \in 1..N : ops[n] \in Ops
  OBVIOUS
<1>2. \A n \in 1..N : N - n + 1 \in 1..N
  BY <1>1
<1>3. each \in Seq(Ops) /\ Len(each) = N /\ \A n \in 1..N : each[n] = InvertOperation(ops[n])
  <2>1. \A n \in 1..N : InvertOperation(ops[n]) \in Ops
    BY <1>1, OpFacts
  <2> QED BY <1>1, <2>1
<1>4. inv = [n \in 1..N |-> each[N - n + 1]]
  <2>1. inv = Reverse(each)
    BY DEF InvertChangeSet
  <2> HIDE DEF each, inv, N
  <2> QED BY <1>3, <2>1 DEF Reverse
<1> HIDE DEF inv, each
<1>5. /\ inv \in Seq(Ops) /\ Len(inv) = N
      /\ \A n \in 1..N : inv[n] = InvertOperation(ops[N - n + 1])
  <2>1. \A n \in 1..N : each[N - n + 1] \in Ops
    BY <1>1, <1>2, <1>3, OpFacts
  <2> HIDE DEF N
  <2> QED BY <1>1, <1>2, <1>3, <1>4, <2>1
<1> HIDE DEF N
<1>6. ASSUME ops \in Seq(MildOps) PROVE inv \in Seq(MildOps)
  <2>1. ASSUME NEW n \in 1..N PROVE inv[n] \in MildOps
    <3>1. PICK op : op = ops[N - n + 1]
      OBVIOUS
    <3>2. op \in MildOps
      BY <1>1, <1>2, <1>6, <3>1
    <3>3. op \in Ops /\ Mild(op)
      BY <3>2 DEF MildOps
    <3>4. InvertOperation(op) \in Ops /\ Mild(InvertOperation(op))
      BY <3>3, OpFacts
    <3> QED BY <1>5, <3>1, <3>4 DEF MildOps
  <2> QED BY <1>5, <2>1
<1> QED BY <1>2, <1>5, <1>6 DEF inv, N

(* The operations behind the n-th belong to the same run of whole items.   *)
Joint(p, q) ==
  \/ p.kind = "ItemInserted" /\ q.kind = "ItemInserted"
  \/ p.kind \in Erasures /\ q.kind \in Erasures

Amid(ops, n) == n \in 1..(Len(ops) - 1) /\ Joint(ops[n], ops[n + 1])

(* The documents of path are in order, and sound between runs.             *)
Ordered(ops, path) ==
  \A n \in 0..Len(ops) : InOrder(path[n]) /\ (Rooted(path[n]) \/ Amid(ops, n))

(* s is of an element of the list g, and of one of the lists G.            *)
Joins(s, g) == Participates(s) /\ s.parent = g
JoinsOne(s, G) == \E g \in G : Joins(s, g)

(* A change set leads along path, from one document to the next.  Behind   *)
(* the m-th operation there are only insertions of whole items.  They fill *)
(* the lists G, which are empty until then, in any order: an element is    *)
(* recorded as it is in the end.  Every other inserted item is recorded as *)
(* it is when it has been inserted.                                        *)
Along(ops, path, G, m) ==
  /\ m \in 0..Len(ops)
  /\ Ordered(ops, path)
  /\ \A n \in 1..Len(ops) : Moves(path[n - 1], ops[n], path[n])
  /\ \A n \in 1..Len(ops) : n > m => ops[n].kind = "ItemInserted"
  /\ \A g \in G : \A n \in 0..m : path[n].groups[g] = <<>>
  /\ \A n \in 1..Len(ops) : ops[n].kind = "ItemInserted" =>
       path[IF n > m /\ JoinsOne(ops[n].item, G) THEN Len(ops) ELSE n].items[ops[n].id]
         = ops[n].item

(* The operations of ops behind the first a, up to b                       *)
Piece(ops, a, b) == [k \in 1..(b - a) |-> ops[a + k]]
PieceIds(ops, a, b) == {ops[k].id : k \in (a + 1)..b}

(* applyChangeSet makes them at once, or there is only one of them.        *)
Alike(ops, a, b) ==
  \/ b = a + 1
  \/ \A k \in (a + 1)..b : ops[k].kind = "ItemInserted"
  \/ \A k \in (a + 1)..b : ops[k].kind \in Removals

(* A run ends with the n-th operation.                                     *)
Breaks(ops, n) == n = 0 \/ n = Len(ops) \/ ~SameRun(ops[n], ops[n + 1])

(* Between runs, the document is sound.                                    *)
LEMMA BreakSound ==
  ASSUME NEW ops \in Seq(Ops), NEW path, Ordered(ops, path), NEW n \in 0..Len(ops),
         Breaks(ops, n)
  PROVE  Sound(path[n])
PROOF
<1>1. InOrder(path[n]) /\ (Rooted(path[n]) \/ Amid(ops, n))
  BY DEF Ordered
<1>2. ~Amid(ops, n)
  <2> SUFFICES ASSUME Amid(ops, n) PROVE FALSE
    OBVIOUS
  <2>1. Len(ops) \in Nat /\ n # 0 /\ n # Len(ops)
    BY DEF Amid
  <2> QED BY <2>1 DEF Amid, Breaks, Joint, SameRun, Erasures, Removals
<1> QED BY <1>1, <1>2 DEF Sound

(* A removal takes its item out of its list, and leaves the others, indexes *)
(* aside.                                                                  *)
LEMMA RemovalLeads ==
  ASSUME NEW d, NEW op \in Ops, NEW e, Leads(d, op, e), op.kind \in Removals
  PROVE  /\ op.id \in Ids /\ e.items[op.id] = Absent
         /\ \A g \in Ids : e.groups[g] = RemoveElement(d.groups[g], op.id)
         /\ \A i \in Ids \ {op.id} : Akin(d.items[i], e.items[i])
PROOF
<1>1. op.id \in Ids
  BY DEF Ops, Removals
<1>2. PICK id \in Ids : id = op.id
  BY <1>1
<1>3. d.items[id] = op.item /\ ApplyOperation(d, op) = Done(e) /\ InOrder(d)
  BY <1>2 DEF Leads, Fits, Sound
<1>4. ApplyOperation(d, op) = Done(EraseSnapshot(d, id, op.item))
  <2>1. op.kind \in {"ItemRemoved", "CascadeRemoved", "ListRemoved"}
    BY DEF Removals
  <2> QED BY <1>2, <2>1 DEF ApplyOperation, Removals
<1>5. Move(d, id, Absent) = Done(e)
  BY <1>3, <1>4, EraseIsMove
<1>6. Absent \in Items /\ Plain(Absent) /\ ~Participates(Absent)
  BY ItemFacts
<1>7. /\ e.items[id] = Absent /\ AkinBut(d, e, id)
      /\ e.groups = [g \in Ids |-> ListAfter(d, id, Absent, g)]
  <2>1. PICK r : r = Move(d, id, Absent)
    OBVIOUS
  <2>2. /\ r.ok => r.doc.items[id] = Absent /\ r.doc.groups = [g \in Ids |-> ListAfter(d, id, Absent, g)]
        /\ AkinBut(d, r.doc, id)
    BY <1>3, <1>6, <2>1, Moved
  <2>3. r.ok = TRUE /\ r.doc = e
    BY <1>5, <2>1, OutcomeFacts
  <2> QED BY <2>2, <2>3
<1>8. \A g \in Ids : e.groups[g] = RemoveElement(d.groups[g], id)
  BY <1>6, <1>7 DEF ListAfter
<1> QED BY <1>2, <1>7, <1>8 DEF AkinBut

(* So does the removal of a whole item.                                    *)
LEMMA Loses ==
  ASSUME NEW d, NEW op \in Ops, NEW e, Moves(d, op, e), op.kind \in Removals
  PROVE  /\ op.id \in Ids /\ e.items[op.id] = Absent
         /\ \A g \in Ids : e.groups[g] = RemoveElement(d.groups[g], op.id)
         /\ \A i \in Ids \ {op.id} : Akin(d.items[i], e.items[i])
PROOF
<1>1. CASE op.kind \in Erasures
  <2>1. Gains(e, op, d)
    BY <1>1 DEF Moves, Erasures
  <2> QED BY <2>1 DEF Gains, Akin
<1>2. CASE op.kind \notin Erasures
  <2>1. Leads(d, op, e)
    BY <1>2 DEF Moves, Removals
  <2> QED BY <2>1, RemovalLeads
<1> QED BY <1>1, <1>2

(* eraseSnapshots makes one document of d that lacks the items, and in     *)
(* which everything else is where it was.                                  *)
LEMMA ErasedTogether ==
  ASSUME NEW d, InOrder(d), NEW e, InOrder(e), NEW removed \in SUBSET Ids,
         \A g \in Ids : e.groups[g] = RetainElements(d.groups[g], removed),
         \A i \in removed : e.items[i] = Absent,
         \A i \in Ids \ removed : Akin(d.items[i], e.items[i])
  PROVE  EraseSnapshots(d, removed) = e
PROOF
<1> DEFINE kept == [g \in Ids |-> RetainElements(d.groups[g], removed)]
<1> DEFINE Shifted(id, g) == kept[g] # d.groups[g] /\ Contains(kept[g], id)
<1> DEFINE item(id) == IF id \in removed THEN Absent
         ELSE IF \E g \in Ids : Shifted(id, g)
           THEN [d.items[id] EXCEPT !.index = IndexOf(kept[CHOOSE g \in Ids : Shifted(id, g)], id)]
         ELSE d.items[id]
<1>1. EraseSnapshots(d, removed) = [items |-> [id \in Ids |-> item(id)], groups |-> kept]
  BY DEF EraseSnapshots
<1>2. /\ e.items \in [Ids -> Items] /\ e.groups \in [Ids -> Seq(Ids)]
      /\ e = [items |-> e.items, groups |-> e.groups]
      /\ d.items \in [Ids -> Items] /\ d.groups \in [Ids -> Seq(Ids)]
      /\ \A i \in Ids : Plain(d.items[i]) /\ Plain(e.items[i]) /\ i \in Ids \ {NoId}
  BY OrderTyped, OrderFacts DEF InOrder
<1>3. kept = e.groups
  BY <1>2
<1> HIDE DEF kept
<1>4. ASSUME NEW id \in Ids PROVE item(id) = e.items[id]
  <2>1. CASE id \in removed
    BY <2>1
  <2>2. CASE id \notin removed /\ \E g \in Ids : Shifted(id, g)
    <3>1. PICK g \in Ids : g = CHOOSE h \in Ids : Shifted(id, h)
      BY <2>2
    <3>2. Shifted(id, g)
      BY <2>2, <3>1
    <3>3. Contains(e.groups[g], id)
      BY <1>3, <3>2
    <3>4. /\ IndexOf(e.groups[g], id) \in Nat
          /\ e.items[id] = Elem(g, IndexOf(e.groups[g], id))
      BY <3>3, OrderFacts DEF InOrder
    <3>5. PICK n \in Nat : n = IndexOf(e.groups[g], id)
      BY <3>4
    <3>6. item(id) = [d.items[id] EXCEPT !.index = n]
      BY <1>3, <2>2, <3>1, <3>5
    <3>7. d.items[id].kind = "elem" /\ d.items[id].parent = g
      BY <2>2, <3>4, <3>5, ItemFacts DEF Akin
    <3>8. [d.items[id] EXCEPT !.index = n] = Elem(g, n)
      <4>1. PICK s \in Items : s = d.items[id]
        BY <1>2
      <4>2. s.kind = "elem" /\ s.parent = g /\ s = [kind |-> s.kind, parent |-> s.parent, index |-> s.index]
        BY <3>7, <4>1, ItemFacts
      <4>3. s = [kind |-> "elem", parent |-> g, index |-> s.index]
        BY <4>2
      <4>4. PICK m : m = s.index
        OBVIOUS
      <4>5. [[kind |-> "elem", parent |-> g, index |-> m] EXCEPT !.index = n]
              = [kind |-> "elem", parent |-> g, index |-> n]
        OBVIOUS
      <4>6. [s EXCEPT !.index = n] = [kind |-> "elem", parent |-> g, index |-> n]
        BY <4>3, <4>4, <4>5
      <4> QED BY <4>1, <4>6 DEF Elem
    <3> QED BY <3>4, <3>5, <3>6, <3>8
  <2>3. CASE id \notin removed /\ ~(\E g \in Ids : Shifted(id, g))
    <3>1. item(id) = d.items[id]
      BY <2>3
    <3>2. Akin(d.items[id], e.items[id])
      BY <2>3
    <3>3. CASE ~Participates(e.items[id])
      <4>1. ~Participates(d.items[id])
        BY <3>2, <3>3 DEF Akin, Participates
      <4>2. d.items[id].index = e.items[id].index
        BY <1>2, <3>3, <4>1 DEF Plain
      <4> QED BY <1>2, <3>1, <3>2, <4>2, SameItem
    <3>4. CASE Participates(e.items[id])
      <4>1. PICK g \in Ids : g = e.items[id].parent
        BY <1>2, <3>4, ItemFacts
      <4>2. Contains(e.groups[g], id)
        BY <1>2, <3>4, <4>1, OrderFacts DEF InOrder
      <4>3. e.groups[g] = d.groups[g]
        BY <1>3, <2>3, <4>2
      <4>4. /\ e.items[id] = Elem(g, IndexOf(e.groups[g], id))
            /\ d.items[id] = Elem(g, IndexOf(d.groups[g], id))
        BY <4>2, <4>3, OrderFacts DEF InOrder
      <4> QED BY <3>1, <4>3, <4>4
    <3> QED BY <3>3, <3>4
  <2> QED BY <2>1, <2>2, <2>3
<1> HIDE DEF item
<1>5. [id \in Ids |-> item(id)] = e.items
  BY <1>2, <1>4
<1> QED BY <1>1, <1>2, <1>3, <1>5

(* The operations of a piece                                               *)
IsPiece(run, S, ops, a, b) ==
  /\ run \in Seq(S)
  /\ Len(run) = b - a /\ DOMAIN run = 1..(b - a)
  /\ \A k \in 1..(b - a) : /\ run[k] = ops[a + k]
                           /\ a + k \in (a + 1)..b /\ a + k \in 1..Len(ops)
  /\ {run[k].id : k \in DOMAIN run} = PieceIds(ops, a, b)

LEMMA PieceFacts ==
  ASSUME NEW S, NEW ops \in Seq(S), NEW a \in Nat, NEW b \in 1..Len(ops), a < b
  PROVE  IsPiece(Piece(ops, a, b), S, ops, a, b)
PROOF
<1> DEFINE run == Piece(ops, a, b)
<1>1. PICK N \in Nat : N = Len(ops) /\ \A k \in 1..N : ops[k] \in S
  OBVIOUS
<1>2. \A k \in 1..(b - a) : a + k \in (a + 1)..b /\ a + k \in 1..N
  BY <1>1
<1>3. run = [k \in 1..(b - a) |-> ops[a + k]]
  BY DEF Piece
<1> HIDE DEF run
<1>4. /\ run \in Seq(S) /\ Len(run) = b - a /\ DOMAIN run = 1..(b - a)
      /\ \A k \in 1..(b - a) : run[k] = ops[a + k]
  BY <1>1, <1>2, <1>3
<1>5. {run[k].id : k \in DOMAIN run} = PieceIds(ops, a, b)
  <2>1. \A k \in (a + 1)..b : k - a \in 1..(b - a) /\ a + (k - a) = k
    OBVIOUS
  <2>2. ASSUME NEW i
        PROVE  (\E k \in 1..(b - a) : run[k].id = i) <=> \E k \in (a + 1)..b : ops[k].id = i
    <3>1. ASSUME NEW k \in 1..(b - a), run[k].id = i PROVE \E j \in (a + 1)..b : ops[j].id = i
      BY <1>2, <1>4, <3>1
    <3>2. ASSUME NEW k \in (a + 1)..b, ops[k].id = i PROVE \E j \in 1..(b - a) : run[j].id = i
      <4>1. PICK j \in 1..(b - a) : a + j = k
        BY <2>1
      <4>2. run[j] = ops[k]
        BY <1>4, <4>1
      <4> QED BY <3>2, <4>2
    <3> QED BY <3>1, <3>2
  <2> QED BY <1>4, <2>2 DEF PieceIds
<1>6. IsPiece(run, S, ops, a, b)
  BY <1>1, <1>2, <1>4, <1>5 DEF IsPiece
<1> QED BY <1>6 DEF run

(* The last operation of a piece, and a piece with the operation behind it *)
LEMMA PieceEnds ==
  ASSUME NEW S, NEW ops \in Seq(S), NEW a \in Nat, NEW b \in 1..Len(ops), a < b
  PROVE  /\ Last(Piece(ops, a, b)) = ops[b]
         /\ b = a + 1 => Piece(ops, a, b) = <<ops[b]>>
         /\ b < Len(ops) => Append(Piece(ops, a, b), ops[b + 1]) = Piece(ops, a, b + 1)
PROOF
<1> DEFINE run == Piece(ops, a, b)
<1>1. PICK N \in Nat : N = Len(ops) /\ \A k \in 1..N : ops[k] \in S
  OBVIOUS
<1>2. run \in Seq(S) /\ Len(run) = b - a /\ DOMAIN run = 1..(b - a)
  <2>1. IsPiece(run, S, ops, a, b)
    BY PieceFacts
  <2> HIDE DEF run
  <2> QED BY <2>1 DEF IsPiece
<1>3. run = [k \in 1..(b - a) |-> ops[a + k]]
  BY DEF Piece
<1> HIDE DEF run
<1>4. /\ run \in Seq(S) /\ Len(run) = b - a /\ DOMAIN run = 1..(b - a)
      /\ \A k \in 1..(b - a) : run[k] = ops[a + k]
  BY <1>2, <1>3
<1>5. Last(run) = ops[b]
  <2>1. PICK m \in 1..(b - a) : m = b - a /\ a + m = b
    OBVIOUS
  <2>2. run[m] = ops[b]
    BY <1>4, <2>1
  <2> QED BY <1>4, <2>1, <2>2 DEF Last
<1>6. ASSUME b = a + 1 PROVE run = <<ops[b]>>
  <2>1. 1 \in 1..(b - a) /\ b - a = 1
    BY <1>6
  <2>2. Len(run) = 1 /\ run[1] = ops[b]
    BY <1>4, <2>1
  <2>3. run = [k \in 1..1 |-> run[k]]
    BY <1>3, <1>4, <2>1
  <2> QED BY <2>2, <2>3
<1>7. ASSUME b < Len(ops) PROVE Append(run, ops[b + 1]) = Piece(ops, a, b + 1)
  <2>1. PICK m : m = Append(run, ops[b + 1])
    OBVIOUS
  <2>2. b + 1 \in 1..N /\ (b + 1) - a = (b - a) + 1 /\ b - a \in Nat /\ b + 1 = a + ((b - a) + 1)
    BY <1>1, <1>7
  <2>3. /\ m \in Seq(S) /\ Len(m) = (b - a) + 1
        /\ \A k \in 1..(b - a) : m[k] = run[k]
        /\ m[(b - a) + 1] = ops[b + 1]
    BY <1>1, <1>4, <2>1, <2>2
  <2>4. \A k \in 1..((b + 1) - a) : m[k] = ops[a + k]
    <3>1. \A k \in 1..((b + 1) - a) : k \in 1..(b - a) \/ k = (b - a) + 1
      BY <2>2
    <3> QED BY <1>4, <2>2, <2>3, <3>1
  <2>5. DOMAIN m = 1..((b + 1) - a) /\ m = [k \in DOMAIN m |-> m[k]]
    BY <2>2, <2>3
  <2> QED BY <2>1, <2>4, <2>5 DEF Piece
<1> QED BY <1>5, <1>6, <1>7 DEF run

(* A run of removals, made at once, makes the document that the removals   *)
(* make one after the other.                                               *)
LEMMA RemovalsTogether ==
  ASSUME NEW ops \in Seq(Ops), NEW path, NEW G, NEW m, Along(ops, path, G, m),
         NEW a \in Nat, NEW b \in 1..Len(ops), a < b,
         \A k \in (a + 1)..b : ops[k].kind \in Removals
  PROVE  EraseSnapshots(path[a], PieceIds(ops, a, b)) = path[b]
PROOF
<1> DEFINE d == path[a]
<1> DEFINE R(n) == PieceIds(ops, a, a + n)
<1> DEFINE T == {n \in 0..(b - a) :
             /\ R(n) \subseteq Ids
             /\ \A g \in Ids : path[a + n].groups[g] = RetainElements(d.groups[g], R(n))
             /\ \A i \in R(n) : path[a + n].items[i] = Absent
             /\ \A i \in Ids \ R(n) : Akin(d.items[i], path[a + n].items[i])}
<1>1. \A k \in 1..Len(ops) : Moves(path[k - 1], ops[k], path[k]) /\ ops[k] \in Ops
  BY DEF Along
<1>2. InOrder(d) /\ InOrder(path[b]) /\ b - a \in Nat /\ a + (b - a) = b
  <2>1. a \in 0..Len(ops) /\ b \in 0..Len(ops)
    OBVIOUS
  <2> QED BY <2>1 DEF Along, Ordered
<1>3. \A g \in Ids : d.groups[g] \in Seq(Ids) /\ Distinct(d.groups[g])
  BY <1>2, OrderFacts DEF InOrder
<1>4. 0 \in T
  <2>1. a + 0 = a /\ (a + 1)..(a + 0) = {} /\ 0 \in 0..(b - a)
    OBVIOUS
  <2>2. R(0) = {}
    BY <2>1 DEF PieceIds
  <2>3. \A g \in Ids : RetainElements(d.groups[g], {}) = d.groups[g]
    BY <1>3, RetainFacts
  <2>4. \A i \in Ids : Akin(d.items[i], d.items[i])
    BY DEF Akin
  <2> HIDE DEF R
  <2> QED BY <2>1, <2>2, <2>3, <2>4
<1>5. ASSUME NEW n \in 0..(b - a - 1), n \in T PROVE n + 1 \in T
  <2>1. PICK k \in (a + 1)..b : k = a + (n + 1) /\ k - 1 = a + n /\ k \in 1..Len(ops)
    OBVIOUS
  <2>2. PICK op \in Ops : op = ops[k] /\ Moves(path[k - 1], op, path[k])
    BY <1>1, <2>1
  <2>3. PICK x, e, f : x = op.id /\ e = path[a + n] /\ f = path[a + (n + 1)]
    OBVIOUS
  <2>4. /\ x \in Ids /\ f.items[x] = Absent
        /\ \A g \in Ids : f.groups[g] = RemoveElement(e.groups[g], x)
        /\ \A i \in Ids \ {x} : Akin(e.items[i], f.items[i])
        /\ InOrder(f)
    <3>1. Moves(e, op, f) /\ op.kind \in Removals
      BY <2>1, <2>2, <2>3
    <3>2. InOrder(f)
      <4>1. k \in 0..Len(ops) /\ f = path[k]
        BY <2>1, <2>3
      <4> QED BY <4>1 DEF Along, Ordered
    <3> QED BY <2>3, <3>1, <3>2, Loses
  <2>5. R(n + 1) = R(n) \cup {x}
    <3>1. (a + 1)..(a + (n + 1)) = ((a + 1)..(a + n)) \cup {k}
      BY <2>1
    <3> QED BY <2>2, <2>3, <3>1 DEF PieceIds
  <2> HIDE DEF R, d
  <2>6. /\ R(n) \subseteq Ids
        /\ \A g \in Ids : e.groups[g] = RetainElements(d.groups[g], R(n))
        /\ \A i \in R(n) : e.items[i] = Absent
        /\ \A i \in Ids \ R(n) : Akin(d.items[i], e.items[i])
    BY <1>5, <2>3
  <2>7. ASSUME NEW g \in Ids PROVE f.groups[g] = RetainElements(d.groups[g], R(n + 1))
    <3>1. RetainElements(d.groups[g], R(n) \cup {x})
            = RemoveElement(RetainElements(d.groups[g], R(n)), x)
      BY <1>3, RetainFacts
    <3> QED BY <2>4, <2>5, <2>6, <3>1
  <2>8. ASSUME NEW i \in R(n + 1) PROVE f.items[i] = Absent
    <3>1. CASE i = x
      BY <2>4, <3>1
    <3>2. CASE i # x
      <4>1. i \in Ids /\ e.items[i] = Absent
        BY <2>5, <2>6, <2>8, <3>2
      <4>2. Akin(Absent, f.items[i]) /\ f.items[i] \in Items /\ Plain(f.items[i])
        BY <2>4, <3>2, <4>1, OrderTyped
      <4>3. f.items[i].kind = "absent"
        BY <4>2 DEF Akin, Absent
      <4> QED BY <4>2, <4>3, ItemFacts
    <3> QED BY <3>1, <3>2
  <2>9. ASSUME NEW i \in Ids \ R(n + 1) PROVE Akin(d.items[i], f.items[i])
    <3>1. Akin(d.items[i], e.items[i]) /\ Akin(e.items[i], f.items[i])
      BY <2>4, <2>5, <2>6
    <3> QED BY <3>1 DEF Akin
  <2>10. R(n + 1) \subseteq Ids /\ n + 1 \in 0..(b - a)
    BY <2>4, <2>5, <2>6
  <2> QED BY <2>3, <2>7, <2>8, <2>9, <2>10
<1> HIDE DEF T
<1>6. 0..(b - a) \subseteq T
  <2>1. \A n \in 0..((b - a) - 1) : n \in T => n + 1 \in T
    BY <1>5
  <2> QED BY <1>2, <1>4, <2>1, Induction
<1>7. b - a \in T
  BY <1>2, <1>6
<1>8. /\ R(b - a) \subseteq Ids
      /\ \A g \in Ids : path[b].groups[g] = RetainElements(d.groups[g], R(b - a))
      /\ \A i \in R(b - a) : path[b].items[i] = Absent
      /\ \A i \in Ids \ R(b - a) : Akin(d.items[i], path[b].items[i])
  BY <1>2, <1>7 DEF T
<1>9. R(b - a) = PieceIds(ops, a, b)
  BY <1>2
<1> HIDE DEF R, d
<1>10. EraseSnapshots(d, R(b - a)) = path[b]
  BY <1>2, <1>8, ErasedTogether
<1> QED BY <1>9, <1>10 DEF d

(* An item that is taken out alone: what is recorded of it names its list, *)
(* and its place in it is found again.                                     *)
LEMMA TakenAlone ==
  ASSUME NEW d, NEW op, NEW e, Gains(e, op, d)
  PROVE  /\ Move(d, op.id, Absent) = Done(e)
         /\ EraseSnapshot(d, op.id, op.item) = e
PROOF
<1>1. PICK id \in Ids : id = op.id
  BY DEF Gains
<1>2. PICK s : s = op.item
  OBVIOUS
<1>3. /\ InOrder(d) /\ InOrder(e) /\ Akin(s, d.items[id]) /\ e.items[id] = Absent
      /\ \A i \in Ids \ {id} : Akin(e.items[i], d.items[i])
      /\ \A g \in Ids : e.groups[g] = RemoveElement(d.groups[g], id)
  BY <1>1, <1>2 DEF Gains
<1>4. Absent \in Items /\ Plain(Absent) /\ ~Participates(Absent)
  BY ItemFacts
<1>5. PICK r : r = Move(d, id, Absent)
  OBVIOUS
<1>6. /\ r.ok <=> Movable(d, id, Absent)
      /\ r.ok => /\ r = Done(r.doc) /\ InOrder(r.doc) /\ r.doc.items[id] = Absent
                 /\ r.doc.groups = [g \in Ids |-> ListAfter(d, id, Absent, g)]
      /\ \A i \in Ids \ {id} : ~Participates(d.items[i]) => r.doc.items[i] = d.items[i]
      /\ AkinBut(d, r.doc, id)
  BY <1>3, <1>4, <1>5, Moved
<1>7. PICK f : f = r.doc
  OBVIOUS
<1>8. /\ r = Done(f) /\ InOrder(f) /\ f.items[id] = Absent
      /\ f.groups = [g \in Ids |-> ListAfter(d, id, Absent, g)]
      /\ \A i \in Ids \ {id} : ~Participates(d.items[i]) => f.items[i] = d.items[i]
      /\ AkinBut(d, f, id)
  <2>1. Movable(d, id, Absent)
    BY <1>4 DEF Movable
  <2> QED BY <1>6, <1>7, <2>1
<1>9. f.groups = e.groups
  <2>1. \A g \in Ids : ListAfter(d, id, Absent, g) = e.groups[g]
    BY <1>3, <1>4 DEF ListAfter
  <2>2. e.groups = [g \in Ids |-> e.groups[g]]
    BY <1>3, OrderTyped
  <2> QED BY <1>8, <2>1, <2>2
<1>10. ASSUME NEW i \in Ids, ~Participates(f.items[i]) PROVE e.items[i] = f.items[i]
  <2>1. CASE i = id
    BY <1>3, <1>8, <2>1
  <2>2. CASE i # id
    <3>1. Akin(d.items[i], f.items[i]) /\ Akin(e.items[i], d.items[i])
      BY <1>3, <1>8, <2>2 DEF AkinBut
    <3>2. ~Participates(d.items[i]) /\ ~Participates(e.items[i]) /\ Akin(e.items[i], f.items[i])
      BY <1>10, <3>1 DEF Akin, Participates
    <3>3. /\ e.items[i] \in Items /\ f.items[i] \in Items
          /\ Plain(e.items[i]) /\ Plain(f.items[i])
      BY <1>3, <1>8, OrderTyped
    <3> QED BY <3>2, <3>3, SameItem
  <2> QED BY <2>1, <2>2
<1>11. f = e
  BY <1>3, <1>8, <1>9, <1>10, SameDocument
<1>12. EraseSnapshot(d, id, s) = EraseSnapshot(d, id, d.items[id])
  <2>1. PICK t : t = d.items[id]
    OBVIOUS
  <2>2. s.parent = t.parent /\ (Participates(s) <=> Participates(t))
    BY <1>3, <2>1 DEF Akin, Participates
  <2>3. RemoveFromListGroup(d, id, s) = RemoveFromListGroup(d, id, t)
    BY <2>2 DEF RemoveFromListGroup
  <2> QED BY <2>1, <2>3 DEF EraseSnapshot
<1>13. Done(EraseSnapshot(d, id, d.items[id])) = Done(e)
  BY <1>5, <1>8, <1>11, EraseIsMove
<1>14. EraseSnapshot(d, id, d.items[id]) = e
  BY <1>13, OutcomeFacts
<1> QED BY <1>1, <1>2, <1>5, <1>8, <1>11, <1>12, <1>14

(* An item that is put in alone, recorded as it is afterwards              *)
LEMMA PutAlone ==
  ASSUME NEW d, NEW op, NEW e, Gains(d, op, e), Rooted(e), e.items[op.id] = op.item
  PROVE  InsertSnapshot(d, op.id, op.item) = Done(e)
PROOF
<1>1. PICK id \in Ids : id = op.id
  BY DEF Gains
<1>2. PICK s : s = op.item /\ s = e.items[id]
  BY <1>1
<1>3. /\ InOrder(d) /\ InOrder(e) /\ d.items[id] = Absent
      /\ \A i \in Ids \ {id} : Akin(d.items[i], e.items[i])
  BY <1>1 DEF Gains
<1>4. d \in Docs /\ e \in Docs /\ AkinBut(e, d, id)
  BY <1>3, OrderTyped DEF AkinBut, Akin
<1>5. ValidParent(d, id, s)
  BY <1>2, <1>4, BackValid
<1>6. InsertSnapshot(d, id, s) = Move(d, id, s)
  BY <1>3, <1>5, InsertIsMove
<1>7. Move(e, id, Absent) = Done(d)
  BY <1>1, TakenAlone
<1>8. Absent \in Items /\ Plain(Absent) /\ Movable(e, id, Absent)
  BY ItemFacts DEF Movable
<1>9. Move(Move(e, id, Absent).doc, id, e.items[id]) = Done(e)
  BY <1>3, <1>8, MovedBack
<1>10. Move(e, id, Absent).doc = d
  BY <1>7, OutcomeFacts
<1> QED BY <1>1, <1>2, <1>6, <1>9, <1>10

(* As many different members as there are: all of them                     *)
LEMMA Enumerated ==
  ASSUME NEW S, IsFiniteSet(S), NEW f \in [1..Cardinality(S) -> S],
         \A i, j \in 1..Cardinality(S) : f[i] = f[j] => i = j
  PROVE  /\ Cardinality(S) \in Nat
         /\ \A x \in S : \E k \in 1..Cardinality(S) : f[k] = x
PROOF
<1>1. Cardinality(S) \in Nat
  BY FS_CardinalityType
<1>2. PICK D : D = 1..Cardinality(S)
  OBVIOUS
<1>3. IsFiniteSet(D) /\ Cardinality(D) = Cardinality(S)
  BY <1>1, <1>2, FS_Interval
<1>4. f \in Injection(D, S)
  BY <1>2 DEF Injection, IsInjective
<1>5. f \in Surjection(D, S)
  BY <1>3, <1>4, FS_Injection
<1> QED BY <1>1, <1>2, <1>5 DEF Surjection

(* SetToSeq lists the members of a finite set.                             *)
LEMMA SetListed ==
  ASSUME NEW S, IsFiniteSet(S)
  PROVE  /\ Cardinality(S) \in Nat /\ DOMAIN SetToSeq(S) = 1..Cardinality(S)
         /\ \A k \in 1..Cardinality(S) : SetToSeq(S)[k] \in S
         /\ \A x \in S : \E k \in 1..Cardinality(S) : SetToSeq(S)[k] = x
PROOF
<1>1. Cardinality(S) \in Nat /\ ExistsBijection(1..Cardinality(S), S)
  BY FS_CardinalityType
<1>2. \E f \in [1..Cardinality(S) -> S] : IsInjective(f)
  BY <1>1 DEF ExistsBijection, Bijection, Injection
<1>3. PICK f : f = SetToSeq(S)
  OBVIOUS
<1>4. f \in [1..Cardinality(S) -> S] /\ IsInjective(f)
  BY <1>2, <1>3 DEF SetToSeq
<1>5. \A i, j \in 1..Cardinality(S) : f[i] = f[j] => i = j
  BY <1>4 DEF IsInjective
<1>6. \A x \in S : \E k \in 1..Cardinality(S) : f[k] = x
  BY <1>4, <1>5, Enumerated
<1> QED BY <1>1, <1>3, <1>4, <1>6

(* Which records the plan for the list g is made from: those of the        *)
(* elements of the run that join it, one after the other.                  *)
Entry(op) == [id |-> op.id, index |-> op.item.index]
Entries == [id : Ids, index : Nat]

Gathers(trace, run, g) ==
  /\ trace[0] = <<>> /\ trace[Len(run)] = JoiningRecords(run, g)
  /\ \A n \in 1..Len(run) :
       trace[n] = IF Joins(run[n].item, g) THEN Append(trace[n - 1], Entry(run[n]))
                  ELSE trace[n - 1]

(* They are collected so.                                                  *)
LEMMA GatherTrace ==
  ASSUME NEW S, NEW run \in Seq(S), NEW g
  PROVE  \E trace : Gathers(trace, run, g)
PROOF
<1> DEFINE marked == [k \in DOMAIN run |->
             [id |-> Entry(run[k]), kept |-> Joins(run[k].item, g)]]
<1> DEFINE Join(acc, op) == IF Participates(op.item) /\ op.item.parent = g
                              THEN Append(acc, [id |-> op.id, index |-> op.item.index])
                              ELSE acc
<1> DEFINE Solves(iter) == iter = [s \in SUBSET (DOMAIN run) |->
             IF s = {} THEN <<>> ELSE Join(iter[s \ {Max(s)}], run[Max(s)])]
<1>1. JoiningRecords(run, g) = (CHOOSE iter : Solves(iter))[DOMAIN run]
  BY ZenonT(30) DEF JoiningRecords, FoldLeft, MapThenFoldSet
<1>2. PICK N \in Nat : N = Len(run) /\ DOMAIN run = 1..N /\ DOMAIN marked = 1..N
  OBVIOUS
<1>3. ASSUME NEW k \in 1..N, NEW acc
      PROVE  Act("keep", acc, marked[k])
               = IF Joins(run[k].item, g) THEN Append(acc, Entry(run[k])) ELSE acc
  <2>1. PICK m : m = marked[k]
    OBVIOUS
  <2>2. m = [id |-> Entry(run[k]), kept |-> Joins(run[k].item, g)]
    BY <1>2, <2>1
  <2>3. m.id = Entry(run[k]) /\ m.kept = Joins(run[k].item, g)
    BY <2>2
  <2>4. Act("keep", acc, m) = IF m.kept THEN Append(acc, m.id) ELSE acc
    BY DEF Act
  <2> QED BY <2>1, <2>3, <2>4
<1> HIDE DEF marked
<1>4. ASSUME NEW s \in SUBSET (1..N), s # {}, NEW acc
      PROVE  Act("keep", acc, marked[Max(s)])
               = Join(acc, run[Max(s)])
  <2>1. Max(s) \in 1..N
    BY <1>4, MaxInside
  <2> QED BY <1>3, <2>1 DEF Joins, Entry
<1> HIDE DEF Join
<1>5. ASSUME NEW iter
      PROVE  Solves(iter) <=> FoldsTo(iter, "keep", <<>>, marked)
  BY <1>2, <1>4 DEF FoldsTo
<1> HIDE DEF Solves
<1>6. (CHOOSE iter : Solves(iter)) = (CHOOSE iter : FoldsTo(iter, "keep", <<>>, marked))
  BY <1>5
<1>7. JoiningRecords(run, g) = Folded("keep", <<>>, marked)
  BY <1>1, <1>2, <1>6 DEF Folded
<1>8. PICK trace : /\ Traces("keep", N, marked, trace) /\ trace[0] = <<>>
                   /\ Folded("keep", <<>>, marked) = trace[N]
  <2>1. HasTrace("keep", N, marked, <<>>)
    BY <1>2, FoldTrace
  <2> QED BY <2>1 DEF HasTrace
<1>9. \A n \in 1..N : trace[n] = IF Joins(run[n].item, g)
                                   THEN Append(trace[n - 1], Entry(run[n])) ELSE trace[n - 1]
  BY <1>3, <1>8 DEF Traces
<1>10. Gathers(trace, run, g)
  BY <1>2, <1>7, <1>8, <1>9 DEF Gathers
<1> QED BY <1>10

(* The records of the first n operations of a run: one for each element    *)
(* that joins                                                              *)
Gathered(records, run, g, n) ==
  /\ records \in Seq(Entries)
  /\ \A p \in 1..Len(records) :
       \E k \in 1..n : Joins(run[k].item, g) /\ records[p] = Entry(run[k])
  /\ \A k \in 1..n : Joins(run[k].item, g) =>
       \E p \in 1..Len(records) : records[p] = Entry(run[k])
  /\ \A p, q \in 1..Len(records) : records[p].id = records[q].id => p = q

(* So it is with those of the whole run.                                   *)
LEMMA GatherFacts ==
  ASSUME NEW S, NEW run \in Seq(S), NEW g,
         \A k \in 1..Len(run) : Entry(run[k]) \in Entries,
         \A j, k \in 1..Len(run) : run[j].id = run[k].id => j = k
  PROVE  Gathered(JoiningRecords(run, g), run, g, Len(run))
PROOF
<1>1. PICK N \in Nat : N = Len(run)
  OBVIOUS
<1>2. PICK t : Gathers(t, run, g)
  BY GatherTrace
<1>3. /\ t[0] = <<>> /\ t[N] = JoiningRecords(run, g)
      /\ \A n \in 1..N : t[n] = IF Joins(run[n].item, g)
                                  THEN Append(t[n - 1], Entry(run[n])) ELSE t[n - 1]
  BY <1>1, <1>2 DEF Gathers
<1> DEFINE T == {n \in 0..N : Gathered(t[n], run, g, n)}
<1>4. 0 \in T
  <2>1. <<>> \in Seq(Entries) /\ Len(<<>>) = 0 /\ 1..0 = {} /\ 0 \in 0..N
    OBVIOUS
  <2>2. Gathered(t[0], run, g, 0)
    BY <1>3, <2>1 DEF Gathered
  <2> QED BY <2>1, <2>2
<1>5. ASSUME NEW n \in 0..(N - 1), n \in T PROVE n + 1 \in T
  <2>1. n + 1 \in 1..N /\ n + 1 \in 0..N /\ n \in 0..N /\ (n + 1) - 1 = n
    OBVIOUS
  <2>2. PICK op : op = run[n + 1]
    OBVIOUS
  <2>3. PICK r, s : r = t[n] /\ s = t[n + 1]
    OBVIOUS
  <2>4. Gathered(r, run, g, n)
    BY <1>5, <2>3
  <2>5. s = IF Joins(op.item, g) THEN Append(r, Entry(op)) ELSE r
    BY <1>3, <2>1, <2>2, <2>3
  <2>6. \A k \in 1..(n + 1) : k = n + 1 \/ k \in 1..n
    OBVIOUS
  <2>7. \A k \in 1..n : k \in 1..(n + 1)
    OBVIOUS
  <2>8. CASE ~Joins(op.item, g)
    <3>1. s = r
      BY <2>5, <2>8
    <3>2. Gathered(r, run, g, n + 1)
      BY <2>2, <2>4, <2>6, <2>7, <2>8 DEF Gathered
    <3> QED BY <2>1, <2>3, <3>1, <3>2
  <2>9. CASE Joins(op.item, g)
    <3>1. PICK e \in Entries : e = Entry(op)
      BY <1>1, <2>1, <2>2
    <3>2. s = Append(r, e) /\ r \in Seq(Entries)
      BY <2>4, <2>5, <2>9, <3>1 DEF Gathered
    <3>3. PICK m \in Nat : m = Len(r)
      BY <3>2
    <3>4. /\ s \in Seq(Entries) /\ Len(s) = m + 1 /\ s[m + 1] = e
          /\ \A p \in 1..m : s[p] = r[p]
      BY <3>2, <3>3
    <3>5. \A p \in 1..(m + 1) : p = m + 1 \/ p \in 1..m
      BY <3>3
    <3>6. m + 1 \in 1..(m + 1) /\ \A p \in 1..m : p \in 1..(m + 1)
      BY <3>3
    <3>7. ASSUME NEW p \in 1..(m + 1)
          PROVE  \E k \in 1..(n + 1) : Joins(run[k].item, g) /\ s[p] = Entry(run[k])
      <4>1. CASE p = m + 1
        <5>1. n + 1 \in 1..(n + 1)
          OBVIOUS
        <5> QED BY <2>2, <2>9, <3>1, <3>4, <4>1, <5>1
      <4>2. CASE p \in 1..m
        <5>1. PICK k \in 1..n : Joins(run[k].item, g) /\ r[p] = Entry(run[k])
          BY <2>4, <3>3, <4>2 DEF Gathered
        <5> QED BY <2>7, <3>4, <4>2, <5>1
      <4> QED BY <3>5, <4>1, <4>2
    <3>8. ASSUME NEW k \in 1..(n + 1), Joins(run[k].item, g)
          PROVE  \E p \in 1..(m + 1) : s[p] = Entry(run[k])
      <4>1. CASE k = n + 1
        BY <2>2, <3>1, <3>4, <3>6, <4>1
      <4>2. CASE k \in 1..n
        <5>1. PICK p \in 1..m : r[p] = Entry(run[k])
          BY <2>4, <3>3, <3>8, <4>2 DEF Gathered
        <5> QED BY <3>4, <3>6, <5>1
      <4> QED BY <2>6, <4>1, <4>2
    <3>9. ASSUME NEW p \in 1..m PROVE r[p].id # e.id
      <4>1. PICK k \in 1..n : r[p] = Entry(run[k])
        BY <2>4, <3>3 DEF Gathered
      <4>2. k \in 1..N /\ k # n + 1
        BY <2>1
      <4>3. run[k].id # op.id
        BY <1>1, <2>1, <2>2, <4>2
      <4> QED BY <3>1, <4>1, <4>3 DEF Entry
    <3>10. ASSUME NEW p \in 1..(m + 1), NEW q \in 1..(m + 1), s[p].id = s[q].id PROVE p = q
      <4>1. \A i, j \in 1..m : r[i].id = r[j].id => i = j
        BY <2>4, <3>3 DEF Gathered
      <4> QED BY <3>4, <3>5, <3>9, <3>10, <4>1
    <3>11. Gathered(s, run, g, n + 1)
      BY <3>4, <3>7, <3>8, <3>10 DEF Gathered
    <3> QED BY <2>1, <2>3, <3>11
  <2> QED BY <2>8, <2>9
<1> HIDE DEF T
<1>6. 0..N \subseteq T
  BY <1>4, <1>5, Induction
<1>7. N \in T
  BY <1>6
<1> QED BY <1>1, <1>3, <1>7 DEF T

(* The items of a run put down, and no list changed                        *)
Placed(d, run) ==
  [d EXCEPT !.items = [id \in Ids |->
     IF id \in {run[k].id : k \in DOMAIN run}
       THEN run[CHOOSE k \in DOMAIN run : run[k].id = id].item ELSE @[id]]]

(* The lists the run joins, and the document with these lists as planned   *)
JoinedBy(run) == {run[k].item.parent : k \in {k \in DOMAIN run : Participates(run[k].item)}}

Planned(d, run) ==
  [Placed(d, run) EXCEPT !.groups = [g \in Ids |->
     IF g \in JoinedBy(run) THEN PlanGroup(@[g], JoiningRecords(run, g)) ELSE @[g]]]

(* insertItemSnapshots, when nothing keeps it from inserting the run       *)
LEMMA RunInserted ==
  ASSUME NEW d, NEW run,
         Cardinality({run[k].id : k \in DOMAIN run}) = Len(run),
         \A id \in {run[k].id : k \in DOMAIN run} :
           ~Present(d, id) /\ ValidParent(Placed(d, run), id, Placed(d, run).items[id]),
         \A g \in JoinedBy(run) : Plannable(d.groups[g], JoiningRecords(run, g))
  PROVE  InsertItemSnapshots(d, run)
           = Done(Folded("renumber", Planned(d, run), SetToSeq(JoinedBy(run))))
PROOF
<1> DEFINE order == SetToSeq(JoinedBy(run))
<1> DEFINE Solves(iter) == iter = [s \in SUBSET (DOMAIN order) |->
             IF s = {} THEN Planned(d, run)
             ELSE Refresh(iter[s \ {Max(s)}], order[Max(s)], 0)]
<1>1. InsertItemSnapshots(d, run) = Done((CHOOSE iter : Solves(iter))[DOMAIN order])
  BY ZenonT(60) DEF InsertItemSnapshots, Placed, Planned, JoinedBy, FoldLeft, MapThenFoldSet
<1> HIDE DEF order
<1>2. \A f : Solves(f) <=> FoldsTo(f, "renumber", Planned(d, run), order)
  BY DEF FoldsTo, Act
<1> HIDE DEF Solves
<1>3. (CHOOSE f : Solves(f)) = (CHOOSE f : FoldsTo(f, "renumber", Planned(d, run), order))
  BY <1>2
<1> QED BY <1>1, <1>3 DEF Folded, order

(* The items of t outside the lists left are as in e, those in them but    *)
(* for their indexes.                                                      *)
NumberedBut(t, e, left) ==
  /\ t \in Docs /\ t.groups = e.groups
  /\ \A i \in Ids : /\ Akin(e.items[i], t.items[i])
                    /\ t.items[i] = e.items[i] \/ JoinsOne(e.items[i], left)

(* Renumbering the lists left, one after the other, makes e.               *)
LEMMA RenumberedAll ==
  ASSUME NEW e, InOrder(e), NEW t, NEW left \in SUBSET Ids, NumberedBut(t, e, left)
  PROVE  Folded("renumber", t, SetToSeq(left)) = e
PROOF
<1>1. IsFiniteSet(left)
  <2>1. IsFiniteSet(Ids)
    BY ChangesAssumption, FS_Interval DEF Ids
  <2> QED BY <2>1, FS_Subset
<1>2. PICK order : order = SetToSeq(left)
  OBVIOUS
<1>3. PICK N \in Nat : /\ DOMAIN order = 1..N
                       /\ \A k \in 1..N : order[k] \in left
                       /\ \A x \in left : \E k \in 1..N : order[k] = x
  BY <1>1, <1>2, SetListed
<1>4. PICK u : /\ Traces("renumber", N, order, u) /\ u[0] = t
               /\ Folded("renumber", t, order) = u[N]
  <2>1. HasTrace("renumber", N, order, t)
    BY <1>3, FoldTrace
  <2> QED BY <2>1 DEF HasTrace
<1>5. \A n \in 1..N : u[n] = Refresh(u[n - 1], order[n], 0)
  BY <1>4 DEF Traces, Act
<1> DEFINE Rest(n) == {order[k] : k \in (n + 1)..N}
<1> DEFINE T == {n \in 0..N : NumberedBut(u[n], e, Rest(n))}
<1>6. 0 \in T
  <2>1. left = Rest(0)
    BY <1>3
  <2> HIDE DEF Rest
  <2>2. 0 \in 0..N
    OBVIOUS
  <2> QED BY <1>4, <2>1, <2>2
<1>7. ASSUME NEW n \in 0..(N - 1), n \in T PROVE n + 1 \in T
  <2>1. n + 1 \in 1..N /\ n + 1 \in 0..N /\ n \in 0..N /\ (n + 1) - 1 = n
    OBVIOUS
  <2>2. PICK g \in Ids : g = order[n + 1]
    BY <1>3, <2>1
  <2>3. PICK v, w : v = u[n] /\ w = u[n + 1]
    OBVIOUS
  <2>4. Rest(n) = Rest(n + 1) \cup {g}
    <3>1. (n + 1)..N = {n + 1} \cup ((n + 1) + 1)..N
      BY <2>1
    <3> QED BY <2>2, <3>1
  <2> HIDE DEF Rest
  <2>5. NumberedBut(v, e, Rest(n)) /\ w = Refresh(v, g, 0)
    BY <1>5, <1>7, <2>1, <2>2, <2>3
  <2>6. /\ v \in Docs /\ v.groups = e.groups
        /\ \A i \in Ids : /\ Akin(e.items[i], v.items[i])
                          /\ v.items[i] = e.items[i] \/ JoinsOne(e.items[i], Rest(n))
    BY <2>5 DEF NumberedBut
  <2>7. Distinct(e.groups[g])
    BY OrderFacts DEF InOrder
  <2>8. /\ w \in Docs /\ w.groups = v.groups
        /\ \A i \in Ids :
             w.items[i] = IF /\ Contains(v.groups[g], i)
                             /\ IndexOf(v.groups[g], i) >= 0
                             /\ v.items[i] # Absent
                            THEN [v.items[i] EXCEPT !.index = IndexOf(v.groups[g], i)]
                            ELSE v.items[i]
    <3>1. Distinct(v.groups[g]) /\ 0 \in Nat
      BY <2>6, <2>7
    <3> QED BY <2>5, <2>6, <3>1, RefreshFacts
  <2>9. ASSUME NEW i \in Ids
        PROVE  /\ Akin(e.items[i], w.items[i])
               /\ w.items[i] = e.items[i] \/ JoinsOne(e.items[i], Rest(n + 1))
    <3>1. CASE Contains(e.groups[g], i)
      <4>1. PICK k : k = IndexOf(e.groups[g], i)
        OBVIOUS
      <4>2. k \in Nat /\ e.items[i] = Elem(g, k)
        BY <3>1, <4>1, OrderFacts DEF InOrder
      <4>3. PICK s \in Items : s = v.items[i]
        BY <2>6, DocFacts
      <4>4. s.kind = "elem" /\ s.parent = g
        BY <2>6, <4>2, <4>3, ItemFacts DEF Akin
      <4>5. s # Absent
        BY <4>4 DEF Absent
      <4>6. w.items[i] = [s EXCEPT !.index = k]
        BY <2>6, <2>8, <3>1, <4>1, <4>2, <4>3, <4>5
      <4>7. [s EXCEPT !.index = k] = Elem(g, k)
        <5>1. PICK m : m = s.index
          OBVIOUS
        <5>2. s = [kind |-> "elem", parent |-> g, index |-> m]
          BY <4>4, <5>1, ItemFacts
        <5>3. [[kind |-> "elem", parent |-> g, index |-> m] EXCEPT !.index = k]
                = [kind |-> "elem", parent |-> g, index |-> k]
          OBVIOUS
        <5> QED BY <5>2, <5>3 DEF Elem
      <4> QED BY <4>2, <4>6, <4>7 DEF Akin
    <3>2. CASE ~Contains(e.groups[g], i)
      <4>1. w.items[i] = v.items[i]
        BY <2>6, <2>8, <3>2
      <4>2. ~Joins(e.items[i], g)
        <5>1. i \in Ids \ {NoId}
          BY ItemFacts
        <5> QED BY <3>2, <5>1, OrderFacts DEF InOrder, Joins
      <4>3. JoinsOne(e.items[i], Rest(n)) => JoinsOne(e.items[i], Rest(n + 1))
        BY <2>4, <4>2 DEF JoinsOne
      <4> QED BY <2>6, <4>1, <4>3
    <3> QED BY <3>1, <3>2
  <2>10. NumberedBut(w, e, Rest(n + 1))
    BY <2>6, <2>8, <2>9 DEF NumberedBut
  <2> QED BY <2>1, <2>3, <2>10
<1> HIDE DEF T
<1>8. 0..N \subseteq T
  BY <1>6, <1>7, Induction
<1>9. N \in T
  BY <1>8
<1>10. NumberedBut(u[N], e, {})
  <2>1. Rest(N) = {}
    OBVIOUS
  <2> HIDE DEF Rest
  <2> QED BY <1>9, <2>1 DEF T
<1>11. PICK f : f = u[N]
  OBVIOUS
<1>12. f \in Docs /\ f.groups = e.groups /\ \A i \in Ids : f.items[i] = e.items[i]
  BY <1>10, <1>11 DEF NumberedBut, JoinsOne
<1>13. f = e
  <2>1. f.items \in [Ids -> Items] /\ f = [items |-> f.items, groups |-> f.groups]
    BY <1>12, DocFacts
  <2>2. e.items \in [Ids -> Items] /\ e = [items |-> e.items, groups |-> e.groups]
    BY OrderTyped, DocFacts
  <2>3. f.items = e.items
    BY <1>12, <2>1, <2>2
  <2> QED BY <1>12, <2>1, <2>2, <2>3
<1> QED BY <1>2, <1>4, <1>11, <1>13

(* What an insertion does to the lists                                     *)
LEMMA GainsList ==
  ASSUME NEW d, NEW op, NEW e, Gains(d, op, e), NEW g \in Ids
  PROVE  /\ Joins(op.item, g) =>
              /\ e.items[op.id].index \in 0..Len(d.groups[g])
              /\ e.groups[g] = InsertElement(d.groups[g], e.items[op.id].index, op.id)
              /\ Contains(e.groups[g], op.id)
         /\ ~Joins(op.item, g) => e.groups[g] = d.groups[g]
PROOF
<1>1. PICK id \in Ids : id = op.id
  BY DEF Gains
<1>2. PICK s : s = e.items[id]
  OBVIOUS
<1>3. /\ InOrder(e) /\ Akin(op.item, s)
      /\ d.groups[g] = RemoveElement(e.groups[g], id)
  BY <1>1, <1>2 DEF Gains
<1>4. Joins(op.item, g) <=> Participates(s) /\ s.parent = g
  BY <1>3 DEF Joins, Akin, Participates
<1>5. PICK rest : rest = RemoveElement(e.groups[g], id)
  OBVIOUS
<1>6. /\ Participates(s) /\ g = s.parent =>
           s.index \in 0..Len(rest) /\ InsertElement(rest, s.index, id) = e.groups[g]
      /\ ~(Participates(s) /\ g = s.parent) => rest = e.groups[g]
  BY <1>2, <1>3, <1>5, GroupWithout
<1>7. id \in Ids \ {NoId}
  BY ItemFacts
<1>8. Participates(s) /\ s.parent = g => Contains(e.groups[g], id)
  BY <1>2, <1>3, <1>7, OrderFacts DEF InOrder
<1> QED BY <1>1, <1>2, <1>3, <1>4, <1>5, <1>6, <1>8

(* The operations behind the a-th, up to the b-th, insert different items  *)
(* into d, which has none of them, and e is d with these items in their    *)
(* lists, indexes aside.                                                   *)
Filled(ops, a, b, d, e) ==
  /\ PieceIds(ops, a, b) \subseteq Ids
  /\ IsFiniteSet(PieceIds(ops, a, b)) /\ Cardinality(PieceIds(ops, a, b)) = b - a
  /\ \A j, k \in (a + 1)..b : ops[j].id = ops[k].id => j = k
  /\ \A i \in PieceIds(ops, a, b) : d.items[i] = Absent
  /\ \A k \in (a + 1)..b : /\ Akin(ops[k].item, e.items[ops[k].id])
                           /\ ops[k].item.kind # "absent"
  /\ \A i \in Ids \ PieceIds(ops, a, b) : Akin(d.items[i], e.items[i])
  /\ \A g \in Ids : (\A k \in (a + 1)..b : ~Joins(ops[k].item, g)) => e.groups[g] = d.groups[g]

(* So does every run of insertions.                                        *)
LEMMA RunFills ==
  ASSUME NEW ops \in Seq(Ops), NEW path, 
         \A k \in 1..Len(ops) : Moves(path[k - 1], ops[k], path[k]),
         NEW a \in Nat, NEW b \in 1..Len(ops), a < b, InOrder(path[a]),
         \A k \in (a + 1)..b : ops[k].kind = "ItemInserted"
  PROVE  \A n \in 0..(b - a) : Filled(ops, a, a + n, path[a], path[a + n])
PROOF
<1> DEFINE d == path[a]
<1> DEFINE R(n) == PieceIds(ops, a, a + n)
<1> DEFINE T == {n \in 0..(b - a) : Filled(ops, a, a + n, d, path[a + n])}
<1>1. b - a \in Nat /\ a + (b - a) = b
  OBVIOUS
<1>2. 0 \in T
  <2>1. a + 0 = a /\ (a + 1)..(a + 0) = {} /\ 0 \in 0..(b - a) /\ a - a = 0
    OBVIOUS
  <2>2. R(0) = {}
    BY <2>1 DEF PieceIds
  <2>3. IsFiniteSet({}) /\ Cardinality({}) = 0
    BY FS_EmptySet
  <2>4. \A i \in Ids : Akin(d.items[i], d.items[i])
    BY DEF Akin
  <2> HIDE DEF d
  <2>5. Filled(ops, a, a + 0, d, d)
    BY <2>1, <2>2, <2>3, <2>4 DEF Filled
  <2> QED BY <2>1, <2>5 DEF d
<1>3. ASSUME NEW n \in 0..(b - a - 1), n \in T PROVE n + 1 \in T
  <2>1. PICK k \in (a + 1)..b : k = a + (n + 1) /\ k - 1 = a + n /\ k \in 1..Len(ops)
    OBVIOUS
  <2>2. PICK op \in Ops : op = ops[k]
    BY <2>1
  <2>3. PICK x, e, f : x = op.id /\ e = path[a + n] /\ f = path[a + (n + 1)]
    OBVIOUS
  <2>4. Gains(e, op, f)
    <3>1. Moves(path[k - 1], ops[k], path[k]) /\ ops[k].kind = "ItemInserted"
      BY <2>1
    <3> QED BY <2>1, <2>2, <2>3, <3>1 DEF Moves
  <2>5. /\ InOrder(e) /\ InOrder(f) /\ x \in Ids /\ op.item.kind # "absent"
        /\ e.items[x] = Absent /\ Akin(op.item, f.items[x])
        /\ \A i \in Ids \ {x} : Akin(e.items[i], f.items[i])
    BY <2>3, <2>4 DEF Gains
  <2>6. /\ (a + 1)..(a + (n + 1)) = ((a + 1)..(a + n)) \cup {k}
        /\ R(n + 1) = R(n) \cup {x}
        /\ k \notin (a + 1)..(a + n)
    <3>1. (a + 1)..(a + (n + 1)) = ((a + 1)..(a + n)) \cup {k}
      BY <2>1
    <3>2. k \notin (a + 1)..(a + n)
      BY <2>1
    <3> QED BY <2>2, <2>3, <3>1, <3>2 DEF PieceIds
  <2>7. /\ \A i \in R(n) : \E j \in (a + 1)..(a + n) : i = ops[j].id
        /\ \A j \in (a + 1)..(a + n) : ops[j].id \in R(n)
    BY DEF PieceIds
  <2>8. Filled(ops, a, a + n, d, e)
    BY <1>3, <2>3
  <2> HIDE DEF d
  <2>9. /\ R(n) \subseteq Ids /\ IsFiniteSet(R(n)) /\ Cardinality(R(n)) = n
        /\ \A j, l \in (a + 1)..(a + n) : ops[j].id = ops[l].id => j = l
        /\ \A i \in R(n) : d.items[i] = Absent
        /\ \A j \in (a + 1)..(a + n) : /\ Akin(ops[j].item, e.items[ops[j].id])
                                       /\ ops[j].item.kind # "absent"
        /\ \A i \in Ids \ R(n) : Akin(d.items[i], e.items[i])
        /\ \A g \in Ids : (\A j \in (a + 1)..(a + n) : ~Joins(ops[j].item, g))
                            => e.groups[g] = d.groups[g]
    <3>1. (a + n) - a = n
      OBVIOUS
    <3> QED BY <2>8, <3>1 DEF Filled
  <2> HIDE DEF R
  <2>10. x \notin R(n)
    <3> SUFFICES ASSUME x \in R(n) PROVE FALSE
      OBVIOUS
    <3>1. PICK j \in (a + 1)..(a + n) : x = ops[j].id
      BY <2>7
    <3>2. ops[j].item.kind = e.items[x].kind /\ ops[j].item.kind # "absent"
      BY <2>9, <3>1 DEF Akin
    <3> QED BY <2>5, <3>2 DEF Absent
  <2>11. IsFiniteSet(R(n + 1)) /\ Cardinality(R(n + 1)) = n + 1
    <3>1. IsFiniteSet(R(n)) /\ Cardinality(R(n)) = n
      BY <2>9
    <3>2. /\ IsFiniteSet(R(n) \cup {x})
          /\ Cardinality(R(n) \cup {x}) = Cardinality(R(n)) + 1
      BY <2>10, <3>1, FS_AddElement
    <3> QED BY <2>6, <3>1, <3>2
  <2>12. \A j, l \in (a + 1)..(a + (n + 1)) : ops[j].id = ops[l].id => j = l
    <3>1. \A j \in (a + 1)..(a + n) : ops[j].id # ops[k].id
      BY <2>2, <2>3, <2>7, <2>10
    <3> QED BY <2>6, <2>9, <3>1
  <2>13. d.items[x] = Absent
    <3>1. d.items[x].kind = "absent"
      BY <2>5, <2>9, <2>10 DEF Akin, Absent
    <3>2. d.items[x] \in Items /\ Plain(d.items[x])
      BY <2>5, OrderTyped DEF d
    <3> QED BY <3>1, <3>2, ItemFacts
  <2>14. \A i \in R(n + 1) : d.items[i] = Absent
    BY <2>6, <2>9, <2>13
  <2>15. \A j \in (a + 1)..(a + (n + 1)) : /\ Akin(ops[j].item, f.items[ops[j].id])
                                          /\ ops[j].item.kind # "absent"
    <3>1. ASSUME NEW j \in (a + 1)..(a + n)
          PROVE  Akin(ops[j].item, f.items[ops[j].id]) /\ ops[j].item.kind # "absent"
      <4>1. PICK y \in Ids \ {x} : y = ops[j].id
        BY <2>7, <2>9, <2>10
      <4>2. Akin(ops[j].item, e.items[y]) /\ Akin(e.items[y], f.items[y])
        BY <2>5, <2>9, <4>1
      <4> QED BY <2>9, <4>1, <4>2 DEF Akin
    <3>2. Akin(ops[k].item, f.items[ops[k].id]) /\ ops[k].item.kind # "absent"
      BY <2>2, <2>3, <2>5
    <3> QED BY <2>6, <3>1, <3>2
  <2>16. ASSUME NEW i \in Ids \ R(n + 1) PROVE Akin(d.items[i], f.items[i])
    <3>1. Akin(d.items[i], e.items[i]) /\ Akin(e.items[i], f.items[i])
      BY <2>5, <2>6, <2>9
    <3> QED BY <3>1 DEF Akin
  <2>17. ASSUME NEW g \in Ids, \A j \in (a + 1)..(a + (n + 1)) : ~Joins(ops[j].item, g)
         PROVE  f.groups[g] = d.groups[g]
    <3>1. e.groups[g] = d.groups[g]
      BY <2>6, <2>9, <2>17
    <3>2. ~Joins(op.item, g)
      BY <2>2, <2>6, <2>17
    <3>3. f.groups[g] = e.groups[g]
      BY <2>4, <3>2, GainsList
    <3> QED BY <3>1, <3>3
  <2>18. R(n + 1) \subseteq Ids /\ (a + (n + 1)) - a = n + 1 /\ n + 1 \in 0..(b - a)
    BY <2>5, <2>6, <2>9
  <2>19. Filled(ops, a, a + (n + 1), d, f)
    BY <2>11, <2>12, <2>14, <2>15, <2>16, <2>17, <2>18 DEF Filled, R
  <2> QED BY <2>3, <2>18, <2>19
<1> HIDE DEF T
<1>4. 0..(b - a) \subseteq T
  <2>1. \A n \in 0..((b - a) - 1) : n \in T => n + 1 \in T
    BY <1>3
  <2> QED BY <1>1, <1>2, <2>1, Induction
<1> QED BY <1>4 DEF T, d

(* A list is built by the elements of a run that join it, if each of them  *)
(* is recorded as it is when it has been inserted.                         *)
LEMMA RunBuilds ==
  ASSUME NEW ops \in Seq(Ops), NEW path,
         \A k \in 1..Len(ops) : Moves(path[k - 1], ops[k], path[k]),
         NEW a \in Nat, NEW b \in 1..Len(ops), a < b, InOrder(path[a]),
         \A k \in (a + 1)..b : ops[k].kind = "ItemInserted",
         NEW g \in Ids,
         \A k \in (a + 1)..b :
           Joins(ops[k].item, g) => path[k].items[ops[k].id] = ops[k].item
  PROVE  /\ JoiningRecords(Piece(ops, a, b), g) \in Seq(Entries)
         /\ Builds(Ids, path[a].groups[g], JoiningRecords(Piece(ops, a, b), g),
                   path[b].groups[g])
PROOF
<1> DEFINE run == Piece(ops, a, b)
<1>1. /\ run \in Seq(Ops) /\ Len(run) = b - a
      /\ \A k \in 1..(b - a) : /\ run[k] = ops[a + k]
                               /\ a + k \in (a + 1)..b /\ a + k \in 1..Len(ops)
  <2>1. IsPiece(run, Ops, ops, a, b)
    BY PieceFacts
  <2> HIDE DEF run
  <2> QED BY <2>1 DEF IsPiece
<1> HIDE DEF run
<1>2. PICK t : Gathers(t, run, g)
  BY <1>1, GatherTrace
<1>3. /\ t[0] = <<>> /\ t[b - a] = JoiningRecords(run, g)
      /\ \A n \in 1..(b - a) : t[n] = IF Joins(run[n].item, g)
                                  THEN Append(t[n - 1], Entry(run[n])) ELSE t[n - 1]
  BY <1>1, <1>2 DEF Gathers
<1>4. PICK before : before = path[a].groups[g]
  OBVIOUS
<1> DEFINE T == {n \in 0..(b - a) : /\ t[n] \in Seq(Entries)
                                    /\ Builds(Ids, before, t[n], path[a + n].groups[g])}
<1>5. 0 \in T
  <2>1. before \in Seq(Ids)
    <3>1. path[a].groups \in [Ids -> Seq(Ids)]
      BY OrderTyped
    <3> QED BY <1>4, <3>1
  <2>2. Builds(Ids, before, <<>>, before)
    BY <2>1, BuildsNothing
  <2>3. a + 0 = a /\ 0 \in 0..(b - a)
    OBVIOUS
  <2>4. <<>> \in Seq(Entries)
    OBVIOUS
  <2>5. t[0] = <<>>
    BY <1>3
  <2>6. Builds(Ids, before, t[0], path[a + 0].groups[g])
    BY <1>4, <2>2, <2>3, <2>5
  <2>7. t[0] \in Seq(Entries)
    BY <2>4, <2>5
  <2> QED BY <2>3, <2>6, <2>7
<1>6. ASSUME NEW n \in 0..(b - a - 1), n \in T PROVE n + 1 \in T
  <2>1. PICK k \in (a + 1)..b : k = a + (n + 1) /\ k - 1 = a + n /\ k \in 1..Len(ops)
    <3>1. PICK N \in Nat : N = Len(ops)
      OBVIOUS
    <3>2. PICK k : k = a + (n + 1)
      OBVIOUS
    <3>3. k \in (a + 1)..b /\ k - 1 = a + n /\ k \in 1..N
      BY <3>1, <3>2
    <3> QED BY <3>1, <3>2, <3>3
  <2>2. n + 1 \in 1..(b - a) /\ (n + 1) - 1 = n /\ n + 1 \in 0..(b - a)
    OBVIOUS
  <2>3. PICK op \in Ops : op = ops[k] /\ op = run[n + 1]
    <3>1. ops[k] \in Ops
      BY <2>1
    <3>2. run[n + 1] = ops[a + (n + 1)]
      BY <1>1, <2>2
    <3> QED BY <2>1, <3>1, <3>2
  <2>4. PICK x, e, f : x = op.id /\ e = path[a + n] /\ f = path[a + (n + 1)]
    OBVIOUS
  <2>5. Gains(e, op, f) /\ op.kind = "ItemInserted"
    <3>1. Moves(path[k - 1], ops[k], path[k]) /\ ops[k].kind = "ItemInserted"
      BY <2>1
    <3> QED BY <2>1, <2>3, <2>4, <3>1 DEF Moves
  <2>6. PICK r : r = t[n] /\ r \in Seq(Entries) /\ Builds(Ids, before, r, e.groups[g])
    BY <1>6, <2>4
  <2>7. t[n + 1] = IF Joins(op.item, g) THEN Append(r, Entry(op)) ELSE r
    BY <1>3, <2>2, <2>3, <2>6
  <2>8. /\ Joins(op.item, g) =>
             /\ f.items[x].index \in 0..Len(e.groups[g])
             /\ f.groups[g] = InsertElement(e.groups[g], f.items[x].index, x)
        /\ ~Joins(op.item, g) => f.groups[g] = e.groups[g]
    <3>1. /\ Joins(op.item, g) =>
               /\ f.items[op.id].index \in 0..Len(e.groups[g])
               /\ f.groups[g] = InsertElement(e.groups[g], f.items[op.id].index, op.id)
               /\ Contains(f.groups[g], op.id)
          /\ ~Joins(op.item, g) => f.groups[g] = e.groups[g]
      BY <2>5, GainsList
    <3> QED BY <2>4, <3>1
  <2>9. CASE ~Joins(op.item, g)
    BY <2>2, <2>4, <2>6, <2>7, <2>8, <2>9
  <2>10. CASE Joins(op.item, g)
    <3>1. PICK i : i = op.item.index
      OBVIOUS
    <3>2. f.items[x].index = i
      <4>1. path[k].items[ops[k].id] = ops[k].item
        BY <2>3, <2>10
      <4> QED BY <2>1, <2>3, <2>4, <3>1, <4>1
    <3>3. x \in Ids /\ op.item \in Items /\ i \in Nat
      <4>1. op \in [kind : {"ItemInserted", "ListInserted"} \cup Removals, id : Ids, item : Items]
        BY <2>5 DEF Ops
      <4>2. x \in Ids /\ op.item \in Items
        BY <2>4, <4>1
      <4> QED BY <3>1, <4>2, ItemFacts
    <3>4. PICK y \in Entries : y = Entry(op) /\ y.id = x /\ y.index = i
      <4>1. Entry(op) = [id |-> x, index |-> i]
        BY <2>4, <3>1 DEF Entry
      <4> QED BY <3>3, <4>1 DEF Entries
    <3>5. y.id \in Ids /\ y.index \in 0..Len(e.groups[g])
      BY <2>8, <2>10, <3>2, <3>3, <3>4
    <3>6. Builds(Ids, before, Append(r, y), InsertElement(e.groups[g], y.index, y.id))
      BY <2>6, <3>5, BuildsAppend
    <3>7. Builds(Ids, before, Append(r, y), f.groups[g])
      BY <2>8, <2>10, <3>2, <3>4, <3>6
    <3>8. t[n + 1] = Append(r, y) /\ Append(r, y) \in Seq(Entries)
      BY <2>6, <2>7, <2>10, <3>4
    <3> QED BY <2>2, <2>4, <3>7, <3>8
  <2> QED BY <2>9, <2>10
<1> HIDE DEF T
<1>7. 0..(b - a) \subseteq T
  <2>1. \A n \in 0..((b - a) - 1) : n \in T => n + 1 \in T
    BY <1>6
  <2>2. b - a \in Nat
    OBVIOUS
  <2> QED BY <1>5, <2>1, <2>2, Induction
<1>8. b - a \in T /\ a + (b - a) = b
  BY <1>7
<1>9. t[b - a] \in Seq(Entries) /\ Builds(Ids, before, t[b - a], path[b].groups[g])
  BY <1>8 DEF T
<1> QED BY <1>3, <1>4, <1>9 DEF run

(* A list that was empty is listed by the elements of a run that join it,  *)
(* if they are recorded as they are in the end.                            *)
LEMMA RunLists ==
  ASSUME NEW ops \in Seq(Ops), NEW a \in Nat, NEW b \in 1..Len(ops), a < b,
         \A k \in (a + 1)..b : ops[k].kind = "ItemInserted",
         NEW d, NEW e, InOrder(d), InOrder(e), Filled(ops, a, b, d, e),
         NEW g \in Ids, d.groups[g] = <<>>,
         \A k \in (a + 1)..b : Joins(ops[k].item, g) => e.items[ops[k].id] = ops[k].item
  PROVE  /\ JoiningRecords(Piece(ops, a, b), g) \in Seq(Entries)
         /\ Lists(Ids, e.groups[g], JoiningRecords(Piece(ops, a, b), g))
PROOF
<1> DEFINE run == Piece(ops, a, b)
<1>1. PICK N \in Nat : N = b - a
  OBVIOUS
<1>2. /\ run \in Seq(Ops) /\ Len(run) = N
      /\ \A k \in 1..N : /\ run[k] = ops[a + k]
                         /\ a + k \in (a + 1)..b /\ a + k \in 1..Len(ops)
  <2>1. IsPiece(run, Ops, ops, a, b)
    BY PieceFacts
  <2> HIDE DEF run
  <2> QED BY <1>1, <2>1 DEF IsPiece
<1> HIDE DEF run
<1>3. /\ \A j, k \in (a + 1)..b : ops[j].id = ops[k].id => j = k
      /\ \A k \in (a + 1)..b : Akin(ops[k].item, e.items[ops[k].id])
      /\ \A i \in Ids \ PieceIds(ops, a, b) : Akin(d.items[i], e.items[i])
  BY DEF Filled
<1>4. ASSUME NEW k \in 1..N
      PROVE  run[k].id \in Ids /\ run[k].item \in Items /\ Entry(run[k]) \in Entries
  <2>1. run[k] \in Ops /\ run[k].kind = "ItemInserted"
    <3>1. PICK h \in (a + 1)..b : h = a + k /\ run[k] = ops[h] /\ h \in 1..Len(ops)
      BY <1>2
    <3>2. ops[h] \in Ops /\ ops[h].kind = "ItemInserted"
      BY <3>1
    <3> QED BY <3>1, <3>2
  <2>2. run[k] \in [kind : {"ItemInserted", "ListInserted"} \cup Removals, id : Ids, item : Items]
    BY <2>1 DEF Ops
  <2>3. run[k].id \in Ids /\ run[k].item \in Items
    BY <2>2
  <2>4. run[k].item.index \in Nat
    BY <2>3, ItemFacts
  <2> QED BY <2>3, <2>4 DEF Entry, Entries
<1>5. ASSUME NEW j \in 1..N, NEW k \in 1..N, run[j].id = run[k].id PROVE j = k
  <2>1. PICK l \in (a + 1)..b, m \in (a + 1)..b : l = a + j /\ m = a + k
    BY <1>2
  <2>2. ops[l].id = ops[m].id
    BY <1>2, <1>5, <2>1
  <2>3. l = m
    BY <1>3, <2>2
  <2> QED BY <2>1, <2>3
<1>6. PICK recs : recs = JoiningRecords(run, g)
  OBVIOUS
<1>7. Gathered(recs, run, g, N)
  <2>1. \A k \in 1..Len(run) : Entry(run[k]) \in Entries
    BY <1>2, <1>4
  <2>2. \A j, k \in 1..Len(run) : run[j].id = run[k].id => j = k
    BY <1>2, <1>5
  <2>3. Gathered(JoiningRecords(run, g), run, g, Len(run))
    BY <1>2, <2>1, <2>2, GatherFacts
  <2> QED BY <1>2, <1>6, <2>3
<1>8. PICK l \in Seq(Ids) : l = e.groups[g] /\ Distinct(l)
  <2>1. e.groups[g] \in Seq(Ids) /\ Distinct(e.groups[g])
    BY OrderFacts DEF InOrder
  <2> QED BY <2>1
<1>9. PICK n \in Nat : n = Len(l) /\ DOMAIN l = 1..n
  BY <1>8
<1>10. ASSUME NEW k \in 1..N, Joins(run[k].item, g)
       PROVE  /\ run[k].item = e.items[run[k].id]
              /\ run[k].item.index \in 0..(n - 1) /\ l[run[k].item.index + 1] = run[k].id
  <2>1. PICK id \in Ids \ {NoId} : id = run[k].id
    BY <1>4, ItemFacts
  <2>2. e.items[id] = run[k].item
    BY <1>2, <1>10, <2>1
  <2>3. Contains(l, id)
    BY <1>8, <1>10, <2>1, <2>2, OrderFacts DEF InOrder, Joins
  <2>4. e.items[id] = Elem(g, IndexOf(l, id)) /\ IndexOf(l, id) \in Nat
    BY <1>8, <2>3, OrderFacts DEF InOrder
  <2>5. e.items[id].index = IndexOf(l, id)
    BY <2>4, ItemFacts
  <2>6. IndexOf(l, id) \in 0..(Len(l) - 1) /\ l[IndexOf(l, id) + 1] = id
    BY <1>8, <2>3, IndexOfFacts
  <2> QED BY <1>9, <2>1, <2>2, <2>5, <2>6
<1>11. /\ recs \in Seq(Entries)
       /\ \A p \in 1..Len(recs) :
            \E k \in 1..N : Joins(run[k].item, g) /\ recs[p] = Entry(run[k])
       /\ \A k \in 1..N : Joins(run[k].item, g) =>
            \E p \in 1..Len(recs) : recs[p] = Entry(run[k])
       /\ \A p, q \in 1..Len(recs) : recs[p].id = recs[q].id => p = q
  BY <1>7 DEF Gathered
<1>12. PICK m \in Nat : m = Len(recs)
  BY <1>11
<1>13. ASSUME NEW p \in 1..m
       PROVE  recs[p].index \in 0..(n - 1) /\ l[recs[p].index + 1] = recs[p].id
  <2>1. PICK k \in 1..N : Joins(run[k].item, g) /\ recs[p] = Entry(run[k])
    BY <1>11, <1>12
  <2>2. recs[p].id = run[k].id /\ recs[p].index = run[k].item.index
    BY <2>1 DEF Entry
  <2> QED BY <1>10, <2>1, <2>2
<1>14. ASSUME NEW p \in 1..m, NEW q \in 1..m, recs[p].index = recs[q].index PROVE p = q
  <2>1. recs[p].id = recs[q].id
    BY <1>13, <1>14
  <2> QED BY <1>11, <1>12, <2>1
<1>15. ASSUME NEW k \in 1..n PROVE \E p \in 1..m : recs[p].index = k - 1
  <2>1. PICK i \in Ids : i = l[k]
    BY <1>8, <1>9
  <2>2. e.items[i] = Elem(g, k - 1)
    BY <1>8, <1>9, <2>1, OrderTyped
  <2>3. k - 1 \in Nat
    OBVIOUS
  <2>4. e.items[i].kind = "elem" /\ e.items[i].parent = g /\ e.items[i].index = k - 1
    BY <2>2, <2>3, ItemFacts
  <2>5. Participates(e.items[i])
    BY <2>2, <2>3, ItemFacts
  <2>6. i \in PieceIds(ops, a, b)
    <3> SUFFICES ASSUME i \notin PieceIds(ops, a, b) PROVE FALSE
      OBVIOUS
    <3>1. Akin(d.items[i], e.items[i])
      BY <1>3
    <3>2. Participates(d.items[i]) /\ d.items[i].parent = g
      BY <2>4, <2>5, <3>1 DEF Akin, Participates
    <3>3. i \in Ids \ {NoId}
      BY ItemFacts
    <3>4. Contains(d.groups[g], i)
      BY <3>2, <3>3, OrderFacts DEF InOrder
    <3>5. PICK q \in DOMAIN d.groups[g] : TRUE
      BY <3>4 DEF Contains
    <3> QED BY <3>5
  <2>7. PICK j \in 1..N : run[j].id = i
    <3>1. PICK h \in (a + 1)..b : ops[h].id = i
      BY <2>6 DEF PieceIds
    <3>2. PICK j \in 1..N : a + j = h
      <4>1. h - a \in 1..N /\ a + (h - a) = h
        BY <1>1
      <4> QED BY <4>1
    <3> QED BY <1>2, <3>1, <3>2
  <2>8. Joins(run[j].item, g)
    <3>1. Akin(run[j].item, e.items[i])
      BY <1>2, <1>3, <2>7
    <3> QED BY <2>4, <2>5, <3>1 DEF Akin, Participates, Joins
  <2>9. PICK p \in 1..m : recs[p] = Entry(run[j])
    BY <1>11, <1>12, <2>8
  <2>10. recs[p].index = run[j].item.index /\ run[j].item = e.items[i]
    BY <1>10, <2>7, <2>8, <2>9 DEF Entry
  <2> QED BY <2>4, <2>10
<1>16. Lists(Ids, l, recs)
  BY <1>8, <1>9, <1>12, <1>13, <1>14, <1>15 DEF Lists
<1> QED BY <1>6, <1>8, <1>11, <1>16 DEF run

(* The items of a run, put down, are those of the end but for indexes.     *)
LEMMA RunPlaced ==
  ASSUME NEW ops \in Seq(MildOps), NEW a \in Nat, NEW b \in 1..Len(ops), a < b,
         \A k \in (a + 1)..b : ops[k].kind = "ItemInserted",
         NEW d, NEW e, InOrder(d), InOrder(e), Filled(ops, a, b, d, e)
  PROVE  LET placed == Placed(d, Piece(ops, a, b))
         IN  /\ placed \in Docs /\ placed.groups = d.groups
             /\ \A i \in Ids : Plain(placed.items[i]) /\ Akin(e.items[i], placed.items[i])
             /\ \A i \in Ids \ PieceIds(ops, a, b) : placed.items[i] = d.items[i]
PROOF
<1> DEFINE run == Piece(ops, a, b)
<1> DEFINE ids == PieceIds(ops, a, b)
<1>1. /\ DOMAIN run = 1..(b - a)
      /\ \A k \in 1..(b - a) : /\ run[k] = ops[a + k]
                               /\ a + k \in (a + 1)..b /\ a + k \in 1..Len(ops)
      /\ {run[k].id : k \in DOMAIN run} = ids
  <2>1. IsPiece(run, MildOps, ops, a, b)
    BY PieceFacts
  <2> HIDE DEF run
  <2> QED BY <2>1 DEF IsPiece
<1> HIDE DEF run
<1>2. /\ \A k \in (a + 1)..b : Akin(ops[k].item, e.items[ops[k].id])
      /\ \A i \in Ids \ ids : Akin(d.items[i], e.items[i])
  BY DEF Filled
<1> HIDE DEF ids
<1> DEFINE item(i) == IF i \in ids THEN run[CHOOSE k \in DOMAIN run : run[k].id = i].item
                      ELSE d.items[i]
<1>3. ASSUME NEW i \in Ids
      PROVE  /\ item(i) \in Items /\ Plain(item(i)) /\ Akin(e.items[i], item(i))
             /\ i \notin ids => item(i) = d.items[i]
  <2>1. CASE i \in ids
    <3>1. \E k \in DOMAIN run : run[k].id = i
      BY <1>1, <2>1
    <3>2. PICK k \in DOMAIN run : k = CHOOSE j \in DOMAIN run : run[j].id = i
      BY <3>1
    <3>3. run[k].id = i /\ item(i) = run[k].item
      BY <2>1, <3>1, <3>2
    <3>4. PICK h \in (a + 1)..b : h = a + k /\ run[k] = ops[h] /\ h \in 1..Len(ops)
      BY <1>1
    <3>5. PICK op \in MildOps : op = ops[h] /\ op.kind = "ItemInserted"
      BY <3>4
    <3>6. op.item \in Items /\ Plain(op.item)
      <4>1. op \in Ops /\ Mild(op)
        BY DEF MildOps
      <4>2. op \in [kind : {"ItemInserted", "ListInserted"} \cup Removals, id : Ids, item : Items]
        BY <3>5, <4>1 DEF Ops
      <4> QED BY <3>5, <4>1, <4>2 DEF Mild, Insertions
    <3>7. Akin(op.item, e.items[i])
      BY <1>2, <3>3, <3>4, <3>5
    <3> QED BY <2>1, <3>3, <3>4, <3>5, <3>6, <3>7 DEF Akin
  <2>2. CASE i \notin ids
    <3>1. item(i) = d.items[i] /\ Akin(d.items[i], e.items[i])
      BY <1>2, <2>2
    <3>2. d.items[i] \in Items /\ Plain(d.items[i])
      BY OrderTyped
    <3> QED BY <3>1, <3>2 DEF Akin
  <2> QED BY <2>1, <2>2
<1>4. PICK f : f = [i \in Ids |-> item(i)]
  OBVIOUS
<1>5. Placed(d, run) = [d EXCEPT !.items = f]
  <2>1. f = [i \in Ids |-> IF i \in {run[k].id : k \in DOMAIN run}
               THEN run[CHOOSE k \in DOMAIN run : run[k].id = i].item ELSE d.items[i]]
    BY <1>1, <1>4
  <2> HIDE DEF item
  <2> QED BY <2>1 DEF Placed
<1> HIDE DEF item
<1>6. f \in [Ids -> Items] /\ \A i \in Ids : f[i] = item(i)
  BY <1>3, <1>4
<1>7. d \in Docs /\ d.groups \in [Ids -> Seq(Ids)]
  BY OrderTyped
<1>8. PICK placed : placed = Placed(d, run)
  OBVIOUS
<1>9. placed = [items |-> f, groups |-> d.groups]
  BY <1>5, <1>7, <1>8, FieldFacts
<1>10. placed \in Docs
  BY <1>6, <1>7, <1>9, DocFacts
<1>11. placed.groups = d.groups /\ \A i \in Ids : placed.items[i] = item(i)
  BY <1>6, <1>9
<1>12. /\ \A i \in Ids : Plain(placed.items[i]) /\ Akin(e.items[i], placed.items[i])
       /\ \A i \in Ids \ ids : placed.items[i] = d.items[i]
  BY <1>3, <1>11
<1> QED BY <1>8, <1>10, <1>11, <1>12 DEF run, ids

(* What a run joins, and what it is planned to make of the lists           *)
PlansFor(run, d, e) ==
  \A g \in JoinedBy(run) : /\ g \in Ids
                           /\ Plannable(d.groups[g], JoiningRecords(run, g))
                           /\ PlanGroup(d.groups[g], JoiningRecords(run, g)) = e.groups[g]

(* If the lists are planned as they are to be, the run makes e.            *)
LEMMA RunMakes ==
  ASSUME NEW ops \in Seq(MildOps), NEW a \in Nat, NEW b \in 1..Len(ops), a < b,
         \A k \in (a + 1)..b : ops[k].kind = "ItemInserted",
         NEW d, NEW e, InOrder(d), InOrder(e), Rooted(e), Filled(ops, a, b, d, e),
         PlansFor(Piece(ops, a, b), d, e)
  PROVE  InsertItemSnapshots(d, Piece(ops, a, b)) = Done(e)
PROOF
<1> DEFINE ids == PieceIds(ops, a, b)
<1>1. PICK run : run = Piece(ops, a, b)
  OBVIOUS
<1>2. /\ Len(run) = b - a /\ DOMAIN run = 1..(b - a)
      /\ \A k \in 1..(b - a) : /\ run[k] = ops[a + k]
                               /\ a + k \in (a + 1)..b /\ a + k \in 1..Len(ops)
      /\ {run[k].id : k \in DOMAIN run} = ids
  <2>1. IsPiece(run, MildOps, ops, a, b)
    BY <1>1, PieceFacts
  <2> QED BY <2>1 DEF IsPiece
<1>3. /\ ids \subseteq Ids /\ Cardinality(ids) = b - a
      /\ \A i \in ids : d.items[i] = Absent
      /\ \A k \in (a + 1)..b : Akin(ops[k].item, e.items[ops[k].id])
      /\ \A g \in Ids : (\A k \in (a + 1)..b : ~Joins(ops[k].item, g)) => e.groups[g] = d.groups[g]
  BY DEF Filled
<1>4. PICK placed : placed = Placed(d, run)
  OBVIOUS
<1>5. /\ placed \in Docs /\ placed.groups = d.groups
      /\ \A i \in Ids : Plain(placed.items[i]) /\ Akin(e.items[i], placed.items[i])
      /\ \A i \in Ids \ ids : placed.items[i] = d.items[i]
  BY <1>1, <1>4, RunPlaced
<1>6. \A i \in ids : \E k \in (a + 1)..b : i = ops[k].id
  BY DEF PieceIds
<1> HIDE DEF ids
<1>7. e \in Docs /\ e.groups \in [Ids -> Seq(Ids)]
      /\ \A i \in Ids : i \in Ids \ {NoId} /\ e.items[i] \in Items /\ Plain(e.items[i])
  BY OrderTyped
<1>8. ASSUME NEW i \in ids
      PROVE  ~Present(d, i) /\ ValidParent(placed, i, placed.items[i])
  <2>1. i \in Ids /\ d.items[i] = Absent
    BY <1>3
  <2>2. AkinBut(e, placed, i)
    BY <1>5 DEF AkinBut
  <2>3. ValidParent(placed, i, e.items[i])
    BY <1>5, <1>7, <2>1, <2>2, BackValid
  <2>4. PICK s, t : s = e.items[i] /\ t = placed.items[i]
    OBVIOUS
  <2>5. s.kind = t.kind /\ s.parent = t.parent
    BY <1>5, <2>1, <2>4 DEF Akin
  <2>6. ValidParent(placed, i, t)
    BY <2>3, <2>4, <2>5 DEF ValidParent
  <2> QED BY <2>1, <2>4, <2>6 DEF Present
<1>9. /\ \A k \in 1..(b - a), g \in Ids : Joins(run[k].item, g) => g \in JoinedBy(run)
      /\ JoinedBy(run) \subseteq Ids
  <2>1. \A k \in 1..(b - a), g \in Ids : Joins(run[k].item, g) => g \in JoinedBy(run)
    BY <1>2 DEF JoinedBy, Joins
  <2>2. JoinedBy(run) \subseteq Ids
    BY <1>1 DEF PlansFor
  <2> QED BY <2>1, <2>2
<1>10. PICK left \in SUBSET Ids : left = JoinedBy(run)
  BY <1>9
<1>11. ASSUME NEW g \in Ids, g \notin left PROVE e.groups[g] = d.groups[g]
  <2>1. ASSUME NEW k \in (a + 1)..b PROVE ~Joins(ops[k].item, g)
    <3>1. PICK j \in 1..(b - a) : a + j = k
      <4>1. k - a \in 1..(b - a) /\ a + (k - a) = k
        OBVIOUS
      <4> QED BY <4>1
    <3>2. run[j] = ops[k]
      BY <1>2, <3>1
    <3> QED BY <1>9, <1>10, <1>11, <3>2
  <2> QED BY <1>3, <2>1
<1>12. PICK t : t = Planned(d, run)
  OBVIOUS
<1>13. t = [items |-> placed.items, groups |-> e.groups]
  <2>1. PICK groups : groups = [g \in Ids |->
     IF g \in left THEN PlanGroup(placed.groups[g], JoiningRecords(run, g)) ELSE placed.groups[g]]
    OBVIOUS
  <2>2. t = [placed EXCEPT !.groups = groups]
    BY <1>4, <1>10, <1>12, <2>1 DEF Planned
  <2>3. ASSUME NEW g \in Ids PROVE groups[g] = e.groups[g]
    <3>1. CASE g \in left
      <4>1. PlanGroup(d.groups[g], JoiningRecords(run, g)) = e.groups[g]
        BY <1>1, <1>10, <3>1 DEF PlansFor
      <4> QED BY <1>5, <2>1, <3>1, <4>1
    <3>2. CASE g \notin left
      BY <1>5, <1>11, <2>1, <3>2
    <3> QED BY <3>1, <3>2
  <2>4. groups = e.groups
    BY <1>7, <2>1, <2>3
  <2> QED BY <1>5, <2>2, <2>4, FieldFacts
<1>14. t.items = placed.items /\ t.groups = e.groups /\ t \in Docs
  <2>1. placed.items \in [Ids -> Items]
    BY <1>5, DocFacts
  <2> QED BY <1>7, <1>13, <2>1, DocFacts
<1>15. ASSUME NEW i \in Ids PROVE placed.items[i] = e.items[i] \/ JoinsOne(e.items[i], left)
  <2>1. placed.items[i] \in Items /\ Plain(placed.items[i]) /\ Akin(e.items[i], placed.items[i])
    BY <1>5, DocFacts
  <2>2. CASE ~Participates(e.items[i])
    BY <1>7, <2>1, <2>2, SameItem
  <2>3. CASE Participates(e.items[i])
    <3>1. PICK g \in Ids : g = e.items[i].parent
      BY <1>7, <2>3, ItemFacts
    <3>2. Joins(e.items[i], g)
      BY <2>3, <3>1 DEF Joins
    <3>3. CASE g \in left
      BY <3>2, <3>3 DEF JoinsOne
    <3>4. CASE g \notin left
      <4>1. i \notin ids
        <5> SUFFICES ASSUME i \in ids PROVE FALSE
          OBVIOUS
        <5>1. PICK k \in (a + 1)..b : i = ops[k].id
          BY <1>6
        <5>2. Joins(ops[k].item, g)
          <6>1. Akin(ops[k].item, e.items[i])
            BY <1>3, <5>1
          <6> QED BY <3>2, <6>1 DEF Akin, Joins, Participates
        <5>3. PICK j \in 1..(b - a) : a + j = k
          <6>1. k - a \in 1..(b - a) /\ a + (k - a) = k
            OBVIOUS
          <6> QED BY <6>1
        <5> QED BY <1>2, <1>9, <1>10, <3>4, <5>2, <5>3
      <4>2. placed.items[i] = d.items[i] /\ e.groups[g] = d.groups[g]
        BY <1>5, <1>11, <3>4, <4>1
      <4>3. Joins(d.items[i], g)
        BY <2>1, <3>2, <4>2 DEF Akin, Joins, Participates
      <4>4. e.items[i] = Elem(g, IndexOf(e.groups[g], i))
        BY <1>7, <3>2, OrderFacts DEF InOrder, Joins
      <4>5. d.items[i] = Elem(g, IndexOf(d.groups[g], i))
        BY <1>7, <4>3, OrderFacts DEF InOrder, Joins
      <4> QED BY <4>2, <4>4, <4>5
    <3> QED BY <3>3, <3>4
  <2> QED BY <2>2, <2>3
<1>16. NumberedBut(t, e, left)
  BY <1>5, <1>14, <1>15 DEF NumberedBut
<1>17. Folded("renumber", t, SetToSeq(left)) = e
  BY <1>16, RenumberedAll
<1>18. \A g \in JoinedBy(run) : Plannable(d.groups[g], JoiningRecords(run, g))
  BY <1>1 DEF PlansFor
<1>19. InsertItemSnapshots(d, run) = Done(Folded("renumber", Planned(d, run), SetToSeq(JoinedBy(run))))
  BY <1>2, <1>3, <1>4, <1>8, <1>18, RunInserted
<1> QED BY <1>1, <1>10, <1>12, <1>17, <1>19

(* A run of insertions, made at once, makes the document that they make    *)
(* one after the other.                                                    *)
LEMMA InsertionsTogether ==
  ASSUME NEW ops \in Seq(MildOps), NEW path, NEW G \in SUBSET Ids, NEW m,
         Along(ops, path, G, m),
         NEW a \in Nat, NEW b \in 1..Len(ops), a < b, Breaks(ops, a), Breaks(ops, b),
         \A k \in (a + 1)..b : ops[k].kind = "ItemInserted"
  PROVE  InsertItemSnapshots(path[a], Piece(ops, a, b)) = Done(path[b])
PROOF
<1> DEFINE run == Piece(ops, a, b)
<1>1. PICK d, e : d = path[a] /\ e = path[b]
  OBVIOUS
<1>2. PICK N \in Nat : N = Len(ops) /\ b \in 1..N /\ a \in 0..N /\ m \in 0..N
  BY DEF Along
<1>3. ops \in Seq(Ops)
  BY DEF MildOps
<1>4. /\ Ordered(ops, path)
      /\ \A n \in 1..N : Moves(path[n - 1], ops[n], path[n])
      /\ \A n \in 1..N : n > m => ops[n].kind = "ItemInserted"
      /\ \A g \in G : \A n \in 0..m : path[n].groups[g] = <<>>
      /\ \A n \in 1..N : ops[n].kind = "ItemInserted" =>
           path[IF n > m /\ JoinsOne(ops[n].item, G) THEN N ELSE n].items[ops[n].id]
             = ops[n].item
  BY <1>2 DEF Along
<1>5. \A n \in 0..N : InOrder(path[n])
  BY <1>2, <1>4 DEF Ordered
<1>6. Sound(e)
  <2>1. b \in 0..Len(ops)
    BY <1>2
  <2> QED BY <1>1, <1>3, <1>4, <2>1, BreakSound
<1>7. InOrder(d) /\ InOrder(e) /\ Rooted(e)
  BY <1>1, <1>2, <1>5, <1>6 DEF Sound
<1>8. Filled(ops, a, b, d, e)
  <2>1. \A n \in 0..(b - a) : Filled(ops, a, a + n, path[a], path[a + n])
    BY <1>1, <1>2, <1>3, <1>4, <1>7, RunFills
  <2>2. b - a \in 0..(b - a) /\ a + (b - a) = b
    BY <1>2
  <2> QED BY <1>1, <2>1, <2>2
<1>9. a <= m
  <2> SUFFICES ASSUME a > m PROVE FALSE
    BY <1>2
  <2>1. a \in 1..N /\ a + 1 \in 1..N /\ a + 1 > m /\ a # 0 /\ a # Len(ops)
    BY <1>2
  <2>2. ops[a].kind = "ItemInserted" /\ ops[a + 1].kind = "ItemInserted"
    BY <1>4, <2>1
  <2> QED BY <2>1, <2>2 DEF Breaks, SameRun
<1>10. b > m => b = N
  <2> SUFFICES ASSUME b > m, b # N PROVE FALSE
    OBVIOUS
  <2>1. b \in 1..N /\ b + 1 \in 1..N /\ b + 1 > m /\ b # 0 /\ b # Len(ops)
    BY <1>2
  <2>2. ops[b].kind = "ItemInserted" /\ ops[b + 1].kind = "ItemInserted"
    BY <1>4, <2>1
  <2> QED BY <2>1, <2>2 DEF Breaks, SameRun
<1>11. ASSUME NEW k \in (a + 1)..b, NEW g \in Ids, Joins(ops[k].item, g), g \in G
       PROVE  path[b].items[ops[k].id] = ops[k].item
  <2>1. k \in 1..N
    BY <1>2
  <2>2. k > m
    <3> SUFFICES ASSUME k <= m PROVE FALSE
      BY <1>2, <2>1
    <3>1. Gains(path[k - 1], ops[k], path[k])
      BY <1>4, <2>1 DEF Moves
    <3>2. Contains(path[k].groups[g], ops[k].id)
      BY <1>11, <3>1, GainsList
    <3>3. k \in 0..m
      BY <1>2, <2>1
    <3>4. path[k].groups[g] = <<>>
      BY <1>4, <1>11, <3>3
    <3> QED BY <3>2, <3>4 DEF Contains
  <2>3. JoinsOne(ops[k].item, G)
    BY <1>11 DEF JoinsOne
  <2>4. b = N
    BY <1>2, <1>10, <2>1, <2>2
  <2>5. ops[k].kind = "ItemInserted"
    OBVIOUS
  <2> QED BY <1>4, <2>1, <2>2, <2>3, <2>4, <2>5
<1>12. ASSUME NEW k \in (a + 1)..b, NEW g \in Ids, Joins(ops[k].item, g), g \notin G
       PROVE  path[k].items[ops[k].id] = ops[k].item
  <2>1. k \in 1..N /\ ops[k].kind = "ItemInserted"
    BY <1>2
  <2>2. ~JoinsOne(ops[k].item, G)
    BY <1>12 DEF Joins, JoinsOne
  <2> QED BY <1>4, <2>1, <2>2
<1>13. ASSUME NEW g \in Ids, g \in G
       PROVE  /\ Plannable(d.groups[g], JoiningRecords(run, g))
              /\ PlanGroup(d.groups[g], JoiningRecords(run, g)) = e.groups[g]
  <2>1. d.groups[g] = <<>>
    <3>1. a \in 0..m
      BY <1>2, <1>9
    <3> QED BY <1>1, <1>4, <1>13, <3>1
  <2>2. \A k \in (a + 1)..b : Joins(ops[k].item, g) => e.items[ops[k].id] = ops[k].item
    BY <1>1, <1>11, <1>13
  <2>3. /\ JoiningRecords(run, g) \in Seq(Entries)
        /\ Lists(Ids, e.groups[g], JoiningRecords(run, g))
    BY <1>3, <1>7, <1>8, <2>1, <2>2, RunLists
  <2> HIDE DEF run
  <2>4. /\ Plannable(<<>>, JoiningRecords(run, g))
        /\ PlanGroup(<<>>, JoiningRecords(run, g)) = e.groups[g]
    BY <2>3, PlanListed
  <2> QED BY <2>1, <2>4
<1>14. ASSUME NEW g \in Ids, g \notin G
       PROVE  /\ Plannable(d.groups[g], JoiningRecords(run, g))
              /\ PlanGroup(d.groups[g], JoiningRecords(run, g)) = e.groups[g]
  <2>1. /\ JoiningRecords(run, g) \in Seq(Entries)
        /\ Builds(Ids, path[a].groups[g], JoiningRecords(run, g), path[b].groups[g])
    <3>1. \A k \in (a + 1)..b :
            Joins(ops[k].item, g) => path[k].items[ops[k].id] = ops[k].item
      BY <1>12, <1>14
    <3>2. InOrder(path[a]) /\ \A n \in 1..Len(ops) : Moves(path[n - 1], ops[n], path[n])
      BY <1>1, <1>2, <1>4, <1>7
    <3> QED BY <1>3, <3>1, <3>2, RunBuilds
  <2> HIDE DEF run
  <2>2. Builds(Ids, d.groups[g], JoiningRecords(run, g), e.groups[g])
    BY <1>1, <2>1
  <2> QED BY <2>1, <2>2, PlanBuilt
<1>15. /\ DOMAIN run = 1..(b - a)
       /\ \A j \in 1..(b - a) : /\ run[j] = ops[a + j]
                                /\ a + j \in (a + 1)..b /\ a + j \in 1..Len(ops)
  <2>1. IsPiece(run, MildOps, ops, a, b)
    BY PieceFacts
  <2> HIDE DEF run
  <2> QED BY <2>1 DEF IsPiece
<1>16. PlansFor(run, d, e)
  <2> HIDE DEF run
  <2>1. ASSUME NEW g \in JoinedBy(run) PROVE g \in Ids
    <3>1. PICK k \in DOMAIN run : Participates(run[k].item) /\ g = run[k].item.parent
      BY DEF JoinedBy
    <3>2. run[k] = ops[a + k] /\ a + k \in (a + 1)..b /\ a + k \in 1..Len(ops)
      BY <1>15
    <3>3. PICK op \in Ops : op = run[k] /\ op.kind = "ItemInserted"
      <4>1. ops[a + k] \in Ops /\ ops[a + k].kind = "ItemInserted"
        BY <1>3, <3>2
      <4> QED BY <3>2, <4>1
    <3>4. op \in [kind : {"ItemInserted", "ListInserted"} \cup Removals, id : Ids, item : Items]
      BY <3>3 DEF Ops
    <3>5. op.item \in Items
      BY <3>4
    <3> QED BY <3>1, <3>3, <3>5, ItemFacts
  <2> QED BY <1>13, <1>14, <2>1 DEF PlansFor
<1>17. InsertItemSnapshots(d, run) = Done(e)
  BY <1>7, <1>8, <1>16, RunMakes
<1> QED BY <1>1, <1>17

(* An operation that makes a run of its own                                *)
LEMMA OperationLeads ==
  ASSUME NEW ops \in Seq(MildOps), NEW path, NEW G \in SUBSET Ids, NEW m,
         Along(ops, path, G, m),
         NEW a \in Nat, NEW b \in 1..Len(ops), b = a + 1, Breaks(ops, b)
  PROVE  ApplyOperation(path[a], ops[b]) = Done(path[b])
PROOF
<1>1. PICK N \in Nat : N = Len(ops) /\ b \in 1..N /\ b - 1 = a
  OBVIOUS
<1>2. PICK d, e : d = path[a] /\ e = path[b]
  OBVIOUS
<1>3. PICK op \in Ops : op = ops[b] /\ op.kind \in OperationKinds
  <2>1. ops[b] \in Ops
    BY DEF MildOps
  <2>2. ops[b].kind \in OperationKinds
    BY <2>1, OpFacts
  <2> QED BY <2>1, <2>2
<1>4. Moves(d, op, e)
  BY <1>1, <1>2, <1>3 DEF Along
<1>5. CASE op.kind = "ItemInserted"
  <2>1. Gains(d, op, e)
    BY <1>4, <1>5 DEF Moves
  <2>2. Sound(e)
    <3>1. ops \in Seq(Ops) /\ b \in 0..Len(ops)
      BY DEF MildOps
    <3>2. Ordered(ops, path)
      BY DEF Along
    <3> QED BY <1>2, <3>1, <3>2, BreakSound
  <2>3. path[IF b > m /\ JoinsOne(op.item, G) THEN N ELSE b].items[op.id] = op.item
    BY <1>1, <1>3, <1>5 DEF Along
  <2>4. b > m => b = N
    <3> SUFFICES ASSUME b > m, b # N PROVE FALSE
      OBVIOUS
    <3>1. b + 1 \in 1..N /\ b + 1 > m /\ b # 0 /\ b # Len(ops)
      BY <1>1 DEF Along
    <3>2. ops[b].kind = "ItemInserted" /\ ops[b + 1].kind = "ItemInserted"
      BY <1>1, <1>3, <1>5, <3>1 DEF Along
    <3> QED BY <3>1, <3>2 DEF Breaks, SameRun
  <2>5. e.items[op.id] = op.item
    BY <1>2, <2>3, <2>4
  <2>6. InsertSnapshot(d, op.id, op.item) = Done(e)
    BY <2>1, <2>2, <2>5, PutAlone DEF Sound
  <2>7. ApplyOperation(d, op) = InsertSnapshot(d, op.id, op.item)
    BY <1>5 DEF ApplyOperation, Removals
  <2> QED BY <1>2, <1>3, <2>6, <2>7
<1>6. CASE op.kind \in Erasures
  <2>1. Gains(e, op, d)
    BY <1>4, <1>6 DEF Moves, Erasures
  <2>2. EraseSnapshot(d, op.id, op.item) = e
    BY <2>1, TakenAlone
  <2>3. ApplyOperation(d, op) = Done(EraseSnapshot(d, op.id, op.item))
    BY <1>6 DEF ApplyOperation, Erasures, Removals
  <2> QED BY <1>2, <1>3, <2>2, <2>3
<1>7. CASE op.kind \notin Erasures /\ op.kind # "ItemInserted"
  BY <1>2, <1>3, <1>4, <1>7 DEF Moves, Leads
<1> QED BY <1>5, <1>6, <1>7

(* A run takes applyChangeSet from one document of the path to another.    *)
LEMMA RunLeads ==
  ASSUME NEW ops \in Seq(MildOps), NEW path, NEW G \in SUBSET Ids, NEW m,
         Along(ops, path, G, m),
         NEW a \in Nat, NEW b \in 1..Len(ops), a < b, Alike(ops, a, b),
         Breaks(ops, a), Breaks(ops, b)
  PROVE  ApplyRun(Applying(path[a]), Piece(ops, a, b)) = Applying(path[b])
PROOF
<1> DEFINE run == Piece(ops, a, b)
<1>1. ops \in Seq(Ops)
  BY DEF MildOps
<1>2. /\ Len(run) = b - a /\ DOMAIN run = 1..(b - a)
      /\ \A k \in 1..(b - a) : run[k] = ops[a + k] /\ a + k \in (a + 1)..b
      /\ {run[k].id : k \in DOMAIN run} = PieceIds(ops, a, b)
  <2>1. IsPiece(run, MildOps, ops, a, b)
    BY PieceFacts
  <2> HIDE DEF run
  <2> QED BY <2>1 DEF IsPiece
<1>3. b = a + 1 => run = <<ops[b]>>
  BY PieceEnds
<1> HIDE DEF run
<1>4. PICK d, e : d = path[a] /\ e = path[b]
  OBVIOUS
<1>5. Applying(d).ok = TRUE /\ Applying(d).doc = d /\ [Applying(d) EXCEPT !.doc = e] = Applying(e)
  <2>1. PICK t, p : t = TRUE /\ p = <<>>
    OBVIOUS
  <2>2. Applying(d) = [ok |-> t, doc |-> d, pending |-> p]
    BY <2>1 DEF Applying
  <2>3. Applying(e) = [ok |-> t, doc |-> e, pending |-> p]
    BY <2>1 DEF Applying
  <2>4. [[ok |-> t, doc |-> d, pending |-> p] EXCEPT !.doc = e]
          = [ok |-> t, doc |-> e, pending |-> p]
    OBVIOUS
  <2>5. [Applying(d) EXCEPT !.doc = e] = Applying(e)
    BY <2>2, <2>3, <2>4, Zenon
  <2>6. Applying(d).ok = TRUE /\ Applying(d).doc = d
    BY DEF Applying
  <2> QED BY <2>5, <2>6
<1>6. CASE b = a + 1
  <2>1. ApplyOperation(d, ops[b]) = Done(e)
    BY <1>4, <1>6, OperationLeads
  <2>2. ApplyRun(Applying(d), <<ops[b]>>) = Applying(e)
    BY <2>1, ApplyingFacts
  <2> QED BY <1>4, <1>6, <1>3, <2>2 DEF run
<1>7. ASSUME b # a + 1 PROVE Len(run) > 1 /\ run[1] = ops[a + 1] /\ a + 1 \in (a + 1)..b
  <2>1. 1 \in 1..(b - a) /\ b - a > 1
    BY <1>7
  <2> QED BY <1>2, <2>1
<1>8. CASE b # a + 1 /\ \A k \in (a + 1)..b : ops[k].kind \in Removals
  <2>1. EraseSnapshots(d, PieceIds(ops, a, b)) = e
    <3>1. EraseSnapshots(path[a], PieceIds(ops, a, b)) = path[b]
      BY <1>1, <1>8, RemovalsTogether
    <3> QED BY <1>4, <3>1
  <2>2. Len(run) > 1 /\ run[1].kind \in Removals
    BY <1>7, <1>8
  <2>3. ApplyRun(Applying(d), run)
          = [Applying(d) EXCEPT !.doc = EraseSnapshots(@, {run[k].id : k \in DOMAIN run})]
    BY <1>5, <2>2 DEF ApplyRun
  <2>4. ApplyRun(Applying(d), run) = [Applying(d) EXCEPT !.doc = e]
    BY <1>2, <1>5, <2>1, <2>3
  <2> QED BY <1>4, <1>5, <2>4 DEF run
<1>9. CASE b # a + 1 /\ \A k \in (a + 1)..b : ops[k].kind = "ItemInserted"
  <2>1. InsertItemSnapshots(d, run) = Done(e)
    <3>1. InsertItemSnapshots(path[a], Piece(ops, a, b)) = Done(path[b])
      BY <1>9, InsertionsTogether
    <3> QED BY <1>4, <3>1 DEF run
  <2>2. Len(run) > 1 /\ run[1].kind \notin Removals
    BY <1>7, <1>9 DEF Removals
  <2>3. ApplyRun(Applying(d), run) = InsertRun(InsertItemSnapshots(d, run), Applying(d), run)
    BY <1>5, <2>2 DEF ApplyRun
  <2>4. InsertRun(Done(e), Applying(d), run) = [Applying(d) EXCEPT !.doc = e]
    BY OutcomeFacts DEF InsertRun
  <2> QED BY <1>4, <1>5, <2>1, <2>3, <2>4 DEF run
<1> QED BY <1>6, <1>8, <1>9 DEF Alike

(* A fold over nothing                                                     *)
LEMMA FoldNothing ==
  ASSUME NEW fold, NEW init
  PROVE  Folded(fold, init, <<>>) = init
PROOF
<1>1. 0 \in Nat /\ DOMAIN <<>> = 1..0
  OBVIOUS
<1>2. PICK trace : trace[0] = init /\ Folded(fold, init, <<>>) = trace[0]
  <2>1. \E trace : /\ Traces(fold, 0, <<>>, trace) /\ trace[0] = init
                   /\ Folded(fold, init, <<>>) = trace[0]
    <3>1. HasTrace(fold, 0, <<>>, init)
      BY <1>1, FoldTrace
    <3> QED BY <3>1 DEF HasTrace
  <2> QED BY <2>1
<1> QED BY <1>2

(* runs are the runs of the first n operations: the last of them is a      *)
(* piece, and applyChangeSet has come to where it begins.                  *)
RunsUpTo(ops, path, n, runs) ==
  \E a \in Nat : \E earlier \in Seq(Seq(MildOps)) :
    /\ a < n
    /\ runs = Append(earlier, Piece(ops, a, n))
    /\ Folded("run", Applying(path[0]), earlier) = Applying(path[a])
    /\ Alike(ops, a, n) /\ Breaks(ops, a)

(* A change set leads applyChangeSet, run by run, where its operations     *)
(* lead one by one.                                                        *)
LEMMA InRuns ==
  ASSUME NEW ops \in Seq(MildOps), NEW path, NEW G \in SUBSET Ids, NEW m,
         Along(ops, path, G, m)
  PROVE  ApplyChangeSet(path[0], ops) = Done(path[Len(ops)])
PROOF
<1>1. PICK N \in Nat : N = Len(ops) /\ DOMAIN ops = 1..N /\ \A k \in 1..N : ops[k] \in MildOps
  OBVIOUS
<1> DEFINE start == Applying(path[0])
<1> DEFINE end == Applying(path[N])
<1>2. PICK r : /\ \A n \in 1..N : r[n] = Extended(r[n - 1], ops[n])
               /\ r[0] = <<>> /\ Runs(ops) = r[N]
  <2>1. PICK r : Traces("extend", N, ops, r) /\ r[0] = <<>> /\ Folded("extend", <<>>, ops) = r[N]
    <3>1. HasTrace("extend", N, ops, <<>>)
      BY <1>1, FoldTrace
    <3> QED BY <3>1 DEF HasTrace
  <2>2. \A n \in 1..N : Act("extend", r[n - 1], ops[n]) = Extended(r[n - 1], ops[n])
    BY DEF Act
  <2>3. Runs(ops) = Folded("extend", <<>>, ops)
    BY FoldForms
  <2> QED BY <2>1, <2>2, <2>3 DEF Traces
<1> DEFINE T == {n \in 0..N : n = 0 \/ RunsUpTo(ops, path, n, r[n])}
<1> HIDE DEF start, end
<1>3. ASSUME NEW n \in 0..(N - 1), n \in T PROVE n + 1 \in T
  <2>1. n + 1 \in 1..N /\ (n + 1) - 1 = n /\ n + 1 \in 0..N /\ n \in Nat /\ n + 1 = n + 1
    OBVIOUS
  <2>2. PICK op \in MildOps : op = ops[n + 1] /\ r[n + 1] = Extended(r[n], op)
    BY <1>1, <1>2, <2>1
  <2>3. Piece(ops, n, n + 1) = <<op>> /\ Alike(ops, n, n + 1)
    <3>1. n < n + 1 /\ n + 1 \in 1..Len(ops)
      BY <1>1, <2>1
    <3>2. Piece(ops, n, n + 1) = <<ops[n + 1]>>
      BY <3>1, PieceEnds
    <3> QED BY <2>2, <3>2 DEF Alike
  <2>4. CASE n = 0
    <3>1. r[n + 1] = Append(<<>>, Piece(ops, n, n + 1))
      BY <1>2, <2>2, <2>3, <2>4 DEF Extended
    <3>2. Folded("run", Applying(path[0]), <<>>) = Applying(path[n])
      BY <2>4, FoldNothing
    <3>3. <<>> \in Seq(Seq(MildOps)) /\ n < n + 1
      OBVIOUS
    <3>4. RunsUpTo(ops, path, n + 1, r[n + 1])
      <4>1. Breaks(ops, n)
        BY <2>4 DEF Breaks
      <4> QED BY <2>1, <2>3, <3>1, <3>2, <3>3, <4>1 DEF RunsUpTo
    <3> QED BY <2>1, <3>4
  <2>5. CASE n # 0
    <3>1. PICK a \in Nat : \E earlier \in Seq(Seq(MildOps)) :
            /\ a < n
            /\ r[n] = Append(earlier, Piece(ops, a, n))
            /\ Folded("run", Applying(path[0]), earlier) = Applying(path[a])
            /\ Alike(ops, a, n) /\ Breaks(ops, a)
      BY <1>3, <2>5 DEF RunsUpTo
    <3>2. PICK earlier \in Seq(Seq(MildOps)) :
            /\ a < n
            /\ r[n] = Append(earlier, Piece(ops, a, n))
            /\ Folded("run", Applying(path[0]), earlier) = Applying(path[a])
            /\ Alike(ops, a, n) /\ Breaks(ops, a)
      BY <3>1
    <3>3. PICK run : run = Piece(ops, a, n)
      OBVIOUS
    <3>4. n \in 1..Len(ops) /\ n < Len(ops)
      BY <1>1, <2>5
    <3>5. /\ run \in Seq(MildOps) /\ Last(run) = ops[n]
          /\ Append(run, op) = Piece(ops, a, n + 1)
      <4>1. a < n
        BY <3>2
      <4>2. Piece(ops, a, n) \in Seq(MildOps)
        BY <3>4, <4>1, PieceFacts DEF IsPiece
      <4>3. /\ Last(Piece(ops, a, n)) = ops[n]
            /\ Append(Piece(ops, a, n), ops[n + 1]) = Piece(ops, a, n + 1)
        BY <3>4, <4>1, PieceEnds
      <4>4. op = ops[n + 1]
        BY <2>2
      <4> QED BY <3>3, <4>2, <4>3, <4>4
    <3>6. /\ r[n] # <<>> /\ Last(r[n]) = run /\ Front(r[n]) = earlier
          /\ r[n] = Append(earlier, run) /\ r[n] \in Seq(Seq(MildOps))
      <4>1. PICK runs : runs = Append(earlier, run)
        OBVIOUS
      <4>2. PICK size \in Nat : size = Len(earlier)
        OBVIOUS
      <4>3. /\ runs \in Seq(Seq(MildOps)) /\ Len(runs) = size + 1 /\ runs[size + 1] = run
            /\ \A k \in 1..size : runs[k] = earlier[k]
        BY <3>5, <4>1, <4>2
      <4>4. runs # <<>> /\ Last(runs) = run
        BY <4>3 DEF Last
      <4>5. /\ Front(runs) \in Seq(Seq(MildOps)) /\ Len(Front(runs)) = size
            /\ \A k \in 1..size : Front(runs)[k] = runs[k]
        <5>1. /\ Front(runs) \in Seq(Seq(MildOps)) /\ Len(Front(runs)) = Len(runs) - 1
              /\ \A k \in 1..(Len(runs) - 1) : Front(runs)[k] = runs[k]
          BY <4>3, <4>4, FrontFacts
        <5>2. Len(runs) - 1 = size
          BY <4>3
        <5> QED BY <5>1, <5>2
      <4>6. Front(runs) = earlier
        BY <4>2, <4>3, <4>5, SeqEqual
      <4> QED BY <3>2, <3>3, <4>1, <4>3, <4>4, <4>6
    <3>7. CASE SameRun(ops[n], op)
      <4>1. r[n + 1] = Append(earlier, Piece(ops, a, n + 1))
        BY <2>2, <3>5, <3>6, <3>7 DEF Extended
      <4>2. Alike(ops, a, n + 1)
        <5>1. /\ \A k \in (a + 1)..(n + 1) : k = n + 1 \/ k \in (a + 1)..n
              /\ n \in (a + 1)..n
              /\ n = a + 1 => \A k \in (a + 1)..n : k = n
          BY <3>2
        <5>2. CASE ops[n].kind = "ItemInserted" /\ op.kind = "ItemInserted"
          <6>1. ops[n].kind \notin Removals
            BY <5>2 DEF Removals
          <6>2. \A k \in (a + 1)..n : ops[k].kind = "ItemInserted"
            BY <3>2, <5>1, <5>2, <6>1 DEF Alike
          <6> QED BY <2>2, <5>1, <5>2, <6>2 DEF Alike
        <5>3. CASE ops[n].kind \in Removals /\ op.kind \in Removals
          <6>1. ops[n].kind # "ItemInserted"
            BY <5>3 DEF Removals
          <6>2. \A k \in (a + 1)..n : ops[k].kind \in Removals
            BY <3>2, <5>1, <5>3, <6>1 DEF Alike
          <6> QED BY <2>2, <5>1, <5>3, <6>2 DEF Alike
        <5> QED BY <3>7, <5>2, <5>3 DEF SameRun
      <4>3. RunsUpTo(ops, path, n + 1, r[n + 1])
        <5>1. a < n + 1
          BY <3>2
        <5> QED BY <3>2, <4>1, <4>2, <5>1 DEF RunsUpTo
      <4> QED BY <2>1, <4>3
    <3>8. CASE ~SameRun(ops[n], op)
      <4>1. r[n + 1] = Append(r[n], Piece(ops, n, n + 1))
        BY <2>2, <2>3, <3>5, <3>6, <3>8 DEF Extended
      <4>2. Breaks(ops, n)
        BY <2>2, <3>8 DEF Breaks
      <4>3. Folded("run", Applying(path[0]), r[n]) = Applying(path[n])
        <5>1. Folded("run", Applying(path[0]), Append(earlier, run))
                = Act("run", Folded("run", Applying(path[0]), earlier), run)
          BY <3>5, FoldAppend
        <5>2. Act("run", Applying(path[a]), run) = ApplyRun(Applying(path[a]), run)
          BY DEF Act
        <5>3. ApplyRun(Applying(path[a]), run) = Applying(path[n])
          BY <3>2, <3>3, <3>4, <4>2, RunLeads
        <5> QED BY <3>2, <3>6, <5>1, <5>2, <5>3
      <4>4. RunsUpTo(ops, path, n + 1, r[n + 1])
        <5>1. n < n + 1 /\ n \in Nat
          OBVIOUS
        <5> QED BY <2>3, <3>6, <4>1, <4>2, <4>3, <5>1 DEF RunsUpTo
      <4> QED BY <2>1, <4>4
    <3> QED BY <3>7, <3>8
  <2> QED BY <2>4, <2>5
<1>4. 0..N \subseteq T
  <2>1. 0 \in T
    OBVIOUS
  <2> HIDE DEF T
  <2> QED BY <1>3, <2>1, Induction
<1>5. Folded("run", start, Runs(ops)) = end
  <2>1. CASE N = 0
    BY <1>2, <2>1, FoldNothing DEF start, end
  <2>2. CASE N # 0
    <3>1. RunsUpTo(ops, path, N, r[N])
      <4>1. N \in T
        BY <1>4
      <4> QED BY <2>2, <4>1
    <3>2. PICK a \in Nat : \E earlier \in Seq(Seq(MildOps)) :
            /\ a < N
            /\ r[N] = Append(earlier, Piece(ops, a, N))
            /\ Folded("run", Applying(path[0]), earlier) = Applying(path[a])
            /\ Alike(ops, a, N) /\ Breaks(ops, a)
      BY <3>1 DEF RunsUpTo
    <3>3. PICK earlier \in Seq(Seq(MildOps)) :
            /\ a < N
            /\ r[N] = Append(earlier, Piece(ops, a, N))
            /\ Folded("run", Applying(path[0]), earlier) = Applying(path[a])
            /\ Alike(ops, a, N) /\ Breaks(ops, a)
      BY <3>2
    <3>4. N \in 1..Len(ops)
      BY <1>1, <2>2
    <3>5. Piece(ops, a, N) \in Seq(MildOps)
      BY <3>3, <3>4, PieceFacts DEF IsPiece
    <3>6. Folded("run", start, Append(earlier, Piece(ops, a, N)))
            = Act("run", Folded("run", start, earlier), Piece(ops, a, N))
      BY <3>5, FoldAppend
    <3>7. Act("run", Applying(path[a]), Piece(ops, a, N))
            = ApplyRun(Applying(path[a]), Piece(ops, a, N))
      BY DEF Act
    <3>8. ApplyRun(Applying(path[a]), Piece(ops, a, N)) = Applying(path[N])
      <4>1. Breaks(ops, N)
        BY <1>1 DEF Breaks
      <4> QED BY <3>3, <3>4, <4>1, RunLeads
    <3> QED BY <1>2, <3>3, <3>6, <3>7, <3>8 DEF start, end
  <2> QED BY <2>1, <2>2
<1>6. Folded("round", end, ops) = end
  <2> DEFINE t == [n \in 0..N |-> end]
  <2>1. \A n \in 0..N : t[n] = end
    OBVIOUS
  <2>2. \A n \in 1..N : n \in 0..N /\ n - 1 \in 0..N
    OBVIOUS
  <2>3. \A x : Act("round", end, x) = end
    <3>1. Retry(end) = end
      BY ApplyingFacts DEF end
    <3> QED BY <3>1 DEF Act
  <2> HIDE DEF t
  <2>4. Traces("round", N, ops, t)
    BY <1>1, <2>1, <2>2, <2>3 DEF Traces
  <2>5. Folded("round", t[0], ops) = t[N]
    BY <2>4, FoldedIs
  <2>6. 0 \in 0..N /\ N \in 0..N
    OBVIOUS
  <2> QED BY <2>1, <2>5, <2>6
<1>7. ApplyChangeSet(path[0], ops) = Outcome(Folded("round", Folded("run", start, Runs(ops)), ops))
  BY FoldForms DEF start, Applying
<1>8. Outcome(end) = Done(path[N])
  BY ApplyingFacts DEF end
<1> QED BY <1>1, <1>5, <1>6, <1>7, <1>8


(* op records its item as it is where it is.                               *)
Exact(d, op, e) ==
  /\ op.kind = "ItemInserted" => e.items[op.id] = op.item
  /\ op.kind \in Erasures => d.items[op.id] = op.item

(* A change set leads from d to e, and its inverse back.  If it begins by  *)
(* removing an item with its descendants, m items in all, those in the     *)
(* lists of removed items, G, may be recorded as they are in d; the lists  *)
(* stay empty from then on.                                                *)
ConnectsVia(ops, d, e, path, G, m) ==
  /\ path[0] = d /\ path[Len(ops)] = e
  /\ Ordered(ops, path)
  /\ \A n \in 1..Len(ops) : Reverses(path[n - 1], ops[n], path[n])
  /\ \A n \in 1..m : ops[n].kind \in Erasures
  /\ \A n \in 1..Len(ops) :
       IF n <= m /\ JoinsOne(ops[n].item, G) THEN d.items[ops[n].id] = ops[n].item
       ELSE Exact(path[n - 1], ops[n], path[n])
  /\ \A g \in G : \A n \in m..Len(ops) : path[n].groups[g] = <<>>
  /\ \A g \in G : d.items[g] # Absent /\ e.items[g] = Absent

Connects(ops, d, e) ==
  \E path : \E G \in SUBSET Ids : \E m \in 0..Len(ops) : ConnectsVia(ops, d, e, path, G, m)

(* So do operations that each record their item as it is, and that leave a *)
(* list that is empty before and behind them empty between them.           *)
Links(ops, d, e) ==
  \E path :
    /\ path[0] = d /\ path[Len(ops)] = e
    /\ Ordered(ops, path)
    /\ \A n \in 1..Len(ops) : Reverses(path[n - 1], ops[n], path[n])
    /\ \A n \in 1..Len(ops) : Exact(path[n - 1], ops[n], path[n])
    /\ \A g \in Ids : d.groups[g] = <<>> /\ e.groups[g] = <<>> =>
         \A n \in 0..Len(ops) : path[n].groups[g] = <<>>

(* A change set and its inverse apply.                                     *)
LEMMA ConnectsApply ==
  ASSUME NEW ops \in Seq(MildOps), NEW d, NEW e, Connects(ops, d, e)
  PROVE  /\ ApplyChangeSet(d, ops) = Done(e)
         /\ ApplyChangeSet(e, InvertChangeSet(ops)) = Done(d)
PROOF
<1>1. PICK N \in Nat : N = Len(ops)
  OBVIOUS
<1>2. PICK path : \E G \in SUBSET Ids : \E m \in 0..Len(ops) : ConnectsVia(ops, d, e, path, G, m)
  BY DEF Connects
<1>3. PICK G \in SUBSET Ids, m \in 0..N : ConnectsVia(ops, d, e, path, G, m)
  BY <1>1, <1>2
<1>4. /\ path[0] = d /\ path[N] = e
      /\ Ordered(ops, path)
      /\ \A n \in 1..N : Reverses(path[n - 1], ops[n], path[n])
      /\ \A n \in 1..m : ops[n].kind \in Erasures
      /\ \A n \in 1..N :
           IF n <= m /\ JoinsOne(ops[n].item, G) THEN d.items[ops[n].id] = ops[n].item
           ELSE Exact(path[n - 1], ops[n], path[n])
      /\ \A g \in G : \A n \in m..N : path[n].groups[g] = <<>>
      /\ \A g \in G : d.items[g] # Absent /\ e.items[g] = Absent
  BY <1>1, <1>3 DEF ConnectsVia
<1>5. ApplyChangeSet(d, ops) = Done(e)
  <2>1. N \in 0..Len(ops) /\ \A n \in 1..N : ~(n > N)
    BY <1>1
  <2>2. \A n \in 1..N : Moves(path[n - 1], ops[n], path[n])
    BY <1>4 DEF Reverses
  <2>3. ASSUME NEW n \in 1..N, ops[n].kind = "ItemInserted"
        PROVE  path[n].items[ops[n].id] = ops[n].item
    <3>1. ~(n <= m)
      <4> SUFFICES ASSUME n <= m PROVE FALSE
        OBVIOUS
      <4>1. n \in 1..m
        OBVIOUS
      <4>2. ops[n].kind \in Erasures
        BY <1>4, <4>1
      <4> QED BY <2>3, <4>2 DEF Erasures
    <3>2. Exact(path[n - 1], ops[n], path[n])
      BY <1>4, <3>1
    <3> QED BY <2>3, <3>2 DEF Exact
  <2>4. Along(ops, path, {}, N)
    BY <1>1, <1>4, <2>1, <2>2, <2>3 DEF Along, JoinsOne
  <2>5. {} \in SUBSET Ids
    OBVIOUS
  <2> QED BY <1>1, <1>4, <2>4, <2>5, InRuns
<1> DEFINE inv == InvertChangeSet(ops)
<1>6. ops \in Seq(Ops)
  BY DEF MildOps
<1>7. /\ inv \in Seq(MildOps) /\ Len(inv) = N
      /\ \A n \in 1..N : N - n + 1 \in 1..N /\ inv[n] = InvertOperation(ops[N - n + 1])
  BY <1>1, <1>6, InverseFacts
<1> HIDE DEF inv
<1> DEFINE back == [n \in 0..N |-> path[N - n]]
<1>8. \A n \in 0..N : back[n] = path[N - n]
  OBVIOUS
<1> HIDE DEF back
<1>9. ASSUME NEW n \in 1..N
      PROVE  \E k \in 1..N : \E op \in Ops :
               /\ k = N - n + 1 /\ op = ops[k] /\ inv[n] = InvertOperation(op)
               /\ op.kind = "ItemInserted" <=> inv[n].kind \in Erasures
               /\ op.kind \in Erasures <=> inv[n].kind = "ItemInserted"
               /\ op.kind = "ItemInserted" \/ op.kind \in Erasures =>
                    inv[n].id = op.id /\ inv[n].item = op.item
               /\ back[n - 1] = path[k] /\ back[n] = path[k - 1]
  <2>1. PICK k \in 1..N : k = N - n + 1
    BY <1>7
  <2>2. PICK op \in Ops : op = ops[k]
    BY <1>1, <1>6
  <2>3. inv[n] = InvertOperation(op)
    BY <1>7, <2>1, <2>2
  <2>4. n \in 0..N /\ n - 1 \in 0..N /\ N - (n - 1) = k /\ N - n = k - 1
    BY <2>1
  <2>5. back[n - 1] = path[k] /\ back[n] = path[k - 1]
    BY <1>8, <2>4
  <2> QED BY <2>1, <2>2, <2>3, <2>5, InverseKind
<1>10. ASSUME NEW n \in 1..N PROVE Moves(back[n - 1], inv[n], back[n])
  <2>1. PICK k \in 1..N : /\ k = N - n + 1 /\ inv[n] = InvertOperation(ops[k])
                          /\ back[n - 1] = path[k] /\ back[n] = path[k - 1]
    BY <1>9
  <2>2. Moves(path[k], InvertOperation(ops[k]), path[k - 1])
    BY <1>4 DEF Reverses
  <2> QED BY <2>1, <2>2
<1>11. Ordered(inv, back)
  <2> SUFFICES ASSUME NEW n \in 0..N
               PROVE  InOrder(back[n]) /\ (Rooted(back[n]) \/ Amid(inv, n))
    BY <1>7 DEF Ordered
  <2>1. PICK k \in 0..N : k = N - n /\ back[n] = path[k]
    <3>1. N - n \in 0..N
      OBVIOUS
    <3> QED BY <1>8, <3>1
  <2>2. InOrder(path[k]) /\ (Rooted(path[k]) \/ Amid(ops, k))
    BY <1>1, <1>4 DEF Ordered
  <2>3. ASSUME Amid(ops, k) PROVE Amid(inv, n)
    <3>1. k \in 1..(N - 1) /\ Joint(ops[k], ops[k + 1])
      BY <1>1, <2>3 DEF Amid
    <3>2. n \in 1..(N - 1) /\ n \in 1..N /\ n + 1 \in 1..N
          /\ N - n + 1 = k + 1 /\ N - (n + 1) + 1 = k
      BY <2>1, <3>1
    <3>3. /\ ops[k + 1].kind = "ItemInserted" <=> inv[n].kind \in Erasures
          /\ ops[k + 1].kind \in Erasures <=> inv[n].kind = "ItemInserted"
      BY <1>9, <3>2
    <3>4. /\ ops[k].kind = "ItemInserted" <=> inv[n + 1].kind \in Erasures
          /\ ops[k].kind \in Erasures <=> inv[n + 1].kind = "ItemInserted"
      BY <1>9, <3>2
    <3>5. Joint(inv[n], inv[n + 1])
      BY <3>1, <3>3, <3>4 DEF Joint
    <3> QED BY <1>7, <3>2, <3>5 DEF Amid
  <2> QED BY <2>1, <2>2, <2>3
<1>12. ASSUME NEW n \in 1..N, n > N - m PROVE inv[n].kind = "ItemInserted"
  <2>1. PICK k \in 1..N : k = N - n + 1 /\ (ops[k].kind \in Erasures <=> inv[n].kind = "ItemInserted")
    BY <1>9
  <2>2. k \in 1..m
    BY <1>12, <2>1
  <2> QED BY <1>4, <2>1, <2>2
<1>13. ASSUME NEW g \in G, NEW n \in 0..(N - m) PROVE back[n].groups[g] = <<>>
  <2>1. n \in 0..N /\ N - n \in m..N
    OBVIOUS
  <2> QED BY <1>4, <1>8, <2>1
<1>14. ASSUME NEW n \in 1..N, inv[n].kind = "ItemInserted"
       PROVE  back[IF n > N - m /\ JoinsOne(inv[n].item, G) THEN N ELSE n].items[inv[n].id]
                = inv[n].item
  <2>1. PICK k \in 1..N : \E op \in Ops :
               /\ k = N - n + 1 /\ op = ops[k]
               /\ op.kind \in Erasures <=> inv[n].kind = "ItemInserted"
               /\ op.kind = "ItemInserted" \/ op.kind \in Erasures =>
                    inv[n].id = op.id /\ inv[n].item = op.item
               /\ back[n] = path[k - 1]
    BY <1>9
  <2>2. PICK op \in Ops :
               /\ k = N - n + 1 /\ op = ops[k]
               /\ op.kind \in Erasures <=> inv[n].kind = "ItemInserted"
               /\ op.kind = "ItemInserted" \/ op.kind \in Erasures =>
                    inv[n].id = op.id /\ inv[n].item = op.item
               /\ back[n] = path[k - 1]
    BY <2>1
  <2>3. op.kind \in Erasures /\ inv[n].id = op.id /\ inv[n].item = op.item
    BY <1>14, <2>2
  <2>4. n > N - m <=> k <= m
    BY <2>2
  <2>5. IF k <= m /\ JoinsOne(op.item, G) THEN d.items[op.id] = op.item
        ELSE Exact(path[k - 1], op, path[k])
    BY <1>4, <2>2
  <2>6. back[N] = d
    <3>1. N \in 0..N /\ N - N = 0
      OBVIOUS
    <3> QED BY <1>4, <1>8, <3>1
  <2>7. CASE k <= m /\ JoinsOne(op.item, G)
    BY <2>3, <2>4, <2>5, <2>6, <2>7
  <2>8. CASE ~(k <= m /\ JoinsOne(op.item, G))
    <3>1. Exact(path[k - 1], op, path[k])
      BY <2>5, <2>8
    <3>2. path[k - 1].items[op.id] = op.item
      BY <2>3, <3>1 DEF Exact
    <3> QED BY <2>2, <2>3, <2>4, <2>8, <3>2
  <2> QED BY <2>7, <2>8
<1>15. Along(inv, back, G, N - m)
  <2>1. N - m \in 0..N
    OBVIOUS
  <2> QED BY <1>7, <1>10, <1>11, <1>12, <1>13, <1>14, <2>1 DEF Along
<1>16. back[0] = e /\ back[N] = d
  <2>1. 0 \in 0..N /\ N \in 0..N /\ N - 0 = N /\ N - N = 0
    OBVIOUS
  <2> QED BY <1>4, <1>8, <2>1
<1>17. ApplyChangeSet(back[0], inv) = Done(back[Len(inv)])
  BY <1>7, <1>15, InRuns
<1> QED BY <1>5, <1>7, <1>16, <1>17 DEF inv

(* An empty change set leads nowhere.                                      *)
LEMMA ConnectsNothing ==
  /\ \A d : Sound(d) => Connects(<<>>, d, d)
  /\ \A d, e : Connects(<<>>, d, e) => e = d
PROOF
<1>1. Len(<<>>) = 0 /\ 1..0 = {} /\ 0..0 = {0}
  OBVIOUS
<1>2. ASSUME NEW d, Sound(d) PROVE Connects(<<>>, d, d)
  <2>1. PICK path : path = [n \in {0} |-> d]
    OBVIOUS
  <2>2. path[0] = d
    BY <2>1
  <2>3. Ordered(<<>>, path)
    BY <1>1, <1>2, <2>2 DEF Ordered, Sound
  <2>4. 0 \in 0..0 /\ {} \in SUBSET Ids
    OBVIOUS
  <2>5. ConnectsVia(<<>>, d, d, path, {}, 0)
    BY <1>1, <2>2, <2>3 DEF ConnectsVia
  <2> QED BY <1>1, <2>4, <2>5 DEF Connects
<1>3. ASSUME NEW d, NEW e, Connects(<<>>, d, e) PROVE e = d
  BY <1>1, <1>3 DEF Connects, ConnectsVia
<1> QED BY <1>2, <1>3

(* The list of an item that is not there is empty.                         *)
LEMMA AbsentEmpty ==
  ASSUME NEW d, Sound(d), NEW g \in Ids, d.items[g] = Absent
  PROVE  d.groups[g] = <<>>
PROOF
<1>1. InOrder(d) /\ d.groups[g] \in Seq(Ids)
  BY SoundFacts, OrderFacts DEF Sound, InOrder
<1>2. PICK rank : Ranked(d, rank)
  BY DEF Sound, Rooted
<1> SUFFICES ASSUME d.groups[g] # <<>> PROVE FALSE
  OBVIOUS
<1>3. PICK l : l = d.groups[g]
  OBVIOUS
<1>4. 1 \in DOMAIN l
  <2>1. l \in Seq(Ids) /\ l # <<>>
    BY <1>1, <1>3
  <2>2. Len(l) # 0
    BY <2>1
  <2> QED BY <2>1, <2>2
<1>5. PICK i \in Ids : i = l[1]
  BY <1>1, <1>3, <1>4
<1>6. d.items[i] = Elem(g, 0)
  <2>1. d.items[d.groups[g][1]] = Elem(g, 1 - 1)
    BY <1>1, <1>3, <1>4 DEF InOrder, InOrderBut
  <2> QED BY <1>3, <1>5, <2>1
<1>7. d.items[i].parent = g /\ g # NoId
  BY <1>6, ItemFacts
<1>8. d.items[g].kind = KindAbove(d.items[i])
  BY <1>2, <1>7 DEF Ranked
<1>9. KindAbove(d.items[i]) # "absent"
  BY KindFacts
<1> QED BY <1>8, <1>9 DEF Absent

(* A path and one that goes on where it ends                               *)
Joined(path, more, N) == [n \in Nat |-> IF n <= N THEN path[n] ELSE more[n - N]]

(* Change sets grow by operations that link their end to another document, *)
(* in which no item has come back.                                         *)
LEMMA ConnectsAppend ==
  ASSUME NEW S, NEW ops \in Seq(S), NEW d, NEW e, Connects(ops, d, e),
         NEW more \in Seq(S), NEW f, Links(more, e, f),
         \A i \in Ids : d.items[i] # Absent /\ e.items[i] = Absent => f.items[i] = Absent
  PROVE  Connects(ops \o more, d, f)
PROOF
<1>1. PICK N \in Nat, M \in Nat : N = Len(ops) /\ M = Len(more)
  OBVIOUS
<1>2. PICK path : \E G \in SUBSET Ids : \E m \in 0..Len(ops) : ConnectsVia(ops, d, e, path, G, m)
  BY DEF Connects
<1>3. PICK G \in SUBSET Ids, m \in 0..N : ConnectsVia(ops, d, e, path, G, m)
  BY <1>1, <1>2
<1>4. /\ path[0] = d /\ path[N] = e
      /\ Ordered(ops, path)
      /\ \A n \in 1..N : Reverses(path[n - 1], ops[n], path[n])
      /\ \A n \in 1..m : ops[n].kind \in Erasures
      /\ \A n \in 1..N :
           IF n <= m /\ JoinsOne(ops[n].item, G) THEN d.items[ops[n].id] = ops[n].item
           ELSE Exact(path[n - 1], ops[n], path[n])
      /\ \A g \in G : \A n \in m..N : path[n].groups[g] = <<>>
      /\ \A g \in G : d.items[g] # Absent /\ e.items[g] = Absent
  BY <1>1, <1>3 DEF ConnectsVia
<1>5. PICK next :
    /\ next[0] = e /\ next[M] = f
    /\ Ordered(more, next)
    /\ \A n \in 1..M : Reverses(next[n - 1], more[n], next[n])
    /\ \A n \in 1..M : Exact(next[n - 1], more[n], next[n])
    /\ \A g \in Ids : e.groups[g] = <<>> /\ f.groups[g] = <<>> =>
         \A n \in 0..M : next[n].groups[g] = <<>>
  BY <1>1 DEF Links
<1>6. PICK all : all = ops \o more
  OBVIOUS
<1>7. /\ all \in Seq(S) /\ Len(all) = N + M
      /\ \A n \in 1..N : all[n] = ops[n]
      /\ \A n \in 1..M : all[N + n] = more[n]
  BY <1>1, <1>6
<1>8. PICK way : way = Joined(path, next, N)
  OBVIOUS
<1>9. /\ \A n \in 0..N : way[n] = path[n]
      /\ \A n \in 0..M : way[N + n] = next[n]
  <2>1. \A n \in 0..N : n \in Nat /\ n <= N
    OBVIOUS
  <2>2. ASSUME NEW n \in 0..M PROVE way[N + n] = next[n]
    <3>1. N + n \in Nat /\ (N + n) - N = n /\ (N + n <= N <=> n = 0)
      OBVIOUS
    <3> QED BY <1>4, <1>5, <1>8, <3>1 DEF Joined
  <2> QED BY <1>8, <2>1, <2>2 DEF Joined
<1>10. ASSUME NEW n \in 1..(N + M)
      PROVE  n \in 1..N \/ \E k \in 1..M : n = N + k
  <2>1. CASE n > N
    <3>1. n - N \in 1..M /\ n = N + (n - N)
      BY <2>1
    <3> QED BY <3>1
  <2>2. CASE ~(n > N)
    BY <2>2
  <2> QED BY <2>1, <2>2
<1>11. ASSUME NEW n \in 1..N
       PROVE  way[n] = path[n] /\ way[n - 1] = path[n - 1] /\ all[n] = ops[n]
  <2>1. n \in 0..N /\ n - 1 \in 0..N
    OBVIOUS
  <2> QED BY <1>7, <1>9, <2>1
<1>12. ASSUME NEW k \in 1..M
       PROVE  way[N + k] = next[k] /\ way[(N + k) - 1] = next[k - 1] /\ all[N + k] = more[k]
  <2>1. k \in 0..M /\ k - 1 \in 0..M /\ N + (k - 1) = (N + k) - 1
    OBVIOUS
  <2> QED BY <1>7, <1>9, <2>1
<1>13. ASSUME NEW n \in 1..(N + M) PROVE Reverses(way[n - 1], all[n], way[n])
  <2>1. CASE n \in 1..N
    <3>1. Reverses(path[n - 1], ops[n], path[n])
      BY <1>4, <2>1
    <3> QED BY <1>11, <2>1, <3>1
  <2>2. ASSUME NEW k \in 1..M, n = N + k PROVE Reverses(way[n - 1], all[n], way[n])
    <3>1. Reverses(next[k - 1], more[k], next[k])
      BY <1>5
    <3> QED BY <1>12, <2>2, <3>1
  <2> QED BY <1>10, <2>1, <2>2
<1>14. Ordered(all, way)
  <2> SUFFICES ASSUME NEW n \in 0..(N + M)
               PROVE  InOrder(way[n]) /\ (Rooted(way[n]) \/ Amid(all, n))
    BY <1>7 DEF Ordered
  <2>1. CASE n \in 0..N
    <3>1. InOrder(path[n]) /\ (Rooted(path[n]) \/ Amid(ops, n))
      BY <1>1, <1>4, <2>1 DEF Ordered
    <3>2. ASSUME Amid(ops, n) PROVE Amid(all, n)
      <4>1. n \in 1..(N - 1) /\ Joint(ops[n], ops[n + 1])
        BY <1>1, <3>2 DEF Amid
      <4>2. n \in 1..N /\ n + 1 \in 1..N /\ n \in 1..((N + M) - 1)
        BY <4>1
      <4>3. all[n] = ops[n] /\ all[n + 1] = ops[n + 1]
        BY <1>7, <4>2
      <4> QED BY <1>7, <4>1, <4>2, <4>3 DEF Amid
    <3> QED BY <1>9, <2>1, <3>1, <3>2
  <2>2. CASE n \notin 0..N
    <3>1. PICK k \in 1..M : n = N + k /\ k \in 0..M
      <4>1. n - N \in 1..M /\ n = N + (n - N) /\ n - N \in 0..M
        BY <2>2
      <4> QED BY <4>1
    <3>2. InOrder(next[k]) /\ (Rooted(next[k]) \/ Amid(more, k))
      BY <1>1, <1>5, <3>1 DEF Ordered
    <3>3. ASSUME Amid(more, k) PROVE Amid(all, n)
      <4>1. k \in 1..(M - 1) /\ Joint(more[k], more[k + 1])
        BY <1>1, <3>3 DEF Amid
      <4>2. k + 1 \in 1..M /\ n \in 1..((N + M) - 1) /\ n + 1 = N + (k + 1)
        <5>1. k \in 1..(M - 1) /\ n = N + k
          BY <3>1, <4>1
        <5> QED BY <5>1
      <4>3. all[n] = more[k] /\ all[n + 1] = more[k + 1]
        BY <1>7, <3>1, <4>2
      <4> QED BY <1>7, <4>1, <4>2, <4>3 DEF Amid
    <3> QED BY <1>9, <3>1, <3>2, <3>3
  <2> QED BY <2>1, <2>2
<1>15. \A n \in 1..m : all[n].kind \in Erasures
  <2>1. \A n \in 1..m : n \in 1..N
    OBVIOUS
  <2> QED BY <1>4, <1>7, <2>1
<1>16. ASSUME NEW n \in 1..(N + M)
       PROVE  IF n <= m /\ JoinsOne(all[n].item, G) THEN d.items[all[n].id] = all[n].item
              ELSE Exact(way[n - 1], all[n], way[n])
  <2>1. CASE n \in 1..N
    <3>1. IF n <= m /\ JoinsOne(ops[n].item, G) THEN d.items[ops[n].id] = ops[n].item
          ELSE Exact(path[n - 1], ops[n], path[n])
      BY <1>4, <2>1
    <3> QED BY <1>11, <2>1, <3>1
  <2>2. ASSUME NEW k \in 1..M, n = N + k
        PROVE  ~(n <= m) /\ Exact(way[n - 1], all[n], way[n])
    <3>1. Exact(next[k - 1], more[k], next[k])
      BY <1>5
    <3>2. ~(n <= m)
      BY <2>2
    <3> QED BY <1>12, <2>2, <3>1, <3>2
  <2> QED BY <1>10, <2>1, <2>2
<1>17. Sound(f)
  <2>1. M \in 0..M /\ ~(M \in 1..(M - 1))
    OBVIOUS
  <2> QED BY <1>1, <1>5, <2>1 DEF Ordered, Amid, Sound
<1>18. ASSUME NEW g \in G PROVE f.items[g] = Absent /\ f.groups[g] = <<>>
  <2>1. g \in Ids /\ f.items[g] = Absent
    BY <1>4
  <2> QED BY <1>17, <2>1, AbsentEmpty
<1>19. ASSUME NEW g \in G, NEW n \in m..(N + M) PROVE way[n].groups[g] = <<>>
  <2>1. CASE n <= N
    <3>1. n \in m..N /\ n \in 0..N
      BY <2>1
    <3> QED BY <1>4, <1>9, <3>1
  <2>2. CASE ~(n <= N)
    <3>1. PICK k \in 0..M : n = N + k
      <4>1. n - N \in 0..M /\ n = N + (n - N)
        BY <2>2
      <4> QED BY <4>1
    <3>2. N \in m..N /\ g \in Ids
      OBVIOUS
    <3>3. e.groups[g] = <<>> /\ f.groups[g] = <<>>
      BY <1>4, <1>18, <3>2
    <3>4. next[k].groups[g] = <<>>
      BY <1>5, <3>2, <3>3
    <3> QED BY <1>9, <3>1, <3>4
  <2> QED BY <2>1, <2>2
<1>20. way[0] = d /\ way[N + M] = f
  <2>1. 0 \in 0..N /\ M \in 0..M
    OBVIOUS
  <2> QED BY <1>4, <1>5, <1>9, <2>1
<1>21. m \in 0..(N + M)
  OBVIOUS
<1>22. \A g \in G : d.items[g] # Absent /\ f.items[g] = Absent
  BY <1>4, <1>18
<1>23. Connects(all, d, f)
  <2>1. PICK K : K = N + M /\ K = Len(all)
    BY <1>7
  <2>2. ConnectsVia(all, d, f, way, G, m)
    BY <1>13, <1>14, <1>15, <1>16, <1>19, <1>20, <1>22, <2>1 DEF ConnectsVia
  <2>3. m \in 0..Len(all)
    BY <1>21, <2>1
  <2> QED BY <2>2, <2>3 DEF Connects
<1> QED BY <1>6, <1>23

(* What the write methods record one by one: of whole items, they only     *)
(* insert those that are in no list.                                       *)
Single(op) ==
  /\ op.kind \notin Erasures
  /\ op.kind = "ItemInserted" => ~Participates(op.item)

(* An operation and its inverse lead where they do, be they part of a run  *)
(* or not.                                                                 *)
LEMMA WrittenReverses ==
  ASSUME NEW d, NEW op \in MildOps, Single(op), NEW r, NEW items, NEW groups,
         Written(d, op, r, items, groups), Sound(d), r.ok
  PROVE  Reverses(d, op, r.doc) /\ Exact(d, op, r.doc)
PROOF
<1>1. PICK e : e = r.doc
  OBVIOUS
<1>2. /\ Sound(e) /\ ApplyOperation(d, op) = Done(e) /\ Fits(d, op)
      /\ ApplyOperation(e, InvertOperation(op)) = Done(d) /\ Fits(e, InvertOperation(op))
  BY <1>1 DEF Written
<1>3. Leads(d, op, e) /\ Leads(e, InvertOperation(op), d)
  BY <1>2 DEF Leads
<1>4. op \in Ops /\ Mild(op)
  BY DEF MildOps
<1>5. PICK inv : inv = InvertOperation(op)
  OBVIOUS
<1>6. /\ op.kind = "ItemInserted" <=> inv.kind \in Erasures
      /\ op.kind \in Erasures <=> inv.kind = "ItemInserted"
      /\ op.kind = "ItemInserted" \/ op.kind \in Erasures => inv.id = op.id /\ inv.item = op.item
  BY <1>4, <1>5, InverseKind
<1>7. CASE op.kind = "ItemInserted"
  <2>1. PICK id \in Ids, s \in Items : id = op.id /\ s = op.item
    BY <1>4, <1>7 DEF Ops
  <2>2. ~Participates(s) /\ s.kind # "absent" /\ s # Absent
    BY <1>4, <1>7, <2>1, KindFacts DEF Single, Mild, Insertions
  <2>3. d.items[id] = Absent
    BY <1>2, <1>7, <2>1 DEF Fits, Insertions
  <2>4. /\ d \in Docs /\ InOrder(d) /\ InOrder(e)
        /\ d.items \in [Ids -> Items] /\ d.groups \in [Ids -> Seq(Ids)]
    BY <1>2, SoundFacts DEF Sound
  <2>5. ApplyOperation(d, op) = InsertSnapshot(d, id, s)
    BY <1>7, <2>1 DEF ApplyOperation, Removals
  <2>6. InsertSnapshot(d, id, s) = IF ValidParent(d, id, s) THEN Move(d, id, s) ELSE Throws(d)
    BY <2>3, InsertIsMove
  <2>7. RemoveFromListGroup(d, id, d.items[id]) = d
    BY <2>3, ItemFacts DEF RemoveFromListGroup
  <2>8. InsertIntoListGroup(d, id, s) = Done(d)
    BY <2>2 DEF InsertIntoListGroup
  <2>9. Move(d, id, s) = Done([d EXCEPT !.items[id] = s])
    BY <2>7, <2>8, OutcomeFacts DEF Move, Stored
  <2>10. Done(e) # Throws(d)
    BY OutcomeFacts
  <2>11. Done(e) = Done([d EXCEPT !.items[id] = s])
    BY <1>2, <2>5, <2>6, <2>9, <2>10
  <2>12. e = [d EXCEPT !.items[id] = s]
    BY <2>11, OutcomeFacts
  <2>13. e = [items |-> [d.items EXCEPT ![id] = s], groups |-> d.groups]
    <3>1. [d EXCEPT !.items[id] = s] = [d EXCEPT !.items = [d.items EXCEPT ![id] = s]]
      OBVIOUS
    <3> QED BY <2>4, <2>12, <3>1, FieldFacts
  <2>14. /\ e.items = [d.items EXCEPT ![id] = s] /\ e.groups = d.groups
    BY <2>13
  <2>15. e.items[id] = s /\ \A i \in Ids \ {id} : e.items[i] = d.items[i]
    BY <2>4, <2>14
  <2>16. ASSUME NEW g \in Ids PROVE d.groups[g] = RemoveElement(e.groups[g], id)
    <3>1. ~Participates(d.items[id])
      BY <2>3, ItemFacts
    <3>2. RemoveElement(d.groups[g], id) = d.groups[g]
      BY <2>4, <3>1, GroupWithout
    <3> QED BY <2>14, <3>2
  <2>17. Gains(d, op, e)
    BY <2>1, <2>2, <2>3, <2>4, <2>15, <2>16 DEF Gains, Akin
  <2>18. Gains(d, inv, e)
    BY <1>6, <1>7, <2>17 DEF Gains
  <2>19. Moves(d, op, e) /\ Moves(e, inv, d)
    <3>1. inv.kind \in Erasures /\ inv.kind # "ItemInserted"
      BY <1>6, <1>7 DEF Erasures
    <3> QED BY <1>7, <2>17, <2>18, <3>1 DEF Moves
  <2>20. Exact(d, op, e)
    BY <1>7, <2>1, <2>15 DEF Exact, Erasures
  <2> QED BY <1>1, <1>5, <2>19, <2>20 DEF Reverses
<1>8. CASE op.kind # "ItemInserted"
  <2>1. op.kind \notin Erasures
    BY DEF Single
  <2>2. inv.kind # "ItemInserted" /\ inv.kind \notin Erasures
    BY <1>6, <1>8, <2>1
  <2>3. Moves(d, op, e) /\ Moves(e, inv, d)
    BY <1>3, <1>5, <1>8, <2>1, <2>2 DEF Moves
  <2>4. Exact(d, op, e)
    BY <1>8, <2>1 DEF Exact
  <2> QED BY <1>1, <1>5, <2>3, <2>4 DEF Reverses
<1> QED BY <1>7, <1>8

(* Such an operation is a link.                                            *)
LEMMA LinksOne ==
  ASSUME NEW d, NEW op \in MildOps, NEW e, Sound(d), Sound(e),
         Reverses(d, op, e), Exact(d, op, e)
  PROVE  Links(<<op>>, d, e)
PROOF
<1>1. PICK ops : ops = <<op>>
  OBVIOUS
<1>2. Len(ops) = 1 /\ ops[1] = op /\ 1..1 = {1} /\ 0..1 = {0, 1} /\ 1 - 1 = 0
  BY <1>1
<1>3. PICK path : path = [n \in {0, 1} |-> IF n = 0 THEN d ELSE e]
  OBVIOUS
<1>4. path[0] = d /\ path[1] = e
  BY <1>3
<1>5. Ordered(ops, path)
  BY <1>2, <1>4 DEF Ordered, Sound
<1>6. \A n \in 1..Len(ops) : Reverses(path[n - 1], ops[n], path[n])
  BY <1>2, <1>4
<1>7. \A n \in 1..Len(ops) : Exact(path[n - 1], ops[n], path[n])
  BY <1>2, <1>4
<1>8. \A g \in Ids : d.groups[g] = <<>> /\ e.groups[g] = <<>> =>
        \A n \in 0..Len(ops) : path[n].groups[g] = <<>>
  BY <1>2, <1>4
<1>9. path[Len(ops)] = e
  BY <1>2, <1>4
<1>10. Links(ops, d, e)
  BY <1>4, <1>5, <1>6, <1>7, <1>8, <1>9 DEF Links
<1> QED BY <1>1, <1>10

(* q is d without the items removed and their places in lists.             *)
Erased(d, removed, q) ==
  /\ InOrder(q)
  /\ \A g \in Ids : q.groups[g] = RetainElements(d.groups[g], removed)
  /\ \A i \in removed : q.items[i] = Absent
  /\ \A i \in Ids \ removed : Akin(d.items[i], q.items[i])

(* f is q without the item x and its place in a list.                      *)
Lost(q, x, f) ==
  /\ f.items[x] = Absent
  /\ \A i \in Ids \ {x} : Akin(q.items[i], f.items[i])
  /\ \A g \in Ids : f.groups[g] = RemoveElement(q.groups[g], x)

(* eraseSnapshots of nothing                                               *)
LEMMA ErasedNone ==
  ASSUME NEW d, InOrder(d)
  PROVE  Erased(d, {}, d) /\ EraseSnapshots(d, {}) = d
PROOF
<1>1. \A g \in Ids : d.groups[g] = RetainElements(d.groups[g], {})
  BY RetainFacts, OrderFacts DEF InOrder
<1>2. \A i \in Ids : Akin(d.items[i], d.items[i])
  BY DEF Akin
<1>3. {} \in SUBSET Ids
  OBVIOUS
<1> QED BY <1>1, <1>2, <1>3, ErasedTogether DEF Erased

(* eraseSnapshots of one item more                                         *)
LEMMA ErasedOne ==
  ASSUME NEW d, InOrder(d), NEW removed \in SUBSET Ids, NEW q, Erased(d, removed, q),
         NEW x \in Ids
  PROVE  \E f : /\ f = EraseSnapshots(d, removed \cup {x})
                /\ Erased(d, removed \cup {x}, f)
                /\ Lost(q, x, f)
PROOF
<1>1. Absent \in Items /\ Plain(Absent) /\ ~Participates(Absent)
  BY ItemFacts
<1>2. PICK r : r = Move(q, x, Absent)
  OBVIOUS
<1>3. /\ r.ok <=> Movable(q, x, Absent)
      /\ r.ok => /\ r = Done(r.doc) /\ InOrder(r.doc) /\ r.doc.items[x] = Absent
                 /\ r.doc.groups = [g \in Ids |-> ListAfter(q, x, Absent, g)]
      /\ AkinBut(q, r.doc, x)
  <2>1. InOrder(q)
    BY DEF Erased
  <2> QED BY <1>1, <1>2, <2>1, Moved
<1>4. PICK f : f = r.doc
  OBVIOUS
<1>5. /\ InOrder(f) /\ f.items[x] = Absent
      /\ f.groups = [g \in Ids |-> ListAfter(q, x, Absent, g)]
      /\ AkinBut(q, f, x)
  <2>1. Movable(q, x, Absent)
    BY <1>1 DEF Movable
  <2> QED BY <1>3, <1>4, <2>1
<1>6. \A g \in Ids : f.groups[g] = RemoveElement(q.groups[g], x)
  BY <1>1, <1>5 DEF ListAfter
<1>7. Lost(q, x, f)
  BY <1>5, <1>6 DEF Lost, AkinBut
<1>8. PICK more : more = removed \cup {x}
  OBVIOUS
<1>9. \A g \in Ids : f.groups[g] = RetainElements(d.groups[g], more)
  <2> SUFFICES ASSUME NEW g \in Ids PROVE f.groups[g] = RetainElements(d.groups[g], more)
    OBVIOUS
  <2>1. q.groups[g] = RetainElements(d.groups[g], removed)
    BY DEF Erased
  <2>2. RetainElements(d.groups[g], more) = RemoveElement(RetainElements(d.groups[g], removed), x)
    BY <1>8, RetainFacts, OrderFacts DEF InOrder
  <2> QED BY <1>6, <2>1, <2>2
<1>10. ASSUME NEW i \in more PROVE f.items[i] = Absent
  <2>1. CASE i = x
    BY <1>5, <2>1
  <2>2. CASE i # x
    <3>1. i \in removed /\ i \in Ids
      BY <1>8, <2>2
    <3>2. q.items[i] = Absent /\ Akin(q.items[i], f.items[i])
      BY <1>7, <2>2, <3>1 DEF Erased, Lost
    <3>3. f.items[i].kind = "absent"
      BY <3>2 DEF Akin, Absent
    <3> QED BY <1>5, <3>1, <3>3, OrderTyped, ItemFacts
  <2> QED BY <2>1, <2>2
<1>11. ASSUME NEW i \in Ids \ more PROVE Akin(d.items[i], f.items[i])
  <2>1. i \in Ids \ removed /\ i # x
    BY <1>8
  <2>2. Akin(d.items[i], q.items[i]) /\ Akin(q.items[i], f.items[i])
    BY <1>7, <2>1 DEF Erased, Lost
  <2> QED BY <2>2 DEF Akin
<1>12. Erased(d, more, f)
  BY <1>5, <1>9, <1>10, <1>11 DEF Erased
<1>13. EraseSnapshots(d, more) = f
  <2>1. more \in SUBSET Ids
    BY <1>8
  <2> QED BY <1>5, <1>9, <1>10, <1>11, <2>1, ErasedTogether
<1> QED BY <1>7, <1>8, <1>12, <1>13

(* A removal that cascades: the operations it records, and the documents   *)
(* on the way if the items go one by one                                   *)
Firsts(order, n) == {order[k] : k \in 1..n}
Cut(d, order, n) == EraseSnapshots(d, Firsts(order, n))
Cuts(d, order) == [n \in Nat |-> Cut(d, order, n)]

Cascade(d, order, ops) ==
  /\ ops \in Seq(MildOps)
  /\ \A k \in 1..Len(ops) :
       /\ order[k] \in Ids
       /\ ops[k].kind \in Erasures /\ ops[k].id = order[k] /\ ops[k].item = d.items[order[k]]
       /\ d.items[order[k]].kind # "absent"
  /\ \A j, k \in 1..Len(ops) : order[j] = order[k] => j = k

(* Along them, each loses one item.                                        *)
LEMMA CutFacts ==
  ASSUME NEW d, InOrder(d), NEW order, NEW ops, Cascade(d, order, ops)
  PROVE  /\ Cut(d, order, 0) = d
         /\ \A n \in 0..Len(ops) : Erased(d, Firsts(order, n), Cut(d, order, n))
         /\ \A n \in 1..Len(ops) : Lost(Cut(d, order, n - 1), order[n], Cut(d, order, n))
PROOF
<1>1. PICK N \in Nat : N = Len(ops)
  BY DEF Cascade
<1>2. \A k \in 1..N : order[k] \in Ids
  BY <1>1 DEF Cascade
<1>3. Firsts(order, 0) = {}
  BY DEF Firsts
<1>4. Cut(d, order, 0) = d /\ Erased(d, {}, d)
  BY <1>3, ErasedNone DEF Cut
<1> DEFINE T == {n \in 0..N : /\ Firsts(order, n) \in SUBSET Ids
                              /\ Erased(d, Firsts(order, n), Cut(d, order, n))}
<1>5. 0 \in T
  BY <1>3, <1>4
<1>6. ASSUME NEW n \in 0..(N - 1), Firsts(order, n) \in SUBSET Ids,
             Erased(d, Firsts(order, n), Cut(d, order, n))
      PROVE  /\ Firsts(order, n + 1) \in SUBSET Ids
             /\ Erased(d, Firsts(order, n + 1), Cut(d, order, n + 1))
             /\ Lost(Cut(d, order, n), order[n + 1], Cut(d, order, n + 1))
  <2>1. PICK x \in Ids : x = order[n + 1]
    <3>1. n + 1 \in 1..N
      OBVIOUS
    <3> QED BY <1>2, <3>1
  <2>2. Firsts(order, n + 1) = Firsts(order, n) \cup {x}
    <3>1. 1..(n + 1) = (1..n) \cup {n + 1}
      OBVIOUS
    <3> QED BY <2>1, <3>1 DEF Firsts
  <2>3. PICK f : /\ f = EraseSnapshots(d, Firsts(order, n) \cup {x})
                 /\ Erased(d, Firsts(order, n) \cup {x}, f)
                 /\ Lost(Cut(d, order, n), x, f)
    BY <1>6, ErasedOne
  <2>4. f = Cut(d, order, n + 1)
    BY <2>2, <2>3 DEF Cut
  <2> QED BY <1>6, <2>1, <2>2, <2>3, <2>4
<1>7. ASSUME NEW n \in 0..(N - 1), n \in T PROVE n + 1 \in T
  BY <1>6, <1>7
<1> HIDE DEF T
<1>8. 0..N \subseteq T
  BY <1>5, <1>7, Induction
<1>9. \A n \in 0..N : /\ Firsts(order, n) \in SUBSET Ids
                      /\ Erased(d, Firsts(order, n), Cut(d, order, n))
  BY <1>8 DEF T
<1>10. ASSUME NEW n \in 1..N PROVE Lost(Cut(d, order, n - 1), order[n], Cut(d, order, n))
  <2>1. PICK m \in 0..(N - 1) : m = n - 1 /\ m + 1 = n /\ m \in 0..N
    OBVIOUS
  <2>2. Lost(Cut(d, order, m), order[m + 1], Cut(d, order, m + 1))
    BY <1>6, <1>9, <2>1
  <2> QED BY <2>1, <2>2
<1> QED BY <1>1, <1>4, <1>9, <1>10

(* What is removed with everything below it leaves no item without its     *)
(* parent.                                                                 *)
LEMMA CutSound ==
  ASSUME NEW d, Sound(d), NEW S \in SUBSET Ids, NEW q, Erased(d, S, q),
         \A i \in Ids : d.items[i].parent \in S => i \in S
  PROVE  Sound(q)
PROOF
<1>1. PICK rank : Ranked(d, rank)
  BY DEF Sound, Rooted
<1>2. ASSUME NEW i \in Ids, q.items[i].parent # NoId
      PROVE  /\ q.items[q.items[i].parent].kind = KindAbove(q.items[i])
             /\ rank[q.items[i].parent] < rank[i]
  <2>1. i \notin S
    <3> SUFFICES ASSUME i \in S PROVE FALSE
      OBVIOUS
    <3>1. q.items[i] = Absent
      BY DEF Erased
    <3> QED BY <1>2, <3>1 DEF Absent
  <2>2. Akin(d.items[i], q.items[i])
    BY <2>1 DEF Erased
  <2>3. PICK p : p = d.items[i].parent
    OBVIOUS
  <2>4. q.items[i].parent = p /\ KindAbove(q.items[i]) = KindAbove(d.items[i]) /\ p # NoId
    BY <1>2, <2>2, <2>3 DEF Akin, KindAbove
  <2>5. p \in Ids /\ p \notin S
    BY <2>1, <2>3, <2>4, SoundFacts, ItemFacts
  <2>6. Akin(d.items[p], q.items[p])
    BY <2>5 DEF Erased
  <2>7. d.items[p].kind = KindAbove(d.items[i]) /\ rank[p] < rank[i]
    BY <1>1, <2>3, <2>4 DEF Ranked
  <2> QED BY <2>4, <2>6, <2>7 DEF Akin
<1>3. Ranked(q, rank)
  BY <1>1, <1>2 DEF Ranked
<1> QED BY <1>3 DEF Sound, Rooted, Erased

(* The operations of a cascade lead along them, and their inverses back.   *)
LEMMA CascadePath ==
  ASSUME NEW d, Sound(d), NEW order, NEW ops, Cascade(d, order, ops),
         Sound(Cut(d, order, Len(ops)))
  PROVE  /\ Cuts(d, order)[0] = d /\ Cuts(d, order)[Len(ops)] = Cut(d, order, Len(ops))
         /\ Ordered(ops, Cuts(d, order))
         /\ \A n \in 1..Len(ops) : Reverses(Cuts(d, order)[n - 1], ops[n], Cuts(d, order)[n])
PROOF
<1>1. PICK N \in Nat : N = Len(ops)
  BY DEF Cascade
<1>2. InOrder(d) /\ Rooted(d)
  BY DEF Sound
<1>3. /\ Cut(d, order, 0) = d
      /\ \A n \in 0..N : Erased(d, Firsts(order, n), Cut(d, order, n))
      /\ \A n \in 1..N : Lost(Cut(d, order, n - 1), order[n], Cut(d, order, n))
  BY <1>1, <1>2, CutFacts
<1>4. PICK path : path = Cuts(d, order)
  OBVIOUS
<1>5. \A n \in 0..N : path[n] = Cut(d, order, n)
  <2>1. \A n \in 0..N : n \in Nat
    OBVIOUS
  <2> QED BY <1>4, <2>1 DEF Cuts
<1>6. path[0] = d /\ path[N] = Cut(d, order, N)
  <2>1. 0 \in 0..N /\ N \in 0..N
    OBVIOUS
  <2> QED BY <1>3, <1>5, <2>1
<1>7. Ordered(ops, path)
  <2> SUFFICES ASSUME NEW n \in 0..N PROVE InOrder(path[n]) /\ (Rooted(path[n]) \/ Amid(ops, n))
    BY <1>1 DEF Ordered
  <2>1. InOrder(path[n])
    BY <1>3, <1>5 DEF Erased
  <2>2. CASE n = 0
    BY <1>2, <1>6, <2>1, <2>2
  <2>3. CASE n = N
    BY <1>1, <1>6, <2>1, <2>3 DEF Sound
  <2>4. CASE n # 0 /\ n # N
    <3>1. n \in 1..(N - 1) /\ n \in 1..N /\ n + 1 \in 1..N
      BY <2>4
    <3>2. ops[n].kind \in Erasures /\ ops[n + 1].kind \in Erasures
      BY <1>1, <3>1 DEF Cascade
    <3> QED BY <1>1, <2>1, <3>1, <3>2 DEF Amid, Joint
  <2> QED BY <2>2, <2>3, <2>4
<1>8. ASSUME NEW n \in 1..N PROVE Reverses(path[n - 1], ops[n], path[n])
  <2>1. n - 1 \in 0..N /\ n \in 0..N
    OBVIOUS
  <2>2. PICK q, f : q = path[n - 1] /\ f = path[n]
    OBVIOUS
  <2>3. PICK x \in Ids : x = order[n]
    BY <1>1 DEF Cascade
  <2>4. Erased(d, Firsts(order, n - 1), q) /\ InOrder(f) /\ Lost(q, x, f)
    <3>1. q = Cut(d, order, n - 1) /\ f = Cut(d, order, n)
      BY <1>5, <2>1, <2>2
    <3>2. Erased(d, Firsts(order, n - 1), q) /\ Erased(d, Firsts(order, n), f)
      BY <1>3, <2>1, <3>1
    <3>3. Lost(q, x, f)
      BY <1>3, <2>3, <3>1
    <3> QED BY <3>2, <3>3 DEF Erased
  <2>5. PICK op \in Ops : op = ops[n]
    BY <1>1 DEF Cascade, MildOps
  <2>6. op.kind \in Erasures /\ op.id = x /\ op.item = d.items[x] /\ d.items[x].kind # "absent"
    BY <1>1, <2>3, <2>5 DEF Cascade
  <2>7. x \notin Firsts(order, n - 1)
    <3> SUFFICES ASSUME NEW k \in 1..(n - 1), order[k] = x PROVE FALSE
      BY DEF Firsts
    <3>1. k \in 1..N /\ k # n
      OBVIOUS
    <3> QED BY <1>1, <2>3, <3>1 DEF Cascade
  <2>8. Akin(op.item, q.items[x])
    BY <2>4, <2>6, <2>7 DEF Erased
  <2>9. \A i \in Ids \ {x} : Akin(f.items[i], q.items[i])
    BY <2>4 DEF Lost, Akin
  <2>10. Gains(f, op, q)
    BY <2>4, <2>6, <2>8, <2>9 DEF Gains, Lost, Erased
  <2>11. PICK inv : inv = InvertOperation(op)
    OBVIOUS
  <2>12. inv.kind = "ItemInserted" /\ inv.id = op.id /\ inv.item = op.item
    BY <2>6, <2>11, InverseKind
  <2>13. Gains(f, inv, q)
    BY <2>10, <2>12 DEF Gains
  <2>14. Moves(q, op, f) /\ Moves(f, inv, q)
    <3>1. op.kind # "ItemInserted"
      BY <2>6 DEF Erasures
    <3> QED BY <2>6, <2>10, <2>12, <2>13, <3>1 DEF Moves
  <2> QED BY <2>2, <2>5, <2>11, <2>14 DEF Reverses
<1> QED BY <1>1, <1>4, <1>6, <1>7, <1>8

(* The first operation of a change set may be a cascade whatever the order *)
(* in which it goes through the lists it empties.                          *)
LEMMA CascadeConnects ==
  ASSUME NEW d, Sound(d), NEW order, NEW ops, Cascade(d, order, ops),
         NEW S \in SUBSET Ids, S = Firsts(order, Len(ops)),
         \A i \in Ids : d.items[i].parent \in S => i \in S,
         \A k \in 2..Len(ops) : d.items[order[k]].parent \in S
  PROVE  Connects(ops, d, Cut(d, order, Len(ops)))
PROOF
<1>1. PICK N \in Nat : N = Len(ops)
  BY DEF Cascade
<1>2. PICK e : e = Cut(d, order, N)
  OBVIOUS
<1>3. /\ Cut(d, order, 0) = d
      /\ \A n \in 0..N : Erased(d, Firsts(order, n), Cut(d, order, n))
      /\ \A n \in 1..N : Lost(Cut(d, order, n - 1), order[n], Cut(d, order, n))
  BY <1>1, CutFacts DEF Sound
<1>4. Erased(d, S, e) /\ Sound(e)
  <2>1. N \in 0..N
    OBVIOUS
  <2>2. Erased(d, S, e)
    BY <1>1, <1>2, <1>3, <2>1
  <2> QED BY <2>2, CutSound
<1>5. PICK path : path = Cuts(d, order)
  OBVIOUS
<1>6. /\ path[0] = d /\ path[N] = e
      /\ Ordered(ops, path)
      /\ \A n \in 1..N : Reverses(path[n - 1], ops[n], path[n])
  <2>1. Sound(Cut(d, order, Len(ops)))
    BY <1>1, <1>2, <1>4
  <2>2. /\ Cuts(d, order)[0] = d /\ Cuts(d, order)[Len(ops)] = Cut(d, order, Len(ops))
        /\ Ordered(ops, Cuts(d, order))
        /\ \A n \in 1..Len(ops) : Reverses(Cuts(d, order)[n - 1], ops[n], Cuts(d, order)[n])
    BY <2>1, CascadePath
  <2> QED BY <1>1, <1>2, <1>5, <2>2
<1>7. \A n \in 0..N : path[n] = Cut(d, order, n)
  <2>1. \A n \in 0..N : n \in Nat
    OBVIOUS
  <2> QED BY <1>5, <2>1 DEF Cuts
<1>8. \A n \in 1..N : ops[n].kind \in Erasures
  BY <1>1 DEF Cascade
<1>9. ASSUME NEW g \in S PROVE d.items[g] # Absent /\ e.items[g] = Absent /\ e.groups[g] = <<>>
  <2>1. PICK k \in 1..N : g = order[k]
    BY <1>1 DEF Firsts
  <2>2. d.items[g].kind # "absent" /\ g \in Ids
    BY <1>1, <2>1 DEF Cascade
  <2>3. e.items[g] = Absent
    BY <1>4 DEF Erased
  <2> QED BY <1>4, <2>2, <2>3, AbsentEmpty DEF Absent
<1>10. ASSUME NEW n \in 1..N
       PROVE  IF n <= N /\ JoinsOne(ops[n].item, S) THEN d.items[ops[n].id] = ops[n].item
              ELSE Exact(path[n - 1], ops[n], path[n])
  <2>1. PICK x \in Ids : x = order[n]
    BY <1>1 DEF Cascade
  <2>2. ops[n].id = x /\ ops[n].item = d.items[x] /\ ops[n].kind # "ItemInserted"
    BY <1>1, <2>1 DEF Cascade, Erasures
  <2>3. ASSUME ~JoinsOne(ops[n].item, S) PROVE path[n - 1].items[x] = d.items[x]
    <3>1. CASE n = 1
      BY <1>6, <3>1
    <3>2. CASE n # 1
      <4>1. n \in 2..N /\ n - 1 \in 0..N
        BY <3>2
      <4>2. d.items[x].parent \in S
        BY <1>1, <2>1, <4>1
      <4>3. ~Participates(d.items[x])
        BY <2>2, <2>3, <4>2 DEF JoinsOne, Joins
      <4>4. PICK q : q = path[n - 1]
        OBVIOUS
      <4>5. Erased(d, Firsts(order, n - 1), q)
        BY <1>3, <1>7, <4>1, <4>4
      <4>6. x \notin Firsts(order, n - 1)
        <5> SUFFICES ASSUME NEW k \in 1..(n - 1), order[k] = x PROVE FALSE
          BY DEF Firsts
        <5>1. k \in 1..N /\ k # n
          OBVIOUS
        <5> QED BY <1>1, <2>1, <5>1 DEF Cascade
      <4>7. Akin(d.items[x], q.items[x]) /\ InOrder(q)
        BY <4>5, <4>6 DEF Erased
      <4>8. /\ d.items[x] \in Items /\ Plain(d.items[x])
            /\ q.items[x] \in Items /\ Plain(q.items[x])
        BY <4>7, SoundFacts, OrderTyped
      <4>9. d.items[x] = q.items[x]
        BY <4>3, <4>7, <4>8, SameItem
      <4> QED BY <4>4, <4>9
    <3> QED BY <3>1, <3>2
  <2> QED BY <2>2, <2>3 DEF Exact
<1>11. \A g \in S : \A n \in N..N : path[n].groups[g] = <<>>
  BY <1>6, <1>9
<1>12. ConnectsVia(ops, d, e, path, S, N)
  BY <1>1, <1>6, <1>8, <1>9, <1>10, <1>11 DEF ConnectsVia
<1>13. N \in 0..Len(ops)
  BY <1>1
<1>14. Connects(ops, d, e)
  BY <1>12, <1>13 DEF Connects
<1> QED BY <1>1, <1>2, <1>14

(* What is taken out of the lists from their ends is recorded as it is     *)
(* when it goes.                                                           *)
LEMMA CascadeExact ==
  ASSUME NEW d, Sound(d), NEW order, NEW ops, Cascade(d, order, ops),
         \A j, k \in 1..Len(ops) :
           /\ j < k /\ Participates(d.items[order[j]]) /\ Participates(d.items[order[k]])
           /\ d.items[order[j]].parent = d.items[order[k]].parent
           => d.items[order[j]].index > d.items[order[k]].index
  PROVE  \A n \in 1..Len(ops) : Cut(d, order, n - 1).items[order[n]] = d.items[order[n]]
PROOF
<1>1. PICK N \in Nat : N = Len(ops)
  BY DEF Cascade
<1>2. /\ Cut(d, order, 0) = d
      /\ \A n \in 0..N : Erased(d, Firsts(order, n), Cut(d, order, n))
      /\ \A n \in 1..N : Lost(Cut(d, order, n - 1), order[n], Cut(d, order, n))
  BY <1>1, CutFacts DEF Sound
<1>3. \A k \in 1..N : order[k] \in Ids
  BY <1>1 DEF Cascade
<1> DEFINE Same(n) == \A j \in (n + 1)..N : Cut(d, order, n).items[order[j]] = d.items[order[j]]
<1> DEFINE T == {n \in 0..N : Same(n)}
<1>4. 0 \in T
  BY <1>2
<1>5. ASSUME NEW n \in 0..(N - 1), Same(n) PROVE Same(n + 1)
  <2> SUFFICES ASSUME NEW j \in (n + 1 + 1)..N
               PROVE  Cut(d, order, n + 1).items[order[j]] = d.items[order[j]]
    OBVIOUS
  <2>1. PICK m \in 1..N : m = n + 1 /\ n = m - 1 /\ n \in 0..N /\ m \in 0..N
    OBVIOUS
  <2>2. j \in 1..N /\ j # m /\ m < j /\ j \in (n + 1)..N /\ m \in (n + 1)..N
    BY <2>1
  <2>3. PICK q, f : q = Cut(d, order, n) /\ f = Cut(d, order, m)
    OBVIOUS
  <2>4. PICK x \in Ids, y \in Ids : x = order[m] /\ y = order[j]
    BY <1>3, <2>2
  <2>5. x # y
    BY <1>1, <2>2, <2>4 DEF Cascade
  <2>6. q.items[x] = d.items[x] /\ q.items[y] = d.items[y]
    BY <1>5, <2>2, <2>3, <2>4
  <2>7. InOrder(q) /\ InOrder(f)
    BY <1>2, <2>1, <2>3 DEF Erased
  <2>8. Lost(q, x, f)
    <3>1. Lost(Cut(d, order, m - 1), order[m], Cut(d, order, m))
      BY <1>2
    <3> QED BY <2>1, <2>3, <2>4, <3>1
  <2>9. Akin(q.items[y], f.items[y])
    BY <2>5, <2>8 DEF Lost
  <2>10. PICK s, t : s = q.items[y] /\ t = f.items[y]
    OBVIOUS
  <2>11. s \in Items /\ t \in Items /\ Plain(s) /\ Plain(t) /\ Akin(s, t)
    BY <2>7, <2>9, <2>10, OrderTyped
  <2>12. ASSUME Participates(s) PROVE t.index = s.index
    <3>1. PICK g \in Ids : g = s.parent
      BY <2>11, <2>12, ItemFacts
    <3>2. /\ q.groups[g] \in Seq(Ids) /\ Distinct(q.groups[g])
          /\ Contains(q.groups[g], y)
      <4>1. y \in Ids \ {NoId} /\ Participates(q.items[y]) /\ q.items[y].parent = g
        BY <2>10, <2>12, <3>1, ItemFacts
      <4>2. Contains(q.groups[g], y)
        BY <2>7, <4>1 DEF InOrder, InOrderBut
      <4> QED BY <2>7, <4>2, OrderFacts DEF InOrder
    <3>3. PICK l : l = q.groups[g]
      OBVIOUS
    <3>4. f.groups[g] = RemoveElement(l, x)
      BY <2>8, <3>3 DEF Lost
    <3>5. PICK i \in DOMAIN l : l[i] = y
      BY <3>2, <3>3 DEF Contains
    <3>6. s = Elem(g, i - 1) /\ i \in Nat /\ i - 1 \in Nat
      <4>1. q.items[l[i]] = Elem(g, i - 1)
        BY <2>7, <3>3, <3>5, OrderTyped
      <4> QED BY <2>10, <3>2, <3>3, <3>5, <4>1
    <3>7. ASSUME NEW r \in Seq(Ids), f.groups[g] = r, i \in DOMAIN r, r[i] = y
          PROVE  t.index = s.index
      <4>1. f.items[r[i]] = Elem(g, i - 1)
        BY <2>7, <3>7, OrderTyped
      <4>2. t = Elem(g, i - 1)
        BY <2>10, <3>7, <4>1
      <4> QED BY <3>6, <4>2
    <3>8. CASE ~Contains(l, x)
      <4>1. RemoveElement(l, x) = l
        BY <3>8 DEF RemoveElement
      <4> QED BY <3>2, <3>3, <3>4, <3>5, <3>7, <4>1
    <3>9. CASE Contains(l, x)
      <4>1. PICK k \in DOMAIN l : l[k] = x
        BY <3>2, <3>3, <3>9 DEF Contains
      <4>2. q.items[x] = Elem(g, k - 1) /\ k \in Nat /\ k - 1 \in Nat
        <5>1. q.items[l[k]] = Elem(g, k - 1)
          BY <2>7, <3>3, <4>1, OrderTyped
        <5> QED BY <3>2, <3>3, <4>1, <5>1
      <4>3. d.items[x] = Elem(g, k - 1) /\ d.items[y] = Elem(g, i - 1)
        BY <2>6, <2>10, <3>6, <4>2
      <4>4. /\ Participates(d.items[x]) /\ Participates(d.items[y])
            /\ d.items[x].parent = d.items[y].parent
            /\ d.items[x].index = k - 1 /\ d.items[y].index = i - 1
        <5>1. \A index \in Nat : /\ Participates(Elem(g, index))
                                 /\ Elem(g, index).parent = g /\ Elem(g, index).index = index
          BY ItemFacts
        <5> QED BY <3>6, <4>2, <4>3, <5>1
      <4>5. k - 1 > i - 1
        BY <1>1, <2>2, <2>4, <4>4
      <4>6. i < k
        BY <3>6, <4>2, <4>5
      <4>7. /\ RemoveElement(l, l[k]) \in Seq(Ids)
            /\ Len(RemoveElement(l, l[k])) = Len(l) - 1
            /\ \A p \in 1..(k - 1) : RemoveElement(l, l[k])[p] = l[p]
        BY <3>2, <3>3, <4>1, RemoveElementFacts
      <4>8. PICK r : r = RemoveElement(l, x)
        OBVIOUS
      <4>9. i \in 1..(k - 1) /\ i \in 1..(Len(l) - 1)
        <5>1. DOMAIN l = 1..Len(l) /\ Len(l) \in Nat
          BY <3>2, <3>3
        <5> QED BY <3>5, <4>1, <4>6, <5>1
      <4>10. r \in Seq(Ids) /\ Len(r) = Len(l) - 1 /\ r[i] = y
        BY <3>5, <4>1, <4>7, <4>8, <4>9
      <4>11. i \in DOMAIN r
        BY <4>9, <4>10
      <4> QED BY <3>4, <3>7, <4>8, <4>10, <4>11
    <3> QED BY <3>8, <3>9
  <2>13. s = t
    BY <2>11, <2>12, SameItem
  <2> QED BY <2>1, <2>3, <2>4, <2>6, <2>10, <2>13
<1>6. ASSUME NEW n \in 0..(N - 1), n \in T PROVE n + 1 \in T
  BY <1>5, <1>6
<1> HIDE DEF T
<1>7. 0..N \subseteq T
  BY <1>4, <1>6, Induction
<1> SUFFICES ASSUME NEW n \in 1..N
             PROVE  Cut(d, order, n - 1).items[order[n]] = d.items[order[n]]
  BY <1>1
<1>8. PICK m \in 0..N : m = n - 1 /\ n \in (m + 1)..N
  OBVIOUS
<1>9. m \in T
  BY <1>7
<1>10. Same(m)
  BY <1>9 DEF T
<1> QED BY <1>8, <1>10

(* A cascade that takes the lists from their ends may come anywhere in a   *)
(* change set.                                                             *)
LEMMA CascadeLinks ==
  ASSUME NEW d, Sound(d), NEW order, NEW ops, Cascade(d, order, ops),
         Sound(Cut(d, order, Len(ops))),
         \A n \in 1..Len(ops) : Cut(d, order, n - 1).items[order[n]] = d.items[order[n]]
  PROVE  Links(ops, d, Cut(d, order, Len(ops)))
PROOF
<1>1. PICK N \in Nat : N = Len(ops)
  BY DEF Cascade
<1>2. PICK e : e = Cut(d, order, N)
  OBVIOUS
<1>3. PICK path : path = Cuts(d, order)
  OBVIOUS
<1>4. /\ path[0] = d /\ path[N] = e
      /\ Ordered(ops, path)
      /\ \A n \in 1..N : Reverses(path[n - 1], ops[n], path[n])
  <2>1. /\ Cuts(d, order)[0] = d /\ Cuts(d, order)[Len(ops)] = Cut(d, order, Len(ops))
        /\ Ordered(ops, Cuts(d, order))
        /\ \A n \in 1..Len(ops) : Reverses(Cuts(d, order)[n - 1], ops[n], Cuts(d, order)[n])
    BY CascadePath
  <2> QED BY <1>1, <1>2, <1>3, <2>1
<1>5. \A n \in 0..N : path[n] = Cut(d, order, n)
  <2>1. \A n \in 0..N : n \in Nat
    OBVIOUS
  <2> QED BY <1>3, <2>1 DEF Cuts
<1>6. ASSUME NEW n \in 1..N PROVE Exact(path[n - 1], ops[n], path[n])
  <2>1. n - 1 \in 0..N
    OBVIOUS
  <2>2. path[n - 1].items[order[n]] = d.items[order[n]]
    BY <1>1, <1>5, <2>1
  <2>3. ops[n].id = order[n] /\ ops[n].item = d.items[order[n]] /\ ops[n].kind # "ItemInserted"
    BY <1>1 DEF Cascade, Erasures
  <2> QED BY <2>2, <2>3 DEF Exact
<1>7. ASSUME NEW g \in Ids, d.groups[g] = <<>>, NEW n \in 0..N PROVE path[n].groups[g] = <<>>
  <2>1. Erased(d, Firsts(order, n), path[n])
    BY <1>1, <1>5, CutFacts DEF Sound
  <2>2. path[n].groups[g] = RetainElements(<<>>, Firsts(order, n))
    BY <1>7, <2>1 DEF Erased
  <2>3. <<>> \in Seq(Ids) /\ Len(<<>>) = 0
    OBVIOUS
  <2>4. PICK trace : Retains(trace, <<>>, Firsts(order, n))
    BY <2>3, RetainTrace
  <2> QED BY <2>2, <2>3, <2>4 DEF Retains
<1>8. Links(ops, d, e)
  BY <1>1, <1>4, <1>6, <1>7 DEF Links
<1> QED BY <1>1, <1>2, <1>8

(* Lists without any of the removed items stay as they are.                *)
LEMMA CutUntouched ==
  ASSUME NEW d, Sound(d), NEW order, NEW ops, Cascade(d, order, ops), NEW g \in Ids,
         \A k \in 1..Len(ops) : ~Contains(d.groups[g], order[k])
  PROVE  Cut(d, order, Len(ops)).groups[g] = d.groups[g]
PROOF
<1>1. PICK N \in Nat : N = Len(ops)
  BY DEF Cascade
<1>2. /\ Cut(d, order, 0) = d
      /\ \A n \in 1..N : Lost(Cut(d, order, n - 1), order[n], Cut(d, order, n))
  BY <1>1, CutFacts DEF Sound
<1> DEFINE T == {n \in 0..N : Cut(d, order, n).groups[g] = d.groups[g]}
<1>3. 0 \in T
  BY <1>2
<1>4. ASSUME NEW n \in 0..(N - 1), n \in T PROVE n + 1 \in T
  <2>1. PICK m \in 1..N : m = n + 1 /\ m - 1 = n /\ m \in 0..N
    OBVIOUS
  <2>2. Cut(d, order, n).groups[g] = d.groups[g]
    BY <1>4
  <2>3. Lost(Cut(d, order, m - 1), order[m], Cut(d, order, m))
    BY <1>2
  <2>4. Cut(d, order, m).groups[g] = RemoveElement(d.groups[g], order[m])
    BY <2>1, <2>2, <2>3 DEF Lost
  <2>5. RemoveElement(d.groups[g], order[m]) = d.groups[g]
    BY <1>1 DEF RemoveElement
  <2> QED BY <2>1, <2>4, <2>5
<1> HIDE DEF T
<1>5. 0..N \subseteq T
  BY <1>3, <1>4, Induction
<1>6. N \in T
  BY <1>5
<1> QED BY <1>1, <1>6 DEF T

(* Everything below an item of the document, with the item itself          *)
LEMMA DescendantsFacts ==
  ASSUME Sound(doc), NEW id \in Ids, Present(doc, id)
  PROVE  /\ id \in Descendants(id) /\ Descendants(id) \in SUBSET Ids
         /\ \A i \in Descendants(id) : doc.items[i].kind # "absent"
         /\ \A i \in Ids : doc.items[i].parent \in Descendants(id) => i \in Descendants(id)
         /\ \A i \in Descendants(id) : i # id => doc.items[i].parent \in Descendants(id)
PROOF
<1>1. doc \in Docs /\ \A i \in Ids : doc.items[i] \in Items /\ Plain(doc.items[i])
  BY SoundFacts
<1>2. PICK rank : Ranked(doc, rank)
  BY DEF Sound, Rooted
<1>3. ASSUME NEW i \in Ids
      PROVE  /\ i \in Lineage(doc, i) /\ Lineage(doc, i) \in SUBSET Ids
             /\ \A j \in Lineage(doc, i) : Above(doc, j) \in Lineage(doc, i) \cup {NoId}
  BY <1>1, <1>2, LineageClosed
<1>4. \A i \in Ids : i \in Descendants(id) <=> Present(doc, i) /\ id \in Lineage(doc, i)
  BY DEF Descendants
<1>5. id \in Descendants(id) /\ Descendants(id) \in SUBSET Ids
  BY <1>3 DEF Descendants
<1>6. \A i \in Descendants(id) : doc.items[i].kind # "absent"
  BY <1>1, <1>4, <1>5, KindFacts DEF Present
<1>7. ASSUME NEW i \in Ids, doc.items[i].parent \in Descendants(id) PROVE i \in Descendants(id)
  <2>1. PICK p \in Ids : p = doc.items[i].parent /\ p \in Descendants(id)
    BY <1>5, <1>7
  <2>2. p # NoId
    BY ItemFacts
  <2>3. Present(doc, i)
    BY <2>1, <2>2 DEF Present, Absent
  <2>4. Above(doc, i) = p
    BY <2>1, <2>3 DEF Above
  <2>5. PICK S \in SUBSET Ids : S = Lineage(doc, i)
    BY <1>3
  <2>6. p \in S /\ \A j \in S : Above(doc, j) \in S \cup {NoId}
    BY <1>3, <2>2, <2>4, <2>5
  <2>7. Lineage(doc, p) \subseteq S
    BY <1>1, <2>6, LineageInside
  <2>8. id \in Lineage(doc, p)
    BY <1>4, <2>1
  <2> QED BY <1>4, <2>3, <2>5, <2>7, <2>8
<1>8. ASSUME NEW i \in Descendants(id), i # id PROVE doc.items[i].parent \in Descendants(id)
  <2>1. i \in Ids /\ Present(doc, i) /\ id \in Lineage(doc, i)
    BY <1>4, <1>5
  <2>2. PICK p : p = doc.items[i].parent
    OBVIOUS
  <2>3. p \in Ids \cup {NoId} /\ Above(doc, i) = p
    BY <1>1, <2>1, <2>2, ItemFacts DEF Above
  <2>4. CASE p = NoId
    <3>1. Lineage(doc, i) \subseteq {i}
      <4>1. {i} \in SUBSET Ids /\ i \in {i} /\ \A j \in {i} : Above(doc, j) \in {i} \cup {NoId}
        BY <2>1, <2>3, <2>4
      <4> QED BY <1>1, <2>1, <4>1, LineageInside
    <3> QED BY <1>8, <2>1, <3>1
  <2>5. CASE p # NoId
    <3>1. p \in Ids
      BY <2>3, <2>5
    <3>2. PICK S \in SUBSET Ids : S = {i} \cup Lineage(doc, p)
      BY <1>3, <2>1, <3>1
    <3>3. i \in S /\ \A j \in S : Above(doc, j) \in S \cup {NoId}
      BY <1>3, <2>3, <3>1, <3>2
    <3>4. Lineage(doc, i) \subseteq S
      BY <1>1, <2>1, <3>3, LineageInside
    <3>5. id \in Lineage(doc, p)
      BY <1>8, <2>1, <3>2, <3>4
    <3>6. Present(doc, p)
      <4>1. doc.items[p].kind = KindAbove(doc.items[i])
        BY <1>2, <2>1, <2>2, <2>5 DEF Ranked
      <4>2. doc.items[p].kind # "absent"
        BY <4>1, KindFacts
      <4> QED BY <3>1, <4>2 DEF Present, Absent
    <3> QED BY <1>4, <2>2, <3>1, <3>5, <3>6
  <2> QED BY <2>4, <2>5
<1> QED BY <1>5, <1>6, <1>7, <1>8
-----------------------------------------------------------------------------
(***************************************************************************)
(* The rollback journal                                                    *)
(***************************************************************************)
(* j tells what d has been, b aside from indexes, when a transaction first *)
(* touched an item or a group.                                             *)
JournalOf(j, b, d) ==
  /\ DOMAIN j.items \subseteq Ids /\ DOMAIN j.groups \subseteq Ids
  /\ \A i \in DOMAIN j.items :
       j.items[i] \in Items /\ Plain(j.items[i]) /\ Akin(b.items[i], j.items[i])
  /\ \A g \in DOMAIN j.groups : j.groups[g] = b.groups[g]
  /\ Near(b, d, DOMAIN j.items, DOMAIN j.groups)

Recorded(j, d, items, groups) ==
  [items |-> Overlay(j.items, [id \in items |-> d.items[id]]),
   groups |-> Overlay(j.groups, [g \in groups |-> d.groups[g]])]

(* o is f, and h where f has no value.                                     *)
Overlays(o, f, h) ==
  /\ o = [x \in DOMAIN f \cup DOMAIN h |-> o[x]]
  /\ \A x \in DOMAIN f : o[x] = f[x]
  /\ \A x \in DOMAIN h : x \notin DOMAIN f => o[x] = h[x]

(* Overlay is such an o.                                                   *)
LEMMA OverlayFacts ==
  ASSUME NEW f, NEW h
  PROVE  Overlays(Overlay(f, h), f, h)
PROOF
  BY DEF Overlay, Overlays

(* The journal gives back the document the transaction began with, if the  *)
(* indexes come out right.                                                 *)
LEMMA JournalRestores ==
  ASSUME NEW b, Sound(b), NEW j, NEW d, JournalOf(j, b, d), Numbered(Restored(d, j))
  PROVE  Restored(d, j) = b
PROOF
<1> DEFINE r == Restored(d, j)
<1>1. /\ d.items \in [Ids -> Items] /\ d.groups \in [Ids -> Seq(Ids)]
      /\ \A i \in Ids : d.items[i] \in Items /\ Plain(d.items[i])
  BY DocFacts DEF JournalOf, Near
<1>2. /\ b.items \in [Ids -> Items] /\ b.groups \in [Ids -> Seq(Ids)]
      /\ \A i \in Ids : b.items[i] \in Items /\ Plain(b.items[i])
      /\ b = [items |-> b.items, groups |-> b.groups] /\ InOrder(b)
  BY SoundFacts, DocFacts
<1>3. /\ r = [items |-> r.items, groups |-> r.groups]
      /\ Overlays(r.items, j.items, d.items) /\ Overlays(r.groups, j.groups, d.groups)
  <2>1. /\ r.items = Overlay(j.items, d.items) /\ r.groups = Overlay(j.groups, d.groups)
        /\ r = [items |-> r.items, groups |-> r.groups]
    BY DEF Restored
  <2> HIDE DEF r
  <2>2. /\ Overlays(Overlay(j.items, d.items), j.items, d.items)
        /\ Overlays(Overlay(j.groups, d.groups), j.groups, d.groups)
    BY OverlayFacts
  <2> QED BY <2>1, <2>2
<1> HIDE DEF r
<1>4. r.groups = b.groups
  <2>1. DOMAIN j.groups \cup Ids = Ids
    BY DEF JournalOf
  <2>2. ASSUME NEW g \in Ids PROVE r.groups[g] = b.groups[g]
    <3>1. CASE g \in DOMAIN j.groups
      <4>1. r.groups[g] = j.groups[g]
        BY <1>3, <3>1 DEF Overlays
      <4> QED BY <3>1, <4>1 DEF JournalOf
    <3>2. CASE g \notin DOMAIN j.groups
      <4>1. r.groups[g] = d.groups[g]
        BY <1>1, <1>3, <3>2 DEF Overlays
      <4> QED BY <3>2, <4>1 DEF JournalOf, Near
    <3> QED BY <3>1, <3>2
  <2>3. r.groups = [g \in Ids |-> r.groups[g]]
    BY <1>1, <1>3, <2>1 DEF Overlays
  <2> QED BY <1>2, <2>2, <2>3
<1>5. ASSUME NEW i \in Ids
      PROVE  r.items[i] \in Items /\ Plain(r.items[i]) /\ Akin(b.items[i], r.items[i])
  <2>1. CASE i \in DOMAIN j.items
    <3>1. r.items[i] = j.items[i]
      BY <1>3, <2>1 DEF Overlays
    <3> QED BY <2>1, <3>1 DEF JournalOf
  <2>2. CASE i \notin DOMAIN j.items
    <3>1. r.items[i] = d.items[i]
      BY <1>1, <1>3, <2>2 DEF Overlays
    <3> QED BY <1>1, <2>2, <3>1 DEF JournalOf, Near
  <2> QED BY <2>1, <2>2
<1>6. ASSUME NEW i \in Ids PROVE r.items[i] = b.items[i]
  <2>1. ASSUME Participates(b.items[i]) PROVE r.items[i].index = b.items[i].index
    <3> DEFINE g == b.items[i].parent
    <3>1. g \in Ids /\ i \in Ids \ {NoId}
      BY <1>2, <2>1, ItemFacts
    <3> HIDE DEF g
    <3>2. Contains(b.groups[g], i)
      BY <1>2, <2>1, <3>1, OrderFacts DEF InOrder, g
    <3>3. PICK k \in 1..Len(b.groups[g]) : b.groups[g][k] = i
      BY <3>2 DEF Contains
    <3>4. k \in DOMAIN b.groups[g] /\ k - 1 \in Nat
      BY <1>2, <3>1
    <3>5. b.items[i] = Elem(g, k - 1)
      BY <1>2, <3>1, <3>3, <3>4 DEF InOrder, InOrderBut
    <3>6. r.items[i].index = k - 1
      BY <1>4, <3>1, <3>3, <3>4 DEF Numbered, r
    <3> QED BY <3>1, <3>4, <3>5, <3>6, ItemFacts
  <2> QED BY <1>2, <1>5, <2>1, SameItem
<1>7. r.items = b.items
  <2>1. DOMAIN j.items \cup Ids = Ids
    BY DEF JournalOf
  <2>2. r.items = [i \in Ids |-> r.items[i]]
    BY <1>1, <1>3, <2>1 DEF Overlays
  <2> QED BY <1>2, <1>6, <2>2
<1> QED BY <1>2, <1>3, <1>4, <1>7 DEF r

(* recordRollbackItem and recordRollbackListGroup                          *)
LEMMA JournalRecords ==
  ASSUME NEW b, NEW j, NEW d, Sound(d), JournalOf(j, b, d),
         NEW items \in SUBSET Ids, NEW groups \in SUBSET Ids, NEW e, Near(d, e, items, groups)
  PROVE  JournalOf(Recorded(j, d, items, groups), b, e)
PROOF
<1> DEFINE n == Recorded(j, d, items, groups)
<1> DEFINE fi == [id \in items |-> d.items[id]]
<1> DEFINE fg == [g \in groups |-> d.groups[g]]
<1>1. Overlays(n.items, j.items, fi) /\ Overlays(n.groups, j.groups, fg)
  <2>1. n.items = Overlay(j.items, fi) /\ n.groups = Overlay(j.groups, fg)
    BY DEF Recorded
  <2> HIDE DEF n, fi, fg
  <2>2. /\ Overlays(Overlay(j.items, fi), j.items, fi)
        /\ Overlays(Overlay(j.groups, fg), j.groups, fg)
    BY OverlayFacts
  <2> QED BY <2>1, <2>2
<1>2. /\ DOMAIN fi = items /\ \A i \in items : fi[i] = d.items[i]
      /\ DOMAIN fg = groups /\ \A g \in groups : fg[g] = d.groups[g]
  OBVIOUS
<1> HIDE DEF n, fi, fg
<1>3. /\ DOMAIN n.items = DOMAIN j.items \cup items
      /\ \A i \in DOMAIN j.items : n.items[i] = j.items[i]
      /\ \A i \in items : i \notin DOMAIN j.items => n.items[i] = d.items[i]
  BY <1>1, <1>2 DEF Overlays
<1>4. /\ DOMAIN n.groups = DOMAIN j.groups \cup groups
      /\ \A g \in DOMAIN j.groups : n.groups[g] = j.groups[g]
      /\ \A g \in groups : g \notin DOMAIN j.groups => n.groups[g] = d.groups[g]
  BY <1>1, <1>2 DEF Overlays
<1>5. DOMAIN n.items \subseteq Ids /\ DOMAIN n.groups \subseteq Ids
  BY <1>3, <1>4 DEF JournalOf
<1>6. ASSUME NEW i \in DOMAIN n.items
      PROVE  n.items[i] \in Items /\ Plain(n.items[i]) /\ Akin(b.items[i], n.items[i])
  <2>1. CASE i \in DOMAIN j.items
    BY <1>3, <2>1 DEF JournalOf
  <2>2. CASE i \notin DOMAIN j.items
    <3>1. n.items[i] = d.items[i] /\ i \in Ids
      BY <1>3, <1>6, <2>2
    <3>2. Akin(b.items[i], d.items[i])
      BY <2>2, <3>1 DEF JournalOf, Near
    <3> QED BY <3>1, <3>2, SoundFacts
  <2> QED BY <2>1, <2>2
<1>7. ASSUME NEW g \in DOMAIN n.groups PROVE n.groups[g] = b.groups[g]
  <2>1. CASE g \in DOMAIN j.groups
    BY <1>4, <2>1 DEF JournalOf
  <2>2. CASE g \notin DOMAIN j.groups
    <3>1. n.groups[g] = d.groups[g] /\ g \in Ids
      BY <1>4, <1>7, <2>2
    <3> QED BY <2>2, <3>1 DEF JournalOf, Near
  <2> QED BY <2>1, <2>2
<1>8. Near(b, e, DOMAIN n.items, DOMAIN n.groups)
  <2>1. ASSUME NEW i \in Ids \ DOMAIN n.items PROVE Akin(b.items[i], e.items[i])
    <3>1. i \in Ids \ DOMAIN j.items /\ i \in Ids \ items
      BY <1>3, <2>1
    <3>2. Akin(b.items[i], d.items[i]) /\ Akin(d.items[i], e.items[i])
      BY <3>1 DEF JournalOf, Near
    <3> QED BY <3>2 DEF Akin
  <2>2. ASSUME NEW g \in Ids \ DOMAIN n.groups PROVE e.groups[g] = b.groups[g]
    <3>1. g \in Ids \ DOMAIN j.groups /\ g \in Ids \ groups
      BY <1>4, <2>2
    <3> QED BY <3>1 DEF JournalOf, Near
  <2> QED BY <2>1, <2>2 DEF Near
<1>9. JournalOf(n, b, e)
  BY <1>5, <1>6, <1>7, <1>8 DEF JournalOf
<1> QED BY <1>9 DEF n

(* The empty journal is one of a document that has not changed.            *)
LEMMA JournalEmpty ==
  ASSUME NEW d, Sound(d)
  PROVE  JournalOf(EmptyJournal, d, d)
PROOF
<1>1. DOMAIN EmptyJournal.items = {} /\ DOMAIN EmptyJournal.groups = {}
  BY DEF EmptyJournal
<1>2. Near(d, d, {}, {})
  BY Untouched
<1> QED BY <1>1, <1>2 DEF JournalOf

(* A sound document is a document of the model: no list is longer than     *)
(* there are ids.                                                          *)
LEMMA SoundTyped ==
  ASSUME NEW d, Sound(d)
  PROVE  d \in Documents
PROOF
<1>1. MaxId \in Nat \ {0}
  BY ChangesAssumption
<1>2. ASSUME NEW group \in Seq(Ids), Distinct(group) PROVE Len(group) <= MaxId
  <2> SUFFICES ASSUME ~(Len(group) <= MaxId) PROVE FALSE
    OBVIOUS
  <2>1. group \in [1..Len(group) -> Ids] /\ Len(group) \in Nat
    OBVIOUS
  <2>2. IsFiniteSet(1..Len(group)) /\ Cardinality(1..Len(group)) = Len(group)
    <3>1. \A n \in Nat : IsFiniteSet(1..n) /\ Cardinality(1..n) = n
      BY FS_Interval
    <3> QED BY <2>1, <3>1
  <2>3. IsFiniteSet(Ids) /\ Cardinality(Ids) = MaxId
    BY <1>1, FS_Interval DEF Ids
  <2>4. Cardinality(Ids) < Cardinality(1..Len(group))
    BY <1>1, <2>1, <2>2, <2>3
  <2>5. \E x, y \in 1..Len(group) : x # y /\ group[x] = group[y]
    BY <2>1, <2>2, <2>3, <2>4, FS_PigeonHole
  <2> QED BY <1>2, <2>1, <2>5 DEF Distinct
<1>3. /\ d.items \in [Ids -> Items] /\ d.groups \in [Ids -> Seq(Ids)]
      /\ \A i \in Ids : d.items[i] \in Items /\ Plain(d.items[i])
      /\ d = [items |-> d.items, groups |-> d.groups] /\ InOrder(d)
  BY SoundFacts, DocFacts
<1>4. ASSUME NEW i \in Ids PROVE d.items[i] \in Snapshots \cup {Absent}
  <2>1. d.items[i].index \in Indexes
    <3>1. CASE ~Participates(d.items[i])
      <4>1. d.items[i].index = 0
        BY <1>3, <3>1 DEF Plain
      <4> QED BY <1>1, <4>1 DEF Indexes
    <3>2. CASE Participates(d.items[i])
      <4> DEFINE g == d.items[i].parent
      <4>1. g \in Ids
        BY <1>3, <3>2, ItemFacts
      <4> HIDE DEF g
      <4>2. d.items[i].index \in 0..Len(RemoveElement(d.groups[g], i))
        BY <1>3, <3>2, <4>1, GroupWithout DEF g
      <4>3. /\ RemoveElement(d.groups[g], i) \in Seq(Ids)
            /\ Distinct(RemoveElement(d.groups[g], i))
        BY <1>3, <4>1, GroupWithout
      <4>4. Len(RemoveElement(d.groups[g], i)) <= MaxId
        BY <1>2, <4>3
      <4> QED BY <1>1, <4>2, <4>3, <4>4 DEF Indexes
    <3> QED BY <3>1, <3>2
  <2>2. d.items[i].kind = "absent" => d.items[i] = Absent
    BY <1>3, ItemFacts
  <2>3. d.items[i].kind # "absent" => d.items[i] \in Snapshots
    <3>1. /\ d.items[i].kind \in {"row", "elem", "absent"}
          /\ d.items[i].parent \in Ids \cup {NoId}
          /\ d.items[i] = [kind |-> d.items[i].kind, parent |-> d.items[i].parent,
                           index |-> d.items[i].index]
      BY <1>3, ItemFacts
    <3> QED BY <2>1, <3>1 DEF Snapshots
  <2> QED BY <2>2, <2>3
<1>5. d.items \in [Ids -> Snapshots \cup {Absent}]
  BY <1>3, <1>4
<1> QED BY <1>3, <1>5 DEF Documents
-----------------------------------------------------------------------------
(***************************************************************************)
(* The undo and redo stacks                                                *)
(***************************************************************************)
(* No item has an id that is still to be generated.                        *)
Fresh(d, n) == \A i \in Ids : i >= n => d.items[i] = Absent

Usable(d, n) == Sound(d) /\ Fresh(d, n)

Steps == [operations : Seq(MildOps), before : Docs, after : Docs]

StepSound(s, n) ==
  /\ Connects(s.operations, s.before, s.after)
  /\ Usable(s.before, n)
  /\ Usable(s.after, n)

(* The documents on either side of a step, seen from the present           *)
Nearer(way, s) == IF way = "undo" THEN s.after ELSE s.before
Farther(way, s) == IF way = "undo" THEN s.before ELSE s.after

(* A stack of steps that lead from the present document, b, step by step   *)
(* to the documents behind them, n being the next id                       *)
Trail(steps, way, b, n) ==
  /\ steps \in Seq(Steps)
  /\ \A k \in 1..Len(steps) :
       /\ StepSound(steps[k], n)
       /\ Nearer(way, steps[k]) = IF k = Len(steps) THEN b ELSE Farther(way, steps[k + 1])

(* The documents of the trail: past and future of the abstract history     *)
Stops(steps, way) == [k \in DOMAIN steps |-> Farther(way, steps[k])]

(* The stacks as the refinement mapping of HistorySpec reads them          *)
LEMMA StopsFacts ==
  /\ Stops(undoStack, "undo") = [k \in DOMAIN undoStack |-> undoStack[k].before]
  /\ Stops(redoStack, "redo") = [k \in DOMAIN redoStack |-> redoStack[k].after]
PROOF
  BY DEF Stops, Farther

(* Ids are never handed out twice, so that a document stays usable.        *)
LEMMA UsableLater ==
  ASSUME NEW n \in Nat, NEW m \in Nat, m >= n
  PROVE  /\ \A d : Usable(d, n) => Usable(d, m)
         /\ \A steps, way, b : Trail(steps, way, b, n) => Trail(steps, way, b, m)
PROOF
<1>1. ASSUME NEW d, Usable(d, n) PROVE Usable(d, m)
  <2>1. \A i \in Ids : i \in Nat
    BY ItemFacts
  <2>2. \A i \in Ids : i >= m => i >= n
    BY <2>1
  <2> QED BY <1>1, <2>2 DEF Usable, Fresh
<1>2. ASSUME NEW s, StepSound(s, n) PROVE StepSound(s, m)
  BY <1>1, <1>2 DEF StepSound
<1>3. ASSUME NEW steps, NEW way, NEW b, Trail(steps, way, b, n)
      PROVE  Trail(steps, way, b, m)
  BY <1>2, <1>3 DEF Trail
<1> QED BY <1>1, <1>3

(* A step goes onto a stack.                                               *)
LEMMA TrailAppend ==
  ASSUME NEW n, NEW way, NEW b, NEW steps, Trail(steps, way, b, n),
         NEW s \in Steps, StepSound(s, n), Farther(way, s) = b
  PROVE  /\ Trail(Append(steps, s), way, Nearer(way, s), n)
         /\ Stops(Append(steps, s), way) = Append(Stops(steps, way), b)
         /\ Len(Append(steps, s)) = Len(steps) + 1
PROOF
<1> DEFINE N == Len(steps)
<1> DEFINE more == Append(steps, s)
<1>1. /\ steps \in Seq(Steps) /\ N \in Nat /\ DOMAIN steps = 1..N
      /\ more \in Seq(Steps) /\ Len(more) = N + 1 /\ more[N + 1] = s
      /\ DOMAIN more = 1..(N + 1)
      /\ \A k \in 1..N : more[k] = steps[k]
  BY DEF Trail
<1> HIDE DEF more, N
<1>2. ASSUME NEW k \in 1..(N + 1)
      PROVE  /\ StepSound(more[k], n)
             /\ Nearer(way, more[k])
                  = IF k = N + 1 THEN Nearer(way, s) ELSE Farther(way, more[k + 1])
  <2>1. CASE k = N + 1
    BY <1>1, <2>1
  <2>2. CASE k # N + 1
    <3>0. k \in 1..N
      BY <1>1, <2>2
    <3>1. k \in 1..N /\ more[k] = steps[k] /\ StepSound(steps[k], n)
      BY <1>1, <3>0 DEF Trail, N
    <3>2. Nearer(way, steps[k]) = IF k = N THEN b ELSE Farther(way, steps[k + 1])
      BY <3>1 DEF Trail, N
    <3>3. CASE k = N
      BY <1>1, <2>2, <3>1, <3>2, <3>3
    <3>4. CASE k # N
      <4>1. k + 1 \in 1..N
        BY <1>1, <3>1, <3>4
      <4> QED BY <1>1, <2>2, <3>1, <3>2, <3>4, <4>1
    <3> QED BY <3>3, <3>4
  <2> QED BY <2>1, <2>2
<1>3. Trail(more, way, Nearer(way, s), n)
  BY <1>1, <1>2 DEF Trail
<1>4. Stops(more, way) = Append(Stops(steps, way), b)
  <2> DEFINE far == Stops(steps, way)
  <2>1. far = [k \in 1..N |-> Farther(way, steps[k])]
    BY <1>1 DEF Stops
  <2>2. DOMAIN far = 1..N /\ Len(far) = N /\ \A k \in 1..N : far[k] = Farther(way, steps[k])
    BY <1>1, <2>1
  <2>3. Stops(more, way) = [k \in 1..(N + 1) |-> Farther(way, more[k])]
    BY <1>1 DEF Stops
  <2> HIDE DEF far
  <2>4. \A k \in 1..(N + 1) : Farther(way, more[k]) = IF k = N + 1 THEN b ELSE far[k]
    <3> SUFFICES ASSUME NEW k \in 1..(N + 1)
                 PROVE  Farther(way, more[k]) = IF k = N + 1 THEN b ELSE far[k]
      OBVIOUS
    <3>1. CASE k = N + 1
      BY <1>1, <3>1
    <3>2. CASE k # N + 1
      <4>1. k \in 1..N
        BY <1>1, <3>2
      <4> QED BY <1>1, <2>2, <3>2, <4>1
    <3> QED BY <3>1, <3>2
  <2>5. Append(far, b) = [k \in 1..(N + 1) |-> IF k = N + 1 THEN b ELSE far[k]]
    BY <1>1, <2>1, <2>2
  <2> QED BY <2>3, <2>4, <2>5 DEF far
<1> QED BY <1>1, <1>3, <1>4 DEF more, N

(* The last step comes off a stack.                                        *)
LEMMA TrailFront ==
  ASSUME NEW n, NEW way, NEW b, NEW steps, Trail(steps, way, b, n), steps # <<>>
  PROVE  LET s == Last(steps)
             far == Stops(steps, way)
         IN  /\ s \in Steps /\ StepSound(s, n) /\ Nearer(way, s) = b
             /\ Trail(Front(steps), way, Farther(way, s), n)
             /\ far # <<>> /\ Last(far) = Farther(way, s)
             /\ Stops(Front(steps), way) = Front(far)
             /\ Len(Front(steps)) = Len(steps) - 1
PROOF
<1>1. PICK N : N = Len(steps)
  OBVIOUS
<1>2. PICK less : less = Front(steps)
  OBVIOUS
<1>3. steps \in Seq(Steps)
  BY DEF Trail
<1>4. /\ N \in Nat \ {0} /\ DOMAIN steps = 1..N /\ N \in 1..N
      /\ less \in Seq(Steps) /\ Len(less) = N - 1 /\ DOMAIN less = 1..(N - 1)
      /\ \A k \in 1..(N - 1) : less[k] = steps[k]
  <2>1. /\ Front(steps) \in Seq(Steps) /\ Len(Front(steps)) = Len(steps) - 1
        /\ Len(steps) \in Nat \ {0}
        /\ \A k \in 1..(Len(steps) - 1) : Front(steps)[k] = steps[k]
    BY <1>3, FrontFacts
  <2> QED BY <1>1, <1>2, <1>3, <2>1
<1>5. PICK s : s = steps[N]
  OBVIOUS
<1>6. Last(steps) = s
  BY <1>1, <1>5 DEF Last
<1>7. s \in Steps /\ StepSound(s, n) /\ Nearer(way, s) = b
  BY <1>1, <1>3, <1>4, <1>5 DEF Trail
<1>8. ASSUME NEW k \in 1..(N - 1)
      PROVE  /\ StepSound(less[k], n)
             /\ Nearer(way, less[k])
                  = IF k = N - 1 THEN Farther(way, s) ELSE Farther(way, less[k + 1])
  <2>1. k \in 1..N /\ k # N /\ less[k] = steps[k]
    BY <1>4
  <2>2. StepSound(steps[k], n) /\ Nearer(way, steps[k]) = Farther(way, steps[k + 1])
    BY <1>1, <2>1 DEF Trail
  <2>3. CASE k = N - 1
    <3>1. k + 1 = N
      BY <1>4, <2>3
    <3> QED BY <1>5, <2>1, <2>2, <2>3, <3>1
  <2>4. CASE k # N - 1
    <3>1. k + 1 \in 1..(N - 1)
      BY <1>4, <2>4
    <3> QED BY <1>4, <2>1, <2>2, <2>4, <3>1
  <2> QED BY <2>3, <2>4
<1>9. Trail(less, way, Farther(way, s), n)
  BY <1>4, <1>8 DEF Trail
<1>10. PICK far : far = Stops(steps, way)
  OBVIOUS
<1>11. far = [k \in 1..N |-> Farther(way, steps[k])]
  BY <1>4, <1>10 DEF Stops
<1>12. /\ Len(far) = N /\ far # <<>> /\ far[N] = Farther(way, s)
       /\ \A k \in 1..N : far[k] = Farther(way, steps[k])
  BY <1>4, <1>5, <1>11
<1>13. Last(far) = Farther(way, s)
  BY <1>12 DEF Last
<1>14. Stops(less, way) = Front(far)
  <2>1. Stops(less, way) = [k \in 1..(N - 1) |-> Farther(way, less[k])]
    BY <1>4 DEF Stops
  <2>2. Front(far) = [k \in 1..(N - 1) |-> far[k]]
    <3>1. PICK T : T = {far[k] : k \in 1..N}
      OBVIOUS
    <3>2. far \in Seq(T)
      BY <1>4, <1>11, <1>12, <3>1
    <3>3. /\ Front(far) \in Seq(T) /\ Len(Front(far)) = N - 1
          /\ \A k \in 1..(N - 1) : Front(far)[k] = far[k]
      BY <1>12, <3>2, FrontFacts
    <3> QED BY <1>4, <3>3
  <2>3. \A k \in 1..(N - 1) : k \in 1..N /\ far[k] = Farther(way, less[k])
    BY <1>4, <1>12
  <2> QED BY <2>1, <2>2, <2>3
<1> QED BY <1>1, <1>2, <1>4, <1>6, <1>7, <1>9, <1>10, <1>12, <1>13, <1>14

(* An empty stack leads nowhere.                                           *)
LEMMA TrailEmpty ==
  ASSUME NEW n, NEW way, NEW b
  PROVE  Trail(<<>>, way, b, n) /\ Stops(<<>>, way) = <<>>
PROOF
  BY DEF Trail, Stops
-----------------------------------------------------------------------------
(***************************************************************************)
(* The inductive invariant                                                 *)
(***************************************************************************)
(* The instances the theorems below are about: a failed write puts every   *)
(* index back, every change makes an undo step, removeAt takes no element  *)
(* that rows may have as parent, and a removal that is not the first       *)
(* change of its transaction takes lists from their ends.                  *)
Scope ==
  /\ ~FailAnywhere
  /\ ~UnsteppedCommits
  /\ ~MixedCascades
  /\ RowTarget = "row" \/ "removeAt" \notin Methods

(* What the open transaction did: its change set leads from the document   *)
(* it began with to the present one, and its journal back.                 *)
DraftInv ==
  /\ changeSet \in Seq(MildOps)
  /\ Connects(changeSet, base, doc)
  /\ JournalOf(journal, base, doc)

HistoryInv ==
  /\ Trail(undoStack, "undo", base, nextId)
  /\ Trail(redoStack, "redo", base, nextId)
  /\ Len(undoStack) + Len(redoStack) <= MaxSteps
  /\ open => Len(undoStack) + Len(redoStack) < MaxSteps

DocInv ==
  /\ nextId \in 1..(MaxId + 1)
  /\ open \in BOOLEAN
  /\ Usable(doc, nextId)
  /\ Usable(base, nextId)
  /\ DraftInv
  /\ HistoryInv
  /\ ~open => doc = base /\ changeSet = <<>> /\ journal = EmptyJournal

(* The steps of an open transaction, as the abstract history sees them: an *)
(* edit, or the transaction is dropped.                                    *)
Drafting == open /\ open' /\ UNCHANGED <<base, undoStack, redoStack>>
Dropping == open /\ ~open' /\ doc' = base /\ UNCHANGED <<base, undoStack, redoStack>>

(* A transaction that has ended leaves no traces.                          *)
LEMMA Ended ==
  ASSUME NEW d, Sound(d)
  PROVE  /\ <<>> \in Seq(MildOps) /\ Connects(<<>>, d, d)
         /\ JournalOf(EmptyJournal, d, d)
BY ConnectsNothing, JournalEmpty

(* The next id may grow, and the document may go back to base.             *)
LEMMA DroppedInv ==
  ASSUME DocInv, open, ~open', doc' = base, UNCHANGED <<base, undoStack, redoStack>>,
         changeSet' = <<>>, journal' = EmptyJournal,
         nextId' \in 1..(MaxId + 1), nextId' >= nextId, open' = FALSE
  PROVE  DocInv' /\ Dropping
PROOF
<1>1. MaxId \in Nat \ {0} /\ nextId \in Nat /\ nextId' \in Nat
  BY ChangesAssumption DEF DocInv
<1>2. Usable(base, nextId) /\ Usable(base, nextId') /\ Sound(base)
  BY <1>1, UsableLater DEF DocInv, Usable
<1>3. Usable(doc', nextId') /\ Usable(base', nextId')
  BY <1>2
<1>4. /\ changeSet' \in Seq(MildOps)
      /\ Connects(changeSet', base', doc') /\ JournalOf(journal', base', doc')
  BY <1>2, Ended
<1>6. DraftInv'
  BY <1>4 DEF DraftInv
<1>7. Trail(undoStack', "undo", base', nextId') /\ Trail(redoStack', "redo", base', nextId')
  BY <1>1, UsableLater DEF DocInv, HistoryInv
<1>8. Len(undoStack') + Len(redoStack') <= MaxSteps
  BY DEF DocInv, HistoryInv
<1>9. HistoryInv'
  BY <1>7, <1>8 DEF HistoryInv
<1>10. doc' = base' /\ changeSet' = <<>> /\ journal' = EmptyJournal
  OBVIOUS
<1>11. DocInv'
  BY <1>3, <1>6, <1>9, <1>10 DEF DocInv
<1> QED BY <1>11 DEF Dropping

(* markFailed puts the document back, if it puts the indexes back.         *)
LEMMA FailInv ==
  ASSUME DocInv, Scope, open, NEW d, NEW j, JournalOf(j, base, d), FailTo(Restored(d, j)),
         nextId' \in 1..(MaxId + 1), nextId' >= nextId
  PROVE  DocInv' /\ Dropping
PROOF
<1>1. Numbered(Restored(d, j))
  BY DEF Scope, FailTo
<1>2. Sound(base)
  BY DEF DocInv, Usable
<1>3. Restored(d, j) = base
  BY <1>1, <1>2, JournalRestores
<1>4. /\ doc' = base /\ open' = FALSE /\ changeSet' = <<>> /\ journal' = EmptyJournal
      /\ UNCHANGED <<base, undoStack, redoStack>>
  BY <1>3 DEF FailTo
<1> QED BY <1>4, DroppedInv

(* What a write method makes of the document: operations that lead to it,  *)
(* from items that are there or have new ids.                              *)
Makes(operations, r, items, groups) ==
  /\ operations \in Seq(MildOps)
  /\ Near(doc, r.doc, items, groups)
  /\ \A i \in items : i >= nextId \/ doc.items[i] # Absent
  /\ r.ok => /\ Sound(r.doc)
             /\ \/ changeSet = <<>> /\ Connects(operations, doc, r.doc)
                \/ Links(operations, doc, r.doc)

(* The change set that led to the document leads on with them.             *)
LEMMA ChangesGrow ==
  ASSUME DocInv, NEW operations, NEW r, NEW items \in SUBSET Ids, NEW groups,
         Makes(operations, r, items, groups), r.ok
  PROVE  /\ changeSet \o operations \in Seq(MildOps)
         /\ Connects(changeSet \o operations, base, r.doc)
PROOF
<1>1. /\ changeSet \in Seq(MildOps) /\ Connects(changeSet, base, doc)
      /\ operations \in Seq(MildOps)
  BY DEF DocInv, DraftInv, Makes
<1>2. changeSet \o operations \in Seq(MildOps)
  BY <1>1
<1>3. CASE changeSet = <<>> /\ Connects(operations, doc, r.doc)
  <2>1. doc = base
    BY <1>1, <1>3, ConnectsNothing
  <2>2. changeSet \o operations = operations
    BY <1>1, <1>3
  <2> QED BY <1>2, <1>3, <2>1, <2>2
<1>4. CASE Links(operations, doc, r.doc)
  <2>1. ASSUME NEW i \in Ids, base.items[i] # Absent, doc.items[i] = Absent
        PROVE  r.doc.items[i] = Absent
    <3>1. ~(i >= nextId)
      BY <2>1 DEF DocInv, Usable, Fresh
    <3>2. i \notin items
      BY <2>1, <3>1 DEF Makes
    <3>3. Akin(doc.items[i], r.doc.items[i]) /\ Plain(r.doc.items[i]) /\ r.doc \in Docs
      BY <3>2 DEF Makes, Near
    <3>4. r.doc.items[i].kind = "absent" /\ r.doc.items[i] \in Items
      BY <2>1, <3>3, DocFacts DEF Akin, Absent
    <3> QED BY <3>3, <3>4, ItemFacts
  <2>2. Connects(changeSet \o operations, base, r.doc)
    BY <1>1, <1>4, <2>1, ConnectsAppend
  <2> QED BY <1>2, <2>2
<1> QED BY <1>3, <1>4 DEF Makes

(* A write keeps the invariant: what it records and changes fits together, *)
(* and the items it changes have ids that have been given out.             *)
LEMMA WriteInv ==
  ASSUME DocInv, Scope, NEW operations, NEW r, NEW items \in SUBSET Ids,
         NEW groups \in SUBSET Ids, Makes(operations, r, items, groups),
         Write(operations, r, items, groups),
         nextId' \in 1..(MaxId + 1), nextId' >= nextId, \A i \in items : i < nextId'
  PROVE  DocInv' /\ (Drafting \/ Dropping)
PROOF
<1>1. open /\ Sound(doc) /\ Sound(base)
  BY DEF Write, DocInv, Usable
<1>2. MaxId \in Nat \ {0} /\ nextId \in Nat /\ nextId' \in Nat
  BY ChangesAssumption DEF DocInv
<1>3. PICK j : j = Recorded(journal, doc, items, groups)
  OBVIOUS
<1>4. Record(items, groups) = j
  BY <1>3 DEF Record, Recorded
<1>5. Near(doc, r.doc, items, groups)
  BY DEF Makes
<1>6. JournalOf(j, base, r.doc)
  <2>1. JournalOf(journal, base, doc)
    BY DEF DocInv, DraftInv
  <2> QED BY <1>1, <1>3, <1>5, <2>1, JournalRecords
<1>7. CASE FailTo(Restored(r.doc, j))
  BY <1>1, <1>6, <1>7, FailInv
<1>8. CASE /\ r.ok
           /\ doc' = r.doc
           /\ changeSet' = changeSet \o operations
           /\ journal' = j
           /\ UNCHANGED <<open, base, undoStack, redoStack>>
  <2>1. Sound(r.doc)
    BY <1>8 DEF Makes
  <2>2. Usable(base, nextId') /\ Usable(doc, nextId')
    BY <1>2, UsableLater DEF DocInv
  <2>3. Fresh(r.doc, nextId')
    <3> SUFFICES ASSUME NEW i \in Ids, i >= nextId' PROVE r.doc.items[i] = Absent
      BY DEF Fresh
    <3>1. i \notin items
      BY <1>2, ItemFacts
    <3>2. Akin(doc.items[i], r.doc.items[i]) /\ Plain(r.doc.items[i]) /\ r.doc \in Docs
      BY <1>5, <3>1 DEF Near
    <3>3. doc.items[i] = Absent
      BY <2>2 DEF Usable, Fresh
    <3>4. r.doc.items[i].kind = "absent" /\ r.doc.items[i] \in Items
      BY <3>2, <3>3, DocFacts DEF Akin, Absent
    <3> QED BY <3>2, <3>4, ItemFacts
  <2>4. Usable(doc', nextId') /\ Usable(base', nextId')
    BY <1>8, <2>1, <2>2, <2>3 DEF Usable
  <2>5. changeSet' \in Seq(MildOps) /\ Connects(changeSet', base', doc')
    <3>1. /\ changeSet \o operations \in Seq(MildOps)
          /\ Connects(changeSet \o operations, base, r.doc)
      BY <1>8, ChangesGrow
    <3> QED BY <1>8, <3>1
  <2>6. JournalOf(journal', base', doc')
    BY <1>6, <1>8
  <2>7. DraftInv'
    BY <2>5, <2>6 DEF DraftInv
  <2>8. Trail(undoStack', "undo", base', nextId') /\ Trail(redoStack', "redo", base', nextId')
    BY <1>2, <1>8, UsableLater DEF DocInv, HistoryInv
  <2>9. HistoryInv'
    BY <1>8, <2>8 DEF DocInv, HistoryInv
  <2>10. open' /\ open' \in BOOLEAN
    BY <1>1, <1>8 DEF DocInv
  <2>11. DocInv'
    BY <2>4, <2>7, <2>9, <2>10 DEF DocInv
  <2> QED BY <1>1, <1>8, <2>10, <2>11 DEF Drafting
<1> QED BY <1>4, <1>7, <1>8 DEF Write

(* So does a write method that records one operation, on an item that is   *)
(* there or has a new id.                                                  *)
LEMMA WriteOneInv ==
  ASSUME DocInv, Scope, NEW op \in MildOps, Single(op), NEW r, NEW items \in SUBSET Ids,
         NEW groups \in SUBSET Ids, Written(doc, op, r, items, groups),
         Write(<<op>>, r, items, groups),
         nextId' \in 1..(MaxId + 1), nextId' >= nextId, \A i \in items : i < nextId',
         \A i \in items : i >= nextId \/ doc.items[i] # Absent
  PROVE  DocInv' /\ (Drafting \/ Dropping)
PROOF
<1>1. Sound(doc)
  BY DEF DocInv, Usable
<1>2. PICK operations : operations = <<op>>
  OBVIOUS
<1>3. operations \in Seq(MildOps)
  BY <1>2
<1>4. ASSUME r.ok PROVE Sound(r.doc) /\ Links(operations, doc, r.doc)
  <2>1. Sound(r.doc)
    BY <1>4 DEF Written
  <2>2. Reverses(doc, op, r.doc) /\ Exact(doc, op, r.doc)
    BY <1>1, <1>4, WrittenReverses
  <2>3. Links(<<op>>, doc, r.doc)
    BY <1>1, <2>1, <2>2, LinksOne
  <2> QED BY <1>2, <2>1, <2>3
<1>5. Near(doc, r.doc, items, groups)
  BY DEF Written
<1>6. Makes(operations, r, items, groups)
  BY <1>3, <1>4, <1>5 DEF Makes
<1>7. Write(operations, r, items, groups)
  BY <1>2
<1> QED BY <1>6, <1>7, WriteInv

(* The write methods                                                       *)
LEMMA InsertRowInv ==
  ASSUME DocInv, Scope, NEW parent \in Ids \cup {NoId}, InsertRow(parent)
  PROVE  DocInv' /\ (Drafting \/ Dropping)
PROOF
<1>1. PICK s : s = Row(parent)
  OBVIOUS
<1>2. s \in Items /\ Plain(s) /\ s.kind # "absent" /\ ~Participates(s) /\ GroupsOf(s) = {}
  BY <1>1 DEF Row, Items, Plain, Participates, GroupsOf
<1>3. /\ nextId <= MaxId /\ nextId' = nextId + 1 /\ "insertRow" \in Methods
      /\ Write(<<ItemInserted(nextId, s)>>, InsertSnapshot(doc, nextId, s), {nextId}, {})
  BY <1>1 DEF InsertRow
<1>4. /\ nextId \in Ids /\ nextId' \in 1..(MaxId + 1) /\ nextId' >= nextId
      /\ \A i \in {nextId} : i < nextId'
  BY <1>3, ChangesAssumption DEF DocInv, Ids
<1>5. Sound(doc) /\ doc.items[nextId] = Absent /\ nextId >= nextId
  <2>1. nextId >= nextId
    BY ChangesAssumption DEF DocInv
  <2> QED BY <1>4, <2>1 DEF DocInv, Usable, Fresh
<1> DEFINE op == ItemInserted(nextId, s)
<1> DEFINE r == InsertSnapshot(doc, nextId, s)
<1>6. op \in MildOps /\ op \in {ItemInserted(nextId, s), ListInserted(nextId, s)}
  BY <1>2, <1>4 DEF MildOps, Mild, Ops, ItemInserted
<1>7. Single(op)
  BY <1>2 DEF Single, ItemInserted, Erasures
<1> HIDE DEF op
<1>8. Written(doc, op, r, {nextId}, {})
  BY <1>2, <1>4, <1>5, <1>6, InsertWritten
<1>9. Write(<<op>>, r, {nextId}, {})
  BY <1>3 DEF op
<1> HIDE DEF r
<1>10. /\ {nextId} \in SUBSET Ids /\ {} \in SUBSET Ids
       /\ \A i \in {nextId} : i >= nextId \/ doc.items[i] # Absent
  BY <1>4, <1>5
<1> QED BY <1>4, <1>6, <1>8, <1>9, <1>10, <1>7, WriteOneInv

(* Transaction::insert of an element into a list                           *)
LEMMA InsertElemInv ==
  ASSUME DocInv, Scope, NEW parent \in Ids \cup {NoId}, NEW index \in Nat,
         InsertElem(parent, index)
  PROVE  DocInv' /\ (Drafting \/ Dropping)
PROOF
<1>1. PICK s : s = Elem(parent, index)
  OBVIOUS
<1>2. PICK op : op = IF parent = NoId THEN ItemInserted(nextId, s) ELSE ListInserted(nextId, s)
  OBVIOUS
<1> DEFINE r == InsertSnapshot(doc, nextId, s)
<1>3. /\ nextId <= MaxId /\ nextId' = nextId + 1 /\ "insertElem" \in Methods
      /\ parent = NoId => index = 0
      /\ Write(<<op>>, r, {nextId}, GroupsOf(s))
  BY <1>1, <1>2 DEF InsertElem
<1>4. /\ s \in Items /\ Plain(s) /\ s.kind # "absent" /\ GroupsOf(s) \in SUBSET Ids
      /\ parent = NoId => ~Participates(s)
  BY <1>1, <1>3 DEF Elem, Items, Plain, Participates, GroupsOf
<1>5. /\ nextId \in Ids /\ nextId' \in 1..(MaxId + 1) /\ nextId' >= nextId
      /\ \A i \in {nextId} : i < nextId'
  BY <1>3, ChangesAssumption DEF DocInv, Ids
<1>6. Sound(doc) /\ doc.items[nextId] = Absent /\ nextId >= nextId
  <2>1. nextId >= nextId
    BY ChangesAssumption DEF DocInv
  <2> QED BY <1>5, <2>1 DEF DocInv, Usable, Fresh
<1>7. op \in MildOps /\ op \in {ItemInserted(nextId, s), ListInserted(nextId, s)}
  BY <1>2, <1>4, <1>5 DEF MildOps, Mild, Ops, ItemInserted, ListInserted
<1>8. Written(doc, op, r, {nextId}, GroupsOf(s))
  BY <1>4, <1>5, <1>6, <1>7, InsertWritten
<1> HIDE DEF r
<1>9. /\ {nextId} \in SUBSET Ids
       /\ \A i \in {nextId} : i >= nextId \/ doc.items[i] # Absent
  BY <1>5, <1>6
<1>10. Single(op)
  BY <1>2, <1>4 DEF Single, ItemInserted, ListInserted, Erasures
<1> QED BY <1>3, <1>4, <1>5, <1>7, <1>8, <1>9, <1>10, WriteOneInv

(* Transaction::remove: the item goes with everything below it.            *)
LEMMA RemoveItemInv ==
  ASSUME DocInv, Scope, NEW id \in PresentIds, NEW order \in CascadeOrders(id),
         RemoveItem(id, order)
  PROVE  DocInv' /\ (Drafting \/ Dropping)
PROOF
<1>1. Sound(doc) /\ id \in Ids /\ Present(doc, id)
  BY DEF DocInv, Usable, PresentIds
<1>2. PICK S \in SUBSET Ids : S = Descendants(id)
  BY <1>1, DescendantsFacts
<1>3. /\ id \in S
      /\ \A i \in S : doc.items[i].kind # "absent"
      /\ \A i \in Ids : doc.items[i].parent \in S => i \in S
      /\ \A i \in S : i # id => doc.items[i].parent \in S
  BY <1>1, <1>2, DescendantsFacts
<1>4. IsFiniteSet(S)
  <2>1. IsFiniteSet(Ids)
    BY ChangesAssumption, FS_Interval DEF Ids
  <2> QED BY <2>1, FS_Subset
<1>5. PICK N \in Nat : N = Cardinality(S)
  BY <1>4, FS_CardinalityType
<1>6. /\ order \in [1..N -> S] /\ order[1] = id
      /\ \A i, j \in 1..N : i # j => order[i] # order[j]
  BY <1>2, <1>5 DEF CascadeOrders, SetToSeqs
<1>7. DOMAIN order = 1..N /\ \A x \in S : \E k \in 1..N : order[k] = x
  <2>1. \A i, j \in 1..Cardinality(S) : order[i] = order[j] => i = j
    BY <1>5, <1>6
  <2> QED BY <1>4, <1>5, <1>6, <2>1, Enumerated
<1>8. Firsts(order, N) = S /\ ToSet(order) = S
  BY <1>6, <1>7 DEF Firsts, ToSet
<1>9. ASSUME NEW k \in 1..N
      PROVE  /\ order[k] \in S /\ order[k] \in Ids
             /\ doc.items[order[k]] \in Items /\ Plain(doc.items[order[k]])
             /\ doc.items[order[k]].kind # "absent"
  BY <1>1, <1>3, <1>6, SoundFacts
<1> DEFINE made(k) == IF k = 1 THEN ItemRemoved(id, doc.items[id])
                      ELSE CascadeRemoved(order[k], doc.items[order[k]])
<1> DEFINE ops == [k \in DOMAIN order |-> made(k)]
<1>10. ASSUME NEW k \in 1..N
       PROVE  /\ made(k) \in MildOps /\ made(k).kind \in Erasures
              /\ made(k).id = order[k] /\ made(k).item = doc.items[order[k]]
  <2>1. PICK x \in Ids, s \in Items : x = order[k] /\ s = doc.items[order[k]]
    BY <1>9
  <2>2. made(k) \in {ItemRemoved(x, s), CascadeRemoved(x, s)}
    BY <1>6, <2>1
  <2>3. Plain(s) /\ s.kind # "absent"
    BY <1>9, <2>1
  <2>4. \A op \in {ItemRemoved(x, s), CascadeRemoved(x, s)} :
          op \in Ops /\ Mild(op) /\ op.kind \in Erasures /\ op.id = x /\ op.item = s
    BY <2>3 DEF Ops, Mild, ItemRemoved, CascadeRemoved, Removals, Erasures
  <2> QED BY <2>1, <2>2, <2>4 DEF MildOps
<1> HIDE DEF made
<1>11. /\ ops \in Seq(MildOps) /\ Len(ops) = N /\ \A k \in 1..N : ops[k] = made(k)
  BY <1>7, <1>10
<1>12. PICK operations : operations = ops
  OBVIOUS
<1>13. Cascade(doc, order, operations) /\ Len(operations) = N
  BY <1>6, <1>9, <1>10, <1>11, <1>12 DEF Cascade
<1> DEFINE groups == {g \in Ids : \E i \in ToSet(order) : Contains(doc.groups[g], i)}
<1>14. /\ changeSet = <<>> \/ ListsDescend(order)
       /\ Write(operations, Done(EraseSnapshots(doc, ToSet(order))), ToSet(order), groups)
       /\ nextId' = nextId
  BY <1>12 DEF RemoveItem, Scope, made
<1>15. PICK e : e = EraseSnapshots(doc, S)
  OBVIOUS
<1>16. e = Cut(doc, order, N)
  BY <1>8, <1>15 DEF Cut
<1>17. InOrder(doc)
  BY <1>1 DEF Sound
<1>18. Erased(doc, S, e)
  <2>1. N \in 0..Len(operations)
    BY <1>13
  <2>2. Erased(doc, Firsts(order, N), Cut(doc, order, N))
    BY <1>13, <1>17, <2>1, CutFacts
  <2> QED BY <1>8, <1>16, <2>2
<1>19. Sound(e)
  BY <1>1, <1>3, <1>18, CutSound
<1>20. groups \in SUBSET Ids /\ \A g \in Ids \ groups : \A k \in 1..N : ~Contains(doc.groups[g], order[k])
  BY <1>6, <1>8
<1> HIDE DEF groups
<1>21. Near(doc, e, S, groups)
  <2>1. e \in Docs /\ \A i \in Ids : Plain(e.items[i])
    BY <1>19, SoundFacts
  <2>2. \A i \in Ids \ S : Akin(doc.items[i], e.items[i])
    BY <1>18 DEF Erased
  <2>3. ASSUME NEW g \in Ids \ groups PROVE e.groups[g] = doc.groups[g]
    <3>1. \A k \in 1..Len(operations) : ~Contains(doc.groups[g], order[k])
      BY <1>13, <1>20
    <3>2. Cut(doc, order, Len(operations)).groups[g] = doc.groups[g]
      BY <1>1, <1>13, <3>1, CutUntouched
    <3> QED BY <1>13, <1>16, <3>2
  <2> QED BY <2>1, <2>2, <2>3 DEF Near
<1>22. (changeSet = <<>> /\ Connects(operations, doc, e)) \/ Links(operations, doc, e)
  <2>1. S = Firsts(order, Len(operations)) /\ Sound(Cut(doc, order, Len(operations)))
        /\ e = Cut(doc, order, Len(operations))
    BY <1>8, <1>13, <1>16, <1>19
  <2>2. CASE changeSet = <<>>
    <3>1. \A k \in 2..Len(operations) : doc.items[order[k]].parent \in S
      <4> SUFFICES ASSUME NEW k \in 2..N PROVE doc.items[order[k]].parent \in S
        BY <1>13
      <4>1. k \in 1..N /\ 1 \in 1..N /\ k # 1
        OBVIOUS
      <4>2. order[k] \in S /\ order[k] # id
        BY <1>6, <4>1
      <4> QED BY <1>3, <4>2
    <3>2. Connects(operations, doc, Cut(doc, order, Len(operations)))
      BY <1>1, <1>3, <1>13, <2>1, <3>1, CascadeConnects
    <3> QED BY <2>1, <2>2, <3>2
  <2>3. CASE ListsDescend(order)
    <3>1. \A j, k \in 1..Len(operations) :
            /\ j < k /\ Participates(doc.items[order[j]]) /\ Participates(doc.items[order[k]])
            /\ doc.items[order[j]].parent = doc.items[order[k]].parent
            => doc.items[order[j]].index > doc.items[order[k]].index
      BY <1>7, <1>13, <2>3 DEF ListsDescend
    <3>2. \A n \in 1..Len(operations) :
            Cut(doc, order, n - 1).items[order[n]] = doc.items[order[n]]
      BY <1>1, <1>13, <3>1, CascadeExact
    <3>3. Links(operations, doc, Cut(doc, order, Len(operations)))
      BY <1>1, <1>13, <2>1, <3>2, CascadeLinks
    <3> QED BY <2>1, <3>3
  <2> QED BY <1>14, <2>2, <2>3
<1>23. PICK r : r = Done(e) /\ r.doc = e
  BY OutcomeFacts
<1>24. Makes(operations, r, S, groups)
  <2>1. operations \in Seq(MildOps)
    BY <1>11, <1>12
  <2>2. \A i \in S : i >= nextId \/ doc.items[i] # Absent
    BY <1>3 DEF Absent
  <2> QED BY <1>19, <1>21, <1>22, <1>23, <2>1, <2>2 DEF Makes
<1>25. Write(operations, r, S, groups)
  BY <1>8, <1>14, <1>15, <1>23
<1>26. \A i \in S : i < nextId
  <2> SUFFICES ASSUME NEW i \in S PROVE i < nextId
    OBVIOUS
  <2>1. i \in Nat /\ nextId \in Nat
    BY ChangesAssumption, ItemFacts DEF DocInv
  <2>2. doc.items[i] # Absent
    BY <1>3 DEF Absent
  <2> QED BY <2>1, <2>2 DEF DocInv, Usable, Fresh
<1>27. /\ nextId' \in 1..(MaxId + 1) /\ nextId' >= nextId
       /\ \A i \in S : i < nextId'
  BY <1>14, <1>26, ChangesAssumption DEF DocInv
<1> QED BY <1>20, <1>24, <1>25, <1>27, WriteInv

(* Where elements have no children, removeAt leaves none behind.           *)
LEMMA RemoveAtInv ==
  ASSUME DocInv, Scope, NEW g \in Ids, NEW k \in DOMAIN doc.groups[g], RemoveAtIndex(g, k - 1)
  PROVE  DocInv' /\ (Drafting \/ Dropping)
PROOF
<1>1. Sound(doc)
  BY DEF DocInv, Usable
<1>2. doc \in Docs /\ InOrder(doc) /\ Rooted(doc) /\ \A i \in Ids : doc.items[i] \in Items
  BY <1>1, SoundFacts
<1>3. k \in Nat /\ k - 1 \in Nat /\ k - 1 + 1 = k
  BY <1>2, OrderFacts DEF InOrder
<1>4. PICK id : id = doc.groups[g][k]
  OBVIOUS
<1>5. id \in Ids /\ doc.items[id] = Elem(g, k - 1)
  <2>1. doc.groups[g] \in Seq(Ids)
    BY <1>2, DocFacts
  <2>2. id \in Ids
    BY <1>4, <2>1
  <2> QED BY <1>2, <1>4, <2>2 DEF InOrder, InOrderBut
<1>6. PICK s : s = doc.items[id]
  OBVIOUS
<1>7. doc.items[id].kind = "elem" /\ s.parent \in Ids /\ GroupsOf(s) \in SUBSET Ids
  BY <1>3, <1>5, <1>6, ItemFacts DEF GroupsOf
<1> DEFINE op == ListRemoved(id, s)
<1> DEFINE r == Done(EraseSnapshot(doc, id, s))
<1>8. "removeAt" \in Methods /\ Write(<<op>>, r, {id}, GroupsOf(s)) /\ nextId' = nextId
  BY <1>3, <1>4, <1>6 DEF RemoveAtIndex
<1>9. RowTarget = "row"
  BY <1>8 DEF Scope
<1>10. Childless(doc, id)
  <2> SUFFICES ASSUME NEW i \in Ids, doc.items[i].parent = id PROVE FALSE
    BY DEF Childless
  <2>1. PICK rank : Ranked(doc, rank)
    BY <1>2 DEF Rooted
  <2>2. doc.items[i].parent # NoId
    BY <1>5, ItemFacts
  <2>3. doc.items[id].kind = KindAbove(doc.items[i])
    BY <2>1, <2>2 DEF Ranked
  <2> QED BY <1>7, <1>9, <2>3 DEF KindAbove
<1>11. op \in {ItemRemoved(id, doc.items[id]), CascadeRemoved(id, doc.items[id]),
               ListRemoved(id, doc.items[id])}
  BY <1>6
<1>12. op \in MildOps
  <2>1. Plain(s)
    BY <1>1, <1>5, <1>6, SoundFacts
  <2> QED BY <1>2, <1>5, <1>6, <1>7, <2>1 DEF MildOps, Mild, Ops, ListRemoved, Removals
<1>13. Single(op)
  BY DEF Single, ListRemoved, Erasures
<1> HIDE DEF op
<1>14. Written(doc, op, r, {id}, GroupsOf(s))
  BY <1>1, <1>5, <1>6, <1>7, <1>10, <1>11, EraseWritten
<1> HIDE DEF r
<1>15. id < nextId
  <2>1. id \in Nat /\ nextId \in Nat
    BY <1>5, ChangesAssumption, ItemFacts DEF DocInv
  <2>2. doc.items[id] # Absent
    BY <1>3, <1>5, ItemFacts
  <2> QED BY <1>5, <2>1, <2>2 DEF DocInv, Usable, Fresh
<1>16. /\ nextId' \in 1..(MaxId + 1) /\ nextId' >= nextId
       /\ \A i \in {id} : i < nextId'
       /\ {id} \in SUBSET Ids
  BY <1>5, <1>8, <1>15, ChangesAssumption DEF DocInv
<1>17. \A i \in {id} : i >= nextId \/ doc.items[i] # Absent
  BY <1>7 DEF Absent
<1> QED BY <1>7, <1>8, <1>12, <1>14, <1>16, <1>13, <1>17, WriteOneInv

(* Transaction::update of an association                                   *)
LEMMA UpdateInv ==
  ASSUME DocInv, Scope, NEW id \in Ids, NEW parent \in Ids \cup {NoId}, NEW targetIndex \in Nat,
         Update(id, parent, targetIndex)
  PROVE  DocInv' /\ (Drafting \/ Dropping)
PROOF
<1>1. Sound(doc)
  BY DEF DocInv, Usable
<1>2. doc.items[id] \in Items /\ Plain(doc.items[id])
  BY <1>1, SoundFacts
<1>3. PICK old : old = doc.items[id]
  OBVIOUS
<1>4. PICK new : new = Reparented(old, parent, targetIndex)
  OBVIOUS
<1> DEFINE op == Updated(id, old.parent, old.index, parent, targetIndex)
<1> DEFINE r == UpdateAssociation(doc, id, parent, targetIndex)
<1>5. /\ Present(doc, id) /\ nextId' = nextId
      /\ Write(<<op>>, r, {id}, GroupsOf(old) \cup GroupsOf(new))
  BY <1>3, <1>4 DEF Update
<1>6. doc.items[id].kind # "absent"
  BY <1>2, <1>5, KindFacts DEF Present
<1>7. Written(doc, op, r, {id}, GroupsOf(old) \cup GroupsOf(new))
  BY <1>1, <1>3, <1>4, <1>6, UpdateWritten
<1>8. op \in MildOps
  <2>1. old.parent \in Ids \cup {NoId} /\ old.index \in Nat
    BY <1>2, <1>3, ItemFacts
  <2> QED BY <2>1 DEF MildOps, Mild, Ops, Updated, Removals, Insertions
<1>9. Single(op)
  BY DEF Single, Updated, Erasures
<1> HIDE DEF op, r
<1>10. GroupsOf(old) \cup GroupsOf(new) \in SUBSET Ids
  <2>1. new \in Items
    BY <1>2, <1>3, <1>4, <1>6, ReparentedFacts DEF ReparentedTo
  <2> QED BY <1>2, <1>3, <2>1, ItemFacts DEF GroupsOf
<1>11. id < nextId
  <2>1. id \in Nat /\ nextId \in Nat
    BY ChangesAssumption, ItemFacts DEF DocInv
  <2> QED BY <1>5, <2>1 DEF DocInv, Usable, Fresh, Present
<1>12. /\ nextId' \in 1..(MaxId + 1) /\ nextId' >= nextId
       /\ \A i \in {id} : i < nextId'
       /\ {id} \in SUBSET Ids
  BY <1>5, <1>11, ChangesAssumption DEF DocInv
<1>13. \A i \in {id} : i >= nextId \/ doc.items[i] # Absent
  BY <1>5 DEF Present
<1> QED BY <1>5, <1>7, <1>8, <1>10, <1>12, <1>9, <1>13, WriteOneInv

(* Transaction::rotate                                                     *)
LEMMA RotateInv ==
  ASSUME DocInv, Scope, NEW g \in Ids, NEW startIndex \in Nat, NEW count \in Nat,
         NEW offset \in Int, Rotate(g, startIndex, count, offset)
  PROVE  DocInv' /\ (Drafting \/ Dropping)
PROOF
<1>1. Sound(doc)
  BY DEF DocInv, Usable
<1> DEFINE op == Rotated(g, startIndex, count, offset)
<1> DEFINE r == Done(RotateList(doc, g, startIndex, count, offset))
<1> DEFINE groups == IF count > 0 THEN {g} ELSE {}
<1>2. /\ startIndex + count <= Len(doc.groups[g]) /\ nextId' = nextId
      /\ Write(<<op>>, r, {}, groups)
  BY DEF Rotate
<1>3. Written(doc, op, r, {}, groups)
  BY <1>1, <1>2, RotateWritten
<1>4. op \in MildOps
  BY DEF MildOps, Mild, Ops, Rotated, Removals, Insertions
<1>5. {} \in SUBSET Ids /\ groups \in SUBSET Ids
  OBVIOUS
<1>6. Single(op)
  BY DEF Single, Rotated, Erasures
<1> HIDE DEF op, r, groups
<1>7. /\ nextId' \in 1..(MaxId + 1) /\ nextId' >= nextId
      /\ \A i \in {} : i < nextId'
      /\ \A i \in {} : i >= nextId \/ doc.items[i] # Absent
  BY <1>2, ChangesAssumption DEF DocInv
<1> QED BY <1>2, <1>3, <1>4, <1>5, <1>7, <1>6, WriteOneInv

(* What fails before it has changed anything                               *)
LEMMA FailBeforeInv ==
  ASSUME DocInv, Scope, FailBefore
  PROVE  DocInv' /\ Dropping
PROOF
<1>1. open /\ FailTo(Restored(doc, journal)) /\ JournalOf(journal, base, doc)
  BY DEF FailBefore, DocInv, DraftInv
<1>2. nextId' \in 1..(MaxId + 1) /\ nextId' >= nextId
  BY ChangesAssumption DEF FailBefore, DocInv
<1> QED BY <1>1, <1>2, FailInv

(* The initial document: rows without parents, and elements in the list of *)
(* the first one                                                           *)
LEMMA InitInv ==
  ASSUME Init
  PROVE  DocInv
PROOF
<1> DEFINE R == InitialRows
<1> DEFINE E == InitialElements
<1>1. /\ R \in Nat /\ E \in Nat /\ MaxId \in Nat \ {0} /\ MaxSteps \in Nat
      /\ R + E <= MaxId /\ (E > 0 => R > 0)
      /\ 1 \in Ids /\ Ids \subseteq Nat /\ NoId \notin Ids
  BY ChangesAssumption, DocumentAssumption, ItemFacts DEF Ids
<1> HIDE DEF R, E
<1> DEFINE item(id) == IF id <= R THEN Row(NoId)
                       ELSE IF id <= R + E THEN Elem(1, id - R - 1) ELSE Absent
<1> DEFINE list == [k \in 1..E |-> R + k]
<1> DEFINE items == [id \in Ids |-> item(id)]
<1> DEFINE groups == [g \in Ids |-> IF g = 1 THEN list ELSE <<>>]
<1>2. doc = [items |-> items, groups |-> groups]
  BY DEF Init, R, E
<1>3. doc.items = items /\ doc.groups = groups
  BY <1>2
<1>4. /\ Row(NoId) \in Items /\ Plain(Row(NoId)) /\ ~Participates(Row(NoId))
      /\ Row(NoId).parent = NoId /\ Row(NoId).kind = "row"
  BY DEF Row, Items, Plain, Participates
<1>5. ASSUME NEW id \in Ids
      PROVE  /\ id <= R => item(id) = Row(NoId)
             /\ id > R /\ id <= R + E => item(id) = Elem(1, id - R - 1) /\ id - R - 1 \in Nat
             /\ id > R + E => item(id) = Absent
             /\ item(id) \in Items
  <2>1. id \in Nat
    BY <1>1
  <2>2. id > R => id - R - 1 \in Nat
    BY <1>1, <2>1
  <2>3. CASE id <= R
    BY <1>1, <1>4, <2>1, <2>3
  <2>4. CASE id > R /\ id <= R + E
    <3>1. item(id) = Elem(1, id - R - 1)
      BY <1>1, <2>1, <2>4
    <3> QED BY <1>1, <2>1, <2>2, <2>4, <3>1, ItemFacts
  <2>5. CASE id > R + E
    <3>1. item(id) = Absent
      BY <1>1, <2>1, <2>5
    <3> QED BY <1>1, <2>1, <2>5, <3>1, ItemFacts
  <2> QED BY <1>1, <2>1, <2>3, <2>4, <2>5
<1> HIDE DEF item
<1>6. ASSUME NEW id \in Ids PROVE doc.items[id] = item(id)
  BY <1>3
<1>7. /\ list \in Seq(Ids) /\ DOMAIN list = 1..E /\ Len(list) = E
      /\ \A k \in 1..E : list[k] = R + k
  <2>1. \A k \in 1..E : R + k \in Ids
    BY <1>1 DEF Ids
  <2> QED BY <1>1, <2>1
<1> HIDE DEF list
<1>8. doc.groups[1] = list /\ \A g \in Ids : g # 1 => doc.groups[g] = <<>>
  BY <1>1, <1>3
<1>9. doc \in Docs
  <2>1. items \in [Ids -> Items]
    BY <1>5
  <2>2. groups \in [Ids -> Seq(Ids)]
    BY <1>7
  <2> QED BY <1>2, <2>1, <2>2, DocFacts
<1> HIDE DEF items, groups
<1>10. ASSUME NEW g \in Ids, NEW k \in DOMAIN doc.groups[g]
       PROVE  doc.groups[g][k] # NoId /\ doc.items[doc.groups[g][k]] = Elem(g, k - 1)
  <2>1. g = 1
    BY <1>8, <1>10
  <2>2. k \in 1..E /\ doc.groups[g][k] = R + k
    BY <1>7, <1>8, <2>1
  <2>3. R + k \in Ids /\ R + k > R /\ R + k <= R + E /\ R + k - R - 1 = k - 1
    BY <1>1, <2>2 DEF Ids
  <2>4. PICK id \in Ids : id = R + k
    BY <2>3
  <2>5. id > R /\ id <= R + E /\ id - R - 1 = k - 1
    <3>1. R \in Nat /\ E \in Nat /\ k \in Nat /\ k >= 1 /\ k <= E
      BY <1>1, <2>2
    <3>2. id \in Nat
      BY <1>1
    <3> QED BY <2>4, <3>1, <3>2
  <2>6. PICK m : m = k - 1
    OBVIOUS
  <2>7. doc.items[id] = Elem(1, m)
    <3>1. id - R - 1 = m
      BY <2>5, <2>6
    <3> QED BY <1>5, <1>6, <2>5, <3>1
  <2>8. doc.groups[g][k] # NoId /\ doc.items[doc.groups[g][k]] = Elem(g, m)
    <3>1. doc.groups[g][k] = id
      BY <2>2, <2>4
    <3> QED BY <1>1, <2>1, <2>7, <3>1
  <2> QED BY <2>6, <2>8
<1>11. ASSUME NEW id \in Ids
       PROVE  /\ Participates(doc.items[id]) =>
                   Contains(doc.groups[doc.items[id].parent], id)
              /\ Plain(doc.items[id])
  <2>1. id \in Nat
    BY <1>1
  <2>2. CASE id > R /\ id <= R + E
    <3>1. doc.items[id] = Elem(1, id - R - 1) /\ id - R - 1 \in Nat
      BY <1>5, <1>6, <2>2
    <3>2. Participates(doc.items[id]) /\ doc.items[id].parent = 1
      BY <1>1, <3>1, ItemFacts
    <3>3. id - R \in 1..E /\ R + (id - R) = id
      BY <1>1, <2>1, <2>2
    <3>4. Contains(list, id)
      BY <1>7, <3>3 DEF Contains
    <3> QED BY <1>8, <3>2, <3>4 DEF Plain
  <2>3. CASE id <= R
    BY <1>4, <1>5, <1>6, <2>3
  <2>4. CASE id > R + E
    BY <1>5, <1>6, <2>4, ItemFacts
  <2> QED BY <1>1, <2>1, <2>2, <2>3, <2>4
<1>12. InOrder(doc)
  BY <1>9, <1>10, <1>11 DEF InOrder, InOrderBut
<1>13. Rooted(doc)
  <2> DEFINE rank == [id \in Ids |-> IF id <= R THEN 0 ELSE 1]
  <2>1. rank \in [Ids -> Nat]
    OBVIOUS
  <2>2. ASSUME NEW id \in Ids, doc.items[id].parent # NoId
        PROVE  /\ doc.items[id].parent \in Ids
               /\ doc.items[doc.items[id].parent].kind = KindAbove(doc.items[id])
               /\ rank[doc.items[id].parent] < rank[id]
    <3>1. id \in Nat
      BY <1>1
    <3>2. ~(id <= R)
      BY <1>4, <1>5, <1>6, <2>2
    <3>3. ~(id > R + E)
      BY <1>5, <1>6, <2>2 DEF Absent
    <3>4. /\ doc.items[id] = Elem(1, id - R - 1) /\ id - R - 1 \in Nat
      BY <1>1, <1>5, <1>6, <3>1, <3>2, <3>3
    <3>5. doc.items[id].parent = 1 /\ doc.items[id].kind = "elem"
      BY <1>1, <3>4, ItemFacts
    <3>6. 1 <= R
      BY <1>1, <3>1, <3>2, <3>3
    <3>7. doc.items[1].kind = "row"
      BY <1>1, <1>4, <1>5, <1>6, <3>6
    <3>8. rank[1] = 0 /\ rank[id] = 1
      BY <1>1, <3>2, <3>6
    <3> QED BY <1>1, <3>5, <3>7, <3>8 DEF KindAbove
  <2> HIDE DEF rank
  <2> QED BY <2>1, <2>2 DEF Rooted, Ranked
<1>14. nextId = R + E + 1 /\ nextId \in 1..(MaxId + 1)
  BY <1>1 DEF Init, R, E
<1>15. Usable(doc, nextId) /\ Sound(doc)
  <2>1. \A i \in Ids : i >= nextId => i > R + E
    BY <1>1, <1>14
  <2>2. Fresh(doc, nextId)
    BY <1>5, <1>6, <2>1 DEF Fresh
  <2> QED BY <1>12, <1>13, <2>2 DEF Usable, Sound
<1>16. /\ base = doc /\ open = FALSE /\ changeSet = <<>> /\ journal = EmptyJournal
       /\ undoStack = <<>> /\ redoStack = <<>>
  BY DEF Init
<1>17. /\ <<>> \in Seq(Ops) /\ Len(<<>>) = 0 /\ Connects(<<>>, doc, doc)
       /\ JournalOf(EmptyJournal, doc, doc)
  BY <1>15, Ended
<1>18. DraftInv
  BY <1>16, <1>17 DEF DraftInv
<1>19. HistoryInv
  BY <1>1, <1>16, <1>17, TrailEmpty DEF HistoryInv
<1> QED BY <1>14, <1>15, <1>16, <1>18, <1>19 DEF DocInv

(* The transactions and the history, by the documents they go through      *)
Beginning == ~open /\ open' /\ UNCHANGED <<doc, base, undoStack, redoStack>>

Committing ==
  /\ open /\ ~open' /\ base' = doc /\ UNCHANGED doc
  /\ \/ /\ Stops(undoStack, "undo")' = Append(Stops(undoStack, "undo"), base)
        /\ Stops(redoStack, "redo")' = <<>>
     \/ doc = base /\ UNCHANGED <<undoStack, redoStack>>

(* A step leaves one stack, from, for the other one, to.                   *)
Passing(from, way, to, back) ==
  /\ ~open /\ UNCHANGED open
  /\ Stops(from, way) # <<>>
  /\ doc' = Last(Stops(from, way)) /\ base' = doc'
  /\ Stops(from', way) = Front(Stops(from, way))
  /\ Stops(to', back) = Append(Stops(to, back), doc)

(* beginTransaction                                                        *)
LEMMA BeginInv ==
  ASSUME DocInv, Begin
  PROVE  DocInv' /\ Beginning
PROOF
<1>1. /\ ~open /\ Len(undoStack) + Len(redoStack) < MaxSteps /\ open' = TRUE
      /\ UNCHANGED <<doc, nextId, base, changeSet, journal, undoStack, redoStack>>
  BY DEF Begin
<1>2. DraftInv' /\ HistoryInv'
  BY <1>1 DEF DocInv, DraftInv, HistoryInv
<1> QED BY <1>1, <1>2 DEF DocInv, Beginning

(* The change set of a transaction becomes a step from base to doc.        *)
LEMMA CommitInv ==
  ASSUME DocInv, Scope, NEW undoable \in BOOLEAN, Commit(undoable)
  PROVE  DocInv' /\ Committing
PROOF
<1>1. /\ open /\ open' = FALSE /\ base' = doc /\ doc' = doc /\ nextId' = nextId
      /\ changeSet' = <<>> /\ journal' = EmptyJournal
  BY DEF Commit
<1>2. Sound(doc) /\ Usable(doc, nextId) /\ Usable(base, nextId)
  BY DEF DocInv, Usable
<1>3. /\ changeSet' \in Seq(MildOps) /\ Connects(changeSet', base', doc')
      /\ JournalOf(journal', base', doc')
  BY <1>1, <1>2, Ended
<1>4. DraftInv'
  BY <1>3 DEF DraftInv
<1>5. ASSUME HistoryInv' PROVE DocInv'
  BY <1>1, <1>2, <1>4, <1>5 DEF DocInv
<1>6. CASE undoable /\ CreatesUndoStep(changeSet)
  <2> DEFINE s == [operations |-> changeSet, before |-> base, after |-> doc]
  <2>1. undoStack' = Append(undoStack, s) /\ redoStack' = <<>>
    BY <1>6 DEF Commit
  <2>2. s.operations = changeSet /\ s.before = base /\ s.after = doc
    OBVIOUS
  <2>3. s \in Steps
    BY <1>2, SoundFacts DEF Steps, Usable, DocInv, DraftInv
  <2> HIDE DEF s
  <2>4. StepSound(s, nextId)
    BY <1>2, <2>2 DEF StepSound, DocInv, DraftInv
  <2>5. Farther("undo", s) = base /\ Nearer("undo", s) = doc
    BY <2>2 DEF Farther, Nearer
  <2>6. Trail(undoStack, "undo", base, nextId)
    BY DEF DocInv, HistoryInv
  <2>7. /\ Trail(Append(undoStack, s), "undo", doc, nextId)
        /\ Stops(Append(undoStack, s), "undo") = Append(Stops(undoStack, "undo"), base)
        /\ Len(Append(undoStack, s)) = Len(undoStack) + 1
    BY <2>3, <2>4, <2>5, <2>6, TrailAppend
  <2>8. Trail(<<>>, "redo", doc, nextId) /\ Stops(<<>>, "redo") = <<>> /\ Len(<<>>) = 0
    BY TrailEmpty
  <2>9. Len(undoStack') + Len(redoStack') <= MaxSteps
    <3>1. Len(undoStack) \in Nat /\ Len(redoStack) \in Nat /\ MaxSteps \in Nat
      BY DocumentAssumption DEF DocInv, HistoryInv, Trail
    <3> QED BY <1>1, <2>1, <2>7, <2>8, <3>1 DEF DocInv, HistoryInv
  <2>10. HistoryInv'
    BY <1>1, <2>1, <2>7, <2>8, <2>9 DEF HistoryInv
  <2> QED BY <1>1, <1>5, <2>1, <2>7, <2>8, <2>10 DEF Committing
<1>7. CASE ~(undoable /\ CreatesUndoStep(changeSet))
  <2>1. changeSet = <<>> /\ UNCHANGED <<undoStack, redoStack>>
    BY <1>7 DEF Commit, Scope
  <2>2. doc = base
    BY <2>1, ConnectsNothing DEF DocInv, DraftInv
  <2>3. HistoryInv'
    BY <1>1, <2>1, <2>2 DEF DocInv, HistoryInv
  <2> QED BY <1>1, <1>5, <2>1, <2>2, <2>3 DEF Committing
<1> QED BY <1>6, <1>7

(* The inverse of the change set leads back to base.                       *)
LEMMA RollbackInv ==
  ASSUME DocInv, Rollback
  PROVE  DocInv' /\ Dropping
PROOF
<1>1. ApplyChangeSet(doc, InvertChangeSet(changeSet)) = Done(base)
  BY ConnectsApply DEF DocInv, DraftInv
<1>2. RollbackTo(Done(base)) /\ open /\ UNCHANGED <<nextId, undoStack, redoStack>>
  BY <1>1 DEF Rollback
<1>3. /\ doc' = base /\ base' = base /\ open' = FALSE /\ changeSet' = <<>>
      /\ journal' = EmptyJournal
  BY <1>2, OutcomeFacts DEF RollbackTo
<1>4. nextId' \in 1..(MaxId + 1) /\ nextId' >= nextId
  BY <1>2, ChangesAssumption DEF DocInv
<1> QED BY <1>2, <1>3, <1>4, DroppedInv

(* Outside of transactions, the present document is a sound one, and       *)
(* nothing else of the invariant depends on it.                            *)
LEMMA MovedInv ==
  ASSUME DocInv, ~open, Usable(doc', nextId), base' = doc',
         UNCHANGED <<nextId, open, changeSet, journal>>,
         Trail(undoStack', "undo", doc', nextId), Trail(redoStack', "redo", doc', nextId),
         Len(undoStack') + Len(redoStack') = Len(undoStack) + Len(redoStack)
  PROVE  DocInv'
PROOF
<1>1. changeSet' = <<>> /\ journal' = EmptyJournal /\ ~open' /\ open' = open
  BY DEF DocInv
<1>2. /\ changeSet' \in Seq(MildOps) /\ Connects(changeSet', base', doc')
      /\ JournalOf(journal', base', doc')
  BY <1>1, Ended DEF Usable
<1>3. DraftInv'
  BY <1>2 DEF DraftInv
<1>4. HistoryInv'
  BY <1>1 DEF DocInv, HistoryInv
<1> QED BY <1>1, <1>3, <1>4 DEF DocInv

(* undo goes back to the document before the last step, which goes onto    *)
(* the redo stack.                                                         *)
LEMMA UndoInv ==
  ASSUME DocInv, Undo
  PROVE  DocInv' /\ Passing(undoStack, "undo", redoStack, "redo")
PROOF
<1>1. PICK s : s = Last(undoStack)
  OBVIOUS
<1>2. ~open /\ undoStack # <<>> /\ doc = base /\ UNCHANGED <<nextId, open, changeSet, journal>>
  BY DEF Undo, DocInv
<1>3. /\ Trail(undoStack, "undo", doc, nextId)
      /\ Trail(redoStack, "redo", doc, nextId)
  BY <1>2 DEF DocInv, HistoryInv
<1>4. /\ s \in Steps /\ StepSound(s, nextId) /\ Nearer("undo", s) = doc
      /\ Trail(Front(undoStack), "undo", Farther("undo", s), nextId)
      /\ Stops(undoStack, "undo") # <<>>
      /\ Last(Stops(undoStack, "undo")) = Farther("undo", s)
      /\ Stops(Front(undoStack), "undo") = Front(Stops(undoStack, "undo"))
      /\ Len(Front(undoStack)) = Len(undoStack) - 1
  BY <1>1, <1>2, <1>3, TrailFront
<1>5. s.after = doc /\ Farther("undo", s) = s.before /\ Farther("redo", s) = s.after
      /\ Nearer("redo", s) = s.before
  BY <1>4 DEF Nearer, Farther
<1>6. /\ Trail(Append(redoStack, s), "redo", s.before, nextId)
      /\ Stops(Append(redoStack, s), "redo") = Append(Stops(redoStack, "redo"), doc)
      /\ Len(Append(redoStack, s)) = Len(redoStack) + 1
  <2>1. Farther("redo", s) = doc
    BY <1>5
  <2>2. /\ Trail(Append(redoStack, s), "redo", Nearer("redo", s), nextId)
        /\ Stops(Append(redoStack, s), "redo") = Append(Stops(redoStack, "redo"), doc)
        /\ Len(Append(redoStack, s)) = Len(redoStack) + 1
    BY <1>3, <1>4, <2>1, TrailAppend
  <2> QED BY <1>5, <2>2
<1>7. ApplyChangeSet(doc, InvertChangeSet(s.operations)) = Done(s.before)
  <2>1. s.operations \in Seq(MildOps)
    BY <1>4 DEF Steps
  <2>2. Connects(s.operations, s.before, doc)
    BY <1>4, <1>5 DEF StepSound
  <2> QED BY <2>1, <2>2, ConnectsApply
<1>8. UndoTo(Done(s.before))
  BY <1>1, <1>7 DEF Undo
<1>9. /\ doc' = s.before /\ base' = s.before
      /\ undoStack' = Front(undoStack) /\ redoStack' = Append(redoStack, s)
  BY <1>1, <1>8, OutcomeFacts DEF UndoTo
<1>10. Usable(doc', nextId)
  BY <1>4, <1>9 DEF StepSound
<1>11. Len(undoStack') + Len(redoStack') = Len(undoStack) + Len(redoStack)
  <2>1. PICK m, n : m = Len(undoStack) /\ n = Len(redoStack)
    OBVIOUS
  <2>2. m \in Nat /\ n \in Nat
    BY <1>3, <2>1 DEF Trail
  <2>3. Len(undoStack') = m - 1 /\ Len(redoStack') = n + 1
    BY <1>4, <1>6, <1>9, <2>1
  <2> QED BY <2>1, <2>2, <2>3
<1>12. DocInv'
  BY <1>2, <1>4, <1>5, <1>6, <1>9, <1>10, <1>11, MovedInv
<1> QED BY <1>2, <1>4, <1>5, <1>6, <1>9, <1>12 DEF Passing

(* redo goes on to the document after the step that was undone last.       *)
LEMMA RedoInv ==
  ASSUME DocInv, Redo
  PROVE  DocInv' /\ Passing(redoStack, "redo", undoStack, "undo")
PROOF
<1>1. PICK s : s = Last(redoStack)
  OBVIOUS
<1>2. ~open /\ redoStack # <<>> /\ doc = base /\ UNCHANGED <<nextId, open, changeSet, journal>>
  BY DEF Redo, DocInv
<1>3. /\ Trail(undoStack, "undo", doc, nextId)
      /\ Trail(redoStack, "redo", doc, nextId)
  BY <1>2 DEF DocInv, HistoryInv
<1>4. /\ s \in Steps /\ StepSound(s, nextId) /\ Nearer("redo", s) = doc
      /\ Trail(Front(redoStack), "redo", Farther("redo", s), nextId)
      /\ Stops(redoStack, "redo") # <<>>
      /\ Last(Stops(redoStack, "redo")) = Farther("redo", s)
      /\ Stops(Front(redoStack), "redo") = Front(Stops(redoStack, "redo"))
      /\ Len(Front(redoStack)) = Len(redoStack) - 1
  BY <1>1, <1>2, <1>3, TrailFront
<1>5. s.before = doc /\ Farther("redo", s) = s.after /\ Farther("undo", s) = s.before
      /\ Nearer("undo", s) = s.after
  BY <1>4 DEF Nearer, Farther
<1>6. /\ Trail(Append(undoStack, s), "undo", s.after, nextId)
      /\ Stops(Append(undoStack, s), "undo") = Append(Stops(undoStack, "undo"), doc)
      /\ Len(Append(undoStack, s)) = Len(undoStack) + 1
  <2>1. Farther("undo", s) = doc
    BY <1>5
  <2>2. /\ Trail(Append(undoStack, s), "undo", Nearer("undo", s), nextId)
        /\ Stops(Append(undoStack, s), "undo") = Append(Stops(undoStack, "undo"), doc)
        /\ Len(Append(undoStack, s)) = Len(undoStack) + 1
    BY <1>3, <1>4, <2>1, TrailAppend
  <2> QED BY <1>5, <2>2
<1>7. ApplyChangeSet(doc, s.operations) = Done(s.after)
  <2>1. s.operations \in Seq(MildOps)
    BY <1>4 DEF Steps
  <2>2. Connects(s.operations, doc, s.after)
    BY <1>4, <1>5 DEF StepSound
  <2> QED BY <2>1, <2>2, ConnectsApply
<1>8. RedoTo(Done(s.after))
  BY <1>1, <1>7 DEF Redo
<1>9. /\ doc' = s.after /\ base' = s.after
      /\ redoStack' = Front(redoStack) /\ undoStack' = Append(undoStack, s)
  BY <1>1, <1>8, OutcomeFacts DEF RedoTo
<1>10. Usable(doc', nextId)
  BY <1>4, <1>9 DEF StepSound
<1>11. Len(undoStack') + Len(redoStack') = Len(undoStack) + Len(redoStack)
  <2>1. PICK m, n : m = Len(redoStack) /\ n = Len(undoStack)
    OBVIOUS
  <2>2. m \in Nat /\ n \in Nat
    BY <1>3, <2>1 DEF Trail
  <2>3. Len(redoStack') = m - 1 /\ Len(undoStack') = n + 1
    BY <1>4, <1>6, <1>9, <2>1
  <2> QED BY <2>1, <2>2, <2>3
<1>12. DocInv'
  BY <1>2, <1>4, <1>5, <1>6, <1>9, <1>10, <1>11, MovedInv
<1> QED BY <1>2, <1>4, <1>5, <1>6, <1>9, <1>12 DEF Passing

(* What a transaction's client does                                        *)
LEMMA EditInv ==
  ASSUME DocInv, Scope, Edit
  PROVE  DocInv' /\ (Beginning \/ Drafting \/ Dropping)
PROOF
<1>1. Indexes \subseteq Nat
  BY ChangesAssumption DEF Indexes
<1>2. CASE Begin
  BY <1>2, BeginInv
<1>3. ASSUME NEW parent \in Ids \cup {NoId}, InsertRow(parent)
      PROVE  DocInv' /\ (Drafting \/ Dropping)
  BY <1>3, InsertRowInv
<1>4. ASSUME NEW parent \in Ids \cup {NoId}, NEW index \in Indexes, InsertElem(parent, index)
      PROVE  DocInv' /\ (Drafting \/ Dropping)
  BY <1>1, <1>4, InsertElemInv
<1>5. ASSUME NEW id \in PresentIds, NEW order \in CascadeOrders(id), RemoveItem(id, order)
      PROVE  DocInv' /\ (Drafting \/ Dropping)
  BY <1>5, RemoveItemInv
<1>6. ASSUME NEW g \in Ids, NEW k \in DOMAIN doc.groups[g], RemoveAtIndex(g, k - 1)
      PROVE  DocInv' /\ (Drafting \/ Dropping)
  BY <1>6, RemoveAtInv
<1>7. ASSUME NEW id \in Ids, NEW parent \in Ids \cup {NoId}, NEW targetIndex \in Indexes,
             Update(id, parent, targetIndex)
      PROVE  DocInv' /\ (Drafting \/ Dropping)
  BY <1>1, <1>7, UpdateInv
<1>8. ASSUME NEW g \in Ids, NEW startIndex \in Indexes, NEW count \in Indexes,
             NEW offset \in {-1, 1, 2}, Rotate(g, startIndex, count, offset)
      PROVE  DocInv' /\ (Drafting \/ Dropping)
  BY <1>1, <1>8, RotateInv
<1>9. CASE FailBefore
  BY <1>9, FailBeforeInv
<1>10. CASE Rollback
  BY <1>10, RollbackInv
<1> QED BY <1>2, <1>3, <1>4, <1>5, <1>6, <1>7, <1>8, <1>9, <1>10 DEF Edit

(* The invariant is inductive, and every step is one of the abstract       *)
(* history's.                                                              *)
LEMMA StepInv ==
  ASSUME DocInv, Scope, Next
  PROVE  /\ DocInv'
         /\ \/ Beginning \/ Drafting \/ Dropping \/ Committing
            \/ Passing(undoStack, "undo", redoStack, "redo")
            \/ Passing(redoStack, "redo", undoStack, "undo")
BY EditInv, CommitInv, UndoInv, RedoInv DEF Next

(* The invariant holds in every state.                                     *)
LEMMA Invariance ==
  ASSUME Scope
  PROVE  Spec => []DocInv
PROOF
<1>1. Init => DocInv
  BY InitInv
<1>2. DocInv /\ [Next]_vars => DocInv'
  <2>1. CASE Next
    BY <2>1, StepInv
  <2>2. CASE UNCHANGED vars
    BY <2>2 DEF vars, DocInv, DraftInv, HistoryInv
  <2> QED BY <2>1, <2>2
<1> QED BY <1>1, <1>2, PTL DEF Spec
-----------------------------------------------------------------------------
(***************************************************************************)
(* The theorems                                                            *)
(***************************************************************************)
(* The operations the write methods record, d being the document they find *)
Recordable(d, op) ==
  \/ \E id \in Ids, s \in Items :
       /\ d.items[id] = Absent /\ Plain(s) /\ s.kind # "absent"
       /\ op \in {ItemInserted(id, s), ListInserted(id, s)}
  \/ \E id \in Ids :
       /\ d.items[id].kind # "absent" /\ Childless(d, id)
       /\ op \in {ItemRemoved(id, d.items[id]), CascadeRemoved(id, d.items[id]),
                  ListRemoved(id, d.items[id])}
  \/ \E id \in Ids, parent \in Ids \cup {NoId}, targetIndex \in Nat :
       /\ d.items[id].kind # "absent"
       /\ op = Updated(id, d.items[id].parent, d.items[id].index, parent, targetIndex)
  \/ \E g \in Ids, startIndex, count \in Nat, offset \in Int :
       /\ startIndex + count <= Len(d.groups[g])
       /\ op = Rotated(g, startIndex, count, offset)

(* invertOperation inverts applyOperation: whatever operation a write      *)
(* method records on a document whose lists and parents are in order, if   *)
(* it applies, it leaves such a document, and its inverse gives back the   *)
(* document it was applied to, every list and every index of it.           *)
THEOREM OperationUndone ==
  ASSUME NEW d, Sound(d), NEW op, Recordable(d, op), ApplyOperation(d, op).ok
  PROVE  LET e == ApplyOperation(d, op).doc
         IN  Sound(e) /\ ApplyOperation(e, InvertOperation(op)) = Done(d)
PROOF
<1>1. SUFFICES ASSUME NEW r, NEW items, NEW groups, Written(d, op, r, items, groups)
               PROVE  LET e == ApplyOperation(d, op).doc
                      IN  Sound(e) /\ ApplyOperation(e, InvertOperation(op)) = Done(d)
  <2>1. ASSUME NEW id \in Ids, NEW s \in Items,
               d.items[id] = Absent, Plain(s), s.kind # "absent",
               op \in {ItemInserted(id, s), ListInserted(id, s)}
        PROVE  \E r, items, groups : Written(d, op, r, items, groups)
    BY <2>1, InsertWritten
  <2>2. ASSUME NEW id \in Ids, d.items[id].kind # "absent", Childless(d, id),
               op \in {ItemRemoved(id, d.items[id]), CascadeRemoved(id, d.items[id]),
                       ListRemoved(id, d.items[id])}
        PROVE  \E r, items, groups : Written(d, op, r, items, groups)
    BY <2>2, EraseWritten
  <2>3. ASSUME NEW id \in Ids, NEW parent \in Ids \cup {NoId}, NEW targetIndex \in Nat,
               d.items[id].kind # "absent",
               op = Updated(id, d.items[id].parent, d.items[id].index, parent, targetIndex)
        PROVE  \E r, items, groups : Written(d, op, r, items, groups)
    BY <2>3, UpdateWritten
  <2>4. ASSUME NEW g \in Ids, NEW startIndex \in Nat, NEW count \in Nat, NEW offset \in Int,
               startIndex + count <= Len(d.groups[g]),
               op = Rotated(g, startIndex, count, offset)
        PROVE  \E r, items, groups : Written(d, op, r, items, groups)
    BY <2>4, RotateWritten
  <2>5. \E r, items, groups : Written(d, op, r, items, groups)
    BY <2>1, <2>2, <2>3, <2>4 DEF Recordable
  <2> QED BY <2>5
<1>2. r = ApplyOperation(d, op)
  BY <1>1 DEF Written
<1> QED BY <1>1, <1>2 DEF Written

(* The state of the document keeps its types.                              *)
THEOREM TypeCorrect ==
  ASSUME Scope
  PROVE  Spec => []TypeOK
PROOF
<1>1. DocInv => TypeOK
  <2> SUFFICES ASSUME DocInv PROVE TypeOK
    OBVIOUS
  <2>1. doc \in Documents /\ base \in Documents
    BY SoundTyped DEF DocInv, Usable
  <2>2. DOMAIN journal.items \subseteq Ids /\ DOMAIN journal.groups \subseteq Ids
    BY DEF DocInv, DraftInv, JournalOf
  <2>3. \A k \in DOMAIN changeSet : changeSet[k].kind \in OperationKinds
    <3>1. \A k \in DOMAIN changeSet : changeSet[k] \in Ops
      BY DEF DocInv, DraftInv, MildOps
    <3> QED BY <3>1, OpFacts
  <2> QED BY <2>1, <2>2, <2>3 DEF TypeOK, DocInv, HistoryInv
<1> QED BY <1>1, Invariance, PTL

(* Lists of any length, under any number of operations: the indexes of a   *)
(* list stay contiguous, and every element with a parent stays in its      *)
(* list, through writes, failures, rollbacks, undo and redo.               *)
THEOREM ListsStayConsistent ==
  ASSUME Scope
  PROVE  Spec => []ListsConsistent
PROOF
<1>1. DocInv => ListsConsistent
  <2> SUFFICES ASSUME DocInv PROVE ListsConsistent
    OBVIOUS
  <2>1. InOrder(doc) /\ NoId \notin Ids
    BY ItemFacts DEF DocInv, Usable, Sound
  <2> QED BY <2>1 DEF ListsConsistent, InOrder, InOrderBut
<1> QED BY <1>1, Invariance, PTL

(* Every parent is in the document, and no write, undo or redo closes a    *)
(* cycle of parents.                                                       *)
THEOREM ParentsStaySound ==
  ASSUME Scope
  PROVE  Spec => []ParentsSound
PROOF
<1>1. DocInv => ParentsSound
  <2> SUFFICES ASSUME DocInv, NEW id \in Ids, doc.items[id].parent # NoId
               PROVE  /\ Present(doc, doc.items[id].parent)
                      /\ id \notin Lineage(doc, doc.items[id].parent)
    BY DEF ParentsSound
  <2>1. Sound(doc)
    BY DEF DocInv, Usable
  <2>2. doc \in Docs /\ Rooted(doc) /\ AkinBut(doc, doc, id)
    BY <2>1, SoundFacts DEF AkinBut, Akin
  <2>3. ValidParent(doc, id, doc.items[id])
    BY <2>2, BackValid
  <2> QED BY <2>3 DEF ValidParent
<1> QED BY <1>1, Invariance, PTL

(* The undo history of an editor is implemented: whole documents come back *)
(* by rollback, by failure, and by undo and redo at any distance.          *)
THEOREM ImplementsHistory ==
  ASSUME Scope
  PROVE  Spec => HistorySpec
PROOF
<1> DEFINE past == [k \in DOMAIN undoStack |-> undoStack[k].before]
<1> DEFINE future == [k \in DOMAIN redoStack |-> redoStack[k].after]
<1>1. Init => History!HistoryInit
  <2> SUFFICES ASSUME Init PROVE History!HistoryInit
    OBVIOUS
  <2>1. undoStack = <<>> /\ redoStack = <<>> /\ ~open /\ base = doc
    BY DEF Init
  <2> QED BY <2>1 DEF History!HistoryInit
<1>2. /\ past = Stops(undoStack, "undo") /\ future = Stops(redoStack, "redo")
      /\ past' = Stops(undoStack', "undo") /\ future' = Stops(redoStack', "redo")
  BY DEF Stops, Farther
<1>3. ASSUME DocInv, [Next]_vars
      PROVE  [History!HistoryNext]_(History!historyVars)
  <2>1. CASE UNCHANGED vars
    BY <2>1 DEF vars, History!historyVars
  <2>2. CASE Beginning
    <3>1. History!BeginDraft
      BY <2>2 DEF Beginning, History!BeginDraft
    <3> QED BY <3>1 DEF History!HistoryNext
  <2>3. CASE Drafting
    <3>1. open' = open
      BY <1>3, <2>3, StepInv DEF Drafting, DocInv, vars
    <3>2. History!Edit
      BY <2>3, <3>1 DEF Drafting, History!Edit
    <3> QED BY <3>2 DEF History!HistoryNext
  <2>4. CASE Dropping
    <3>1. History!AbandonDraft
      BY <2>4 DEF Dropping, History!AbandonDraft
    <3> QED BY <3>1 DEF History!HistoryNext
  <2>5. CASE Committing
    <3>1. CASE /\ Stops(undoStack, "undo")' = Append(Stops(undoStack, "undo"), base)
               /\ Stops(redoStack, "redo")' = <<>>
      <4>1. past' = Append(past, base) /\ future' = <<>>
        BY <1>2, <3>1
      <4>2. open /\ ~open' /\ base' = doc /\ UNCHANGED doc
        BY <2>5 DEF Committing
      <4>3. History!CommitDraft
        BY <4>1, <4>2 DEF History!CommitDraft
      <4> QED BY <4>3 DEF History!HistoryNext
    <3>2. CASE doc = base /\ UNCHANGED <<undoStack, redoStack>>
      <4>1. History!CommitDraft
        BY <2>5, <3>2 DEF Committing, History!CommitDraft
      <4> QED BY <4>1 DEF History!HistoryNext
    <3> QED BY <2>5, <3>1, <3>2 DEF Committing
  <2>6. CASE Passing(undoStack, "undo", redoStack, "redo")
    <3>1. /\ ~open /\ UNCHANGED open /\ past # <<>> /\ doc' = Last(past) /\ base' = doc'
          /\ past' = Front(past) /\ future' = Append(future, doc)
      BY <1>2, <2>6 DEF Passing
    <3>2. History!StepBack
      BY <3>1 DEF History!StepBack, History!Last, History!Front, Last, Front
    <3> QED BY <3>2 DEF History!HistoryNext
  <2>7. CASE Passing(redoStack, "redo", undoStack, "undo")
    <3>1. /\ ~open /\ UNCHANGED open /\ future # <<>> /\ doc' = Last(future) /\ base' = doc'
          /\ future' = Front(future) /\ past' = Append(past, doc)
      BY <1>2, <2>7 DEF Passing
    <3>2. History!StepForward
      BY <3>1 DEF History!StepForward, History!Last, History!Front, Last, Front
    <3> QED BY <3>2 DEF History!HistoryNext
  <2>8. CASE Next
    BY <1>3, <2>2, <2>3, <2>4, <2>5, <2>6, <2>7, <2>8, StepInv
  <2> QED BY <1>3, <2>1, <2>8
<1>4. Spec => []DocInv
  BY Invariance
<1> QED BY <1>1, <1>3, <1>4, PTL DEF Spec, HistorySpec, History!HistorySpec
=============================================================================
