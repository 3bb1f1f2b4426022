--------------------------- MODULE LinkedListProofs --------------------------
(***************************************************************************)
(* linkedlist.c keeps its list: for any nodes and any list of them, what   *)
(* init_linkedlist(), ll_insert_last(), ll_remove() and free() do to the   *)
(* pointers is what a sequence undergoes.                                  *)
(***************************************************************************)
EXTENDS LinkedList, SequenceTheorems, WellFoundedInduction, TLAPS

\* s without its i-th element.
Without(s, i) == [j \in 1..(Len(s) - 1) |-> IF j < i THEN s[j] ELSE s[j + 1]]

\* A set of numbers has a least one.
LEMMA Least ==
    ASSUME NEW S \in SUBSET Nat, S # {}
    PROVE  \E n \in S : \A m \in S : n <= m
  <1> DEFINE R == OpToRel(<, Nat)
  <1>1. \E n \in S : \A m \in S : <<m, n>> \notin R
    <2>1. IsWellFoundedOn(R, Nat)
      BY NatLessThanWellFounded
    <2> HIDE DEF R
    <2> QED
      BY <2>1, WFMin
  <1>2. \A m, n \in Nat : <<m, n>> \notin R => n <= m
    BY DEF OpToRel
  <1> QED
    BY <1>1, <1>2

\* An empty list is the sequence without elements.
THEOREM InitRepresents == Represents(init_linkedlist, <<>>)
  <1> DEFINE ll == init_linkedlist
  <1>1. ll.next = [p \in Pointer |-> IF p = head THEN head ELSE Wild]
    BY DEF init_linkedlist
  <1>2. ll.prev = [p \in Pointer |-> IF p = head THEN head ELSE Wild]
    BY DEF init_linkedlist
  <1>3. ll \in ListType
    BY DEF init_linkedlist, ListType, Pointer
  <1>4. \A i \in 0..Len(<<>>) : NodeAt(<<>>, i) = head /\ NodeAt(<<>>, i + 1) = head
    BY DEF NodeAt
  <1>5. ll.count = 0
    BY DEF init_linkedlist
  <1>6. ll.next[head] = head /\ ll.prev[head] = head
    BY <1>1, <1>2 DEF Pointer
  <1>7. <<>> \in Seq(Node) /\ Len(<<>>) = 0
    OBVIOUS
  <1> HIDE DEF ll
  <1>8. \A i \in 0..Len(<<>>) : /\ ll.next[NodeAt(<<>>, i)] = NodeAt(<<>>, i + 1)
                               /\ ll.prev[NodeAt(<<>>, i + 1)] = NodeAt(<<>>, i)
    BY <1>4, <1>6
  <1>9. \A i, j \in 1..Len(<<>>) : <<>>[i] = <<>>[j] => i = j
    BY <1>7
  <1>10. Represents(ll, <<>>)
    BY <1>3, <1>5, <1>7, <1>8, <1>9 DEF Represents
  <1> QED
    BY <1>10 DEF ll

\* The nodes of a list and head are pointers, and no two places but the first
\* and the last hold the same.
LEMMA Places ==
    ASSUME NEW ll, NEW s, Represents(ll, s)
    PROVE  /\ Len(s) \in Nat
           /\ \A i \in Int : NodeAt(s, i) \in Node \cup {head}
           /\ \A i \in 1..Len(s) : NodeAt(s, i) = s[i] /\ s[i] \in Node
           /\ \A i \in Int : i \notin 1..Len(s) => NodeAt(s, i) = head
           /\ \A i, j \in 0..Len(s) : NodeAt(s, i) = NodeAt(s, j) => i = j
           /\ \A i, j \in 1..(Len(s) + 1) : NodeAt(s, i) = NodeAt(s, j) => i = j
  <1>1. s \in Seq(Node) /\ Len(s) \in Nat
    BY LenProperties DEF Represents
  <1>2. \A i \in 1..Len(s) : s[i] \in Node /\ s[i] # head
    BY <1>1, ElementOfSeq, ListAssumption
  <1>3. \A i, j \in 1..Len(s) : s[i] = s[j] => i = j
    BY DEF Represents
  <1>4. \A i \in 0..Len(s) : i \in 1..Len(s) \/ i = 0
    BY <1>1
  <1>5. \A i \in 1..(Len(s) + 1) : i \in 1..Len(s) \/ i = Len(s) + 1
    BY <1>1
  <1> QED
    BY <1>1, <1>2, <1>3, <1>4, <1>5 DEF NodeAt

\* ll_insert_last() appends a node that is not on the list.
THEOREM InsertAppends ==
    ASSUME NEW ll, NEW s, Represents(ll, s), NEW node \in Node,
           \A i \in 1..Len(s) : s[i] # node
    PROVE  Represents(ll_insert_last(ll, node), Append(s, node))
  <1> DEFINE n == Len(s)
             t == Append(s, node)
             new == ll_insert_last(ll, node)
             last == ll.prev[head]
  <1>1. s \in Seq(Node) /\ n \in Nat /\ ll \in ListType /\ ll.count = n
    BY LenProperties DEF Represents
  <1>2. t \in Seq(Node) /\ Len(t) = n + 1 /\ t[n + 1] = node /\ \A i \in 1..n : t[i] = s[i]
    BY <1>1, AppendProperties
  <1>3. last = NodeAt(s, n)
    <2>1. ll.prev[NodeAt(s, n + 1)] = NodeAt(s, n)
      BY <1>1 DEF Represents
    <2>2. NodeAt(s, n + 1) = head
      BY <1>1 DEF NodeAt
    <2> QED
      BY <2>1, <2>2
  <1>4. last \in Pointer /\ last # node /\ node \in Pointer /\ head \in Pointer /\ node # head
    BY <1>1, <1>3, Places, ListAssumption DEF Pointer, NodeAt
  <1>5. /\ new.next = [ll.next EXCEPT ![last] = node, ![node] = head]
        /\ new.prev = [ll.prev EXCEPT ![node] = last, ![head] = node]
        /\ new.count = n + 1
    BY <1>1 DEF ll_insert_last
  <1>6. new \in ListType
    BY <1>1, <1>4 DEF ll_insert_last, ListType
  <1>7. ll.next \in [Pointer -> Pointer] /\ ll.prev \in [Pointer -> Pointer]
    BY <1>1 DEF ListType
  <1>8. \A i \in 1..n : NodeAt(t, i) = NodeAt(s, i)
    BY <1>1, <1>2 DEF NodeAt
  <1>9. NodeAt(t, 0) = head /\ NodeAt(s, 0) = head /\ NodeAt(t, n + 1) = node /\ NodeAt(t, n + 2) = head
    BY <1>1, <1>2 DEF NodeAt
  <1>10. \A i \in 0..n : NodeAt(t, i) = NodeAt(s, i)
    BY <1>1, <1>8, <1>9
  <1>11. \A i \in 0..n : NodeAt(s, i) # node /\ NodeAt(s, i) \in Pointer
    BY <1>1, Places, ListAssumption DEF NodeAt, Pointer
  <1> HIDE DEF t, new, last, n
  <1>12. ASSUME NEW i \in 0..(n + 1)
         PROVE  new.next[NodeAt(t, i)] = NodeAt(t, i + 1) /\ new.prev[NodeAt(t, i + 1)] = NodeAt(t, i)
    <2>1. CASE i < n
      <3>1. i \in 0..n /\ n \in 0..n /\ i # n /\ i + 1 \in 1..n /\ i + 1 \in 0..n
        BY <1>1, <2>1
      <3>2. NodeAt(s, i) # last
        BY <1>3, <3>1, Places DEF n
      <3>3. NodeAt(s, i + 1) # head
        BY <3>1, Places, ListAssumption DEF n
      <3>4. ll.next[NodeAt(s, i)] = NodeAt(s, i + 1) /\ ll.prev[NodeAt(s, i + 1)] = NodeAt(s, i)
        BY <3>1 DEF Represents, n
      <3> QED
        BY <1>4, <1>5, <1>7, <1>10, <1>11, <3>1, <3>2, <3>3, <3>4
    <2>2. CASE i = n
      <3>1. NodeAt(t, i) = last /\ NodeAt(t, i + 1) = node
        BY <1>1, <1>3, <1>9, <1>10, <2>2
      <3> QED
        BY <1>4, <1>5, <1>7, <3>1
    <2>3. CASE i = n + 1
      <3>1. NodeAt(t, i) = node /\ NodeAt(t, i + 1) = head
        BY <1>1, <1>9, <2>3
      <3> QED
        BY <1>4, <1>5, <1>7, <3>1
    <2> QED
      BY <1>1, <2>1, <2>2, <2>3
  <1>13. \A i, j \in 1..(n + 1) : t[i] = t[j] => i = j
    <2>1. \A i, j \in 1..n : s[i] = s[j] => i = j
      BY DEF Represents, n
    <2>2. \A i \in 1..(n + 1) : i \in 1..n \/ i = n + 1
      BY <1>1
    <2>3. \A i \in 1..n : s[i] # node
      BY DEF n
    <2> QED
      BY <1>2, <2>1, <2>2, <2>3
  <1>14. Represents(new, t)
    BY <1>2, <1>5, <1>6, <1>12, <1>13 DEF Represents
  <1> QED
    BY <1>14 DEF new, t

\* ll_remove() takes the i-th node out of the list.
THEOREM RemoveTakesOut ==
    ASSUME NEW ll, NEW s, Represents(ll, s), NEW k \in 1..Len(s)
    PROVE  Represents(ll_remove(ll, s[k]), Without(s, k))
  <1> DEFINE n == Len(s)
             t == Without(s, k)
             new == ll_remove(ll, s[k])
             at(i) == IF i < k THEN i ELSE i + 1
  <1>1. s \in Seq(Node) /\ n \in Nat /\ ll \in ListType /\ ll.count = n /\ k \in 1..n
    BY LenProperties DEF Represents
  <1>2. t \in Seq(Node) /\ Len(t) = n - 1 /\ \A i \in 1..(n - 1) : t[i] = s[at(i)]
    <2>1. \A i \in 1..(n - 1) : i \in 1..n /\ i + 1 \in 1..n
      BY <1>1
    <2>2. \A i \in 1..n : s[i] \in Node
      BY <1>1, ElementOfSeq
    <2>3. t \in [1..(n - 1) -> Node]
      BY <2>1, <2>2 DEF Without
    <2>4. n - 1 \in Nat
      BY <1>1
    <2>5. t \in Seq(Node) /\ Len(t) = n - 1
      BY <2>3, <2>4, SeqDef
    <2> QED
      BY <2>5 DEF Without
  <1>3. \A i \in 0..n : NodeAt(t, i) = NodeAt(s, at(i))
    <2> SUFFICES ASSUME NEW i \in 0..n PROVE NodeAt(t, i) = NodeAt(s, at(i))
      OBVIOUS
    <2>1. CASE i = 0
      BY <1>1, <1>2, <2>1 DEF NodeAt
    <2>2. CASE i \in 1..(n - 1)
      <3>1. at(i) \in 1..n /\ i \in 1..Len(t)
        BY <1>1, <1>2, <2>2
      <3> QED
        BY <1>2, <2>2, <3>1 DEF NodeAt
    <2>3. CASE i = n
      <3>1. at(i) = n + 1 /\ i \notin 1..Len(t)
        BY <1>1, <1>2, <2>3
      <3> QED
        BY <1>1, <3>1 DEF NodeAt
    <2> QED
      BY <1>1, <2>1, <2>2, <2>3
  <1> DEFINE before == NodeAt(s, k - 1)
             after == NodeAt(s, k + 1)
  <1>4. ll.prev[s[k]] = before /\ ll.next[s[k]] = after
    <2>1. NodeAt(s, k) = s[k] /\ k - 1 \in 0..n /\ k \in 0..n /\ (k - 1) + 1 = k
      BY <1>1 DEF NodeAt
    <2> QED
      BY <2>1 DEF Represents
  <1>5. /\ new.next = [ll.next EXCEPT ![before] = after]
        /\ new.prev = [ll.prev EXCEPT ![after] = before]
        /\ new.count = n - 1
    BY <1>1, <1>4 DEF ll_remove
  <1>6. before \in Pointer /\ after \in Pointer
    BY <1>1, Places DEF Pointer
  <1>7. ll.next \in [Pointer -> Pointer] /\ ll.prev \in [Pointer -> Pointer]
    BY <1>1 DEF ListType
  <1>8. new \in ListType
    BY <1>1, <1>4, <1>6, <1>7 DEF ll_remove, ListType
  <1>9. \A i \in 0..(n + 1) : NodeAt(s, i) \in Pointer
    BY <1>1, Places DEF Pointer
  <1> HIDE DEF t, new, n, before, after
  <1>10. ASSUME NEW i \in 0..(n - 1)
         PROVE  new.next[NodeAt(t, i)] = NodeAt(t, i + 1) /\ new.prev[NodeAt(t, i + 1)] = NodeAt(t, i)
    <2>1. i \in 0..n /\ i + 1 \in 0..n
      BY <1>1
    <2>2. CASE i = k - 1
      <3>1. NodeAt(t, i) = before /\ NodeAt(t, i + 1) = after
        BY <1>1, <1>3, <2>1, <2>2 DEF before, after
      <3> QED
        BY <1>5, <1>6, <1>7, <3>1
    <2>3. CASE i # k - 1
      <3> DEFINE j == at(i)
      <3>1. j \in 0..n /\ j # k - 1 /\ j + 1 \in 1..(n + 1) /\ j + 1 # k + 1 /\ at(i + 1) = j + 1
            /\ k - 1 \in 0..n /\ k + 1 \in 1..(n + 1)
        BY <1>1, <2>3
      <3> HIDE DEF j
      <3>2. NodeAt(t, i) = NodeAt(s, j) /\ NodeAt(t, i + 1) = NodeAt(s, j + 1)
        BY <1>3, <2>1, <3>1 DEF j
      <3>3. NodeAt(s, j) # before /\ NodeAt(s, j + 1) # after
        BY <3>1, Places DEF before, after, n
      <3>4. ll.next[NodeAt(s, j)] = NodeAt(s, j + 1) /\ ll.prev[NodeAt(s, j + 1)] = NodeAt(s, j)
        BY <3>1 DEF Represents, n
      <3>5. NodeAt(s, j) \in Pointer /\ NodeAt(s, j + 1) \in Pointer
        BY <1>1, <1>9, <3>1
      <3> QED
        BY <1>5, <1>7, <3>2, <3>3, <3>4, <3>5
    <2> QED
      BY <2>2, <2>3
  <1>11. \A i, j \in 1..(n - 1) : t[i] = t[j] => i = j
    <2>1. \A i, j \in 1..n : s[i] = s[j] => i = j
      BY DEF Represents, n
    <2>2. \A i \in 1..(n - 1) : at(i) \in 1..n
      BY <1>1
    <2>3. \A i, j \in 1..(n - 1) : at(i) = at(j) => i = j
      BY <1>1
    <2> HIDE DEF at
    <2> QED
      BY <1>2, <2>1, <2>2, <2>3
  <1>12. Represents(new, t)
    BY <1>2, <1>5, <1>8, <1>10, <1>11 DEF Represents
  <1> QED
    BY <1>12 DEF new, t

\* free() of a node that is not on the list does not touch it.
THEOREM FreeKeeps ==
    ASSUME NEW ll, NEW s, Represents(ll, s), NEW node \in Node,
           \A i \in 1..Len(s) : s[i] # node
    PROVE  Represents(free_node(ll, node), s)
  <1> DEFINE new == free_node(ll, node)
  <1>1. ll \in ListType /\ s \in Seq(Node) /\ Len(s) \in Nat
    BY LenProperties DEF Represents
  <1>2. /\ new.next = [ll.next EXCEPT ![node] = Wild]
        /\ new.prev = [ll.prev EXCEPT ![node] = Wild]
        /\ new.count = ll.count
    BY <1>1 DEF free_node, ListType
  <1>3. new \in ListType
    BY <1>1 DEF free_node, ListType, Pointer
  <1>4. \A i \in Int : NodeAt(s, i) # node /\ NodeAt(s, i) \in Pointer
    BY Places, ListAssumption DEF NodeAt, Pointer
  <1>5. \A i \in 0..Len(s) : i \in Int /\ i + 1 \in Int
    BY <1>1
  <1>6. ll.next \in [Pointer -> Pointer] /\ ll.prev \in [Pointer -> Pointer]
    BY <1>1 DEF ListType
  <1> HIDE DEF new
  <1>7. \A i \in 0..Len(s) : /\ new.next[NodeAt(s, i)] = NodeAt(s, i + 1)
                            /\ new.prev[NodeAt(s, i + 1)] = NodeAt(s, i)
    BY <1>2, <1>4, <1>5, <1>6 DEF Represents
  <1>8. Represents(new, s)
    BY <1>1, <1>2, <1>3, <1>7 DEF Represents
  <1> QED
    BY <1>8 DEF new

\* A walk goes from node to node: ll_next() of the i-th is the next one, or head.
THEOREM NextIsNext ==
    ASSUME NEW ll, NEW s, Represents(ll, s), NEW i \in 1..Len(s)
    PROVE  ll_next(ll, s[i]) = IF i = Len(s) THEN head ELSE s[i + 1]
  <1>1. Len(s) \in Nat /\ NodeAt(s, i) = s[i] /\ i \in 0..Len(s)
    BY Places DEF NodeAt
  <1>2. ll.next[NodeAt(s, i)] = NodeAt(s, i + 1)
    BY <1>1 DEF Represents
  <1> QED
    BY <1>1, <1>2 DEF ll_next, NodeAt

\* The pointers determine the list.
THEOREM MembersAre ==
    ASSUME NEW ll, NEW s, Represents(ll, s)
    PROVE  Members(ll) = s
  <1>1. s \in Seq(Node) /\ Len(s) \in Nat /\ s \in [1..ll.count -> Node] /\ ll.count = Len(s)
    BY LenProperties DEF Represents
  <1>2. ASSUME NEW t \in [1..ll.count -> Node], Represents(ll, t)
        PROVE  t = s
    <2>1. t \in Seq(Node) /\ Len(t) = Len(s)
      BY <1>1, <1>2 DEF Represents
    <2> DEFINE D == {i \in 1..Len(s) : s[i] # t[i]}
    <2>2. ASSUME NEW i \in D, \A j \in D : i <= j
          PROVE  FALSE
      <3>1. i \in 1..Len(s) /\ i - 1 \in 0..Len(s) /\ (i - 1) + 1 = i /\ i - 1 \notin D
        BY <1>1, <2>2
      <3>2. NodeAt(s, i - 1) = NodeAt(t, i - 1)
        BY <1>1, <2>1, <3>1 DEF NodeAt
      <3>3. NodeAt(s, i) = NodeAt(t, i)
        BY <1>2, <2>1, <3>1, <3>2, SMTT(60) DEF Represents
      <3>4. s[i] = t[i]
        BY <2>1, <3>1, <3>3 DEF NodeAt
      <3> QED
        BY <3>4
    <2>3. D = {}
      <3>1. D \in SUBSET Nat
        BY <1>1
      <3> HIDE DEF D
      <3> QED
        BY <2>2, <3>1, Least
    <2> QED
      BY <1>1, <2>1, <2>3, SeqEqual
  <1> QED
    BY <1>1, <1>2 DEF Members
==============================================================================
