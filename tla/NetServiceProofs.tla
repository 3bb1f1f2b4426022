--------------------------- MODULE NetServiceProofs --------------------------
(***************************************************************************)
(* Theorems about NetService, for any number of clients, any scripts, any  *)
(* number of descriptors and any memory.                                   *)
(***************************************************************************)
EXTENDS NetService, LinkedListProofs, FiniteSetTheorems

------------------------------------------------------------------------------
(* Descriptors.                                                            *)

\* The kernel finds a number that is free.
LEMMA LowestIsFree ==
    ASSUME NEW f, Unused(f) # {}
    PROVE  Lowest(f) \in FD /\ f[Lowest(f)] = Free
  <1>0. NOFILE \in Nat
    BY PoolAssumption
  <1>1. Unused(f) \in SUBSET Nat
    BY <1>0 DEF Unused, FD
  <1>2. PICK n \in Unused(f) : \A m \in Unused(f) : n <= m
    BY <1>1, Least
  <1>3. \A m \in 0..(n - 1) : f[m] # Free
    <2> SUFFICES ASSUME NEW m \in 0..(n - 1), f[m] = Free PROVE FALSE
      OBVIOUS
    <2>1. n \in FD /\ n \in Nat
      BY <1>1 DEF Unused
    <2>2. m \in FD /\ m < n
      BY <1>0, <2>1 DEF FD
    <2>3. m \in Unused(f)
      BY <2>2 DEF Unused
    <2> QED
      BY <1>2, <2>1, <2>2, <2>3 DEF FD
  <1>4. Lowest(f) \in Unused(f)
    BY <1>3 DEF Lowest
  <1> QED
    BY <1>4 DEF Unused

\* The numbers of S below n.
Below(S, n) == {m \in S : m < n}

\* A finite set with more than i numbers has one with i of them below it.
LEMMA Rank ==
    ASSUME NEW S \in SUBSET Nat, IsFiniteSet(S), NEW i \in 0..3, Cardinality(S) > i
    PROVE  \E n \in S : Cardinality(Below(S, n)) = i
  <1>0. Cardinality(S) \in Nat
    BY FS_CardinalityType
  <1>1. \E n \in S : Cardinality(Below(S, n)) = 0
    <2>1. S # {}
      BY <1>0, FS_EmptySet
    <2>2. PICK n \in S : \A m \in S : n <= m
      BY <2>1, Least
    <2>3. Below(S, n) = {}
      <3>1. \A m \in S : ~(m < n)
        BY <2>2
      <3> QED
        BY <3>1 DEF Below
    <2> QED
      BY <2>3, FS_EmptySet
  <1>2. ASSUME NEW j \in Nat, NEW n \in S, Cardinality(Below(S, n)) = j, Cardinality(S) > j + 1
        PROVE  \E p \in S : Cardinality(Below(S, p)) = j + 1
    <2> DEFINE B == Below(S, n) \cup {n}
               C == S \ B
    <2>1. IsFiniteSet(Below(S, n)) /\ n \notin Below(S, n) /\ B \in SUBSET S
      <3>1. Below(S, n) \in SUBSET S
        BY DEF Below
      <3> QED
        BY <3>1, FS_Subset DEF Below
    <2>2. IsFiniteSet(B) /\ Cardinality(B) = j + 1
      BY <1>2, <2>1, FS_AddElement
    <2>3. C # {}
      <3>1. SUFFICES ASSUME C = {} PROVE FALSE
        OBVIOUS
      <3>2. S = B
        BY <2>1, <3>1
      <3> QED
        BY <1>2, <2>2, <3>2
    <2>4. PICK p \in C : \A m \in C : p <= m
      BY <2>3, Least
    <2>5. Below(S, p) = B
      <3>1. n \in Nat /\ p \in Nat /\ p \in S /\ p # n /\ ~(p < n) /\ \A m \in S : m \in Nat
        BY <2>4 DEF Below
      <3>2. \A m \in S : m < p => m \in B
        BY <2>4, <3>1 DEF Below
      <3>3. \A m \in S : m < n \/ m = n => m < p
        BY <3>1
      <3> QED
        BY <3>1, <3>2, <3>3 DEF Below
    <2> QED
      BY <2>2, <2>4, <2>5
  <1> DEFINE P(j) == \E n \in S : Cardinality(Below(S, n)) = j
  <1>3. P(0)
    BY <1>1
  <1>4. Cardinality(S) > 1 => P(1)
    BY <1>2, <1>3
  <1>5. Cardinality(S) > 2 => P(2)
    BY <1>0, <1>2, <1>4
  <1>6. Cardinality(S) > 3 => P(3)
    BY <1>0, <1>2, <1>5
  <1> HIDE DEF P
  <1>7. P(i)
    BY <1>0, <1>3, <1>4, <1>5, <1>6
  <1> QED
    BY <1>7 DEF P

LEMMA FreeIsFinite ==
    /\ Unused(file) \in SUBSET Nat /\ IsFiniteSet(Unused(file))
    /\ Cardinality(Unused(file)) \in Nat
  <1>1. NOFILE \in Nat
    BY PoolAssumption
  <1>2. Unused(file) \in SUBSET Nat /\ \A n \in Unused(file) : n <= NOFILE
    BY <1>1 DEF Unused, FD
  <1>3. IsFiniteSet(Unused(file))
    BY <1>1, <1>2, FS_BoundedSetOfNaturals
  <1> QED
    BY <1>2, <1>3, FS_CardinalityType

\* pipe() finds two numbers that are free.
LEMMA PipeEndIsFree ==
    ASSUME NEW e \in End, Cardinality(Unused(file)) > EndOrder[e]
    PROVE  /\ PipeEnd(e) \in FD /\ file[PipeEnd(e)] = Free
           /\ Cardinality(Below(Unused(file), PipeEnd(e))) = EndOrder[e]
  <1>1. EndOrder[e] \in 0..3
    BY DEF End, EndOrder
  <1>2. \E n \in Unused(file) : Cardinality(Below(Unused(file), n)) = EndOrder[e]
    BY <1>1, FreeIsFinite, Rank
  <1>3. PipeEnd(e) \in Unused(file) /\ Cardinality(Below(Unused(file), PipeEnd(e))) = EndOrder[e]
    BY <1>2 DEF PipeEnd, Below
  <1> QED
    BY <1>3 DEF Unused

\* The four ends are four numbers that were free.
LEMMA PipeEndsAreFree ==
    ASSUME Cardinality(Unused(file)) >= 4
    PROVE  /\ PipeEnds \in [End -> FD]
           /\ \A e \in End : file[PipeEnds[e]] = Free
           /\ \A d, e \in End : PipeEnds[d] = PipeEnds[e] => d = e
  <1>1. \A e \in End : EndOrder[e] \in 0..3
    BY DEF End, EndOrder
  <1>2. \A d, e \in End : EndOrder[d] = EndOrder[e] => d = e
    BY DEF End, EndOrder
  <1>3. \A e \in End : Cardinality(Unused(file)) > EndOrder[e]
    BY <1>1, FreeIsFinite
  <1>4. \A e \in End : /\ PipeEnd(e) \in FD /\ file[PipeEnd(e)] = Free
                       /\ Cardinality(Below(Unused(file), PipeEnd(e))) = EndOrder[e]
    BY <1>3, PipeEndIsFree
  <1>5. PipeEnds = [e \in End |-> PipeEnd(e)]
    BY DEF PipeEnds
  <1> QED
    BY <1>2, <1>4, <1>5
------------------------------------------------------------------------------
(* The walk over the list.                                                 *)

\* The walk is at a client of the pool, or at the end.
LEMMA AtPlace ==
    ASSUME TypeOK, NEW s, NEW p \in 1..(Len(s) + 1), Ring(s, p), Walking
    PROVE  /\ Len(s) \in Nat
           /\ iter \in Node => p \in 1..Len(s) /\ iter = s[p] /\ iter \in Pool
           /\ iter = head => p = Len(s) + 1
           /\ \A i \in 1..Len(s) : s[i] \in Pool /\ s[i] \in Node
           /\ \A i, j \in 1..Len(s) : s[i] = s[j] => i = j
  <1>1. Represents(clients, s) /\ Range(s) = Pool /\ iter = NodeAt(s, p)
    BY DEF Ring
  <1>2. Len(s) \in Nat /\ s \in Seq(Node)
    BY <1>1, LenProperties DEF Represents
  <1>3. DOMAIN s = 1..Len(s)
    BY <1>2, LenProperties
  <1>4. \A i \in 1..Len(s) : s[i] \in Pool /\ s[i] \in Node
    BY <1>1, <1>2, <1>3, ElementOfSeq DEF Range
  <1>5. \A i, j \in 1..Len(s) : s[i] = s[j] => i = j
    BY <1>1 DEF Represents
  <1> QED
    BY <1>1, <1>2, <1>4, <1>5, ListAssumption DEF NodeAt

\* What RingInv says, with the names that proofs use.
LEMMA RingPick ==
    ASSUME RingInv
    PROVE  \E s \in Seq(Node) : \E p \in 1..(Len(s) + 1) :
              /\ Ring(s, p) /\ Len(s) = ll_count(clients)
              /\ s \in [1..ll_count(clients) -> Node]
  <1>1. PICK s \in [1..ll_count(clients) -> Node], p \in 1..(ll_count(clients) + 1) : Ring(s, p)
    BY DEF RingInv
  <1>2. s \in Seq(Node) /\ Len(s) = ll_count(clients)
    BY <1>1 DEF Ring, Represents, ll_count
  <1> QED
    BY <1>1, <1>2

\* How RingInv is established in the next state.
LEMMA RingNext ==
    ASSUME NEW s \in Seq(Node), NEW p \in 1..(Len(s) + 1), Ring(s, p)'
    PROVE  RingInv'
  <1>1. Len(s) = ll_count(clients')
    BY DEF Ring, Represents, ll_count
  <1>2. s \in [1..ll_count(clients') -> Node]
    BY <1>1, LenProperties
  <1> QED
    BY <1>1, <1>2 DEF RingInv

\* The client that is visited has an object.
LEMMA AtObject ==
    ASSUME TypeOK, RingInv, LiveInv, iter \in Node, Walking \/ pc = "SSL_accept"
    PROVE  iter \in live /\ obj[iter].client \in Client /\ obj[iter] \in ObjType
  <1>1. CASE pc = "SSL_accept"
    BY <1>1 DEF LiveInv, TypeOK
  <1>2. CASE Walking
    <2>1. PICK s \in Seq(Node) : \E p \in 1..(Len(s) + 1) : Ring(s, p)
      BY RingPick
    <2>2. iter \in Pool
      BY <1>2, <2>1, AtPlace
    <2>3. pc # "SSL_accept"
      BY <1>2 DEF Walking, Visiting
    <2> QED
      BY <2>2, <2>3 DEF LiveInv, TypeOK
  <1> QED
    BY <1>1, <1>2

\* A step that touches at most the object of the client that is visited.
OnlyVisited ==
    /\ UNCHANGED <<clients, live, read_set>>
    /\ \A a \in Node \ {iter} : obj'[a] = obj[a]
    /\ obj'[iter].client = obj[iter].client
    /\ OneCgi => \A a \in live \ {iter} : conn'[obj[a].client] = conn[obj[a].client]

LEMMA LiveStays ==
    ASSUME TypeOK, RingInv, LiveInv, iter \in Node, Visiting, OnlyVisited, Visiting'
    PROVE  LiveInv'
  <1>1. iter \in live
    BY AtObject DEF Walking
  <1>2. Pool' = Pool
    BY DEF Pool, OnlyVisited
  <1>3. pc # "SSL_accept" /\ pc' # "SSL_accept"
    BY DEF Visiting
  <1>4. live \subseteq Node
    BY DEF TypeOK
  <1>5. \A a \in live : obj'[a].client \in Client
    BY <1>1, <1>4 DEF LiveInv, OnlyVisited
  <1> QED
    BY <1>2, <1>3, <1>5 DEF LiveInv, OnlyVisited

\* Returns() is about the object, its client and the set that select() left.
LEMMA ReturnsStays ==
    ASSUME NEW a \in live \ {iter}, live \subseteq Node, OnlyVisited, OneCgi, Returns(a)
    PROVE  Returns(a)'
  BY DEF Returns, OnlyVisited, ableToRead

\* The visit goes on with the same client.
LEMMA VisitStays ==
    ASSUME TypeOK, RingInv, LiveInv, iter \in Node, Visiting, OnlyVisited,
           pc' \in {"http_process", "handlewrite"}, iter' = iter,
           obj'[iter].closed = obj[iter].closed
    PROVE  RingInv' /\ LiveInv'
  <1>1. PICK s \in Seq(Node) : \E p \in 1..(Len(s) + 1) : Ring(s, p)
    BY RingPick
  <1>2. PICK p \in 1..(Len(s) + 1) : Ring(s, p)
    BY <1>1
  <1>3. Walking /\ Visiting' /\ Walking'
    BY DEF Walking, Visiting
  <1>4. /\ Len(s) \in Nat /\ p \in 1..Len(s) /\ iter = s[p]
        /\ \A i \in 1..Len(s) : s[i] \in Pool /\ s[i] \in Node
        /\ \A i, j \in 1..Len(s) : s[i] = s[j] => i = j
    BY <1>2, <1>3, AtPlace
  <1>5. LiveInv'
    BY <1>3, LiveStays
  <1>6. Pool' = Pool /\ Pool = live /\ live \subseteq Node
    BY <1>3 DEF Pool, OnlyVisited, LiveInv, Visiting, TypeOK
  <1>7. Represents(clients', s) /\ Range(s) = Pool'
    BY <1>2, <1>6 DEF Ring, OnlyVisited
  <1>8. iter' = NodeAt(s, p)
    BY <1>2, <1>3 DEF Ring
  <1>9. \A i \in 1..Len(s) : obj'[s[i]].closed = obj[s[i]].closed
    BY <1>4 DEF OnlyVisited
  <1>10. \A i \in 1..Len(s) : obj'[s[i]].closed # 0 => i < p
    BY <1>2, <1>9 DEF Ring, Visiting
  <1>11. ASSUME OneCgi, NEW i \in 1..Len(s), i > p
         PROVE  Returns(s[i])'
    <2>1. Returns(s[i])
      BY <1>2, <1>11 DEF Ring
    <2>2. s[i] \in live \ {iter}
      BY <1>4, <1>6, <1>11
    <2> QED
      BY <1>6, <1>11, <2>1, <2>2, ReturnsStays
  <1>12. pc' # "handleread"
    OBVIOUS
  <1>13. Ring(s, p)'
    BY <1>3, <1>7, <1>8, <1>10, <1>11, <1>12 DEF Ring
  <1>14. RingInv'
    BY <1>2, <1>13, RingNext
  <1> QED
    BY <1>5, <1>14

\* The visit is over, and the next client's begins.
LEMMA VisitMovesOn ==
    ASSUME TypeOK, RingInv, LiveInv, iter \in Node, Visiting, OnlyVisited,
           pc' = "handleread", iter' = NextClient
    PROVE  RingInv' /\ LiveInv'
  <1>1. PICK s \in Seq(Node) : \E p \in 1..(Len(s) + 1) : Ring(s, p)
    BY RingPick
  <1>2. PICK p \in 1..(Len(s) + 1) : Ring(s, p)
    BY <1>1
  <1>3. Walking /\ Visiting' /\ Walking'
    BY DEF Walking, Visiting
  <1>4. /\ Len(s) \in Nat /\ p \in 1..Len(s) /\ iter = s[p]
        /\ \A i \in 1..Len(s) : s[i] \in Pool /\ s[i] \in Node
        /\ \A i, j \in 1..Len(s) : s[i] = s[j] => i = j
    BY <1>2, <1>3, AtPlace
  <1>5. LiveInv'
    BY <1>3, LiveStays
  <1>6. Pool' = Pool /\ Pool = live /\ live \subseteq Node
    BY <1>3 DEF Pool, OnlyVisited, LiveInv, Visiting, TypeOK
  <1>7. Represents(clients', s) /\ Range(s) = Pool'
    BY <1>2, <1>6 DEF Ring, OnlyVisited
  <1>8. iter' = NodeAt(s, p + 1) /\ p + 1 \in 1..(Len(s) + 1)
    <2>1. iter' = IF p = Len(s) THEN head ELSE s[p + 1]
      BY <1>2, <1>4, NextIsNext DEF Ring, NextClient
    <2> QED
      BY <1>4, <2>1 DEF NodeAt
  <1>9. \A i \in 1..Len(s) : i # p => obj'[s[i]].closed = obj[s[i]].closed
    BY <1>4 DEF OnlyVisited
  <1>10. \A i \in 1..Len(s) : obj'[s[i]].closed # 0 => i < p + 1
    BY <1>2, <1>4, <1>9 DEF Ring, Visiting
  <1>11. ASSUME OneCgi, NEW i \in 1..Len(s), i >= p + 1
         PROVE  Returns(s[i])'
    <2>1. Returns(s[i])
      BY <1>2, <1>4, <1>11 DEF Ring
    <2>2. s[i] \in live \ {iter}
      BY <1>4, <1>6, <1>11
    <2> QED
      BY <1>6, <1>11, <2>1, <2>2, ReturnsStays
  <1>12. \A i \in 1..Len(s) : i > p + 1 \/ i = p + 1 => i >= p + 1
    BY <1>4
  <1>13. Ring(s, p + 1)'
    BY <1>3, <1>7, <1>8, <1>10, <1>11, <1>12 DEF Ring
  <1>14. RingInv'
    BY <1>8, <1>13, RingNext
  <1> QED
    BY <1>5, <1>14

\* The loop is not at a client, neither before nor after the step.
LEMMA RingIdle ==
    ASSUME RingInv, ~Walking, ~Walking', clients' = clients,
           \A a \in Pool : obj'[a].closed = obj[a].closed
    PROVE  RingInv'
  <1>1. PICK s \in Seq(Node) : \E p \in 1..(Len(s) + 1) : Ring(s, p)
    BY RingPick
  <1>2. PICK p \in 1..(Len(s) + 1) : Ring(s, p)
    BY <1>1
  <1>3. Pool' = Pool
    BY DEF Pool
  <1>4. \A i \in 1..Len(s) : s[i] \in Pool
    <2>1. DOMAIN s = 1..Len(s) /\ Range(s) = Pool
      BY <1>2, LenProperties DEF Ring
    <2> QED
      BY <2>1 DEF Range
  <1>5. \A i \in 1..Len(s) : obj'[s[i]].closed = 0
    BY <1>2, <1>4 DEF Ring, Walking
  <1>6. Ring(s, p)'
    BY <1>2, <1>3, <1>5 DEF Ring, Walking
  <1> QED
    BY <1>2, <1>6, RingNext

\* Nothing is taken away from what the clients have sent.
Arriving ==
    \A k \in Client : (conn[k].waiting # "none" \/ conn[k].peer # "open")
                          => (conn'[k].waiting # "none" \/ conn'[k].peer # "open")

LEMMA RingKeeps ==
    ASSUME TypeOK, RingInv, LiveInv, Arriving,
           UNCHANGED <<pc, iter, clients, live, obj, read_set>>
    PROVE  RingInv' /\ LiveInv'
  <1>1. PICK s \in Seq(Node) : \E p \in 1..(Len(s) + 1) : Ring(s, p)
    BY RingPick
  <1>2. PICK p \in 1..(Len(s) + 1) : Ring(s, p)
    BY <1>1
  <1>3. Pool' = Pool /\ Walking' = Walking /\ Visiting' = Visiting
    BY DEF Pool, Walking, Visiting
  <1>4. LiveInv'
    BY <1>3 DEF LiveInv
  <1>5. \A i \in 1..Len(s) : s[i] \in Pool
    <2>1. DOMAIN s = 1..Len(s) /\ Range(s) = Pool
      BY <1>2, LenProperties DEF Ring
    <2> QED
      BY <2>1 DEF Range
  <1>6. ASSUME NEW i \in 1..Len(s), Returns(s[i])
        PROVE  Returns(s[i])'
    <2>1. obj[s[i]].client \in Client
      BY <1>5 DEF LiveInv
    <2> QED
      BY <1>6, <2>1 DEF Returns, ableToRead, Arriving
  <1>7. Ring(s, p)'
    BY <1>2, <1>3, <1>6 DEF Ring
  <1> QED
    BY <1>2, <1>4, <1>7, RingNext

\* removeClosedSocket() leaves a client on the list.
LEMMA RemoveMovesOn ==
    ASSUME TypeOK, RingInv, LiveInv, At("remove"), OnlyVisited,
           pc' = "remove", iter' = NextClient, obj'[iter].closed = 0
    PROVE  RingInv' /\ LiveInv'
  <1>1. PICK s \in Seq(Node) : \E p \in 1..(Len(s) + 1) : Ring(s, p)
    BY RingPick
  <1>2. PICK p \in 1..(Len(s) + 1) : Ring(s, p)
    BY <1>1
  <1>3. Walking /\ Walking' /\ ~Visiting /\ ~Visiting' /\ iter \in Node
    BY DEF Walking, Visiting, At
  <1>4. /\ Len(s) \in Nat /\ p \in 1..Len(s) /\ iter = s[p]
        /\ \A i \in 1..Len(s) : s[i] \in Pool /\ s[i] \in Node
        /\ \A i, j \in 1..Len(s) : s[i] = s[j] => i = j
    BY <1>2, <1>3, AtPlace
  <1>5. Pool' = Pool /\ Pool = live /\ live \subseteq Node
    BY DEF Pool, OnlyVisited, LiveInv, At, TypeOK
  <1>6. LiveInv'
    BY <1>4, <1>5 DEF LiveInv, OnlyVisited
  <1>7. Represents(clients', s) /\ Range(s) = Pool'
    BY <1>2, <1>5 DEF Ring, OnlyVisited
  <1>8. iter' = NodeAt(s, p + 1) /\ p + 1 \in 1..(Len(s) + 1)
    <2>1. iter' = IF p = Len(s) THEN head ELSE s[p + 1]
      BY <1>2, <1>4, NextIsNext DEF Ring, NextClient
    <2> QED
      BY <1>4, <2>1 DEF NodeAt
  <1>9. \A i \in 1..Len(s) : i # p => obj'[s[i]].closed = obj[s[i]].closed
    BY <1>4 DEF OnlyVisited
  <1>10. \A i \in 1..Len(s) : obj'[s[i]].closed # 0 => i >= p + 1
    BY <1>2, <1>3, <1>4, <1>9 DEF Ring
  <1>11. Ring(s, p + 1)'
    BY <1>3, <1>7, <1>8, <1>10 DEF Ring
  <1> QED
    BY <1>6, <1>8, <1>11, RingNext
------------------------------------------------------------------------------
(* The list is kept by every step.                                         *)

\* select() has something for the clients it reports.
LEMMA SelectReturns ==
    ASSUME OwnInv, Select, pc' # "select", NEW a \in live, obj[a].client \in Client
    PROVE  Returns(a)'
  <1>1. read_set' = {n \in ReadFds : Readable(file[n])}
                       \cup {l \in {listenfd, ssl_fd} : backlog[l] # <<>>}
    BY DEF Select
  <1>2. file[obj[a].fd] = Sock(obj[a].client)
    BY DEF OwnInv, NumbersInv
  <1>3. obj[a].fd \notin {listenfd, ssl_fd}
    BY <1>2 DEF OwnInv, FixedInv, Sock
  <1>4. Readable(Sock(obj[a].client)) =>
            conn[obj[a].client].waiting # "none" \/ conn[obj[a].client].peer # "open"
    BY DEF Readable, HasData, AtEnd, Sock
  <1>5. obj' = obj /\ conn' = conn
    BY DEF Select
  <1> QED
    BY <1>1, <1>2, <1>3, <1>4, <1>5 DEF Returns

LEMMA SelectKeepsList ==
    ASSUME IInv, Select
    PROVE  RingInv' /\ LiveInv'
  <1>1. pc = "select" /\ UNCHANGED <<clients, live, obj>>
    BY DEF Select
  <1>2. Pool' = Pool /\ Pool = live /\ ~Walking
    BY <1>1 DEF Pool, IInv, LiveInv, Walking, Visiting
  <1>3. pc' \in {"select", "handleread"}
    BY <1>1 DEF Select
  <1>4. LiveInv'
    BY <1>1, <1>2, <1>3 DEF LiveInv, IInv
  <1>5. CASE pc' = "select"
    <2>1. ~Walking'
      BY <1>5 DEF Walking, Visiting
    <2> QED
      BY <1>1, <1>2, <1>4, <2>1, RingIdle DEF IInv
  <1>6. CASE pc' = "handleread"
    <2>1. PICK s \in Seq(Node) : \E p \in 1..(Len(s) + 1) : Ring(s, p)
      BY RingPick DEF IInv
    <2>2. PICK p \in 1..(Len(s) + 1) : Ring(s, p)
      BY <2>1
    <2>3. iter' = clients.next[head]
      BY <1>1, <1>6 DEF Select, ll_start
    <2>4. iter' = NodeAt(s, 1) /\ 1 \in 1..(Len(s) + 1)
      <3>1. Len(s) \in Nat /\ 0 \in 0..Len(s) /\ NodeAt(s, 0) = head
        BY LenProperties DEF NodeAt
      <3>2. clients.next[NodeAt(s, 0)] = NodeAt(s, 0 + 1)
        BY <2>2, <3>1 DEF Ring, Represents
      <3> QED
        BY <2>3, <3>1, <3>2
    <2>5. \A i \in 1..Len(s) : s[i] \in live
      <3>1. DOMAIN s = 1..Len(s) /\ Range(s) = Pool
        BY <2>2, LenProperties DEF Ring
      <3> QED
        BY <1>2, <3>1 DEF Range
    <2>6. \A i \in 1..Len(s) : obj'[s[i]].closed = 0
      BY <1>1, <1>2, <2>2 DEF Ring, Walking
    <2>7. ASSUME OneCgi, NEW i \in 1..Len(s)
          PROVE  Returns(s[i])'
      BY <1>6, <2>5, <2>7, SelectReturns DEF IInv, LiveInv
    <2>8. Ring(s, 1)'
      BY <1>1, <1>2, <2>2, <2>4, <2>6, <2>7 DEF Ring
    <2> QED
      BY <1>4, <2>4, <2>8, RingNext
  <1> QED
    BY <1>3, <1>5, <1>6

LEMMA ServiceDoneKeepsList ==
    ASSUME IInv, ServiceDone
    PROVE  RingInv' /\ LiveInv'
  <1>1. /\ pc = "handleread" /\ iter = head /\ pc' = "remove" /\ iter' = clients.next[head]
        /\ UNCHANGED <<clients, live, obj>>
    BY DEF ServiceDone, ll_start
  <1>2. Pool' = Pool
    BY <1>1 DEF Pool
  <1>3. LiveInv'
    BY <1>1, <1>2 DEF LiveInv, IInv
  <1>4. PICK s \in Seq(Node) : \E p \in 1..(Len(s) + 1) : Ring(s, p)
    BY RingPick DEF IInv
  <1>5. PICK p \in 1..(Len(s) + 1) : Ring(s, p)
    BY <1>4
  <1>6. iter' = NodeAt(s, 1) /\ Len(s) \in Nat
    <2>1. Len(s) \in Nat /\ 0 \in 0..Len(s) /\ NodeAt(s, 0) = head
      BY LenProperties DEF NodeAt
    <2>2. clients.next[NodeAt(s, 0)] = NodeAt(s, 0 + 1)
      BY <1>5, <2>1 DEF Ring, Represents
    <2> QED
      BY <1>1, <2>1, <2>2
  <1>7. Walking' /\ ~Visiting'
    BY <1>1 DEF Walking, Visiting
  <1>8. Ring(s, 1)'
    BY <1>1, <1>2, <1>5, <1>6, <1>7 DEF Ring
  <1> QED
    BY <1>3, <1>6, <1>8, RingNext

LEMMA RemoveDoneKeepsList ==
    ASSUME IInv, RemoveDone
    PROVE  RingInv' /\ LiveInv'
  <1>1. pc = "remove" /\ iter = head /\ pc' = "accept" /\ UNCHANGED <<clients, live, obj>>
    BY DEF RemoveDone
  <1>2. Pool' = Pool /\ ~Walking' /\ ~Visiting /\ Walking
    BY <1>1 DEF Pool, Walking, Visiting
  <1>3. LiveInv'
    BY <1>1, <1>2 DEF LiveInv, IInv
  <1>4. PICK s \in Seq(Node) : \E p \in 1..(Len(s) + 1) : Ring(s, p)
    BY RingPick DEF IInv
  <1>5. PICK p \in 1..(Len(s) + 1) : Ring(s, p)
    BY <1>4
  <1>6. p = Len(s) + 1 /\ Len(s) \in Nat
    BY <1>1, <1>2, <1>5, AtPlace DEF IInv
  <1>7. \A i \in 1..Len(s) : obj'[s[i]].closed = 0
    BY <1>1, <1>2, <1>5, <1>6 DEF Ring
  <1>8. Ring(s, p)'
    BY <1>1, <1>2, <1>5, <1>7 DEF Ring, Walking
  <1> QED
    BY <1>3, <1>5, <1>8, RingNext

\* removeClosedSocket() takes a client out and goes on with the next.
LEMMA RemoveClosedKeepsList ==
    ASSUME IInv, RemoveClosed
    PROVE  RingInv' /\ LiveInv' /\ clients' \in ListType
  <1>1. /\ At("remove") /\ iter \in Node /\ pc = "remove" /\ pc' = "remove"
        /\ clients' = free_node(ll_remove(clients, iter), iter)
        /\ live' = live \ {iter} /\ obj' = [obj EXCEPT ![iter] = free(@)]
        /\ iter' = NextClient
    BY DEF RemoveClosed, At
  <1>2. TypeOK /\ LiveInv /\ Walking /\ ~Visiting /\ Walking' /\ ~Visiting'
    BY <1>1 DEF IInv, Walking, Visiting
  <1>3. PICK s \in Seq(Node) : \E p \in 1..(Len(s) + 1) : Ring(s, p)
    BY RingPick DEF IInv
  <1>4. PICK p \in 1..(Len(s) + 1) : Ring(s, p)
    BY <1>3
  <1>5. /\ Len(s) \in Nat /\ p \in 1..Len(s) /\ iter = s[p]
        /\ \A i \in 1..Len(s) : s[i] \in Pool /\ s[i] \in Node
        /\ \A i, j \in 1..Len(s) : s[i] = s[j] => i = j
    BY <1>1, <1>2, <1>4, AtPlace
  <1> DEFINE t == Without(s, p)
  <1>6. Represents(clients, s) /\ Range(s) = Pool /\ Pool = live
    BY <1>1, <1>2, <1>4 DEF Ring, LiveInv
  <1>7. Represents(ll_remove(clients, iter), t)
    BY <1>5, <1>6, RemoveTakesOut
  <1>8. /\ t \in Seq(Node) /\ Len(t) = Len(s) - 1
        /\ \A i \in 1..Len(t) : t[i] = IF i < p THEN s[i] ELSE s[i + 1]
    <2>1. Len(t) = Len(s) - 1 /\ t \in Seq(Node)
      <3>1. ll_remove(clients, iter).count = Len(s) - 1
        BY <1>6 DEF ll_remove, Represents
      <3> QED
        BY <1>7, <3>1 DEF Represents
    <2> QED
      BY <2>1 DEF Without
  <1>9. \A i \in 1..Len(t) : t[i] # iter
    BY <1>5, <1>8
  <1>10. Represents(clients', t) /\ clients' \in ListType
    <2>1. Represents(free_node(ll_remove(clients, iter), iter), t)
      BY <1>1, <1>7, <1>9, FreeKeeps
    <2> QED
      BY <1>1, <2>1 DEF Represents
  <1>11. Range(t) = Pool \ {iter}
    <2>1. DOMAIN t = 1..Len(t) /\ DOMAIN s = 1..Len(s)
      BY <1>8, LenProperties
    <2>2. \A i \in 1..Len(t) : t[i] \in Pool \ {iter}
      BY <1>5, <1>8, <1>9
    <2>3. ASSUME NEW a \in Pool, a # iter
          PROVE  \E i \in 1..Len(t) : t[i] = a
      <3>1. PICK j \in 1..Len(s) : s[j] = a
        BY <1>6, <2>1 DEF Range
      <3>2. CASE j < p
        BY <1>5, <1>8, <3>1, <3>2
      <3>3. CASE j > p
        <4>1. j - 1 \in 1..Len(t) /\ ~(j - 1 < p) /\ (j - 1) + 1 = j
          BY <1>5, <1>8, <3>3
        <4> QED
          BY <1>8, <3>1, <4>1
      <3> QED
        BY <1>5, <2>3, <3>1, <3>2, <3>3
    <2> QED
      BY <2>1, <2>2, <2>3 DEF Range
  <1>12. Pool' = Pool \ {iter}
    <2>1. /\ clients \in ListType /\ iter \in Pointer
          /\ clients'.next = [ll_remove(clients, iter).next EXCEPT ![iter] = Wild]
      BY <1>1, <1>2 DEF TypeOK, free_node, Pointer, ll_remove
    <2>2. ll_remove(clients, iter).next = [clients.next EXCEPT ![clients.prev[iter]] = clients.next[iter]]
      BY DEF ll_remove
    <2>3. clients.prev[iter] = NodeAt(s, p - 1) /\ clients.next[iter] = NodeAt(s, p + 1)
      <3>1. p - 1 \in 0..Len(s) /\ p \in 0..Len(s) /\ NodeAt(s, p) = iter /\ (p - 1) + 1 = p
        BY <1>5 DEF NodeAt
      <3> QED
        BY <1>6, <3>1 DEF Represents
    <2>4. NodeAt(s, p - 1) \in Pool \cup {head} /\ NodeAt(s, p + 1) \in Pool \cup {head}
      BY <1>5 DEF NodeAt
    <2>5. NodeAt(s, p + 1) # Wild
      BY <2>4, ListAssumption DEF Pool
    <2>6. clients.next \in [Pointer -> Pointer] /\ Node \subseteq Pointer
      BY <2>1 DEF ListType, Pointer
    <2>7. \A a \in Node \ {iter} : clients'.next[a] # Wild <=> clients.next[a] # Wild
      <3> SUFFICES ASSUME NEW a \in Node \ {iter}
                   PROVE  clients'.next[a] # Wild <=> clients.next[a] # Wild
        OBVIOUS
      <3>1. CASE a = clients.prev[iter]
        <4>1. clients'.next[a] = clients.next[iter]
          BY <2>1, <2>2, <2>6, <3>1
        <4>2. a \in Pool
          BY <2>3, <2>4, <3>1, ListAssumption
        <4> QED
          BY <2>3, <2>5, <4>1, <4>2 DEF Pool
      <3>2. CASE a # clients.prev[iter]
        BY <2>1, <2>2, <2>6, <3>2
      <3> QED
        BY <3>1, <3>2
    <2>8. clients'.next[iter] = Wild
      <3>1. iter \in DOMAIN ll_remove(clients, iter).next
        BY <2>1, <2>2, <2>6
      <3> QED
        BY <2>1, <3>1
    <2> QED
      BY <2>7, <2>8 DEF Pool
  <1>13. iter' = NodeAt(t, p) /\ p \in 1..(Len(t) + 1)
    <2>1. iter' = IF p = Len(s) THEN head ELSE s[p + 1]
      BY <1>1, <1>5, <1>6, NextIsNext DEF NextClient
    <2> QED
      BY <1>5, <1>8, <2>1 DEF NodeAt
  <1>14. \A i \in 1..Len(t) : obj'[t[i]].closed # 0 => i >= p
    <2> SUFFICES ASSUME NEW i \in 1..Len(t), i < p PROVE obj'[t[i]].closed = 0
      BY <1>5, <1>8
    <2>1. i \in 1..Len(s) /\ t[i] = s[i] /\ s[i] # iter /\ s[i] \in Node
      BY <1>5, <1>8
    <2>2. obj[s[i]].closed = 0
      BY <1>2, <1>4, <1>5, <2>1 DEF Ring
    <2> QED
      BY <1>1, <1>2, <2>1, <2>2 DEF TypeOK
  <1> HIDE DEF t
  <1>15. Ring(t, p)'
    BY <1>1, <1>2, <1>10, <1>11, <1>12, <1>13, <1>14 DEF Ring
  <1>16. LiveInv'
    <2>1. \A a \in live' : obj'[a].client \in Client
      BY <1>1, <1>2 DEF LiveInv, TypeOK
    <2> QED
      BY <1>1, <1>6, <1>12, <2>1 DEF LiveInv
  <1> QED
    BY <1>8, <1>10, <1>13, <1>15, <1>16, RingNext

\* A client is put at the end of the list between two turns.
LEMMA InsertKeepsList ==
    ASSUME TypeOK, RingInv, ~Walking, ~Walking', NEW a \in Node, a \notin Pool,
           clients' = ll_insert_last(clients, a),
           \A b \in Pool : obj'[b].closed = obj[b].closed, obj'[a].closed = 0
    PROVE  RingInv' /\ Pool' = Pool \cup {a} /\ clients' \in ListType
  <1>1. PICK s \in Seq(Node) : \E p \in 1..(Len(s) + 1) : Ring(s, p)
    BY RingPick
  <1>2. PICK p \in 1..(Len(s) + 1) : Ring(s, p)
    BY <1>1
  <1>3. Represents(clients, s) /\ Range(s) = Pool /\ Len(s) \in Nat /\ DOMAIN s = 1..Len(s)
    BY <1>2, LenProperties DEF Ring
  <1>4. \A i \in 1..Len(s) : s[i] \in Pool
    BY <1>3 DEF Range
  <1> DEFINE t == Append(s, a)
  <1>5. Represents(clients', t) /\ clients' \in ListType
    <2>1. \A i \in 1..Len(s) : s[i] # a
      BY <1>4
    <2>2. Represents(ll_insert_last(clients, a), t)
      BY <1>3, <2>1, InsertAppends
    <2> QED
      BY <2>2 DEF Represents
  <1>6. /\ t \in Seq(Node) /\ Len(t) = Len(s) + 1 /\ t[Len(s) + 1] = a
        /\ \A i \in 1..Len(s) : t[i] = s[i]
    BY <1>3, AppendProperties
  <1>7. Range(t) = Pool \cup {a}
    <2>1. DOMAIN t = 1..(Len(s) + 1)
      BY <1>6, LenProperties
    <2>2. \A i \in 1..(Len(s) + 1) : i \in 1..Len(s) \/ i = Len(s) + 1
      BY <1>3
    <2>3. \A i \in 1..Len(s) : i \in 1..(Len(s) + 1)
      BY <1>3
    <2>4. Len(s) + 1 \in 1..(Len(s) + 1)
      BY <1>3
    <2> HIDE DEF t
    <2> QED
      BY <1>3, <1>6, <2>1, <2>2, <2>3, <2>4 DEF Range
  <1>8. Pool' = Pool \cup {a}
    <2>1. clients'.next = [clients.next EXCEPT ![clients.prev[head]] = a, ![a] = head]
      BY DEF ll_insert_last
    <2>2. clients.prev[head] = NodeAt(s, Len(s))
      <3>1. Len(s) \in 0..Len(s) /\ NodeAt(s, Len(s) + 1) = head
        BY <1>3 DEF NodeAt
      <3> QED
        BY <1>3, <3>1 DEF Represents
    <2>3. clients.prev[head] \in Pool \cup {head}
      BY <1>4, <2>2 DEF NodeAt
    <2>4. clients.next \in [Pointer -> Pointer] /\ Node \subseteq Pointer
      BY DEF TypeOK, ListType, Pointer
    <2>5. clients'.next[a] = head
      BY <2>1, <2>4
    <2>6. \A b \in Node \ {a} : clients'.next[b] = IF b = clients.prev[head] THEN a ELSE clients.next[b]
      BY <2>1, <2>4
    <2>7. clients.prev[head] \in Node => clients.next[clients.prev[head]] # Wild
      BY <2>3, ListAssumption DEF Pool
    <2> QED
      BY <2>5, <2>6, <2>7, ListAssumption DEF Pool
  <1>9. \A i \in 1..Len(t) : obj'[t[i]].closed = 0
    <2>1. \A i \in 1..Len(s) : obj[s[i]].closed = 0
      BY <1>2 DEF Ring, Walking
    <2>2. \A i \in 1..Len(s) : obj'[t[i]].closed = 0
      BY <1>4, <1>6, <2>1
    <2>3. \A i \in 1..Len(t) : i \in 1..Len(s) \/ i = Len(s) + 1
      BY <1>3, <1>6
    <2> QED
      BY <1>6, <2>2, <2>3
  <1>10. 1 \in 1..(Len(t) + 1)
    BY <1>3, <1>6
  <1> HIDE DEF t
  <1>11. Ring(t, 1)'
    BY <1>5, <1>7, <1>8, <1>9 DEF Ring, Walking
  <1> QED
    BY <1>5, <1>6, <1>8, <1>10, <1>11, RingNext

\* accept_newclient() works between the turns.
LEMMA AcceptKeepsList ==
    ASSUME IInv, Accept
    PROVE  RingInv' /\ LiveInv' /\ clients' \in ListType
  <1>1. /\ TypeOK /\ RingInv /\ LiveInv /\ clients \in ListType /\ live \subseteq Node
        /\ obj \in [Node -> ObjType]
    BY DEF IInv, TypeOK
  <1>2. ASSUME NEW l \in {listenfd, ssl_fd}, NoAccept(l) \/ AcceptFails(l) \/ AddFails(l)
        PROVE  RingInv' /\ LiveInv' /\ clients' \in ListType
    <2>1. /\ pc \in {"accept", "accept_ssl"} /\ pc' \in {"accept_ssl", "select"}
          /\ UNCHANGED <<clients, live, obj>>
      BY <1>2 DEF NoAccept, AcceptFails, AddFails, Listening, AfterAccept, Accepted
    <2>2. ~Walking /\ ~Walking' /\ Pool' = Pool
      BY <2>1 DEF Walking, Visiting, Pool
    <2>3. LiveInv'
      BY <1>1, <2>1, <2>2 DEF LiveInv
    <2> QED
      BY <1>1, <2>1, <2>2, <2>3, RingIdle
  <1>3. ASSUME NEW a \in Node, NEW k \in Client, AddClient(a, k)
        PROVE  RingInv' /\ LiveInv' /\ clients' \in ListType
    <2>1. /\ pc = "accept" /\ pc' = "accept_ssl" /\ clients' = ll_insert_last(clients, a)
          /\ a \in Node \ live /\ live' = live \cup {a}
          /\ obj' = [obj EXCEPT ![a] = new_ClientSocket(@, k, Lowest(file))]
      BY <1>3 DEF AddClient, Accepted, Allocate, Listening, AfterAccept
    <2>2. ~Walking /\ ~Walking' /\ Pool = live
      BY <1>1, <2>1 DEF Walking, Visiting, LiveInv
    <2>3. /\ obj'[a].closed = 0 /\ obj'[a].client = k
          /\ \A b \in Pool : obj'[b] = obj[b]
      BY <1>1, <2>1, <2>2 DEF new_ClientSocket, Blank
    <2>4. RingInv' /\ Pool' = Pool \cup {a} /\ clients' \in ListType
      BY <1>1, <2>1, <2>2, <2>3, InsertKeepsList
    <2>5. LiveInv'
      BY <1>1, <2>1, <2>2, <2>3, <2>4 DEF LiveInv
    <2> QED
      BY <2>4, <2>5
  <1>4. ASSUME NEW a \in Node, NEW k \in Client, AddTlsClient(a, k)
        PROVE  RingInv' /\ LiveInv' /\ clients' \in ListType
    <2>1. /\ pc = "accept_ssl" /\ pc' = "SSL_accept" /\ clients' = clients /\ iter' = a
          /\ a \in Node \ live /\ live' = live \cup {a}
          /\ obj' = [obj EXCEPT ![a] = new_ClientSocket(@, k, Lowest(file))]
      BY <1>4 DEF AddTlsClient, Accepted, Allocate, Listening, listenfd, ssl_fd
    <2>2. ~Walking /\ ~Walking' /\ Pool = live /\ Pool' = Pool
      BY <1>1, <2>1 DEF Walking, Visiting, LiveInv, Pool
    <2>3. /\ obj'[a].closed = 0 /\ obj'[a].client = k
          /\ \A b \in Pool : obj'[b] = obj[b]
      BY <1>1, <2>1, <2>2 DEF new_ClientSocket, Blank
    <2>4. RingInv'
      BY <1>1, <2>1, <2>2, <2>3, RingIdle
    <2>5. LiveInv'
      BY <1>1, <2>1, <2>2, <2>3 DEF LiveInv
    <2> QED
      BY <1>1, <2>1, <2>4, <2>5
  <1>5. ASSUME HandshakeDone
        PROVE  RingInv' /\ LiveInv' /\ clients' \in ListType
    <2>1. /\ pc = "SSL_accept" /\ pc' = "select" /\ iter \in Node
          /\ clients' = ll_insert_last(clients, iter) /\ UNCHANGED <<live, obj>>
      BY <1>5 DEF HandshakeDone, At, AfterAccept, listenfd, ssl_fd
    <2>2. /\ ~Walking /\ ~Walking' /\ Pool = live \ {iter}
          /\ iter \in live /\ obj[iter].closed = 0
      BY <1>1, <2>1 DEF Walking, Visiting, LiveInv
    <2>3. RingInv' /\ Pool' = Pool \cup {iter} /\ clients' \in ListType
      BY <1>1, <2>1, <2>2, InsertKeepsList
    <2>4. LiveInv'
      BY <1>1, <2>1, <2>2, <2>3 DEF LiveInv
    <2> QED
      BY <2>3, <2>4
  <1>6. ASSUME HandshakeFails
        PROVE  RingInv' /\ LiveInv' /\ clients' \in ListType
    <2>1. /\ pc = "SSL_accept" /\ pc' = "select" /\ iter \in Node
          /\ clients' = clients /\ live' = live \ {iter}
          /\ obj' = [obj EXCEPT ![iter] = free(@)]
      BY <1>6 DEF HandshakeFails, At, AfterAccept, listenfd, ssl_fd
    <2>2. ~Walking /\ ~Walking' /\ Pool = live \ {iter} /\ Pool' = Pool
      BY <1>1, <2>1 DEF Walking, Visiting, LiveInv, Pool
    <2>3. \A b \in Pool : obj'[b] = obj[b]
      BY <1>1, <2>1, <2>2
    <2>4. RingInv'
      BY <1>1, <2>1, <2>2, <2>3, RingIdle
    <2>5. LiveInv'
      BY <1>1, <2>1, <2>2, <2>3 DEF LiveInv
    <2> QED
      BY <1>1, <2>1, <2>4, <2>5
  <1> QED
    BY <1>2, <1>3, <1>4, <1>5, <1>6 DEF Accept
------------------------------------------------------------------------------
(* Types.                                                                  *)

\* The walk stays in the list.
LEMMA NextIsPlace ==
    ASSUME TypeOK, RingInv
    PROVE  /\ ll_start(clients) \in Node \cup {head}
           /\ Walking /\ iter \in Node => NextClient \in Node \cup {head}
  <1>1. PICK s \in Seq(Node) : \E p \in 1..(Len(s) + 1) : Ring(s, p)
    BY RingPick
  <1>2. PICK p \in 1..(Len(s) + 1) : Ring(s, p)
    BY <1>1
  <1>3. Represents(clients, s) /\ Len(s) \in Nat
    BY <1>2, LenProperties DEF Ring
  <1>4. \A i \in 0..Len(s) : clients.next[NodeAt(s, i)] \in Node \cup {head}
    BY <1>3, Places DEF Represents
  <1>5. NodeAt(s, 0) = head /\ 0 \in 0..Len(s)
    BY <1>3 DEF NodeAt
  <1>6. Walking /\ iter \in Node => iter = NodeAt(s, p) /\ p \in 0..Len(s)
    BY <1>2, AtPlace DEF Ring
  <1> QED
    BY <1>4, <1>5, <1>6 DEF ll_start, ll_next, NextClient

\* What a client waits for is in its script.
LEMMA AskedIsKind ==
    ASSUME TypeOK, AskedInv, NEW k \in Client, conn[k].asked >= 1
    PROVE  Script[k][conn[k].asked] \in Kind
  <1>1. Script[k] \in Seq(Kind)
    BY PoolAssumption
  <1>2. conn[k].asked \in 0..Len(Script[k])
    BY DEF AskedInv
  <1>3. Len(Script[k]) \in Nat
    BY <1>1, LenProperties
  <1>4. conn[k].asked \in 1..Len(Script[k])
    BY <1>2, <1>3
  <1> QED
    BY <1>1, <1>4, ElementOfSeq

\* Files and numbers.
LEMMA FileTypes ==
    /\ Free \in File
    /\ \A k \in Client : Sock(k) \in File /\ <<"file", k>> \in File
    /\ \A e \in End, k \in Client : <<e, k>> \in File
    /\ \A f \in [FD -> File], x \in File : Unused(f) # {} => Opened(f, x) \in [FD -> File]
    /\ \A f \in [FD -> File] : \A S : Closed(f, S) \in [FD -> File]
  <1>1. Free \in File
    BY DEF Free, File
  <1>2. \A k \in Client : Sock(k) \in File /\ <<"file", k>> \in File
    BY DEF Sock, File
  <1>3. \A e \in End, k \in Client : <<e, k>> \in File
    BY DEF File
  <1>4. \A f \in [FD -> File], x \in File : Unused(f) # {} => Opened(f, x) \in [FD -> File]
    BY LowestIsFree DEF Opened
  <1>5. \A f \in [FD -> File] : \A S : Closed(f, S) \in [FD -> File]
    BY <1>1 DEF Closed
  <1> QED
    BY <1>1, <1>2, <1>3, <1>4, <1>5

\* An object that is changed in place.
LEMMA ObjectType ==
    ASSUME obj \in [Node -> ObjType], NEW a \in Node, NEW o \in ObjType
    PROVE  [obj EXCEPT ![a] = o] \in [Node -> ObjType]
  OBVIOUS

LEMMA RespondedType ==
    ASSUME NEW o \in ObjType, o.client \in Client, NEW r \in Responded(o)
    PROVE  /\ r \in ObjType
           /\ r = [o EXCEPT !.doing = r.doing, !.wbuf = o.wbuf \cup {o.client}]
           /\ r.doing \in {"head", "body", "over"}
           /\ o.fp = NoFile /\ o.doing = "head" => r.doing \in {"head", "over"}
  <1>1. PICK d \in {"head", "body", "over"} :
            /\ r = [o EXCEPT !.doing = d, !.wbuf = o.wbuf \cup {o.client}]
            /\ o.fp = NoFile /\ o.doing = "head" => d # "body"
    BY DEF Responded
  <1>2. DOMAIN o = {"client", "fd", "closed", "doing", "rbuf", "fp", "pipes", "pre", "wbuf"}
    BY DEF ObjType
  <1>3. r.doing = d
    BY <1>1, <1>2
  <1>4. o.wbuf \cup {o.client} \in SUBSET Client
    BY DEF ObjType
  <1>5. r \in ObjType
    BY <1>1, <1>4 DEF ObjType
  <1> QED
    BY <1>1, <1>3, <1>5

\* handleread().
LEMMA ReadTypes ==
    ASSUME IInv, NoRead \/ Read \/ ReadEnd
    PROVE  TypeOK' /\ AskedInv'
  <1>1. TypeOK /\ AskedInv /\ RingInv /\ LiveInv /\ iter \in Node /\ Walking
    BY DEF IInv, NoRead, Read, ReadEnd, At, Walking, Visiting
  <1>2. obj[iter] \in ObjType /\ NextClient \in Node \cup {head}
    BY <1>1, AtObject, NextIsPlace
  <1>3. CASE NoRead
    BY <1>1, <1>3 DEF NoRead, TypeOK, AskedInv, Place
  <1>4. CASE Read
    <2>1. PICK k \in Client : /\ conn[k].waiting = "whole"
                              /\ obj' = [obj EXCEPT ![iter].rbuf = Script[k][conn[k].asked]]
                              /\ conn' = [conn EXCEPT ![k].waiting = "none"]
      BY <1>4 DEF Read
    <2>2. Script[k][conn[k].asked] \in Kind
      <3>1. conn[k].asked >= 1
        BY <1>1, <2>1 DEF AskedInv
      <3> QED
        BY <1>1, <3>1, AskedIsKind
    <2>3. obj' \in [Node -> ObjType]
      BY <1>1, <1>2, <2>1, <2>2 DEF TypeOK, ObjType
    <2>4. conn' \in [Client -> ConnType]
      <3>1. conn[k] \in ConnType /\ conn \in [Client -> ConnType]
        BY <1>1 DEF TypeOK
      <3>2. [conn[k] EXCEPT !.waiting = "none"] \in ConnType
        BY <3>1 DEF ConnType
      <3>3. conn' = [conn EXCEPT ![k] = [conn[k] EXCEPT !.waiting = "none"]]
        BY <2>1
      <3> QED
        BY <3>1, <3>2, <3>3
    <2>5. AskedInv'
      BY <1>1, <2>1 DEF AskedInv, TypeOK, ConnType
    <2> QED
      BY <1>1, <1>4, <2>3, <2>4, <2>5 DEF Read, TypeOK, Place
  <1>5. CASE ReadEnd
    <2>1. obj' \in [Node -> ObjType]
      BY <1>1, <1>2, <1>5 DEF ReadEnd, TypeOK, ObjType
    <2> QED
      BY <1>1, <1>2, <1>5, <2>1 DEF ReadEnd, TypeOK, AskedInv
  <1> QED
    BY <1>3, <1>4, <1>5

\* Where the object of the client that is visited is changed, and what else.
LEMMA VisitedType ==
    ASSUME IInv, At("handleread") \/ At("http_process") \/ At("handlewrite") \/ At("remove")
    PROVE  /\ TypeOK /\ AskedInv /\ RingInv /\ LiveInv /\ iter \in Node /\ Walking
           /\ obj[iter] \in ObjType /\ obj[iter].client \in Client /\ iter \in live
           /\ obj \in [Node -> ObjType]
           /\ NextClient \in Node \cup {head}
  <1>1. TypeOK /\ AskedInv /\ RingInv /\ LiveInv /\ iter \in Node /\ Walking
    BY DEF IInv, At, Walking, Visiting
  <1> QED
    BY <1>1, AtObject, NextIsPlace DEF TypeOK

\* http_process() up to the response.
LEMMA ProcessTypes ==
    ASSUME IInv, Idle \/ Respond \/ ParseStatic \/ ParseCgi
    PROVE  TypeOK' /\ AskedInv'
  <1>1. /\ TypeOK /\ AskedInv /\ obj[iter] \in ObjType /\ obj[iter].client \in Client
        /\ iter \in Node /\ obj \in [Node -> ObjType]
    BY VisitedType DEF Idle, Respond, ParseStatic, ParseCgi, Processing
  <1>2. CASE Idle
    BY <1>1, <1>2 DEF Idle, TypeOK, AskedInv, Place
  <1>3. CASE Respond
    <2>1. PICK r \in Responded(obj[iter]) : obj' = [obj EXCEPT ![iter] = r]
      BY <1>3 DEF Respond
    <2>2. obj' \in [Node -> ObjType]
      BY <1>1, <2>1, RespondedType
    <2> QED
      BY <1>1, <1>3, <2>2 DEF Respond, TypeOK, AskedInv, Place
  <1>4. CASE ParseCgi
    <2>1. [obj[iter] EXCEPT !.doing = "cgi", !.rbuf = "none"] \in ObjType
      BY <1>1 DEF ObjType
    <2>2. obj' = [obj EXCEPT ![iter] = [obj[iter] EXCEPT !.doing = "cgi", !.rbuf = "none"]]
      BY <1>4 DEF ParseCgi
    <2>3. obj' \in [Node -> ObjType]
      BY <1>1, <2>1, <2>2
    <2> QED
      BY <1>1, <1>4, <2>3 DEF ParseCgi, TypeOK, AskedInv, Place
  <1>5. CASE ParseStatic
    <2> DEFINE o == obj[iter]
               opens == o.rbuf = "file" /\ Unused(file) # {}
               fp == IF opens THEN Lowest(file) ELSE NoFile
               start == [o EXCEPT !.doing = "head", !.rbuf = "none", !.fp = fp]
    <2>1. fp \in FD \cup {NoFile}
      BY LowestIsFree
    <2>2. start \in ObjType /\ start.client = o.client
      BY <1>1, <2>1 DEF ObjType
    <2>3. PICK r \in Responded(start) : obj' = [obj EXCEPT ![iter] = r]
      BY <1>5 DEF ParseStatic
    <2>4. obj' \in [Node -> ObjType]
      <3> HIDE DEF start
      <3> QED
        BY <1>1, <2>2, <2>3, RespondedType
    <2>5. file' = IF opens THEN Opened(file, <<"file", o.client>>) ELSE file
      BY <1>5 DEF ParseStatic
    <2>6. file' \in [FD -> File]
      BY <1>1, <2>5, FileTypes, SMTT(60) DEF TypeOK
    <2> QED
      BY <1>1, <1>5, <2>4, <2>6 DEF ParseStatic, TypeOK, AskedInv, Place
  <1> QED
    BY <1>2, <1>3, <1>4, <1>5

\* process_cgi().
LEMMA CgiTypes ==
    ASSUME IInv, CgiStart \/ NoPipes \/ CgiFails \/ CgiPoll
    PROVE  TypeOK' /\ AskedInv'
  <1>1. /\ TypeOK /\ AskedInv /\ obj[iter] \in ObjType /\ obj[iter].client \in Client
        /\ iter \in Node /\ obj \in [Node -> ObjType]
    BY VisitedType DEF CgiStart, NoPipes, CgiFails, CgiPoll, Starting, Processing
  <1>2. CASE CgiStart
    <2>1. PipeEnds \in [End -> FD] /\ \A d, e \in End : PipeEnds[d] = PipeEnds[e] => d = e
      BY <1>2, PipeEndsAreFree DEF CgiStart
    <2>2. file' = WithPipes(PipeEnds, obj[iter].client)
          /\ obj' = [obj EXCEPT ![iter].pre = TRUE, ![iter].pipes = PipeEnds]
      BY <1>2 DEF CgiStart
    <2>3. [obj[iter] EXCEPT !.pre = TRUE, !.pipes = PipeEnds] \in ObjType
      BY <1>1, <2>1 DEF ObjType
    <2>4. obj' \in [Node -> ObjType]
      BY <1>1, <2>2, <2>3
    <2>5. file' \in [FD -> File]
      <3>1. ASSUME NEW n \in Range(PipeEnds)
            PROVE  (CHOOSE e \in End : PipeEnds[e] = n) \in End
        BY <2>1 DEF Range
      <3> QED
        BY <1>1, <2>2, <3>1, FileTypes DEF WithPipes, TypeOK
    <2>6. child' \in [Client -> {"none", "running", "exited"}] /\ out' \in [Client -> BOOLEAN]
      BY <1>1, <1>2 DEF CgiStart, TypeOK
    <2> QED
      BY <1>1, <1>2, <2>4, <2>5, <2>6 DEF CgiStart, TypeOK, AskedInv, loopVars
  <1>3. CASE NoPipes
    <2> DEFINE o == obj[iter]
               one == Cardinality(Unused(file)) >= 2
               ends == [e \in End |-> IF one /\ e \in {"in0", "in1"} THEN PipeEnd(e) ELSE o.pipes[e]]
    <2>1. ends \in [End -> FD]
      <3>1. ASSUME one, NEW e \in {"in0", "in1"} PROVE PipeEnd(e) \in FD
        <4>1. e \in End /\ EndOrder[e] \in {0, 1}
          BY DEF End, EndOrder
        <4> QED
          BY <3>1, <4>1, FreeIsFinite, PipeEndIsFree
      <3>2. o.pipes \in [End -> FD]
        BY <1>1 DEF ObjType
      <3> QED
        BY <3>1, <3>2
    <2>2. Failed(o, ends) \in ObjType /\ Failed(o, ends).client = o.client
      BY <1>1, <2>1 DEF Failed, ObjType
    <2>3. PICK r \in Responded(Failed(o, ends)) : obj' = [obj EXCEPT ![iter] = r]
      BY <1>3 DEF NoPipes
    <2>4. obj' \in [Node -> ObjType]
      <3> HIDE DEF ends
      <3> QED
        BY <1>1, <2>2, <2>3, RespondedType
    <2> QED
      BY <1>1, <1>3, <2>4 DEF NoPipes, TypeOK, AskedInv, Place
  <1>4. CASE CgiFails
    <2>1. PipeEnds \in [End -> FD]
      BY <1>4, PipeEndsAreFree DEF CgiFails
    <2>2. Failed(obj[iter], PipeEnds) \in ObjType
          /\ Failed(obj[iter], PipeEnds).client = obj[iter].client
      BY <1>1, <2>1 DEF Failed, ObjType
    <2>3. PICK r \in Responded(Failed(obj[iter], PipeEnds)) : obj' = [obj EXCEPT ![iter] = r]
      BY <1>4 DEF CgiFails
    <2>4. obj' \in [Node -> ObjType]
      BY <1>1, <2>2, <2>3, RespondedType
    <2>5. child' \in [Client -> {"none", "running", "exited"}]
      BY <1>1, <1>4, SMTT(60) DEF CgiFails, TypeOK
    <2> QED
      BY <1>1, <1>4, <2>4, <2>5 DEF CgiFails, TypeOK, AskedInv, Place
  <1>5. CASE CgiPoll
    <2> DEFINE o == obj[iter]
               x == file[o.pipes["out0"]]
    <2>1. x \in File
      <3>1. o.pipes["out0"] \in FD
        BY <1>1 DEF ObjType, End
      <3> QED
        BY <1>1, <3>1 DEF TypeOK
    <2>2. HasData(x) => x[2] \in Client
      BY <2>1, SMTT(60) DEF HasData, File, Free, End
    <2>3. PICK read \in BOOLEAN :
              /\ IF read THEN Readable(x) => HasData(x) ELSE Readable(x) => AtEnd(x)
              /\ obj' = CASE ~Readable(x) -> obj
                          [] Readable(x) /\ read -> [obj EXCEPT ![iter].wbuf = {x[2]}]
                          [] OTHER -> [obj EXCEPT ![iter].wbuf = {}, ![iter].doing = "over"]
              /\ file' = IF Readable(x) /\ ~read THEN Closed(file, Range(o.pipes)) ELSE file
              /\ out' = IF x[1] = "out0" /\ read THEN [out EXCEPT ![x[2]] = FALSE] ELSE out
              /\ conn' = IF x[1] = "sock" /\ read
                         THEN [conn EXCEPT ![x[2]].waiting = "none"] ELSE conn
      BY <1>5 DEF CgiPoll
    <2> HIDE DEF x
    <2>4. file' \in [FD -> File]
      BY <1>1, <2>3, FileTypes DEF TypeOK
    <2>5. out' \in [Client -> BOOLEAN]
      BY <1>1, <2>3 DEF TypeOK
    <2>6. conn' \in [Client -> ConnType] /\ AskedInv'
      <3>1. CASE ~(x[1] = "sock" /\ read)
        BY <1>1, <2>3, <3>1 DEF TypeOK, AskedInv
      <3>2. CASE x[1] = "sock" /\ read
        <4> DEFINE k == x[2]
        <4>1. conn' = [conn EXCEPT ![k].waiting = "none"]
          BY <2>3, <3>2
        <4>2. \A c \in ConnType : [c EXCEPT !.waiting = "none"] \in ConnType
          BY DEF ConnType
        <4>3. conn \in [Client -> ConnType]
          BY <1>1 DEF TypeOK
        <4> HIDE DEF k
        <4>4. conn' \in [Client -> ConnType]
          BY <4>1, <4>2, <4>3
        <4>5. \A j \in Client : conn'[j].asked = conn[j].asked
                               /\ (conn'[j].waiting # "none" => conn[j].waiting # "none")
          BY <4>1, <4>3 DEF ConnType
        <4> QED
          BY <1>1, <4>4, <4>5 DEF AskedInv
      <3> QED
        BY <3>1, <3>2
    <2>7. obj' \in [Node -> ObjType]
      <3>1. CASE ~Readable(x)
        BY <1>1, <2>3, <3>1
      <3>2. CASE Readable(x) /\ read
        <4>1. obj' = [obj EXCEPT ![iter].wbuf = {x[2]}] /\ x[2] \in Client
          BY <2>2, <2>3, <3>2
        <4>2. [o EXCEPT !.wbuf = {x[2]}] \in ObjType
          BY <1>1, <4>1 DEF ObjType
        <4> QED
          BY <1>1, <4>1, <4>2
      <3>3. CASE Readable(x) /\ ~read
        <4>1. obj' = [obj EXCEPT ![iter].wbuf = {}, ![iter].doing = "over"]
          BY <2>3, <3>3
        <4>2. [o EXCEPT !.wbuf = {}, !.doing = "over"] \in ObjType
          BY <1>1 DEF ObjType
        <4> QED
          BY <1>1, <4>1, <4>2
      <3> QED
        BY <3>1, <3>2, <3>3
    <2> QED
      BY <1>1, <1>5, <2>4, <2>5, <2>6, <2>7 DEF CgiPoll, TypeOK, Place
  <1> QED
    BY <1>2, <1>3, <1>4, <1>5

\* handlewrite().
LEMMA AfterSendTypes ==
    ASSUME IInv, At("handlewrite"), NEW result \in {0, 2}, NEW wbuf \in SUBSET Client,
           AfterSend(result, wbuf), conn' \in [Client -> ConnType]
    PROVE  TypeOK'
  <1>1. /\ TypeOK /\ obj[iter] \in ObjType /\ iter \in Node /\ obj \in [Node -> ObjType]
        /\ NextClient \in Node \cup {head}
    BY VisitedType
  <1> DEFINE c == IF obj[iter].doing = "over" THEN 1 ELSE result
  <1>2. obj' = [obj EXCEPT ![iter].wbuf = wbuf, ![iter].closed = c]
    BY DEF AfterSend
  <1>3. c \in {0, 1, 2}
    OBVIOUS
  <1> HIDE DEF c
  <1>4. [obj[iter] EXCEPT !.wbuf = wbuf, !.closed = c] \in ObjType
    BY <1>1, <1>3 DEF ObjType
  <1>5. obj' \in [Node -> ObjType]
    BY <1>1, <1>2, <1>4
  <1> QED
    BY <1>1, <1>5 DEF AfterSend, TypeOK, Place

LEMMA WriteTypes ==
    ASSUME IInv, NoSend \/ Send \/ SendToClosed \/ SendFails
    PROVE  TypeOK' /\ AskedInv'
  <1>1. /\ TypeOK /\ AskedInv /\ obj[iter] \in ObjType /\ iter \in Node /\ At("handlewrite")
        /\ NextClient \in Node \cup {head} /\ conn \in [Client -> ConnType]
    <2>1. At("handlewrite")
      BY DEF NoSend, Send, SendToClosed, SendFails, Sending
    <2> QED
      BY <2>1, VisitedType DEF TypeOK
  <1>2. CASE NoSend
    BY <1>1, <1>2 DEF NoSend, TypeOK, AskedInv, Place
  <1>3. CASE Send
    <2>1. PICK k \in Client, slow \in BOOLEAN :
              conn' = [conn EXCEPT ![k].stalled = slow,
                                   ![k].answers = IF obj[iter].doing = "over" THEN conn[k].asked
                                                                              ELSE @]
      BY <1>3 DEF Send
    <2> DEFINE n == IF obj[iter].doing = "over" THEN conn[k].asked ELSE conn[k].answers
    <2>2. conn' = [conn EXCEPT ![k] = [conn[k] EXCEPT !.stalled = slow, !.answers = n]]
      BY <1>1, <2>1
    <2>3. conn[k] \in ConnType /\ n \in Nat
      BY <1>1 DEF ConnType
    <2> HIDE DEF n
    <2>4. [conn[k] EXCEPT !.stalled = slow, !.answers = n] \in ConnType
      BY <2>3 DEF ConnType
    <2>5. conn' \in [Client -> ConnType]
      BY <1>1, <2>2, <2>4
    <2>6. \A j \in Client : conn'[j].asked = conn[j].asked /\ conn'[j].waiting = conn[j].waiting
      BY <1>1, <2>2, <2>3 DEF ConnType
    <2> QED
      BY <1>1, <1>3, <2>5, <2>6, AfterSendTypes DEF Send, AskedInv
  <1>4. CASE SendToClosed
    <2>1. PICK k \in Client : conn' = [conn EXCEPT ![k].peer = "reset", ![k].waiting = "none"]
      BY <1>4 DEF SendToClosed
    <2>2. conn' = [conn EXCEPT ![k] = [conn[k] EXCEPT !.peer = "reset", !.waiting = "none"]]
      BY <1>1, <2>1
    <2>3. conn[k] \in ConnType
      BY <1>1
    <2>4. [conn[k] EXCEPT !.peer = "reset", !.waiting = "none"] \in ConnType
      BY <2>3 DEF ConnType
    <2>5. conn' \in [Client -> ConnType]
      BY <1>1, <2>2, <2>4
    <2>6. \A j \in Client : conn'[j].asked = conn[j].asked
                           /\ (conn'[j].waiting # "none" => conn[j].waiting # "none")
      BY <1>1, <2>2, <2>3 DEF ConnType
    <2> QED
      BY <1>1, <1>4, <2>5, <2>6, AfterSendTypes DEF SendToClosed, AskedInv
  <1>5. CASE SendFails
    <2>1. obj[iter].wbuf \in SUBSET Client
      BY <1>1 DEF ObjType
    <2> QED
      BY <1>1, <1>5, <2>1, AfterSendTypes DEF SendFails, AskedInv
  <1> QED
    BY <1>2, <1>3, <1>4, <1>5

\* select(), and removeClosedSocket().
LEMMA SelectTypes ==
    ASSUME IInv, Select \/ ServiceDone \/ RemoveDone
    PROVE  TypeOK' /\ AskedInv'
  <1>1. /\ TypeOK /\ AskedInv /\ RingInv /\ listenfd \in FD /\ ssl_fd \in FD
        /\ ll_start(clients) \in Node \cup {head}
    BY NextIsPlace, PoolAssumption DEF IInv, FD, listenfd, ssl_fd
  <1>2. CASE Select
    <2>1. ReadFds \subseteq FD /\ WriteFds \subseteq FD
      BY <1>1 DEF ReadFds, WriteFds, Pool, TypeOK, ObjType
    <2>2. read_set' \subseteq FD /\ write_set' \subseteq FD
      BY <1>1, <1>2, <2>1 DEF Select
    <2> QED
      BY <1>1, <1>2, <2>2 DEF Select, TypeOK, AskedInv, Place
  <1>3. CASE ServiceDone
    BY <1>1, <1>3 DEF ServiceDone, TypeOK, AskedInv, Place
  <1>4. CASE RemoveDone
    BY <1>1, <1>4 DEF RemoveDone, TypeOK, AskedInv, Place
  <1> QED
    BY <1>2, <1>3, <1>4

LEMMA FreeType ==
    ASSUME NEW o \in ObjType
    PROVE  free(o) \in ObjType
  <1>1. 0 \in FD
    BY PoolAssumption DEF FD
  <1>2. Blank \in ObjType
    BY <1>1 DEF Blank, ObjType, DevNull
  <1> QED
    BY <1>2 DEF free, ObjType

LEMMA RemoveTypes ==
    ASSUME IInv, RemoveClosed \/ ResetResponse \/ KeepClient
    PROVE  TypeOK' /\ AskedInv'
  <1>1. /\ TypeOK /\ AskedInv /\ obj[iter] \in ObjType /\ iter \in Node
        /\ obj \in [Node -> ObjType] /\ NextClient \in Node \cup {head}
    BY VisitedType DEF RemoveClosed, ResetResponse, KeepClient
  <1>2. CASE RemoveClosed
    <2>1. clients' \in ListType
      BY <1>2, RemoveClosedKeepsList
    <2>2. obj' \in [Node -> ObjType]
      BY <1>1, <1>2, FreeType DEF RemoveClosed
    <2>3. file' \in [FD -> File]
      BY <1>1, <1>2, FileTypes DEF RemoveClosed, TypeOK
    <2> QED
      BY <1>1, <1>2, <2>1, <2>2, <2>3 DEF RemoveClosed, TypeOK, AskedInv
  <1>3. CASE ResetResponse
    <2>1. [obj[iter] EXCEPT !.closed = 0, !.doing = "request", !.fp = NoFile] \in ObjType
      BY <1>1 DEF ObjType
    <2>2. obj' = [obj EXCEPT ![iter] = [obj[iter] EXCEPT !.closed = 0, !.doing = "request", !.fp = NoFile]]
      BY <1>1, <1>3 DEF ResetResponse
    <2>3. obj' \in [Node -> ObjType]
      BY <1>1, <2>1, <2>2
    <2>4. file' \in [FD -> File]
      BY <1>1, <1>3, FileTypes DEF ResetResponse, TypeOK
    <2> QED
      BY <1>1, <1>3, <2>3, <2>4 DEF ResetResponse, TypeOK, AskedInv
  <1>4. CASE KeepClient
    BY <1>1, <1>4 DEF KeepClient, TypeOK, AskedInv
  <1> QED
    BY <1>2, <1>3, <1>4

\* accept_newclient().
LEMMA AcceptedTypes ==
    ASSUME TypeOK, AskedInv, NEW l \in {listenfd, ssl_fd}, NEW k \in Client, Accepted(l, k)
    PROVE  /\ file' \in [FD -> File] /\ conn' \in [Client -> ConnType] /\ AskedInv'
           /\ backlog' \in [{listenfd, ssl_fd} -> Seq(Client)]
           /\ Lowest(file) \in FD /\ file[Lowest(file)] = Free
  <1>1. Unused(file) # {} /\ file' = Opened(file, Sock(k)) /\ file \in [FD -> File]
        /\ conn' = [conn EXCEPT ![k].link = "accepted"] /\ conn \in [Client -> ConnType]
    BY DEF Accepted, TypeOK
  <1>2. file' \in [FD -> File]
    BY <1>1, FileTypes
  <1>3. conn' \in [Client -> ConnType]
    <2>1. [conn[k] EXCEPT !.link = "accepted"] \in ConnType
      BY <1>1 DEF ConnType
    <2>2. conn' = [conn EXCEPT ![k] = [conn[k] EXCEPT !.link = "accepted"]]
      BY <1>1
    <2> QED
      BY <1>1, <2>1, <2>2
  <1>4. AskedInv'
    <2>1. \A j \in Client : conn'[j].asked = conn[j].asked /\ conn'[j].waiting = conn[j].waiting
      BY <1>1 DEF ConnType
    <2> QED
      BY <2>1 DEF AskedInv
  <1>5. backlog' \in [{listenfd, ssl_fd} -> Seq(Client)]
    <2>1. backlog[l] \in Seq(Client) /\ backlog[l] # <<>>
      BY DEF TypeOK, Accepted
    <2>2. Tail(backlog[l]) \in Seq(Client)
      BY <2>1, HeadTailProperties
    <2> QED
      BY <2>2 DEF Accepted, TypeOK
  <1> QED
    BY <1>1, <1>2, <1>3, <1>4, <1>5, LowestIsFree

LEMMA AcceptTypes ==
    ASSUME IInv, Accept
    PROVE  TypeOK' /\ AskedInv'
  <1>1. /\ TypeOK /\ AskedInv /\ obj \in [Node -> ObjType] /\ clients' \in ListType
    BY AcceptKeepsList DEF IInv, TypeOK
  <1>2. \A l : AfterAccept(l) => pc' \in Place /\ read_set' \subseteq FD
    BY <1>1 DEF AfterAccept, Place, TypeOK
  <1>3. \A a \in Node, k \in Client, n \in FD : new_ClientSocket(obj[a], k, n) \in ObjType
    BY <1>1, PoolAssumption DEF new_ClientSocket, Blank, ObjType, FD, DevNull, NoFile
  <1>4. ASSUME NEW l \in {listenfd, ssl_fd}, NoAccept(l) \/ AcceptFails(l)
        PROVE  TypeOK' /\ AskedInv'
    BY <1>1, <1>2, <1>4 DEF NoAccept, AcceptFails, TypeOK, AskedInv
  <1>5. ASSUME NEW l \in {listenfd, ssl_fd}, AddFails(l)
        PROVE  TypeOK' /\ AskedInv'
    <2>1. PICK k \in Client : Accepted(l, k)
      BY <1>5 DEF AddFails
    <2>2. /\ file' \in [FD -> File] /\ conn' \in [Client -> ConnType] /\ AskedInv'
          /\ backlog' \in [{listenfd, ssl_fd} -> Seq(Client)]
      BY <1>1, <2>1, AcceptedTypes
    <2> QED
      BY <1>1, <1>2, <1>5, <2>2 DEF AddFails, TypeOK
  <1>6. ASSUME NEW a \in Node, NEW k \in Client, NEW l \in {listenfd, ssl_fd},
               Accepted(l, k), Allocate(a, k)
        PROVE  /\ file' \in [FD -> File] /\ conn' \in [Client -> ConnType] /\ AskedInv'
               /\ backlog' \in [{listenfd, ssl_fd} -> Seq(Client)]
               /\ obj' \in [Node -> ObjType] /\ live' \subseteq Node
    <2>1. /\ file' \in [FD -> File] /\ conn' \in [Client -> ConnType] /\ AskedInv'
          /\ backlog' \in [{listenfd, ssl_fd} -> Seq(Client)] /\ Lowest(file) \in FD
      BY <1>1, <1>6, AcceptedTypes
    <2>2. obj' \in [Node -> ObjType]
      BY <1>1, <1>3, <1>6, <2>1 DEF Allocate
    <2>3. live' \subseteq Node
      BY <1>1, <1>6 DEF Allocate, TypeOK
    <2> QED
      BY <2>1, <2>2, <2>3
  <1>7. ASSUME NEW a \in Node, NEW k \in Client, AddClient(a, k) \/ AddTlsClient(a, k)
        PROVE  TypeOK' /\ AskedInv'
    <2>1. /\ file' \in [FD -> File] /\ conn' \in [Client -> ConnType] /\ AskedInv'
          /\ backlog' \in [{listenfd, ssl_fd} -> Seq(Client)]
          /\ obj' \in [Node -> ObjType] /\ live' \subseteq Node
      BY <1>6, <1>7 DEF AddClient, AddTlsClient
    <2>2. pc' \in Place /\ read_set' \subseteq FD
      BY <1>1, <1>2, <1>7 DEF AddClient, AddTlsClient, Place, TypeOK
    <2>3. iter' \in Node \cup {head}
      BY <1>1, <1>7 DEF AddClient, AddTlsClient, TypeOK
    <2>4. UNCHANGED <<write_set, child, out>>
      BY <1>7 DEF AddClient, AddTlsClient
    <2> QED
      BY <1>1, <2>1, <2>2, <2>3, <2>4 DEF TypeOK
  <1>8. CASE HandshakeDone
    BY <1>1, <1>2, <1>8 DEF HandshakeDone, TypeOK, AskedInv
  <1>9. CASE HandshakeFails
    <2>1. obj' \in [Node -> ObjType] /\ live' \subseteq Node
      BY <1>1, <1>9, FreeType DEF HandshakeFails, TypeOK
    <2> QED
      BY <1>1, <1>2, <1>9, <2>1 DEF HandshakeFails, TypeOK, AskedInv
  <1> QED
    BY <1>4, <1>5, <1>7, <1>8, <1>9 DEF Accept
------------------------------------------------------------------------------
(* The environment.                                                        *)

LEMMA ClientStepTypes ==
    ASSUME TypeOK, AskedInv, NEW k \in Client, NEW c \in ConnType, ClientStep(k, c),
           backlog' \in [{listenfd, ssl_fd} -> Seq(Client)],
           c.asked \in 0..Len(Script[k]), c.waiting # "none" => c.asked >= 1
    PROVE  TypeOK' /\ AskedInv'
  <1>1. conn' = [conn EXCEPT ![k] = c] /\ conn \in [Client -> ConnType]
    BY DEF ClientStep, TypeOK
  <1>2. conn' \in [Client -> ConnType]
    BY <1>1
  <1>3. AskedInv'
    BY <1>1 DEF AskedInv
  <1> QED
    BY <1>2, <1>3 DEF ClientStep, server, loopVars, TypeOK

\* What a client does to its own connection, and to the backlog.
LEMMA ClientSteps ==
    ASSUME TypeOK, AskedInv, NEW k \in Client,
           Connect(k) \/ Shake(k) \/ Ask(k) \/ AskRest(k) \/ Drain(k) \/ HangUp(k)
    PROVE  \E c \in ConnType :
              /\ ClientStep(k, c)
              /\ c.asked \in 0..Len(Script[k]) /\ (c.waiting # "none" => c.asked >= 1)
              /\ conn[k].waiting # "none" \/ conn[k].peer # "open"
                    => c.waiting # "none" \/ c.peer # "open"
  <1>1. conn[k] \in ConnType /\ conn[k].asked \in 0..Len(Script[k])
        /\ (conn[k].waiting # "none" => conn[k].asked >= 1) /\ conn[k].asked \in Nat
    BY DEF TypeOK, AskedInv, ConnType
  <1>2. CASE Connect(k)
    <2>1. [conn[k] EXCEPT !.link = "queued"] \in ConnType
      BY <1>1 DEF ConnType
    <2> QED
      BY <1>1, <1>2, <2>1 DEF Connect, ConnType
  <1>3. CASE Shake(k)
    <2>1. [conn[k] EXCEPT !.shaken = TRUE] \in ConnType
      BY <1>1 DEF ConnType
    <2> QED
      BY <1>1, <1>3, <2>1 DEF Shake, ConnType
  <1>4. CASE Ask(k)
    <2> DEFINE w == IF k \in TLS THEN "part" ELSE "whole"
               n == conn[k].asked + 1
               c == [conn[k] EXCEPT !.asked = n, !.waiting = w]
    <2>1. ClientStep(k, c) /\ conn[k].asked < Len(Script[k])
      BY <1>4 DEF Ask
    <2>2. w \in {"part", "whole"} /\ n \in Nat
      BY <1>1
    <2>3. n = conn[k].asked + 1
      OBVIOUS
    <2> HIDE DEF w, n
    <2>4. c \in ConnType /\ c.asked = n /\ c.waiting = w
      BY <1>1, <2>2 DEF ConnType
    <2> HIDE DEF c
    <2>5. Len(Script[k]) \in Nat
      BY PoolAssumption, LenProperties
    <2>6. c.asked \in 0..Len(Script[k]) /\ c.asked >= 1
      BY <1>1, <2>1, <2>3, <2>4, <2>5
    <2>7. c.waiting # "none"
      BY <2>2, <2>4
    <2> QED
      BY <2>1, <2>4, <2>6, <2>7
  <1>5. CASE AskRest(k)
    <2>1. [conn[k] EXCEPT !.waiting = "whole"] \in ConnType
      BY <1>1 DEF ConnType
    <2> QED
      BY <1>1, <1>5, <2>1 DEF AskRest, ConnType
  <1>6. CASE Drain(k)
    <2>1. [conn[k] EXCEPT !.stalled = FALSE] \in ConnType
      BY <1>1 DEF ConnType
    <2> QED
      BY <1>1, <1>6, <2>1 DEF Drain, ConnType
  <1>7. CASE HangUp(k)
    <2>1. [conn[k] EXCEPT !.peer = "closed"] \in ConnType
      BY <1>1 DEF ConnType
    <2> QED
      BY <1>1, <1>7, <2>1 DEF HangUp, ConnType
  <1> QED
    BY <1>2, <1>3, <1>4, <1>5, <1>6, <1>7

LEMMA EnvironmentTypes ==
    ASSUME IInv, NEW k \in Client, Environment(k)
    PROVE  TypeOK' /\ AskedInv' /\ RingInv' /\ LiveInv'
  <1>1. TypeOK /\ AskedInv /\ RingInv /\ LiveInv
    BY DEF IInv
  <1>2. CASE ChildRuns(k)
    <2>1. TypeOK' /\ AskedInv'
      BY <1>1, <1>2 DEF ChildRuns, server, loopVars, TypeOK, AskedInv, HasOpen
    <2>2. Arriving /\ UNCHANGED <<pc, iter, clients, live, obj, read_set>>
      BY <1>2 DEF ChildRuns, server, loopVars, Arriving
    <2> QED
      BY <1>1, <2>1, <2>2, RingKeeps
  <1>3. CASE Connect(k) \/ Shake(k) \/ Ask(k) \/ AskRest(k) \/ Drain(k) \/ HangUp(k)
    <2>1. PICK c \in ConnType :
              /\ ClientStep(k, c)
              /\ c.asked \in 0..Len(Script[k]) /\ (c.waiting # "none" => c.asked >= 1)
              /\ conn[k].waiting # "none" \/ conn[k].peer # "open"
                    => c.waiting # "none" \/ c.peer # "open"
      BY <1>1, <1>3, ClientSteps
    <2>2. backlog' \in [{listenfd, ssl_fd} -> Seq(Client)]
      <3>1. CASE Connect(k)
        <4>1. \A s \in Seq(Client) : Append(s, k) \in Seq(Client)
          BY AppendProperties
        <4> QED
          BY <1>1, <3>1, <4>1 DEF Connect, TypeOK
      <3>2. CASE ~Connect(k)
        BY <1>1, <1>3, <3>2 DEF Shake, Ask, AskRest, Drain, HangUp, TypeOK
      <3> QED
        BY <3>1, <3>2
    <2>3. TypeOK' /\ AskedInv'
      BY <1>1, <2>1, <2>2, ClientStepTypes
    <2>4. Arriving
      BY <1>1, <2>1 DEF ClientStep, Arriving, TypeOK
    <2>5. UNCHANGED <<pc, iter, clients, live, obj, read_set>>
      BY <2>1 DEF ClientStep, server, loopVars
    <2> QED
      BY <1>1, <2>3, <2>4, <2>5, RingKeeps
  <1> QED
    BY <1>2, <1>3 DEF Environment
------------------------------------------------------------------------------
(* Who owns what.                                                          *)

\* A client that is being served has not been marked.
LEMMA NotMarked ==
    ASSUME IInv, Visiting, iter \in Node
    PROVE  obj[iter].closed = 0
  <1>1. TypeOK /\ RingInv /\ Walking /\ pc # "remove"
    BY DEF IInv, Walking, Visiting
  <1>2. PICK s \in Seq(Node) : \E p \in 1..(Len(s) + 1) : Ring(s, p)
    BY <1>1, RingPick
  <1>3. PICK p \in 1..(Len(s) + 1) : Ring(s, p)
    BY <1>2
  <1>4. p \in 1..Len(s) /\ iter = s[p] /\ Len(s) \in Nat
    BY <1>1, <1>3, AtPlace
  <1>5. ~(p < p)
    BY <1>4
  <1> QED
    BY <1>1, <1>3, <1>4, <1>5 DEF Ring

\* A socket and an end of a pipe tell whose they are.
LEMMA Owners ==
    /\ \A j, k : Sock(j) = Sock(k) => j = k
    /\ \A j, k : Sock(j) # <<"file", k>>
    /\ \A j, k : \A e \in End : Sock(j) # <<e, k>> /\ <<"file", j>> # <<e, k>>
    /\ \A k : Sock(k)[1] = "sock" /\ Sock(k)[2] = k
    /\ Free[2] = "none"
    /\ \A k \in Client : k # "none" /\ Sock(k) # Free /\ <<"file", k>> # Free
                         /\ \A e \in End : <<e, k>> # Free
  BY PoolAssumption DEF Sock, Free, End

\* The only thing that can change what a number refers to is that k gets it or
\* gives it back.
OfClient(x, k) == x = Free \/ x[2] = k

FilesOf(k) ==
    \A n \in FD : file'[n] = file[n] \/ (OfClient(file[n], k) /\ OfClient(file'[n], k))

LEMMA OthersFiles ==
    ASSUME NEW k, FilesOf(k), NEW j, j # k, j # "none", NEW n \in FD,
           file[n][2] = j \/ file'[n][2] = j
    PROVE  file'[n] = file[n]
  BY Owners DEF FilesOf, OfClient

LEMMA OthersNumbers ==
    ASSUME obj \in [Node -> ObjType], NEW k, FilesOf(k), NEW a \in Node, NumbersInv(a),
           obj'[a] = obj[a], obj[a].client \in Client, obj[a].client # k
    PROVE  NumbersInv(a)'
  <1> DEFINE o == obj[a]
             j == obj[a].client
  <1>1. o \in ObjType
    OBVIOUS
  <1>2. j # "none" /\ j # k
    BY Owners
  <1>3. \A n \in FD : file[n][2] = j \/ file'[n][2] = j => file'[n] = file[n]
    BY <1>2, OthersFiles
  <1>4. file'[o.fd] = Sock(j)
    <2>1. o.fd \in FD /\ file[o.fd] = Sock(j)
      BY <1>1 DEF ObjType, NumbersInv
    <2> QED
      BY <1>3, <2>1, Owners
  <1>5. o.fp # NoFile => file'[o.fp] = <<"file", j>>
    <2>1. o.fp # NoFile => o.fp \in FD /\ file[o.fp] = <<"file", j>>
      BY <1>1 DEF ObjType, NumbersInv
    <2> QED
      BY <1>3, <2>1
  <1>6. HasPipes(o) => \A e \in End : file'[o.pipes[e]] = <<e, j>>
    <2>1. \A e \in End : o.pipes[e] \in FD
      BY <1>1 DEF ObjType
    <2>2. ASSUME HasPipes(o), NEW e \in End
          PROVE  file'[o.pipes[e]] = <<e, j>>
      <3>1. file[o.pipes[e]] = <<e, j>> /\ o.pipes[e] \in FD
        BY <2>1, <2>2 DEF NumbersInv
      <3>2. file[o.pipes[e]][2] = j
        BY <3>1
      <3> QED
        BY <1>3, <3>1, <3>2
    <2> QED
      BY <2>2
  <1>7. \A n \in FD : file'[n][2] = j =>
            n = o.fd \/ n = o.fp \/ (HasPipes(o) /\ \E e \in End : n = o.pipes[e])
    BY <1>3 DEF NumbersInv
  <1>8. o.doing \in {"request", "cgi"} => o.fp = NoFile
    BY DEF NumbersInv
  <1> QED
    BY <1>4, <1>5, <1>6, <1>7, <1>8 DEF NumbersInv, HasPipes

\* A step of the object that the loop is at, for its client or to the end of it.
OneObject(c, k) ==
    /\ c = iter /\ c \in live /\ k = obj[c].client
    /\ live' \subseteq live /\ backlog' = backlog
    /\ live \ {c} \subseteq live'
    /\ \A a \in Node \ {c} : obj'[a] = obj[a]
    /\ FilesOf(k)
    /\ \A j \in Client \ {k} : conn'[j] = conn[j]
    /\ conn'[k].link = conn[k].link

LEMMA OneObjectOwns ==
    ASSUME TypeOK, LiveInv, OwnInv, TypeOK', NEW c, NEW k \in Client,
           OneObject(c, k),
           c \in live' => NumbersInv(c)' /\ RequestInv(c)' /\ obj'[c].client = k,
           c \notin live' => (conn'[k].peer # "open" \/ HasOpen(Sock(k))')
    PROVE  OwnInv'
  <1>1. /\ obj \in [Node -> ObjType] /\ live \subseteq Node
        /\ \A a \in live : obj[a].client \in Client
    BY DEF TypeOK, LiveInv
  <1>2. /\ \A a \in live : NumbersInv(a) /\ RequestInv(a)
        /\ \A a, b \in live : obj[a].client = obj[b].client => a = b
        /\ QueueInv /\ FixedInv /\ StayingKept
    BY SMTT(60) DEF OwnInv
  <1>3. conn[k].link = "accepted" /\ conn'[k].link = "accepted"
    BY <1>2 DEF OneObject, RequestInv
  <1>4. ASSUME NEW a \in live', a # c
        PROVE  /\ a \in live /\ a \in Node /\ obj'[a] = obj[a] /\ obj[a].client # k
               /\ obj[a].client \in Client /\ conn'[obj[a].client] = conn[obj[a].client]
    BY <1>1, <1>2, <1>4 DEF OneObject
  <1>5. ASSUME NEW a \in live'
        PROVE  NumbersInv(a)' /\ RequestInv(a)'
    <2>1. CASE a = c
      BY <1>5, <2>1
    <2>2. CASE a # c
      <3>1. NumbersInv(a)'
        BY <1>1, <1>2, <1>4, <2>2, OthersNumbers DEF OneObject
      <3>2. RequestInv(a)'
        <4>1. RequestInv(a) /\ obj'[a] = obj[a] /\ conn'[obj[a].client] = conn[obj[a].client]
          BY <1>2, <1>4, <2>2
        <4> QED
          BY <4>1 DEF RequestInv
      <3> QED
        BY <3>1, <3>2
    <2> QED
      BY <2>1, <2>2
  <1>6. \A a, b \in live' : obj'[a].client = obj'[b].client => a = b
    BY <1>1, <1>2, <1>4 DEF OneObject
  <1>7. QueueInv'
    <2>1. \A j \in Client : conn'[j].link = conn[j].link
      BY DEF OneObject
    <2>2. \A l \in {listenfd, ssl_fd} : \A i \in 1..Len(backlog[l]) : backlog[l][i] \in Client
      BY ElementOfSeq DEF TypeOK
    <2>3. ASSUME NEW j \in Client, conn'[j].link # "accepted"
          PROVE  /\ conn'[j] = conn[j] /\ conn[j].link # "accepted"
                 /\ \A n \in FD : file'[n][2] # j
      <3>1. j # k /\ conn'[j] = conn[j]
        BY <1>3, <2>3 DEF OneObject
      <3>2. \A n \in FD : file[n][2] # j
        BY <1>2, <2>3, <3>1 DEF QueueInv
      <3> QED
        BY <2>3, <3>1, <3>2, Owners, OthersFiles DEF OneObject
    <2>4. backlog' = backlog
      BY DEF OneObject
    <2> QED
      BY <1>2, <2>1, <2>2, <2>3, <2>4 DEF QueueInv
  <1>8. FixedInv'
    <2>1. \A n \in FD : file[n] = <<"listen", "none">> => file'[n] = file[n]
      BY Owners DEF OneObject, FilesOf, OfClient, Free
    <2>2. listenfd \in FD /\ ssl_fd \in FD
      BY PoolAssumption DEF FD, listenfd, ssl_fd
    <2> QED
      BY <1>2, <2>1, <2>2 DEF FixedInv
  <1>9. StayingKept'
    <2> SUFFICES ASSUME NEW j \in Client, conn'[j].link = "accepted", conn'[j].peer = "open"
                 PROVE  HasOpen(Sock(j))'
      BY DEF StayingKept
    <2>1. CASE j # k
      <3>1. conn'[j] = conn[j]
        BY <2>1 DEF OneObject
      <3>2. PICK n \in FD : file[n] = Sock(j)
        BY <1>2, <3>1 DEF StayingKept, HasOpen
      <3>3. file'[n] = file[n]
        BY <2>1, <3>2, Owners, OthersFiles DEF OneObject
      <3> QED
        BY <3>2, <3>3 DEF HasOpen
    <2>2. CASE j = k
      <3>1. CASE c \in live'
        <4>1. file'[obj'[c].fd] = Sock(k)
          BY <3>1 DEF NumbersInv
        <4>2. obj'[c].fd \in FD
          BY <3>1 DEF TypeOK, ObjType
        <4> QED
          BY <2>2, <4>1, <4>2 DEF HasOpen
      <3>2. CASE c \notin live'
        BY <2>2, <3>2
      <3> QED
        BY <3>1, <3>2
    <2> QED
      BY <2>1, <2>2
  <1> QED
    BY <1>5, <1>6, <1>7, <1>8, <1>9 DEF OwnInv

\* A step that touches none of this.
LEMMA OwnInvStays ==
    ASSUME OwnInv, UNCHANGED <<live, obj, file, conn, backlog>>
    PROVE  OwnInv'
  <1>1. live' = live /\ obj' = obj /\ file' = file /\ conn' = conn /\ backlog' = backlog
    OBVIOUS
  <1>2. ASSUME NEW a \in live PROVE NumbersInv(a)' /\ RequestInv(a)'
    <2>1. NumbersInv(a)'
      BY <1>1, <1>2 DEF OwnInv, NumbersInv, HasPipes
    <2>2. RequestInv(a)'
      BY <1>1, <1>2 DEF OwnInv, RequestInv
    <2> QED
      BY <2>1, <2>2
  <1>3. QueueInv' /\ FixedInv' /\ StayingKept'
    BY <1>1 DEF OwnInv, QueueInv, FixedInv, StayingKept, HasOpen
  <1>4. \A a, b \in live' : obj'[a].client = obj'[b].client => a = b
    BY <1>1 DEF OwnInv
  <1> QED
    BY <1>1, <1>2, <1>3, <1>4 DEF OwnInv

\* The client that is being served.
LEMMA Visit ==
    ASSUME IInv, Visiting, iter \in Node
    PROVE  /\ TypeOK /\ AskedInv /\ RingInv /\ LiveInv
           /\ iter \in live /\ obj[iter] \in ObjType /\ obj[iter].client \in Client
           /\ obj \in [Node -> ObjType] /\ conn \in [Client -> ConnType] /\ live \subseteq Node
           /\ obj[iter].closed = 0
           /\ OneCgi => /\ OwnInv /\ NumbersInv(iter) /\ RequestInv(iter)
                        /\ file[obj[iter].fd] = Sock(obj[iter].client)
                        /\ \A j \in Client : file[obj[iter].fd] = Sock(j) => j = obj[iter].client
                        /\ \A a \in live \ {iter} : obj[a].client # obj[iter].client
  <1>1. TypeOK /\ AskedInv /\ RingInv /\ LiveInv /\ Walking
    BY DEF IInv, Walking
  <1>2. /\ iter \in live /\ obj[iter] \in ObjType /\ obj[iter].client \in Client
        /\ obj \in [Node -> ObjType] /\ conn \in [Client -> ConnType] /\ live \subseteq Node
        /\ obj[iter].closed = 0
    BY <1>1, AtObject, NotMarked DEF TypeOK
  <1>3. ASSUME OneCgi
        PROVE  /\ OwnInv /\ NumbersInv(iter) /\ RequestInv(iter)
               /\ file[obj[iter].fd] = Sock(obj[iter].client)
               /\ \A a \in live \ {iter} : obj[a].client # obj[iter].client
    <2>1. OwnInv
      BY <1>3 DEF IInv
    <2>2. NumbersInv(iter) /\ RequestInv(iter)
      BY <1>2, <2>1 DEF OwnInv
    <2>3. \A a \in live \ {iter} : obj[a].client # obj[iter].client
      BY <1>2, <2>1 DEF OwnInv
    <2> QED
      BY <2>1, <2>2, <2>3 DEF NumbersInv
  <1> QED
    BY <1>1, <1>2, <1>3, Owners

\* handleread().
LEMMA NoReadKeeps ==
    ASSUME IInv, NoRead \/ Idle
    PROVE  RingInv' /\ LiveInv' /\ (OneCgi => OwnInv')
  <1>1. /\ Visiting /\ iter \in Node /\ pc' \in {"http_process", "handlewrite"} /\ iter' = iter
        /\ UNCHANGED <<clients, live, obj, file, conn, backlog, read_set>>
    BY DEF NoRead, Idle, Processing, At, Visiting
  <1>2. OnlyVisited
    BY <1>1 DEF OnlyVisited
  <1>3. RingInv' /\ LiveInv'
    BY <1>1, <1>2, Visit, VisitStays
  <1> QED
    BY <1>1, <1>3, OwnInvStays DEF IInv

LEMMA ReadKeeps ==
    ASSUME IInv, TypeOK', Read
    PROVE  RingInv' /\ LiveInv' /\ (OneCgi => OwnInv')
  <1>1. Visiting /\ iter \in Node
    BY DEF Read, At, Visiting
  <1> DEFINE k == obj[iter].client
  <1>2. PICK j \in Client : /\ file[obj[iter].fd] = Sock(j) /\ conn[j].waiting = "whole"
                            /\ obj' = [obj EXCEPT ![iter].rbuf = Script[j][conn[j].asked]]
                            /\ conn' = [conn EXCEPT ![j].waiting = "none"]
    BY DEF Read
  <1>3. OnlyVisited
    <2>1. OneCgi => \A a \in live \ {iter} : conn'[obj[a].client] = conn[obj[a].client]
      BY <1>1, <1>2, Visit DEF LiveInv
    <2> QED
      BY <1>1, <1>2, <2>1, Visit DEF Read, OnlyVisited, ObjType
  <1>4. obj'[iter].closed = obj[iter].closed
    BY <1>1, <1>2, Visit DEF ObjType
  <1>5. RingInv' /\ LiveInv'
    BY <1>1, <1>3, <1>4, Visit, VisitStays DEF Read
  <1>6. ASSUME OneCgi PROVE OwnInv'
    <2>1. PICK c \in Node : c = iter
      BY <1>1
    <2>2. PICK m \in Client : m = obj[c].client
      BY <1>1, <2>1, Visit
    <2>3. j = m
      BY <1>1, <1>2, <1>6, <2>1, <2>2, Visit
    <2>4. /\ obj'[c] = [obj[c] EXCEPT !.rbuf = Script[m][conn[m].asked]]
          /\ conn'[m] = [conn[m] EXCEPT !.waiting = "none"]
          /\ \A i \in Client \ {m} : conn'[i] = conn[i]
          /\ \A a \in Node \ {c} : obj'[a] = obj[a]
          /\ file' = file
      BY <1>1, <1>2, <2>1, <2>3, Visit DEF Read
    <2>5. /\ obj[c] \in ObjType /\ conn[m] \in ConnType /\ obj[c].closed = 0
          /\ NumbersInv(c) /\ RequestInv(c) /\ ableToRead(obj[c]) /\ conn[m].waiting = "whole"
          /\ conn[m].asked >= 1
      BY <1>1, <1>2, <1>6, <2>1, <2>2, <2>3, Visit DEF Read, Receiving, AskedInv
    <2>6. OneObject(c, m)
      BY <1>1, <2>1, <2>2, <2>4, <2>5, Visit DEF OneObject, FilesOf, Read, ConnType
    <2>7. NumbersInv(c)' /\ obj'[c].client = m
      <3>1. /\ obj'[c].client = m /\ obj'[c].fd = obj[c].fd /\ obj'[c].fp = obj[c].fp
            /\ obj'[c].doing = obj[c].doing /\ obj'[c].pre = obj[c].pre
            /\ obj'[c].pipes = obj[c].pipes
        BY <2>2, <2>4, <2>5 DEF ObjType
      <3>2. NumbersInv(c) /\ file' = file /\ obj[c].client = m
        BY <2>2, <2>4, <2>5
      <3> QED
        BY <3>1, <3>2 DEF NumbersInv, HasPipes
    <2>8. RequestInv(c)'
      <3> DEFINE r == Script[m][conn[m].asked]
      <3>1. /\ obj'[c].client = m /\ obj'[c].closed = 0 /\ obj'[c].doing = obj[c].doing
            /\ obj'[c].pre = obj[c].pre /\ obj'[c].rbuf = r
            /\ conn'[m].link = conn[m].link /\ conn'[m].peer = conn[m].peer
            /\ conn'[m].waiting = "none" /\ conn'[m].asked = conn[m].asked
            /\ conn'[m].answers = conn[m].answers
        BY <2>2, <2>4, <2>5 DEF ObjType, ConnType
      <3>2. /\ conn[m].link = "accepted" /\ conn[m].answers < conn[m].asked
            /\ obj[c].doing = "request" /\ conn[m].asked >= 1
        BY <2>2, <2>5 DEF RequestInv
      <3>3. obj[c].pre => \E i \in 1..conn[m].asked : Script[m][i] = "cgi" /\ i < conn[m].asked
        BY <2>2, <2>5 DEF RequestInv
      <3> HIDE DEF r
      <3>4. r = Script[m][conn[m].asked]
        BY DEF r
      <3> QED
        BY <3>1, <3>2, <3>3, <3>4 DEF RequestInv
    <2> QED
      BY <1>1, <1>6, <2>1, <2>2, <2>6, <2>7, <2>8, OneObjectOwns, Visit DEF Read
  <1> QED
    BY <1>5, <1>6

\* The names that the proofs below use for it.
Visited(c, m) ==
    /\ c = iter /\ m = obj[c].client /\ c \in live /\ m \in Client
    /\ obj[c] \in ObjType /\ conn[m] \in ConnType /\ obj[c].closed = 0
    /\ obj \in [Node -> ObjType] /\ conn \in [Client -> ConnType]
    /\ NumbersInv(c) /\ RequestInv(c)
    /\ file[obj[c].fd] = Sock(m)

LEMMA VisitedNames ==
    ASSUME IInv, Visiting, iter \in Node, OneCgi
    PROVE  \E c \in Node : \E m \in Client : Visited(c, m)
  <1>1. PICK c \in Node : c = iter
    OBVIOUS
  <1>2. PICK m \in Client : m = obj[c].client
    BY <1>1, Visit
  <1> QED
    BY <1>1, <1>2, Visit DEF Visited

LEMMA ReadEndKeeps ==
    ASSUME IInv, TypeOK', ReadEnd
    PROVE  RingInv' /\ LiveInv' /\ (OneCgi => OwnInv')
  <1>1. /\ Visiting /\ iter \in Node /\ obj' = [obj EXCEPT ![iter].closed = 2]
        /\ iter' = NextClient /\ pc' = "handleread"
        /\ UNCHANGED <<read_set, clients, live, file, conn, backlog>>
    BY DEF ReadEnd, At, Visiting
  <1>2. OnlyVisited
    BY <1>1, Visit DEF OnlyVisited, ObjType
  <1>3. RingInv' /\ LiveInv'
    BY <1>1, <1>2, Visit, VisitMovesOn
  <1>4. ASSUME OneCgi PROVE OwnInv'
    <2>1. PICK c \in Node : \E m \in Client : Visited(c, m)
      BY <1>1, <1>4, VisitedNames
    <2>2. PICK m \in Client : Visited(c, m)
      BY <2>1
    <2>3. /\ obj'[c] = [obj[c] EXCEPT !.closed = 2]
          /\ \A a \in Node \ {c} : obj'[a] = obj[a]
      BY <1>1, <2>2 DEF Visited
    <2>4. conn[m].peer # "open"
      BY <2>2, Owners DEF Visited, ReadEnd
    <2>5. OneObject(c, m)
      BY <1>1, <2>2, <2>3 DEF OneObject, FilesOf, Visited
    <2>6. /\ obj'[c].client = m /\ obj'[c].closed = 2 /\ obj'[c].doing = obj[c].doing
          /\ obj'[c].pre = obj[c].pre /\ obj'[c].rbuf = obj[c].rbuf
          /\ obj'[c].fd = obj[c].fd /\ obj'[c].fp = obj[c].fp /\ obj'[c].pipes = obj[c].pipes
      BY <2>2, <2>3 DEF Visited, ObjType
    <2>7. NumbersInv(c)'
      <3>1. obj[c].doing # "cgi"
        BY <2>2 DEF ReadEnd, Receiving, ableToRead, Visited
      <3> QED
        BY <1>1, <2>2, <2>6, <3>1 DEF Visited, NumbersInv, HasPipes
    <2>8. RequestInv(c)'
      BY <1>1, <2>2, <2>4, <2>6 DEF Visited, RequestInv
    <2> QED
      BY <1>1, <1>4, <2>2, <2>5, <2>6, <2>7, <2>8, OneObjectOwns, Visit DEF Visited
  <1> QED
    BY <1>3, <1>4

\* http_process().
LEMMA RespondKeeps ==
    ASSUME IInv, TypeOK', Respond
    PROVE  RingInv' /\ LiveInv' /\ (OneCgi => OwnInv')
  <1>1. /\ Visiting /\ iter \in Node /\ iter' = iter /\ pc' = "handlewrite"
        /\ obj[iter].doing \in {"head", "body"}
        /\ UNCHANGED <<read_set, clients, live, file, conn, backlog>>
    BY DEF Respond, Processing, At, Visiting
  <1>2. PICK r \in Responded(obj[iter]) : obj' = [obj EXCEPT ![iter] = r]
    BY DEF Respond
  <1>3. /\ r = [obj[iter] EXCEPT !.doing = r.doing, !.wbuf = obj[iter].wbuf \cup {obj[iter].client}]
        /\ r.doing \in {"head", "body", "over"}
    BY <1>1, Visit, RespondedType
  <1>4. /\ r.client = obj[iter].client /\ r.closed = obj[iter].closed /\ r.pre = obj[iter].pre
        /\ r.rbuf = obj[iter].rbuf /\ r.fd = obj[iter].fd /\ r.fp = obj[iter].fp
        /\ r.pipes = obj[iter].pipes
    BY <1>1, <1>3, Visit DEF ObjType
  <1>5. OnlyVisited
    BY <1>1, <1>2, <1>4, Visit DEF OnlyVisited
  <1>6. RingInv' /\ LiveInv'
    BY <1>1, <1>2, <1>4, <1>5, Visit, VisitStays
  <1>7. ASSUME OneCgi PROVE OwnInv'
    <2>1. PICK c \in Node : \E m \in Client : Visited(c, m)
      BY <1>1, <1>7, VisitedNames
    <2>2. PICK m \in Client : Visited(c, m)
      BY <2>1
    <2>3. /\ obj'[c] = r
          /\ \A a \in Node \ {c} : obj'[a] = obj[a]
      BY <1>2, <2>2 DEF Visited
    <2>4. OneObject(c, m)
      BY <1>1, <2>2, <2>3 DEF OneObject, FilesOf, Visited
    <2>5. /\ obj'[c].client = m /\ obj'[c].closed = 0 /\ obj'[c].doing \in {"head", "body", "over"}
          /\ obj'[c].pre = obj[c].pre /\ obj'[c].rbuf = obj[c].rbuf
          /\ obj'[c].fd = obj[c].fd /\ obj'[c].fp = obj[c].fp /\ obj'[c].pipes = obj[c].pipes
          /\ obj[c].doing \in {"head", "body"}
      BY <1>1, <1>3, <1>4, <2>2, <2>3 DEF Visited
    <2>6. NumbersInv(c)'
      BY <1>1, <2>2, <2>5 DEF Visited, NumbersInv, HasPipes
    <2>7. RequestInv(c)'
      BY <1>1, <2>2, <2>5 DEF Visited, RequestInv
    <2> QED
      BY <1>1, <1>7, <2>2, <2>4, <2>5, <2>6, <2>7, OneObjectOwns, Visit DEF Visited
  <1> QED
    BY <1>6, <1>7

LEMMA ParseStaticKeeps ==
    ASSUME IInv, TypeOK', ParseStatic
    PROVE  RingInv' /\ LiveInv' /\ (OneCgi => OwnInv')
  <1> DEFINE o == obj[iter]
             opens == o.rbuf = "file" /\ Unused(file) # {}
             fp == IF opens THEN Lowest(file) ELSE NoFile
             start == [o EXCEPT !.doing = "head", !.rbuf = "none", !.fp = fp]
  <1>1. /\ Visiting /\ iter \in Node /\ iter' = iter /\ pc' = "handlewrite"
        /\ o.doing = "request" /\ o.rbuf \in {"file", "missing"}
        /\ UNCHANGED <<read_set, clients, live, conn, backlog>>
    BY DEF ParseStatic, Processing, At, Visiting
  <1>2. PICK r \in Responded(start) : obj' = [obj EXCEPT ![iter] = r]
    BY DEF ParseStatic
  <1>3. fp \in FD \cup {NoFile}
    BY LowestIsFree
  <1>4. start \in ObjType /\ start.client = o.client /\ start.fp = fp /\ start.closed = o.closed
        /\ start.pre = o.pre /\ start.rbuf = "none" /\ start.fd = o.fd /\ start.pipes = o.pipes
    BY <1>1, <1>3, Visit DEF ObjType
  <1>5. /\ r = [start EXCEPT !.doing = r.doing, !.wbuf = start.wbuf \cup {start.client}]
        /\ r.doing \in {"head", "body", "over"}
    <2> HIDE DEF start
    <2> QED
      BY <1>1, <1>2, <1>4, Visit, RespondedType
  <1>6. /\ r.client = o.client /\ r.closed = o.closed /\ r.pre = o.pre /\ r.rbuf = "none"
        /\ r.fd = o.fd /\ r.fp = fp /\ r.pipes = o.pipes
    <2> HIDE DEF start, o, fp
    <2> QED
      BY <1>4, <1>5 DEF ObjType
  <1>7. file' = IF opens THEN Opened(file, <<"file", o.client>>) ELSE file
    BY DEF ParseStatic
  <1> HIDE DEF start
  <1>8. OnlyVisited
    BY <1>1, <1>2, <1>6, Visit DEF OnlyVisited
  <1>9. RingInv' /\ LiveInv'
    BY <1>1, <1>2, <1>6, <1>8, Visit, VisitStays
  <1>10. ASSUME OneCgi PROVE OwnInv'
    <2>1. PICK c \in Node : \E m \in Client : Visited(c, m)
      BY <1>1, <1>10, VisitedNames
    <2>2. PICK m \in Client : Visited(c, m)
      BY <2>1
    <2>3. /\ obj'[c] = r
          /\ \A a \in Node \ {c} : obj'[a] = obj[a]
      BY <1>2, <2>2 DEF Visited
    <2>4. opens => /\ fp \in FD /\ file[fp] = Free /\ file'[fp] = <<"file", m>>
                   /\ \A n \in FD \ {fp} : file'[n] = file[n]
      <3>1. file \in [FD -> File]
        BY <1>1, Visit DEF TypeOK
      <3> QED
        BY <1>7, <2>2, <3>1, LowestIsFree DEF Opened, Visited
    <2>5. ~opens => file' = file /\ fp = NoFile
      BY <1>7
    <2>6. /\ obj'[c].client = m /\ obj'[c].closed = 0 /\ obj'[c].doing \in {"head", "body", "over"}
          /\ obj'[c].pre = obj[c].pre /\ obj'[c].rbuf = "none"
          /\ obj'[c].fd = obj[c].fd /\ obj'[c].fp = fp /\ obj'[c].pipes = obj[c].pipes
          /\ obj[c].doing = "request" /\ obj[c].rbuf # "none"
      BY <1>1, <1>5, <1>6, <2>2, <2>3 DEF Visited
    <2> HIDE DEF opens, fp
    <2>7. FilesOf(m)
      BY <2>4, <2>5 DEF FilesOf, OfClient
    <2>8. OneObject(c, m)
      BY <1>1, <2>2, <2>3, <2>7 DEF OneObject, Visited
    <2>9. NumbersInv(c)'
      <3>1. obj[c].fd \in FD /\ obj[c].fd # fp
        BY <2>2, <2>4, <2>5, Owners DEF Visited, ObjType, FD, NoFile
      <3>2. file'[obj[c].fd] = Sock(m)
        BY <2>2, <2>4, <2>5, <3>1 DEF Visited
      <3>3. \A n \in FD : file[n][2] = m => n = obj[c].fd
        BY <2>2, <2>6 DEF Visited, NumbersInv, HasPipes, FD, NoFile
      <3>4. \A n \in FD : file'[n][2] = m => n = obj[c].fd \/ n = fp
        BY <2>4, <2>5, <3>3
      <3> QED
        BY <2>4, <2>5, <2>6, <3>2, <3>4 DEF NumbersInv, HasPipes
    <2>10. RequestInv(c)'
      BY <1>1, <2>2, <2>6 DEF Visited, RequestInv
    <2> QED
      BY <1>1, <1>10, <2>2, <2>6, <2>8, <2>9, <2>10, OneObjectOwns, Visit DEF Visited
  <1> QED
    BY <1>9, <1>10

LEMMA ParseCgiKeeps ==
    ASSUME IInv, TypeOK', ParseCgi
    PROVE  RingInv' /\ LiveInv' /\ (OneCgi => OwnInv')
  <1>1. /\ Visiting /\ iter \in Node /\ iter' = iter /\ pc' = "http_process"
        /\ obj[iter].doing = "request" /\ obj[iter].rbuf = "cgi"
        /\ obj' = [obj EXCEPT ![iter].doing = "cgi", ![iter].rbuf = "none"]
        /\ UNCHANGED <<read_set, clients, live, file, conn, backlog>>
    BY DEF ParseCgi, Processing, At, Visiting
  <1>2. /\ obj'[iter].client = obj[iter].client /\ obj'[iter].closed = obj[iter].closed
        /\ obj'[iter].pre = obj[iter].pre /\ obj'[iter].doing = "cgi" /\ obj'[iter].rbuf = "none"
        /\ obj'[iter].fd = obj[iter].fd /\ obj'[iter].fp = obj[iter].fp
        /\ obj'[iter].pipes = obj[iter].pipes
        /\ \A a \in Node \ {iter} : obj'[a] = obj[a]
    BY <1>1, Visit DEF ObjType
  <1>3. OnlyVisited
    BY <1>1, <1>2 DEF OnlyVisited
  <1>4. RingInv' /\ LiveInv'
    BY <1>1, <1>2, <1>3, Visit, VisitStays
  <1>5. ASSUME OneCgi PROVE OwnInv'
    <2>1. PICK c \in Node : \E m \in Client : Visited(c, m)
      BY <1>1, <1>5, VisitedNames
    <2>2. PICK m \in Client : Visited(c, m)
      BY <2>1
    <2>3. /\ obj'[c].client = m /\ obj'[c].closed = 0 /\ obj'[c].doing = "cgi"
          /\ obj'[c].pre = obj[c].pre /\ obj'[c].rbuf = "none"
          /\ obj'[c].fd = obj[c].fd /\ obj'[c].fp = obj[c].fp /\ obj'[c].pipes = obj[c].pipes
          /\ obj[c].doing = "request" /\ obj[c].rbuf = "cgi"
          /\ \A a \in Node \ {c} : obj'[a] = obj[a]
      BY <1>1, <1>2, <2>2 DEF Visited
    <2>4. OneObject(c, m)
      BY <1>1, <2>2, <2>3 DEF OneObject, FilesOf, Visited
    <2>5. conn[m].asked >= 1 /\ Script[m][conn[m].asked] = "cgi"
      BY <2>2, <2>3 DEF Visited, RequestInv
    <2>6. ~obj[c].pre
      <3> SUFFICES ASSUME obj[c].pre PROVE FALSE
        OBVIOUS
      <3>1. PICK i \in 1..conn[m].asked : Script[m][i] = "cgi" /\ i < conn[m].asked
        BY <2>2, <2>3 DEF Visited, RequestInv
      <3>2. Len(Script[m]) \in Nat /\ conn[m].asked \in 0..Len(Script[m])
        BY <1>1, Visit, PoolAssumption, LenProperties DEF AskedInv
      <3>3. i \in 1..Len(Script[m]) /\ conn[m].asked \in 1..Len(Script[m])
        BY <2>5, <3>2
      <3> QED
        BY <1>5, <2>5, <3>1, <3>3 DEF OneCgi
    <2>7. NumbersInv(c)'
      BY <1>1, <2>2, <2>3, <2>6 DEF Visited, NumbersInv, HasPipes
    <2>8. RequestInv(c)'
      BY <1>1, <2>2, <2>3, <2>5, <2>6, SMTT(60) DEF Visited, RequestInv
    <2> QED
      BY <1>1, <1>5, <2>2, <2>3, <2>4, <2>7, <2>8, OneObjectOwns, Visit DEF Visited
  <1> QED
    BY <1>4, <1>5

\* process_cgi().
LEMMA CgiStartKeeps ==
    ASSUME IInv, TypeOK', CgiStart
    PROVE  RingInv' /\ LiveInv' /\ (OneCgi => OwnInv')
  <1>1. /\ Visiting /\ iter \in Node /\ iter' = iter /\ pc' = "http_process"
        /\ obj[iter].doing = "cgi" /\ ~obj[iter].pre
        /\ obj' = [obj EXCEPT ![iter].pre = TRUE, ![iter].pipes = PipeEnds]
        /\ file' = WithPipes(PipeEnds, obj[iter].client)
        /\ UNCHANGED <<read_set, clients, live, conn, backlog>>
    BY DEF CgiStart, Starting, Processing, At, Visiting, loopVars
  <1>2. /\ PipeEnds \in [End -> FD] /\ \A e \in End : file[PipeEnds[e]] = Free
        /\ \A d, e \in End : PipeEnds[d] = PipeEnds[e] => d = e
    BY PipeEndsAreFree DEF CgiStart
  <1>3. /\ obj'[iter].client = obj[iter].client /\ obj'[iter].closed = obj[iter].closed
        /\ obj'[iter].pre = TRUE /\ obj'[iter].doing = "cgi" /\ obj'[iter].rbuf = obj[iter].rbuf
        /\ obj'[iter].fd = obj[iter].fd /\ obj'[iter].fp = obj[iter].fp
        /\ obj'[iter].pipes = PipeEnds
        /\ \A a \in Node \ {iter} : obj'[a] = obj[a]
    BY <1>1, Visit DEF ObjType
  <1>4. OnlyVisited
    BY <1>1, <1>3 DEF OnlyVisited
  <1>5. RingInv' /\ LiveInv'
    BY <1>1, <1>3, <1>4, Visit, VisitStays
  <1>6. ASSUME OneCgi PROVE OwnInv'
    <2>1. PICK c \in Node : \E m \in Client : Visited(c, m)
      BY <1>1, <1>6, VisitedNames
    <2>2. PICK m \in Client : Visited(c, m)
      BY <2>1
    <2>3. /\ obj'[c].client = m /\ obj'[c].closed = 0 /\ obj'[c].doing = "cgi"
          /\ obj'[c].pre = TRUE /\ obj'[c].rbuf = obj[c].rbuf
          /\ obj'[c].fd = obj[c].fd /\ obj'[c].fp = obj[c].fp /\ obj'[c].pipes = PipeEnds
          /\ obj[c].doing = "cgi" /\ ~obj[c].pre
          /\ \A a \in Node \ {c} : obj'[a] = obj[a]
      BY <1>1, <1>3, <2>2 DEF Visited
    <2>4. \A e \in End : file'[PipeEnds[e]] = <<e, m>>
      <3> SUFFICES ASSUME NEW e \in End PROVE file'[PipeEnds[e]] = <<e, m>>
        OBVIOUS
      <3>1. PipeEnds[e] \in Range(PipeEnds) /\ PipeEnds[e] \in FD
        BY <1>2 DEF Range
      <3>2. (CHOOSE d \in End : PipeEnds[d] = PipeEnds[e]) = e
        BY <1>2
      <3> QED
        BY <1>1, <2>2, <3>1, <3>2 DEF WithPipes, Visited
    <2>5. \A n \in FD : (\E e \in End : n = PipeEnds[e]) \/ file'[n] = file[n]
      BY <1>1, <1>2 DEF WithPipes, Range
    <2>6. FilesOf(m)
      BY <1>2, <2>4, <2>5 DEF FilesOf, OfClient
    <2>7. OneObject(c, m)
      BY <1>1, <2>2, <2>3, <2>6 DEF OneObject, Visited
    <2>8. NumbersInv(c)'
      <3>1. obj[c].fd \in FD /\ obj[c].fp = NoFile
        BY <2>2, <2>3 DEF Visited, ObjType, NumbersInv
      <3>2. file'[obj[c].fd] = Sock(m)
        BY <1>2, <2>2, <2>5, <3>1, Owners DEF Visited
      <3>3. \A n \in FD : file[n][2] = m => n = obj[c].fd
        BY <2>2, <2>3, <3>1 DEF Visited, NumbersInv, HasPipes, FD, NoFile
      <3> QED
        BY <2>3, <2>4, <2>5, <3>1, <3>2, <3>3 DEF NumbersInv, HasPipes
    <2>9. RequestInv(c)'
      <3>1. conn[m].asked >= 1 /\ Script[m][conn[m].asked] = "cgi"
            /\ obj[c].rbuf = "none" /\ conn[m].waiting = "none"
        BY <2>2, <2>3 DEF Visited, RequestInv
      <3>2. conn[m].asked \in 1..conn[m].asked
        BY <2>2, <3>1 DEF Visited, ConnType
      <3> QED
        BY <1>1, <2>2, <2>3, <3>1, <3>2, SMTT(60) DEF Visited, RequestInv
    <2> QED
      BY <1>1, <1>6, <2>2, <2>3, <2>7, <2>8, <2>9, OneObjectOwns, Visit DEF Visited
  <1> QED
    BY <1>5, <1>6

\* preprocess_cgi() fails, with whatever it leaves in the object.
LEMMA CgiFailedKeeps ==
    ASSUME IInv, TypeOK', Starting, NEW ends \in [End -> FD],
           \E r \in Responded(Failed(obj[iter], ends)) : obj' = [obj EXCEPT ![iter] = r],
           pc' = "handlewrite", iter' = iter,
           UNCHANGED <<read_set, clients, live, file, conn, backlog>>
    PROVE  RingInv' /\ LiveInv' /\ (OneCgi => OwnInv')
  <1> DEFINE o == obj[iter]
             start == Failed(o, ends)
  <1>1. /\ Visiting /\ iter \in Node /\ o.doing = "cgi" /\ ~o.pre
        /\ UNCHANGED <<read_set, clients, live, file, conn, backlog>>
    BY DEF Starting, Processing, At, Visiting
  <1>2. PICK r \in Responded(start) : obj' = [obj EXCEPT ![iter] = r]
    OBVIOUS
  <1>3. start \in ObjType /\ start.client = o.client /\ start.fp = o.fp /\ start.closed = o.closed
        /\ start.pre = TRUE /\ start.rbuf = o.rbuf /\ start.fd = o.fd
    BY <1>1, Visit DEF ObjType, Failed
  <1>4. /\ r = [start EXCEPT !.doing = r.doing, !.wbuf = start.wbuf \cup {start.client}]
        /\ r.doing \in {"head", "body", "over"}
    <2> HIDE DEF start
    <2> QED
      BY <1>1, <1>2, <1>3, Visit, RespondedType
  <1>5. /\ r.client = o.client /\ r.closed = o.closed /\ r.pre = TRUE /\ r.rbuf = o.rbuf
        /\ r.fd = o.fd /\ r.fp = o.fp
    <2> HIDE DEF start, o
    <2> QED
      BY <1>3, <1>4 DEF ObjType
  <1> HIDE DEF start
  <1>6. OnlyVisited
    BY <1>1, <1>2, <1>5, Visit DEF OnlyVisited
  <1>7. RingInv' /\ LiveInv'
    BY <1>1, <1>2, <1>5, <1>6, Visit, VisitStays
  <1>8. ASSUME OneCgi PROVE OwnInv'
    <2>1. PICK c \in Node : \E m \in Client : Visited(c, m)
      BY <1>1, <1>8, VisitedNames
    <2>2. PICK m \in Client : Visited(c, m)
      BY <2>1
    <2>3. /\ obj'[c].client = m /\ obj'[c].closed = 0 /\ obj'[c].doing \in {"head", "body", "over"}
          /\ obj'[c].pre = TRUE /\ obj'[c].rbuf = obj[c].rbuf
          /\ obj'[c].fd = obj[c].fd /\ obj'[c].fp = obj[c].fp
          /\ obj[c].doing = "cgi" /\ ~obj[c].pre
          /\ \A a \in Node \ {c} : obj'[a] = obj[a]
      BY <1>1, <1>2, <1>4, <1>5, <2>2 DEF Visited
    <2>4. OneObject(c, m)
      BY <1>1, <2>2, <2>3 DEF OneObject, FilesOf, Visited
    <2>5. NumbersInv(c)'
      BY <1>1, <2>2, <2>3 DEF Visited, NumbersInv, HasPipes
    <2>6. RequestInv(c)'
      <3>1. conn[m].asked >= 1 /\ Script[m][conn[m].asked] = "cgi"
            /\ obj[c].rbuf = "none" /\ conn[m].waiting = "none"
        BY <2>2, <2>3 DEF Visited, RequestInv
      <3>2. conn[m].asked \in 1..conn[m].asked
        BY <2>2, <3>1 DEF Visited, ConnType
      <3> QED
        BY <1>1, <2>2, <2>3, <3>1, <3>2 DEF Visited, RequestInv
    <2> QED
      BY <1>1, <1>8, <2>2, <2>3, <2>4, <2>5, <2>6, OneObjectOwns, Visit DEF Visited
  <1> QED
    BY <1>7, <1>8

LEMMA NoPipesKeeps ==
    ASSUME IInv, TypeOK', NoPipes \/ CgiFails
    PROVE  RingInv' /\ LiveInv' /\ (OneCgi => OwnInv')
  <1>1. /\ Starting /\ Visiting /\ iter \in Node /\ pc' = "handlewrite" /\ iter' = iter
        /\ UNCHANGED <<read_set, clients, live, file, conn, backlog>>
    BY DEF NoPipes, CgiFails, Starting, Processing, At, Visiting
  <1>2. CASE NoPipes
    <2> DEFINE one == Cardinality(Unused(file)) >= 2
               ends == [e \in End |-> IF one /\ e \in {"in0", "in1"} THEN PipeEnd(e)
                                                                     ELSE obj[iter].pipes[e]]
    <2>1. ends \in [End -> FD]
      <3>1. ASSUME one, NEW e \in {"in0", "in1"} PROVE PipeEnd(e) \in FD
        <4>1. e \in End /\ EndOrder[e] \in {0, 1}
          BY DEF End, EndOrder
        <4> QED
          BY <3>1, <4>1, FreeIsFinite, PipeEndIsFree
      <3>2. obj[iter].pipes \in [End -> FD]
        BY <1>1, Visit DEF ObjType
      <3> QED
        BY <3>1, <3>2
    <2>2. \E r \in Responded(Failed(obj[iter], ends)) : obj' = [obj EXCEPT ![iter] = r]
      BY <1>2 DEF NoPipes
    <2> HIDE DEF ends
    <2>3. PICK e \in [End -> FD] : e = ends
      BY <2>1
    <2> QED
      BY <1>1, <2>2, <2>3, CgiFailedKeeps
  <1>3. CASE CgiFails
    <2>1. PipeEnds \in [End -> FD]
      BY <1>3, PipeEndsAreFree DEF CgiFails
    <2>2. \E r \in Responded(Failed(obj[iter], PipeEnds)) : obj' = [obj EXCEPT ![iter] = r]
      BY <1>3, ZenonT(60) DEF CgiFails
    <2>3. PICK e \in [End -> FD] : e = PipeEnds
      BY <2>1
    <2> QED
      BY <1>1, <2>2, <2>3, CgiFailedKeeps
  <1> QED
    BY <1>2, <1>3

LEMMA CgiPollKeeps ==
    ASSUME IInv, TypeOK', CgiPoll
    PROVE  RingInv' /\ LiveInv' /\ (OneCgi => OwnInv')
  <1> DEFINE o == obj[iter]
             x == file[o.pipes["out0"]]
  <1>1. /\ Visiting /\ iter \in Node /\ iter' = iter /\ pc' = "handlewrite"
        /\ HasPipes(o)
        /\ UNCHANGED <<read_set, clients, live, backlog>>
    BY DEF CgiPoll, Processing, At, Visiting, HasPipes
  <1>2. PICK read \in BOOLEAN :
            /\ obj' = CASE ~Readable(x) -> obj
                        [] Readable(x) /\ read -> [obj EXCEPT ![iter].wbuf = {x[2]}]
                        [] OTHER -> [obj EXCEPT ![iter].wbuf = {}, ![iter].doing = "over"]
            /\ file' = IF Readable(x) /\ ~read THEN Closed(file, Range(o.pipes)) ELSE file
            /\ conn' = IF x[1] = "sock" /\ read
                       THEN [conn EXCEPT ![x[2]].waiting = "none"] ELSE conn
    BY ZenonT(60) DEF CgiPoll
  <1> DEFINE over == Readable(x) /\ ~read
  <1>3. file' = IF over THEN Closed(file, Range(o.pipes)) ELSE file
    BY <1>2
  <1>4. /\ obj'[iter].client = o.client /\ obj'[iter].closed = o.closed
        /\ obj'[iter].pre = o.pre /\ obj'[iter].rbuf = o.rbuf
        /\ obj'[iter].fd = o.fd /\ obj'[iter].fp = o.fp /\ obj'[iter].pipes = o.pipes
        /\ obj'[iter].doing = (IF over THEN "over" ELSE o.doing)
        /\ \A a \in Node \ {iter} : obj'[a] = obj[a]
    <2>1. o \in ObjType /\ obj \in [Node -> ObjType] /\ iter \in Node
      BY <1>1, Visit, SMTT(60)
    <2>2. CASE ~Readable(x)
      BY <1>2, <2>2
    <2>3. CASE Readable(x) /\ read
      <3>1. obj' = [obj EXCEPT ![iter].wbuf = {x[2]}]
        BY <1>2, <2>3
      <3> HIDE DEF x
      <3> QED
        BY <2>1, <2>3, <3>1, SMTT(60) DEF ObjType
    <2>4. CASE over
      <3>1. obj' = [obj EXCEPT ![iter].wbuf = {}, ![iter].doing = "over"]
        BY <1>2, <2>4
      <3> HIDE DEF x
      <3> QED
        BY <2>1, <2>4, <3>1 DEF ObjType
    <2> QED
      BY <2>2, <2>3, <2>4
  <1>5. OneCgi => x = <<"out0", o.client>> /\ conn' = conn
    <2>1. OneCgi => x = <<"out0", o.client>>
      BY <1>1, Visit DEF NumbersInv, End
    <2> HIDE DEF x
    <2> QED
      BY <1>2, <2>1
  <1> HIDE DEF x, over
  <1>6. OnlyVisited
    BY <1>1, <1>4, <1>5 DEF OnlyVisited
  <1>7. RingInv' /\ LiveInv'
    BY <1>1, <1>4, <1>6, Visit, VisitStays
  <1>8. ASSUME OneCgi PROVE OwnInv'
    <2>1. PICK c \in Node : \E m \in Client : Visited(c, m)
      BY <1>1, <1>8, VisitedNames
    <2>2. PICK m \in Client : Visited(c, m)
      BY <2>1
    <2>3. /\ obj'[c].client = m /\ obj'[c].closed = 0
          /\ obj'[c].pre = TRUE /\ obj'[c].rbuf = obj[c].rbuf
          /\ obj'[c].fd = obj[c].fd /\ obj'[c].fp = obj[c].fp /\ obj'[c].pipes = obj[c].pipes
          /\ obj'[c].doing = (IF over THEN "over" ELSE "cgi")
          /\ obj[c].doing = "cgi" /\ obj[c].pre /\ HasPipes(obj[c])
          /\ \A a \in Node \ {c} : obj'[a] = obj[a]
          /\ conn' = conn
      BY <1>1, <1>4, <1>5, <1>8, <2>2 DEF Visited, HasPipes, ObjType
    <2>4. \A e \in End : obj[c].pipes[e] \in FD /\ file[obj[c].pipes[e]] = <<e, m>>
      <3>1. obj[c].pipes \in [End -> FD]
        BY <2>2 DEF Visited, ObjType
      <3>2. NumbersInv(c) /\ obj[c].client = m
        BY <2>2 DEF Visited
      <3>3. \A e \in End : file[obj[c].pipes[e]] = <<e, m>>
        BY <2>3, <3>2 DEF NumbersInv
      <3> QED
        BY <3>1, <3>3
    <2>5. \A n \in FD : file'[n] = IF over /\ \E e \in End : n = obj[c].pipes[e] THEN Free ELSE file[n]
      <3>1. file' = IF over THEN Closed(file, Range(obj[c].pipes)) ELSE file
        BY <1>3, <2>2 DEF Visited
      <3>2. DOMAIN obj[c].pipes = End
        BY <2>2 DEF Visited, ObjType
      <3> QED
        BY <3>1, <3>2 DEF Closed, Range
    <2>6. FilesOf(m)
      <3>1. \A e \in End : file[obj[c].pipes[e]][2] = m
        BY <2>4
      <3> QED
        BY <2>4, <2>5, <3>1 DEF FilesOf, OfClient
    <2>7. OneObject(c, m)
      BY <1>1, <2>2, <2>3, <2>6 DEF OneObject, Visited
    <2>8. NumbersInv(c)'
      <3>1. obj[c].fd \in FD /\ obj[c].fp = NoFile
        BY <2>2, <2>3 DEF Visited, ObjType, NumbersInv
      <3>2. file'[obj[c].fd] = Sock(m)
        <4>1. \A e \in End : obj[c].fd # obj[c].pipes[e]
          <5>1. file[obj[c].fd] = Sock(m)
            BY <2>2 DEF Visited
          <5>2. \A e \in End : file[obj[c].pipes[e]] # Sock(m)
            BY <2>4, Owners, ZenonT(60)
          <5> QED
            BY <5>1, <5>2
        <4> QED
          BY <2>2, <2>5, <3>1, <4>1 DEF Visited
      <3>3. \A n \in FD : file[n][2] = m => n = obj[c].fd \/ \E e \in End : n = obj[c].pipes[e]
        BY <2>2, <3>1 DEF Visited, NumbersInv, FD, NoFile
      <3>4. over => \A n \in FD : file'[n][2] = m => n = obj[c].fd
        BY <2>2, <2>5, <3>3, Owners DEF Visited
      <3>5. ~over => file' = file
        BY <1>3
      <3> QED
        BY <2>3, <2>4, <3>1, <3>2, <3>3, <3>4, <3>5 DEF NumbersInv, HasPipes
    <2>9. RequestInv(c)'
      BY <1>1, <2>2, <2>3 DEF Visited, RequestInv
    <2> QED
      BY <1>1, <1>8, <2>2, <2>3, <2>7, <2>8, <2>9, OneObjectOwns, Visit DEF Visited
  <1> QED
    BY <1>7, <1>8

\* handlewrite().
LEMMA NoSendKeeps ==
    ASSUME IInv, NoSend
    PROVE  RingInv' /\ LiveInv' /\ (OneCgi => OwnInv')
  <1>1. /\ Visiting /\ iter \in Node /\ pc' = "handleread" /\ iter' = NextClient
        /\ UNCHANGED <<clients, live, obj, file, conn, backlog, read_set>>
    BY DEF NoSend, At, Visiting
  <1>2. OnlyVisited
    BY <1>1 DEF OnlyVisited
  <1>3. RingInv' /\ LiveInv'
    BY <1>1, <1>2, Visit, VisitMovesOn
  <1> QED
    BY <1>1, <1>3, OwnInvStays DEF IInv

\* What the object is after a call of send() that was made for client k.
LEMMA AfterSendKeeps ==
    ASSUME IInv, TypeOK', At("handlewrite"), NEW result \in {0, 2}, NEW wbuf,
           AfterSend(result, wbuf), NEW d \in ConnType, NEW k,
           conn' = conn \/ (k \in Client /\ file[obj[iter].fd] = Sock(k)
                            /\ conn' = [conn EXCEPT ![k] = d]),
           \* what the step does to the client's connection
           \A m \in Client : file[obj[iter].fd] = Sock(m) =>
               /\ conn'[m].link = conn[m].link /\ conn'[m].asked = conn[m].asked
               /\ conn'[m].waiting \in {conn[m].waiting, "none"}
               /\ conn'[m].peer = "open" => conn[m].peer = "open"
               /\ obj[iter].doing # "over" => conn'[m].answers = conn[m].answers
               /\ conn'[m].answers \in {conn[m].answers, conn[m].asked}
               /\ result = 2 => conn'[m].peer # "open"
    PROVE  RingInv' /\ LiveInv' /\ (OneCgi => OwnInv')
  <1> DEFINE r == IF obj[iter].doing = "over" THEN 1 ELSE result
  <1>1. /\ Visiting /\ iter \in Node /\ iter' = NextClient /\ pc' = "handleread"
        /\ obj' = [obj EXCEPT ![iter].wbuf = wbuf, ![iter].closed = r]
        /\ UNCHANGED <<read_set, clients, live, file, backlog>>
    BY DEF AfterSend, At, Visiting
  <1> HIDE DEF r
  <1>2. /\ obj'[iter].client = obj[iter].client /\ obj'[iter].closed = r
        /\ obj'[iter].pre = obj[iter].pre /\ obj'[iter].rbuf = obj[iter].rbuf
        /\ obj'[iter].fd = obj[iter].fd /\ obj'[iter].fp = obj[iter].fp
        /\ obj'[iter].pipes = obj[iter].pipes /\ obj'[iter].doing = obj[iter].doing
        /\ \A a \in Node \ {iter} : obj'[a] = obj[a]
    BY <1>1, Visit DEF ObjType
  <1>3. OneCgi => \A a \in live \ {iter} : conn'[obj[a].client] = conn[obj[a].client]
    BY <1>1, Visit DEF LiveInv
  <1>4. OnlyVisited
    BY <1>1, <1>2, <1>3 DEF OnlyVisited
  <1>5. RingInv' /\ LiveInv'
    BY <1>1, <1>4, Visit, VisitMovesOn
  <1>6. ASSUME OneCgi PROVE OwnInv'
    <2>1. PICK c \in Node : \E m \in Client : Visited(c, m)
      BY <1>1, <1>6, VisitedNames
    <2>2. PICK m \in Client : Visited(c, m)
      BY <2>1
    <2>3. /\ obj'[c].client = m /\ obj'[c].closed = (IF obj[c].doing = "over" THEN 1 ELSE result)
          /\ obj'[c].pre = obj[c].pre /\ obj'[c].rbuf = obj[c].rbuf
          /\ obj'[c].fd = obj[c].fd /\ obj'[c].fp = obj[c].fp /\ obj'[c].pipes = obj[c].pipes
          /\ obj'[c].doing = obj[c].doing
          /\ \A a \in Node \ {c} : obj'[a] = obj[a]
      BY <1>2, <2>2 DEF Visited, r
    <2>4. \A j \in Client \ {m} : conn'[j] = conn[j]
      BY <2>2, Owners DEF Visited
    <2>5. /\ conn'[m].link = conn[m].link /\ conn'[m].asked = conn[m].asked
          /\ conn'[m].waiting \in {conn[m].waiting, "none"}
          /\ conn'[m].peer = "open" => conn[m].peer = "open"
          /\ obj[c].doing # "over" => conn'[m].answers = conn[m].answers
          /\ conn'[m].answers \in {conn[m].answers, conn[m].asked}
          /\ result = 2 => conn'[m].peer # "open"
      BY <2>2 DEF Visited
    <2>6. OneObject(c, m)
      BY <1>1, <2>2, <2>3, <2>4, <2>5 DEF OneObject, FilesOf, Visited
    <2>7. NumbersInv(c)'
      <3>1. NumbersInv(c) /\ file' = file /\ obj[c].client = m
        BY <1>1, <2>2 DEF Visited
      <3> QED
        BY <2>3, <3>1 DEF NumbersInv, HasPipes
    <2>8. RequestInv(c)'
      <3>1. RequestInv(c) /\ obj[c].client = m /\ obj[c].closed = 0
        BY <2>2 DEF Visited
      <3>2. conn'[m].link = "accepted"
        BY <2>5, <3>1 DEF RequestInv
      <3>3. obj'[c].closed = 1 => obj'[c].doing = "over"
        BY <2>3
      <3>4. obj'[c].closed = 2 => conn'[m].peer # "open"
        BY <2>3, <2>5
      <3>5. obj'[c].rbuf # "none" =>
                /\ obj'[c].doing = "request" /\ obj'[c].rbuf = Script[m][conn'[m].asked]
                /\ conn'[m].waiting = "none" /\ conn'[m].asked >= 1
                /\ conn'[m].answers < conn'[m].asked
        BY <2>3, <2>5, <3>1 DEF RequestInv
      <3>6. conn'[m].waiting # "none" =>
                conn'[m].answers < conn'[m].asked /\ (obj'[c].doing = "request" \/ obj'[c].closed = 1)
        BY <2>3, <2>5, <3>1 DEF RequestInv
      <3>7. obj'[c].doing # "request" /\ obj'[c].closed # 1 => conn'[m].answers < conn'[m].asked
        BY <2>3, <2>5, <3>1 DEF RequestInv
      <3>8. obj'[c].doing = "cgi" /\ ~obj'[c].pre =>
                conn'[m].asked >= 1 /\ Script[m][conn'[m].asked] = "cgi"
        BY <2>3, <2>5, <3>1 DEF RequestInv
      <3>9. obj'[c].pre => \E i \in 1..conn'[m].asked :
                /\ Script[m][i] = "cgi"
                /\ obj'[c].rbuf # "none" \/ conn'[m].waiting # "none" => i < conn'[m].asked
        BY <2>3, <2>5, <3>1 DEF RequestInv
      <3> QED
        BY <2>3, <3>2, <3>3, <3>4, <3>5, <3>6, <3>7, <3>8, <3>9 DEF RequestInv
    <2> QED
      BY <1>1, <1>6, <2>2, <2>3, <2>6, <2>7, <2>8, OneObjectOwns, Visit DEF Visited
  <1> QED
    BY <1>5, <1>6

LEMMA SendKeeps ==
    ASSUME IInv, TypeOK', Send \/ SendToClosed \/ SendFails
    PROVE  RingInv' /\ LiveInv' /\ (OneCgi => OwnInv')
  <1>1. /\ At("handlewrite") /\ Visiting /\ iter \in Node
    BY DEF Send, SendToClosed, SendFails, Sending, At, Visiting
  <1>2. /\ TypeOK /\ conn \in [Client -> ConnType] /\ obj[iter].wbuf \in SUBSET Client
        /\ conn[obj[iter].client] \in ConnType
    BY <1>1, Visit DEF ObjType
  <1>3. CASE Send
    <2>1. PICK k \in Client, slow \in BOOLEAN :
              /\ file[obj[iter].fd] = Sock(k) /\ conn[k].peer = "open"
              /\ conn' = [conn EXCEPT ![k].stalled = slow,
                                      ![k].answers = IF obj[iter].doing = "over" THEN conn[k].asked
                                                                                 ELSE @]
      BY <1>3 DEF Send
    <2> DEFINE n == IF obj[iter].doing = "over" THEN conn[k].asked ELSE conn[k].answers
               e == [conn[k] EXCEPT !.stalled = slow, !.answers = n]
    <2>2. conn' = [conn EXCEPT ![k] = e]
      BY <1>2, <2>1
    <2>3. n \in Nat /\ conn[k] \in ConnType /\ n \in {conn[k].answers, conn[k].asked}
          /\ (obj[iter].doing # "over" => n = conn[k].answers)
      BY <1>2 DEF ConnType
    <2> HIDE DEF n
    <2>4. /\ e \in ConnType /\ e.link = conn[k].link /\ e.asked = conn[k].asked
          /\ e.waiting = conn[k].waiting /\ e.peer = conn[k].peer /\ e.answers = n
      BY <2>3 DEF ConnType
    <2> HIDE DEF e
    <2>5. PICK d \in ConnType : d = e
      BY <2>4
    <2>6. \A m \in Client : file[obj[iter].fd] = Sock(m) => m = k /\ conn'[m] = e
      BY <1>2, <2>1, <2>2, Owners
    <2>7. AfterSend(0, {})
      BY <1>3 DEF Send
    <2>8. \A m \in Client : file[obj[iter].fd] = Sock(m) =>
              /\ conn'[m].link = conn[m].link /\ conn'[m].asked = conn[m].asked
              /\ conn'[m].waiting \in {conn[m].waiting, "none"}
              /\ conn'[m].peer = "open" => conn[m].peer = "open"
              /\ obj[iter].doing # "over" => conn'[m].answers = conn[m].answers
              /\ conn'[m].answers \in {conn[m].answers, conn[m].asked}
              /\ 0 = 2 => conn'[m].peer # "open"
      BY <2>3, <2>4, <2>6
    <2>9. file[obj[iter].fd] = Sock(k) /\ conn' = [conn EXCEPT ![k] = d]
      BY <2>1, <2>2, <2>5
    <2> QED
      BY <1>1, <2>7, <2>8, <2>9, AfterSendKeeps
  <1>4. CASE SendToClosed
    <2>1. PICK k \in Client :
              /\ file[obj[iter].fd] = Sock(k)
              /\ conn' = [conn EXCEPT ![k].peer = "reset", ![k].waiting = "none"]
      BY <1>4 DEF SendToClosed
    <2> DEFINE e == [conn[k] EXCEPT !.peer = "reset", !.waiting = "none"]
    <2>2. conn' = [conn EXCEPT ![k] = e]
      BY <1>2, <2>1
    <2>3. conn[k] \in ConnType
      BY <1>2
    <2>4. /\ e \in ConnType /\ e.link = conn[k].link /\ e.asked = conn[k].asked
          /\ e.waiting = "none" /\ e.peer = "reset" /\ e.answers = conn[k].answers
      BY <2>3 DEF ConnType
    <2> HIDE DEF e
    <2>5. PICK d \in ConnType : d = e
      BY <2>4
    <2>6. \A m \in Client : file[obj[iter].fd] = Sock(m) => m = k /\ conn'[m] = e
      BY <1>2, <2>1, <2>2, Owners
    <2>7. AfterSend(0, {})
      BY <1>4 DEF SendToClosed
    <2>8. \A m \in Client : file[obj[iter].fd] = Sock(m) =>
              /\ conn'[m].link = conn[m].link /\ conn'[m].asked = conn[m].asked
              /\ conn'[m].waiting \in {conn[m].waiting, "none"}
              /\ conn'[m].peer = "open" => conn[m].peer = "open"
              /\ obj[iter].doing # "over" => conn'[m].answers = conn[m].answers
              /\ conn'[m].answers \in {conn[m].answers, conn[m].asked}
              /\ 0 = 2 => conn'[m].peer # "open"
      BY <2>4, <2>6
    <2>9. file[obj[iter].fd] = Sock(k) /\ conn' = [conn EXCEPT ![k] = d]
      BY <2>1, <2>2, <2>5
    <2> QED
      BY <1>1, <2>7, <2>8, <2>9, AfterSendKeeps
  <1>5. CASE SendFails
    <2>1. AfterSend(2, obj[iter].wbuf) /\ conn' = conn
      BY <1>5 DEF SendFails
    <2>2. \A m \in Client : file[obj[iter].fd] = Sock(m) => conn[m].peer # "open"
      BY <1>5, Owners DEF SendFails
    <2>3. PICK w : w = obj[iter].wbuf
      OBVIOUS
    <2>4. PICK d \in ConnType : d = conn[obj[iter].client]
      BY <1>2
    <2> QED
      BY <1>1, <2>1, <2>2, <2>3, <2>4, AfterSendKeeps
  <1> QED
    BY <1>3, <1>4, <1>5

\* removeClosedSocket().
Removing(c, m) ==
    /\ c = iter /\ m = obj[c].client /\ c \in live /\ m \in Client
    /\ obj[c] \in ObjType /\ obj \in [Node -> ObjType]
    /\ OneCgi => NumbersInv(c) /\ RequestInv(c) /\ file[obj[c].fd] = Sock(m)

LEMMA RemovingNames ==
    ASSUME IInv, At("remove")
    PROVE  \E c \in Node : \E m \in Client : Removing(c, m)
  <1>1. /\ iter \in Node /\ iter \in live /\ obj[iter] \in ObjType /\ obj[iter].client \in Client
        /\ obj \in [Node -> ObjType]
    BY VisitedType
  <1>2. PICK c \in Node : c = iter
    BY <1>1
  <1>3. PICK m \in Client : m = obj[c].client
    BY <1>1, <1>2
  <1>4. OneCgi => NumbersInv(c) /\ RequestInv(c)
    BY <1>1, <1>2 DEF IInv, OwnInv
  <1>5. NumbersInv(c) => file[obj[c].fd] = Sock(m)
    BY <1>3 DEF NumbersInv
  <1> QED
    BY <1>1, <1>2, <1>3, <1>4, <1>5 DEF Removing

LEMMA KeepClientKeeps ==
    ASSUME IInv, KeepClient
    PROVE  RingInv' /\ LiveInv' /\ (OneCgi => OwnInv')
  <1>1. /\ At("remove") /\ obj[iter].closed = 0 /\ pc' = "remove" /\ iter' = NextClient
        /\ UNCHANGED <<clients, live, obj, file, conn, backlog, read_set>>
    BY DEF KeepClient, At
  <1>2. OnlyVisited
    BY <1>1 DEF OnlyVisited
  <1>3. RingInv' /\ LiveInv'
    BY <1>1, <1>2, RemoveMovesOn DEF IInv
  <1> QED
    BY <1>1, <1>3, OwnInvStays DEF IInv

LEMMA ResetResponseKeeps ==
    ASSUME IInv, TypeOK', ResetResponse
    PROVE  RingInv' /\ LiveInv' /\ (OneCgi => OwnInv')
  <1>1. /\ At("remove") /\ obj[iter].closed = 1 /\ pc' = "remove" /\ iter' = NextClient
        /\ file' = Closed(file, {obj[iter].fp})
        /\ obj' = [obj EXCEPT ![iter].closed = 0, ![iter].doing = "request", ![iter].fp = NoFile]
        /\ UNCHANGED <<clients, live, conn, backlog, read_set>>
    BY DEF ResetResponse, At
  <1>2. PICK c \in Node : \E m \in Client : Removing(c, m)
    BY <1>1, RemovingNames
  <1>3. PICK m \in Client : Removing(c, m)
    BY <1>2
  <1>4. /\ obj'[c].client = m /\ obj'[c].closed = 0 /\ obj'[c].doing = "request"
        /\ obj'[c].pre = obj[c].pre /\ obj'[c].rbuf = obj[c].rbuf
        /\ obj'[c].fd = obj[c].fd /\ obj'[c].fp = NoFile /\ obj'[c].pipes = obj[c].pipes
        /\ obj[c].closed = 1
        /\ \A a \in Node \ {c} : obj'[a] = obj[a]
    BY <1>1, <1>3 DEF Removing, ObjType
  <1>5. OnlyVisited
    BY <1>1, <1>3, <1>4 DEF OnlyVisited, Removing
  <1>6. RingInv' /\ LiveInv'
    BY <1>1, <1>3, <1>4, <1>5, RemoveMovesOn DEF IInv, Removing
  <1>7. ASSUME OneCgi PROVE OwnInv'
    <2>1. /\ NumbersInv(c) /\ RequestInv(c) /\ file[obj[c].fd] = Sock(m) /\ obj[c].client = m
          /\ obj[c].doing = "over" /\ obj[c].fd \in FD /\ obj[c].fp \in FD \cup {NoFile}
      BY <1>3, <1>4, <1>7 DEF Removing, RequestInv, ObjType
    <2>2. \A n \in FD : file'[n] = IF n = obj[c].fp THEN Free ELSE file[n]
      BY <1>1, <1>3 DEF Closed, Removing
    <2>3. obj[c].fp \in FD => file[obj[c].fp] = <<"file", m>>
      BY <2>1 DEF NumbersInv, FD, NoFile
    <2>4. FilesOf(m)
      BY <2>2, <2>3 DEF FilesOf, OfClient
    <2>5. OneObject(c, m)
      BY <1>1, <1>3, <1>4, <2>4 DEF OneObject, Removing
    <2>6. NumbersInv(c)'
      <3>1. file'[obj[c].fd] = Sock(m)
        BY <2>1, <2>2, <2>3, Owners
      <3>2. \A n \in FD : file'[n][2] = m => n = obj[c].fd
        BY <2>1, <2>2, Owners DEF NumbersInv, HasPipes
      <3> QED
        BY <1>4, <3>1, <3>2 DEF NumbersInv, HasPipes
    <2>7. RequestInv(c)'
      <3>1. obj[c].rbuf = "none"
        BY <2>1 DEF RequestInv
      <3>2. conn' = conn
        BY <1>1
      <3>3. /\ conn[m].link = "accepted"
            /\ conn[m].waiting # "none" => conn[m].answers < conn[m].asked
            /\ obj[c].pre => \E n \in 1..conn[m].asked :
                  /\ Script[m][n] = "cgi" /\ (conn[m].waiting # "none" => n < conn[m].asked)
        BY <2>1 DEF RequestInv
      <3> QED
        BY <1>4, <3>1, <3>2, <3>3 DEF RequestInv
    <2> QED
      BY <1>1, <1>3, <1>4, <1>7, <2>5, <2>6, <2>7, OneObjectOwns DEF IInv, Removing
  <1> QED
    BY <1>6, <1>7

LEMMA RemoveClosedKeeps ==
    ASSUME IInv, TypeOK', RemoveClosed
    PROVE  RingInv' /\ LiveInv' /\ (OneCgi => OwnInv')
  <1>1. /\ At("remove") /\ obj[iter].closed = 2
        /\ file' = Closed(file, {obj[iter].fd, obj[iter].fp})
        /\ live' = live \ {iter} /\ obj' = [obj EXCEPT ![iter] = free(@)]
        /\ UNCHANGED <<conn, backlog>>
    BY DEF RemoveClosed
  <1>2. PICK c \in Node : \E m \in Client : Removing(c, m)
    BY <1>1, RemovingNames
  <1>3. PICK m \in Client : Removing(c, m)
    BY <1>2
  <1>4. ASSUME OneCgi PROVE OwnInv'
    <2>1. /\ NumbersInv(c) /\ RequestInv(c) /\ file[obj[c].fd] = Sock(m) /\ obj[c].client = m
          /\ obj[c].closed = 2 /\ obj[c].fd \in FD /\ obj[c].fp \in FD \cup {NoFile}
      BY <1>1, <1>3, <1>4 DEF Removing, ObjType
    <2>2. conn'[m].peer # "open"
      BY <1>1, <2>1 DEF RequestInv
    <2>3. \A n \in FD : file'[n] = IF n \in {obj[c].fd, obj[c].fp} THEN Free ELSE file[n]
      BY <1>1, <1>3 DEF Closed, Removing
    <2>4. obj[c].fp \in FD => file[obj[c].fp] = <<"file", m>>
      BY <2>1 DEF NumbersInv, FD, NoFile
    <2>5. FilesOf(m)
      BY <2>1, <2>3, <2>4, Owners DEF FilesOf, OfClient
    <2>6. OneObject(c, m) /\ c \notin live'
      BY <1>1, <1>3, <2>5 DEF OneObject, Removing
    <2> QED
      BY <1>3, <1>4, <2>2, <2>6, OneObjectOwns DEF IInv
  <1> QED
    BY <1>4, RemoveClosedKeepsList
------------------------------------------------------------------------------
(* New connections.                                                        *)

\* The connection that is accepted has nothing yet, and leaves the queue.
LEMMA AcceptedOwns ==
    ASSUME TypeOK, LiveInv, OwnInv, NEW l \in {listenfd, ssl_fd}, NEW k \in Client, Accepted(l, k)
    PROVE  /\ conn[k].link = "queued" /\ conn[k].answers = 0
           /\ \A n \in FD : file[n][2] # k
           /\ Lowest(file) \in FD /\ file[Lowest(file)] = Free
           /\ file'[Lowest(file)] = Sock(k)
           /\ \A n \in FD \ {Lowest(file)} : file'[n] = file[n]
           /\ conn'[k] = [conn[k] EXCEPT !.link = "accepted"]
           /\ \A j \in Client \ {k} : conn'[j] = conn[j]
           /\ FilesOf(k)
           /\ \A a \in live : obj[a].client # k
           /\ QueueInv' /\ FixedInv' /\ StayingKept'
  <1>1. QueueInv /\ FixedInv /\ StayingKept
    BY DEF OwnInv
  <1>2. /\ backlog[l] \in Seq(Client) /\ backlog[l] # <<>> /\ k = Head(backlog[l])
        /\ backlog' = [backlog EXCEPT ![l] = Tail(backlog[l])]
        /\ conn' = [conn EXCEPT ![k].link = "accepted"]
        /\ file' = Opened(file, Sock(k)) /\ Unused(file) # {}
        /\ file \in [FD -> File] /\ conn \in [Client -> ConnType]
        /\ backlog \in [{listenfd, ssl_fd} -> Seq(Client)]
    BY DEF Accepted, TypeOK
  <1>3. /\ Len(backlog[l]) \in Nat /\ 1 \in 1..Len(backlog[l]) /\ k = backlog[l][1]
        /\ Tail(backlog[l]) \in Seq(Client) /\ Len(Tail(backlog[l])) = Len(backlog[l]) - 1
        /\ \A i \in 1..Len(Tail(backlog[l])) : Tail(backlog[l])[i] = backlog[l][i + 1]
    <2>1. Len(backlog[l]) \in Nat /\ Len(backlog[l]) # 0
      BY <1>2, EmptySeq, LenProperties
    <2>2. k = backlog[l][1]
      BY <1>2
    <2>3. /\ Tail(backlog[l]) \in Seq(Client) /\ Len(Tail(backlog[l])) = Len(backlog[l]) - 1
          /\ \A i \in 1..Len(Tail(backlog[l])) : Tail(backlog[l])[i] = backlog[l][i + 1]
      BY <1>2, HeadTailProperties
    <2> QED
      BY <2>1, <2>2, <2>3
  <1>4. conn[k].link = "queued"
    BY <1>1, <1>3 DEF QueueInv
  <1>5. conn[k].answers = 0 /\ \A n \in FD : file[n][2] # k
    BY <1>1, <1>4 DEF QueueInv
  <1>6. \A a \in live : obj[a].client # k
    BY <1>4 DEF OwnInv, RequestInv
  <1>7. /\ Lowest(file) \in FD /\ file[Lowest(file)] = Free
        /\ file'[Lowest(file)] = Sock(k)
        /\ \A n \in FD \ {Lowest(file)} : file'[n] = file[n]
    BY <1>2, LowestIsFree DEF Opened
  <1>8. /\ conn'[k] = [conn[k] EXCEPT !.link = "accepted"]
        /\ \A j \in Client \ {k} : conn'[j] = conn[j]
    BY <1>2
  <1>9. FilesOf(k)
    BY <1>7, Owners DEF FilesOf, OfClient
  <1>10. QueueInv'
    <2>1. ASSUME NEW h \in {listenfd, ssl_fd}, NEW i \in 1..Len(backlog'[h])
          PROVE  \E j \in 1..Len(backlog[h]) :
                    /\ backlog[h][j] = backlog'[h][i] /\ backlog'[h][i] # k
                    /\ backlog'[h][i] \in Client
                    /\ h = l => j = i + 1
                    /\ h # l => j = i
      <3>1. CASE h = l
        <4>1. backlog'[h] = Tail(backlog[l])
          BY <1>2, <3>1
        <4>2. i + 1 \in 1..Len(backlog[l]) /\ backlog[l][i + 1] = backlog'[h][i] /\ i + 1 # 1
          BY <1>3, <2>1, <4>1
        <4>3. backlog[l][i + 1] # k
          BY <1>1, <1>3, <4>2 DEF QueueInv
        <4>4. backlog[l][i + 1] \in Client
          BY <1>2, <4>2, ElementOfSeq
        <4> QED
          BY <3>1, <4>2, <4>3, <4>4
      <3>2. CASE h # l
        <4>1. backlog'[h] = backlog[h]
          BY <1>2, <3>2
        <4>2. backlog[h][i] # k
          BY <1>1, <1>3, <2>1, <3>2, <4>1 DEF QueueInv, listenfd, ssl_fd
        <4>3. backlog[h][i] \in Client
          BY <1>2, <2>1, <4>1, ElementOfSeq
        <4> QED
          BY <2>1, <3>2, <4>1, <4>2, <4>3
      <3> QED
        BY <3>1, <3>2
    <2>2. ASSUME NEW h \in {listenfd, ssl_fd}, NEW i \in 1..Len(backlog'[h])
          PROVE  /\ conn'[backlog'[h][i]].link = "queued"
                 /\ (backlog'[h][i] \in TLS <=> h = ssl_fd)
      BY <1>1, <1>8, <2>1 DEF QueueInv
    <2>3. ASSUME NEW h \in {listenfd, ssl_fd}, NEW i \in 1..Len(backlog'[h]),
                 NEW j \in 1..Len(backlog'[h]), backlog'[h][i] = backlog'[h][j]
          PROVE  i = j
      <3>1. PICK p \in 1..Len(backlog[h]) : backlog[h][p] = backlog'[h][i]
                                            /\ (h = l => p = i + 1) /\ (h # l => p = i)
        BY <2>1
      <3>2. PICK q \in 1..Len(backlog[h]) : backlog[h][q] = backlog'[h][j]
                                            /\ (h = l => q = j + 1) /\ (h # l => q = j)
        BY <2>1
      <3>3. p = q
        BY <1>1, <2>3, <3>1, <3>2 DEF QueueInv
      <3> QED
        BY <3>1, <3>2, <3>3
    <2>4. ASSUME NEW j \in Client, conn'[j].link # "accepted"
          PROVE  conn'[j].answers = 0 /\ \A n \in FD : file'[n][2] # j
      <3>1. j # k
        BY <1>2, <1>8, <2>4 DEF ConnType
      <3>2. conn'[j] = conn[j] /\ \A n \in FD : file[n][2] # j
        BY <1>1, <1>8, <2>4, <3>1 DEF QueueInv
      <3>3. \A n \in FD : file'[n][2] # j
        BY <1>7, <3>1, <3>2, Owners
      <3> QED
        BY <1>1, <2>4, <3>2, <3>3 DEF QueueInv
    <2> QED
      BY <2>2, <2>3, <2>4 DEF QueueInv
  <1>11. FixedInv'
    <2>1. listenfd \in FD /\ ssl_fd \in FD
      BY PoolAssumption DEF FD, listenfd, ssl_fd
    <2> QED
      BY <1>1, <1>7, <2>1 DEF FixedInv, Free
  <1>12. StayingKept'
    <2> SUFFICES ASSUME NEW j \in Client, conn'[j].link = "accepted", conn'[j].peer = "open"
                 PROVE  HasOpen(Sock(j))'
      BY DEF StayingKept
    <2>1. CASE j = k
      BY <1>7, <2>1 DEF HasOpen
    <2>2. CASE j # k
      <3>1. PICK n \in FD : file[n] = Sock(j)
        BY <1>1, <1>8, <2>2 DEF StayingKept, HasOpen
      <3> QED
        BY <1>7, <3>1, Owners DEF HasOpen
    <2> QED
      BY <2>1, <2>2
  <1> QED
    BY <1>4, <1>5, <1>6, <1>7, <1>8, <1>9, <1>10, <1>11, <1>12

\* Those that are connected keep what they have.
LEMMA AcceptedOthers ==
    ASSUME TypeOK, LiveInv, OwnInv, NEW l \in {listenfd, ssl_fd}, NEW k \in Client,
           Accepted(l, k), NEW a \in live, obj'[a] = obj[a]
    PROVE  NumbersInv(a)' /\ RequestInv(a)'
  <1>1. /\ obj \in [Node -> ObjType] /\ a \in Node /\ obj[a].client \in Client
        /\ NumbersInv(a) /\ RequestInv(a)
    BY DEF TypeOK, LiveInv, OwnInv
  <1>2. FilesOf(k) /\ obj[a].client # k /\ \A j \in Client \ {k} : conn'[j] = conn[j]
    <2>1. FilesOf(k)
      BY AcceptedOwns, ZenonT(60)
    <2>2. \A b \in live : obj[b].client # k
      BY AcceptedOwns, ZenonT(60)
    <2>3. \A j \in Client \ {k} : conn'[j] = conn[j]
      BY DEF Accepted, TypeOK
    <2> QED
      BY <2>1, <2>2, <2>3
  <1>3. NumbersInv(a)'
    BY <1>1, <1>2, OthersNumbers
  <1>4. RequestInv(a)'
    BY <1>1, <1>2 DEF RequestInv
  <1> QED
    BY <1>3, <1>4

LEMMA AddFailsOwns ==
    ASSUME IInv, OneCgi, NEW l \in {listenfd, ssl_fd}, AddFails(l)
    PROVE  OwnInv'
  <1>1. PICK k \in Client : Accepted(l, k)
    BY DEF AddFails
  <1>2. TypeOK /\ LiveInv /\ OwnInv /\ live' = live /\ obj' = obj
    BY DEF IInv, AddFails
  <1>3. \A a \in live : NumbersInv(a)' /\ RequestInv(a)'
    BY <1>1, <1>2, AcceptedOthers
  <1>4. QueueInv' /\ FixedInv' /\ StayingKept'
    BY <1>1, <1>2, AcceptedOwns
  <1>5. \A a, b \in live : obj[a].client = obj[b].client => a = b
    BY <1>2 DEF OwnInv
  <1> QED
    BY <1>2, <1>3, <1>4, <1>5 DEF OwnInv

\* The object of the new client has its number and no other.
LEMMA AllocateOwns ==
    ASSUME IInv, OneCgi, NEW l \in {listenfd, ssl_fd}, NEW k \in Client, NEW a \in Node,
           Accepted(l, k), Allocate(a, k)
    PROVE  OwnInv'
  <1>1. /\ TypeOK /\ LiveInv /\ OwnInv /\ a \in Node \ live /\ live' = live \cup {a}
        /\ obj' = [obj EXCEPT ![a] = new_ClientSocket(obj[a], k, Lowest(file))]
        /\ obj \in [Node -> ObjType] /\ live \subseteq Node /\ conn \in [Client -> ConnType]
    BY DEF IInv, Allocate, TypeOK
  <1>2. \A b \in live : obj'[b] = obj[b] /\ b # a
    BY <1>1
  <1>3. /\ obj'[a].client = k /\ obj'[a].fd = Lowest(file) /\ obj'[a].closed = 0
        /\ obj'[a].doing = "request" /\ obj'[a].rbuf = "none" /\ obj'[a].fp = NoFile
        /\ obj'[a].pre = FALSE
    BY <1>1 DEF new_ClientSocket, Blank
  <1>4. /\ conn[k].answers = 0 /\ \A n \in FD : file[n][2] # k
        /\ file'[Lowest(file)] = Sock(k)
        /\ \A n \in FD \ {Lowest(file)} : file'[n] = file[n]
        /\ conn'[k] = [conn[k] EXCEPT !.link = "accepted"]
        /\ \A b \in live : obj[b].client # k
        /\ QueueInv' /\ FixedInv' /\ StayingKept'
    BY <1>1, AcceptedOwns
  <1>5. NumbersInv(a)'
    <2>1. \A n \in FD : file'[n][2] = k => n = Lowest(file)
      BY <1>4
    <2> QED
      BY <1>3, <1>4, <2>1 DEF NumbersInv, HasPipes
  <1>6. RequestInv(a)'
    <2>1. /\ conn'[k].link = "accepted" /\ conn'[k].answers = 0
          /\ conn'[k].asked = conn[k].asked /\ conn'[k].waiting = conn[k].waiting
      BY <1>1, <1>4 DEF ConnType
    <2>2. conn[k].asked \in Nat /\ (conn[k].waiting # "none" => conn[k].asked >= 1)
      BY <1>1 DEF IInv, AskedInv, ConnType
    <2>3. conn'[k].waiting # "none" => conn'[k].answers < conn'[k].asked
      BY <2>1, <2>2
    <2> QED
      BY <1>3, <2>1, <2>3 DEF RequestInv
  <1>7. \A b \in live : NumbersInv(b)' /\ RequestInv(b)'
    BY <1>1, <1>2, AcceptedOthers
  <1>8. \A b, c \in live' : obj'[b].client = obj'[c].client => b = c
    BY <1>1, <1>2, <1>3, <1>4 DEF OwnInv
  <1> QED
    BY <1>1, <1>4, <1>5, <1>6, <1>7, <1>8 DEF OwnInv

LEMMA HandshakeFailsOwns ==
    ASSUME IInv, TypeOK', OneCgi, HandshakeFails
    PROVE  OwnInv'
  <1>1. /\ pc = "SSL_accept" /\ iter \in Node /\ live' = live \ {iter}
        /\ obj' = [obj EXCEPT ![iter] = free(@)]
        /\ UNCHANGED <<file, conn, backlog>>
    BY DEF HandshakeFails, At
  <1>2. TypeOK /\ LiveInv /\ RingInv /\ OwnInv /\ obj \in [Node -> ObjType] /\ live \subseteq Node
    BY DEF IInv, TypeOK
  <1>3. iter \in live /\ obj[iter].client \in Client
    BY <1>1, <1>2 DEF LiveInv
  <1>4. PICK c \in Node : c = iter
    BY <1>1
  <1>5. PICK m \in Client : m = obj[c].client
    BY <1>3, <1>4
  <1>6. NumbersInv(c) /\ obj[c].fd \in FD
    BY <1>2, <1>3, <1>4 DEF OwnInv, ObjType
  <1>7. HasOpen(Sock(m))'
    BY <1>1, <1>5, <1>6 DEF HasOpen, NumbersInv
  <1>8. OneObject(c, m) /\ c \notin live'
    BY <1>1, <1>2, <1>3, <1>4, <1>5 DEF OneObject, FilesOf
  <1> QED
    BY <1>2, <1>7, <1>8, OneObjectOwns

LEMMA AcceptOwns ==
    ASSUME IInv, TypeOK', OneCgi, Accept
    PROVE  OwnInv'
  <1>1. ASSUME NEW l \in {listenfd, ssl_fd}, NoAccept(l) \/ AcceptFails(l)
        PROVE  OwnInv'
    <2>1. UNCHANGED <<live, obj, file, conn, backlog>>
      BY <1>1 DEF NoAccept, AcceptFails
    <2> QED
      BY <2>1, OwnInvStays DEF IInv
  <1>2. ASSUME NEW a \in Node, NEW k \in Client, AddClient(a, k) \/ AddTlsClient(a, k)
        PROVE  OwnInv'
    BY <1>2, AllocateOwns DEF AddClient, AddTlsClient
  <1>3. CASE HandshakeDone
    <2>1. UNCHANGED <<live, obj, file, conn, backlog>>
      BY <1>3 DEF HandshakeDone
    <2> QED
      BY <2>1, OwnInvStays DEF IInv
  <1> QED
    BY <1>1, <1>2, <1>3, AddFailsOwns, HandshakeFailsOwns DEF Accept
------------------------------------------------------------------------------
(* The clients and the CGI programs.                                       *)

\* A client's step on its own connection leaves the rest of OwnInv alone.
LEMMA ClientOwns ==
    ASSUME TypeOK, LiveInv, OwnInv, NEW k \in Client, NEW d \in ConnType, ClientStep(k, d),
           d.peer = "open" => conn[k].peer = "open", d.link \in {conn[k].link, "queued"},
           QueueInv',
           \A a \in live : obj[a].client = k => RequestInv(a)'
    PROVE  OwnInv'
  <1>1. UNCHANGED <<live, obj, file>> /\ conn' = [conn EXCEPT ![k] = d]
        /\ conn \in [Client -> ConnType]
    BY DEF ClientStep, server, TypeOK
  <1>2. \A a \in live : NumbersInv(a)'
    BY <1>1 DEF OwnInv, NumbersInv, HasPipes
  <1>3. ASSUME NEW a \in live PROVE RequestInv(a)'
    <2>1. CASE obj[a].client = k
      BY <2>1
    <2>2. CASE obj[a].client # k
      <3>1. RequestInv(a) /\ conn'[obj[a].client] = conn[obj[a].client] /\ obj'[a] = obj[a]
        BY <1>1, <2>2 DEF OwnInv, LiveInv
      <3> QED
        BY <3>1, ZenonT(60) DEF RequestInv
    <2> QED
      BY <2>1, <2>2
  <1>4. StayingKept'
    BY <1>1 DEF OwnInv, StayingKept, HasOpen
  <1> QED
    BY <1>1, <1>2, <1>3, <1>4 DEF OwnInv, FixedInv

\* The steps after which the client has as much to ask and to get as before.
LEMMA QuietOwns ==
    ASSUME IInv, OneCgi, NEW k \in Client, NEW d \in ConnType, ClientStep(k, d),
           backlog' = backlog,
           d.link = conn[k].link, d.asked = conn[k].asked, d.answers = conn[k].answers,
           d.waiting = "none" <=> conn[k].waiting = "none",
           d.peer = "open" => conn[k].peer = "open"
    PROVE  OwnInv'
  <1>1. TypeOK /\ LiveInv /\ OwnInv /\ QueueInv /\ conn \in [Client -> ConnType]
    BY DEF IInv, OwnInv, TypeOK
  <1>2. UNCHANGED <<live, obj, file>> /\ conn' = [conn EXCEPT ![k] = d]
    BY DEF ClientStep, server
  <1>3. QueueInv'
    <2>1. \A j \in Client : conn'[j].link = conn[j].link
      BY <1>1, <1>2
    <2>2. \A l \in {listenfd, ssl_fd} : \A i \in 1..Len(backlog[l]) : backlog[l][i] \in Client
      BY <1>1, ElementOfSeq DEF TypeOK
    <2>3. \A j \in Client : /\ conn'[j].asked = conn[j].asked /\ conn'[j].answers = conn[j].answers
                            /\ conn[j].waiting = "none" => conn'[j].waiting = "none"
      BY <1>1, <1>2
    <2> QED
      BY <1>1, <1>2, <2>1, <2>2, <2>3 DEF QueueInv
  <1>4. ASSUME NEW a \in live, obj[a].client = k
        PROVE  RequestInv(a)'
    <2>1. RequestInv(a) /\ obj'[a] = obj[a] /\ conn'[k] = d
      BY <1>1, <1>2 DEF OwnInv
    <2> QED
      BY <1>4, <2>1 DEF RequestInv
  <1> QED
    BY <1>1, <1>3, <1>4, ClientOwns

LEMMA AskOwns ==
    ASSUME IInv, OneCgi, NEW k \in Client, Ask(k)
    PROVE  OwnInv'
  <1> DEFINE w == IF k \in TLS THEN "part" ELSE "whole"
             n == conn[k].asked + 1
             c == [conn[k] EXCEPT !.asked = n, !.waiting = w]
  <1>1. /\ TypeOK /\ LiveInv /\ OwnInv /\ QueueInv /\ conn \in [Client -> ConnType]
        /\ conn[k] \in ConnType /\ conn[k].asked \in Nat
    BY DEF IInv, OwnInv, TypeOK, ConnType
  <1>2. /\ ClientStep(k, c) /\ UNCHANGED <<live, obj, file, backlog>> /\ conn' = [conn EXCEPT ![k] = c]
        /\ conn[k].peer = "open" /\ conn[k].answers = conn[k].asked
        /\ conn[k].waiting = "none"
    BY DEF Ask, ClientStep, server
  <1>3. w # "none" /\ w \in {"part", "whole"} /\ n \in Nat
    BY <1>1
  <1>4. n = conn[k].asked + 1
    OBVIOUS
  <1> HIDE DEF w, n
  <1>5. /\ c \in ConnType /\ c.asked = n /\ c.waiting = w /\ c.link = conn[k].link
        /\ c.answers = conn[k].answers /\ c.peer = conn[k].peer
    BY <1>1, <1>3 DEF ConnType
  <1> HIDE DEF c
  <1>6. QueueInv'
    <2>1. \A j \in Client : conn'[j].link = conn[j].link /\ (j # k => conn'[j] = conn[j])
      BY <1>1, <1>2, <1>5
    <2>2. \A l \in {listenfd, ssl_fd} : \A i \in 1..Len(backlog[l]) : backlog[l][i] \in Client
      BY <1>1, ElementOfSeq DEF TypeOK
    <2>3. \A j \in Client : conn'[j].answers = conn[j].answers
      BY <1>1, <1>2, <1>5
    <2> QED
      BY <1>1, <1>2, <2>1, <2>2, <2>3 DEF QueueInv
  <1>7. ASSUME NEW a \in live, obj[a].client = k
        PROVE  RequestInv(a)'
    <2>1. RequestInv(a) /\ obj'[a] = obj[a] /\ conn'[k] = c
      BY <1>1, <1>2 DEF OwnInv
    <2>2. /\ conn[k].link = "accepted" /\ obj[a].rbuf = "none" /\ obj[a].closed # 2
          /\ obj[a].doing = "request" \/ obj[a].closed = 1
          /\ obj[a].closed = 1 => obj[a].doing = "over"
      BY <1>1, <1>2, <1>7, <2>1 DEF RequestInv
    <2>3. conn[k].answers < n /\ n >= 1
      BY <1>1, <1>2, <1>4
    <2>4. obj[a].pre => \E i \in 1..n : Script[k][i] = "cgi" /\ i < n
      <3> SUFFICES ASSUME obj[a].pre PROVE \E i \in 1..n : Script[k][i] = "cgi" /\ i < n
        OBVIOUS
      <3>1. PICK i \in 1..conn[k].asked : Script[k][i] = "cgi"
        BY <1>7, <2>1 DEF RequestInv
      <3>2. i \in 1..n /\ i < n
        BY <1>1, <1>4
      <3> QED
        BY <3>1, <3>2
    <2> QED
      BY <1>5, <1>7, <2>1, <2>2, <2>3, <2>4 DEF RequestInv
  <1>8. PICK d \in ConnType : d = c
    BY <1>5
  <1> QED
    BY <1>1, <1>2, <1>5, <1>6, <1>7, <1>8, ClientOwns

LEMMA ConnectOwns ==
    ASSUME IInv, OneCgi, NEW k \in Client, Connect(k)
    PROVE  OwnInv'
  <1> DEFINE l == IF k \in TLS THEN ssl_fd ELSE listenfd
             c == [conn[k] EXCEPT !.link = "queued"]
  <1>1. /\ TypeOK /\ LiveInv /\ OwnInv /\ QueueInv /\ conn \in [Client -> ConnType]
        /\ conn[k] \in ConnType /\ backlog \in [{listenfd, ssl_fd} -> Seq(Client)]
    BY DEF IInv, OwnInv, TypeOK
  <1>2. /\ ClientStep(k, c) /\ UNCHANGED <<live, obj, file>> /\ conn' = [conn EXCEPT ![k] = c]
        /\ conn[k].link = "away" /\ backlog' = [backlog EXCEPT ![l] = Append(backlog[l], k)]
    BY DEF Connect, ClientStep, server
  <1>3. /\ c \in ConnType /\ c.link = "queued" /\ c.asked = conn[k].asked
        /\ c.waiting = conn[k].waiting /\ c.answers = conn[k].answers /\ c.peer = conn[k].peer
    BY <1>1 DEF ConnType
  <1> HIDE DEF c
  <1>4. l \in {listenfd, ssl_fd} /\ (k \in TLS <=> l = ssl_fd)
    BY DEF listenfd, ssl_fd
  <1> HIDE DEF l
  <1>5. QueueInv'
    <2>1. \A h \in {listenfd, ssl_fd} : \A i \in 1..Len(backlog[h]) :
              backlog[h][i] \in Client /\ backlog[h][i] # k
      BY <1>1, <1>2, ElementOfSeq DEF QueueInv
    <2>2. /\ Len(backlog[l]) \in Nat /\ Len(backlog'[l]) = Len(backlog[l]) + 1
          /\ backlog'[l][Len(backlog[l]) + 1] = k
          /\ \A i \in 1..Len(backlog[l]) : backlog'[l][i] = backlog[l][i]
      <3>1. backlog[l] \in Seq(Client) /\ backlog'[l] = Append(backlog[l], k)
        BY <1>1, <1>2, <1>4
      <3> QED
        BY <3>1, AppendProperties, LenProperties
    <2>3. \A h \in {listenfd, ssl_fd} : h # l => backlog'[h] = backlog[h]
      BY <1>1, <1>2
    <2>4. ASSUME NEW h \in {listenfd, ssl_fd}, NEW i \in 1..Len(backlog'[h])
          PROVE  \/ i \in 1..Len(backlog[h]) /\ backlog'[h][i] = backlog[h][i]
                 \/ h = l /\ backlog'[h][i] = k /\ i = Len(backlog[l]) + 1
      <3>1. CASE h = l
        BY <2>2, <2>4, <3>1
      <3>2. CASE h # l
        BY <2>3, <2>4, <3>2
      <3> QED
        BY <3>1, <3>2
    <2>5. ASSUME NEW h \in {listenfd, ssl_fd}, NEW i \in 1..Len(backlog'[h])
          PROVE  /\ conn'[backlog'[h][i]].link = "queued"
                 /\ (backlog'[h][i] \in TLS <=> h = ssl_fd)
      <3>1. CASE h = l /\ backlog'[h][i] = k
        BY <1>1, <1>2, <1>3, <1>4, <3>1
      <3>2. CASE i \in 1..Len(backlog[h]) /\ backlog'[h][i] = backlog[h][i]
        BY <1>1, <1>2, <2>1, <3>2 DEF QueueInv
      <3> QED
        BY <2>4, <3>1, <3>2
    <2>6. ASSUME NEW h \in {listenfd, ssl_fd}, NEW i \in 1..Len(backlog'[h]),
                 NEW j \in 1..Len(backlog'[h]), backlog'[h][i] = backlog'[h][j]
          PROVE  i = j
      <3>1. CASE i \in 1..Len(backlog[h]) /\ j \in 1..Len(backlog[h])
        <4>1. backlog'[h][i] = backlog[h][i] /\ backlog'[h][j] = backlog[h][j]
          BY <2>2, <2>3, <3>1
        <4>2. backlog[h][i] = backlog[h][j]
          BY <2>6, <4>1
        <4> QED
          BY <1>1, <3>1, <4>2 DEF QueueInv
      <3>2. CASE ~(i \in 1..Len(backlog[h]) /\ j \in 1..Len(backlog[h]))
        <4>1. h = l /\ (i = Len(backlog[l]) + 1 \/ j = Len(backlog[l]) + 1)
          BY <2>4, <3>2
        <4>2. backlog'[h][i] = k /\ backlog'[h][j] = k
          BY <2>2, <2>6, <4>1
        <4>3. \A n \in 1..Len(backlog[h]) : backlog[h][n] # k
          BY <2>1
        <4>4. i = Len(backlog[l]) + 1
          BY <2>4, <4>2, <4>3
        <4>5. j = Len(backlog[l]) + 1
          BY <2>4, <4>2, <4>3
        <4> QED
          BY <4>4, <4>5
      <3> QED
        BY <3>1, <3>2
    <2>7. ASSUME NEW j \in Client, conn'[j].link # "accepted"
          PROVE  conn'[j].answers = 0 /\ \A n \in FD : file'[n][2] # j
      <3>1. conn[j].link # "accepted" /\ conn'[j].answers = conn[j].answers
        BY <1>1, <1>2, <1>3, <2>7
      <3> QED
        BY <1>1, <1>2, <3>1 DEF QueueInv
    <2> QED
      BY <2>5, <2>6, <2>7 DEF QueueInv
  <1>6. ASSUME NEW a \in live, obj[a].client = k
        PROVE  RequestInv(a)'
    <2>1. conn[k].link = "accepted"
      BY <1>1, <1>6 DEF OwnInv, RequestInv
    <2> QED
      BY <1>2, <2>1
  <1>7. PICK d \in ConnType : d = c
    BY <1>3
  <1> QED
    BY <1>1, <1>2, <1>3, <1>5, <1>6, <1>7, ClientOwns

LEMMA EnvironmentOwns ==
    ASSUME IInv, OneCgi, NEW k \in Client, Environment(k)
    PROVE  OwnInv'
  <1>1. conn[k] \in ConnType /\ OwnInv
    BY DEF IInv, TypeOK
  <1>2. CASE ChildRuns(k)
    <2>1. UNCHANGED <<live, obj, file, conn, backlog>>
      BY <1>2 DEF ChildRuns, server
    <2> QED
      BY <1>1, <2>1, OwnInvStays
  <1>3. CASE Shake(k)
    <2> DEFINE c == [conn[k] EXCEPT !.shaken = TRUE]
    <2>1. ClientStep(k, c) /\ backlog' = backlog
      BY <1>3 DEF Shake
    <2>2. /\ c \in ConnType /\ c.link = conn[k].link /\ c.asked = conn[k].asked
          /\ c.answers = conn[k].answers /\ c.waiting = conn[k].waiting /\ c.peer = conn[k].peer
      BY <1>1 DEF ConnType
    <2> HIDE DEF c
    <2>3. PICK d \in ConnType : d = c
      BY <2>2
    <2> QED
      BY <2>1, <2>2, <2>3, QuietOwns
  <1>4. CASE AskRest(k)
    <2> DEFINE c == [conn[k] EXCEPT !.waiting = "whole"]
    <2>1. ClientStep(k, c) /\ backlog' = backlog /\ conn[k].waiting = "part"
      BY <1>4 DEF AskRest
    <2>2. /\ c \in ConnType /\ c.link = conn[k].link /\ c.asked = conn[k].asked
          /\ c.answers = conn[k].answers /\ c.waiting = "whole" /\ c.peer = conn[k].peer
      BY <1>1 DEF ConnType
    <2> HIDE DEF c
    <2>3. PICK d \in ConnType : d = c
      BY <2>2
    <2> QED
      BY <2>1, <2>2, <2>3, QuietOwns
  <1>5. CASE Drain(k)
    <2> DEFINE c == [conn[k] EXCEPT !.stalled = FALSE]
    <2>1. ClientStep(k, c) /\ backlog' = backlog
      BY <1>5 DEF Drain
    <2>2. /\ c \in ConnType /\ c.link = conn[k].link /\ c.asked = conn[k].asked
          /\ c.answers = conn[k].answers /\ c.waiting = conn[k].waiting /\ c.peer = conn[k].peer
      BY <1>1 DEF ConnType
    <2> HIDE DEF c
    <2>3. PICK d \in ConnType : d = c
      BY <2>2
    <2> QED
      BY <2>1, <2>2, <2>3, QuietOwns
  <1>6. CASE HangUp(k)
    <2> DEFINE c == [conn[k] EXCEPT !.peer = "closed"]
    <2>1. ClientStep(k, c) /\ backlog' = backlog
      BY <1>6 DEF HangUp
    <2>2. /\ c \in ConnType /\ c.link = conn[k].link /\ c.asked = conn[k].asked
          /\ c.answers = conn[k].answers /\ c.waiting = conn[k].waiting /\ c.peer = "closed"
      BY <1>1 DEF ConnType
    <2> HIDE DEF c
    <2>3. PICK d \in ConnType : d = c
      BY <2>2
    <2> QED
      BY <2>1, <2>2, <2>3, QuietOwns
  <1> QED
    BY <1>2, <1>3, <1>4, <1>5, <1>6, AskOwns, ConnectOwns DEF Environment
------------------------------------------------------------------------------
(* The theorems.                                                           *)

LEMMA InitIInv ==
    ASSUME Init
    PROVE  IInv
  <1>1. /\ 0 \in FD /\ listenfd \in FD /\ ssl_fd \in FD /\ \A n \in FD : n \in Nat
        /\ DevNull = 0 /\ listenfd = 1 /\ ssl_fd = 2
    BY PoolAssumption DEF FD, DevNull, listenfd, ssl_fd
  <1>2. /\ clients = init_linkedlist /\ live = {} /\ pc = "select" /\ iter = head
        /\ obj = [a \in Node |-> Blank] /\ read_set = {} /\ write_set = {}
        /\ child = [k \in Client |-> "none"] /\ out = [k \in Client |-> FALSE]
        /\ conn = [k \in Client |-> NewConn] /\ backlog = [l \in {listenfd, ssl_fd} |-> <<>>]
    BY DEF Init
  <1>3. \A n \in FD : file[n] = IF n = DevNull THEN <<"null", "none">>
                                ELSE IF n \in {listenfd, ssl_fd} THEN <<"listen", "none">>
                                ELSE Free
    BY <1>1 DEF Init
  <1>4. Represents(init_linkedlist, <<>>)
    BY InitRepresents
  <1>5. Pool = {}
    BY <1>2, ListAssumption DEF Pool, init_linkedlist, Pointer
  <1>6. TypeOK
    <2>1. clients \in ListType
      BY <1>2, <1>4 DEF Represents
    <2>2. obj \in [Node -> ObjType]
      BY <1>1, <1>2 DEF Blank, ObjType, DevNull
    <2>3. file \in [FD -> File]
      <3>1. file = [n \in FD |-> file[n]]
        BY DEF Init
      <3>2. \A n \in FD : file[n] \in File
        BY <1>3 DEF File
      <3> QED
        BY <3>1, <3>2
    <2>4. conn \in [Client -> ConnType]
      BY <1>2 DEF NewConn, ConnType
    <2>5. backlog \in [{listenfd, ssl_fd} -> Seq(Client)]
      BY <1>2, EmptySeq
    <2>6. child \in [Client -> {"none", "running", "exited"}] /\ out \in [Client -> BOOLEAN]
      BY <1>2
    <2> QED
      BY <1>2, <2>1, <2>2, <2>3, <2>4, <2>5, <2>6 DEF TypeOK, Place
  <1>7. AskedInv
    <2>1. \A k \in Client : Len(Script[k]) \in Nat
      BY PoolAssumption, LenProperties
    <2> QED
      BY <1>2, <2>1 DEF AskedInv, NewConn
  <1>8. RingInv
    <2>1. ll_count(clients) = 0
      BY <1>2 DEF init_linkedlist, ll_count
    <2>2. PICK s \in [1..ll_count(clients) -> Node] : s = <<>>
      <3>1. <<>> \in Seq(Node) /\ Len(<<>>) = 0
        BY EmptySeq
      <3>2. <<>> \in [1..Len(<<>>) -> Node]
        BY <3>1, LenProperties
      <3> QED
        BY <2>1, <3>1, <3>2
    <2>3. Len(s) = 0 /\ Range(s) = {}
      BY <2>2 DEF Range
    <2>4. PICK p \in 1..(ll_count(clients) + 1) : TRUE
      BY <2>1
    <2>5. ~Walking /\ ~Visiting
      BY <1>2 DEF Walking, Visiting
    <2>6. Ring(s, p)
      BY <1>2, <1>4, <1>5, <2>2, <2>3, <2>5 DEF Ring
    <2> QED
      BY <2>6 DEF RingInv
  <1>9. LiveInv
    BY <1>2, <1>5 DEF LiveInv
  <1>10. OwnInv
    <2>1. FixedInv
      BY <1>1, <1>3 DEF FixedInv
    <2>2. QueueInv
      <3>1. \A k \in Client : \A n \in FD : file[n][2] # k
        BY <1>3, Owners
      <3>2. \A l \in {listenfd, ssl_fd} : Len(backlog[l]) = 0
        BY <1>2
      <3> QED
        BY <1>2, <3>1, <3>2 DEF QueueInv, NewConn
    <2>3. StayingKept
      BY <1>2 DEF StayingKept, NewConn
    <2> QED
      BY <1>2, <2>1, <2>2, <2>3 DEF OwnInv
  <1> QED
    BY <1>6, <1>7, <1>8, <1>9, <1>10 DEF IInv

LEMMA NextIInv ==
    ASSUME IInv, [Next]_vars
    PROVE  IInv'
  <1>1. ASSUME TypeOK', AskedInv', RingInv', LiveInv', OneCgi => OwnInv'
        PROVE  IInv'
    BY <1>1 DEF IInv, OneCgi
  <1>2. CASE Select
    <2>1. UNCHANGED <<live, obj, file, conn, backlog>>
      BY <1>2 DEF Select
    <2> QED
      BY <1>1, <1>2, <2>1, SelectTypes, SelectKeepsList, OwnInvStays DEF IInv
  <1>3. CASE NoRead \/ Idle
    <2>1. TypeOK' /\ AskedInv'
      BY <1>3, ReadTypes, ProcessTypes
    <2> QED
      BY <1>1, <1>3, <2>1, NoReadKeeps
  <1>4. CASE Read \/ ReadEnd
    <2>1. TypeOK' /\ AskedInv'
      BY <1>4, ReadTypes
    <2> QED
      BY <1>1, <1>4, <2>1, ReadKeeps, ReadEndKeeps
  <1>5. CASE Respond \/ ParseStatic \/ ParseCgi
    <2>1. TypeOK' /\ AskedInv'
      BY <1>5, ProcessTypes
    <2> QED
      BY <1>1, <1>5, <2>1, RespondKeeps, ParseStaticKeeps, ParseCgiKeeps
  <1>6. CASE CgiStart \/ NoPipes \/ CgiFails \/ CgiPoll
    <2>1. TypeOK' /\ AskedInv'
      BY <1>6, CgiTypes
    <2> QED
      BY <1>1, <1>6, <2>1, CgiStartKeeps, NoPipesKeeps, CgiPollKeeps
  <1>7. CASE NoSend \/ Send \/ SendToClosed \/ SendFails
    <2>1. TypeOK' /\ AskedInv'
      BY <1>7, WriteTypes
    <2> QED
      BY <1>1, <1>7, <2>1, NoSendKeeps, SendKeeps
  <1>8. CASE ServiceDone
    <2>1. UNCHANGED <<live, obj, file, conn, backlog>>
      BY <1>8 DEF ServiceDone
    <2> QED
      BY <1>1, <1>8, <2>1, SelectTypes, ServiceDoneKeepsList, OwnInvStays DEF IInv
  <1>9. CASE RemoveClosed \/ ResetResponse \/ KeepClient
    <2>1. TypeOK' /\ AskedInv'
      BY <1>9, RemoveTypes
    <2> QED
      BY <1>1, <1>9, <2>1, RemoveClosedKeeps, ResetResponseKeeps, KeepClientKeeps
  <1>10. CASE RemoveDone
    <2>1. UNCHANGED <<live, obj, file, conn, backlog>>
      BY <1>10 DEF RemoveDone
    <2> QED
      BY <1>1, <1>10, <2>1, SelectTypes, RemoveDoneKeepsList, OwnInvStays DEF IInv
  <1>11. CASE Accept
    BY <1>1, <1>11, AcceptTypes, AcceptKeepsList, AcceptOwns
  <1>12. ASSUME NEW k \in Client, Environment(k)
         PROVE  IInv'
    BY <1>1, <1>12, EnvironmentTypes, EnvironmentOwns
  <1>13. CASE UNCHANGED vars
    <2>1. TypeOK' /\ AskedInv'
      BY <1>13 DEF IInv, vars, loopVars, TypeOK, AskedInv
    <2>2. RingInv' /\ LiveInv'
      <3>1. Arriving /\ UNCHANGED <<pc, iter, clients, live, obj, read_set>>
        BY <1>13 DEF vars, loopVars, Arriving
      <3> QED
        BY <3>1, RingKeeps DEF IInv
    <2>3. OneCgi => OwnInv'
      BY <1>13, OwnInvStays DEF IInv, vars
    <2> QED
      BY <1>1, <2>1, <2>2, <2>3
  <1> QED
    BY <1>2, <1>3, <1>4, <1>5, <1>6, <1>7, <1>8, <1>9, <1>10, <1>11, <1>12, <1>13
       DEF Next, Server

\* The inductive invariant holds for ever.
THEOREM Invariant == Spec => []IInv
  <1>1. Init => IInv
    BY InitIInv
  <1>2. IInv /\ [Next]_vars => IInv'
    BY NextIInv
  <1> QED
    BY <1>1, <1>2, PTL DEF Spec

\* Types, for any number of clients, descriptors and memory cells.
THEOREM TypeCorrect == Spec => []TypeOK
  <1>1. IInv => TypeOK
    BY DEF IInv
  <1> QED
    BY <1>1, Invariant, PTL

\* The list of the pool is a ring of the objects in use and the walk stays in
\* it, whatever is asked (linkedlist.c, selectpool.c:150-172).
THEOREM ListIsAlwaysRing == Spec => []ListIsRing
  <1>1. IInv => ListIsRing
    <2> SUFFICES ASSUME IInv PROVE ListIsRing
      OBVIOUS
    <2>1. PICK s \in [1..ll_count(clients) -> Node], p \in 1..(ll_count(clients) + 1) : Ring(s, p)
      BY DEF IInv, RingInv
    <2>2. Represents(clients, s) /\ Range(s) = Pool
      BY <2>1 DEF Ring
    <2>3. Walking => iter \in Pool \cup {head}
      <3>1. s \in Seq(Node) /\ p \in 1..(Len(s) + 1)
        BY <2>1, <2>2 DEF Represents, ll_count
      <3>2. Walking /\ iter \in Node => iter \in Pool
        BY <2>1, <3>1, AtPlace DEF IInv
      <3> QED
        BY <3>2 DEF IInv, TypeOK
    <2> QED
      BY <2>1, <2>2, <2>3 DEF ListIsRing, IInv, LiveInv
  <1> QED
    BY <1>1, Invariant, PTL

\* What follows when no client asks for the CGI program twice.  Every client of
\* the pool has its own socket (selectpool.c:94-136, cgi.c:212-281).
THEOREM OwnSocketAlways ==
    ASSUME OneCgi
    PROVE  Spec => []OwnSocket
  <1>1. IInv => OwnSocket
    <2> SUFFICES ASSUME IInv PROVE OwnSocket
      OBVIOUS
    <2>1. OwnInv /\ \A a \in Pool : a \in live
      BY DEF IInv, LiveInv
    <2> QED
      BY <2>1 DEF OwnInv, NumbersInv, OwnSocket
  <1> QED
    BY <1>1, Invariant, PTL

\* select() is given open numbers only, that fit an fd_set when the process cannot
\* have more (selectpool.c:61-86).
THEOREM SelectAlwaysValid ==
    ASSUME OneCgi, NOFILE <= FD_SETSIZE
    PROVE  Spec => []SelectValid
  <1>1. IInv => SelectValid
    <2> SUFFICES ASSUME IInv, NEW a \in Pool PROVE file[obj[a].fd] # Free /\ obj[a].fd < FD_SETSIZE
      BY DEF SelectValid, ReadFds, WriteFds
    <2>1. /\ a \in live /\ a \in Node /\ obj[a] \in ObjType /\ obj[a].client \in Client
          /\ file[obj[a].fd] = Sock(obj[a].client)
      BY DEF IInv, LiveInv, TypeOK, OwnInv, NumbersInv
    <2>2. obj[a].fd \in FD
      BY <2>1 DEF ObjType
    <2> QED
      BY <2>1, <2>2, PoolAssumption, Owners DEF FD
  <1> QED
    BY <1>1, Invariant, PTL

\* An object knows all numbers of its client, after every path that fails, too.
THEOREM NothingIsLost ==
    ASSUME OneCgi
    PROVE  Spec => []NothingLost
  <1>1. IInv => NothingLost
    <2> SUFFICES ASSUME IInv, NEW a \in Pool, NEW n \in FD, file[n][2] = obj[a].client
                 PROVE  n \in {obj[a].fd, obj[a].fp}
                           \cup (IF obj[a].doing = "cgi" /\ obj[a].pre
                                 THEN Range(obj[a].pipes) ELSE {})
      BY DEF NothingLost
    <2>1. NumbersInv(a) /\ a \in Node /\ obj[a] \in ObjType
      BY DEF IInv, LiveInv, TypeOK, OwnInv
    <2>2. DOMAIN obj[a].pipes = End
      BY <2>1 DEF ObjType
    <2>3. n = obj[a].fd \/ n = obj[a].fp
          \/ (HasPipes(obj[a]) /\ \E e \in End : n = obj[a].pipes[e])
      BY <2>1 DEF NumbersInv
    <2> QED
      BY <2>2, <2>3 DEF HasPipes, Range
  <1> QED
    BY <1>1, Invariant, PTL

\* recv() is called only when it returns at once, except in the middle of a TLS
\* record (clientsocket.c:64-142).
THEOREM RecvAlwaysReturns ==
    ASSUME OneCgi
    PROVE  Spec => []RecvReturns
  <1>1. IInv => RecvReturns
    <2> SUFFICES ASSUME IInv, At("handleread"), Receiving
                 PROVE  \E k \in Client : file[obj[iter].fd] = Sock(k)
                                         /\ (conn[k].waiting # "none" \/ conn[k].peer # "open")
      BY DEF RecvReturns
    <2>1. TypeOK /\ RingInv /\ Visiting /\ Walking /\ iter \in Node
      BY DEF IInv, At, Visiting, Walking
    <2>2. file[obj[iter].fd] = Sock(obj[iter].client) /\ obj[iter].client \in Client
      BY <2>1, Visit
    <2>3. PICK s \in Seq(Node) : \E p \in 1..(Len(s) + 1) : Ring(s, p)
      BY <2>1, RingPick
    <2>4. PICK p \in 1..(Len(s) + 1) : Ring(s, p)
      BY <2>3
    <2>5. p \in 1..Len(s) /\ iter = s[p]
      BY <2>1, <2>4, AtPlace
    <2>6. Returns(s[p])
      BY <2>1, <2>4, <2>5 DEF Ring, At
    <2> QED
      BY <2>2, <2>5, <2>6 DEF Returns, Receiving
  <1> QED
    BY <1>1, Invariant, PTL

\* A client that stays connected keeps its socket (selectpool.c:145-173).
THEOREM StayingAlwaysKept ==
    ASSUME OneCgi
    PROVE  Spec => []StayingKept
  <1>1. IInv => StayingKept
    BY DEF IInv, OwnInv
  <1> QED
    BY <1>1, Invariant, PTL
------------------------------------------------------------------------------
(* The pool holds every connection.                                        *)

\* No number becomes a socket, and no object is freed.
LEMMA SocksStay ==
    ASSUME SocksOwned,
           \A n \in FD : file'[n][1] = "sock" => file'[n] = file[n],
           \A a \in live : a \in live' /\ obj'[a].fd = obj[a].fd
    PROVE  SocksOwned'
  BY DEF SocksOwned

\* Opening a file or the pipes, or closing numbers, makes no socket.
LEMMA NoNewSocks ==
    ASSUME TypeOK,
           \/ file' = file
           \/ \E S : file' = Closed(file, S)
           \/ Unused(file) # {} /\ \E k : file' = Opened(file, <<"file", k>>)
           \/ \E ends, k : Range(ends) = {ends[e] : e \in End} /\ file' = WithPipes(ends, k)
    PROVE  \A n \in FD : file'[n][1] = "sock" => file'[n] = file[n]
  <1>1. file \in [FD -> File] /\ Free[1] = "free"
    BY DEF TypeOK, Free
  <1>2. CASE file' = file
    BY <1>2
  <1>3. ASSUME NEW S, file' = Closed(file, S)
        PROVE  \A n \in FD : file'[n][1] = "sock" => file'[n] = file[n]
    BY <1>1, <1>3 DEF Closed
  <1>4. ASSUME NEW k, file' = Opened(file, <<"file", k>>), Unused(file) # {}
        PROVE  \A n \in FD : file'[n][1] = "sock" => file'[n] = file[n]
    <2>1. Lowest(file) \in FD
      BY <1>4, LowestIsFree
    <2> QED
      BY <1>1, <1>4, <2>1 DEF Opened
  <1>5. ASSUME NEW ends, NEW k, Range(ends) = {ends[e] : e \in End},
               file' = WithPipes(ends, k)
        PROVE  \A n \in FD : file'[n][1] = "sock" => file'[n] = file[n]
    <2> SUFFICES ASSUME NEW n \in FD, n \in Range(ends) PROVE file'[n][1] # "sock"
      BY <1>5 DEF WithPipes
    <2> DEFINE e == CHOOSE e \in End : ends[e] = n
    <2>1. file'[n] = <<e, k>>
      BY <1>5, Zenon DEF WithPipes
    <2>2. e \in End
      BY <1>5, Zenon
    <2> HIDE DEF e
    <2> QED
      BY <2>1, <2>2 DEF End
  <1> QED
    BY <1>2, <1>3, <1>4, <1>5

\* What a step of the server does to the pool, except accept().
LEMMA ServeComplete ==
    ASSUME IInv, CompleteInv,
           \A n \in FD : file'[n][1] = "sock" => file'[n] = file[n],
           \A a \in live : a \in live' /\ obj'[a].fd = obj[a].fd,
           pc' # "SSL_accept",
           \A k \in TLS : conn'[k].peer = conn[k].peer /\ conn'[k].answers = conn[k].answers
    PROVE  CompleteInv'
  <1>1. SocksOwned'
    BY SocksStay DEF CompleteInv
  <1>2. Patient'
    BY DEF CompleteInv, Patient
  <1> QED
    BY <1>1, <1>2 DEF CompleteInv, Shaking

\* process_response() leaves the number alone.
LEMMA RespondedFd ==
    ASSUME NEW o, "fd" \in DOMAIN o, NEW r \in Responded(o)
    PROVE  r.fd = o.fd
  BY DEF Responded

LEMMA ObjectFd ==
    ASSUME obj \in [Node -> ObjType], NEW a \in Node
    PROVE  "fd" \in DOMAIN obj[a]
  <1>1. obj[a] \in ObjType
    OBVIOUS
  <1> QED
    BY <1>1 DEF ObjType

\* The object of the client that is served keeps its number.
LEMMA FdStays ==
    ASSUME obj \in [Node -> ObjType], iter \in Node,
           Respond \/ ParseStatic \/ ParseCgi \/ Read \/ ReadEnd \/ CgiStart \/ NoPipes
               \/ CgiFails \/ CgiPoll \/ Send \/ SendToClosed \/ SendFails \/ ResetResponse
    PROVE  \A a \in Node : obj'[a].fd = obj[a].fd
  <1> DEFINE o == obj[iter]
  <1>1. "fd" \in DOMAIN o
    BY ObjectFd
  <1>2. ASSUME NEW r, obj' = [obj EXCEPT ![iter] = r], r.fd = o.fd
        PROVE  \A a \in Node : obj'[a].fd = obj[a].fd
    BY <1>2
  <1>3. CASE Respond
    BY <1>1, <1>2, <1>3, RespondedFd DEF Respond
  <1>4. CASE ParseStatic
    <2> DEFINE fp == IF o.rbuf = "file" /\ Unused(file) # {} THEN Lowest(file) ELSE NoFile
               q == [o EXCEPT !.doing = "head", !.rbuf = "none", !.fp = fp]
    <2>1. PICK r \in Responded(q) : obj' = [obj EXCEPT ![iter] = r]
      BY <1>4 DEF ParseStatic
    <2>2. "fd" \in DOMAIN q /\ q.fd = o.fd
      BY <1>1
    <2> HIDE DEF q
    <2>3. r.fd = o.fd
      BY <2>1, <2>2, RespondedFd
    <2> QED
      BY <1>2, <2>1, <2>3
  <1>5. CASE NoPipes \/ CgiFails
    <2>1. ASSUME NEW ends, NEW r \in Responded(Failed(o, ends)), obj' = [obj EXCEPT ![iter] = r]
          PROVE  \A a \in Node : obj'[a].fd = obj[a].fd
      <3>1. "fd" \in DOMAIN Failed(o, ends) /\ Failed(o, ends).fd = o.fd
        BY <1>1 DEF Failed
      <3>2. r.fd = o.fd
        BY <2>1, <3>1, RespondedFd, SMTT(60)
      <3> QED
        BY <1>2, <2>1, <3>2
    <2> QED
      BY <1>5, <2>1 DEF NoPipes, CgiFails
  <1>6. CASE ParseCgi \/ Read \/ ReadEnd
    BY <1>1, <1>2, <1>6, SMTT(60) DEF ParseCgi, Read, ReadEnd
  <1>7. CASE CgiStart \/ CgiPoll
    BY <1>1, <1>2, <1>7, ZenonT(60) DEF CgiStart, CgiPoll
  <1>8. CASE Send \/ SendToClosed \/ SendFails \/ ResetResponse
    BY <1>1, <1>2, <1>8 DEF Send, SendToClosed, SendFails, AfterSend, ResetResponse
  <1> QED
    BY <1>3, <1>4, <1>5, <1>6, <1>7, <1>8

LEMMA ServeSteps ==
    ASSUME IInv, CompleteInv,
           \/ Idle \/ Respond \/ ParseStatic \/ ParseCgi \/ NoRead \/ Read \/ ReadEnd
           \/ CgiStart \/ NoPipes \/ CgiFails \/ CgiPoll \/ NoSend \/ SendFails
           \/ ResetResponse \/ KeepClient
    PROVE  CompleteInv'
  <1>1. /\ TypeOK /\ obj \in [Node -> ObjType] /\ live \subseteq Node
        /\ conn \in [Client -> ConnType] /\ TLS \subseteq Client /\ iter \in Node
    BY PoolAssumption
       DEF IInv, TypeOK, Idle, Respond, ParseStatic, ParseCgi, NoRead, Read, ReadEnd,
           CgiStart, NoPipes, CgiFails, CgiPoll, NoSend, SendFails, ResetResponse,
           KeepClient, Processing, Starting, Sending, At
  <1>2. \A n \in FD : file'[n][1] = "sock" => file'[n] = file[n]
    <2>1. CASE file' = file
      BY <1>1, <2>1, NoNewSocks
    <2>2. CASE ParseStatic
      <3>1. file' = file \/ (Unused(file) # {} /\ \E k : file' = Opened(file, <<"file", k>>))
        BY <2>2 DEF ParseStatic
      <3> QED
        BY <1>1, <3>1, NoNewSocks
    <2>3. CASE CgiStart
      <3>1. \E k : file' = WithPipes(PipeEnds, k)
        BY <2>3 DEF CgiStart
      <3>2. Range(PipeEnds) = {PipeEnds[e] : e \in End}
        BY DEF PipeEnds, Range
      <3> QED
        BY <1>1, <3>1, <3>2, NoNewSocks
    <2>4. CASE CgiPoll \/ ResetResponse
      <3>1. file' = file \/ \E S : file' = Closed(file, S)
        BY <2>4 DEF CgiPoll, ResetResponse
      <3> QED
        BY <1>1, <3>1, NoNewSocks, SMTT(60)
    <2>5. file' = file \/ ParseStatic \/ CgiStart \/ CgiPoll \/ ResetResponse
      BY DEF Idle, Respond, ParseCgi, NoRead, Read, ReadEnd, NoPipes, CgiFails, NoSend,
             SendFails, AfterSend, KeepClient
    <2> QED
      BY <2>1, <2>2, <2>3, <2>4, <2>5
  <1>3. \A a \in live : a \in live' /\ obj'[a].fd = obj[a].fd
    <2>1. live' = live
      BY DEF Idle, Respond, ParseStatic, ParseCgi, NoRead, Read, ReadEnd, CgiStart, NoPipes,
             CgiFails, CgiPoll, NoSend, SendFails, AfterSend, ResetResponse, KeepClient
    <2>2. CASE Idle \/ NoRead \/ NoSend \/ KeepClient
      BY <2>1, <2>2, SMTT(60) DEF Idle, NoRead, NoSend, KeepClient
    <2> QED
      BY <1>1, <2>1, <2>2, FdStays, SMTT(60)
  <1>4. pc' # "SSL_accept"
    BY DEF Idle, Respond, ParseStatic, ParseCgi, NoRead, Read, ReadEnd, CgiStart, NoPipes,
           CgiFails, CgiPoll, NoSend, SendFails, AfterSend, ResetResponse, KeepClient,
           Processing, Starting, Sending, At, loopVars
  <1>5. \A k \in TLS : conn'[k].peer = conn[k].peer /\ conn'[k].answers = conn[k].answers
    <2>1. CASE conn' = conn
      BY <2>1
    <2>2. CASE Read \/ CgiPoll
      <3>1. conn' = conn \/ \E k \in Client : conn' = [conn EXCEPT ![k].waiting = "none"]
        <4>1. CASE Read
          BY <4>1 DEF Read
        <4>2. CASE CgiPoll
          <5>1. conn' = conn \/ conn' = [conn EXCEPT ![file[obj[iter].pipes["out0"]][2]].waiting = "none"]
            BY <4>2 DEF CgiPoll
          <5>2. ASSUME NEW k, k \notin Client, conn' = [conn EXCEPT ![k].waiting = "none"]
                PROVE  conn' = conn
            BY <1>1, <5>2
          <5> QED
            BY <5>1, <5>2
        <4> QED
          BY <2>2, <4>1, <4>2
      <3>2. ASSUME NEW k \in Client, conn' = [conn EXCEPT ![k].waiting = "none"]
            PROVE  \A j \in Client : conn'[j].peer = conn[j].peer /\ conn'[j].answers = conn[j].answers
        BY <1>1, <3>2, SMTT(60) DEF ConnType
      <3> QED
        BY <1>1, <3>1, <3>2
    <2>3. conn' = conn \/ Read \/ CgiPoll
      BY DEF Idle, Respond, ParseStatic, ParseCgi, NoRead, ReadEnd, CgiStart, NoPipes,
             CgiFails, NoSend, SendFails, ResetResponse, KeepClient
    <2> QED
      BY <2>1, <2>2, <2>3
  <1> QED
    BY <1>2, <1>3, <1>4, <1>5, ServeComplete, SMTT(60)

\* Sending: a client of the SSL port that gets its answer does not leave.
LEMMA SendComplete ==
    ASSUME IInv, CompleteInv, OneCgi, Roomy, Send \/ SendToClosed
    PROVE  CompleteInv'
  <1>1. /\ At("handlewrite") /\ Visiting /\ iter \in Node
        /\ file' = file /\ live' = live /\ pc' = "handleread"
    BY DEF Send, SendToClosed, Sending, At, Visiting, AfterSend
  <1>2. /\ obj \in [Node -> ObjType] /\ live \subseteq Node /\ conn \in [Client -> ConnType]
        /\ TLS \subseteq Client /\ TLS \cap Hasty = {}
    BY <1>1, Visit, PoolAssumption DEF Roomy
  <1>3. SocksOwned'
    <2>1. \A a \in Node : obj'[a].fd = obj[a].fd
      BY <1>1, <1>2, FdStays
    <2> QED
      BY <1>1, <1>2, <2>1, SocksStay DEF CompleteInv
  <1>4. Patient'
    <2> SUFFICES ASSUME NEW j \in TLS, conn'[j].answers < Len(Script[j])
                 PROVE  conn'[j].peer = "open"
      BY DEF Patient
    <2>1. j \in Client /\ conn[j] \in ConnType /\ (conn[j].answers < Len(Script[j]) => conn[j].peer = "open")
      BY <1>2 DEF CompleteInv, Patient
    <2>2. CASE Send
      <3>1. PICK k \in Client : \E slow \in BOOLEAN :
               /\ conn[k].peer = "open"
               /\ conn' = [conn EXCEPT ![k].stalled = slow,
                            ![k].answers = IF obj[iter].doing = "over" THEN conn[k].asked ELSE @]
        BY <2>2 DEF Send
      <3>2. j # k => conn'[j] = conn[j]
        BY <1>2, <3>1
      <3>3. j = k => conn'[j].peer = conn[j].peer
        BY <1>2, <2>1, <3>1 DEF ConnType
      <3> QED
        BY <2>1, <3>1, <3>2, <3>3
    <2>3. CASE SendToClosed
      <3>1. PICK k \in Client :
               /\ conn[k].peer = "closed"
               /\ conn' = [conn EXCEPT ![k].peer = "reset", ![k].waiting = "none"]
        BY <2>3 DEF SendToClosed
      <3>2. j # k => conn'[j] = conn[j]
        BY <1>2, <3>1
      <3>3. j = k => conn'[j].answers = conn[j].answers
        BY <1>2, <2>1, <3>1 DEF ConnType
      <3> QED
        BY <2>1, <3>1, <3>2, <3>3
    <2> QED
      BY <2>2, <2>3
  <1> QED
    BY <1>1, <1>3, <1>4 DEF CompleteInv, Shaking

\* The steps that have nothing to do with sockets.
LEMMA LoopComplete ==
    ASSUME IInv, CompleteInv, Select \/ ServiceDone \/ RemoveDone
    PROVE  CompleteInv'
  <1>1. /\ UNCHANGED <<live, obj, file, conn>> /\ pc' # "SSL_accept"
    BY DEF Select, ServiceDone, RemoveDone
  <1> QED
    BY <1>1, ServeComplete

\* The socket of a client that is removed is closed, and no other.
LEMMA RemoveClosedComplete ==
    ASSUME IInv, CompleteInv, RemoveClosed
    PROVE  CompleteInv'
  <1>1. /\ iter \in Node /\ file' = Closed(file, {obj[iter].fd, obj[iter].fp})
        /\ live' = live \ {iter} /\ obj' = [obj EXCEPT ![iter] = free(@)]
        /\ conn' = conn /\ pc = "remove" /\ pc' = pc
    BY DEF RemoveClosed, At
  <1>2. TypeOK /\ obj \in [Node -> ObjType] /\ file \in [FD -> File]
    BY DEF IInv, TypeOK
  <1>3. SocksOwned'
    <2> SUFFICES ASSUME NEW n \in FD, file'[n][1] = "sock"
                 PROVE  \E a \in live' : obj'[a].fd = n
      BY DEF SocksOwned
    <2>1. file'[n] = file[n]
      BY <1>1, <1>2, NoNewSocks
    <2>2. n # obj[iter].fd
      BY <1>1 DEF Closed, Free
    <2>3. PICK a \in live : obj[a].fd = n
      BY <2>1 DEF CompleteInv, SocksOwned
    <2>4. a # iter /\ a \in live'
      BY <1>1, <2>2, <2>3
    <2>5. obj'[a] = obj[a]
      BY <1>1, <2>4
    <2> QED
      BY <2>3, <2>4, <2>5
  <1> QED
    BY <1>1, <1>3 DEF CompleteInv, Shaking, Patient

\* While a connection waits to be accepted there is an object for it, and a place
\* in the pool.
LEMMA RoomForOne ==
    ASSUME IInv, OneCgi, Roomy, NEW l \in {listenfd, ssl_fd}, NEW k \in Client, Accepted(l, k)
    PROVE  live # Node /\ ll_count(clients) # FD_SETSIZE
  <1>1. /\ TypeOK /\ LiveInv /\ RingInv /\ OwnInv /\ live \subseteq Node
        /\ IsFiniteSet(Node) /\ IsFiniteSet(Client) /\ IsFiniteSet(live)
    BY PoolAssumption, FS_Subset DEF IInv, TypeOK
  <1>2. \A a \in live : obj[a].client \in Client \ {k}
    <2>1. \A a \in live : obj[a].client # k
      BY <1>1, AcceptedOwns, ZenonT(60)
    <2> QED
      BY <1>1, <2>1 DEF LiveInv
  <1>3. \A a, b \in live : obj[a].client = obj[b].client => a = b
    BY <1>1 DEF OwnInv
  <1>4. IsFiniteSet(Client \ {k}) /\ Cardinality(Client \ {k}) = Cardinality(Client) - 1
    BY <1>1, FS_RemoveElement
  <1>5. Cardinality(live) <= Cardinality(Client \ {k})
    <2> DEFINE f == [a \in live |-> obj[a].client]
    <2>1. f \in Injection(live, Client \ {k})
      BY <1>2, <1>3 DEF Injection, IsInjective
    <2> HIDE DEF f
    <2>2. \E g : g \in Injection(live, Client \ {k})
      BY <2>1
    <2> QED
      BY <1>4, <2>2, FS_Injection DEF ExistsInjection
  <1>6. Cardinality(live) \in Nat /\ Cardinality(Client) \in Nat /\ Cardinality(live) < Cardinality(Client)
    BY <1>1, <1>4, <1>5, FS_CardinalityType
  <1>7. live # Node
    BY <1>6, FS_CardinalityType, <1>1 DEF Roomy
  <1>8. ll_count(clients) <= Cardinality(live)
    <2>1. PICK s \in Seq(Node) : \E p \in 1..(Len(s) + 1) : Ring(s, p) /\ Len(s) = ll_count(clients)
      BY <1>1, RingPick
    <2>2. Range(s) = Pool /\ Len(s) \in Nat /\ \A i, j \in 1..Len(s) : s[i] = s[j] => i = j
      BY <2>1 DEF Ring, Represents
    <2>3. s \in Injection(1..Len(s), live)
      <3>1. Pool \subseteq live
        BY <1>1 DEF LiveInv
      <3>2. DOMAIN s = 1..Len(s) /\ s \in [1..Len(s) -> Node]
        BY LenProperties
      <3>3. \A i \in 1..Len(s) : s[i] \in live
        BY <2>2, <3>1, <3>2 DEF Range
      <3> QED
        BY <2>2, <3>2, <3>3 DEF Injection, IsInjective
    <2>4. Cardinality(1..Len(s)) <= Cardinality(live)
      BY <1>1, <2>3, FS_Injection DEF ExistsInjection
    <2>5. Cardinality(1..Len(s)) = Len(s)
      <3>1. 1 \in Int /\ Len(s) \in Int
        BY <2>2
      <3>2. Cardinality(1..Len(s)) = IF 1 > Len(s) THEN 0 ELSE Len(s) - 1 + 1
        BY <3>1, FS_Interval
      <3> QED
        BY <2>2, <3>2
    <2> QED
      BY <2>1, <2>4, <2>5
  <1>9. ll_count(clients) \in Nat
    BY <1>1, RingPick, LenProperties
  <1> QED
    BY <1>6, <1>7, <1>8, <1>9, PoolAssumption DEF Roomy

\* The new socket is the new object's.
LEMMA AddComplete ==
    ASSUME IInv, CompleteInv, OneCgi, NEW a \in Node, NEW k \in Client,
           AddClient(a, k) \/ AddTlsClient(a, k)
    PROVE  CompleteInv'
  <1>1. PICK l \in {listenfd, ssl_fd} :
          /\ Accepted(l, k) /\ Allocate(a, k)
          /\ pc' = "SSL_accept" => l = ssl_fd /\ iter' = a
    BY DEF AddClient, AddTlsClient, AfterAccept
  <1>2. /\ TypeOK /\ LiveInv /\ OwnInv /\ a \in Node \ live /\ live' = live \cup {a}
        /\ obj' = [obj EXCEPT ![a] = new_ClientSocket(obj[a], k, Lowest(file))]
        /\ obj \in [Node -> ObjType] /\ live \subseteq Node /\ conn \in [Client -> ConnType]
        /\ TLS \subseteq Client
    BY <1>1, PoolAssumption DEF IInv, Allocate, TypeOK
  <1>3. /\ \A n \in FD \ {Lowest(file)} : file'[n] = file[n]
        /\ conn[k].link = "queued" /\ conn'[k] = [conn[k] EXCEPT !.link = "accepted"]
        /\ \A j \in Client \ {k} : conn'[j] = conn[j]
    BY <1>1, <1>2, AcceptedOwns
  <1>4. obj'[a].client = k /\ obj'[a].fd = Lowest(file)
    BY <1>2 DEF new_ClientSocket, Blank
  <1>5. \A b \in live : obj'[b] = obj[b] /\ b \in live'
    BY <1>2
  <1>6. \A j \in Client : conn'[j].peer = conn[j].peer /\ conn'[j].answers = conn[j].answers
    BY <1>2, <1>3 DEF ConnType
  <1>7. SocksOwned'
    <2> SUFFICES ASSUME NEW n \in FD, file'[n][1] = "sock"
                 PROVE  \E b \in live' : obj'[b].fd = n
      BY DEF SocksOwned
    <2>1. CASE n = Lowest(file)
      BY <1>2, <1>4, <2>1
    <2>2. CASE n # Lowest(file)
      <3>1. PICK b \in live : obj[b].fd = n
        BY <1>3, <2>2 DEF CompleteInv, SocksOwned
      <3> QED
        BY <1>5, <3>1
    <2> QED
      BY <2>1, <2>2
  <1>8. Shaking'
    <2> SUFFICES ASSUME pc' = "SSL_accept" PROVE k \in TLS /\ conn'[k].answers = 0
      BY <1>1, <1>4 DEF Shaking
    <2>1. l = ssl_fd /\ backlog[l] # <<>> /\ k = Head(backlog[l]) /\ backlog[l] \in Seq(Client)
      BY <1>1, <1>2 DEF Accepted, TypeOK
    <2>2. 1 \in 1..Len(backlog[l]) /\ k = backlog[l][1]
      <3>1. Len(backlog[l]) \in Nat /\ Len(backlog[l]) # 0
        BY <2>1, EmptySeq, LenProperties
      <3> QED
        BY <2>1, <3>1
    <2>3. k \in TLS
      BY <1>2, <2>1, <2>2 DEF OwnInv, QueueInv
    <2>4. conn[k].answers = 0
      BY <1>2, <1>3 DEF OwnInv, QueueInv
    <2> QED
      BY <1>6, <2>3, <2>4
  <1>9. Patient'
    BY <1>2, <1>6 DEF CompleteInv, Patient
  <1> QED
    BY <1>7, <1>8, <1>9 DEF CompleteInv

\* Every connection that is accepted gets its object, and every handshake is done.
LEMMA AcceptComplete ==
    ASSUME IInv, CompleteInv, OneCgi, Roomy, Accept
    PROVE  CompleteInv'
  <1>1. ASSUME NEW l \in {listenfd, ssl_fd}, NoAccept(l) \/ AcceptFails(l)
        PROVE  CompleteInv'
    <2>1. UNCHANGED <<live, obj, file, conn>> /\ pc' # "SSL_accept"
      BY <1>1 DEF NoAccept, AcceptFails, AfterAccept
    <2> QED
      BY <2>1, ServeComplete
  <1>2. ASSUME NEW l \in {listenfd, ssl_fd}, AddFails(l)
        PROVE  FALSE
    <2>1. PICK k \in Client : Accepted(l, k)
      BY <1>2 DEF AddFails
    <2>2. live # Node /\ ll_count(clients) # FD_SETSIZE
      BY <2>1, RoomForOne
    <2> QED
      BY <1>2, <2>2 DEF AddFails, Roomy
  <1>3. CASE HandshakeDone
    <2>1. UNCHANGED <<live, obj, file, conn>> /\ pc' # "SSL_accept"
      BY <1>3 DEF HandshakeDone, AfterAccept, listenfd, ssl_fd
    <2> QED
      BY <2>1, ServeComplete
  <1>4. CASE HandshakeFails
    <2>1. PICK k \in Client : file[obj[iter].fd] = Sock(k) /\ conn[k].peer # "open"
      BY <1>4 DEF HandshakeFails, Roomy
    <2>2. pc = "SSL_accept" /\ iter \in live /\ NumbersInv(iter)
      BY <1>4 DEF HandshakeFails, At, IInv, LiveInv, OwnInv
    <2>3. k = obj[iter].client
      BY <2>1, <2>2, Owners DEF NumbersInv
    <2>4. k \in TLS /\ conn[k].answers = 0
      BY <2>2, <2>3 DEF CompleteInv, Shaking
    <2>5. Len(Script[k]) > 0
      <3>1. Script[k] # <<>> /\ Script[k] \in Seq(Kind)
        BY <2>4, PoolAssumption DEF Roomy
      <3> QED
        BY <3>1, EmptySeq, LenProperties
    <2>6. FALSE
      BY <2>1, <2>4, <2>5 DEF CompleteInv, Patient
    <2> QED
      BY <2>6
  <1> QED
    BY <1>1, <1>2, <1>3, <1>4, AddComplete DEF Accept

\* A client of the SSL port leaves when it has all its answers.
LEMMA EnvironmentComplete ==
    ASSUME IInv, CompleteInv, Roomy, NEW k \in Client, Environment(k)
    PROVE  CompleteInv'
  <1>1. UNCHANGED server /\ conn \in [Client -> ConnType] /\ TLS \subseteq Client
    BY PoolAssumption
       DEF IInv, TypeOK, Environment, ChildRuns, Connect, Shake, Ask, AskRest, Drain, HangUp,
           ClientStep
  <1>2. UNCHANGED <<live, obj, file, pc, iter>>
    BY <1>1 DEF server, loopVars
  <1>3. \A j \in Client : /\ conn'[j].answers = conn[j].answers
                          /\ conn'[j].peer = conn[j].peer
                                \/ conn[j].answers = Len(Script[j]) \/ j \in Hasty
    <2>1. CASE ChildRuns(k)
      BY <2>1 DEF ChildRuns
    <2>2. ASSUME NEW d, conn' = [conn EXCEPT ![k] = d], d.answers = conn[k].answers,
                 d.peer = conn[k].peer \/ conn[k].answers = Len(Script[k]) \/ k \in Hasty
          PROVE  \A j \in Client : /\ conn'[j].answers = conn[j].answers
                                   /\ conn'[j].peer = conn[j].peer
                                         \/ conn[j].answers = Len(Script[j]) \/ j \in Hasty
      BY <1>1, <2>2
    <2>3. conn[k] \in ConnType
      BY <1>1
    <2>4. CASE Connect(k)
      BY <2>2, <2>3, <2>4 DEF Connect, ClientStep, ConnType
    <2>5. CASE Shake(k) \/ Drain(k) \/ AskRest(k)
      BY <2>2, <2>3, <2>5 DEF Shake, Drain, AskRest, ClientStep, ConnType
    <2>6. CASE Ask(k)
      BY <2>2, <2>3, <2>6 DEF Ask, ClientStep, ConnType
    <2>7. CASE HangUp(k)
      BY <2>2, <2>3, <2>7 DEF HangUp, ClientStep, ConnType
    <2> QED
      BY <2>1, <2>4, <2>5, <2>6, <2>7 DEF Environment
  <1>4. SocksOwned'
    BY <1>2 DEF CompleteInv, SocksOwned
  <1>5. Shaking'
    BY <1>1, <1>2, <1>3 DEF CompleteInv, Shaking
  <1>6. Patient'
    <2> SUFFICES ASSUME NEW j \in TLS, conn'[j].answers < Len(Script[j])
                 PROVE  conn'[j].peer = "open"
      BY DEF Patient
    <2>1. j \in Client /\ j \notin Hasty /\ conn[j] \in ConnType /\ Len(Script[j]) \in Nat
      BY <1>1, PoolAssumption, LenProperties DEF Roomy
    <2>2. conn[j].answers < Len(Script[j]) /\ conn[j].answers \in Nat
      BY <1>3, <2>1 DEF ConnType
    <2>3. conn[j].peer = "open" /\ conn[j].answers # Len(Script[j])
      BY <2>1, <2>2 DEF CompleteInv, Patient
    <2> QED
      BY <1>3, <2>1, <2>3
  <1> QED
    BY <1>4, <1>5, <1>6 DEF CompleteInv

LEMMA InitComplete ==
    ASSUME Init
    PROVE  CompleteInv
  <1>1. \A n \in FD : file[n][1] # "sock"
    BY DEF Init, Free
  <1>2. \A k \in TLS : conn[k].peer = "open"
    BY PoolAssumption DEF Init, NewConn
  <1> QED
    BY <1>1, <1>2 DEF CompleteInv, SocksOwned, Shaking, Patient, Init

LEMMA NextComplete ==
    ASSUME IInv, CompleteInv, OneCgi, Roomy, [Next]_vars
    PROVE  CompleteInv'
  <1>1. CASE UNCHANGED vars
    BY <1>1 DEF vars, loopVars, CompleteInv, SocksOwned, Shaking, Patient
  <1>2. CASE Server
    BY <1>2, ServeSteps, SendComplete, LoopComplete, RemoveClosedComplete, AcceptComplete
       DEF Server
  <1> QED
    BY <1>1, <1>2, EnvironmentComplete DEF Next

\* The pool is comprised of all sockets that are open (selectpool.c:6), when no
\* allocation and no handshake fails.
THEOREM PoolAlwaysComplete ==
    ASSUME OneCgi, Roomy
    PROVE  Spec => []PoolIsComplete
  <1>1. Init => CompleteInv
    BY InitComplete
  <1>2. IInv /\ CompleteInv /\ [Next]_vars => CompleteInv'
    BY NextComplete
  <1>3. IInv /\ CompleteInv => PoolIsComplete
    <2> SUFFICES ASSUME IInv, CompleteInv, pc = "select"
                 PROVE  {n \in FD : file[n][1] = "sock"} = {obj[a].fd : a \in Pool}
      BY DEF PoolIsComplete
    <2>1. Pool = live /\ live \subseteq Node /\ obj \in [Node -> ObjType] /\ OwnInv
      BY DEF IInv, LiveInv, TypeOK
    <2>2. \A a \in live : obj[a].fd \in FD /\ file[obj[a].fd][1] = "sock"
      BY <2>1, Owners DEF OwnInv, NumbersInv, ObjType
    <2>3. \A n \in FD : file[n][1] = "sock" => \E a \in live : obj[a].fd = n
      BY DEF CompleteInv, SocksOwned
    <2> QED
      BY <2>1, <2>2, <2>3
  <1> QED
    BY <1>1, <1>2, <1>3, Invariant, PTL DEF Spec
==============================================================================
