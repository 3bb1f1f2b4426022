--------------------------- MODULE RoundRobinProofs --------------------------
(***************************************************************************)
(* The select loop serves its clients in turn: every step of NetService is *)
(* a step of RoundRobin or changes nothing that RoundRobin speaks of, for  *)
(* any clients, scripts, descriptors and memory.                           *)
(***************************************************************************)
EXTENDS NetServiceProofs

\* Where the walk is in the list, and what RoundRobin sees of it.
Picture(s, p) ==
    /\ Represents(clients, s) /\ Members(clients) = s /\ Len(s) \in Nat
    /\ Walking => iter = NodeAt(s, p)
    /\ Rest = (IF Visiting THEN SubSeq(s, p, Len(s)) ELSE <<>>)

LEMMA Pictured ==
    IInv => \E s \in Seq(Node) : \E p \in 1..(Len(s) + 1) : Picture(s, p)
  <1> SUFFICES ASSUME IInv
               PROVE  \E s \in Seq(Node) : \E p \in 1..(Len(s) + 1) : Picture(s, p)
    OBVIOUS
  <1>1. PICK s \in Seq(Node) : \E p \in 1..(Len(s) + 1) : Ring(s, p)
    BY RingPick DEF IInv
  <1>2. PICK p \in 1..(Len(s) + 1) : Ring(s, p)
    BY <1>1
  <1>3. Represents(clients, s) /\ Len(s) \in Nat /\ (Walking => iter = NodeAt(s, p))
    BY <1>2, LenProperties DEF Ring
  <1>4. Members(clients) = s
    BY <1>3, MembersAre
  <1>5. Rest = (IF Visiting THEN SubSeq(s, p, Len(s)) ELSE <<>>)
    <2>1. CASE ~Visiting
      BY <2>1 DEF Rest
    <2>2. CASE Visiting /\ iter = head
      <3>1. p = Len(s) + 1
        BY <1>2, <2>2, AtPlace DEF IInv, Walking
      <3>2. SubSeq(s, p, Len(s)) = <<>>
        BY <1>3, <3>1, SubSeqEmpty
      <3> QED
        BY <2>2, <3>2 DEF Rest
    <2>3. CASE Visiting /\ iter # head
      <3>1. /\ p \in 1..Len(s) /\ iter = s[p]
            /\ \A i, j \in 1..Len(s) : s[i] = s[j] => i = j
        BY <1>2, <2>3, AtPlace DEF IInv, Walking, TypeOK
      <3> DEFINE m == Members(clients)
                 j == CHOOSE i \in 1..Len(m) : m[i] = iter
      <3>2. Rest = SubSeq(m, j, Len(m))
        BY <2>3, Zenon DEF Rest
      <3>3. p \in 1..Len(m) /\ m[p] = iter /\ \A i \in 1..Len(m) : m[i] = iter => i = p
        BY <1>4, <3>1
      <3> HIDE DEF m
      <3>4. j = p
        BY <3>3, Zenon
      <3> HIDE DEF j
      <3> QED
        BY <1>4, <2>3, <3>2, <3>4 DEF m
    <2> QED
      BY <2>1, <2>2, <2>3
  <1> QED
    BY <1>3, <1>4, <1>5 DEF Picture

LEMMA PicturedNext ==
    IInv' => (\E s \in Seq(Node) : \E p \in 1..(Len(s) + 1) : Picture(s, p))'
  BY Pictured, PTL

\* What RoundRobin does not see.
LEMMA Unseen ==
    ASSUME UNCHANGED clients, Visiting' <=> Visiting, Visiting => UNCHANGED iter
    PROVE  UNCHANGED Turn!vars
  <1>1. Rest' = Rest
    <2>1. CASE Visiting
      BY <2>1 DEF Rest
    <2>2. CASE ~Visiting
      BY <2>2 DEF Rest
    <2> QED
      BY <2>1, <2>2
  <1>2. Visiting' = Visiting
    BY DEF Visiting
  <1> QED
    BY <1>1, <1>2 DEF Turn!vars

\* The walk moves to the next client.
LEMMA VisitStep ==
    ASSUME IInv, IInv', iter \in Node, Visiting, Visiting',
           iter' = NextClient, clients' = clients
    PROVE  Turn!Visit
  <1>1. PICK s \in Seq(Node) : \E p \in 1..(Len(s) + 1) : Picture(s, p)
    BY Pictured
  <1>2. PICK p \in 1..(Len(s) + 1) : Picture(s, p)
    BY <1>1
  <1>3. PICK t \in Seq(Node) : (\E q \in 1..(Len(t) + 1) : Picture(t, q))'
    BY PicturedNext
  <1>4. PICK q \in 1..(Len(t) + 1) : Picture(t, q)'
    BY <1>3
  <1>5. t = s /\ Members(clients)' = s
    BY <1>2, <1>4 DEF Picture
  <1>6. Walking /\ Walking'
    BY DEF Walking
  <1>7. p \in 1..Len(s) /\ iter = s[p] /\ iter' = NodeAt(s, p + 1)
    <2>1. iter = NodeAt(s, p) /\ Len(s) \in Nat /\ Represents(clients, s)
      BY <1>2, <1>6 DEF Picture
    <2>2. p \in 1..Len(s) /\ iter = s[p]
      BY <2>1, ListAssumption DEF NodeAt
    <2>3. iter' = IF p = Len(s) THEN head ELSE s[p + 1]
      BY <2>1, <2>2, NextIsNext DEF NextClient
    <2> QED
      BY <2>1, <2>2, <2>3 DEF NodeAt
  <1>8. q = p + 1
    <2>1. iter' = NodeAt(s, q) /\ q \in 1..(Len(s) + 1) /\ p + 1 \in 1..(Len(s) + 1)
      BY <1>2, <1>4, <1>5, <1>6, <1>7 DEF Picture
    <2> QED
      BY <1>2, <1>7, <2>1, Places DEF Picture
  <1>9. Rest = SubSeq(s, p, Len(s)) /\ Rest' = SubSeq(s, p + 1, Len(s))
    BY <1>2, <1>4, <1>5, <1>8 DEF Picture
  <1>10. Rest # <<>> /\ Rest' = Tail(Rest)
    <2>1. Len(s) \in p..Len(s)
      BY <1>2, <1>7 DEF Picture
    <2>2. Tail(SubSeq(s, p, Len(s))) = SubSeq(s, p + 1, Len(s))
      BY <1>7, <2>1, HeadTailOfSubSeq
    <2>3. SubSeq(s, p, Len(s)) = << s[p] >> \o SubSeq(s, p + 1, Len(s))
      BY <1>7, <2>1, SubSeqRecursiveFirst
    <2>4. \A i \in p..Len(s) : s[i] \in Node
      BY <1>7, <2>1, ElementOfSeq
    <2>5. Len(SubSeq(s, p, Len(s))) # 0
      BY <1>2, <1>7, <2>4, SubSeqProperties DEF Picture
    <2>6. SubSeq(s, p, Len(s)) # <<>>
      BY <2>5, EmptySeq
    <2> QED
      BY <1>9, <2>2, <2>6
  <1>11. Visiting' = Visiting
    OBVIOUS
  <1> QED
    BY <1>2, <1>5, <1>10, <1>11 DEF Turn!Visit, Picture

\* select() has succeeded: the walk is at the beginning.
LEMMA BeginStep ==
    ASSUME IInv, IInv', ~Visiting, Visiting', iter' = ll_start(clients), clients' = clients
    PROVE  Turn!Begin
  <1>1. PICK s \in Seq(Node) : \E p \in 1..(Len(s) + 1) : Picture(s, p)
    BY Pictured
  <1>2. PICK t \in Seq(Node) : (\E q \in 1..(Len(t) + 1) : Picture(t, q))'
    BY PicturedNext
  <1>3. PICK q \in 1..(Len(t) + 1) : Picture(t, q)'
    BY <1>2
  <1>4. t = s /\ Members(clients) = s /\ Members(clients)' = s /\ Len(s) \in Nat
        /\ Represents(clients, s)
    BY <1>1, <1>3 DEF Picture
  <1>5. Walking'
    BY DEF Walking
  <1>6. iter' = NodeAt(s, 1) /\ iter' = NodeAt(s, q)
    <2>1. 0 \in 0..Len(s) /\ NodeAt(s, 0) = head
      BY <1>4 DEF NodeAt
    <2>2. clients.next[NodeAt(s, 0)] = NodeAt(s, 0 + 1)
      BY <1>4, <2>1 DEF Represents
    <2> QED
      BY <1>3, <1>4, <1>5, <2>1, <2>2 DEF Picture, ll_start
  <1>7. q = 1
    BY <1>4, <1>6, Places
  <1>8. Rest' = s
    BY <1>3, <1>4, <1>7, SubSeqFull DEF Picture
  <1> QED
    BY <1>4, <1>8 DEF Turn!Begin

\* FOR_EACH_CLIENT is through.
LEMMA EndStep ==
    ASSUME Visiting, iter = head, ~Visiting', clients' = clients
    PROVE  Turn!End
  <1>1. Rest = <<>> /\ Rest' = <<>>
    BY DEF Rest
  <1> QED
    BY <1>1 DEF Turn!End

\* removeClosedSocket() frees a client.
LEMMA LeaveStep ==
    ASSUME IInv, RemoveClosed
    PROVE  Turn!Leave
  <1>1. PICK s \in Seq(Node) : \E p \in 1..(Len(s) + 1) : Ring(s, p)
    BY RingPick DEF IInv
  <1>2. PICK p \in 1..(Len(s) + 1) : Ring(s, p)
    BY <1>1
  <1>3. Walking /\ ~Visiting /\ ~Visiting' /\ iter \in Node /\ iter' = NextClient
    BY DEF Walking, Visiting, At, RemoveClosed
  <1>4. Represents(clients, s) /\ Members(clients) = s
    BY <1>2, MembersAre DEF Ring
  <1>5. /\ Len(s) \in Nat /\ p \in 1..Len(s) /\ iter = s[p]
        /\ \A i, j \in 1..Len(s) : s[i] = s[j] => i = j
    BY <1>2, <1>3, AtPlace DEF IInv
  <1> DEFINE t == Without(s, p)
  <1>6. Represents(ll_remove(clients, iter), t)
    BY <1>4, <1>5, RemoveTakesOut
  <1>7. Len(t) = Len(s) - 1 /\ \A i \in 1..Len(t) : t[i] # iter
    <2>1. Len(t) = Len(s) - 1
      BY <1>5 DEF Without
    <2>2. \A i \in 1..(Len(s) - 1) : t[i] = IF i < p THEN s[i] ELSE s[i + 1]
      BY DEF Without
    <2>3. \A i \in 1..(Len(s) - 1) : i \in 1..Len(s) /\ i + 1 \in 1..Len(s) /\ i \in Int
      BY <1>5
    <2>4. \A i \in 1..(Len(s) - 1) : i < p => i # p
      BY <1>5
    <2>5. \A i \in 1..(Len(s) - 1) : ~(i < p) => i + 1 # p
      BY <1>5
    <2> HIDE DEF t
    <2> QED
      BY <1>5, <2>1, <2>2, <2>3, <2>4, <2>5
  <1>8. Represents(clients', t)
    BY <1>3, <1>6, <1>7, FreeKeeps DEF RemoveClosed
  <1>9. Members(clients)' = t
    BY <1>8, MembersAre
  <1>10. t = Turn!RemoveAt(s, p)
    <2> DEFINE a == SubSeq(s, 1, p - 1)
               b == SubSeq(s, p + 1, Len(s))
    <2>1. \A i \in 1..Len(s) : s[i] \in Node
      BY ElementOfSeq
    <2>2. /\ a \in Seq(Node) /\ Len(a) = p - 1
          /\ \A i \in 1..(p - 1) : a[i] = s[i]
      <3>1. \A i \in 1..(p - 1) : s[i] \in Node
        BY <1>5, <2>1
      <3>2. p - 1 \in Int /\ 1 \in Int
        BY <1>5
      <3>3. /\ a \in Seq(Node) /\ Len(a) = IF 1 <= p - 1 THEN (p - 1) - 1 + 1 ELSE 0
            /\ \A i \in 1..((p - 1) - 1 + 1) : a[i] = s[1 + i - 1]
        BY <3>1, <3>2, SubSeqProperties
      <3> QED
        BY <1>5, <3>3
    <2>3. /\ b \in Seq(Node) /\ Len(b) = Len(s) - p
          /\ \A i \in 1..(Len(s) - p) : b[i] = s[p + i]
      <3>1. \A i \in (p + 1)..Len(s) : s[i] \in Node
        BY <1>5, <2>1
      <3>2. p + 1 \in Int /\ Len(s) \in Int
        BY <1>5
      <3>3. /\ b \in Seq(Node)
            /\ Len(b) = IF p + 1 <= Len(s) THEN Len(s) - (p + 1) + 1 ELSE 0
            /\ \A i \in 1..(Len(s) - (p + 1) + 1) : b[i] = s[(p + 1) + i - 1]
        BY <3>1, <3>2, SubSeqProperties
      <3> QED
        BY <1>5, <3>3
    <2> HIDE DEF a, b
    <2>4. /\ a \o b \in Seq(Node) /\ Len(a \o b) = Len(a) + Len(b)
          /\ \A i \in 1..(Len(a) + Len(b)) :
                (a \o b)[i] = IF i <= Len(a) THEN a[i] ELSE b[i - Len(a)]
      BY <2>2, <2>3, ConcatProperties
    <2>5. Len(a) + Len(b) = Len(s) - 1
      BY <1>5, <2>2, <2>3
    <2>6. ASSUME NEW i \in 1..(Len(s) - 1)
          PROVE  (a \o b)[i] = IF i < p THEN s[i] ELSE s[i + 1]
      <3>1. CASE i < p
        <4>1. i \in 1..(p - 1) /\ i <= Len(a) /\ i \in 1..(Len(a) + Len(b))
          BY <1>5, <2>2, <2>5, <3>1
        <4> QED
          BY <2>2, <2>4, <3>1, <4>1
      <3>2. CASE ~(i < p)
        <4>1. /\ ~(i <= Len(a)) /\ i \in 1..(Len(a) + Len(b))
              /\ i - Len(a) \in 1..(Len(s) - p) /\ p + (i - Len(a)) = i + 1
          BY <1>5, <2>2, <2>5, <3>2
        <4>2. (a \o b)[i] = b[i - Len(a)]
          BY <2>4, <4>1
        <4>3. b[i - Len(a)] = s[p + (i - Len(a))]
          BY <2>3, <4>1
        <4> QED
          BY <3>2, <4>1, <4>2, <4>3
      <3> QED
        BY <3>1, <3>2
    <2>7. t \in Seq(Node)
      BY <1>6 DEF Represents
    <2>8. a \o b = t
      <3>1. \A i \in 1..(Len(s) - 1) : t[i] = IF i < p THEN s[i] ELSE s[i + 1]
        BY DEF Without
      <3> HIDE DEF t
      <3>2. Len(a \o b) = Len(t) /\ Len(a \o b) = Len(s) - 1
        BY <1>7, <2>4, <2>5
      <3>3. \A i \in 1..Len(a \o b) : (a \o b)[i] = t[i]
        BY <2>6, <3>1, <3>2
      <3> QED
        BY <2>4, <2>7, <3>2, <3>3, SeqEqual
    <2> QED
      BY <2>8 DEF Turn!RemoveAt, a, b
  <1>11. Rest = <<>> /\ Rest' = <<>> /\ Visiting' = Visiting
    BY <1>3 DEF Rest, Visiting
  <1> QED
    BY <1>3, <1>4, <1>5, <1>9, <1>10, <1>11 DEF Turn!Leave

\* ll_insert_last() of a client that is not on the list.
LEMMA JoinStep ==
    ASSUME IInv, ~Visiting, ~Visiting', NEW a \in Node \ Pool,
           clients' = ll_insert_last(clients, a)
    PROVE  Turn!Join(a)
  <1>1. PICK s \in Seq(Node) : \E p \in 1..(Len(s) + 1) : Ring(s, p)
    BY RingPick DEF IInv
  <1>2. Represents(clients, s) /\ Members(clients) = s /\ Range(s) = Pool
    BY <1>1, MembersAre DEF Ring
  <1>3. \A i \in 1..Len(s) : s[i] # a
    <2>1. DOMAIN s = 1..Len(s)
      BY <1>1, LenProperties
    <2> QED
      BY <1>2, <2>1 DEF Range
  <1>4. Represents(clients', Append(s, a))
    BY <1>2, <1>3, InsertAppends
  <1>5. Members(clients)' = Append(s, a)
    BY <1>4, MembersAre
  <1>6. Rest = <<>> /\ Rest' = <<>> /\ Visiting' = Visiting
    BY DEF Rest, Visiting
  <1> QED
    BY <1>2, <1>3, <1>5, <1>6 DEF Turn!Join

\* Every step of the server, and of the others.
LEMMA TurnStep ==
    ASSUME IInv, IInv', [Next]_vars
    PROVE  [Turn!Next]_(Turn!vars)
  <1>1. CASE Select
    <2>1. CASE pc' = pc
      BY <1>1, <2>1, Unseen DEF Select, Visiting
    <2>2. CASE pc' # pc
      <3>1. ~Visiting /\ Visiting' /\ iter' = ll_start(clients) /\ clients' = clients
        BY <1>1, <2>2 DEF Select, Visiting
      <3> QED
        BY <3>1, BeginStep DEF Turn!Next
    <2> QED
      BY <2>1, <2>2
  <1>2. CASE NoRead \/ Read \/ Idle \/ Respond \/ ParseStatic \/ ParseCgi
             \/ CgiStart \/ NoPipes \/ CgiFails \/ CgiPoll
    <2>1. UNCHANGED <<clients, iter>> /\ Visiting /\ Visiting'
      BY <1>2 DEF NoRead, Read, Idle, Respond, ParseStatic, ParseCgi, CgiStart, NoPipes,
                  CgiFails, CgiPoll, Processing, Starting, At, Visiting, loopVars
    <2> QED
      BY <2>1, Unseen, SMTT(60)
  <1>3. CASE ReadEnd \/ NoSend \/ Send \/ SendToClosed \/ SendFails
    <2>1. iter \in Node /\ Visiting /\ Visiting' /\ iter' = NextClient /\ clients' = clients
      BY <1>3 DEF ReadEnd, NoSend, Send, SendToClosed, SendFails, Sending, AfterSend, At,
                  Visiting
    <2> QED
      BY <2>1, VisitStep, SMTT(60) DEF Turn!Next
  <1>4. CASE ServiceDone
    <2>1. Visiting /\ iter = head /\ ~Visiting' /\ clients' = clients
      BY <1>4 DEF ServiceDone, Visiting
    <2> QED
      BY <2>1, EndStep DEF Turn!Next
  <1>5. CASE RemoveClosed
    BY <1>5, LeaveStep DEF Turn!Next
  <1>6. CASE ResetResponse \/ KeepClient \/ RemoveDone
    <2>1. clients' = clients /\ ~Visiting /\ ~Visiting'
      BY <1>6 DEF ResetResponse, KeepClient, RemoveDone, At, Visiting
    <2> QED
      BY <2>1, Unseen
  <1>7. CASE Accept
    <2>1. ~Visiting /\ ~Visiting'
      BY <1>7 DEF Accept, NoAccept, AcceptFails, AddFails, AddClient, AddTlsClient, Accepted,
                  AfterAccept, HandshakeDone, HandshakeFails, Listening, At, Visiting,
                  listenfd, ssl_fd
    <2>2. CASE clients' = clients
      BY <2>1, <2>2, Unseen
    <2>3. ASSUME NEW a \in Node, NEW k \in Client, AddClient(a, k)
          PROVE  Turn!Join(a)
      <3>1. clients' = ll_insert_last(clients, a) /\ a \notin live /\ pc # "SSL_accept"
        BY <2>3 DEF AddClient, Allocate, Accepted, Listening, listenfd
      <3>2. a \notin Pool
        BY <3>1 DEF IInv, LiveInv
      <3> QED
        BY <2>1, <3>1, <3>2, JoinStep
    <2>4. CASE HandshakeDone
      <3>1. clients' = ll_insert_last(clients, iter) /\ iter \in Node /\ pc = "SSL_accept"
        BY <2>4 DEF HandshakeDone, At
      <3>2. iter \notin Pool
        BY <3>1 DEF IInv, LiveInv
      <3> QED
        BY <2>1, <3>1, <3>2, JoinStep DEF Turn!Next
    <2>5. clients' = clients \/ (\E a \in Node, k \in Client : AddClient(a, k)) \/ HandshakeDone
      BY <1>7 DEF Accept, NoAccept, AcceptFails, AddFails, AddTlsClient, HandshakeFails
    <2> QED
      BY <2>2, <2>3, <2>4, <2>5 DEF Turn!Next
  <1>8. ASSUME NEW k \in Client, Environment(k)
        PROVE  UNCHANGED Turn!vars
    <2>1. UNCHANGED <<pc, iter, clients>>
      BY <1>8 DEF Environment, ChildRuns, Connect, Shake, Ask, AskRest, Drain, HangUp,
                  ClientStep, server, loopVars
    <2> QED
      BY <2>1, Unseen DEF Visiting
  <1>9. CASE UNCHANGED vars
    <2>1. UNCHANGED <<pc, iter, clients>>
      BY <1>9 DEF vars, loopVars
    <2> QED
      BY <2>1, Unseen DEF Visiting
  <1> QED
    BY <1>1, <1>2, <1>3, <1>4, <1>5, <1>6, <1>7, <1>8, <1>9 DEF Next, Server

LEMMA TurnInit ==
    ASSUME Init
    PROVE  Turn!Init
  <1>1. clients = init_linkedlist /\ ~Visiting
    BY DEF Init, Visiting
  <1>2. Members(clients) = <<>>
    BY <1>1, InitRepresents, MembersAre
  <1>3. Rest = <<>> /\ Visiting = FALSE
    BY <1>1 DEF Rest
  <1> QED
    BY <1>2, <1>3 DEF Turn!Init

\* net_handle() implements the round robin: in every turn each client of the
\* pool is visited once, in the order in which they came, and the pool changes
\* only between the visits of two turns (selectpool.c:55-173).
THEOREM ServedInTurn == Spec => Turn!Init /\ [][Turn!Next]_(Turn!vars)
  <1>1. Init => Turn!Init
    BY TurnInit
  <1>2. IInv /\ IInv' /\ [Next]_vars => [Turn!Next]_(Turn!vars)
    BY TurnStep
  <1> QED
    BY <1>1, <1>2, Invariant, PTL DEF Spec
==============================================================================
