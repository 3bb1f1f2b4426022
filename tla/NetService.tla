------------------------------ MODULE NetService -----------------------------
(***************************************************************************)
(* The select loop of lisod with all its connections: the pool, the        *)
(* listening sockets, the descriptor table of the process, the memory of   *)
(* the ClientSocket objects, the CGI children and the clients.             *)
(*                                                                         *)
(* net_handle() is the cycle                                               *)
(*                                                                         *)
(*   select -> for every client: handleread, http_process, handlewrite     *)
(*          -> remove, for every client -> accept -> accept_ssl -> select  *)
(*                                                                         *)
(* of one thread; pc is the place in it and iter the node of the list it   *)
(* has reached.  A blocking call is an action that is not enabled until    *)
(* the call returns, and then nobody is served.  What a single connection  *)
(* does with its bytes is the subject of ClientSocket; here a request is   *)
(* read in one piece, a reply is sent in one or two buffers, and what      *)
(* counts is which descriptor, which memory and whose bytes are used.      *)
(***************************************************************************)
EXTENDS LinkedList, FiniteSets, Functions

CONSTANTS
    Client,     \* the clients
    TLS,        \* those that connect to the SSL port
    Script,     \* Script[k]: the requests client k makes, one after the other
    NOFILE,     \* descriptors the process may have (RLIMIT_NOFILE)
    FD_SETSIZE, \* the size of an fd_set
    Hasty,      \* the clients that may hang up before they are answered
    Slow,       \* the clients that may leave what they are sent in the socket
    Faults      \* what may fail: "alloc", "cgi", "handshake"

\* What a request leads to: a file that is opened, an answer without a file
\* (404, or HEAD), or the CGI program.
Kind == {"file", "missing", "cgi"}

\* Numbers that are never given back: /dev/null and the listening sockets.
DevNull == 0
listenfd == 1
ssl_fd == 2

FD == 0..(NOFILE - 1)
NoFile == -1                    \* fp = NULL

ASSUME PoolAssumption ==
    /\ TLS \subseteq Client /\ IsFiniteSet(Node) /\ IsFiniteSet(Client)
    /\ "none" \notin Client
    /\ Script \in [Client -> Seq(Kind)]
    /\ NOFILE \in Nat /\ NOFILE > 3
    /\ FD_SETSIZE \in Nat
    /\ Hasty \subseteq Client /\ Slow \subseteq Client
    /\ Faults \subseteq {"alloc", "cgi", "handshake"}

VARIABLES
    pc, iter, read_set, write_set,  \* the loop
    clients,        \* pool->clients
    live, obj,      \* the objects allocated, and the memory of all of them
    file,           \* the descriptor table: what each number refers to
    child,          \* the CGI program of a client
    out,            \* TRUE when there is something in its stdout pipe
    conn,           \* the clients' side
    backlog         \* connections waiting at the listening sockets

loopVars == <<pc, iter, read_set, write_set>>
vars == <<loopVars, clients, live, obj, file, child, out, conn, backlog>>
------------------------------------------------------------------------------
(* Descriptors.                                                            *)

Free    == <<"free", "none">>
Sock(k) == <<"sock", k>>

\* An open number refers to /dev/null, to a listening socket, to the socket of
\* a client, to the file of its response or to an end of the pipes of its CGI
\* program.
End  == {"in0", "in1", "out0", "out1"}
File == {Free, <<"null", "none">>, <<"listen", "none">>}
            \cup ({"sock", "file"} \cup End) \X Client

Unused(f) == {n \in FD : f[n] = Free}

\* The kernel gives the lowest number that is free.
Lowest(f) == CHOOSE n \in Unused(f) : \A m \in 0..(n - 1) : f[m] # Free

Opened(f, x) == [f EXCEPT ![Lowest(f)] = x]

\* close(), several times; closing a number that is not open does nothing.
Closed(f, S) == [n \in FD |-> IF n \in S THEN Free ELSE f[n]]

HasOpen(x) == \E n \in FD : file[n] = x

\* Nobody can write into client k's stdout pipe.
NoWriter(k) == child[k] # "running" /\ \A n \in FD : file[n] # <<"out1", k>>

\* select() reports a number as readable when read() or recv() has something
\* to return: data, or the end.
HasData(x) ==
    \/ x[1] = "sock" /\ conn[x[2]].waiting # "none"
    \/ x[1] = "out0" /\ out[x[2]]
    \/ x[1] = "file"

AtEnd(x) ==
    \/ x[1] = "sock" /\ conn[x[2]].waiting = "none" /\ conn[x[2]].peer # "open"
    \/ x[1] = "out0" /\ ~out[x[2]] /\ NoWriter(x[2])
    \/ x[1] \in {"file", "null"}

Readable(x) == HasData(x) \/ AtEnd(x)
------------------------------------------------------------------------------
(* Objects.                                                                *)

\* Memory as far as its next use may see it.
Blank == [client |-> "none", fd |-> DevNull, closed |-> 0, doing |-> "request",
          rbuf |-> "none", fp |-> NoFile, pipes |-> [e \in End |-> DevNull],
          pre |-> FALSE, wbuf |-> {}]

\* new_ClientSocket(): the pipes and writeIndex are not initialised and keep
\* what the memory held.
new_ClientSocket(old, k, fd) ==
    [Blank EXCEPT !.client = k, !.fd = fd, !.pipes = old.pipes, !.wbuf = old.wbuf]

\* free(): what the fields hold that are set when the memory is used again is not
\* kept.
free(o) == [Blank EXCEPT !.pipes = o.pipes, !.wbuf = o.wbuf]

\* The request is being read, or the next one may be (isPipelining).
ableToRead(o)  == o.doing \in {"request", "body", "over"} /\ o.rbuf = "none"

\* Mutation: isPipelining is not considered.
ableToWriteNotOver(o) == o.doing \in {"cgi", "head", "body"}

ableToWrite(o) == o.doing \in {"cgi", "head", "body", "over"}

\* The clients on the list: those whose node has its pointers set.
Pool == {a \in Node : clients.next[a] # Wild}

InPool(k) == \E a \in Pool : obj[a].client = k

\* Mutation: the next client but one.
NextClientSkips == clients.next[clients.next[iter]]

NextClient == ll_next(clients, iter)
------------------------------------------------------------------------------
NewConn == [link |-> "away", peer |-> "open", waiting |-> "none", asked |-> 0,
            answers |-> 0, shaken |-> FALSE, stalled |-> FALSE]

\* start_server() has opened the listening sockets and initialised the pool.
Init ==
    /\ pc = "select" /\ iter = head /\ read_set = {} /\ write_set = {}
    /\ clients = init_linkedlist
    /\ live = {} /\ obj = [a \in Node |-> Blank]
    /\ file = [n \in FD |-> CASE n = DevNull -> <<"null", "none">>
                              [] n \in {listenfd, ssl_fd} -> <<"listen", "none">>
                              [] OTHER -> Free]
    /\ child = [k \in Client |-> "none"]
    /\ out = [k \in Client |-> FALSE]
    /\ conn = [k \in Client |-> NewConn]
    /\ backlog = [l \in {listenfd, ssl_fd} |-> <<>>]
------------------------------------------------------------------------------
(* refresh_select().                                                       *)

\* The numbers that prepare_select() puts into the two sets.
ReadFds  == {obj[a].fd : a \in {b \in Pool : ableToRead(obj[b])}}
WriteFds == {obj[a].fd : a \in {b \in Pool : ableToWrite(obj[b])}}

\* A socket whose client reads slowly may or may not have room.
Stalled(n) == file[n][1] = "sock" /\ conn[file[n][2]].stalled

\* With a number that is not open select() fails, the sets stay as they are and
\* net_handle() returns at once.
Select ==
    /\ pc = "select"
    /\ IF \E n \in ReadFds \cup WriteFds : file[n] = Free
       THEN /\ read_set' = ReadFds \cup {listenfd, ssl_fd} /\ write_set' = WriteFds
            /\ UNCHANGED <<pc, iter>>
       ELSE /\ read_set' = {n \in ReadFds : Readable(file[n])}
                              \cup {l \in {listenfd, ssl_fd} : backlog[l] # <<>>}
            /\ \E S \in SUBSET {n \in WriteFds : Stalled(n)} : write_set' = WriteFds \ S
            /\ pc' = "handleread" /\ iter' = ll_start(clients)
    /\ UNCHANGED <<clients, live, obj, file, child, out, conn, backlog>>
------------------------------------------------------------------------------
(* net_service(): handleread().                                            *)

At(place) == pc = place /\ iter \in Node

\* Mutation: recv() without asking the set.
ReceivingUnasked == ableToRead(obj[iter])

Receiving == obj[iter].fd \in read_set /\ ableToRead(obj[iter])

NoRead ==
    /\ At("handleread") /\ ~Receiving
    /\ pc' = "http_process"
    /\ UNCHANGED <<iter, read_set, write_set, clients, live, obj, file, child, out,
                   conn, backlog>>

\* The bytes of a request.  SSL_read() waits for the rest of a record that has
\* arrived in part.
Read ==
    /\ At("handleread") /\ Receiving
    /\ \E k \in Client :
          /\ file[obj[iter].fd] = Sock(k) /\ conn[k].waiting = "whole"
          /\ obj' = [obj EXCEPT ![iter].rbuf = Script[k][conn[k].asked]]
          /\ conn' = [conn EXCEPT ![k].waiting = "none"]
    /\ pc' = "http_process"
    /\ UNCHANGED <<iter, read_set, write_set, clients, live, file, child, out, backlog>>

\* The end of the stream, or an error.
ReadEnd ==
    /\ At("handleread") /\ Receiving
    /\ LET x == file[obj[iter].fd]
       IN  x[1] = "sock" => conn[x[2]].peer # "open" /\ conn[x[2]].waiting # "whole"
    /\ obj' = [obj EXCEPT ![iter].closed = 2]
    /\ iter' = NextClient
    /\ UNCHANGED <<pc, read_set, write_set, clients, live, file, child, out, conn, backlog>>
------------------------------------------------------------------------------
(* net_service(): http_process().                                          *)

Processing(doing) == At("http_process") /\ obj[iter].doing \in doing

Idle ==
    /\ Processing({"request", "over"})
    /\ obj[iter].doing = "request" => obj[iter].rbuf = "none"
    /\ pc' = "handlewrite"
    /\ UNCHANGED <<iter, read_set, write_set, clients, live, obj, file, child, out,
                   conn, backlog>>

\* process_response() for a response whose headers ("head") or whose file
\* ("body") is to be sent: what it may have reached when it returns.  An empty
\* buffer holds all headers and, at the latest the second time, the rest of the
\* file; an unsent one leaves no room.
Responded(o) ==
    {[o EXCEPT !.doing = d, !.wbuf = @ \cup {o.client}] : d \in
        IF o.doing = "body" THEN IF o.wbuf = {} THEN {"over"} ELSE {"body"}
        ELSE {"over"} \cup (IF o.fp # NoFile THEN {"body"} ELSE {})
                      \cup (IF o.wbuf # {} THEN {"head"} ELSE {})}

Respond ==
    /\ Processing({"head", "body"})
    /\ \E o \in Responded(obj[iter]) : obj' = [obj EXCEPT ![iter] = o]
    /\ pc' = "handlewrite"
    /\ UNCHANGED <<iter, read_set, write_set, clients, live, file, child, out, conn, backlog>>

\* A request is complete, and preprocess() opens the file; when no number is
\* free fopen() fails and the code is 500.
ParseStatic ==
    /\ Processing({"request"}) /\ obj[iter].rbuf \in {"file", "missing"}
    /\ LET o     == obj[iter]
           opens == o.rbuf = "file" /\ Unused(file) # {}
           fp    == IF opens THEN Lowest(file) ELSE NoFile
       IN  /\ file' = IF opens THEN Opened(file, <<"file", o.client>>) ELSE file
           /\ \E r \in Responded([o EXCEPT !.doing = "head", !.rbuf = "none", !.fp = fp]) :
                 obj' = [obj EXCEPT ![iter] = r]
    /\ pc' = "handlewrite"
    /\ UNCHANGED <<iter, read_set, write_set, clients, live, child, out, conn, backlog>>

ParseCgi ==
    /\ Processing({"request"}) /\ obj[iter].rbuf = "cgi"
    /\ obj' = [obj EXCEPT ![iter].doing = "cgi", ![iter].rbuf = "none"]
    /\ UNCHANGED <<pc, iter, read_set, write_set, clients, live, file, child, out,
                   conn, backlog>>

\* The numbers that the ends get when both calls of pipe() succeed: they take
\* the lowest that are free, in this order.
EndOrder == [in0 |-> 0, in1 |-> 1, out0 |-> 2, out1 |-> 3]

PipeEnd(e) ==
    CHOOSE n \in Unused(file) : Cardinality({m \in Unused(file) : m < n}) = EndOrder[e]

PipeEnds == [e \in End |-> PipeEnd(e)]

WithPipes(ends, k) ==
    [n \in FD |-> IF n \in Range(ends) THEN <<CHOOSE e \in End : ends[e] = n, k>> ELSE file[n]]

Starting == Processing({"cgi"}) /\ ~obj[iter].pre

CgiStart ==
    /\ Starting /\ Cardinality(Unused(file)) >= 4
    /\ LET k == obj[iter].client
       IN  /\ \E ends \in {PipeEnds} :
                 /\ file' = WithPipes(ends, k)
                 /\ obj' = [obj EXCEPT ![iter].pre = TRUE, ![iter].pipes = ends]
           /\ child' = [child EXCEPT ![k] = "running"] /\ out' = [out EXCEPT ![k] = FALSE]
    /\ UNCHANGED <<loopVars, clients, live, conn, backlog>>

\* What preprocess_cgi() leaves of an object when it fails: the numbers of the
\* pipes it made and closed again, and the mark that it was called.
Failed(o, pipes) == [o EXCEPT !.doing = "head", !.pre = TRUE, !.pipes = pipes]

\* pipe() fails: the first time it leaves stdin_pipe alone, the second time the
\* first two ends are closed.
NoPipes ==
    /\ Starting /\ Cardinality(Unused(file)) < 4
    /\ LET o    == obj[iter]
           one  == Cardinality(Unused(file)) >= 2
           ends == [e \in End |-> IF one /\ e \in {"in0", "in1"} THEN PipeEnd(e) ELSE o.pipes[e]]
       IN  \E r \in Responded(Failed(o, ends)) : obj' = [obj EXCEPT ![iter] = r]
    /\ pc' = "handlewrite"
    /\ UNCHANGED <<iter, read_set, write_set, clients, live, file, child, out, conn, backlog>>

\* fork() fails, or the write of the content to a child that was started; the
\* four ends are closed.
CgiFails ==
    /\ "cgi" \in Faults
    /\ Starting /\ Cardinality(Unused(file)) >= 4
    /\ LET o == obj[iter]
       IN  /\ \E r \in Responded(Failed(o, PipeEnds)) : obj' = [obj EXCEPT ![iter] = r]
           /\ \E c \in {child[o.client], "running"} : child' = [child EXCEPT ![o.client] = c]
    /\ pc' = "handlewrite"
    /\ UNCHANGED <<iter, read_set, write_set, clients, live, file, out, conn, backlog>>

\* Once cgi_preprocessed is set process_cgi() uses the numbers in the object,
\* whatever they refer to now: read() what is readable over the write buffer,
\* and at the end close the four of them.
CgiPoll ==
    /\ Processing({"cgi"}) /\ obj[iter].pre
    /\ LET ends == obj[iter].pipes
           x    == file[ends["out0"]]
       IN  \E read \in BOOLEAN :
              /\ IF read THEN Readable(x) => HasData(x) ELSE Readable(x) => AtEnd(x)
              /\ obj' = CASE ~Readable(x) -> obj
                          [] Readable(x) /\ read -> [obj EXCEPT ![iter].wbuf = {x[2]}]
                          [] OTHER -> [obj EXCEPT ![iter].wbuf = {}, ![iter].doing = "over"]
              /\ file' = IF Readable(x) /\ ~read THEN Closed(file, Range(ends)) ELSE file
              /\ out' = IF x[1] = "out0" /\ read THEN [out EXCEPT ![x[2]] = FALSE] ELSE out
              /\ conn' = IF x[1] = "sock" /\ read
                         THEN [conn EXCEPT ![x[2]].waiting = "none"] ELSE conn
    /\ pc' = "handlewrite"
    /\ UNCHANGED <<iter, read_set, write_set, clients, live, child, backlog>>
------------------------------------------------------------------------------
(* net_service(): handlewrite().                                           *)

Sending ==
    /\ At("handlewrite")
    /\ obj[iter].fd \in write_set /\ obj[iter].wbuf # {}

\* Mutation: no persistent connections.
AfterSendCloses(result, wbuf) ==
    /\ obj' = [obj EXCEPT ![iter].wbuf = wbuf,
                          ![iter].closed = IF obj[iter].doing = "over" THEN 2 ELSE result]
    /\ pc' = "handleread" /\ iter' = NextClient
    /\ UNCHANGED <<read_set, write_set, clients, live, file, child, out, backlog>>

\* What follows send(): a response that is over overrides an error.
AfterSend(result, wbuf) ==
    /\ obj' = [obj EXCEPT ![iter].wbuf = wbuf,
                          ![iter].closed = IF obj[iter].doing = "over" THEN 1 ELSE result]
    /\ pc' = "handleread" /\ iter' = NextClient
    /\ UNCHANGED <<read_set, write_set, clients, live, file, child, out, backlog>>

NoSend ==
    /\ At("handlewrite") /\ ~Sending
    /\ pc' = "handleread" /\ iter' = NextClient
    /\ UNCHANGED <<read_set, write_set, clients, live, obj, file, child, out, conn, backlog>>

\* The socket blocks until there is room.  A client that reads slowly may then
\* leave no room for the next buffer.
Send ==
    /\ Sending
    /\ \E k \in Client, slow \in BOOLEAN :
          /\ file[obj[iter].fd] = Sock(k)
          /\ conn[k].peer = "open" /\ ~conn[k].stalled
          /\ slow => k \in Slow
          /\ conn' = [conn EXCEPT ![k].stalled = slow,
                                  ![k].answers = IF obj[iter].doing = "over" THEN conn[k].asked
                                                                             ELSE @]
    /\ AfterSend(0, {})

\* The first send() to a client that has gone succeeds and provokes a RST.
SendToClosed ==
    /\ Sending
    /\ \E k \in Client :
          /\ file[obj[iter].fd] = Sock(k) /\ conn[k].peer = "closed"
          /\ conn' = [conn EXCEPT ![k].peer = "reset", ![k].waiting = "none"]
    /\ AfterSend(0, {})

SendFails ==
    /\ Sending
    /\ LET x == file[obj[iter].fd]
       IN  x[1] = "sock" => conn[x[2]].peer # "open"
    /\ AfterSend(2, obj[iter].wbuf)
    /\ UNCHANGED conn

\* FOR_EACH_CLIENT is through.
ServiceDone ==
    /\ pc = "handleread" /\ iter = head
    /\ pc' = "remove" /\ iter' = ll_start(clients)
    /\ UNCHANGED <<read_set, write_set, clients, live, obj, file, child, out, conn, backlog>>
------------------------------------------------------------------------------
(* removeClosedSocket().                                                   *)

\* Mutation: cur->next is read when the node is already freed.
RemoveClosedLate ==
    /\ At("remove") /\ obj[iter].closed = 2
    /\ clients' = free_node(ll_remove(clients, iter), iter)
    /\ live' = live \ {iter} /\ obj' = [obj EXCEPT ![iter] = free(@)]
    /\ file' = Closed(file, {obj[iter].fd, obj[iter].fp})
    /\ iter' = ll_next(clients', iter)
    /\ UNCHANGED <<pc, read_set, write_set, child, out, conn, backlog>>

\* Mutation: DeleteClientSocket() closes the pipes, too.
RemoveClosedPipes ==
    /\ At("remove") /\ obj[iter].closed = 2
    /\ clients' = free_node(ll_remove(clients, iter), iter)
    /\ live' = live \ {iter} /\ obj' = [obj EXCEPT ![iter] = free(@)]
    /\ file' = Closed(file, {obj[iter].fd, obj[iter].fp} \cup Range(obj[iter].pipes))
    /\ iter' = NextClient
    /\ UNCHANGED <<pc, read_set, write_set, child, out, conn, backlog>>

\* Mutation: the socket is not closed.
RemoveClosedLeaks ==
    /\ At("remove") /\ obj[iter].closed = 2
    /\ clients' = free_node(ll_remove(clients, iter), iter)
    /\ live' = live \ {iter} /\ obj' = [obj EXCEPT ![iter] = free(@)]
    /\ file' = Closed(file, {obj[iter].fp})
    /\ iter' = NextClient
    /\ UNCHANGED <<pc, read_set, write_set, child, out, conn, backlog>>

\* The node and the object are freed, the file and the socket are closed; the
\* pipes of a CGI program are not.
RemoveClosed ==
    /\ At("remove") /\ obj[iter].closed = 2
    /\ clients' = free_node(ll_remove(clients, iter), iter)
    /\ live' = live \ {iter} /\ obj' = [obj EXCEPT ![iter] = free(@)]
    /\ file' = Closed(file, {obj[iter].fd, obj[iter].fp})
    /\ iter' = NextClient
    /\ UNCHANGED <<pc, read_set, write_set, child, out, conn, backlog>>

\* Mutation: init_response() without delete_response().
ResetResponseOnly ==
    /\ At("remove") /\ obj[iter].closed = 1
    /\ obj' = [obj EXCEPT ![iter].closed = 0, ![iter].doing = "request", ![iter].fp = NoFile]
    /\ iter' = NextClient
    /\ UNCHANGED <<pc, read_set, write_set, clients, live, file, child, out, conn, backlog>>

\* Mutation: the socket is closed in place of the file.
ResetResponseSocket ==
    /\ At("remove") /\ obj[iter].closed = 1
    /\ file' = Closed(file, {obj[iter].fd})
    /\ obj' = [obj EXCEPT ![iter].closed = 0, ![iter].doing = "request", ![iter].fp = NoFile]
    /\ iter' = NextClient
    /\ UNCHANGED <<pc, read_set, write_set, clients, live, child, out, conn, backlog>>

\* delete_response() closes the file, init_response() starts anew.
ResetResponse ==
    /\ At("remove") /\ obj[iter].closed = 1
    /\ file' = Closed(file, {obj[iter].fp})
    /\ obj' = [obj EXCEPT ![iter].closed = 0, ![iter].doing = "request", ![iter].fp = NoFile]
    /\ iter' = NextClient
    /\ UNCHANGED <<pc, read_set, write_set, clients, live, child, out, conn, backlog>>

KeepClient ==
    /\ At("remove") /\ obj[iter].closed = 0
    /\ iter' = NextClient
    /\ UNCHANGED <<pc, read_set, write_set, clients, live, obj, file, child, out, conn,
                   backlog>>

\* What the sets say of the clients is not used any more.
RemoveDone ==
    /\ pc = "remove" /\ iter = head
    /\ pc' = "accept"
    /\ read_set' = read_set \cap {listenfd, ssl_fd} /\ write_set' = {}
    /\ UNCHANGED <<iter, clients, live, obj, file, child, out, conn,
                   backlog>>
------------------------------------------------------------------------------
(* accept_newclient() and add_client().                                    *)

Listening(l) == pc = (IF l = listenfd THEN "accept" ELSE "accept_ssl")

\* The sets are not used after the last accept().
AfterAccept(l) ==
    IF l = listenfd THEN pc' = "accept_ssl" /\ UNCHANGED read_set
                    ELSE pc' = "select" /\ read_set' = {}

NoAccept(l) ==
    /\ Listening(l) /\ l \notin read_set
    /\ AfterAccept(l)
    /\ UNCHANGED <<iter, write_set, clients, live, obj, file, child, out, conn,
                   backlog>>

\* accept() fails when no number is free, and accept_newclient() returns.
AcceptFails(l) ==
    /\ Listening(l) /\ l \in read_set /\ Unused(file) = {}
    /\ AfterAccept(ssl_fd)
    /\ UNCHANGED <<iter, write_set, clients, live, obj, file, child, out, conn,
                   backlog>>

\* accept() gives the oldest connection its number.
Accepted(l, k) ==
    /\ Listening(l) /\ l \in read_set /\ Unused(file) # {}
    /\ backlog[l] # <<>> /\ k = Head(backlog[l])
    /\ backlog' = [backlog EXCEPT ![l] = Tail(@)]
    /\ conn' = [conn EXCEPT ![k].link = "accepted"]
    /\ file' = Opened(file, Sock(k))

\* add_client() fails: the pool is full, or there is no memory.  The number of
\* the connection is not given back.
AddFails(l) ==
    /\ \E k \in Client : Accepted(l, k)
    /\ ll_count(clients) # FD_SETSIZE => live = Node \/ "alloc" \in Faults
    /\ AfterAccept(l)
    /\ UNCHANGED <<iter, write_set, clients, live, obj, child, out>>

\* malloc() returns any memory that is not in use.
Allocate(a, k) ==
    /\ ll_count(clients) # FD_SETSIZE
    /\ a \in Node \ live
    /\ live' = live \cup {a}
    /\ obj' = [obj EXCEPT ![a] = new_ClientSocket(@, k, Lowest(file))]

AddClient(a, k) ==
    /\ Accepted(listenfd, k) /\ Allocate(a, k)
    /\ clients' = ll_insert_last(clients, a)
    /\ AfterAccept(listenfd)
    /\ UNCHANGED <<iter, write_set, child, out>>

\* client_context_init(): SSL_accept() blocks until the client has done its
\* part of the handshake.
AddTlsClient(a, k) ==
    /\ Accepted(ssl_fd, k) /\ Allocate(a, k)
    /\ pc' = "SSL_accept" /\ iter' = a
    /\ UNCHANGED <<read_set, write_set, clients, child, out>>

HandshakeDone ==
    /\ At("SSL_accept")
    /\ \E k \in Client : file[obj[iter].fd] = Sock(k) /\ conn[k].shaken
    /\ clients' = ll_insert_last(clients, iter)
    /\ AfterAccept(ssl_fd) /\ iter' = head
    /\ UNCHANGED <<write_set, live, obj, file, child, out, conn, backlog>>

\* The object and its node are freed, the number is not given back.
HandshakeFails ==
    /\ At("SSL_accept")
    /\ \E k \in Client : /\ file[obj[iter].fd] = Sock(k)
                         /\ conn[k].peer # "open" \/ "handshake" \in Faults
    /\ live' = live \ {iter} /\ obj' = [obj EXCEPT ![iter] = free(@)]
    /\ AfterAccept(ssl_fd) /\ iter' = head
    /\ UNCHANGED <<write_set, clients, file, child, out, conn, backlog>>

Accept ==
    \/ \E l \in {listenfd, ssl_fd} : NoAccept(l) \/ AcceptFails(l) \/ AddFails(l)
    \/ \E a \in Node, k \in Client : AddClient(a, k) \/ AddTlsClient(a, k)
    \/ HandshakeDone \/ HandshakeFails

Server ==
    \/ Select
    \/ NoRead \/ Read \/ ReadEnd
    \/ Idle \/ Respond \/ ParseStatic \/ ParseCgi \/ CgiStart \/ NoPipes \/ CgiFails \/ CgiPoll
    \/ NoSend \/ Send \/ SendToClosed \/ SendFails
    \/ ServiceDone \/ RemoveClosed \/ ResetResponse \/ KeepClient \/ RemoveDone
    \/ Accept
------------------------------------------------------------------------------
(* The CGI programs and the clients.                                       *)

server == <<loopVars, clients, live, obj, file>>

\* The program writes its output, if it can, and exits.
ChildRuns(k) ==
    /\ child[k] = "running"
    /\ child' = [child EXCEPT ![k] = "exited"]
    /\ out' = [out EXCEPT ![k] = HasOpen(<<"out0", k>>)]
    /\ UNCHANGED <<server, conn, backlog>>

ClientStep(k, new) ==
    /\ conn' = [conn EXCEPT ![k] = new]
    /\ UNCHANGED <<server, child, out>>

Connect(k) ==
    LET l == IF k \in TLS THEN ssl_fd ELSE listenfd
    IN  /\ conn[k].link = "away"
        /\ ClientStep(k, [conn[k] EXCEPT !.link = "queued"])
        /\ backlog' = [backlog EXCEPT ![l] = Append(@, k)]

\* The client's part of the handshake.
Shake(k) ==
    /\ k \in TLS /\ conn[k].link # "away" /\ conn[k].peer = "open" /\ ~conn[k].shaken
    /\ ClientStep(k, [conn[k] EXCEPT !.shaken = TRUE])
    /\ UNCHANGED backlog

\* A client may write as soon as its connection stands, accepted or not: after
\* connect(), or at the SSL port after the handshake, which TLSv1 (ssl.c:23) ends
\* with a message of the server.
Connected(k) == IF k \in TLS THEN InPool(k) ELSE conn[k].link # "away"

\* The next request, once the last one is answered.  The record of a TLS client
\* may arrive in parts.
Ask(k) ==
    /\ Connected(k) /\ conn[k].peer = "open"
    /\ conn[k].waiting = "none"
    /\ conn[k].answers = conn[k].asked /\ conn[k].asked < Len(Script[k])
    /\ ClientStep(k, [conn[k] EXCEPT !.asked = @ + 1,
                                     !.waiting = IF k \in TLS THEN "part" ELSE "whole"])
    /\ UNCHANGED backlog

AskRest(k) ==
    /\ conn[k].waiting = "part" /\ conn[k].peer = "open"
    /\ ClientStep(k, [conn[k] EXCEPT !.waiting = "whole"])
    /\ UNCHANGED backlog

Drain(k) ==
    /\ conn[k].stalled /\ conn[k].peer = "open"
    /\ ClientStep(k, [conn[k] EXCEPT !.stalled = FALSE])
    /\ UNCHANGED backlog

\* The client has all its answers or leaves whenever it likes.
HangUp(k) ==
    /\ conn[k].link # "away" /\ conn[k].peer = "open"
    /\ conn[k].answers = Len(Script[k]) \/ k \in Hasty
    /\ ClientStep(k, [conn[k] EXCEPT !.peer = "closed"])
    /\ UNCHANGED backlog

Environment(k) ==
    ChildRuns(k) \/ Connect(k) \/ Shake(k) \/ Ask(k) \/ AskRest(k)
        \/ Drain(k) \/ HangUp(k)

Next == Server \/ \E k \in Client : Environment(k)

\* main() calls net_handle() for ever; a client that holds the server in a
\* blocking call ends it, by going on or by leaving.
Fairness ==
    /\ WF_vars(Server)
    /\ \A k \in Client :
          WF_vars(Shake(k)) /\ WF_vars(AskRest(k)) /\ WF_vars(Drain(k))

Spec == Init /\ [][Next]_vars /\ Fairness
------------------------------------------------------------------------------
(* Properties.                                                             *)

ObjType ==
    [client : Client \cup {"none"}, fd : FD, closed : {0, 1, 2},
     doing : {"request", "cgi", "head", "body", "over"}, rbuf : Kind \cup {"none"},
     fp : FD \cup {NoFile}, pipes : [End -> FD], pre : BOOLEAN, wbuf : SUBSET Client]

ConnType ==
    [link : {"away", "queued", "accepted"}, peer : {"open", "closed", "reset"},
     waiting : {"none", "part", "whole"}, asked : Nat, answers : Nat,
     shaken : BOOLEAN, stalled : BOOLEAN]

Place == {"select", "handleread", "http_process", "handlewrite", "remove", "accept",
          "accept_ssl", "SSL_accept"}

\* The loop is at a client, to serve it or to remove it.
Visiting == pc \in {"handleread", "http_process", "handlewrite"}
Walking  == Visiting \/ pc = "remove"

\* Types.
TypeOK ==
    /\ pc \in Place /\ iter \in Node \cup {head}
    /\ read_set \subseteq FD /\ write_set \subseteq FD
    /\ clients \in ListType /\ live \subseteq Node /\ obj \in [Node -> ObjType]
    /\ file \in [FD -> File]
    /\ child \in [Client -> {"none", "running", "exited"}]
    /\ out \in [Client -> BOOLEAN]
    /\ conn \in [Client -> ConnType]
    /\ backlog \in [{listenfd, ssl_fd} -> Seq(Client)]

\* The list is well formed while the loop walks over it and removes from it:
\* followed in either direction it has the same nodes, those of the objects in
\* use, and the walk never leaves it (linkedlist.c, selectpool.c:150-172).
ListIsRing ==
    /\ \E s \in [1..ll_count(clients) -> Node] : Represents(clients, s) /\ Range(s) = Pool
    /\ Pool = (IF pc = "SSL_accept" THEN live \ {iter} ELSE live)
    /\ Walking => iter \in Pool \cup {head}

\* Every client of the pool has the socket that was accepted for it, and no two
\* have the same.  Numbers are given again as soon as they are free, and pipes,
\* files and sockets take them from one table.
OwnSocket ==
    /\ \A a \in Pool : file[obj[a].fd] = Sock(obj[a].client)
    /\ \A a, b \in Pool : obj[a].client = obj[b].client => a = b

\* What is handed to select() is open and fits an fd_set: select() never fails
\* for good (selectpool.c:61-86).
SelectValid ==
    pc = "select" => \A n \in ReadFds \cup WriteFds : file[n] # Free /\ n < FD_SETSIZE

\* The numbers that belong to a client of the pool are the ones its object
\* knows: its socket, the file of its response and the pipes of a CGI program
\* that was started.  Nothing is lost on any path of success or failure.
NothingLost ==
    \A a \in Pool, n \in FD :
        LET o == obj[a]
        IN  file[n][2] = o.client =>
                n \in {o.fd, o.fp} \cup (IF o.doing = "cgi" /\ o.pre THEN Range(o.pipes) ELSE {})

\* The readiness that select() reported is about the socket it is used for:
\* recv() on a blocking socket is called only when it returns at once, except
\* for SSL_read() in the middle of a record.
RecvReturns ==
    At("handleread") /\ Receiving =>
        \E k \in Client : file[obj[iter].fd] = Sock(k)
                          /\ (conn[k].waiting # "none" \/ conn[k].peer # "open")

\* A client that stays connected keeps its socket: the server closes nobody's
\* connection because of what others do.
StayingKept ==
    \A k \in Client : conn[k].link = "accepted" /\ conn[k].peer = "open" => HasOpen(Sock(k))

\* The select pool is comprised of all existing client sockets opened by this
\* web server (selectpool.c:6).
PoolIsComplete ==
    pc = "select" => {n \in FD : file[n][1] = "sock"} = {obj[a].fd : a \in Pool}

\* The list and the walk over it implement the round robin.
Rest ==
    LET m == Members(clients)
    IN  IF ~Visiting \/ iter = head THEN <<>>
        ELSE SubSeq(m, CHOOSE i \in 1..Len(m) : m[i] = iter, Len(m))

Turn == INSTANCE RoundRobin
            WITH Member <- Node, members <- Members(clients), rest <- Rest, visiting <- Visiting
RoundRobinSpec == Turn!Spec

\* add_client() has refused the connection, whose socket stays open: the server
\* never looks at it again (selectpool.c:109).
Refused(k) == conn[k].link = "accepted" /\ ~InPool(k) /\ HasOpen(Sock(k))

\* Whatever the other clients do, a client that has made a request, before or after
\* it was accepted, and stays is answered, or its CGI program is started, or it is
\* one that add_client() refuses.
EveryRequestAnswered ==
    \A k \in Client :
        conn[k].asked > conn[k].answers
            ~> \/ conn[k].answers = conn[k].asked
               \/ conn[k].peer # "open" \/ child[k] # "none" \/ Refused(k)

\* The number of a client that has left is given back, unless it was refused or
\* left a CGI program behind.
NumbersComeBack ==
    \A k \in Client :
        (\A i \in 1..Len(Script[k]) : Script[k][i] # "cgi") =>
            (conn[k].peer # "open" /\ InPool(k) ~> ~HasOpen(Sock(k)))
------------------------------------------------------------------------------
(* The inductive invariant.                                                *)

\* No client has more than one request for the CGI program.  (Only the first
\* finds pipes of its own: cgi_preprocessed is never reset.)
OneCgi ==
    \A k \in Client : \A i, j \in 1..Len(Script[k]) :
        Script[k][i] = "cgi" /\ Script[k][j] = "cgi" => i = j

\* What has been asked is in the script.
AskedInv ==
    \A k \in Client : /\ conn[k].asked \in 0..Len(Script[k])
                      /\ conn[k].waiting # "none" => conn[k].asked >= 1

\* recv() returns at once.
Returns(a) ==
    obj[a].fd \in read_set /\ ableToRead(obj[a]) =>
        conn[obj[a].client].waiting # "none" \/ conn[obj[a].client].peer # "open"

\* s is the list and p the place of the walk in it.  A client is marked during
\* its visit and the mark is gone when removeClosedSocket() has passed; those that
\* are still to be visited have what select() has seen.
Ring(s, p) ==
    /\ Represents(clients, s) /\ Range(s) = Pool
    /\ Walking => iter = NodeAt(s, p)
    /\ \A i \in 1..Len(s) :
          obj[s[i]].closed # 0 => (Visiting /\ i < p) \/ (pc = "remove" /\ i >= p)
    /\ OneCgi => \A i \in 1..Len(s) :
          Visiting /\ (i > p \/ (i = p /\ pc = "handleread")) => Returns(s[i])

RingInv ==
    \E s \in [1..ll_count(clients) -> Node], p \in 1..(ll_count(clients) + 1) : Ring(s, p)

LiveInv ==
    /\ Pool = (IF pc = "SSL_accept" THEN live \ {iter} ELSE live)
    /\ pc = "SSL_accept" => iter \in live /\ obj[iter].closed = 0
    /\ \A a \in live : obj[a].client \in Client

\* The object has pipes of its own.
HasPipes(o) == o.doing = "cgi" /\ o.pre

\* Every number of an object is one of its client's, and the other way round.
NumbersInv(a) ==
    LET o == obj[a]
        k == o.client
    IN  /\ file[o.fd] = Sock(k)
        /\ o.fp # NoFile => file[o.fp] = <<"file", k>>
        /\ o.doing \in {"request", "cgi"} => o.fp = NoFile
        /\ HasPipes(o) => \A e \in End : file[o.pipes[e]] = <<e, k>>
        /\ \A n \in FD : file[n][2] = k =>
              n = o.fd \/ n = o.fp \/ (HasPipes(o) /\ \E e \in End : n = o.pipes[e])

\* A request is asked, read and answered before the next one is asked, and
\* cgi_preprocessed is set by a request before the one that is read.
RequestInv(a) ==
    LET o == obj[a]
        k == o.client
        c == conn[k]
    IN  /\ c.link = "accepted"
        /\ o.closed = 1 => o.doing = "over"
        /\ o.closed = 2 => c.peer # "open"
        /\ o.rbuf # "none" => /\ o.doing = "request" /\ o.rbuf = Script[k][c.asked]
                              /\ c.waiting = "none" /\ c.asked >= 1 /\ c.answers < c.asked
        /\ c.waiting # "none" => c.answers < c.asked /\ (o.doing = "request" \/ o.closed = 1)
        /\ o.doing # "request" /\ o.closed # 1 => c.answers < c.asked
        /\ o.doing = "cgi" /\ ~o.pre => c.asked >= 1 /\ Script[k][c.asked] = "cgi"
        /\ o.pre => \E i \in 1..c.asked :
              /\ Script[k][i] = "cgi"
              /\ o.rbuf # "none" \/ c.waiting # "none" => i < c.asked

\* Nobody waits twice, nor at the wrong port; a client that was not accepted has
\* no number and no answer.
QueueInv ==
    /\ \A l \in {listenfd, ssl_fd} :
          /\ \A i \in 1..Len(backlog[l]) : /\ conn[backlog[l][i]].link = "queued"
                                           /\ (backlog[l][i] \in TLS <=> l = ssl_fd)
          /\ \A i, j \in 1..Len(backlog[l]) : backlog[l][i] = backlog[l][j] => i = j
    /\ \A k \in Client :
          conn[k].link # "accepted" => /\ conn[k].answers = 0
                                       /\ \A n \in FD : file[n][2] # k

FixedInv == file[listenfd] = <<"listen", "none">> /\ file[ssl_fd] = <<"listen", "none">>

OwnInv ==
    /\ \A a \in live : NumbersInv(a) /\ RequestInv(a)
    /\ \A a, b \in live : obj[a].client = obj[b].client => a = b
    /\ QueueInv /\ FixedInv /\ StayingKept

\* The inductive invariant: the list and the types whatever is asked, and who has
\* which number as long as no client asks for the CGI program twice.
IInv ==
    /\ TypeOK /\ AskedInv /\ RingInv /\ LiveInv
    /\ OneCgi => OwnInv

\* Neither memory nor places run out, and no handshake fails.
Roomy ==
    /\ Cardinality(Client) <= Cardinality(Node) /\ Cardinality(Client) <= FD_SETSIZE
    /\ "alloc" \notin Faults /\ "handshake" \notin Faults
    /\ TLS \cap Hasty = {} /\ \A k \in TLS : Script[k] # <<>>

\* Every socket is an object's.
SocksOwned == \A n \in FD : file[n][1] = "sock" => \E a \in live : obj[a].fd = n

\* The client that is shaking hands waits for its first answer.
Shaking ==
    pc = "SSL_accept" => obj[iter].client \in TLS /\ conn[obj[iter].client].answers = 0

\* Nobody leaves the SSL port before the last answer.
Patient == \A k \in TLS : conn[k].answers < Len(Script[k]) => conn[k].peer = "open"

CompleteInv == SocksOwned /\ Shaking /\ Patient
==============================================================================
