# lisod in TLA+

`lisod` is a small web server in C (`src/`): one process, one thread, a `select()`
loop, HTTP/1.1 with GET, HEAD and POST, static files, one CGI program, TCP and
TLS.  This directory holds a TLA+ model of it, the TLC runs that check the model
on small instances, and proofs, checked by TLAPS, that its central invariants
hold for every value of the parameters.

There are three detailed models, which look at the same program at three
distances: `ClientSocket` at the bytes of one connection, `NetService` at the
descriptors, the memory and the turns of all connections, and `Daemonize` at the
processes that are started with the same lock file, log and ports.

## 1. Inventory

| component | state | operations | status |
|---|---|---|---|
| client socket (`clientsocket.c`) | `closed`, `readbuf`/`readIndex`, `writebuf`/`writeIndex`, the request, the response, the CGI members | `new_ClientSocket`, `DeleteClientSocket`, `ableToRead`, `ableToWrite`, `handleread`, `handlewrite` | modelled |
| select loop (`netservice.c`, `selectpool.c`, `pool_internal.c`) | the two fd sets, the list of clients, the listening sockets | `prepare_select`, `refresh_select`, `net_service`, `accept_newclient`, `add_client`, `removeClosedSocket` | modelled |
| linked list (`linkedlist.c`) | the pointers and the count | `init_linkedlist`, `ll_insert_last`, `ll_remove`, `ll_start`, `ll_next`, `ll_count` | modelled |
| http request (`process_request.c`, `httprequest.c`) | `request.state`, the line, the headers, the content, `httpmethod` | `process_request` and its helpers, `init_request`, `makeKVPair`, `getValueByKey` | modelled |
| http response (`process_response.c`, `httpresponse.c`) | `response.state` (stages 0 to 13, -1), `bufIndex`, `httpcode`, the texts, the file, `isPipelining` | `preprocess`, `process_response`, `start_pipelining`, `addBuffer`, `readFileContent` | modelled |
| http (`http.c`) | none | `http_process` | modelled |
| cgi (`cgi.c`) | four pipe ends, the child, `cgi_preprocessed` | `is_cgi`, `preprocess_cgi`, `process_cgi` | partly: not the environment, nor the connections a child inherits |
| static files (`staticfile.c`) | none | `make_path`, `getMIMEType`, ... | partly: by what `preprocess` learns from them |
| https (`ssl.c`) | the bytes inside the SSL object, the handshake | `client_context_init`, `ssl_init` | modelled |
| daemon (`daemonize.c`, `main.c`) | the descriptors, the lock file, the signal handlers | `main`, `daemonize` | modelled |
| logger (`logger.c`) | the stream and the file | `log_init`, `log_print` | partly: who writes where, not what |
| flaskr, tests and scripts | | | not modelled (see section 8) |

### How the components interact

Everything runs in the one thread, in the order of `net_handle()`:

    refresh_select -> for every client: handleread, http_process, handlewrite
                   -> removeClosedSocket -> accept_newclient

`http_process()` parses (`process_request`), asks `is_cgi`, and either polls the
CGI program (`process_cgi`) or continues the response (`process_response`).  The
components share the `ClientSocket` object: the parser writes `request.state` and
also `response.httpcode`; `process_response` reads both, fills `writebuf` and,
through `start_pipelining`, frees the request; `handlewrite` empties the buffer
and sets `closed`; `removeClosedSocket` resets the response.  No component has
the state of the connection to itself, and most of the hazards come from that.

The connections share the thread, the list of the pool, the table of descriptors
and the heap.  Sockets, files and pipe ends take the lowest number that is free,
whoever gave it back; `malloc()` returns memory that an earlier connection has
used.  The CGI programs are processes of their own: they write into a pipe, hold
copies of the server's descriptors, and may outlive it.  Instances of the server
meet in the lock file, the log and the two ports.

### What is hard

* The work of a connection is cut into visits of the loop, at places that the
  sizes of buffers, texts and files decide.  A test sees one alignment.
* The readiness found by `select()` is used after the request and the response
  changed, and it does not cover the bytes inside OpenSSL.
* With pipelining the next request is parsed into the same object while the
  previous response is still being sent.
* The mark for closing (`closed`) has two meanings, 2 for the socket and 1 for
  the response, and is set in four places.
* Errors happen in the middle: a client that goes away, a refused line, a failed
  allocation, a CGI program that cannot be started, a `send()` that a signal
  interrupts.
* One thread serves everybody: a `send()` without room, an `SSL_read()` in the
  middle of a record and an `SSL_accept()` wait for one client, and all others
  with it.
* Numbers and nodes are reused: a descriptor that is closed twice, kept too long
  or forgotten belongs to another connection or to nobody, and a node is freed
  while the list is walked.
* Instances start, fail and are killed at any call, in any order.
* `malloc()` does not clear the object: `writeIndex`, `httpmethod` and `ctLength`
  start with any value.

`PROJECT.json` lists each hazard at its line with the properties that watch it.

### What makes each component correct

* Buffers: nothing is written past the end; every byte reaches the client once
  and in order, wherever a piece was cut.
* Request: a line is judged when its `\r\n` is there, once; what the parser
  stores fits what it found.
* Response: the stages follow one another; the data a stage needs (the request,
  the code, the open file) is there when it runs and has not changed.
* Loop: a connection that is marked never reaches `select()`; a complete response
  always ends in a reset; a client that has gone is noticed.
* Whole connection: the client receives the replies to its requests, in order.
* Pool: the list is a ring of the objects in use; a number belongs to the
  connection that uses it; `recv()` is called only when it returns; everybody has
  a turn, in the order of arrival; what a connection used is given back.
* Start: one instance serves, the lock file names it, the log is its own, and not
  all of them give way.

## 2. Modules

| module | what it is |
|---|---|
| `HttpRequest` | the wire alphabet and the pure functions of `process_request.c` and `httprequest.c` |
| `HttpResponse` | the texts of a response, `addBuffer`, `readFileContent`, the order of the stages, and `Reply`, the reply a request is owed, defined from the texts and not from the state machine |
| `HttpService` | the abstract specification: a client asks, and receives byte by byte, in order, the replies to its requests |
| `ClientSocket` | the detailed specification: one connection, the loop, the kernel's two buffers, the CGI child, the client; its properties; the refinement of `HttpService` |
| `MCClientSocket` | the constants and the request scripts for TLC |
| `LinkedList` | the list as operators on its pointers, and what it means that the pointers represent a sequence |
| `RoundRobin` | the abstract specification of the loop: in every turn each member is visited once, in the order of arrival, and the members change only between the visits |
| `NetService` | the detailed specification of the pool: the loop, the listening sockets, the descriptor table, the memory, the CGI children, the clients; the refinement of `RoundRobin` |
| `MCNetService` | its constants for TLC |
| `Daemonize` | several instances of `main()`: `daemonize`, `log_init`, `start_server`, and their deaths |
| `MCDaemonize` | its constants for TLC |
| `LinkedListProofs` | theorems about the list operators |
| `NetServiceProofs` | the inductive invariant of the pool and its theorems |
| `DaemonizeProofs` | the inductive invariants of the start and its theorems |
| `RoundRobinProofs` | the pool implements `RoundRobin` |
| `HttpResponseProofs` | lemmas about `addBuffer`, `readFileContent`, the texts of a reply and the symbols of a request |
| `ClientSocketProofs` | the inductive invariant of the connection and its theorems |
| `ClientStreamProofs` | the inductive invariant of its byte stream; the connection implements `HttpService` |

### State and actions of `ClientSocket`

| variable | code |
|---|---|
| `pc` | the place in the cycle above; `gone` after `DeleteClientSocket`, `crashed` after a NULL pointer was used |
| `inRead`, `inWrite` | the connection's bits in `read_set` and `write_set` after `select()` |
| `closed` | `clisock->closed` |
| `readbuf`, `writebuf` | the buffers; their lengths are `readIndex` and `writeIndex` |
| `request`, `response` | the members of the same names; `request.line` stands for `store`, `method`, `uri` and `httpversion`; `response.file` for the texts and the size that `preprocess` took from the file, `fpos` for `ftell(fp)` |
| `cgi` | `cgi_preprocessed`, the stdout pipe, who holds its writing end, what is in it, what the program will still write |
| `inbox`, `outbox` | the kernel's receive and send buffers |
| `isHTTPS`, `pending` | the transport, and how many bytes of `inbox` OpenSSL has already taken |
| `script`, `asked`, `todo`, `rx`, `answers`, `intact`, `peer` | the client |

There is one action for every way a call can end: a return, or a branch that
changes something else.  A piece of text of the response is one action
(`WritePiece`), repeated within one call of `process_response` as long as pieces
fit; no other process can observe the state between two of them.  The mutation
operators, marked `Mutation:`, are the forms of a definition that a plausible bug
would give it; each property is broken by one of them under its own run.

### State and actions of `NetService`

| variable | code |
|---|---|
| `pc`, `iter` | the place in `net_handle()` and the node that `FOR_EACH_CLIENT` or `removeClosedSocket` has reached; at `SSL_accept` the node that is not yet on the list |
| `read_set`, `write_set` | the sets, before and after `select()` |
| `clients` | `pool.clients`, with the pointers of every node |
| `live`, `obj` | which memory is allocated, and what every cell holds, allocated or not.  One cell stands for a `ClientSocket` and its list node, which are allocated and freed together |
| `obj[a].doing` | where the connection is with its request: reading it, running its CGI program, writing headers, writing the file, over (`response.state` and `request.state`) |
| `obj[a].rbuf`, `wbuf` | which request has been read, and whose bytes are in the write buffer |
| `obj[a].fd`, `fp`, `pipes`, `pre` | the numbers of the socket, of the file and of the pipe ends; `cgi_preprocessed` |
| `file` | the descriptor table of the process |
| `child`, `out` | the CGI program of a client, and whether its pipe has output |
| `conn`, `backlog` | the clients, and the queues of the listening sockets |

Each function has one action for every way it ends: `Select` with its failure
(`nready < 0`, after which `net_handle` returns); `NoRead`, `Read`, `ReadEnd`;
`Idle`, `ParseStatic`, `Respond`, `ParseCgi`, `CgiStart`, `NoPipes`, `CgiFails`,
`CgiPoll`; `NoSend`, `Send`, `SendToClosed`, `SendFails`; `RemoveClosed`,
`ResetResponse`, `KeepClient`; `NoAccept`, `AcceptFails`, `AddFails`, `AddClient`,
`AddTlsClient`, `HandshakeDone`, `HandshakeFails`.  A call that blocks is an
action that is not enabled until it returns, and in the meantime no action of the
server is.

`Ask` is the client's: its kernel has connected it as soon as it is in a queue
(`Connected`), so it may send its request before `accept()`, and also when
`add_client` has refused it and nobody serves its socket (`Refused`).  At the SSL
port the handshake comes first, and `lisod` makes it before the client is in the
pool.

### State and actions of `Daemonize`

| variable | code |
|---|---|
| `pc` | the call that an instance makes next, from `fork` to `serve`, or how it ended |
| `fds` | its descriptor table, by number |
| `locked` | who has the lock of `lockf()`; the kernel releases it when the process ends |
| `lock_file` | the contents of the lock file |
| `log_file`, `log_fp`, `written` | the log as the pieces that single calls of `write()` put there, the position of each stream in it, and how many pieces an instance has written |
| `cgi` | the children of instances: before `execve()`, with the beginning of a piece in their copy of the stream's buffer, or running the CGI program |
| `lingering` | the ports with connections in TIME_WAIT that a dead server leaves |

A child writes into the log when `prepare_envp()` or `execve()` fails, because it
ends with `exit()` (`cgi.c:250`, `cgi.c:260`): its copy of the buffer and its own
line, at the position it shares with the server (`ChildFails`).  An instance whose
`start_server()` fails logs that (`main.c:39`, `StartFails`).  Both matter to what
the log can be promised to hold.

### What is abstracted

* A request line, a header line and a byte of content are one symbol each, `CR`
  and `LF` are symbols of their own.  `BUFSIZE` counts symbols on the way in and
  bytes on the way out.
* `Method[l]` and `Target[l]` say what the parser and the file system make of the
  line `l`: a bad line, a CGI path, a file, a missing file, a file that `stat()`
  finds and `fopen()` does not open, a path without a dot.
* A byte of a response names its stage, the code or the file it depends on, and
  its position, so that a lost, repeated or misplaced byte differs from the
  right one.
* The log's texts, the environment, the dates and the MIME types are left out.
* `recv()` and `send()` that a signal interrupts before a byte has passed (`EINTR`,
  `clientsocket.c:126` and `169`) change nothing: the visit goes on like one in
  which `select()` has not reported the socket, which is `NoRead` and `NoSend`.
* In `NetService` a request is read in one piece, and a reply takes one buffer or
  two.  What happens inside a request or a reply is in `ClientSocket`.  A
  malformed request and a POST are left out there, too.
* `DevNull` in `NetService` stands for all the numbers that are opened before the
  listening sockets and never closed.

## 3. Runs

A run has the `.cfg` of its name; `pool` and `turns` use `MCNetService`, `daemon`
uses `MCDaemonize`, the others `MCClientSocket`.

| run | question | result |
|---|---|---|
| `serve` | does a client that waits for its answers get exactly the replies it is owed (`StreamOwed`), and does the connection implement `HttpService` (`ServiceSpec`, safety and liveness)? Does the invariant behind the proofs of both hold (`StreamInv`)? | holds; 37 thousand states |
| `adverse` | does the object keep its protocol under every fault and every kind of request? `TypeOK`, `NeverSelectClosed`, `FinishedHasBytes`, `RequestHeld`, `BodyHasFile`, `IInv`, `CodeIsSettled` | holds; 1.4 million states |
| `reaped` | is a client that has gone always noticed, outside CGI and POST (`HungUpReaped`)? | holds; 137 thousand states |
| `pool` | do list, descriptors and memory stay what they are taken for while connections come and go and numbers run short? `TypeOK`, `ListIsRing`, `OwnSocket`, `SelectValid`, `NothingLost`, `RecvReturns`, `StayingKept`, `PoolIsComplete` | holds; 670 thousand states |
| `turns` | does the walk over the list implement `RoundRobin` (safety and liveness), is everybody answered that `add_client` does not refuse (`EveryRequestAnswered`), do numbers come back (`NumbersComeBack`), with every fault and with clients that block the server? And `IInv` | holds; 105 thousand states |
| `daemon` | is there one server, and is there one at all? Is its log its own? `TypeOK`, `OneServer`, `PidOfServer`, `LogOfServer`, `Detached`, `OneOfThemServes` | holds; 764 thousand states |
| `post`, `badline`, `pipelined`, `cgi_output`, `cgi_end`, `shortsend` | what the documentation and the tests say, against what the code does | violated, see section 7 |

`serve` has no bad requests, no POST, no CGI and no pipelining, because section 7
shows what happens to those; it has every kind of reply to GET and HEAD (200, 404,
500 for a file that cannot be opened), first on a connection and after another
one, over both transports, and a client that may hang up at any moment.
`adverse` turns everything on.

`pool` has three clients, one at the SSL port, one that runs the CGI program after
another request, one that asks for a file and may leave in the middle of it, and
nine descriptors, three of which are taken from the start: with three sockets, a
file and four pipe ends wanted, the second `pipe()`, `fopen()` or `accept()` fails,
depending on the order.
Numbers of closed sockets become files and pipes, and a freed cell is any of the
three.  It has no `Faults`, because `PoolIsComplete` is about them: an accepted
connection that `add_client` refuses is in no pool and its number is lost
(`selectpool.c:109`); the action `AddFails` says so.

`turns` has a client at each port.  The one at the SSL port may stop in its
handshake, in the middle of a record, and may leave what it is sent in the socket,
so that the server waits for it in every way it can; the liveness properties then
say that the other is served nevertheless, as long as the first goes on or leaves.
The other one runs the CGI program, which may fail to start; it may also
be refused for want of memory and send its request all the same.  That request is
never answered, and `EveryRequestAnswered` makes the exception by name (`Refused`).

`daemon` starts three instances, each once.  The pids have two and three digits,
and the lock file has a pid of two digits in it, so that in time a pid is written
over a shorter one, a longer one and one of its length.  `CHECK_DEADLOCK` is off
because the system may stop: when all instances have ended nothing is left to
happen.

### Bounds, and why they are enough

* `BUFSIZE` (3, 4 or 6; 8192 in the code).  With 4 a whole request line with its
  CRLF fits, pieces of two bytes are cut, a file of 5 needs two buffers and a
  file of 4 fills one exactly.  With 3 the headers fill the buffer a whole number
  of times, so that the body begins with a full and with an empty buffer.  With 6
  a send can be cut short and a line of 7 symbols overflows the buffer.
  The stages depend on lengths only through "fits" and "does not fit", and every
  stage meets both.
* `PieceLen` is 1 or 2, `FileSize` 0, 4 or 5, `CgiSize` 4 or 5.
* `SNDBUF` and `RCVBUF` (6 and 2; 3 and 1 in `adverse`): the kernel's buffers; a
  send has to wait, and a request arrives in parts.
* A script has one or two requests: one leaves its traces in the object (the
  code, the method, `cgi_preprocessed`, the buffer), the other meets them.
* `Garbage` (0; 0 and 2 in `adverse`): the uninitialised members.  Values outside
  0 .. `BUFSIZE` are not modelled; with them the first `memcpy` is out of bounds.
* In `NetService` a memory cell is as good as any other, so `pool` declares the
  permutations of `Node` a symmetry; it checks no liveness.  `turns` has none.
* The limit of `add_client` (`FD_SETSIZE` clients) is never reached when
  descriptors run out first, in the code as in the runs; there `AddFails` fires
  for want of memory.  With `FD_SETSIZE` below the number of descriptors
  `SelectValid` fails, and the theorem has the condition.
* `MaxLog` (2): the position up to which a server and its children write.  One
  piece shows a truncation, the second a hole, an overwritten piece or one that is
  there twice.  A child that finds the log at this length ends without writing.
* There is no counter without a bound, and deadlock is checked in every run but
  `daemon`: the final states `gone` and `crashed` of `ClientSocket` have
  the explicit step `Over`, and the loop of `NetService` does not stop.

## 4. Fairness

`WF(Server)`: `main()` calls `net_handle()` for ever and `select()` has a timeout.
`WF(ChildWrite)`: the CGI program runs.  `WF(Deliver)`: the network delivers what
the client has written.  `WF(Receive)`: the client reads what has arrived.  There
is no fairness on `Ask` and `HangUp`: no client has to make a request or to leave.
A client that stops reading is thereby excluded from the liveness properties
only; with it a blocking `send()` really waits for ever.

In `NetService`: `WF(Server)`, and for every client `WF(Shake)`, `WF(AskRest)` and
`WF(Drain)`: a client that holds the server in `SSL_accept`, `SSL_read` or `send`
ends it in the end.  Without them the properties are false, because one
client that stops there stops the server.  No client has to connect, to ask or to
leave, and a CGI program need not end: it is polled, and nobody waits for it.

In `Daemonize`: `WF(Step(i))`, because nothing before the first `select()` waits
(`F_TLOCK` fails at once).  Nobody has to start or to be killed, and connections
in TIME_WAIT need not end.

## 5. Proofs

### The connection

`ClientSocketProofs` proves, for every `BUFSIZE >= 3`, every size of texts, files
and kernel buffers, every set of request lines and scripts, every set of faults:

| theorem | statement |
|---|---|
| `Inductive` | `IInv /\ [Next]_vars => IInv'` |
| `Invariant` | `Spec => []IInv` |
| `TypeCorrect` | `Spec => []TypeOK` |
| `AssertHolds` | `Spec => []NeverSelectClosed`, the assertion at `pool_internal.c:41` |
| `NoWedge` | `Spec => []FinishedHasBytes` |
| `RequestStays` | `Spec => []RequestHeld` |
| `FileStays` | `Spec => []BodyHasFile` |
| `CodeSettled` | `Spec => CodeIsSettled` |

The assumptions are `RequestAssumption`, `ResponseAssumption` and
`ClientAssumption`, which TLC evaluates in every run.

The argument.  None of the safety properties is inductive.  `IInv` adds:

* `LoopInv`: `closed` is set only on the way to `removeClosedSocket`; a finished
  response never reaches the parser, because `http_process` returns first.
* `ParserInv`: from the request line on there is a line; in `REQ_CONTENT` the
  buffer is empty and no content was ever allocated (this is why a POST is not
  answered, and why the content branch has no effect); the parent holds the
  writing end of an open pipe (this is why the end of the CGI output is not seen).
* `HeaderInv`: in stages 0 to 12 the request is still `REQ_DONE` and nothing is
  pipelined, so the parser does not run; stages 5 to 12 have the code 200; a GET
  with 200 has its file open at position 0; `bufIndex` is inside the piece.
* `BodyInv`: in stage 13 the position is before the end of the file, or at the end
  of it inside the very call that wrote the headers, with bytes in the buffer.

`FinishedHasBytes` follows from the last two with the lemmas `AddBuffer` and
`ReadFile`: a piece has at least one byte, and a file that is finished by a later
visit has at least one byte left for it.  `CodeIsSettled` follows because every
step that writes `httpcode` needs a parser that runs, `is_cgi`, or a response
that is not preprocessed, and `HeaderInv` excludes all three.

### The byte stream

`ClientStreamProofs` proves, for the same parameters and under `Undisturbed`:

| theorem | statement |
|---|---|
| `StreamAlways` | `Spec => [](IInv /\ StreamInv /\ intact)` |
| `NothingLost` | `Spec => []StreamOwed` |
| `NothingElse` | `Spec => []StreamIntact` |
| `ServiceImplemented` | `Spec => Service!Init /\ [][Service!Next]_(Service!vars)` |

`Undisturbed` is what `serve` has: requests for files with valid lines (GET or
HEAD, found, missing or not readable), made one at a time, a client that may hang
up, uninitialised members that are zero, and no other fault.  Each part is needed.
With a POST, a bad line, a pipelined request, the CGI program or an interrupted
`send()` the properties are false, which are the findings of section 7; with a
`writeIndex` that is not zero (`clientsocket.c:30`) the client is sent bytes that
nobody wrote; when memory is short the client gets another reply than `Reply`.
The sizes of the buffers, files and texts, the transport, the number of the
requests and of their header lines are arbitrary.

`StreamInv` says, of a client that has not hung up, that it either waits for
nothing and nothing is on its way, or that the one request it waits for is at one
of four places:

* `Reading`: `c` symbols of it are in the object.  The parser has taken whole
  lines, the read buffer has the symbols after them, and the sockets have the
  rest.  A line or a request that is complete in the buffer is parsed before
  anything else is read (`pc`), so the buffer never has more than the three symbols
  of a line, and the parser never sees a part of two lines.
* `Accepted`: it is parsed, and nothing of its response exists.
* `Writing`: what was received, sent and written is exactly what the stages up to
  this one have made, cut at `bufIndex` or `fpos` (`Written`); the code and the
  file are those of the request.
* `Finished`: it is the whole reply, and the request has been reset.

Each step has a lemma of its own.  Three facts carry them: a reply is the
concatenation of the texts of its stages, and the place of a stage in that list is
known (`StageText`, `ReplyIs`); `addBuffer` and `readFileContent` append exactly
what the next call will not (`AddBufferText`, `ReadFileText`); a request on the
wire is its lines one after the other (`EncodedIs`).  `FlattenSeq`, with which
replies and requests are put together, is a recursive function; what it does to a
sequence with one element more is proved once (`FlatExists`, `FlattenAppend`) from
the existence of the function, by the induction over `1..n` in `Counting`.  A byte
completes a reply only when nothing else is on its way, because a reply that is
still being written has something left to write or in the buffer
(`WrittenFacts`), and by then the response is marked for its reset
(`FinishedHasBytes`); so the next request meets an empty connection.

The refinement maps `Ask`, `Receive` and `HangUp` to the actions of these names
and all other steps to none.  For `Receive` the byte taken has to be the next one
of the reply, which is `StreamInv` for the head of `outbox` (`ReceiveFacts`).

### The list

`LinkedListProofs`: `Represents(ll, s)` says that the pointers, followed in either
direction, give the sequence `s`, each node once.  `InitRepresents`: the empty
list represents `<<>>`.  `InsertAppends`: `ll_insert_last` appends.  `RemoveTakesOut`:
`ll_remove` takes one node out, wherever it is.  `FreeKeeps`: what `free()` does to
a node that is not on the list does not matter.  `NextIsNext`: `ll_next` is the
next of the sequence.  `MembersAre`: the pointers represent no other sequence, so
`Members`, which chooses one, gives this one.

### The pool

`NetServiceProofs` proves, for any finite sets of clients and memory cells, any
scripts, any number of descriptors and any faults:

| theorem | statement |
|---|---|
| `Invariant` | `Spec => []IInv` |
| `TypeCorrect` | `Spec => []TypeOK` |
| `ListIsAlwaysRing` | `Spec => []ListIsRing` |
| `OwnSocketAlways` | `OneCgi` implies `Spec => []OwnSocket` |
| `SelectAlwaysValid` | `OneCgi` and `NOFILE <= FD_SETSIZE` imply `Spec => []SelectValid` |
| `NothingIsLost` | `OneCgi` implies `Spec => []NothingLost` |
| `RecvAlwaysReturns` | `OneCgi` implies `Spec => []RecvReturns` |
| `StayingAlwaysKept` | `OneCgi` implies `Spec => []StayingKept` |
| `PoolAlwaysComplete` | `OneCgi` and `Roomy` imply `Spec => []PoolIsComplete` |
| `ServedInTurn` (`RoundRobinProofs`) | `Spec => Turn!Init /\ [][Turn!Next]_(Turn!vars)` |

The assumptions are `ListAssumption` and `PoolAssumption`.  `OneCgi` says that no
client has two requests for the CGI program.  It is needed: `cgi_preprocessed` is
never reset, so after a first request that failed a second one uses the numbers
that its pipes had, whatever they are now, and closes them; with three clients
TLC finds `OwnSocket` and `StayingKept` violated in that way (`NothingLost` was not).
With one, every number in an object is its own.

`IInv` is the conjunction of `TypeOK` and

* `AskedInv`: what was asked is in the script; otherwise `Read` has no value.
* `RingInv`: for some sequence `s` and place `p`, the pointers represent `s`, the
  walk is at `s[p]`, marks (`closed`) are only on clients that were visited in this
  turn and not yet passed by `removeClosedSocket`, and what `select()` saw is still
  true of those to come.  The place is what makes it inductive: `RemoveClosed`
  takes `s[p]` out and continues at what was `s[p + 1]`, which is why the next node
  is read first.
* `LiveInv`: the list has exactly the allocated cells, but for the one in
  `SSL_accept`.
* `OneCgi => OwnInv`.  `NumbersInv`: each number of an object refers to its own
  client, and each number of the client is in the object.  `RequestInv`: a request
  is asked, read and answered before the next, `closed = 2` only when the client
  has gone, and `cgi_preprocessed` comes from an earlier request.  `QueueInv`:
  clients in a queue are there once, at their port, and have neither numbers nor
  answers, though they may have asked.
  `FixedInv`: the listening sockets stay open.

A close needs `NumbersInv` of all objects (nobody else has that number), an open
needs that the number was free, and a read needs that the socket `select()` saw is
the one that is read.

`PoolIsComplete` needs `CompleteInv` as well: every socket is some object's
(`SocksOwned`), the client in `SSL_accept` has no answer yet (`Shaking`), and nobody
leaves the SSL port before the last one (`Patient`), so that the handshake does not
end in a failure.  `Roomy` is the condition that `add_client` never refuses and no
handshake fails: no more clients than memory cells and places in the sets, neither
of these faults, and at the SSL port only clients that have a request to make and
stay until it is answered.  Without it the property is false, because the number
of a refused connection is lost (`selectpool.c:109`).

`ServedInTurn` needs no condition.  `RingInv` gives the sequence of members and the
place of the walk, `MembersAre` that the refinement mapping computes the same
sequence, and the list theorems what each step makes of it: a step to the next
client takes the head of what is left of the turn, `AddClient` appends,
`RemoveClosed` takes out the member at the place and leaves the others in their
order, and every other step changes neither.

### The start

`DaemonizeProofs` proves `TypeCorrect`, `OneServerAlways`, `PidOfServerAlways`,
`LogOfServerAlways` and `DetachedAlways` for any set of instances, any pids, any
contents of the old lock file and any faults, under `DaemonAssumption`.  What they
add to the properties: `LockHeld`, who is past `lockf()` has the lock until it
dies; `LogInv`, what the log holds from the lock on; `TableInv`, the descriptor
table at every call.

`LogInv` has to deal with the children, which write without the lock.  A child of
the server writes at the server's position, so that what is before it grows by a
piece that the server wrote or by a copy of the beginning of one.  A child of an
earlier server would write at a position of its own, but it holds the ports: as
long as there is one, no later instance gets past `bind()`, and the log of an
instance that has not logged yet is intact whatever the file holds after its
position (`EmptyIntact`).  So whoever serves is the only one with children.

### What is only model-checked

Everything about liveness, which needs `ENABLED` and fairness: `HungUpReaped`,
`EveryRequestAnswered`, `NumbersComeBack`, `OneOfThemServes`, and the fairness
parts of `ServiceSpec` and `RoundRobinSpec` (the theorems have their initial states
and their steps).  What `StreamOwed` says of several requests under way at once is
not proved either: with pipelining it is false (section 7).

## 6. Properties and what would break them

| property | broken by |
|---|---|
| `TypeOK` | `FreeSpaceOneMore`: one byte past the buffer |
| `NeverSelectClosed` | `NextResponseKeepsMark`: `closed` not reset |
| `FinishedHasBytes` | `readFileContentStrict`: `<` for `<=` |
| `RequestHeld` | `RespondingAlways`: no test of `request.state` |
| `BodyHasFile` | `needOpenForHead`: the file opened for the wrong method |
| `CodeIsSettled` | `NextResponseKeepsPipelining`: `isPipelining` not reset |
| `IInv` | `HeadersEndKeepsBuffer`: `*lenptr` not reset |
| `StreamOwed` | `addBufferFromStart`: `bufIndex` ignored |
| `ServiceSpec` | `ReadableBySelect`: no `SSL_pending()` |
| `StreamInv` | `HeadersEndKeepsBuffer`, again: symbols that belong to no request |
| `HungUpReaped` | `ReadEndAsFinished`: `closed = 1` for `closed = 2` |

Of `NetService` and `Daemonize`:

| property | broken by |
|---|---|
| `TypeOK` (pool) | `RemoveClosedLate`: the next node is read from a node that was freed |
| `ListIsRing` | `ll_insert_lastOneWay`: `node->prev` not set |
| `OwnSocket` | `RemoveClosedPipes`: the uninitialised pipe numbers closed with the object |
| `SelectValid` | `ResetResponseSocket`: the socket closed in place of the file |
| `NothingLost`, `IInv` | `ResetResponseOnly`: no `delete_response()` |
| `RecvReturns` | `ReceivingUnasked`: `recv()` without `FD_ISSET` |
| `StayingKept` | `AfterSendCloses`: `closed = 2` after a response |
| `PoolIsComplete`, `NumbersComeBack` | `RemoveClosedLeaks`: the socket not closed |
| `RoundRobinSpec` | `NextClientSkips`: one client passed over |
| `EveryRequestAnswered` | `ableToWriteNotOver`: `isPipelining` ignored |
| `TypeOK` (daemon) | `LineAndNul`: the byte after the string written, too |
| `OneServer` | `LockfIgnored`: the result of `lockf()` ignored |
| `PidOfServer` | `WrittenAppend`: the lock file opened for appending |
| `LogOfServer` | `ForkLogged`: the log opened before the lock is taken |
| `Detached` | `CloseRest`: descriptors 0 to 2 left open |
| `OneOfThemServes` | `OpenExclusive`: the lock file opened with `O_EXCL`, a former bug that `daemonize.c:4` names |

## 7. Findings

1. `post`: no POST is answered.  After the headers `handleread` waits for the
   content to be allocated (`clientsocket.c:77`) and `process_request` for a byte
   (`process_request.c:53`).
2. `badline`: the error returns of the parser keep the buffer, so a refused line
   is refused for ever, one 400 after the other.
3. `pipelined`: while the last bytes of a response are sent the next request is
   read but not parsed (`http.c:28`); a line end that passes meanwhile spoils it.
4. `cgi_output`: `process_cgi` reads over unsent bytes of `writebuf`.
5. `cgi_end`: the parent keeps `stdout_pipe[1]`, the end of the output is never
   seen, the connection is never freed.
6. `shortsend`: `closed = 2` after a short `send()` is overwritten with 1 when the
   response was complete (`clientsocket.c:185`).

Besides the runs above, the models have steps in which the code does what no
property promises, and which the properties exclude by name or by the constants:

* A connection that `add_client` refuses stays open, is in no pool and is lost
  (`selectpool.c:109` and `128`): `PoolIsComplete` is checked without those faults,
  `EveryRequestAnswered` and `NumbersComeBack` except such a client.
* The pipes of a client that leaves before its CGI program has ended are lost
  (`clientsocket.c:41`), and those of every CGI program, whose end is not seen
  (`cgi.c:61`): `NumbersComeBack` is about the other clients.
* `cgi_preprocessed` is never reset (`selectpool.c:164`), so a second CGI request on a
  connection uses and closes the numbers of the first one's pipes, which by then
  may be somebody else's (`cgi.c:38`): the condition `OneCgi`.
* `writeIndex` is not initialised (`clientsocket.c:30`): a new client may be sent what
  another one was not.  No property says that it is not; `adverse` starts with
  garbage in the members.
* The sockets are blocking (`set_nonblocking` is never called), so a client that does
  nothing in its handshake stops the server (`ssl.c:91`): the fairness of `Shake`,
  `AskRest` and `Drain`.
* A file is not sent to its end when the next request on the connection is a POST
  (`process_response.c:105`), and a request for a file without an extension, or an
  allocation that fails, ends the server (`staticfile.c:56`,
  `process_response.c:194`): no property says otherwise.
* A child that cannot start the CGI program writes a part of the log a second time
  (`cgi.c:260`): `LogOfServer` allows for the copies and their place.
* A restarted server that finds its ports held exits with status 0
  (`netservice.c:88`): `OneOfThemServes` makes the exception.

## 8. Not modelled

* flaskr is the example program for CGI, library calls for the most part; the
  server knows its output and its end, and those are modelled.  The scripts send
  single requests.
* `ll_delete_allnodes` as pointers: it is called for the headers of a request
  only, which are a sequence here.
* `prepare_envp`, the dates, MIME types and paths: texts.  The lines of the log.
* The copies of the connections' sockets in a CGI child, which keep a connection
  open for its client after the server has closed it.  The copies of the listening
  sockets and of the log are in `Daemonize`.
* `fread()` errors: the comment at `process_response.c:295` says that the code
  does not handle them.  `select()` interrupted by a signal: `net_handle()`
  returns and is called again, a step that changes nothing.
* `setsid()` and `umask()`.

## 9. The order of the work

1. `HttpRequest`, `HttpResponse`, `HttpService`, `ClientSocket`: the bytes of one
   connection, its runs, `HttpResponseProofs`, `ClientSocketProofs`,
   `ClientStreamProofs`.
2. `LinkedList`, `RoundRobin`, `NetService`: the pool, the runs `pool` and `turns`,
   `LinkedListProofs`, `NetServiceProofs`, `RoundRobinProofs`.
3. `Daemonize`: the start, the run `daemon`, `DaemonizeProofs`.

What could follow: that a client receives only its own bytes when memory is reused
(it does not, see `clientsocket.c:30` in the hazards; the property would need
`writeIndex` to be set), and the copies of descriptors in the CGI children.
