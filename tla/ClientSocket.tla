----------------------------- MODULE ClientSocket ----------------------------
(***************************************************************************)
(* One accepted connection of lisod: its ClientSocket object, the steps    *)
(* the select loop takes for it, the socket's two byte streams, the CGI    *)
(* child it may start, and the client at the other end.                    *)
(*                                                                         *)
(* lisod is one thread.  net_handle() is, for this connection, the cycle   *)
(*                                                                         *)
(*   select -> handleread -> http_process -> is_cgi -> process_response    *)
(*          -> handlewrite -> remove -> select                             *)
(*                                                                         *)
(* and pc is the place in it.  The client, the network and the CGI child   *)
(* step in between.  The readiness that select() reports is kept in inRead *)
(* and inWrite: it is computed once and used after the state changed.      *)
(***************************************************************************)
EXTENDS HttpResponse

CONSTANTS
    Scripts,    \* the sequences of requests a client may make
    Pipelining, \* TRUE when the client asks again before it has its answer
    Transports, \* the values of isHTTPS to consider, a subset of BOOLEAN
    Faults,     \* what may go wrong: "alloc", "cgi", "signal", "hangup"
    Garbage,    \* the values uninitialised int members may start with
    SNDBUF,     \* capacity of the kernel's send buffer
    RCVBUF      \* capacity of the kernel's receive buffer

ASSUME ClientAssumption ==
    /\ Transports \subseteq BOOLEAN /\ Pipelining \in BOOLEAN
    /\ Faults \subseteq {"alloc", "cgi", "signal", "hangup"}
    /\ Garbage \subseteq 0..BUFSIZE
    /\ SNDBUF \in Nat /\ SNDBUF >= BUFSIZE
    /\ RCVBUF \in Nat \ {0}
    /\ \A s \in Scripts : /\ Len(s) \in Nat
                          /\ \A i \in 1..Len(s) : Encoded(s[i]) \in Seq(Wire)

VARIABLES
    script, asked, todo,    \* the client: its requests, how many it has made,
                            \* and the bytes still to be delivered
    peer,                   \* "open", "closed" (FIN), "reset" (RST seen)
    rx, answers, intact,    \* the client: the reply being received, how many
                            \* it has, whether all bytes were the ones owed
    isHTTPS, inbox, outbox, \* the socket
    pending,                \* bytes of inbox already inside the SSL object
    pc, inRead, inWrite,    \* the select loop
    closed, readbuf, writebuf, request, response,   \* the ClientSocket object
    cgi                     \* its CGI members, the stdout pipe and the child

clientVars == <<script, asked, todo, peer, rx, answers, intact>>
netVars    == <<isHTTPS, inbox, outbox, pending>>
loopVars   == <<inRead, inWrite, closed>>
dataVars   == <<readbuf, writebuf, request, response, cgi>>
vars       == <<clientVars, netVars, pc, loopVars, dataVars>>

\* What http_process() leaves alone.
outside    == <<clientVars, netVars, loopVars>>
------------------------------------------------------------------------------
(* Initial state: new_ClientSocket(), init_request(), init_response().     *)

InitRequest(method, ctLength, ctIndex) ==
    [state |-> "REQ_LINE", line |-> "none", headers |-> <<>>, content |-> FALSE,
     cgi |-> FALSE, method |-> method, ctLength |-> ctLength, ctIndex |-> ctIndex]

InitResponse(httpcode) ==
    [state |-> 0, bufIndex |-> 0, preprocessed |-> FALSE, datestr |-> FALSE,
     file |-> "none", fp |-> FALSE, fpos |-> 0, isPipelining |-> FALSE,
     httpcode |-> httpcode]

NoCgi == [preprocessed |-> FALSE, pipe |-> "none", writers |-> {}, out |-> <<>>, left |-> 0]

Init ==
    /\ script \in Scripts /\ asked = 0 /\ todo = <<>>
    /\ peer = "open" /\ rx = <<>> /\ answers = 0 /\ intact = TRUE
    /\ isHTTPS \in Transports /\ inbox = <<>> /\ outbox = <<>> /\ pending = 0
    /\ pc = "select" /\ inRead = FALSE /\ inWrite = FALSE
    /\ closed = 0 /\ readbuf = <<>>
    /\ \E n, m \in Garbage : /\ writebuf = Junk(n)
                             /\ request = InitRequest("none", m, 0)
    /\ response = InitResponse(0)
    /\ cgi = NoCgi
------------------------------------------------------------------------------
(* refresh_select() and prepare_select().                                  *)

ableToRead  == request.state # "REQ_DONE" /\ Len(readbuf) < BUFSIZE
ableToWrite == request.state = "REQ_DONE" \/ response.isPipelining

\* select() reports what the kernel's buffers hold; bytes inside the SSL
\* object are not seen.  A closed or reset socket is ready for both.
Select ==
    /\ pc = "select"
    /\ inRead'  = (ableToRead /\ (Len(inbox) > pending \/ peer # "open"))
    /\ inWrite' = (ableToWrite /\ (Len(outbox) < SNDBUF \/ peer # "open"))
    /\ pc' = "handleread"
    /\ UNCHANGED <<clientVars, netVars, closed, dataVars>>
------------------------------------------------------------------------------
(* handleread().                                                           *)

\* The readsize of the recv() call; 0 when handleread returns before it.
ReadSize ==
    LET free == BUFSIZE - Len(readbuf)
        left == request.ctLength - request.ctIndex
    IN  CASE request.state \in {"REQ_LINE", "REQ_HEADER"} /\ free > 0 -> 1
          [] request.state = "REQ_CONTENT" /\ request.content /\ free > 0 ->
                 IF left <= free THEN left ELSE free
          [] OTHER -> 0

\* Mutation: only select() is asked, SSL_pending() is not.
ReadableBySelect == inRead

Readable == inRead \/ (isHTTPS /\ pending > 0)

\* Not ready, or an early return: nothing is read.
NoRead ==
    /\ pc = "handleread"
    /\ ~Readable \/ ReadSize = 0
    /\ pc' = "http_process"
    /\ UNCHANGED <<clientVars, netVars, loopVars, dataVars>>

\* How much one call can return: all that arrived, or the rest of the TLS
\* record being read, or a new record of any length.
Available ==
    IF ~isHTTPS THEN {Len(inbox)}
    ELSE IF pending > 0 THEN {pending} ELSE 1..Len(inbox)

Read ==
    /\ pc = "handleread" /\ Readable /\ ReadSize > 0
    /\ inbox # <<>>
    /\ \E k \in Available :
          LET n == IF ReadSize <= k THEN ReadSize ELSE k
          IN  /\ readbuf' = readbuf \o SubSeq(inbox, 1, n)
              /\ inbox' = SubSeq(inbox, n + 1, Len(inbox))
              /\ pending' = IF isHTTPS THEN k - n ELSE 0
    /\ pc' = "http_process"
    /\ UNCHANGED <<clientVars, isHTTPS, outbox, loopVars, writebuf, request, response, cgi>>

\* Mutation: the end of the stream is taken for the end of a response.
ReadEndAsFinished ==
    /\ pc = "handleread" /\ Readable /\ ReadSize > 0
    /\ inbox = <<>> /\ peer # "open"
    /\ closed' = 1
    /\ pc' = "remove"
    /\ UNCHANGED <<clientVars, netVars, inRead, inWrite, dataVars>>

\* recv() returns 0 or an error: the socket is to be closed, and net_service()
\* skips http_process() and handlewrite().
ReadEnd ==
    /\ pc = "handleread" /\ Readable /\ ReadSize > 0
    /\ inbox = <<>> /\ peer # "open"
    /\ closed' = 2
    /\ pc' = "remove"
    /\ UNCHANGED <<clientVars, netVars, inRead, inWrite, dataVars>>
------------------------------------------------------------------------------
(* http_process(): an early return, or process_request().                  *)

Flushing ==
    /\ pc = "http_process" /\ response.state = -1
    /\ pc' = "handlewrite"
    /\ UNCHANGED <<outside, dataVars>>

Parsing(state) ==
    /\ pc = "http_process" /\ response.state # -1
    /\ request.state = state /\ readbuf # <<>>
    /\ pc' = "is_cgi"

\* An error of the parser.  Neither *lenptr nor the buffer is reset.
Refuse(code) ==
    /\ request'  = [request EXCEPT !.state = "REQ_DONE"]
    /\ response' = [response EXCEPT !.httpcode = code]
    /\ UNCHANGED readbuf

ParseIdle ==
    /\ pc = "http_process" /\ response.state # -1
    /\ request.state = "REQ_DONE" \/ readbuf = <<>>
    /\ pc' = "is_cgi"
    /\ UNCHANGED <<outside, dataVars>>

NeedMoreData ==
    /\ \E s \in {"REQ_LINE", "REQ_HEADER"} : Parsing(s)
    /\ checkBuffer(readbuf) = 2
    /\ UNCHANGED <<outside, dataVars>>

BadLineEnd ==
    /\ \E s \in {"REQ_LINE", "REQ_HEADER"} : Parsing(s)
    /\ checkBuffer(readbuf) = 0
    /\ Refuse(400)
    /\ UNCHANGED <<outside, writebuf, cgi>>

RequestLine ==
    /\ Parsing("REQ_LINE") /\ checkBuffer(readbuf) = 1
    /\ ValidLine(Text(readbuf))
    /\ LET l == readbuf[1]
       IN  request' = [request EXCEPT !.state = "REQ_HEADER", !.line = l,
                                      !.method = Method[l], !.cgi = (Target[l] = "cgi")]
    /\ readbuf' = <<>>
    /\ UNCHANGED <<outside, writebuf, response, cgi>>

\* verify_method() has already stored the method when the URI or the version
\* turns out to be wrong.
BadRequestLine ==
    /\ Parsing("REQ_LINE") /\ checkBuffer(readbuf) = 1
    /\ ~ValidLine(Text(readbuf))
    /\ request' = [request EXCEPT !.state = "REQ_DONE",
                                  !.method = MethodOf(Text(readbuf), request.method)]
    /\ response' = [response EXCEPT !.httpcode = 400]
    /\ UNCHANGED <<outside, readbuf, writebuf, cgi>>

\* Mutation: *lenptr is not reset after the blank line.
HeadersEndKeepsBuffer ==
    /\ Parsing("REQ_HEADER") /\ readbuf = CRLF
    /\ IF request.method = "POST"
       THEN /\ request' = [request EXCEPT !.state = "REQ_CONTENT"]
            /\ UNCHANGED response
       ELSE /\ request' = [request EXCEPT !.state = "REQ_DONE"]
            /\ response' = [response EXCEPT !.httpcode = 200]
    /\ UNCHANGED <<outside, readbuf, writebuf, cgi>>

HeadersEnd ==
    /\ Parsing("REQ_HEADER") /\ readbuf = CRLF
    /\ readbuf' = <<>>
    /\ IF request.method = "POST"
       THEN /\ request' = [request EXCEPT !.state = "REQ_CONTENT"]
            /\ UNCHANGED response
       ELSE /\ request' = [request EXCEPT !.state = "REQ_DONE"]
            /\ response' = [response EXCEPT !.httpcode = 200]
    /\ UNCHANGED <<outside, writebuf, cgi>>

HeaderLine ==
    /\ Parsing("REQ_HEADER") /\ checkBuffer(readbuf) = 1 /\ readbuf # CRLF
    /\ HasColon(Text(readbuf))
    /\ request' = [request EXCEPT !.headers = Append(@, Text(readbuf))]
    /\ readbuf' = <<>>
    /\ UNCHANGED <<outside, writebuf, response, cgi>>

BadHeaderLine ==
    /\ Parsing("REQ_HEADER") /\ checkBuffer(readbuf) = 1 /\ readbuf # CRLF
    /\ ~HasColon(Text(readbuf))
    /\ Refuse(500)
    /\ UNCHANGED <<outside, writebuf, cgi>>

\* malloc() of the store, of the pair or of its list node fails.
ParseNoMemory ==
    /\ "alloc" \in Faults
    /\ \/ Parsing("REQ_LINE")
       \/ Parsing("REQ_HEADER") /\ readbuf # CRLF /\ HasColon(Text(readbuf))
    /\ checkBuffer(readbuf) = 1
    /\ Refuse(500)
    /\ UNCHANGED <<outside, writebuf, cgi>>

\* case REQ_CONTENT with something in the buffer: find Content-Length (1, here),
\* make room for the content, copy.  Each outcome is [code, buf, request].
ContentOutcomes ==
    LET value == getValueByKey(request.headers)
        begun == IF request.content THEN request
                 ELSE [request EXCEPT !.content = TRUE, !.ctLength = 1, !.ctIndex = 0]
        n     == ToCopy(readbuf, begun.ctIndex, begun.ctLength)
        moved == [begun EXCEPT !.ctIndex = @ + n]
        whole == moved.ctIndex = moved.ctLength
        done(r) == [r EXCEPT !.state = "REQ_DONE"]
        refuse(code) == [code |-> code, buf |-> readbuf, request |-> done(request)]
        noMemory == IF "alloc" \in Faults /\ ~request.content THEN {refuse(500)} ELSE {}
    IN  CASE ~request.content /\ value = <<>> -> {refuse(411)}
          [] ~request.content /\ value # <<>> /\ ~isValidCtLen(value) -> {refuse(400)}
          [] OTHER -> {[code    |-> IF whole THEN 200 ELSE response.httpcode,
                        buf     |-> SubSeq(readbuf, n + 1, Len(readbuf)),
                        request |-> IF whole THEN done(moved) ELSE moved]} \cup noMemory

Content ==
    /\ pc = "http_process" /\ response.state # -1
    /\ request.state = "REQ_CONTENT"
    /\ pc' = "is_cgi"
    /\ IF readbuf = <<>>
       THEN UNCHANGED <<readbuf, request, response>>
       ELSE \E o \in ContentOutcomes :
                /\ readbuf' = o.buf /\ request' = o.request
                /\ response' = [response EXCEPT !.httpcode = o.code]
    /\ UNCHANGED <<outside, writebuf, cgi>>
------------------------------------------------------------------------------
(* is_cgi() and process_cgi().                                             *)

is_cgi == request.cgi /\ response.httpcode = 200 /\ request.state = "REQ_DONE"

\* start_pipelining(): the request is freed and reset, so that the next one
\* can be read while this response is still being sent.
NextRequest == InitRequest(request.method, request.ctLength, request.ctIndex)

NotCgi ==
    /\ pc = "is_cgi" /\ ~is_cgi
    /\ pc' = "process_response"
    /\ UNCHANGED <<outside, dataVars>>

\* preprocess_cgi(): two pipes, fork() and the write of the content to the
\* child.  write(fd, NULL, n) succeeds for n = 0 only.
CgiStart ==
    /\ pc = "is_cgi" /\ is_cgi /\ ~cgi.preprocessed
    /\ request.ctLength = 0
    /\ cgi' = [preprocessed |-> TRUE, pipe |-> "open", writers |-> {"parent", "child"},
               out |-> <<>>, left |-> CgiSize]
    /\ UNCHANGED <<outside, pc, readbuf, writebuf, request, response>>

\* A failure after which the pipes are closed, but cgi_preprocessed stays set.
CgiStartFails ==
    /\ pc = "is_cgi" /\ is_cgi /\ ~cgi.preprocessed
    /\ request.ctLength # 0 \/ "cgi" \in Faults
    /\ cgi' = [NoCgi EXCEPT !.preprocessed = TRUE, !.pipe = "closed"]
    /\ response' = [response EXCEPT !.httpcode = 500]
    /\ pc' = "process_response"
    /\ UNCHANGED <<outside, readbuf, writebuf, request>>

\* select() on the child's stdout, then read() into the write buffer whatever
\* that holds.  End of file is reported when no process holds the writing end,
\* and then the four pipe ends are closed.  select() on closed ends fails.
CgiPoll ==
    /\ pc = "is_cgi" /\ is_cgi /\ cgi.preprocessed
    /\ pc' = "handlewrite"
    /\ LET n   == IF Len(cgi.out) <= BUFSIZE THEN Len(cgi.out) ELSE BUFSIZE
           eof == cgi.pipe = "open" /\ cgi.out = <<>> /\ cgi.writers = {}
       IN  IF eof
           THEN /\ writebuf' = <<>>
                /\ request' = NextRequest
                /\ response' = [response EXCEPT !.state = -1, !.isPipelining = TRUE]
                /\ cgi' = [cgi EXCEPT !.pipe = "closed"]
           ELSE /\ writebuf' = IF n > 0 THEN SubSeq(cgi.out, 1, n) ELSE writebuf
                /\ cgi' = [cgi EXCEPT !.out = SubSeq(@, n + 1, Len(@))]
                /\ UNCHANGED <<request, response>>
    /\ UNCHANGED <<outside, readbuf>>
------------------------------------------------------------------------------
(* process_response().                                                     *)

\* Mutation: a response is prepared whatever the request.
RespondingAlways == pc = "process_response"

Responding ==
    /\ pc = "process_response"
    /\ request.state = "REQ_DONE" \/ response.isPipelining

NoResponse ==
    /\ pc = "process_response" /\ ~Responding
    /\ pc' = "handlewrite"
    /\ UNCHANGED <<outside, dataVars>>

\* Mutation: the two method names swapped.
needOpenForHead == request.method = "HEAD"

\* preprocess() opens the file only for a GET.
needOpen == request.method = "GET"

\* preprocess() with a date: the code for a request that was parsed depends on
\* the file, which a GET also opens.
Preprocessed ==
    LET l    == request.line
        dated == [response EXCEPT !.preprocessed = TRUE, !.datestr = TRUE]
        file == [dated EXCEPT !.file = l, !.fpos = 0]
        code(c) == [dated EXCEPT !.httpcode = c]
    IN  IF response.httpcode # 200 THEN dated
        ELSE IF request.method = "POST"
             THEN code(IF checkHeader(request.headers) THEN 200 ELSE 411)
        ELSE CASE Target[l] = "missing" -> code(404)
               [] needOpen /\ Target[l] = "unreadable" ->
                      [file EXCEPT !.httpcode = 500]
               [] OTHER -> [file EXCEPT !.fp = needOpen]

\* The request is for a file: make_path() and stat() are called for it.
Static == response.httpcode = 200 /\ request.method \in {"GET", "HEAD"}

Preprocess ==
    /\ Responding /\ ~response.preprocessed
    /\ ~(Static /\ Target[request.line] = "noext")
    /\ response' = Preprocessed
    /\ UNCHANGED <<outside, pc, readbuf, writebuf, request, cgi>>

\* malloc() fails for the date, or for ctlen or lmdate when there is a file.
PreprocessNoMemory ==
    /\ Responding /\ ~response.preprocessed
    /\ "alloc" \in Faults
    /\ \E date \in BOOLEAN :
          /\ date => Static /\ Target[request.line] # "missing"
          /\ response' = [response EXCEPT !.preprocessed = TRUE, !.datestr = date,
                                          !.httpcode = 500]
    /\ UNCHANGED <<outside, pc, readbuf, writebuf, request, cgi>>

\* The stages that write a piece of text.
HasPiece ==
    \/ response.state \in 0..5
    \/ response.state \in 6..12 /\ request.method \in {"GET", "HEAD"}
    \/ response.state = 6 /\ request.method = "POST"

WritePiece ==
    /\ Responding /\ response.preprocessed /\ HasPiece
    /\ response.state = 2 => response.datestr
    /\ LET stage == TextStage(response.state, request.method)
           added == addBuffer(writebuf, response.bufIndex,
                              Piece(stage, response.httpcode, response.file))
           next  == NextStage(response.state, response.httpcode, request.method)
           over  == added.done /\ next = -1
       IN  /\ writebuf' = added.buf
           /\ response' = [response EXCEPT
                               !.bufIndex = added.index,
                               !.state = IF added.done THEN next ELSE @,
                               !.isPipelining = @ \/ over]
           /\ request' = IF over THEN NextRequest ELSE request
           /\ pc' = IF added.done /\ next # -1 THEN pc ELSE "handlewrite"
    /\ UNCHANGED <<outside, readbuf, cgi>>

\* Stage 13: the file.  The first visit frees the request.
WriteBody ==
    /\ Responding /\ response.preprocessed
    /\ response.state = BodyStage /\ request.method \in {"GET", "HEAD"}
    /\ LET added == readFileContent(writebuf, response.file, response.fpos)
       IN  /\ writebuf' = added.buf
           /\ response' = [response EXCEPT !.isPipelining = TRUE, !.fpos = added.fpos,
                                           !.state = IF added.done THEN -1 ELSE @]
    /\ request' = IF response.isPipelining THEN request ELSE NextRequest
    /\ pc' = "handlewrite"
    /\ UNCHANGED <<outside, readbuf, cgi>>

\* The switch on the method finds nothing to do at this stage.
NothingToWrite ==
    /\ Responding /\ response.preprocessed
    /\ ~HasPiece /\ ~(response.state = BodyStage /\ request.method \in {"GET", "HEAD"})
    /\ pc' = "handlewrite"
    /\ UNCHANGED <<outside, dataVars>>

\* A NULL pointer is used: the extension in getMIMEType(), the path that
\* make_path() could not allocate, or the date that preprocess() could not.
Crash ==
    /\ Responding
    /\ \/ /\ ~response.preprocessed /\ Static
          /\ Target[request.line] = "noext" \/ "alloc" \in Faults
       \/ response.preprocessed /\ response.state = 2 /\ ~response.datestr
    /\ pc' = "crashed"
    /\ UNCHANGED <<outside, dataVars>>
------------------------------------------------------------------------------
(* handlewrite().                                                          *)

Sending == pc = "handlewrite" /\ inWrite /\ writebuf # <<>>

NoSend ==
    /\ pc = "handlewrite"
    /\ ~inWrite \/ writebuf = <<>>
    /\ pc' = "remove"
    /\ UNCHANGED <<outside, dataVars>>

\* What handlewrite() does after send(), whatever send() returned: a finished
\* response overrides an error.
AfterSend(result) ==
    /\ closed' = IF response.state = -1 THEN 1 ELSE result
    /\ pc' = "remove"
    /\ UNCHANGED <<inRead, inWrite, readbuf, request, response, cgi>>

\* The socket blocks: send() returns when everything fits.
Send ==
    /\ Sending /\ peer = "open"
    /\ Len(outbox) + Len(writebuf) <= SNDBUF
    /\ outbox' = outbox \o writebuf
    /\ writebuf' = <<>>
    /\ AfterSend(0)
    /\ UNCHANGED <<clientVars, isHTTPS, inbox, pending>>

\* A signal (SIGTERM and SIGHUP have handlers) interrupts the blocked call
\* after some bytes went out.
SendShort ==
    /\ "signal" \in Faults
    /\ Sending /\ peer = "open" /\ ~isHTTPS
    /\ \E n \in 1..(Len(writebuf) - 1) :
          /\ Len(outbox) + n <= SNDBUF
          /\ outbox' = outbox \o SubSeq(writebuf, 1, n)
    /\ AfterSend(2)
    /\ UNCHANGED <<clientVars, isHTTPS, inbox, pending, writebuf>>

\* The first send() to a client that is gone succeeds and provokes a RST.
SendToClosed ==
    /\ Sending /\ peer = "closed"
    /\ peer' = "reset"
    /\ inbox' = SubSeq(inbox, 1, pending)
    /\ writebuf' = <<>>
    /\ AfterSend(0)
    /\ UNCHANGED <<script, asked, todo, rx, answers, intact, isHTTPS, outbox, pending>>

SendFails ==
    /\ Sending /\ peer # "open"
    /\ AfterSend(2)
    /\ UNCHANGED <<clientVars, netVars, writebuf>>
------------------------------------------------------------------------------
(* removeClosedSocket().                                                   *)

RemoveClosed ==
    /\ pc = "remove" /\ closed = 2
    /\ pc' = "gone"
    /\ UNCHANGED <<outside, dataVars>>

\* Mutation: the connection keeps its mark.
NextResponseKeepsMark ==
    /\ pc = "remove" /\ closed = 1
    /\ response' = InitResponse(response.httpcode)
    /\ pc' = "select"
    /\ UNCHANGED <<clientVars, netVars, loopVars, readbuf, writebuf, request, cgi>>

\* Mutation: isPipelining is not reset.
NextResponseKeepsPipelining ==
    /\ pc = "remove" /\ closed = 1
    /\ response' = [InitResponse(response.httpcode) EXCEPT !.isPipelining = TRUE]
    /\ closed' = 0
    /\ pc' = "select"
    /\ UNCHANGED <<clientVars, netVars, inRead, inWrite, readbuf, writebuf, request, cgi>>

\* The response is over: everything of it is reset but the code, and the
\* connection waits for the next request.  cgi_preprocessed stays set.
NextResponse ==
    /\ pc = "remove" /\ closed = 1
    /\ response' = InitResponse(response.httpcode)
    /\ closed' = 0
    /\ pc' = "select"
    /\ UNCHANGED <<clientVars, netVars, inRead, inWrite, readbuf, writebuf, request, cgi>>

StayOpen ==
    /\ pc = "remove" /\ closed = 0
    /\ pc' = "select"
    /\ UNCHANGED <<outside, dataVars>>

Server ==
    \/ Select
    \/ NoRead \/ Read \/ ReadEnd
    \/ Flushing \/ ParseIdle \/ NeedMoreData \/ BadLineEnd \/ RequestLine \/ BadRequestLine
    \/ HeadersEnd \/ HeaderLine \/ BadHeaderLine \/ ParseNoMemory \/ Content
    \/ NotCgi \/ CgiStart \/ CgiStartFails \/ CgiPoll
    \/ NoResponse \/ Preprocess \/ PreprocessNoMemory
    \/ WritePiece \/ WriteBody \/ NothingToWrite \/ Crash
    \/ NoSend \/ Send \/ SendShort \/ SendToClosed \/ SendFails
    \/ RemoveClosed \/ NextResponse \/ StayOpen
------------------------------------------------------------------------------
(* The CGI child, the network and the client.                              *)

\* The child writes its next byte to stdout; after the last it exits, which
\* closes its end of the pipe.
ChildWrite ==
    /\ cgi.pipe = "open" /\ "child" \in cgi.writers
    /\ cgi' = IF cgi.left = 0
              THEN [cgi EXCEPT !.writers = @ \ {"child"}]
              ELSE [cgi EXCEPT !.left = @ - 1,
                               !.out = Append(@, CgiByte(CgiSize - cgi.left + 1))]
    /\ UNCHANGED <<outside, pc, readbuf, writebuf, request, response>>

server == <<pc, loopVars, dataVars, isHTTPS, pending>>

Ask ==
    /\ peer = "open" /\ asked < Len(script)
    /\ Pipelining \/ answers = asked
    /\ asked' = asked + 1
    /\ todo' = todo \o Encoded(script[asked + 1])
    /\ UNCHANGED <<script, peer, rx, answers, intact, inbox, outbox, server>>

Deliver ==
    /\ peer = "open" /\ todo # <<>> /\ Len(inbox) < RCVBUF
    /\ inbox' = Append(inbox, Head(todo))
    /\ todo' = Tail(todo)
    /\ UNCHANGED <<script, asked, peer, rx, answers, intact, outbox, server>>

\* The replies the client may get to request k: the one that is due, or a
\* report of the resource that failed.
Replies(k) ==
    {Reply(script[k])} \cup
        (IF Faults \cap {"alloc", "cgi"} # {} THEN {Failed(500)} ELSE {})

\* The client takes the next byte of the stream.  It has an answer when the
\* bytes make up a reply to its oldest request without one; after a byte that
\* belongs to no such reply it cannot tell where the next one starts.
Receive ==
    /\ peer = "open" /\ outbox # <<>>
    /\ outbox' = Tail(outbox)
    /\ LET got   == Append(rx, Head(outbox))
           owed  == IF intact /\ answers < asked THEN Replies(answers + 1) ELSE {}
           whole == got \in owed
           part  == \E r \in owed : IsPrefix(got, r)
       IN  /\ rx' = IF part /\ ~whole THEN got ELSE <<>>
           /\ answers' = IF whole THEN answers + 1 ELSE answers
           /\ intact' = part
    /\ UNCHANGED <<script, asked, todo, peer, inbox, server>>

\* The client closes its end, once it has all its answers or ("hangup")
\* whenever it likes.
HangUp ==
    /\ peer = "open"
    /\ answers = Len(script) \/ "hangup" \in Faults
    /\ peer' = "closed"
    /\ todo' = <<>> /\ outbox' = <<>>
    /\ UNCHANGED <<script, asked, rx, answers, intact, inbox, server>>

Client == Ask \/ Deliver \/ Receive \/ HangUp

\* The object is freed, or the process died.
Over ==
    /\ pc \in {"gone", "crashed"}
    /\ UNCHANGED vars

Next == Server \/ ChildWrite \/ Client \/ Over

\* main() loops for ever, the network delivers what is written, the client
\* reads, the CGI program runs.  Nobody has to ask or to hang up.
Fairness ==
    /\ WF_vars(Server) /\ WF_vars(ChildWrite)
    /\ WF_vars(Deliver) /\ WF_vars(Receive)

Spec == Init /\ [][Next]_vars /\ Fairness
------------------------------------------------------------------------------
(* Properties.                                                             *)

ReqState == {"REQ_LINE", "REQ_HEADER", "REQ_CONTENT", "REQ_DONE"}

RequestType ==
    [state : ReqState, line : Line \cup {"none"}, headers : Seq(Seq(Wire)),
     content : BOOLEAN, cgi : BOOLEAN, method : Methods \cup {"none"},
     ctLength : Nat, ctIndex : Nat]

ResponseType ==
    [state : -1..BodyStage, bufIndex : Nat, preprocessed : BOOLEAN, datestr : BOOLEAN,
     file : Line \cup {"none"}, fp : BOOLEAN, fpos : Nat, isPipelining : BOOLEAN,
     httpcode : Code]

CgiType ==
    [preprocessed : BOOLEAN, pipe : {"none", "open", "closed"},
     writers : SUBSET {"parent", "child"}, out : Seq(Byte), left : 0..CgiSize]

Place == {"select", "handleread", "http_process", "is_cgi", "process_response",
          "handlewrite", "remove", "gone", "crashed"}

\* The types of the ClientSocket object and the sizes of its two buffers:
\* readIndex and writeIndex never pass CLISOCK_BUFSIZE (clientsocket.c:64-189).
TypeOK ==
    /\ pc \in Place /\ inRead \in BOOLEAN /\ inWrite \in BOOLEAN
    /\ closed \in {0, 1, 2}
    /\ readbuf \in Seq(Wire) /\ Len(readbuf) <= BUFSIZE
    /\ writebuf \in Seq(Byte) /\ Len(writebuf) <= BUFSIZE
    /\ request \in RequestType /\ response \in ResponseType /\ cgi \in CgiType
    /\ inbox \in Seq(Wire) /\ pending \in 0..Len(inbox) /\ isHTTPS \in BOOLEAN
    /\ script \in Scripts /\ asked \in 0..Len(script) /\ todo \in Seq(Wire)

\* The assertion of prepare_select() (pool_internal.c:41): no connection that
\* is marked for closing or for reset is handed to select() again.
NeverSelectClosed == pc = "select" => closed = 0

\* A response that is complete still has bytes to send until handlewrite() has
\* marked the connection.  handlewrite() returns before the mark when the
\* buffer is empty (clientsocket.c:152), so a response that ended with an empty
\* buffer would never be reset and would block the connection for good.
FinishedHasBytes == response.state = -1 /\ closed = 0 => writebuf # <<>>

\* While the headers of a response are being written the request it answers is
\* still there: the next one is read only from the body on (readme.txt:95,
\* process_response.c:181-186).
RequestHeld ==
    response.preprocessed /\ response.state \in 0..12
        => request.state = "REQ_DONE" /\ ~response.isPipelining

\* In stage 13 the file is open and the position is inside it: ftell(fp) and
\* fread() in readFileContent() have a file to work on, although the request
\* that named it is gone.
BodyHasFile ==
    response.state = BodyStage =>
        /\ response.fp /\ response.file \in Line
        /\ response.fpos <= FileSize[response.file]

\* The status line and the branch taken after the "Server" line are decided by
\* the same code: no step changes httpcode once the response is preprocessed
\* and until that branch, although the parser writes the same field.
CodeIsSettled ==
    [][response.preprocessed /\ response.state \in 0..3 /\ response'.preprocessed
          => response'.httpcode = response.httpcode]_vars

\* The strengthening that makes these invariants inductive: where the loop is,
\* what the parser has established, and where the response stands.
LoopInv ==
    /\ closed # 0 => pc \in {"remove", "gone"}
    /\ pc \in {"is_cgi", "process_response"} => response.state # -1
    /\ pc = "process_response" => ~is_cgi

ParserInv ==
    /\ request.state \in {"REQ_HEADER", "REQ_CONTENT"} => request.line \in Line
    /\ request.state = "REQ_DONE" /\ response.httpcode = 200 => request.line \in Line
    /\ request.state = "REQ_CONTENT" => readbuf = <<>>
    /\ ~request.content
    /\ cgi.pipe = "open" => "parent" \in cgi.writers

HeaderInv ==
    /\ ~response.preprocessed
           => response.state = 0 /\ response.bufIndex = 0 /\ ~response.isPipelining
    /\ response.preprocessed /\ response.state \in 0..12 =>
           /\ request.state = "REQ_DONE" /\ ~response.isPipelining /\ ~is_cgi
           /\ response.bufIndex < PieceLen[TextStage(response.state, request.method)]
           /\ response.state \in 5..12 => response.httpcode = 200
           /\ response.httpcode = 200 /\ request.method = "GET"
                  => response.fp /\ response.file \in Line /\ response.fpos = 0

\* The whole file is never in the buffer outside the call that ends the
\* response with it.
BodyInv ==
    response.state = BodyStage =>
        /\ response.fp /\ response.file \in Line
        /\ \/ response.fpos < FileSize[response.file]
           \/ /\ response.fpos = FileSize[response.file]
              /\ pc = "process_response" /\ writebuf # <<>>
              /\ request.state = "REQ_DONE" /\ request.method \in {"GET", "HEAD"}

ProtocolInv == LoopInv /\ ParserInv /\ HeaderInv /\ BodyInv /\ FinishedHasBytes

IInv == TypeOK /\ ProtocolInv

\* The client has received nothing but, in order, the replies to its requests.
StreamIntact == intact

\* What the client has of the next reply, what the kernel holds and what the
\* write buffer holds make up, together, a prefix of the replies due: no byte
\* is lost, repeated or out of place between addBuffer() and the client.
StreamOwed ==
    peer = "open" =>
        IsPrefix(rx \o outbox \o writebuf,
                 FlattenSeq([i \in 1..(asked - answers) |-> Reply(script[answers + i])]))

\* A client that asked and stays gets its answers, or learns from the end of
\* the stream that it will not.
EveryRequestAnswered ==
    answers < asked ~> (answers = asked \/ peer # "open" \/ pc = "gone")

\* The object of a client that has gone is freed and its socket closed.
HungUpReaped == peer # "open" ~> pc = "gone"

\* The connection implements what the client may expect of it.
Service == INSTANCE HttpService WITH open <- (peer = "open")
ServiceSpec == Service!Spec
------------------------------------------------------------------------------
(* The inductive invariant behind StreamOwed and ServiceSpec.              *)

\* A request that is answered from the files, and complete.
Plain(req) ==
    /\ req.line \in Line /\ req.times = 1 /\ req.body = 0
    /\ req.headers \in Seq({"host", "length"})
    /\ Method[req.line] \in {"GET", "HEAD"} /\ Target[req.line] \notin {"bad", "cgi"}

\* Plain requests, one at a time, memory that was zero, and nothing that fails.
Undisturbed ==
    /\ ~Pipelining /\ Faults \subseteq {"hangup"} /\ Garbage \subseteq {0}
    /\ \A s \in Scripts : \A i \in 1..Len(s) : Plain(s[i])

\* All that is on its way to the client.
Sent == rx \o outbox \o writebuf

Fresh    == request.state = "REQ_LINE" /\ request.headers = <<>>
NoInput  == readbuf = <<>> /\ inbox = <<>> /\ todo = <<>>
NoOutput == rx = <<>> /\ outbox = <<>> /\ writebuf = <<>>

\* No response is under way, or the last one waits to be reset.
Quiet == response.preprocessed => response.state = -1 /\ closed = 1

\* How many symbols of a request the parser has taken: three for each line.
Parsed == IF request.state = "REQ_LINE" THEN 0 ELSE 3 * (Len(request.headers) + 1)

\* The request is the one the client made, as far as it was parsed.
Recognised(req) == request.line = req.line /\ request.method = Method[req.line]

\* c symbols of the request have arrived in the object; a line is parsed in the
\* call that completes it.
Reading(req, c) ==
    LET wire == Encoded(req)
        n    == Len(req.headers)
    IN  /\ Quiet /\ NoOutput
        /\ Parsed <= c /\ c <= Parsed + 3 /\ c <= Len(wire)
        /\ readbuf = SubSeq(wire, Parsed + 1, c)
        /\ inbox \o todo = SubSeq(wire, c + 1, Len(wire))
        /\ c = Parsed + 3 \/ c = Len(wire) => pc = "http_process"
        /\ \/ Fresh
           \/ /\ request.state = "REQ_HEADER" /\ Recognised(req) /\ Len(request.headers) <= n

\* The request is parsed and its response not begun.
Accepted(req) ==
    /\ request.state = "REQ_DONE" /\ Recognised(req) /\ response.httpcode = 200
    /\ ~response.preprocessed /\ NoInput /\ NoOutput

\* The code of the response.
Outcome(req) ==
    CASE Target[req.line] = "missing" -> 404
      [] Target[req.line] = "unreadable" /\ Method[req.line] = "GET" -> 500
      [] OTHER -> 200

Stages(code) ==
    IF code = 200 THEN <<0, 1, 2, 3, 5, 6, 7, 8, 9, 10, 11, 12>> ELSE <<0, 1, 2, 3, 4>>

\* The text before stage s.
Ahead(s, code, file) == Pieces(SubSeq(Stages(code), 1, IF s <= 4 THEN s ELSE s - 1), code, file)

\* The part of the reply that was written.
Written(req) ==
    IF response.state = BodyStage
    THEN FileHead(req.line) \o FileBytes(req.line, 0, response.fpos)
    ELSE Ahead(response.state, response.httpcode, response.file)
           \o SubSeq(Piece(response.state, response.httpcode, response.file), 1, response.bufIndex)

\* The reply is being written.
Writing(req) ==
    /\ response.preprocessed /\ NoInput
    /\ response.httpcode = Outcome(req)
    /\ response.httpcode = 200 => response.file = req.line
    /\ \/ /\ response.state \in IF response.httpcode = 200 THEN (0..12) \ {4} ELSE 0..4
          /\ response.datestr /\ Recognised(req)
       \/ /\ response.state = BodyStage /\ response.httpcode = 200 /\ Method[req.line] = "GET"
          /\ IF response.isPipelining THEN Fresh
                                     ELSE request.state = "REQ_DONE" /\ Recognised(req)
    /\ Sent = Written(req)

\* The reply is written, and not all of it received.
Finished(req) ==
    /\ NoInput /\ Fresh
    /\ response.preprocessed => response.state = -1
    /\ ~response.preprocessed => writebuf = <<>>
    /\ Sent = Reply(req)

\* Where the reply to the request is that the client waits for.
Stands(req) ==
    (\E c \in 0..Len(Encoded(req)) : Reading(req, c)) \/ Accepted(req) \/ Writing(req) \/ Finished(req)

\* The client waits for nothing.
Idle == NoInput /\ NoOutput /\ Fresh /\ Quiet

\* What is owed to a client that has not hung up, and where it is.
StreamInv ==
    peer = "open" =>
        /\ intact /\ closed # 2 /\ ~request.cgi
        /\ closed = 1 => response.state = -1 /\ writebuf = <<>>
        /\ answers \in Nat /\ rx \in Seq(Byte) /\ outbox \in Seq(Byte)
        /\ asked \in {answers, answers + 1}
        /\ asked = answers => Idle
        /\ asked # answers => \A req \in {script[asked]} : Stands(req)
==============================================================================
