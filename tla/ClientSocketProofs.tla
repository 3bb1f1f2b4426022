-------------------------- MODULE ClientSocketProofs -------------------------
(***************************************************************************)
(* Theorems about ClientSocket, for every value of its constants.  IInv is *)
(* shown to be inductive, one lemma for each phase of the select loop and  *)
(* one step for each action; the safety properties follow from it.         *)
(***************************************************************************)
EXTENDS ClientSocket, HttpResponseProofs

USE DEF vars, clientVars, netVars, loopVars, dataVars, outside, server

------------------------------------------------------------------------------
(* Types.                                                                  *)

\* A whole line has at least its "\r\n", so its text is a sequence of symbols.
LEMMA TextType ==
    ASSUME TypeOK, readbuf # <<>>, checkBuffer(readbuf) = 1
    PROVE  Text(readbuf) \in Seq(Wire)
  <1>1. Len(readbuf) \in Nat /\ readbuf \in Seq(Wire)
    BY LenProperties DEF TypeOK
  <1>2. Len(readbuf) >= 2
    BY <1>1 DEF checkBuffer
  <1>3. Len(readbuf) - 2 \in Nat /\ Len(readbuf) - 2 <= Len(readbuf) /\ 1 \in Nat \ {0}
    BY <1>1, <1>2
  <1> QED
    BY <1>1, <1>3, PartIsSeq DEF Text

\* The step of http_process() leaves the types alone when the parts of the
\* object that it assigns have theirs.
LEMMA ObjectType ==
    ASSUME TypeOK, UNCHANGED outside, pc' \in Place,
           readbuf' \in Seq(Wire), Len(readbuf') <= BUFSIZE,
           writebuf' \in Seq(Byte), Len(writebuf') <= BUFSIZE,
           request' \in RequestType, response' \in ResponseType, cgi' \in CgiType
    PROVE  TypeOK'
  BY DEF TypeOK

\* The codes the server uses, and the empty buffer.
LEMMA TypeFacts ==
    /\ 0 \in Code /\ 200 \in Code /\ 400 \in Code /\ 404 \in Code /\ 411 \in Code /\ 500 \in Code
    /\ BUFSIZE \in Nat /\ <<>> \in Seq(Wire) /\ <<>> \in Seq(Byte)
    /\ Len(<<>>) = 0 /\ Len(<<>>) <= BUFSIZE
  BY RequestAssumption, EmptySeq DEF Code

\* init_request() and init_response() give every member its type.
LEMMA InitRequestType ==
    ASSUME NEW m \in Methods \cup {"none"}, NEW n \in Nat, NEW i \in Nat
    PROVE  InitRequest(m, n, i) \in RequestType
  BY EmptySeq DEF InitRequest, RequestType, ReqState

\* See InitRequestType.
LEMMA InitResponseType ==
    ASSUME NEW c \in Code
    PROVE  InitResponse(c) \in ResponseType
  BY DEF InitResponse, ResponseType, BodyStage
------------------------------------------------------------------------------
(* The initial state.                                                      *)

\* A connection starts in a state that satisfies the inductive invariant,
\* whatever the members that new_ClientSocket() leaves uninitialised hold.
LEMMA InitInv == Init => IInv
  <1> SUFFICES ASSUME Init PROVE IInv
    OBVIOUS
  <1>1. PICK n \in Garbage, m \in Garbage :
           writebuf = Junk(n) /\ request = InitRequest("none", m, 0)
    BY DEF Init
  <1>2. n \in Nat /\ n <= BUFSIZE /\ m \in Nat /\ BUFSIZE \in Nat
    BY ClientAssumption, RequestAssumption
  <1>3. writebuf \in Seq(Byte) /\ Len(writebuf) <= BUFSIZE
    BY <1>1, <1>2, JunkType
  <1>4. request \in RequestType
    BY <1>1, <1>2, InitRequestType
  <1>5. response \in ResponseType
    BY TypeFacts, InitResponseType DEF Init
  <1>6. cgi \in CgiType
    BY EmptySeq, ResponseAssumption DEF Init, NoCgi, CgiType
  <1>7. /\ inbox \in Seq(Wire) /\ pending \in 0..Len(inbox) /\ isHTTPS \in BOOLEAN
        /\ script \in Scripts /\ asked \in 0..Len(script) /\ todo \in Seq(Wire)
    <2>1. Len(inbox) = 0
      BY EmptySeq DEF Init
    <2>2. Len(script) \in Nat
      BY ClientAssumption DEF Init
    <2> QED
      BY <2>1, <2>2, EmptySeq, ClientAssumption DEF Init
  <1>8. TypeOK
    BY <1>3, <1>4, <1>5, <1>6, <1>7, TypeFacts, ZenonT(60) DEF Init, TypeOK, Place
  <1>9. ProtocolInv
    BY <1>1 DEF Init, ProtocolInv, LoopInv, ParserInv, HeaderInv, BodyInv, BodyStage,
                FinishedHasBytes, is_cgi, InitRequest, InitResponse, NoCgi
  <1> QED
    BY <1>8, <1>9 DEF IInv
------------------------------------------------------------------------------
(* prepare_select(), select(), handleread().                               *)

\* handleread() asks for one byte, and has room for it.
LEMMA OneByte ==
    ASSUME IInv, ReadSize > 0
    PROVE  /\ ReadSize = 1 /\ Len(readbuf) < BUFSIZE
           /\ request.state \in {"REQ_LINE", "REQ_HEADER"}
  <1>1. Len(readbuf) \in Nat /\ BUFSIZE \in Nat
    BY LenProperties, RequestAssumption DEF IInv, TypeOK
  <1>2. ~request.content
    BY DEF IInv, ProtocolInv, ParserInv
  <1> QED
    BY <1>1, <1>2 DEF ReadSize

\* It moves one symbol from the socket to the read buffer.
LEMMA ReadOne ==
    ASSUME IInv, Read
    PROVE  /\ readbuf' = readbuf \o SubSeq(inbox, 1, 1)
           /\ inbox' = SubSeq(inbox, 2, Len(inbox))
           /\ \E k \in 1..Len(inbox) : pending' = IF isHTTPS THEN k - 1 ELSE 0
  <1>1. ReadSize = 1
    BY OneByte DEF Read
  <1>2. PICK k \in Available :
          LET n == IF ReadSize <= k THEN ReadSize ELSE k
          IN  /\ readbuf' = readbuf \o SubSeq(inbox, 1, n)
              /\ inbox' = SubSeq(inbox, n + 1, Len(inbox))
              /\ pending' = IF isHTTPS THEN k - n ELSE 0
    BY DEF Read
  <1>3. Len(inbox) \in Nat \ {0}
    BY EmptySeq DEF Read, IInv, TypeOK
  <1>4. k \in 1..Len(inbox)
    BY <1>3, SMTT(60) DEF Available, IInv, TypeOK
  <1>5. /\ readbuf' = readbuf \o SubSeq(inbox, 1, 1)
        /\ inbox' = SubSeq(inbox, 2, Len(inbox))
        /\ pending' = IF isHTTPS THEN k - 1 ELSE 0
    BY <1>1, <1>2, <1>4
  <1> QED
    BY <1>4, <1>5

\* select() and the reading phase preserve the invariant.
LEMMA LoopSteps ==
    ASSUME IInv, Select \/ NoRead \/ Read \/ ReadEnd
    PROVE  IInv'
  <1> USE DEF IInv, ProtocolInv, LoopInv, ParserInv, HeaderInv, BodyInv, FinishedHasBytes, is_cgi
  <1>1. CASE Select
    BY <1>1 DEF Select, TypeOK, Place, ableToRead, ableToWrite
  <1>2. CASE NoRead
    BY <1>2 DEF NoRead, TypeOK, Place
  <1>3. CASE Read
    <2>1. ReadSize = 1 /\ Len(readbuf) < BUFSIZE /\ request.state \in {"REQ_LINE", "REQ_HEADER"}
      BY <1>3, OneByte DEF Read
    <2>2. Len(inbox) \in Nat \ {0} /\ inbox \in Seq(Wire)
      BY <1>3, EmptySeq DEF Read, TypeOK
    <2>3. PICK k \in 1..Len(inbox) : pending' = IF isHTTPS THEN k - 1 ELSE 0
      BY <1>3, ReadOne
    <2>4. readbuf' = readbuf \o SubSeq(inbox, 1, 1) /\ inbox' = SubSeq(inbox, 2, Len(inbox))
      BY <1>3, ReadOne
    <2>5. /\ SubSeq(inbox, 1, 1) \in Seq(Wire) /\ Len(SubSeq(inbox, 1, 1)) = 1
          /\ inbox' \in Seq(Wire) /\ Len(inbox') = Len(inbox) - 1
      <3>1. 1 \in Nat \ {0} /\ 2 \in Nat \ {0} /\ 1 <= Len(inbox) /\ Len(inbox) <= Len(inbox)
        BY <2>2
      <3>2. SubSeq(inbox, 1, 1) \in Seq(Wire) /\ Len(SubSeq(inbox, 1, 1)) = 1
        BY <2>2, <3>1, PartIsSeq
      <3>3. /\ SubSeq(inbox, 2, Len(inbox)) \in Seq(Wire)
            /\ Len(SubSeq(inbox, 2, Len(inbox))) = Len(inbox) - 1
        BY <2>2, RestIsSeq
      <3> QED
        BY <2>4, <3>2, <3>3
    <2>6. readbuf' \in Seq(Wire) /\ Len(readbuf') <= BUFSIZE
      <3>1. Len(readbuf') = Len(readbuf) + 1 /\ readbuf' \in Seq(Wire)
        BY <2>4, <2>5, ConcatProperties DEF TypeOK
      <3> QED
        BY <2>1, <3>1, LenProperties, RequestAssumption DEF TypeOK
    <2>7. pending' \in 0..Len(inbox')
      BY <2>2, <2>3, <2>5
    <2>8. TypeOK'
      BY <1>3, <2>5, <2>6, <2>7 DEF Read, TypeOK, Place
    <2>9. ProtocolInv'
      BY <1>3, <2>1 DEF Read
    <2> QED
      BY <2>8, <2>9
  <1>4. CASE ReadEnd
    BY <1>4 DEF ReadEnd, TypeOK, Place
  <1> QED
    BY <1>1, <1>2, <1>3, <1>4
------------------------------------------------------------------------------
(* process_request().                                                      *)

\* While the parser works on a line, the headers of no response are being
\* written and the CGI program of no request is being polled.
LEMMA ParsingFacts ==
    ASSUME IInv, NEW s \in {"REQ_LINE", "REQ_HEADER"}, Parsing(s)
    PROVE  /\ pc = "http_process" /\ closed = 0 /\ response.state # -1
           /\ response.preprocessed => response.state = BodyStage
           /\ response.state = BodyStage => response.fpos < FileSize[response.file]
  <1>1. pc = "http_process" /\ response.state # -1 /\ request.state = s
    BY DEF Parsing
  <1>2. closed = 0
    BY <1>1 DEF IInv, ProtocolInv, LoopInv
  <1>3. response.preprocessed => response.state = BodyStage
    BY <1>1 DEF IInv, ProtocolInv, HeaderInv, TypeOK, ResponseType, BodyStage
  <1>4. response.state = BodyStage => response.fpos < FileSize[response.file]
    BY <1>1 DEF IInv, ProtocolInv, BodyInv
  <1> QED
    BY <1>1, <1>2, <1>3, <1>4

\* An error of the parser preserves the invariant.
LEMMA RefuseStep ==
    ASSUME IInv, NEW s \in {"REQ_LINE", "REQ_HEADER"}, Parsing(s),
           NEW code \in {400, 500}, NEW m \in Methods \cup {"none"},
           request' \in {[request EXCEPT !.state = "REQ_DONE"],
                         [request EXCEPT !.state = "REQ_DONE", !.method = m]},
           response' = [response EXCEPT !.httpcode = code],
           UNCHANGED <<outside, readbuf, writebuf, cgi>>
    PROVE  IInv'
  <1>1. request \in RequestType /\ response \in ResponseType /\ cgi \in CgiType
    BY DEF IInv, TypeOK
  <1>2. /\ request' \in RequestType /\ request'.state = "REQ_DONE"
        /\ request'.content = request.content
    <2>1. CASE request' = [request EXCEPT !.state = "REQ_DONE"]
      <3>1. PICK st \in ReqState :
               st = "REQ_DONE" /\ request' = [request EXCEPT !.state = st]
        BY <2>1 DEF ReqState
      <3> QED
        BY <1>1, <3>1, SMTT(60) DEF RequestType
    <2>2. CASE request' = [request EXCEPT !.state = "REQ_DONE", !.method = m]
      <3>1. PICK st \in ReqState :
               st = "REQ_DONE" /\ request' = [request EXCEPT !.state = st, !.method = m]
        BY <2>2 DEF ReqState
      <3> QED
        BY <1>1, <3>1, ZenonT(60) DEF RequestType
    <2> QED
      BY <2>1, <2>2
  <1>3. response' \in ResponseType
    BY <1>1 DEF ResponseType, Code
  <1>4. pc' = "is_cgi"
    BY DEF Parsing
  <1>5. TypeOK'
    BY <1>1, <1>2, <1>3, <1>4, ObjectType DEF IInv, TypeOK, Place
  <1>6. /\ response'.httpcode = code /\ code # 200
        /\ response'.state = response.state /\ response'.preprocessed = response.preprocessed
        /\ response'.bufIndex = response.bufIndex /\ response'.fpos = response.fpos
        /\ response'.file = response.file /\ response'.fp = response.fp
        /\ response'.isPipelining = response.isPipelining
    BY <1>1 DEF ResponseType
  <1>7. LoopInv' /\ ParserInv' /\ FinishedHasBytes'
    BY <1>2, <1>4, <1>6, ParsingFacts DEF IInv, ProtocolInv, LoopInv, ParserInv, FinishedHasBytes, is_cgi
  <1>8. HeaderInv' /\ BodyInv'
    BY <1>2, <1>4, <1>6, ParsingFacts, SMTT(60) DEF IInv, ProtocolInv, HeaderInv, BodyInv, BodyStage
  <1> QED
    BY <1>5, <1>7, <1>8 DEF IInv, ProtocolInv

\* A line that the parser accepts preserves the invariant.
LEMMA AcceptStep ==
    ASSUME IInv, NEW s \in {"REQ_LINE", "REQ_HEADER"}, Parsing(s),
           request' \in RequestType, request'.line \in Line, ~request'.content,
           response' \in {response, [response EXCEPT !.httpcode = 200]},
           readbuf' = <<>>, UNCHANGED <<outside, writebuf, cgi>>
    PROVE  IInv'
  <1>1. response \in ResponseType /\ cgi \in CgiType /\ pc' = "is_cgi"
    BY DEF IInv, TypeOK, Parsing
  <1>2. response' \in ResponseType
    BY <1>1 DEF ResponseType, Code
  <1>3. TypeOK'
    BY <1>1, <1>2, TypeFacts, ObjectType DEF IInv, TypeOK, Place
  <1>4. /\ response'.state = response.state /\ response'.preprocessed = response.preprocessed
        /\ response'.bufIndex = response.bufIndex /\ response'.fpos = response.fpos
        /\ response'.file = response.file /\ response'.fp = response.fp
        /\ response'.isPipelining = response.isPipelining
    BY <1>1 DEF ResponseType
  <1>5. LoopInv' /\ ParserInv' /\ FinishedHasBytes'
    BY <1>1, <1>4, ParsingFacts DEF IInv, ProtocolInv, LoopInv, ParserInv, FinishedHasBytes, is_cgi
  <1>6. HeaderInv' /\ BodyInv'
    BY <1>1, <1>4, ParsingFacts, SMTT(60) DEF IInv, ProtocolInv, HeaderInv, BodyInv, BodyStage
  <1> QED
    BY <1>3, <1>5, <1>6 DEF IInv, ProtocolInv

\* Every step of process_request() preserves the invariant.
LEMMA ParseSteps ==
    ASSUME IInv,
           \/ Flushing \/ ParseIdle \/ NeedMoreData \/ BadLineEnd \/ RequestLine
           \/ BadRequestLine \/ HeadersEnd \/ HeaderLine \/ BadHeaderLine
           \/ ParseNoMemory \/ Content
    PROVE  IInv'
  <1>1. request \in RequestType /\ ~request.content
    BY DEF IInv, TypeOK, ProtocolInv, ParserInv
  <1>2. request.method \in Methods \cup {"none"}
    BY <1>1 DEF RequestType
  <1>3. ASSUME NEW code \in {400, 500}, NEW s \in {"REQ_LINE", "REQ_HEADER"},
               Parsing(s), Refuse(code), UNCHANGED <<outside, writebuf, cgi>>
        PROVE  IInv'
    <2>1. /\ request' = [request EXCEPT !.state = "REQ_DONE"]
          /\ response' = [response EXCEPT !.httpcode = code]
          /\ UNCHANGED <<outside, readbuf, writebuf, cgi>>
      BY <1>3 DEF Refuse
    <2>2. Parsing(s)
      BY <1>3
    <2> QED
      BY <1>2, <2>1, <2>2, RefuseStep
  <1>4. CASE Flushing
    <2>1. TypeOK'
      BY <1>4 DEF Flushing, IInv, TypeOK, Place
    <2>2. LoopInv' /\ ParserInv' /\ FinishedHasBytes'
      BY <1>4 DEF Flushing, IInv, ProtocolInv, LoopInv, ParserInv, FinishedHasBytes, is_cgi
    <2>3. HeaderInv'
      BY <1>4 DEF Flushing, IInv, ProtocolInv, HeaderInv, is_cgi
    <2>4. BodyInv'
      BY <1>4 DEF Flushing, IInv, ProtocolInv, BodyInv, BodyStage
    <2> QED
      BY <2>1, <2>2, <2>3, <2>4 DEF IInv, ProtocolInv
  <1>5. CASE ParseIdle
    <2>1. TypeOK'
      BY <1>5 DEF ParseIdle, IInv, TypeOK, Place
    <2>2. ProtocolInv'
      BY <1>5 DEF ParseIdle, IInv, ProtocolInv, LoopInv, ParserInv, HeaderInv, BodyInv,
                  FinishedHasBytes, is_cgi
    <2> QED
      BY <2>1, <2>2 DEF IInv
  <1>6. CASE NeedMoreData
    <2>1. TypeOK'
      BY <1>6 DEF NeedMoreData, Parsing, IInv, TypeOK, Place
    <2>2. LoopInv' /\ ParserInv' /\ FinishedHasBytes'
      BY <1>6 DEF NeedMoreData, Parsing, IInv, ProtocolInv, LoopInv, ParserInv,
                  FinishedHasBytes, is_cgi
    <2>3. HeaderInv'
      BY <1>6 DEF NeedMoreData, Parsing, IInv, ProtocolInv, HeaderInv, is_cgi
    <2>4. BodyInv'
      BY <1>6 DEF NeedMoreData, Parsing, IInv, ProtocolInv, BodyInv
    <2> QED
      BY <2>1, <2>2, <2>3, <2>4 DEF IInv, ProtocolInv
  <1>7. CASE BadLineEnd
    BY <1>3, <1>7 DEF BadLineEnd
  <1>8. CASE RequestLine
    <2>1. Parsing("REQ_LINE") /\ readbuf # <<>> /\ checkBuffer(readbuf) = 1
      BY <1>8 DEF RequestLine, Parsing
    <2>2. readbuf[1] \in Line
      <3>1. readbuf \in Seq(Wire) /\ Len(readbuf) \in Nat
        BY LenProperties DEF IInv, TypeOK
      <3>2. Len(Text(readbuf)) = 1 /\ Text(readbuf)[1] \in Line
        BY <1>8 DEF RequestLine, ValidLine
      <3>3. Text(readbuf)[1] = readbuf[1]
        BY <3>1, <3>2 DEF Text
      <3> QED
        BY <3>2, <3>3
    <2>3. PICK l \in Line : request' = [request EXCEPT !.state = "REQ_HEADER", !.line = l,
                                        !.method = Method[l], !.cgi = (Target[l] = "cgi")]
      BY <1>8, <2>2 DEF RequestLine
    <2>4. Method[l] \in Methods \cup {"none"}
      BY RequestAssumption
    <2>5. request' \in RequestType /\ request'.line \in Line /\ ~request'.content
      BY <1>1, <2>3, <2>4 DEF RequestType, ReqState
    <2> QED
      BY <1>8, <2>1, <2>5, AcceptStep DEF RequestLine
  <1>9. CASE BadRequestLine
    <2> DEFINE m == MethodOf(Text(readbuf), request.method)
    <2>1. m \in Methods \cup {"none"}
      BY <1>2, RequestAssumption DEF MethodOf
    <2>2. /\ Parsing("REQ_LINE")
          /\ request' = [request EXCEPT !.state = "REQ_DONE", !.method = m]
          /\ response' = [response EXCEPT !.httpcode = 400]
          /\ UNCHANGED <<outside, readbuf, writebuf, cgi>>
      BY <1>9 DEF BadRequestLine
    <2> HIDE DEF m
    <2> QED
      BY <2>1, <2>2, RefuseStep, ZenonT(60)
  <1>10. CASE HeadersEnd
    <2>1. Parsing("REQ_HEADER") /\ readbuf' = <<>> /\ UNCHANGED <<outside, writebuf, cgi>>
      BY <1>10 DEF HeadersEnd
    <2>2. request.line \in Line
      BY <2>1 DEF Parsing, IInv, ProtocolInv, ParserInv
    <2>3. /\ request' \in {[request EXCEPT !.state = "REQ_CONTENT"],
                           [request EXCEPT !.state = "REQ_DONE"]}
          /\ response' \in {response, [response EXCEPT !.httpcode = 200]}
      BY <1>10 DEF HeadersEnd
    <2>4. request' \in RequestType /\ request'.line \in Line /\ ~request'.content
      <3>1. PICK st \in ReqState : request' = [request EXCEPT !.state = st]
        BY <2>3 DEF ReqState
      <3>2. request' \in RequestType
        BY <1>1, <3>1 DEF RequestType
      <3>3. request'.line = request.line /\ request'.content = request.content
        BY <1>1, <3>1 DEF RequestType
      <3> QED
        BY <1>1, <2>2, <3>2, <3>3
    <2> QED
      BY <2>1, <2>3, <2>4, AcceptStep
  <1>11. CASE HeaderLine
    <2>1. /\ Parsing("REQ_HEADER") /\ readbuf' = <<>> /\ UNCHANGED <<outside, writebuf, response, cgi>>
          /\ checkBuffer(readbuf) = 1
          /\ request' = [request EXCEPT !.headers = Append(request.headers, Text(readbuf))]
      BY <1>11 DEF HeaderLine
    <2>2. request.line \in Line /\ readbuf # <<>>
      BY <2>1 DEF Parsing, IInv, ProtocolInv, ParserInv
    <2>3. Append(request.headers, Text(readbuf)) \in Seq(Seq(Wire))
      <3>1. Text(readbuf) \in Seq(Wire)
        BY <2>1, <2>2, TextType DEF IInv
      <3>2. request.headers \in Seq(Seq(Wire))
        BY <1>1 DEF RequestType
      <3> QED
        BY <3>1, <3>2, AppendProperties
    <2>4. request' \in RequestType /\ request'.line \in Line /\ ~request'.content
      BY <1>1, <2>1, <2>2, <2>3 DEF RequestType
    <2> QED
      BY <2>1, <2>4, AcceptStep
  <1>12. CASE BadHeaderLine
    BY <1>3, <1>12 DEF BadHeaderLine
  <1>13. CASE ParseNoMemory
    BY <1>3, <1>13 DEF ParseNoMemory
  <1>14. CASE Content
    <2>1. readbuf = <<>>
      BY <1>14 DEF Content, IInv, ProtocolInv, ParserInv
    <2>2. UNCHANGED <<outside, dataVars>> /\ pc = "http_process" /\ pc' = "is_cgi"
          /\ response.state # -1 /\ request.state = "REQ_CONTENT"
      BY <1>14, <2>1 DEF Content
    <2>3. TypeOK'
      BY <2>2 DEF IInv, TypeOK, Place
    <2>4. ProtocolInv'
      BY <2>2 DEF IInv, ProtocolInv, LoopInv, ParserInv, HeaderInv, BodyInv,
                  FinishedHasBytes, is_cgi
    <2> QED
      BY <2>3, <2>4 DEF IInv
  <1> QED
    BY <1>4, <1>5, <1>6, <1>7, <1>8, <1>9, <1>10, <1>11, <1>12, <1>13, <1>14
------------------------------------------------------------------------------
(* process_cgi() and the CGI child.                                        *)

\* A step that moves the loop or the child, and leaves the request, the
\* response and the buffers alone, keeps the types.
LEMMA MoveType ==
    ASSUME TypeOK, UNCHANGED <<outside, readbuf, writebuf, request, response>>,
           pc' \in Place, cgi' \in CgiType
    PROVE  TypeOK'
  BY DEF TypeOK

\* The child writes or exits: the pipe stays a pipe, its parent's end open.
LEMMA ChildType ==
    ASSUME TypeOK, ChildWrite
    PROVE  cgi' \in CgiType /\ cgi'.pipe = cgi.pipe
           /\ ("parent" \in cgi.writers => "parent" \in cgi'.writers)
  <1>1. cgi \in CgiType /\ CgiSize \in Nat
    BY ResponseAssumption DEF TypeOK
  <1>2. CASE cgi.left = 0
    <2>1. cgi' = [cgi EXCEPT !.writers = cgi.writers \ {"child"}]
      BY <1>2 DEF ChildWrite
    <2> QED
      BY <1>1, <2>1 DEF CgiType
  <1>3. CASE cgi.left # 0
    <2> DEFINE b == CgiByte(CgiSize - cgi.left + 1)
    <2>1. cgi' = [cgi EXCEPT !.left = cgi.left - 1, !.out = Append(cgi.out, b)]
      BY <1>3 DEF ChildWrite
    <2>2. b \in Byte
      <3>1. CgiSize - cgi.left + 1 \in Nat
        BY <1>1 DEF CgiType
      <3> QED
        BY <3>1 DEF CgiByte, Byte, CgiStage, JunkStage, Code
    <2> HIDE DEF b
    <2>3. Append(cgi.out, b) \in Seq(Byte)
      BY <1>1, <2>2, AppendProperties DEF CgiType
    <2>4. cgi.left - 1 \in 0..CgiSize
      BY <1>1, <1>3 DEF CgiType
    <2> QED
      BY <1>1, <2>1, <2>3, <2>4 DEF CgiType
  <1> QED
    BY <1>2, <1>3

\* Starting and polling the CGI program, and the program's own steps,
\* preserve the invariant.
LEMMA CgiSteps ==
    ASSUME IInv, NotCgi \/ CgiStart \/ CgiStartFails \/ CgiPoll \/ ChildWrite
    PROVE  IInv'
  <1>1. cgi \in CgiType /\ response \in ResponseType /\ TypeOK /\ ProtocolInv
    BY DEF IInv, TypeOK
  <1>2. CASE NotCgi
    <2>1. TypeOK'
      BY <1>1, <1>2, MoveType DEF NotCgi, Place
    <2>2. ProtocolInv'
      BY <1>1, <1>2 DEF NotCgi, ProtocolInv, LoopInv, ParserInv, HeaderInv, BodyInv,
                  FinishedHasBytes, is_cgi
    <2> QED
      BY <2>1, <2>2 DEF IInv
  <1>3. CASE CgiStart
    <2>1. cgi' \in CgiType /\ "parent" \in cgi'.writers
      BY <1>3, EmptySeq, ResponseAssumption DEF CgiStart, CgiType
    <2>2. TypeOK'
      BY <1>1, <1>3, <2>1, MoveType DEF CgiStart, Place
    <2>3. ProtocolInv'
      BY <1>1, <1>3, <2>1 DEF CgiStart, ProtocolInv, LoopInv, ParserInv, HeaderInv, BodyInv,
                  FinishedHasBytes, is_cgi
    <2> QED
      BY <2>2, <2>3 DEF IInv
  <1>4. CASE CgiStartFails
    <2>1. cgi' \in CgiType /\ cgi'.pipe = "closed"
      <3>1. NoCgi \in CgiType
        BY EmptySeq, ResponseAssumption DEF CgiType, NoCgi
      <3>2. cgi' = [NoCgi EXCEPT !.preprocessed = TRUE, !.pipe = "closed"]
        BY <1>4 DEF CgiStartFails
      <3> QED
        BY <3>1, <3>2 DEF CgiType
    <2>2. /\ response' = [response EXCEPT !.httpcode = 500] /\ pc' = "process_response"
          /\ UNCHANGED <<outside, readbuf, writebuf, request>> /\ pc = "is_cgi" /\ is_cgi
      BY <1>4 DEF CgiStartFails
    <2>3. response' \in ResponseType
      BY <1>1, <2>2 DEF ResponseType, Code
    <2>4. TypeOK'
      BY <1>1, <2>1, <2>2, <2>3, ObjectType DEF TypeOK, Place
    <2>5. LoopInv' /\ ParserInv' /\ FinishedHasBytes'
      BY <1>1, <2>1, <2>2 DEF ResponseType, ProtocolInv, LoopInv, ParserInv,
                              FinishedHasBytes, is_cgi
    <2>6. HeaderInv'
      BY <1>1, <2>2 DEF ResponseType, ProtocolInv, HeaderInv
    <2>7. BodyInv'
      BY <1>1, <2>2 DEF ResponseType, ProtocolInv, BodyInv
    <2> QED
      BY <2>4, <2>5, <2>6, <2>7 DEF IInv, ProtocolInv
  <1>5. CASE CgiPoll
    <2> DEFINE n == IF Len(cgi.out) <= BUFSIZE THEN Len(cgi.out) ELSE BUFSIZE
    <2>1. ~(cgi.pipe = "open" /\ cgi.out = <<>> /\ cgi.writers = {})
      BY <1>1 DEF ProtocolInv, ParserInv
    <2>2. /\ writebuf' = IF n > 0 THEN SubSeq(cgi.out, 1, n) ELSE writebuf
          /\ cgi' = [cgi EXCEPT !.out = SubSeq(cgi.out, n + 1, Len(cgi.out))]
          /\ pc = "is_cgi" /\ pc' = "handlewrite"
          /\ UNCHANGED <<outside, readbuf, request, response>>
      BY <1>5, <2>1 DEF CgiPoll
    <2>3. cgi.out \in Seq(Byte) /\ Len(cgi.out) \in Nat /\ BUFSIZE \in Nat
      BY <1>1, LenProperties, RequestAssumption DEF CgiType
    <2>4. n \in Nat /\ n <= Len(cgi.out) /\ n <= BUFSIZE
      BY <2>3
    <2> HIDE DEF n
    <2>5. SubSeq(cgi.out, 1, n) \in Seq(Byte) /\ (n > 0 => Len(SubSeq(cgi.out, 1, n)) = n)
      <3>1. 1 \in Nat \ {0} /\ n \in Nat /\ n <= Len(cgi.out)
        BY <2>4
      <3>2. /\ SubSeq(cgi.out, 1, n) \in Seq(Byte)
            /\ Len(SubSeq(cgi.out, 1, n)) = IF 1 <= n THEN n - 1 + 1 ELSE 0
        BY <2>3, <3>1, PartIsSeq
      <3> QED
        BY <2>4, <3>2
    <2>6. SubSeq(cgi.out, n + 1, Len(cgi.out)) \in Seq(Byte)
      <3>1. n + 1 \in Nat \ {0} /\ Len(cgi.out) <= Len(cgi.out)
        BY <2>3, <2>4
      <3> QED
        BY <2>3, <3>1, PartIsSeq
    <2>7. cgi' \in CgiType /\ cgi'.pipe = cgi.pipe /\ cgi'.writers = cgi.writers
      BY <1>1, <2>2, <2>6 DEF CgiType
    <2>8. writebuf' \in Seq(Byte) /\ Len(writebuf') <= BUFSIZE
      BY <1>1, <2>2, <2>4, <2>5 DEF TypeOK
    <2>9. TypeOK'
      BY <1>1, <2>2, <2>7, <2>8, ObjectType DEF TypeOK, Place
    <2>10. response.state # -1
      BY <1>1, <2>2 DEF ProtocolInv, LoopInv
    <2>11. LoopInv' /\ ParserInv' /\ FinishedHasBytes'
      BY <1>1, <2>2, <2>7, <2>10 DEF ProtocolInv, LoopInv, ParserInv, FinishedHasBytes, is_cgi
    <2>12. HeaderInv'
      BY <1>1, <2>2 DEF ProtocolInv, HeaderInv, is_cgi
    <2>13. BodyInv'
      BY <1>1, <2>2 DEF ProtocolInv, BodyInv
    <2> QED
      BY <2>9, <2>11, <2>12, <2>13 DEF IInv, ProtocolInv
  <1>6. CASE ChildWrite
    <2>1. /\ cgi' \in CgiType /\ cgi'.pipe = cgi.pipe
          /\ "parent" \in cgi.writers => "parent" \in cgi'.writers
      BY <1>1, <1>6, ChildType
    <2>2. UNCHANGED <<outside, pc, readbuf, writebuf, request, response>>
      BY <1>6 DEF ChildWrite
    <2>3. TypeOK'
      BY <1>1, <2>1, <2>2, MoveType DEF TypeOK
    <2>4. ProtocolInv'
      BY <1>1, <2>1, <2>2 DEF ProtocolInv, LoopInv, ParserInv, HeaderInv, BodyInv,
                              FinishedHasBytes, is_cgi
    <2> QED
      BY <2>3, <2>4 DEF IInv
  <1> QED
    BY <1>2, <1>3, <1>4, <1>5, <1>6
------------------------------------------------------------------------------
(* process_response().                                                     *)

\* What preprocess() has to establish for the headers to be written.
LEMMA PreprocessStep ==
    ASSUME IInv, Responding, ~response.preprocessed,
           response' \in ResponseType, response'.preprocessed,
           response'.state = response.state, response'.bufIndex = response.bufIndex,
           response'.isPipelining = response.isPipelining,
           response'.httpcode = 200 => response.httpcode = 200,
           response'.httpcode = 200 /\ request.method = "GET"
               => response'.fp /\ response'.file \in Line /\ response'.fpos = 0,
           UNCHANGED <<outside, pc, readbuf, writebuf, request, cgi>>
    PROVE  IInv'
  <1>1. TypeOK'
    BY DEF IInv, TypeOK
  <1>2. /\ pc = "process_response" /\ ~is_cgi /\ request.state = "REQ_DONE"
        /\ response.state = 0 /\ response.bufIndex = 0 /\ ~response.isPipelining
    BY DEF Responding, IInv, ProtocolInv, LoopInv, HeaderInv
  <1>3. ~is_cgi'
    BY <1>2 DEF is_cgi
  <1>4. LoopInv' /\ ParserInv' /\ FinishedHasBytes'
    BY <1>2, <1>3 DEF IInv, ProtocolInv, LoopInv, ParserInv, FinishedHasBytes
  <1>5. PieceLen[0] > 0 /\ TextStage(0, request.method) = 0
    BY ResponseAssumption DEF TextStage
  <1>6. HeaderInv'
    BY <1>2, <1>3, <1>5 DEF HeaderInv
  <1>7. BodyInv'
    BY <1>2 DEF BodyInv, BodyStage
  <1> QED
    BY <1>1, <1>4, <1>6, <1>7 DEF IInv, ProtocolInv

\* The members that preprocess() assigns whatever it finds.
LEMMA DatedType ==
    ASSUME response \in ResponseType, NEW date \in BOOLEAN, NEW code \in Code
    PROVE  [response EXCEPT !.preprocessed = TRUE, !.datestr = date, !.httpcode = code]
               \in ResponseType
  BY DEF ResponseType

\* preprocess() preserves the invariant, with and without memory.
LEMMA PreprocessSteps ==
    ASSUME IInv, Preprocess \/ PreprocessNoMemory
    PROVE  IInv'
  <1>1. response \in ResponseType /\ request \in RequestType
    BY DEF IInv, TypeOK
  <1>2. request.line \in Line \cup {"none"}
    BY <1>1 DEF RequestType
  <1>3. CASE Preprocess
    <2>1. Responding /\ ~response.preprocessed /\ response' = Preprocessed
          /\ UNCHANGED <<outside, pc, readbuf, writebuf, request, cgi>>
      BY <1>3 DEF Preprocess
    <2>2. CASE response.httpcode # 200
      <3>1. response' = [response EXCEPT !.preprocessed = TRUE, !.datestr = TRUE]
        BY <2>1, <2>2 DEF Preprocessed, needOpen
      <3>2. response' \in ResponseType
        BY <1>1, <3>1 DEF ResponseType
      <3> QED
        BY <1>1, <2>1, <2>2, <3>1, <3>2, PreprocessStep DEF ResponseType
    <2>3. CASE response.httpcode = 200 /\ request.method = "POST"
      <3> DEFINE code == IF checkHeader(request.headers) THEN 200 ELSE 411
      <3>0. code \in Code
        BY TypeFacts
      <3>1. response' = [response EXCEPT !.preprocessed = TRUE, !.datestr = TRUE,
                                         !.httpcode = code]
        BY <1>1, <2>1, <2>3 DEF Preprocessed, needOpen, ResponseType
      <3> HIDE DEF code
      <3>2. response' \in ResponseType
        BY <1>1, <3>0, <3>1 DEF ResponseType
      <3> QED
        BY <1>1, <2>1, <2>3, <3>1, <3>2, PreprocessStep DEF ResponseType
    <2>4. CASE response.httpcode = 200 /\ request.method # "POST"
               /\ Target[request.line] = "missing"
      <3>1. response' = [response EXCEPT !.preprocessed = TRUE, !.datestr = TRUE,
                                         !.httpcode = 404]
        BY <1>1, <2>1, <2>4 DEF Preprocessed, needOpen, ResponseType
      <3>2. response' \in ResponseType
        BY <1>1, <3>1, TypeFacts, DatedType, ZenonT(60)
      <3> QED
        BY <1>1, <2>1, <2>4, <3>1, <3>2, PreprocessStep DEF ResponseType
    <2>5. CASE response.httpcode = 200 /\ request.method = "GET"
               /\ Target[request.line] = "unreadable"
      <3> DEFINE d == [response EXCEPT !.preprocessed = TRUE, !.datestr = TRUE]
                 f == [d EXCEPT !.file = request.line, !.fpos = 0]
      <3>1. response' = [f EXCEPT !.httpcode = 500]
        BY <2>1, <2>5 DEF Preprocessed, needOpen
      <3>2. /\ d \in ResponseType /\ d.preprocessed /\ d.state = response.state
            /\ d.bufIndex = response.bufIndex /\ d.isPipelining = response.isPipelining
        BY <1>1 DEF ResponseType
      <3> HIDE DEF d
      <3>3. /\ f \in ResponseType /\ f.preprocessed /\ f.state = response.state
            /\ f.bufIndex = response.bufIndex /\ f.isPipelining = response.isPipelining
        BY <1>2, <3>2 DEF ResponseType
      <3> HIDE DEF f
      <3>4. PICK code \in Code : code = 500
        BY TypeFacts
      <3>5. response' \in ResponseType /\ response'.httpcode = 500
        BY <3>1, <3>3, <3>4 DEF ResponseType
      <3> QED
        BY <2>1, <2>5, <3>1, <3>3, <3>5, PreprocessStep DEF ResponseType
    <2>6. CASE /\ response.httpcode = 200 /\ request.method # "POST"
               /\ Target[request.line] # "missing"
               /\ ~(request.method = "GET" /\ Target[request.line] = "unreadable")
      <3> DEFINE g == request.method = "GET"
      <3>1. response' = [response EXCEPT !.preprocessed = TRUE, !.datestr = TRUE,
                                         !.file = request.line, !.fpos = 0, !.fp = g]
        BY <1>1, <2>1, <2>6 DEF Preprocessed, needOpen, ResponseType
      <3>2. response' \in ResponseType
        BY <1>1, <1>2, <3>1 DEF ResponseType
      <3>3. request.line \in Line
        <4>1. request.state = "REQ_DONE"
          BY <2>1 DEF Responding, IInv, ProtocolInv, HeaderInv
        <4> QED
          BY <2>6, <4>1 DEF IInv, ProtocolInv, ParserInv
      <3>4. /\ response'.preprocessed /\ response'.state = response.state
            /\ response'.bufIndex = response.bufIndex
            /\ response'.isPipelining = response.isPipelining
            /\ response'.fp = g /\ response'.file = request.line /\ response'.fpos = 0
        BY <1>1, <3>1 DEF ResponseType
      <3> QED
        BY <2>1, <2>6, <3>2, <3>3, <3>4, PreprocessStep, ZenonT(60)
    <2> QED
      BY <2>2, <2>3, <2>4, <2>5, <2>6
  <1>4. CASE PreprocessNoMemory
    <2>1. PICK date \in BOOLEAN :
            response' = [response EXCEPT !.preprocessed = TRUE, !.datestr = date,
                                         !.httpcode = 500]
      BY <1>4, ZenonT(60) DEF PreprocessNoMemory
    <2>2. 500 \in Code
      BY TypeFacts
    <2>3. response' \in ResponseType
      BY <1>1, <2>1, <2>2, DatedType, ZenonT(60)
    <2>4. Responding /\ ~response.preprocessed
          /\ UNCHANGED <<outside, pc, readbuf, writebuf, request, cgi>>
      BY <1>4 DEF PreprocessNoMemory
    <2> QED
      BY <1>1, <2>1, <2>3, <2>4, PreprocessStep DEF ResponseType
  <1> QED
    BY <1>3, <1>4

\* The piece being written and the position in it (see AddBuffer).
LEMMA PieceFacts ==
    ASSUME IInv, WritePiece
    PROVE  LET stage == TextStage(response.state, request.method)
               added == addBuffer(writebuf, response.bufIndex,
                                  Piece(stage, response.httpcode, response.file))
           IN  /\ stage \in 0..12
               /\ added.buf \in Seq(Byte) /\ Len(added.buf) <= BUFSIZE
               /\ added.index \in Nat /\ added.index < PieceLen[stage]
               /\ added.done \in BOOLEAN
               /\ added.done => added.buf # <<>> /\ added.index = 0
  <1> DEFINE stage == TextStage(response.state, request.method)
             piece == Piece(stage, response.httpcode, response.file)
  <1>1. response.state \in 0..12 /\ response.preprocessed
    BY DEF WritePiece, HasPiece
  <1>2. stage \in 0..12
    BY <1>1 DEF TextStage
  <1>3. response.httpcode \in Code /\ response.file \in Line \cup {"none"}
        /\ response.bufIndex \in Nat
    BY DEF IInv, TypeOK, ResponseType
  <1>4. response.bufIndex < PieceLen[stage]
    BY <1>1 DEF IInv, ProtocolInv, HeaderInv
  <1> HIDE DEF stage
  <1>5. piece \in Seq(Byte) /\ Len(piece) = PieceLen[stage]
    BY <1>2, <1>3, PieceType
  <1>6. writebuf \in Seq(Byte) /\ Len(writebuf) <= BUFSIZE
    BY DEF IInv, TypeOK
  <1> HIDE DEF piece
  <1>7. response.bufIndex < Len(piece)
    BY <1>4, <1>5
  <1>8. LET a == addBuffer(writebuf, response.bufIndex, piece)
        IN  /\ a.buf \in Seq(Byte) /\ Len(a.buf) <= BUFSIZE
            /\ a.index \in Nat /\ a.index < Len(piece)
            /\ a.done \in BOOLEAN
            /\ a.done => a.buf # <<>> /\ a.index = 0
    BY <1>3, <1>5, <1>6, <1>7, AddBuffer
  <1> QED
    BY <1>2, <1>5, <1>8 DEF stage, piece

\* Where a finished piece leads: the next piece, the body, or the end.
LEMMA NextStageFacts ==
    ASSUME IInv, WritePiece
    PROVE  LET next == NextStage(response.state, response.httpcode, request.method)
           IN  /\ next \in -1..BodyStage
               /\ next \in 5..12 => response.httpcode = 200
               /\ next = BodyStage => response.httpcode = 200 /\ request.method = "GET"
  <1>1. response.state \in 0..12 /\ response.preprocessed
    BY DEF WritePiece, HasPiece
  <1>2. response.state \in 5..12 => response.httpcode = 200
    BY <1>1 DEF IInv, ProtocolInv, HeaderInv
  <1>3. response.state = 12 => request.method \in {"GET", "HEAD"}
    BY DEF WritePiece, HasPiece
  <1> QED
    BY <1>1, <1>2, <1>3 DEF NextStage, BodyStage

\* What process_response() assigns to the response after writing a piece.
LEMMA StageType ==
    ASSUME response \in ResponseType, NEW i \in Nat, NEW s \in -1..BodyStage, NEW p \in BOOLEAN,
           response' = [response EXCEPT !.bufIndex = i, !.state = s, !.isPipelining = p]
    PROVE  /\ response' \in ResponseType
           /\ response'.bufIndex = i /\ response'.state = s /\ response'.isPipelining = p
           /\ response'.preprocessed = response.preprocessed
           /\ response'.httpcode = response.httpcode /\ response'.fpos = response.fpos
           /\ response'.file = response.file /\ response'.fp = response.fp
  BY DEF ResponseType

\* The writing of a piece of text preserves the invariant: a piece that fits
\* leads to the next stage, and one that does not is resumed where it was cut.
LEMMA PieceStep ==
    ASSUME IInv, WritePiece
    PROVE  IInv'
  <1> DEFINE stage == TextStage(response.state, request.method)
             added == addBuffer(writebuf, response.bufIndex,
                                Piece(stage, response.httpcode, response.file))
             next  == NextStage(response.state, response.httpcode, request.method)
             over  == added.done /\ next = -1
  <1>1. /\ writebuf' = added.buf
        /\ response' = [response EXCEPT !.bufIndex = added.index,
                                        !.state = IF added.done THEN next ELSE response.state,
                                        !.isPipelining = response.isPipelining \/ over]
        /\ request' = IF over THEN NextRequest ELSE request
        /\ pc' = IF added.done /\ next # -1 THEN pc ELSE "handlewrite"
        /\ UNCHANGED <<outside, readbuf, cgi>>
        /\ pc = "process_response" /\ response.preprocessed /\ response.state \in 0..12
    BY DEF WritePiece, HasPiece, Responding
  <1>2. /\ stage \in 0..12
        /\ added.buf \in Seq(Byte) /\ Len(added.buf) <= BUFSIZE
        /\ added.index \in Nat /\ added.index < PieceLen[stage]
        /\ added.done \in BOOLEAN
        /\ added.done => added.buf # <<>> /\ added.index = 0
    BY PieceFacts
  <1>3. /\ next \in -1..BodyStage
        /\ next \in 5..12 => response.httpcode = 200
        /\ next = BodyStage => response.httpcode = 200 /\ request.method = "GET"
    BY NextStageFacts
  <1>4. /\ request.state = "REQ_DONE" /\ ~response.isPipelining /\ ~is_cgi
        /\ response.state \in 5..12 => response.httpcode = 200
        /\ response.httpcode = 200 /\ request.method = "GET"
               => response.fp /\ response.file \in Line /\ response.fpos = 0
    BY <1>1 DEF IInv, ProtocolInv, HeaderInv
  <1>5. TypeOK /\ ProtocolInv /\ response \in ResponseType /\ request \in RequestType
        /\ cgi \in CgiType
    BY DEF IInv, TypeOK
  <1>6. NextRequest \in RequestType /\ NextRequest.state = "REQ_LINE" /\ ~NextRequest.content
        /\ ~NextRequest.cgi
    <2>1. /\ request.method \in Methods \cup {"none"}
          /\ request.ctLength \in Nat /\ request.ctIndex \in Nat
      BY <1>5 DEF RequestType
    <2> QED
      BY <2>1, InitRequestType DEF NextRequest, InitRequest
  <1>7. \A s \in 0..12 : PieceLen[TextStage(s, request.method)] > 0
    <2>1. \A s \in 0..12 : TextStage(s, request.method) \in 0..12
      BY DEF TextStage
    <2> QED
      BY <2>1, ResponseAssumption
  <1> HIDE DEF added, next
  <1>8. /\ response' \in ResponseType
        /\ response'.bufIndex = added.index
        /\ response'.state = IF added.done THEN next ELSE response.state
        /\ response'.isPipelining = over
        /\ response'.preprocessed = response.preprocessed
        /\ response'.httpcode = response.httpcode /\ response'.fpos = response.fpos
        /\ response'.file = response.file /\ response'.fp = response.fp
    <2> DEFINE s == IF added.done THEN next ELSE response.state
               p == response.isPipelining \/ over
    <2>1. s \in -1..BodyStage /\ p \in BOOLEAN /\ p = over
      BY <1>1, <1>2, <1>3, <1>4, <1>5 DEF BodyStage
    <2>2. response' = [response EXCEPT !.bufIndex = added.index, !.state = s, !.isPipelining = p]
      BY <1>1
    <2>3. response \in ResponseType /\ added.index \in Nat
      BY <1>2, <1>5
    <2> HIDE DEF s, p, over
    <2>4. /\ response' \in ResponseType
          /\ response'.bufIndex = added.index /\ response'.state = s /\ response'.isPipelining = p
          /\ response'.preprocessed = response.preprocessed
          /\ response'.httpcode = response.httpcode /\ response'.fpos = response.fpos
          /\ response'.file = response.file /\ response'.fp = response.fp
      BY <2>1, <2>2, <2>3, StageType
    <2> QED
      BY <2>1, <2>4 DEF s
  <1>9. request' \in RequestType /\ pc' \in Place /\ writebuf' = added.buf
    BY <1>1, <1>5, <1>6 DEF Place
  <1>10. TypeOK'
    BY <1>1, <1>2, <1>5, <1>8, <1>9, ObjectType DEF TypeOK
  <1>11. CASE ~added.done
    <2>1. /\ response'.state = response.state /\ ~response'.isPipelining
          /\ request' = request /\ pc' = "handlewrite"
      BY <1>1, <1>8, <1>11
    <2>2. LoopInv' /\ ParserInv' /\ FinishedHasBytes'
      BY <1>1, <1>5, <1>8, <2>1
         DEF ProtocolInv, LoopInv, ParserInv, FinishedHasBytes, is_cgi
    <2>3. ~is_cgi'
      BY <1>1, <1>4, <1>8, <2>1 DEF is_cgi
    <2>4. HeaderInv'
      BY <1>1, <1>2, <1>4, <1>8, <2>1, <2>3 DEF HeaderInv
    <2>5. BodyInv'
      BY <1>1, <1>8, <2>1 DEF BodyInv, BodyStage
    <2> QED
      BY <1>10, <2>2, <2>4, <2>5 DEF IInv, ProtocolInv
  <1>12. CASE added.done /\ next # -1
    <2>1. /\ response'.state = next /\ response'.bufIndex = 0 /\ ~response'.isPipelining
          /\ request' = request /\ pc' = pc /\ writebuf' # <<>>
      BY <1>1, <1>2, <1>8, <1>12
    <2>2. ~is_cgi'
      BY <1>1, <1>4, <1>8, <2>1 DEF is_cgi
    <2>3. LoopInv' /\ ParserInv' /\ FinishedHasBytes'
      BY <1>1, <1>5, <1>12, <1>8, <2>1, <2>2
         DEF ProtocolInv, LoopInv, ParserInv, FinishedHasBytes
    <2>4. HeaderInv'
      BY <1>1, <1>3, <1>4, <1>7, <1>8, <2>1, <2>2, SMTT(60) DEF HeaderInv
    <2>5. BodyInv'
      <3>1. CASE next = BodyStage
        <4>1. /\ response'.fp /\ response'.file \in Line /\ response'.fpos = 0
          BY <1>3, <1>4, <1>8, <3>1
        <4>2. FileSize[response'.file] \in Nat
          BY <4>1, ResponseAssumption
        <4>3. pc' = "process_response" /\ request'.state = "REQ_DONE"
              /\ request'.method \in {"GET", "HEAD"}
          BY <1>1, <1>3, <1>4, <2>1, <3>1
        <4> QED
          BY <2>1, <4>1, <4>2, <4>3 DEF BodyInv
      <3>2. CASE next # BodyStage
        BY <2>1, <3>2 DEF BodyInv
      <3> QED
        BY <3>1, <3>2
    <2> QED
      BY <1>10, <2>3, <2>4, <2>5 DEF IInv, ProtocolInv
  <1>13. CASE added.done /\ next = -1
    <2>1. /\ response'.state = -1 /\ request' = NextRequest /\ pc' = "handlewrite"
          /\ writebuf' # <<>>
      BY <1>1, <1>2, <1>13, <1>8
    <2>2. LoopInv' /\ ParserInv' /\ FinishedHasBytes'
      BY <1>1, <1>5, <1>6, <2>1
         DEF ProtocolInv, LoopInv, ParserInv, FinishedHasBytes, is_cgi
    <2>3. HeaderInv' /\ BodyInv'
      BY <1>1, <1>8, <2>1 DEF HeaderInv, BodyInv, BodyStage
    <2> QED
      BY <1>10, <2>2, <2>3 DEF IInv, ProtocolInv
  <1> QED
    BY <1>11, <1>12, <1>13

\* Sending the file preserves the invariant: a visit that does not reach the
\* end of the file leaves something to read for the next one, and a visit that
\* does leaves something to send.
LEMMA BodyStep ==
    ASSUME IInv, WriteBody
    PROVE  IInv'
  <1> DEFINE file  == response.file
             added == readFileContent(writebuf, file, response.fpos)
  <1>1. /\ writebuf' = added.buf
        /\ response' = [response EXCEPT !.isPipelining = TRUE, !.fpos = added.fpos,
                                        !.state = IF added.done THEN -1 ELSE response.state]
        /\ request' = IF response.isPipelining THEN request ELSE NextRequest
        /\ pc = "process_response" /\ pc' = "handlewrite"
        /\ UNCHANGED <<outside, readbuf, cgi>>
        /\ response.preprocessed /\ response.state = BodyStage
    BY DEF WriteBody, Responding
  <1>2. /\ TypeOK /\ ProtocolInv /\ response \in ResponseType /\ request \in RequestType
        /\ cgi \in CgiType
    BY DEF IInv, TypeOK
  <1>3. /\ response.fp /\ file \in Line /\ response.fpos \in Nat /\ FileSize[file] \in Nat
        /\ response.fpos < FileSize[file]
           \/ (response.fpos = FileSize[file] /\ writebuf # <<>>)
    <2>1. response.fp /\ file \in Line
             /\ (response.fpos < FileSize[file]
                  \/ (response.fpos = FileSize[file] /\ writebuf # <<>>))
      <3>1. response.state = BodyStage /\ BodyInv
        BY <1>1, <1>2 DEF ProtocolInv
      <3> QED
        BY <3>1 DEF BodyInv
    <2>2. response.fpos \in Nat
      BY <1>2 DEF ResponseType
    <2>3. FileSize[file] \in Nat
      BY <2>1, ResponseAssumption
    <2> QED
      BY <2>1, <2>2, <2>3
  <1>4. /\ added.buf \in Seq(Byte) /\ Len(added.buf) <= BUFSIZE
        /\ added.fpos \in Nat /\ added.done \in BOOLEAN
        /\ added.done => added.buf # <<>>
        /\ ~added.done => added.fpos < FileSize[file]
    <2>1. /\ writebuf \in Seq(Byte) /\ Len(writebuf) <= BUFSIZE
          /\ response.fpos <= FileSize[file]
          /\ response.fpos < FileSize[file] \/ writebuf # <<>>
      BY <1>2, <1>3 DEF TypeOK
    <2> HIDE DEF file
    <2> QED
      BY <1>3, <2>1, ReadFile
  <1>5. /\ request' \in RequestType /\ ~request'.content
        /\ request' = request \/ request'.state = "REQ_LINE"
    <2>1. /\ request.method \in Methods \cup {"none"}
          /\ request.ctLength \in Nat /\ request.ctIndex \in Nat
      BY <1>2 DEF RequestType
    <2>2. NextRequest \in RequestType /\ NextRequest.state = "REQ_LINE" /\ ~NextRequest.content
      BY <2>1, InitRequestType DEF NextRequest, InitRequest
    <2> QED
      BY <1>1, <1>2, <2>2 DEF ProtocolInv, ParserInv
  <1> HIDE DEF added
  <1>6. PICK s \in {-1, BodyStage} : s = IF added.done THEN -1 ELSE response.state
    BY <1>1
  <1>7. /\ response' \in ResponseType
        /\ response'.state = s /\ response'.fpos = added.fpos
        /\ response'.preprocessed /\ response'.httpcode = response.httpcode
        /\ response'.file = file /\ response'.fp
    <2>1. PICK p \in BOOLEAN : p = TRUE
      OBVIOUS
    <2>2. response' = [response EXCEPT !.isPipelining = p, !.fpos = added.fpos, !.state = s]
      BY <1>1, <1>6, <2>1
    <2>3. s \in -1..BodyStage
      BY <1>6 DEF BodyStage
    <2> QED
      BY <1>1, <1>2, <1>3, <1>4, <2>2, <2>3, ZenonT(60) DEF ResponseType
  <1>8. TypeOK'
    <2>1. UNCHANGED outside /\ pc' \in Place /\ cgi' \in CgiType
      BY <1>1, <1>2 DEF Place
    <2>2. /\ readbuf' \in Seq(Wire) /\ Len(readbuf') <= BUFSIZE
          /\ writebuf' \in Seq(Byte) /\ Len(writebuf') <= BUFSIZE
      BY <1>1, <1>2, <1>4 DEF TypeOK
    <2>3. TypeOK /\ request' \in RequestType /\ response' \in ResponseType
      BY <1>2, <1>5, <1>7
    <2> QED
      BY <2>1, <2>2, <2>3, ObjectType
  <1>9. LoopInv' /\ ParserInv' /\ FinishedHasBytes'
    <2>1. closed' = closed /\ closed = 0 /\ pc' = "handlewrite"
          /\ readbuf' = readbuf /\ cgi' = cgi /\ writebuf' = added.buf
      BY <1>1, <1>2 DEF ProtocolInv, LoopInv
    <2>2. LoopInv'
      BY <2>1 DEF LoopInv
    <2>3. ParserInv'
      <3>1. ParserInv /\ response'.httpcode = response.httpcode
        BY <1>2, <1>7 DEF ProtocolInv
      <3>2. CASE request' = request
        BY <2>1, <3>1, <3>2 DEF ParserInv
      <3>3. CASE request'.state = "REQ_LINE"
        BY <1>5, <2>1, <3>1, <3>3 DEF ParserInv
      <3> QED
        BY <1>5, <3>2, <3>3
    <2>4. FinishedHasBytes'
      BY <1>4, <1>6, <1>7, <2>1, <1>1 DEF FinishedHasBytes, BodyStage
    <2> QED
      BY <2>2, <2>3, <2>4
  <1>10. HeaderInv'
    BY <1>7 DEF HeaderInv, BodyStage
  <1>11. BodyInv'
    BY <1>3, <1>4, <1>6, <1>7 DEF BodyInv, BodyStage
  <1> QED
    BY <1>8, <1>9, <1>10, <1>11 DEF IInv, ProtocolInv

\* The visits that write nothing preserve the invariant, and so does a crash.
LEMMA IdleResponseSteps ==
    ASSUME IInv, NoResponse \/ NothingToWrite \/ Crash
    PROVE  IInv'
  <1>1. /\ UNCHANGED <<outside, dataVars>>
        /\ pc = "process_response" /\ pc' \in {"handlewrite", "crashed"}
    BY DEF NoResponse, NothingToWrite, Crash, Responding
  <1>2. TypeOK'
    BY <1>1 DEF IInv, TypeOK, Place
  <1>3. LoopInv' /\ ParserInv' /\ FinishedHasBytes'
    BY <1>1 DEF IInv, ProtocolInv, LoopInv, ParserInv, FinishedHasBytes, is_cgi
  <1>4. HeaderInv'
    BY <1>1 DEF IInv, ProtocolInv, HeaderInv, is_cgi
  <1>5. ~(response.state = BodyStage /\ request.state = "REQ_DONE"
             /\ request.method \in {"GET", "HEAD"})
    <2>1. response.state = BodyStage => response.preprocessed
      BY DEF IInv, ProtocolInv, HeaderInv, BodyStage
    <2> QED
      BY <2>1 DEF NoResponse, NothingToWrite, Crash, Responding, BodyStage
  <1>6. BodyInv'
    BY <1>1, <1>5 DEF IInv, ProtocolInv, BodyInv
  <1> QED
    BY <1>2, <1>3, <1>4, <1>6 DEF IInv, ProtocolInv
------------------------------------------------------------------------------
(* handlewrite() and removeClosedSocket().                                 *)

\* Every way a send() can end preserves the invariant: when it empties the
\* buffer of a complete response, the connection is marked in the same call.
LEMMA SendSteps ==
    ASSUME IInv, NoSend \/ Send \/ SendShort \/ SendToClosed \/ SendFails
    PROVE  IInv'
  <1>1. TypeOK /\ ProtocolInv
    BY DEF IInv
  <1>2. /\ pc = "handlewrite" /\ pc' = "remove" /\ closed' \in {0, 1, 2}
        /\ UNCHANGED <<inRead, inWrite, readbuf, request, response, cgi, isHTTPS, pending,
                       script, asked, todo>>
        /\ writebuf' \in {writebuf, <<>>}
    BY <1>1 DEF TypeOK, NoSend, Send, SendShort, SendToClosed, SendFails, Sending, AfterSend
  <1>3. inbox' = inbox \/ inbox' = SubSeq(inbox, 1, pending)
    BY DEF NoSend, Send, SendShort, SendToClosed, SendFails
  <1>4. inbox' \in Seq(Wire) /\ pending' \in 0..Len(inbox')
    <2>1. inbox \in Seq(Wire) /\ pending \in 0..Len(inbox) /\ Len(inbox) \in Nat
      BY <1>1, LenProperties DEF TypeOK
    <2>2. 1 \in Nat \ {0} /\ pending \in Nat /\ pending <= Len(inbox)
      BY <2>1
    <2>3. /\ SubSeq(inbox, 1, pending) \in Seq(Wire)
          /\ Len(SubSeq(inbox, 1, pending)) = IF 1 <= pending THEN pending - 1 + 1 ELSE 0
      BY <2>1, <2>2, PartIsSeq
    <2> DEFINE part == SubSeq(inbox, 1, pending)
    <2>4. part \in Seq(Wire) /\ Len(part) = pending
      BY <2>2, <2>3
    <2> HIDE DEF part
    <2>5. inbox' = inbox \/ inbox' = part
      BY <1>3 DEF part
    <2> QED
      BY <1>2, <2>1, <2>2, <2>4, <2>5
  <1>5. TypeOK'
    BY <1>1, <1>2, <1>4, TypeFacts, ZenonT(60) DEF TypeOK, Place
  <1>6. FinishedHasBytes'
    BY <1>1, <1>2 DEF ProtocolInv, FinishedHasBytes, LoopInv,
                      NoSend, Send, SendShort, SendToClosed, SendFails, Sending, AfterSend
  <1>7. LoopInv' /\ ParserInv'
    BY <1>1, <1>2 DEF ProtocolInv, LoopInv, ParserInv, is_cgi
  <1>8. HeaderInv'
    BY <1>1, <1>2 DEF ProtocolInv, HeaderInv, is_cgi
  <1>9. BodyInv'
    BY <1>1, <1>2 DEF ProtocolInv, BodyInv
  <1> QED
    BY <1>5, <1>6, <1>7, <1>8, <1>9 DEF IInv, ProtocolInv

\* Freeing, resetting or keeping the connection preserves the invariant.
LEMMA RemoveSteps ==
    ASSUME IInv, RemoveClosed \/ NextResponse \/ StayOpen
    PROVE  IInv'
  <1>1. TypeOK /\ ProtocolInv /\ response.httpcode \in Code
    BY DEF IInv, TypeOK, ResponseType
  <1>2. CASE RemoveClosed \/ StayOpen
    <2>1. /\ UNCHANGED <<outside, dataVars>>
          /\ pc = "remove" /\ pc' \in {"gone", "select"} /\ (pc' = "select" => closed = 0)
      BY <1>2 DEF RemoveClosed, StayOpen
    <2>2. TypeOK'
      BY <1>1, <2>1 DEF TypeOK, Place
    <2>3. LoopInv' /\ ParserInv' /\ FinishedHasBytes'
      BY <1>1, <2>1 DEF ProtocolInv, LoopInv, ParserInv, FinishedHasBytes, is_cgi
    <2>4. HeaderInv'
      BY <1>1, <2>1 DEF ProtocolInv, HeaderInv, is_cgi
    <2>5. BodyInv'
      BY <1>1, <2>1 DEF ProtocolInv, BodyInv
    <2> QED
      BY <2>2, <2>3, <2>4, <2>5 DEF IInv, ProtocolInv
  <1>3. CASE NextResponse
    <2>1. /\ response' = InitResponse(response.httpcode) /\ closed' = 0 /\ pc' = "select"
          /\ UNCHANGED <<clientVars, netVars, inRead, inWrite, readbuf, writebuf, request, cgi>>
      BY <1>3 DEF NextResponse
    <2>2. response' \in ResponseType
      BY <1>1, <2>1, InitResponseType
    <2>3. TypeOK'
      BY <1>1, <2>1, <2>2 DEF TypeOK, Place
    <2>4. ProtocolInv'
      BY <1>1, <2>1 DEF ProtocolInv, LoopInv, ParserInv, HeaderInv, BodyInv, BodyStage,
                        FinishedHasBytes, is_cgi, InitResponse
    <2> QED
      BY <2>3, <2>4 DEF IInv
  <1> QED
    BY <1>2, <1>3
------------------------------------------------------------------------------
(* The client and the network.                                             *)

\* A step that does not touch the server's part of the state keeps the
\* protocol invariant.
LEMMA OutsideStep ==
    ASSUME ProtocolInv, UNCHANGED server
    PROVE  ProtocolInv'
  BY DEF ProtocolInv, LoopInv, ParserInv, HeaderInv, BodyInv, FinishedHasBytes, is_cgi

\* The steps of the client and of the network preserve the invariant.
LEMMA ClientSteps ==
    ASSUME IInv, Client
    PROVE  IInv'
  <1>1. TypeOK /\ ProtocolInv /\ UNCHANGED <<server, script>>
    BY DEF IInv, Client, Ask, Deliver, Receive, HangUp
  <1>2. ProtocolInv'
    BY <1>1, OutsideStep
  <1>3. inbox \in Seq(Wire) /\ todo \in Seq(Wire) /\ asked \in 0..Len(script)
        /\ pending \in 0..Len(inbox) /\ Len(inbox) \in Nat /\ Len(script) \in Nat
    BY <1>1, LenProperties, ClientAssumption DEF TypeOK
  <1>4. CASE Ask
    <2>1. asked' = asked + 1 /\ todo' = todo \o Encoded(script[asked + 1])
          /\ asked < Len(script) /\ inbox' = inbox
      BY <1>4 DEF Ask
    <2>2. asked + 1 \in 1..Len(script)
      BY <1>3, <2>1
    <2>3. Encoded(script[asked + 1]) \in Seq(Wire)
      BY <1>1, <2>2, ClientAssumption DEF TypeOK
    <2>4. todo' \in Seq(Wire)
      BY <1>3, <2>1, <2>3, ConcatProperties
    <2>5. TypeOK'
      BY <1>1, <2>1, <2>2, <2>4 DEF TypeOK
    <2> QED
      BY <1>2, <2>5 DEF IInv
  <1>5. CASE Deliver
    <2>1. inbox' = Append(inbox, Head(todo)) /\ todo' = Tail(todo) /\ todo # <<>>
          /\ asked' = asked
      BY <1>5 DEF Deliver
    <2>2. Head(todo) \in Wire /\ Tail(todo) \in Seq(Wire)
      BY <1>3, <2>1, HeadTailProperties
    <2>3. inbox' \in Seq(Wire) /\ Len(inbox') = Len(inbox) + 1
      BY <1>3, <2>1, <2>2, AppendProperties
    <2>4. pending' \in 0..Len(inbox')
      BY <1>1, <1>3, <2>3
    <2>5. TypeOK'
      BY <1>1, <2>1, <2>2, <2>3, <2>4 DEF TypeOK
    <2> QED
      BY <1>2, <2>5 DEF IInv
  <1>6. CASE Receive \/ HangUp
    <2>1. inbox' = inbox /\ asked' = asked /\ todo' \in {todo, <<>>}
      BY <1>6 DEF Receive, HangUp
    <2>2. TypeOK'
      BY <1>1, <2>1, TypeFacts, ZenonT(60) DEF TypeOK
    <2> QED
      BY <1>2, <2>2 DEF IInv
  <1> QED
    BY <1>4, <1>5, <1>6 DEF Client
------------------------------------------------------------------------------
(* The theorems.                                                           *)

\* IInv is inductive: every step of the server, of the CGI program, of the
\* network and of the client preserves it.
THEOREM Inductive == IInv /\ [Next]_vars => IInv'
  <1> SUFFICES ASSUME IInv, [Next]_vars PROVE IInv'
    OBVIOUS
  <1>1. CASE Server
    BY <1>1, LoopSteps, ParseSteps, CgiSteps, PreprocessSteps, PieceStep, BodyStep,
       IdleResponseSteps, SendSteps, RemoveSteps DEF Server
  <1>2. CASE ChildWrite
    BY <1>2, CgiSteps
  <1>3. CASE Client
    BY <1>3, ClientSteps
  <1>4. CASE Over \/ UNCHANGED vars
    <2>1. UNCHANGED vars
      BY <1>4 DEF Over
    <2> QED
      BY <2>1 DEF IInv, TypeOK, ProtocolInv, LoopInv, ParserInv, HeaderInv, BodyInv,
                  FinishedHasBytes, is_cgi
  <1> QED
    BY <1>1, <1>2, <1>3, <1>4 DEF Next

\* The inductive invariant holds in every reachable state.
THEOREM Invariant == Spec => []IInv
  BY InitInv, Inductive, PTL DEF Spec

\* The types of the ClientSocket object and the sizes of its two buffers
\* (clientsocket.c:64-189), for every size of the buffers, of the files and of
\* the texts.
THEOREM TypeCorrect == Spec => []TypeOK
  BY Invariant, PTL DEF IInv

\* The assertion of prepare_select() (pool_internal.c:41) never fails.
THEOREM AssertHolds == Spec => []NeverSelectClosed
  <1>1. IInv => NeverSelectClosed
    BY DEF IInv, ProtocolInv, LoopInv, NeverSelectClosed
  <1> QED
    BY <1>1, Invariant, PTL

\* handlewrite() never returns early with a complete response that it should
\* have marked (clientsocket.c:152): no response wedges its connection.
THEOREM NoWedge == Spec => []FinishedHasBytes
  <1>1. IInv => FinishedHasBytes
    BY DEF IInv, ProtocolInv
  <1> QED
    BY <1>1, Invariant, PTL

\* start_pipelining() (process_response.c:181-186) never lets the next request
\* in while the headers of a response still depend on the present one.
THEOREM RequestStays == Spec => []RequestHeld
  <1>1. IInv => RequestHeld
    BY DEF IInv, ProtocolInv, HeaderInv, RequestHeld
  <1> QED
    BY <1>1, Invariant, PTL

\* readFileContent() (process_response.c:300-317) always has an open file and a
\* position inside it.
THEOREM FileStays == Spec => []BodyHasFile
  <1>1. IInv => BodyHasFile
    <2> SUFFICES ASSUME IInv, response.state = BodyStage
                 PROVE  /\ response.fp /\ response.file \in Line
                        /\ response.fpos <= FileSize[response.file]
      BY DEF BodyHasFile
    <2>1. /\ response.fp /\ response.file \in Line
          /\ \/ response.fpos < FileSize[response.file]
             \/ response.fpos = FileSize[response.file]
      BY DEF IInv, ProtocolInv, BodyInv
    <2>2. response.fpos \in Nat /\ FileSize[response.file] \in Nat
      BY <2>1, ResponseAssumption DEF IInv, TypeOK, ResponseType
    <2> QED
      BY <2>1, <2>2
  <1> QED
    BY <1>1, Invariant, PTL

\* While the status line is on its way, httpcode does not change: the parser
\* writes it, but never then, so the branch after the "Server" line is the one
\* that the status line announced (process_response.c:43-97).
THEOREM CodeSettled == Spec => CodeIsSettled
  <1> DEFINE A == response.preprocessed /\ response.state \in 0..3 /\ response'.preprocessed
                     => response'.httpcode = response.httpcode
  <1>1. IInv /\ [Next]_vars => [A]_vars
    <2> SUFFICES ASSUME IInv, Next, response.preprocessed, response.state \in 0..3,
                        response'.preprocessed
                 PROVE  response'.httpcode = response.httpcode
      OBVIOUS
    <2>1. response \in ResponseType /\ request.state = "REQ_DONE" /\ ~is_cgi
      BY DEF IInv, TypeOK, ProtocolInv, HeaderInv
    <2>2. CASE UNCHANGED response
      BY <2>2
    <2>3. CASE WritePiece
      <3>1. PICK i, s, p : response' = [response EXCEPT !.bufIndex = i, !.state = s,
                                                        !.isPipelining = p]
        BY <2>3 DEF WritePiece
      <3> QED
        BY <2>1, <3>1 DEF ResponseType
    <2>4. CASE NextResponse
      BY <2>4 DEF NextResponse, InitResponse
    <2>5. CASE Server /\ ~WritePiece /\ ~NextResponse
      <3>1. ~(\E s \in {"REQ_LINE", "REQ_HEADER"} : Parsing(s))
        BY <2>1 DEF Parsing
      <3>2. ~(BadLineEnd \/ BadRequestLine \/ HeadersEnd \/ BadHeaderLine \/ ParseNoMemory)
        BY <3>1 DEF BadLineEnd, BadRequestLine, HeadersEnd, BadHeaderLine, ParseNoMemory
      <3>3. ~(Content \/ CgiStartFails \/ CgiPoll \/ Preprocess \/ PreprocessNoMemory)
        BY <2>1 DEF Content, CgiStartFails, CgiPoll, Preprocess, PreprocessNoMemory
      <3>4. ~WriteBody
        BY DEF WriteBody, BodyStage
      <3> QED
        BY <2>5, <3>2, <3>3, <3>4
           DEF Server, Select, NoRead, Read, ReadEnd, Flushing, ParseIdle, NeedMoreData,
               RequestLine, HeaderLine, NotCgi, CgiStart, NoResponse, NothingToWrite, Crash,
               NoSend, Send, SendShort, SendToClosed, SendFails, AfterSend, RemoveClosed, StayOpen
    <2>6. CASE ChildWrite \/ Client \/ Over
      BY <2>6 DEF ChildWrite, Client, Ask, Deliver, Receive, HangUp, Over
    <2> QED
      BY <2>3, <2>4, <2>5, <2>6 DEF Next
  <1> QED
    BY <1>1, Invariant, PTL DEF Spec, CodeIsSettled
==============================================================================
