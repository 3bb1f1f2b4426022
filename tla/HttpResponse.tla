----------------------------- MODULE HttpResponse ----------------------------
(***************************************************************************)
(* The response side of one connection, as pure operators: the pieces of   *)
(* text a response is made of (process_response.c), how a piece or a part  *)
(* of a file is put into the write buffer (addBuffer, readFileContent),    *)
(* and the reply a client is owed.                                         *)
(*                                                                         *)
(* A byte of a response is a tuple <<stage, httpcode, file, i>>: the i-th  *)
(* byte of the piece written at that value of response->state, with the    *)
(* code or the file its text depends on (0 and "none" when it depends on   *)
(* neither).                                                               *)
(***************************************************************************)
EXTENDS HttpRequest

CONSTANTS
    PieceLen,   \* PieceLen[s]: the length of the text written at stage s
    FileSize,   \* FileSize[l]: the size of the file that request line l names
    CgiSize     \* how many bytes the CGI program writes

ASSUME ResponseAssumption ==
    /\ PieceLen \in [0..12 -> Nat \ {0}]
    /\ FileSize \in [Line -> Nat]
    /\ CgiSize \in Nat

BodyStage == 13     \* response->state while the file is being sent
CgiStage  == 20     \* bytes the CGI program wrote
JunkStage == 99     \* bytes nobody wrote

Code == {0, 200, 400, 404, 411, 500}

Byte == (0..JunkStage) \X Code \X (Line \cup {"none"}) \X Nat

\* The code the status line names.
StatusCode(code) == IF code \in {200, 400, 404, 411} THEN code ELSE 500

\* The text process_response writes at stage s.
Piece(s, code, file) ==
    [i \in 1..PieceLen[s] |->
        <<s, IF s = 0 THEN StatusCode(code) ELSE 0, IF s \in {7, 9, 11} THEN file ELSE "none", i>>]

\* Bytes first + 1 .. last of the file.
FileBytes(file, first, last) ==
    [i \in 1..(last - first) |-> <<BodyStage, 0, file, first + i>>]

CgiByte(i) == <<CgiStage, 0, "none", i>>

Junk(n) == [i \in 1..n |-> <<JunkStage, 0, "none", i>>]
------------------------------------------------------------------------------
\* Mutation: the last byte is counted twice.
FreeSpaceOneMore(buf) == BUFSIZE - Len(buf) + 1

FreeSpace(buf) == BUFSIZE - Len(buf)

\* Mutation: a piece that was cut is written from its start again.
addBufferFromStart(buf, outIndex, out) ==
    LET fits   == Len(out) <= FreeSpace(buf)
        copied == IF fits THEN Len(out) ELSE FreeSpace(buf)
    IN  [buf   |-> buf \o SubSeq(out, 1, copied),
         index |-> IF fits THEN 0 ELSE copied,
         done  |-> fits]

\* addBuffer(): copies what is left of out, or as much as fits; *outIndex
\* remembers where to resume, and is zero again after the last byte.
addBuffer(buf, outIndex, out) ==
    LET needToCopy == Len(out) - outIndex
        fits       == needToCopy <= FreeSpace(buf)
        copied     == IF fits THEN needToCopy ELSE FreeSpace(buf)
    IN  [buf   |-> buf \o SubSeq(out, outIndex + 1, outIndex + copied),
         index |-> IF fits THEN 0 ELSE outIndex + copied,
         done  |-> fits]

\* Mutation: < for <=, so that a part that fills the buffer is not the last.
readFileContentStrict(buf, file, fpos) ==
    LET needToCopy == FileSize[file] - fpos
        fits       == needToCopy < FreeSpace(buf)
        copied     == IF fits THEN needToCopy ELSE FreeSpace(buf)
    IN  [buf  |-> buf \o FileBytes(file, fpos, fpos + copied),
         fpos |-> fpos + copied,
         done |-> fits]

\* readFileContent(): the same for the file, whose position is ftell(fp).
readFileContent(buf, file, fpos) ==
    LET needToCopy == FileSize[file] - fpos
        fits       == needToCopy <= FreeSpace(buf)
        copied     == IF fits THEN needToCopy ELSE FreeSpace(buf)
    IN  [buf  |-> buf \o FileBytes(file, fpos, fpos + copied),
         fpos |-> fpos + copied,
         done |-> fits]

\* The stage that follows stage s (response->state after a whole piece).
NextStage(s, code, method) ==
    CASE s = 3                           -> IF code # 200 THEN 4 ELSE 5
      [] s = 4                           -> -1
      [] s = 6 /\ method = "POST"        -> -1
      [] s = 12 /\ method = "HEAD"       -> -1
      [] OTHER                           -> s + 1

\* At stage 6 a POST writes the blank line that a GET writes at stage 12.
TextStage(s, method) == IF s = 6 /\ method = "POST" THEN 12 ELSE s
------------------------------------------------------------------------------
\* The reply a client is owed, defined from the texts and not from the state
\* machine: the pieces in order.
Pieces(stages, code, file) ==
    FlattenSeq([i \in DOMAIN stages |-> Piece(stages[i], code, file)])

Failed(code) == Pieces(<<0, 1, 2, 3, 4>>, code, "none")

FileHead(file) == Pieces(<<0, 1, 2, 3, 5, 6, 7, 8, 9, 10, 11, 12>>, 200, file)

Reply(req) ==
    LET l      == req.line
        has(h) == \E i \in DOMAIN req.headers : req.headers[i] = h
    IN  IF Target[l] = "bad" \/ req.times > 1 THEN Failed(400)
        ELSE IF has("nocolon") THEN Failed(500)
        ELSE IF Method[l] = "POST"
             THEN IF has("length") THEN Pieces(<<0, 1, 2, 3, 5, 12>>, 200, "none")
                                   ELSE Failed(411)
        ELSE CASE Target[l] = "cgi"     -> [i \in 1..CgiSize |-> CgiByte(i)]
               [] Target[l] = "missing" -> Failed(404)
               [] Target[l] = "unreadable" /\ Method[l] = "GET" -> Failed(500)
               [] OTHER -> IF Method[l] = "HEAD" THEN FileHead(l)
                           ELSE FileHead(l) \o FileBytes(l, 0, FileSize[l])
==============================================================================
