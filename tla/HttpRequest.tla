----------------------------- MODULE HttpRequest -----------------------------
(***************************************************************************)
(* The request side of one connection, as pure operators: what a client    *)
(* puts on the wire, and how process_request.c and httprequest.c cut the   *)
(* read buffer into lines and judge each line.                             *)
(*                                                                         *)
(* A buffer is a sequence of wire symbols.  "CR" and "LF" are the bytes    *)
(* the parser looks for; a request line, a header line and a byte of       *)
(* content are one symbol each, because the parser treats the text of a    *)
(* line as a unit.  BUFSIZE and every length count symbols.                *)
(***************************************************************************)
EXTENDS Integers, Sequences, SequencesExt

CONSTANTS
    BUFSIZE,    \* CLISOCK_BUFSIZE, the size of readbuf and of writebuf
    Line,       \* the request lines that clients write
    Method,     \* Method[l]: the method verify_method finds in l, or "none"
    Target      \* Target[l]: what the rest of l names (see Targets)

Methods == {"GET", "HEAD", "POST"}

\* What a request line asks for.  "bad": the method, the URI or the version is
\* missing or wrong; "cgi": the URI starts with /cgi/; "missing": no such file;
\* "unreadable": stat() succeeds and fopen() does not; "noext": a file whose
\* path has no dot in it.
Targets == {"bad", "cgi", "file", "missing", "unreadable", "noext"}

\* The header lines that matter: an ordinary key, Content-Length with a number,
\* and a line without a colon.
Header == {"host", "length", "nocolon"}

ASSUME RequestAssumption ==
    /\ BUFSIZE \in Nat /\ BUFSIZE >= 3
    /\ Method \in [Line -> Methods \cup {"none"}]
    /\ Target \in [Line -> Targets]
    /\ \A l \in Line : Method[l] = "none" => Target[l] = "bad"
    /\ Line \cap (Header \cup {"CR", "LF", "data", "none"}) = {}

Wire == Line \cup Header \cup {"CR", "LF", "data"}

CRLF == <<"CR", "LF">>

\* The bytes of a request [line, times, headers, body]: its request line, which
\* the client may repeat on one line, its header lines and its content.
Encoded(req) ==
    [i \in 1..req.times |-> req.line] \o CRLF
      \o FlattenSeq([i \in DOMAIN req.headers |-> <<req.headers[i]>> \o CRLF])
      \o CRLF \o [i \in 1..req.body |-> "data"]
------------------------------------------------------------------------------
\* checkBuffer(): 0 = bad request, 1 = a whole line, 2 = need more data.
checkBuffer(buf) ==
    LET len == Len(buf)
    IN  IF buf[len] = "LF"
        THEN IF len < 2 \/ buf[len - 1] # "CR" THEN 0 ELSE 1
        ELSE IF len = BUFSIZE THEN 0 ELSE 2

\* The line without its "\r\n": what store, or a header's store, holds.
Text(buf) == SubSeq(buf, 1, Len(buf) - 2)

\* verify_method(): the method the first word of the text names; a text that
\* names none leaves httpmethod as it was.
MethodOf(text, method) ==
    IF text # <<>> /\ text[1] \in Line /\ Method[text[1]] # "none"
    THEN Method[text[1]] ELSE method

\* verify_method && verify_uri && verify_httpV: the text is one good line.
\* Anything before or after the line spoils the method or the version.
ValidLine(text) ==
    Len(text) = 1 /\ text[1] \in Line /\ Target[text[1]] # "bad"

\* makeKVPair(): a key-value pair, or NULL (FALSE) when there is no colon.
HasColon(text) ==
    \E i \in DOMAIN text : text[i] \in Header \ {"nocolon"}

\* KVPcompareKey(kvp, "Content-Length") != 0: the key, which ends at the first
\* colon, differs.
KeyDiffers(text) == text[1] # "length"

\* getValueByKey(): the first pair for which strcasecmp() is not zero; its
\* value is what follows the colon in that pair.  <<>> stands for NULL.
getValueByKey(headers) ==
    LET found == SelectSeq(headers, KeyDiffers)
    IN  IF found = <<>> THEN <<>> ELSE Head(found)

\* checkHeader(): some key equals Content-Length.
checkHeader(headers) == \E i \in DOMAIN headers : ~KeyDiffers(headers[i])

\* isValidCtLen(): the value of the pair is made of digits.
isValidCtLen(text) == text = <<"length">>

\* read_contentData(): how many bytes of the buffer go into the content.
ToCopy(buf, ctIndex, ctLength) ==
    IF Len(buf) >= ctLength - ctIndex THEN ctLength - ctIndex ELSE Len(buf)
==============================================================================
