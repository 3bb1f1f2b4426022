---------------------------- MODULE MCClientSocket ---------------------------
(***************************************************************************)
(* Values for the constants of ClientSocket.                               *)
(***************************************************************************)
EXTENDS ClientSocket

MCMethod ==
    [get |-> "GET", empty |-> "GET", fit |-> "GET", head |-> "HEAD", post |-> "POST",
     cgi |-> "GET", missing |-> "GET", noread |-> "GET", noext |-> "GET",
     bad |-> "none", badpost |-> "POST"]

MCTarget ==
    [get |-> "file", empty |-> "file", fit |-> "file", head |-> "file", post |-> "file",
     cgi |-> "cgi", missing |-> "missing", noread |-> "unreadable", noext |-> "noext",
     bad |-> "bad", badpost |-> "bad"]

MCLine == DOMAIN MCMethod

\* With BUFSIZE = 4: a file that needs two buffers, an empty one, and one that
\* fills the buffer exactly.
MCFileSize == [l \in MCLine |-> CASE l = "empty" -> 0 [] l = "fit" -> 4 [] OTHER -> 5]

\* Stage 0 and stage 11 write two bytes, so that a piece can be cut in two.
MCPieceLen == [s \in 0..12 |-> IF s \in {0, 11} THEN 2 ELSE 1]

\* One request: its line, some header lines, a byte of content for a POST.
Request(l, hs) ==
    [line |-> l, times |-> 1, headers |-> hs, body |-> IF MCMethod[l] = "POST" THEN 1 ELSE 0]

\* A line longer than the read buffer.
TooLong == [line |-> "get", times |-> 7, headers |-> <<>>, body |-> 0]

\* Requests for files.  Every kind of reply comes first on a connection and
\* comes after another one.
FileScripts ==
    { <<Request("get", <<"host">>), Request("head", <<>>)>>,
      <<Request("head", <<>>), Request("fit", <<>>)>>,
      <<Request("fit", <<>>), Request("noread", <<>>)>>,
      <<Request("noread", <<>>), Request("empty", <<>>)>>,
      <<Request("empty", <<>>), Request("missing", <<>>)>>,
      <<Request("missing", <<"host">>), Request("get", <<>>)>> }

\* Requests of every kind, good and bad, in pairs that leave something behind:
\* a buffer that was not reset, a method, a CGI mark, an unread request.
AnyScripts ==
    { <<Request("get", <<>>), Request("badpost", <<>>)>>,
      <<Request("get", <<>>), Request("cgi", <<>>)>>,
      <<Request("cgi", <<"host">>), Request("get", <<>>)>>,
      <<Request("head", <<"nocolon">>)>>,
      <<Request("post", <<"length">>)>>,
      <<Request("noext", <<>>), Request("bad", <<>>)>>,
      <<TooLong>> }

\* One script each, for the runs that ask about one kind of request.
PostScripts      == { <<Request("post", <<"length">>)>> }
BadScripts       == { <<Request("bad", <<>>)>> }
PipelinedScripts == { <<Request("get", <<>>), Request("head", <<>>)>> }
CgiScripts       == { <<Request("cgi", <<>>)>> }
HeadScripts      == { <<Request("head", <<>>)>> }

\* Requests that the server refuses again and again, and two it serves at once.
ReapScripts ==
    { <<Request("bad", <<>>)>>, <<TooLong>>, <<Request("head", <<"nocolon">>)>>,
      <<Request("get", <<>>), Request("head", <<>>)>> }
==============================================================================
