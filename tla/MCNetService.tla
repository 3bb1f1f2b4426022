----------------------------- MODULE MCNetService ----------------------------
(***************************************************************************)
(* Values for the constants of NetService.                                 *)
(***************************************************************************)
EXTENDS NetService, TLC

\* Memory cells are interchangeable.
Nodes == Permutations(Node)

\* One client at the SSL port, one that runs the CGI program on a connection it
\* has used before, one that asks for a file and may leave in the middle of it.
PoolScript == [s |-> <<"missing">>, c |-> <<"missing", "cgi">>, f |-> <<"file">>]
PoolClient == DOMAIN PoolScript

\* A client at each port.
TurnScript == [s |-> <<"file">>, c |-> <<"cgi">>]
TurnClient == DOMAIN TurnScript
==============================================================================
