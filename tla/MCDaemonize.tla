------------------------------ MODULE MCDaemonize -----------------------------
(***************************************************************************)
(* Values for the constants of Daemonize: pids of two and three digits, so *)
(* that one is written over a shorter one and over a longer one.           *)
(***************************************************************************)
EXTENDS Daemonize

MCDigits == [a |-> <<9, 7>>, b |-> <<1, 0, 2>>, c |-> <<4, 1>>]
MCInst == DOMAIN MCDigits

\* The file that is left from an earlier server; the pids that are written over it
\* are as long or longer, and those over them longer, shorter or as long.
MCOldFile == {<<9, 9, NL>>}
==============================================================================
