----------------------------- MODULE HttpService -----------------------------
(***************************************************************************)
(* What a client may expect of one connection: it writes requests, and     *)
(* receives, byte by byte and in the order of its requests, the reply to   *)
(* each.  Sockets, buffers and parsing do not appear.                      *)
(***************************************************************************)
EXTENDS Naturals, Sequences

CONSTANT Reply(_)   \* the bytes of the reply to a request

VARIABLES
    script,     \* the requests the client will make
    asked,      \* how many it has made
    answers,    \* how many replies it has
    rx,         \* the part it has of the next one
    open        \* TRUE until the client hangs up

vars == <<script, asked, answers, rx, open>>

Init ==
    /\ asked = 0 /\ answers = 0 /\ rx = <<>> /\ open = TRUE

Ask ==
    /\ open /\ asked < Len(script)
    /\ asked' = asked + 1
    /\ UNCHANGED <<script, answers, rx, open>>

\* The next byte of the reply that is due.
Receive ==
    /\ open /\ answers < asked
    /\ LET reply == Reply(script[answers + 1])
           got   == Append(rx, reply[Len(rx) + 1])
       IN  IF got = reply THEN rx' = <<>> /\ answers' = answers + 1
                          ELSE rx' = got /\ UNCHANGED answers
    /\ UNCHANGED <<script, asked, open>>

HangUp ==
    /\ open
    /\ open' = FALSE
    /\ UNCHANGED <<script, asked, answers, rx>>

Next == Ask \/ Receive \/ HangUp

\* A reply that is due keeps coming.
Spec == Init /\ [][Next]_vars /\ WF_vars(Receive)
==============================================================================
