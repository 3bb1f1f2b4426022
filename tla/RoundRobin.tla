------------------------------ MODULE RoundRobin -----------------------------
(***************************************************************************)
(* What the select loop promises to the clients of the pool: in every turn *)
(* each of them is visited exactly once, in the order in which they came;  *)
(* the pool changes only between the visits of one turn and the next, and  *)
(* nobody waits for ever.  Sockets, lists and memory do not appear.        *)
(***************************************************************************)
EXTENDS Naturals, Sequences, SequencesExt

CONSTANT Member

VARIABLES
    members,    \* the clients of the pool, the oldest first
    rest,       \* those this turn has still to visit
    visiting    \* TRUE between the beginning and the end of the visits

vars == <<members, rest, visiting>>

Init == members = <<>> /\ rest = <<>> /\ visiting = FALSE

Begin ==
    /\ ~visiting
    /\ visiting' = TRUE /\ rest' = members
    /\ UNCHANGED members

Visit ==
    /\ visiting /\ rest # <<>>
    /\ rest' = Tail(rest)
    /\ UNCHANGED <<members, visiting>>

End ==
    /\ visiting /\ rest = <<>>
    /\ visiting' = FALSE
    /\ UNCHANGED <<members, rest>>

Join(m) ==
    /\ ~visiting
    /\ \A i \in 1..Len(members) : members[i] # m
    /\ members' = Append(members, m)
    /\ UNCHANGED <<rest, visiting>>

Leave ==
    /\ ~visiting
    /\ \E i \in 1..Len(members) : members' = RemoveAt(members, i)
    /\ UNCHANGED <<rest, visiting>>

Next == Begin \/ Visit \/ End \/ Leave \/ \E m \in Member : Join(m)

Spec == Init /\ [][Next]_vars /\ WF_vars(Begin) /\ WF_vars(Visit) /\ WF_vars(End)
==============================================================================
