------------------------------ MODULE LinkedList -----------------------------
(***************************************************************************)
(* linkedlist.c: the circular doubly linked list that holds the clients of *)
(* the select pool, as operators on its pointers.                          *)
(*                                                                         *)
(* A list is [next, prev, count].  head is the list's own node; Wild is    *)
(* what the pointers of a node hold that was allocated but not inserted,   *)
(* or that was freed: malloc() does not clear them and free() overwrites   *)
(* them.                                                                   *)
(***************************************************************************)
EXTENDS Integers, Sequences

CONSTANTS
    Node,   \* the addresses of nodes
    head,   \* &ll->head
    Wild    \* a pointer that points nowhere

ASSUME ListAssumption ==
    head \notin Node /\ Wild \notin Node /\ head # Wild

Pointer == Node \cup {head, Wild}

ListType == [next : [Pointer -> Pointer], prev : [Pointer -> Pointer], count : Int]
------------------------------------------------------------------------------
init_linkedlist ==
    LET links == [p \in Pointer |-> IF p = head THEN head ELSE Wild]
    IN  [next |-> links, prev |-> links, count |-> 0]

ll_start(ll)      == ll.next[head]
ll_next(ll, node) == ll.next[node]
ll_count(ll)      == ll.count

\* Mutation: the new node does not point back.
ll_insert_lastOneWay(ll, node) ==
    LET last == ll.prev[head]
    IN  [next  |-> [ll.next EXCEPT ![last] = node, ![node] = head],
         prev  |-> [ll.prev EXCEPT ![head] = node],
         count |-> ll.count + 1]

ll_insert_last(ll, node) ==
    LET last == ll.prev[head]
    IN  [next  |-> [ll.next EXCEPT ![last] = node, ![node] = head],
         prev  |-> [ll.prev EXCEPT ![node] = last, ![head] = node],
         count |-> ll.count + 1]

\* The node's own pointers stay as they are.
ll_remove(ll, node) ==
    LET prev == ll.prev[node]
        next == ll.next[node]
    IN  [next  |-> [ll.next EXCEPT ![prev] = next],
         prev  |-> [ll.prev EXCEPT ![next] = prev],
         count |-> ll.count - 1]

\* free() of a node.
free_node(ll, node) ==
    [ll EXCEPT !.next[node] = Wild, !.prev[node] = Wild]
------------------------------------------------------------------------------
(* What the pointers mean.                                                 *)

\* The i-th node of a list that holds the sequence s, head before and after.
NodeAt(s, i) == IF i \in 1..Len(s) THEN s[i] ELSE head

\* The list holds exactly the nodes of s, in that order and each once, whether
\* it is followed forwards or backwards.
Represents(ll, s) ==
    /\ ll \in ListType /\ s \in Seq(Node)
    /\ ll.count = Len(s)
    /\ \A i, j \in 1..Len(s) : s[i] = s[j] => i = j
    /\ \A i \in 0..Len(s) : /\ ll.next[NodeAt(s, i)] = NodeAt(s, i + 1)
                            /\ ll.prev[NodeAt(s, i + 1)] = NodeAt(s, i)

\* The nodes of the list, as FOR_EACH_CLIENT meets them.
Members(ll) == CHOOSE s \in [1..ll.count -> Node] : Represents(ll, s)
==============================================================================
