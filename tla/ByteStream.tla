------------------------------ MODULE ByteStream ------------------------------
(***************************************************************************)
(* What the ends of a vchan see: in each direction a queue of at most      *)
(* Capacity bytes, taken out in the order in which they were put in.  The  *)
(* bytes are numbered as they are put in, modulo Modulus.                  *)
(***************************************************************************)
EXTENDS Naturals, Sequences

CONSTANTS Rings, Capacity, Modulus

VARIABLES
    next,       \* for each ring, the number of the next byte put in
    queue       \* for each ring, the bytes put in and not taken out

vars == <<next, queue>>

Init ==
    /\ next = [r \in Rings |-> 0]
    /\ queue = [r \in Rings |-> <<>>]

Put(r, n) ==
    /\ Len(queue[r]) + n <= Capacity
    /\ queue' = [queue EXCEPT ![r] = @ \o [i \in 1 .. n |-> (next[r] + i - 1) % Modulus]]
    /\ next' = [next EXCEPT ![r] = (@ + n) % Modulus]

Get(r, n) ==
    /\ n <= Len(queue[r])
    /\ queue' = [queue EXCEPT ![r] = SubSeq(@, n + 1, Len(@))]
    /\ UNCHANGED next

Next == \E r \in Rings, n \in 1 .. Capacity : Put(r, n) \/ Get(r, n)

Spec == Init /\ [][Next]_vars
=============================================================================
