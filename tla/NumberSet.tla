----------------------------- MODULE NumberSet ------------------------------
(***************************************************************************)
(* What users of a rangeset (xen/include/xen/rangeset.h) can rely on: a    *)
(* set of numbers that ranges are added to and removed from.               *)
(***************************************************************************)
EXTENDS Naturals

CONSTANTS Numbers, Largest

VARIABLES
    set,    \* the numbers in the set
    call    \* the last call, its range and whether it succeeded, or Spoilt

vars == <<set, call>>

Call(op, s, e, ok) == [op |-> op, s |-> s, e |-> e, ok |-> ok]
New == Call("new", 0, 0, TRUE)
Spoilt == Call("spoilt", 0, 0, TRUE)

Init == set = {} /\ call = New

Add(s, e) == call' = Call("add", s, e, TRUE) /\ set' = set \cup s..e

(* The range is removed, and everything else that was there stays.  That      *)
(* nothing new appears is more than the code keeps (Rangeset,                 *)
(* RemoveIsDifference), so it is not asked for here.                          *)
Remove(s, e) ==
    /\ call' = Call("remove", s, e, TRUE)
    /\ set' \cap s..e = {}
    /\ set \ (s..e) \subseteq set'
    /\ set' \subseteq Numbers

(* A removal up to the largest number may spoil the set, though it takes      *)
(* nothing from it that it should not.                                        *)
Spoil(s) ==
    /\ call' = Spoilt
    /\ set \ (s..Largest) \subseteq set'
    /\ set' \subseteq Numbers

(* A call that runs out of memory changes nothing. *)
Fail(op, s, e) == call' = Call(op, s, e, FALSE) /\ UNCHANGED set

Clear == call' = New /\ set' = {}

(* A spoilt set is good for nothing until it is destroyed. *)
Next ==
    \/ call = Spoilt /\ call' = Spoilt
    \/ /\ call # Spoilt
       /\ \E s \in Numbers :
             \/ \E e \in s..Largest : \/ Add(s, e) \/ Remove(s, e)
                                     \/ Fail("add", s, e) \/ Fail("remove", s, e)
             \/ Spoil(s)
    \/ Clear

Spec == Init /\ [][Next]_vars
=============================================================================
