----------------------------- MODULE GracePeriod -----------------------------
(***************************************************************************)
(* What users of read-copy update rely on (xen/include/xen/rcupdate.h,     *)
(* xen/common/rcupdate.c): a callback handed to call_rcu() is invoked once *)
(* all read-side critical sections that were open at the call are over.    *)
(***************************************************************************)
CONSTANTS
    Cpus,
    Heads       \* the struct rcu_heads

VARIABLES
    reading,    \* the CPUs inside an outermost read-side critical section
    due,        \* for each head, the invocations due: one from call_rcu() on
    waits       \* for each head, the sections open at the call and still open

vars == <<reading, due, waits>>

Init ==
    /\ reading = {}
    /\ due = [x \in Heads |-> 0]
    /\ waits = [x \in Heads |-> {}]

(* rcu_read_lock() *)
ReadLock(c) ==
    /\ c \notin reading
    /\ reading' = reading \cup {c}
    /\ UNCHANGED <<due, waits>>

(* rcu_read_unlock() *)
ReadUnlock(c) ==
    /\ c \in reading
    /\ reading' = reading \ {c}
    /\ waits' = [x \in Heads |-> waits[x] \ {c}]
    /\ UNCHANGED due

(* call_rcu() *)
Call(x) ==
    /\ due[x] = 0
    /\ due' = [due EXCEPT ![x] = 1]
    /\ waits' = [waits EXCEPT ![x] = reading]
    /\ UNCHANGED reading

(* The callback of head x. *)
Invoke(x) ==
    /\ due[x] = 1
    /\ waits[x] = {}
    /\ due' = [due EXCEPT ![x] = 0]
    /\ UNCHANGED <<reading, waits>>

Next ==
    \/ \E c \in Cpus : ReadLock(c) \/ ReadUnlock(c)
    \/ \E x \in Heads : Call(x) \/ Invoke(x)

Spec == Init /\ [][Next]_vars
=============================================================================
