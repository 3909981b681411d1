---------------------------- MODULE MCEventPirq -----------------------------
(* EventPirq for TLC. *)
EXTENDS EventPirq, FiniteSetsExt, TLC

CONSTANTS AllPirqs, AllCpus

(* A PV and an HVM domain with two pirqs and two CPUs at work, and a PV       *)
(* domain whose lists may have a port between two others, with one CPU.  The  *)
(* pirqs and CPUs are any, so that they are interchangeable.                  *)
Pairs ==
    {[hvm |-> h, ports |-> 2, vcpus |-> IF h THEN {0} ELSE {0, 1}, pirqs |-> s, cpus |-> AllCpus]
        : h \in BOOLEAN, s \in kSubset(2, AllPirqs)}
Triples ==
    {[hvm |-> FALSE, ports |-> 3, vcpus |-> {0, 1}, pirqs |-> AllPirqs, cpus |-> {c}]
        : c \in AllCpus}
Shapes == Pairs \cup Triples

Symmetry == Permutations(AllCpus) \cup Permutations(AllPirqs)
=============================================================================
