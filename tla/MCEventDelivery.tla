-------------------------- MODULE MCEventDelivery ---------------------------
(* EventDelivery for TLC. *)
EXTENDS EventDelivery, TLC

CONSTANTS
    PortsPerWord,   \* BITS_PER_EVTCHN_WORD(d)
    AllSources      \* senders to choose from

PortWord == [p \in AllPorts |-> p \div PortsPerWord]

(* Two vcpus and one sender.  The guest moves a port that shares its word     *)
(* with another, has ports on two vcpus unmasked by Xen, or does everything   *)
(* to one port.                                                               *)
Moving ==
    {[ports |-> {1, 2}, vcpus |-> {0, 1}, targets |-> <<{0, 1}, {0}>>, senders |-> {s},
      calls |-> {"mask", "local_unmask", "bind"}] : s \in AllSources}

Masking ==
    {[ports |-> {1, 2}, vcpus |-> {0, 1}, targets |-> <<{1}, {0}>>, senders |-> {s},
      calls |-> {"mask", "unmask"}] : s \in AllSources}

OnePort ==
    {[ports |-> {1}, vcpus |-> {0, 1}, targets |-> <<{0, 1}>>, senders |-> {s},
      calls |-> {"mask", "unmask", "local_unmask", "bind"}] : s \in AllSources}

(* One vcpu that sleeps in all ways, with two senders or timers. *)
Sleeping ==
    {[ports |-> {1}, vcpus |-> {0}, targets |-> <<{0}>>, senders |-> AllSources,
      calls |-> {"block", "poll", "timeout", "disable", "preempt"}]}

(* One vcpu that sleeps and masks, with one sender. *)
Waiting ==
    {[ports |-> {1, 2}, vcpus |-> {0}, targets |-> <<{0}, {0}>>, senders |-> AllSources,
      calls |-> {"block", "poll", "mask", "unmask"}]}

SeveralDomains == Moving \cup Masking \cup OnePort \cup Sleeping

Symmetry == Permutations(AllSources)
=============================================================================
