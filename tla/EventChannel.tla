---------------------------- MODULE EventChannel ----------------------------
(***************************************************************************)
(* The event-channel port table of xen/common/event_channel.c: allocation  *)
(* and binding of ports (unbound, interdomain, VIRQ, IPI, Xen-attached),   *)
(* notification, close with its two-lock protocol, reset, and the teardown *)
(* done by evtchn_destroy() when a domain is killed.                       *)
(*                                                                         *)
(* A CPU runs one hypervisor operation at a time.  An operation is one     *)
(* step where everything it touches is protected by a lock it holds, and   *)
(* is cut into steps where it waits for a lock, drops a lock, or relies on *)
(* state that is read or written without the lock (is_dying,               *)
(* virq_to_evtchn, xen_consumer).  Operations that fail without changing   *)
(* anything (an error return before the first write) are stuttering.       *)
(*                                                                         *)
(* Physical-IRQ ports are in EventPirq, the bits a notification sets and   *)
(* the wakeup of the target vcpu in EventDelivery.                         *)
(*                                                                         *)
(* A definition marked "Deviation" is the one below it with a slip that    *)
(* some property must notice; the specification does not use it.           *)
(***************************************************************************)
EXTENDS Integers, FiniteSets

CONSTANTS
    Domains,        \* domains, as numbers: the order is that of struct domain addresses
    NrPorts,        \* the largest port table
    MaxEvtchns,     \* MaxEvtchns[d]: MAX_EVTCHNS(d), which depends on d's word size
    BucketSize,     \* EVTCHNS_PER_BUCKET
    HvmDomains,     \* domains for which Xen code allocates channels (ioreq, mem_event)
    Vcpus,          \* vcpu ids of every domain; 0 is one of them
    Virqs,          \* virtual interrupt numbers
    GlobalVirqs,    \* those for which virq_is_global() holds
    Cpus,           \* physical CPUs (or interrupt contexts) running Xen code
    NoCpu, NoDom, NoVirq

ASSUME ConstantsAssumption ==
    /\ Domains \subseteq Nat
    /\ BucketSize \in Nat \ {0}
    /\ NrPorts \in Nat \ {0} /\ MaxEvtchns \in [Domains -> 1 .. NrPorts]
    /\ \A d \in Domains : BucketSize <= MaxEvtchns[d]
    /\ Vcpus \subseteq Nat /\ 0 \in Vcpus
    /\ GlobalVirqs \subseteq Virqs /\ HvmDomains \subseteq Domains
    /\ NoCpu \notin Cpus /\ NoDom \notin Domains /\ NoVirq \notin Virqs

VARIABLES
    chn,        \* chn[d][p]: struct evtchn of port p of domain d
    nvalid,     \* nvalid[d]: ports whose bucket is allocated are 0 .. nvalid[d]-1
    lock,       \* lock[d]: the CPU holding d->event_lock, or NoCpu
    vlock,      \* vlock[d][v]: the CPU holding v->virq_lock, or NoCpu
    virqmap,    \* virqmap[d][v][q]: v->virq_to_evtchn[q], 0 when unbound
    pending,    \* the bits set in the evtchn_pending arrays, as <<d, p>>
    dying,      \* domains with d->is_dying set
    destroyed,  \* domains for which evtchn_destroy() has returned
    xenports,   \* <<d, p>> handed to Xen code by alloc_unbound_xen_event_channel
    cpu,        \* cpu[c]: what CPU c is doing
    refreed     \* history: CPUs whose port was freed while they had dropped its lock

vars == <<chn, nvalid, lock, vlock, virqmap, pending, dying, destroyed,
          xenports, cpu, refreed>>

Ports == 0 .. NrPorts - 1

States == {"FREE", "RESERVED", "UNBOUND", "INTERDOMAIN", "VIRQ", "IPI"}

(* struct evtchn.  The union is flattened: dom is unbound.remote_domid or     *)
(* interdomain.remote_dom, port is interdomain.remote_port, virq is u.virq.   *)
(* No code reads the union of a free port, so freeing resets it.              *)
Evtchn == [state : States, xen : BOOLEAN, notify : Vcpus,
           dom : Domains \cup {NoDom}, port : Ports, virq : Virqs \cup {NoVirq}]

FreeChn == [state |-> "FREE", xen |-> FALSE, notify |-> 0,
            dom |-> NoDom, port |-> 0, virq |-> NoVirq]

PCs == {"idle", "unbound", "xen", "virq", "ipi", "bind_lock2", "bind_commit",
        "send", "virq_set", "free_xen", "close", "close_barrier",
        "close_lock2", "close_drop", "loop", "destroy_barrier", "destroy_free"}

(* The local variables of the operation a CPU runs.  cur is the domain whose  *)
(* hypercall it is (NoDom: the toolstack's, or an interrupt); d1, p1 the      *)
(* domain and port worked on; d2, p2 the remote ones; v, q a vcpu and a virq; *)
(* xen the consumer read by a sender; loop the caller of __evtchn_close.      *)
Work == [pc : PCs, cur : Domains \cup {NoDom},
         d1 : Domains \cup {NoDom}, p1 : 0 .. NrPorts,
         d2 : Domains \cup {NoDom}, p2 : Ports,
         v : Vcpus, q : Virqs \cup {NoVirq}, xen : BOOLEAN,
         loop : {"none", "reset", "destroy"}]

Idle == [pc |-> "idle", cur |-> NoDom, d1 |-> NoDom, p1 |-> 0, d2 |-> NoDom,
         p2 |-> 0, v |-> 0, q |-> NoVirq, xen |-> FALSE, loop |-> "none"]

TypeOK ==
    /\ chn \in [Domains -> [Ports -> Evtchn]]
    /\ nvalid \in [Domains -> 0 .. NrPorts]
    /\ \A d \in Domains : nvalid[d] <= MaxEvtchns[d]
    /\ lock \in [Domains -> Cpus \cup {NoCpu}]
    /\ vlock \in [Domains -> [Vcpus -> Cpus \cup {NoCpu}]]
    /\ virqmap \in [Domains -> [Vcpus -> [Virqs -> Ports]]]
    /\ pending \subseteq Domains \X Ports
    /\ dying \subseteq Domains
    /\ destroyed \subseteq Domains
    /\ xenports \subseteq Domains \X Ports
    /\ cpu \in [Cpus -> Work]
    /\ refreed \subseteq Cpus

(* evtchn_init(): port 0 is taken from the first bucket and reserved. *)
Init ==
    /\ chn = [d \in Domains |-> [p \in Ports |->
                IF p = 0 THEN [FreeChn EXCEPT !.state = "RESERVED"] ELSE FreeChn]]
    /\ nvalid = [d \in Domains |-> BucketSize]
    /\ lock = [d \in Domains |-> NoCpu]
    /\ vlock = [d \in Domains |-> [v \in Vcpus |-> NoCpu]]
    /\ virqmap = [d \in Domains |-> [v \in Vcpus |-> [q \in Virqs |-> 0]]]
    /\ pending = {}
    /\ dying = {}
    /\ destroyed = {}
    /\ xenports = {}
    /\ cpu = [c \in Cpus |-> Idle]
    /\ refreed = {}

-----------------------------------------------------------------------------
(* Locks, ports and control flow. *)

Acquire(l, d, c) == [l EXCEPT ![d] = c]
Release(l, ds) == [d \in Domains |-> IF d \in ds THEN NoCpu ELSE l[d]]

port_is_valid(d, p) == p < nvalid[d]

FreePorts(d) == {p \in Ports : port_is_valid(d, p) /\ chn[d][p].state = "FREE"}

(* Deviation: a dying domain is not refused. *)
port_available_dying(d, p) ==
    \/ p \in FreePorts(d) /\ \A o \in FreePorts(d) : p <= o
    \/ FreePorts(d) = {} /\ p = nvalid[d] /\ p < MaxEvtchns[d]

(* get_free_port(): the lowest free port, or the first port of a new bucket.  *)
(* A dying domain and a full table are refused.                               *)
port_available(d, p) ==
    /\ d \notin dying
    /\ \/ p \in FreePorts(d) /\ \A o \in FreePorts(d) : p <= o
       \/ FreePorts(d) = {} /\ p = nvalid[d] /\ p < MaxEvtchns[d]

get_free_port(d, p) ==
    /\ port_available(d, p)
    /\ nvalid' = IF port_is_valid(d, p) THEN nvalid
                 ELSE [nvalid EXCEPT ![d] = IF @ + BucketSize > MaxEvtchns[d]
                                            THEN MaxEvtchns[d] ELSE @ + BucketSize]

(* A vcpu of d makes hypercalls only while d is not being killed: domain_kill *)
(* pauses d, and waits for its vcpus to leave Xen, before anything else.      *)
GuestCalls(c, d) == cpu[c].pc = "idle" /\ d \notin dying

Continue(c, w) == cpu' = [cpu EXCEPT ![c] = w]

(* Return of __evtchn_close: to the loop of reset or destroy, or to the guest. *)
Returned(w) ==
    IF w.loop = "none" THEN Idle
    ELSE [w EXCEPT !.pc = "loop", !.p1 = w.p1 + 1, !.d2 = NoDom, !.v = 0]

-----------------------------------------------------------------------------
(* Allocation.  Under the event lock, first get_free_port() with its test of  *)
(* is_dying, then the writes: is_dying is set without the lock, so a domain   *)
(* may start dying between the two.                                           *)

(* Deviation: the event lock is not waited for. *)
AllocStartUnlocked(c, d, p, w) ==
    /\ get_free_port(d, p)
    /\ lock' = Acquire(lock, d, c)
    /\ Continue(c, [w EXCEPT !.d1 = d, !.p1 = p])
    /\ UNCHANGED <<chn, vlock, virqmap, pending, dying, destroyed, xenports, refreed>>

AllocStart(c, d, p, w) ==
    /\ lock[d] = NoCpu
    /\ get_free_port(d, p)
    /\ lock' = Acquire(lock, d, c)
    /\ Continue(c, [w EXCEPT !.d1 = d, !.p1 = p])
    /\ UNCHANGED <<chn, vlock, virqmap, pending, dying, destroyed, xenports, refreed>>

AllocCommit(c, ch) ==
    /\ chn' = [chn EXCEPT ![cpu[c].d1][cpu[c].p1] = ch]
    /\ lock' = Release(lock, {cpu[c].d1})
    /\ Continue(c, Idle)
    /\ UNCHANGED <<nvalid, vlock, pending, dying, destroyed, refreed>>

(* evtchn_alloc_unbound(), for the calling domain or by the toolstack: the    *)
(* latter does all that the former can, and d may start dying meanwhile.      *)
AllocUnbound(c, d, rdom, p) ==
    /\ cpu[c].pc = "idle"
    /\ AllocStart(c, d, p, [Idle EXCEPT !.pc = "unbound", !.d2 = rdom])

AllocUnboundCommit(c) ==
    /\ cpu[c].pc = "unbound"
    /\ AllocCommit(c, [chn[cpu[c].d1][cpu[c].p1] EXCEPT
                          !.state = "UNBOUND", !.dom = cpu[c].d2])
    /\ UNCHANGED <<virqmap, xenports>>

(* alloc_unbound_xen_event_channel(), on behalf of the toolstack. *)
AllocXen(c, d, rdom, v, p) ==
    /\ cpu[c].pc = "idle"
    /\ d \in HvmDomains
    /\ AllocStart(c, d, p, [Idle EXCEPT !.pc = "xen", !.d2 = rdom, !.v = v])

AllocXenCommit(c) ==
    /\ cpu[c].pc = "xen"
    /\ AllocCommit(c, [chn[cpu[c].d1][cpu[c].p1] EXCEPT
                          !.state = "UNBOUND", !.xen = TRUE,
                          !.notify = cpu[c].v, !.dom = cpu[c].d2])
    /\ xenports' = xenports \cup {<<cpu[c].d1, cpu[c].p1>>}
    /\ UNCHANGED virqmap

(* Deviation: a VIRQ that is bound already is bound once more. *)
BindVirqTwice(c, d, v, q, p) ==
    /\ GuestCalls(c, d)
    /\ q \in GlobalVirqs => v = 0
    /\ AllocStart(c, d, p, [Idle EXCEPT !.pc = "virq", !.cur = d, !.v = v, !.q = q])

(* evtchn_bind_virq(): a global VIRQ is bound on vcpu 0 only, and a VIRQ that *)
(* is bound already is refused.  virq_lock is not taken.                      *)
BindVirq(c, d, v, q, p) ==
    /\ GuestCalls(c, d)
    /\ q \in GlobalVirqs => v = 0
    /\ virqmap[d][v][q] = 0
    /\ AllocStart(c, d, p, [Idle EXCEPT !.pc = "virq", !.cur = d, !.v = v, !.q = q])

BindVirqCommit(c) ==
    /\ cpu[c].pc = "virq"
    /\ AllocCommit(c, [chn[cpu[c].d1][cpu[c].p1] EXCEPT
                          !.state = "VIRQ", !.notify = cpu[c].v, !.virq = cpu[c].q])
    /\ virqmap' = [virqmap EXCEPT ![cpu[c].d1][cpu[c].v][cpu[c].q] = cpu[c].p1]
    /\ UNCHANGED xenports

(* evtchn_bind_ipi() *)
BindIpi(c, d, v, p) ==
    /\ GuestCalls(c, d)
    /\ AllocStart(c, d, p, [Idle EXCEPT !.pc = "ipi", !.cur = d, !.v = v])

BindIpiCommit(c) ==
    /\ cpu[c].pc = "ipi"
    /\ AllocCommit(c, [chn[cpu[c].d1][cpu[c].p1] EXCEPT
                          !.state = "IPI", !.notify = cpu[c].v])
    /\ UNCHANGED <<virqmap, xenports>>

-----------------------------------------------------------------------------
(* evtchn_bind_interdomain(): ld = d1 with the new port p1, rd = d2 with the  *)
(* port p2 to bind to.  Both event locks, the lower address first.            *)

BindLock1(c, ld, rd, rport) ==
    /\ GuestCalls(c, ld)
    /\ ld # rd
    /\ LET first == IF ld < rd THEN ld ELSE rd
       IN  lock[first] = NoCpu /\ lock' = Acquire(lock, first, c)
    /\ Continue(c, [Idle EXCEPT !.pc = "bind_lock2", !.cur = ld,
                                !.d1 = ld, !.d2 = rd, !.p2 = rport])
    /\ UNCHANGED <<chn, nvalid, vlock, virqmap, pending, dying, destroyed,
                   xenports, refreed>>

BindLock2(c, p) ==
    LET w == cpu[c]
        second == IF w.d1 < w.d2 THEN w.d2 ELSE w.d1
    IN  /\ w.pc = "bind_lock2"
        /\ lock[second] = NoCpu
        /\ get_free_port(w.d1, p)
        /\ lock' = Acquire(lock, second, c)
        /\ Continue(c, [w EXCEPT !.pc = "bind_commit", !.p1 = p])
        /\ UNCHANGED <<chn, vlock, virqmap, pending, dying, destroyed,
                       xenports, refreed>>

(* get_free_port() fails, for a dying domain, a full table or want of memory  *)
(* for a new bucket: both locks are dropped.                                  *)
BindNoPort(c) ==
    LET w == cpu[c]
        second == IF w.d1 < w.d2 THEN w.d2 ELSE w.d1
    IN  /\ w.pc = "bind_lock2"
        /\ lock[second] = NoCpu
        /\ w.d1 \in dying \/ FreePorts(w.d1) = {}
        /\ lock' = Release(lock, {w.d1, w.d2})
        /\ Continue(c, Idle)
        /\ UNCHANGED <<chn, nvalid, vlock, virqmap, pending, dying, destroyed,
                       xenports, refreed>>

(* A domain binding to a port of its own takes its lock once. *)
BindLoopback(c, d, rport, p) ==
    /\ GuestCalls(c, d)
    /\ AllocStart(c, d, p, [Idle EXCEPT !.pc = "bind_commit", !.cur = d,
                                        !.d2 = d, !.p2 = rport])

(* Deviations: the remote port's state, or whom it is meant for, is not       *)
(* looked at.                                                                 *)
BindAcceptedAnyState(w) ==
    port_is_valid(w.d2, w.p2) /\ chn[w.d2][w.p2].dom = w.d1
BindAcceptedAnyDomain(w) ==
    port_is_valid(w.d2, w.p2) /\ chn[w.d2][w.p2].state = "UNBOUND"

(* The remote port must be unbound and meant for ld. *)
BindAccepted(w) ==
    /\ port_is_valid(w.d2, w.p2)
    /\ chn[w.d2][w.p2].state = "UNBOUND"
    /\ chn[w.d2][w.p2].dom = w.d1

BindCommit(c) ==
    LET w == cpu[c]
    IN  /\ w.pc = "bind_commit"
        /\ BindAccepted(w)
        /\ chn' = [chn EXCEPT
                     ![w.d1][w.p1] = [@ EXCEPT !.state = "INTERDOMAIN",
                                               !.dom = w.d2, !.port = w.p2],
                     ![w.d2][w.p2] = [@ EXCEPT !.state = "INTERDOMAIN",
                                               !.dom = w.d1, !.port = w.p1]]
        /\ pending' = pending \cup {<<w.d1, w.p1>>}
        /\ lock' = Release(lock, {w.d1, w.d2})
        /\ Continue(c, Idle)
        /\ UNCHANGED <<nvalid, vlock, virqmap, dying, destroyed, xenports, refreed>>

BindRefused(c) ==
    LET w == cpu[c]
    IN  /\ w.pc = "bind_commit"
        /\ ~BindAccepted(w)
        /\ lock' = Release(lock, {w.d1, w.d2})
        /\ Continue(c, Idle)
        /\ UNCHANGED <<chn, nvalid, vlock, virqmap, pending, dying, destroyed,
                       xenports, refreed>>

-----------------------------------------------------------------------------
(* Notification. *)

(* evtchn_send() up to the read of the remote end: only the lock of the       *)
(* sending domain is held.  An unbound port drops the event, other states are *)
(* errors: nothing changes.                                                   *)
SendTo(c, d, w) ==
    /\ lock[d] = NoCpu
    /\ lock' = Acquire(lock, d, c)
    /\ Continue(c, [w EXCEPT !.pc = "send", !.d1 = d])
    /\ UNCHANGED <<chn, nvalid, vlock, virqmap, pending, dying, destroyed,
                   xenports, refreed>>

Send(c, d, p) ==
    LET ch == chn[d][p]
    IN  /\ GuestCalls(c, d)
        /\ port_is_valid(d, p) /\ ~ch.xen
        /\ \/ /\ ch.state = "INTERDOMAIN"
              /\ SendTo(c, d, [Idle EXCEPT !.cur = d, !.p1 = p, !.d2 = ch.dom,
                                 !.p2 = ch.port, !.xen = chn[ch.dom][ch.port].xen])
           \/ /\ ch.state = "IPI"
              /\ SendTo(c, d, [Idle EXCEPT !.cur = d, !.p1 = p, !.d2 = d, !.p2 = p])

(* notify_via_xen_event_channel() by the Xen code that owns port p. *)
NotifyViaXen(c, d, p) ==
    LET ch == chn[d][p]
    IN  /\ cpu[c].pc = "idle"
        /\ <<d, p>> \in xenports
        /\ d \notin dying
        /\ ch.state = "INTERDOMAIN"
        /\ SendTo(c, d, [Idle EXCEPT !.p1 = p, !.d2 = ch.dom, !.p2 = ch.port])

(* Deviation: the consumer is not looked at. *)
SendFinishAlways(c) ==
    LET w == cpu[c]
    IN  /\ w.pc = "send"
        /\ pending' = pending \cup {<<w.d2, w.p2>>}
        /\ lock' = Release(lock, {w.d1})
        /\ Continue(c, Idle)
        /\ UNCHANGED <<chn, nvalid, vlock, virqmap, dying, destroyed,
                       xenports, refreed>>

(* The rest: the notification function of a Xen-attached port, which leaves   *)
(* the pending bit alone, or evtchn_set_pending(); then the unlock.           *)
SendFinish(c) ==
    LET w == cpu[c]
    IN  /\ w.pc = "send"
        /\ pending' = IF w.xen THEN pending ELSE pending \cup {<<w.d2, w.p2>>}
        /\ lock' = Release(lock, {w.d1})
        /\ Continue(c, Idle)
        /\ UNCHANGED <<chn, nvalid, vlock, virqmap, dying, destroyed,
                       xenports, refreed>>

(* send_guest_vcpu_virq() and, on vcpu 0, send_guest_global_virq(): only      *)
(* virq_lock is held.  An unbound VIRQ is dropped.                            *)
SendVirq(c, d, v, q) ==
    /\ cpu[c].pc = "idle"
    /\ q \in GlobalVirqs => v = 0
    /\ vlock[d][v] = NoCpu
    /\ virqmap[d][v][q] # 0
    /\ vlock' = [vlock EXCEPT ![d][v] = c]
    /\ Continue(c, [Idle EXCEPT !.pc = "virq_set", !.d1 = d,
                                !.p1 = virqmap[d][v][q], !.v = v, !.q = q])
    /\ UNCHANGED <<chn, nvalid, lock, virqmap, pending, dying, destroyed,
                   xenports, refreed>>

SendVirqFinish(c) ==
    LET w == cpu[c]
    IN  /\ w.pc = "virq_set"
        /\ pending' = pending \cup {<<w.d1, w.p1>>}
        /\ vlock' = [vlock EXCEPT ![w.d1][w.v] = NoCpu]
        /\ Continue(c, Idle)
        /\ UNCHANGED <<chn, nvalid, lock, virqmap, dying, destroyed,
                       xenports, refreed>>

(* The guest takes an event: it clears the pending bit in the shared page. *)
Consume(d, p) ==
    /\ d \notin dying
    /\ <<d, p>> \in pending
    /\ pending' = pending \ {<<d, p>>}
    /\ UNCHANGED <<chn, nvalid, lock, vlock, virqmap, dying, destroyed,
                   xenports, cpu, refreed>>

(* evtchn_bind_vcpu() *)
BindVcpu(c, d, p, v) ==
    LET ch == chn[d][p]
    IN  /\ GuestCalls(c, d)
        /\ lock[d] = NoCpu
        /\ port_is_valid(d, p) /\ ~ch.xen
        /\ \/ ch.state = "VIRQ" /\ ch.virq \in GlobalVirqs
           \/ ch.state \in {"UNBOUND", "INTERDOMAIN"}
        /\ chn' = [chn EXCEPT ![d][p].notify = v]
        /\ UNCHANGED <<nvalid, lock, vlock, virqmap, pending, dying, destroyed,
                       xenports, cpu, refreed>>

-----------------------------------------------------------------------------
(* __evtchn_close(d1, p1).  d2 is NoDom until the remote domain is known.     *)

CloseCall(c, d, p) ==
    /\ GuestCalls(c, d)
    /\ Continue(c, [Idle EXCEPT !.pc = "close", !.cur = d, !.d1 = d, !.p1 = p])
    /\ UNCHANGED <<chn, nvalid, lock, vlock, virqmap, pending, dying, destroyed,
                   xenports, refreed>>

(* The event locks held when CPU c is in the switch on the channel's state. *)
CloseLocks(w) == {w.d1} \cup (IF w.d2 = NoDom THEN {} ELSE {w.d2})

(* Entering the switch: the lock of d1 is taken (on top of d2's, if known). *)
AtClose(c) == cpu[c].pc = "close" /\ lock[cpu[c].d1] = NoCpu

(* The CPUs that have dropped the lock of port p of d in order to lock the    *)
(* remote domain, and will look at the port again.                            *)
WillLookAgain(d, p) ==
    {c \in Cpus : /\ cpu[c].pc \in {"close_drop", "close"} /\ cpu[c].d2 # NoDom
                  /\ cpu[c].d1 = d /\ cpu[c].p1 = p}

(* Deviation: the pending bit stays. *)
CloseFinishPending(c, w) ==
    /\ lock' = Release(lock, CloseLocks(w))
    /\ Continue(c, Returned(w))
    /\ refreed' = (refreed \cup WillLookAgain(w.d1, w.p1)) \ {c}
    /\ UNCHANGED <<nvalid, vlock, pending, dying, destroyed, xenports>>

(* The end of the function: pending bit cleared, port freed, locks dropped.   *)
CloseFinish(c, w) ==
    /\ pending' = pending \ {<<w.d1, w.p1>>}
    /\ lock' = Release(lock, CloseLocks(w))
    /\ Continue(c, Returned(w))
    /\ refreed' = (refreed \cup WillLookAgain(w.d1, w.p1)) \ {c}
    /\ UNCHANGED <<nvalid, vlock, dying, destroyed, xenports>>

(* The port is not one that can be closed. *)
CloseError(c) ==
    LET w == cpu[c]
    IN  /\ AtClose(c)
        /\ \/ ~port_is_valid(w.d1, w.p1)
           \/ chn[w.d1][w.p1].xen
           \/ chn[w.d1][w.p1].state \in {"FREE", "RESERVED"}
           \/ /\ chn[w.d1][w.p1].state = "INTERDOMAIN"
              /\ w.d2 # NoDom /\ chn[w.d1][w.p1].dom # w.d2
        /\ lock' = Release(lock, CloseLocks(w))
        /\ Continue(c, Returned(w))
        /\ refreed' = refreed \ {c}
        /\ UNCHANGED <<chn, nvalid, vlock, virqmap, pending, dying, destroyed,
                       xenports>>

(* Deviation: Xen-attached ports are closed like any other. *)
ClosableXen(w, states) ==
    port_is_valid(w.d1, w.p1) /\ chn[w.d1][w.p1].state \in states

Closable(w, states) ==
    /\ port_is_valid(w.d1, w.p1)
    /\ ~chn[w.d1][w.p1].xen
    /\ chn[w.d1][w.p1].state \in states

CloseLocal(c) ==
    LET w == cpu[c]
    IN  /\ AtClose(c)
        /\ Closable(w, {"UNBOUND", "IPI"})
        /\ chn' = [chn EXCEPT ![w.d1][w.p1] = FreeChn]
        /\ CloseFinish(c, w)
        /\ UNCHANGED virqmap

(* A VIRQ: the vcpu's map entry is cleared, then spin_barrier() waits for a   *)
(* sender that may have read it.  At most one vcpu maps the VIRQ to this port.*)
CloseVirq(c) ==
    LET w == cpu[c]
        q == chn[w.d1][w.p1].virq
    IN  /\ AtClose(c)
        /\ Closable(w, {"VIRQ"})
        /\ \E v \in Vcpus :
              /\ virqmap[w.d1][v][q] = w.p1
              /\ virqmap' = [virqmap EXCEPT ![w.d1][v][q] = 0]
              /\ Continue(c, [w EXCEPT !.pc = "close_barrier", !.v = v])
        /\ lock' = Acquire(lock, w.d1, c)
        /\ UNCHANGED <<chn, nvalid, vlock, pending, dying, destroyed, xenports, refreed>>

(* Deviation: no spin_barrier(). *)
CloseVirqNoBarrier(c) ==
    LET w == cpu[c]
    IN  /\ w.pc = "close_barrier"
        /\ chn' = [chn EXCEPT ![w.d1][w.p1] = FreeChn]
        /\ CloseFinish(c, w)
        /\ UNCHANGED virqmap

CloseVirqFinish(c) ==
    LET w == cpu[c]
    IN  /\ w.pc = "close_barrier"
        /\ vlock[w.d1][w.v] = NoCpu
        /\ chn' = [chn EXCEPT ![w.d1][w.p1] = FreeChn]
        /\ CloseFinish(c, w)
        /\ UNCHANGED virqmap

(* Deviation: d2 is locked on top of d1 whatever their order. *)
CloseFindRemoteUnordered(c) ==
    LET w == cpu[c]
        d2 == chn[w.d1][w.p1].dom
    IN  /\ AtClose(c)
        /\ Closable(w, {"INTERDOMAIN"})
        /\ w.d2 = NoDom /\ d2 # w.d1
        /\ lock' = Acquire(lock, w.d1, c)
        /\ Continue(c, [w EXCEPT !.pc = "close_lock2", !.d2 = d2])
        /\ UNCHANGED <<chn, nvalid, vlock, virqmap, pending, dying, destroyed,
                       xenports, refreed>>

(* An interdomain port, remote domain not known yet: d2 > d1 is locked on top *)
(* of d1; d2 < d1 needs d1's lock dropped first.                              *)
CloseFindRemote(c) ==
    LET w == cpu[c]
        d2 == chn[w.d1][w.p1].dom
    IN  /\ AtClose(c)
        /\ Closable(w, {"INTERDOMAIN"})
        /\ w.d2 = NoDom /\ d2 # w.d1
        /\ \/ /\ w.d1 < d2
              /\ lock' = Acquire(lock, w.d1, c)
              /\ Continue(c, [w EXCEPT !.pc = "close_lock2", !.d2 = d2])
           \/ /\ w.d1 > d2
              /\ Continue(c, [w EXCEPT !.pc = "close_drop", !.d2 = d2])
              /\ UNCHANGED lock
        /\ UNCHANGED <<chn, nvalid, vlock, virqmap, pending, dying, destroyed,
                       xenports, refreed>>

(* Deviation: d2 is not locked. *)
CloseAgainUnlocked(c) ==
    /\ cpu[c].pc = "close_drop"
    /\ Continue(c, [cpu[c] EXCEPT !.pc = "close"])
    /\ UNCHANGED <<chn, nvalid, lock, vlock, virqmap, pending, dying, destroyed,
                   xenports, refreed>>

(* d1's lock has been dropped: lock d2, then go again. *)
CloseAgain(c) ==
    LET w == cpu[c]
    IN  /\ w.pc = "close_drop"
        /\ lock[w.d2] = NoCpu
        /\ lock' = Acquire(lock, w.d2, c)
        /\ Continue(c, [w EXCEPT !.pc = "close"])
        /\ UNCHANGED <<chn, nvalid, vlock, virqmap, pending, dying, destroyed,
                       xenports, refreed>>

(* The channel's ends are both locked: the remote one becomes unbound. *)
CloseBothEnds(d, p) ==
    LET d2 == chn[d][p].dom
        p2 == chn[d][p].port
    IN  chn' = [chn EXCEPT ![d2][p2] = [@ EXCEPT !.state = "UNBOUND",
                                                 !.dom = d, !.port = 0],
                           ![d][p] = FreeChn]

(* Deviation: the remote domain's lock is not waited for. *)
CloseInterdomainUnlocked(c) ==
    LET w == cpu[c]
    IN  /\ \/ w.pc = "close_lock2"
           \/ /\ AtClose(c)
              /\ Closable(w, {"INTERDOMAIN"})
              /\ chn[w.d1][w.p1].dom = IF w.d2 = NoDom THEN w.d1 ELSE w.d2
        /\ CloseBothEnds(w.d1, w.p1)
        /\ CloseFinish(c, w)
        /\ UNCHANGED virqmap

CloseInterdomain(c) ==
    LET w == cpu[c]
    IN  /\ \/ /\ w.pc = "close_lock2"
              /\ lock[w.d2] = NoCpu
           \/ /\ AtClose(c)
              /\ Closable(w, {"INTERDOMAIN"})
              /\ chn[w.d1][w.p1].dom = IF w.d2 = NoDom THEN w.d1 ELSE w.d2
        /\ CloseBothEnds(w.d1, w.p1)
        /\ CloseFinish(c, w)
        /\ UNCHANGED virqmap

(* free_xen_event_channel(): the test of is_dying, then the assertions and    *)
(* the detach, then __evtchn_close().                                         *)
FreeXen(c, d, p) ==
    /\ cpu[c].pc = "idle"
    /\ <<d, p>> \in xenports
    /\ lock[d] = NoCpu
    /\ d \notin dying
    /\ lock' = Acquire(lock, d, c)
    /\ xenports' = xenports \ {<<d, p>>}
    /\ Continue(c, [Idle EXCEPT !.pc = "free_xen", !.d1 = d, !.p1 = p])
    /\ UNCHANGED <<chn, nvalid, vlock, virqmap, pending, dying, destroyed, refreed>>

FreeXenDetach(c) ==
    LET w == cpu[c]
    IN  /\ w.pc = "free_xen"
        /\ chn' = [chn EXCEPT ![w.d1][w.p1].xen = FALSE]
        /\ lock' = Release(lock, {w.d1})
        /\ Continue(c, [w EXCEPT !.pc = "close"])
        /\ UNCHANGED <<nvalid, vlock, virqmap, pending, dying, destroyed, xenports,
                       refreed>>

-----------------------------------------------------------------------------
(* Reset and teardown: loops over the valid ports. *)

(* evtchn_reset(), by the domain itself or by the toolstack (see above). *)
Reset(c, d) ==
    /\ cpu[c].pc = "idle"
    /\ Continue(c, [Idle EXCEPT !.pc = "loop", !.d1 = d, !.loop = "reset"])
    /\ UNCHANGED <<chn, nvalid, lock, vlock, virqmap, pending, dying, destroyed,
                   xenports, refreed>>

(* domain_kill(): pausing the domain waits for its vcpus to leave Xen; then   *)
(* is_dying is set, without the event lock, and evtchn_destroy() is called.   *)
Kill(c, d) ==
    /\ cpu[c].pc = "idle"
    /\ d \notin dying
    /\ \A o \in Cpus : cpu[o].cur # d
    /\ dying' = dying \cup {d}
    /\ Continue(c, [Idle EXCEPT !.pc = "destroy_barrier", !.d1 = d, !.loop = "destroy"])
    /\ UNCHANGED <<chn, nvalid, lock, vlock, virqmap, pending, destroyed,
                   xenports, refreed>>

(* Deviation: no spin_barrier(). *)
DestroyNoBarrier(c) ==
    /\ cpu[c].pc = "destroy_barrier"
    /\ Continue(c, [cpu[c] EXCEPT !.pc = "loop"])
    /\ UNCHANGED <<chn, nvalid, lock, vlock, virqmap, pending, dying, destroyed,
                   xenports, refreed>>

DestroyBarrier(c) ==
    /\ cpu[c].pc = "destroy_barrier"
    /\ lock[cpu[c].d1] = NoCpu
    /\ Continue(c, [cpu[c] EXCEPT !.pc = "loop"])
    /\ UNCHANGED <<chn, nvalid, lock, vlock, virqmap, pending, dying, destroyed,
                   xenports, refreed>>

(* One turn of the loop.  evtchn_destroy() first detaches Xen, unlocked. *)
LoopClose(c) ==
    LET w == cpu[c]
    IN  /\ w.pc = "loop"
        /\ port_is_valid(w.d1, w.p1)
        /\ chn' = IF w.loop = "destroy"
                  THEN [chn EXCEPT ![w.d1][w.p1].xen = FALSE] ELSE chn
        /\ Continue(c, [w EXCEPT !.pc = "close"])
        /\ UNCHANGED <<nvalid, lock, vlock, virqmap, pending, dying, destroyed, xenports,
                       refreed>>

LoopEnd(c) ==
    LET w == cpu[c]
    IN  /\ w.pc = "loop"
        /\ ~port_is_valid(w.d1, w.p1)
        /\ Continue(c, IF w.loop = "destroy" THEN [w EXCEPT !.pc = "destroy_free"] ELSE Idle)
        /\ UNCHANGED <<chn, nvalid, lock, vlock, virqmap, pending, dying, destroyed,
                       xenports, refreed>>

(* The buckets are freed under the lock, and evtchn_destroy() returns. *)
DestroyFree(c) ==
    LET d == cpu[c].d1
    IN  /\ cpu[c].pc = "destroy_free"
        /\ lock[d] = NoCpu
        /\ chn' = [chn EXCEPT ![d] = [p \in Ports |-> FreeChn]]
        /\ nvalid' = [nvalid EXCEPT ![d] = 0]
        /\ destroyed' = destroyed \cup {d}
        /\ xenports' = {x \in xenports : x[1] # d}
        /\ Continue(c, Idle)
        /\ UNCHANGED <<lock, vlock, virqmap, pending, dying, refreed>>

-----------------------------------------------------------------------------
(* What CPU c does next inside the operation it runs. *)
Step(c) ==
    \/ AllocUnboundCommit(c) \/ AllocXenCommit(c) \/ BindVirqCommit(c)
    \/ BindIpiCommit(c) \/ (\E p \in Ports : BindLock2(c, p)) \/ BindNoPort(c)
    \/ BindCommit(c) \/ BindRefused(c) \/ SendFinish(c) \/ SendVirqFinish(c)
    \/ CloseError(c) \/ CloseLocal(c) \/ CloseVirq(c) \/ CloseVirqFinish(c)
    \/ CloseFindRemote(c) \/ CloseAgain(c) \/ CloseInterdomain(c)
    \/ FreeXenDetach(c) \/ DestroyBarrier(c) \/ LoopClose(c) \/ LoopEnd(c)
    \/ DestroyFree(c)

(* A new operation on CPU c. *)
Call(c) ==
    \E d \in Domains :
       \/ Reset(c, d) \/ Kill(c, d)
       \/ \E rd \in Domains, p \in Ports :
             \/ AllocUnbound(c, d, rd, p) \/ BindLock1(c, d, rd, p)
             \/ \E v \in Vcpus : AllocXen(c, d, rd, v, p)
       \/ \E p \in Ports, r \in Ports : BindLoopback(c, d, r, p)
       \/ \E p \in Ports :
             \/ Send(c, d, p) \/ NotifyViaXen(c, d, p) \/ CloseCall(c, d, p)
             \/ FreeXen(c, d, p)
             \/ \E v \in Vcpus : BindIpi(c, d, v, p) \/ BindVcpu(c, d, p, v)
       \/ \E v \in Vcpus, q \in Virqs :
             \/ SendVirq(c, d, v, q)
             \/ \E p \in Ports : BindVirq(c, d, v, q, p)

Next ==
    \/ \E c \in Cpus : Step(c) \/ Call(c)
    \/ \E d \in Domains, p \in Ports : Consume(d, p)

Spec == Init /\ [][Next]_vars

-----------------------------------------------------------------------------
(* Properties. *)

(* The two ends of an interdomain channel name each other, in allocated       *)
(* buckets.  __evtchn_close() asserts it of every channel it tears down (the  *)
(* three BUG_ONs at 518-522), and evtchn_send() dereferences the remote port  *)
(* relying on it while it holds only its own domain's lock.                   *)
PeerSymmetry ==
    \A d \in Domains, p \in Ports :
       chn[d][p].state = "INTERDOMAIN" =>
          LET d2 == chn[d][p].dom
              p2 == chn[d][p].port
          IN  /\ d2 \in Domains
              /\ port_is_valid(d2, p2)
              /\ chn[d2][p2].state = "INTERDOMAIN"
              /\ chn[d2][p2].dom = d
              /\ chn[d2][p2].port = p

(* A free port carries nothing over to its next user: no pending event, no    *)
(* Xen consumer, and the binding to vcpu 0 that evtchn_alloc_unbound() and    *)
(* evtchn_bind_interdomain() take over without setting it.  A sender that     *)
(* looked the port up before the close must not set the bit after it.         *)
FreePortClean ==
    \A d \in Domains, p \in Ports :
       chn[d][p].state = "FREE" =>
          <<d, p>> \notin pending /\ ~chn[d][p].xen /\ chn[d][p].notify = 0

(* While a sender is between looking the target port up and setting its bit,  *)
(* the target stays what it was: the remote end of the sender's channel, or   *)
(* the sender's own IPI port.                                                 *)
SendTargetStable ==
    \A c \in Cpus :
       cpu[c].pc = "send" =>
          LET w == cpu[c]
          IN  \/ /\ chn[w.d2][w.p2].state = "INTERDOMAIN"
                 /\ chn[w.d2][w.p2].dom = w.d1 /\ chn[w.d2][w.p2].port = w.p1
              \/ /\ chn[w.d2][w.p2].state = "IPI"
                 /\ w.d1 = w.d2 /\ w.p1 = w.p2

(* virq_to_evtchn and the ports agree: an entry names a VIRQ port for that    *)
(* VIRQ (per-vcpu ones still bound to their vcpu), and every VIRQ port is     *)
(* named by one vcpu's entry, except while __evtchn_close() waits at the      *)
(* barrier with the entry already cleared.                                    *)
VirqMapConsistent ==
    /\ \A d \in Domains, v \in Vcpus, q \in Virqs :
          virqmap[d][v][q] # 0 =>
             LET ch == chn[d][virqmap[d][v][q]]
             IN  /\ ch.state = "VIRQ" /\ ch.virq = q
                 /\ q \notin GlobalVirqs => ch.notify = v
    /\ \A d \in Domains, p \in Ports :
          chn[d][p].state = "VIRQ" =>
             \/ \E v \in Vcpus :
                   /\ virqmap[d][v][chn[d][p].virq] = p
                   /\ \A u \in Vcpus \ {v} : virqmap[d][u][chn[d][p].virq] # p
             \/ \E c \in Cpus : /\ cpu[c].pc = "close_barrier"
                                /\ cpu[c].d1 = d /\ cpu[c].p1 = p

(* A port Xen code holds stays Xen's until that code frees it or the domain   *)
(* is torn down: no close, reset or rebinding by a guest takes it.  This is   *)
(* what the BUG_ONs of free_xen_event_channel() and the ASSERTs of            *)
(* notify_via_xen_event_channel() demand, the former after their test of      *)
(* is_dying, which the barrier in evtchn_destroy() keeps true until the       *)
(* unlock.                                                                    *)
XenPortKept ==
    /\ \A d \in Domains \ dying, p \in Ports :
          <<d, p>> \in xenports =>
             /\ port_is_valid(d, p) /\ chn[d][p].xen
             /\ chn[d][p].state \in {"UNBOUND", "INTERDOMAIN"}
    /\ \A c \in Cpus :
          cpu[c].pc = "free_xen" =>
             port_is_valid(cpu[c].d1, cpu[c].p1) /\ chn[cpu[c].d1][cpu[c].p1].xen

(* A Xen-attached port never has its pending bit set: its events go to the    *)
(* notification function, whoever binds to it and however it is freed.        *)
XenPortNotPending ==
    \A d \in Domains, p \in Ports : chn[d][p].xen => <<d, p>> \notin pending

(* After evtchn_destroy() nothing of the domain is left: no port, no VIRQ     *)
(* binding, no peer that points into the freed buckets, no pending bit, and   *)
(* no CPU on its way to set one.                                              *)
DestroyedIsGone ==
    \A d \in destroyed :
       /\ \A p \in Ports : ~port_is_valid(d, p) /\ chn[d][p].state = "FREE"
       /\ \A p \in Ports : <<d, p>> \notin pending
       /\ \A v \in Vcpus, q \in Virqs : virqmap[d][v][q] = 0
       /\ \A e \in Domains, p \in Ports :
             chn[e][p].state = "INTERDOMAIN" => chn[e][p].dom # d
       /\ \A c \in Cpus : cpu[c].pc = "send" => cpu[c].d2 # d
       /\ \A c \in Cpus : cpu[c].pc = "virq_set" => cpu[c].d1 # d

(* The comment at 506-512: a CPU that dropped d1's lock in order to lock d2   *)
(* and finds the port bound to another domain can only do so because the port *)
(* passed through the free state meanwhile.                                   *)
ReboundWasFreed ==
    \A c \in Cpus :
       LET w == cpu[c]
       IN  /\ w.pc \in {"close_drop", "close"} /\ w.d2 # NoDom
           /\ chn[w.d1][w.p1].state = "INTERDOMAIN"
           /\ chn[w.d1][w.p1].dom # w.d2
           => c \in refreed

(* The CPU that holds what CPU c spins on, or NoCpu. *)
WaitsFor(c) ==
    LET w == cpu[c]
    IN  CASE w.pc \in {"close", "destroy_barrier", "destroy_free"} -> lock[w.d1]
          [] w.pc \in {"close_lock2", "close_drop"} -> lock[w.d2]
          [] w.pc = "bind_lock2" -> lock[IF w.d1 < w.d2 THEN w.d2 ELSE w.d1]
          [] w.pc = "close_barrier" -> vlock[w.d1][w.v]
          [] OTHER -> NoCpu

(* No CPUs spin on each other in a circle, over event locks, VIRQ locks and   *)
(* the barriers together.                                                     *)
NoLockCycle ==
    \A S \in SUBSET Cpus \ {{}} : \E c \in S : WaitsFor(c) \notin S

(* A port in use is never handed out again: it becomes free first, except for *)
(* the binding and unbinding of an interdomain channel's remote end.          *)
PortNotStolen ==
    [][\A d \in Domains, p \in Ports :
          LET s == chn[d][p].state
              t == chn'[d][p].state
          IN  s # t => "FREE" \in {s, t} \/ {s, t} = {"UNBOUND", "INTERDOMAIN"}
                          \/ (s = "RESERVED" /\ d \in destroyed')]_vars

(* The comment in evtchn_destroy(): after its barrier no new allocation       *)
(* happens in the dying domain, even by an operation that was under way.      *)
NoAllocAfterBarrier ==
    [][\A d \in Domains, p \in Ports :
          /\ d \in destroyed \/ \E c \in Cpus : /\ cpu[c].d1 = d
                                                /\ cpu[c].loop = "destroy"
                                                /\ cpu[c].pc # "destroy_barrier"
          /\ chn[d][p].state = "FREE"
          => chn'[d][p].state = "FREE"]_vars
=============================================================================
