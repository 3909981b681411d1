----------------------------- MODULE EventPirq ------------------------------
(***************************************************************************)
(* Physical interrupts as event channels of one domain: the bind, close    *)
(* and rebind of ECS_PIRQ ports (xen/common/event_channel.c), the per-vcpu *)
(* list of such ports, the struct pirq tree and its mappings, and the two  *)
(* kinds of sender (xen/arch/x86/irq.c, xen/arch/x86/hvm/irq.c).           *)
(*                                                                         *)
(* The machine irq behind a pirq has the pirq's number.  A PV domain gets  *)
(* its interrupts from __do_IRQ_guest(), under desc->lock; an HVM domain   *)
(* gets those of emulated devices from assert_gsi(), which holds neither   *)
(* desc->lock nor the event lock.                                          *)
(*                                                                         *)
(* A definition marked "Deviation" is the one below it with a slip that    *)
(* some property must notice; the specification does not use it.           *)
(***************************************************************************)
EXTENDS Integers, FiniteSets

CONSTANTS
    Domains,        \* the domains to look at, with the CPUs that work for each
    NoCpu, NoPirq

(* hvm is is_hvm_domain(d), fixed when the domain is created; ports is the     *)
(* size of its table, vcpus are its vcpu ids, pirqs its pirq numbers.         *)
ASSUME PirqConstants ==
    \A d \in Domains :
       /\ DOMAIN d = {"hvm", "ports", "vcpus", "pirqs", "cpus"}
       /\ d.hvm \in BOOLEAN /\ d.ports \in Nat /\ 0 \in d.vcpus
       /\ NoCpu \notin d.cpus /\ NoPirq \notin d.pirqs

VARIABLES
    dom,        \* the domain, always the same
    chn,        \* chn[p]: struct evtchn of port p, with u.pirq
    head,       \* head[v]: v->pirq_evtchn_head
    tree,       \* tree: pirqs with an entry in d->pirq_tree
    info,       \* info[i]: struct pirq of pirq i
    guest,      \* pirqs with the domain in action->guest[] of their irq
    lock,       \* holder of d->event_lock
    dlock,      \* dlock[i]: holder of desc->lock of the irq behind i
    pending,    \* ports with their evtchn_pending bit set
    cpu         \* cpu[c]: what CPU c is doing

vars == <<dom, chn, head, tree, info, guest, lock, dlock, pending, cpu>>

Hvm == dom.hvm
Vcpus == dom.vcpus
Pirqs == dom.pirqs
Cpus == dom.cpus

(* Ports are 1 .. NrPorts, 0 is "no port". *)
NrPorts == dom.ports
Ports == 1 .. NrPorts
Port0 == 0 .. NrPorts

Evtchn == [state : {"FREE", "PIRQ"}, notify : Vcpus, irq : Pirqs \cup {NoPirq},
           next : Port0, prev : Port0]
FreeChn == [state |-> "FREE", notify |-> 0, irq |-> NoPirq, next |-> 0, prev |-> 0]

(* irq: 1 mapped, 0 not mapped, -1 unmapped while the guest was bound to it.  *)
(* emuirq: IRQ_UNBOUND, an emulated irq, or IRQ_PT.                           *)
Pirq == [evtchn : Port0, irq : {-1, 0, 1}, emuirq : {"unbound", "emulated", "pt"}]
NewPirq == [evtchn |-> 0, irq |-> 0, emuirq |-> "unbound"]

Idle == [pc |-> "idle", p |-> 0, i |-> NoPirq]

TypeOK ==
    /\ dom \in Domains
    /\ chn \in [Ports -> Evtchn]
    /\ head \in [Vcpus -> Port0]
    /\ tree \subseteq Pirqs
    /\ info \in [Pirqs -> Pirq]
    /\ guest \subseteq Pirqs
    /\ lock \in Cpus \cup {NoCpu}
    /\ dlock \in [Pirqs -> Cpus \cup {NoCpu}]
    /\ pending \subseteq Ports
    /\ cpu \in [Cpus -> [pc : {"idle", "bind", "bind_guest", "bind_commit",
                               "close_unlink", "irq_set"},
                         p : Port0, i : Pirqs \cup {NoPirq}]]

Init ==
    /\ dom \in Domains
    /\ chn = [p \in Ports |-> FreeChn]
    /\ head = [v \in Vcpus |-> 0]
    /\ tree = {}
    /\ info = [i \in Pirqs |-> NewPirq]
    /\ guest = {}
    /\ lock = NoCpu
    /\ dlock = [i \in Pirqs |-> NoCpu]
    /\ pending = {}
    /\ cpu = [c \in Cpus |-> Idle]

-----------------------------------------------------------------------------
Continue(c, w) == cpu' = [cpu EXCEPT ![c] = w]

(* link_pirq_port(): port p becomes the head of v's list. *)
link_pirq_port(ch, hd, p, v) ==
    <<[q \in Ports |->
         IF q = p THEN [ch[q] EXCEPT !.prev = 0, !.next = hd[v]]
         ELSE IF q = hd[v] THEN [ch[q] EXCEPT !.prev = p] ELSE ch[q]],
      [hd EXCEPT ![v] = p]>>

(* Deviation: the port after p keeps pointing back at p. *)
unlink_pirq_port_forward(ch, hd, p, v) ==
    LET before == ch[p].prev
        after == ch[p].next
    IN  <<[q \in Ports |-> [ch[q] EXCEPT !.next = IF q = before THEN after ELSE @]],
          IF before = 0 THEN [hd EXCEPT ![v] = after] ELSE hd>>

(* unlink_pirq_port(): port p leaves v's list; its own links stay as they are. *)
unlink_pirq_port(ch, hd, p, v) ==
    LET before == ch[p].prev
        after == ch[p].next
    IN  <<[q \in Ports |->
             [ch[q] EXCEPT !.next = IF q = before THEN after ELSE @,
                           !.prev = IF q = after THEN before ELSE @]],
          IF before = 0 THEN [hd EXCEPT ![v] = after] ELSE hd>>

(* The macro pirq_cleanup_check() and the function behind it, for pirq i with *)
(* fields r: the tree after it.  The macro calls the function when an event   *)
(* channel IS bound; the function deletes the entry unless an irq or an       *)
(* emulated irq is mapped.                                                    *)
pirq_cleanup_check(t, i, r) ==
    IF r.evtchn # 0 /\ r.irq = 0 /\ (Hvm => r.emuirq = "unbound")
    THEN t \ {i} ELSE t

(* pirq_get_info(): look up, or insert a fresh entry. *)
pirq_get_info(i) == IF i \in tree THEN info[i] ELSE NewPirq

(* pirq_field(): a field of the entry, or the default without one. *)
Mapped(i) == i \in tree /\ info[i].irq > 0

FreePorts == {p \in Ports : chn[p].state = "FREE"}

-----------------------------------------------------------------------------
(* evtchn_bind_pirq(). *)

(* pirq_access_permitted() is tested before the lock is taken: access is      *)
(* granted by map_domain_pirq() and revoked by unmap_domain_pirq().           *)
BindCall(c, i) ==
    /\ cpu[c].pc = "idle"
    /\ Hvm \/ Mapped(i)
    /\ Continue(c, [Idle EXCEPT !.pc = "bind", !.i = i])
    /\ UNCHANGED <<chn, head, tree, info, guest, lock, dlock, pending>>

(* Refused: bound already, no free port, or no memory for a struct pirq. *)
BindRefused(c) ==
    LET i == cpu[c].i
    IN  /\ cpu[c].pc = "bind" /\ lock = NoCpu
        /\ i \in tree => info[i].evtchn # 0 \/ FreePorts = {}
        /\ Continue(c, Idle)
        /\ UNCHANGED <<chn, head, tree, info, guest, lock, dlock, pending>>

(* Deviations: the error of get_free_port() is taken for a port; the event    *)
(* lock is not waited for.                                                    *)
BindSetEvtchnUnchecked(c, p) ==
    LET i == cpu[c].i
        port == IF FreePorts = {} THEN -1 ELSE p
    IN  /\ cpu[c].pc = "bind" /\ lock = NoCpu
        /\ ~(i \in tree /\ info[i].evtchn # 0)
        /\ FreePorts # {} => p \in FreePorts /\ \A q \in FreePorts : p <= q
        /\ lock' = c
        /\ tree' = tree \cup {i}
        /\ info' = [info EXCEPT ![i] = [pirq_get_info(i) EXCEPT !.evtchn = port]]
        /\ Continue(c, [pc |-> "bind_commit", p |-> p, i |-> i])
        /\ UNCHANGED <<chn, head, guest, dlock, pending>>
BindSetEvtchnUnlocked(c, p) ==
    LET i == cpu[c].i
    IN  /\ cpu[c].pc = "bind"
        /\ ~(i \in tree /\ info[i].evtchn # 0)
        /\ p \in FreePorts /\ \A q \in FreePorts : p <= q
        /\ lock' = c
        /\ tree' = tree \cup {i}
        /\ info' = [info EXCEPT ![i] = [pirq_get_info(i) EXCEPT !.evtchn = p]]
        /\ Continue(c, [pc |-> IF Hvm THEN "bind_commit" ELSE "bind_guest",
                        p |-> p, i |-> i])
        /\ UNCHANGED <<chn, head, guest, dlock, pending>>

(* info->evtchn is set before the irq is bound. *)
BindSetEvtchn(c, p) ==
    LET i == cpu[c].i
    IN  /\ cpu[c].pc = "bind" /\ lock = NoCpu
        /\ ~(i \in tree /\ info[i].evtchn # 0)
        /\ p \in FreePorts /\ \A q \in FreePorts : p <= q
        /\ lock' = c
        /\ tree' = tree \cup {i}
        /\ info' = [info EXCEPT ![i] = [pirq_get_info(i) EXCEPT !.evtchn = p]]
        /\ Continue(c, [pc |-> IF Hvm THEN "bind_commit" ELSE "bind_guest",
                        p |-> p, i |-> i])
        /\ UNCHANGED <<chn, head, guest, dlock, pending>>

(* pirq_guest_bind(), PV only: under desc->lock the domain joins the guests.  *)
BindGuest(c) ==
    LET i == cpu[c].i
    IN  /\ cpu[c].pc = "bind_guest"
        /\ Mapped(i) /\ dlock[i] = NoCpu
        /\ guest' = guest \cup {i}
        /\ Continue(c, [cpu[c] EXCEPT !.pc = "bind_commit"])
        /\ UNCHANGED <<chn, head, tree, info, lock, dlock, pending>>

(* It fails: not mapped any more, out of memory, or in use without sharing.   *)
BindGuestFails(c) ==
    LET i == cpu[c].i
        r == [info[i] EXCEPT !.evtchn = 0]
    IN  /\ cpu[c].pc = "bind_guest"
        /\ info' = [info EXCEPT ![i] = r]
        /\ tree' = pirq_cleanup_check(tree, i, r)
        /\ lock' = NoCpu
        /\ Continue(c, Idle)
        /\ UNCHANGED <<chn, head, guest, dlock, pending>>

(* The port is bound and linked to vcpu 0; an HVM pirq with a machine irq     *)
(* behind it is marked IRQ_PT (map_domain_emuirq_pirq).                       *)
BindCommit(c) ==
    LET p == cpu[c].p
        i == cpu[c].i
        bound == [chn EXCEPT ![p].state = "PIRQ", ![p].irq = i]
        linked == link_pirq_port(bound, head, p, 0)
    IN  /\ cpu[c].pc = "bind_commit"
        /\ chn' = linked[1] /\ head' = linked[2]
        /\ info' = IF Hvm /\ Mapped(i) /\ info[i].emuirq # "emulated"
                   THEN [info EXCEPT ![i].emuirq = "pt"] ELSE info
        /\ lock' = NoCpu
        /\ Continue(c, Idle)
        /\ UNCHANGED <<tree, guest, dlock, pending>>

-----------------------------------------------------------------------------
(* __evtchn_close() of a PIRQ port. *)

(* The end of the function: the pending bit is cleared and the port freed,    *)
(* with what is in its union left there.                                      *)
CloseFinish(p, ch) ==
    /\ chn' = [ch EXCEPT ![p].state = "FREE", ![p].notify = 0]
    /\ pending' = pending \ {p}
    /\ lock' = NoCpu

(* No struct pirq: the port is freed and stays on the list. *)
CloseNoInfo(c, p) ==
    /\ cpu[c].pc = "idle" /\ lock = NoCpu
    /\ chn[p].state = "PIRQ" /\ chn[p].irq \notin tree
    /\ CloseFinish(p, chn)
    /\ UNCHANGED <<head, tree, info, guest, dlock, cpu>>

(* Deviation: desc->lock is not waited for. *)
CloseUnbindUnlocked(c, p) ==
    LET i == chn[p].irq
        r == [info[i] EXCEPT !.irq = 0]
    IN  /\ cpu[c].pc = "idle" /\ lock = NoCpu /\ ~Hvm
        /\ chn[p].state = "PIRQ" /\ i \in tree
        /\ \/ /\ info[i].irq > 0
              /\ guest' = guest \ {i}
              /\ UNCHANGED <<tree, info>>
           \/ /\ info[i].irq < 0
              /\ info' = [info EXCEPT ![i] = r]
              /\ tree' = pirq_cleanup_check(tree, i, r)
              /\ UNCHANGED guest
        /\ lock' = c
        /\ Continue(c, [pc |-> "close_unlink", p |-> p, i |-> i])
        /\ UNCHANGED <<chn, head, dlock, pending>>

(* pirq_guest_unbind(), PV only.  With the irq mapped the domain leaves its   *)
(* guests, under desc->lock; otherwise unmap_domain_pirq() has removed it     *)
(* already and left the irq negated, and the mapping is dropped now.          *)
CloseUnbind(c, p) ==
    LET i == chn[p].irq
        r == [info[i] EXCEPT !.irq = 0]
    IN  /\ cpu[c].pc = "idle" /\ lock = NoCpu /\ ~Hvm
        /\ chn[p].state = "PIRQ" /\ i \in tree
        /\ dlock[i] = NoCpu
        /\ \/ /\ info[i].irq > 0
              /\ guest' = guest \ {i}
              /\ UNCHANGED <<tree, info>>
           \/ /\ info[i].irq < 0
              /\ info' = [info EXCEPT ![i] = r]
              /\ tree' = pirq_cleanup_check(tree, i, r)
              /\ UNCHANGED guest
        /\ lock' = c
        /\ Continue(c, [pc |-> "close_unlink", p |-> p, i |-> i])
        /\ UNCHANGED <<chn, head, dlock, pending>>

(* evtchn is reset, the port leaves its vcpu's list, and an HVM pirq with a   *)
(* machine irq loses its IRQ_PT mark (unmap_domain_pirq_emuirq).              *)
Unlink(c, p, i) ==
    LET off == unlink_pirq_port(chn, head, p, chn[p].notify)
        r == [info[i] EXCEPT !.evtchn = 0]
        t == pirq_cleanup_check(tree, i, r)
    IN  /\ info' = [info EXCEPT ![i] =
                      IF Hvm /\ i \in t /\ r.irq > 0
                      THEN [r EXCEPT !.emuirq = "unbound"] ELSE r]
        /\ tree' = t
        /\ CloseFinish(p, off[1])
        /\ head' = off[2]

CloseUnlink(c) ==
    /\ cpu[c].pc = "close_unlink"
    /\ Unlink(c, cpu[c].p, cpu[c].i)
    /\ Continue(c, Idle)
    /\ UNCHANGED <<guest, dlock>>

CloseHvm(c, p) ==
    /\ cpu[c].pc = "idle" /\ lock = NoCpu /\ Hvm
    /\ chn[p].state = "PIRQ" /\ chn[p].irq \in tree
    /\ Unlink(c, p, chn[p].irq)
    /\ UNCHANGED <<guest, dlock, cpu>>

(* evtchn_bind_vcpu() of a PIRQ port: from one vcpu's list to the other's. *)
BindVcpu(c, p, v) ==
    LET off == unlink_pirq_port(chn, head, p, chn[p].notify)
        moved == [off[1] EXCEPT ![p].notify = v]
        on == link_pirq_port(moved, off[2], p, v)
    IN  /\ cpu[c].pc = "idle" /\ lock = NoCpu
        /\ chn[p].state = "PIRQ" /\ chn[p].notify # v
        /\ chn' = on[1] /\ head' = on[2]
        /\ UNCHANGED <<tree, info, guest, lock, dlock, pending, cpu>>

-----------------------------------------------------------------------------
(* The mappings, under the event lock. *)

(* map_domain_pirq(), by the toolstack.  A pirq with a mapping, also one that *)
(* was unmapped while bound, is left as it is.                                *)
MapPirq(i) ==
    /\ lock = NoCpu
    /\ i \in tree => info[i].irq = 0
    /\ info' = [info EXCEPT ![i] = [pirq_get_info(i) EXCEPT !.irq = 1]]
    /\ tree' = tree \cup {i}
    /\ UNCHANGED <<chn, head, guest, lock, dlock, pending, cpu>>

(* Deviations: the irq number is not negated; the guest is not unbound.       *)
UnmapPirqForgotten(i) ==
    LET r == [info[i] EXCEPT !.irq = 0]
    IN  /\ lock = NoCpu
        /\ Mapped(i) /\ dlock[i] = NoCpu
        /\ guest' = guest \ {i}
        /\ info' = [info EXCEPT ![i] = r]
        /\ tree' = pirq_cleanup_check(tree, i, r)
        /\ UNCHANGED <<chn, head, lock, dlock, pending, cpu>>
UnmapPirqBound(i) ==
    LET r == [info[i] EXCEPT !.irq = 0]
    IN  /\ lock = NoCpu
        /\ Mapped(i) /\ dlock[i] = NoCpu
        /\ info' = [info EXCEPT ![i] = r]
        /\ tree' = pirq_cleanup_check(tree, i, r)
        /\ UNCHANGED <<chn, head, guest, lock, dlock, pending, cpu>>

(* unmap_domain_pirq(): a bound guest is unbound by force, and the irq number *)
(* negated until its port is closed.                                          *)
UnmapPirq(i) ==
    LET r == [info[i] EXCEPT !.irq = 0]
    IN  /\ lock = NoCpu
        /\ Mapped(i) /\ dlock[i] = NoCpu
        /\ \/ /\ i \in guest
              /\ guest' = guest \ {i}
              /\ info' = [info EXCEPT ![i].irq = -1]
              /\ UNCHANGED tree
           \/ /\ i \notin guest
              /\ info' = [info EXCEPT ![i] = r]
              /\ tree' = pirq_cleanup_check(tree, i, r)
              /\ UNCHANGED guest
        /\ UNCHANGED <<chn, head, lock, dlock, pending, cpu>>

(* map_domain_emuirq_pirq() for an emulated device (physdev_hvm_map_pirq).    *)
MapEmuirq(i) ==
    /\ lock = NoCpu /\ Hvm
    /\ i \in tree => info[i].emuirq = "unbound"
    /\ info' = [info EXCEPT ![i] = [pirq_get_info(i) EXCEPT !.emuirq = "emulated"]]
    /\ tree' = tree \cup {i}
    /\ UNCHANGED <<chn, head, guest, lock, dlock, pending, cpu>>

(* unmap_domain_pirq_emuirq(), from physdev_unmap_pirq(). *)
UnmapEmuirq(i) ==
    LET r == [info[i] EXCEPT !.emuirq = "unbound"]
    IN  /\ lock = NoCpu /\ Hvm
        /\ i \in tree /\ info[i].emuirq # "unbound"
        /\ info' = [info EXCEPT ![i] = r]
        /\ tree' = pirq_cleanup_check(tree, i, r)
        /\ UNCHANGED <<chn, head, guest, lock, dlock, pending, cpu>>

-----------------------------------------------------------------------------
(* The senders: send_guest_pirq() reads pirq->evtchn, then sets the bit. *)

(* __do_IRQ_guest(), under desc->lock, for a domain among the guests. *)
DoIrqGuest(c, i) ==
    /\ cpu[c].pc = "idle" /\ i \in guest /\ dlock[i] = NoCpu
    /\ dlock' = [dlock EXCEPT ![i] = c]
    /\ Continue(c, [pc |-> "irq_set", p |-> info[i].evtchn, i |-> i])
    /\ UNCHANGED <<chn, head, tree, info, guest, lock, pending>>

(* assert_gsi() of an emulated interrupt, with no lock the port depends on.   *)
AssertGsi(c, i) ==
    /\ cpu[c].pc = "idle" /\ Hvm
    /\ i \in tree /\ info[i].emuirq = "emulated" /\ info[i].evtchn # 0
    /\ Continue(c, [pc |-> "irq_set", p |-> info[i].evtchn, i |-> NoPirq])
    /\ UNCHANGED <<chn, head, tree, info, guest, lock, dlock, pending>>

SetPending(c) ==
    /\ cpu[c].pc = "irq_set"
    /\ pending' = pending \cup ({cpu[c].p} \ {0})
    /\ dlock' = [i \in Pirqs |-> IF dlock[i] = c THEN NoCpu ELSE dlock[i]]
    /\ Continue(c, Idle)
    /\ UNCHANGED <<chn, head, tree, info, guest, lock>>

(* The guest takes an event. *)
Consume(p) ==
    /\ p \in pending
    /\ pending' = pending \ {p}
    /\ UNCHANGED <<chn, head, tree, info, guest, lock, dlock, cpu>>

Step(c) ==
    \/ BindRefused(c) \/ (\E p \in Ports : BindSetEvtchn(c, p)) \/ BindGuest(c)
    \/ BindGuestFails(c) \/ BindCommit(c) \/ CloseUnlink(c) \/ SetPending(c)

Call(c) ==
    \/ \E i \in Pirqs : BindCall(c, i) \/ DoIrqGuest(c, i) \/ AssertGsi(c, i)
    \/ \E p \in Ports : \/ CloseNoInfo(c, p) \/ CloseUnbind(c, p) \/ CloseHvm(c, p)
                        \/ \E v \in Vcpus : BindVcpu(c, p, v)

Next ==
    /\ \/ \E c \in Cpus : Step(c) \/ Call(c)
       \/ \E i \in Pirqs : MapPirq(i) \/ UnmapPirq(i) \/ MapEmuirq(i) \/ UnmapEmuirq(i)
       \/ \E p \in Ports : Consume(p)
    /\ UNCHANGED dom

Spec == Init /\ [][Next]_vars

-----------------------------------------------------------------------------
(* Properties. *)

(* The k-th port evtchn_move_pirqs() visits on vcpu v, 0 past the end. *)
Visited(v) ==
    LET at[k \in 0 .. NrPorts] ==
          IF k = 0 THEN head[v]
          ELSE IF at[k - 1] = 0 THEN 0 ELSE chn[at[k - 1]].next
    IN  at

(* The walk of evtchn_move_pirqs() over the list of a PV domain's vcpu ends,  *)
(* and visits every PIRQ port bound to the vcpu and nothing else, whatever    *)
(* binds, rebinds and closes came before.                                     *)
PirqListExact ==
    ~Hvm => \A v \in Vcpus :
       /\ Visited(v)[NrPorts] = 0
       /\ {Visited(v)[k] : k \in 0 .. NrPorts} \ {0}
             = {p \in Ports : chn[p].state = "PIRQ" /\ chn[p].notify = v}

(* A CPU inside evtchn_bind_pirq() or __evtchn_close() of pirq i. *)
Busy(i) == \E c \in Cpus : /\ cpu[c].i = i
                           /\ cpu[c].pc \in {"bind_guest", "bind_commit", "close_unlink"}

(* Ports and struct pirqs of a PV domain agree: outside the operations that   *)
(* change both, a PIRQ port's pirq has an entry that names the port back,     *)
(* with an irq that pirq_guest_unbind() can find (its BUG_ON), and an entry   *)
(* that names a port is that of its pirq.                                     *)
PirqTreeExact ==
    ~Hvm => \A i \in Pirqs :
       ~Busy(i) =>
          /\ \A p \in Ports :
                chn[p].state = "PIRQ" /\ chn[p].irq = i =>
                   i \in tree /\ info[i].evtchn = p /\ info[i].irq # 0
          /\ i \in tree /\ info[i].evtchn # 0 =>
                chn[info[i].evtchn].state = "PIRQ" /\ chn[info[i].evtchn].irq = i

(* The comment in send_guest_pirq(): a PV guest among the guests of an irq    *)
(* always has an entry with a port, so that the BUG_ON there never fires: the *)
(* port is set before the irq is bound and reset after it is unbound.         *)
PvIrqHasPort ==
    \A i \in guest : i \in tree /\ info[i].evtchn # 0

(* The comment in __evtchn_close() ("avoid unexpected behavior on re-bind"):  *)
(* no event is pending on a free port of a PV domain that is not being bound. *)
FreePortNotPending ==
    ~Hvm => \A p \in pending :
       chn[p].state = "PIRQ" \/ \E c \in Cpus : cpu[c].pc = "bind_commit" /\ cpu[c].p = p

(* A bound port keeps its pirq until it is closed: two binds racing for the   *)
(* lowest free port never end up with the same one, and whatever happens to   *)
(* the mappings underneath does not turn a port over to another pirq.         *)
BindingKept ==
    [][\A p \in Ports :
          chn[p].state = "PIRQ" /\ chn'[p].state = "PIRQ" => chn'[p].irq = chn[p].irq]_vars

(* The comment in pirq_cleanup_check(): an entry is deleted from the tree only *)
(* with all its fields at their defaults, the event channel included.         *)
DeletedIsDefault ==
    \A p \in Ports : chn[p].state = "PIRQ" /\ ~Busy(chn[p].irq) => chn[p].irq \in tree
=============================================================================
