--------------------------- MODULE EventDelivery ----------------------------
(***************************************************************************)
(* Delivery of events to the vcpus of one PV domain, bit operation by bit  *)
(* operation: evtchn_set_pending() and evtchn_unmask() in                  *)
(* xen/common/event_channel.c, vcpu_mark_events_pending() and vcpu_kick()  *)
(* in xen/arch/x86/domain.c, vcpu_unblock(), do_block(), do_poll() and     *)
(* poll_timer_fn() in xen/common/schedule.c, and the guest's side as       *)
(* Mini-OS has it (extras/mini-os/hypervisor.c).                           *)
(*                                                                         *)
(* Nothing here is under a lock that both sides take: senders, vcpus and   *)
(* the guest meet in shared bits.  Each atomic bit operation, and each     *)
(* plain read or write, is a step; the x86 bit operations are barriers.    *)
(*                                                                         *)
(* A definition marked "Deviation" is the one below it with a slip that    *)
(* some property must notice; the specification does not use it.           *)
(***************************************************************************)
EXTENDS Integers, FiniteSets

CONSTANTS
    Domains,    \* the domains to look at, with those who send to each
    Words,      \* words of the evtchn_pending array
    WordOf      \* WordOf[p]: the word of port p (port / BITS_PER_EVTCHN_WORD)

(* "timeout" is a poll with one, "disable" sets evtchn_upcall_mask, "unmask"  *)
(* is the hypercall, "local_unmask" the guest's own, "bind" is                *)
(* EVTCHNOP_bind_vcpu, and "preempt" what the scheduler may do to the guest.  *)
AllCalls == {"block", "poll", "timeout", "disable", "mask", "unmask", "local_unmask",
             "bind", "preempt"}

(* ports and vcpus are numbers, targets[p] the vcpus port p is ever bound to  *)
(* (notify_vcpu_id), senders the contexts that send events to the domain or   *)
(* run its timers, calls what the guest ever does.                            *)
ASSUME DeliveryConstants ==
    \A d \in Domains :
       /\ DOMAIN d = {"ports", "vcpus", "targets", "senders", "calls"}
       /\ d.ports \subseteq Nat \ {0} /\ d.vcpus \subseteq Nat
       /\ \A p \in d.ports : WordOf[p] \in Words
       /\ d.targets \in [d.ports -> SUBSET d.vcpus \ {{}}]
       /\ d.calls \subseteq AllCalls

VARIABLES
    dom,        \* the domain, always the same
    pending,    \* ports with their evtchn_pending bit set
    mask,       \* ports with their evtchn_mask bit set
    notify,     \* notify[p]: notify_vcpu_id
    sel,        \* sel[v]: words set in evtchn_pending_sel
    upcall,     \* vcpus with evtchn_upcall_pending set
    upmask,     \* vcpus with evtchn_upcall_mask set
    blocked,    \* vcpus with _VPF_blocked set
    pollmask,   \* d->poll_mask
    pollev,     \* pollev[v]: v->poll_evtchn
    timer,      \* vcpus with their poll_timer armed
    kicked,     \* vcpus with a VCPU_KICK_SOFTIRQ raised on their processor
    ag,         \* ag[a]: program counter and locals of a sender or a vcpu
    scan,       \* scan[v]: l1 of do_hypervisor_callback on v
    polled      \* polled[v]: the ports v's current SCHEDOP_poll names

vars == <<dom, pending, mask, notify, sel, upcall, upmask, blocked, pollmask, pollev,
          timer, kicked, ag, scan, polled>>

Ports == dom.ports
Vcpus == dom.vcpus
Targets == dom.targets
Senders == dom.senders
Calls == dom.calls

Agents == Senders \cup Vcpus

(* evtchn_set_pending / evtchn_unmask, then vcpu_mark_events_pending,         *)
(* vcpu_kick, vcpu_unblock, and the loop over the pollers. *)
SendPCs == {"set", "mask", "unmask_pending", "sel", "mark", "running", "unblock",
            "pollev", "pollev_clear", "pollmask_clear", "reblock", "wake", "kick",
            "loop", "match", "claim", "claimed", "timer"}

(* Program counter and locals: p the port, v the target vcpu, run the saved   *)
(* is_running, from the caller of vcpu_unblock, next the first vcpu the       *)
(* poller loop has not seen.  A vcpu runs in the guest, or is in Xen on its   *)
(* way there, or runnable but not running, or asleep; or is in one of the     *)
(* hypercalls and the callback.                                               *)
At(pc) == [pc |-> pc, p |-> 0, v |-> -1, run |-> FALSE, from |-> "", next |-> 0]

Init ==
    /\ dom \in Domains
    /\ pending = {} /\ mask = {}
    /\ notify \in {f \in [Ports -> Vcpus] : \A p \in Ports : f[p] \in Targets[p]}
    /\ sel = [v \in Vcpus |-> {}]
    /\ upcall = {} /\ upmask = {} /\ blocked = {} /\ pollmask = {}
    /\ pollev = [v \in Vcpus |-> 0]
    /\ timer = {} /\ kicked = {}
    /\ ag = [a \in Agents |-> At(IF a \in Senders THEN "idle" ELSE "guest")]
    /\ scan = [v \in Vcpus |-> {}]
    /\ polled = [v \in Vcpus |-> {}]

-----------------------------------------------------------------------------
Goto(a, pc) == ag' = [ag EXCEPT ![a].pc = pc]
Become(a, w) == ag' = [ag EXCEPT ![a] = w]

(* The end of a send, or the return of the unmask hypercall to the guest. *)
Done(a) == Become(a, At(IF a \in Senders THEN "idle" ELSE "xen"))

(* The loop over the pollers, from vcpu next on. *)
Loop(a) == [At("loop") EXCEPT !.p = ag[a].p, !.next = ag[a].next]

(* After vcpu_mark_events_pending(): only a sender looks for pollers. *)
Marked(a) == IF a \in Senders THEN Become(a, Loop(a)) ELSE Done(a)

(* What a sender leaves alone. *)
GuestState == <<mask, notify, upmask, scan, polled>>

-----------------------------------------------------------------------------
(* evtchn_set_pending(v, p), by a sender.  The target vcpu is read from the   *)
(* channel before; it may be bound elsewhere by the time the bits are set.    *)
SendStart(s, p) ==
    /\ ag[s].pc = "idle"
    /\ Become(s, [At("set") EXCEPT !.p = p, !.v = notify[p]])
    /\ UNCHANGED <<pending, sel, upcall, blocked, pollmask, pollev, timer, kicked, GuestState>>

SetPending(s) ==
    /\ ag[s].pc = "set"
    /\ pending' = pending \cup {ag[s].p}
    /\ IF ag[s].p \in pending THEN Done(s) ELSE Goto(s, "mask")
    /\ UNCHANGED <<sel, upcall, blocked, pollmask, pollev, timer, kicked, GuestState>>

TestMask(s) ==
    /\ ag[s].pc = "mask"
    /\ IF ag[s].p \in mask THEN Marked(s) ELSE Goto(s, "sel")
    /\ UNCHANGED <<pending, sel, upcall, blocked, pollmask, pollev, timer, kicked, GuestState>>

SetSel(a) ==
    LET v == ag[a].v
        word == WordOf[ag[a].p]
    IN  /\ ag[a].pc = "sel"
        /\ sel' = [sel EXCEPT ![v] = @ \cup {word}]
        /\ IF word \in sel[v] THEN Marked(a) ELSE Goto(a, "mark")
        /\ UNCHANGED <<pending, upcall, blocked, pollmask, pollev, timer, kicked, GuestState>>

(* Deviation: no vcpu_kick(). *)
MarkPendingNoKick(a) ==
    /\ ag[a].pc = "mark"
    /\ upcall' = upcall \cup {ag[a].v}
    /\ Marked(a)
    /\ UNCHANGED <<pending, sel, blocked, pollmask, pollev, timer, kicked, GuestState>>

(* vcpu_mark_events_pending(v) *)
MarkPending(a) ==
    /\ ag[a].pc = "mark"
    /\ upcall' = upcall \cup {ag[a].v}
    /\ IF ag[a].v \in upcall THEN Marked(a) ELSE Goto(a, "running")
    /\ UNCHANGED <<pending, sel, blocked, pollmask, pollev, timer, kicked, GuestState>>

(* vcpu_kick(v): is_running is saved, then the vcpu unblocked, then kicked. *)
SaveRunning(a) ==
    /\ ag[a].pc = "running"
    /\ Become(a, [ag[a] EXCEPT !.pc = "unblock", !.from = "kick",
                               !.run = ag[ag[a].v].pc \notin {"ready", "asleep"}])
    /\ UNCHANGED <<pending, sel, upcall, blocked, pollmask, pollev, timer, kicked, GuestState>>

Kick(a) ==
    /\ ag[a].pc = "kick"
    /\ kicked' = IF ag[a].run /\ ag[a].v # a THEN kicked \cup {ag[a].v} ELSE kicked
    /\ Marked(a)
    /\ UNCHANGED <<pending, sel, upcall, blocked, pollmask, pollev, timer, GuestState>>

-----------------------------------------------------------------------------
(* vcpu_unblock(v), from vcpu_kick, the poller loop or the poll timer. *)

Unblocked(a) == CASE ag[a].from = "timer" -> At("idle")
                  [] ag[a].from = "loop" -> Loop(a)
                  [] OTHER -> [ag[a] EXCEPT !.pc = "kick", !.from = ""]

Unblock(a) ==
    /\ ag[a].pc = "unblock"
    /\ blocked' = blocked \ {ag[a].v}
    /\ IF ag[a].v \in blocked THEN Goto(a, "pollev") ELSE Become(a, Unblocked(a))
    /\ UNCHANGED <<pending, sel, upcall, pollmask, pollev, timer, kicked, GuestState>>

UnblockReadPoll(a) ==
    /\ ag[a].pc = "pollev"
    /\ Goto(a, IF pollev[ag[a].v] # 0 THEN "pollev_clear" ELSE "wake")
    /\ UNCHANGED <<pending, sel, upcall, blocked, pollmask, pollev, timer, kicked, GuestState>>

UnblockClearPoll(a) ==
    /\ ag[a].pc = "pollev_clear"
    /\ pollev' = [pollev EXCEPT ![ag[a].v] = 0]
    /\ Goto(a, "pollmask_clear")
    /\ UNCHANGED <<pending, sel, upcall, blocked, pollmask, timer, kicked, GuestState>>

UnblockClearMask(a) ==
    /\ ag[a].pc = "pollmask_clear"
    /\ pollmask' = pollmask \ {ag[a].v}
    /\ Goto(a, IF ag[a].v \in pollmask THEN "reblock" ELSE "wake")
    /\ UNCHANGED <<pending, sel, upcall, blocked, pollev, timer, kicked, GuestState>>

(* "We *must* re-clear _VPF_blocked to avoid racing other wakeups." *)
UnblockAgain(a) ==
    /\ ag[a].pc = "reblock"
    /\ blocked' = blocked \ {ag[a].v}
    /\ Goto(a, "wake")
    /\ UNCHANGED <<pending, sel, upcall, pollmask, pollev, timer, kicked, GuestState>>

(* vcpu_wake(v): a sleeping vcpu that is runnable goes to its run queue. *)
Wake(a) ==
    LET v == ag[a].v
    IN  /\ ag[a].pc = "wake"
        /\ ag' = [ag EXCEPT ![a] = Unblocked(a),
                            ![v].pc = IF @ = "asleep" /\ v \notin blocked
                                      THEN "ready" ELSE @]
        /\ UNCHANGED <<pending, sel, upcall, blocked, pollmask, pollev, timer, kicked,
                       GuestState>>

-----------------------------------------------------------------------------
(* The end of evtchn_set_pending(): waking the pollers. *)

(* find_first_bit / find_next_bit on poll_mask. *)
NextPoller(s) ==
    LET rest == {v \in pollmask : v >= ag[s].next}
    IN  /\ ag[s].pc = "loop"
        /\ \/ rest = {} /\ Done(s)
           \/ \E v \in rest :
                 /\ \A u \in rest : v <= u
                 /\ Become(s, [ag[s] EXCEPT !.pc = "match", !.v = v, !.next = v + 1])
        /\ UNCHANGED <<pending, sel, upcall, blocked, pollmask, pollev, timer, kicked,
                       GuestState>>

MatchPoller(s) ==
    /\ ag[s].pc = "match"
    /\ IF pollev[ag[s].v] <= 0 \/ pollev[ag[s].v] = ag[s].p
       THEN Goto(s, "claim") ELSE Become(s, Loop(s))
    /\ UNCHANGED <<pending, sel, upcall, blocked, pollmask, pollev, timer, kicked, GuestState>>

ClaimPoller(s) ==
    /\ ag[s].pc = "claim"
    /\ pollmask' = pollmask \ {ag[s].v}
    /\ IF ag[s].v \in pollmask THEN Goto(s, "claimed") ELSE Become(s, Loop(s))
    /\ UNCHANGED <<pending, sel, upcall, blocked, pollev, timer, kicked, GuestState>>

UnblockPoller(s) ==
    /\ ag[s].pc = "claimed"
    /\ pollev' = [pollev EXCEPT ![ag[s].v] = 0]
    /\ Become(s, [ag[s] EXCEPT !.pc = "unblock", !.from = "loop"])
    /\ UNCHANGED <<pending, sel, upcall, blocked, pollmask, timer, kicked, GuestState>>

(* poll_timer_fn(v) *)
TimerFires(s, v) ==
    /\ ag[s].pc = "idle" /\ v \in timer
    /\ timer' = timer \ {v}
    /\ Become(s, [At("timer") EXCEPT !.v = v])
    /\ UNCHANGED <<pending, sel, upcall, blocked, pollmask, pollev, kicked, GuestState>>

TimerClaims(s) ==
    /\ ag[s].pc = "timer"
    /\ pollmask' = pollmask \ {ag[s].v}
    /\ IF ag[s].v \in pollmask
       THEN Become(s, [ag[s] EXCEPT !.pc = "unblock", !.from = "timer"]) ELSE Done(s)
    /\ UNCHANGED <<pending, sel, upcall, blocked, pollev, timer, kicked, GuestState>>

-----------------------------------------------------------------------------
(* A vcpu between guest, Xen and the scheduler. *)

(* Return to guest: a vcpu that is blocked is descheduled instead (do_block   *)
(* and do_poll raise SCHEDULE_SOFTIRQ); otherwise a pending upcall that is    *)
(* not masked is delivered, with upcalls masked until the callback returns.   *)
Deschedule(v) ==
    /\ ag[v].pc = "xen" /\ v \in blocked
    /\ Goto(v, "asleep")
    /\ UNCHANGED <<pending, sel, upcall, blocked, pollmask, pollev, timer, kicked, GuestState>>

EnterGuest(v) ==
    /\ ag[v].pc = "xen" /\ v \notin blocked
    /\ kicked' = kicked \ {v}
    /\ polled' = [polled EXCEPT ![v] = {}]
    /\ IF v \in upcall \ upmask
       THEN Goto(v, "cb_clear") /\ upmask' = upmask \cup {v}
       ELSE Goto(v, "guest") /\ UNCHANGED upmask
    /\ UNCHANGED <<pending, sel, upcall, blocked, pollmask, pollev, timer, mask, notify, scan>>

(* The softirq interrupts the guest. *)
TakeKick(v) ==
    /\ ag[v].pc = "guest" /\ v \in kicked
    /\ Goto(v, "xen")
    /\ UNCHANGED <<pending, sel, upcall, blocked, pollmask, pollev, timer, kicked, GuestState>>

Preempt(v) ==
    /\ "preempt" \in Calls /\ ag[v].pc = "guest"
    /\ Goto(v, "ready")
    /\ UNCHANGED <<pending, sel, upcall, blocked, pollmask, pollev, timer, kicked, GuestState>>

Resume(v) ==
    /\ ag[v].pc = "ready"
    /\ Goto(v, "xen")
    /\ UNCHANGED <<pending, sel, upcall, blocked, pollmask, pollev, timer, kicked, GuestState>>

-----------------------------------------------------------------------------
(* SCHEDOP_block: do_block() *)
Block(v) ==
    /\ "block" \in Calls /\ ag[v].pc = "guest"
    /\ upmask' = upmask \ {v}
    /\ Goto(v, "block")
    /\ UNCHANGED <<pending, sel, upcall, blocked, pollmask, pollev, timer, kicked,
                   mask, notify, scan, polled>>

BlockSet(v) ==
    /\ ag[v].pc = "block"
    /\ blocked' = blocked \cup {v}
    /\ Goto(v, "block_check")
    /\ UNCHANGED <<pending, sel, upcall, pollmask, pollev, timer, kicked, GuestState>>

(* Deviation: no check after blocking. *)
BlockUnchecked(v) ==
    /\ ag[v].pc = "block_check"
    /\ Goto(v, "xen")
    /\ UNCHANGED <<pending, sel, upcall, blocked, pollmask, pollev, timer, kicked, GuestState>>

(* "Check for events /after/ blocking: avoids wakeup waiting race." *)
BlockCheck(v) ==
    /\ ag[v].pc = "block_check"
    /\ blocked' = IF v \in upcall \ upmask THEN blocked \ {v} ELSE blocked
    /\ Goto(v, "xen")
    /\ UNCHANGED <<pending, sel, upcall, pollmask, pollev, timer, kicked, GuestState>>

(* SCHEDOP_poll on the ports P: do_poll() *)
Poll(v, P) ==
    /\ "poll" \in Calls /\ ag[v].pc = "guest"
    /\ blocked' = blocked \cup {v}
    /\ polled' = [polled EXCEPT ![v] = P]
    /\ Goto(v, "poll")
    /\ UNCHANGED <<pending, sel, upcall, pollmask, pollev, timer, kicked,
                   mask, notify, upmask, scan>>

PollSetEvtchn(v) ==
    /\ ag[v].pc = "poll"
    /\ pollev' = [pollev EXCEPT ![v] = -1]
    /\ Goto(v, "poll_mask")
    /\ UNCHANGED <<pending, sel, upcall, blocked, pollmask, timer, kicked, GuestState>>

PollSetMask(v) ==
    /\ ag[v].pc = "poll_mask"
    /\ pollmask' = pollmask \cup {v}
    /\ Goto(v, "poll_check")
    /\ UNCHANGED <<pending, sel, upcall, blocked, pollev, timer, kicked, GuestState>>

PollCheck(v) ==
    /\ ag[v].pc = "poll_check"
    /\ Goto(v, IF v \in upcall \ upmask THEN "poll_out" ELSE "poll_port")
    /\ UNCHANGED <<pending, sel, upcall, blocked, pollmask, pollev, timer, kicked, GuestState>>

(* Deviation: the ports are not tested after the vcpu joined poll_mask. *)
PollPortUntested(v, p) ==
    /\ ag[v].pc = "poll_port" /\ p \in polled[v]
    /\ Become(v, At("poll_sleep"))
    /\ UNCHANGED <<pending, sel, upcall, blocked, pollmask, pollev, timer, kicked,
                   GuestState>>

(* The ports are tested one by one, in the order of their numbers. *)
PollPort(v, p) ==
    LET later == {q \in polled[v] : q > p}
    IN  /\ ag[v].pc = "poll_port"
        /\ p \in polled[v] /\ p > ag[v].p
        /\ \A q \in polled[v] : q > ag[v].p => p <= q
        /\ Become(v, IF p \in pending THEN At("poll_out")
                     ELSE IF later = {} THEN At("poll_sleep")
                     ELSE [ag[v] EXCEPT !.p = p])
        /\ UNCHANGED <<pending, sel, upcall, blocked, pollmask, pollev, timer, kicked,
                       GuestState>>

(* A port number that cannot be read from the guest, or is out of range. *)
PollFault(v) ==
    /\ ag[v].pc = "poll_port"
    /\ Become(v, At("poll_out"))
    /\ UNCHANGED <<pending, sel, upcall, blocked, pollmask, pollev, timer, kicked, GuestState>>

(* A single port is recorded, and the timeout armed. *)
PollSleep(v) ==
    /\ ag[v].pc = "poll_sleep"
    /\ pollev' = IF Cardinality(polled[v]) = 1
                 THEN [pollev EXCEPT ![v] = CHOOSE p \in polled[v] : TRUE] ELSE pollev
    /\ timer' \in {timer} \cup {timer \cup {v} : c \in Calls \cap {"timeout"}}
    /\ Goto(v, "xen")
    /\ UNCHANGED <<pending, sel, upcall, blocked, pollmask, kicked, GuestState>>

PollOut(v) ==
    /\ \/ /\ ag[v].pc = "poll_out"
          /\ pollev' = [pollev EXCEPT ![v] = 0]
          /\ Goto(v, "poll_out_mask")
          /\ UNCHANGED <<pollmask, blocked>>
       \/ /\ ag[v].pc = "poll_out_mask"
          /\ pollmask' = pollmask \ {v}
          /\ Goto(v, "poll_out_block")
          /\ UNCHANGED <<pollev, blocked>>
       \/ /\ ag[v].pc = "poll_out_block"
          /\ blocked' = blocked \ {v}
          /\ Goto(v, "xen")
          /\ UNCHANGED <<pollev, pollmask>>
    /\ UNCHANGED <<pending, sel, upcall, timer, kicked, GuestState>>

-----------------------------------------------------------------------------
(* Masks and bindings. *)

Mask(v, p) ==
    /\ "mask" \in Calls /\ ag[v].pc = "guest" /\ p \notin mask
    /\ mask' = mask \cup {p}
    /\ UNCHANGED <<pending, sel, upcall, blocked, pollmask, pollev, timer, kicked, ag,
                   notify, upmask, scan, polled>>

(* EVTCHNOP_unmask: evtchn_unmask(), for any port.  A port that was not       *)
(* masked, or is not pending, needs no more.                                  *)
Unmask(v, p) ==
    /\ "unmask" \in Calls /\ ag[v].pc = "guest" /\ p \in mask
    /\ mask' = mask \ {p}
    /\ Become(v, [At("unmask_pending") EXCEPT !.p = p, !.v = notify[p]])
    /\ UNCHANGED <<pending, sel, upcall, blocked, pollmask, pollev, timer, kicked,
                   notify, upmask, scan, polled>>

(* Deviation: an event that came while the port was masked is not looked for. *)
UnmaskUnchecked(v) ==
    /\ ag[v].pc = "unmask_pending"
    /\ Done(v)
    /\ UNCHANGED <<pending, sel, upcall, blocked, pollmask, pollev, timer, kicked, GuestState>>

UnmaskPending(v) ==
    /\ ag[v].pc = "unmask_pending"
    /\ IF ag[v].p \in pending THEN Goto(v, "sel") ELSE Done(v)
    /\ UNCHANGED <<pending, sel, upcall, blocked, pollmask, pollev, timer, kicked, GuestState>>

(* Mini-OS unmask_evtchn(), on the vcpu the port is bound to: the same in the *)
(* guest, which then calls the callback itself.                               *)
GuestUnmask(v, p) ==
    /\ "local_unmask" \in Calls /\ ag[v].pc = "guest" /\ p \in mask /\ notify[p] = v
    /\ mask' = mask \ {p}
    /\ Become(v, [At("unmask_guest") EXCEPT !.p = p])
    /\ UNCHANGED <<pending, sel, upcall, blocked, pollmask, pollev, timer, kicked,
                   notify, upmask, scan, polled>>

GuestUnmaskPending(v) ==
    /\ ag[v].pc = "unmask_guest"
    /\ IF ag[v].p \in pending THEN Goto(v, "unmask_sel") ELSE Become(v, At("guest"))
    /\ UNCHANGED <<pending, sel, upcall, blocked, pollmask, pollev, timer, kicked, GuestState>>

GuestUnmaskSel(v) ==
    LET word == WordOf[ag[v].p]
    IN  /\ ag[v].pc = "unmask_sel"
        /\ sel' = [sel EXCEPT ![v] = @ \cup {word}]
        /\ Become(v, At(IF word \in sel[v] THEN "guest" ELSE "unmask_up"))
        /\ UNCHANGED <<pending, upcall, blocked, pollmask, pollev, timer, kicked, GuestState>>

GuestUnmaskUp(v) ==
    /\ ag[v].pc = "unmask_up"
    /\ upcall' = upcall \cup {v}
    /\ Goto(v, IF v \in upmask THEN "guest" ELSE "cb_clear")
    /\ upmask' = upmask \cup {v}
    /\ UNCHANGED <<pending, sel, blocked, pollmask, pollev, timer, kicked,
                   mask, notify, scan, polled>>

(* evtchn_bind_vcpu(), under the event lock that evtchn_unmask() holds too. *)
BindVcpu(v, p, t) ==
    /\ "bind" \in Calls /\ ag[v].pc = "guest"
    /\ t \in Targets[p] /\ t # notify[p]
    /\ \A u \in Vcpus : ag[u].pc \notin SendPCs
    /\ notify' = [notify EXCEPT ![p] = t]
    /\ Goto(v, "xen")
    /\ UNCHANGED <<pending, sel, upcall, blocked, pollmask, pollev, timer, kicked,
                   mask, upmask, scan, polled>>

(* Mini-OS turns event delivery off (__cli), and on again (__sti) with a look *)
(* at what has become pending meanwhile: it enters Xen to have it delivered.  *)
DisableEvents(v) ==
    /\ "disable" \in Calls /\ ag[v].pc = "guest" /\ v \notin upmask
    /\ upmask' = upmask \cup {v}
    /\ UNCHANGED <<pending, sel, upcall, blocked, pollmask, pollev, timer, kicked, ag,
                   mask, notify, scan, polled>>

EnableEvents(v) ==
    /\ ag[v].pc = "guest" /\ v \in upmask
    /\ upmask' = upmask \ {v}
    /\ Goto(v, "sti")
    /\ UNCHANGED <<pending, sel, upcall, blocked, pollmask, pollev, timer, kicked,
                   mask, notify, scan, polled>>

EnableCheck(v) ==
    /\ ag[v].pc = "sti"
    /\ Goto(v, IF v \in upcall THEN "xen" ELSE "guest")
    /\ UNCHANGED <<pending, sel, upcall, blocked, pollmask, pollev, timer, kicked, GuestState>>

-----------------------------------------------------------------------------
(* do_hypervisor_callback(), with upcalls masked. *)
CbClear(v) ==
    /\ ag[v].pc = "cb_clear"
    /\ upcall' = upcall \ {v}
    /\ Goto(v, "cb_sel")
    /\ UNCHANGED <<pending, sel, blocked, pollmask, pollev, timer, kicked, GuestState>>

CbSel(v) ==
    /\ ag[v].pc = "cb_sel"
    /\ scan' = [scan EXCEPT ![v] = sel[v]]
    /\ sel' = [sel EXCEPT ![v] = {}]
    /\ Goto(v, "cb_scan")
    /\ UNCHANGED <<pending, upcall, blocked, pollmask, pollev, timer, kicked,
                   mask, notify, upmask, polled>>

Active(w) == {p \in pending \ mask : WordOf[p] = w}

(* The lowest active port of the word, or the word is done. *)
CbScan(v, w) ==
    /\ ag[v].pc = "cb_scan" /\ w \in scan[v]
    /\ \A u \in scan[v] : w <= u
    /\ \/ /\ Active(w) = {}
          /\ scan' = [scan EXCEPT ![v] = @ \ {w}]
          /\ UNCHANGED ag
       \/ \E p \in Active(w) :
             /\ \A q \in Active(w) : p <= q
             /\ Become(v, [At("cb_event") EXCEPT !.p = p])
             /\ UNCHANGED scan
    /\ UNCHANGED <<pending, sel, upcall, blocked, pollmask, pollev, timer, kicked,
                   mask, notify, upmask, polled>>

(* do_event(): the pending bit is cleared, then the handler called. *)
CbEvent(v) ==
    /\ ag[v].pc = "cb_event"
    /\ pending' = pending \ {ag[v].p}
    /\ Become(v, At("cb_scan"))
    /\ UNCHANGED <<sel, upcall, blocked, pollmask, pollev, timer, kicked, GuestState>>

(* Deviation: the selector is cleared at the end, not when it is read. *)
CbReturnClears(v) ==
    /\ ag[v].pc = "cb_scan" /\ scan[v] = {}
    /\ upmask' = upmask \ {v}
    /\ sel' = [sel EXCEPT ![v] = {}]
    /\ Goto(v, "xen")
    /\ UNCHANGED <<pending, upcall, blocked, pollmask, pollev, timer, kicked,
                   mask, notify, scan, polled>>

CbReturn(v) ==
    /\ ag[v].pc = "cb_scan" /\ scan[v] = {}
    /\ upmask' = upmask \ {v}
    /\ Goto(v, "xen")
    /\ UNCHANGED <<pending, sel, upcall, blocked, pollmask, pollev, timer, kicked,
                   mask, notify, scan, polled>>

-----------------------------------------------------------------------------
(* The steps of evtchn_set_pending and its callees, once begun. *)
SendStep(a) ==
    \/ SetPending(a) \/ TestMask(a) \/ SetSel(a) \/ MarkPending(a) \/ SaveRunning(a)
    \/ Kick(a) \/ Unblock(a) \/ UnblockReadPoll(a) \/ UnblockClearPoll(a)
    \/ UnblockClearMask(a) \/ UnblockAgain(a) \/ Wake(a)
    \/ NextPoller(a) \/ MatchPoller(a) \/ ClaimPoller(a) \/ UnblockPoller(a)
    \/ TimerClaims(a)

(* What a vcpu does without a decision of the guest. *)
VcpuStep(v) ==
    \/ Deschedule(v) \/ EnterGuest(v) \/ TakeKick(v) \/ Resume(v)
    \/ BlockSet(v) \/ BlockCheck(v)
    \/ PollSetEvtchn(v) \/ PollSetMask(v) \/ PollCheck(v)
    \/ (\E p \in Ports : PollPort(v, p)) \/ PollFault(v) \/ PollSleep(v) \/ PollOut(v)
    \/ EnableCheck(v)
    \/ UnmaskPending(v) \/ GuestUnmaskPending(v) \/ GuestUnmaskSel(v) \/ GuestUnmaskUp(v)
    \/ CbClear(v) \/ CbSel(v) \/ (\E w \in Words : CbScan(v, w)) \/ CbEvent(v) \/ CbReturn(v)

GuestChoice(v) ==
    \/ Preempt(v) \/ Block(v) \/ (\E P \in SUBSET Ports \ {{}} : Poll(v, P))
    \/ DisableEvents(v) \/ EnableEvents(v)
    \/ \E p \in Ports : \/ Mask(v, p) \/ Unmask(v, p) \/ GuestUnmask(v, p)
                        \/ \E t \in Vcpus : BindVcpu(v, p, t)

SenderStarts(s) == (\E p \in Ports : SendStart(s, p)) \/ (\E v \in Vcpus : TimerFires(s, v))

Next ==
    /\ \/ \E a \in {b \in Agents : ag[b].pc \in SendPCs} : SendStep(a)
       \/ \E s \in Senders : SenderStarts(s)
       \/ \E v \in {u \in Vcpus : ag[u].pc \notin SendPCs \ {"unmask_pending"}} : VcpuStep(v)
       \/ \E v \in {u \in Vcpus : ag[u].pc = "guest"} : GuestChoice(v)
    /\ UNCHANGED dom

AllPorts == UNION {d.ports : d \in Domains}
AllVcpus == UNION {d.vcpus : d \in Domains}
AllSenders == UNION {d.senders : d \in Domains}

(* Senders run to completion and vcpus that can run do; the guest need do     *)
(* nothing, and cannot keep an interrupt out by being busy.                   *)
Fairness ==
    /\ \A a \in AllSenders \cup AllVcpus : WF_vars(a \in Agents /\ SendStep(a) /\ UNCHANGED dom)
    /\ \A v \in AllVcpus : /\ WF_vars(v \in Vcpus /\ VcpuStep(v) /\ UNCHANGED dom)
                          /\ SF_vars(v \in Vcpus /\ TakeKick(v) /\ UNCHANGED dom)

Spec == Init /\ [][Next]_vars
FairSpec == Spec /\ Fairness

-----------------------------------------------------------------------------
(* Properties. *)

(* An agent that has yet to look at, or to announce, what it found in port p. *)
InFlight(p) ==
    \E a \in Agents : /\ ag[a].p = p
                      /\ ag[a].pc \in {"mask", "sel", "unmask_pending",
                                       "unmask_guest", "unmask_sel"}

(* vcpu v has an upcall pending, is about to get it, or is about to read its  *)
(* selector in the callback.                                                  *)
Announced(v) ==
    \/ v \in upcall
    \/ \E a \in Agents : ag[a].v = v /\ ag[a].pc = "mark"
    \/ ag[v].pc \in {"unmask_up", "cb_sel"}

(* No event is lost: an unmasked pending port always has someone on the way   *)
(* to it, whatever the interleaving of sender, unmasker, rebind and the       *)
(* guest's scan ("must happen in strict order", says evtchn_set_pending).     *)
NoLostEvent ==
    \A p \in pending \ mask :
       \/ InFlight(p)
       \/ \E v \in Vcpus : WordOf[p] \in sel[v] /\ Announced(v)
       \/ \E v \in Vcpus : WordOf[p] \in scan[v]

(* Someone is going to clear _VPF_blocked of v (again) and to wake it. *)
Waking(v) ==
    \E a \in Agents :
       /\ ag[a].v = v
       /\ \/ ag[a].pc \in {"running", "unblock", "reblock", "claimed"}
          \/ ag[a].pc \in {"pollev", "pollev_clear", "pollmask_clear", "wake"} /\ v \notin blocked

(* No wakeup is lost: a vcpu never sleeps on an upcall it would take, nor     *)
(* with its blocked flag clear, unless its waker is under way ("Check for     *)
(* events /after/ blocking", do_block; "check ... /after/ update of pending   *)
(* flag", vcpu_kick).                                                         *)
NoLostWakeup ==
    \A v \in Vcpus :
       ag[v].pc = "asleep" /\ (v \in upcall \ upmask \/ v \notin blocked) => Waking(v)

(* A vcpu asleep in SCHEDOP_poll is woken when one of its ports is pending,   *)
(* with no help from a timeout.                                               *)
PollerWoken ==
    \A v \in AllVcpus :
       (v \in Vcpus /\ ag[v].pc = "asleep" /\ polled[v] \cap pending # {}) ~> (ag[v].pc # "asleep")

(* A vcpu asleep with an upcall it would take is woken. *)
BlockedWoken ==
    \A v \in AllVcpus :
       (v \in Vcpus /\ ag[v].pc = "asleep" /\ v \in upcall \ upmask) ~> (ag[v].pc # "asleep")

SendersIdle == \A s \in Senders : ag[s].pc = "idle"

(* Once the senders fall silent, no event stays pending and unmasked for      *)
(* ever: the guest's handler is called for it.  (While they keep sending, the *)
(* inner loop of do_hypervisor_callback may serve the lowest port for ever.)  *)
EventHandled ==
    (<>[]SendersIdle) => \A p \in AllPorts : []<>(p \notin pending \ mask)
=============================================================================
