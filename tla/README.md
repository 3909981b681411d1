# A TLA+ model of parts of Xen 4.2.2

This directory holds TLA+ specifications of the parts of the Xen hypervisor
where concurrency is hardest to get right, TLC configurations that check them
on small instances, and TLAPS proofs about event channels and RCU for every
size. The core is the event-channel subsystem: the port tables and their
locking, physical interrupts as event channels, and the lock-free delivery of
events to vcpus. Beside it stand two mechanisms that run code later, RCU and
tasklets; libvchan, which uses event channels and shared memory to build a byte
stream; and range sets, a small library modelled with its arithmetic.

`PROJECT.json` lists components, runs, the source lines behind each
definition, findings, hazards and theorems.

## The system and its parts

Xen runs domains; a domain has vcpus that run on physical CPUs. Domains are
told of things through *event channels*: ports of a per-domain table, each with
a pending and a mask bit in a page shared with the guest.

| Part | Source | State | Operations | Module |
|---|---|---|---|---|
| Port table | `xen/common/event_channel.c` | `struct evtchn` buckets, `event_lock`, `virq_to_evtchn`, `is_dying` | allocate, bind (interdomain, VIRQ, IPI, Xen), send, close, reset, rebind, destroy | `EventChannel` |
| Physical interrupts | `event_channel.c`, `xen/arch/x86/irq.c`, `hvm/irq.c`, `physdev.c` | `struct pirq` tree, per-vcpu lists, `action->guest[]`, `desc->lock` | bind, close, rebind, map, unmap, interrupt | `EventPirq` |
| Delivery | `event_channel.c`, `xen/common/schedule.c`, `xen/arch/x86/domain.c` | pending, mask, selector and upcall bits, `_VPF_blocked`, `poll_mask`, `poll_evtchn` | set pending, unmask, kick, unblock, block, poll, poll timer | `EventDelivery` |
| Guest side | `extras/mini-os/hypervisor.c`, `events.c` | the same bits | upcall, mask, unmask | `EventDelivery` |
| Range sets | `xen/common/rangeset.c` | ordered list of ranges | add, remove, contains, overlaps, report | `Rangeset` |
| RCU | `xen/common/rcupdate.c`, with `softirq.c`, `cpu.c`, `stop_machine.c` | `rcu_ctrlblk`, `struct rcu_data` of each CPU | read, `call_rcu`, the softirq handler, CPUs up and down, `rcu_barrier` | `Rcu`, `GracePeriod` |
| Tasklets | `xen/common/tasklet.c`, with `softirq.c`, `schedule.c`, `cpu.c` | `struct tasklet`, per-CPU lists, `tasklet_work_to_do`, `softirq_pending` | schedule, run, kill, initialise, migrate | `Tasklet` |
| libvchan | `tools/libvchan/io.c`, `init.c` | two rings, live and notify bytes, an event channel | send, write, recv, read, wait, close, connect | `Vchan`, `ByteStream` |
| Grant tables | `xen/common/grant_table.c` | active entries, pins, maptrack | map, unmap, transfer, copy | not modelled |
| Scheduler core | `xen/common/schedule.c`, `cpupool.c` | run states, affinity, locks per CPU | sleep, wake, migrate | block, poll, wake only |
| Domain lifecycle | `xen/common/domain.c`, `domctl.c` | references, `is_dying`, pause counts | create, kill, destroy | event part only |
| Timers, wait queues | `xen/common/timer.c`, `wait.c` | per-CPU heaps, lists | set, stop, kill, migrate; wait, wake | not modelled |
| xenstored | `tools/xenstore` | tree, transactions, watches | read, write, transactions | not modelled |
| Memory management, HVM, IOMMU, tmem, XSM, drivers, toolstack | see `PROJECT.json` | | | not modelled |

How they meet: `evtchn_send` and the interrupt handlers end in
`evtchn_set_pending`, which sets bits and wakes a vcpu through the scheduler;
`domain_kill` sets `is_dying` and calls `evtchn_destroy`; PIRQ ports tie the
port table to `irq.c`; libvchan's notifications are `evtchn_send`s. Structures
that others may still look at are freed through `call_rcu`; hypercalls that
must go on elsewhere, CPU hotplug among them, run in tasklets. `EventChannel`
and `EventPirq` abstract delivery to the pending bit, and `EventDelivery`
abstracts the port table to the vcpu a port notifies.

What is hard here: the two-lock protocol of `__evtchn_close`, which drops a
lock and must find out what happened meanwhile; a sender that follows a pointer
into another domain under its own lock only; flags tested without the lock that
protects the work (`is_dying`, `virq_to_evtchn`) with a `spin_barrier` as the
only fence; bit protocols between hypervisor and guest without any lock; the
races of wakeup, poll and timeout; batch numbers that are read outside the lock
that orders them, while CPUs come and go; work that must be noticed by a
scheduler which looks at bits others are changing; an end of a ring that
sleeps, or dies, at any point.

## Modules

**EventChannel.** A CPU runs one operation at a time; `cpu[c]` holds its program
counter and locals. An operation is one step where a lock protects all it
touches, and is cut where it waits for or drops a lock, passes a barrier, or
uses state read without the lock. `lock[d]` is `d->event_lock`, `vlock[d][v]`
the vcpu's `virq_lock`, `chn[d][p]` the `struct evtchn`, `nvalid[d]` says how
many ports have a bucket. Domains are numbers because the code orders locks by
address. `GuestCalls` reflects that `domain_kill` pauses the domain, and waits
for its vcpus to leave Xen, before it sets `is_dying`; toolstack operations and
interrupts are not held back. An operation that fails before its first write
is a stuttering step. `refreed` is a history variable.

**EventPirq.** One domain, PV or HVM, of one of the sizes in `Domains`. `tree`
and `info` are the radix tree of `struct pirq`; `info[i].irq` is 1 for a mapped irq, -1 for one unmapped under a
bound port (the code negates the number). The interrupt handler holds
`desc->lock`, the emulated sender holds nothing.

**EventDelivery.** One PV domain; every atomic bit operation and every plain
access is a step. Senders (other CPUs, timers) and vcpus share the code of
`evtchn_set_pending` and `vcpu_kick` as "agents". `dom`, chosen at the start
from `Domains`, says which ports and vcpus the domain has, who sends to it and
what its guest ever does (`Calls`). The guest is Mini-OS. The x86 bit operations
are barriers, so interleaving steps is the memory model.

**Rangeset** and **NumberSet.** The list with its pointer walks as positions,
numbers modulo `2^Width`, allocation that may fail. `NumberSet` is what users
of the list rely on; `Rangeset` refines it. `call` is history: the last call, or
`Spoilt` once a removal has wrapped (see Findings), which stays until the set is
destroyed. The model goes on from there as the code does, but only `Ascending`
speaks of such lists.

**Rcu** and **GracePeriod.** `pc[c]` is where a CPU is in
`__rcu_process_callbacks`, `rcu_start_batch`, `rcu_do_batch` or
`rcu_offline_cpu`. Each access to `rcu_ctrlblk` is a step, since its fields are
read without the lock; a CPU's own lists change with it. A reader may be an
interrupt that comes in the middle of the handler, which then waits. Hotplug
follows `cpu_up` and `cpu_down`: `UpPrepare`, `Online` or `UpFails`, `Down` (in
`stop_machine_run`, so with every CPU out of its handler), then the notifier,
on any CPU, moves the dead CPU's lists. `rcu_barrier` runs on all CPUs with
softirqs processed in its loop. `due`, `waits` and `before` are history: which
callbacks are to run, which sections they wait for, what a barrier waits for.
`GracePeriod` says the same without batches: a callback runs when the sections
that were open at its call are over. Batch numbers do not wrap, which would take
2^63 grace periods.

**Tasklet.** A section under `tasklet_lock` is a step, and so is every access
outside it: the first look of `do_tasklet`, the read of `tasklet_work_to_do` in
`schedule` and the later change of one bit. The policy of the scheduler is a
free choice, except that it takes the idle vcpu when told of tasklet work, as
all policies do. A CPU goes down from a tasklet's function on the boot CPU;
`StopMachine`, `PlayDead` and `CpuDead` are the points where others can see it.
Left out: the tasklets of `stop_machine_run` itself and their trace in the work
bits, halting of an idle CPU, and functions that kill each other.

**Vchan** and **ByteStream.** Every access to memory that the other end writes
is a step, in the order the barriers give. `prod`, `cons` and `buf` are the two
rings, with indices modulo `Modulus` (2^32 in the code) and the byte at index
`i` numbered `i`; `live` and `notify` are the bytes beside them; `event[e]` is
the pending bit of end `e`'s port. An end may close, or crash anywhere, and a
client may come again. The kernel's promise to clear the live flag and send the
event when an end dies is modelled from how `init.c` asks for it. `ByteStream`
is what the ends see: a bounded queue in each direction.

**EventChannelInv**, **EventChannelBindProofs**, **EventChannelProofs** and
**RcuBatchProofs**, **RcuHandlerProofs**, **RcuHotplugProofs**, **RcuProofs**
hold the inductive invariants and the proofs. The `MC...` modules instantiate
for TLC. A definition marked "Deviation" in a module is the definition below it
with one slip (a dropped guard, a missing reset); nothing uses it, it is there
to show which property notices.

Permission checks of XSM are taken as granted. A poll of no ports at all is
left out. `evtchn_destroy` ends with `clear_global_virq_handlers`, which is not
modelled.

## Runs

| Run | Instance | Shows |
|---|---|---|
| `event_channel` | 2 domains (tables of 2 and 3 ports in buckets of 2), 2 CPUs, one domain with Xen channels | symmetric channels, clean free ports, stable send targets, Xen ports kept and never pending, nothing left of a destroyed domain, the claim in `__evtchn_close` about rebound ports, no lock cycle, no port handed out twice, no allocation after the barrier; also the invariant of the proofs |
| `event_channel_virq` | 1 domain, 2 vcpus, a per-vcpu and a global VIRQ, 2 CPUs | the VIRQ map and the ports agree; the barrier keeps free ports clean |
| `event_pirq` | a PV or an HVM domain with 2 ports, 2 pirqs and 2 CPUs, or a PV domain with 3 ports, 3 pirqs and 1 CPU; 2 vcpus if PV | lists, tree and ports agree; interrupts find a port; free ports stay quiet; bindings are kept |
| `event_delivery` | a domain with 2 vcpus and 1 sender: 2 ports in one word, one of them movable, masked and unmasked by the guest; or 2 ports on different vcpus, unmasked by Xen; or 1 port and all of this. Or a domain with 1 port, 1 vcpu and 2 senders or timers, that blocks, polls with and without timeout, disables events and is preempted | no event lost, no wakeup lost |
| `event_delivery_live` | 2 ports, 1 vcpu, 1 sender | pollers and blocked vcpus wake, events are handled |
| `rangeset` | 3-bit numbers, all calls | canonical list, exact queries, sound reports, refinement of `NumberSet` |
| `rcu` | 2 CPUs, one that comes and goes, a reader, one callback, limits of 1, barriers | the invariant of the proofs, barriers flush, refinement of `GracePeriod`, every callback is invoked |
| `vchan` | rings of 2 bytes, indices modulo 4; a client that sends 2 bytes without waiting or writes 3 with waiting, a server that receives 2 with or reads 1 without; crashes and reconnections; persistent server or not | what is copied is the front of the stream, no wakeup lost, refinement of `ByteStream`, no end sleeps for ever |
| `tasklet` | 2 CPUs, one of which may go down, 2 vcpu tasklets and a softirq one, 4 calls | queues are exact, work is announced, killed tasklets are quiet, scheduled ones run |
| `event_pirq_cleanup`, `rangeset_remove`, `rangeset_order` | as above | disagreements with comments, see Findings |

Why these bounds are enough to be interesting: two CPUs give every pair of
concurrent operations, and every race the code comments on is between two. Two
domains give both lock orders and loopback, and with `{1, 2}` closing from
either side takes both branches. Tables of 2 and 3 ports give full tables,
growth by a bucket and a last bucket that is cut. Three pirqs make lists with a
middle element. The second sender of the sleeping domain in
`event_delivery` is the poll timer or a second event. In `rcu` one CPU that comes and goes meets a grace period at each of its
stages, up to three batches follow each other, and with a limit of 1 the
barrier's callbacks are left over for a next round; the proofs cover more CPUs
and batches. In `vchan` the write is larger than the ring, so
transfers cross its end and the wrap of the indices, and the ring is full and
empty with a call on either side. Traffic goes one way in the run: the module
has both, but with both at once the instance is too large. In `tasklet` two
tasklets may share a list, the third is of the other kind, and 4 calls suffice
to schedule, run, schedule again and kill. For event channels, a third CPU,
which would let a port be closed and bound to a third domain during one close,
is beyond a short run; the proofs cover it.

Symmetry: CPUs, pirqs and senders are interchangeable; domains and vcpus are not (their
order matters). No symmetry is used for liveness.

Bound on range sets: eight numbers make lists of up to four ranges. Once a
removal has wrapped, ranges overlap and lists may grow for ever; `MaxRanges`
stops following such lists at three ranges. It does not touch any list before.

Fairness (`event_delivery_live`): weak fairness on the steps of a sender and of
a vcpu that is in Xen or in its callback, since code on a CPU runs on and a
runnable vcpu is scheduled; strong fairness on taking a kick, since a guest
that enters and leaves Xen cannot keep the softirq out. The guest's own choices
have no fairness. `EventHandled` assumes that senders fall silent: the inner
loop of `do_hypervisor_callback` may serve a busy low port for ever.

In `rcu`: sections end, and a CPU comes out of its interrupts often enough to
get on with what they interrupt (strong fairness on `Step`, since an interrupt
disables it); a CPU on its way up arrives. In `vchan`: a call goes on unless it
waits for an event; nobody needs to make another call. In `tasklet`: CPUs run
on, and hotplug and kills do once they may; a tasklet scheduled again before it
ran moves to the tail of a list each time, so `ScheduledRuns` rests on the bound
on calls.

## Findings

* `pirq_cleanup_check` (macro, `irq.h:145`) tests `evtchn` the wrong way round: a
  bound `struct pirq` can be deleted and an unbound one never is. This is why
  `EventPirq`'s properties about the tree are checked for PV domains: there a
  bound port always has an irq, and the macro does no harm.
* `rangeset_remove_range` can add numbers to the set (`rangeset.c:209`): a
  removal that starts in the gap behind a range stretches that range over the
  gap (`rangeset_remove`).
* `rangeset_remove_range` wraps when it removes up to the largest number and a
  range starts above `s` (`rangeset.c:220`): the last range is stretched to start at 0 instead of destroyed, and the list is no
  longer "in ascending order" (`rangeset.c:15`, `rangeset_order`).
  `XEN_DOMCTL_iomem_permission` admits such a range. `Canonical`,
  `QueriesExact` and `ReportSound` are stated up to that point.

Remarks, met while modelling and not among the runs:

* After a race in `do_poll` a vcpu runs with `poll_evtchn` 0 and its `poll_mask`
  bit set, contrary to the comment in `sched.h:149`; harmless but for a needless
  unblock.
* `rangeset_report_ranges` reports nothing when asked from below the first range
  (`rangeset.c:271`). Nothing in the repository says what it should report then,
  so `ReportSound` leaves that case open.
* `libxenvchan_read` and `libxenvchan_recv` look for data and then whether the
  other end is there. When that end writes and closes in between, the call
  returns -1 with data in the ring; the next call returns it.
* `libxenvchan_write` adds the -1 of a failed notification to its position
  (`io.c:233`); notifications do not fail in the model.

## Proofs

**Event channels**, in `EventChannelProofs`, from `ConstantsAssumption` alone
(any set of domains, CPUs, vcpus and VIRQs, any table size and bucket size):

* `Invariance`: `Spec => []IInv`
* `TypeCorrect`: `Spec => []TypeOK`
* `PeersSymmetric`: `Spec => []PeerSymmetry`, so the `BUG_ON`s of
  `__evtchn_close` never fire
* `TargetStable`: `Spec => []SendTargetStable`

Symmetry of channels is not inductive: a CPU acts on what it read before it
waited. `IInv` adds, per CPU: `WorkOK` (which locals are set where), the locks
it holds (`Holds`), what it knows of its port while it holds them (`Knows`: a
port being allocated is free, a channel being closed still leads to `d2`, a
sender's channel is the one it read), how far a teardown has come (`TornDown`),
and that after its barrier nobody else allocates or tears down in the dying
domain (`Alone`). Over the tables: `Peers` and `NoBucket`. The argument is in
the lemma `Advance` (`EventChannelInv`): a step that respects what other CPUs
have locked (`Frame`) and gives a dying domain nothing new (`Waning`) preserves
all of it, provided the CPU that moves is right about its own port; `Quiet` is
the special case of steps that leave the tables alone. One lemma per action
discharges this: steps that only read or wait in `EventChannelInv`, allocations
and binds in `EventChannelBindProofs`, closes in `EventChannelProofs`. Teardown
needs care because `evtchn_destroy` clears `xen_consumer` without the lock:
`SameBindingInv` shows that no binding depends on it.

**RCU**, in `RcuProofs`, from `RcuConstants` alone (any finite set of CPUs, any
readers, callbacks and limits, any number of batches and of CPUs that come and
go):

* `RcuInvariance`: `Spec => []RcuInv`
* `GraceKept`: `Spec => []GraceRespected`: what may be invoked waits for no
  section that was open at its `call_rcu`
* `BarrierKept`: `Spec => []BarrierFlushes`
* `GraceRefinement`: `Spec => IsGracePeriod`, so the batches implement
  `GracePeriod`

That no callback on a `donelist` waits for a section is not inductive. `RcuInv`
adds where the section is held up: while a callback on a `curlist` waits for a
section, its batch has not completed, and once that batch runs, the CPU of the
section is among those waited for (`SectionHoldsBatch`). A batch is numbered
above `cur`, so it starts after the callback was queued, and its set of CPUs is
copied from the online ones, of which every reader is one (`Owners`). A CPU
leaves that set only from its softirq handler, outside its sections, or when it
is dead; lists that move from a dead CPU start again as new callbacks. For the
barrier, `QueuesExact` (each callback due is on one list, once) makes
`cpu_count` the number of CPUs whose callback has run, and `BarrierExact` keeps
what was queued before ahead of it; with all counted nothing is left. The start
and end of batches are in `RcuBatchProofs`, the lists in `RcuHandlerProofs`,
readers and hotplug in `RcuHotplugProofs`, the barrier in `RcuProofs`.

Only model-checked: the other safety properties of `EventChannel`, all of
`EventPirq`, `EventDelivery`, `Rangeset`, `Vchan` and `Tasklet`, and all
liveness (fairness and `ENABLED` are out of the prover's reach, as is induction
over the list of a range set).

## Not modelled

* Of the modelled parts: the two reads of `xen_consumer` in `evtchn_send`, the
  global VIRQ handlers, `stop_machine_run`'s own state machine, the set-up of a
  vchan through xenstore and grants, wrapping batch numbers.
* Grant tables, the page allocator and x86 memory management: one web of page
  references and types, of which a part alone would be mostly assumptions.
* Timers (`migrate_timer` against a timer that fires or is killed), wait queues,
  `vcpu_migrate` (which drops its locks and must choose again), cpupools, domain
  references and pause counts, xenstored transactions: state machines within
  reach of the method, each a module of its own.
* The scheduling policies, tmem's eviction, libxl's and libxc's tools: numeric
  heuristics, or sequences of calls to what is modelled.
* Drivers, firmware, emulators, XSM's policy, boot code: device I/O, generated
  or table-driven code, with no state shared with the parts above beyond what
  these already abstract.
