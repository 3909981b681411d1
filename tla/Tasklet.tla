------------------------------- MODULE Tasklet -------------------------------
(***************************************************************************)
(* Tasklets: functions that run later, in the idle vcpu of a CPU or in its *)
(* softirqs (xen/common/tasklet.c), with what makes them run: the idle     *)
(* loop, do_softirq() and the tasklet part of schedule(), and with CPUs    *)
(* that go down and come up.                                               *)
(*                                                                         *)
(* A step is a section under tasklet_lock, or an access outside it to what *)
(* other CPUs write.  The scheduling policy is a free choice, except that  *)
(* it takes the idle vcpu when it is told of tasklet work.                 *)
(*                                                                         *)
(* A definition marked "Deviation" is the one below it with a slip that    *)
(* some property must notice; the specification does not use it.           *)
(***************************************************************************)
EXTENDS Naturals, SequencesExt

CONSTANTS
    Cpus, Boot,         \* Boot: CPU 0, where cpu_up() and cpu_down() run
    Tasklets, Softirq,  \* Softirq: the tasklets with is_softirq
    Nobody,             \* no CPU, no tasklet: -1, NULL
    MaxCalls,           \* bound: how often others schedule, kill, initialise or tick
    MaxDowns            \* bound: how often a CPU goes down

ASSUME TaskletConstants ==
    /\ Boot \in Cpus /\ Softirq \subseteq Tasklets
    /\ Nobody \notin Cpus \cup Tasklets
    /\ MaxCalls \in Nat /\ MaxDowns \in Nat

VARIABLES
    on,         \* of each tasklet: scheduled_on
    running,    \* of each tasklet: is_running
    life,       \* of each tasklet: "live", or is_dead: "killing" until tasklet_kill()
                \* returns, "killed" from then on
    q,          \* of each CPU: its lists, tasklet_work_to_do and softirq_pending
    cpu,        \* of each CPU: "online", "stopped" and "dying" on its way to "gone"
    cur,        \* of each CPU: whether it runs the idle vcpu or a guest's
    pc,         \* of each CPU: where it is
    func, soft, \* of each CPU: the tasklet it runs in the idle vcpu, in a softirq
    seen,       \* of each CPU: the tasklet_work_to_do that schedule() read
    calls, downs

task == <<on, running, life>>
exec == <<cur, pc, func, soft, seen>>
vars == <<task, q, cpu, exec, calls, downs>>

Fresh == [vcpu |-> <<>>, softirq |-> <<>>, work |-> {}, pend |-> {}]

Init ==
    /\ on = [t \in Tasklets |-> Nobody] /\ running = [t \in Tasklets |-> FALSE]
    /\ life = [t \in Tasklets |-> "live"]
    /\ q = [c \in Cpus |-> Fresh] /\ cpu = [c \in Cpus |-> "online"]
    /\ cur \in [Cpus -> {"idle", "guest"}]
    /\ pc = [c \in Cpus |-> IF cur[c] = "idle" THEN "loop" ELSE "guest"]
    /\ func = [c \in Cpus |-> Nobody] /\ soft = [c \in Cpus |-> Nobody]
    /\ seen = [c \in Cpus |-> {}]
    /\ calls = 0 /\ downs = 0

(* stop_machine_run() has every CPU in stopmachine_action(). *)
Stopped == \E c \in Cpus : cpu[c] = "stopped"
Active(c) == cpu[c] = "online" /\ ~Stopped

(* cpu_down() is at work, in a tasklet's function on the boot CPU. *)
GoingDown == \E c \in Cpus : cpu[c] \in {"stopped", "dying"}

Lists(c) == ToSet(q[c].vcpu) \cup ToSet(q[c].softirq)

-----------------------------------------------------------------------------
(* What happens to the lists Q of all CPUs. *)

Raise(Q, c, nr) == [Q EXCEPT ![c].pend = @ \cup {nr}]

tasklet_enqueue(Q, t, c) ==
    IF t \in Softirq
    THEN LET R == [Q EXCEPT ![c].softirq = Append(@, t)]
         IN  IF Q[c].softirq = <<>> THEN Raise(R, c, "TASKLET") ELSE R
    ELSE LET R == [Q EXCEPT ![c].vcpu = Append(@, t), ![c].work = @ \cup {"enqueued"}]
         IN  IF "enqueued" \notin Q[c].work THEN Raise(R, c, "SCHEDULE") ELSE R

(* list_del() *)
Without(Q, t) ==
    LET Other(u) == u # t
    IN  [c \in Cpus |-> [Q[c] EXCEPT !.vcpu = SelectSeq(@, Other),
                                     !.softirq = SelectSeq(@, Other)]]

(* The end of do_tasklet(). *)
VcpuTail(Q, c) ==
    IF Q[c].vcpu = <<>>
    THEN Raise([Q EXCEPT ![c].work = @ \ {"enqueued"}], c, "SCHEDULE") ELSE Q

(* The end of tasklet_softirq_action(). *)
SoftirqTail(Q, c) == IF Q[c].softirq # <<>> THEN Raise(Q, c, "TASKLET") ELSE Q

-----------------------------------------------------------------------------
(* Calls, from anywhere. *)

(* The tasklets that callers schedule on CPU c.  Of a CPU that is not online  *)
(* it is the CPU itself that calls, from fixup_irqs(); the tasklet that runs  *)
(* cpu_down() is a hypercall's, which is scheduled once.                      *)
MaySchedule(t, c) ==
    /\ calls < MaxCalls
    /\ Active(c) \/ cpu[c] = "stopped"
    /\ GoingDown => t # func[Boot]

(* Deviation: it does not matter whether the tasklet runs. *)
ScheduleAlways(t, c) ==
    /\ MaySchedule(t, c)
    /\ life[t] = "live"
    /\ on' = [on EXCEPT ![t] = c]
    /\ q' = tasklet_enqueue(Without(q, t), t, c)
    /\ calls' = calls + 1
    /\ UNCHANGED <<running, life, cpu, exec, downs>>

(* tasklet_schedule() too, on the CPU of the caller. *)
tasklet_schedule_on_cpu(t, c) ==
    /\ MaySchedule(t, c)
    /\ life[t] = "live"
    /\ on' = [on EXCEPT ![t] = c]
    /\ q' = IF running[t] THEN q ELSE tasklet_enqueue(Without(q, t), t, c)
    /\ calls' = calls + 1
    /\ UNCHANGED <<running, life, cpu, exec, downs>>

tasklet_kill(t) ==
    /\ calls < MaxCalls /\ ~Stopped /\ life[t] = "live"
    /\ q' = Without(q, t)
    /\ on' = [on EXCEPT ![t] = Nobody]
    /\ life' = [life EXCEPT ![t] = "killing"]
    /\ calls' = calls + 1
    /\ UNCHANGED <<running, cpu, exec, downs>>

(* Deviation: tasklet_kill() does not wait. *)
KillNow(t) ==
    /\ life[t] = "killing" /\ ~Stopped
    /\ life' = [life EXCEPT ![t] = "killed"]
    /\ UNCHANGED <<on, running, q, cpu, exec, calls, downs>>

(* The loop of tasklet_kill() ends. *)
KillReturns(t) ==
    /\ life[t] = "killing" /\ ~running[t] /\ ~Stopped
    /\ life' = [life EXCEPT ![t] = "killed"]
    /\ UNCHANGED <<on, running, q, cpu, exec, calls, downs>>

(* tasklet_init() of a tasklet that was killed, as before each hypercall that *)
(* goes on elsewhere.                                                         *)
tasklet_init(t) ==
    /\ calls < MaxCalls /\ life[t] = "killed" /\ ~Stopped
    /\ life' = [life EXCEPT ![t] = "live"]
    /\ calls' = calls + 1
    /\ UNCHANGED <<on, running, q, cpu, exec, downs>>

(* The scheduler's timer and vcpus that wake up raise SCHEDULE_SOFTIRQ too. *)
Tick(c) ==
    /\ calls < MaxCalls /\ Active(c) /\ q' = Raise(q, c, "SCHEDULE")
    /\ calls' = calls + 1
    /\ UNCHANGED <<task, cpu, exec, downs>>

-----------------------------------------------------------------------------
(* A CPU at work. *)

(* do_tasklet_work() up to the call of the function, of the first of a list. *)
Begin(t) ==
    /\ on' = [on EXCEPT ![t] = Nobody]
    /\ running' = [running EXCEPT ![t] = TRUE]

(* The lists that do_tasklet_work() leaves when the function of t returns. *)
Requeued(t) == IF on[t] # Nobody THEN tasklet_enqueue(q, t, on[t]) ELSE q

(* Deviation: the bit that the scheduler sets is taken for the other one. *)
LoopScheduled(c) ==
    /\ pc[c] = "loop"
    /\ pc' = [pc EXCEPT ![c] = IF q[c].work = {"scheduled"} THEN "enter" ELSE "softirq"]
    /\ UNCHANGED <<task, q, cur, func, soft, seen>>

(* idle_loop() calls do_tasklet(), whose first look takes no lock. *)
Loop(c) ==
    /\ pc[c] = "loop"
    /\ pc' = [pc EXCEPT ![c] =
                 IF q[c].work = {"enqueued", "scheduled"} THEN "enter" ELSE "softirq"]
    /\ UNCHANGED <<task, q, cur, func, soft, seen>>

(* do_tasklet() takes the lock. *)
Enter(c) ==
    /\ pc[c] = "enter"
    /\ \/ /\ q[c].vcpu = <<>>
          /\ q' = VcpuTail(q, c)
          /\ pc' = [pc EXCEPT ![c] = "softirq"]
          /\ UNCHANGED <<task, func>>
       \/ /\ q[c].vcpu # <<>>
          /\ Begin(Head(q[c].vcpu))
          /\ q' = [q EXCEPT ![c].vcpu = Tail(@)]
          /\ func' = [func EXCEPT ![c] = Head(q[c].vcpu)]
          /\ pc' = [pc EXCEPT ![c] = "func"]
          /\ UNCHANGED life
    /\ UNCHANGED <<cur, soft, seen>>

(* The function of do_tasklet() returns; cpu_down() is done by then. *)
Return(c) ==
    /\ pc[c] = "func" /\ soft[c] = Nobody
    /\ ~(c = Boot /\ GoingDown)
    /\ running' = [running EXCEPT ![func[c]] = FALSE]
    /\ q' = VcpuTail(Requeued(func[c]), c)
    /\ func' = [func EXCEPT ![c] = Nobody]
    /\ pc' = [pc EXCEPT ![c] = "softirq"]
    /\ UNCHANGED <<on, life, cur, soft, seen>>

(* tasklet_softirq_action(), from do_softirq() or, while a function runs,     *)
(* from process_pending_softirqs().  SCHEDULE_SOFTIRQ comes first.            *)
SoftirqAction(c) ==
    /\ soft[c] = Nobody /\ "TASKLET" \in q[c].pend
    /\ pc[c] = "func" \/ (pc[c] = "softirq" /\ "SCHEDULE" \notin q[c].pend)
    /\ IF q[c].softirq = <<>>
       THEN /\ q' = [q EXCEPT ![c].pend = @ \ {"TASKLET"}]
            /\ UNCHANGED <<task, soft>>
       ELSE /\ Begin(Head(q[c].softirq))
            /\ q' = [q EXCEPT ![c].pend = @ \ {"TASKLET"}, ![c].softirq = Tail(@)]
            /\ soft' = [soft EXCEPT ![c] = Head(q[c].softirq)]
            /\ UNCHANGED life
    /\ UNCHANGED <<cur, pc, func, seen>>

SoftirqReturn(c) ==
    /\ soft[c] # Nobody
    /\ running' = [running EXCEPT ![soft[c]] = FALSE]
    /\ q' = SoftirqTail(Requeued(soft[c]), c)
    /\ soft' = [soft EXCEPT ![c] = Nobody]
    /\ UNCHANGED <<on, life, cur, pc, func, seen>>

(* schedule() reads tasklet_work_to_do ... *)
ScheduleRead(c) ==
    /\ pc[c] = "softirq" /\ soft[c] = Nobody /\ "SCHEDULE" \in q[c].pend
    /\ q' = [q EXCEPT ![c].pend = @ \ {"SCHEDULE"}]
    /\ seen' = [seen EXCEPT ![c] = q[c].work]
    /\ pc' = [pc EXCEPT ![c] = "schedule"]
    /\ UNCHANGED <<task, cur, func, soft>>

(* The vcpu that schedule() goes on with: the idle vcpu starts its loop again, *)
(* a guest's looks for softirqs before it returns to the guest.                *)
SwitchTo(c, v) ==
    /\ cur' = [cur EXCEPT ![c] = v]
    /\ pc' = [pc EXCEPT ![c] = IF v = "idle" THEN "loop" ELSE "softirq"]
    /\ seen' = [seen EXCEPT ![c] = {}]
    /\ UNCHANGED <<task, func, soft>>

(* Deviation: the bits are stored, not cleared one by one. *)
ScheduleStore(c) ==
    /\ pc[c] = "schedule"
    /\ \/ /\ "enqueued" \in seen[c]
          /\ q' = [q EXCEPT ![c].work = seen[c] \cup {"scheduled"}]
          /\ SwitchTo(c, "idle")
       \/ /\ "enqueued" \notin seen[c]
          /\ q' = [q EXCEPT ![c].work = {}]
          /\ \E v \in {"idle", "guest"} : SwitchTo(c, v)

(* ... and sets or clears TASKLET_scheduled: work overrides all else. *)
ScheduleBits(c) ==
    /\ pc[c] = "schedule"
    /\ \/ /\ "enqueued" \in seen[c]
          /\ q' = [q EXCEPT ![c].work = @ \cup {"scheduled"}]
          /\ SwitchTo(c, "idle")
       \/ /\ "enqueued" \notin seen[c]
          /\ q' = [q EXCEPT ![c].work = @ \ seen[c]]
          /\ \E v \in {"idle", "guest"} : SwitchTo(c, v)

(* do_softirq() finds nothing to do. *)
SoftirqsDone(c) ==
    /\ pc[c] = "softirq" /\ soft[c] = Nobody /\ q[c].pend = {}
    /\ pc' = [pc EXCEPT ![c] = IF cur[c] = "idle" THEN "loop" ELSE "guest"]
    /\ UNCHANGED <<task, q, cur, func, soft, seen>>

(* A guest is interrupted for the softirqs of its CPU. *)
GuestInterrupted(c) ==
    /\ pc[c] = "guest" /\ q[c].pend # {}
    /\ pc' = [pc EXCEPT ![c] = "softirq"]
    /\ UNCHANGED <<task, q, cur, func, soft, seen>>

CpuStep(c) ==
    /\ Active(c)
    /\ \/ Loop(c) \/ Enter(c) \/ Return(c)
       \/ SoftirqAction(c) \/ SoftirqReturn(c) \/ SoftirqsDone(c) \/ GuestInterrupted(c)
       \/ ScheduleRead(c) \/ ScheduleBits(c)
    /\ UNCHANGED <<cpu, calls, downs>>

-----------------------------------------------------------------------------
(* CPUs that go down and come up. *)

(* cpu_down(c), from the function of a hypercall's tasklet on the boot CPU:   *)
(* stop_machine_run() waits until every other CPU runs stopmachine_action()   *)
(* in its idle vcpu, and so nothing else.                                     *)
StopMachine(c) ==
    /\ downs < MaxDowns /\ c # Boot /\ cpu[c] = "online" /\ ~GoingDown
    /\ pc[Boot] = "func" /\ soft[Boot] = Nobody /\ on[func[Boot]] = Nobody
    /\ \A k \in Cpus \ {Boot} : cpu[k] = "online" => cur[k] = "idle" /\ pc[k] = "loop"
    /\ \A t \in Tasklets : life[t] # "killing"
    /\ cpu' = [cpu EXCEPT ![c] = "stopped"]
    /\ downs' = downs + 1
    /\ UNCHANGED <<task, q, exec, calls>>

(* The machine goes on, CPU c into play_dead(). *)
PlayDead(c) ==
    /\ cpu[c] = "stopped"
    /\ cpu' = [cpu EXCEPT ![c] = "dying"]
    /\ UNCHANGED <<task, q, exec, calls, downs>>

(* migrate_tasklets_from_cpu(), one tasklet after the other. *)
Migrated(s, Q) == FoldLeft(LAMBDA R, t : tasklet_enqueue(R, t, Boot), Q, s)

(* __cpu_die() returns, and cpu_callback() sees CPU_DEAD on the boot CPU. *)
CpuDead(c) ==
    /\ cpu[c] = "dying" /\ soft[Boot] = Nobody
    /\ q' = Migrated(q[c].vcpu \o q[c].softirq,
                     [q EXCEPT ![c].vcpu = <<>>, ![c].softirq = <<>>])
    /\ on' = [t \in Tasklets |-> IF t \in Lists(c) THEN Boot ELSE on[t]]
    /\ cpu' = [cpu EXCEPT ![c] = "gone"]
    /\ UNCHANGED <<running, life, exec, calls, downs>>

(* cpu_up(c): a new per-CPU area with empty lists; softirq_pending is not in it. *)
CpuUp(c) ==
    /\ cpu[c] = "gone" /\ ~GoingDown
    /\ pc[Boot] = "func" /\ soft[Boot] = Nobody
    /\ q' = [q EXCEPT ![c] = [Fresh EXCEPT !.pend = q[c].pend]]
    /\ cpu' = [cpu EXCEPT ![c] = "online"]
    /\ UNCHANGED <<task, exec, calls, downs>>

Next ==
    \/ \E t \in Tasklets, c \in Cpus : tasklet_schedule_on_cpu(t, c)
    \/ \E t \in Tasklets : tasklet_kill(t) \/ KillReturns(t) \/ tasklet_init(t)
    \/ \E c \in Cpus : \/ Tick(c) \/ CpuStep(c)
                       \/ StopMachine(c) \/ PlayDead(c) \/ CpuDead(c) \/ CpuUp(c)

Spec == Init /\ [][Next]_vars

(* CPUs go on, and so do cpu_down() and tasklet_kill() once they may. *)
FairSpec ==
    /\ Spec
    /\ \A c \in Cpus : WF_vars(CpuStep(c)) /\ WF_vars(PlayDead(c)) /\ WF_vars(CpuDead(c))
    /\ \A t \in Tasklets : WF_vars(KillReturns(t))

-----------------------------------------------------------------------------
(* Properties. *)

Runs(c, t) == func[c] = t \/ soft[c] = t

(* tasklet.h: "on at most one CPU at a time", and the BUG_ON()s of            *)
(* do_tasklet_work(), tasklet_kill() and migrate_tasklets_from_cpu(): a list  *)
(* has the tasklets that are scheduled on its CPU and not running, each once, *)
(* whoever schedules, kills, runs or migrates them; none is left behind on a  *)
(* CPU that is gone.                                                          *)
QueuesExact ==
    /\ \A t \in Tasklets :
          /\ running[t] <=> \E c \in Cpus : Runs(c, t)
          /\ \A c, k \in Cpus : Runs(c, t) /\ Runs(k, t) => c = k
          /\ on[t] # Nobody => life[t] = "live" /\ cpu[on[t]] # "gone"
    /\ \A c \in Cpus :
          /\ Len(q[c].vcpu) = Cardinality(ToSet(q[c].vcpu))
          /\ Len(q[c].softirq) = Cardinality(ToSet(q[c].softirq))
          /\ ToSet(q[c].softirq) \subseteq Softirq
          /\ ToSet(q[c].vcpu) \cap Softirq = {}
          /\ Lists(c) = {t \in Tasklets : on[t] = c /\ ~running[t]}

(* No list of a CPU that is online is forgotten: the softirq that looks at it *)
(* is pending or at work, and for the idle vcpu's list schedule() is to run,  *)
(* or has run and taken the idle vcpu, whatever was enqueued between its look *)
(* at the bits and its change of them.                                        *)
WorkAnnounced ==
    \A c \in Cpus :
       cpu[c] = "online" =>
          /\ q[c].softirq # <<>> => "TASKLET" \in q[c].pend \/ soft[c] # Nobody
          /\ q[c].vcpu # <<>> =>
                /\ "enqueued" \in q[c].work
                /\ \/ "SCHEDULE" \in q[c].pend
                   \/ pc[c] = "schedule" /\ "enqueued" \in seen[c]
                   \/ "scheduled" \in q[c].work /\ cur[c] = "idle"

(* When tasklet_kill() returns the function does not run, and it does not run *)
(* again: its owner frees what it works on.                                   *)
KilledIsQuiet ==
    \A t \in Tasklets :
       life[t] = "killed" =>
          ~running[t] /\ \A c \in Cpus : ~Runs(c, t) /\ t \notin Lists(c)

(* A tasklet that is scheduled runs after that, or is killed, even if its CPU *)
(* goes down first.                                                           *)
ScheduledRuns == \A t \in Tasklets : on[t] # Nobody ~> on[t] = Nobody
=============================================================================
