--------------------------------- MODULE Rcu ---------------------------------
(***************************************************************************)
(* Read-copy update: xen/common/rcupdate.c with the softirq loop that      *)
(* drives it (xen/common/softirq.c), CPU hotplug and rcu_barrier().        *)
(*                                                                         *)
(* A CPU in the softirq handler has a program counter; what it does to its *)
(* own lists is one step with the next access to rcu_ctrlblk.  The fields  *)
(* of rcu_ctrlblk are read without the lock, so rcu_start_batch() is cut   *)
(* between its writes.  A read-side critical section (or any stretch of    *)
(* code no softirq can interrupt) may also be entered from an interrupt;   *)
(* the handler it interrupts waits.                                        *)
(*                                                                         *)
(* A definition marked "Deviation" is the one below it with a slip that    *)
(* some property must notice; the specification does not use it.           *)
(***************************************************************************)
EXTENDS Integers, Sequences, FiniteSets

CONSTANTS
    Cpus,
    Boot,           \* the CPU that never goes offline
    Readers,        \* the CPUs whose code opens read-side critical sections
    Callbacks,      \* the struct rcu_heads of the users of call_rcu()
    Blimit,         \* blimit, qhimark, qlowmark
    QHiMark,
    QLowMark,
    MaxBatch,       \* bound: no call_rcu() once this many batches were started
    MaxDowns,       \* bound: how often a CPU goes offline or fails to come online
    NoCpu           \* nobody holds the lock

ASSUME RcuConstants ==
    /\ Boot \in Cpus /\ Readers \subseteq Cpus /\ NoCpu \notin Cpus /\ Callbacks \cap Cpus = {}
    /\ IsFiniteSet(Cpus) /\ Blimit \in Nat \ {0} /\ QHiMark \in Nat /\ QLowMark \in Nat

(* The head a CPU has on its stack in rcu_barrier_action() goes by its name.  *)
Heads == Callbacks \cup Cpus

VARIABLES
    cur, completed, next_pending, lock, cpumask,     \* rcu_ctrlblk
    quiescbatch, qs_pending, batch,                  \* struct rcu_data of each CPU
    nxtlist, curlist, donelist, qlen, unlimited,     \* unlimited: blimit is INT_MAX
    pc,             \* where each CPU is in the softirq handler
    ret,            \* where rcu_start_batch() returns to
    count,          \* callbacks invoked by this call of rcu_do_batch()
    phase,          \* of each CPU: "on", "off", or on the way
    gone,           \* the CPU whose lists this one takes over, or NoCpu
    downs,          \* offline or failed, so far
    barrier,        \* of each CPU: where it is in rcu_barrier_action()
    cpu_count,      \* of rcu_barrier()
    reading,        \* the CPUs inside a read-side critical section
    due,            \* history: for each head, its call_rcu()s less its invocations
    waits,          \* history: sections open at call_rcu() and still open
    before          \* history: the heads queued when rcu_barrier() was called, still to run

ctrl == <<cur, completed, next_pending, lock, cpumask>>
quiet == <<quiescbatch, qs_pending>>
lists == <<batch, nxtlist, curlist, donelist, qlen, unlimited>>
hotplug == <<phase, gone, downs>>
flush == <<barrier, cpu_count, before>>
section == <<reading, due, waits>>
vars == <<ctrl, quiet, lists, pc, ret, count, hotplug, flush, section>>

cpu_online_map == {c \in Cpus : phase[c] = "on"}

Elems(s) == {s[i] : i \in DOMAIN s}

(* The CPUs whose lists count: from rcu_init_percpu_data() to the end of      *)
(* rcu_offline_cpu().                                                         *)
Live == {c \in Cpus : phase[c] # "off"}

(* The callbacks of a CPU in the order in which it will invoke them. *)
Queue(c) == donelist[c] \o curlist[c] \o nxtlist[c]

Init ==
    /\ cur = 0 /\ completed = 0 /\ next_pending = FALSE /\ lock = NoCpu /\ cpumask = {}
    /\ quiescbatch = [c \in Cpus |-> 0] /\ qs_pending = [c \in Cpus |-> FALSE]
    /\ batch = [c \in Cpus |-> 0]
    /\ nxtlist = [c \in Cpus |-> <<>>]
    /\ curlist = [c \in Cpus |-> <<>>]
    /\ donelist = [c \in Cpus |-> <<>>]
    /\ qlen = [c \in Cpus |-> 0] /\ unlimited = [c \in Cpus |-> FALSE]
    /\ pc = [c \in Cpus |-> "idle"] /\ ret = [c \in Cpus |-> "idle"]
    /\ count = [c \in Cpus |-> 0]
    /\ phase = [c \in Cpus |-> IF c = Boot THEN "on" ELSE "off"]
    /\ gone = [c \in Cpus |-> NoCpu] /\ downs = 0
    /\ barrier = [c \in Cpus |-> "no"] /\ cpu_count = 0 /\ before = {}
    /\ reading = {} /\ due = [x \in Heads |-> 0] /\ waits = [x \in Heads |-> {}]

Goto(c, to) == pc' = [pc EXCEPT ![c] = to]

(* Neither offline nor done with rcu_barrier_action(), its interrupts off. *)
Runs(c) == c \in cpu_online_map /\ barrier[c] # "out"

(* A CPU takes the next step of its handler: nothing has interrupted it. *)
At(c, from) == pc[c] = from /\ c \notin reading

-----------------------------------------------------------------------------
(* The users: readers and call_rcu(). *)

ReadLock(c) ==
    /\ Runs(c) /\ c \in Readers \ reading
    /\ reading' = reading \cup {c}
    /\ UNCHANGED <<ctrl, quiet, lists, pc, ret, count, hotplug, flush, due, waits>>

ReadUnlock(c) ==
    /\ c \in reading
    /\ reading' = reading \ {c}
    /\ waits' = [x \in Heads |-> waits[x] \ {c}]
    /\ UNCHANGED <<ctrl, quiet, lists, pc, ret, count, hotplug, flush, due>>

(* Deviation: the new head goes to the front of the list. *)
call_rcu_front(c, x) ==
    /\ nxtlist' = [nxtlist EXCEPT ![c] = <<x>> \o @]
    /\ qlen' = [qlen EXCEPT ![c] = @ + 1]
    /\ unlimited' = [unlimited EXCEPT ![c] = @ \/ qlen[c] + 1 > QHiMark]
    /\ due' = [due EXCEPT ![x] = @ + 1] /\ waits' = [waits EXCEPT ![x] = reading]
    /\ UNCHANGED <<batch, curlist, donelist>>

(* call_rcu(): with interrupts off.  force_quiescent_state() only raises      *)
(* SCHEDULE_SOFTIRQ, so that the CPUs come to their softirqs sooner.          *)
call_rcu(c, x) ==
    /\ nxtlist' = [nxtlist EXCEPT ![c] = Append(@, x)]
    /\ qlen' = [qlen EXCEPT ![c] = @ + 1]
    /\ unlimited' = [unlimited EXCEPT ![c] = @ \/ qlen[c] + 1 > QHiMark]
    /\ due' = [due EXCEPT ![x] = @ + 1] /\ waits' = [waits EXCEPT ![x] = reading]
    /\ UNCHANGED <<batch, curlist, donelist>>

CallRcu(c, x) ==
    /\ Runs(c) /\ due[x] = 0 /\ cur < MaxBatch
    /\ call_rcu(c, x)
    /\ UNCHANGED <<ctrl, quiet, pc, ret, count, hotplug, flush, reading>>

-----------------------------------------------------------------------------
(* __rcu_process_callbacks(), the handler of RCU_SOFTIRQ. *)

BatchDone(c) == curlist[c] # <<>> /\ ~(completed - batch[c] < 0)

rcu_pending(c) ==
    \/ BatchDone(c)
    \/ curlist[c] = <<>> /\ nxtlist[c] # <<>>
    \/ donelist[c] # <<>>
    \/ quiescbatch[c] # cur \/ qs_pending[c]

(* __do_softirq() looks for work on every round. *)
Softirq(c) ==
    /\ At(c, "idle") /\ Runs(c) /\ gone[c] = NoCpu /\ barrier[c] # "call" /\ rcu_pending(c)
    /\ Goto(c, "process")
    /\ UNCHANGED <<ctrl, quiet, lists, ret, count, hotplug, flush, section>>

(* The grace period of the current batch is over. *)
ProcessDone(c) ==
    /\ At(c, "process")
    /\ donelist' = [donelist EXCEPT ![c] = IF BatchDone(c) THEN @ \o curlist[c] ELSE @]
    /\ curlist' = [curlist EXCEPT ![c] = IF BatchDone(c) THEN <<>> ELSE @]
    /\ Goto(c, "next")
    /\ UNCHANGED <<ctrl, quiet, batch, nxtlist, qlen, unlimited, ret, count, hotplug, flush, section>>

(* Deviation: the batch that is running already. *)
NextBatchRunning(c) ==
    /\ At(c, "next") /\ nxtlist[c] # <<>> /\ curlist[c] = <<>>
    /\ curlist' = [curlist EXCEPT ![c] = nxtlist[c]]
    /\ nxtlist' = [nxtlist EXCEPT ![c] = <<>>]
    /\ batch' = [batch EXCEPT ![c] = cur]
    /\ Goto(c, "ask")
    /\ UNCHANGED <<ctrl, quiet, donelist, qlen, unlimited, ret, count, hotplug, flush, section>>

(* The new callbacks become the next batch, with its number. *)
NextBatch(c) ==
    /\ At(c, "next") /\ nxtlist[c] # <<>> /\ curlist[c] = <<>>
    /\ curlist' = [curlist EXCEPT ![c] = nxtlist[c]]
    /\ nxtlist' = [nxtlist EXCEPT ![c] = <<>>]
    /\ batch' = [batch EXCEPT ![c] = cur + 1]
    /\ Goto(c, "ask")
    /\ UNCHANGED <<ctrl, quiet, donelist, qlen, unlimited, ret, count, hotplug, flush, section>>

NoNextBatch(c) ==
    /\ At(c, "next") /\ (nxtlist[c] = <<>> \/ curlist[c] # <<>>)
    /\ Goto(c, "check")
    /\ UNCHANGED <<ctrl, quiet, lists, ret, count, hotplug, flush, section>>

(* if (!rcp->next_pending), without the lock *)
AskPending(c) ==
    /\ At(c, "ask")
    /\ Goto(c, IF next_pending THEN "check" ELSE "start_lock")
    /\ UNCHANGED <<ctrl, quiet, lists, ret, count, hotplug, flush, section>>

(* rcu_start_batch() will start one: the caller has the lock on its way in. *)
StartOrReturn(c, to, start) ==
    /\ Goto(c, IF start THEN "start" ELSE to)
    /\ ret' = [ret EXCEPT ![c] = IF start THEN to ELSE "idle"]
    /\ lock' = IF start THEN c ELSE NoCpu

StartLock(c) ==
    /\ At(c, "start_lock") /\ lock = NoCpu
    /\ next_pending' = TRUE
    /\ StartOrReturn(c, "check", completed = cur)
    /\ UNCHANGED <<cur, completed, cpumask, quiet, lists, count, hotplug, flush, section>>

(* rcu_start_batch(): next_pending is cleared before cur moves on. *)
StartClear(c) ==
    /\ At(c, "start")
    /\ next_pending' = FALSE
    /\ Goto(c, "start_cur")
    /\ UNCHANGED <<cur, completed, lock, cpumask, quiet, lists, ret, count, hotplug, flush, section>>

StartCur(c) ==
    /\ At(c, "start_cur")
    /\ cur' = cur + 1 /\ cpumask' = cpu_online_map /\ lock' = NoCpu
    /\ Goto(c, ret[c]) /\ ret' = [ret EXCEPT ![c] = "idle"]
    /\ UNCHANGED <<completed, next_pending, quiet, lists, count, hotplug, flush, section>>

-----------------------------------------------------------------------------
(* rcu_check_quiescent_state() *)

(* The first look at cur. *)
Check(c) ==
    /\ At(c, "check")
    /\ Goto(c, IF quiescbatch[c] # cur THEN "note" ELSE IF qs_pending[c] THEN "quiet" ELSE "invoke")
    /\ qs_pending' = [qs_pending EXCEPT ![c] = @ /\ quiescbatch[c] # cur]
    /\ UNCHANGED <<ctrl, quiescbatch, lists, ret, count, hotplug, flush, section>>

(* The second look at cur: a new grace period is running. *)
Note(c) ==
    /\ At(c, "note")
    /\ qs_pending' = [qs_pending EXCEPT ![c] = TRUE]
    /\ quiescbatch' = [quiescbatch EXCEPT ![c] = cur]
    /\ Goto(c, "invoke")
    /\ UNCHANGED <<ctrl, lists, ret, count, hotplug, flush, section>>

(* Deviation: the next batch is left to whoever comes. *)
cpu_quiet_only(k, c, to) ==
    LET left == cpumask \ {k} IN
    /\ cpumask' = left
    /\ completed' = IF left = {} THEN cur ELSE completed
    /\ StartOrReturn(c, to, FALSE)

(* cpu_quiet(): c, holding the lock, takes k off the list of CPUs waited for. *)
cpu_quiet(k, c, to) ==
    LET left == cpumask \ {k} IN
    /\ cpumask' = left
    /\ completed' = IF left = {} THEN cur ELSE completed
    /\ StartOrReturn(c, to, left = {} /\ next_pending)

Quiet(c) ==
    /\ At(c, "quiet") /\ lock = NoCpu
    /\ \/ quiescbatch[c] = cur /\ cpu_quiet(c, c, "invoke")
       \/ /\ quiescbatch[c] # cur /\ Goto(c, "invoke")
          /\ UNCHANGED <<completed, cpumask, lock, ret>>
    /\ UNCHANGED <<cur, next_pending, quiet, lists, count, hotplug, flush, section>>

-----------------------------------------------------------------------------
(* rcu_do_batch() *)

(* One callback.  The one of rcu_barrier() counts.  After the last one for    *)
(* now, a limit that call_rcu() had lifted applies again on a short queue.    *)
Invoke(c) ==
    /\ At(c, "invoke") /\ donelist[c] # <<>>
    /\ donelist' = [donelist EXCEPT ![c] = Tail(@)]
    /\ cpu_count' = IF Head(donelist[c]) \in Cpus THEN cpu_count + 1 ELSE cpu_count
    /\ qlen' = [qlen EXCEPT ![c] = @ - 1]
    /\ due' = [due EXCEPT ![Head(donelist[c])] = @ - 1] /\ before' = before \ {Head(donelist[c])}
    /\ \/ /\ Tail(donelist[c]) # <<>> /\ (unlimited[c] \/ count[c] + 1 < Blimit)
          /\ count' = [count EXCEPT ![c] = @ + 1]
          /\ UNCHANGED <<pc, unlimited>>
       \/ /\ Tail(donelist[c]) = <<>> \/ ~(unlimited[c] \/ count[c] + 1 < Blimit)
          /\ Goto(c, "idle") /\ count' = [count EXCEPT ![c] = 0]
          /\ unlimited' = [unlimited EXCEPT ![c] = @ /\ qlen[c] - 1 > QLowMark]
    /\ UNCHANGED <<ctrl, quiet, batch, nxtlist, curlist, ret, hotplug, barrier, reading, waits>>

NothingToInvoke(c) ==
    /\ At(c, "invoke") /\ donelist[c] = <<>>
    /\ Goto(c, "idle")
    /\ UNCHANGED <<ctrl, quiet, lists, ret, count, hotplug, flush, section>>

Handler(c) ==
    \/ Softirq(c) \/ ProcessDone(c) \/ NextBatch(c) \/ NoNextBatch(c)
    \/ AskPending(c) \/ StartLock(c) \/ StartClear(c) \/ StartCur(c)
    \/ Check(c) \/ Note(c) \/ Quiet(c) \/ Invoke(c) \/ NothingToInvoke(c)

-----------------------------------------------------------------------------
(* CPU hotplug, one operation at a time (cpu_add_remove_lock). *)

NoHotplug == \A k \in Cpus : phase[k] \in {"on", "off"} /\ barrier[k] = "no"

(* stop_machine_run(): every CPU is in stopmachine_action(). *)
Stopped == NoHotplug /\ reading = {} /\ \A k \in cpu_online_map : pc[k] = "idle"

(* Deviation: the lists of the CPU are as it left them. *)
UpPrepareStale(k) ==
    /\ NoHotplug /\ phase[k] = "off"
    /\ phase' = [phase EXCEPT ![k] = "prepared"]
    /\ quiescbatch' = [quiescbatch EXCEPT ![k] = completed]
    /\ qs_pending' = [qs_pending EXCEPT ![k] = FALSE]
    /\ UNCHANGED <<ctrl, lists, pc, ret, count, gone, downs, flush, section>>

(* CPU_UP_PREPARE: rcu_init_percpu_data() *)
UpPrepare(k) ==
    /\ NoHotplug /\ phase[k] = "off"
    /\ phase' = [phase EXCEPT ![k] = "prepared"]
    /\ batch' = [batch EXCEPT ![k] = 0]
    /\ nxtlist' = [nxtlist EXCEPT ![k] = <<>>]
    /\ curlist' = [curlist EXCEPT ![k] = <<>>]
    /\ donelist' = [donelist EXCEPT ![k] = <<>>]
    /\ qlen' = [qlen EXCEPT ![k] = 0] /\ unlimited' = [unlimited EXCEPT ![k] = FALSE]
    /\ quiescbatch' = [quiescbatch EXCEPT ![k] = completed]
    /\ qs_pending' = [qs_pending EXCEPT ![k] = FALSE]
    /\ UNCHANGED <<ctrl, pc, ret, count, gone, downs, flush, section>>

(* The new CPU sets itself in cpu_online_map, or __cpu_up() fails. *)
Online(k) ==
    /\ phase[k] = "prepared"
    /\ phase' = [phase EXCEPT ![k] = "on"]
    /\ UNCHANGED <<ctrl, quiet, lists, pc, ret, count, gone, downs, flush, section>>

UpFails(k) ==
    /\ phase[k] = "prepared" /\ downs < MaxDowns
    /\ phase' = [phase EXCEPT ![k] = "dead"] /\ downs' = downs + 1
    /\ UNCHANGED <<ctrl, quiet, lists, pc, ret, count, gone, flush, section>>

(* take_cpu_down(), all other CPUs stopped. *)
Down(k) ==
    /\ Stopped /\ phase[k] = "on" /\ k # Boot /\ downs < MaxDowns
    /\ phase' = [phase EXCEPT ![k] = "dead"] /\ downs' = downs + 1
    /\ UNCHANGED <<ctrl, quiet, lists, pc, ret, count, gone, flush, section>>

(* CPU_DEAD and CPU_UP_CANCELED: rcu_offline_cpu() begins on CPU m. *)
Offline(m, k) ==
    /\ phase[k] = "dead" /\ gone[m] = NoCpu /\ \A c \in Cpus : gone[c] # k
    /\ At(m, "idle") /\ m \in cpu_online_map
    /\ gone' = [gone EXCEPT ![m] = k] /\ Goto(m, "offline")
    /\ UNCHANGED <<ctrl, quiet, lists, ret, count, phase, downs, flush, section>>

(* A grace period that waits for the dead CPU must not wait for ever. *)
OfflineQuiet(m) ==
    /\ At(m, "offline") /\ lock = NoCpu
    /\ \/ cur # completed /\ cpu_quiet(gone[m], m, "move")
       \/ /\ cur = completed /\ Goto(m, "move")
          /\ UNCHANGED <<completed, cpumask, lock, ret>>
    /\ UNCHANGED <<cur, next_pending, quiet, lists, count, hotplug, flush, section>>

(* rcu_move_batch(), three times, and qlen.  Nothing runs on m in between but *)
(* interrupts, whose call_rcu() may as well come before or after.             *)
OfflineMove(m) ==
    LET k == gone[m] IN
    /\ At(m, "move")
    /\ nxtlist' = [nxtlist EXCEPT ![m] = @ \o Queue(k)]
    /\ qlen' = [qlen EXCEPT ![m] = @ + qlen[k]]
    /\ phase' = [phase EXCEPT ![k] = "off"]
    /\ gone' = [gone EXCEPT ![m] = NoCpu] /\ Goto(m, "idle") /\ ret' = [ret EXCEPT ![m] = "idle"]
    /\ UNCHANGED <<ctrl, quiet, batch, curlist, donelist, unlimited, count, downs, flush, section>>

Hotplug(m) == OfflineQuiet(m) \/ OfflineMove(m) \/ \E k \in Cpus : Offline(m, k)

-----------------------------------------------------------------------------
(* rcu_barrier() *)

(* All CPUs come to rcu_barrier_action() and enable their interrupts. *)
BarrierRun ==
    /\ Stopped /\ cur < MaxBatch
    /\ barrier' = [c \in Cpus |-> IF phase[c] = "on" THEN "call" ELSE "no"]
    /\ cpu_count' = 0 /\ before' = {x \in Heads : due[x] > 0}
    /\ UNCHANGED <<ctrl, quiet, lists, pc, ret, count, hotplug, section>>

BarrierCall(c) ==
    /\ At(c, "idle") /\ barrier[c] = "call"
    /\ call_rcu(c, c)
    /\ barrier' = [barrier EXCEPT ![c] = "spin"]
    /\ UNCHANGED <<ctrl, quiet, pc, ret, count, hotplug, cpu_count, before, reading>>

(* The loop ends when the callbacks of all online CPUs have run. *)
BarrierOut(c) ==
    /\ At(c, "idle") /\ barrier[c] = "spin" /\ cpu_count = Cardinality(cpu_online_map)
    /\ barrier' = [barrier EXCEPT ![c] = "out"]
    /\ UNCHANGED <<ctrl, quiet, lists, pc, ret, count, hotplug, cpu_count, before, section>>

(* stop_machine_run() returns. *)
BarrierReturn ==
    /\ cpu_online_map = {c \in Cpus : barrier[c] = "out"}
    /\ barrier' = [c \in Cpus |-> "no"] /\ before' = {}
    /\ UNCHANGED <<ctrl, quiet, lists, pc, ret, count, hotplug, cpu_count, section>>

(* What the code on a CPU does, one thing at a time. *)
Step(c) == Handler(c) \/ Hotplug(c) \/ BarrierCall(c) \/ BarrierOut(c)

Next ==
    \/ \E c \in Cpus :
         \/ ReadLock(c) \/ ReadUnlock(c) \/ Step(c)
         \/ UpPrepare(c) \/ Online(c) \/ UpFails(c) \/ Down(c)
         \/ \E x \in Callbacks : CallRcu(c, x)
    \/ BarrierRun \/ BarrierReturn

Spec == Init /\ [][Next]_vars

(* Sections end.  A CPU comes out of its interrupts often enough to get on    *)
(* with what they interrupt: the softirq loop, the notifier, the barrier.     *)
Fairness ==
    /\ \A c \in Cpus : WF_vars(ReadUnlock(c)) /\ SF_vars(Step(c)) /\ WF_vars(Online(c))
    /\ WF_vars(BarrierReturn)

FairSpec == Spec /\ Fairness

-----------------------------------------------------------------------------
Places == {"idle", "process", "next", "ask", "start_lock", "start", "start_cur", "check",
           "note", "quiet", "invoke", "offline", "move"}

Returns == {"idle", "check", "invoke", "move"}

CtrlType ==
    /\ cur \in Int /\ completed \in Int /\ next_pending \in BOOLEAN
    /\ lock \in Cpus \cup {NoCpu} /\ cpumask \subseteq Cpus
    /\ quiescbatch \in [Cpus -> Int] /\ qs_pending \in [Cpus -> BOOLEAN]
    /\ pc \in [Cpus -> Places] /\ ret \in [Cpus -> Returns] /\ count \in [Cpus -> Int]
    /\ phase \in [Cpus -> {"on", "off", "prepared", "dead"}]
    /\ gone \in [Cpus -> Cpus \cup {NoCpu}]
    /\ barrier \in [Cpus -> {"no", "call", "spin", "out"}] /\ cpu_count \in Int
    /\ before \subseteq Heads
    /\ reading \subseteq Cpus /\ due \in [Heads -> Int] /\ waits \in [Heads -> SUBSET Cpus]

ListType ==
    /\ batch \in [Cpus -> Int]
    /\ nxtlist \in [Cpus -> Seq(Heads)]
    /\ curlist \in [Cpus -> Seq(Heads)]
    /\ donelist \in [Cpus -> Seq(Heads)]
    /\ qlen \in [Cpus -> Int] /\ unlimited \in [Cpus -> BOOLEAN]

TypeOK == CtrlType /\ ListType

(* A callback that rcu_do_batch() may invoke waits for no read-side critical  *)
(* section: all that were open at its call_rcu() are over (the comment above  *)
(* call_rcu()), whatever CPUs came and went and moved their lists since.      *)
GraceRespected ==
    \A c \in Live : \A x \in Elems(donelist[c]) : waits[x] = {}

(* A section that a callback of the current batch still waits for keeps that  *)
(* batch from completing: it has not completed, and if it is the one running, *)
(* the CPU of the section has still to go through its softirqs.               *)
SectionHoldsBatch ==
    \A c \in Live : \A x \in Elems(curlist[c]) : \A r \in waits[x] :
        completed < batch[c] /\ (cur >= batch[c] => r \in cpumask)

(* Only an online CPU reads or runs the handler; a batch is started by the   *)
(* holder of the lock and only when no other is running; a CPU is taken over  *)
(* by one other, once dead.                                                   *)
Owners ==
    /\ completed <= cur
    /\ reading \subseteq cpu_online_map /\ \A x \in Heads : waits[x] \subseteq reading
    /\ \A c \in Cpus : pc[c] # "idle" => phase[c] = "on"
    /\ \A c \in Cpus : pc[c] \in {"start", "start_cur"} => lock = c /\ completed = cur
    /\ \A m \in Cpus : gone[m] # NoCpu => phase[gone[m]] = "dead"
    /\ \A m, n \in Cpus : gone[m] = gone[n] /\ gone[m] # NoCpu => m = n
    /\ \A m \in Cpus : gone[m] = NoCpu => pc[m] \notin {"offline", "move"} /\ ret[m] # "move"

NoRepeats(s) == \A i, j \in DOMAIN s : s[i] = s[j] => i = j

(* A head that is due is on one list, once, and no other head is on any. *)
QueuesExact ==
    /\ \A c \in Live : NoRepeats(Queue(c))
    /\ \A c, d \in Live : c # d => Elems(Queue(c)) \cap Elems(Queue(d)) = {}
    /\ \A x \in Heads : due[x] = IF \E c \in Live : x \in Elems(Queue(c)) THEN 1 ELSE 0

(* The CPUs whose callback of rcu_barrier() has run. *)
Counted == {c \in Cpus : barrier[c] \in {"spin", "out"} /\ due[c] = 0}

(* rcu_barrier() counts what it waits for, with no CPU coming or going, and   *)
(* what was queued before it is ahead of the callback of its CPU.             *)
BarrierExact ==
    /\ \A c \in Cpus : barrier[c] # "no" => phase[c] = "on"
    /\ \A c \in Cpus : barrier[c] # "spin" => due[c] = 0
    /\ (\E c \in Cpus : barrier[c] # "no") =>
         /\ \A c \in Cpus : phase[c] \in {"on", "off"}
         /\ cpu_count = Cardinality(Counted)
         /\ (\E c \in Cpus : barrier[c] = "out") => Counted = cpu_online_map
         /\ \A x \in before : due[x] = 1
         /\ \A c \in Live : \A j \in DOMAIN Queue(c) : Queue(c)[j] \in before =>
              \/ barrier[c] = "call"
              \/ \E i \in DOMAIN Queue(c) : i > j /\ Queue(c)[i] = c

(* The inductive invariant. *)
RcuInv ==
    /\ TypeOK /\ GraceRespected /\ SectionHoldsBatch /\ Owners
    /\ QueuesExact /\ BarrierExact

(* When rcu_barrier() has its count, all callbacks queued before it have run. *)
BarrierFlushes ==
    (\E c \in Cpus : barrier[c] = "out") => before = {}

(* Every callback is invoked: no grace period is forgotten, none waits for a  *)
(* CPU that will not answer, and rcu_barrier() lets no CPU leave too early.   *)
CallbackInvoked == \A x \in Heads : due[x] > 0 ~> due[x] = 0

Grace == INSTANCE GracePeriod

(* The batches of rcupdate.c are an implementation of grace periods. *)
IsGracePeriod == Grace!Spec
=============================================================================
