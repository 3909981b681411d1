----------------------------- MODULE RcuProofs ------------------------------
(***************************************************************************)
(* The inductive invariant of Rcu, for any CPUs, callbacks and limits, and *)
(* what follows from it: no callback is invoked while a section it waits   *)
(* for is open, rcu_barrier() flushes, and every step is one of            *)
(* GracePeriod.                                                            *)
(***************************************************************************)
EXTENDS RcuHotplugProofs, FiniteSetTheorems

USE SMTT(60), ZenonT(60)

-----------------------------------------------------------------------------
(* Callbacks are invoked, those of rcu_barrier() among them. *)

(* Counting one more of the CPUs that wait in rcu_barrier_action(). *)
LEMMA CountedFinite ==
    ASSUME TypeOK
    PROVE  IsFiniteSet(Counted) /\ Cardinality(Counted) \in Nat
<1>1. Counted \in SUBSET Cpus
  BY DEF Counted
<1>2. IsFiniteSet(Counted)
  BY <1>1, RcuConstants, FS_Subset
<1> QED BY <1>2, FS_CardinalityType

LEMMA InvokeInv ==
    ASSUME RcuInv, NEW c \in Cpus, Invoke(c)
    PROVE  RcuInv'
<1>0. TypeOK /\ Owners /\ GraceRespected /\ SectionHoldsBatch /\ BarrierExact
  BY DEF RcuInv
<1> DEFINE x == Head(donelist[c])
<1>1. /\ donelist[c] # <<>> /\ donelist' = [donelist EXCEPT ![c] = Tail(donelist[c])]
      /\ due' = [due EXCEPT ![x] = due[x] - 1] /\ before' = before \ {x}
      /\ cpu_count' = IF x \in Cpus THEN cpu_count + 1 ELSE cpu_count
      /\ UNCHANGED <<ctrl, quiet, batch, nxtlist, curlist, ret, hotplug, barrier, reading, waits>>
      /\ c \notin reading /\ pc[c] = "invoke"
  BY DEF Invoke, At
<1>2. UNCHANGED <<phase, gone, cur, completed, cpumask, lock>>
  BY <1>1 DEF ctrl, hotplug
<1>3. c \in Live /\ phase[c] = "on"
  BY <1>0, <1>1, ZenonT(60) DEF Owners, Live
<1>4. RcuInv'
  <2>1. /\ QueuesExact'
        /\ Queue(c) # <<>> /\ Head(Queue(c)) = x /\ Queue(c)' = Tail(Queue(c))
        /\ \A k \in Cpus \ {c} : Queue(k)' = Queue(k)
        /\ x \in Heads /\ due[x] = 1
    BY <1>1, <1>2, <1>3, InvokeQueues, ZenonT(60)
  <2>2. donelist[c] \in Seq(Heads) /\ Queue(c) \in Seq(Heads)
    BY <1>0, QueueElems
  <2>3. Tail(donelist[c]) \in Seq(Heads)
    BY <1>1, <2>2
  <2>4. TypeOK'
    BY <1>0, InvokeType
  <2>5. GraceRespected'
    <3>1. Live' = Live
      BY <1>2 DEF Live
    <3>2. \A k \in Live : Elems(donelist'[k]) \subseteq Elems(donelist[k])
      <4> SUFFICES ASSUME NEW k \in Live PROVE Elems(donelist'[k]) \subseteq Elems(donelist[k])
        OBVIOUS
      <4>1. CASE k # c
        BY <1>0, <1>1, <4>1 DEF Live, TypeOK, ListType
      <4>2. CASE k = c
        <5>1. donelist'[c] = Tail(donelist[c])
          BY <1>0, <1>1, ZenonT(60) DEF TypeOK, ListType
        <5>2. \A i \in DOMAIN Tail(donelist[c]) : i + 1 \in DOMAIN donelist[c] /\ Tail(donelist[c])[i] = donelist[c][i + 1]
          BY <1>1, <2>2
        <5> QED BY <4>2, <5>1, <5>2 DEF Elems
      <4> QED BY <4>1, <4>2
    <3> QED BY <1>0, <1>1, <3>1, <3>2, ZenonT(60) DEF GraceRespected
  <2>6. SectionHoldsBatch'
    BY <1>0, <1>1, <1>2, ZenonT(60) DEF SectionHoldsBatch, Live
  <2>7. Owners'
    <3> DEFINE p == pc'[c]
    <3>1. Goto(c, p) /\ p \in {"invoke", "idle"}
      BY <1>0, <1>1, ZenonT(60) DEF Invoke, Goto, TypeOK, CtrlType
    <3>2. p \in Places
      BY <3>1 DEF Places
    <3>3. completed' <= cur' /\ ret' = ret /\ (ret[c] = "move" => gone[c] # NoCpu)
      BY <1>0, <1>1, <1>2, ZenonT(60) DEF Owners
    <3> HIDE DEF p
    <3> QED BY <1>1, <1>2, <1>3, <3>1, <3>2, <3>3, OwnersStep, ZenonT(60)
  <2>8. BarrierExact'
    <3>1. due'[x] = 0 /\ \A y \in Heads \ {x} : due'[y] = due[y]
      BY <1>0, <1>1, <2>1 DEF TypeOK, CtrlType
    <3>2. \A k \in Cpus : barrier[k] # "spin" => due'[k] = 0
      BY <1>0, <3>1, ZenonT(60) DEF BarrierExact, Heads
    <3>3. cpu_count = Cardinality(Counted) => cpu_count' = Cardinality(Counted')
      <4>1. CASE x \in Cpus
        <5>1. barrier[x] = "spin" /\ x \notin Counted
          BY <1>0, <2>1, <4>1 DEF BarrierExact, Counted
        <5>2. Counted' = Counted \cup {x}
          BY <1>1, <3>1, <4>1, <5>1, ZenonT(60) DEF Counted, Heads
        <5>3. Cardinality(Counted \cup {x}) = Cardinality(Counted) + 1
          BY <1>0, <5>1, CountedFinite, FS_AddElement, ZenonT(60)
        <5> QED BY <1>1, <4>1, <5>2, <5>3, ZenonT(60)
      <4>2. CASE x \notin Cpus
        <5>1. Counted' = Counted
          BY <1>1, <3>1, <4>2, ZenonT(60) DEF Counted, Heads
        <5> QED BY <1>1, <4>2, <5>1, ZenonT(60)
      <4> QED BY <4>1, <4>2, ZenonT(60)
    <3>4. ASSUME \E k \in Cpus : barrier[k] # "no"
          PROVE  \A y \in before' : due'[y] = 1
      BY <1>0, <1>1, <3>1, <3>4, ZenonT(60) DEF BarrierExact, TypeOK, CtrlType
    <3>5. ASSUME \E k \in Cpus : barrier[k] # "no", NEW k \in Live,
                 NEW j \in DOMAIN Queue(k)', Queue(k)'[j] \in before'
          PROVE  barrier[k] = "call" \/ \E i \in DOMAIN Queue(k)' : i > j /\ Queue(k)'[i] = k
      <4>1. CASE k # c
        <5>1. Queue(k)' = Queue(k)
          BY <2>1, <4>1, ZenonT(60) DEF Live
        <5> QED BY <1>0, <1>1, <3>5, <5>1 DEF BarrierExact
      <4>2. CASE k = c
        <5>1. /\ DOMAIN Queue(c)' = 1..(Len(Queue(c)) - 1) /\ DOMAIN Queue(c) = 1..Len(Queue(c))
              /\ Len(Queue(c)) \in Nat
              /\ \A i \in 1..(Len(Queue(c)) - 1) : Queue(c)'[i] = Queue(c)[i + 1]
          BY <2>1, <2>2
        <5>2. j \in 1..(Len(Queue(c)) - 1)
          BY <3>5, <4>2, <5>1, ZenonT(60)
        <5>3. j + 1 \in DOMAIN Queue(c) /\ Queue(c)[j + 1] \in before
          BY <1>1, <3>5, <4>2, <5>1, <5>2
        <5>4. barrier[c] = "call" \/ \E i \in DOMAIN Queue(c) : i > j + 1 /\ Queue(c)[i] = c
          BY <1>0, <1>3, <3>5, <5>3, ZenonT(60) DEF BarrierExact
        <5>5. CASE barrier[c] = "call"
          BY <4>2, <5>5
        <5>6. ASSUME NEW i \in DOMAIN Queue(c), i > j + 1, Queue(c)[i] = c
              PROVE  \E h \in DOMAIN Queue(c)' : h > j /\ Queue(c)'[h] = c
          <6>1. i - 1 \in DOMAIN Queue(c)' /\ i - 1 > j /\ Queue(c)'[i - 1] = c
            BY <5>1, <5>2, <5>6
          <6> QED BY <6>1
        <5> QED BY <4>2, <5>4, <5>5, <5>6, ZenonT(60)
      <4> QED BY <4>1, <4>2, ZenonT(60)
    <3>6. Live' = Live /\ cpu_online_map' = cpu_online_map
      BY <1>2, ZenonT(60) DEF Live, cpu_online_map
    <3>7. Counted = cpu_online_map => Counted' = cpu_online_map
      BY <1>0, <1>1, <3>1 DEF Counted, cpu_online_map, BarrierExact, Heads
    <3> QED BY <1>0, <1>1, <1>2, <3>2, <3>3, <3>4, <3>5, <3>6, <3>7, ZenonT(60) DEF BarrierExact
  <2> QED BY <2>1, <2>4, <2>5, <2>6, <2>7, <2>8, ZenonT(60) DEF RcuInv
<1> QED BY <1>4

-----------------------------------------------------------------------------
(* rcu_barrier() *)

(* The count is complete only when every online CPU has been counted. *)
LEMMA CountComplete ==
    ASSUME RcuInv, cpu_count = Cardinality(cpu_online_map), NEW c \in Cpus, barrier[c] = "spin"
    PROVE  Counted = cpu_online_map
<1>1. TypeOK /\ BarrierExact
  BY DEF RcuInv
<1>2. Counted \in SUBSET cpu_online_map
  BY <1>1 DEF BarrierExact, Counted, cpu_online_map
<1>3. IsFiniteSet(cpu_online_map)
  <2>1. cpu_online_map \in SUBSET Cpus
    BY DEF cpu_online_map
  <2> QED BY <2>1, RcuConstants, FS_Subset, ZenonT(60)
<1>4. cpu_count = Cardinality(Counted)
  BY <1>1 DEF BarrierExact
<1> QED BY <1>2, <1>3, <1>4, FS_Subset, ZenonT(60)

LEMMA BarrierOutInv ==
    ASSUME RcuInv, NEW c \in Cpus, BarrierOut(c)
    PROVE  RcuInv'
<1>0. TypeOK /\ Owners /\ BarrierExact /\ GraceRespected /\ SectionHoldsBatch
  BY DEF RcuInv
<1>1. /\ barrier[c] = "spin" /\ cpu_count = Cardinality(cpu_online_map)
      /\ barrier' = [barrier EXCEPT ![c] = "out"]
      /\ UNCHANGED <<ctrl, quiet, lists, pc, ret, count, hotplug, cpu_count, before, section>>
  BY DEF BarrierOut
<1>2. UNCHANGED <<lists, cur, completed, cpumask, phase, due, waits, lock, gone, reading>>
  BY <1>1 DEF ctrl, hotplug, section
<1>3. \A k \in Cpus : Queue(k)' = Queue(k)
  BY <1>1 DEF Queue, lists
<1>4. UNCHANGED <<donelist, curlist, batch, phase, waits, cur, completed, cpumask>>
  BY <1>2 DEF lists
<1>5. GraceRespected' /\ SectionHoldsBatch' /\ QueuesExact'
  BY <1>2, <1>3, <1>4, SameGrace, SameQueues, ZenonT(60)
<1>6. barrier'[c] = "out" /\ \A k \in Cpus \ {c} : barrier'[k] = barrier[k]
  BY <1>0, <1>1 DEF TypeOK, CtrlType
<1>7. TypeOK'
  <2>1. ListType'
    BY <1>0, <1>1, ZenonT(60) DEF TypeOK, ListType, lists
  <2>2. barrier' \in [Cpus -> {"no", "call", "spin", "out"}]
    BY <1>0, <1>1 DEF TypeOK, CtrlType
  <2>3. CtrlType'
    BY <1>0, <1>1, <2>2, ZenonT(60) DEF TypeOK, CtrlType, ctrl, quiet, hotplug, section
  <2> QED BY <2>1, <2>3 DEF TypeOK
<1>8. Live' = Live /\ cpu_online_map' = cpu_online_map
  BY <1>2, ZenonT(60) DEF Live, cpu_online_map
<1>9. Owners'
  BY <1>0, <1>1, <1>2, <1>8, ZenonT(60) DEF Owners
<1>10. BarrierExact'
  <2>1. Counted = cpu_online_map
    BY <1>1, CountComplete
  <2>2. Counted' = Counted
    BY <1>1, <1>2, <1>6, ZenonT(60) DEF Counted
  <2>3. phase[c] = "on" /\ due[c] = 0
    BY <1>0, <1>1, <2>1, ZenonT(60) DEF BarrierExact, Counted, cpu_online_map
  <2>4. /\ \A k \in Cpus : barrier'[k] # "no" => phase[k] = "on"
        /\ \A k \in Cpus : barrier'[k] # "spin" => due[k] = 0
    BY <1>0, <1>6, <2>3, ZenonT(60) DEF BarrierExact
  <2>5. /\ \A k \in Cpus : phase[k] \in {"on", "off"}
        /\ cpu_count = Cardinality(Counted)
        /\ \A y \in before : due[y] = 1
        /\ \A k \in Live : \A j \in DOMAIN Queue(k) : Queue(k)[j] \in before =>
              \/ barrier[k] = "call"
              \/ \E i \in DOMAIN Queue(k) : i > j /\ Queue(k)[i] = k
    BY <1>0, <1>1 DEF BarrierExact
  <2>6. \A k \in Live : barrier[k] = "call" => barrier'[k] = "call"
    BY <1>1, <1>6 DEF Live
  <2>7. \A k \in Live : Queue(k)' = Queue(k)
    BY <1>3 DEF Live
  <2> QED BY <1>1, <1>2, <1>8, <2>1, <2>2, <2>4, <2>5, <2>6, <2>7 DEF BarrierExact
<1> QED BY <1>5, <1>7, <1>9, <1>10, ZenonT(60) DEF RcuInv

(* The CPUs come to rcu_barrier_action(). *)
LEMMA BarrierRunInv ==
    ASSUME RcuInv, BarrierRun
    PROVE  RcuInv'
<1>0. TypeOK /\ Owners /\ QueuesExact /\ BarrierExact
  BY DEF RcuInv
<1>1. /\ NoHotplug
      /\ barrier' = [c \in Cpus |-> IF phase[c] = "on" THEN "call" ELSE "no"]
      /\ cpu_count' = 0 /\ before' = {x \in Heads : due[x] > 0}
      /\ UNCHANGED <<ctrl, quiet, lists, pc, ret, count, hotplug, section>>
  BY DEF BarrierRun, Stopped
<1>2. UNCHANGED <<lists, cur, completed, cpumask, phase, due, waits, lock, gone, reading>>
  BY <1>1 DEF ctrl, hotplug, section
<1>3. \A k \in Cpus : Queue(k)' = Queue(k)
  BY <1>1 DEF Queue, lists
<1>4. UNCHANGED <<donelist, curlist, batch, phase, waits, cur, completed, cpumask>>
  BY <1>2 DEF lists
<1>5. GraceRespected' /\ SectionHoldsBatch' /\ QueuesExact'
  BY <1>2, <1>3, <1>4, SameGrace, SameQueues, ZenonT(60)
<1>6. TypeOK'
  <2>1. ListType'
    BY <1>0, <1>1, ZenonT(60) DEF TypeOK, ListType, lists
  <2>2. barrier' \in [Cpus -> {"no", "call", "spin", "out"}] /\ cpu_count' \in Int /\ before' \subseteq Heads
    BY <1>1
  <2>3. CtrlType'
    BY <1>0, <1>1, <2>2, ZenonT(60) DEF TypeOK, CtrlType, ctrl, quiet, hotplug, section
  <2> QED BY <2>1, <2>3 DEF TypeOK
<1>7. Live' = Live /\ cpu_online_map' = cpu_online_map
  BY <1>2, ZenonT(60) DEF Live, cpu_online_map
<1>8. Owners'
  BY <1>0, <1>1, <1>2, <1>7, ZenonT(60) DEF Owners
<1>9. BarrierExact'
  <2>1. Counted' = {}
    BY <1>1 DEF Counted
  <2>2. Cardinality({}) = 0
    BY FS_EmptySet, ZenonT(60)
  <2>3. /\ \A k \in Cpus : barrier'[k] # "no" => phase[k] = "on"
        /\ \A k \in Cpus : due[k] = 0
        /\ \A k \in Cpus : phase[k] \in {"on", "off"}
    BY <1>0, <1>1 DEF BarrierExact, NoHotplug
  <2>4. \A y \in before' : due[y] = 1
    BY <1>0, <1>1 DEF QueuesExact
  <2>5. \A k \in Live : barrier'[k] = "call"
    BY <1>1, <2>3 DEF Live
  <2>6. \A k \in Cpus : barrier'[k] # "out"
    BY <1>1, ZenonT(60)
  <2> QED BY <1>1, <1>2, <1>7, <2>1, <2>2, <2>3, <2>4, <2>5, <2>6, ZenonT(60) DEF BarrierExact
<1> QED BY <1>5, <1>6, <1>8, <1>9 DEF RcuInv

(* A CPU queues its callback behind all others. *)
LEMMA BarrierCallInv ==
    ASSUME RcuInv, NEW c \in Cpus, BarrierCall(c)
    PROVE  RcuInv'
<1>0. TypeOK /\ Owners /\ BarrierExact
  BY DEF RcuInv
<1>1. /\ barrier[c] = "call" /\ call_rcu(c, c) /\ barrier' = [barrier EXCEPT ![c] = "spin"]
      /\ UNCHANGED <<ctrl, quiet, pc, ret, count, hotplug, cpu_count, before, reading>>
  BY DEF BarrierCall
<1>2. UNCHANGED <<phase, gone, cur, completed, cpumask, lock>>
  BY <1>1, ZenonT(60) DEF ctrl, hotplug
<1>3. c \in Live /\ c \in Heads /\ due[c] = 0 /\ phase[c] = "on"
  BY <1>0, <1>1, ZenonT(60) DEF BarrierExact, Live, Heads
<1>4. GraceRespected' /\ SectionHoldsBatch' /\ QueuesExact'
  BY <1>1, <1>2, <1>3, CallGrace, CallQueues, ZenonT(60)
<1>5. TypeOK'
  <2>1. ListType' /\ due' \in [Heads -> Int] /\ waits' \in [Heads -> SUBSET Cpus]
    BY <1>0, <1>1, <1>3, CallType, ZenonT(60)
  <2>2. barrier' \in [Cpus -> {"no", "call", "spin", "out"}]
    BY <1>0, <1>1 DEF TypeOK, CtrlType
  <2>3. CtrlType'
    BY <1>0, <1>1, <2>1, <2>2, ZenonT(60) DEF TypeOK, CtrlType, ctrl, quiet, hotplug
  <2> QED BY <2>1, <2>3, ZenonT(60) DEF TypeOK
<1>6. Live' = Live /\ cpu_online_map' = cpu_online_map
  BY <1>2 DEF Live, cpu_online_map
<1>7. Owners'
  <2>1. \A y \in Heads : waits'[y] \subseteq reading
    BY <1>0, <1>1, <1>3, CallType, ZenonT(60)
  <2> QED BY <1>0, <1>1, <1>2, <1>6, <2>1, ZenonT(60) DEF Owners
<1>8. BarrierExact'
  <2>1. due'[c] = 1 /\ \A y \in Heads \ {c} : due'[y] = due[y]
    BY <1>0, <1>1, <1>3 DEF call_rcu, TypeOK, CtrlType
  <2>2. barrier'[c] = "spin" /\ \A k \in Cpus \ {c} : barrier'[k] = barrier[k]
    BY <1>0, <1>1, ZenonT(60) DEF TypeOK, CtrlType
  <2>3. Counted' = Counted /\ c \notin Counted
    BY <1>1, <2>1, <2>2 DEF Counted, Heads
  <2>4. \A k \in Cpus : barrier[k] # "out"
    <3>1. c \in cpu_online_map
      BY <1>3, ZenonT(60) DEF cpu_online_map
    <3>2. (\E k \in Cpus : barrier[k] = "out") => Counted = cpu_online_map
      BY <1>0, <1>1, ZenonT(60) DEF BarrierExact
    <3> QED BY <2>3, <3>1, <3>2
  <2>5. c \notin before /\ before \subseteq Heads
    BY <1>0, <1>1, <1>3 DEF BarrierExact, TypeOK, CtrlType
  <2>6. \A y \in before : due'[y] = 1
    BY <1>0, <1>1, <2>1, <2>5, ZenonT(60) DEF BarrierExact
  <2>7. ASSUME NEW k \in Live, NEW j \in DOMAIN Queue(k)', Queue(k)'[j] \in before
        PROVE  barrier'[k] = "call" \/ \E i \in DOMAIN Queue(k)' : i > j /\ Queue(k)'[i] = k
    <3>1. CASE k # c
      <4>1. Queue(k)' = Queue(k) /\ k \in Cpus
        BY <1>1, <1>2, <1>3, <3>1, CallQueues, ZenonT(60) DEF Live
      <4> QED BY <1>0, <1>1, <2>2, <2>7, <3>1, <4>1 DEF BarrierExact
    <3>2. CASE k = c
      <4>1. Queue(c)' = Append(Queue(c), c) /\ Queue(c) \in Seq(Heads)
        BY <1>0, <1>1, <1>2, <1>3, CallQueues, QueueElems, ZenonT(60)
      <4>2. /\ DOMAIN Queue(c)' = 1..(Len(Queue(c)) + 1) /\ Queue(c)'[Len(Queue(c)) + 1] = c
            /\ Len(Queue(c)) \in Nat
        BY <4>1
      <4>3. j < Len(Queue(c)) + 1
        BY <2>5, <2>7, <3>2, <4>2
      <4> QED BY <3>2, <4>2, <4>3
    <3> QED BY <3>1, <3>2, ZenonT(60)
  <2>8. /\ \A k \in Cpus : barrier'[k] # "no" => phase[k] = "on"
        /\ \A k \in Cpus : barrier'[k] # "spin" => due'[k] = 0
    BY <1>0, <1>3, <2>1, <2>2 DEF BarrierExact, Heads
  <2>9. cpu_count = Cardinality(Counted) /\ \A k \in Cpus : phase[k] \in {"on", "off"}
    BY <1>0, <1>1 DEF BarrierExact
  <2>10. \A k \in Cpus : barrier'[k] # "out"
    BY <2>2, <2>4, ZenonT(60)
  <2> QED BY <1>1, <1>2, <1>6, <2>3, <2>6, <2>7, <2>8, <2>9, <2>10, ZenonT(60) DEF BarrierExact
<1> QED BY <1>4, <1>5, <1>7, <1>8 DEF RcuInv

(* stop_machine_run() returns: the callback of every CPU has run. *)
LEMMA BarrierReturnInv ==
    ASSUME RcuInv, BarrierReturn
    PROVE  RcuInv'
<1>0. TypeOK /\ Owners /\ BarrierExact
  BY DEF RcuInv
<1>1. /\ cpu_online_map = {c \in Cpus : barrier[c] = "out"}
      /\ barrier' = [c \in Cpus |-> "no"] /\ before' = {}
      /\ UNCHANGED <<ctrl, quiet, lists, pc, ret, count, hotplug, cpu_count, section>>
  BY DEF BarrierReturn
<1>2. UNCHANGED <<lists, cur, completed, cpumask, phase, due, waits, lock, gone, reading>>
  BY <1>1 DEF ctrl, hotplug, section
<1>3. \A k \in Cpus : Queue(k)' = Queue(k)
  BY <1>1, ZenonT(60) DEF Queue, lists
<1>4. UNCHANGED <<donelist, curlist, batch, phase, waits, cur, completed, cpumask>>
  BY <1>2 DEF lists
<1>5. GraceRespected' /\ SectionHoldsBatch' /\ QueuesExact'
  BY <1>2, <1>3, <1>4, SameGrace, SameQueues
<1>6. TypeOK'
  <2>1. ListType'
    BY <1>0, <1>1, ZenonT(60) DEF TypeOK, ListType, lists
  <2>2. barrier' \in [Cpus -> {"no", "call", "spin", "out"}] /\ before' \subseteq Heads
    BY <1>1
  <2>3. CtrlType'
    BY <1>0, <1>1, <2>2, ZenonT(60) DEF TypeOK, CtrlType, ctrl, quiet, hotplug, section
  <2> QED BY <2>1, <2>3 DEF TypeOK
<1>7. cpu_online_map' = cpu_online_map
  BY <1>2, ZenonT(60) DEF cpu_online_map
<1>8. Owners'
  BY <1>0, <1>1, <1>2, <1>7, ZenonT(60) DEF Owners
<1>9. \A k \in Cpus : due[k] = 0
  BY <1>0, <1>1 DEF BarrierExact, cpu_online_map
<1>10. BarrierExact'
  BY <1>1, <1>2, <1>9, ZenonT(60) DEF BarrierExact
<1> QED BY <1>5, <1>6, <1>8, <1>10 DEF RcuInv

-----------------------------------------------------------------------------
(* The theorems. *)

LEMMA InitInv ==
    ASSUME Init
    PROVE  RcuInv
<1>1. \A c \in Cpus : Queue(c) = <<>> /\ donelist[c] = <<>> /\ curlist[c] = <<>>
  <2>1. <<>> \o <<>> = <<>>
    OBVIOUS
  <2> QED BY <2>1 DEF Init, Queue
<1>2. Elems(<<>>) = {} /\ NoRepeats(<<>>)
  BY DEF Elems, NoRepeats
<1>3. Live \subseteq Cpus
  BY DEF Live
<1>4. TypeOK
  <2>1. <<>> \in Seq(Heads)
    OBVIOUS
  <2>2. ListType
    BY <2>1 DEF Init, ListType
  <2>3. CtrlType
    <3>1. "idle" \in Places /\ "idle" \in Returns
      BY DEF Places, Returns
    <3>2. /\ cur \in Int /\ completed \in Int /\ next_pending \in BOOLEAN
          /\ lock \in Cpus \cup {NoCpu} /\ cpumask \subseteq Cpus
          /\ cpu_count \in Int /\ before \subseteq Heads /\ reading \subseteq Cpus
      <4>1. /\ cur = 0 /\ completed = 0 /\ next_pending = FALSE /\ lock = NoCpu /\ cpumask = {}
            /\ cpu_count = 0 /\ before = {} /\ reading = {}
        BY ZenonT(60) DEF Init
      <4>2. next_pending \in BOOLEAN /\ lock \in Cpus \cup {NoCpu}
        BY <4>1, ZenonT(60)
      <4>3. /\ cur \in Int /\ completed \in Int /\ cpu_count \in Int
        BY <4>1
      <4>4. cpumask \subseteq Cpus /\ before \subseteq Heads /\ reading \subseteq Cpus
        BY <4>1, ZenonT(60)
      <4> QED BY <4>2, <4>3, <4>4, ZenonT(60)
    <3>3. /\ quiescbatch \in [Cpus -> Int] /\ qs_pending \in [Cpus -> BOOLEAN]
          /\ pc \in [Cpus -> Places] /\ ret \in [Cpus -> Returns] /\ count \in [Cpus -> Int]
      BY <3>1 DEF Init
    <3>4. /\ phase \in [Cpus -> {"on", "off", "prepared", "dead"}]
          /\ gone \in [Cpus -> Cpus \cup {NoCpu}]
          /\ barrier \in [Cpus -> {"no", "call", "spin", "out"}]
      BY ZenonT(60) DEF Init
    <3>5. due \in [Heads -> Int] /\ waits \in [Heads -> SUBSET Cpus]
      BY DEF Init
    <3> QED BY <3>2, <3>3, <3>4, <3>5, ZenonT(60) DEF CtrlType
  <2> QED BY <2>2, <2>3 DEF TypeOK
<1>5. GraceRespected /\ SectionHoldsBatch
  BY <1>1, <1>2, <1>3, ZenonT(60) DEF GraceRespected, SectionHoldsBatch
<1>6. Owners
  BY DEF Init, Owners, cpu_online_map
<1>7. QueuesExact
  <2>1. \A x \in Heads : due[x] = 0
    BY ZenonT(60) DEF Init
  <2> QED BY <1>1, <1>2, <1>3, <2>1, ZenonT(60) DEF QueuesExact
<1>8. BarrierExact
  <2>1. \A c \in Cpus : barrier[c] = "no" /\ due[c] = 0
    BY DEF Init, Heads
  <2> QED BY <2>1, ZenonT(60) DEF BarrierExact
<1> QED BY <1>4, <1>5, <1>6, <1>7, <1>8, ZenonT(60) DEF RcuInv

LEMMA StutterInv ==
    ASSUME RcuInv, UNCHANGED vars
    PROVE  RcuInv'
<1>0. TypeOK /\ Owners
  BY DEF RcuInv
<1>1. UNCHANGED <<ctrl, quiet, lists, pc, ret, count, phase, gone, downs, flush, section>>
  BY DEF vars, hotplug
<1>2. UNCHANGED <<cur, completed, cpumask, lock, due, waits, reading>>
  BY <1>1, ZenonT(60) DEF ctrl, section
<1>3. GraceRespected' /\ SectionHoldsBatch' /\ QueuesExact' /\ BarrierExact'
  BY <1>1, <1>2, SameAll
<1>4. ListType' /\ CtrlType'
  <2>1. ListType'
    BY <1>0, <1>1, ZenonT(60) DEF TypeOK, ListType, lists
  <2>2. CtrlType'
    BY <1>0, <1>1, ZenonT(60) DEF TypeOK, CtrlType, ctrl, quiet, flush, section
  <2> QED BY <2>1, <2>2
<1>5. Owners'
  BY <1>0, <1>1, <1>2, ZenonT(60) DEF Owners, cpu_online_map
<1> QED BY <1>3, <1>4, <1>5, ZenonT(60) DEF RcuInv, TypeOK

LEMMA NextInv ==
    ASSUME RcuInv, Next
    PROVE  RcuInv'
<1>1. ASSUME NEW c \in Cpus, Handler(c) PROVE RcuInv'
  <2>1. CASE \/ Softirq(c) \/ NoNextBatch(c) \/ AskPending(c) \/ StartLock(c) \/ StartClear(c)
            \/ Check(c) \/ Note(c) \/ NothingToInvoke(c)
    BY <2>1, HandlerWalkInv
  <2>2. CASE ProcessDone(c)
    BY <2>2, ProcessDoneInv
  <2>3. CASE NextBatch(c)
    BY <2>3, NextBatchInv, ZenonT(60)
  <2>4. CASE StartCur(c)
    BY <2>4, StartCurInv
  <2>5. CASE Quiet(c)
    BY <2>5, QuietInv
  <2>6. CASE Invoke(c)
    BY <2>6, InvokeInv
  <2> QED BY <1>1, <2>1, <2>2, <2>3, <2>4, <2>5, <2>6, ZenonT(60) DEF Handler
<1>2. ASSUME NEW c \in Cpus, Hotplug(c) PROVE RcuInv'
  BY <1>2, OfflineInv, OfflineQuietInv, OfflineMoveInv, ZenonT(60) DEF Hotplug
<1>3. ASSUME NEW c \in Cpus, BarrierCall(c) \/ BarrierOut(c) PROVE RcuInv'
  BY <1>3, BarrierCallInv, BarrierOutInv
<1>4. ASSUME NEW c \in Cpus, ReadLock(c) \/ ReadUnlock(c) PROVE RcuInv'
  BY <1>4, ReadLockInv, ReadUnlockInv
<1>5. ASSUME NEW c \in Cpus, UpPrepare(c) \/ Online(c) \/ UpFails(c) \/ Down(c) PROVE RcuInv'
  BY <1>5, UpPrepareInv, ComeAndGoInv
<1>6. ASSUME NEW c \in Cpus, NEW x \in Callbacks, CallRcu(c, x) PROVE RcuInv'
  BY <1>6, CallRcuInv
<1>7. CASE BarrierRun \/ BarrierReturn
  BY <1>7, BarrierRunInv, BarrierReturnInv
<1> QED BY <1>1, <1>2, <1>3, <1>4, <1>5, <1>6, <1>7, ZenonT(60) DEF Next, Step

(* RcuInv is inductive, for any CPUs, callbacks and limits. *)
THEOREM RcuInvariance == Spec => []RcuInv
<1>1. Init => RcuInv
  BY InitInv
<1>2. RcuInv /\ [Next]_vars => RcuInv'
  BY NextInv, StutterInv
<1> QED BY <1>1, <1>2, PTL DEF Spec

(* No callback runs before the sections open at its call_rcu() are over.      *)
THEOREM GraceKept == Spec => []GraceRespected
<1>1. RcuInv => GraceRespected
  BY DEF RcuInv
<1> QED BY <1>1, RcuInvariance, PTL

(* rcu_barrier() returns only when what was queued before it has been invoked. *)
LEMMA BarrierEmpty ==
    ASSUME RcuInv
    PROVE  BarrierFlushes
<1> SUFFICES ASSUME NEW o \in Cpus, barrier[o] = "out", NEW x \in before PROVE FALSE
  BY DEF BarrierFlushes
<1>0. TypeOK /\ QueuesExact /\ BarrierExact
  BY ZenonT(60) DEF RcuInv
<1>1. /\ Counted = cpu_online_map /\ due[x] = 1 /\ x \in Heads
      /\ \A c \in Cpus : phase[c] \in {"on", "off"}
      /\ \A c \in Live : \A j \in DOMAIN Queue(c) : Queue(c)[j] \in before =>
           \/ barrier[c] = "call"
           \/ \E i \in DOMAIN Queue(c) : i > j /\ Queue(c)[i] = c
  BY <1>0, ZenonT(60) DEF BarrierExact, TypeOK, CtrlType
<1>2. PICK k \in Live : x \in Elems(Queue(k))
  BY <1>0, <1>1 DEF QueuesExact
<1>3. k \in Cpus /\ k \in Counted
  BY <1>1, <1>2, ZenonT(60) DEF Live, cpu_online_map
<1>4. barrier[k] # "call" /\ due[k] = 0
  BY <1>3, ZenonT(60) DEF Counted
<1>5. PICK j \in DOMAIN Queue(k) : Queue(k)[j] = x
  BY <1>2, ZenonT(60) DEF Elems
<1>6. PICK i \in DOMAIN Queue(k) : Queue(k)[i] = k
  BY <1>1, <1>2, <1>4, <1>5, ZenonT(60)
<1>7. k \in Elems(Queue(k)) /\ k \in Heads
  BY <1>3, <1>6, ZenonT(60) DEF Elems, Heads
<1>8. due[k] = 1
  BY <1>0, <1>2, <1>7, ZenonT(60) DEF QueuesExact
<1> QED BY <1>4, <1>8

(* As BarrierFlushes says, on any number of CPUs. *)
THEOREM BarrierKept == Spec => []BarrierFlushes
BY BarrierEmpty, RcuInvariance, PTL

(* What a step does to sections and heads is a step of GracePeriod or none.   *)
LEMMA GraceStep ==
    ASSUME RcuInv, [Next]_vars
    PROVE  [Grace!Next]_(Grace!vars)
<1>0. TypeOK /\ QueuesExact /\ GraceRespected /\ BarrierExact
  BY DEF RcuInv
<1>1. ASSUME NEW c \in Cpus, ReadLock(c) PROVE Grace!Next
  BY <1>1, ZenonT(60) DEF ReadLock, Grace!ReadLock, Grace!Next
<1>2. ASSUME NEW c \in Cpus, ReadUnlock(c) PROVE Grace!Next
  BY <1>2, ZenonT(60) DEF ReadUnlock, Grace!ReadUnlock, Grace!Next
<1>3. ASSUME NEW c \in Cpus, NEW x \in Heads, call_rcu(c, x), due[x] = 0, UNCHANGED reading
      PROVE  Grace!Next
  <2>1. due' = [due EXCEPT ![x] = 1] /\ waits' = [waits EXCEPT ![x] = reading]
    BY <1>0, <1>3 DEF call_rcu, TypeOK, CtrlType
  <2>2. Grace!Call(x)
    BY <1>3, <2>1 DEF Grace!Call
  <2> QED BY <2>2, ZenonT(60) DEF Grace!Next
<1>4. ASSUME NEW c \in Cpus, NEW x \in Callbacks, CallRcu(c, x) PROVE Grace!Next
  BY <1>3, <1>4 DEF CallRcu, Heads
<1>5. ASSUME NEW c \in Cpus, BarrierCall(c) PROVE Grace!Next
  <2>1. c \in Heads /\ due[c] = 0 /\ call_rcu(c, c) /\ UNCHANGED reading
    BY <1>0, <1>5 DEF BarrierCall, BarrierExact, Heads
  <2> QED BY <1>3, <2>1, ZenonT(60)
<1>6. ASSUME NEW c \in Cpus, Invoke(c) PROVE Grace!Next
  <2> DEFINE x == Head(donelist[c])
  <2>1. /\ donelist[c] # <<>> /\ due' = [due EXCEPT ![x] = due[x] - 1] /\ UNCHANGED <<reading, waits>>
        /\ pc[c] = "invoke"
    BY <1>6, ZenonT(60) DEF Invoke, At
  <2>2. donelist[c] \in Seq(Heads)
    BY <1>0, QueueElems, ZenonT(60)
  <2>3. x \in Heads /\ x \in Elems(donelist[c])
    BY <2>1, <2>2 DEF Elems
  <2>4. c \in Live
    BY <2>1, ZenonT(60) DEF RcuInv, Owners, Live
  <2>5. x \in Elems(Queue(c))
    BY <1>0, <2>3, QueueElems, ZenonT(60)
  <2> HIDE DEF x
  <2>6. due[x] = 1 /\ waits[x] = {}
    BY <1>0, <2>3, <2>4, <2>5, ZenonT(60) DEF QueuesExact, GraceRespected
  <2>7. Grace!Invoke(x)
    BY <2>1, <2>6 DEF Grace!Invoke
  <2> QED BY <2>3, <2>7, ZenonT(60) DEF Grace!Next
<1>7. ASSUME UNCHANGED section PROVE UNCHANGED Grace!vars
  BY <1>7 DEF section, Grace!vars
<1>8. ASSUME NEW c \in Cpus, Handler(c), ~Invoke(c) PROVE UNCHANGED section
  BY <1>8, ZenonT(60) DEF Handler, Softirq, ProcessDone, NextBatch, NoNextBatch, AskPending, StartLock, StartClear,
     StartCur, Check, Note, Quiet, NothingToInvoke
<1>9. ASSUME NEW c \in Cpus, Hotplug(c) PROVE UNCHANGED section
  BY <1>9, ZenonT(60) DEF Hotplug, Offline, OfflineQuiet, OfflineMove
<1>10. ASSUME NEW c \in Cpus, UpPrepare(c) \/ Online(c) \/ UpFails(c) \/ Down(c) \/ BarrierOut(c)
       PROVE  UNCHANGED section
  BY <1>10, ZenonT(60) DEF UpPrepare, Online, UpFails, Down, BarrierOut
<1>11. ASSUME BarrierRun \/ BarrierReturn PROVE UNCHANGED section
  BY <1>11, ZenonT(60) DEF BarrierRun, BarrierReturn
<1>12. ASSUME UNCHANGED vars PROVE UNCHANGED section
  BY <1>12, ZenonT(60) DEF vars
<1>13. ASSUME Next PROVE Grace!Next \/ UNCHANGED section
  <2>1. CASE BarrierRun \/ BarrierReturn
    BY <1>11, <2>1
  <2>2. ASSUME NEW c \in Cpus, Step(c) PROVE Grace!Next \/ UNCHANGED section
    BY <1>5, <1>6, <1>8, <1>9, <1>10, <2>2, ZenonT(60) DEF Step
  <2> QED BY <1>1, <1>2, <1>4, <1>10, <1>13, <2>1, <2>2, ZenonT(60) DEF Next
<1> QED BY <1>7, <1>12, <1>13, ZenonT(60)

(* rcupdate.c implements grace periods: IsGracePeriod. *)
THEOREM GraceRefinement == Spec => IsGracePeriod
<1>1. Init => Grace!Init
  BY DEF Init, Grace!Init
<1>2. RcuInv /\ [Next]_vars => [Grace!Next]_(Grace!vars)
  BY GraceStep
<1> QED BY <1>1, <1>2, RcuInvariance, PTL DEF Spec, Grace!Spec, IsGracePeriod
=============================================================================
