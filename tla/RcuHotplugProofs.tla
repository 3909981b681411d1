-------------------------- MODULE RcuHotplugProofs --------------------------
(***************************************************************************)
(* Read-side critical sections opening and closing, and CPUs coming and    *)
(* going, preserve the inductive invariant RcuInv of Rcu.                  *)
(***************************************************************************)
EXTENDS RcuHandlerProofs

USE SMTT(60), ZenonT(60)

-----------------------------------------------------------------------------
(* Readers. *)

LEMMA ReadLockInv ==
    ASSUME RcuInv, NEW c \in Cpus, ReadLock(c)
    PROVE  RcuInv'
<1>0. TypeOK /\ Owners
  BY DEF RcuInv
<1>1. /\ UNCHANGED <<ctrl, quiet, lists, pc, ret, count, hotplug, flush, due, waits>>
      /\ reading' = reading \cup {c} /\ c \in cpu_online_map
  BY DEF ReadLock, Runs
<1>2. UNCHANGED <<lists, cur, completed, cpumask, phase, flush, due, waits, lock, gone>>
  BY <1>1 DEF ctrl, hotplug
<1>3. GraceRespected' /\ SectionHoldsBatch' /\ QueuesExact' /\ BarrierExact'
  BY <1>2, SameAll
<1>4. TypeOK'
  <2>1. ListType'
    BY <1>0, <1>1, ZenonT(60) DEF TypeOK, ListType, lists
  <2>2. reading' \subseteq Cpus
    BY <1>0, <1>1 DEF TypeOK, CtrlType
  <2>3. CtrlType'
    BY <1>0, <1>1, <2>2, ZenonT(60) DEF TypeOK, CtrlType, ctrl, quiet, hotplug, flush
  <2> QED BY <2>1, <2>3 DEF TypeOK
<1>5. cpu_online_map' = cpu_online_map
  BY <1>2 DEF cpu_online_map
<1>6. Owners'
  BY <1>0, <1>1, <1>2, <1>5 DEF Owners
<1> QED BY <1>3, <1>4, <1>6 DEF RcuInv

LEMMA ReadUnlockInv ==
    ASSUME RcuInv, NEW c \in Cpus, ReadUnlock(c)
    PROVE  RcuInv'
<1>0. TypeOK /\ Owners /\ GraceRespected /\ SectionHoldsBatch
  BY DEF RcuInv
<1>1. /\ UNCHANGED <<ctrl, quiet, lists, pc, ret, count, hotplug, flush, due>>
      /\ reading' = reading \ {c} /\ waits' = [x \in Heads |-> waits[x] \ {c}]
  BY DEF ReadUnlock
<1>2. UNCHANGED <<cur, completed, cpumask, phase, lock, gone, donelist, curlist, nxtlist, batch>>
  BY <1>1 DEF ctrl, hotplug, lists
<1>3. Live' = Live /\ cpu_online_map' = cpu_online_map
  BY <1>2 DEF Live, cpu_online_map
<1>4. QueuesExact' /\ BarrierExact'
  <2>1. \A k \in Cpus : Queue(k)' = Queue(k)
    BY <1>2 DEF Queue
  <2> QED BY <1>1, <1>2, <2>1, SameQueues, SameBarrier
<1>5. \A k \in Live : Elems(donelist[k]) \subseteq Heads /\ Elems(curlist[k]) \subseteq Heads
  BY <1>0 DEF Live, TypeOK, ListType, Elems
<1>6. GraceRespected'
  BY <1>0, <1>1, <1>2, <1>3, <1>5 DEF GraceRespected
<1>7. SectionHoldsBatch'
  BY <1>0, <1>1, <1>2, <1>3, <1>5 DEF SectionHoldsBatch
<1>8. TypeOK'
  <2>1. ListType'
    BY <1>0, <1>1, ZenonT(60) DEF TypeOK, ListType, lists
  <2>2. reading' \subseteq Cpus /\ waits' \in [Heads -> SUBSET Cpus]
    BY <1>0, <1>1 DEF TypeOK, CtrlType
  <2>3. CtrlType'
    BY <1>0, <1>1, <2>2, ZenonT(60) DEF TypeOK, CtrlType, ctrl, quiet, hotplug, flush
  <2> QED BY <2>1, <2>3 DEF TypeOK
<1>9. Owners'
  <2>1. \A x \in Heads : waits'[x] \subseteq reading'
    BY <1>0, <1>1 DEF Owners
  <2> QED BY <1>0, <1>1, <1>2, <1>3, <2>1, ZenonT(60) DEF Owners
<1> QED BY <1>4, <1>6, <1>7, <1>8, <1>9 DEF RcuInv

-----------------------------------------------------------------------------
(* CPU hotplug. *)

(* Without rcu_barrier() there is nothing for BarrierExact to say but that    *)
(* its heads are on no list.                                                  *)
LEMMA NoBarrier ==
    ASSUME RcuInv, \A k \in Cpus : barrier[k] = "no", UNCHANGED <<barrier, due>>
    PROVE  BarrierExact'
<1>1. \A k \in Cpus : due[k] = 0
  BY DEF RcuInv, BarrierExact
<1> QED BY <1>1 DEF BarrierExact

(* A CPU whose phase is neither "on" nor "off" rules a barrier out. *)
LEMMA HotplugNoBarrier ==
    ASSUME RcuInv, NEW k \in Cpus, phase[k] \notin {"on", "off"}
    PROVE  \A c \in Cpus : barrier[c] = "no"
BY DEF RcuInv, BarrierExact

LEMMA UpPrepareInv ==
    ASSUME RcuInv, NEW k \in Cpus, UpPrepare(k)
    PROVE  RcuInv'
<1>0. TypeOK /\ Owners /\ GraceRespected /\ SectionHoldsBatch /\ QueuesExact
  BY DEF RcuInv
<1>1. /\ \A c \in Cpus : barrier[c] = "no"
      /\ phase[k] = "off" /\ phase' = [phase EXCEPT ![k] = "prepared"]
      /\ batch' = [batch EXCEPT ![k] = 0]
      /\ nxtlist' = [nxtlist EXCEPT ![k] = <<>>]
      /\ curlist' = [curlist EXCEPT ![k] = <<>>]
      /\ donelist' = [donelist EXCEPT ![k] = <<>>]
      /\ UNCHANGED <<ctrl, pc, ret, count, gone, downs, flush, section>>
  BY DEF UpPrepare, NoHotplug
<1>2. UNCHANGED <<cur, completed, cpumask, lock, barrier, due, waits, reading>>
  BY <1>1 DEF ctrl, flush, section
<1>3. /\ phase'[k] = "prepared" /\ \A c \in Cpus \ {k} : phase'[c] = phase[c]
      /\ nxtlist'[k] = <<>> /\ curlist'[k] = <<>> /\ donelist'[k] = <<>>
      /\ \A c \in Cpus \ {k} : /\ nxtlist'[c] = nxtlist[c] /\ curlist'[c] = curlist[c]
                               /\ donelist'[c] = donelist[c] /\ batch'[c] = batch[c]
  BY <1>0, <1>1, ZenonT(60) DEF TypeOK, CtrlType, ListType
<1>4. BarrierExact'
  BY <1>1, <1>2, NoBarrier
<1>5. TypeOK'
  <2>1. <<>> \in Seq(Heads)
    OBVIOUS
  <2>2. nxtlist' \in [Cpus -> Seq(Heads)] /\ curlist' \in [Cpus -> Seq(Heads)] /\ donelist' \in [Cpus -> Seq(Heads)]
    BY <1>0, <1>1, <2>1 DEF TypeOK, ListType
  <2>3. batch' \in [Cpus -> Int] /\ qlen' \in [Cpus -> Int] /\ unlimited' \in [Cpus -> BOOLEAN]
    BY <1>0 DEF UpPrepare, TypeOK, ListType
  <2>4. quiescbatch' \in [Cpus -> Int] /\ qs_pending' \in [Cpus -> BOOLEAN]
    BY <1>0 DEF UpPrepare, TypeOK, CtrlType
  <2>5. phase' \in [Cpus -> {"on", "off", "prepared", "dead"}]
    BY <1>0, <1>1 DEF TypeOK, CtrlType
  <2>6. ListType'
    BY <2>2, <2>3 DEF ListType
  <2>7. CtrlType'
    BY <1>0, <1>1, <2>4, <2>5, ZenonT(60) DEF TypeOK, CtrlType, ctrl, flush, section
  <2> QED BY <2>6, <2>7 DEF TypeOK
<1>6. Live' = Live \cup {k} /\ k \notin Live /\ cpu_online_map' = cpu_online_map
  BY <1>1, <1>3 DEF Live, cpu_online_map
<1>7. Elems(<<>>) = {} /\ NoRepeats(<<>>)
  BY DEF Elems, NoRepeats
<1>8. GraceRespected' /\ SectionHoldsBatch'
  <2>1. GraceRespected'
    BY <1>0, <1>2, <1>3, <1>6, <1>7 DEF GraceRespected, Live
  <2>2. SectionHoldsBatch'
    BY <1>0, <1>2, <1>3, <1>6, <1>7 DEF SectionHoldsBatch, Live
  <2> QED BY <2>1, <2>2
<1>9. QueuesExact'
  <2>1. Queue(k)' = <<>>
    <3>1. <<>> \in Seq(Heads) /\ <<>> \o <<>> = <<>>
      OBVIOUS
    <3> QED BY <1>3, <3>1 DEF Queue
  <2>2. \A c \in Live : Queue(c)' = Queue(c)
    BY <1>3, <1>6, ZenonT(60) DEF Queue, Live
  <2>3. \A c \in Live \cup {k} : NoRepeats(Queue(c)')
    BY <1>0, <1>7, <2>1, <2>2 DEF QueuesExact
  <2>4. \A c, d \in Live \cup {k} : c # d => Elems(Queue(c)') \cap Elems(Queue(d)') = {}
    BY <1>0, <1>7, <2>1, <2>2 DEF QueuesExact
  <2>5. \A x \in Heads : (\E c \in Live \cup {k} : x \in Elems(Queue(c)')) <=> (\E c \in Live : x \in Elems(Queue(c)))
    BY <1>7, <2>1, <2>2
  <2>6. \A x \in Heads : due[x] = IF \E c \in Live \cup {k} : x \in Elems(Queue(c)') THEN 1 ELSE 0
    BY <1>0, <2>5, ZenonT(60) DEF QueuesExact
  <2> QED BY <1>2, <1>6, <2>3, <2>4, <2>6 DEF QueuesExact
<1>10. Owners'
  <2>1. \A m \in Cpus : gone[m] # NoCpu => phase'[gone[m]] = "dead"
    BY <1>0, <1>1, <1>3 DEF Owners, TypeOK, CtrlType
  <2>2. \A c \in Cpus : pc[c] # "idle" => phase'[c] = "on"
    BY <1>0, <1>1, <1>3 DEF Owners
  <2> QED BY <1>0, <1>1, <1>2, <1>6, <2>1, <2>2, ZenonT(60) DEF Owners
<1> QED BY <1>4, <1>5, <1>8, <1>9, <1>10 DEF RcuInv

(* A CPU that changes its phase, its lists counting before and after. *)
LEMMA PhaseInv ==
    ASSUME RcuInv, NEW k \in Cpus, NEW p \in {"on", "dead"}, phase[k] # "off",
           phase' = [phase EXCEPT ![k] = p], \A c \in Cpus : barrier[c] = "no",
           p = "dead" => k \notin reading /\ pc[k] = "idle",
           phase[k] # "dead",
           UNCHANGED <<ctrl, quiet, lists, pc, ret, count, gone, flush, section>>
    PROVE  RcuInv'
<1>0. TypeOK /\ Owners /\ GraceRespected /\ SectionHoldsBatch /\ QueuesExact
  BY ZenonT(60) DEF RcuInv
<1>1. UNCHANGED <<cur, completed, cpumask, lock, barrier, due, waits, reading, donelist, curlist, nxtlist, batch>>
  BY DEF ctrl, flush, section, lists
<1>2. phase'[k] = p /\ \A c \in Cpus \ {k} : phase'[c] = phase[c]
  BY <1>0 DEF TypeOK, CtrlType
<1>3. Live' = Live
  BY <1>2, ZenonT(60) DEF Live
<1>4. BarrierExact'
  BY <1>1, NoBarrier
<1>5. GraceRespected' /\ SectionHoldsBatch'
  BY <1>0, <1>1, <1>3, ZenonT(60) DEF GraceRespected, SectionHoldsBatch
<1>6. QueuesExact'
  <2>1. \A c \in Cpus : Queue(c)' = Queue(c)
    BY <1>1, ZenonT(60) DEF Queue
  <2> QED BY <1>0, <1>1, <1>3, <2>1, ZenonT(60) DEF QueuesExact, Live
<1>7. TypeOK'
  <2>1. ListType'
    BY <1>0, ZenonT(60) DEF TypeOK, ListType, lists
  <2>2. phase' \in [Cpus -> {"on", "off", "prepared", "dead"}]
    BY <1>0 DEF TypeOK, CtrlType
  <2>3. CtrlType'
    BY <1>0, <2>2, ZenonT(60) DEF TypeOK, CtrlType, ctrl, quiet, flush, section
  <2> QED BY <2>1, <2>3 DEF TypeOK
<1>8. Owners'
  <2>1. reading \subseteq cpu_online_map'
    BY <1>0, <1>2, ZenonT(60) DEF Owners, cpu_online_map
  <2>2. \A m \in Cpus : gone[m] # NoCpu => phase'[gone[m]] = "dead"
    BY <1>0, <1>2 DEF Owners, TypeOK, CtrlType
  <2>3. \A c \in Cpus : pc[c] # "idle" => phase'[c] = "on"
    BY <1>0, <1>2 DEF Owners
  <2> QED BY <1>0, <1>1, <2>1, <2>2, <2>3, ZenonT(60) DEF Owners
<1> QED BY <1>4, <1>5, <1>6, <1>7, <1>8, ZenonT(60) DEF RcuInv

LEMMA ComeAndGoInv ==
    ASSUME RcuInv, NEW k \in Cpus, Online(k) \/ UpFails(k) \/ Down(k)
    PROVE  RcuInv'
<1>0. Owners
  BY DEF RcuInv
<1>1. CASE Online(k)
  <2>1. /\ phase[k] = "prepared" /\ phase' = [phase EXCEPT ![k] = "on"]
        /\ UNCHANGED <<ctrl, quiet, lists, pc, ret, count, gone, flush, section>>
    BY <1>1 DEF Online
  <2>2. \A c \in Cpus : barrier[c] = "no"
    BY <2>1, HotplugNoBarrier
  <2> QED BY <2>1, <2>2, PhaseInv, ZenonT(60)
<1>2. CASE UpFails(k)
  <2>1. /\ phase[k] = "prepared" /\ phase' = [phase EXCEPT ![k] = "dead"]
        /\ UNCHANGED <<ctrl, quiet, lists, pc, ret, count, gone, flush, section>>
    BY <1>2 DEF UpFails
  <2>2. \A c \in Cpus : barrier[c] = "no"
    BY <2>1, HotplugNoBarrier
  <2>3. k \notin reading /\ pc[k] = "idle"
    BY <1>0, <2>1 DEF Owners, cpu_online_map
  <2> QED BY <2>1, <2>2, <2>3, PhaseInv, ZenonT(60)
<1>3. CASE Down(k)
  <2>1. /\ phase[k] = "on" /\ phase' = [phase EXCEPT ![k] = "dead"]
        /\ \A c \in Cpus : barrier[c] = "no"
        /\ k \notin reading /\ pc[k] = "idle"
        /\ UNCHANGED <<ctrl, quiet, lists, pc, ret, count, gone, flush, section>>
    BY <1>3 DEF Down, Stopped, NoHotplug, cpu_online_map
  <2> QED BY <2>1, PhaseInv, ZenonT(60)
<1> QED BY <1>1, <1>2, <1>3

-----------------------------------------------------------------------------
(* A dead CPU is taken over. *)

LEMMA OfflineInv ==
    ASSUME RcuInv, NEW m \in Cpus, NEW k \in Cpus, Offline(m, k)
    PROVE  RcuInv'
<1>0. TypeOK /\ Owners
  BY ZenonT(60) DEF RcuInv
<1>1. /\ phase[k] = "dead" /\ gone[m] = NoCpu /\ pc[m] = "idle" /\ phase[m] = "on"
      /\ \A c \in Cpus : gone[c] # k
      /\ gone' = [gone EXCEPT ![m] = k] /\ pc' = [pc EXCEPT ![m] = "offline"]
      /\ UNCHANGED <<ctrl, quiet, lists, ret, count, phase, downs, flush, section>>
  BY DEF Offline, At, Goto, cpu_online_map
<1>2. UNCHANGED <<lists, cur, completed, cpumask, lock, phase, flush, due, waits, reading>>
  BY <1>1 DEF ctrl, section
<1>3. GraceRespected' /\ SectionHoldsBatch' /\ QueuesExact' /\ BarrierExact'
  BY <1>2, SameAll
<1>4. TypeOK'
  <2>1. ListType'
    BY <1>0, <1>1, ZenonT(60) DEF TypeOK, ListType, lists
  <2>2. gone' \in [Cpus -> Cpus \cup {NoCpu}] /\ pc' \in [Cpus -> Places]
    BY <1>0, <1>1 DEF TypeOK, CtrlType, Places
  <2>3. CtrlType'
    BY <1>0, <1>1, <2>2, ZenonT(60) DEF TypeOK, CtrlType, ctrl, quiet, flush, section
  <2> QED BY <2>1, <2>3 DEF TypeOK
<1>5. /\ gone'[m] = k /\ pc'[m] = "offline" /\ k # NoCpu
      /\ \A c \in Cpus \ {m} : gone'[c] = gone[c] /\ pc'[c] = pc[c]
  BY <1>0, <1>1, RcuConstants DEF TypeOK, CtrlType
<1>6. Owners'
  <2>1. /\ completed' <= cur'
        /\ reading' \subseteq cpu_online_map' /\ \A x \in Heads : waits'[x] \subseteq reading'
    BY <1>0, <1>2 DEF Owners, cpu_online_map
  <2>2. \A c \in Cpus : pc'[c] # "idle" => phase'[c] = "on"
    BY <1>0, <1>1, <1>5, ZenonT(60) DEF Owners
  <2>3. \A c \in Cpus : pc'[c] \in {"start", "start_cur"} => lock' = c /\ completed' = cur'
    BY <1>0, <1>2, <1>5, ZenonT(60) DEF Owners
  <2>4. \A c \in Cpus : gone'[c] # NoCpu => phase'[gone'[c]] = "dead"
    BY <1>0, <1>1, <1>5 DEF Owners
  <2>5. \A c, d \in Cpus : gone'[c] = gone'[d] /\ gone'[c] # NoCpu => c = d
    BY <1>0, <1>1, <1>5 DEF Owners
  <2>6. \A c \in Cpus : gone'[c] = NoCpu => pc'[c] \notin {"offline", "move"} /\ ret'[c] # "move"
    BY <1>0, <1>1, <1>5 DEF Owners
  <2> QED BY <2>1, <2>2, <2>3, <2>4, <2>5, <2>6, ZenonT(60) DEF Owners
<1> QED BY <1>3, <1>4, <1>6 DEF RcuInv

(* Who is inside rcu_offline_cpu() runs, and for a CPU that does not read. *)
LEMMA OfflineFacts ==
    ASSUME RcuInv, NEW m \in Cpus, pc[m] \in {"offline", "move"}
    PROVE  /\ phase[m] = "on" /\ gone[m] \in Cpus /\ phase[gone[m]] = "dead"
           /\ gone[m] # m /\ gone[m] \notin reading /\ pc[gone[m]] = "idle"
<1>0. TypeOK /\ Owners
  BY DEF RcuInv
<1>1. gone[m] \in Cpus \cup {NoCpu} /\ gone[m] # NoCpu
  BY <1>0 DEF TypeOK, CtrlType, Owners
<1>2. phase[gone[m]] = "dead" /\ phase[m] = "on"
  BY <1>0, <1>1 DEF Owners
<1>3. gone[m] \notin reading /\ pc[gone[m]] = "idle"
  BY <1>0, <1>1, <1>2 DEF Owners, cpu_online_map
<1> QED BY <1>1, <1>2, <1>3

LEMMA OfflineQuietInv ==
    ASSUME RcuInv, NEW m \in Cpus, OfflineQuiet(m)
    PROVE  RcuInv'
<1>0. TypeOK
  BY ZenonT(60) DEF RcuInv
<1>1. /\ pc[m] = "offline" /\ lock = NoCpu
      /\ UNCHANGED <<cur, next_pending, quiet, lists, count, hotplug, flush, section>>
  BY ZenonT(60) DEF OfflineQuiet, At
<1>2. /\ phase[m] = "on" /\ gone[m] \in Cpus \ reading /\ gone[m] # NoCpu
  BY <1>1, OfflineFacts, RcuConstants
<1>3. CASE cpu_quiet(gone[m], m, "move")
  BY <1>1, <1>2, <1>3, CpuQuietInv, ZenonT(60)
<1>4. CASE Goto(m, "move") /\ UNCHANGED <<completed, cpumask, lock, ret>>
  <2>1. UNCHANGED <<lists, cur, completed, cpumask, phase, gone, downs, flush, section, count>>
    BY <1>1, <1>4 DEF hotplug
  <2>2. /\ next_pending' \in BOOLEAN /\ lock' \in Cpus \cup {NoCpu}
        /\ quiescbatch' \in [Cpus -> Int] /\ qs_pending' \in [Cpus -> BOOLEAN]
        /\ ret' \in [Cpus -> Returns]
    BY <1>0, <1>1, <1>4, ZenonT(60) DEF TypeOK, CtrlType, quiet
  <2>3. "move" \in Places /\ "move" \notin {"start", "start_cur"}
    BY DEF Places
  <2> QED BY <1>1, <1>2, <1>4, <2>1, <2>2, <2>3, WalkInv
<1> QED BY <1>3, <1>4 DEF OfflineQuiet

(* rcu_move_batch() puts the queue of the dead CPU behind that of m. *)
LEMMA MoveQueues ==
    ASSUME RcuInv, NEW m \in Cpus, OfflineMove(m)
    PROVE  /\ Queue(m)' = Queue(m) \o Queue(gone[m])
           /\ \A c \in Cpus \ {m} : Queue(c)' = Queue(c)
           /\ nxtlist' \in [Cpus -> Seq(Heads)]
<1>0. TypeOK
  BY DEF RcuInv
<1>1. /\ pc[m] = "move"
      /\ nxtlist' = [nxtlist EXCEPT ![m] = nxtlist[m] \o Queue(gone[m])]
      /\ UNCHANGED <<curlist, donelist>>
  BY DEF OfflineMove, At
<1>2. gone[m] \in Cpus
  BY <1>1, OfflineFacts
<1> DEFINE a == donelist[m] \o curlist[m]
           b == nxtlist[m]
           q == Queue(gone[m])
<1>3. a \in Seq(Heads) /\ b \in Seq(Heads) /\ q \in Seq(Heads)
  BY <1>0, <1>2, QueueElems
<1>4. b \o q \in Seq(Heads)
  BY <1>3
<1>5. nxtlist' = [nxtlist EXCEPT ![m] = b \o q]
  BY <1>1
<1>6. Queue(m) = (a \o b)
  BY DEF Queue
<1> HIDE DEF b, q
<1>7. /\ nxtlist' \in [Cpus -> Seq(Heads)] /\ nxtlist'[m] = b \o q
      /\ \A c \in Cpus \ {m} : nxtlist'[c] = nxtlist[c]
  BY <1>0, <1>4, <1>5, ZenonT(60) DEF TypeOK, ListType
<1>8. Queue(m)' = a \o (b \o q)
  BY <1>1, <1>7, ZenonT(60) DEF Queue
<1>9. \A c \in Cpus \ {m} : Queue(c)' = Queue(c)
  BY <1>1, <1>7, ZenonT(60) DEF Queue
<1> HIDE DEF a
<1>10. (a \o b) \o q = a \o (b \o q)
  BY <1>3
<1>11. Queue(m)' = Queue(m) \o q
  BY <1>6, <1>8, <1>10, ZenonT(60)
<1> QED BY <1>7, <1>9, <1>11, ZenonT(60) DEF q

LEMMA OfflineMoveInv ==
    ASSUME RcuInv, NEW m \in Cpus, OfflineMove(m)
    PROVE  RcuInv'
<1>0. TypeOK /\ Owners /\ GraceRespected /\ SectionHoldsBatch /\ QueuesExact
  BY DEF RcuInv
<1> DEFINE k == gone[m]
<1>1. /\ pc[m] = "move" /\ qlen' = [qlen EXCEPT ![m] = @ + qlen[k]]
      /\ phase' = [phase EXCEPT ![k] = "off"]
      /\ gone' = [gone EXCEPT ![m] = NoCpu] /\ pc' = [pc EXCEPT ![m] = "idle"]
      /\ ret' = [ret EXCEPT ![m] = "idle"]
      /\ UNCHANGED <<ctrl, quiet, batch, curlist, donelist, unlimited, count, downs, flush, section>>
  BY ZenonT(60) DEF OfflineMove, At, Goto
<1>2. /\ phase[m] = "on" /\ k \in Cpus /\ phase[k] = "dead"
      /\ k # m /\ k \notin reading /\ pc[k] = "idle" /\ k # NoCpu
  BY <1>1, OfflineFacts, RcuConstants
<1>3. UNCHANGED <<cur, completed, cpumask, lock, barrier, due, waits, reading>>
  BY <1>1 DEF ctrl, flush, section
<1> HIDE DEF k
<1>4. /\ phase'[k] = "off" /\ gone'[m] = NoCpu /\ pc'[m] = "idle" /\ ret'[m] = "idle"
      /\ \A c \in Cpus \ {k} : phase'[c] = phase[c]
      /\ \A c \in Cpus \ {m} : gone'[c] = gone[c] /\ pc'[c] = pc[c] /\ ret'[c] = ret[c]
  BY <1>0, <1>1, <1>2, ZenonT(60) DEF TypeOK, CtrlType
<1>5. \A c \in Cpus : barrier[c] = "no"
  BY <1>2, HotplugNoBarrier
<1>6. BarrierExact'
  BY <1>3, <1>5, NoBarrier, ZenonT(60)
<1>7. Live' = Live \ {k} /\ k \in Live /\ m \in Live
  BY <1>2, <1>4, ZenonT(60) DEF Live
<1>8. GraceRespected' /\ SectionHoldsBatch'
  <2>1. GraceRespected'
    BY <1>0, <1>1, <1>3, <1>7, ZenonT(60) DEF GraceRespected
  <2>2. SectionHoldsBatch'
    BY <1>0, <1>1, <1>3, <1>7 DEF SectionHoldsBatch
  <2> QED BY <2>1, <2>2
<1>9. /\ Queue(m)' = Queue(m) \o Queue(k)
      /\ \A c \in Cpus \ {m} : Queue(c)' = Queue(c)
      /\ nxtlist' \in [Cpus -> Seq(Heads)]
  BY MoveQueues, ZenonT(60) DEF k
<1>10. QueuesExact'
  <2>1. Queue(m) \in Seq(Heads) /\ Queue(k) \in Seq(Heads)
    BY <1>0, <1>2, QueueElems, ZenonT(60)
  <2>2. NoRepeats(Queue(m)) /\ NoRepeats(Queue(k)) /\ Elems(Queue(m)) \cap Elems(Queue(k)) = {}
    BY <1>0, <1>2, <1>7 DEF QueuesExact
  <2>3. Elems(Queue(m)') = Elems(Queue(m)) \cup Elems(Queue(k))
    BY <1>9, <2>1, ElemsConcat
  <2>4. NoRepeats(Queue(m)')
    BY <1>9, <2>1, <2>2, NoRepeatsConcat
  <2>5. \A c \in Live \ {k} : NoRepeats(Queue(c)')
    BY <1>0, <1>9, <2>4, ZenonT(60) DEF QueuesExact, Live
  <2>6. ASSUME NEW c \in Live \ {k}, NEW d \in Live \ {k}, c # d
        PROVE  Elems(Queue(c)') \cap Elems(Queue(d)') = {}
    <3>1. /\ Elems(Queue(c)) \cap Elems(Queue(d)) = {}
          /\ Elems(Queue(c)) \cap Elems(Queue(k)) = {} /\ Elems(Queue(k)) \cap Elems(Queue(d)) = {}
      BY <1>0, <1>7, <2>6 DEF QueuesExact
    <3>2. CASE c = m
      BY <1>9, <2>3, <2>6, <3>1, <3>2, ZenonT(60) DEF Live
    <3>3. CASE d = m
      BY <1>9, <2>3, <2>6, <3>1, <3>3, ZenonT(60) DEF Live
    <3>4. CASE c # m /\ d # m
      BY <1>9, <3>1, <3>4 DEF Live
    <3> QED BY <3>2, <3>3, <3>4
  <2>7. \A x \in Heads : (\E c \in Live \ {k} : x \in Elems(Queue(c)'))
                          <=> (\E c \in Live : x \in Elems(Queue(c)))
    BY <1>2, <1>7, <1>9, <2>3, ZenonT(60) DEF Live
  <2>8. \A x \in Heads : due[x] = IF \E c \in Live \ {k} : x \in Elems(Queue(c)') THEN 1 ELSE 0
    BY <1>0, <2>7, ZenonT(60) DEF QueuesExact
  <2> QED BY <1>3, <1>7, <2>5, <2>6, <2>8, ZenonT(60) DEF QueuesExact
<1>11. TypeOK'
  <2>1. qlen' \in [Cpus -> Int]
    BY <1>0, <1>1, <1>2 DEF TypeOK, ListType
  <2>2. ListType'
    BY <1>0, <1>1, <1>9, <2>1, ZenonT(60) DEF TypeOK, ListType
  <2>3. /\ gone' \in [Cpus -> Cpus \cup {NoCpu}] /\ pc' \in [Cpus -> Places]
        /\ phase' \in [Cpus -> {"on", "off", "prepared", "dead"}] /\ ret' \in [Cpus -> Returns]
    BY <1>0, <1>1, ZenonT(60) DEF TypeOK, CtrlType, Places, Returns
  <2>4. CtrlType'
    BY <1>0, <1>1, <2>3, ZenonT(60) DEF TypeOK, CtrlType, ctrl, quiet, flush, section
  <2> QED BY <2>2, <2>4 DEF TypeOK
<1>12. Owners'
  <2>0. /\ completed <= cur /\ reading \subseteq cpu_online_map /\ \A x \in Heads : waits[x] \subseteq reading
        /\ \A c \in Cpus : pc[c] # "idle" => phase[c] = "on"
        /\ \A c \in Cpus : pc[c] \in {"start", "start_cur"} => lock = c /\ completed = cur
        /\ \A c \in Cpus : gone[c] # NoCpu => phase[gone[c]] = "dead"
        /\ \A c, d \in Cpus : gone[c] = gone[d] /\ gone[c] # NoCpu => c = d
        /\ \A c \in Cpus : gone[c] = NoCpu => pc[c] \notin {"offline", "move"} /\ ret[c] # "move"
    BY <1>0, ZenonT(60) DEF Owners
  <2>1. /\ completed' <= cur'
        /\ reading' \subseteq cpu_online_map' /\ \A x \in Heads : waits'[x] \subseteq reading'
    BY <1>2, <1>3, <1>4, <2>0, ZenonT(60) DEF cpu_online_map
  <2>2. \A c \in Cpus : pc'[c] # "idle" => phase'[c] = "on"
    BY <1>2, <1>4, <2>0
  <2>3. \A c \in Cpus : pc'[c] \in {"start", "start_cur"} => lock' = c /\ completed' = cur'
    BY <1>3, <1>4, <2>0, ZenonT(60)
  <2>4. \A c \in Cpus : gone'[c] # NoCpu => phase'[gone'[c]] = "dead"
    <3>1. ASSUME NEW c \in Cpus, gone'[c] # NoCpu PROVE gone[c] \in Cpus \ {k} /\ gone'[c] = gone[c]
      BY <1>0, <1>2, <1>4, <2>0, <3>1 DEF k, TypeOK, CtrlType
    <3> QED BY <1>4, <2>0, <3>1
  <2>5. \A c, d \in Cpus : gone'[c] = gone'[d] /\ gone'[c] # NoCpu => c = d
    BY <1>4, <2>0
  <2>6. \A c \in Cpus : gone'[c] = NoCpu => pc'[c] \notin {"offline", "move"} /\ ret'[c] # "move"
    BY <1>4, <2>0
  <2> QED BY <2>1, <2>2, <2>3, <2>4, <2>5, <2>6, ZenonT(60) DEF Owners
<1> QED BY <1>6, <1>8, <1>10, <1>11, <1>12 DEF RcuInv
=============================================================================
