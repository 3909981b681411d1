-------------------------- MODULE RcuHandlerProofs --------------------------
(***************************************************************************)
(* The steps that move callbacks between the lists of a CPU, call_rcu()    *)
(* among them, preserve the inductive invariant RcuInv of Rcu.             *)
(***************************************************************************)
EXTENDS RcuBatchProofs

USE SMTT(60), ZenonT(60)

-----------------------------------------------------------------------------
(* The batch that completed moves behind those that did before. *)
LEMMA ProcessDoneInv ==
    ASSUME RcuInv, NEW c \in Cpus, ProcessDone(c)
    PROVE  RcuInv'
<1>0. TypeOK /\ Owners /\ GraceRespected /\ SectionHoldsBatch
  BY DEF RcuInv
<1>1. /\ Goto(c, "next")
      /\ UNCHANGED <<ctrl, quiet, batch, nxtlist, qlen, unlimited, ret, count, hotplug, flush, section>>
      /\ donelist' = [donelist EXCEPT ![c] = IF BatchDone(c) THEN donelist[c] \o curlist[c] ELSE donelist[c]]
      /\ curlist' = [curlist EXCEPT ![c] = IF BatchDone(c) THEN <<>> ELSE curlist[c]]
  BY DEF ProcessDone
<1>2. UNCHANGED <<cur, completed, cpumask, lock, next_pending, phase, gone, due, waits, reading>>
  BY <1>1 DEF ctrl, hotplug, section
<1>3. /\ donelist[c] \in Seq(Heads) /\ curlist[c] \in Seq(Heads) /\ nxtlist[c] \in Seq(Heads)
      /\ donelist[c] \o curlist[c] \in Seq(Heads)
  BY <1>0, QueueElems
<1>4. /\ donelist'[c] = IF BatchDone(c) THEN donelist[c] \o curlist[c] ELSE donelist[c]
      /\ curlist'[c] = IF BatchDone(c) THEN <<>> ELSE curlist[c]
      /\ \A k \in Cpus \ {c} : donelist'[k] = donelist[k] /\ curlist'[k] = curlist[k]
  BY <1>0, <1>1, ZenonT(60) DEF TypeOK, ListType
<1>5. TypeOK'
  <2>1. <<>> \in Seq(Heads)
    OBVIOUS
  <2>2. donelist' \in [Cpus -> Seq(Heads)] /\ curlist' \in [Cpus -> Seq(Heads)]
    BY <1>0, <1>1, <1>3, <2>1 DEF TypeOK, ListType
  <2>3. ListType'
    BY <1>0, <1>1, <2>2, ZenonT(60) DEF TypeOK, ListType
  <2>4. pc' \in [Cpus -> Places]
    BY <1>0, <1>1 DEF TypeOK, CtrlType, Goto, Places
  <2>5. CtrlType'
    BY <1>0, <1>1, <2>4, ZenonT(60) DEF TypeOK, CtrlType, ctrl, quiet, hotplug, flush, section
  <2> QED BY <2>3, <2>5 DEF TypeOK
<1>6. \A k \in Cpus : Queue(k)' = Queue(k)
  <2> SUFFICES ASSUME NEW k \in Cpus PROVE Queue(k)' = Queue(k)
    OBVIOUS
  <2>1. CASE k = c /\ BatchDone(c)
    <3>1. (donelist[c] \o curlist[c]) \o <<>> = donelist[c] \o curlist[c]
      BY <1>3
    <3> QED BY <1>1, <1>4, <2>1, <3>1, ZenonT(60) DEF Queue
  <2>2. CASE k = c /\ ~BatchDone(c)
    BY <1>1, <1>4, <2>2, ZenonT(60) DEF Queue
  <2>3. CASE k # c
    BY <1>1, <1>4, <2>3, ZenonT(60) DEF Queue
  <2> QED BY <2>1, <2>2, <2>3
<1>7. QueuesExact' /\ BarrierExact'
  BY <1>1, <1>2, <1>6, SameQueues, SameBarrier
<1>8. Live' = Live
  BY <1>2 DEF Live
<1>9. GraceRespected'
  <2> SUFFICES ASSUME NEW k \in Live, NEW x \in Elems(donelist'[k]), NEW r \in waits[x] PROVE FALSE
    BY <1>2, <1>8 DEF GraceRespected
  <2>1. k \in Cpus
    BY DEF Live
  <2>2. x \notin Elems(donelist[k])
    BY <1>0 DEF GraceRespected
  <2>3. k = c /\ BatchDone(c) /\ x \in Elems(curlist[c])
    <3>1. k = c /\ BatchDone(c)
      BY <1>4, <2>1, <2>2, ZenonT(60)
    <3>2. Elems(donelist'[c]) = Elems(donelist[c]) \cup Elems(curlist[c])
      BY <1>3, <1>4, <3>1, ElemsConcat
    <3> QED BY <2>2, <3>1, <3>2
  <2>4. completed < batch[c]
    BY <1>0, <2>3 DEF SectionHoldsBatch
  <2> QED BY <1>0, <2>3, <2>4 DEF BatchDone, TypeOK, CtrlType, ListType
<1>10. SectionHoldsBatch'
  <2> SUFFICES ASSUME NEW k \in Live, NEW x \in Elems(curlist'[k]), NEW r \in waits[x]
               PROVE  completed < batch[k] /\ (cur >= batch[k] => r \in cpumask)
    BY <1>1, <1>2, <1>8 DEF SectionHoldsBatch
  <2>1. k \in Cpus /\ Elems(<<>>) = {}
    BY DEF Live, Elems
  <2>2. x \in Elems(curlist[k])
    BY <1>4, <2>1
  <2> QED BY <1>0, <2>2 DEF SectionHoldsBatch
<1>11. Owners'
  <2>1. completed' <= cur'
    BY <1>0, <1>2 DEF Owners
  <2>2. "next" \in Places /\ "next" \notin {"start", "start_cur", "offline", "move"}
    BY DEF Places
  <2>3. ret' = ret /\ (ret[c] = "move" => gone[c] # NoCpu) /\ phase[c] = "on"
    BY <1>0, <1>1 DEF Owners, ProcessDone, At
  <2> QED BY <1>1, <1>2, <2>1, <2>2, <2>3, OwnersStep
<1> QED BY <1>5, <1>7, <1>9, <1>10, <1>11 DEF RcuInv

(* The new callbacks become a batch that has not been started. *)
LEMMA NextBatchInv ==
    ASSUME RcuInv, NEW c \in Cpus, NextBatch(c)
    PROVE  RcuInv'
<1>0. TypeOK /\ Owners /\ GraceRespected /\ SectionHoldsBatch
  BY DEF RcuInv
<1>1. /\ Goto(c, "ask") /\ curlist[c] = <<>>
      /\ UNCHANGED <<ctrl, quiet, donelist, qlen, unlimited, ret, count, hotplug, flush, section>>
      /\ curlist' = [curlist EXCEPT ![c] = nxtlist[c]]
      /\ nxtlist' = [nxtlist EXCEPT ![c] = <<>>]
      /\ batch' = [batch EXCEPT ![c] = cur + 1]
  BY DEF NextBatch
<1>2. UNCHANGED <<cur, completed, cpumask, lock, next_pending, phase, gone, due, waits, reading>>
  BY <1>1 DEF ctrl, hotplug, section
<1>3. /\ donelist[c] \in Seq(Heads) /\ curlist[c] \in Seq(Heads) /\ nxtlist[c] \in Seq(Heads)
      /\ donelist[c] \o nxtlist[c] \in Seq(Heads)
  BY <1>0, QueueElems
<1>4. /\ curlist'[c] = nxtlist[c] /\ nxtlist'[c] = <<>> /\ batch'[c] = cur + 1
      /\ \A k \in Cpus \ {c} : curlist'[k] = curlist[k] /\ nxtlist'[k] = nxtlist[k] /\ batch'[k] = batch[k]
  BY <1>0, <1>1, ZenonT(60) DEF TypeOK, ListType
<1>5. TypeOK'
  <2>1. <<>> \in Seq(Heads) /\ cur + 1 \in Int
    BY <1>0 DEF TypeOK, CtrlType
  <2>2. curlist' \in [Cpus -> Seq(Heads)] /\ nxtlist' \in [Cpus -> Seq(Heads)] /\ batch' \in [Cpus -> Int]
    BY <1>0, <1>1, <1>3, <2>1 DEF TypeOK, ListType
  <2>3. ListType'
    BY <1>0, <1>1, <2>2, ZenonT(60) DEF TypeOK, ListType
  <2>4. pc' \in [Cpus -> Places]
    BY <1>0, <1>1 DEF TypeOK, CtrlType, Goto, Places
  <2>5. CtrlType'
    BY <1>0, <1>1, <2>4, ZenonT(60) DEF TypeOK, CtrlType, ctrl, quiet, hotplug, flush, section
  <2> QED BY <2>3, <2>5 DEF TypeOK
<1>6. \A k \in Cpus : Queue(k)' = Queue(k)
  <2> SUFFICES ASSUME NEW k \in Cpus PROVE Queue(k)' = Queue(k)
    OBVIOUS
  <2>1. CASE k = c
    <3>1. (donelist[c] \o nxtlist[c]) \o <<>> = donelist[c] \o nxtlist[c]
      BY <1>3
    <3>2. donelist[c] \o curlist[c] = donelist[c]
      BY <1>1, <1>3
    <3> QED BY <1>1, <1>4, <2>1, <3>1, <3>2, ZenonT(60) DEF Queue
  <2>2. CASE k # c
    BY <1>1, <1>4, <2>2, ZenonT(60) DEF Queue
  <2> QED BY <2>1, <2>2
<1>7. QueuesExact' /\ BarrierExact'
  BY <1>1, <1>2, <1>6, SameQueues, SameBarrier, ZenonT(60)
<1>8. Live' = Live
  BY <1>2 DEF Live
<1>9. GraceRespected'
  BY <1>0, <1>1, <1>2, <1>8 DEF GraceRespected
<1>10. SectionHoldsBatch'
  <2> SUFFICES ASSUME NEW k \in Live, NEW x \in Elems(curlist'[k]), NEW r \in waits[x]
               PROVE  completed < batch'[k] /\ (cur >= batch'[k] => r \in cpumask)
    BY <1>2, <1>8 DEF SectionHoldsBatch
  <2>1. CASE k = c
    BY <1>0, <1>4, <2>1 DEF Owners, TypeOK, CtrlType
  <2>2. CASE k # c
    <3>1. batch'[k] = batch[k] /\ curlist'[k] = curlist[k]
      BY <1>4, <2>2, ZenonT(60) DEF Live
    <3> QED BY <1>0, <3>1 DEF SectionHoldsBatch
  <2> QED BY <2>1, <2>2
<1>11. Owners'
  <2>1. completed' <= cur'
    BY <1>0, <1>2 DEF Owners
  <2>2. "ask" \in Places /\ "ask" \notin {"start", "start_cur", "offline", "move"}
    BY ZenonT(60) DEF Places
  <2>3. ret' = ret /\ (ret[c] = "move" => gone[c] # NoCpu) /\ phase[c] = "on"
    BY <1>0, <1>1 DEF Owners, NextBatch, At
  <2> QED BY <1>1, <1>2, <2>1, <2>2, <2>3, OwnersStep, ZenonT(60)
<1> QED BY <1>5, <1>7, <1>9, <1>10, <1>11 DEF RcuInv

(* call_rcu() of a head that is on no list. *)
LEMMA CallQueues ==
    ASSUME RcuInv, NEW c \in Live, NEW x \in Heads, due[x] = 0, call_rcu(c, x), UNCHANGED phase
    PROVE  /\ QueuesExact'
           /\ Queue(c)' = Append(Queue(c), x)
           /\ \A k \in Cpus \ {c} : Queue(k)' = Queue(k)
           /\ \A k \in Live : x \notin Elems(Queue(k))
<1>0. TypeOK /\ QueuesExact /\ c \in Cpus
  BY DEF RcuInv, Live
<1>1. /\ nxtlist'[c] = Append(nxtlist[c], x)
      /\ \A k \in Cpus \ {c} : nxtlist'[k] = nxtlist[k]
      /\ due'[x] = due[x] + 1 /\ \A y \in Heads \ {x} : due'[y] = due[y]
      /\ UNCHANGED <<curlist, donelist>>
  BY <1>0, ZenonT(60) DEF call_rcu, TypeOK, ListType, CtrlType
<1>2. /\ nxtlist[c] \in Seq(Heads) /\ donelist[c] \o curlist[c] \in Seq(Heads) /\ Queue(c) \in Seq(Heads)
  BY <1>0, QueueElems
<1>3. Queue(c)' = Append(Queue(c), x)
  <2> DEFINE s == donelist[c] \o curlist[c]
             t == nxtlist[c]
  <2>1. s \in Seq(Heads) /\ t \in Seq(Heads)
    BY <1>2
  <2>2. Queue(c)' = s \o Append(t, x) /\ Queue(c) = s \o t
    BY <1>1 DEF Queue
  <2> HIDE DEF s, t
  <2>3. s \o Append(t, x) = Append(s \o t, x)
    BY <2>1
  <2> QED BY <2>2, <2>3
<1>4. \A k \in Cpus \ {c} : Queue(k)' = Queue(k)
  BY <1>1, ZenonT(60) DEF Queue
<1>5. \A k \in Live : x \notin Elems(Queue(k))
  BY <1>0 DEF QueuesExact
<1>6. Elems(Queue(c)') = Elems(Queue(c)) \cup {x} /\ NoRepeats(Queue(c)')
  <2>1. NoRepeats(Queue(c)) /\ x \notin Elems(Queue(c))
    BY <1>0, <1>5 DEF QueuesExact
  <2> QED BY <1>2, <1>3, <2>1, AddLast
<1>7. Live' = Live
  BY DEF Live
<1>8. QueuesExact'
  <2>1. ASSUME NEW k \in Live PROVE NoRepeats(Queue(k)')
    BY <1>0, <1>4, <1>6 DEF QueuesExact, Live
  <2>2. ASSUME NEW k \in Live, NEW d \in Live, k # d PROVE Elems(Queue(k)') \cap Elems(Queue(d)') = {}
    <3>1. Elems(Queue(k)) \cap Elems(Queue(d)) = {}
      BY <1>0, <2>2 DEF QueuesExact
    <3>2. CASE k = c
      BY <1>4, <1>5, <1>6, <2>2, <3>1, <3>2 DEF Live
    <3>3. CASE d = c
      BY <1>4, <1>5, <1>6, <2>2, <3>1, <3>3 DEF Live
    <3>4. CASE k # c /\ d # c
      BY <1>4, <3>1, <3>4 DEF Live
    <3> QED BY <3>2, <3>3, <3>4
  <2>3. ASSUME NEW y \in Heads
        PROVE  due'[y] = IF \E k \in Live : y \in Elems(Queue(k)') THEN 1 ELSE 0
    <3>1. CASE y = x
      BY <1>1, <1>6, <3>1
    <3>2. CASE y # x
      <4>1. (\E k \in Live : y \in Elems(Queue(k)')) <=> (\E k \in Live : y \in Elems(Queue(k)))
        BY <1>4, <1>6, <3>2 DEF Live
      <4> QED BY <1>0, <1>1, <3>2, <4>1 DEF QueuesExact
    <3> QED BY <3>1, <3>2
  <2> QED BY <1>7, <2>1, <2>2, <2>3 DEF QueuesExact
<1> QED BY <1>3, <1>4, <1>5, <1>8

(* call_rcu() is right about sections: no list has the head yet. *)
LEMMA CallGrace ==
    ASSUME RcuInv, NEW c \in Live, NEW x \in Heads, due[x] = 0, call_rcu(c, x),
           UNCHANGED <<phase, cur, completed, cpumask>>
    PROVE  GraceRespected' /\ SectionHoldsBatch'
<1>0. TypeOK /\ GraceRespected /\ SectionHoldsBatch
  BY DEF RcuInv
<1>1. /\ \A y \in Heads \ {x} : waits'[y] = waits[y]
      /\ UNCHANGED <<curlist, donelist, batch>>
  BY <1>0, ZenonT(60) DEF call_rcu, TypeOK, CtrlType
<1>2. Live' = Live
  BY DEF Live
<1>3. ASSUME NEW k \in Live, NEW y \in Elems(donelist[k]) \cup Elems(curlist[k])
      PROVE  waits'[y] = waits[y]
  <2>1. k \in Cpus
    BY DEF Live
  <2>2. y \in Elems(Queue(k))
    BY <1>0, <2>1, QueueElems, ZenonT(60)
  <2>3. y # x
    BY <2>2, CallQueues, ZenonT(60)
  <2>4. y \in Heads
    BY <1>0, <1>3, <2>1 DEF TypeOK, ListType, Elems
  <2> QED BY <1>1, <2>3, <2>4
<1> QED BY <1>0, <1>1, <1>2, <1>3 DEF GraceRespected, SectionHoldsBatch

(* The types of what call_rcu() changes; the sections that it makes a new      *)
(* callback wait for are those in progress.                                   *)
LEMMA CallType ==
    ASSUME TypeOK, NEW c \in Cpus, NEW x \in Heads, call_rcu(c, x)
    PROVE  /\ ListType' /\ due' \in [Heads -> Int] /\ waits' \in [Heads -> SUBSET Cpus]
           /\ Owners => \A y \in Heads : waits'[y] \subseteq reading
<1>1. /\ Append(nxtlist[c], x) \in Seq(Heads) /\ qlen[c] + 1 \in Int /\ due[x] + 1 \in Int
      /\ reading \in SUBSET Cpus
  <2>1. nxtlist[c] \in Seq(Heads) /\ qlen[c] \in Int
    BY ZenonT(60) DEF TypeOK, ListType
  <2>2. due[x] \in Int /\ reading \in SUBSET Cpus
    BY ZenonT(60) DEF TypeOK, CtrlType
  <2> QED BY <2>1, <2>2
<1>2. nxtlist' \in [Cpus -> Seq(Heads)] /\ qlen' \in [Cpus -> Int]
  BY <1>1 DEF call_rcu, TypeOK, ListType
<1>3. unlimited' \in [Cpus -> BOOLEAN]
  BY DEF call_rcu, TypeOK, ListType
<1>4. due' \in [Heads -> Int] /\ waits' \in [Heads -> SUBSET Cpus]
  BY <1>1, ZenonT(60) DEF call_rcu, TypeOK, CtrlType
<1>5. ListType'
  BY <1>2, <1>3, ZenonT(60) DEF call_rcu, TypeOK, ListType
<1>6. ASSUME Owners PROVE \A y \in Heads : waits'[y] \subseteq reading
  BY <1>6 DEF call_rcu, Owners, TypeOK, CtrlType
<1> QED BY <1>4, <1>5, <1>6

LEMMA CallRcuInv ==
    ASSUME RcuInv, NEW c \in Cpus, NEW x \in Callbacks, CallRcu(c, x)
    PROVE  RcuInv'
<1>0. TypeOK /\ Owners /\ BarrierExact
  BY ZenonT(60) DEF RcuInv
<1>1. /\ c \in Live /\ x \in Heads /\ x \notin Cpus /\ due[x] = 0 /\ call_rcu(c, x)
      /\ UNCHANGED <<ctrl, quiet, pc, ret, count, hotplug, flush, reading>>
  BY RcuConstants DEF CallRcu, Runs, cpu_online_map, Live, Heads
<1>2. UNCHANGED <<phase, gone, cur, completed, cpumask, lock, barrier, cpu_count, before>>
  BY <1>1 DEF ctrl, hotplug, flush
<1>3. GraceRespected' /\ SectionHoldsBatch' /\ QueuesExact'
  BY <1>1, <1>2, CallGrace, CallQueues
<1>4. TypeOK'
  <2>1. ListType' /\ due' \in [Heads -> Int] /\ waits' \in [Heads -> SUBSET Cpus]
    BY <1>0, <1>1, CallType
  <2>2. CtrlType'
    BY <1>0, <1>1, <2>1, ZenonT(60) DEF TypeOK, CtrlType, ctrl, quiet, hotplug, flush
  <2> QED BY <2>1, <2>2 DEF TypeOK
<1>5. Owners'
  <2>1. \A y \in Heads : waits'[y] \subseteq reading
    BY <1>0, <1>1, CallType
  <2>2. cpu_online_map' = cpu_online_map
    BY <1>2 DEF cpu_online_map
  <2> QED BY <1>0, <1>1, <1>2, <2>1, <2>2, ZenonT(60) DEF Owners
<1>6. BarrierExact'
  <2>1. \A y \in Heads \ {x} : due'[y] = due[y]
    BY <1>0, <1>1, ZenonT(60) DEF call_rcu, TypeOK, CtrlType
  <2>2. \A k \in Cpus : due'[k] = due[k]
    BY <1>1, <2>1, ZenonT(60) DEF Heads
  <2>3. Counted' = Counted /\ Live' = Live /\ cpu_online_map' = cpu_online_map
    BY <1>2, <2>2, ZenonT(60) DEF Counted, Live, cpu_online_map
  <2>4. ASSUME \E k \in Cpus : barrier[k] # "no"
        PROVE  \A y \in before : due'[y] = 1
    <3>1. x \notin before
      BY <1>0, <1>1, <2>4 DEF BarrierExact
    <3>2. before \subseteq Heads
      BY <1>0, ZenonT(60) DEF TypeOK, CtrlType
    <3> QED BY <1>0, <2>1, <2>4, <3>1, <3>2, ZenonT(60) DEF BarrierExact
  <2>5. ASSUME \E k \in Cpus : barrier[k] # "no", NEW k \in Live, NEW j \in DOMAIN Queue(k)', Queue(k)'[j] \in before
        PROVE  barrier[k] = "call" \/ \E i \in DOMAIN Queue(k)' : i > j /\ Queue(k)'[i] = k
    <3>1. CASE k # c
      <4>1. Queue(k)' = Queue(k)
        BY <1>1, <1>2, <3>1, CallQueues, ZenonT(60) DEF Live
      <4> QED BY <1>0, <2>5, <4>1 DEF BarrierExact
    <3>2. CASE k = c
      <4>1. Queue(c)' = Append(Queue(c), x) /\ Queue(c) \in Seq(Heads)
        BY <1>0, <1>1, <1>2, CallQueues, QueueElems, ZenonT(60)
      <4>2. x \notin before
        BY <1>0, <1>1, <2>5 DEF BarrierExact
      <4>3. j \in DOMAIN Queue(c) /\ Queue(c)[j] = Queue(c)'[j]
        BY <2>5, <3>2, <4>1, <4>2
      <4>4. \A i \in DOMAIN Queue(c) : i \in DOMAIN Queue(c)' /\ Queue(c)'[i] = Queue(c)[i]
        BY <4>1
      <4> QED BY <1>0, <2>5, <3>2, <4>3, <4>4 DEF BarrierExact
    <3> QED BY <3>1, <3>2, ZenonT(60)
  <2> QED BY <1>0, <1>2, <2>2, <2>3, <2>4, <2>5, ZenonT(60) DEF BarrierExact
<1> QED BY <1>3, <1>4, <1>5, <1>6 DEF RcuInv

-----------------------------------------------------------------------------
(* rcu_do_batch() *)

(* The head of the queue is invoked. *)
LEMMA InvokeQueues ==
    ASSUME RcuInv, NEW c \in Live, donelist[c] # <<>>,
           donelist' = [donelist EXCEPT ![c] = Tail(donelist[c])],
           due' = [due EXCEPT ![Head(donelist[c])] = due[Head(donelist[c])] - 1],
           UNCHANGED <<curlist, nxtlist, phase>>
    PROVE  /\ QueuesExact'
           /\ Queue(c) # <<>> /\ Head(Queue(c)) = Head(donelist[c]) /\ Queue(c)' = Tail(Queue(c))
           /\ \A k \in Cpus \ {c} : Queue(k)' = Queue(k)
           /\ Head(donelist[c]) \in Heads /\ due[Head(donelist[c])] = 1
<1>0. TypeOK /\ QueuesExact /\ c \in Cpus
  BY DEF RcuInv, Live
<1> DEFINE x == Head(donelist[c])
<1>1. /\ donelist[c] \in Seq(Heads) /\ curlist[c] \in Seq(Heads) /\ nxtlist[c] \in Seq(Heads)
      /\ Queue(c) \in Seq(Heads)
  BY <1>0, QueueElems
<1>2. x \in Heads
  BY <1>1
<1>3. /\ donelist'[c] = Tail(donelist[c])
      /\ \A k \in Cpus \ {c} : donelist'[k] = donelist[k]
      /\ due'[x] = due[x] - 1 /\ \A y \in Heads \ {x} : due'[y] = due[y]
  BY <1>0, <1>2, ZenonT(60) DEF TypeOK, ListType, CtrlType
<1>4. Queue(c) # <<>> /\ Head(Queue(c)) = x /\ Queue(c)' = Tail(Queue(c))
  <2> DEFINE d == donelist[c]
             u == curlist[c]
             t == nxtlist[c]
  <2>1. d \in Seq(Heads) /\ u \in Seq(Heads) /\ t \in Seq(Heads) /\ d # <<>>
    BY <1>1
  <2>2. Queue(c) = (d \o u) \o t /\ Queue(c)' = (Tail(d) \o u) \o t
    BY <1>3, ZenonT(60) DEF Queue
  <2> HIDE DEF d, u, t
  <2>3. ASSUME NEW v \in Seq(Heads), NEW w \in Seq(Heads), v # <<>>
        PROVE  v \o w \in Seq(Heads) /\ v \o w # <<>> /\ Head(v \o w) = Head(v) /\ Tail(v \o w) = Tail(v) \o w
    <3>1. Len(v) \in Nat \ {0} /\ v \o w \in Seq(Heads) /\ Len(v \o w) = Len(v) + Len(w) /\ Len(w) \in Nat
      BY <2>3
    <3>2. v \o w # <<>>
      BY <3>1
    <3>3. Head(v \o w) = Head(v)
      BY <2>3, <3>1, <3>2
    <3>4. Tail(v \o w) = Tail(v) \o w
      <4>1. Tail(v) \in Seq(Heads) /\ Tail(v \o w) \in Seq(Heads) /\ Len(Tail(v \o w)) = Len(v) + Len(w) - 1
            /\ Len(Tail(v)) = Len(v) - 1
        BY <2>3, <3>1, <3>2
      <4>2. Tail(v) \o w \in Seq(Heads) /\ Len(Tail(v) \o w) = Len(v) - 1 + Len(w)
        BY <4>1
      <4>3. ASSUME NEW i \in 1..(Len(v) + Len(w) - 1) PROVE Tail(v \o w)[i] = (Tail(v) \o w)[i]
        <5>1. Tail(v \o w)[i] = (v \o w)[i + 1]
          BY <3>1, <3>2, <4>1, <4>3
        <5>2. (v \o w)[i + 1] = IF i + 1 <= Len(v) THEN v[i + 1] ELSE w[i + 1 - Len(v)]
          BY <3>1, <4>3
        <5>3. (Tail(v) \o w)[i] = IF i <= Len(v) - 1 THEN Tail(v)[i] ELSE w[i - (Len(v) - 1)]
          BY <3>1, <4>1, <4>3
        <5>4. i <= Len(v) - 1 => Tail(v)[i] = v[i + 1]
          BY <2>3, <3>1, <4>1, <4>3
        <5> QED BY <3>1, <4>3, <5>1, <5>2, <5>3, <5>4
      <4> QED BY <3>1, <4>1, <4>2, <4>3
    <3> QED BY <3>1, <3>2, <3>3, <3>4
  <2>4. d \o u \in Seq(Heads) /\ d \o u # <<>> /\ Head(d \o u) = Head(d) /\ Tail(d \o u) = Tail(d) \o u
    BY <2>1, <2>3
  <2>5. (d \o u) \o t # <<>> /\ Head((d \o u) \o t) = Head(d) /\ Tail((d \o u) \o t) = (Tail(d) \o u) \o t
    BY <2>1, <2>3, <2>4
  <2> QED BY <2>2, <2>5, ZenonT(60) DEF d
<1>5. \A k \in Cpus \ {c} : Queue(k)' = Queue(k)
  BY <1>3, ZenonT(60) DEF Queue
<1>6. Elems(Queue(c)') = Elems(Queue(c)) \ {x} /\ NoRepeats(Queue(c)') /\ x \in Elems(Queue(c))
  <2>1. NoRepeats(Queue(c))
    BY <1>0 DEF QueuesExact
  <2> QED BY <1>1, <1>4, <2>1, TakeFirst
<1>7. \A k \in Live \ {c} : x \notin Elems(Queue(k))
  BY <1>0, <1>6 DEF QueuesExact
<1>8. due[x] = 1
  BY <1>0, <1>2, <1>6 DEF QueuesExact
<1>9. Live' = Live
  BY DEF Live
<1>10. QueuesExact'
  <2>1. ASSUME NEW k \in Live PROVE NoRepeats(Queue(k)')
    BY <1>0, <1>5, <1>6 DEF QueuesExact, Live
  <2>2. ASSUME NEW k \in Live, NEW d \in Live, k # d PROVE Elems(Queue(k)') \cap Elems(Queue(d)') = {}
    <3>1. Elems(Queue(k)) \cap Elems(Queue(d)) = {}
      BY <1>0, <2>2 DEF QueuesExact
    <3>2. Elems(Queue(k)') \subseteq Elems(Queue(k)) /\ Elems(Queue(d)') \subseteq Elems(Queue(d))
      BY <1>5, <1>6 DEF Live
    <3> QED BY <3>1, <3>2
  <2>3. ASSUME NEW y \in Heads
        PROVE  due'[y] = IF \E k \in Live : y \in Elems(Queue(k)') THEN 1 ELSE 0
    <3>1. CASE y = x
      <4>1. ~\E k \in Live : y \in Elems(Queue(k)')
        BY <1>5, <1>6, <1>7, <3>1 DEF Live
      <4> QED BY <1>3, <1>8, <3>1, <4>1
    <3>2. CASE y # x
      <4>1. (\E k \in Live : y \in Elems(Queue(k)')) <=> (\E k \in Live : y \in Elems(Queue(k)))
        BY <1>5, <1>6, <3>2 DEF Live
      <4> QED BY <1>0, <1>3, <3>2, <4>1, ZenonT(60) DEF QueuesExact
    <3> QED BY <3>1, <3>2
  <2> QED BY <1>9, <2>1, <2>2, <2>3, ZenonT(60) DEF QueuesExact
<1> QED BY <1>2, <1>4, <1>5, <1>8, <1>10

(* The types of what rcu_do_batch() changes. *)
LEMMA InvokeType ==
    ASSUME TypeOK, NEW c \in Cpus, Invoke(c)
    PROVE  TypeOK'
<1> DEFINE x == Head(donelist[c])
<1>1. /\ donelist[c] # <<>> /\ donelist' = [donelist EXCEPT ![c] = Tail(donelist[c])]
      /\ due' = [due EXCEPT ![x] = due[x] - 1] /\ before' = before \ {x}
      /\ cpu_count' = IF x \in Cpus THEN cpu_count + 1 ELSE cpu_count
      /\ UNCHANGED <<ctrl, quiet, batch, nxtlist, curlist, ret, hotplug, barrier, reading, waits>>
  BY DEF Invoke
<1>2. donelist[c] \in Seq(Heads)
  BY ZenonT(60) DEF TypeOK, ListType
<1>3. Tail(donelist[c]) \in Seq(Heads) /\ x \in Heads
  BY <1>1, <1>2
<1>4. donelist' \in [Cpus -> Seq(Heads)]
  BY <1>1, <1>3 DEF TypeOK, ListType
<1>5. qlen' \in [Cpus -> Int]
  <2>1. qlen' = [qlen EXCEPT ![c] = qlen[c] - 1] /\ qlen \in [Cpus -> Int]
    BY ZenonT(60) DEF Invoke, TypeOK, ListType
  <2> QED BY <2>1
<1>6. unlimited' \in [Cpus -> BOOLEAN]
  <2>1. unlimited' = unlimited \/ \E b \in BOOLEAN : unlimited' = [unlimited EXCEPT ![c] = b]
    BY ZenonT(60) DEF Invoke, TypeOK, ListType
  <2> QED BY <2>1, ZenonT(60) DEF TypeOK, ListType
<1>7. pc' \in [Cpus -> Places]
  <2>1. pc' = pc \/ pc' = [pc EXCEPT ![c] = "idle"]
    BY DEF Invoke, Goto
  <2> QED BY <2>1, ZenonT(60) DEF TypeOK, CtrlType, Places
<1>8. count' \in [Cpus -> Int]
  <2>1. count' = [count EXCEPT ![c] = count[c] + 1] \/ count' = [count EXCEPT ![c] = 0]
    BY DEF Invoke
  <2> QED BY <2>1 DEF TypeOK, CtrlType
<1>9. due' \in [Heads -> Int] /\ cpu_count' \in Int /\ before' \subseteq Heads
  <2>1. due[x] - 1 \in Int /\ cpu_count + 1 \in Int
    BY <1>3 DEF TypeOK, CtrlType
  <2> HIDE DEF x
  <2> QED BY <1>1, <2>1, ZenonT(60) DEF TypeOK, CtrlType
<1>10. ListType'
  BY <1>1, <1>4, <1>5, <1>6, ZenonT(60) DEF TypeOK, ListType
<1>11. CtrlType'
  BY <1>1, <1>7, <1>8, <1>9, ZenonT(60) DEF TypeOK, CtrlType, ctrl, quiet, hotplug
<1> QED BY <1>10, <1>11, ZenonT(60) DEF TypeOK

=============================================================================
