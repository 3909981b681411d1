-------------------------- MODULE RcuBatchProofs ----------------------------
(***************************************************************************)
(* Sequences without repetitions, what leaves parts of the invariant alone *)
(* and the steps on batches: starting one, passing a quiescent state and   *)
(* completing one preserve the inductive invariant RcuInv of Rcu.          *)
(***************************************************************************)
EXTENDS Rcu, TLAPS

USE SMTT(60), ZenonT(60)

-----------------------------------------------------------------------------
(* Sequences. *)

(* The elements of a concatenation. *)
LEMMA ElemsConcat ==
    ASSUME NEW S, NEW s \in Seq(S), NEW t \in Seq(S)
    PROVE  Elems(s \o t) = Elems(s) \cup Elems(t)
<1>1. ASSUME NEW e \in Elems(s \o t) PROVE e \in Elems(s) \cup Elems(t)
  <2>1. PICK i \in 1..(Len(s) + Len(t)) : e = (s \o t)[i]
    BY <1>1 DEF Elems
  <2>2. CASE i <= Len(s)
    BY <2>1, <2>2 DEF Elems
  <2>3. CASE i > Len(s)
    <3>1. i - Len(s) \in 1..Len(t)
      BY <2>1, <2>3
    <3>2. e = t[i - Len(s)]
      BY <2>1, <2>3
    <3> QED BY <3>1, <3>2 DEF Elems
  <2> QED BY <2>1, <2>2, <2>3
<1>2. ASSUME NEW e \in Elems(s) PROVE e \in Elems(s \o t)
  BY <1>2 DEF Elems
<1>3. ASSUME NEW e \in Elems(t) PROVE e \in Elems(s \o t)
  <2>1. PICK i \in 1..Len(t) : e = t[i]
    BY <1>3 DEF Elems
  <2>2. i + Len(s) \in 1..Len(s \o t) /\ (s \o t)[i + Len(s)] = t[i]
    BY <2>1
  <2> QED BY <2>1, <2>2 DEF Elems
<1> QED BY <1>1, <1>2, <1>3

(* Two sequences without repetitions or common elements, one after the other. *)
LEMMA NoRepeatsConcat ==
    ASSUME NEW S, NEW s \in Seq(S), NEW t \in Seq(S), NoRepeats(s), NoRepeats(t),
           Elems(s) \cap Elems(t) = {}
    PROVE  NoRepeats(s \o t)
<1> SUFFICES ASSUME NEW i \in 1..(Len(s) + Len(t)), NEW j \in 1..(Len(s) + Len(t)),
                    (s \o t)[i] = (s \o t)[j], i < j
             PROVE  FALSE
  BY DEF NoRepeats
<1>1. CASE j <= Len(s)
  BY <1>1 DEF NoRepeats
<1>2. CASE i > Len(s)
  <2>1. i - Len(s) \in DOMAIN t /\ j - Len(s) \in DOMAIN t /\ i - Len(s) # j - Len(s)
    BY <1>2
  <2>2. t[i - Len(s)] = t[j - Len(s)]
    BY <1>2
  <2> QED BY <2>1, <2>2 DEF NoRepeats
<1>3. CASE i <= Len(s) /\ j > Len(s)
  <2>1. i \in DOMAIN s /\ j - Len(s) \in DOMAIN t
    BY <1>3
  <2>2. s[i] = t[j - Len(s)]
    BY <1>3
  <2>3. s[i] \in Elems(s) /\ t[j - Len(s)] \in Elems(t)
    BY <2>1 DEF Elems
  <2> QED BY <2>2, <2>3
<1> QED BY <1>1, <1>2, <1>3

(* A new element at the end. *)
LEMMA AddLast ==
    ASSUME NEW S, NEW s \in Seq(S), NEW x \in S, NoRepeats(s), x \notin Elems(s)
    PROVE  Elems(Append(s, x)) = Elems(s) \cup {x} /\ NoRepeats(Append(s, x))
<1>1. <<x>> \in Seq(S) /\ Append(s, x) = s \o <<x>> /\ Elems(<<x>>) = {x} /\ NoRepeats(<<x>>)
  <2>1. <<x>> \in Seq(S)
    OBVIOUS
  <2>2. Append(s, x) = s \o <<x>>
    OBVIOUS
  <2>3. Elems(<<x>>) = {x}
    BY DEF Elems
  <2>4. NoRepeats(<<x>>)
    BY DEF NoRepeats
  <2> QED BY <2>1, <2>2, <2>3, <2>4
<1>2. Elems(s \o <<x>>) = Elems(s) \cup Elems(<<x>>)
  <2>1. <<x>> \in Seq(S)
    BY <1>1
  <2> QED BY <2>1, ElemsConcat, ZenonT(60)
<1>3. Elems(s) \cap Elems(<<x>>) = {}
  BY <1>1
<1>4. NoRepeats(s \o <<x>>)
  BY <1>1, <1>3, NoRepeatsConcat, ZenonT(60)
<1> QED BY <1>1, <1>2, <1>4

(* Taking the first element off. *)
LEMMA TakeFirst ==
    ASSUME NEW S, NEW s \in Seq(S), s # <<>>, NoRepeats(s)
    PROVE  /\ Elems(Tail(s)) = Elems(s) \ {Head(s)}
           /\ NoRepeats(Tail(s))
           /\ Head(s) \in Elems(s)
<1>1. /\ Tail(s) \in Seq(S) /\ Len(Tail(s)) = Len(s) - 1 /\ Len(s) \in Nat \ {0}
      /\ \A i \in 1..Len(Tail(s)) : Tail(s)[i] = s[i + 1]
      /\ Head(s) = s[1] /\ DOMAIN Tail(s) = 1..Len(Tail(s))
  OBVIOUS
<1>2. ASSUME NEW e \in Elems(Tail(s)) PROVE e \in Elems(s) \ {Head(s)}
  <2>1. PICK i \in 1..Len(Tail(s)) : e = Tail(s)[i]
    BY <1>2, <1>1 DEF Elems
  <2>2. i + 1 \in DOMAIN s /\ 1 \in DOMAIN s /\ i + 1 # 1 /\ e = s[i + 1]
    BY <2>1, <1>1
  <2> QED BY <2>2, <1>1 DEF Elems, NoRepeats
<1>3. ASSUME NEW e \in Elems(s), e # Head(s) PROVE e \in Elems(Tail(s))
  <2>1. PICK i \in 1..Len(s) : e = s[i]
    BY <1>3 DEF Elems
  <2>2. i - 1 \in 1..Len(Tail(s)) /\ Tail(s)[i - 1] = e
    BY <2>1, <1>3, <1>1
  <2>3. i - 1 \in DOMAIN Tail(s)
    BY <2>2, <1>1, ZenonT(60)
  <2> QED BY <2>2, <2>3, ZenonT(60) DEF Elems
<1>4. NoRepeats(Tail(s))
  <2> SUFFICES ASSUME NEW i \in 1..Len(Tail(s)), NEW j \in 1..Len(Tail(s)),
                      Tail(s)[i] = Tail(s)[j]
               PROVE  i = j
    BY <1>1 DEF NoRepeats
  <2>1. i + 1 \in DOMAIN s /\ j + 1 \in DOMAIN s /\ s[i + 1] = s[j + 1]
    BY <1>1
  <2> QED BY <2>1, <1>1 DEF NoRepeats
<1>5. Head(s) \in Elems(s)
  BY <1>1 DEF Elems
<1> QED BY <1>2, <1>3, <1>4, <1>5

-----------------------------------------------------------------------------
(* What steps that leave lists and sections alone preserve. *)

(* The lists of a CPU are sequences, and its queue has the elements of all. *)
LEMMA QueueElems ==
    ASSUME TypeOK, NEW c \in Cpus
    PROVE  /\ donelist[c] \in Seq(Heads) /\ curlist[c] \in Seq(Heads) /\ nxtlist[c] \in Seq(Heads)
           /\ donelist[c] \o curlist[c] \in Seq(Heads) /\ Queue(c) \in Seq(Heads)
           /\ Elems(Queue(c)) = Elems(donelist[c]) \cup Elems(curlist[c]) \cup Elems(nxtlist[c])
<1>1. donelist[c] \in Seq(Heads) /\ curlist[c] \in Seq(Heads) /\ nxtlist[c] \in Seq(Heads)
  BY ZenonT(60) DEF TypeOK, ListType
<1>2. donelist[c] \o curlist[c] \in Seq(Heads)
  BY <1>1
<1>3. Queue(c) \in Seq(Heads)
  BY <1>1, <1>2 DEF Queue
<1>4. Elems(donelist[c] \o curlist[c]) = Elems(donelist[c]) \cup Elems(curlist[c])
  BY <1>1, ElemsConcat, ZenonT(60)
<1>5. Elems(Queue(c)) = Elems(donelist[c] \o curlist[c]) \cup Elems(nxtlist[c])
  BY <1>1, <1>2, ElemsConcat, ZenonT(60) DEF Queue
<1> QED BY <1>1, <1>2, <1>3, <1>4, <1>5

(* Heads stay on the queues of their CPUs, in order. *)
LEMMA SameQueues ==
    ASSUME RcuInv, \A c \in Cpus : Queue(c)' = Queue(c), UNCHANGED <<phase, due>>
    PROVE  QueuesExact'
<1>1. Live' = Live
  BY DEF Live
<1>2. QueuesExact
  BY DEF RcuInv
<1> QED BY <1>1, <1>2 DEF QueuesExact, Live

(* And rcu_barrier() is where it was. *)
LEMMA SameBarrier ==
    ASSUME RcuInv, \A c \in Cpus : Queue(c)' = Queue(c), UNCHANGED <<phase, due, flush>>
    PROVE  BarrierExact'
<1>1. Live' = Live /\ Counted' = Counted /\ cpu_online_map' = cpu_online_map
  BY DEF Live, Counted, flush, cpu_online_map
<1>2. BarrierExact
  BY DEF RcuInv
<1> QED BY <1>1, <1>2 DEF BarrierExact, Live, flush

(* No list, no section and no batch changes. *)
LEMMA SameGrace ==
    ASSUME RcuInv,
           UNCHANGED <<donelist, curlist, batch, phase, waits, cur, completed, cpumask>>
    PROVE  GraceRespected' /\ SectionHoldsBatch'
<1>1. Live' = Live
  BY DEF Live
<1>2. GraceRespected /\ SectionHoldsBatch
  BY DEF RcuInv
<1> QED BY <1>1, <1>2 DEF GraceRespected, SectionHoldsBatch

(* Nothing changes but where CPUs are. *)
LEMMA SameAll ==
    ASSUME RcuInv, UNCHANGED <<lists, cur, completed, cpumask, phase, flush, due, waits>>
    PROVE  GraceRespected' /\ SectionHoldsBatch' /\ QueuesExact' /\ BarrierExact'
<1>1. \A c \in Cpus : Queue(c)' = Queue(c)
  BY DEF Queue, lists
<1>2. UNCHANGED <<donelist, curlist, batch, phase, waits, cur, completed, cpumask, due, flush>>
  BY DEF lists
<1>3. GraceRespected' /\ SectionHoldsBatch'
  BY <1>2, SameGrace
<1>4. QueuesExact'
  BY <1>1, <1>2, SameQueues
<1>5. BarrierExact'
  BY <1>1, <1>2, SameBarrier
<1> QED BY <1>3, <1>4, <1>5

-----------------------------------------------------------------------------
(* The steps of the handler. *)

(* A step of c to p that no other CPU in rcu_start_batch() can notice. *)
LEMMA OwnersStep ==
    ASSUME RcuInv, NEW c \in Cpus, NEW p \in Places, Goto(c, p), phase[c] = "on",
           UNCHANGED <<phase, gone, reading, waits>>, completed' <= cur',
           lock = NoCpu \/ lock = c \/ UNCHANGED <<lock, cur, completed>>,
           p \in {"start", "start_cur"} => lock' = c /\ completed' = cur',
           \A k \in Cpus \ {c} : ret'[k] = ret[k],
           gone[c] = NoCpu => p \notin {"offline", "move"} /\ ret'[c] # "move"
    PROVE  Owners'
<1>1. TypeOK /\ Owners
  BY DEF RcuInv
<1>2. cpu_online_map' = cpu_online_map
  BY DEF cpu_online_map
<1>3. pc'[c] = p /\ \A k \in Cpus \ {c} : pc'[k] = pc[k]
  BY <1>1 DEF TypeOK, CtrlType, Goto
<1>4. ASSUME NEW k \in Cpus, pc'[k] \in {"start", "start_cur"}
      PROVE  lock' = k /\ completed' = cur'
  <2>1. CASE k = c
    BY <2>1, <1>3, <1>4
  <2>2. CASE k # c
    <3>1. pc[k] \in {"start", "start_cur"}
      BY <2>2, <1>3, <1>4
    <3>2. lock = k /\ completed = cur /\ lock # NoCpu
      BY <3>1, <1>1, RcuConstants DEF Owners
    <3> QED BY <3>2, <2>2
  <2> QED BY <2>1, <2>2
<1>5. ASSUME NEW m \in Cpus, gone[m] = NoCpu
      PROVE  pc'[m] \notin {"offline", "move"} /\ ret'[m] # "move"
  <2>1. CASE m = c
    BY <2>1, <1>3, <1>5
  <2>2. CASE m # c
    BY <2>2, <1>1, <1>3, <1>5, ZenonT(60) DEF Owners
  <2> QED BY <2>1, <2>2
<1>6. \A k \in Cpus : pc'[k] # "idle" => phase[k] = "on"
  BY <1>1, <1>3 DEF Owners
<1> QED BY <1>1, <1>2, <1>4, <1>5, <1>6 DEF Owners

(* A step of c to p that changes nothing a callback depends on. *)
LEMMA WalkInv ==
    ASSUME RcuInv, NEW c \in Cpus, NEW p \in Places, Goto(c, p), phase[c] = "on",
           UNCHANGED <<lists, cur, completed, cpumask, phase, gone, downs, flush, section, count>>,
           next_pending' \in BOOLEAN, lock' \in Cpus \cup {NoCpu},
           quiescbatch' \in [Cpus -> Int], qs_pending' \in [Cpus -> BOOLEAN],
           ret' \in [Cpus -> Returns],
           lock' = lock \/ lock = NoCpu,
           p \in {"start", "start_cur"} => lock' = c /\ completed = cur,
           \A k \in Cpus \ {c} : ret'[k] = ret[k],
           gone[c] = NoCpu => p \notin {"offline", "move"} /\ ret'[c] # "move"
    PROVE  RcuInv'
<1>1. UNCHANGED <<due, waits, reading>>
  BY DEF section
<1>2. GraceRespected' /\ SectionHoldsBatch' /\ QueuesExact' /\ BarrierExact'
  BY <1>1, SameAll
<1>3. TypeOK /\ Owners
  BY ZenonT(60) DEF RcuInv
<1>4. TypeOK'
  <2>1. ListType'
    BY <1>3, ZenonT(60) DEF TypeOK, ListType, lists
  <2>2. pc' \in [Cpus -> Places]
    BY <1>3 DEF TypeOK, CtrlType, Goto
  <2>3. CtrlType'
    BY <1>1, <1>3, <2>2, ZenonT(60) DEF TypeOK, CtrlType, flush
  <2> QED BY <2>1, <2>3 DEF TypeOK
<1>5. completed' <= cur'
  BY <1>3, ZenonT(60) DEF Owners
<1>6. Owners'
  BY <1>1, <1>5, OwnersStep
<1> QED BY <1>2, <1>4, <1>6 DEF RcuInv

(* The steps of the handler that only walk. *)
LEMMA HandlerWalkInv ==
    ASSUME RcuInv, NEW c \in Cpus,
           \/ Softirq(c) \/ NoNextBatch(c) \/ AskPending(c) \/ StartLock(c) \/ StartClear(c)
           \/ Check(c) \/ Note(c) \/ NothingToInvoke(c)
    PROVE  RcuInv'
<1>0. TypeOK /\ Owners
  BY DEF RcuInv
<1>a. (ret[c] = "move" => gone[c] # NoCpu) /\ phase[c] = "on"
  BY <1>0, ZenonT(60) DEF Owners, Softirq, NoNextBatch, AskPending, StartLock, StartClear, Check, Note,
     NothingToInvoke, At, Runs, cpu_online_map
<1>1. CASE Softirq(c)
  <2> DEFINE p == "process"
  <2>0. p \in Places
    BY DEF Places
  <2>1. Goto(c, p)
    BY <1>1, ZenonT(60) DEF Softirq
  <2>2. /\ UNCHANGED <<lists, cur, completed, cpumask, phase, gone, downs, flush, section, count>>
        /\ UNCHANGED <<next_pending, lock, quiescbatch, qs_pending, ret>>
    BY <1>1 DEF Softirq, ctrl, quiet, hotplug
  <2>3. next_pending' \in BOOLEAN /\ lock' \in Cpus \cup {NoCpu} /\ quiescbatch' \in [Cpus -> Int]
        /\ qs_pending' \in [Cpus -> BOOLEAN] /\ ret' \in [Cpus -> Returns]
    BY <2>2, <1>0, ZenonT(60) DEF TypeOK, CtrlType
  <2>4. p \notin {"start", "start_cur", "offline", "move"}
    OBVIOUS
  <2> HIDE DEF p
  <2> QED BY <2>0, <2>1, <2>2, <2>3, <2>4, <1>a, WalkInv, ZenonT(60)
<1>2. CASE NoNextBatch(c)
  <2> DEFINE p == "check"
  <2>0. p \in Places
    BY ZenonT(60) DEF Places
  <2>1. Goto(c, p)
    BY <1>2, ZenonT(60) DEF NoNextBatch
  <2>2. /\ UNCHANGED <<lists, cur, completed, cpumask, phase, gone, downs, flush, section, count>>
        /\ UNCHANGED <<next_pending, lock, quiescbatch, qs_pending, ret>>
    BY <1>2 DEF NoNextBatch, ctrl, quiet, hotplug
  <2>3. next_pending' \in BOOLEAN /\ lock' \in Cpus \cup {NoCpu} /\ quiescbatch' \in [Cpus -> Int]
        /\ qs_pending' \in [Cpus -> BOOLEAN] /\ ret' \in [Cpus -> Returns]
    BY <2>2, <1>0, ZenonT(60) DEF TypeOK, CtrlType
  <2>4. p \notin {"start", "start_cur", "offline", "move"}
    BY ZenonT(60)
  <2> HIDE DEF p
  <2> QED BY <2>0, <2>1, <2>2, <2>3, <2>4, <1>a, WalkInv, ZenonT(60)
<1>3. CASE NothingToInvoke(c)
  <2> DEFINE p == "idle"
  <2>0. p \in Places
    BY ZenonT(60) DEF Places
  <2>1. Goto(c, p)
    BY <1>3 DEF NothingToInvoke
  <2>2. /\ UNCHANGED <<lists, cur, completed, cpumask, phase, gone, downs, flush, section, count>>
        /\ UNCHANGED <<next_pending, lock, quiescbatch, qs_pending, ret>>
    BY <1>3 DEF NothingToInvoke, ctrl, quiet, hotplug
  <2>3. next_pending' \in BOOLEAN /\ lock' \in Cpus \cup {NoCpu} /\ quiescbatch' \in [Cpus -> Int]
        /\ qs_pending' \in [Cpus -> BOOLEAN] /\ ret' \in [Cpus -> Returns]
    BY <2>2, <1>0, ZenonT(60) DEF TypeOK, CtrlType
  <2>4. p \notin {"start", "start_cur", "offline", "move"}
    OBVIOUS
  <2> HIDE DEF p
  <2> QED BY <2>0, <2>1, <2>2, <2>3, <2>4, <1>a, WalkInv
<1>4. CASE AskPending(c)
  <2> DEFINE p == IF next_pending THEN "check" ELSE "start_lock"
  <2>0. p \in Places
    BY DEF Places
  <2>1. Goto(c, p)
    BY <1>4 DEF AskPending
  <2>2. /\ UNCHANGED <<lists, cur, completed, cpumask, phase, gone, downs, flush, section, count>>
        /\ UNCHANGED <<next_pending, lock, quiescbatch, qs_pending, ret>>
    BY <1>4 DEF AskPending, ctrl, quiet, hotplug
  <2>3. next_pending' \in BOOLEAN /\ lock' \in Cpus \cup {NoCpu} /\ quiescbatch' \in [Cpus -> Int]
        /\ qs_pending' \in [Cpus -> BOOLEAN] /\ ret' \in [Cpus -> Returns]
    BY <2>2, <1>0, ZenonT(60) DEF TypeOK, CtrlType
  <2>4. p \notin {"start", "start_cur", "offline", "move"}
    OBVIOUS
  <2> HIDE DEF p
  <2> QED BY <2>0, <2>1, <2>2, <2>3, <2>4, <1>a, WalkInv, ZenonT(60)
<1>5. CASE StartClear(c)
  <2> DEFINE p == "start_cur"
  <2>0. p \in Places
    BY DEF Places
  <2>1. Goto(c, p)
    BY <1>5 DEF StartClear
  <2>2. /\ UNCHANGED <<lists, cur, completed, cpumask, phase, gone, downs, flush, section, count>>
        /\ UNCHANGED <<lock, quiescbatch, qs_pending, ret>>
    BY <1>5 DEF StartClear, ctrl, quiet, hotplug
  <2>3. next_pending' \in BOOLEAN /\ lock' \in Cpus \cup {NoCpu} /\ quiescbatch' \in [Cpus -> Int]
        /\ qs_pending' \in [Cpus -> BOOLEAN] /\ ret' \in [Cpus -> Returns]
    BY <1>5, <2>2, <1>0, ZenonT(60) DEF TypeOK, CtrlType, StartClear
  <2>4. lock = c /\ completed = cur
    BY <1>5, <1>0 DEF Owners, StartClear, At
  <2> HIDE DEF p
  <2>5. p \notin {"offline", "move"}
    BY DEF p
  <2> QED BY <2>0, <2>1, <2>2, <2>3, <2>4, <2>5, <1>a, WalkInv, ZenonT(60)
<1>6. CASE StartLock(c)
  <2> DEFINE p == IF completed = cur THEN "start" ELSE "check"
  <2>0. p \in Places
    BY DEF Places
  <2>1. Goto(c, p)
    BY <1>6 DEF StartLock, StartOrReturn
  <2>2. /\ UNCHANGED <<lists, cur, completed, cpumask, phase, gone, downs, flush, section, count>>
        /\ UNCHANGED <<quiescbatch, qs_pending>>
    BY <1>6, ZenonT(60) DEF StartLock, ctrl, quiet, hotplug, StartOrReturn
  <2>3. next_pending' \in BOOLEAN /\ lock' \in Cpus \cup {NoCpu} /\ quiescbatch' \in [Cpus -> Int]
        /\ qs_pending' \in [Cpus -> BOOLEAN] /\ ret' \in [Cpus -> Returns]
    BY <1>6, <2>2, <1>0, ZenonT(60) DEF TypeOK, CtrlType, StartLock, StartOrReturn, Returns
  <2>4. /\ lock = NoCpu /\ ret'[c] # "move" /\ \A k \in Cpus \ {c} : ret'[k] = ret[k]
        /\ p \in {"start", "start_cur"} => lock' = c /\ completed = cur
        /\ p \notin {"offline", "move"}
    BY <1>6, <1>0 DEF TypeOK, CtrlType, StartLock, StartOrReturn
  <2> HIDE DEF p
  <2> QED BY <2>0, <2>1, <2>2, <2>3, <2>4, <1>a, WalkInv, ZenonT(60)
<1>7. CASE Check(c)
  <2> DEFINE p == IF quiescbatch[c] # cur THEN "note" ELSE IF qs_pending[c] THEN "quiet" ELSE "invoke"
  <2>0. p \in Places
    BY DEF Places
  <2>1. Goto(c, p)
    BY <1>7 DEF Check
  <2>2. /\ UNCHANGED <<lists, cur, completed, cpumask, phase, gone, downs, flush, section, count>>
        /\ UNCHANGED <<next_pending, lock, quiescbatch, ret>>
    BY <1>7, ZenonT(60) DEF Check, ctrl, quiet, hotplug
  <2>3. next_pending' \in BOOLEAN /\ lock' \in Cpus \cup {NoCpu} /\ quiescbatch' \in [Cpus -> Int]
        /\ qs_pending' \in [Cpus -> BOOLEAN] /\ ret' \in [Cpus -> Returns]
    BY <1>7, <2>2, <1>0 DEF TypeOK, CtrlType, Check
  <2>4. p \notin {"start", "start_cur", "offline", "move"}
    OBVIOUS
  <2> HIDE DEF p
  <2> QED BY <2>0, <2>1, <2>2, <2>3, <2>4, <1>a, WalkInv, ZenonT(60)
<1>8. CASE Note(c)
  <2> DEFINE p == "invoke"
  <2>0. p \in Places
    BY DEF Places
  <2>1. Goto(c, p)
    BY <1>8 DEF Note
  <2>2. /\ UNCHANGED <<lists, cur, completed, cpumask, phase, gone, downs, flush, section, count>>
        /\ UNCHANGED <<next_pending, lock, ret>>
    BY <1>8, ZenonT(60) DEF Note, ctrl, quiet, hotplug
  <2>3. next_pending' \in BOOLEAN /\ lock' \in Cpus \cup {NoCpu} /\ quiescbatch' \in [Cpus -> Int]
        /\ qs_pending' \in [Cpus -> BOOLEAN] /\ ret' \in [Cpus -> Returns]
    BY <1>8, <2>2, <1>0 DEF TypeOK, CtrlType, Note
  <2>4. p \notin {"start", "start_cur", "offline", "move"}
    OBVIOUS
  <2> HIDE DEF p
  <2> QED BY <2>0, <2>1, <2>2, <2>3, <2>4, <1>a, WalkInv, ZenonT(60)
<1> QED BY <1>1, <1>2, <1>3, <1>4, <1>5, <1>6, <1>7, <1>8

(* rcu_start_batch() moves on to the next batch. *)
LEMMA StartCurInv ==
    ASSUME RcuInv, NEW c \in Cpus, StartCur(c)
    PROVE  RcuInv'
<1>0. TypeOK /\ Owners /\ GraceRespected /\ SectionHoldsBatch
  BY DEF RcuInv
<1>1. lock = c /\ completed = cur /\ phase[c] = "on"
  BY <1>0 DEF Owners, StartCur, At
<1>2. /\ UNCHANGED <<completed, lists, count, phase, gone, flush, due, waits, reading>>
      /\ cur' = cur + 1 /\ cpumask' = cpu_online_map /\ lock' = NoCpu
  BY DEF StartCur, hotplug, section
<1>3. TypeOK'
  <2>1. ListType'
    BY <1>0, <1>2, ZenonT(60) DEF TypeOK, ListType, lists
  <2>2. pc' \in [Cpus -> Places] /\ ret' \in [Cpus -> Returns]
    BY <1>0 DEF TypeOK, CtrlType, StartCur, Goto, Places, Returns
  <2>3. next_pending' \in BOOLEAN /\ quiescbatch' \in [Cpus -> Int] /\ qs_pending' \in [Cpus -> BOOLEAN]
    BY <1>0, ZenonT(60) DEF TypeOK, CtrlType, StartCur, quiet
  <2>4. CtrlType'
    BY <1>0, <1>2, <2>2, <2>3 DEF TypeOK, CtrlType, flush, cpu_online_map
  <2> QED BY <2>1, <2>4 DEF TypeOK
<1>4. QueuesExact' /\ BarrierExact'
  <2>1. \A k \in Cpus : Queue(k)' = Queue(k)
    BY <1>2 DEF Queue, lists
  <2> QED BY <1>2, <2>1, SameQueues, SameBarrier
<1>5. GraceRespected'
  BY <1>0, <1>2 DEF GraceRespected, Live, lists
<1>6. SectionHoldsBatch'
  <2> SUFFICES ASSUME NEW k \in Live, NEW x \in Elems(curlist[k]), NEW r \in waits[x]
               PROVE  completed < batch[k] /\ (cur + 1 >= batch[k] => r \in cpu_online_map)
    BY <1>2 DEF SectionHoldsBatch, Live, lists
  <2>1. x \in Heads
    BY <1>0 DEF TypeOK, ListType, Elems, Live
  <2>2. r \in cpu_online_map
    BY <1>0, <2>1 DEF Owners
  <2>3. completed < batch[k]
    BY <1>0, ZenonT(60) DEF SectionHoldsBatch
  <2> QED BY <2>2, <2>3, ZenonT(60)
<1>7. Owners'
  <2> DEFINE p == ret[c]
  <2>1. Goto(c, p) /\ p \in Places /\ p \notin {"start", "start_cur", "offline"}
    BY <1>0 DEF StartCur, TypeOK, CtrlType, Returns, Places
  <2>2. completed' <= cur'
    BY <1>0, <1>1, <1>2 DEF TypeOK, CtrlType
  <2>3. \A k \in Cpus \ {c} : ret'[k] = ret[k]
    BY <1>0, ZenonT(60) DEF StartCur, TypeOK, CtrlType
  <2>4. ret'[c] # "move" /\ (gone[c] = NoCpu => p # "move")
    BY <1>0, ZenonT(60) DEF StartCur, TypeOK, CtrlType, Owners
  <2> HIDE DEF p
  <2> QED BY <1>1, <1>2, <2>1, <2>2, <2>3, <2>4, OwnersStep, ZenonT(60)
<1> QED BY <1>3, <1>4, <1>5, <1>6, <1>7 DEF RcuInv

(* cpu_quiet(), with the lock, for a CPU that is in no section. *)
LEMMA CpuQuietInv ==
    ASSUME RcuInv, NEW c \in Cpus, NEW k \in Cpus \ reading, NEW to \in {"invoke", "move"},
           cpu_quiet(k, c, to), lock = NoCpu, phase[c] = "on", gone[c] = NoCpu => to # "move",
           UNCHANGED <<cur, next_pending, quiet, lists, count, hotplug, flush, section>>
    PROVE  RcuInv'
<1>0. TypeOK /\ Owners /\ GraceRespected /\ SectionHoldsBatch
  BY DEF RcuInv
<1> DEFINE left == cpumask \ {k}
           start == left = {} /\ next_pending
           p == IF start THEN "start" ELSE to
<1>1. /\ cpumask' = left /\ completed' = IF left = {} THEN cur ELSE completed
      /\ Goto(c, p) /\ lock' = IF start THEN c ELSE NoCpu
      /\ ret' = [ret EXCEPT ![c] = IF start THEN to ELSE "idle"]
  BY ZenonT(60) DEF cpu_quiet, StartOrReturn
<1>2. UNCHANGED <<phase, gone, due, waits, reading>>
  BY DEF hotplug, section
<1>3. TypeOK'
  <2>1. pc' \in [Cpus -> Places] /\ ret' \in [Cpus -> Returns]
    BY <1>0, <1>1, ZenonT(60) DEF TypeOK, CtrlType, Goto, Places, Returns
  <2>2. completed' \in Int /\ cpumask' \subseteq Cpus /\ lock' \in Cpus \cup {NoCpu}
    BY <1>0, <1>1 DEF TypeOK, CtrlType
  <2>3. ListType'
    BY <1>0, ZenonT(60) DEF TypeOK, ListType, lists
  <2>4. CtrlType'
    BY <1>0, <2>1, <2>2 DEF TypeOK, CtrlType, quiet, hotplug, flush, section
  <2> QED BY <2>3, <2>4, ZenonT(60) DEF TypeOK
<1>4. QueuesExact' /\ BarrierExact'
  <2>1. \A d \in Cpus : Queue(d)' = Queue(d)
    BY ZenonT(60) DEF Queue, lists
  <2> QED BY <1>2, <2>1, SameQueues, SameBarrier, ZenonT(60)
<1>5. GraceRespected'
  BY <1>0, <1>2, ZenonT(60) DEF GraceRespected, Live, lists
<1>6. SectionHoldsBatch'
  <2>0. Live' = Live /\ UNCHANGED <<curlist, batch, waits, cur>>
    BY <1>2, ZenonT(60) DEF Live, lists
  <2> HIDE DEF left
  <2> SUFFICES ASSUME NEW d \in Live, NEW x \in Elems(curlist[d]), NEW r \in waits[x]
               PROVE  completed' < batch[d] /\ (cur >= batch[d] => r \in left)
    BY <1>1, <2>0, ZenonT(60) DEF SectionHoldsBatch
  <2>1. x \in Heads
    BY <1>0 DEF TypeOK, ListType, Elems, Live
  <2>2. r # k
    BY <1>0, <2>1, ZenonT(60) DEF Owners
  <2>3. completed < batch[d] /\ (cur >= batch[d] => r \in cpumask)
    BY <1>0, ZenonT(60) DEF SectionHoldsBatch
  <2>4. batch[d] \in Int /\ cur \in Int
    BY <1>0, ZenonT(60) DEF TypeOK, CtrlType, ListType, Live
  <2> QED BY <1>1, <2>2, <2>3, <2>4 DEF left
<1>7. Owners'
  <2>1. p \in Places
    BY ZenonT(60) DEF Places
  <2>2. completed' <= cur'
    BY <1>0, <1>1 DEF TypeOK, CtrlType, Owners
  <2>3. p \in {"start", "start_cur"} => lock' = c /\ completed' = cur'
    BY <1>1, ZenonT(60)
  <2>4. /\ \A d \in Cpus \ {c} : ret'[d] = ret[d]
        /\ gone[c] = NoCpu => p \notin {"offline", "move"} /\ ret'[c] # "move"
    BY <1>0, <1>1 DEF TypeOK, CtrlType
  <2> HIDE DEF p
  <2> QED BY <1>1, <1>2, <2>1, <2>2, <2>3, <2>4, OwnersStep, ZenonT(60)
<1> QED BY <1>3, <1>4, <1>5, <1>6, <1>7 DEF RcuInv

(* rcu_check_quiescent_state() reports the quiescent state. *)
LEMMA QuietInv ==
    ASSUME RcuInv, NEW c \in Cpus, Quiet(c)
    PROVE  RcuInv'
<1>0. TypeOK /\ phase[c] = "on"
  BY ZenonT(60) DEF RcuInv, Owners, Quiet, At
<1>1. CASE quiescbatch[c] = cur /\ cpu_quiet(c, c, "invoke")
  <2>1. lock = NoCpu /\ c \in Cpus \ reading
    BY DEF Quiet, At
  <2>2. UNCHANGED <<cur, next_pending, quiet, lists, count, hotplug, flush, section>>
    BY ZenonT(60) DEF Quiet
  <2> QED BY <1>0, <1>1, <2>1, <2>2, CpuQuietInv, ZenonT(60)
<1>2. CASE Goto(c, "invoke") /\ UNCHANGED <<completed, cpumask, lock, ret>>
  <2>1. UNCHANGED <<lists, cur, completed, cpumask, phase, gone, downs, flush, section, count,
                    next_pending, lock, quiescbatch, qs_pending, ret>>
    BY <1>2, ZenonT(60) DEF Quiet, quiet, hotplug
  <2>2. next_pending' \in BOOLEAN /\ lock' \in Cpus \cup {NoCpu} /\ quiescbatch' \in [Cpus -> Int]
        /\ qs_pending' \in [Cpus -> BOOLEAN] /\ ret' \in [Cpus -> Returns]
    BY <2>1, <1>0, ZenonT(60) DEF TypeOK, CtrlType
  <2>3. ret[c] = "move" => gone[c] # NoCpu
    BY DEF RcuInv, Owners
  <2>4. "invoke" \in Places
    BY DEF Places
  <2> QED BY <1>0, <1>2, <2>1, <2>2, <2>3, <2>4, WalkInv
<1> QED BY <1>1, <1>2, ZenonT(60) DEF Quiet

=============================================================================
