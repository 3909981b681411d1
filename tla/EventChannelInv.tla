-------------------------- MODULE EventChannelInv --------------------------
(***************************************************************************)
(* An inductive invariant of EventChannel, and the proof that the steps    *)
(* that leave the port tables alone preserve it, for any number of         *)
(* domains, ports, vcpus and CPUs.  EventChannelProofs has the other steps *)
(* and the theorems.                                                       *)
(*                                                                         *)
(* That channels are symmetric is not inductive by itself: a CPU acts on   *)
(* what it read before it waited for a lock.  The invariant adds which     *)
(* locks a CPU holds at each point, what it may still believe of the port  *)
(* it works on, and how far a teardown has come.                           *)
(***************************************************************************)
EXTENDS EventChannel, TLAPS

USE SMTT(60), ZenonT(60)

-----------------------------------------------------------------------------
(* The inductive invariant. *)

AllocPCs == {"unbound", "xen", "virq", "ipi", "bind_commit"}

ClosePCs == {"close", "close_barrier", "close_lock2", "close_drop"}
TearPCs == ClosePCs \cup {"destroy_barrier", "loop", "destroy_free"}

(* The locals an operation has set by the time it uses them. *)
WorkOK(w) ==
    /\ w.pc # "idle" => w.d1 \in Domains
    /\ w.pc \notin {"loop", "destroy_barrier", "destroy_free"} => w.p1 \in Ports
    /\ w.pc \in {"bind_lock2", "bind_commit", "close_lock2", "close_drop"}
          => w.d2 \in Domains /\ (w.pc # "bind_commit" => w.d1 # w.d2)
    /\ w.pc \in {"close", "close_barrier"} /\ w.d2 # NoDom
          => w.d2 \in Domains /\ w.d1 # w.d2
    /\ w.pc \in {"destroy_barrier", "destroy_free"} => w.loop = "destroy"
    /\ w.pc = "destroy_barrier" => w.p1 = 0
    /\ w.pc \in {"free_xen", "loop", "destroy_barrier"} => w.d2 = NoDom
    /\ w.loop = "destroy" => w.pc \in TearPCs

(* The event locks a CPU holds. *)
Holds(w) ==
    IF w.pc \in {"unbound", "xen", "virq", "ipi", "send", "free_xen", "close_lock2"} THEN {w.d1}
    ELSE IF w.pc = "bind_lock2" THEN {IF w.d1 < w.d2 THEN w.d1 ELSE w.d2}
    ELSE IF w.pc = "bind_commit" THEN {w.d1, w.d2}
    ELSE IF w.pc \in {"close_barrier"} THEN CloseLocks(w)
    ELSE IF w.pc = "close" /\ w.d2 # NoDom THEN {w.d2}
    ELSE {}

(* What a CPU knows of port d1, p1 while it holds d1's lock; t is the table   *)
(* of ports and n the number of valid ones.                                   *)
Knows(w, t, n) ==
    LET ch == t[w.d1][w.p1]
    IN  /\ w.pc \in AllocPCs => ch.state = "FREE" /\ w.p1 < n[w.d1]
        /\ w.pc = "close_lock2" => ch.state = "INTERDOMAIN" /\ ch.dom = w.d2
        /\ w.pc = "close_barrier" => ch.state = "VIRQ"
        /\ w.pc = "send" =>
              \/ ch.state = "INTERDOMAIN" /\ ch.dom = w.d2 /\ ch.port = w.p2
              \/ ch.state = "IPI" /\ w.d1 = w.d2 /\ w.p1 = w.p2

Gone(ch) == ch.state \in {"FREE", "RESERVED"}

(* What evtchn_destroy() has achieved on its way through the ports. *)
TornDown(w, t, n) ==
    w.loop = "destroy" /\ w.pc # "destroy_barrier" =>
       /\ \A p \in Ports : p < w.p1 => Gone(t[w.d1][p])
       /\ w.pc \in ClosePCs => ~t[w.d1][w.p1].xen /\ w.p1 < n[w.d1]
       /\ w.pc \in {"close", "close_drop"} /\ w.d2 # NoDom =>
             \/ Gone(t[w.d1][w.p1])
             \/ /\ t[w.d1][w.p1].state \in {"UNBOUND", "INTERDOMAIN"}
                /\ t[w.d1][w.p1].dom = w.d2
       /\ w.pc = "destroy_free" => n[w.d1] <= w.p1

(* The barrier has let evtchn_destroy() pass: nobody is allocating, or tearing *)
(* down, in the same domain.                                                  *)
Alone(c) ==
    cpu[c].loop = "destroy" =>
       /\ cpu[c].d1 \in dying
       /\ \A o \in Cpus \ {c} : cpu[o].loop = "destroy" => cpu[o].d1 # cpu[c].d1
       /\ cpu[c].pc # "destroy_barrier" =>
             \A o \in Cpus : cpu[o].pc \in AllocPCs => cpu[o].d1 # cpu[c].d1

(* The two ends of an interdomain channel name each other. *)
Paired(t, n, d, p) ==
    LET d2 == t[d][p].dom
        p2 == t[d][p].port
    IN  /\ d2 \in Domains /\ p2 < n[d2]
        /\ t[d2][p2].state = "INTERDOMAIN" /\ t[d2][p2].dom = d /\ t[d2][p2].port = p

Peers(t, n) ==
    \A d \in Domains, p \in Ports : t[d][p].state = "INTERDOMAIN" => Paired(t, n, d, p)

(* Ports for which there is no bucket yet are as xzalloc() will leave them. *)
NoBucket(t, n) == \A d \in Domains, p \in Ports : n[d] <= p => t[d][p].state = "FREE"

(* Every CPU holds the locks its place in the code says, and is right about   *)
(* the port it works on: what __evtchn_close(), evtchn_send() and             *)
(* evtchn_destroy() rely on after each wait for a lock or a barrier.          *)
IInv ==
    /\ TypeOK
    /\ \A c \in Cpus : WorkOK(cpu[c])
    /\ \A c \in Cpus : \A d \in Holds(cpu[c]) : lock[d] = c
    /\ \A c \in Cpus : Knows(cpu[c], chn, nvalid)
    /\ \A c \in Cpus : TornDown(cpu[c], chn, nvalid)
    /\ \A c \in Cpus : Alone(c)
    /\ Peers(chn, nvalid)
    /\ NoBucket(chn, nvalid)

(* What the assumption on the constants says of ports, domains and table      *)
(* sizes.                                                                     *)
LEMMA PortFacts ==
    /\ NrPorts \in Nat /\ 0 \in Ports /\ 0 \in Vcpus
    /\ \A p \in Ports : p \in Nat /\ p < NrPorts /\ p \in 0 .. NrPorts /\ p + 1 \in 0 .. NrPorts
    /\ \A d \in Domains : d \in Nat /\ d # NoDom
    /\ \A d \in Domains : MaxEvtchns[d] \in Nat /\ 1 <= MaxEvtchns[d] /\ MaxEvtchns[d] <= NrPorts
    /\ BucketSize \in Nat /\ \A d \in Domains : BucketSize <= MaxEvtchns[d]
<1>1. NrPorts \in Nat /\ 0 \in Ports /\ 0 \in Vcpus
  BY ConstantsAssumption DEF Ports
<1>2. \A p \in Ports : p \in Nat /\ p < NrPorts /\ p \in 0 .. NrPorts /\ p + 1 \in 0 .. NrPorts
  BY <1>1 DEF Ports
<1>3. \A d \in Domains : d \in Nat /\ d # NoDom
  BY ConstantsAssumption, ZenonT(60)
<1>4. \A d \in Domains : MaxEvtchns[d] \in Nat /\ 1 <= MaxEvtchns[d] /\ MaxEvtchns[d] <= NrPorts
  <2>1. \A d \in Domains : MaxEvtchns[d] \in 1 .. NrPorts
    BY ConstantsAssumption, ZenonT(60)
  <2> QED BY <2>1, <1>1
<1>5. BucketSize \in Nat /\ \A d \in Domains : BucketSize <= MaxEvtchns[d]
  BY ConstantsAssumption
<1> QED
  BY <1>1, <1>2, <1>3, <1>4, <1>5

(* An idle CPU's locals are well typed. *)
LEMMA IdleType == Idle \in Work /\ Idle.pc = "idle" /\ Idle.p1 = 0
  BY PortFacts DEF Idle, Work, PCs

(* The contents of a free port are well typed. *)
LEMMA FreeType == FreeChn \in Evtchn
  BY PortFacts DEF FreeChn, Evtchn, States

(* An idle CPU holds no event lock and is in no loop. *)
LEMMA IdleOK == WorkOK(Idle) /\ Holds(Idle) = {} /\ Idle.loop = "none"
  BY PortFacts DEF WorkOK, Holds, Idle

(* An idle CPU relies on no port. *)
LEMMA IdleFacts ==
    ASSUME NEW t, NEW n
    PROVE  Knows(Idle, t, n) /\ TornDown(Idle, t, n) /\ Idle.pc \notin AllocPCs
<1>1. Idle.pc \notin AllocPCs
  BY IdleType DEF AllocPCs
<1>2. Knows(Idle, t, n)
  BY <1>1, IdleType, ZenonT(60) DEF Knows
<1>3. TornDown(Idle, t, n)
  BY IdleOK, ZenonT(60) DEF TornDown
<1> QED
  BY <1>1, <1>2, <1>3

(* evtchn_init() establishes the invariant. *)
LEMMA InitInv == Init => IInv
<1> SUFFICES ASSUME Init PROVE IInv
  OBVIOUS
<1>1. chn \in [Domains -> [Ports -> Evtchn]]
  BY PortFacts, ZenonT(60) DEF Init, Evtchn, States, FreeChn
<1>2. nvalid \in [Domains -> 0 .. NrPorts] /\ \A d \in Domains : nvalid[d] <= MaxEvtchns[d]
  <2>1. nvalid = [d \in Domains |-> BucketSize]
    BY ZenonT(60) DEF Init
  <2> QED
    BY <2>1, PortFacts
<1>3. virqmap \in [Domains -> [Vcpus -> [Virqs -> Ports]]]
  BY PortFacts DEF Init
<1>4. cpu = [c \in Cpus |-> Idle] /\ cpu \in [Cpus -> Work]
  BY IdleType DEF Init
<1>5. TypeOK
  BY <1>1, <1>2, <1>3, <1>4, ZenonT(60) DEF Init, TypeOK
<1>6. \A d \in Domains, p \in Ports : chn[d][p].state \in {"FREE", "RESERVED"}
  BY DEF Init, FreeChn
<1>7. Peers(chn, nvalid)
  BY <1>6 DEF Peers
<1>8. \A c \in Cpus : cpu[c] = Idle
  BY <1>4, ZenonT(60)
<1>9. \A c \in Cpus : /\ WorkOK(cpu[c]) /\ Holds(cpu[c]) = {} /\ Alone(c)
                      /\ TornDown(cpu[c], chn, nvalid)
  BY <1>8, IdleOK, ZenonT(60) DEF Alone, TornDown
<1>10. \A c \in Cpus : Knows(cpu[c], chn, nvalid)
  BY <1>8, IdleType DEF Knows, AllocPCs
<1>11. NoBucket(chn, nvalid)
  <2>1. /\ nvalid = [d \in Domains |-> BucketSize]
        /\ chn = [d \in Domains |-> [p \in Ports |->
                     IF p = 0 THEN [FreeChn EXCEPT !.state = "RESERVED"] ELSE FreeChn]]
    BY ZenonT(60) DEF Init
  <2>2. \A p \in Ports : BucketSize <= p => p # 0
    BY PortFacts, ConstantsAssumption
  <2> QED
    BY <2>1, <2>2 DEF NoBucket, FreeChn
<1> QED
  BY <1>5, <1>7, <1>9, <1>10, <1>11 DEF IInv

-----------------------------------------------------------------------------
(* One step of a CPU, and what it means for the others.                       *)

SameBinding(new, old) == new.state = old.state /\ new.dom = old.dom /\ new.port = old.port

(* What another CPU has locked stays as it is. *)
Frame(c) ==
    \A d \in Domains :
       lock[d] \in Cpus \ {c} =>
          /\ lock'[d] = lock[d] /\ nvalid'[d] = nvalid[d]
          /\ \A p \in Ports : SameBinding(chn'[d][p], chn[d][p])

(* A port of a domain in which nobody allocates only loses: its Xen consumer, *)
(* its peer, in the end everything.                                           *)
Wanes(new, old) ==
    /\ Gone(old) => Gone(new)
    /\ ~old.xen => ~new.xen
    /\ old.state \in {"UNBOUND", "INTERDOMAIN"} =>
          Gone(new) \/ (new.state \in {"UNBOUND", "INTERDOMAIN"} /\ new.dom = old.dom)

Waning(c) ==
    \A d \in dying :
       /\ \A o \in Cpus : cpu[o].pc \in AllocPCs => cpu[o].d1 # d
       /\ cpu[c].pc = "destroy_free" => cpu[c].d1 # d
       => /\ nvalid'[d] = nvalid[d]
          /\ \A p \in Ports : Wanes(chn'[d][p], chn[d][p])

(* Only the CPU that takes a step changes its locals. *)
LEMMA CpuUpdate ==
    ASSUME TypeOK, NEW c \in Cpus, NEW w, Continue(c, w)
    PROVE  cpu'[c] = w /\ \A o \in Cpus \ {c} : cpu'[o] = cpu[o]
  BY DEF TypeOK, Continue

(* What every step comes down to: CPU c goes on as w, the invariant holds of  *)
(* w, the step respects what other CPUs have locked (Frame), and a domain     *)
(* being torn down gains nothing (Waning).                                    *)
LEMMA Advance ==
    ASSUME IInv, TypeOK', NEW c \in Cpus, NEW w \in Work, Continue(c, w), WorkOK(w),
           Frame(c), Waning(c), dying \subseteq dying',
           \A d \in Holds(w) : lock'[d] = c,
           Knows(w, chn', nvalid'), TornDown(w, chn', nvalid'),
           w.pc \in AllocPCs => w.d1 \notin dying,
           w.loop = "destroy" =>
              /\ w.d1 \in dying'
              /\ \A o \in Cpus \ {c} : cpu[o].loop = "destroy" => cpu[o].d1 # w.d1
              /\ w.pc # "destroy_barrier" =>
                    \A o \in Cpus \ {c} : cpu[o].pc \in AllocPCs => cpu[o].d1 # w.d1,
           Peers(chn', nvalid'), NoBucket(chn', nvalid')
    PROVE  IInv'
<1>1. cpu'[c] = w /\ \A o \in Cpus \ {c} : cpu'[o] = cpu[o]
  BY CpuUpdate DEF IInv
<1>2. \A o \in Cpus : WorkOK(cpu'[o])
  BY <1>1 DEF IInv
<1>3. \A o \in Cpus : \A d \in Holds(cpu'[o]) : lock'[d] = o
  <2> SUFFICES ASSUME NEW o \in Cpus \ {c}, NEW d \in Holds(cpu[o]) PROVE lock'[d] = o
    BY <1>1, ZenonT(60)
  <2>1. lock[d] = o /\ d \in Domains
    BY ZenonT(60) DEF IInv, Holds, WorkOK, CloseLocks
  <2> QED
    BY <2>1 DEF Frame
<1>4. \A o \in Cpus : Knows(cpu'[o], chn', nvalid')
  <2> SUFFICES ASSUME NEW o \in Cpus \ {c} PROVE Knows(cpu[o], chn', nvalid')
    BY <1>1
  <2> DEFINE u == cpu[o]
  <2>1. Knows(u, chn, nvalid) /\ WorkOK(u) /\ \A d \in Holds(u) : lock[d] = o
    BY ZenonT(60) DEF IInv
  <2>2. CASE u.pc \notin AllocPCs \cup {"close_lock2", "close_barrier", "send"}
    BY <2>2, ZenonT(60) DEF Knows
  <2>3. CASE u.pc \in AllocPCs \cup {"close_lock2", "close_barrier", "send"}
    <3>1. u.d1 \in Domains /\ u.p1 \in Ports /\ u.d1 \in Holds(u)
      BY <2>1, <2>3, ZenonT(60) DEF WorkOK, Holds, AllocPCs, CloseLocks
    <3>2. nvalid'[u.d1] = nvalid[u.d1] /\ SameBinding(chn'[u.d1][u.p1], chn[u.d1][u.p1])
      BY <2>1, <3>1 DEF Frame
    <3> HIDE DEF u
    <3>3. Knows(u, chn', nvalid')
      BY <2>1, <3>2, ZenonT(60) DEF Knows, SameBinding
    <3> QED
      BY <3>3, ZenonT(60) DEF u
  <2> QED
    BY <2>2, <2>3
<1>5. \A o \in Cpus : TornDown(cpu'[o], chn', nvalid')
  <2> SUFFICES ASSUME NEW o \in Cpus \ {c} PROVE TornDown(cpu[o], chn', nvalid')
    BY <1>1
  <2> DEFINE u == cpu[o]
  <2> SUFFICES ASSUME u.loop = "destroy", u.pc # "destroy_barrier"
      PROVE  TornDown(u, chn', nvalid')
    BY ZenonT(60) DEF TornDown
  <2>1. TornDown(u, chn, nvalid) /\ WorkOK(u) /\ Alone(o) /\ u \in Work
    BY ZenonT(60) DEF IInv, TypeOK
  <2>2. u.d1 \in dying /\ u.d1 \in Domains
    BY <2>1, ZenonT(60) DEF Alone, WorkOK, TearPCs, ClosePCs
  <2>3. cpu[c].pc = "destroy_free" => cpu[c].d1 # u.d1
    BY <2>1, ZenonT(60) DEF Alone, IInv, WorkOK
  <2>4. \A k \in Cpus : cpu[k].pc \in AllocPCs => cpu[k].d1 # u.d1
    BY <2>1, ZenonT(60) DEF Alone
  <2>5. nvalid'[u.d1] = nvalid[u.d1] /\ \A p \in Ports : Wanes(chn'[u.d1][p], chn[u.d1][p])
    BY <2>2, <2>3, <2>4, ZenonT(60) DEF Waning
  <2>6. u.pc \in ClosePCs => u.p1 \in Ports
    BY <2>1, ZenonT(60) DEF WorkOK, ClosePCs
  <2> HIDE DEF u
  <2> QED
    BY <2>1, <2>5, <2>6, ZenonT(60) DEF TornDown, Wanes, ClosePCs
<1>6. \A o \in Cpus : Alone(o)'
  <2>1. \A o \in Cpus : Alone(o)
    BY DEF IInv
  <2>2. w.loop = "destroy" => w.pc \notin AllocPCs
    BY DEF WorkOK, TearPCs, ClosePCs, AllocPCs
  <2> QED
    BY <1>1, <2>1, <2>2 DEF Alone
<1> QED
  BY <1>2, <1>3, <1>4, <1>5, <1>6, ZenonT(60) DEF IInv

-----------------------------------------------------------------------------
(* Steps that leave the ports alone. *)

(* Taking an event lock changes that lock only. *)
LEMMA AcquireType ==
    ASSUME IInv, NEW c \in Cpus, NEW d \in Domains, lock' = Acquire(lock, d, c)
    PROVE  /\ lock' \in [Domains -> Cpus \cup {NoCpu}]
           /\ lock'[d] = c /\ \A e \in Domains \ {d} : lock'[e] = lock[e]
  BY DEF IInv, TypeOK, Acquire

(* Dropping event locks changes those locks only. *)
LEMMA ReleaseType ==
    ASSUME IInv, NEW ds, lock' = Release(lock, ds)
    PROVE  /\ lock' \in [Domains -> Cpus \cup {NoCpu}]
           /\ \A e \in Domains : e \notin ds => lock'[e] = lock[e]
  BY DEF IInv, TypeOK, Release

(* Taking a free lock, or giving up one's own, leaves the other CPUs' locks.   *)
LEMMA AcquireKeeps ==
    ASSUME IInv, NEW c \in Cpus, NEW d \in Domains, lock[d] = NoCpu,
           lock' = Acquire(lock, d, c)
    PROVE  \A e \in Domains : lock[e] \in Cpus \ {c} => lock'[e] = lock[e]
<1>1. NoCpu \notin Cpus
  BY ConstantsAssumption
<1>2. \A e \in Domains \ {d} : lock'[e] = lock[e]
  BY AcquireType, ZenonT(60)
<1> QED
  BY <1>1, <1>2, ZenonT(60)

(* Giving up one's own locks leaves the other CPUs the locks they hold. *)
LEMMA ReleaseKeeps ==
    ASSUME IInv, NEW c \in Cpus, NEW ds, lock' = Release(lock, ds),
           \A d \in Domains : d \in ds => lock[d] \in {c, NoCpu}
    PROVE  \A e \in Domains : lock[e] \in Cpus \ {c} => lock'[e] = lock[e]
<1>1. NoCpu \notin Cpus
  BY ConstantsAssumption
<1>2. \A e \in Domains : e \notin ds => lock'[e] = lock[e]
  BY ReleaseType, ZenonT(60)
<1> QED
  BY <1>1, <1>2, ZenonT(60)

(* The locals stay well typed when one CPU's new ones are. *)
LEMMA CpuType ==
    ASSUME IInv, NEW c \in Cpus, NEW w \in Work, Continue(c, w)
    PROVE  cpu' \in [Cpus -> Work]
  BY DEF IInv, TypeOK, Continue

(* The loop of evtchn_destroy(), once past its barrier, stays alone. *)
LEMMA StaysAlone ==
    ASSUME IInv, NEW c \in Cpus, NEW w, dying \subseteq dying',
           w.loop = "destroy" =>
              /\ cpu[c].loop = "destroy" /\ cpu[c].d1 = w.d1
              /\ cpu[c].pc = "destroy_barrier" => w.pc = "destroy_barrier"
    PROVE  w.loop = "destroy" =>
              /\ w.d1 \in dying'
              /\ \A o \in Cpus \ {c} : cpu[o].loop = "destroy" => cpu[o].d1 # w.d1
              /\ w.pc # "destroy_barrier" =>
                    \A o \in Cpus \ {c} : cpu[o].pc \in AllocPCs => cpu[o].d1 # w.d1
<1>1. Alone(c)
  BY ZenonT(60) DEF IInv
<1> QED
  BY <1>1 DEF Alone

(* A step that leaves the port tables alone preserves the invariant, if the   *)
(* CPU that takes it may say what the invariant says of it.                   *)
LEMMA Quiet ==
    ASSUME IInv, TypeOK', NEW c \in Cpus, NEW w \in Work, Continue(c, w), WorkOK(w),
           chn' = chn, nvalid' = nvalid, dying \subseteq dying',
           \A d \in Domains : lock[d] \in Cpus \ {c} => lock'[d] = lock[d],
           \A d \in Holds(w) : lock'[d] = c,
           Knows(w, chn, nvalid), TornDown(w, chn, nvalid),
           w.pc \notin AllocPCs,
           w.loop = "destroy" =>
              /\ w.d1 \in dying'
              /\ \A o \in Cpus \ {c} : cpu[o].loop = "destroy" => cpu[o].d1 # w.d1
              /\ w.pc # "destroy_barrier" =>
                    \A o \in Cpus \ {c} : cpu[o].pc \in AllocPCs => cpu[o].d1 # w.d1
    PROVE  IInv'
<1>1. Frame(c)
  BY DEF Frame, SameBinding
<1>2. Waning(c)
  BY ZenonT(60) DEF Waning, Wanes
<1>3. Peers(chn', nvalid') /\ NoBucket(chn', nvalid')
  BY DEF IInv
<1>4. Knows(w, chn', nvalid') /\ TornDown(w, chn', nvalid')
  OBVIOUS
<1> QED
  BY <1>1, <1>2, <1>3, <1>4, Advance, ZenonT(60)

(* The operation is over, its locks dropped. *)
LEMMA QuietEnd ==
    ASSUME IInv, TypeOK', NEW c \in Cpus, Continue(c, Idle),
           chn' = chn, nvalid' = nvalid, dying' = dying,
           \A d \in Domains : lock[d] \in Cpus \ {c} => lock'[d] = lock[d]
    PROVE  IInv'
<1>1. Knows(Idle, chn, nvalid) /\ TornDown(Idle, chn, nvalid)
  BY IdleOK, IdleType DEF Knows, TornDown, AllocPCs
<1>2. Idle.pc \notin AllocPCs /\ Idle.loop # "destroy"
  BY IdleType, IdleOK DEF AllocPCs
<1> QED
  BY <1>1, <1>2, IdleOK, IdleType, Quiet

(* evtchn_bind_interdomain() without a free port preserves the invariant. *)
LEMMA BindNoPortInv == ASSUME IInv, NEW c \in Cpus, BindNoPort(c) PROVE IInv'
<1> DEFINE u == cpu[c]
<1>1. u.d1 \in Domains /\ u.d2 \in Domains /\ u.pc = "bind_lock2" /\ u \in Work
  BY ZenonT(60) DEF IInv, TypeOK, WorkOK, BindNoPort
<1>2. lock[IF u.d1 < u.d2 THEN u.d1 ELSE u.d2] = c
  BY <1>1, ZenonT(60) DEF IInv, Holds
<1>3. lock[IF u.d1 < u.d2 THEN u.d2 ELSE u.d1] = NoCpu
  BY DEF BindNoPort
<1>4. lock' = Release(lock, {u.d1, u.d2}) /\ Continue(c, Idle)
  BY DEF BindNoPort
<1>5. \A d \in Domains : lock[d] \in Cpus \ {c} => lock'[d] = lock[d]
  BY <1>1, <1>2, <1>3, <1>4, ReleaseType, ConstantsAssumption
<1>6. TypeOK'
  BY <1>4, ReleaseType, CpuType, IdleType, ZenonT(60) DEF IInv, TypeOK, BindNoPort
<1> QED
  BY <1>4, <1>5, <1>6, QuietEnd, ZenonT(60) DEF BindNoPort

(* evtchn_bind_interdomain() refused by the remote port preserves the         *)
(* invariant.                                                                 *)
LEMMA BindRefusedInv == ASSUME IInv, NEW c \in Cpus, BindRefused(c) PROVE IInv'
<1> DEFINE u == cpu[c]
<1>1. lock[u.d1] = c /\ lock[u.d2] = c
  BY ZenonT(60) DEF IInv, Holds, BindRefused
<1>2. lock' = Release(lock, {u.d1, u.d2}) /\ Continue(c, Idle)
  BY DEF BindRefused
<1>3. \A d \in Domains : lock[d] \in Cpus \ {c} => lock'[d] = lock[d]
  BY <1>1, <1>2, ReleaseType
<1>4. TypeOK'
  BY <1>2, ReleaseType, CpuType, IdleType, ZenonT(60) DEF IInv, TypeOK, BindRefused
<1> QED
  BY <1>2, <1>3, <1>4, QuietEnd DEF BindRefused

(* The end of evtchn_send() preserves the invariant. *)
LEMMA SendFinishInv == ASSUME IInv, NEW c \in Cpus, SendFinish(c) PROVE IInv'
<1> DEFINE u == cpu[c]
<1>1. lock[u.d1] = c
  BY DEF IInv, Holds, SendFinish
<1>2. lock' = Release(lock, {u.d1}) /\ Continue(c, Idle)
  BY DEF SendFinish
<1>3. \A d \in Domains : lock[d] \in Cpus \ {c} => lock'[d] = lock[d]
  BY <1>1, <1>2, ReleaseType
<1>4. pending' \subseteq Domains \X Ports
  <2>1. u \in Work /\ WorkOK(u) /\ Knows(u, chn, nvalid) /\ u.pc = "send"
    BY ZenonT(60) DEF IInv, TypeOK, SendFinish
  <2>2. u.d1 \in Domains /\ u.p1 \in Ports
    BY <2>1 DEF WorkOK
  <2>3. chn[u.d1][u.p1].state = "INTERDOMAIN" => chn[u.d1][u.p1].dom \in Domains
    BY <2>2, ZenonT(60) DEF IInv, Peers, Paired
  <2>4. u.d2 \in Domains
    BY <2>1, <2>2, <2>3, ZenonT(60) DEF Knows
  <2>5. u.p2 \in Ports
    BY <2>1 DEF Work
  <2> QED
    BY <2>4, <2>5 DEF SendFinish, IInv, TypeOK
<1>5. TypeOK'
  BY <1>2, <1>4, ReleaseType, CpuType, IdleType, ZenonT(60) DEF IInv, TypeOK, SendFinish
<1> QED
  BY <1>2, <1>3, <1>5, QuietEnd, ZenonT(60) DEF SendFinish

(* The end of send_guest_vcpu_virq() preserves the invariant. *)
LEMMA SendVirqFinishInv == ASSUME IInv, NEW c \in Cpus, SendVirqFinish(c) PROVE IInv'
<1>1. cpu[c].d1 \in Domains /\ cpu[c].p1 \in Ports /\ cpu[c].v \in Vcpus
  BY ZenonT(60) DEF IInv, TypeOK, WorkOK, Work, SendVirqFinish
<1>2. vlock' \in [Domains -> [Vcpus -> Cpus \cup {NoCpu}]]
  BY <1>1, ZenonT(60) DEF IInv, TypeOK, SendVirqFinish
<1>3. pending' \subseteq Domains \X Ports
  BY <1>1 DEF IInv, TypeOK, SendVirqFinish
<1>4. TypeOK'
  BY <1>2, <1>3, CpuType, IdleType, ZenonT(60) DEF IInv, TypeOK, SendVirqFinish
<1> QED
  BY <1>4, QuietEnd DEF SendVirqFinish

(* The spin_barrier() of evtchn_destroy() preserves the invariant: the lock   *)
(* is free, so nobody is allocating in the dying domain.                      *)
LEMMA DestroyBarrierInv == ASSUME IInv, NEW c \in Cpus, DestroyBarrier(c) PROVE IInv'
<1> DEFINE u == cpu[c]
           w == [u EXCEPT !.pc = "loop"]
<1>1. u \in Work /\ WorkOK(u) /\ Alone(c) /\ u.pc = "destroy_barrier"
  BY DEF IInv, TypeOK, DestroyBarrier
<1>2. /\ w \in Work /\ w.pc = "loop" /\ w.loop = u.loop /\ w.d1 = u.d1 /\ w.p1 = u.p1
      /\ w.d2 = u.d2
  BY <1>1 DEF Work, PCs
<1>3. Continue(c, w)
  BY ZenonT(60) DEF DestroyBarrier
<1> HIDE DEF w
<1>4. u.loop = "destroy" /\ u.d1 \in Domains /\ u.d1 \in dying
  BY <1>1, ZenonT(60) DEF WorkOK, Alone
<1>5. WorkOK(w) /\ Holds(w) = {} /\ Knows(w, chn, nvalid)
  BY <1>1, <1>2, <1>4 DEF WorkOK, Holds, Knows, AllocPCs, TearPCs
<1>6. TypeOK'
  BY <1>2, <1>3, CpuType, ZenonT(60) DEF IInv, TypeOK, DestroyBarrier
<1>7. \A o \in Cpus : cpu[o].pc \in AllocPCs => cpu[o].d1 # u.d1
  <2> SUFFICES ASSUME NEW o \in Cpus, cpu[o].pc \in AllocPCs, cpu[o].d1 = u.d1 PROVE FALSE
    OBVIOUS
  <2>1. u.d1 \in Holds(cpu[o])
    BY ZenonT(60) DEF Holds, AllocPCs
  <2>2. lock[u.d1] = o
    BY <2>1 DEF IInv
  <2>3. lock[u.d1] = NoCpu
    BY DEF DestroyBarrier
  <2> QED
    BY <2>2, <2>3, ConstantsAssumption
<1>8. TornDown(w, chn, nvalid)
  <2>1. u.p1 = 0
    BY <1>1, ZenonT(60) DEF WorkOK
  <2> QED
    BY <1>2, <2>1, PortFacts DEF TornDown, ClosePCs
<1>9. \A o \in Cpus \ {c} : cpu[o].loop = "destroy" => cpu[o].d1 # w.d1
  BY <1>1, <1>2, <1>4, ZenonT(60) DEF Alone
<1>10. w.pc \notin AllocPCs /\ w.d1 \in dying
  BY <1>2, <1>4 DEF AllocPCs
<1> QED
  BY <1>2, <1>3, <1>5, <1>6, <1>7, <1>8, <1>9, <1>10, Quiet DEF DestroyBarrier

(* The end of the loop of evtchn_reset() or evtchn_destroy() preserves the    *)
(* invariant.                                                                 *)
LEMMA LoopEndInv == ASSUME IInv, NEW c \in Cpus, LoopEnd(c) PROVE IInv'
<1> DEFINE u == cpu[c]
           w == [u EXCEPT !.pc = "destroy_free"]
<1>1. u \in Work /\ WorkOK(u) /\ TornDown(u, chn, nvalid) /\ u.pc = "loop"
  BY DEF IInv, TypeOK, LoopEnd
<1>2. CASE u.loop # "destroy"
  <2>1. Continue(c, Idle)
    BY <1>2 DEF LoopEnd
  <2>2. TypeOK'
    BY <2>1, CpuType, IdleType, ZenonT(60) DEF IInv, TypeOK, LoopEnd
  <2> QED
    BY <2>1, <2>2, QuietEnd DEF LoopEnd
<1>3. CASE u.loop = "destroy"
  <2>1. /\ w \in Work /\ w.pc = "destroy_free" /\ w.loop = u.loop /\ w.d1 = u.d1
        /\ w.p1 = u.p1 /\ w.d2 = u.d2
    BY <1>1 DEF Work, PCs
  <2>2. Continue(c, w)
    BY <1>3, ZenonT(60) DEF LoopEnd
  <2> HIDE DEF w
  <2>3. WorkOK(w) /\ Holds(w) = {} /\ Knows(w, chn, nvalid) /\ w.pc \notin AllocPCs
    BY <1>1, <1>3, <2>1 DEF WorkOK, Holds, Knows, AllocPCs, TearPCs
  <2>4. nvalid[u.d1] <= u.p1
    <3>1. nvalid[u.d1] \in Nat /\ u.p1 \in Nat
      BY <1>1, PortFacts DEF IInv, TypeOK, WorkOK, Work
    <3> QED
      BY <3>1 DEF LoopEnd, port_is_valid
  <2>5. TornDown(w, chn, nvalid)
    BY <1>1, <1>3, <2>1, <2>4, ZenonT(60) DEF TornDown, ClosePCs
  <2>6. TypeOK'
    BY <2>1, <2>2, CpuType DEF IInv, TypeOK, LoopEnd
  <2>7. w.loop = "destroy" =>
           /\ cpu[c].loop = "destroy" /\ cpu[c].d1 = w.d1
           /\ cpu[c].pc = "destroy_barrier" => w.pc = "destroy_barrier"
    BY <1>1, <2>1, ZenonT(60)
  <2> QED
    BY <2>1, <2>2, <2>3, <2>5, <2>6, <2>7, StaysAlone, Quiet, ZenonT(60) DEF LoopEnd
<1> QED
  BY <1>2, <1>3

(* The return of __evtchn_close(): a table t of ports in which port p1 is     *)
(* free, or reserved, is torn down that far.                                  *)
LEMMA ReturnedFacts ==
    ASSUME NEW u \in Work, u.d1 \in Domains, u.p1 \in Ports, u.pc \in ClosePCs,
           NEW t, NEW n, TornDown(u, t, n), u.loop = "destroy" => Gone(t[u.d1][u.p1])
    PROVE  /\ Returned(u) \in Work /\ WorkOK(Returned(u)) /\ Holds(Returned(u)) = {}
           /\ Returned(u).pc \notin AllocPCs
           /\ Knows(Returned(u), t, n) /\ TornDown(Returned(u), t, n)
           /\ Returned(u).loop = "destroy" =>
                 u.loop = "destroy" /\ u.d1 = Returned(u).d1
<1> DEFINE w == Returned(u)
<1>1. CASE u.loop = "none"
  <2>1. Returned(u) = Idle
    BY <1>1, ZenonT(60) DEF Returned
  <2>2. Idle.loop # "destroy"
    BY IdleOK, ZenonT(60)
  <2> QED
    BY <2>1, <2>2, IdleFacts, IdleOK, IdleType, ZenonT(60)
<1>2. CASE u.loop # "none"
  <2>1. w = [u EXCEPT !.pc = "loop", !.p1 = u.p1 + 1, !.d2 = NoDom, !.v = 0]
    BY <1>2 DEF Returned
  <2>2. /\ w \in Work /\ w.pc = "loop" /\ w.d1 = u.d1 /\ w.p1 = u.p1 + 1 /\ w.d2 = NoDom
        /\ w.loop = u.loop
    <3>1. u.p1 + 1 \in 0 .. NrPorts /\ 0 \in Vcpus
      BY PortFacts, ZenonT(60)
    <3> HIDE DEF w
    <3> QED
      BY <2>1, <3>1, ZenonT(60) DEF Work, PCs
  <2> HIDE DEF w
  <2>3. WorkOK(w) /\ Holds(w) = {} /\ w.pc \notin AllocPCs /\ Knows(w, t, n)
    BY <2>2, ZenonT(60) DEF WorkOK, Holds, AllocPCs, TearPCs, Knows
  <2>4. TornDown(w, t, n)
    <3> SUFFICES ASSUME w.loop = "destroy", NEW p \in Ports, p < u.p1 + 1 PROVE Gone(t[u.d1][p])
      BY <2>2, ZenonT(60) DEF TornDown, ClosePCs
    <3>1. p < u.p1 \/ p = u.p1
      BY PortFacts
    <3>2. u.pc # "destroy_barrier"
      BY ZenonT(60) DEF ClosePCs
    <3> QED
      BY <2>2, <3>1, <3>2, ZenonT(60) DEF TornDown
  <2>5. w \in Work /\ WorkOK(w) /\ Holds(w) = {} /\ w.pc \notin AllocPCs /\ Knows(w, t, n)
        /\ TornDown(w, t, n) /\ (w.loop = "destroy" => u.loop = "destroy" /\ u.d1 = w.d1)
    BY <2>2, <2>3, <2>4, ZenonT(60)
  <2> QED
    BY <2>5, ZenonT(60) DEF w
<1>3. QED
  BY <1>1, <1>2, ZenonT(60)

(* What the switch of __evtchn_close() starts from. *)
LEMMA AtCloseFacts ==
    ASSUME IInv, NEW c \in Cpus, AtClose(c)
    PROVE  /\ cpu[c] \in Work /\ cpu[c].pc = "close" /\ cpu[c].pc \in ClosePCs
           /\ cpu[c].d1 \in Domains /\ cpu[c].p1 \in Ports
           /\ cpu[c].d2 # NoDom => cpu[c].d2 \in Domains /\ cpu[c].d1 # cpu[c].d2
           /\ WorkOK(cpu[c]) /\ TornDown(cpu[c], chn, nvalid)
           /\ lock[cpu[c].d1] = NoCpu
           /\ \A d \in Domains : d \in CloseLocks(cpu[c]) => lock[d] \in {c, NoCpu}
           /\ chn[cpu[c].d1][cpu[c].p1] \in Evtchn
<1>1. cpu[c] \in Work /\ WorkOK(cpu[c]) /\ cpu[c].pc = "close" /\ lock[cpu[c].d1] = NoCpu
  BY ZenonT(60) DEF IInv, TypeOK, AtClose
<1>2. cpu[c].d1 \in Domains /\ cpu[c].p1 \in Ports
  BY <1>1, ZenonT(60) DEF WorkOK
<1>3. cpu[c].d2 # NoDom => cpu[c].d2 \in Domains /\ cpu[c].d1 # cpu[c].d2
  BY <1>1, ZenonT(60) DEF WorkOK
<1>4. cpu[c].d2 # NoDom => lock[cpu[c].d2] = c
  BY <1>1, ZenonT(60) DEF IInv, Holds
<1>5. \A d \in Domains : d \in CloseLocks(cpu[c]) => lock[d] \in {c, NoCpu}
  BY <1>1, <1>4, ZenonT(60) DEF CloseLocks
<1>6. chn[cpu[c].d1][cpu[c].p1] \in Evtchn
  BY <1>2 DEF IInv, TypeOK
<1>7. TornDown(cpu[c], chn, nvalid) /\ cpu[c].pc \in ClosePCs
  BY <1>1 DEF IInv, ClosePCs
<1> QED
  BY <1>1, <1>2, <1>3, <1>5, <1>6, <1>7, ZenonT(60)

(* An error return of __evtchn_close() preserves the invariant. *)
LEMMA CloseErrorInv == ASSUME IInv, NEW c \in Cpus, CloseError(c) PROVE IInv'
<1> DEFINE u == cpu[c]
           w == Returned(u)
<1>1. AtClose(c)
  BY ZenonT(60) DEF CloseError
<1>2. u.loop = "destroy" => Gone(chn[u.d1][u.p1])
  <2> SUFFICES ASSUME u.loop = "destroy" PROVE Gone(chn[u.d1][u.p1])
    OBVIOUS
  <2>1. /\ ~chn[u.d1][u.p1].xen /\ u.p1 < nvalid[u.d1]
        /\ u.d2 # NoDom => \/ Gone(chn[u.d1][u.p1])
                           \/ chn[u.d1][u.p1].dom = u.d2
    BY <1>1, AtCloseFacts, ZenonT(60) DEF TornDown
  <2> QED
    BY <2>1, ZenonT(60) DEF CloseError, port_is_valid, Gone
<1>3. lock' = Release(lock, CloseLocks(u)) /\ Continue(c, w)
  BY DEF CloseError
<1>4. /\ w \in Work /\ WorkOK(w) /\ Holds(w) = {} /\ w.pc \notin AllocPCs
      /\ Knows(w, chn, nvalid) /\ TornDown(w, chn, nvalid)
      /\ w.loop = "destroy" => u.loop = "destroy" /\ u.d1 = w.d1
  BY <1>1, <1>2, AtCloseFacts, ReturnedFacts, ZenonT(60)
<1> HIDE DEF w
<1>5. \A d \in Domains : lock[d] \in Cpus \ {c} => lock'[d] = lock[d]
  <2>1. \A d \in Domains : d \in CloseLocks(u) => lock[d] \in {c, NoCpu}
    BY <1>1, AtCloseFacts, ZenonT(60)
  <2> QED
    BY <1>3, <2>1, ReleaseKeeps, ZenonT(60)
<1>6. TypeOK'
  BY <1>3, <1>4, ReleaseType, CpuType, ZenonT(60) DEF IInv, TypeOK, CloseError
<1>7. w.loop = "destroy" =>
         /\ cpu[c].loop = "destroy" /\ cpu[c].d1 = w.d1
         /\ cpu[c].pc = "destroy_barrier" => w.pc = "destroy_barrier"
  BY <1>1, <1>4, AtCloseFacts, ZenonT(60)
<1> QED
  BY <1>3, <1>4, <1>5, <1>6, <1>7, StaysAlone, Quiet, ZenonT(60) DEF CloseError

(* __evtchn_close() of a VIRQ port, up to the barrier, preserves the          *)
(* invariant.                                                                 *)
LEMMA CloseVirqInv == ASSUME IInv, NEW c \in Cpus, CloseVirq(c) PROVE IInv'
<1> DEFINE u == cpu[c]
<1>1. AtClose(c)
  BY ZenonT(60) DEF CloseVirq
<1>2. PICK v \in Vcpus :
         /\ virqmap' = [virqmap EXCEPT ![u.d1][v][chn[u.d1][u.p1].virq] = 0]
         /\ Continue(c, [u EXCEPT !.pc = "close_barrier", !.v = v])
  BY ZenonT(60) DEF CloseVirq
<1> DEFINE w == [u EXCEPT !.pc = "close_barrier", !.v = v]
<1>3. u \in Work /\ WorkOK(u) /\ TornDown(u, chn, nvalid) /\ u.pc = "close" /\ u.d1 \in Domains
  BY <1>1, AtCloseFacts
<1>4. /\ w \in Work /\ w.pc = "close_barrier" /\ w.d1 = u.d1 /\ w.p1 = u.p1 /\ w.d2 = u.d2
      /\ w.loop = u.loop
  BY <1>3, ZenonT(60) DEF Work, PCs
<1>5. Continue(c, w)
  BY <1>2
<1>6. lock' = Acquire(lock, u.d1, c) /\ chn[u.d1][u.p1].state = "VIRQ"
  BY ZenonT(60) DEF CloseVirq, Closable
<1> HIDE DEF w
<1>7. WorkOK(w) /\ w.pc \notin AllocPCs /\ Knows(w, chn, nvalid)
  BY <1>3, <1>4, <1>6, ZenonT(60) DEF WorkOK, TearPCs, ClosePCs, AllocPCs, Knows
<1>8. TornDown(w, chn, nvalid)
  BY <1>3, <1>4, ZenonT(60) DEF TornDown, ClosePCs
<1>9. \A d \in Holds(w) : lock'[d] = c
  <2>1. u.d2 # NoDom => u.d2 \in Domains /\ u.d2 # u.d1 /\ lock[u.d2] = c
    BY <1>3, ZenonT(60) DEF WorkOK, IInv, Holds
  <2>2. Holds(w) \subseteq {u.d1, u.d2} /\ (u.d2 \in Holds(w) => u.d2 # NoDom \/ u.d1 = NoDom)
    BY <1>4 DEF Holds, CloseLocks
  <2> QED
    BY <1>3, <1>6, <2>1, <2>2, AcquireType, PortFacts
<1>10. \A d \in Domains : lock[d] \in Cpus \ {c} => lock'[d] = lock[d]
  <2>1. lock[u.d1] = NoCpu
    BY <1>1 DEF AtClose
  <2> QED
    BY <1>3, <1>6, <2>1, AcquireKeeps, ZenonT(60)
<1>11. virqmap' \in [Domains -> [Vcpus -> [Virqs -> Ports]]]
  BY <1>2, PortFacts, ZenonT(60) DEF IInv, TypeOK
<1>12. TypeOK'
  BY <1>3, <1>4, <1>5, <1>6, <1>11, AcquireType, CpuType, ZenonT(60) DEF IInv, TypeOK, CloseVirq
<1>13. w.loop = "destroy" =>
         /\ cpu[c].loop = "destroy" /\ cpu[c].d1 = w.d1
         /\ cpu[c].pc = "destroy_barrier" => w.pc = "destroy_barrier"
  BY <1>3, <1>4
<1>14. chn' = chn /\ nvalid' = nvalid /\ dying' = dying
  BY ZenonT(60) DEF CloseVirq
<1> QED
  BY <1>4, <1>5, <1>7, <1>8, <1>9, <1>10, <1>12, <1>13, <1>14, StaysAlone, Quiet, ZenonT(60)

(* __evtchn_close() finding the remote domain preserves the invariant. *)
LEMMA CloseFindRemoteInv == ASSUME IInv, NEW c \in Cpus, CloseFindRemote(c) PROVE IInv'
<1> DEFINE u == cpu[c]
           d2 == chn[u.d1][u.p1].dom
           pc == IF u.d1 < d2 THEN "close_lock2" ELSE "close_drop"
           w == [u EXCEPT !.pc = pc, !.d2 = d2]
<1>1. AtClose(c)
  BY DEF CloseFindRemote
<1>2. u \in Work /\ WorkOK(u) /\ TornDown(u, chn, nvalid) /\ u.pc = "close"
      /\ u.d1 \in Domains /\ u.p1 \in Ports
  BY <1>1, AtCloseFacts, ZenonT(60)
<1>3. /\ chn[u.d1][u.p1].state = "INTERDOMAIN" /\ u.d2 = NoDom /\ d2 # u.d1
      /\ chn' = chn /\ nvalid' = nvalid /\ dying' = dying
  BY DEF CloseFindRemote, Closable
<1>4. d2 \in Domains /\ d2 \in Nat /\ u.d1 \in Nat
  BY <1>2, <1>3, PortFacts, ZenonT(60) DEF IInv, Peers, Paired
<1>5. /\ Continue(c, w)
      /\ IF u.d1 < d2 THEN lock' = Acquire(lock, u.d1, c) ELSE lock' = lock
  <2>1. CASE u.d1 < d2
    BY <1>4, <2>1 DEF CloseFindRemote
  <2>2. CASE ~(u.d1 < d2)
    BY <1>4, <2>2 DEF CloseFindRemote
  <2> QED
    BY <2>1, <2>2, ZenonT(60)
<1>6. /\ w \in Work /\ w.pc \in {"close_lock2", "close_drop"} /\ w.d1 = u.d1 /\ w.p1 = u.p1
      /\ w.d2 = d2 /\ w.loop = u.loop /\ (w.pc = "close_lock2" => u.d1 < d2)
  BY <1>2, <1>4, ZenonT(60) DEF Work, PCs
<1> HIDE DEF w
<1>7. WorkOK(w) /\ w.pc \notin AllocPCs /\ Knows(w, chn, nvalid)
  BY <1>2, <1>3, <1>4, <1>6, ZenonT(60) DEF WorkOK, TearPCs, ClosePCs, AllocPCs, Knows
<1>8. TornDown(w, chn, nvalid)
  BY <1>2, <1>3, <1>6, ZenonT(60) DEF TornDown, ClosePCs
<1>9. \A d \in Holds(w) : lock'[d] = c
  <2>1. CASE w.pc = "close_lock2"
    <3>1. lock' = Acquire(lock, u.d1, c)
      BY <1>5, <1>6, <2>1
    <3>2. lock'[u.d1] = c
      BY <1>2, <3>1, AcquireType, ZenonT(60)
    <3>3. Holds(w) = {u.d1}
      BY <1>6, <2>1 DEF Holds
    <3> QED
      BY <3>2, <3>3, ZenonT(60)
  <2>2. CASE w.pc = "close_drop"
    <3>1. Holds(w) = {}
      BY <2>2 DEF Holds
    <3> QED
      BY <3>1, ZenonT(60)
  <2> QED
    BY <1>6, <2>1, <2>2, ZenonT(60)
<1>10. \A d \in Domains : lock[d] \in Cpus \ {c} => lock'[d] = lock[d]
  <2>1. lock[u.d1] = NoCpu
    BY <1>1, ZenonT(60) DEF AtClose
  <2>2. lock' = lock \/ lock' = Acquire(lock, u.d1, c)
    BY <1>5, ZenonT(60)
  <2> QED
    BY <1>2, <2>1, <2>2, AcquireKeeps, ZenonT(60)
<1>11. TypeOK'
  <2>1. lock' \in [Domains -> Cpus \cup {NoCpu}]
    BY <1>2, <1>5, AcquireType DEF IInv, TypeOK
  <2> QED
    BY <1>5, <1>6, <2>1, CpuType, ZenonT(60) DEF IInv, TypeOK, CloseFindRemote
<1>12. w.loop = "destroy" =>
         /\ cpu[c].loop = "destroy" /\ cpu[c].d1 = w.d1
         /\ cpu[c].pc = "destroy_barrier" => w.pc = "destroy_barrier"
  BY <1>2, <1>6, ZenonT(60)
<1> QED
  BY <1>3, <1>5, <1>6, <1>7, <1>8, <1>9, <1>10, <1>11, <1>12, StaysAlone, Quiet, ZenonT(60)

(* __evtchn_close() locking the remote domain with its own lock dropped       *)
(* preserves the invariant.                                                   *)
LEMMA CloseAgainInv == ASSUME IInv, NEW c \in Cpus, CloseAgain(c) PROVE IInv'
<1> DEFINE u == cpu[c]
           w == [u EXCEPT !.pc = "close"]
<1>1. u \in Work /\ WorkOK(u) /\ TornDown(u, chn, nvalid) /\ u.pc = "close_drop"
  BY ZenonT(60) DEF IInv, TypeOK, CloseAgain
<1>2. u.d1 \in Domains /\ u.d2 \in Domains /\ u.d1 # u.d2
  BY <1>1 DEF WorkOK
<1>3. Continue(c, w) /\ lock' = Acquire(lock, u.d2, c) /\ lock[u.d2] = NoCpu
  BY DEF CloseAgain
<1>4. /\ w \in Work /\ w.pc = "close" /\ w.d1 = u.d1 /\ w.p1 = u.p1 /\ w.d2 = u.d2
      /\ w.loop = u.loop
  BY <1>1 DEF Work, PCs
<1> HIDE DEF w
<1>5. WorkOK(w) /\ w.pc \notin AllocPCs /\ Knows(w, chn, nvalid)
  BY <1>1, <1>2, <1>4, ZenonT(60) DEF WorkOK, TearPCs, ClosePCs, AllocPCs, Knows
<1>6. TornDown(w, chn, nvalid)
  BY <1>1, <1>4, ZenonT(60) DEF TornDown, ClosePCs
<1>7. \A d \in Holds(w) : lock'[d] = c
  BY <1>2, <1>3, <1>4, AcquireType DEF Holds
<1>8. \A d \in Domains : lock[d] \in Cpus \ {c} => lock'[d] = lock[d]
  BY <1>2, <1>3, AcquireKeeps, ZenonT(60)
<1>9. TypeOK'
  BY <1>2, <1>3, <1>4, AcquireType, CpuType, ZenonT(60) DEF IInv, TypeOK, CloseAgain
<1>10. w.loop = "destroy" =>
         /\ cpu[c].loop = "destroy" /\ cpu[c].d1 = w.d1
         /\ cpu[c].pc = "destroy_barrier" => w.pc = "destroy_barrier"
  BY <1>1, <1>4
<1>11. chn' = chn /\ nvalid' = nvalid /\ dying' = dying
  BY DEF CloseAgain
<1> QED
  BY <1>3, <1>4, <1>5, <1>6, <1>7, <1>8, <1>9, <1>10, <1>11, StaysAlone, Quiet, ZenonT(60)

-----------------------------------------------------------------------------
(* A CPU starts an operation that leaves the ports alone. *)

(* The operation is neither an allocation nor evtchn_destroy(). *)
LEMMA QuietStart ==
    ASSUME IInv, TypeOK', NEW c \in Cpus, NEW w \in Work, Continue(c, w), WorkOK(w),
           chn' = chn, nvalid' = nvalid, dying' = dying,
           \A d \in Domains : lock[d] \in Cpus \ {c} => lock'[d] = lock[d],
           \A d \in Holds(w) : lock'[d] = c,
           Knows(w, chn, nvalid), w.pc \notin AllocPCs, w.loop # "destroy"
    PROVE  IInv'
  BY Quiet, ZenonT(60) DEF TornDown

(* The start of evtchn_reset() preserves the invariant. *)
LEMMA ResetInv == ASSUME IInv, NEW c \in Cpus, NEW d \in Domains, Reset(c, d) PROVE IInv'
<1> DEFINE w == [Idle EXCEPT !.pc = "loop", !.d1 = d, !.loop = "reset"]
<1>1. w \in Work /\ w.pc = "loop" /\ w.d1 = d /\ w.d2 = NoDom /\ w.loop = "reset"
  BY PortFacts, ZenonT(60) DEF Idle, Work, PCs
<1>2. Continue(c, w)
  BY DEF Reset
<1> HIDE DEF w
<1>3. WorkOK(w) /\ Holds(w) = {} /\ Knows(w, chn, nvalid) /\ w.pc \notin AllocPCs
  BY <1>1, ZenonT(60) DEF WorkOK, Holds, Knows, AllocPCs
<1>4. TypeOK'
  BY <1>1, <1>2, CpuType DEF IInv, TypeOK, Reset
<1> QED
  BY <1>1, <1>2, <1>3, <1>4, QuietStart DEF Reset

(* domain_kill() preserves the invariant. *)
LEMMA KillInv == ASSUME IInv, NEW c \in Cpus, NEW d \in Domains, Kill(c, d) PROVE IInv'
<1> DEFINE w == [Idle EXCEPT !.pc = "destroy_barrier", !.d1 = d, !.loop = "destroy"]
<1>1. /\ w \in Work /\ w.pc = "destroy_barrier" /\ w.d1 = d /\ w.loop = "destroy"
      /\ w.p1 = 0 /\ w.d2 = NoDom
  BY PortFacts, ZenonT(60) DEF Idle, Work, PCs
<1>2. Continue(c, w)
  BY DEF Kill
<1> HIDE DEF w
<1>3. WorkOK(w) /\ Holds(w) = {} /\ Knows(w, chn, nvalid) /\ w.pc \notin AllocPCs
  BY <1>1, ZenonT(60) DEF WorkOK, Holds, Knows, AllocPCs, TearPCs
<1>4. TypeOK'
  BY <1>1, <1>2, CpuType DEF IInv, TypeOK, Kill
<1>5. dying \subseteq dying' /\ d \in dying' /\ d \notin dying
  BY DEF Kill
<1>6. \A o \in Cpus : cpu[o].loop = "destroy" => cpu[o].d1 # d
  BY <1>5, ZenonT(60) DEF IInv, Alone
<1>7. TornDown(w, chn, nvalid)
  BY <1>1, ZenonT(60) DEF TornDown
<1>8. chn' = chn /\ nvalid' = nvalid /\ lock' = lock
  BY DEF Kill
<1> QED
  BY <1>1, <1>2, <1>3, <1>4, <1>5, <1>6, <1>7, <1>8, Quiet, ZenonT(60)

(* The first lock of evtchn_bind_interdomain() preserves the invariant. *)
LEMMA BindLock1Inv ==
    ASSUME IInv, NEW c \in Cpus, NEW ld \in Domains, NEW rd \in Domains, NEW rport \in Ports,
           BindLock1(c, ld, rd, rport)
    PROVE  IInv'
<1> DEFINE w == [Idle EXCEPT !.pc = "bind_lock2", !.cur = ld,
                             !.d1 = ld, !.d2 = rd, !.p2 = rport]
           first == IF ld < rd THEN ld ELSE rd
<1>1. /\ w \in Work /\ w.pc = "bind_lock2" /\ w.d1 = ld /\ w.d2 = rd /\ w.loop = "none"
      /\ w.p1 = 0
  BY PortFacts, ZenonT(60) DEF Idle, Work, PCs
<1>2. Continue(c, w) /\ ld # rd /\ lock[first] = NoCpu /\ lock' = Acquire(lock, first, c)
  BY DEF BindLock1
<1>3. first \in Domains
  OBVIOUS
<1> HIDE DEF w
<1>4. WorkOK(w) /\ Knows(w, chn, nvalid) /\ w.pc \notin AllocPCs /\ Holds(w) = {first}
  BY <1>1, <1>2, PortFacts, ZenonT(60) DEF WorkOK, Holds, Knows, AllocPCs
<1> HIDE DEF first
<1>5. TypeOK'
  BY <1>1, <1>2, <1>3, AcquireType, CpuType, ZenonT(60) DEF IInv, TypeOK, BindLock1
<1>6. \A d \in Domains : lock[d] \in Cpus \ {c} => lock'[d] = lock[d]
  BY <1>2, <1>3, AcquireKeeps, ZenonT(60)
<1>7. \A d \in Holds(w) : lock'[d] = c
  BY <1>2, <1>3, <1>4, AcquireType
<1> QED
  BY <1>1, <1>2, <1>4, <1>5, <1>6, <1>7, QuietStart DEF BindLock1

(* A sender has read the remote end r of its channel, or is an IPI. *)
LEMMA SendToInv ==
    ASSUME IInv, NEW c \in Cpus, NEW d \in Domains, NEW p \in Ports, NEW w \in Work,
           w.p1 = p, w.loop = "none",
           \/ /\ chn[d][p].state = "INTERDOMAIN"
              /\ w.d2 = chn[d][p].dom /\ w.p2 = chn[d][p].port
           \/ chn[d][p].state = "IPI" /\ w.d2 = d /\ w.p2 = p,
           SendTo(c, d, w)
    PROVE  IInv'
<1> DEFINE x == [w EXCEPT !.pc = "send", !.d1 = d]
<1>1. /\ x \in Work /\ x.pc = "send" /\ x.d1 = d /\ x.p1 = p /\ x.d2 = w.d2 /\ x.p2 = w.p2
      /\ x.loop = "none"
  BY ZenonT(60) DEF Work, PCs
<1>2. Continue(c, x) /\ lock[d] = NoCpu /\ lock' = Acquire(lock, d, c)
  BY DEF SendTo
<1> HIDE DEF x
<1>3. WorkOK(x) /\ Knows(x, chn, nvalid) /\ x.pc \notin AllocPCs /\ Holds(x) = {d}
  BY <1>1, ZenonT(60) DEF WorkOK, Holds, Knows, AllocPCs
<1>4. TypeOK'
  BY <1>1, <1>2, AcquireType, CpuType DEF IInv, TypeOK, SendTo
<1>5. \A e \in Domains : lock[e] \in Cpus \ {c} => lock'[e] = lock[e]
  BY <1>2, AcquireKeeps, ZenonT(60)
<1>6. \A e \in Holds(x) : lock'[e] = c
  <2>1. lock'[d] = c
    BY <1>2, AcquireType, ZenonT(60)
  <2> QED
    BY <1>3, <2>1, ZenonT(60)
<1> QED
  BY <1>1, <1>2, <1>3, <1>4, <1>5, <1>6, QuietStart DEF SendTo

(* evtchn_send() up to the read of the remote end preserves the invariant. *)
LEMMA SendInv ==
    ASSUME IInv, NEW c \in Cpus, NEW d \in Domains, NEW p \in Ports, Send(c, d, p)
    PROVE  IInv'
<1> DEFINE ch == chn[d][p]
<1>1. ch \in Evtchn
  BY DEF IInv, TypeOK
<1>2. CASE ch.state = "INTERDOMAIN"
  <2> DEFINE w == [Idle EXCEPT !.cur = d, !.p1 = p, !.d2 = ch.dom,
                               !.p2 = ch.port, !.xen = chn[ch.dom][ch.port].xen]
  <2>1. SendTo(c, d, w)
    BY <1>2 DEF Send
  <2>2. ch.dom \in Domains /\ ch.port \in Ports
    BY <1>1, <1>2, ZenonT(60) DEF IInv, Peers, Paired, Evtchn
  <2>3. chn[ch.dom][ch.port].xen \in BOOLEAN
    BY <2>2 DEF IInv, TypeOK, Evtchn
  <2>4. p \in 0 .. NrPorts
    BY PortFacts
  <2>5. w \in Work /\ w.p1 = p /\ w.loop = "none" /\ w.d2 = ch.dom /\ w.p2 = ch.port
    BY <2>2, <2>3, <2>4, IdleType, ZenonT(60) DEF Idle, Work
  <2> QED
    BY <1>2, <2>1, <2>5, SendToInv, ZenonT(60)
<1>3. CASE ch.state = "IPI"
  <2> DEFINE w == [Idle EXCEPT !.cur = d, !.p1 = p, !.d2 = d, !.p2 = p]
  <2>1. SendTo(c, d, w)
    BY <1>3 DEF Send
  <2>2. p \in 0 .. NrPorts
    BY PortFacts
  <2>3. w \in Work /\ w.p1 = p /\ w.loop = "none" /\ w.d2 = d /\ w.p2 = p
    BY <2>2, IdleType, ZenonT(60) DEF Idle, Work
  <2> QED
    BY <1>3, <2>1, <2>3, SendToInv, ZenonT(60)
<1> QED
  BY <1>2, <1>3, ZenonT(60) DEF Send

(* notify_via_xen_event_channel() up to the read of the remote end preserves  *)
(* the invariant.                                                             *)
LEMMA NotifyViaXenInv ==
    ASSUME IInv, NEW c \in Cpus, NEW d \in Domains, NEW p \in Ports, NotifyViaXen(c, d, p)
    PROVE  IInv'
<1> DEFINE ch == chn[d][p]
           w == [Idle EXCEPT !.p1 = p, !.d2 = ch.dom, !.p2 = ch.port]
<1>1. SendTo(c, d, w) /\ ch.state = "INTERDOMAIN"
  BY ZenonT(60) DEF NotifyViaXen
<1>2. ch \in Evtchn /\ p \in 0 .. NrPorts
  BY PortFacts DEF IInv, TypeOK
<1>3. w \in Work /\ w.p1 = p /\ w.loop = "none" /\ w.d2 = ch.dom /\ w.p2 = ch.port
  BY <1>2, IdleType, ZenonT(60) DEF Idle, Work, Evtchn
<1> QED
  BY <1>1, <1>3, SendToInv, ZenonT(60)

(* A call of evtchn_close() preserves the invariant. *)
LEMMA CloseCallInv ==
    ASSUME IInv, NEW c \in Cpus, NEW d \in Domains, NEW p \in Ports, CloseCall(c, d, p)
    PROVE  IInv'
<1> DEFINE w == [Idle EXCEPT !.pc = "close", !.cur = d, !.d1 = d, !.p1 = p]
<1>1. p \in 0 .. NrPorts
  BY PortFacts
<1>2. /\ w \in Work /\ w.pc = "close" /\ w.d1 = d /\ w.p1 = p /\ w.d2 = NoDom
      /\ w.loop = "none"
  BY <1>1, IdleType, ZenonT(60) DEF Idle, Work, PCs
<1>3. Continue(c, w)
  BY DEF CloseCall
<1> HIDE DEF w
<1>4. WorkOK(w) /\ Knows(w, chn, nvalid) /\ w.pc \notin AllocPCs /\ Holds(w) = {}
  BY <1>2, ZenonT(60) DEF WorkOK, Holds, Knows, AllocPCs
<1>5. TypeOK'
  BY <1>2, <1>3, CpuType DEF IInv, TypeOK, CloseCall
<1> QED
  BY <1>2, <1>3, <1>4, <1>5, QuietStart DEF CloseCall

(* free_xen_event_channel() up to its assertions preserves the invariant. *)
LEMMA FreeXenInv ==
    ASSUME IInv, NEW c \in Cpus, NEW d \in Domains, NEW p \in Ports, FreeXen(c, d, p)
    PROVE  IInv'
<1> DEFINE w == [Idle EXCEPT !.pc = "free_xen", !.d1 = d, !.p1 = p]
<1>1. p \in 0 .. NrPorts
  BY PortFacts
<1>2. /\ w \in Work /\ w.pc = "free_xen" /\ w.d1 = d /\ w.p1 = p /\ w.d2 = NoDom
      /\ w.loop = "none"
  BY <1>1, IdleType, ZenonT(60) DEF Idle, Work, PCs
<1>3. Continue(c, w) /\ lock[d] = NoCpu /\ lock' = Acquire(lock, d, c)
  BY DEF FreeXen
<1> HIDE DEF w
<1>4. WorkOK(w) /\ Knows(w, chn, nvalid) /\ w.pc \notin AllocPCs /\ Holds(w) = {d}
  BY <1>2, ZenonT(60) DEF WorkOK, Holds, Knows, AllocPCs
<1>5. TypeOK'
  BY <1>2, <1>3, AcquireType, CpuType, ZenonT(60) DEF IInv, TypeOK, FreeXen
<1>6. \A e \in Domains : lock[e] \in Cpus \ {c} => lock'[e] = lock[e]
  BY <1>3, AcquireKeeps, ZenonT(60)
<1>7. \A e \in Holds(w) : lock'[e] = c
  BY <1>3, <1>4, AcquireType
<1> QED
  BY <1>2, <1>3, <1>4, <1>5, <1>6, <1>7, QuietStart DEF FreeXen

(* send_guest_vcpu_virq() up to the read of the map preserves the invariant. *)
LEMMA SendVirqInv ==
    ASSUME IInv, NEW c \in Cpus, NEW d \in Domains, NEW v \in Vcpus, NEW q \in Virqs,
           SendVirq(c, d, v, q)
    PROVE  IInv'
<1> DEFINE w == [Idle EXCEPT !.pc = "virq_set", !.d1 = d,
                             !.p1 = virqmap[d][v][q], !.v = v, !.q = q]
<1>1. virqmap[d][v][q] \in Ports /\ virqmap[d][v][q] \in 0 .. NrPorts
  BY PortFacts DEF IInv, TypeOK
<1>2. w \in Work /\ w.pc = "virq_set" /\ w.d1 = d /\ w.p1 \in Ports /\ w.loop = "none"
  BY <1>1, IdleType, ZenonT(60) DEF Idle, Work, PCs
<1>3. Continue(c, w)
  BY DEF SendVirq
<1> HIDE DEF w
<1>4. WorkOK(w) /\ Knows(w, chn, nvalid) /\ w.pc \notin AllocPCs /\ Holds(w) = {}
  BY <1>2 DEF WorkOK, Holds, Knows, AllocPCs
<1>5. vlock' \in [Domains -> [Vcpus -> Cpus \cup {NoCpu}]]
  BY ZenonT(60) DEF SendVirq, IInv, TypeOK
<1>6. TypeOK'
  BY <1>2, <1>3, <1>5, CpuType, ZenonT(60) DEF IInv, TypeOK, SendVirq
<1> QED
  BY <1>2, <1>3, <1>4, <1>6, QuietStart, ZenonT(60) DEF SendVirq

(* A guest that clears a pending bit preserves the invariant. *)
LEMMA ConsumeInv ==
    ASSUME IInv, NEW d \in Domains, NEW p \in Ports, Consume(d, p)
    PROVE  IInv'
<1>1. TypeOK'
  BY DEF IInv, TypeOK, Consume
<1>2. \A c \in Cpus : Alone(c)'
  BY ZenonT(60) DEF IInv, Alone, Consume
<1> QED
  BY <1>1, <1>2, ZenonT(60) DEF IInv, Consume
=============================================================================
