----------------------- MODULE EventChannelBindProofs -----------------------
(***************************************************************************)
(* The invariant of EventChannelInv is inductive: one lemma per action     *)
(* that allocates or binds ports.                                          *)
(***************************************************************************)
EXTENDS EventChannelInv

USE SMTT(60), ZenonT(60)

-----------------------------------------------------------------------------
(* A CPU takes a free port, perhaps from a new bucket. *)

(* What get_free_port() returns: a free port of a domain that is not dying,   *)
(* in a table that has not shrunk.                                            *)
LEMMA FreePortFacts ==
    ASSUME IInv, NEW d \in Domains, NEW p \in Ports, get_free_port(d, p)
    PROVE  /\ nvalid' \in [Domains -> 0 .. NrPorts]
           /\ \A e \in Domains : nvalid'[e] <= MaxEvtchns[e]
           /\ \A e \in Domains : nvalid[e] <= nvalid'[e]
           /\ \A e \in Domains \ {d} : nvalid'[e] = nvalid[e]
           /\ p < nvalid'[d] /\ chn[d][p].state = "FREE" /\ d \notin dying
<1>1. /\ nvalid \in [Domains -> 0 .. NrPorts] /\ \A e \in Domains : nvalid[e] <= MaxEvtchns[e]
      /\ \A e \in Domains : nvalid[e] \in Nat
  BY PortFacts DEF IInv, TypeOK
<1>2. d \notin dying
  BY DEF get_free_port, port_available
<1>3. CASE p < nvalid[d]
  <2>1. nvalid' = nvalid
    BY <1>3 DEF get_free_port, port_is_valid
  <2>2. chn[d][p].state = "FREE"
    <3>1. p # nvalid[d]
      BY <1>1, <1>3, PortFacts
    <3> QED
      BY <3>1 DEF get_free_port, port_available, FreePorts
  <2> QED
    BY <1>1, <1>2, <1>3, <2>1, <2>2
<1>4. CASE ~(p < nvalid[d])
  <2> DEFINE n == IF nvalid[d] + BucketSize > MaxEvtchns[d]
                  THEN MaxEvtchns[d] ELSE nvalid[d] + BucketSize
  <2>1. nvalid' = [nvalid EXCEPT ![d] = n]
    BY <1>4 DEF get_free_port, port_is_valid
  <2>2. p = nvalid[d] /\ p < MaxEvtchns[d]
    BY <1>4 DEF get_free_port, port_available, FreePorts, port_is_valid
  <2>3. /\ n \in 0 .. NrPorts /\ n <= MaxEvtchns[d] /\ nvalid[d] < n
    BY <1>1, <2>2, PortFacts, ConstantsAssumption
  <2> HIDE DEF n
  <2>4. nvalid'[d] = n /\ \A e \in Domains \ {d} : nvalid'[e] = nvalid[e]
    BY <1>1, <2>1
  <2>5. nvalid' \in [Domains -> 0 .. NrPorts]
    BY <1>1, <2>1, <2>3
  <2>6. \A e \in Domains : nvalid'[e] <= MaxEvtchns[e] /\ nvalid[e] <= nvalid'[e]
    BY <1>1, <2>3, <2>4, PortFacts
  <2>7. chn[d][p].state = "FREE"
    BY <1>1, <2>2 DEF IInv, NoBucket
  <2> QED
    BY <1>2, <2>2, <2>3, <2>4, <2>5, <2>6, <2>7
<1> QED
  BY <1>3, <1>4

(* A CPU that has just been given a free port, and holds the locks of its     *)
(* operation, preserves the invariant.                                        *)
LEMMA TakePort ==
    ASSUME IInv, TypeOK', NEW c \in Cpus, NEW w \in Work, Continue(c, w), WorkOK(w),
           w.pc \in AllocPCs, w.d1 \in Domains, w.p1 \in Ports,
           get_free_port(w.d1, w.p1), lock[w.d1] \in {NoCpu, c},
           chn' = chn, dying' = dying,
           \A d \in Domains : lock[d] \in Cpus \ {c} => lock'[d] = lock[d],
           \A d \in Holds(w) : lock'[d] = c
    PROVE  IInv'
<1>1. /\ \A e \in Domains : nvalid[e] <= nvalid'[e]
      /\ \A e \in Domains \ {w.d1} : nvalid'[e] = nvalid[e]
      /\ w.p1 < nvalid'[w.d1] /\ chn[w.d1][w.p1].state = "FREE" /\ w.d1 \notin dying
  BY FreePortFacts, ZenonT(60)
<1>2. /\ \A e \in Domains : nvalid[e] \in Nat /\ nvalid'[e] \in Nat
      /\ \A d \in Domains, p \in Ports : chn[d][p].port \in Nat /\ p \in Nat
  BY PortFacts DEF IInv, TypeOK, Evtchn
<1>3. Frame(c)
  BY <1>1, ConstantsAssumption, ZenonT(60) DEF Frame, SameBinding
<1>4. Waning(c)
  BY <1>1 DEF Waning, Wanes, IInv, TypeOK
<1>5. w.loop # "destroy"
  BY ZenonT(60) DEF WorkOK, TearPCs, ClosePCs, AllocPCs
<1>6. TornDown(w, chn', nvalid')
  BY <1>5, ZenonT(60) DEF TornDown
<1>7. Knows(w, chn', nvalid')
  BY <1>1 DEF Knows, AllocPCs
<1>8. Peers(chn', nvalid')
  <2>1. Peers(chn, nvalid)
    BY ZenonT(60) DEF IInv
  <2>2. ASSUME NEW d \in Domains, NEW p \in Ports, chn[d][p].state = "INTERDOMAIN"
        PROVE  Paired(chn, nvalid', d, p)
    <3>1. Paired(chn, nvalid, d, p)
      BY <2>1, <2>2, ZenonT(60) DEF Peers
    <3>2. chn[d][p].dom \in Domains /\ chn[d][p].port < nvalid[chn[d][p].dom]
      BY <3>1 DEF Paired
    <3>3. chn[d][p].port < nvalid'[chn[d][p].dom]
      BY <1>1, <1>2, <3>2
    <3> QED
      BY <3>1, <3>3 DEF Paired
  <2> QED
    BY <2>2 DEF Peers
<1>9. NoBucket(chn', nvalid')
  <2> SUFFICES ASSUME NEW d \in Domains, NEW p \in Ports, nvalid'[d] <= p
      PROVE  chn[d][p].state = "FREE"
    BY DEF NoBucket
  <2>1. nvalid[d] <= p
    BY <1>1, <1>2
  <2> QED
    BY <2>1 DEF IInv, NoBucket
<1> QED
  BY <1>1, <1>3, <1>4, <1>5, <1>6, <1>7, <1>8, <1>9, Advance, ZenonT(60)

(* The callers of AllocStart: w is the operation, with everything but d1, p1. *)
LEMMA AllocStartInv ==
    ASSUME IInv, NEW c \in Cpus, NEW d \in Domains, NEW p \in Ports, NEW w \in Work,
           w.pc \in AllocPCs, w.loop = "none", w.pc = "bind_commit" => w.d2 = d,
           AllocStart(c, d, p, w)
    PROVE  IInv'
<1> DEFINE x == [w EXCEPT !.d1 = d, !.p1 = p]
<1>1. p \in 0 .. NrPorts
  BY PortFacts
<1>2. /\ x \in Work /\ x.pc = w.pc /\ x.d1 = d /\ x.p1 = p /\ x.d2 = w.d2
      /\ x.loop = "none"
  BY <1>1, ZenonT(60) DEF Work
<1>3. /\ Continue(c, x) /\ lock[d] = NoCpu /\ lock' = Acquire(lock, d, c)
      /\ get_free_port(d, p) /\ chn' = chn /\ dying' = dying
  BY DEF AllocStart
<1> HIDE DEF x
<1>4. WorkOK(x) /\ Holds(x) = {d} /\ x.pc \in AllocPCs
  BY <1>2 DEF WorkOK, Holds, AllocPCs
<1>5. nvalid' \in [Domains -> 0 .. NrPorts] /\ \A e \in Domains : nvalid'[e] <= MaxEvtchns[e]
  BY <1>3, FreePortFacts, ZenonT(60)
<1>6. TypeOK'
  BY <1>2, <1>3, <1>5, AcquireType, CpuType, ZenonT(60) DEF IInv, TypeOK, AllocStart
<1>7. \A e \in Domains : lock[e] \in Cpus \ {c} => lock'[e] = lock[e]
  BY <1>3, AcquireKeeps, ZenonT(60)
<1>8. \A e \in Holds(x) : lock'[e] = c
  BY <1>3, <1>4, AcquireType
<1> QED
  BY <1>2, <1>3, <1>4, <1>6, <1>7, <1>8, TakePort, ZenonT(60)

(* The first half of evtchn_alloc_unbound() preserves the invariant. *)
LEMMA AllocUnboundInv ==
    ASSUME IInv, NEW c \in Cpus, NEW d \in Domains, NEW p \in Ports, NEW rd \in Domains,
           AllocUnbound(c, d, rd, p)
    PROVE  IInv'
<1> DEFINE w == [Idle EXCEPT !.pc = "unbound", !.d2 = rd]
<1>1. w \in Work /\ w.pc = "unbound" /\ w.loop = "none"
  BY IdleType, ZenonT(60) DEF Idle, Work, PCs
<1>2. AllocStart(c, d, p, w)
  BY DEF AllocUnbound
<1> HIDE DEF w
<1> QED
  BY <1>1, <1>2, AllocStartInv DEF AllocPCs

(* The first half of alloc_unbound_xen_event_channel() preserves the          *)
(* invariant.                                                                 *)
LEMMA AllocXenInv ==
    ASSUME IInv, NEW c \in Cpus, NEW d \in Domains, NEW p \in Ports, NEW rd \in Domains, NEW v \in Vcpus,
           AllocXen(c, d, rd, v, p)
    PROVE  IInv'
<1> DEFINE w == [Idle EXCEPT !.pc = "xen", !.d2 = rd, !.v = v]
<1>1. w \in Work /\ w.pc = "xen" /\ w.loop = "none"
  BY IdleType, ZenonT(60) DEF Idle, Work, PCs
<1>2. AllocStart(c, d, p, w)
  BY DEF AllocXen
<1> HIDE DEF w
<1> QED
  BY <1>1, <1>2, AllocStartInv DEF AllocPCs

(* A domain that binds to itself, up to the port it is given, preserves the   *)
(* invariant.                                                                 *)
LEMMA BindLoopbackInv ==
    ASSUME IInv, NEW c \in Cpus, NEW d \in Domains, NEW p \in Ports, NEW r \in Ports,
           BindLoopback(c, d, r, p)
    PROVE  IInv'
<1> DEFINE w == [Idle EXCEPT !.pc = "bind_commit", !.cur = d, !.d2 = d, !.p2 = r]
<1>1. w \in Work /\ w.pc = "bind_commit" /\ w.loop = "none" /\ w.d2 = d
  BY IdleType, ZenonT(60) DEF Idle, Work, PCs
<1>2. AllocStart(c, d, p, w)
  BY DEF BindLoopback
<1> HIDE DEF w
<1> QED
  BY <1>1, <1>2, AllocStartInv DEF AllocPCs

(* The first half of evtchn_bind_ipi() preserves the invariant. *)
LEMMA BindIpiInv ==
    ASSUME IInv, NEW c \in Cpus, NEW d \in Domains, NEW p \in Ports, NEW v \in Vcpus,
           BindIpi(c, d, v, p)
    PROVE  IInv'
<1> DEFINE w == [Idle EXCEPT !.pc = "ipi", !.cur = d, !.v = v]
<1>1. w \in Work /\ w.pc = "ipi" /\ w.loop = "none"
  BY IdleType, ZenonT(60) DEF Idle, Work, PCs
<1>2. AllocStart(c, d, p, w)
  BY DEF BindIpi
<1> HIDE DEF w
<1> QED
  BY <1>1, <1>2, AllocStartInv DEF AllocPCs

(* The first half of evtchn_bind_virq() preserves the invariant. *)
LEMMA BindVirqInv ==
    ASSUME IInv, NEW c \in Cpus, NEW d \in Domains, NEW p \in Ports, NEW v \in Vcpus, NEW q \in Virqs,
           BindVirq(c, d, v, q, p)
    PROVE  IInv'
<1> DEFINE w == [Idle EXCEPT !.pc = "virq", !.cur = d, !.v = v, !.q = q]
<1>1. w \in Work /\ w.pc = "virq" /\ w.loop = "none"
  BY IdleType, ZenonT(60) DEF Idle, Work, PCs
<1>2. AllocStart(c, d, p, w)
  BY DEF BindVirq
<1> HIDE DEF w
<1> QED
  BY <1>1, <1>2, AllocStartInv DEF AllocPCs

(* The second lock of evtchn_bind_interdomain(), and the port it is given,    *)
(* preserve the invariant.                                                    *)
LEMMA BindLock2Inv ==
    ASSUME IInv, NEW c \in Cpus, NEW p \in Ports, BindLock2(c, p)
    PROVE  IInv'
<1> DEFINE u == cpu[c]
           first == IF u.d1 < u.d2 THEN u.d1 ELSE u.d2
           second == IF u.d1 < u.d2 THEN u.d2 ELSE u.d1
           w == [u EXCEPT !.pc = "bind_commit", !.p1 = p]
<1>1. u \in Work /\ WorkOK(u) /\ u.pc = "bind_lock2" /\ p \in 0 .. NrPorts
  BY PortFacts, ZenonT(60) DEF IInv, TypeOK, BindLock2
<1>2. u.d1 \in Domains /\ u.d2 \in Domains /\ u.d1 # u.d2 /\ u.loop # "destroy"
  BY <1>1, ZenonT(60) DEF WorkOK, TearPCs, ClosePCs
<1>3. lock[first] = c
  BY <1>1 DEF IInv, Holds
<1>4. /\ w \in Work /\ w.pc = "bind_commit" /\ w.d1 = u.d1 /\ w.p1 = p /\ w.d2 = u.d2
      /\ w.loop = u.loop
  BY <1>1, ZenonT(60) DEF Work, PCs
<1>5. /\ lock[second] = NoCpu /\ lock' = Acquire(lock, second, c) /\ Continue(c, w)
      /\ get_free_port(u.d1, p) /\ chn' = chn /\ dying' = dying
  BY DEF BindLock2
<1>6. {first, second} = {u.d1, u.d2} /\ second \in Domains
  BY <1>2, ZenonT(60)
<1> HIDE DEF w, first, second
<1>7. WorkOK(w) /\ Holds(w) = {u.d1, u.d2} /\ w.pc \in AllocPCs
  BY <1>2, <1>4, ZenonT(60) DEF WorkOK, Holds, AllocPCs
<1>8. nvalid' \in [Domains -> 0 .. NrPorts] /\ \A e \in Domains : nvalid'[e] <= MaxEvtchns[e]
  BY <1>2, <1>5, FreePortFacts, ZenonT(60)
<1>9. TypeOK'
  BY <1>4, <1>5, <1>6, <1>8, AcquireType, CpuType, ZenonT(60) DEF IInv, TypeOK, BindLock2
<1>10. \A e \in Domains : lock[e] \in Cpus \ {c} => lock'[e] = lock[e]
  BY <1>5, <1>6, AcquireKeeps, ZenonT(60)
<1>11. lock'[second] = c /\ lock'[first] = c
  BY <1>2, <1>3, <1>5, <1>6, AcquireType
<1>12. \A e \in Holds(w) : lock'[e] = c
  BY <1>6, <1>7, <1>11, ZenonT(60)
<1>13. lock[u.d1] \in {NoCpu, c}
  BY <1>3, <1>5, <1>6, ZenonT(60)
<1> QED
  BY <1>2, <1>4, <1>5, <1>7, <1>9, <1>10, <1>12, <1>13, TakePort, ZenonT(60)

-----------------------------------------------------------------------------
(* Steps that change ports. *)

(* A port of the table is well typed. *)
LEMMA PortTypes ==
    ASSUME IInv
    PROVE  /\ \A d \in Domains, p \in Ports : chn[d][p] \in Evtchn /\ chn[d][p].port \in Ports
           /\ \A d \in Domains : nvalid[d] \in Nat
  BY PortFacts DEF IInv, TypeOK, Evtchn

Put(t, d, p, ch) == [t EXCEPT ![d][p] = ch]

(* Writing one port changes that port only. *)
LEMMA PutFacts ==
    ASSUME NEW t \in [Domains -> [Ports -> Evtchn]], NEW d \in Domains, NEW p \in Ports,
           NEW ch \in Evtchn
    PROVE  /\ Put(t, d, p, ch) \in [Domains -> [Ports -> Evtchn]]
           /\ Put(t, d, p, ch)[d][p] = ch
           /\ \A e \in Domains, o \in Ports : e # d \/ o # p => Put(t, d, p, ch)[e][o] = t[e][o]
  BY DEF Put

(* An end of a channel that keeps its binding, as its peer does, stays paired. *)
LEMMA PairedSame ==
    ASSUME NEW t, NEW s, NEW n, NEW d \in Domains, NEW p \in Ports, Paired(t, n, d, p),
           SameBinding(s[d][p], t[d][p]),
           SameBinding(s[t[d][p].dom][t[d][p].port], t[t[d][p].dom][t[d][p].port])
    PROVE  Paired(s, n, d, p)
  BY ZenonT(60) DEF Paired, SameBinding

(* Ports keep their bindings: channels stay symmetric. *)
LEMMA PeersSame ==
    ASSUME IInv, nvalid' = nvalid,
           \A d \in Domains, p \in Ports : SameBinding(chn'[d][p], chn[d][p])
    PROVE  Peers(chn', nvalid')
<1> SUFFICES ASSUME NEW d \in Domains, NEW p \in Ports, chn'[d][p].state = "INTERDOMAIN"
    PROVE  Paired(chn', nvalid, d, p)
  BY DEF Peers
<1>1. SameBinding(chn'[d][p], chn[d][p]) /\ chn[d][p].port \in Ports
  BY PortTypes, ZenonT(60)
<1>2. Paired(chn, nvalid, d, p)
  BY <1>1, ZenonT(60) DEF IInv, Peers, SameBinding
<1>3. chn[d][p].dom \in Domains
  BY <1>2 DEF Paired
<1> QED
  BY <1>1, <1>2, <1>3, PairedSame, ZenonT(60)

(* So they do when a port that is not one end of a channel changes. *)
LEMMA PeersLocal ==
    ASSUME IInv, nvalid' = nvalid, NEW d \in Domains, NEW p \in Ports,
           chn[d][p].state # "INTERDOMAIN", chn'[d][p].state # "INTERDOMAIN",
           \A e \in Domains, o \in Ports : e # d \/ o # p => chn'[e][o] = chn[e][o]
    PROVE  Peers(chn', nvalid')
<1> SUFFICES ASSUME NEW e \in Domains, NEW o \in Ports, chn'[e][o].state = "INTERDOMAIN"
    PROVE  Paired(chn', nvalid, e, o)
  BY DEF Peers
<1> DEFINE x == chn[e][o].dom
           y == chn[e][o].port
<1>1. chn'[e][o] = chn[e][o] /\ y \in Ports
  BY PortTypes, ZenonT(60)
<1>2. Paired(chn, nvalid, e, o)
  BY <1>1, ZenonT(60) DEF IInv, Peers
<1>3. x \in Domains /\ chn[x][y].state = "INTERDOMAIN"
  BY <1>2, ZenonT(60) DEF Paired
<1>4. chn'[x][y] = chn[x][y]
  BY <1>1, <1>3, ZenonT(60)
<1>5. SameBinding(chn'[e][o], chn[e][o]) /\ SameBinding(chn'[x][y], chn[x][y])
  BY <1>1, <1>4, ZenonT(60) DEF SameBinding
<1> QED
  BY <1>2, <1>5, PairedSame, ZenonT(60)

(* The operation ends, having changed ports. *)
LEMMA AdvanceIdle ==
    ASSUME IInv, TypeOK', NEW c \in Cpus, Continue(c, Idle), Frame(c), Waning(c),
           dying' = dying, Peers(chn', nvalid'), NoBucket(chn', nvalid')
    PROVE  IInv'
<1>1. Knows(Idle, chn', nvalid') /\ TornDown(Idle, chn', nvalid')
  BY IdleOK, IdleType DEF Knows, TornDown, AllocPCs
<1>2. Idle.pc \notin AllocPCs /\ Idle.loop # "destroy"
  BY IdleType, IdleOK, ZenonT(60) DEF AllocPCs
<1> QED
  BY <1>1, <1>2, IdleOK, IdleType, Advance, ZenonT(60)

(* The table stays well typed when a well-typed port is written. *)
LEMMA PortUpdate ==
    ASSUME IInv, NEW d \in Domains, NEW p \in Ports, NEW ch \in Evtchn,
           chn' = Put(chn, d, p, ch)
    PROVE  /\ chn' \in [Domains -> [Ports -> Evtchn]]
           /\ chn'[d][p] = ch
           /\ \A e \in Domains, o \in Ports : e # d \/ o # p => chn'[e][o] = chn[e][o]
<1>1. chn \in [Domains -> [Ports -> Evtchn]]
  BY ZenonT(60) DEF IInv, TypeOK
<1> QED
  BY <1>1, PutFacts

(* The port of an allocation gets its new state. *)
LEMMA AllocCommitInv ==
    ASSUME IInv, TypeOK', NEW c \in Cpus, NEW d \in Domains, NEW p \in Ports, NEW ch \in Evtchn,
           cpu[c].pc \in {"unbound", "xen", "virq", "ipi"}, cpu[c].d1 = d, cpu[c].p1 = p,
           ch.state # "INTERDOMAIN", AllocCommit(c, ch)
    PROVE  IInv'
<1>1. lock[d] = c /\ Knows(cpu[c], chn, nvalid) /\ cpu[c].pc \in AllocPCs
  BY ZenonT(60) DEF IInv, Holds, AllocPCs
<1>2. chn[d][p].state = "FREE" /\ p < nvalid[d]
  BY <1>1 DEF Knows
<1>3. chn' = Put(chn, d, p, ch)
  BY DEF AllocCommit, Put
<1>4. lock' = Release(lock, {d})
  BY DEF AllocCommit
<1>5. Continue(c, Idle) /\ nvalid' = nvalid /\ dying' = dying
  BY DEF AllocCommit
<1>6. chn'[d][p] = ch /\ \A e \in Domains, o \in Ports : e # d \/ o # p => chn'[e][o] = chn[e][o]
  BY <1>3, PortUpdate
<1>7. Frame(c)
  <2> SUFFICES ASSUME NEW e \in Domains, lock[e] \in Cpus \ {c}
      PROVE  lock'[e] = lock[e] /\ \A o \in Ports : SameBinding(chn'[e][o], chn[e][o])
    BY <1>5, ZenonT(60) DEF Frame
  <2>1. e # d
    BY <1>1, ZenonT(60)
  <2>2. lock'[e] = lock[e]
    BY <1>4, <2>1, ReleaseType
  <2> QED
    BY <1>6, <2>1, <2>2, ZenonT(60) DEF SameBinding
<1>8. Waning(c)
  <2> SUFFICES ASSUME NEW e \in dying,
                      \A o \in Cpus : cpu[o].pc \in AllocPCs => cpu[o].d1 # e
      PROVE  nvalid'[e] = nvalid[e] /\ \A o \in Ports : Wanes(chn'[e][o], chn[e][o])
    BY ZenonT(60) DEF Waning
  <2>1. e # d /\ e \in Domains
    BY <1>1, ZenonT(60) DEF IInv, TypeOK
  <2> QED
    BY <1>5, <1>6, <2>1, ZenonT(60) DEF Wanes
<1>9. Peers(chn', nvalid')
  BY <1>2, <1>5, <1>6, PeersLocal, ZenonT(60)
<1>10. NoBucket(chn', nvalid')
  <2> SUFFICES ASSUME NEW e \in Domains, NEW o \in Ports, nvalid[e] <= o
      PROVE  chn'[e][o].state = "FREE"
    BY <1>5, ZenonT(60) DEF NoBucket
  <2>1. e # d \/ o # p
    BY <1>2, PortTypes, PortFacts
  <2> QED
    BY <1>6, <2>1 DEF IInv, NoBucket
<1> QED
  BY <1>5, <1>7, <1>8, <1>9, <1>10, AdvanceIdle, ZenonT(60)

(* What an allocation works with. *)
LEMMA CommitFacts ==
    ASSUME IInv, NEW c \in Cpus, cpu[c].pc \in {"unbound", "xen", "virq", "ipi"}
    PROVE  /\ cpu[c].d1 \in Domains /\ cpu[c].p1 \in Ports /\ cpu[c].v \in Vcpus
           /\ cpu[c].d2 \in Domains \cup {NoDom} /\ cpu[c].q \in Virqs \cup {NoVirq}
           /\ chn[cpu[c].d1][cpu[c].p1] \in Evtchn
<1>1. cpu[c] \in Work /\ WorkOK(cpu[c])
  BY ZenonT(60) DEF IInv, TypeOK
<1>2. cpu[c].d1 \in Domains /\ cpu[c].p1 \in Ports
  BY <1>1, ZenonT(60) DEF WorkOK
<1>3. cpu[c].v \in Vcpus /\ cpu[c].d2 \in Domains \cup {NoDom} /\ cpu[c].q \in Virqs \cup {NoVirq}
  BY <1>1 DEF Work
<1> QED
  BY <1>2, <1>3, PortTypes, ZenonT(60)

(* The end of an allocation keeps the types. *)
LEMMA AllocCommitType ==
    ASSUME IInv, NEW c \in Cpus, NEW ch \in Evtchn, cpu[c].d1 \in Domains, cpu[c].p1 \in Ports,
           AllocCommit(c, ch), xenports' \subseteq Domains \X Ports,
           virqmap' \in [Domains -> [Vcpus -> [Virqs -> Ports]]]
    PROVE  TypeOK'
<1>1. chn' = Put(chn, cpu[c].d1, cpu[c].p1, ch)
  BY ZenonT(60) DEF AllocCommit, Put
<1>2. chn' \in [Domains -> [Ports -> Evtchn]]
  BY <1>1, PortUpdate
<1>3. lock' \in [Domains -> Cpus \cup {NoCpu}] /\ cpu' \in [Cpus -> Work]
  BY ReleaseType, CpuType, IdleType, ZenonT(60) DEF AllocCommit
<1> QED
  BY <1>2, <1>3, ZenonT(60) DEF IInv, TypeOK, AllocCommit

(* Writing one entry of virq_to_evtchn keeps its type. *)
LEMMA VirqMapType ==
    ASSUME IInv, NEW d \in Domains, NEW v \in Vcpus, NEW q, NEW p \in Ports
    PROVE  [virqmap EXCEPT ![d][v][q] = p] \in [Domains -> [Vcpus -> [Virqs -> Ports]]]
<1>1. virqmap \in [Domains -> [Vcpus -> [Virqs -> Ports]]]
  BY DEF IInv, TypeOK
<1>2. [virqmap[d][v] EXCEPT ![q] = p] \in [Virqs -> Ports]
  BY <1>1, ZenonT(60)
<1> QED
  BY <1>1, <1>2, ZenonT(60)

(* The second half of evtchn_alloc_unbound() preserves the invariant. *)
LEMMA AllocUnboundCommitInv == ASSUME IInv, NEW c \in Cpus, AllocUnboundCommit(c) PROVE IInv'
<1> DEFINE u == cpu[c]
           ch == [chn[u.d1][u.p1] EXCEPT !.state = "UNBOUND", !.dom = u.d2]
<1>1. u.pc = "unbound" /\ AllocCommit(c, ch) /\ virqmap' = virqmap /\ xenports' = xenports
  BY DEF AllocUnboundCommit
<1>2. /\ u.d1 \in Domains /\ u.p1 \in Ports /\ u.d2 \in Domains \cup {NoDom}
      /\ chn[u.d1][u.p1] \in Evtchn
  BY <1>1, CommitFacts
<1>3. ch \in Evtchn /\ ch.state = "UNBOUND"
  BY <1>2, ZenonT(60) DEF Evtchn, States
<1> HIDE DEF ch
<1>4. TypeOK'
  BY <1>1, <1>2, <1>3, AllocCommitType, ZenonT(60) DEF IInv, TypeOK
<1> QED
  BY <1>1, <1>2, <1>3, <1>4, AllocCommitInv

(* The second half of alloc_unbound_xen_event_channel() preserves the         *)
(* invariant.                                                                 *)
LEMMA AllocXenCommitInv == ASSUME IInv, NEW c \in Cpus, AllocXenCommit(c) PROVE IInv'
<1> DEFINE u == cpu[c]
           ch == [chn[u.d1][u.p1] EXCEPT !.state = "UNBOUND", !.xen = TRUE,
                                         !.notify = u.v, !.dom = u.d2]
<1>1. /\ u.pc = "xen" /\ AllocCommit(c, ch) /\ virqmap' = virqmap
      /\ xenports' = xenports \cup {<<u.d1, u.p1>>}
  BY DEF AllocXenCommit
<1>2. /\ u.d1 \in Domains /\ u.p1 \in Ports /\ u.d2 \in Domains \cup {NoDom} /\ u.v \in Vcpus
      /\ chn[u.d1][u.p1] \in Evtchn
  BY <1>1, CommitFacts
<1>3. ch \in Evtchn /\ ch.state = "UNBOUND"
  BY <1>2, ZenonT(60) DEF Evtchn, States
<1> HIDE DEF ch
<1>4. TypeOK'
  <2>1. xenports' \subseteq Domains \X Ports
    BY <1>1, <1>2 DEF IInv, TypeOK
  <2>2. virqmap' \in [Domains -> [Vcpus -> [Virqs -> Ports]]]
    BY <1>1, ZenonT(60) DEF IInv, TypeOK
  <2> QED
    BY <1>1, <1>2, <1>3, <2>1, <2>2, AllocCommitType, ZenonT(60)
<1> QED
  BY <1>1, <1>2, <1>3, <1>4, AllocCommitInv, ZenonT(60)

(* The second half of evtchn_bind_virq() preserves the invariant. *)
LEMMA BindVirqCommitInv == ASSUME IInv, NEW c \in Cpus, BindVirqCommit(c) PROVE IInv'
<1> DEFINE u == cpu[c]
           ch == [chn[u.d1][u.p1] EXCEPT !.state = "VIRQ", !.notify = u.v, !.virq = u.q]
<1>1. /\ u.pc = "virq" /\ AllocCommit(c, ch) /\ xenports' = xenports
      /\ virqmap' = [virqmap EXCEPT ![u.d1][u.v][u.q] = u.p1]
  BY ZenonT(60) DEF BindVirqCommit
<1>2. /\ u.d1 \in Domains /\ u.p1 \in Ports /\ u.q \in Virqs \cup {NoVirq} /\ u.v \in Vcpus
      /\ chn[u.d1][u.p1] \in Evtchn
  BY <1>1, CommitFacts
<1>3. ch \in Evtchn /\ ch.state = "VIRQ"
  BY <1>2, ZenonT(60) DEF Evtchn, States
<1> HIDE DEF ch
<1>4. TypeOK'
  <2>1. xenports' \subseteq Domains \X Ports
    BY <1>1 DEF IInv, TypeOK
  <2>2. virqmap' \in [Domains -> [Vcpus -> [Virqs -> Ports]]]
    BY <1>1, <1>2, VirqMapType, ZenonT(60)
  <2> QED
    BY <1>1, <1>2, <1>3, <2>1, <2>2, AllocCommitType, ZenonT(60)
<1> QED
  BY <1>1, <1>2, <1>3, <1>4, AllocCommitInv, ZenonT(60)

(* The second half of evtchn_bind_ipi() preserves the invariant. *)
LEMMA BindIpiCommitInv == ASSUME IInv, NEW c \in Cpus, BindIpiCommit(c) PROVE IInv'
<1> DEFINE u == cpu[c]
           ch == [chn[u.d1][u.p1] EXCEPT !.state = "IPI", !.notify = u.v]
<1>1. u.pc = "ipi" /\ AllocCommit(c, ch) /\ virqmap' = virqmap /\ xenports' = xenports
  BY ZenonT(60) DEF BindIpiCommit
<1>2. u.d1 \in Domains /\ u.p1 \in Ports /\ u.v \in Vcpus /\ chn[u.d1][u.p1] \in Evtchn
  BY <1>1, CommitFacts
<1>3. ch \in Evtchn /\ ch.state = "IPI"
  BY <1>2, ZenonT(60) DEF Evtchn, States
<1> HIDE DEF ch
<1>4. TypeOK'
  BY <1>1, <1>2, <1>3, AllocCommitType, ZenonT(60) DEF IInv, TypeOK
<1> QED
  BY <1>1, <1>2, <1>3, <1>4, AllocCommitInv, ZenonT(60)

(* Two ports change at once. *)
LEMMA PortUpdates ==
    ASSUME IInv, NEW d \in Domains, NEW p \in Ports, NEW e \in Domains, NEW r \in Ports,
           NEW a \in Evtchn, NEW b \in Evtchn, d # e \/ p # r,
           chn' = Put(Put(chn, d, p, a), e, r, b)
    PROVE  /\ chn' \in [Domains -> [Ports -> Evtchn]] /\ chn'[d][p] = a /\ chn'[e][r] = b
           /\ \A x \in Domains, y \in Ports : (x # d \/ y # p) /\ (x # e \/ y # r) =>
                                                 chn'[x][y] = chn[x][y]
<1> DEFINE t == Put(chn, d, p, a)
<1>1. chn \in [Domains -> [Ports -> Evtchn]]
  BY ZenonT(60) DEF IInv, TypeOK
<1>2. /\ t \in [Domains -> [Ports -> Evtchn]] /\ t[d][p] = a
      /\ \A x \in Domains, y \in Ports : x # d \/ y # p => t[x][y] = chn[x][y]
  <2>1. t \in [Domains -> [Ports -> Evtchn]]
    BY <1>1, PutFacts, ZenonT(60)
  <2>2. t[d][p] = a
    BY <1>1, PutFacts
  <2>3. ASSUME NEW x \in Domains, NEW y \in Ports, x # d \/ y # p PROVE t[x][y] = chn[x][y]
    BY <1>1, <2>3 DEF Put
  <2> QED
    BY <2>1, <2>2, <2>3, ZenonT(60)
<1>3. chn' = Put(t, e, r, b)
  OBVIOUS
<1> HIDE DEF t
<1>4. /\ chn' \in [Domains -> [Ports -> Evtchn]] /\ chn'[e][r] = b
      /\ \A x \in Domains, y \in Ports : x # e \/ y # r => chn'[x][y] = t[x][y]
  <2>1. chn' \in [Domains -> [Ports -> Evtchn]]
    <3>1. t \in [Domains -> [Ports -> Evtchn]]
      BY <1>2, ZenonT(60)
    <3>2. Put(t, e, r, b) \in [Domains -> [Ports -> Evtchn]]
      BY <3>1, PutFacts, ZenonT(60)
    <3> QED
      BY <1>3, <3>2, ZenonT(60)
  <2>2. chn'[e][r] = b
    BY <1>2, <1>3 DEF Put
  <2>3. ASSUME NEW x \in Domains, NEW y \in Ports, x # e \/ y # r PROVE chn'[x][y] = t[x][y]
    BY <1>2, <1>3, <2>3 DEF Put
  <2> QED
    BY <2>1, <2>2, <2>3, ZenonT(60)
<1> QED
  BY <1>2, <1>4

(* evtchn_bind_interdomain() joins port p of d to port r of e. *)
LEMMA BindCommitInv == ASSUME IInv, NEW c \in Cpus, BindCommit(c) PROVE IInv'
<1> DEFINE u == cpu[c]
<1>1. u \in Work /\ WorkOK(u) /\ Knows(u, chn, nvalid) /\ u.pc = "bind_commit"
      /\ lock[u.d1] = c /\ lock[u.d2] = c
  BY ZenonT(60) DEF IInv, TypeOK, Holds, BindCommit
<1>2. PICK d \in Domains, p \in Ports, e \in Domains, r \in Ports :
         u.d1 = d /\ u.p1 = p /\ u.d2 = e /\ u.p2 = r
  BY <1>1, ZenonT(60) DEF WorkOK, Work
<1>3. lock[d] = c /\ lock[e] = c /\ u.pc \in AllocPCs
  BY <1>1, <1>2, ZenonT(60) DEF AllocPCs
<1>4. chn[d][p].state = "FREE" /\ p < nvalid[d]
  BY <1>1, <1>2, <1>3 DEF Knows
<1>5. chn[e][r].state = "UNBOUND" /\ chn[e][r].dom = d /\ r < nvalid[e]
  BY <1>2 DEF BindCommit, BindAccepted, port_is_valid
<1> DEFINE a == [chn[d][p] EXCEPT !.state = "INTERDOMAIN", !.dom = e, !.port = r]
           b == [chn[e][r] EXCEPT !.state = "INTERDOMAIN", !.dom = d, !.port = p]
<1>6. a \in Evtchn /\ a.state = "INTERDOMAIN" /\ a.dom = e /\ a.port = r
  <2>1. chn[d][p] \in Evtchn
    BY PortTypes
  <2> QED
    BY <2>1, ZenonT(60) DEF Evtchn, States
<1>7. /\ b \in Evtchn /\ b.state = "INTERDOMAIN" /\ b.dom = d /\ b.port = p
      /\ b.xen = chn[e][r].xen
  <2>1. chn[e][r] \in Evtchn
    BY PortTypes, ZenonT(60)
  <2> QED
    BY <2>1, ZenonT(60) DEF Evtchn, States
<1>8. chn \in [Domains -> [Ports -> Evtchn]]
  BY ZenonT(60) DEF IInv, TypeOK
<1>9. d # e \/ p # r
  BY <1>4, <1>5
<1>10. chn' = Put(Put(chn, d, p, a), e, r, b)
  BY <1>2, <1>8, <1>9 DEF BindCommit, Put
<1>11. lock' = Release(lock, {d, e})
  BY <1>2, ZenonT(60) DEF BindCommit
<1>12. Continue(c, Idle) /\ nvalid' = nvalid /\ dying' = dying
  BY ZenonT(60) DEF BindCommit
<1>13. pending' \subseteq Domains \X Ports
  BY <1>2 DEF BindCommit, IInv, TypeOK
<1> HIDE DEF a, b
<1>14. /\ chn' \in [Domains -> [Ports -> Evtchn]] /\ chn'[d][p] = a /\ chn'[e][r] = b
       /\ \A x \in Domains, y \in Ports : (x # d \/ y # p) /\ (x # e \/ y # r) =>
                                             chn'[x][y] = chn[x][y]
  BY <1>6, <1>7, <1>9, <1>10, PortUpdates
<1>15. TypeOK'
  <2>1. lock' \in [Domains -> Cpus \cup {NoCpu}] /\ cpu' \in [Cpus -> Work]
    BY <1>11, <1>12, ReleaseType, CpuType, IdleType, ZenonT(60)
  <2> QED
    BY <1>13, <1>14, <2>1, ZenonT(60) DEF IInv, TypeOK, BindCommit
<1>16. Frame(c)
  <2> SUFFICES ASSUME NEW x \in Domains, lock[x] \in Cpus \ {c}
      PROVE  lock'[x] = lock[x] /\ \A y \in Ports : SameBinding(chn'[x][y], chn[x][y])
    BY <1>12 DEF Frame
  <2>1. x # d /\ x # e
    BY <1>3
  <2>2. lock'[x] = lock[x]
    BY <1>11, <2>1, ReleaseType
  <2> QED
    BY <1>14, <2>1, <2>2, ZenonT(60) DEF SameBinding
<1>17. Waning(c)
  <2> SUFFICES ASSUME NEW x \in dying,
                      \A o \in Cpus : cpu[o].pc \in AllocPCs => cpu[o].d1 # x,
                      NEW y \in Ports
      PROVE  nvalid'[x] = nvalid[x] /\ Wanes(chn'[x][y], chn[x][y])
    BY ZenonT(60) DEF Waning
  <2>1. x # d /\ x \in Domains
    BY <1>2, <1>3, ZenonT(60) DEF IInv, TypeOK
  <2>2. CASE x = e /\ y = r
    BY <1>5, <1>7, <1>12, <1>14, <2>1, <2>2, ZenonT(60) DEF Wanes, Gone
  <2>3. CASE x # e \/ y # r
    BY <1>12, <1>14, <2>1, <2>3, ZenonT(60) DEF Wanes
  <2> QED
    BY <2>2, <2>3, ZenonT(60)
<1>18. Peers(chn', nvalid')
  <2> SUFFICES ASSUME NEW x \in Domains, NEW y \in Ports, chn'[x][y].state = "INTERDOMAIN"
      PROVE  Paired(chn', nvalid, x, y)
    BY <1>12 DEF Peers
  <2>1. CASE x = d /\ y = p
    BY <1>5, <1>6, <1>7, <1>14, <2>1, ZenonT(60) DEF Paired
  <2>2. CASE x = e /\ y = r
    BY <1>4, <1>6, <1>7, <1>14, <2>2, ZenonT(60) DEF Paired
  <2>3. CASE (x # d \/ y # p) /\ (x # e \/ y # r)
    <3> DEFINE x2 == chn[x][y].dom
               y2 == chn[x][y].port
    <3>1. chn'[x][y] = chn[x][y] /\ y2 \in Ports
      BY <1>14, <2>3, PortTypes, ZenonT(60)
    <3>2. Paired(chn, nvalid, x, y)
      BY <3>1 DEF IInv, Peers
    <3>3. x2 \in Domains /\ chn[x2][y2].state = "INTERDOMAIN"
      BY <3>2, ZenonT(60) DEF Paired
    <3>4. chn'[x2][y2] = chn[x2][y2]
      <4>1. x2 # d \/ y2 # p
        BY <1>4, <3>3, ZenonT(60)
      <4>2. x2 # e \/ y2 # r
        BY <1>5, <3>3, ZenonT(60)
      <4> QED
        BY <1>14, <3>1, <3>3, <4>1, <4>2, ZenonT(60)
    <3>5. SameBinding(chn'[x][y], chn[x][y]) /\ SameBinding(chn'[x2][y2], chn[x2][y2])
      BY <3>1, <3>4, ZenonT(60) DEF SameBinding
    <3> QED
      BY <3>2, <3>5, PairedSame, ZenonT(60)
  <2> QED
    BY <2>1, <2>2, <2>3, ZenonT(60)
<1>19. NoBucket(chn', nvalid')
  <2> SUFFICES ASSUME NEW x \in Domains, NEW y \in Ports, nvalid[x] <= y
      PROVE  chn'[x][y].state = "FREE"
    BY <1>12, ZenonT(60) DEF NoBucket
  <2>1. (x # d \/ y # p) /\ (x # e \/ y # r)
    BY <1>4, <1>5, PortTypes, PortFacts
  <2> QED
    BY <1>14, <2>1, ZenonT(60) DEF IInv, NoBucket
<1> QED
  BY <1>12, <1>15, <1>16, <1>17, <1>18, <1>19, AdvanceIdle, ZenonT(60)
=============================================================================
