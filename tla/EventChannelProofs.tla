------------------------- MODULE EventChannelProofs -------------------------
(***************************************************************************)
(* The rest of the proof that the invariant of EventChannelInv is          *)
(* inductive, one lemma per action that closes, moves or tears down ports, *)
(* and the theorems about EventChannel, for any number of domains, ports,  *)
(* vcpus and CPUs.                                                         *)
(***************************************************************************)
EXTENDS EventChannelBindProofs

USE SMTT(60), ZenonT(60)

-----------------------------------------------------------------------------
(* __evtchn_close() frees a port. *)

(* What evtchn_destroy() has achieved is kept when the ports of the dying     *)
(* domain only lose bindings.                                                 *)
LEMMA TornWanes ==
    ASSUME NEW u, NEW t, NEW s, NEW n, TornDown(u, t, n), u.pc \in ClosePCs, u.p1 \in Ports,
           \A p \in Ports : Wanes(s[u.d1][p], t[u.d1][p])
    PROVE  TornDown(u, s, n)
  BY DEF TornDown, Wanes, ClosePCs

(* Only ports of locked domains have changed, and they wane. *)
LEMMA CloseFinishInv ==
    ASSUME IInv, NEW c \in Cpus, cpu[c].pc \in ClosePCs, CloseFinish(c, cpu[c]),
           cpu[c].d1 \in Domains, cpu[c].p1 \in Ports,
           chn' \in [Domains -> [Ports -> Evtchn]], virqmap' = virqmap,
           chn'[cpu[c].d1][cpu[c].p1] = FreeChn,
           \A d \in Domains : lock[d] \in Cpus \ {c} =>
              d \notin CloseLocks(cpu[c]) /\ \A p \in Ports : chn'[d][p] = chn[d][p],
           \A d \in Domains, p \in Ports : Wanes(chn'[d][p], chn[d][p]),
           Peers(chn', nvalid), NoBucket(chn', nvalid)
    PROVE  IInv'
<1> DEFINE u == cpu[c]
           w == Returned(u)
<1>1. u \in Work /\ TornDown(u, chn, nvalid)
  BY ZenonT(60) DEF IInv, TypeOK
<1>2. TornDown(u, chn', nvalid)
  BY <1>1, TornWanes
<1>3. Gone(chn'[u.d1][u.p1])
  BY DEF FreeChn, Gone
<1>4. /\ w \in Work /\ WorkOK(w) /\ Holds(w) = {} /\ w.pc \notin AllocPCs
      /\ Knows(w, chn', nvalid) /\ TornDown(w, chn', nvalid)
      /\ w.loop = "destroy" => u.loop = "destroy" /\ u.d1 = w.d1
  BY <1>1, <1>2, <1>3, ReturnedFacts, ZenonT(60)
<1>5. Continue(c, w) /\ nvalid' = nvalid /\ dying' = dying
  <2>1. Continue(c, w)
    BY ZenonT(60) DEF CloseFinish
  <2>2. nvalid' = nvalid /\ dying' = dying
    BY ZenonT(60) DEF CloseFinish
  <2> QED
    BY <2>1, <2>2, ZenonT(60)
<1>6. lock' = Release(lock, CloseLocks(u))
  BY DEF CloseFinish
<1> HIDE DEF w
<1>7. TypeOK'
  <2>1. lock' \in [Domains -> Cpus \cup {NoCpu}] /\ cpu' \in [Cpus -> Work]
    BY <1>4, <1>5, <1>6, ReleaseType, CpuType, ZenonT(60)
  <2>2. refreed' \subseteq Cpus /\ pending' \subseteq Domains \X Ports
    BY ZenonT(60) DEF CloseFinish, WillLookAgain, IInv, TypeOK
  <2> QED
    BY <2>1, <2>2, ZenonT(60) DEF IInv, TypeOK, CloseFinish
<1>8. Frame(c)
  <2> SUFFICES ASSUME NEW d \in Domains, lock[d] \in Cpus \ {c}
      PROVE  lock'[d] = lock[d] /\ \A p \in Ports : SameBinding(chn'[d][p], chn[d][p])
    BY <1>5, ZenonT(60) DEF Frame
  <2>1. d \notin CloseLocks(u) /\ \A p \in Ports : chn'[d][p] = chn[d][p]
    BY ZenonT(60)
  <2>2. lock'[d] = lock[d]
    BY <1>6, <2>1, ReleaseType, ZenonT(60)
  <2> QED
    BY <2>1, <2>2, ZenonT(60) DEF SameBinding
<1>9. Waning(c)
  BY <1>5, ZenonT(60) DEF Waning, IInv, TypeOK
<1>10. w.loop = "destroy" =>
         /\ cpu[c].loop = "destroy" /\ cpu[c].d1 = w.d1
         /\ cpu[c].pc = "destroy_barrier" => w.pc = "destroy_barrier"
  BY <1>4, ZenonT(60) DEF ClosePCs
<1>11. dying \subseteq dying'
  BY <1>5, ZenonT(60)
<1>12. w.loop = "destroy" =>
          /\ w.d1 \in dying'
          /\ \A o \in Cpus \ {c} : cpu[o].loop = "destroy" => cpu[o].d1 # w.d1
          /\ w.pc # "destroy_barrier" =>
                \A o \in Cpus \ {c} : cpu[o].pc \in AllocPCs => cpu[o].d1 # w.d1
  BY <1>10, <1>11, StaysAlone, ZenonT(60)
<1> QED
  BY <1>4, <1>5, <1>7, <1>8, <1>9, <1>11, <1>12, Advance, ZenonT(60)

(* A port that is not interdomain is freed; its domain is locked. *)
LEMMA FreeOneInv ==
    ASSUME IInv, NEW c \in Cpus, NEW d \in Domains, NEW p \in Ports,
           cpu[c].pc \in ClosePCs, cpu[c].d1 = d, cpu[c].p1 = p,
           \A e \in Domains : e \in CloseLocks(cpu[c]) => lock[e] \in {c, NoCpu},
           chn[d][p].state # "INTERDOMAIN",
           chn' = [chn EXCEPT ![d][p] = FreeChn],
           CloseFinish(c, cpu[c]), virqmap' = virqmap
    PROVE  IInv'
<1>1. chn' = Put(chn, d, p, FreeChn)
  BY DEF Put
<1>2. /\ chn' \in [Domains -> [Ports -> Evtchn]] /\ chn'[d][p] = FreeChn
      /\ \A e \in Domains, o \in Ports : e # d \/ o # p => chn'[e][o] = chn[e][o]
  BY <1>1, FreeType, PortUpdate
<1>3. \A e \in Domains, o \in Ports : Wanes(chn'[e][o], chn[e][o])
  BY <1>2 DEF Wanes, Gone, FreeChn
<1>4. FreeChn.state = "FREE"
  BY DEF FreeChn
<1>5. d \in CloseLocks(cpu[c])
  BY DEF CloseLocks
<1>6. \A e \in Domains : lock[e] \in Cpus \ {c} =>
          e \notin CloseLocks(cpu[c]) /\ \A o \in Ports : chn'[e][o] = chn[e][o]
  BY <1>2, <1>5, ConstantsAssumption
<1>7. nvalid' = nvalid
  BY DEF CloseFinish
<1>8. Peers(chn', nvalid')
  <2>1. chn'[d][p].state # "INTERDOMAIN"
    BY <1>2, <1>4
  <2>2. \A e \in Domains, o \in Ports : e # d \/ o # p => chn'[e][o] = chn[e][o]
    BY <1>2
  <2> QED
    BY <1>7, <2>1, <2>2, PeersLocal, ZenonT(60)
<1>9. NoBucket(chn', nvalid)
  BY <1>2, <1>4 DEF IInv, NoBucket
<1> QED
  BY <1>2, <1>3, <1>6, <1>7, <1>8, <1>9, CloseFinishInv, ZenonT(60)

(* __evtchn_close() of an unbound or IPI port preserves the invariant. *)
LEMMA CloseLocalInv == ASSUME IInv, NEW c \in Cpus, CloseLocal(c) PROVE IInv'
<1> DEFINE u == cpu[c]
<1>1. AtClose(c)
  BY DEF CloseLocal
<1>2. /\ u.pc \in ClosePCs /\ u.d1 \in Domains /\ u.p1 \in Ports
      /\ \A e \in Domains : e \in CloseLocks(u) => lock[e] \in {c, NoCpu}
  BY <1>1, AtCloseFacts, ZenonT(60)
<1>3. chn[u.d1][u.p1].state # "INTERDOMAIN" /\ virqmap' = virqmap
  BY DEF CloseLocal, Closable
<1>4. chn' = [chn EXCEPT ![u.d1][u.p1] = FreeChn] /\ CloseFinish(c, u)
  BY DEF CloseLocal
<1> QED
  BY <1>2, <1>3, <1>4, FreeOneInv, ZenonT(60)

(* __evtchn_close() of a VIRQ port, past the barrier, preserves the           *)
(* invariant.                                                                 *)
LEMMA CloseVirqFinishInv == ASSUME IInv, NEW c \in Cpus, CloseVirqFinish(c) PROVE IInv'
<1> DEFINE u == cpu[c]
<1>1. u \in Work /\ WorkOK(u) /\ u.pc = "close_barrier" /\ Knows(u, chn, nvalid)
  BY ZenonT(60) DEF IInv, TypeOK, CloseVirqFinish
<1>2. u.pc \in ClosePCs /\ u.d1 \in Domains /\ u.p1 \in Ports
  BY <1>1 DEF WorkOK, ClosePCs
<1>3. \A e \in Domains : e \in CloseLocks(u) => lock[e] \in {c, NoCpu}
  BY <1>1, ZenonT(60) DEF IInv, Holds
<1>4. chn[u.d1][u.p1].state # "INTERDOMAIN" /\ virqmap' = virqmap
  BY <1>1 DEF Knows, CloseVirqFinish
<1>5. chn' = [chn EXCEPT ![u.d1][u.p1] = FreeChn] /\ CloseFinish(c, u)
  BY DEF CloseVirqFinish
<1> QED
  BY <1>2, <1>3, <1>4, <1>5, FreeOneInv, ZenonT(60)

(* __evtchn_close() of an interdomain port, with both domains locked,         *)
(* preserves the invariant: the remote end becomes unbound in the same step.  *)
LEMMA CloseInterdomainInv == ASSUME IInv, NEW c \in Cpus, CloseInterdomain(c) PROVE IInv'
<1> DEFINE u == cpu[c]
<1>1. /\ u \in Work /\ WorkOK(u) /\ u.pc \in {"close", "close_lock2"} /\ u.pc \in ClosePCs
      /\ Knows(u, chn, nvalid)
  BY ZenonT(60) DEF IInv, TypeOK, CloseInterdomain, AtClose, ClosePCs
<1>2. PICK d \in Domains, p \in Ports : u.d1 = d /\ u.p1 = p
  BY <1>1 DEF WorkOK
<1>3. \A e \in Domains : e \in CloseLocks(u) => lock[e] \in {c, NoCpu}
  <2>1. CASE AtClose(c)
    BY <2>1, AtCloseFacts
  <2>2. CASE u.pc = "close_lock2"
    BY <1>2, <2>2, ConstantsAssumption, ZenonT(60)
       DEF IInv, Holds, CloseInterdomain, AtClose, CloseLocks
  <2> QED
    BY <2>1, <2>2 DEF CloseInterdomain
<1>4. chn[d][p].state = "INTERDOMAIN" /\ chn[d][p].dom \in CloseLocks(u)
  <2>1. CASE AtClose(c) /\ u.pc = "close"
    BY <1>2, <2>1 DEF CloseInterdomain, Closable, CloseLocks
  <2>2. CASE u.pc = "close_lock2"
    <3>1. u.d2 # NoDom
      BY <1>1, <2>2, PortFacts DEF WorkOK
    <3> QED
      BY <1>1, <1>2, <2>2, <3>1 DEF Knows, CloseLocks
  <2> QED
    BY <1>1, <2>1, <2>2, ZenonT(60) DEF CloseInterdomain, AtClose
<1>5. Paired(chn, nvalid, d, p)
  BY <1>4 DEF IInv, Peers
<1>6. PICK e \in Domains, r \in Ports : chn[d][p].dom = e /\ chn[d][p].port = r
  BY <1>5, PortTypes, ZenonT(60) DEF Paired
<1>7. /\ chn[e][r].state = "INTERDOMAIN" /\ chn[e][r].dom = d /\ chn[e][r].port = p
      /\ r < nvalid[e]
  BY <1>5, <1>6 DEF Paired
<1> DEFINE b == [chn[e][r] EXCEPT !.state = "UNBOUND", !.dom = d, !.port = 0]
<1>8. b \in Evtchn /\ b.state = "UNBOUND" /\ b.dom = d /\ b.xen = chn[e][r].xen
  <2>1. chn[e][r] \in Evtchn /\ 0 \in Ports
    BY PortTypes, PortFacts
  <2> QED
    BY <2>1, ZenonT(60) DEF Evtchn, States
<1>9. /\ chn' = [chn EXCEPT ![e][r] = b, ![d][p] = FreeChn]
      /\ CloseFinish(c, u) /\ virqmap' = virqmap
  BY <1>2, <1>6 DEF CloseInterdomain, CloseBothEnds
<1>10. chn \in [Domains -> [Ports -> Evtchn]]
  BY DEF IInv, TypeOK
<1>11. chn' = Put(Put(chn, e, r, b), d, p, FreeChn)
  BY <1>9 DEF Put
<1> HIDE DEF b
<1>12. /\ chn' \in [Domains -> [Ports -> Evtchn]] /\ chn'[d][p] = FreeChn
       /\ (e # d \/ r # p) => chn'[e][r] = b
       /\ \A x \in Domains, y \in Ports : (x # d \/ y # p) /\ (x # e \/ y # r) =>
                                             chn'[x][y] = chn[x][y]
  <2>1. CASE e # d \/ r # p
    BY <1>8, <1>11, <2>1, FreeType, PortUpdates
  <2>2. CASE e = d /\ r = p
    <3>1. chn' = Put(chn, d, p, FreeChn)
      BY <1>10, <1>11, <2>2, ZenonT(60) DEF Put
    <3> QED
      BY <2>2, <3>1, FreeType, PortUpdate
  <2> QED
    BY <2>1, <2>2
<1>13. FreeChn.state = "FREE" /\ ~FreeChn.xen
  BY DEF FreeChn
<1>14. \A x \in Domains, y \in Ports : Wanes(chn'[x][y], chn[x][y])
  <2> TAKE x \in Domains, y \in Ports
  <2>1. CASE x = d /\ y = p
    BY <1>12, <1>13, <2>1, ZenonT(60) DEF Wanes, Gone
  <2>2. CASE (x # d \/ y # p) /\ x = e /\ y = r
    BY <1>7, <1>8, <1>12, <2>2, ZenonT(60) DEF Wanes, Gone
  <2>3. CASE (x # d \/ y # p) /\ (x # e \/ y # r)
    BY <1>12, <2>3 DEF Wanes
  <2> QED
    BY <2>1, <2>2, <2>3, ZenonT(60)
<1>15. d \in CloseLocks(u) /\ e \in CloseLocks(u)
  BY <1>2, <1>4, <1>6 DEF CloseLocks
<1>16. \A x \in Domains : lock[x] \in Cpus \ {c} =>
          x \notin CloseLocks(cpu[c]) /\ \A y \in Ports : chn'[x][y] = chn[x][y]
  <2> SUFFICES ASSUME NEW x \in Domains, lock[x] \in Cpus \ {c}
      PROVE  x \notin CloseLocks(u) /\ \A y \in Ports : chn'[x][y] = chn[x][y]
    OBVIOUS
  <2>1. x \notin CloseLocks(u)
    BY <1>3, ConstantsAssumption
  <2> QED
    BY <1>12, <1>15, <2>1
<1>17. Peers(chn', nvalid)
  <2> SUFFICES ASSUME NEW x \in Domains, NEW y \in Ports, chn'[x][y].state = "INTERDOMAIN"
      PROVE  Paired(chn', nvalid, x, y)
    BY DEF Peers
  <2> DEFINE x2 == chn[x][y].dom
             y2 == chn[x][y].port
  <2>1. (x # d \/ y # p) /\ (x # e \/ y # r)
    BY <1>8, <1>12, <1>13
  <2>2. chn'[x][y] = chn[x][y] /\ y2 \in Ports
    BY <1>12, <2>1, PortTypes, ZenonT(60)
  <2>3. Paired(chn, nvalid, x, y)
    BY <2>2 DEF IInv, Peers
  <2>4. x2 \in Domains /\ chn[x2][y2].dom = x /\ chn[x2][y2].port = y
    BY <2>3, ZenonT(60) DEF Paired
  <2>5. (x2 # d \/ y2 # p) /\ (x2 # e \/ y2 # r)
    BY <1>6, <1>7, <2>1, <2>4
  <2>6. chn'[x2][y2] = chn[x2][y2]
    BY <1>12, <2>2, <2>4, <2>5, ZenonT(60)
  <2>7. SameBinding(chn'[x][y], chn[x][y]) /\ SameBinding(chn'[x2][y2], chn[x2][y2])
    BY <2>2, <2>6 DEF SameBinding
  <2> QED
    BY <2>3, <2>7, PairedSame, ZenonT(60)
<1>18. NoBucket(chn', nvalid)
  <2> SUFFICES ASSUME NEW x \in Domains, NEW y \in Ports, nvalid[x] <= y
      PROVE  chn'[x][y].state = "FREE"
    BY DEF NoBucket
  <2>1. chn[x][y].state = "FREE"
    BY DEF IInv, NoBucket
  <2>2. x # e \/ y # r
    BY <1>7, <2>1
  <2> QED
    BY <1>12, <1>13, <2>1, <2>2
<1>19. /\ cpu[c].pc \in ClosePCs /\ cpu[c].d1 \in Domains /\ cpu[c].p1 \in Ports
       /\ chn'[cpu[c].d1][cpu[c].p1] = FreeChn
  BY <1>1, <1>2, <1>12
<1>20. /\ chn' \in [Domains -> [Ports -> Evtchn]]
       /\ CloseFinish(c, cpu[c]) /\ virqmap' = virqmap
  BY <1>9, <1>12, ZenonT(60)
<1> QED
  BY <1>14, <1>16, <1>17, <1>18, <1>19, <1>20, CloseFinishInv, ZenonT(60)

-----------------------------------------------------------------------------
(* Steps that change a port, but not what it is bound to. *)

(* A step that changes no port's binding, only its consumer or its vcpu,      *)
(* preserves the invariant.                                                   *)
LEMMA SameBindingInv ==
    ASSUME IInv, TypeOK', NEW c \in Cpus, NEW w \in Work, Continue(c, w), WorkOK(w),
           \A d \in Domains, p \in Ports :
              SameBinding(chn'[d][p], chn[d][p]) /\ (~chn[d][p].xen => ~chn'[d][p].xen),
           nvalid' = nvalid, dying' = dying,
           \A d \in Domains : lock[d] \in Cpus \ {c} => lock'[d] = lock[d],
           \A d \in Holds(w) : lock'[d] = c,
           Knows(w, chn', nvalid), TornDown(w, chn', nvalid), w.pc \notin AllocPCs,
           w.loop = "destroy" =>
              /\ cpu[c].loop = "destroy" /\ cpu[c].d1 = w.d1
              /\ cpu[c].pc = "destroy_barrier" => w.pc = "destroy_barrier"
    PROVE  IInv'
<1>1. Frame(c)
  BY ZenonT(60) DEF Frame
<1>2. \A d \in Domains, p \in Ports : Wanes(chn'[d][p], chn[d][p])
  BY ZenonT(60) DEF Wanes, SameBinding, Gone
<1>3. Waning(c)
  BY <1>2, ZenonT(60) DEF Waning, IInv, TypeOK
<1>4. Peers(chn', nvalid')
  BY PeersSame, ZenonT(60)
<1>5. NoBucket(chn', nvalid')
  BY ZenonT(60) DEF IInv, NoBucket, SameBinding
<1>6. w.loop = "destroy" =>
          /\ w.d1 \in dying'
          /\ \A o \in Cpus \ {c} : cpu[o].loop = "destroy" => cpu[o].d1 # w.d1
          /\ w.pc # "destroy_barrier" =>
                \A o \in Cpus \ {c} : cpu[o].pc \in AllocPCs => cpu[o].d1 # w.d1
  BY StaysAlone, ZenonT(60)
<1>7. Knows(w, chn', nvalid') /\ TornDown(w, chn', nvalid') /\ dying \subseteq dying'
  BY ZenonT(60)
<1> QED
  BY <1>1, <1>3, <1>4, <1>5, <1>6, <1>7, Advance, ZenonT(60)

(* Rewriting a port with the binding it has keeps the types and every other   *)
(* port.                                                                      *)
LEMMA RewriteFacts ==
    ASSUME IInv, NEW d \in Domains, NEW p \in Ports, NEW b \in Evtchn,
           SameBinding(b, chn[d][p]), ~chn[d][p].xen => ~b.xen,
           chn' = Put(chn, d, p, b)
    PROVE  /\ chn' \in [Domains -> [Ports -> Evtchn]] /\ chn'[d][p] = b
           /\ \A e \in Domains, o \in Ports :
                 SameBinding(chn'[e][o], chn[e][o]) /\ (~chn[e][o].xen => ~chn'[e][o].xen)
<1>1. /\ chn' \in [Domains -> [Ports -> Evtchn]] /\ chn'[d][p] = b
      /\ \A e \in Domains, o \in Ports : e # d \/ o # p => chn'[e][o] = chn[e][o]
  BY PortUpdate
<1>2. ASSUME NEW e \in Domains, NEW o \in Ports
      PROVE  SameBinding(chn'[e][o], chn[e][o]) /\ (~chn[e][o].xen => ~chn'[e][o].xen)
  <2>1. CASE e = d /\ o = p
    BY <1>1, <2>1
  <2>2. CASE e # d \/ o # p
    BY <1>1, <2>2 DEF SameBinding
  <2> QED
    BY <2>1, <2>2
<1> QED
  BY <1>1, <1>2

(* free_xen_event_channel() detaching the port from Xen preserves the         *)
(* invariant.                                                                 *)
LEMMA FreeXenDetachInv == ASSUME IInv, NEW c \in Cpus, FreeXenDetach(c) PROVE IInv'
<1> DEFINE u == cpu[c]
           w == [u EXCEPT !.pc = "close"]
<1>1. u \in Work /\ WorkOK(u) /\ u.pc = "free_xen" /\ lock[u.d1] = c
  BY DEF IInv, TypeOK, Holds, FreeXenDetach
<1>2. u.d1 \in Domains /\ u.p1 \in Ports /\ u.d2 = NoDom /\ u.loop # "destroy"
  BY <1>1 DEF WorkOK, TearPCs, ClosePCs
<1>3. /\ w \in Work /\ w.pc = "close" /\ w.d1 = u.d1 /\ w.p1 = u.p1 /\ w.d2 = NoDom
      /\ w.loop # "destroy"
  BY <1>1, <1>2, ZenonT(60) DEF Work, PCs
<1>4. Continue(c, w) /\ nvalid' = nvalid /\ dying' = dying
  BY ZenonT(60) DEF FreeXenDetach
<1>5. lock' = Release(lock, {u.d1})
  BY DEF FreeXenDetach
<1>7. /\ chn' \in [Domains -> [Ports -> Evtchn]]
      /\ \A e \in Domains, o \in Ports :
            SameBinding(chn'[e][o], chn[e][o]) /\ (~chn[e][o].xen => ~chn'[e][o].xen)
  <2> DEFINE b == [chn[u.d1][u.p1] EXCEPT !.xen = FALSE]
  <2>1. chn' = Put(chn, u.d1, u.p1, b)
    BY DEF FreeXenDetach, Put
  <2>2. chn[u.d1][u.p1] \in Evtchn
    BY <1>2, PortTypes
  <2>3. b \in Evtchn /\ SameBinding(b, chn[u.d1][u.p1]) /\ ~b.xen
    BY <2>2, ZenonT(60) DEF Evtchn, SameBinding
  <2> HIDE DEF b
  <2> QED
    BY <1>2, <2>1, <2>3, RewriteFacts, ZenonT(60)
<1> HIDE DEF w
<1>8. WorkOK(w) /\ Holds(w) = {} /\ w.pc \notin AllocPCs
  BY <1>2, <1>3, ZenonT(60) DEF WorkOK, Holds, AllocPCs
<1>9. Knows(w, chn', nvalid) /\ TornDown(w, chn', nvalid)
  BY <1>3 DEF Knows, TornDown, AllocPCs
<1>10. \A e \in Domains : lock[e] \in Cpus \ {c} => lock'[e] = lock[e]
  BY <1>1, <1>5, ReleaseType
<1>11. TypeOK'
  <2>1. lock' \in [Domains -> Cpus \cup {NoCpu}] /\ cpu' \in [Cpus -> Work]
    BY <1>3, <1>4, <1>5, ReleaseType, CpuType, ZenonT(60)
  <2> QED
    BY <1>7, <2>1, ZenonT(60) DEF IInv, TypeOK, FreeXenDetach
<1> QED
  BY <1>3, <1>4, <1>7, <1>8, <1>9, <1>10, <1>11, SameBindingInv, ZenonT(60)

(* One turn of the loop of evtchn_reset() or evtchn_destroy() preserves the   *)
(* invariant, although the latter detaches Xen without the event lock.        *)
LEMMA LoopCloseInv == ASSUME IInv, NEW c \in Cpus, LoopClose(c) PROVE IInv'
<1> DEFINE u == cpu[c]
           w == [u EXCEPT !.pc = "close"]
<1>1. u \in Work /\ WorkOK(u) /\ TornDown(u, chn, nvalid) /\ u.pc = "loop"
  BY DEF IInv, TypeOK, LoopClose
<1>2. u.d1 \in Domains /\ u.d2 = NoDom
  BY <1>1 DEF WorkOK
<1>3. u.p1 < nvalid[u.d1] /\ u.p1 \in Ports
  <2>1. u.p1 < nvalid[u.d1] /\ u.p1 \in 0 .. NrPorts /\ nvalid[u.d1] \in 0 .. NrPorts
    BY <1>1, <1>2, ZenonT(60) DEF LoopClose, port_is_valid, Work, IInv, TypeOK
  <2> QED
    BY <2>1, PortFacts DEF Ports
<1>4. /\ w \in Work /\ w.pc = "close" /\ w.d1 = u.d1 /\ w.p1 = u.p1 /\ w.d2 = NoDom
      /\ w.loop = u.loop
  BY <1>1, <1>2, ZenonT(60) DEF Work, PCs
<1>5. Continue(c, w) /\ nvalid' = nvalid /\ dying' = dying /\ lock' = lock
  BY ZenonT(60) DEF LoopClose
<1>6. /\ chn' \in [Domains -> [Ports -> Evtchn]]
      /\ \A e \in Domains, o \in Ports :
            SameBinding(chn'[e][o], chn[e][o]) /\ (~chn[e][o].xen => ~chn'[e][o].xen)
      /\ u.loop = "destroy" => ~chn'[u.d1][u.p1].xen
  <2>1. CASE u.loop = "destroy"
    <3> DEFINE b == [chn[u.d1][u.p1] EXCEPT !.xen = FALSE]
    <3>1. chn' = Put(chn, u.d1, u.p1, b)
      BY <2>1 DEF LoopClose, Put
    <3>2. chn[u.d1][u.p1] \in Evtchn
      BY <1>2, <1>3, PortTypes, ZenonT(60)
    <3>3. b \in Evtchn /\ SameBinding(b, chn[u.d1][u.p1]) /\ ~b.xen
      BY <3>2, ZenonT(60) DEF Evtchn, SameBinding
    <3> HIDE DEF b
    <3>4. /\ chn' \in [Domains -> [Ports -> Evtchn]] /\ chn'[u.d1][u.p1] = b
          /\ \A e \in Domains, o \in Ports :
                SameBinding(chn'[e][o], chn[e][o]) /\ (~chn[e][o].xen => ~chn'[e][o].xen)
      BY <1>2, <1>3, <3>1, <3>3, RewriteFacts, ZenonT(60)
    <3> QED
      BY <3>3, <3>4, ZenonT(60)
  <2>2. CASE u.loop # "destroy"
    <3>1. chn' = chn
      BY <2>2 DEF LoopClose
    <3> QED
      BY <2>2, <3>1, ZenonT(60) DEF SameBinding, IInv, TypeOK
  <2> QED
    BY <2>1, <2>2
<1> HIDE DEF w
<1>7. WorkOK(w) /\ Holds(w) = {} /\ w.pc \notin AllocPCs /\ Knows(w, chn', nvalid)
  BY <1>2, <1>3, <1>4, ZenonT(60) DEF WorkOK, Holds, AllocPCs, TearPCs, ClosePCs, Knows
<1>8. TornDown(w, chn', nvalid)
  <2> SUFFICES ASSUME w.loop = "destroy"
      PROVE  /\ \A p \in Ports : p < w.p1 => Gone(chn'[w.d1][p])
             /\ ~chn'[w.d1][w.p1].xen /\ w.p1 < nvalid[w.d1]
    BY <1>4, ZenonT(60) DEF TornDown
  <2>1. \A p \in Ports : p < u.p1 => Gone(chn[u.d1][p])
    BY <1>1, <1>4, ZenonT(60) DEF TornDown
  <2> QED
    BY <1>2, <1>3, <1>4, <1>6, <2>1, ZenonT(60) DEF Gone, SameBinding
<1>9. TypeOK'
  <2>1. cpu' \in [Cpus -> Work]
    BY <1>4, <1>5, CpuType, ZenonT(60)
  <2> QED
    BY <1>6, <2>1, ZenonT(60) DEF IInv, TypeOK, LoopClose
<1>10. w.loop = "destroy" =>
         /\ cpu[c].loop = "destroy" /\ cpu[c].d1 = w.d1
         /\ cpu[c].pc = "destroy_barrier" => w.pc = "destroy_barrier"
  BY <1>1, <1>4
<1>11. /\ \A e \in Domains : lock[e] \in Cpus \ {c} => lock'[e] = lock[e]
       /\ \A e \in Holds(w) : lock'[e] = c
  BY <1>5, <1>7
<1> QED
  BY <1>4, <1>5, <1>6, <1>7, <1>8, <1>9, <1>10, <1>11, SameBindingInv, ZenonT(60)

(* evtchn_bind_vcpu() preserves the invariant. *)
LEMMA BindVcpuInv ==
    ASSUME IInv, NEW c \in Cpus, NEW d \in Domains, NEW p \in Ports, NEW v \in Vcpus,
           BindVcpu(c, d, p, v)
    PROVE  IInv'
<1> DEFINE u == cpu[c]
<1>1. u \in Work /\ WorkOK(u) /\ u.pc = "idle"
  BY DEF IInv, TypeOK, BindVcpu, GuestCalls
<1>2. Continue(c, u) /\ nvalid' = nvalid /\ dying' = dying /\ lock' = lock
  BY ZenonT(60) DEF BindVcpu, Continue, IInv, TypeOK
<1>3. /\ chn' \in [Domains -> [Ports -> Evtchn]]
      /\ \A e \in Domains, o \in Ports :
            SameBinding(chn'[e][o], chn[e][o]) /\ (~chn[e][o].xen => ~chn'[e][o].xen)
  <2> DEFINE b == [chn[d][p] EXCEPT !.notify = v]
  <2>1. chn' = Put(chn, d, p, b)
    BY DEF BindVcpu, Put
  <2>2. chn[d][p] \in Evtchn
    BY PortTypes
  <2>3. b \in Evtchn /\ SameBinding(b, chn[d][p]) /\ b.xen = chn[d][p].xen
    BY <2>2, ZenonT(60) DEF Evtchn, SameBinding
  <2> HIDE DEF b
  <2> QED
    BY <2>1, <2>3, RewriteFacts
<1>4. Holds(u) = {} /\ u.pc \notin AllocPCs /\ u.loop # "destroy"
  BY <1>1 DEF WorkOK, Holds, AllocPCs, TearPCs, ClosePCs
<1>5. Knows(u, chn', nvalid) /\ TornDown(u, chn', nvalid)
  BY <1>1, <1>4, ZenonT(60) DEF Knows, TornDown
<1>6. TypeOK'
  BY <1>3 DEF IInv, TypeOK, BindVcpu
<1> QED
  BY <1>1, <1>2, <1>3, <1>4, <1>5, <1>6, SameBindingInv, ZenonT(60)

-----------------------------------------------------------------------------
(* The end of evtchn_destroy(): nobody is bound to the ports it frees. *)
LEMMA DestroyFreeInv == ASSUME IInv, NEW c \in Cpus, DestroyFree(c) PROVE IInv'
<1>1. /\ cpu[c] \in Work /\ WorkOK(cpu[c]) /\ TornDown(cpu[c], chn, nvalid)
      /\ cpu[c].pc = "destroy_free"
  BY ZenonT(60) DEF IInv, TypeOK, DestroyFree
<1>2. PICK d \in Domains : cpu[c].d1 = d
  BY <1>1, ZenonT(60) DEF WorkOK
<1>3. cpu[c].loop = "destroy" /\ cpu[c].p1 \in Nat
  <2>1. cpu[c].loop = "destroy"
    BY <1>1, ZenonT(60) DEF WorkOK
  <2>2. cpu[c].p1 \in 0 .. NrPorts
    BY <1>1, ZenonT(60) DEF Work
  <2> QED
    BY <2>1, <2>2, PortFacts
<1>4. \A p \in Ports : Gone(chn[d][p])
  <2> TAKE p \in Ports
  <2>1. nvalid[d] <= cpu[c].p1 /\ (p < cpu[c].p1 => Gone(chn[d][p]))
    BY <1>1, <1>2, <1>3, ZenonT(60) DEF TornDown
  <2>2. nvalid[d] <= p => Gone(chn[d][p])
    BY DEF IInv, NoBucket, Gone
  <2> QED
    BY <1>3, <2>1, <2>2, PortFacts, PortTypes
<1>5. lock[d] = NoCpu /\ lock' = lock /\ Continue(c, Idle) /\ dying' = dying
  BY <1>2, ZenonT(60) DEF DestroyFree
<1>6. /\ chn' = [chn EXCEPT ![d] = [p \in Ports |-> FreeChn]]
      /\ nvalid' = [nvalid EXCEPT ![d] = 0]
  BY <1>2, ZenonT(60) DEF DestroyFree
<1>7. chn' \in [Domains -> [Ports -> Evtchn]] /\ nvalid' \in [Domains -> 0 .. NrPorts]
  BY <1>6, FreeType, PortFacts, ZenonT(60) DEF IInv, TypeOK
<1>8. /\ \A p \in Ports : chn'[d][p] = FreeChn
      /\ \A e \in Domains \ {d}, p \in Ports : chn'[e][p] = chn[e][p]
  BY <1>6, ZenonT(60) DEF IInv, TypeOK
<1>9. nvalid'[d] = 0 /\ \A e \in Domains \ {d} : nvalid'[e] = nvalid[e]
  BY <1>6, ZenonT(60) DEF IInv, TypeOK
<1>10. TypeOK'
  <2>1. \A e \in Domains : nvalid'[e] <= MaxEvtchns[e]
    <3>1. /\ \A e \in Domains : nvalid[e] <= MaxEvtchns[e]
          /\ \A e \in Domains : MaxEvtchns[e] \in Nat
      BY PortFacts, ZenonT(60) DEF IInv, TypeOK
    <3> QED
      BY <1>9, <3>1
  <2>2. cpu' \in [Cpus -> Work]
    BY <1>5, IdleType, CpuType, ZenonT(60)
  <2>3. destroyed' \subseteq Domains /\ xenports' \subseteq Domains \X Ports
    BY <1>2, ZenonT(60) DEF DestroyFree, IInv, TypeOK
  <2> QED
    BY <1>7, <2>1, <2>2, <2>3, ZenonT(60) DEF IInv, TypeOK, DestroyFree
<1>11. Frame(c)
  BY <1>5, <1>8, <1>9, ConstantsAssumption, ZenonT(60) DEF Frame, SameBinding
<1>12. Waning(c)
  <2> SUFFICES ASSUME NEW e \in dying, e # d
      PROVE  nvalid'[e] = nvalid[e] /\ \A p \in Ports : Wanes(chn'[e][p], chn[e][p])
    BY <1>1, <1>2, ZenonT(60) DEF Waning
  <2>1. e \in Domains
    BY DEF IInv, TypeOK
  <2> QED
    BY <1>8, <1>9, <2>1, ZenonT(60) DEF Wanes
<1>13. FreeChn.state = "FREE"
  BY DEF FreeChn
<1>14. Peers(chn', nvalid')
  <2> SUFFICES ASSUME NEW x \in Domains, NEW y \in Ports, chn'[x][y].state = "INTERDOMAIN"
      PROVE  Paired(chn', nvalid', x, y)
    BY DEF Peers
  <2> DEFINE x2 == chn[x][y].dom
             y2 == chn[x][y].port
  <2>1. x # d
    BY <1>8, <1>13, ZenonT(60)
  <2>2. chn'[x][y] = chn[x][y] /\ y2 \in Ports
    BY <1>8, <2>1, PortTypes, ZenonT(60)
  <2>3. Paired(chn, nvalid, x, y)
    BY <2>2, ZenonT(60) DEF IInv, Peers
  <2>4. x2 \in Domains /\ chn[x2][y2].state = "INTERDOMAIN"
    BY <2>3, ZenonT(60) DEF Paired
  <2>5. x2 # d
    BY <1>4, <2>2, <2>4, ZenonT(60) DEF Gone
  <2>6. chn'[x2][y2] = chn[x2][y2] /\ nvalid'[x2] = nvalid[x2]
    BY <1>8, <1>9, <2>2, <2>4, <2>5, ZenonT(60)
  <2> QED
    BY <2>2, <2>3, <2>6, ZenonT(60) DEF Paired
<1>15. NoBucket(chn', nvalid')
  BY <1>8, <1>9, <1>13, ZenonT(60) DEF IInv, NoBucket
<1> QED
  BY <1>5, <1>10, <1>11, <1>12, <1>14, <1>15, AdvanceIdle, ZenonT(60)

-----------------------------------------------------------------------------
(* The theorems. *)

(* IInv is inductive. *)
LEMMA NextInv == IInv /\ [Next]_vars => IInv'
<1> SUFFICES ASSUME IInv, [Next]_vars PROVE IInv'
  BY ZenonT(60)
<1>1. ASSUME NEW c \in Cpus, Step(c) PROVE IInv'
  <2>1. ASSUME NEW p \in Ports, BindLock2(c, p) PROVE IInv'
    BY <2>1, BindLock2Inv, ZenonT(60)
  <2>2. ASSUME CloseError(c) \/ CloseLocal(c) \/ CloseVirq(c) \/ CloseVirqFinish(c)
               \/ CloseFindRemote(c) \/ CloseAgain(c) \/ CloseInterdomain(c)
        PROVE  IInv'
    BY <2>2, CloseErrorInv, CloseLocalInv, CloseVirqInv, CloseVirqFinishInv,
       CloseFindRemoteInv, CloseAgainInv, CloseInterdomainInv, ZenonT(60)
  <2>3. ASSUME AllocUnboundCommit(c) \/ AllocXenCommit(c) \/ BindVirqCommit(c)
               \/ BindIpiCommit(c) \/ BindNoPort(c) \/ BindCommit(c) \/ BindRefused(c)
        PROVE  IInv'
    BY <2>3, AllocUnboundCommitInv, AllocXenCommitInv, BindVirqCommitInv, BindIpiCommitInv,
       BindNoPortInv, BindCommitInv, BindRefusedInv, ZenonT(60)
  <2>4. ASSUME SendFinish(c) \/ SendVirqFinish(c) \/ FreeXenDetach(c) \/ DestroyBarrier(c)
               \/ LoopClose(c) \/ LoopEnd(c) \/ DestroyFree(c)
        PROVE  IInv'
    BY <2>4, SendFinishInv, SendVirqFinishInv, FreeXenDetachInv, DestroyBarrierInv,
       LoopCloseInv, LoopEndInv, DestroyFreeInv, ZenonT(60)
  <2> QED
    BY <1>1, <2>1, <2>2, <2>3, <2>4, ZenonT(60) DEF Step
<1>2. ASSUME NEW c \in Cpus, Call(c) PROVE IInv'
  <2>1. PICK d \in Domains :
          \/ Reset(c, d) \/ Kill(c, d)
          \/ \E rd \in Domains, p \in Ports :
                \/ AllocUnbound(c, d, rd, p) \/ BindLock1(c, d, rd, p)
                \/ \E v \in Vcpus : AllocXen(c, d, rd, v, p)
          \/ \E p \in Ports, r \in Ports : BindLoopback(c, d, r, p)
          \/ \E p \in Ports :
                \/ Send(c, d, p) \/ NotifyViaXen(c, d, p) \/ CloseCall(c, d, p)
                \/ FreeXen(c, d, p)
                \/ \E v \in Vcpus : BindIpi(c, d, v, p) \/ BindVcpu(c, d, p, v)
          \/ \E v \in Vcpus, q \in Virqs :
                \/ SendVirq(c, d, v, q)
                \/ \E p \in Ports : BindVirq(c, d, v, q, p)
    BY <1>2, ZenonT(60) DEF Call
  <2>2. CASE Reset(c, d) \/ Kill(c, d)
    BY <2>2, ResetInv, KillInv, ZenonT(60)
  <2>3. CASE \E rd \in Domains, p \in Ports :
                \/ AllocUnbound(c, d, rd, p) \/ BindLock1(c, d, rd, p)
                \/ \E v \in Vcpus : AllocXen(c, d, rd, v, p)
    BY <2>3, AllocUnboundInv, BindLock1Inv, AllocXenInv, ZenonT(60)
  <2>4. CASE \E p \in Ports, r \in Ports : BindLoopback(c, d, r, p)
    BY <2>4, BindLoopbackInv, ZenonT(60)
  <2>5. CASE \E p \in Ports :
                \/ Send(c, d, p) \/ NotifyViaXen(c, d, p) \/ CloseCall(c, d, p)
                \/ FreeXen(c, d, p)
                \/ \E v \in Vcpus : BindIpi(c, d, v, p) \/ BindVcpu(c, d, p, v)
    BY <2>5, SendInv, NotifyViaXenInv, CloseCallInv, FreeXenInv, BindIpiInv, BindVcpuInv, ZenonT(60)
  <2>6. CASE \E v \in Vcpus, q \in Virqs :
                \/ SendVirq(c, d, v, q)
                \/ \E p \in Ports : BindVirq(c, d, v, q, p)
    BY <2>6, SendVirqInv, BindVirqInv, ZenonT(60)
  <2> QED
    BY <2>1, <2>2, <2>3, <2>4, <2>5, <2>6, ZenonT(60)
<1>3. ASSUME NEW d \in Domains, NEW p \in Ports, Consume(d, p) PROVE IInv'
  BY <1>3, ConsumeInv
<1>4. CASE UNCHANGED vars
  <2>1. \A c \in Cpus : Alone(c)'
    BY <1>4, ZenonT(60) DEF IInv, Alone, vars
  <2>2. TypeOK'
    BY <1>4, ZenonT(60) DEF IInv, TypeOK, vars
  <2> QED
    BY <1>4, <2>1, <2>2, ZenonT(60) DEF IInv, vars
<1> QED
  BY <1>1, <1>2, <1>3, <1>4, ZenonT(60) DEF Next

(* The invariant holds in every reachable state of the event-channel code,    *)
(* whatever the number of domains, ports, vcpus and CPUs: evtchn_init()       *)
(* establishes it and every step of every operation preserves it.             *)
THEOREM Invariance == Spec => []IInv
<1>1. Init => IInv
  BY InitInv, ZenonT(60)
<1>2. IInv /\ [Next]_vars => IInv'
  BY NextInv, ZenonT(60)
<1> QED
  BY <1>1, <1>2, PTL DEF Spec

(* Every variable keeps its type: no operation indexes the table past a       *)
(* port's bucket or the locals it uses before they are set.                   *)
THEOREM TypeCorrect == Spec => []TypeOK
<1>1. IInv => TypeOK
  BY ZenonT(60) DEF IInv
<1> QED
  BY <1>1, Invariance, PTL

(* The two ends of every interdomain channel name each other, whatever the    *)
(* interleaving of binds, closes, resets and teardowns: the BUG_ONs of        *)
(* __evtchn_close() never fire.                                               *)
THEOREM PeersSymmetric == Spec => []PeerSymmetry
<1>1. ASSUME IInv PROVE PeerSymmetry
  <2>1. ASSUME NEW d \in Domains, NEW p \in Ports, chn[d][p].state = "INTERDOMAIN"
        PROVE  /\ chn[d][p].dom \in Domains
               /\ port_is_valid(chn[d][p].dom, chn[d][p].port)
               /\ chn[chn[d][p].dom][chn[d][p].port].state = "INTERDOMAIN"
               /\ chn[chn[d][p].dom][chn[d][p].port].dom = d
               /\ chn[chn[d][p].dom][chn[d][p].port].port = p
    <3>1. Paired(chn, nvalid, d, p)
      BY <1>1, <2>1, ZenonT(60) DEF IInv, Peers
    <3> QED
      BY <3>1, ZenonT(60) DEF Paired, port_is_valid
  <2> QED
    BY <2>1, ZenonT(60) DEF PeerSymmetry
<1> QED
  BY <1>1, Invariance, PTL

(* evtchn_send() sets the bit of the port it looked up, although it does not  *)
(* hold the lock of the domain that port belongs to.                          *)
THEOREM TargetStable == Spec => []SendTargetStable
<1>1. IInv => SendTargetStable
  <2> SUFFICES ASSUME IInv, NEW c \in Cpus, cpu[c].pc = "send"
      PROVE  LET w == cpu[c]
             IN  \/ /\ chn[w.d2][w.p2].state = "INTERDOMAIN"
                    /\ chn[w.d2][w.p2].dom = w.d1 /\ chn[w.d2][w.p2].port = w.p1
                 \/ /\ chn[w.d2][w.p2].state = "IPI"
                    /\ w.d1 = w.d2 /\ w.p1 = w.p2
    BY ZenonT(60) DEF SendTargetStable
  <2> DEFINE u == cpu[c]
  <2>1. WorkOK(u) /\ Knows(u, chn, nvalid) /\ u.pc = "send"
    BY ZenonT(60) DEF IInv
  <2>2. u.d1 \in Domains /\ u.p1 \in Ports
    BY <2>1 DEF WorkOK
  <2>3. CASE /\ chn[u.d1][u.p1].state = "INTERDOMAIN"
             /\ chn[u.d1][u.p1].dom = u.d2 /\ chn[u.d1][u.p1].port = u.p2
    <3>1. Paired(chn, nvalid, u.d1, u.p1)
      BY <2>2, <2>3, ZenonT(60) DEF IInv, Peers
    <3> QED
      BY <2>3, <3>1, ZenonT(60) DEF Paired
  <2>4. CASE chn[u.d1][u.p1].state = "IPI" /\ u.d1 = u.d2 /\ u.p1 = u.p2
    BY <2>4, ZenonT(60)
  <2> QED
    BY <2>1, <2>3, <2>4, ZenonT(60) DEF Knows
<1> QED
  BY <1>1, Invariance, PTL
=============================================================================
