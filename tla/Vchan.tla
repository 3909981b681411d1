-------------------------------- MODULE Vchan --------------------------------
(***************************************************************************)
(* libvchan: two rings in shared memory and an event channel between a     *)
(* server and a client (tools/libvchan/io.c, init.c).  Each access to what *)
(* the other end writes is a step; the barriers of the code keep them in   *)
(* order.                                                                  *)
(*                                                                         *)
(* The byte that the application sends at index i of a ring has the value  *)
(* i, so that a byte lost, repeated or overwritten is seen.  The event     *)
(* channel is external: an event is pending or not, a bind sets it.        *)
(*                                                                         *)
(* A definition marked "Deviation" is the one below it with a slip that    *)
(* some property must notice; the specification does not use it.           *)
(***************************************************************************)
EXTENDS Integers, Sequences

CONSTANTS
    RingSize,       \* 1 << order, the same for both rings
    Modulus,        \* 2^32 for the code's uint32_t indices; a multiple of RingSize
    Ops             \* bound: Ops[e], the calls end e makes, as <<operation, size, blocking>>

Ends == {"srv", "cli"}
Rings == {"left", "right"}

ASSUME VchanConstants ==
    /\ RingSize \in Nat \ {0} /\ Modulus \in Nat /\ Modulus >= 2 * RingSize
    /\ Modulus % RingSize = 0
    /\ Ops \in [Ends -> SUBSET ({"send", "write", "recv", "read", "ready", "space"}
                              \X (Nat \ {0}) \X BOOLEAN)]

VARIABLES
    persist,        \* ctrl->server_persist, as the application chose it
    prod, cons,     \* of each ring
    buf,            \* of each ring
    live,           \* of each end: cli_live, srv_live
    notify,         \* of each end: cli_notify, srv_notify
    event,          \* of each end: an event is pending on its port
    st              \* of each end: where it is in which call

shared == <<prod, cons, buf, live, notify, event>>
vars == <<persist, shared, st>>

Peer(e) == IF e = "srv" THEN "cli" ELSE "srv"
Read(e) == IF e = "srv" THEN "left" ELSE "right"
Write(e) == Read(Peer(e))

Idle == [pc |-> "idle", op |-> "none", n |-> 0, m |-> 0, block |-> FALSE, data |-> <<>>]
Away == [Idle EXCEPT !.pc = "away"]

(* libxenvchan_server_init() *)
Init ==
    /\ persist \in BOOLEAN
    /\ prod = [r \in Rings |-> 0] /\ cons = [r \in Rings |-> 0]
    /\ buf = [r \in Rings |-> [i \in 0 .. RingSize - 1 |-> 0]]
    /\ live = [e \in Ends |-> IF e = "srv" THEN 1 ELSE 2]
    /\ notify = [e \in Ends |-> IF e = "cli" THEN {"WRITE"} ELSE {}]
    /\ event = [e \in Ends |-> FALSE]
    /\ st = [e \in Ends |-> IF e = "srv" THEN Idle ELSE Away]

Filled(r) == (prod[r] - cons[r]) % Modulus

IsWriter(e) == st[e].op \in {"send", "write"}

(* What fast_get_buffer_space() and fast_get_data_ready() find. *)
Avail(e) == IF IsWriter(e) THEN RingSize - Filled(Write(e)) ELSE Filled(Read(e))

Goto(e, pc) == st' = [st EXCEPT ![e].pc = pc]
Return(e) == st' = [st EXCEPT ![e] = Idle]

(* libxenvchan_is_open() *)
is_open(e) == IF e = "srv" /\ persist THEN TRUE ELSE live[Peer(e)] # 0

-----------------------------------------------------------------------------
(* The beginning of a call. *)

Call(e, op, n, block) ==
    /\ st[e].pc = "idle"
    /\ st' = [st EXCEPT ![e] =
                [pc |-> CASE op \in {"send", "write"} -> "open"
                          [] op \in {"recv", "read"} -> "look"
                          [] OTHER -> "ask",
                 op |-> op, n |-> n, m |-> 0, block |-> block, data |-> <<>>]]
    /\ UNCHANGED shared

(* The first look at the indices. *)
Look(e) ==
    /\ st[e].pc = "look"
    /\ IF Avail(e) >= st[e].n THEN st' = [st EXCEPT ![e].pc = "copy", ![e].m = st[e].n]
       ELSE Goto(e, "ask")
    /\ UNCHANGED shared

Wanted(e) == IF st[e].op \in {"send", "write", "space"} THEN "READ" ELSE "WRITE"

(* request_notify().  libxenvchan_data_ready() and libxenvchan_buffer_space() *)
(* have nothing else to do.                                                   *)
Ask(e) ==
    /\ st[e].pc = "ask"
    /\ notify' = [notify EXCEPT ![Peer(e)] = @ \cup {Wanted(e)}]
    /\ IF st[e].op \in {"ready", "space"} THEN Return(e) ELSE Goto(e, "again")
    /\ UNCHANGED <<prod, cons, buf, live, event>>

(* How much of what is there the call takes: all or nothing for a packet. *)
Take(e) ==
    IF Avail(e) >= st[e].n THEN st[e].n
    ELSE IF st[e].op \in {"send", "recv"} THEN 0 ELSE Avail(e)

(* Deviation: the indices are not looked at again. *)
AgainBlindly(e) ==
    /\ st[e].pc = "again"
    /\ \/ /\ ~IsWriter(e) /\ Goto(e, "open")
       \/ /\ IsWriter(e) /\ st[e].block /\ (st[e].op = "send" => st[e].n <= RingSize)
          /\ Goto(e, "wait")
       \/ /\ IsWriter(e) /\ ~(st[e].block /\ (st[e].op = "send" => st[e].n <= RingSize))
          /\ Return(e)
    /\ UNCHANGED shared

(* The second look: copy what there is, wait or give up. *)
Again(e) ==
    /\ st[e].pc = "again"
    /\ \/ /\ Take(e) > 0
          /\ st' = [st EXCEPT ![e].pc = "copy", ![e].m = Take(e)]
       \/ /\ Take(e) = 0 /\ ~IsWriter(e) /\ Goto(e, "open")
       \/ /\ Take(e) = 0 /\ IsWriter(e)
          /\ st[e].block /\ (st[e].op = "send" => st[e].n <= RingSize)
          /\ Goto(e, "wait")
       \/ /\ Take(e) = 0 /\ IsWriter(e)
          /\ ~(st[e].block /\ (st[e].op = "send" => st[e].n <= RingSize))
          /\ Return(e)
    /\ UNCHANGED shared

(* A writer looks whether the other end is there before it looks for space,   *)
(* a reader when it finds too little.                                         *)
Open(e) ==
    /\ st[e].pc = "open"
    /\ \/ /\ is_open(e) /\ IsWriter(e) /\ Goto(e, "look")
       \/ /\ is_open(e) /\ ~IsWriter(e)
          /\ st[e].block /\ (st[e].op = "recv" => st[e].n <= RingSize)
          /\ Goto(e, "wait")
       \/ /\ ~IsWriter(e) /\ ~(st[e].block /\ (st[e].op = "recv" => st[e].n <= RingSize))
          /\ Return(e)
       \/ /\ ~is_open(e) /\ Return(e)
    /\ UNCHANGED shared

(* Deviation: the event of an end that goes away is not taken. *)
WaitOpen(e) ==
    /\ st[e].pc = "wait" /\ event[e] /\ is_open(e)
    /\ event' = [event EXCEPT ![e] = FALSE]
    /\ Goto(e, IF IsWriter(e) THEN "open" ELSE "look")
    /\ UNCHANGED <<prod, cons, buf, live, notify>>

(* libxenvchan_wait() *)
Wait(e) ==
    /\ st[e].pc = "wait" /\ event[e]
    /\ event' = [event EXCEPT ![e] = FALSE]
    /\ Goto(e, IF IsWriter(e) THEN "open" ELSE "look")
    /\ UNCHANGED <<prod, cons, buf, live, notify>>

-----------------------------------------------------------------------------
(* do_send() and do_recv() *)

(* The slots of ring r for m bytes from index i on. *)
Slots(i, m) == [k \in 1 .. m |-> (i + k - 1) % RingSize]

(* The bytes of ring r that its reader has still to take. *)
Content(r) == [k \in 1 .. Filled(r) |-> buf[r][(cons[r] + k - 1) % RingSize]]

(* Deviation: the second part does not go to the start of the ring. *)
CopyLinear(e) ==
    LET m == st[e].m
        r == IF IsWriter(e) THEN Write(e) ELSE Read(e)
        from == IF IsWriter(e) THEN prod[r] ELSE cons[r]
        at == [k \in 1 .. m |-> IF (from % RingSize) + k > RingSize THEN RingSize - 1
                                ELSE (from + k - 1) % RingSize]
        sent == [k \in 1 .. m |-> (prod[r] + k - 1) % Modulus]
    IN  /\ st[e].pc = "copy"
        /\ \/ /\ IsWriter(e)
              /\ buf' = [buf EXCEPT ![r] = [i \in DOMAIN @ |->
                           IF \E k \in 1 .. m : at[k] = i
                           THEN sent[CHOOSE k \in 1 .. m : at[k] = i] ELSE @[i]]]
              /\ Goto(e, "publish")
           \/ /\ ~IsWriter(e)
              /\ st' = [st EXCEPT ![e].pc = "publish", ![e].data = [k \in 1 .. m |-> buf[r][at[k]]]]
              /\ UNCHANGED buf
        /\ UNCHANGED <<prod, cons, live, notify, event>>

(* memcpy(), in two parts where it rolls across the end of the ring. *)
Copy(e) ==
    LET m == st[e].m
        r == IF IsWriter(e) THEN Write(e) ELSE Read(e)
        at == Slots(IF IsWriter(e) THEN prod[r] ELSE cons[r], m)
        sent == [k \in 1 .. m |-> (prod[r] + k - 1) % Modulus]
    IN  /\ st[e].pc = "copy"
        /\ \/ /\ IsWriter(e)
              /\ buf' = [buf EXCEPT ![r] = [i \in DOMAIN @ |->
                           IF \E k \in 1 .. m : at[k] = i
                           THEN sent[CHOOSE k \in 1 .. m : at[k] = i] ELSE @[i]]]
              /\ Goto(e, "publish")
           \/ /\ ~IsWriter(e)
              /\ st' = [st EXCEPT ![e].pc = "publish", ![e].data = [k \in 1 .. m |-> buf[r][at[k]]]]
              /\ UNCHANGED buf
        /\ UNCHANGED <<prod, cons, live, notify, event>>

(* Deviation: the size of the call, not of what was copied, is counted. *)
PublishWanted(e) ==
    /\ st[e].pc = "publish"
    /\ IF IsWriter(e)
       THEN prod' = [prod EXCEPT ![Write(e)] = (@ + st[e].n) % Modulus] /\ UNCHANGED cons
       ELSE cons' = [cons EXCEPT ![Read(e)] = (@ + st[e].n) % Modulus] /\ UNCHANGED prod
    /\ st' = [st EXCEPT ![e].pc = "notify", ![e].data = <<>>]
    /\ UNCHANGED <<buf, live, notify, event>>

(* wr_prod += size, rd_cons += size *)
Publish(e) ==
    /\ st[e].pc = "publish"
    /\ IF IsWriter(e)
       THEN prod' = [prod EXCEPT ![Write(e)] = (@ + st[e].m) % Modulus] /\ UNCHANGED cons
       ELSE cons' = [cons EXCEPT ![Read(e)] = (@ + st[e].m) % Modulus] /\ UNCHANGED prod
    /\ st' = [st EXCEPT ![e].pc = "notify", ![e].data = <<>>]
    /\ UNCHANGED <<buf, live, notify, event>>

Given(e) == IF IsWriter(e) THEN "WRITE" ELSE "READ"

(* do_send() and do_recv() return: a blocking write goes on with the rest. *)
Finish(e) ==
    IF st[e].op = "write" /\ st[e].block /\ st[e].n > st[e].m
    THEN st' = [st EXCEPT ![e].pc = "wait", ![e].n = st[e].n - st[e].m, ![e].m = 0]
    ELSE Return(e)

(* send_notify(): the bit first, then the hypercall. *)
Notify(e) ==
    /\ st[e].pc = "notify"
    /\ notify' = [notify EXCEPT ![e] = @ \ {Given(e)}]
    /\ IF Given(e) \in notify[e] THEN Goto(e, "kick") ELSE Finish(e)
    /\ UNCHANGED <<prod, cons, buf, live, event>>

(* xc_evtchn_notify(): dropped when no one is bound to the other port. *)
Pending(e) == event' = [event EXCEPT ![Peer(e)] = @ \/ st[Peer(e)].pc # "away"]

Kick(e) ==
    /\ st[e].pc = "kick"
    /\ Pending(e) /\ Finish(e)
    /\ UNCHANGED <<prod, cons, buf, live, notify>>

Step(e) ==
    \/ Look(e) \/ Ask(e) \/ Again(e) \/ Open(e) \/ Wait(e)
    \/ Copy(e) \/ Publish(e) \/ Notify(e) \/ Kick(e)

-----------------------------------------------------------------------------
(* Coming and going. *)

(* libxenvchan_close() *)
Close(e) ==
    /\ st[e].pc = "idle"
    /\ live' = [live EXCEPT ![e] = 0]
    /\ Goto(e, "closing")
    /\ UNCHANGED <<prod, cons, buf, notify, event>>

CloseNotify(e) ==
    /\ st[e].pc = "closing"
    /\ Pending(e) /\ st' = [st EXCEPT ![e] = Away]
    /\ UNCHANGED <<prod, cons, buf, live, notify>>

(* The end exits anywhere else: the kernel clears the live flag of the page   *)
(* and sends the event, as both ends asked when they mapped it.               *)
Crash(e) ==
    /\ st[e].pc \notin {"away", "bound"}
    /\ live' = [live EXCEPT ![e] = 0]
    /\ Pending(e) /\ st' = [st EXCEPT ![e] = Away]
    /\ UNCHANGED <<prod, cons, buf, notify>>

(* libxenvchan_client_init(), of the first client and of one that reconnects: *)
(* evtchn_bind_interdomain() leaves an event pending on the new port.         *)
ClientBind ==
    /\ st["cli"].pc = "away" /\ st["srv"].pc # "away"
    /\ event' = [event EXCEPT !["cli"] = TRUE]
    /\ Goto("cli", "bound")
    /\ UNCHANGED <<prod, cons, buf, live, notify>>

ClientLive ==
    /\ st["cli"].pc = "bound"
    /\ live' = [live EXCEPT !["cli"] = 1]
    /\ Goto("cli", "live")
    /\ UNCHANGED <<prod, cons, buf, notify, event>>

ClientReady ==
    /\ st["cli"].pc = "live"
    /\ notify' = [notify EXCEPT !["srv"] = {"WRITE"}]
    /\ Goto("cli", "idle")
    /\ UNCHANGED <<prod, cons, buf, live, event>>

Next ==
    /\ \/ \E e \in Ends : \/ Step(e) \/ Close(e) \/ CloseNotify(e) \/ Crash(e)
                          \/ \E o \in Ops[e] : Call(e, o[1], o[2], o[3])
       \/ ClientBind \/ ClientLive \/ ClientReady
    /\ UNCHANGED persist

Spec == Init /\ [][Next]_vars

(* A call goes on, unless it waits for an event. *)
FairSpec ==
    /\ Spec
    /\ \A e \in Ends : /\ WF_vars(Step(e) /\ UNCHANGED persist)
                       /\ WF_vars(CloseNotify(e) /\ UNCHANGED persist)

-----------------------------------------------------------------------------
(* Properties. *)

(* What do_recv() copies out of the shared ring is the front of the stream,   *)
(* whatever the writer does to the ring and the indices at the same time.     *)
CopiedIsFront ==
    \A e \in Ends :
       st[e].pc = "publish" /\ ~IsWriter(e) =>
          /\ st[e].m <= Filled(Read(e))
          /\ st[e].data = SubSeq(Content(Read(e)), 1, st[e].m)

(* What end e waits for in libxenvchan_wait() has come. *)
WaitOver(e) ==
    /\ st[e].pc = "wait"
    /\ ~is_open(e) \/ Avail(e) >= (IF st[e].op \in {"send", "recv"} THEN st[e].n ELSE 1)

(* The comments in fast_get_data_ready() and fast_get_buffer_space(): an end  *)
(* that asked, looked again and went to sleep is told: its event is pending,  *)
(* or the other end is on its way to send it.                                 *)
NoLostWakeup ==
    \A e \in Ends :
       WaitOver(e) =>
          LET p == st[Peer(e)] IN
          \/ event[e]
          \/ p.pc \in {"kick", "closing"}
          \/ p.pc = "notify" /\ Given(Peer(e)) = Wanted(e) /\ Wanted(e) \in notify[Peer(e)]

(* No end sleeps for ever on data or space that is there, or on a peer that   *)
(* has gone.                                                                  *)
Woken == \A e \in Ends : WaitOver(e) ~> st[e].pc # "wait"

Stream == INSTANCE ByteStream WITH
    Capacity <- RingSize, next <- prod, queue <- [r \in Rings |-> Content(r)]

(* Each ring is a bounded queue of bytes, in order: none is lost, repeated or *)
(* overwritten, across the wrap of the buffer and of the indices, blocking    *)
(* and non-blocking calls of any size, and clients that crash and reconnect.  *)
IsByteStream == Stream!Spec
=============================================================================
