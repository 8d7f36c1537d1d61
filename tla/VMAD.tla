-------------------------------- MODULE VMAD --------------------------------
(***************************************************************************)
(* Synchronous MADs over a verbs UD queue pair: rdma/vmad.py with the      *)
(* BufferPool and the CQPoller of rdma/vtools.py.                          *)
(*                                                                         *)
(* One thread calls sendto, recvfrom or _execute.  The adapter (external)  *)
(* works concurrently: it takes work requests from the send and receive    *)
(* queues, writes packets into posted buffers and appends completions to   *)
(* the CQ; when the CQ is armed the next completion puts one event on the  *)
(* completion channel and disarms it.  Packets are lost, late, or foreign. *)
(***************************************************************************)
EXTENDS Integers, SequencesExt

CONSTANTS
  Depth,       \* the depth argument
  MaxSendWr,   \* qp.max_send_wr, what the adapter granted
  MaxRecvWr,   \* qp.max_recv_wr
  Retries,     \* path.retries
  MaxTid,      \* bound: requests made with _execute
  MaxForeign,  \* bound: packets that answer none of them
  MaxEvents    \* bound: unread events on the completion channel

ASSUME VMADAssumption ==
  /\ Depth \in Nat \ {0} /\ MaxSendWr \in Nat \ {0} /\ MaxRecvWr \in Nat \ {0}
  /\ Retries \in Nat /\ MaxTid \in Nat \ {0} /\ MaxForeign \in Nat
  /\ MaxEvents \in Nat \ {0}

Least(a, b) == IF a < b THEN a ELSE b

Buf == 0..(2 * Depth - 1)
Tid == 1..MaxTid
Packet == 0..MaxTid                  \* the request it answers, 0 for none
Posted == Least(MaxRecvWr, Depth)    \* receive work requests of the QP
WC == [buf : Buf, recv : BOOLEAN, ok : BOOLEAN]

VARIABLES
  (* the thread *)
  pc,        \* "idle", "send", "recv", "drain", "sleep", "path", "return"
  op,        \* the method called
  tid, left, \* _execute: the request, retries
  hand,      \* recvfrom: the buffer being returned and the packet copied from it
  raised,    \* how the last call ended: the exception, and for a WCError the
             \* queue it names and the queue of the failed completion
  (* BufferPool._buffers, VMAD._recvs *)
  buffers, recvs,
  (* the QP, its CQ and completion channel, the memory *)
  sq, rq, cq, armed, events, qpok, mem,
  (* the network *)
  wire, foreign,
  (* history of the requests *)
  sends, outcome

callVars == <<pc, op, tid, left, hand, raised>>
poolVars == <<buffers, recvs>>
hwVars == <<sq, rq, cq, armed, events, qpok, mem>>
netVars == <<wire, foreign>>
histVars == <<sends, outcome>>
vars == <<callVars, poolVars, hwVars, netVars, histVars>>

Empty == [buf |-> 0, packet |-> 0]
NoError == [exc |-> "none", said |-> "none", was |-> "none"]

(* Buffers are popped from the right end; the receives are posted first,   *)
(* then the pool is cut down to the send queue.                            *)
FirstSends_Mutant == 2 * Depth - Posted
FirstSends == Least(2 * Depth - Posted, MaxSendWr)
Init ==
  /\ pc = "idle" /\ op = "none" /\ tid = 0 /\ left = 0
  /\ hand = Empty /\ raised = NoError
  /\ buffers = [i \in 1..FirstSends |-> i - 1] /\ recvs = <<>>
  /\ sq = <<>> /\ rq = [i \in 1..Posted |-> 2 * Depth - i]
  /\ cq = <<>> /\ armed = FALSE /\ events = 0 /\ qpok = TRUE
  /\ mem = [b \in Buf |-> 0]
  /\ wire = [t \in Tid |-> 0] /\ foreign = MaxForeign
  /\ sends = [t \in Tid |-> 0] /\ outcome = [t \in Tid |-> "none"]

-----------------------------------------------------------------------------
(* The adapter and the network.                                            *)

Complete(wc) ==
  /\ armed => events < MaxEvents
  /\ cq' = Append(cq, wc)
  /\ armed' = FALSE
  /\ events' = IF armed THEN events + 1 ELSE events

(* A packet is written into the buffer of the first receive.               *)
Arrive(p) ==
  /\ qpok /\ rq # <<>>
  /\ \/ p = 0 /\ foreign > 0 /\ foreign' = foreign - 1 /\ UNCHANGED wire
     \/ p # 0 /\ wire[p] > 0 /\ wire' = [wire EXCEPT ![p] = @ - 1] /\ UNCHANGED foreign
  /\ mem' = [mem EXCEPT ![Head(rq)] = p]
  /\ Complete([buf |-> Head(rq), recv |-> TRUE, ok |-> TRUE])
  /\ rq' = Tail(rq)
  /\ UNCHANGED <<callVars, poolVars, sq, qpok, histVars>>

(* Sends complete in order; on a broken QP everything is flushed with an   *)
(* error.                                                                  *)
SendDone ==
  /\ sq # <<>>
  /\ Complete([buf |-> Head(sq), recv |-> FALSE, ok |-> qpok])
  /\ sq' = Tail(sq)
  /\ UNCHANGED <<callVars, poolVars, rq, qpok, mem, netVars, histVars>>

FlushRecv ==
  /\ ~qpok /\ rq # <<>>
  /\ Complete([buf |-> Head(rq), recv |-> TRUE, ok |-> FALSE])
  /\ rq' = Tail(rq)
  /\ UNCHANGED <<callVars, poolVars, sq, qpok, mem, netVars, histVars>>

Break ==
  /\ qpok
  /\ qpok' = FALSE
  /\ UNCHANGED <<callVars, poolVars, sq, rq, cq, armed, events, mem, netVars, histVars>>

Adapter == (\E p \in Packet : Arrive(p)) \/ SendDone \/ FlushRecv \/ Break

-----------------------------------------------------------------------------
(* BufferPool.finish_wcs: the buffers of all completions go back to the    *)
(* pool, and as many receives are posted as completed, from its right end. *)

(* The elements of s at the indices I, in their order.                     *)
Picked(s, I) ==
  [k \in 1..Cardinality(I) |-> s[CHOOSE i \in I : Cardinality(I \cap (1..i)) = k]]

IsRecv_Mutant(wc) == wc.recv /\ wc.ok
IsRecv(wc) == wc.recv

FinishWcs(wcs) ==
  LET back == buffers \o [i \in 1..Len(wcs) |-> wcs[i].buf]
      kept == Len(back) - Cardinality({i \in DOMAIN wcs : IsRecv(wcs[i])})
  IN  /\ buffers' = SubSeq(back, 1, kept)
      /\ rq' = rq \o Reverse(SubSeq(back, kept + 1, Len(back)))

(* The exception of the first failed completion, when there is one.  What  *)
(* is left of the list decides it: None has no wr_id, and the queue named  *)
(* is the one of the last completion.                                      *)
Queue(wc) == IF wc.recv THEN "RQ" ELSE "SQ"
Received(wc) == wc.recv /\ wc.ok
Failed(wcs) == Picked(wcs, {i \in DOMAIN wcs : ~wcs[i].ok})
Error(wcs) ==
  IF Received(Last(wcs))
    THEN [exc |-> "AttributeError", said |-> "none", was |-> Queue(Head(Failed(wcs)))]
    ELSE [exc |-> "WCError", said |-> Queue(Last(wcs)), was |-> Queue(Head(Failed(wcs)))]

(* _cq_drain: good receives are kept for recvfrom, the rest is finished.   *)
Finished_Mutant(wc) == TRUE
Finished(wc) == ~Received(wc)
Drain ==
  /\ recvs' = recvs \o Picked(cq, {i \in DOMAIN cq : Received(cq[i])})
  /\ FinishWcs(Picked(cq, {i \in DOMAIN cq : Finished(cq[i])}))
  /\ cq' = <<>>

Raises(e) == pc' = "idle" /\ raised' = e
Raise(exc) == Raises([NoError EXCEPT !.exc = exc])
DrainThen(next) ==
  /\ Drain
  /\ IF Failed(cq) # <<>> THEN Raises(Error(cq)) ELSE next

-----------------------------------------------------------------------------
(* sendto, recvfrom and _execute.                                          *)

Call(m) ==
  /\ pc = "idle"
  /\ op' = m /\ raised' = NoError /\ left' = Retries
  /\ IF m = "execute" THEN tid < MaxTid /\ tid' = tid + 1 ELSE UNCHANGED tid
  /\ pc' = IF m = "recvfrom" THEN "recv" ELSE "send"
  /\ UNCHANGED <<hand, poolVars, hwVars, netVars, histVars>>

(* No buffer is free: drain the CQ.  When there still is none sendto calls *)
(* self._cq_sleep, which does not exist.                                   *)
NoBuffer_Mutant == UNCHANGED <<pc, raised>>
NoBuffer == Raise("AttributeError")
SendDrain ==
  /\ pc = "send" /\ buffers = <<>>
  /\ DrainThen(IF buffers' = <<>> THEN NoBuffer ELSE UNCHANGED <<pc, raised>>)
  /\ UNCHANGED <<op, tid, left, hand, sq, armed, events, qpok, mem, netVars, histVars>>

SendTo ==
  /\ pc = "send" /\ buffers # <<>>
  /\ UNCHANGED <<op, tid, left, hand, recvs, rq, cq, armed, events, qpok, mem, foreign, outcome>>
  /\ \/ /\ buffers' = Front(buffers)
        /\ sq' = Append(sq, Last(buffers))
        /\ IF op = "execute"
             THEN /\ pc' = "recv"
                  /\ sends' = [sends EXCEPT ![tid] = @ + 1]
                  /\ wire' = [wire EXCEPT ![tid] = @ + 1]
             ELSE pc' = "return" /\ UNCHANGED <<sends, wire>>
        /\ UNCHANGED raised
     \/ \* the path has another pkey or qkey; that of a retry was sent before
        /\ op = "execute" => sends[tid] = 0
        /\ Raise("RDMAError")
        /\ UNCHANGED <<buffers, sq, sends, wire>>
     \/ \* no address handle, or post_send fails: the buffer was popped
        /\ buffers' = Front(buffers)
        /\ Raise("SysError")
        /\ UNCHANGED <<sq, sends, wire>>

(* The data is copied and the buffer posted again; WCPath reads the GRH in *)
(* the buffer after that.                                                  *)
TakeRecv ==
  /\ pc = "recv" /\ recvs # <<>>
  /\ hand' = [buf |-> Head(recvs).buf, packet |-> mem[Head(recvs).buf]]
  /\ recvs' = Tail(recvs)
  /\ FinishWcs(<<Head(recvs)>>)
  /\ pc' = "path"
  /\ UNCHANGED <<op, tid, left, raised, sq, cq, armed, events, qpok, mem, netVars, histVars>>

(* _execute goes on unless the packet answers its request.                 *)
ReadPath ==
  /\ pc = "path"
  /\ IF op = "execute" /\ hand.packet # tid
       THEN pc' = "recv" /\ UNCHANGED outcome
       ELSE /\ pc' = "return"
            /\ outcome' = IF op = "execute" THEN [outcome EXCEPT ![tid] = "reply"] ELSE outcome
  /\ hand' = Empty
  /\ UNCHANGED <<op, tid, left, raised, poolVars, hwVars, netVars, sends>>

Notify_Mutant == UNCHANGED armed
Notify == armed' = TRUE
Arm ==
  /\ pc = "recv" /\ recvs = <<>>
  /\ Notify
  /\ pc' = "drain"
  /\ UNCHANGED <<op, tid, left, hand, raised, poolVars, sq, rq, cq, events, qpok, mem, netVars,
                 histVars>>

RecvDrain ==
  /\ pc = "drain"
  /\ DrainThen(pc' = (IF recvs' = <<>> THEN "sleep" ELSE "recv") /\ UNCHANGED raised)
  /\ UNCHANGED <<op, tid, left, hand, sq, armed, events, qpok, mem, netVars, histVars>>

(* CQPoller.sleep.                                                         *)
Wake ==
  /\ pc = "sleep" /\ events > 0
  /\ events' = events - 1
  /\ pc' = "recv"
  /\ UNCHANGED <<op, tid, left, hand, raised, poolVars, sq, rq, cq, armed, qpok, mem, netVars,
                 histVars>>

OneLess_Mutant(n) == n
OneLess(n) == n - 1
Exhausted_Mutant == left < 0
Exhausted == left = 0
TimedOut ==
  /\ pc = "sleep"
  /\ UNCHANGED <<op, tid, hand, raised, poolVars, hwVars, netVars, sends>>
  /\ \/ /\ op = "execute" /\ ~Exhausted
        /\ left' = OneLess(left) /\ pc' = "send" /\ UNCHANGED outcome
     \/ /\ op = "execute" /\ Exhausted
        /\ outcome' = [outcome EXCEPT ![tid] = "timeout"]
        /\ pc' = "return" /\ UNCHANGED left
     \/ op = "recvfrom" /\ pc' = "return" /\ UNCHANGED <<left, outcome>>

AsyncEvent ==
  /\ pc = "sleep"
  /\ Raise("AsyncError")
  /\ UNCHANGED <<op, tid, left, hand, poolVars, hwVars, netVars, histVars>>

Return ==
  /\ pc = "return"
  /\ pc' = "idle"
  /\ UNCHANGED <<op, tid, left, hand, raised, poolVars, hwVars, netVars, histVars>>

Thread ==
  \/ SendDrain \/ SendTo \/ TakeRecv \/ ReadPath \/ Arm \/ RecvDrain \/ Wake \/ TimedOut
  \/ AsyncEvent \/ Return

Next == (\E m \in {"sendto", "recvfrom", "execute"} : Call(m)) \/ Thread \/ Adapter

Spec == Init /\ [][Next]_vars

-----------------------------------------------------------------------------
(* Properties.                                                             *)

TypeOK ==
  /\ pc \in {"idle", "send", "recv", "drain", "sleep", "path", "return"}
  /\ op \in {"none", "sendto", "recvfrom", "execute"}
  /\ tid \in 0..MaxTid /\ left \in Nat /\ hand \in [buf : Buf, packet : Packet]
  /\ raised \in [exc : {"none", "RDMAError", "SysError", "AsyncError", "WCError",
                        "AttributeError"},
                 said : {"none", "RQ", "SQ"}, was : {"none", "RQ", "SQ"}]
  /\ buffers \in Seq(Buf) /\ recvs \in Seq(WC)
  /\ sq \in Seq(Buf) /\ rq \in Seq(Buf) /\ cq \in Seq(WC)
  /\ armed \in BOOLEAN /\ events \in Nat /\ qpok \in BOOLEAN /\ mem \in [Buf -> Packet]
  /\ wire \in [Tid -> Nat] /\ foreign \in Nat
  /\ sends \in [Tid -> Nat] /\ outcome \in [Tid -> {"none", "reply", "timeout"}]

(* A buffer is never in two places at once (free in the pool, posted,      *)
(* completed and not polled, received and not yet returned): nothing is    *)
(* sent from a buffer the adapter may write, and no receive is lost.       *)
BufsOf(wcs) == [i \in 1..Len(wcs) |-> wcs[i].buf]
Places == buffers \o sq \o rq \o BufsOf(cq) \o BufsOf(recvs)
BufferInOnePlace == IsInjective(Places)

(* Whatever fails, every receive work request is posted again: the queue   *)
(* neither runs dry nor overflows.  The ones _cq_drain put aside wait for  *)
(* recvfrom.                                                               *)
ReceivesOf(wcs) == Cardinality({i \in DOMAIN wcs : wcs[i].recv})
ReceivesStayPosted == Len(rq) + ReceivesOf(cq) + Len(recvs) = Posted

(* "Adjust the number of buffers so that we can't exceed the send q depth" *)
(* (vmad.py): sends posted and not completed fit in the send queue, and    *)
(* the completions of everything posted fit in a CQ of 2*depth entries.    *)
QueuesFit ==
  /\ Len(sq) + (Len(cq) - ReceivesOf(cq)) <= MaxSendWr
  /\ Len(rq) <= MaxRecvWr
  /\ Len(cq) + Len(sq) + Len(rq) <= 2 * Depth

(* recvfrom never sleeps through a completion: arming the CQ before the    *)
(* drain makes the next one raise an event.                                *)
NoMissedCompletion == pc = "sleep" /\ cq # <<>> => events > 0

(* finish_wcs: "raises rdma.ibverbs.WCError: For WC's marked as error"     *)
(* (vtools.py), and WCError's is_rq says which queue failed.               *)
ErrorNamesItsQueue == raised.was # "none" => raised.exc = "WCError" /\ raised.said = raised.was

(* recvfrom "returns tuple(buf,path)" (vmad.py): of one packet.            *)
PathOfItsPacket == pc = "path" => mem[hand.buf] = hand.packet

(* The request protocol of MADRpc, which _execute implements.              *)
status == [t \in Tid |->
  CASE outcome[t] # "none" -> outcome[t]
    [] outcome[t] = "none" /\ sends[t] = 0 -> "unused"
    [] outcome[t] = "none" /\ sends[t] > 0 ->
         IF t = tid /\ op = "execute" /\ pc # "idle" THEN "pending" ELSE "dropped"]
Rpc == INSTANCE MADRpc WITH running <- pc # "idle"
RpcSpec == Rpc!Spec

(* Fairness: the thread takes its steps; sleep ends at its deadline.       *)
FairSpec == Spec /\ WF_vars(Thread)

(* Every call returns or raises, when the packets that match nothing are   *)
(* finitely many.                                                          *)
EveryCallEnds == pc # "idle" ~> pc = "idle"
=============================================================================
