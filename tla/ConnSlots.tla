----------------------------- MODULE ConnSlots -----------------------------
(***************************************************************************)
(* The connection objects of the server and the I/O completion port that   *)
(* drives them: LoginServer::WorkThread and AccepterThread, ConnUser, and  *)
(* OverLappedManager, as they run once StartWork has returned.             *)
(*                                                                         *)
(* The server keeps MAX_USERS_OBJECT ConnUser objects for its whole life   *)
(* (here: slots).  Slot 0 holds the outgoing connection to the centre      *)
(* server; the others take clients in turn.  A slot waits in AcceptQueue   *)
(* until the accepter thread offers it with AcceptEx, is connected when a  *)
(* client arrives, and is Reset (new socket, back to the queue) when the   *)
(* worker sees a failed or empty completion for it.                        *)
(*                                                                         *)
(* Overlapped operations carry the number of their slot and nothing that   *)
(* says for which of the slot's sockets they were posted.  The field live  *)
(* of an operation keeps that knowledge for the kernel and the properties; *)
(* no decision of the server reads it.                                     *)
(*                                                                         *)
(* The accepter's pass through its loop is one step.  The redis thread in  *)
(* PushSendMsg and the worker in SendComplete and in its RECV branch take  *)
(* one step per access to what they share - pool, queue of replies,        *)
(* counter, WSASend - so that they interleave as they do in SendQueue,     *)
(* here together with connections that end under them.                     *)
(***************************************************************************)
EXTENDS Integers, Sequences, FiniteSets, SequencesExt

CONSTANTS
  MaxUsersObject,  \* MAX_USERS_OBJECT
  Pooled,          \* the OverlappedEx objects OverLappedManager::init makes
  Heap,            \* addresses of OverlappedEx objects made when the pool is empty
  SizeMod,         \* 2^16: sendQueueSize is a uint16_t
  AcceptCalls,     \* bound: AcceptEx calls the kernel has pending at one time
  MaxArrivals,     \* bound: clients that try to connect
  MaxRequests      \* bound: packets received

ASSUME SlotsAssumption ==
  /\ MaxUsersObject \in Nat /\ MaxUsersObject > 0
  /\ MaxArrivals \in Nat /\ MaxRequests \in Nat
  /\ SizeMod \in Nat /\ SizeMod > 1
ASSUME IdsAssumption ==
  /\ Pooled \cap Heap = {}
  /\ AcceptCalls \cap (Pooled \cup Heap) = {}
  /\ Cardinality(Pooled) >= 2

VARIABLES
  AcceptQueue,    \* slots waiting to be offered, oldest first
  sock,           \* state of each slot's current socket
  pool,           \* OverlappedEx objects free in ovLapPool
  posted,         \* overlapped operations the kernel has pending
  iocp,           \* completion packets, oldest first
  sendQueue,      \* per slot: OverlappedEx objects of replies waiting
  sendQueueSize,  \* per slot: the atomic counter
  procSktQueue,   \* slots of received packets the redis thread has yet to handle
  pc,             \* per thread: where it is in the handler it runs
  on,             \* per thread: the slot it works for
  hand,           \* per thread: the OverlappedEx in its local variable, if any
  uncounted,      \* history, per slot: replies that ended without a SendComplete
  arrivals,
  requests

kernel == <<posted, iocp>>
reply  == <<sendQueue, sendQueueSize>>
thread == <<pc, on, hand>>
vars   == <<AcceptQueue, sock, pool, posted, iocp, sendQueue, sendQueueSize,
            procSktQueue, pc, on, hand, uncounted, arrivals, requests>>

Slots  == 0 .. MaxUsersObject - 1
Center == 0
Ovl    == Pooled \cup Heap

Threads == {"redis", "worker"}

Op(id, c, task) == [id |-> id, slot |-> c, task |-> task, live |-> TRUE]
Packet(op, ok)  == [op |-> op, ok |-> ok]

Connected(c) == sock[c] \in {"up", "down"}

(* OverlappedEx objects some part of the server or the kernel still holds. *)
InUse ==
  {op.id : op \in posted} \cup {iocp[i].op.id : i \in DOMAIN iocp}
    \cup (UNION {ToSet(sendQueue[c]) : c \in Slots})
    \cup (UNION {ToSet(hand[t]) : t \in Threads})

-----------------------------------------------------------------------------
(* StartWork: every slot but 0 is in the queue; slot 0 is connected, with a
   receive and the first message outstanding, unless connect failed. *)
InitCenterUp ==
  \E recv, send \in Pooled :
    /\ recv # send
    /\ sock = [c \in Slots |-> IF c = Center THEN "up" ELSE "fresh"]
    /\ posted = {Op(recv, Center, "RECV"), Op(send, Center, "SEND")}
    /\ pool = Pooled \ {recv, send}
    /\ sendQueueSize = [c \in Slots |-> IF c = Center THEN 1 ELSE 0]

InitCenterDown ==
  /\ sock = [c \in Slots |-> "fresh"]
  /\ posted = {}
  /\ pool = Pooled
  /\ sendQueueSize = [c \in Slots |-> 0]

Init ==
  /\ AcceptQueue = [i \in 1 .. MaxUsersObject - 1 |-> i]
  /\ InitCenterUp \/ InitCenterDown
  /\ iocp = <<>>
  /\ sendQueue = [c \in Slots |-> <<>>]
  /\ procSktQueue = <<>>
  /\ pc = [t \in Threads |-> "idle"]
  /\ on = [t \in Threads |-> Center]
  /\ hand = [t \in Threads |-> <<>>]
  /\ uncounted = [c \in Slots |-> 0]
  /\ arrivals = 0
  /\ requests = 0

-----------------------------------------------------------------------------
(* Calls the handlers are made of. *)

(* closesocket in ConnUser::Reset: what is pending or already queued for the
   slot now belongs to a socket that is gone. *)
Orphan(c, op)      == IF op.slot = c THEN [op EXCEPT !.live = FALSE] ELSE op
OrphanOps(c)       == {Orphan(c, op) : op \in posted}
OrphanPackets(c,q) == [i \in DOMAIN q |-> [q[i] EXCEPT !.op = Orphan(c, @)]]

(* Mutant: the slot is reset and not queued again. *)
ResetWithoutRequeue(c) ==
  /\ sock' = [sock EXCEPT ![c] = "fresh"]
  /\ posted' = OrphanOps(c)
  /\ iocp' = OrphanPackets(c, Tail(iocp))
  /\ UNCHANGED AcceptQueue

(* ConnUser::Reset and the AcceptQueue.push that follows it, at the end of a
   worker step that took the first packet from the port. *)
ResetAndRequeue(c) ==
  /\ sock' = [sock EXCEPT ![c] = "fresh"]
  /\ posted' = OrphanOps(c)
  /\ iocp' = OrphanPackets(c, Tail(iocp))
  /\ AcceptQueue' = Append(AcceptQueue, c)

(* Thread t goes on at label for slot c, with the objects h in its hand. *)
Go(t, label, c, h) ==
  /\ pc' = [pc EXCEPT ![t] = label]
  /\ on' = [on EXCEPT ![t] = c]
  /\ hand' = [hand EXCEPT ![t] = h]

(* Thread t is back in its loop. *)
Return(t) == Go(t, "idle", Center, <<>>)

(* Mutant: the counter has no width. *)
DecWithoutWrap(n) == n - 1

(* fetch_add(1) and fetch_sub(1) on the uint16_t counter *)
Inc(n) == (n + 1) % SizeMod
Dec(n) == (n - 1) % SizeMod

(* Mutant: the object is not given back. *)
NotReturned(free, o) == free

(* returnOvLap: what the pool holds after it got o back. *)
Returned(free, o) == free \cup ({o} \cap Pooled)

-----------------------------------------------------------------------------
(* AccepterThread *)

(* PostAccept on a slot with a fresh socket. *)
OfferSlot ==
  /\ AcceptQueue # <<>>
  /\ LET c == Head(AcceptQueue) IN
     /\ sock[c] = "fresh"
     /\ \E a \in AcceptCalls \ InUse :
          posted' = posted \cup {Op(a, c, "ACCEPT")}
     /\ sock' = [sock EXCEPT ![c] = "accepting"]
  /\ AcceptQueue' = Tail(AcceptQueue)
  /\ UNCHANGED <<pool, iocp, reply, procSktQueue, thread, uncounted, arrivals, requests>>

(* Mutant: the accepter keeps trying the same slot. *)
RefusedSlotRetried ==
  /\ AcceptQueue # <<>>
  /\ sock[Head(AcceptQueue)] # "fresh"
  /\ UNCHANGED vars

(* The slot is queued although its socket is in use: AcceptEx refuses it and
   it goes back to the end of the queue. *)
RefusedSlot ==
  /\ AcceptQueue # <<>>
  /\ LET c == Head(AcceptQueue) IN
     /\ sock[c] # "fresh"
     /\ AcceptQueue' = Append(Tail(AcceptQueue), c)
  /\ UNCHANGED <<sock, pool, kernel, reply, procSktQueue, thread, uncounted,
                 arrivals, requests>>

-----------------------------------------------------------------------------
(* PushSendMsg, SendComplete and ProcSend, by one thread or the other *)

(* The OverlappedEx objects PushSendMsg may fill: one of the pool, or a new
   one when the pool is empty. *)
Fillable == IF pool # {} THEN pool ELSE Heap \ InUse

(* PushSendMsg: the filled object joins the slot's queue ... *)
Push ==
  /\ pc["redis"] = "push"
  /\ LET c == on["redis"] IN
     /\ sendQueue' = [sendQueue EXCEPT ![c] = Append(@, Head(hand["redis"]))]
     /\ Go("redis", "add", c, <<>>)
  /\ UNCHANGED <<AcceptQueue, sock, pool, kernel, sendQueueSize, procSktQueue,
                 uncounted, arrivals, requests>>

(* ... and only then is counted. *)
FetchAdd ==
  /\ pc["redis"] = "add"
  /\ LET c == on["redis"] IN
     /\ sendQueueSize' = [sendQueueSize EXCEPT ![c] = Inc(@)]
     /\ Go("redis", "check", c, <<>>)
  /\ UNCHANGED <<AcceptQueue, sock, pool, kernel, sendQueue, procSktQueue,
                 uncounted, arrivals, requests>>

(* SendComplete: the counter goes down, past 0 if a reply was popped and sent
   before it was counted. *)
FetchSub ==
  /\ pc["worker"] = "sub"
  /\ LET c == on["worker"] IN
     /\ sendQueueSize' = [sendQueueSize EXCEPT ![c] = Dec(@)]
     /\ Go("worker", "check", c, <<>>)
  /\ UNCHANGED <<AcceptQueue, sock, pool, kernel, sendQueue, procSktQueue,
                 uncounted, arrivals, requests>>

(* Both: ProcSend is called when the counter, read again, is 1. *)
Check(t) ==
  /\ pc[t] = "check"
  /\ IF sendQueueSize[on[t]] = 1 THEN Go(t, "pop", on[t], <<>>) ELSE Return(t)
  /\ UNCHANGED <<AcceptQueue, sock, pool, kernel, reply, procSktQueue,
                 uncounted, arrivals, requests>>

(* Mutant: the reply is read and stays in the queue. *)
PopLeavingReply(t) ==
  /\ pc[t] = "pop"
  /\ LET c == on[t] IN
     IF sendQueue[c] = <<>> THEN Return(t) ELSE Go(t, "send", c, <<Head(sendQueue[c])>>)
  /\ UNCHANGED <<AcceptQueue, sock, pool, kernel, reply, procSktQueue,
                 uncounted, arrivals, requests>>

(* ProcSend: pop a reply, if there is one. *)
Pop(t) ==
  /\ pc[t] = "pop"
  /\ LET c == on[t]
         q == sendQueue[c]
     IN IF q = <<>>
        THEN Return(t) /\ UNCHANGED sendQueue
        ELSE /\ sendQueue' = [sendQueue EXCEPT ![c] = Tail(q)]
             /\ Go(t, "send", c, <<Head(q)>>)
  /\ UNCHANGED <<AcceptQueue, sock, pool, kernel, sendQueueSize, procSktQueue,
                 uncounted, arrivals, requests>>

(* WSASend, whose result is not looked at: on a socket without a peer no
   operation is started and no completion will count the reply. *)
WSASend(t) ==
  /\ pc[t] = "send"
  /\ LET c == on[t]
         o == Head(hand[t])
     IN \/ /\ Connected(c)
           /\ posted' = posted \cup
                {Op(o, c, IF o \in Pooled THEN "SEND" ELSE "NEWSEND")}
           /\ UNCHANGED uncounted
        \/ /\ sock[c] # "up"
           /\ uncounted' = [uncounted EXCEPT ![c] = @ + 1]
           /\ UNCHANGED posted
  /\ Return(t)
  /\ UNCHANGED <<AcceptQueue, sock, pool, iocp, reply, procSktQueue, arrivals, requests>>

-----------------------------------------------------------------------------
(* WorkThread, by the kind of the packet it takes from the port *)

Took(task, ok) ==
  /\ pc["worker"] = "idle"
  /\ iocp # <<>>
  /\ Head(iocp).op.task \in task
  /\ Head(iocp).ok = ok

First == Head(iocp).op

Sending(op) == op.task \in {"SEND", "NEWSEND"}

(* Mutant: the reset forgets replies whose completions are still to come. *)
WorkDisconnectClearingCounter ==
  /\ Took({"ACCEPT", "RECV", "SEND", "NEWSEND"}, FALSE)
  /\ ResetAndRequeue(First.slot)
  /\ sendQueueSize' = [sendQueueSize EXCEPT ![First.slot] = 0]
  /\ UNCHANGED <<pool, sendQueue, procSktQueue, thread, uncounted, arrivals, requests>>

(* A failed or empty completion.  The OverlappedEx goes nowhere, and neither
   the counter nor the queue of replies is touched. *)
WorkDisconnect ==
  /\ Took({"ACCEPT", "RECV", "SEND", "NEWSEND"}, FALSE)
  /\ ResetAndRequeue(First.slot)
  /\ uncounted' = [uncounted EXCEPT ![First.slot] = IF Sending(First) THEN @ + 1 ELSE @]
  /\ UNCHANGED <<pool, reply, procSktQueue, thread, arrivals, requests>>

(* A client has arrived: ConnUserRecv posts the first receive ... *)
WorkAccept ==
  /\ Took({"ACCEPT"}, TRUE)
  /\ Connected(First.slot)
  /\ \E o \in pool :
       /\ pool' = pool \ {o}
       /\ posted' = posted \cup {Op(o, First.slot, "RECV")}
  /\ iocp' = Tail(iocp)
  /\ UNCHANGED <<AcceptQueue, sock, reply, procSktQueue, thread, uncounted,
                 arrivals, requests>>

(* ... or WSARecv fails, because the peer is gone or because the pool is
   empty and WSARecv is given a buffer at a null OverlappedEx. *)
WorkAcceptFailed ==
  /\ Took({"ACCEPT"}, TRUE)
  /\ \/ pool = {} /\ UNCHANGED pool
     \/ sock[First.slot] # "up" /\ \E o \in pool : pool' = pool \ {o}
  /\ ResetAndRequeue(First.slot)
  /\ UNCHANGED <<reply, procSktQueue, thread, uncounted, arrivals, requests>>

(* A packet was received: it is passed to the redis thread, ... *)
WorkRecv ==
  /\ Took({"RECV"}, TRUE)
  /\ procSktQueue' = Append(procSktQueue, First.slot)
  /\ iocp' = Tail(iocp)
  /\ Go("worker", "recv", First.slot, <<First.id>>)
  /\ UNCHANGED <<AcceptQueue, sock, pool, posted, reply, uncounted, arrivals, requests>>

(* ... ConnUserRecv posts another receive with another OverlappedEx, or fails
   as above without anybody looking, ... *)
RecvAgain ==
  /\ pc["worker"] = "recv"
  /\ LET c == on["worker"] IN
     /\ \/ /\ Connected(c)
           /\ \E o \in pool :
                /\ posted' = posted \cup {Op(o, c, "RECV")}
                /\ pool' = pool \ {o}
        \/ /\ sock[c] # "up"
           /\ \E o \in pool : pool' = pool \ {o}
           /\ UNCHANGED posted
        \/ pool = {} /\ UNCHANGED <<pool, posted>>
     /\ Go("worker", "return", c, hand["worker"])
  /\ UNCHANGED <<AcceptQueue, sock, iocp, reply, procSktQueue, uncounted,
                 arrivals, requests>>

(* ... and the one that was filled returns to the pool. *)
ReturnReceived ==
  /\ pc["worker"] = "return"
  /\ pool' = Returned(pool, Head(hand["worker"]))
  /\ Return("worker")
  /\ UNCHANGED <<AcceptQueue, sock, kernel, reply, procSktQueue, uncounted,
                 arrivals, requests>>

(* A reply went out: its OverlappedEx returns to the pool, or is deleted if
   it was made for the occasion, and SendComplete is called. *)
WorkSent ==
  /\ Took({"SEND", "NEWSEND"}, TRUE)
  /\ pool' = Returned(pool, First.id)
  /\ iocp' = Tail(iocp)
  /\ Go("worker", "sub", First.slot, <<>>)
  /\ UNCHANGED <<AcceptQueue, sock, posted, reply, procSktQueue, uncounted,
                 arrivals, requests>>

-----------------------------------------------------------------------------
(* RedisThread: the handler of a packet pushes one reply to the slot, or none
   (the centre server's answer).  getOvLap is its first access to what the
   threads share. *)
HandleRequest ==
  /\ pc["redis"] = "idle"
  /\ procSktQueue # <<>>
  /\ procSktQueue' = Tail(procSktQueue)
  /\ \/ \E o \in Fillable :
          /\ pool' = pool \ {o}
          /\ Go("redis", "push", Head(procSktQueue), <<o>>)
     \/ UNCHANGED <<pool, thread>>
  /\ UNCHANGED <<AcceptQueue, sock, kernel, reply, uncounted, arrivals, requests>>

-----------------------------------------------------------------------------
(* Clients, the centre server and Windows *)

Complete(op, ok) ==
  /\ posted' = posted \ {op}
  /\ iocp' = Append(iocp, Packet(op, ok))

(* A client connects to an offered slot; it may be gone before AcceptEx
   completes, which then fails. *)
Arrive(op) ==
  /\ op.task = "ACCEPT" /\ op.live
  /\ arrivals < MaxArrivals
  /\ arrivals' = arrivals + 1
  /\ \/ sock' = [sock EXCEPT ![op.slot] = "up"] /\ Complete(op, TRUE)
     \/ UNCHANGED sock /\ Complete(op, FALSE)
  /\ UNCHANGED <<AcceptQueue, pool, reply, procSktQueue, thread, uncounted, requests>>

(* The peer of a connected socket leaves. *)
Leave(c) ==
  /\ sock[c] = "up"
  /\ sock' = [sock EXCEPT ![c] = "down"]
  /\ UNCHANGED <<AcceptQueue, pool, kernel, reply, procSktQueue, thread, uncounted,
                 arrivals, requests>>

(* Bytes arrive, possibly sent before the peer left. *)
Receive(op) ==
  /\ op.task = "RECV" /\ op.live
  /\ requests < MaxRequests
  /\ requests' = requests + 1
  /\ Complete(op, TRUE)
  /\ UNCHANGED <<AcceptQueue, sock, pool, reply, procSktQueue, thread, uncounted, arrivals>>

(* A receive ends without bytes, or fails, because the peer left. *)
ReceiveNothing(op) ==
  /\ op.task = "RECV" /\ op.live
  /\ sock[op.slot] = "down"
  /\ Complete(op, FALSE)
  /\ UNCHANGED <<AcceptQueue, sock, pool, reply, procSktQueue, thread, uncounted,
                 arrivals, requests>>

(* A send ends; it can fail only if the peer left. *)
Sent(op) ==
  /\ op.task \in {"SEND", "NEWSEND"} /\ op.live
  /\ \/ Complete(op, TRUE)
     \/ sock[op.slot] = "down" /\ Complete(op, FALSE)
  /\ UNCHANGED <<AcceptQueue, sock, pool, reply, procSktQueue, thread, uncounted,
                 arrivals, requests>>

(* An operation on a closed socket is aborted. *)
Abort(op) ==
  /\ ~op.live
  /\ Complete(op, FALSE)
  /\ UNCHANGED <<AcceptQueue, sock, pool, reply, procSktQueue, thread, uncounted,
                 arrivals, requests>>

AccepterStep == OfferSlot \/ RefusedSlot
SendStep(t)  == Check(t) \/ Pop(t) \/ WSASend(t)
WorkStep     == \/ WorkDisconnect \/ WorkAccept \/ WorkAcceptFailed
                \/ WorkRecv \/ RecvAgain \/ ReturnReceived
                \/ WorkSent \/ FetchSub \/ SendStep("worker")
RedisStep    == HandleRequest \/ Push \/ FetchAdd \/ SendStep("redis")
KernelStep   == \E op \in posted :
                  Arrive(op) \/ Receive(op) \/ ReceiveNothing(op) \/ Sent(op) \/ Abort(op)

Next ==
  \/ AccepterStep
  \/ WorkStep
  \/ RedisStep
  \/ KernelStep
  \/ \E c \in Slots : Leave(c)

Spec == Init /\ [][Next]_vars

(* The accepter and the worker never stop looping, and Windows aborts what was
   pending on a closed socket.  Nothing is assumed of the clients. *)
FairSpec ==
  /\ Spec
  /\ WF_vars(AccepterStep)
  /\ WF_vars(WorkStep)
  /\ WF_vars(\E op \in posted : Abort(op))

-----------------------------------------------------------------------------
OpType == [id : Ovl \cup AcceptCalls, slot : Slots,
           task : {"ACCEPT", "RECV", "SEND", "NEWSEND"}, live : BOOLEAN]

Labels  == {"idle", "push", "add", "sub", "check", "pop", "send", "recv", "return"}
Holding == {"push", "send", "recv", "return"}

(* The state has its shape.  A counter may go below zero and then is just
   under 2^16 (ConnUser.h:190); a thread has an object in its hand exactly
   between taking it and passing it on. *)
TypeOK ==
  /\ AcceptQueue \in Seq(Slots)
  /\ sock \in [Slots -> {"fresh", "accepting", "up", "down"}]
  /\ pool \in SUBSET Pooled
  /\ posted \in SUBSET OpType
  /\ iocp \in Seq([op : OpType, ok : BOOLEAN])
  /\ sendQueue \in [Slots -> Seq(Ovl)]
  /\ sendQueueSize \in [Slots -> 0 .. SizeMod - 1]
  /\ procSktQueue \in Seq(Slots)
  /\ pc \in [Threads -> Labels]
  /\ on \in [Threads -> Slots]
  /\ hand \in [Threads -> {<<>>} \cup {<<o>> : o \in Ovl}]
  /\ \A t \in Threads : hand[t] # <<>> <=> pc[t] \in Holding
  /\ uncounted \in [Slots -> Nat]
  /\ arrivals \in 0 .. MaxArrivals
  /\ requests \in 0 .. MaxRequests

OfSlot(c)    == {op \in posted : op.slot = c}
Queued(c)    == {i \in DOMAIN iocp : iocp[i].op.slot = c}

(* However disconnections, late completions and refused offers interleave, a
   client slot never drops out of the rotation between worker and accepter:
   without a connection it is in AcceptQueue, or AcceptEx is pending for it, or
   a completion that will reset it is on its way. *)
SlotReachable ==
  \A c \in Slots \ {Center} :
    /\ sock[c] = "fresh" => c \in ToSet(AcceptQueue)
    /\ sock[c] = "accepting" =>
         \/ \E op \in OfSlot(c) : op.task = "ACCEPT" /\ op.live
         \/ \E i \in Queued(c) : ~iocp[i].ok

(* Where an object waits inside the server. *)
Holders == ({"queue"} \X Slots) \cup ({"hand"} \X Threads)
Held(h) == IF h[1] = "queue" THEN sendQueue[h[2]] ELSE hand[h[2]]

(* The replies of a slot on their way: waiting, popped, with the kernel, or
   with their completion in the port. *)
Due(c) ==
  ToSet(sendQueue[c])
    \cup (UNION {ToSet(hand[t]) : t \in {u \in Threads : pc[u] = "send" /\ on[u] = c}})
    \cup {op.id : op \in {p \in OfSlot(c) : Sending(p)}}
    \cup {iocp[i].op.id : i \in {j \in Queued(c) : Sending(iocp[j].op)}}

At(t, label, c) == IF pc[t] = label /\ on[t] = c THEN 1 ELSE 0

(* Whatever the order of pushes, counts, completions, failed sends and resets,
   and whichever clients of the slot they belong to, the counter is out by
   exactly three things, modulo its width: a reply pushed and not yet added, one
   completed and not yet subtracted, and every reply of an earlier moment that
   ended without a SendComplete.  No other path leaks or loses a count. *)
SendCounterAccounts ==
  \A c \in Slots :
    sendQueueSize[c] =
      (Cardinality(Due(c)) + At("worker", "sub", c) - At("redis", "add", c)
        + uncounted[c]) % SizeMod

(* An OverlappedEx of the pool or the heap has one owner: it is free, or waiting
   in one sendQueue, or in the hand of one thread, or with the kernel, once.
   (The acceptOvlap a ConnUser holds for AcceptEx is reused while it may still
   be pending; here every call has an identity of its own.) *)
OneOwner ==
  /\ pool \cap InUse = {}
  /\ \A p, q \in posted : p.id = q.id => p = q
  /\ \A i, j \in DOMAIN iocp : iocp[i].op.id = iocp[j].op.id => i = j
  /\ \A op \in posted : \A i \in DOMAIN iocp : op.id # iocp[i].op.id
  /\ \A h \in Holders : \A i \in DOMAIN Held(h) :
       /\ \A op \in posted : op.id # Held(h)[i]
       /\ \A j \in DOMAIN iocp : iocp[j].op.id # Held(h)[i]
       /\ \A g \in Holders : \A j \in DOMAIN Held(g) :
            Held(h)[i] = Held(g)[j] => h = g /\ i = j

Circulating == pool \cup (InUse \cap Pooled)

TookFirst == Len(iocp') < Len(iocp)

(* A pooled object goes out of circulation only together with a connection: it
   is the object of a failed completion just taken, or the one a receive or a
   send on a socket without a living peer was just tried with. *)
LostOnlyWithAPeer ==
  [][\A o \in Circulating \ Circulating' :
       \/ TookFirst /\ ~Head(iocp).ok /\ o = First.id
       \/ TookFirst /\ First.task = "ACCEPT" /\ sock[First.slot] # "up" /\ o \in pool
       \/ pc["worker"] = "recv" /\ sock[on["worker"]] # "up" /\ o \in pool
       \/ \E t \in Threads : pc[t] = "send" /\ sock[on[t]] # "up" /\ hand[t] = <<o>>]_vars

(* Every client slot that was reset is offered to clients again, even while
   the accepter goes round slots that AcceptEx refuses. *)
FreshSlotReoffered ==
  \A c \in Slots \ {Center} : sock[c] = "fresh" ~> sock[c] # "fresh"

(* "Allocate new overlap if pool is empty" (ConnUser.h:125): running out of
   pooled objects does not keep a connection from receiving. *)
EveryConnectionListens ==
  \A c \in Slots : sock[c] = "up" =>
    \/ \E op \in OfSlot(c) : op.task = "RECV"
    \/ pc["worker"] = "recv" /\ on["worker"] = c
    \/ \E i \in Queued(c) : iocp[i].op.task \in {"ACCEPT", "RECV"}

(* "User Disconnect" (LoginServer.cpp:208): a failed completion ends a client's
   connection whose peer is there only if it comes from that connection. *)
OnlyOwnLossResets ==
  [][WorkDisconnect /\ First.slot # Center /\ sock[First.slot] = "up"
       => First.live]_vars
=============================================================================
