----------------------------- MODULE SendQueue -----------------------------
(***************************************************************************)
(* The reply path of one connection: ConnUser::PushSendMsg, SendComplete   *)
(* and ProcSend (ConnUser.h).                                              *)
(*                                                                         *)
(* sendQueue is a lock-free FIFO and sendQueueSize an atomic uint16_t that *)
(* should count the replies queued or being sent.  Nothing else serialises *)
(* the threads: a pushing thread (the redis thread, or main for the first  *)
(* message to the centre server) queues a reply, increments, and then      *)
(* reads the counter again; a worker that dequeues a send completion       *)
(* decrements and then reads again.  Whoever reads exactly 1 pops a reply  *)
(* and calls WSASend.  Each access to shared memory is a step of its own.  *)
(*                                                                         *)
(* The client is part of the model only as a limit: it leaves at most      *)
(* Window of its requests unanswered.  Losing the connection is the        *)
(* subject of ConnSlots.                                                   *)
(***************************************************************************)
EXTENDS Integers, Sequences, FiniteSets

CONSTANTS
  Pushers,   \* threads that call PushSendMsg on this connection
  Workers,   \* threads that run LoginServer::WorkThread
  Window,    \* requests a client leaves unanswered
  MaxMsgs,   \* bound: replies pushed in a behaviour
  SizeMod    \* number of values of sendQueueSize (2^16 in the code)

ASSUME ThreadsAssumption ==
  /\ IsFiniteSet(Pushers) /\ IsFiniteSet(Workers)
  /\ Pushers \cap Workers = {}
ASSUME BoundsAssumption ==
  /\ MaxMsgs \in Nat /\ Window \in Nat
  /\ SizeMod \in Nat /\ SizeMod > 1

VARIABLES
  sendQueue,      \* replies waiting, oldest first
  sendQueueSize,  \* the atomic counter
  pc,             \* where each thread is inside PushSendMsg or SendComplete
  held,           \* the reply a thread popped and has not yet passed to WSASend
  inFlight,       \* replies handed to WSASend whose completion is not queued yet
  iocp,           \* completion packets of sends, oldest first
  wire,           \* history: replies in the order of their WSASend calls
  pushed          \* number of replies pushed; the n-th reply is the number n

vars == <<sendQueue, sendQueueSize, pc, held, inFlight, iocp, wire, pushed>>

Threads == Pushers \cup Workers
Msgs    == 1 .. MaxMsgs
NoMsg   == 0

Init ==
  /\ sendQueue = <<>>
  /\ sendQueueSize = 0
  /\ pc = [t \in Threads |-> "idle"]
  /\ held = [t \in Threads |-> NoMsg]
  /\ inFlight = {}
  /\ iocp = <<>>
  /\ wire = <<>>
  /\ pushed = 0

-----------------------------------------------------------------------------
(* Bugs a change to this code could plausibly introduce. *)

DecWithoutWrap(n)  == n - 1
DecForgotten(n)    == n
SendWheneverAny(n) == n >= 1
SendWhenDrained(n) == n = 0
PopWithoutRemoval(q) == q

-----------------------------------------------------------------------------
(* fetch_add and fetch_sub on an unsigned 16-bit counter wrap around. *)
Inc(n) == (n + 1) % SizeMod
Dec(n) == (n - 1) % SizeMod

(* The test both PushSendMsg and SendComplete make on the counter. *)
IsOnlyOne(n) == n = 1

(* What sendQueue.pop leaves behind. *)
Rest(q) == Tail(q)

Goto(t, label) == pc' = [pc EXCEPT ![t] = label]

(* PushSendMsg: fill an OverlappedEx (a pooled one or a new one, which makes
   no difference here) and push it. *)
Enqueue(p) ==
  /\ pc[p] = "idle"
  /\ pushed < MaxMsgs
  /\ pushed - Len(wire) < Window
  /\ sendQueue' = Append(sendQueue, pushed + 1)
  /\ pushed' = pushed + 1
  /\ Goto(p, "add")
  /\ UNCHANGED <<sendQueueSize, held, inFlight, iocp, wire>>

(* PushSendMsg: sendQueueSize.fetch_add(1). *)
FetchAdd(p) ==
  /\ pc[p] = "add"
  /\ sendQueueSize' = Inc(sendQueueSize)
  /\ Goto(p, "check")
  /\ UNCHANGED <<sendQueue, held, inFlight, iocp, wire, pushed>>

(* WorkThread: a SEND or NEWSEND completion is dequeued, its OverlappedEx
   given back, and SendComplete called. *)
TakeCompletion(w) ==
  /\ pc[w] = "idle"
  /\ iocp # <<>>
  /\ iocp' = Tail(iocp)
  /\ Goto(w, "sub")
  /\ UNCHANGED <<sendQueue, sendQueueSize, held, inFlight, wire, pushed>>

(* SendComplete: sendQueueSize.fetch_sub(1). *)
FetchSub(w) ==
  /\ pc[w] = "sub"
  /\ sendQueueSize' = Dec(sendQueueSize)
  /\ Goto(w, "check")
  /\ UNCHANGED <<sendQueue, held, inFlight, iocp, wire, pushed>>

(* Both: if (sendQueueSize.load() == 1) ProcSend(). *)
Check(t) ==
  /\ pc[t] = "check"
  /\ Goto(t, IF IsOnlyOne(sendQueueSize) THEN "pop" ELSE "idle")
  /\ UNCHANGED <<sendQueue, sendQueueSize, held, inFlight, iocp, wire, pushed>>

(* ProcSend: sendQueue.pop finds a reply ... *)
Pop(t) ==
  /\ pc[t] = "pop"
  /\ sendQueue # <<>>
  /\ held' = [held EXCEPT ![t] = Head(sendQueue)]
  /\ sendQueue' = Rest(sendQueue)
  /\ Goto(t, "send")
  /\ UNCHANGED <<sendQueueSize, inFlight, iocp, wire, pushed>>

(* ... or another thread took it first. *)
PopEmpty(t) ==
  /\ pc[t] = "pop"
  /\ sendQueue = <<>>
  /\ Goto(t, "idle")
  /\ UNCHANGED <<sendQueue, sendQueueSize, held, inFlight, iocp, wire, pushed>>

(* ProcSend: WSASend on a connected socket. *)
WSASend(t) ==
  /\ pc[t] = "send"
  /\ inFlight' = inFlight \cup {held[t]}
  /\ wire' = Append(wire, held[t])
  /\ held' = [held EXCEPT ![t] = NoMsg]
  /\ Goto(t, "idle")
  /\ UNCHANGED <<sendQueue, sendQueueSize, iocp, pushed>>

(* Windows queues the completion packet of a send. *)
SendDone(m) ==
  /\ m \in inFlight
  /\ inFlight' = inFlight \ {m}
  /\ iocp' = Append(iocp, m)
  /\ UNCHANGED <<sendQueue, sendQueueSize, pc, held, wire, pushed>>

ProcSend(t) == Pop(t) \/ PopEmpty(t) \/ WSASend(t)

PushStep(p) == Enqueue(p) \/ FetchAdd(p) \/ Check(p) \/ ProcSend(p)
WorkStep(w) == TakeCompletion(w) \/ FetchSub(w) \/ Check(w) \/ ProcSend(w)

Next ==
  \/ \E p \in Pushers : PushStep(p)
  \/ \E w \in Workers : WorkStep(w)
  \/ \E m \in inFlight : SendDone(m)

Spec == Init /\ [][Next]_vars

(* Threads are scheduled and a peer that reads lets its sends complete; no
   client has to ask for anything, so Enqueue is not fair. *)
Fairness ==
  /\ \A p \in Pushers : WF_vars(FetchAdd(p) \/ Check(p) \/ ProcSend(p))
  /\ \A w \in Workers : WF_vars(WorkStep(w))
  /\ \A m \in Msgs : WF_vars(SendDone(m))

FairSpec == Spec /\ Fairness

-----------------------------------------------------------------------------
At(label) == {t \in Threads : pc[t] = label}

Outstanding == Cardinality(inFlight) + Len(iocp)

(* Every variable holds a value of its kind; in particular the counter stays
   a uint16_t, although SendComplete may decrement it below zero for a
   moment (a pusher is between its push and its fetch_add). *)
TypeOK ==
  /\ sendQueue \in Seq(Msgs)
  /\ sendQueueSize \in 0 .. SizeMod - 1
  /\ pc \in [Threads -> {"idle", "add", "sub", "check", "pop", "send"}]
  /\ held \in [Threads -> Msgs \cup {NoMsg}]
  /\ inFlight \in SUBSET Msgs
  /\ iocp \in Seq(Msgs)
  /\ wire \in Seq(Msgs)
  /\ pushed \in 0 .. MaxMsgs

(* sendQueueSize counts the replies that are queued, popped, being sent or
   completed but not yet subtracted, less those pushed but not yet added: in
   every interleaving, modulo the width of the counter (ConnUser.h:157-211). *)
SizeAccounting ==
  sendQueueSize =
    (Len(sendQueue) + Cardinality(At("send")) + Cardinality(inFlight)
      + Len(iocp) + Cardinality(At("sub")) - Cardinality(At("add"))) % SizeMod

(* A client receives its replies in the order the handlers pushed them:
   the calls of WSASend follow the order of PushSendMsg, with none skipped
   or repeated (ProcSend pops and sends in two steps, without a lock). *)
WireInPushOrder == \A i \in 1 .. Len(wire) : wire[i] = i

(* With one pushing thread and one worker no more than two sends of the
   connection are ever outstanding: the counter does not quite keep them to
   one (ConnUser.h:184, 192). *)
AtMostTwoOutstanding == Outstanding <= 2

(* A reply that is pushed is eventually handed to WSASend. *)
EveryReplySent ==
  \A m \in Msgs : (pushed >= m) ~> (\E i \in 1 .. Len(wire) : wire[i] = m)
=============================================================================
