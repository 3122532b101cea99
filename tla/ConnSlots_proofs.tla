------------------------- MODULE ConnSlots_proofs -------------------------
(***************************************************************************)
(* Proofs about ConnSlots, for any number of slots, any pool and any       *)
(* bounds: the state keeps its shape, an OverlappedEx has one owner, the   *)
(* counter of a slot is out by what the code leaves uncounted and nothing  *)
(* else, no client slot leaves the rotation, and a pooled object is lost   *)
(* only together with a peer.                                              *)
(*                                                                         *)
(* What a call of the server (a reset, a pop, a post, a completion) does   *)
(* to owners is stated once, over any pool, port, queues and hands; the    *)
(* steps of the threads are made of those calls.                           *)
(***************************************************************************)
EXTENDS ConnSlots, FiniteSetTheorems, TLAPS

-----------------------------------------------------------------------------
(* Remainders of the counter's arithmetic. *)

LEMMA Division ==
  ASSUME NEW b \in Nat, b > 0, NEW a \in Int
  PROVE  a % b \in 0 .. b - 1 /\ \E q \in Int : a = q * b + (a % b)
  <1>1. a % b \in 0 .. b - 1  OBVIOUS
  <1>2. a = (a \div b) * b + (a % b)  OBVIOUS
  <1>3. a \div b \in Int  OBVIOUS
  <1> QED  BY <1>1, <1>2, <1>3

LEMMA RemainderUnique ==
  ASSUME NEW b \in Nat, b > 0, NEW a \in Int,
         NEW q \in Int, NEW r \in 0 .. b - 1, a = q * b + r
  PROVE  a % b = r
  OBVIOUS

(* Wrapping before or after an addition makes no difference. *)
LEMMA ModAdd ==
  ASSUME NEW b \in Nat, b > 0, NEW a \in Int, NEW d \in Int
  PROVE  ((a % b) + d) % b = (a + d) % b
  <1> DEFINE r1 == a % b
             r2 == (r1 + d) % b
  <1>1. r1 \in 0 .. b - 1 /\ \E q \in Int : a = q * b + r1
    BY Division
  <1>2. r1 \in Int  BY <1>1
  <1>3. r2 \in 0 .. b - 1 /\ \E q \in Int : r1 + d = q * b + r2
    <2> HIDE DEF r1
    <2>1. r1 + d \in Int  BY <1>2
    <2> QED  BY <2>1, Division
  <1> HIDE DEF r1, r2
  <1>4. PICK q1 \in Int : a = q1 * b + r1  BY <1>1
  <1>5. PICK q2 \in Int : r1 + d = q2 * b + r2  BY <1>3
  <1>6. (q1 + q2) * b = q1 * b + q2 * b  OBVIOUS
  <1>7. q1 * b \in Int /\ q2 * b \in Int  OBVIOUS
  <1>8. a + d = (q1 + q2) * b + r2
    BY <1>2, <1>3, <1>4, <1>5, <1>6, <1>7
  <1>9. (a + d) % b = r2
    <2>1. a + d \in Int /\ q1 + q2 \in Int  OBVIOUS
    <2> QED  BY <1>3, <1>8, <2>1, RemainderUnique
  <1> QED  BY <1>9 DEF r1, r2

-----------------------------------------------------------------------------
(* Sequences, as the queues of the server use them. *)

(* Head and Tail of a queue that is not empty. *)
LEMMA Popped ==
  ASSUME NEW S, NEW q \in Seq(S), q # <<>>
  PROVE  /\ Head(q) \in S /\ Head(q) = q[1] /\ 1 \in DOMAIN q
         /\ Tail(q) \in Seq(S) /\ Len(Tail(q)) = Len(q) - 1
         /\ \A i \in DOMAIN Tail(q) : i + 1 \in DOMAIN q /\ Tail(q)[i] = q[i + 1] /\ i + 1 # 1
  OBVIOUS

(* Append. *)
LEMMA Pushed ==
  ASSUME NEW S, NEW q \in Seq(S), NEW e \in S
  PROVE  /\ Append(q, e) \in Seq(S) /\ Len(Append(q, e)) = Len(q) + 1
         /\ Append(q, e)[Len(q) + 1] = e
         /\ \A i \in DOMAIN Append(q, e) :
              \/ i \in DOMAIN q /\ Append(q, e)[i] = q[i]
              \/ i = Len(q) + 1 /\ i \notin DOMAIN q
         /\ DOMAIN q \subseteq DOMAIN Append(q, e)
         /\ \A i \in DOMAIN q : Append(q, e)[i] = q[i]
  OBVIOUS

(* A hand with one object. *)
LEMMA Single ==
  ASSUME NEW S, NEW o \in S
  PROVE  /\ <<o>> \in Seq(S) /\ <<>> \in Seq(S) /\ <<o>> # <<>>
         /\ Head(<<o>>) = o /\ Tail(<<o>>) = <<>>
         /\ Append(<<>>, o) = <<o>>
         /\ DOMAIN <<o>> = {1} /\ <<o>>[1] = o
  <1>1. <<o>> \in Seq(S) /\ <<>> \in Seq(S) /\ <<o>> # <<>>
    OBVIOUS
  <1>2. Head(<<o>>) = o
    OBVIOUS
  <1>3. Tail(<<o>>) = <<>>
    OBVIOUS
  <1>4. Append(<<>>, o) = <<o>>
    OBVIOUS
  <1>5. DOMAIN <<o>> = {1} /\ <<o>>[1] = o
    OBVIOUS
  <1> QED
    BY <1>1, <1>2, <1>3, <1>4, <1>5

-----------------------------------------------------------------------------
(* The parts of TypeOK that ownership is about. *)

Packets == [op : OpType, ok : BOOLEAN]

OpsType ==
  /\ pool \in SUBSET Pooled
  /\ posted \in SUBSET OpType
  /\ iocp \in Seq(Packets)
  /\ sendQueue \in [Slots -> Seq(Ovl)]

QueuesType ==
  /\ AcceptQueue \in Seq(Slots)
  /\ sock \in [Slots -> {"fresh", "accepting", "up", "down"}]
  /\ procSktQueue \in Seq(Slots)
  /\ arrivals \in 0 .. MaxArrivals
  /\ requests \in 0 .. MaxRequests

ThreadsType ==
  /\ pc \in [Threads -> Labels]
  /\ on \in [Threads -> Slots]
  /\ hand \in [Threads -> {<<>>} \cup {<<o>> : o \in Ovl}]
  /\ \A t \in Threads : hand[t] # <<>> <=> pc[t] \in Holding

CounterType ==
  /\ sendQueueSize \in [Slots -> 0 .. SizeMod - 1]
  /\ uncounted \in [Slots -> Nat]

LEMMA TypeParts == TypeOK <=> OpsType /\ QueuesType /\ ThreadsType /\ CounterType
  BY DEF TypeOK, OpsType, QueuesType, ThreadsType, CounterType, Packets

LEMMA CenterIsSlot == Center \in Slots
  BY SlotsAssumption DEF Center, Slots

(* What a reset makes of an operation. *)
LEMMA Orphaned ==
  ASSUME NEW c \in Slots, NEW op \in OpType
  PROVE  /\ Orphan(c, op) \in OpType
         /\ Orphan(c, op).id = op.id
         /\ Orphan(c, op).slot = op.slot
         /\ Orphan(c, op).task = op.task
         /\ op.slot # c => Orphan(c, op) = op
  BY DEF Orphan, OpType

LEMMA OrphanedOps ==
  ASSUME OpsType, NEW c \in Slots
  PROVE  /\ OrphanOps(c) \in SUBSET OpType
         /\ \A p \in OrphanOps(c) : \E op \in posted : p = Orphan(c, op)
  BY Orphaned DEF OpsType, OrphanOps

LEMMA OrphanedPackets ==
  ASSUME NEW c \in Slots, NEW q \in Seq(Packets)
  PROVE  /\ OrphanPackets(c, q) \in Seq(Packets)
         /\ DOMAIN OrphanPackets(c, q) = DOMAIN q /\ Len(OrphanPackets(c, q)) = Len(q)
         /\ \A i \in DOMAIN q : /\ OrphanPackets(c, q)[i].op = Orphan(c, q[i].op)
                                /\ OrphanPackets(c, q)[i].ok = q[i].ok
                                /\ q[i].op \in OpType
  <1>1. \A i \in DOMAIN q : q[i] \in Packets
    OBVIOUS
  <1>2. \A p \in Packets : /\ [p EXCEPT !.op = Orphan(c, @)] \in Packets
                           /\ [p EXCEPT !.op = Orphan(c, @)].op = Orphan(c, p.op)
                           /\ [p EXCEPT !.op = Orphan(c, @)].ok = p.ok
                           /\ p.op \in OpType
    BY Orphaned DEF Packets
  <1>3. OrphanPackets(c, q) \in Seq(Packets)
    BY <1>1, <1>2 DEF OrphanPackets
  <1>4. DOMAIN OrphanPackets(c, q) = DOMAIN q /\ Len(OrphanPackets(c, q)) = Len(q)
    BY DEF OrphanPackets
  <1> QED
    BY <1>1, <1>2, <1>3, <1>4 DEF OrphanPackets

-----------------------------------------------------------------------------
(* Who holds an object, for any pool f, set p of posted operations, port q and
   objects w in queues and hands: what the calls of the server do to one of them
   is stated once, and the steps are made of calls. *)

Ports   == Seq(Packets)
Waiting == [Holders -> Seq(Ovl)]

(* The queues of replies and the hands of the threads, as one function. *)
Waits == [h \in Holders |-> Held(h)]

InPort(q, o)  == \E i \in DOMAIN q : q[i].op.id = o
InQueue(w, o) == \E c \in Holders : \E i \in DOMAIN w[c] : w[c][i] = o
Posted(p, o)  == \E op \in p : op.id = o

Unheld(f, p, q, w, o) == o \notin f /\ ~ Posted(p, o) /\ ~ InPort(q, o) /\ ~ InQueue(w, o)

OwnedOnce(f, p, q, w) ==
  /\ \A o \in f : ~ Posted(p, o) /\ ~ InPort(q, o) /\ ~ InQueue(w, o)
  /\ \A op1, op2 \in p : op1.id = op2.id => op1 = op2
  /\ \A i, j \in DOMAIN q : q[i].op.id = q[j].op.id => i = j
  /\ \A op \in p : ~ InPort(q, op.id) /\ ~ InQueue(w, op.id)
  /\ \A i \in DOMAIN q : ~ InQueue(w, q[i].op.id)
  /\ \A c, d \in Holders : \A i \in DOMAIN w[c] : \A j \in DOMAIN w[d] :
       w[c][i] = w[d][j] => c = d /\ i = j

(* InUse and OneOwner in terms of the holders, now and in the next state. *)
LEMMA InUseIs ==
  \A o : o \in InUse <=> Posted(posted, o) \/ InPort(iocp, o) \/ InQueue(Waits, o)
  <1>1. \A o : InQueue(Waits, o) <=> \E h \in Holders : \E i \in DOMAIN Held(h) : Held(h)[i] = o
    BY DEF InQueue, Waits
  <1>2. \A o : (\E h \in Holders : \E i \in DOMAIN Held(h) : Held(h)[i] = o) <=>
                 \/ \E c \in Slots : \E i \in DOMAIN sendQueue[c] : sendQueue[c][i] = o
                 \/ \E t \in Threads : \E i \in DOMAIN hand[t] : hand[t][i] = o
    <2>1. /\ \A c \in Slots : <<"queue", c>> \in Holders /\ Held(<<"queue", c>>) = sendQueue[c]
          /\ \A t \in Threads : <<"hand", t>> \in Holders /\ Held(<<"hand", t>>) = hand[t]
      BY DEF Holders, Held
    <2>2. \A h \in Holders : \/ h[2] \in Slots /\ Held(h) = sendQueue[h[2]]
                             \/ h[2] \in Threads /\ Held(h) = hand[h[2]]
      BY DEF Holders, Held
    <2> DEFINE InHolder(o) == \E h \in Holders : \E i \in DOMAIN Held(h) : Held(h)[i] = o
               InSlot(o)   == \E c \in Slots : \E i \in DOMAIN sendQueue[c] : sendQueue[c][i] = o
               InHand(o)   == \E t \in Threads : \E i \in DOMAIN hand[t] : hand[t][i] = o
    <2>3. \A o : InSlot(o) => InHolder(o)
      BY <2>1
    <2>4. \A o : InHand(o) => InHolder(o)
      BY <2>1
    <2>5. ASSUME NEW o, NEW h \in Holders, NEW i \in DOMAIN Held(h), Held(h)[i] = o
          PROVE  InSlot(o) \/ InHand(o)
      BY <2>2, <2>5
    <2> QED
      BY <2>3, <2>4, <2>5
  <1>3. \A o : /\ o \in UNION {ToSet(sendQueue[c]) : c \in Slots} <=>
                    \E c \in Slots : \E i \in DOMAIN sendQueue[c] : sendQueue[c][i] = o
               /\ o \in UNION {ToSet(hand[t]) : t \in Threads} <=>
                    \E t \in Threads : \E i \in DOMAIN hand[t] : hand[t][i] = o
    BY DEF ToSet
  <1>4. \A o : o \in InUse <=> \/ Posted(posted, o) \/ InPort(iocp, o)
                              \/ o \in UNION {ToSet(sendQueue[c]) : c \in Slots}
                              \/ o \in UNION {ToSet(hand[t]) : t \in Threads}
    BY DEF InUse, Posted, InPort
  <1> QED
    BY <1>1, <1>2, <1>3, <1>4

LEMMA InUseIsNext ==
  \A o : o \in InUse' <=> Posted(posted', o) \/ InPort(iocp', o) \/ InQueue(Waits', o)
  <1> DEFINE P(o) == o \in InUse <=> Posted(posted, o) \/ InPort(iocp, o) \/ InQueue(Waits, o)
  <1>1. (\A o : P(o))'
    BY InUseIs, PTL
  <1> QED
    BY <1>1

LEMMA OwnerIs == OneOwner <=> OwnedOnce(pool, posted, iocp, Waits)
  <1>1. pool \cap InUse = {} <=>
          \A o \in pool : ~ Posted(posted, o) /\ ~ InPort(iocp, o) /\ ~ InQueue(Waits, o)
    BY InUseIs
  <1>2. \A h \in Holders : Waits[h] = Held(h)
    BY DEF Waits
  <1> QED
    BY <1>1, <1>2 DEF OneOwner, OwnedOnce, Posted, InPort, InQueue

(* closesocket changes no holder. *)
LEMMA OrphanOwned ==
  ASSUME NEW f, NEW p \in SUBSET OpType, NEW q \in Ports, NEW w \in Waiting,
         NEW c \in Slots, OwnedOnce(f, p, q, w)
  PROVE  /\ {Orphan(c, op) : op \in p} \in SUBSET OpType
         /\ OrphanPackets(c, q) \in Ports
         /\ OwnedOnce(f, {Orphan(c, op) : op \in p}, OrphanPackets(c, q), w)
  <1> DEFINE p1 == {Orphan(c, op) : op \in p}
             q1 == OrphanPackets(c, q)
  <1>1. /\ p1 \in SUBSET OpType
        /\ \A x \in p1 : \E op \in p : x = Orphan(c, op) /\ x.id = op.id
    BY Orphaned
  <1>2. q1 \in Ports /\ DOMAIN q1 = DOMAIN q
    BY OrphanedPackets DEF Ports
  <1>3. \A i \in DOMAIN q : q1[i].op.id = q[i].op.id
    BY OrphanedPackets, Orphaned DEF Ports
  <1>4. OwnedOnce(f, p1, q1, w)
    <2> HIDE DEF p1, q1
    <2>1. \A o : (Posted(p1, o) => Posted(p, o)) /\ (InPort(q1, o) <=> InPort(q, o))
      BY <1>1, <1>2, <1>3 DEF Posted, InPort
    <2>2. \A x, y \in p1 : x.id = y.id => x = y
      BY <1>1 DEF OwnedOnce
    <2>3. \A x \in p1 : ~ InPort(q1, x.id) /\ ~ InQueue(w, x.id)
      BY <1>1, <2>1 DEF OwnedOnce
    <2>4. \A i \in DOMAIN q1 : ~ InQueue(w, q1[i].op.id)
      BY <1>2, <1>3 DEF OwnedOnce
    <2>5. \A i, j \in DOMAIN q1 : q1[i].op.id = q1[j].op.id => i = j
      BY <1>2, <1>3 DEF OwnedOnce
    <2> QED
      BY <2>1, <2>2, <2>3, <2>4, <2>5 DEF OwnedOnce
  <1> QED
    BY <1>1, <1>2, <1>4

(* A packet is taken from the port: its object is nobody's then. *)
LEMMA TakenOwned ==
  ASSUME NEW f, NEW p \in SUBSET OpType, NEW q \in Ports, NEW w \in Waiting,
         q # <<>>, OwnedOnce(f, p, q, w)
  PROVE  /\ Tail(q) \in Ports
         /\ OwnedOnce(f, p, Tail(q), w)
         /\ Unheld(f, p, Tail(q), w, Head(q).op.id)
  <1>1. /\ Head(q) = q[1] /\ 1 \in DOMAIN q /\ Tail(q) \in Ports
        /\ \A i \in DOMAIN Tail(q) : i + 1 \in DOMAIN q /\ Tail(q)[i] = q[i + 1] /\ i + 1 # 1
    <2> HIDE DEF Packets
    <2> QED
      BY Popped DEF Ports
  <1>2. \A i, j \in DOMAIN Tail(q) : i + 1 = j + 1 => i = j
    BY DEF Ports
  <1>3. \A o : InPort(Tail(q), o) => InPort(q, o) /\ o # Head(q).op.id
    BY <1>1 DEF InPort, OwnedOnce
  <1>4. InPort(q, Head(q).op.id)
    BY <1>1 DEF InPort
  <1>5. OwnedOnce(f, p, Tail(q), w)
    BY <1>1, <1>2, <1>3 DEF OwnedOnce
  <1>6. Unheld(f, p, Tail(q), w, Head(q).op.id)
    BY <1>1, <1>3, <1>4 DEF OwnedOnce, Unheld, Posted, InPort
  <1> QED
    BY <1>1, <1>5, <1>6

(* An operation completes: it moves from the posted ones to the port. *)
LEMMA CompletedOwned ==
  ASSUME NEW f, NEW p \in SUBSET OpType, NEW q \in Ports, NEW w \in Waiting,
         NEW op \in p, NEW ok \in BOOLEAN, OwnedOnce(f, p, q, w)
  PROVE  /\ Append(q, Packet(op, ok)) \in Ports
         /\ OwnedOnce(f, p \ {op}, Append(q, Packet(op, ok)), w)
  <1> DEFINE q1 == Append(q, Packet(op, ok))
  <1>1. Packet(op, ok) \in Packets /\ Packet(op, ok).op = op
    BY DEF Packets, Packet
  <1>2. /\ q1 \in Ports
        /\ \A i \in DOMAIN q1 : \/ i \in DOMAIN q /\ q1[i] = q[i]
                                \/ i = Len(q) + 1 /\ q1[i] = Packet(op, ok)
    <2> HIDE DEF Packets
    <2> QED
      BY <1>1, Pushed DEF Ports
  <1> HIDE DEF q1
  <1>3. \A i \in DOMAIN q1 : \/ i \in DOMAIN q /\ q1[i].op = q[i].op
                             \/ i = Len(q) + 1 /\ q1[i].op = op
    BY <1>1, <1>2
  <1>4. \A o : InPort(q1, o) => InPort(q, o) \/ o = op.id
    BY <1>3 DEF InPort
  <1>5. OwnedOnce(f, p \ {op}, q1, w)
    BY <1>3, <1>4 DEF OwnedOnce, Posted, InPort
  <1> QED
    BY <1>2, <1>5 DEF q1

(* An object nobody holds can be posted, queued or given back. *)
LEMMA PostOwned ==
  ASSUME NEW f, NEW p, NEW q, NEW w, NEW op,
         OwnedOnce(f, p, q, w), Unheld(f, p, q, w, op.id)
  PROVE  OwnedOnce(f, p \cup {op}, q, w)
  BY DEF OwnedOnce, Unheld, Posted

LEMMA QueueOwned ==
  ASSUME NEW f, NEW p, NEW q, NEW w \in Waiting, NEW c \in Holders, NEW o \in Ovl,
         OwnedOnce(f, p, q, w), Unheld(f, p, q, w, o)
  PROVE  /\ [w EXCEPT ![c] = Append(w[c], o)] \in Waiting
         /\ OwnedOnce(f, p, q, [w EXCEPT ![c] = Append(w[c], o)])
  <1> DEFINE w1 == [w EXCEPT ![c] = Append(w[c], o)]
  <1>1. w[c] \in Seq(Ovl)
    BY DEF Waiting
  <1>2. /\ w1 \in Waiting /\ w1[c] = Append(w[c], o)
        /\ \A d \in Holders : d # c => w1[d] = w[d]
    BY <1>1, Pushed DEF Waiting
  <1>3. \A i \in DOMAIN w1[c] : \/ i \in DOMAIN w[c] /\ w1[c][i] = w[c][i]
                                \/ i = Len(w[c]) + 1 /\ w1[c][i] = o
    BY <1>1, <1>2, Pushed
  <1> HIDE DEF w1
  <1>4. \A x : InQueue(w1, x) => InQueue(w, x) \/ x = o
    BY <1>2, <1>3 DEF InQueue
  <1>5. \A d, e \in Holders : \A i \in DOMAIN w1[d] : \A j \in DOMAIN w1[e] :
          w1[d][i] = w1[e][j] => d = e /\ i = j
    <2> SUFFICES ASSUME NEW d \in Holders, NEW e \in Holders, NEW i \in DOMAIN w1[d],
                        NEW j \in DOMAIN w1[e], w1[d][i] = w1[e][j]
                 PROVE  d = e /\ i = j
      OBVIOUS
    <2> DEFINE Old(k, n) == n \in DOMAIN w[k] /\ w1[k][n] = w[k][n]
               New(k, n) == k = c /\ n = Len(w[c]) + 1 /\ w1[k][n] = o
    <2>1. \A k \in Holders : \A n \in DOMAIN w1[k] : Old(k, n) \/ New(k, n)
      <3> SUFFICES ASSUME NEW k \in Holders, NEW n \in DOMAIN w1[k]
                   PROVE  Old(k, n) \/ New(k, n)
        OBVIOUS
      <3>1. CASE k = c
        BY <1>3, <3>1
      <3>2. CASE k # c
        BY <1>2, <3>2
      <3> QED
        BY <3>1, <3>2
    <2>2. CASE Old(d, i) /\ Old(e, j)
      <3>1. \A k, l \in Holders : \A m \in DOMAIN w[k] : \A n \in DOMAIN w[l] :
              w[k][m] = w[l][n] => k = l /\ m = n
        BY DEF OwnedOnce
      <3>2. i \in DOMAIN w[d] /\ j \in DOMAIN w[e] /\ w[d][i] = w[e][j]
        BY <2>2
      <3> QED
        BY <3>1, <3>2
    <2>3. ~ (Old(d, i) /\ New(e, j)) /\ ~ (New(d, i) /\ Old(e, j))
      BY DEF Unheld, InQueue
    <2>4. CASE New(d, i) /\ New(e, j)
      BY <2>4
    <2>5. (Old(d, i) \/ New(d, i)) /\ (Old(e, j) \/ New(e, j))
      <3> HIDE DEF Old, New
      <3> QED
        BY <2>1
    <2> HIDE DEF Old, New
    <2> QED
      BY <2>2, <2>3, <2>4, <2>5
  <1>6. OwnedOnce(f, p, q, w1)
    BY <1>4, <1>5 DEF OwnedOnce, Unheld, Posted, InPort
  <1> QED
    BY <1>2, <1>6 DEF w1

(* A reply popped from a queue is nobody's. *)
LEMMA PopOwned ==
  ASSUME NEW f, NEW p, NEW q, NEW w \in Waiting, NEW c \in Holders, w[c] # <<>>,
         OwnedOnce(f, p, q, w)
  PROVE  /\ Head(w[c]) \in Ovl
         /\ [w EXCEPT ![c] = Tail(w[c])] \in Waiting
         /\ OwnedOnce(f, p, q, [w EXCEPT ![c] = Tail(w[c])])
         /\ Unheld(f, p, q, [w EXCEPT ![c] = Tail(w[c])], Head(w[c]))
  <1> DEFINE w1 == [w EXCEPT ![c] = Tail(w[c])]
  <1>1. w[c] \in Seq(Ovl)
    BY DEF Waiting
  <1>2. /\ w1 \in Waiting /\ w1[c] = Tail(w[c])
        /\ \A d \in Holders : d # c => w1[d] = w[d]
        /\ Head(w[c]) \in Ovl /\ Head(w[c]) = w[c][1] /\ 1 \in DOMAIN w[c]
    BY <1>1, Popped DEF Waiting
  <1> HIDE DEF w1
  <1>3. \A i \in DOMAIN w1[c] : i + 1 \in DOMAIN w[c] /\ w1[c][i] = w[c][i + 1] /\ i + 1 # 1
    <2>1. \A i \in DOMAIN Tail(w[c]) :
            i + 1 \in DOMAIN w[c] /\ Tail(w[c])[i] = w[c][i + 1] /\ i + 1 # 1
      BY <1>1, Popped
    <2> QED
      BY <1>2, <2>1
  <1>4. \A i, j \in DOMAIN w1[c] : i + 1 = j + 1 => i = j
    BY <1>1, <1>2
  <1>5. \A x : InQueue(w1, x) => InQueue(w, x) /\ x # w[c][1]
    <2> SUFFICES ASSUME NEW d \in Holders, NEW i \in DOMAIN w1[d]
                 PROVE  InQueue(w, w1[d][i]) /\ w1[d][i] # w[c][1]
      BY DEF InQueue
    <2>1. CASE d = c
      <3>1. i + 1 \in DOMAIN w[c] /\ w1[d][i] = w[c][i + 1] /\ i + 1 # 1
        BY <1>3, <2>1
      <3> QED
        BY <1>2, <3>1 DEF InQueue, OwnedOnce
    <2>2. CASE d # c
      BY <1>2, <2>2 DEF InQueue, OwnedOnce
    <2> QED
      BY <2>1, <2>2
  <1>6. \A d, e \in Holders : \A i \in DOMAIN w1[d] : \A j \in DOMAIN w1[e] :
          w1[d][i] = w1[e][j] => d = e /\ i = j
    <2> SUFFICES ASSUME NEW d \in Holders, NEW e \in Holders, NEW i \in DOMAIN w1[d],
                        NEW j \in DOMAIN w1[e], w1[d][i] = w1[e][j]
                 PROVE  d = e /\ i = j
      OBVIOUS
    <2>1. CASE d = c /\ e = c
      <3>1. i + 1 \in DOMAIN w[c] /\ j + 1 \in DOMAIN w[c] /\ w[c][i + 1] = w[c][j + 1]
        BY <1>3, <2>1
      <3> QED
        BY <1>4, <2>1, <3>1 DEF OwnedOnce
    <2>2. CASE d = c /\ e # c
      <3>1. i + 1 \in DOMAIN w[c] /\ j \in DOMAIN w[e] /\ w[c][i + 1] = w[e][j]
        BY <1>2, <1>3, <2>2
      <3> QED
        BY <2>2, <3>1 DEF OwnedOnce
    <2>3. CASE d # c /\ e = c
      <3>1. i \in DOMAIN w[d] /\ j + 1 \in DOMAIN w[c] /\ w[d][i] = w[c][j + 1]
        BY <1>2, <1>3, <2>3
      <3> QED
        BY <2>3, <3>1 DEF OwnedOnce
    <2>4. CASE d # c /\ e # c
      BY <1>2, <2>4 DEF OwnedOnce
    <2> QED
      BY <2>1, <2>2, <2>3, <2>4
  <1>7. InQueue(w, w[c][1])
    BY <1>2 DEF InQueue
  <1>8. OwnedOnce(f, p, q, w1)
    BY <1>5, <1>6 DEF OwnedOnce
  <1>9. Unheld(f, p, q, w1, w[c][1])
    BY <1>5, <1>7 DEF OwnedOnce, Unheld, Posted, InPort
  <1> QED
    BY <1>2, <1>8, <1>9 DEF w1

(* An object nobody holds can go to the pool; a pooled one can leave it. *)
LEMMA PoolOwned ==
  ASSUME NEW f, NEW p, NEW q, NEW w, OwnedOnce(f, p, q, w)
  PROVE  /\ \A o : Unheld(f, p, q, w, o) => OwnedOnce(f \cup {o}, p, q, w)
         /\ \A g \in SUBSET f : OwnedOnce(g, p, q, w)
         /\ \A o \in f : Unheld(f \ {o}, p, q, w, o)
  BY DEF OwnedOnce, Unheld

-----------------------------------------------------------------------------
(* Shape and ownership together, and how each call keeps them. *)

Sound(f, p, q, w) ==
  /\ f \in SUBSET Pooled /\ p \in SUBSET OpType /\ q \in Ports /\ w \in Waiting
  /\ OwnedOnce(f, p, q, w)

(* What a push into holder h and a pop from it make of the waiting objects. *)
Takes(w, h, o) == [w EXCEPT ![h] = Append(w[h], o)]
Gives(w, h)    == [w EXCEPT ![h] = Tail(w[h])]

LEMMA OrphanSound ==
  ASSUME NEW f, NEW p, NEW q, NEW w, NEW c \in Slots, Sound(f, p, q, w)
  PROVE  Sound(f, {Orphan(c, op) : op \in p}, OrphanPackets(c, q), w)
  BY OrphanOwned DEF Sound

LEMMA TakenSound ==
  ASSUME NEW f, NEW p, NEW q, NEW w, q # <<>>, Sound(f, p, q, w)
  PROVE  Sound(f, p, Tail(q), w) /\ Unheld(f, p, Tail(q), w, Head(q).op.id)
  BY TakenOwned DEF Sound

LEMMA CompletedSound ==
  ASSUME NEW f, NEW p, NEW q, NEW w, NEW op \in p, NEW ok \in BOOLEAN, Sound(f, p, q, w)
  PROVE  Sound(f, p \ {op}, Append(q, Packet(op, ok)), w)
  BY CompletedOwned DEF Sound

LEMMA PoolSound ==
  ASSUME NEW f, NEW p, NEW q, NEW w, Sound(f, p, q, w)
  PROVE  /\ \A o : Unheld(f, p, q, w, o) => Sound(Returned(f, o), p, q, w)
         /\ \A o \in f : Sound(f \ {o}, p, q, w) /\ Unheld(f \ {o}, p, q, w, o)
  <1>1. \A o : Unheld(f, p, q, w, o) => Sound(Returned(f, o), p, q, w)
    <2> SUFFICES ASSUME NEW o, Unheld(f, p, q, w, o)
                 PROVE  Sound(Returned(f, o), p, q, w)
      OBVIOUS
    <2>1. OwnedOnce(f \cup {o}, p, q, w)
      BY PoolOwned DEF Sound
    <2>2. Returned(f, o) \in SUBSET (f \cup {o}) /\ Returned(f, o) \in SUBSET Pooled
      BY DEF Returned, Sound
    <2>3. OwnedOnce(Returned(f, o), p, q, w)
      BY <2>1, <2>2, PoolOwned
    <2> QED
      BY <2>2, <2>3 DEF Sound
  <1>2. \A o \in f : Sound(f \ {o}, p, q, w) /\ Unheld(f \ {o}, p, q, w, o)
    <2> SUFFICES ASSUME NEW o \in f
                 PROVE  Sound(f \ {o}, p, q, w) /\ Unheld(f \ {o}, p, q, w, o)
      OBVIOUS
    <2>1. f \ {o} \in SUBSET f
      OBVIOUS
    <2>2. OwnedOnce(f \ {o}, p, q, w) /\ Unheld(f \ {o}, p, q, w, o)
      BY <2>1, PoolOwned DEF Sound
    <2> QED
      BY <2>2 DEF Sound
  <1> QED
    BY <1>1, <1>2

LEMMA PostSound ==
  ASSUME NEW f, NEW p, NEW q, NEW w, NEW op \in OpType,
         Unheld(f, p, q, w, op.id), Sound(f, p, q, w)
  PROVE  Sound(f, p \cup {op}, q, w)
  BY PostOwned DEF Sound

LEMMA TakesSound ==
  ASSUME NEW f, NEW p, NEW q, NEW w, NEW h \in Holders, NEW o \in Ovl,
         Unheld(f, p, q, w, o), Sound(f, p, q, w)
  PROVE  Sound(f, p, q, Takes(w, h, o))
  BY QueueOwned DEF Sound, Takes

LEMMA GivesSound ==
  ASSUME NEW f, NEW p, NEW q, NEW w, NEW h \in Holders, w[h] # <<>>, Sound(f, p, q, w)
  PROVE  /\ Head(w[h]) \in Ovl
         /\ Sound(f, p, q, Gives(w, h))
         /\ Unheld(f, p, q, Gives(w, h), Head(w[h]))
  BY PopOwned DEF Sound, Gives

-----------------------------------------------------------------------------
(* The state's own pool, port, queues and hands. *)

SoundState ==
  /\ sendQueue \in [Slots -> Seq(Ovl)]
  /\ Sound(pool, posted, iocp, Waits)

(* What a thread has in its hand. *)
LEMMA HandTyped ==
  ASSUME ThreadsType, NEW t \in Threads
  PROVE  /\ pc[t] \in Holding => Head(hand[t]) \in Ovl /\ hand[t] = <<Head(hand[t])>>
         /\ pc[t] \notin Holding => hand[t] = <<>>
         /\ on[t] \in Slots
         /\ hand[t] \in Seq(Ovl)
         /\ pc[t] \in Holding => Tail(hand[t]) = <<>>
  <1>1. on[t] \in Slots /\ (hand[t] # <<>> <=> pc[t] \in Holding)
    BY DEF ThreadsType
  <1>2. CASE hand[t] = <<>>
    BY <1>1, <1>2
  <1>3. CASE hand[t] # <<>>
    <2>1. PICK o \in Ovl : hand[t] = <<o>>
      BY <1>3 DEF ThreadsType
    <2>2. /\ <<o>> \in Seq(Ovl) /\ Head(<<o>>) = o /\ Tail(<<o>>) = <<>>
      BY Single
    <2> QED
      BY <1>1, <1>3, <2>1, <2>2
  <1> QED
    BY <1>2, <1>3

(* Waits, slot by slot and thread by thread. *)
LEMMA WaitsAt ==
  /\ \A c \in Slots : <<"queue", c>> \in Holders /\ Waits[<<"queue", c>>] = sendQueue[c]
  /\ \A t \in Threads : <<"hand", t>> \in Holders /\ Waits[<<"hand", t>>] = hand[t]
  <1>1. \A c \in Slots : <<"queue", c>> \in Holders /\ Held(<<"queue", c>>) = sendQueue[c]
    BY DEF Holders, Held
  <1>2. \A t \in Threads : <<"hand", t>> \in Holders /\ Held(<<"hand", t>>) = hand[t]
    BY DEF Holders, Held
  <1> QED
    BY <1>1, <1>2 DEF Waits

(* How to see what a step makes of Waits. *)
LEMMA WaitsAre ==
  ASSUME NEW w \in Waiting,
         \A c \in Slots : w[<<"queue", c>>] = sendQueue'[c],
         \A t \in Threads : w[<<"hand", t>>] = hand'[t]
  PROVE  Waits' = w
  <1>1. ASSUME NEW h \in Holders
        PROVE  w[h] = Held(h)'
    <2>1. CASE h \in {"queue"} \X Slots
      <3>1. h = <<"queue", h[2]>> /\ h[2] \in Slots
        BY <2>1
      <3> QED
        BY <3>1 DEF Held
    <2>2. CASE h \in {"hand"} \X Threads
      <3>1. h = <<"hand", h[2]>> /\ h[2] \in Threads /\ h[1] # "queue"
        BY <2>2
      <3> QED
        BY <3>1 DEF Held
    <2> QED
      BY <2>1, <2>2 DEF Holders
  <1>2. Waits' = [h \in Holders |-> Held(h)']
    BY DEF Waits
  <1> QED
    BY <1>1, <1>2 DEF Waiting

LEMMA WaitsTyped ==
  ASSUME sendQueue \in [Slots -> Seq(Ovl)], ThreadsType
  PROVE  Waits \in Waiting
  <1>1. \A h \in {"queue"} \X Slots : Held(h) \in Seq(Ovl)
    BY DEF Held
  <1>2. \A h \in {"hand"} \X Threads : Held(h) \in Seq(Ovl)
    <2>1. \A h \in {"hand"} \X Threads : h[2] \in Threads /\ Held(h) = hand[h[2]]
      BY DEF Held
    <2> QED
      BY <2>1, HandTyped
  <1> QED
    BY <1>1, <1>2 DEF Waits, Waiting, Holders

LEMMA SoundIs ==
  ASSUME ThreadsType
  PROVE  SoundState <=> OpsType /\ OneOwner
  BY OwnerIs, WaitsTyped DEF SoundState, Sound, OpsType, Ports

LEMMA SameWaits ==
  ASSUME sendQueue' = sendQueue, hand' = hand
  PROVE  Waits' = Waits
  BY DEF Waits, Held

(* What a step of a thread makes of Waits: reply queues alone, the hand alone, or
   both. *)
LEMMA TakenInHand ==
  ASSUME SoundState, ThreadsType, NEW t \in Threads, NEW o \in Ovl, hand[t] = <<>>,
         hand' = [hand EXCEPT ![t] = <<o>>], sendQueue' = sendQueue
  PROVE  Waits' = Takes(Waits, <<"hand", t>>, o)
  <1> DEFINE h == <<"hand", t>>
             e == <<o>>
             w == Takes(Waits, h, o)
  <1>0. Append(<<>>, o) = e /\ e \in Seq(Ovl) /\ hand' = [hand EXCEPT ![t] = e]
    BY Single
  <1> HIDE DEF e
  <1>1. Waits \in Waiting /\ h \in Holders /\ Waits[h] = <<>>
    BY WaitsTyped, WaitsAt DEF SoundState
  <1>2. w = [Waits EXCEPT ![h] = e] /\ e \in Seq(Ovl)
    <2> HIDE DEF h
    <2> QED
      BY <1>0, <1>1 DEF Takes
  <1>3. w \in Waiting
    BY <1>1, <1>2 DEF Waiting
  <1>4. \A c \in Slots : w[<<"queue", c>>] = sendQueue'[c]
    <2>1. \A c \in Slots : <<"queue", c>> # h
      OBVIOUS
    <2> HIDE DEF h
    <2> QED
      BY <1>1, <1>2, <2>1, WaitsAt DEF Waiting
  <1>5. \A u \in Threads : w[<<"hand", u>>] = hand'[u]
    <2>1. \A u \in Threads : <<"hand", u>> = h <=> u = t
      OBVIOUS
    <2> HIDE DEF h
    <2> QED
      BY <1>0, <1>1, <1>2, <2>1, WaitsAt DEF Waiting, ThreadsType
  <1> QED
    BY <1>3, <1>4, <1>5, WaitsAre

LEMMA GivenFromHand ==
  ASSUME SoundState, ThreadsType, NEW t \in Threads, pc[t] \in Holding,
         hand' = [hand EXCEPT ![t] = <<>>], sendQueue' = sendQueue
  PROVE  Waits' = Gives(Waits, <<"hand", t>>)
  <1> DEFINE h == <<"hand", t>>
             w == Gives(Waits, h)
  <1>1. Waits \in Waiting /\ h \in Holders /\ Waits[h] = hand[t] /\ Tail(hand[t]) = <<>>
    BY WaitsTyped, WaitsAt, HandTyped DEF SoundState
  <1>2. w = [Waits EXCEPT ![h] = <<>>] /\ <<>> \in Seq(Ovl)
    <2> HIDE DEF h
    <2>1. w = [Waits EXCEPT ![h] = <<>>]
      BY <1>1 DEF Gives
    <2> QED
      BY <2>1
  <1>3. w \in Waiting
    BY <1>1, <1>2 DEF Waiting
  <1>4. \A c \in Slots : w[<<"queue", c>>] = sendQueue'[c]
    <2>1. \A c \in Slots : <<"queue", c>> # h
      OBVIOUS
    <2> HIDE DEF h
    <2> QED
      BY <1>1, <1>2, <2>1, WaitsAt DEF Waiting
  <1>5. \A u \in Threads : w[<<"hand", u>>] = hand'[u]
    <2>1. \A u \in Threads : <<"hand", u>> = h <=> u = t
      OBVIOUS
    <2> HIDE DEF h
    <2> QED
      BY <1>1, <1>2, <2>1, WaitsAt DEF Waiting, ThreadsType
  <1> QED
    BY <1>3, <1>4, <1>5, WaitsAre

LEMMA HandToQueue ==
  ASSUME SoundState, ThreadsType, NEW t \in Threads, NEW c \in Slots, pc[t] \in Holding,
         hand' = [hand EXCEPT ![t] = <<>>],
         sendQueue' = [sendQueue EXCEPT ![c] = Append(@, Head(hand[t]))]
  PROVE  Waits' = Takes(Gives(Waits, <<"hand", t>>), <<"queue", c>>, Head(hand[t]))
  <1> DEFINE h == <<"hand", t>>
             g == <<"queue", c>>
             v == Gives(Waits, h)
             o == Head(hand[t])
             w == Takes(v, g, o)
  <1>1. /\ Waits \in Waiting /\ h \in Holders /\ g \in Holders
        /\ Waits[h] = hand[t] /\ Tail(hand[t]) = <<>>
        /\ Waits[g] = sendQueue[c] /\ o \in Ovl
        /\ Append(sendQueue[c], o) \in Seq(Ovl)
    <2>1. o \in Ovl /\ Tail(hand[t]) = <<>> /\ sendQueue[c] \in Seq(Ovl)
      BY HandTyped DEF SoundState
    <2>2. Append(sendQueue[c], o) \in Seq(Ovl)
      BY <2>1, Pushed
    <2>3. Waits \in Waiting
      BY WaitsTyped DEF SoundState
    <2> QED
      BY <2>1, <2>2, <2>3, WaitsAt
  <1>2. v = [Waits EXCEPT ![h] = <<>>] /\ <<>> \in Seq(Ovl) /\ v[g] = sendQueue[c]
    <2>1. h # g
      OBVIOUS
    <2> HIDE DEF h, g
    <2>2. v = [Waits EXCEPT ![h] = <<>>]
      BY <1>1 DEF Gives
    <2>3. v[g] = Waits[g]
      BY <1>1, <2>1, <2>2 DEF Waiting
    <2> QED
      BY <1>1, <2>2, <2>3
  <1>3. v \in Waiting
    BY <1>1, <1>2 DEF Waiting
  <1>4. w = [v EXCEPT ![g] = Append(sendQueue[c], o)]
    BY <1>2 DEF Takes
  <1>5. w \in Waiting
    BY <1>1, <1>3, <1>4 DEF Waiting
  <1>6. \A d \in Slots : w[<<"queue", d>>] = sendQueue'[d]
    <2>1. \A d \in Slots : <<"queue", d>> # h /\ (<<"queue", d>> = g <=> d = c)
      OBVIOUS
    <2> HIDE DEF h, g, v, o
    <2>2. \A d \in Slots : v[<<"queue", d>>] = sendQueue[d]
      BY <1>1, <1>2, <2>1, WaitsAt DEF Waiting
    <2>3. sendQueue' = [sendQueue EXCEPT ![c] = Append(sendQueue[c], o)]
      BY DEF o
    <2>4. /\ w[g] = Append(sendQueue[c], o)
          /\ \A k \in Holders : k # g => w[k] = v[k]
      BY <1>1, <1>3, <1>4 DEF Waiting
    <2> HIDE DEF w
    <2>5. \A d \in Slots : sendQueue'[d] = IF d = c THEN Append(sendQueue[c], o) ELSE sendQueue[d]
      BY <2>3 DEF SoundState
    <2> QED
      BY <2>1, <2>2, <2>4, <2>5, WaitsAt
  <1>7. \A u \in Threads : w[<<"hand", u>>] = hand'[u]
    <2>1. \A u \in Threads : <<"hand", u>> # g /\ (<<"hand", u>> = h <=> u = t)
      OBVIOUS
    <2> HIDE DEF h, g, v, o
    <2>2. \A u \in Threads : v[<<"hand", u>>] = hand'[u]
      BY <1>1, <1>2, <2>1, WaitsAt DEF Waiting, ThreadsType
    <2> QED
      BY <1>1, <1>3, <1>4, <2>1, <2>2, WaitsAt DEF Waiting
  <1> QED
    BY <1>5, <1>6, <1>7, WaitsAre

LEMMA QueueToHand ==
  ASSUME SoundState, ThreadsType, NEW t \in Threads, NEW c \in Slots,
         hand[t] = <<>>, sendQueue[c] # <<>>,
         hand' = [hand EXCEPT ![t] = <<Head(sendQueue[c])>>],
         sendQueue' = [sendQueue EXCEPT ![c] = Tail(sendQueue[c])]
  PROVE  Waits' = Takes(Gives(Waits, <<"queue", c>>), <<"hand", t>>, Head(sendQueue[c]))
  <1> DEFINE h == <<"hand", t>>
             g == <<"queue", c>>
             v == Gives(Waits, g)
             o == Head(sendQueue[c])
             e == <<o>>
             w == Takes(v, h, o)
  <1>1. /\ Waits \in Waiting /\ h \in Holders /\ g \in Holders
        /\ Waits[h] = <<>> /\ Waits[g] = sendQueue[c]
        /\ o \in Ovl /\ Tail(sendQueue[c]) \in Seq(Ovl)
    BY WaitsTyped, WaitsAt DEF SoundState
  <1>0. Append(<<>>, o) = e /\ e \in Seq(Ovl) /\ hand' = [hand EXCEPT ![t] = e]
    BY <1>1, Single
  <1> HIDE DEF e
  <1>2. v = [Waits EXCEPT ![g] = Tail(sendQueue[c])] /\ v[h] = <<>>
    <2>1. h # g
      OBVIOUS
    <2> HIDE DEF h, g
    <2>2. v = [Waits EXCEPT ![g] = Tail(sendQueue[c])]
      BY <1>1 DEF Gives
    <2>3. v[h] = Waits[h]
      BY <1>1, <2>1, <2>2 DEF Waiting
    <2> QED
      BY <1>1, <2>2, <2>3
  <1>3. v \in Waiting
    BY <1>1, <1>2 DEF Waiting
  <1>4. w = [v EXCEPT ![h] = e] /\ e \in Seq(Ovl)
    <2> HIDE DEF h, v, o
    <2> QED
      BY <1>0, <1>2 DEF Takes
  <1>5. w \in Waiting
    BY <1>1, <1>3, <1>4 DEF Waiting
  <1>6. \A d \in Slots : w[<<"queue", d>>] = sendQueue'[d]
    <2>1. \A d \in Slots : <<"queue", d>> # h /\ (<<"queue", d>> = g <=> d = c)
      OBVIOUS
    <2> HIDE DEF h, g, v, o
    <2>2. \A d \in Slots : v[<<"queue", d>>] = sendQueue'[d]
      BY <1>1, <1>2, <2>1, WaitsAt DEF Waiting, SoundState
    <2>3. \A k \in Holders : k # h => w[k] = v[k]
      BY <1>3, <1>4 DEF Waiting
    <2>4. \A d \in Slots : <<"queue", d>> \in Holders
      BY WaitsAt
    <2> HIDE DEF w
    <2> QED
      BY <2>1, <2>2, <2>3, <2>4
  <1>7. \A u \in Threads : w[<<"hand", u>>] = hand'[u]
    <2>1. \A u \in Threads : <<"hand", u>> # g /\ (<<"hand", u>> = h <=> u = t)
      OBVIOUS
    <2> HIDE DEF h, g, v
    <2>2. \A u \in Threads : v[<<"hand", u>>] = hand[u]
      BY <1>1, <1>2, <2>1, WaitsAt DEF Waiting
    <2> HIDE DEF o
    <2>3. \A k \in Holders : w[k] = IF k = h THEN e ELSE v[k]
      BY <1>3, <1>4 DEF Waiting
    <2>4. \A u \in Threads : hand'[u] = IF u = t THEN e ELSE hand[u]
      BY <1>0 DEF ThreadsType
    <2>5. \A u \in Threads : <<"hand", u>> \in Holders
      BY WaitsAt
    <2> HIDE DEF w
    <2> QED
      BY <2>1, <2>2, <2>3, <2>4, <2>5
  <1> QED
    BY <1>5, <1>6, <1>7, WaitsAre

-----------------------------------------------------------------------------
(* Every step keeps what the calls keep. *)

(* AcceptEx uses the acceptOvlap of a ConnUser, every other call an object of
   the pool or the heap. *)
RightId(op) == op.task = "ACCEPT" <=> op.id \in AcceptCalls

AcceptIds ==
  /\ \A op \in posted : RightId(op)
  /\ \A i \in DOMAIN iocp : RightId(iocp[i].op)

(* The packet a worker takes is well formed. *)
LEMMA FirstTyped ==
  ASSUME SoundState, iocp # <<>>
  PROVE  /\ First \in OpType /\ First.slot \in Slots /\ Head(iocp) \in Packets
         /\ 1 \in DOMAIN iocp /\ First = iocp[1].op
         /\ AcceptIds => RightId(First)
         /\ AcceptIds /\ First.task # "ACCEPT" => First.id \in Ovl
  <1>1. Head(iocp) \in Packets /\ Head(iocp) = iocp[1] /\ 1 \in DOMAIN iocp
    <2> HIDE DEF Packets
    <2> QED
      BY Popped DEF SoundState, Sound, Ports
  <1>2. First \in OpType /\ First = iocp[1].op
    BY <1>1 DEF First, Packets
  <1>3. AcceptIds => RightId(First)
    BY <1>1, <1>2 DEF AcceptIds
  <1>4. First.id \in Ovl \cup AcceptCalls /\ First.slot \in Slots
    BY <1>2 DEF OpType
  <1> QED
    BY <1>1, <1>2, <1>3, <1>4 DEF RightId

(* StartWork hands out at most two objects. *)
LEMMA SoundInit ==
  ASSUME Init
  PROVE  SoundState
  <1>1. /\ iocp = <<>> /\ iocp \in Ports /\ DOMAIN iocp = {}
        /\ sendQueue = [c \in Slots |-> <<>>] /\ sendQueue \in [Slots -> Seq(Ovl)]
        /\ hand = [t \in Threads |-> <<>>]
    BY DEF Init, Ports
  <1>2. Waits \in Waiting /\ \A h \in Holders : Waits[h] = <<>>
    <2>0. <<>> \in Seq(Ovl)
      OBVIOUS
    <2>1. \A h \in {"queue"} \X Slots : Held(h) = <<>>
      BY <1>1 DEF Held
    <2>2. \A h \in {"hand"} \X Threads : Held(h) = <<>>
      BY <1>1 DEF Held
    <2>3. \A h \in Holders : Held(h) = <<>>
      BY <2>1, <2>2 DEF Holders
    <2>4. \A h \in Holders : Waits[h] = <<>>
      BY <2>3 DEF Waits
    <2>5. Waits \in [Holders -> Seq(Ovl)]
      BY <2>0, <2>3 DEF Waits
    <2> QED
      BY <2>4, <2>5 DEF Waiting
  <1>3. \A o : ~ InQueue(Waits, o) /\ ~ InPort(iocp, o)
    BY <1>1, <1>2 DEF InQueue, InPort
  <1>4. CASE InitCenterUp
    <2>1. PICK recv, send \in Pooled :
            /\ recv # send
            /\ posted = {Op(recv, Center, "RECV"), Op(send, Center, "SEND")}
            /\ pool = Pooled \ {recv, send}
      BY <1>4 DEF InitCenterUp
    <2> DEFINE r == Op(recv, Center, "RECV")
               s == Op(send, Center, "SEND")
    <2>2. r \in OpType /\ r.id = recv /\ s \in OpType /\ s.id = send
      BY CenterIsSlot DEF Ovl, Op, OpType
    <2>3. posted = {r, s}
      BY <2>1
    <2> HIDE DEF r, s
    <2>4. OwnedOnce(pool, posted, iocp, Waits)
      BY <1>1, <1>2, <1>3, <2>1, <2>2, <2>3 DEF OwnedOnce, Posted
    <2> QED
      BY <1>1, <1>2, <2>1, <2>2, <2>3, <2>4 DEF SoundState, Sound
  <1>5. CASE InitCenterDown
    <2>1. posted = {} /\ pool = Pooled
      BY <1>5 DEF InitCenterDown
    <2>2. OwnedOnce(pool, posted, iocp, Waits)
      BY <1>1, <1>2, <1>3, <2>1 DEF OwnedOnce, Posted
    <2> QED
      BY <1>1, <1>2, <2>1, <2>2 DEF SoundState, Sound
  <1> QED
    BY <1>4, <1>5 DEF Init

(* PostAccept uses an operation nobody holds. *)
LEMMA OfferSound ==
  ASSUME SoundState, QueuesType, OfferSlot
  PROVE  SoundState'
  <1>1. Head(AcceptQueue) \in Slots
    BY Popped DEF OfferSlot, QueuesType
  <1>2. PICK a \in AcceptCalls \ InUse :
          posted' = posted \cup {Op(a, Head(AcceptQueue), "ACCEPT")}
    BY DEF OfferSlot
  <1> DEFINE op == Op(a, Head(AcceptQueue), "ACCEPT")
  <1>3. op \in OpType /\ op.id = a
    BY <1>1 DEF Op, OpType
  <1>4. Unheld(pool, posted, iocp, Waits, a)
    BY InUseIs, IdsAssumption DEF Unheld, SoundState, Sound
  <1> HIDE DEF op
  <1>5. Sound(pool, posted \cup {op}, iocp, Waits)
    BY <1>3, <1>4, PostSound DEF SoundState
  <1>6. Waits' = Waits /\ UNCHANGED <<pool, iocp, sendQueue>>
    BY SameWaits DEF OfferSlot, reply, thread
  <1> QED
    BY <1>2, <1>5, <1>6 DEF SoundState, op

(* A reset after a packet was taken; g is what the worker left of the pool. *)
LEMMA ResetSound ==
  ASSUME SoundState, iocp # <<>>, NEW g, NEW c \in Slots,
         \/ g = pool
         \/ \E o \in pool : g = pool \ {o}
  PROVE  Sound(g, OrphanOps(c), OrphanPackets(c, Tail(iocp)), Waits)
  <1>1. Sound(pool, posted, Tail(iocp), Waits)
    BY TakenSound DEF SoundState
  <1>2. Sound(g, posted, Tail(iocp), Waits)
    <2>1. \A o \in pool : Sound(pool \ {o}, posted, Tail(iocp), Waits)
      BY <1>1, PoolSound
    <2> QED
      BY <1>1, <2>1
  <1> QED
    BY <1>2, OrphanSound DEF OrphanOps

(* The steps that end in Reset. *)
LEMMA DisconnectSound ==
  ASSUME SoundState, WorkDisconnect \/ WorkAcceptFailed
  PROVE  SoundState'
  <1>1. iocp # <<>> /\ ResetAndRequeue(First.slot) /\ UNCHANGED <<sendQueue, hand>>
    BY DEF WorkDisconnect, WorkAcceptFailed, Took, reply, thread
  <1>2. pool' = pool \/ \E o \in pool : pool' = pool \ {o}
    BY DEF WorkDisconnect, WorkAcceptFailed
  <1>3. Sound(pool', OrphanOps(First.slot), OrphanPackets(First.slot, Tail(iocp)), Waits)
    BY <1>1, <1>2, ResetSound, FirstTyped
  <1>4. Waits' = Waits
    BY <1>1, SameWaits
  <1> QED
    BY <1>1, <1>3, <1>4 DEF SoundState, ResetAndRequeue

(* An object of the pool goes to the kernel with a receive. *)
LEMMA ReceivePosted ==
  ASSUME NEW q, NEW w, Sound(pool, posted, q, w), NEW c \in Slots, NEW o \in pool
  PROVE  Sound(pool \ {o}, posted \cup {Op(o, c, "RECV")}, q, w)
  <1> DEFINE op == Op(o, c, "RECV")
  <1>1. o \in Ovl
    BY DEF Sound, Ovl
  <1>2. op \in OpType /\ op.id = o
    BY <1>1 DEF Op, OpType
  <1> HIDE DEF op
  <1>3. Sound(pool \ {o}, posted, q, w) /\ Unheld(pool \ {o}, posted, q, w, o)
    BY PoolSound
  <1>4. Sound(pool \ {o}, posted \cup {op}, q, w)
    BY <1>2, <1>3, PostSound
  <1> QED
    BY <1>4 DEF op

(* The first receive of a connection. *)
LEMMA AcceptSound ==
  ASSUME SoundState, WorkAccept
  PROVE  SoundState'
  <1>1. iocp # <<>> /\ iocp' = Tail(iocp) /\ UNCHANGED <<sendQueue, hand>>
    BY DEF WorkAccept, Took, reply, thread
  <1>2. PICK o \in pool : /\ pool' = pool \ {o}
                          /\ posted' = posted \cup {Op(o, First.slot, "RECV")}
    BY DEF WorkAccept
  <1>3. Sound(pool, posted, Tail(iocp), Waits) /\ First.slot \in Slots
    BY <1>1, TakenSound, FirstTyped DEF SoundState
  <1>4. Sound(pool', posted', Tail(iocp), Waits)
    BY <1>2, <1>3, ReceivePosted
  <1>5. Waits' = Waits
    BY <1>1, SameWaits
  <1> QED
    BY <1>1, <1>4, <1>5 DEF SoundState

(* A received packet: the worker keeps its object in hand, ... *)
LEMMA RecvSound ==
  ASSUME SoundState, ThreadsType, AcceptIds, WorkRecv
  PROVE  SoundState'
  <1> DEFINE o == First.id
             h == <<"hand", "worker">>
  <1>1. /\ iocp # <<>> /\ iocp' = Tail(iocp) /\ First.task = "RECV" /\ pc["worker"] = "idle"
        /\ UNCHANGED <<pool, posted, sendQueue>>
        /\ hand' = [hand EXCEPT !["worker"] = <<o>>]
    BY DEF WorkRecv, Took, Go, reply, First
  <1>2. o \in Ovl /\ hand["worker"] = <<>> /\ h \in Holders
    BY <1>1, FirstTyped, HandTyped DEF Threads, Holding, Holders
  <1>3. Waits' = Takes(Waits, h, o)
    BY <1>1, <1>2, TakenInHand DEF Threads
  <1>4. Sound(pool, posted, Tail(iocp), Waits) /\ Unheld(pool, posted, Tail(iocp), Waits, o)
    BY <1>1, TakenSound DEF SoundState, First
  <1>5. Sound(pool, posted, Tail(iocp), Takes(Waits, h, o))
    BY <1>2, <1>4, TakesSound
  <1> QED
    BY <1>1, <1>3, <1>5 DEF SoundState

(* ... posts another ... *)
LEMMA RecvAgainSound ==
  ASSUME SoundState, ThreadsType, RecvAgain
  PROVE  SoundState'
  <1> DEFINE c == on["worker"]
  <1>1. /\ UNCHANGED <<iocp, sendQueue>>
        /\ hand' = [hand EXCEPT !["worker"] = hand["worker"]]
        /\ \/ \E o \in pool : /\ posted' = posted \cup {Op(o, c, "RECV")}
                              /\ pool' = pool \ {o}
           \/ (\E o \in pool : pool' = pool \ {o}) /\ UNCHANGED posted
           \/ UNCHANGED <<pool, posted>>
    BY DEF RecvAgain, Go, reply
  <1>2. hand' = hand /\ c \in Slots
    BY <1>1, HandTyped DEF ThreadsType, Threads
  <1>3. Waits' = Waits
    BY <1>1, <1>2, SameWaits
  <1>4. Sound(pool, posted, iocp, Waits)
    BY DEF SoundState
  <1>5. Sound(pool', posted', iocp, Waits)
    <2>1. \A o \in pool : /\ Sound(pool \ {o}, posted \cup {Op(o, c, "RECV")}, iocp, Waits)
                          /\ Sound(pool \ {o}, posted, iocp, Waits)
      BY <1>2, <1>4, ReceivePosted, PoolSound
    <2> HIDE DEF c
    <2> QED
      BY <1>1, <1>4, <2>1
  <1> QED
    BY <1>1, <1>3, <1>5 DEF SoundState

(* ... and gives the first one back. *)
LEMMA ReturnSound ==
  ASSUME SoundState, ThreadsType, ReturnReceived
  PROVE  SoundState'
  <1> DEFINE o == Head(hand["worker"])
             h == <<"hand", "worker">>
  <1>1. /\ pc["worker"] = "return" /\ pool' = Returned(pool, o)
        /\ UNCHANGED <<posted, iocp, sendQueue>>
        /\ hand' = [hand EXCEPT !["worker"] = <<>>]
    BY DEF ReturnReceived, Return, Go, reply, kernel
  <1>2. pc["worker"] \in Holding /\ "worker" \in Threads
    BY <1>1 DEF Threads, Holding
  <1>3. Waits' = Gives(Waits, h)
    BY <1>1, <1>2, GivenFromHand
  <1>4. h \in Holders /\ Waits[h] = hand["worker"] /\ Waits[h] # <<>>
    BY <1>2, WaitsAt DEF ThreadsType
  <1>5. Sound(pool, posted, iocp, Gives(Waits, h)) /\ Unheld(pool, posted, iocp, Gives(Waits, h), o)
    BY <1>4, GivesSound DEF SoundState
  <1>6. Sound(Returned(pool, o), posted, iocp, Gives(Waits, h))
    BY <1>5, PoolSound
  <1> QED
    BY <1>1, <1>3, <1>6 DEF SoundState

(* A sent reply: its object is returned. *)
LEMMA SentSound ==
  ASSUME SoundState, ThreadsType, WorkSent
  PROVE  SoundState'
  <1>1. /\ iocp # <<>> /\ iocp' = Tail(iocp) /\ pool' = Returned(pool, First.id)
        /\ pc["worker"] = "idle" /\ UNCHANGED <<posted, sendQueue>>
        /\ hand' = [hand EXCEPT !["worker"] = <<>>]
    BY DEF WorkSent, Took, Go, reply
  <1>2. hand["worker"] = <<>>
    BY <1>1, HandTyped DEF Threads, Holding
  <1>3. hand' = hand
    BY <1>1, <1>2 DEF ThreadsType
  <1>4. Sound(pool, posted, Tail(iocp), Waits) /\ Unheld(pool, posted, Tail(iocp), Waits, First.id)
    BY <1>1, TakenSound DEF SoundState, First
  <1>5. Sound(Returned(pool, First.id), posted, Tail(iocp), Waits)
    BY <1>4, PoolSound
  <1> QED
    BY <1>1, <1>3, <1>5, SameWaits DEF SoundState

(* getOvLap of PushSendMsg, or a new object. *)
LEMMA HandleSound ==
  ASSUME SoundState, ThreadsType, HandleRequest
  PROVE  SoundState'
  <1> DEFINE h == <<"hand", "redis">>
  <1>1. /\ pc["redis"] = "idle" /\ UNCHANGED <<posted, iocp, sendQueue>>
        /\ \/ \E o \in Fillable : /\ pool' = pool \ {o}
                                  /\ hand' = [hand EXCEPT !["redis"] = <<o>>]
           \/ UNCHANGED <<pool, hand>>
    BY DEF HandleRequest, Go, kernel, reply, thread
  <1>2. hand["redis"] = <<>> /\ h \in Holders /\ "redis" \in Threads
    BY <1>1, HandTyped DEF Threads, Holding, Holders
  <1>3. ASSUME NEW o \in Fillable
        PROVE  /\ o \in Ovl
               /\ Sound(pool \ {o}, posted, iocp, Waits)
               /\ Unheld(pool \ {o}, posted, iocp, Waits, o)
    <2>1. CASE pool # {}
      <3>1. o \in pool
        BY <2>1 DEF Fillable
      <3> QED
        BY <3>1, PoolSound DEF SoundState, Sound, Ovl
    <2>2. CASE pool = {}
      <3>1. o \in Heap /\ o \notin InUse /\ pool \ {o} = pool
        BY <2>2 DEF Fillable
      <3> QED
        BY <2>2, <3>1, InUseIs DEF Unheld, SoundState, Ovl
    <2> QED
      BY <2>1, <2>2
  <1>4. CASE \E o \in Fillable : /\ pool' = pool \ {o}
                                 /\ hand' = [hand EXCEPT !["redis"] = <<o>>]
    <2>1. PICK o \in Fillable : /\ pool' = pool \ {o}
                                /\ hand' = [hand EXCEPT !["redis"] = <<o>>]
      BY <1>4
    <2>2. Waits' = Takes(Waits, h, o)
      BY <1>1, <1>2, <1>3, <2>1, TakenInHand
    <2>3. Sound(pool \ {o}, posted, iocp, Takes(Waits, h, o))
      BY <1>2, <1>3, TakesSound
    <2> QED
      BY <1>1, <2>1, <2>2, <2>3 DEF SoundState
  <1>5. CASE UNCHANGED <<pool, hand>>
    BY <1>1, <1>5, SameWaits DEF SoundState
  <1> QED
    BY <1>1, <1>4, <1>5

(* A reply joins its queue. *)
LEMMA PushSound ==
  ASSUME SoundState, ThreadsType, Push
  PROVE  SoundState'
  <1> DEFINE c == on["redis"]
             o == Head(hand["redis"])
             h == <<"hand", "redis">>
             g == <<"queue", c>>
  <1>1. /\ pc["redis"] = "push" /\ UNCHANGED <<pool, posted, iocp>>
        /\ sendQueue' = [sendQueue EXCEPT ![c] = Append(@, o)]
        /\ hand' = [hand EXCEPT !["redis"] = <<>>]
    BY DEF Push, Go, kernel
  <1>2. pc["redis"] \in Holding /\ "redis" \in Threads
    BY <1>1 DEF Threads, Holding
  <1>3. c \in Slots /\ o \in Ovl
    BY <1>2, HandTyped
  <1>4. Waits' = Takes(Gives(Waits, h), g, o)
    BY <1>1, <1>2, <1>3, HandToQueue
  <1>5. /\ h \in Holders /\ Waits[h] = hand["redis"] /\ Waits[h] # <<>> /\ g \in Holders
    BY <1>2, <1>3, WaitsAt DEF ThreadsType
  <1>6. Sound(pool, posted, iocp, Gives(Waits, h)) /\ Unheld(pool, posted, iocp, Gives(Waits, h), o)
    BY <1>5, GivesSound DEF SoundState
  <1>7. Sound(pool, posted, iocp, Takes(Gives(Waits, h), g, o))
    BY <1>3, <1>5, <1>6, TakesSound
  <1>8. sendQueue' \in [Slots -> Seq(Ovl)]
    <2>1. Append(sendQueue[c], o) \in Seq(Ovl)
      BY <1>3, Pushed DEF SoundState
    <2> HIDE DEF c, o
    <2> QED
      BY <1>1, <1>3, <2>1 DEF SoundState
  <1> QED
    BY <1>1, <1>4, <1>7, <1>8 DEF SoundState

(* ProcSend pops a reply, ... *)
LEMMA PopSound ==
  ASSUME SoundState, ThreadsType, NEW t \in Threads, Pop(t)
  PROVE  SoundState'
  <1> DEFINE c == on[t]
             o == Head(sendQueue[c])
             h == <<"hand", t>>
             g == <<"queue", c>>
  <1>1. /\ pc[t] = "pop" /\ UNCHANGED <<pool, posted, iocp>>
        /\ \/ hand' = [hand EXCEPT ![t] = <<>>] /\ UNCHANGED sendQueue
           \/ /\ sendQueue[c] # <<>>
              /\ sendQueue' = [sendQueue EXCEPT ![c] = Tail(sendQueue[c])]
              /\ hand' = [hand EXCEPT ![t] = <<o>>]
    BY DEF Pop, Return, Go, kernel
  <1>2. hand[t] = <<>> /\ c \in Slots /\ sendQueue[c] \in Seq(Ovl)
    BY <1>1, HandTyped DEF Holding, SoundState
  <1>3. h \in Holders /\ g \in Holders /\ Waits[g] = sendQueue[c]
    BY <1>2, WaitsAt
  <1>4. CASE hand' = [hand EXCEPT ![t] = <<>>] /\ UNCHANGED sendQueue
    <2>1. hand' = hand
      BY <1>2, <1>4 DEF ThreadsType
    <2> QED
      BY <1>1, <1>4, <2>1, SameWaits DEF SoundState
  <1>5. CASE /\ sendQueue[c] # <<>>
             /\ sendQueue' = [sendQueue EXCEPT ![c] = Tail(sendQueue[c])]
             /\ hand' = [hand EXCEPT ![t] = <<o>>]
    <2>1. Waits' = Takes(Gives(Waits, g), h, o)
      BY <1>2, <1>5, QueueToHand
    <2>2. /\ o \in Ovl
          /\ Sound(pool, posted, iocp, Gives(Waits, g))
          /\ Unheld(pool, posted, iocp, Gives(Waits, g), o)
      BY <1>3, <1>5, GivesSound DEF SoundState
    <2>3. Sound(pool, posted, iocp, Takes(Gives(Waits, g), h, o))
      BY <1>3, <2>2, TakesSound
    <2>4. sendQueue' \in [Slots -> Seq(Ovl)]
      <3>1. Tail(sendQueue[c]) \in Seq(Ovl)
        BY <1>2, <1>5, Popped
      <3> HIDE DEF c
      <3> QED
        BY <1>2, <1>5, <3>1 DEF SoundState
    <2> QED
      BY <1>1, <2>1, <2>3, <2>4 DEF SoundState
  <1> QED
    BY <1>1, <1>4, <1>5

(* ... and WSASend hands it to the kernel, or loses it. *)
LEMMA SendSound ==
  ASSUME SoundState, ThreadsType, NEW t \in Threads, WSASend(t)
  PROVE  SoundState'
  <1> DEFINE c == on[t]
             o == Head(hand[t])
             h == <<"hand", t>>
  <1>1. /\ pc[t] = "send" /\ UNCHANGED <<pool, iocp, sendQueue>>
        /\ hand' = [hand EXCEPT ![t] = <<>>]
        /\ \/ \E k \in {"SEND", "NEWSEND"} : posted' = posted \cup {Op(o, c, k)}
           \/ UNCHANGED posted
    BY DEF WSASend, Return, Go, reply
  <1>2. pc[t] \in Holding
    BY <1>1 DEF Holding
  <1>3. c \in Slots /\ o \in Ovl
    BY <1>2, HandTyped
  <1>4. Waits' = Gives(Waits, h)
    BY <1>1, <1>2, GivenFromHand
  <1>5. h \in Holders /\ Waits[h] = hand[t] /\ Waits[h] # <<>>
    BY <1>2, WaitsAt DEF ThreadsType
  <1>6. Sound(pool, posted, iocp, Gives(Waits, h)) /\ Unheld(pool, posted, iocp, Gives(Waits, h), o)
    BY <1>5, GivesSound DEF SoundState
  <1>7. \A k \in {"SEND", "NEWSEND"} :
          Op(o, c, k) \in OpType /\ Op(o, c, k).id = o
    BY <1>3 DEF Op, OpType
  <1>8. \A k \in {"SEND", "NEWSEND"} :
          Sound(pool, posted \cup {Op(o, c, k)}, iocp, Gives(Waits, h))
    BY <1>6, <1>7, PostSound
  <1> QED
    BY <1>1, <1>4, <1>6, <1>8 DEF SoundState

(* The steps between, which touch counters and program counters only. *)
LEMMA CountingSound ==
  ASSUME SoundState, ThreadsType,
         FetchAdd \/ FetchSub \/ \E t \in Threads : Check(t)
  PROVE  SoundState'
  <1>1. UNCHANGED <<pool, posted, iocp, sendQueue>>
    BY DEF FetchAdd, FetchSub, Check, kernel, reply
  <1>2. \E t \in Threads : pc[t] \notin Holding /\ hand' = [hand EXCEPT ![t] = <<>>]
    BY DEF FetchAdd, FetchSub, Check, Go, Return, Holding, Threads
  <1>3. hand' = hand
    BY <1>2, HandTyped DEF ThreadsType
  <1> QED
    BY <1>1, <1>3, SameWaits DEF SoundState

(* What the kernel does to operation op ends with its completion. *)
LEMMA KernelCompletes ==
  ASSUME KernelStep
  PROVE  /\ \E op \in posted : \E ok \in BOOLEAN :
              /\ Complete(op, ok)
              /\ op.task = "ACCEPT" /\ op.live =>
                   /\ ok => sock' = [sock EXCEPT ![op.slot] = "up"]
                   /\ ~ ok => UNCHANGED sock
              /\ ~ (op.task = "ACCEPT" /\ op.live) => UNCHANGED sock
         /\ UNCHANGED <<AcceptQueue, pool, reply, procSktQueue, thread, uncounted>>
         /\ \/ arrivals < MaxArrivals /\ arrivals' = arrivals + 1
            \/ UNCHANGED arrivals
         /\ \/ requests < MaxRequests /\ requests' = requests + 1
            \/ UNCHANGED requests
  <1>1. PICK op \in posted :
          Arrive(op) \/ Receive(op) \/ ReceiveNothing(op) \/ Sent(op) \/ Abort(op)
    BY DEF KernelStep
  <1>2. CASE Arrive(op)
    BY <1>2 DEF Arrive
  <1>3. CASE Receive(op)
    BY <1>3 DEF Receive
  <1>4. CASE ReceiveNothing(op)
    BY <1>4 DEF ReceiveNothing
  <1>5. CASE Sent(op)
    BY <1>5 DEF Sent
  <1>6. CASE Abort(op)
    BY <1>6 DEF Abort
  <1> QED
    BY <1>1, <1>2, <1>3, <1>4, <1>5, <1>6

(* A completion. *)
LEMMA KernelSound ==
  ASSUME SoundState, KernelStep
  PROVE  SoundState'
  <1>1. PICK op \in posted, ok \in BOOLEAN : Complete(op, ok)
    BY KernelCompletes
  <1>2. UNCHANGED <<pool, sendQueue, hand>>
    BY KernelCompletes DEF reply, thread
  <1>3. Sound(pool, posted \ {op}, Append(iocp, Packet(op, ok)), Waits)
    BY CompletedSound DEF SoundState
  <1> QED
    BY <1>1, <1>2, <1>3, SameWaits DEF SoundState, Complete

(* All steps. *)
LEMMA SoundStep ==
  ASSUME SoundState, QueuesType, ThreadsType, AcceptIds, [Next]_vars
  PROVE  SoundState'
  <1>1. CASE RefusedSlot \/ (\E c \in Slots : Leave(c)) \/ UNCHANGED vars
    <2>1. UNCHANGED <<pool, posted, iocp, sendQueue, hand>>
      BY <1>1 DEF RefusedSlot, Leave, vars, kernel, reply, thread
    <2> QED
      BY <2>1, SameWaits DEF SoundState
  <1>2. CASE \E t \in Threads : SendStep(t)
    BY <1>2, CountingSound, PopSound, SendSound DEF SendStep
  <1> QED
    BY <1>1, <1>2, OfferSound, DisconnectSound, AcceptSound, RecvSound, RecvAgainSound,
       ReturnSound, SentSound, HandleSound, PushSound, CountingSound, KernelSound
       DEF Next, AccepterStep, WorkStep, RedisStep, Threads


-----------------------------------------------------------------------------
(* The account of a slot's counter. *)

(* Due(c) from its four places, each a function of what the place holds. *)
Carried(op, c)   == IF op.slot = c /\ Sending(op) THEN {op.id} ELSE {}
FromKernel(p, c) == UNION {Carried(op, c) : op \in p}
FromPort(q, c)   == UNION {Carried(q[i].op, c) : i \in DOMAIN q}
InHandOf(t, c)   == IF pc[t] = "send" /\ on[t] = c THEN ToSet(hand[t]) ELSE {}
Coming(c) ==
  ToSet(sendQueue[c]) \cup InHandOf("redis", c) \cup InHandOf("worker", c)
    \cup FromKernel(posted, c) \cup FromPort(iocp, c)

LEMMA DueIs == \A c : Due(c) = Coming(c)
  <1> SUFFICES ASSUME NEW c
               PROVE  Due(c) = Coming(c)
    OBVIOUS
  <1>1. UNION {ToSet(hand[t]) : t \in {u \in Threads : pc[u] = "send" /\ on[u] = c}}
          = InHandOf("redis", c) \cup InHandOf("worker", c)
    BY DEF InHandOf, Threads
  <1>2. {op.id : op \in {p \in OfSlot(c) : Sending(p)}} = FromKernel(posted, c)
    BY DEF FromKernel, Carried, OfSlot
  <1>3. {iocp[i].op.id : i \in {j \in Queued(c) : Sending(iocp[j].op)}} = FromPort(iocp, c)
    BY DEF FromPort, Carried, Queued
  <1> QED
    BY <1>1, <1>2, <1>3 DEF Due, Coming

LEMMA DueIsNext == \A c : Due(c)' = Coming(c)'
  <1> DEFINE P(c) == Due(c) = Coming(c)
  <1>1. (\A c : P(c))'
    BY DueIs, PTL
  <1> QED
    BY <1>1

(* What the calls of the server do to the four places. *)
LEMMA KernelPlace ==
  ASSUME NEW p \in SUBSET OpType, NEW c \in Slots
  PROVE  /\ \A op : FromKernel(p \cup {op}, c) = FromKernel(p, c) \cup Carried(op, c)
         /\ \A op \in p : FromKernel(p, c) = FromKernel(p \ {op}, c) \cup Carried(op, c)
         /\ \A d \in Slots : FromKernel({Orphan(d, op) : op \in p}, c) = FromKernel(p, c)
  <1>1. \A op : FromKernel(p \cup {op}, c) = FromKernel(p, c) \cup Carried(op, c)
    BY DEF FromKernel
  <1>2. \A op \in p : FromKernel(p, c) = FromKernel(p \ {op}, c) \cup Carried(op, c)
    <2>1. \A op \in p : p = (p \ {op}) \cup {op}
      OBVIOUS
    <2>2. \A op : FromKernel((p \ {op}) \cup {op}, c) = FromKernel(p \ {op}, c) \cup Carried(op, c)
      BY DEF FromKernel
    <2> QED
      BY <2>1, <2>2
  <1>3. ASSUME NEW d \in Slots
        PROVE  FromKernel({Orphan(d, op) : op \in p}, c) = FromKernel(p, c)
    <2>1. \A op \in p : Carried(Orphan(d, op), c) = Carried(op, c)
      BY Orphaned DEF Carried, Sending
    <2> QED
      BY <2>1 DEF FromKernel
  <1> QED
    BY <1>1, <1>2, <1>3

LEMMA PortPlace ==
  ASSUME NEW q \in Ports, NEW c \in Slots
  PROVE  /\ \A k \in Packets : FromPort(Append(q, k), c) = FromPort(q, c) \cup Carried(k.op, c)
         /\ q # <<>> => FromPort(q, c) = FromPort(Tail(q), c) \cup Carried(Head(q).op, c)
         /\ \A d \in Slots : FromPort(OrphanPackets(d, q), c) = FromPort(q, c)
  <1>1. ASSUME NEW k \in Packets
        PROVE  FromPort(Append(q, k), c) = FromPort(q, c) \cup Carried(k.op, c)
    <2> DEFINE r == Append(q, k)
    <2>1. /\ Len(q) + 1 \in DOMAIN r /\ r[Len(q) + 1] = k
          /\ DOMAIN q \subseteq DOMAIN r /\ \A i \in DOMAIN q : r[i] = q[i]
          /\ \A i \in DOMAIN r : i \in DOMAIN q \/ i = Len(q) + 1
      <3> HIDE DEF Packets
      <3>1. Len(r) = Len(q) + 1 /\ DOMAIN r = 1 .. Len(r) /\ Len(q) \in Nat
        BY Pushed DEF Ports
      <3> QED
        BY <1>1, <3>1, Pushed DEF Ports
    <2> HIDE DEF r
    <2> QED
      BY <2>1 DEF FromPort, r
  <1>2. ASSUME q # <<>>
        PROVE  FromPort(q, c) = FromPort(Tail(q), c) \cup Carried(Head(q).op, c)
    <2> DEFINE r == Tail(q)
    <2>1. /\ Head(q) = q[1] /\ 1 \in DOMAIN q
          /\ \A i \in DOMAIN r : i + 1 \in DOMAIN q /\ r[i] = q[i + 1]
          /\ \A i \in DOMAIN q : i = 1 \/ (i - 1 \in DOMAIN r /\ r[i - 1] = q[i])
      <3> HIDE DEF Packets
      <3>1. /\ Head(q) = q[1] /\ 1 \in DOMAIN q
            /\ \A i \in DOMAIN r : i + 1 \in DOMAIN q /\ r[i] = q[i + 1]
        BY <1>2, Popped DEF Ports
      <3>2. \A i \in DOMAIN q : i = 1 \/ i - 1 \in DOMAIN r
        BY <1>2 DEF Ports
      <3>3. \A i \in DOMAIN q : (i - 1) + 1 = i
        BY DEF Ports
      <3> QED
        BY <3>1, <3>2, <3>3
    <2> HIDE DEF r
    <2> QED
      BY <2>1 DEF FromPort, r
  <1>3. ASSUME NEW d \in Slots
        PROVE  FromPort(OrphanPackets(d, q), c) = FromPort(q, c)
    <2>0. \A op \in OpType : Carried(Orphan(d, op), c) = Carried(op, c)
      BY Orphaned DEF Carried, Sending
    <2>1. \A i \in DOMAIN q : Carried(OrphanPackets(d, q)[i].op, c) = Carried(q[i].op, c)
      <3>1. \A i \in DOMAIN q : /\ OrphanPackets(d, q)[i].op = Orphan(d, q[i].op)
                               /\ q[i].op \in OpType
        BY OrphanedPackets DEF Ports
      <3> QED
        BY <2>0, <3>1
    <2>2. DOMAIN OrphanPackets(d, q) = DOMAIN q
      BY OrphanedPackets DEF Ports
    <2> QED
      BY <2>1, <2>2 DEF FromPort
  <1> QED
    BY <1>1, <1>2, <1>3

LEMMA QueuePlace ==
  ASSUME NEW w \in Seq(Ovl)
  PROVE  /\ \A o \in Ovl : ToSet(Append(w, o)) = ToSet(w) \cup {o} /\ ToSet(<<o>>) = {o}
         /\ ToSet(<<>>) = {}
         /\ w # <<>> => ToSet(w) = ToSet(Tail(w)) \cup {Head(w)}
  <1>1. ASSUME NEW o \in Ovl
        PROVE  ToSet(Append(w, o)) = ToSet(w) \cup {o}
    <2> DEFINE r == Append(w, o)
    <2>1. /\ Len(w) + 1 \in DOMAIN r /\ r[Len(w) + 1] = o
          /\ DOMAIN w \subseteq DOMAIN r /\ \A i \in DOMAIN w : r[i] = w[i]
          /\ \A i \in DOMAIN r : i \in DOMAIN w \/ i = Len(w) + 1
      <3>1. Len(r) = Len(w) + 1 /\ DOMAIN r = 1 .. Len(r) /\ Len(w) \in Nat
        BY Pushed
      <3> QED
        BY <3>1, Pushed
    <2> HIDE DEF r
    <2> QED
      BY <2>1 DEF ToSet, r
  <1>2. \A o \in Ovl : ToSet(<<o>>) = {o}
    BY Single DEF ToSet
  <1>3. ToSet(<<>>) = {}
    BY DEF ToSet
  <1>4. ASSUME w # <<>>
        PROVE  ToSet(w) = ToSet(Tail(w)) \cup {Head(w)}
    <2> DEFINE r == Tail(w)
    <2>1. /\ Head(w) = w[1] /\ 1 \in DOMAIN w
          /\ \A i \in DOMAIN r : i + 1 \in DOMAIN w /\ r[i] = w[i + 1]
          /\ \A i \in DOMAIN w : i = 1 \/ (i - 1 \in DOMAIN r /\ r[i - 1] = w[i])
      <3>1. /\ Head(w) = w[1] /\ 1 \in DOMAIN w
            /\ \A i \in DOMAIN r : i + 1 \in DOMAIN w /\ r[i] = w[i + 1]
        BY <1>4, Popped
      <3>2. \A i \in DOMAIN w : (i = 1 \/ i - 1 \in DOMAIN r) /\ (i - 1) + 1 = i
        BY <1>4
      <3> QED
        BY <3>1, <3>2
    <2> HIDE DEF r
    <2>2. \A x : x \in ToSet(w) <=> x \in ToSet(r) \/ x = Head(w)
      BY <2>1 DEF ToSet
    <2> QED
      BY <2>2 DEF r
  <1> QED
    BY <1>1, <1>2, <1>3, <1>4

(* A thread that goes on changes nothing of the other one. *)
LEMMA ThreadGoes ==
  ASSUME ThreadsType, NEW t \in Threads, NEW l, NEW d, NEW h, Go(t, l, d, h)
  PROVE  /\ pc'[t] = l /\ on'[t] = d /\ hand'[t] = h
         /\ \A u \in Threads : u # t => pc'[u] = pc[u] /\ on'[u] = on[u] /\ hand'[u] = hand[u]
  BY DEF Go, ThreadsType

LEMMA HandPlace ==
  ASSUME ThreadsType, NEW t \in Threads, NEW l, NEW d, NEW h, Go(t, l, d, h), NEW c
  PROVE  /\ InHandOf(t, c)' = IF l = "send" /\ d = c THEN ToSet(h) ELSE {}
         /\ \A u \in Threads : u # t => InHandOf(u, c)' = InHandOf(u, c)
         /\ \A k : At(t, k, c)' = IF l = k /\ d = c THEN 1 ELSE 0
         /\ \A k : \A u \in Threads : u # t => At(u, k, c)' = At(u, k, c)
  BY ThreadGoes DEF InHandOf, At

(* An object the worker or the redis thread has in hand is nowhere else. *)
LEMMA HandNowhereElse ==
  ASSUME OneOwner, ThreadsType, NEW t \in Threads, pc[t] \in Holding, NEW c \in Slots
  PROVE  /\ Head(hand[t]) \notin ToSet(sendQueue[c])
         /\ Head(hand[t]) \notin FromKernel(posted, c)
         /\ Head(hand[t]) \notin FromPort(iocp, c)
         /\ \A u \in Threads : u # t => Head(hand[t]) \notin InHandOf(u, c)
  <1> DEFINE o == Head(hand[t])
  <1>1. PICK x \in Ovl : hand[t] = <<x>>
    BY DEF ThreadsType
  <1>2. o = x /\ DOMAIN hand[t] = {1} /\ hand[t][1] = x
    BY <1>1, Single
  <1> DEFINE h == <<"hand", t>>
  <1>3. h \in Holders /\ Held(h) = hand[t]
    BY DEF Holders, Held
  <1>4. /\ \A op \in posted : op.id # x
        /\ \A j \in DOMAIN iocp : iocp[j].op.id # x
        /\ \A g \in Holders : \A j \in DOMAIN Held(g) : Held(g)[j] = x => h = g
    <2> HIDE DEF h, o
    <2> QED
      BY <1>2, <1>3 DEF OneOwner
  <1>5. x \notin ToSet(sendQueue[c])
    <2> DEFINE g == <<"queue", c>>
    <2>1. g \in Holders /\ Held(g) = sendQueue[c] /\ g # h
      BY DEF Holders, Held
    <2> HIDE DEF g, h
    <2> QED
      BY <1>4, <2>1 DEF ToSet
  <1>6. ASSUME NEW u \in Threads, u # t
        PROVE  x \notin InHandOf(u, c)
    <2> DEFINE g == <<"hand", u>>
    <2>1. g \in Holders /\ Held(g) = hand[u] /\ g # h
      BY <1>6 DEF Holders, Held
    <2> HIDE DEF g, h
    <2> QED
      BY <1>4, <2>1 DEF ToSet, InHandOf
  <1>7. x \notin FromKernel(posted, c) /\ x \notin FromPort(iocp, c)
    BY <1>4 DEF FromKernel, FromPort, Carried
  <1> QED
    BY <1>2, <1>5, <1>6, <1>7

(* Nor is the object of the packet the worker takes. *)
LEMMA FirstNowhereElse ==
  ASSUME SoundState, iocp # <<>>, NEW c \in Slots
  PROVE  /\ First.id \notin ToSet(sendQueue[c])
         /\ First.id \notin FromKernel(posted, c)
         /\ First.id \notin FromPort(Tail(iocp), c)
         /\ \A t \in Threads : First.id \notin InHandOf(t, c)
  <1>1. Unheld(pool, posted, Tail(iocp), Waits, First.id)
    BY TakenSound DEF SoundState, First
  <1>2. \A h \in Holders : \A i \in DOMAIN Waits[h] : Waits[h][i] # First.id
    BY <1>1 DEF Unheld, InQueue
  <1>3. /\ \A i \in DOMAIN sendQueue[c] : sendQueue[c][i] # First.id
        /\ \A t \in Threads : \A i \in DOMAIN hand[t] : hand[t][i] # First.id
    <2>1. \A i \in DOMAIN sendQueue[c] : sendQueue[c][i] # First.id
      <3> DEFINE g == <<"queue", c>>
      <3>1. g \in Holders /\ Waits[g] = sendQueue[c]
        BY WaitsAt
      <3> HIDE DEF g
      <3> QED
        BY <1>2, <3>1
    <2>2. ASSUME NEW t \in Threads
          PROVE  \A i \in DOMAIN hand[t] : hand[t][i] # First.id
      <3> DEFINE g == <<"hand", t>>
      <3>1. g \in Holders /\ Waits[g] = hand[t]
        BY WaitsAt
      <3> HIDE DEF g
      <3> QED
        BY <1>2, <3>1
    <2> QED
      BY <2>1, <2>2
  <1>4. First.id \notin ToSet(sendQueue[c]) /\ \A t \in Threads : First.id \notin InHandOf(t, c)
    BY <1>3 DEF ToSet, InHandOf
  <1>5. First.id \notin FromKernel(posted, c) /\ First.id \notin FromPort(Tail(iocp), c)
    BY <1>1 DEF Unheld, Posted, InPort, FromKernel, FromPort, Carried
  <1> QED
    BY <1>4, <1>5

-----------------------------------------------------------------------------
(* The account itself: n counts the replies in D, out by s (one completed, not
   yet subtracted), a (one pushed, not yet added) and u (ended uncounted). *)
Account(n, D, s, a, u) ==
  /\ IsFiniteSet(D)
  /\ n = (Cardinality(D) + s - a + u) % SizeMod

LEMMA AccountWraps ==
  ASSUME NEW x \in Int
  PROVE  Inc(x % SizeMod) = (x + 1) % SizeMod /\ Dec(x % SizeMod) = (x - 1) % SizeMod
  <1>0. SizeMod \in Nat /\ SizeMod > 0
    BY SlotsAssumption
  <1>1. \A d \in Int : ((x % SizeMod) + d) % SizeMod = (x + d) % SizeMod
    BY <1>0, ModAdd
  <1>2. 1 \in Int /\ -1 \in Int
    OBVIOUS
  <1>3. ((x % SizeMod) + 1) % SizeMod = (x + 1) % SizeMod
    BY <1>1, <1>2
  <1>4. ((x % SizeMod) + (-1)) % SizeMod = (x + (-1)) % SizeMod
    BY <1>1, <1>2
  <1>5. x + (-1) = x - 1 /\ (x % SizeMod) + (-1) = (x % SizeMod) - 1
    BY <1>0
  <1> QED
    BY <1>3, <1>4, <1>5 DEF Inc, Dec

LEMMA AccountAdded ==
  ASSUME NEW n, NEW D, NEW s \in {0, 1}, NEW u \in Nat, Account(n, D, s, 1, u)
  PROVE  Account(Inc(n), D, s, 0, u)
  <1> DEFINE x == Cardinality(D) + s - 1 + u
  <1>1. Cardinality(D) \in Nat
    BY FS_CardinalityType DEF Account
  <1>2. x \in Int /\ x + 1 = Cardinality(D) + s - 0 + u /\ n = x % SizeMod
    BY <1>1 DEF Account
  <1> HIDE DEF x
  <1> QED
    BY <1>2, AccountWraps DEF Account

LEMMA AccountSubtracted ==
  ASSUME NEW n, NEW D, NEW a \in {0, 1}, NEW u \in Nat, Account(n, D, 1, a, u)
  PROVE  Account(Dec(n), D, 0, a, u)
  <1> DEFINE x == Cardinality(D) + 1 - a + u
  <1>1. Cardinality(D) \in Nat
    BY FS_CardinalityType DEF Account
  <1>2. x \in Int /\ x - 1 = Cardinality(D) + 0 - a + u /\ n = x % SizeMod
    BY <1>1 DEF Account
  <1> HIDE DEF x
  <1> QED
    BY <1>2, AccountWraps DEF Account

(* One reply less on its way, or one more. *)
LEMMA AccountLess ==
  ASSUME NEW n, NEW E, NEW x, x \notin E, NEW s, NEW a \in {0, 1}, NEW u \in Nat,
         Account(n, E \cup {x}, s, a, u)
  PROVE  /\ s = 0 => Account(n, E, 1, a, u)
         /\ s \in {0, 1} => Account(n, E, s, a, u + 1)
  <1>1. IsFiniteSet(E)
    BY FS_Subset DEF Account
  <1>2. Cardinality(E) \in Nat /\ Cardinality(E \cup {x}) = Cardinality(E) + 1
    BY <1>1, FS_CardinalityType, FS_AddElement
  <1>3. ASSUME s = 0
        PROVE  Account(n, E, 1, a, u)
    <2>1. Cardinality(E) + 1 + s - a + u = Cardinality(E) + 1 - a + u
      BY <1>2, <1>3
    <2> QED
      BY <1>1, <1>2, <1>3, <2>1 DEF Account
  <1>4. ASSUME s \in {0, 1}
        PROVE  Account(n, E, s, a, u + 1)
    <2>1. Cardinality(E) + 1 + s - a + u = Cardinality(E) + s - a + (u + 1)
      BY <1>2, <1>4
    <2> QED
      BY <1>1, <1>2, <1>4, <2>1 DEF Account
  <1> QED
    BY <1>3, <1>4

LEMMA AccountMore ==
  ASSUME NEW n, NEW D, NEW x, x \notin D, NEW s \in {0, 1}, NEW u \in Nat,
         Account(n, D, s, 0, u)
  PROVE  Account(n, D \cup {x}, s, 1, u)
  <1>1. IsFiniteSet(D)
    BY DEF Account
  <1>2. /\ IsFiniteSet(D \cup {x}) /\ Cardinality(D) \in Nat
        /\ Cardinality(D \cup {x}) = Cardinality(D) + 1
    BY <1>1, FS_CardinalityType, FS_AddElement
  <1>3. (Cardinality(D) + 1) + s - 1 + u = Cardinality(D) + s - 0 + u
    BY <1>2
  <1> QED
    BY <1>2, <1>3 DEF Account

Accounts(c) ==
  Account(sendQueueSize[c], Due(c), At("worker", "sub", c), At("redis", "add", c), uncounted[c])

Accounted == \A c \in Slots : Accounts(c)

LEMMA AtBit == \A t, k, c : At(t, k, c) \in {0, 1}
  BY DEF At

(* Slot by slot, in the terms of the four places. *)
LEMMA AccountsIs ==
  \A c : Accounts(c) <=> Account(sendQueueSize[c], Coming(c), At("worker", "sub", c),
                                 At("redis", "add", c), uncounted[c])
  BY DueIs DEF Accounts

LEMMA AccountsIsNext ==
  \A c : Accounts(c)' <=> Account(sendQueueSize'[c], Coming(c)', At("worker", "sub", c)',
                                  At("redis", "add", c)', uncounted'[c])
  BY DueIsNext DEF Accounts

(* A slot none of whose parts change. *)
LEMMA SameAccounts ==
  ASSUME NEW c \in Slots, Accounts(c), Coming(c)' = Coming(c),
         sendQueueSize'[c] = sendQueueSize[c], uncounted'[c] = uncounted[c],
         At("worker", "sub", c)' = At("worker", "sub", c),
         At("redis", "add", c)' = At("redis", "add", c)
  PROVE  Accounts(c)'
  BY AccountsIs, AccountsIsNext

(* Threads that stay where they are. *)
LEMMA SameHands ==
  ASSUME UNCHANGED thread
  PROVE  \A c : /\ InHandOf("redis", c)' = InHandOf("redis", c)
                /\ InHandOf("worker", c)' = InHandOf("worker", c)
                /\ \A t, k : At(t, k, c)' = At(t, k, c)
  BY DEF thread, InHandOf, At

-----------------------------------------------------------------------------
(* Every step keeps the accounts. *)

Booked == SoundState /\ OneOwner /\ ThreadsType /\ CounterType /\ Accounted

(* What is with the kernel and in the port, together. *)
Out(c) == FromKernel(posted, c) \cup FromPort(iocp, c)

Quiet == {"idle", "push", "check", "pop", "recv", "return"}

(* The steps that neither move a reply nor count one. *)
LEMMA QuietThreads ==
  ASSUME ThreadsType, NEW c \in Slots,
         \/ UNCHANGED thread
         \/ \E t \in Threads : \E l, d, h : Go(t, l, d, h) /\ pc[t] \in Quiet /\ l \in Quiet
  PROVE  /\ InHandOf("redis", c)' = InHandOf("redis", c)
         /\ InHandOf("worker", c)' = InHandOf("worker", c)
         /\ At("worker", "sub", c)' = At("worker", "sub", c)
         /\ At("redis", "add", c)' = At("redis", "add", c)
  <1>1. CASE UNCHANGED thread
    BY <1>1, SameHands
  <1>2. ASSUME NEW t \in Threads, NEW l, NEW d, NEW h,
               Go(t, l, d, h), pc[t] \in Quiet, l \in Quiet
        PROVE  \A u \in Threads : /\ InHandOf(u, c)' = InHandOf(u, c)
                                  /\ At(u, "sub", c)' = At(u, "sub", c)
                                  /\ At(u, "add", c)' = At(u, "add", c)
    <2>1. /\ InHandOf(t, c)' = {} /\ InHandOf(t, c) = {}
          /\ At(t, "sub", c)' = 0 /\ At(t, "sub", c) = 0
          /\ At(t, "add", c)' = 0 /\ At(t, "add", c) = 0
      BY <1>2, HandPlace DEF InHandOf, At, Quiet
    <2>2. \A u \in Threads : u # t => /\ InHandOf(u, c)' = InHandOf(u, c)
                                      /\ At(u, "sub", c)' = At(u, "sub", c)
                                      /\ At(u, "add", c)' = At(u, "add", c)
      BY <1>2, ThreadGoes DEF InHandOf, At
    <2> QED
      BY <2>1, <2>2
  <1> QED
    BY <1>1, <1>2 DEF Threads

LEMMA QuietAccounted ==
  ASSUME Booked, UNCHANGED <<sendQueue, sendQueueSize, uncounted>>,
         \A c \in Slots : Out(c)' = Out(c),
         \/ UNCHANGED thread
         \/ \E t \in Threads : \E l, d, h : Go(t, l, d, h) /\ pc[t] \in Quiet /\ l \in Quiet
  PROVE  Accounted'
  <1> SUFFICES ASSUME NEW c \in Slots
               PROVE  Accounts(c)'
    BY DEF Accounted
  <1>1. /\ InHandOf("redis", c)' = InHandOf("redis", c)
        /\ InHandOf("worker", c)' = InHandOf("worker", c)
        /\ At("worker", "sub", c)' = At("worker", "sub", c)
        /\ At("redis", "add", c)' = At("redis", "add", c)
    BY QuietThreads DEF Booked
  <1>2. /\ Coming(c) = ToSet(sendQueue[c]) \cup InHandOf("redis", c)
                         \cup InHandOf("worker", c) \cup Out(c)
        /\ Coming(c)' = ToSet(sendQueue[c])' \cup InHandOf("redis", c)'
                         \cup InHandOf("worker", c)' \cup Out(c)'
    BY DEF Coming, Out
  <1>3. Coming(c)' = Coming(c)
    BY <1>1, <1>2
  <1> QED
    BY <1>1, <1>3, SameAccounts DEF Booked, Accounted

(* The typed parts of a packet taken, as the places see it. *)
LEMMA TakenPlace ==
  ASSUME SoundState, iocp # <<>>, NEW c \in Slots
  PROVE  /\ FromPort(iocp, c) = FromPort(Tail(iocp), c) \cup Carried(First, c)
         /\ FromPort(OrphanPackets(First.slot, Tail(iocp)), c) = FromPort(Tail(iocp), c)
         /\ FromKernel(OrphanOps(First.slot), c) = FromKernel(posted, c)
  <1>1. iocp \in Ports /\ Tail(iocp) \in Ports /\ posted \in SUBSET OpType
    BY TakenOwned DEF SoundState, Sound
  <1>2. First.slot \in Slots
    BY FirstTyped
  <1> QED
    BY <1>1, <1>2, PortPlace, KernelPlace DEF OrphanOps, First

LEMMA ReceivesCarryNothing ==
  \A o, c, d : Carried(Op(o, c, "RECV"), d) = {} /\ Carried(Op(o, c, "ACCEPT"), d) = {}
  BY DEF Carried, Op, Sending

LEMMA QuietOut ==
  ASSUME SoundState, NEW c \in Slots,
         \/ OfferSlot \/ RefusedSlot \/ WorkAccept \/ WorkAcceptFailed \/ WorkRecv
         \/ RecvAgain \/ KernelStep
         \/ UNCHANGED kernel
  PROVE  Out(c)' = Out(c)
  <1>0. posted \in SUBSET OpType /\ iocp \in Ports
    BY DEF SoundState, Sound
  <1>1. CASE UNCHANGED kernel
    BY <1>1 DEF kernel, Out, FromKernel, FromPort
  <1>2. CASE OfferSlot \/ WorkAccept \/ RecvAgain
    <2>1. \/ \E o, d : \E k \in {"RECV", "ACCEPT"} : posted' = posted \cup {Op(o, d, k)}
          \/ posted' = posted
      BY <1>2 DEF OfferSlot, WorkAccept, RecvAgain
    <2>2. FromKernel(posted', c) = FromKernel(posted, c)
      <3>1. CASE posted' = posted
        BY <3>1
      <3>2. ASSUME NEW o, NEW d, NEW k \in {"RECV", "ACCEPT"}, posted' = posted \cup {Op(o, d, k)}
            PROVE  FromKernel(posted', c) = FromKernel(posted, c)
        <4>1. Carried(Op(o, d, k), c) = {}
          BY ReceivesCarryNothing
        <4>2. FromKernel(posted', c) = FromKernel(posted, c) \cup Carried(Op(o, d, k), c)
          BY <1>0, <3>2, KernelPlace
        <4> QED
          BY <4>1, <4>2
      <3> QED
        BY <2>1, <3>1, <3>2
    <2>3. \/ iocp' = iocp
          \/ iocp # <<>> /\ iocp' = Tail(iocp) /\ First.task = "ACCEPT"
      BY <1>2 DEF OfferSlot, WorkAccept, RecvAgain, Took, First
    <2>4. FromPort(iocp', c) = FromPort(iocp, c)
      BY <2>3, TakenPlace DEF Carried, Sending
    <2> QED
      BY <2>2, <2>4 DEF Out, FromKernel, FromPort
  <1>3. CASE RefusedSlot
    BY <1>1, <1>3 DEF RefusedSlot
  <1>4. CASE WorkAcceptFailed
    <2>1. /\ iocp # <<>> /\ First.task = "ACCEPT" /\ posted' = OrphanOps(First.slot)
          /\ iocp' = OrphanPackets(First.slot, Tail(iocp))
      BY <1>4 DEF WorkAcceptFailed, Took, First, ResetAndRequeue
    <2>2. FromKernel(posted', c) = FromKernel(posted, c) /\ FromPort(iocp', c) = FromPort(iocp, c)
      BY <2>1, TakenPlace DEF Carried, Sending
    <2> QED
      BY <2>2 DEF Out, FromKernel, FromPort
  <1>5. CASE WorkRecv
    <2>1. iocp # <<>> /\ First.task = "RECV" /\ posted' = posted /\ iocp' = Tail(iocp)
      BY <1>5 DEF WorkRecv, Took, First
    <2>2. FromPort(iocp', c) = FromPort(iocp, c)
      BY <2>1, TakenPlace DEF Carried, Sending
    <2> QED
      BY <2>1, <2>2 DEF Out, FromKernel, FromPort
  <1>6. CASE KernelStep
    <2>1. PICK op \in posted, ok \in BOOLEAN : Complete(op, ok)
      BY <1>6, KernelCompletes
    <2>2. Packet(op, ok) \in Packets /\ Packet(op, ok).op = op
      BY <1>0 DEF Packet, Packets
    <2>3. FromKernel(posted, c) = FromKernel(posted', c) \cup Carried(op, c)
      BY <1>0, <2>1, KernelPlace DEF Complete
    <2>4. FromPort(iocp', c) = FromPort(iocp, c) \cup Carried(op, c)
      BY <1>0, <2>1, <2>2, PortPlace DEF Complete
    <2> QED
      BY <2>3, <2>4 DEF Out, FromKernel, FromPort
  <1> QED
    BY <1>1, <1>2, <1>3, <1>4, <1>5, <1>6

LEMMA QuietStep ==
  ASSUME Booked,
         \/ AccepterStep \/ KernelStep \/ (\E c \in Slots : Leave(c)) \/ UNCHANGED vars
         \/ WorkAccept \/ WorkAcceptFailed \/ WorkRecv \/ RecvAgain \/ ReturnReceived
         \/ HandleRequest \/ \E t \in Threads : Check(t)
  PROVE  Accounted'
  <1>1. SoundState
    BY DEF Booked
  <1>2. CASE AccepterStep
    <2>1. UNCHANGED <<sendQueue, sendQueueSize, uncounted, thread>>
      BY <1>2 DEF AccepterStep, OfferSlot, RefusedSlot, reply
    <2>2. \A c \in Slots : Out(c)' = Out(c)
      BY <1>1, <1>2, QuietOut DEF AccepterStep
    <2> QED
      BY <2>1, <2>2, QuietAccounted
  <1>3. CASE KernelStep
    <2>1. UNCHANGED <<sendQueue, sendQueueSize, uncounted, thread>>
      BY <1>3, KernelCompletes DEF reply
    <2>2. \A c \in Slots : Out(c)' = Out(c)
      BY <1>1, <1>3, QuietOut
    <2> QED
      BY <2>1, <2>2, QuietAccounted
  <1>4. CASE (\E c \in Slots : Leave(c)) \/ UNCHANGED vars
    <2>1. UNCHANGED <<sendQueue, sendQueueSize, uncounted, thread, kernel>>
      BY <1>4 DEF Leave, vars, reply, thread, kernel
    <2>2. \A c \in Slots : Out(c)' = Out(c)
      BY <1>1, <2>1, QuietOut
    <2> QED
      BY <2>1, <2>2, QuietAccounted
  <1>5. CASE WorkAccept \/ WorkAcceptFailed
    <2>1. UNCHANGED <<sendQueue, sendQueueSize, uncounted, thread>>
      BY <1>5 DEF WorkAccept, WorkAcceptFailed, reply
    <2>2. \A c \in Slots : Out(c)' = Out(c)
      BY <1>1, <1>5, QuietOut
    <2> QED
      BY <2>1, <2>2, QuietAccounted
  <1>6. CASE WorkRecv \/ RecvAgain \/ ReturnReceived
    <2>1. /\ UNCHANGED <<sendQueue, sendQueueSize, uncounted>>
          /\ pc["worker"] \in {"idle", "recv", "return"}
          /\ \E l \in {"recv", "return", "idle"} : \E d, h : Go("worker", l, d, h)
      BY <1>6 DEF WorkRecv, RecvAgain, ReturnReceived, Took, Return, reply
    <2>2. \A c \in Slots : Out(c)' = Out(c)
      <3>1. ReturnReceived => UNCHANGED kernel
        BY DEF ReturnReceived
      <3> QED
        BY <1>1, <1>6, <3>1, QuietOut
    <2>3. \E t \in Threads : \E l, d, h : Go(t, l, d, h) /\ pc[t] \in Quiet /\ l \in Quiet
      BY <2>1 DEF Threads, Quiet
    <2> QED
      BY <2>1, <2>2, <2>3, QuietAccounted
  <1>7. CASE HandleRequest \/ \E t \in Threads : Check(t)
    <2>1. /\ UNCHANGED <<sendQueue, sendQueueSize, uncounted, kernel>>
          /\ \/ UNCHANGED thread
             \/ \E t \in Threads : /\ pc[t] \in {"idle", "check"}
                                   /\ \E l \in {"push", "pop", "idle"} : \E d, h : Go(t, l, d, h)
      BY <1>7 DEF HandleRequest, Check, Return, reply, Threads
    <2>2. \A c \in Slots : Out(c)' = Out(c)
      BY <1>1, <2>1, QuietOut
    <2>3. \/ UNCHANGED thread
          \/ \E t \in Threads : \E l, d, h : Go(t, l, d, h) /\ pc[t] \in Quiet /\ l \in Quiet
      BY <2>1 DEF Quiet
    <2> QED
      BY <2>1, <2>2, <2>3, QuietAccounted
  <1> QED
    BY <1>2, <1>3, <1>4, <1>5, <1>6, <1>7

(* A failed completion of a reply: the reply ends uncounted. *)
LEMMA DisconnectAccounted ==
  ASSUME Booked, WorkDisconnect
  PROVE  Accounted'
  <1> SUFFICES ASSUME NEW c \in Slots
               PROVE  Accounts(c)'
    BY DEF Accounted
  <1> DEFINE E == ToSet(sendQueue[c]) \cup InHandOf("redis", c) \cup InHandOf("worker", c)
                    \cup FromKernel(posted, c) \cup FromPort(Tail(iocp), c)
  <1>1. /\ iocp # <<>> /\ posted' = OrphanOps(First.slot)
        /\ iocp' = OrphanPackets(First.slot, Tail(iocp))
        /\ UNCHANGED <<sendQueue, sendQueueSize, thread>>
        /\ uncounted' = [uncounted EXCEPT ![First.slot] = IF Sending(First) THEN @ + 1 ELSE @]
    BY DEF WorkDisconnect, Took, ResetAndRequeue, reply
  <1>2. SoundState /\ First.slot \in Slots /\ uncounted[c] \in Nat /\ Accounts(c)
    BY <1>1, FirstTyped DEF Booked, CounterType, Accounted
  <1>3. /\ FromPort(iocp, c) = FromPort(Tail(iocp), c) \cup Carried(First, c)
        /\ FromPort(iocp', c) = FromPort(Tail(iocp), c)
        /\ FromKernel(posted', c) = FromKernel(posted, c)
    BY <1>1, <1>2, TakenPlace
  <1>4. Coming(c) = E \cup Carried(First, c) /\ Coming(c)' = E
    <2>1. Coming(c)' = ToSet(sendQueue'[c]) \cup InHandOf("redis", c)' \cup InHandOf("worker", c)'
                         \cup FromKernel(posted', c) \cup FromPort(iocp', c)
      BY DEF Coming, FromKernel, FromPort
    <2>2. /\ InHandOf("redis", c)' = InHandOf("redis", c)
          /\ InHandOf("worker", c)' = InHandOf("worker", c)
      BY <1>1, SameHands
    <2>3. Coming(c)' = E
      BY <1>1, <1>3, <2>1, <2>2
    <2>4. Coming(c) = E \cup Carried(First, c)
      BY <1>3 DEF Coming
    <2> QED
      BY <2>3, <2>4
  <1>5. First.id \notin E
    BY <1>1, <1>2, FirstNowhereElse DEF Threads
  <1>6. /\ At("worker", "sub", c)' = At("worker", "sub", c)
        /\ At("redis", "add", c)' = At("redis", "add", c)
    BY <1>1, SameHands
  <1>7. CASE First.slot = c /\ Sending(First)
    <2>1. Coming(c) = E \cup {First.id}
      BY <1>4, <1>7 DEF Carried
    <2>2. uncounted'[c] = uncounted[c] + 1
      BY <1>1, <1>7 DEF Booked, CounterType
    <2> HIDE DEF E
    <2>3. Account(sendQueueSize[c], E \cup {First.id}, At("worker", "sub", c),
                  At("redis", "add", c), uncounted[c])
      BY <1>2, <2>1, AccountsIs
    <2>4. Account(sendQueueSize[c], E, At("worker", "sub", c), At("redis", "add", c),
                  uncounted[c] + 1)
      BY <1>2, <1>5, <2>3, AtBit, AccountLess
    <2> QED
      BY <1>1, <1>4, <1>6, <2>2, <2>4, AccountsIsNext
  <1>8. CASE ~ (First.slot = c /\ Sending(First))
    <2>1. Coming(c)' = Coming(c)
      BY <1>4, <1>8 DEF Carried
    <2>2. uncounted'[c] = uncounted[c]
      BY <1>1, <1>8 DEF Booked, CounterType
    <2> QED
      BY <1>1, <1>2, <1>6, <2>1, <2>2, SameAccounts
  <1> QED
    BY <1>7, <1>8

(* A completion of a reply: until fetch_sub the counter is one ahead. *)
LEMMA SentAccounted ==
  ASSUME Booked, WorkSent
  PROVE  Accounted'
  <1> SUFFICES ASSUME NEW c \in Slots
               PROVE  Accounts(c)'
    BY DEF Accounted
  <1> DEFINE E == ToSet(sendQueue[c]) \cup InHandOf("redis", c) \cup InHandOf("worker", c)
                    \cup FromKernel(posted, c) \cup FromPort(Tail(iocp), c)
  <1>1. /\ iocp # <<>> /\ iocp' = Tail(iocp) /\ Sending(First) /\ pc["worker"] = "idle"
        /\ UNCHANGED <<posted, sendQueue, sendQueueSize, uncounted>>
        /\ Go("worker", "sub", First.slot, <<>>)
    BY DEF WorkSent, Took, reply, First, Sending
  <1>2. SoundState /\ ThreadsType /\ uncounted[c] \in Nat /\ Accounts(c)
    BY DEF Booked, CounterType, Accounted
  <1>3. FromPort(iocp, c) = FromPort(Tail(iocp), c) \cup Carried(First, c)
    BY <1>1, <1>2, TakenPlace
  <1>4. /\ InHandOf("redis", c)' = InHandOf("redis", c)
        /\ InHandOf("worker", c)' = {} /\ InHandOf("worker", c) = {}
        /\ At("redis", "add", c)' = At("redis", "add", c)
        /\ At("worker", "sub", c) = 0
        /\ At("worker", "sub", c)' = IF First.slot = c THEN 1 ELSE 0
    BY <1>1, <1>2, ThreadGoes DEF InHandOf, At, Threads
  <1>5. Coming(c) = E \cup Carried(First, c) /\ Coming(c)' = E
    <2>1. Coming(c)' = ToSet(sendQueue'[c]) \cup InHandOf("redis", c)' \cup InHandOf("worker", c)'
                         \cup FromKernel(posted', c) \cup FromPort(iocp', c)
      BY DEF Coming, FromKernel, FromPort
    <2>2. Coming(c)' = E
      BY <1>1, <1>4, <2>1
    <2>3. Coming(c) = E \cup Carried(First, c)
      BY <1>3 DEF Coming
    <2> QED
      BY <2>2, <2>3
  <1>6. First.id \notin E
    BY <1>1, <1>2, FirstNowhereElse DEF Threads
  <1>7. CASE First.slot = c
    <2>1. Coming(c) = E \cup {First.id}
      BY <1>1, <1>5, <1>7 DEF Carried
    <2> HIDE DEF E
    <2>2. Account(sendQueueSize[c], E \cup {First.id}, 0, At("redis", "add", c), uncounted[c])
      BY <1>2, <1>4, <2>1, AccountsIs
    <2>3. Account(sendQueueSize[c], E, 1, At("redis", "add", c), uncounted[c])
      BY <1>2, <1>6, <2>2, AtBit, AccountLess
    <2> QED
      BY <1>1, <1>4, <1>5, <1>7, <2>3, AccountsIsNext
  <1>8. CASE First.slot # c
    <2>1. Coming(c)' = Coming(c)
      BY <1>5, <1>8 DEF Carried
    <2> QED
      BY <1>1, <1>2, <1>4, <1>8, <2>1, SameAccounts
  <1> QED
    BY <1>7, <1>8

(* fetch_add and fetch_sub. *)
LEMMA CountAccounted ==
  ASSUME Booked, FetchAdd \/ FetchSub
  PROVE  Accounted'
  <1> SUFFICES ASSUME NEW c \in Slots
               PROVE  Accounts(c)'
    BY DEF Accounted
  <1>1. ThreadsType /\ uncounted[c] \in Nat /\ Accounts(c)
    BY DEF Booked, CounterType, Accounted
  <1>2. UNCHANGED <<posted, iocp, sendQueue, uncounted>>
    BY DEF FetchAdd, FetchSub, kernel
  <1>3. Coming(c)' = ToSet(sendQueue[c]) \cup InHandOf("redis", c)' \cup InHandOf("worker", c)'
                       \cup FromKernel(posted, c) \cup FromPort(iocp, c)
    BY <1>2 DEF Coming, FromKernel, FromPort
  <1>4. CASE FetchAdd
    <2> DEFINE d == on["redis"]
    <2>1. /\ pc["redis"] = "add" /\ Go("redis", "check", d, <<>>)
          /\ sendQueueSize' = [sendQueueSize EXCEPT ![d] = Inc(@)]
      BY <1>4 DEF FetchAdd
    <2>2. /\ InHandOf("worker", c)' = InHandOf("worker", c)
          /\ InHandOf("redis", c)' = {} /\ InHandOf("redis", c) = {}
          /\ At("worker", "sub", c)' = At("worker", "sub", c)
          /\ At("redis", "add", c) = (IF d = c THEN 1 ELSE 0)
          /\ At("redis", "add", c)' = 0
      BY <1>1, <2>1, ThreadGoes DEF InHandOf, At, Threads
    <2>3. Coming(c)' = Coming(c)
      BY <1>3, <2>2 DEF Coming
    <2>4. CASE d = c
      <3>1. Account(sendQueueSize[c], Coming(c), At("worker", "sub", c), 1, uncounted[c])
        BY <1>1, <2>2, <2>4, AccountsIs
      <3>2. Account(Inc(sendQueueSize[c]), Coming(c), At("worker", "sub", c), 0, uncounted[c])
        BY <1>1, <3>1, AtBit, AccountAdded
      <3>3. sendQueueSize'[c] = Inc(sendQueueSize[c])
        BY <2>1, <2>4 DEF Booked, CounterType
      <3> QED
        BY <1>2, <2>2, <2>3, <3>2, <3>3, AccountsIsNext
    <2>5. CASE d # c
      <3>1. sendQueueSize'[c] = sendQueueSize[c]
        BY <2>1, <2>5 DEF Booked, CounterType
      <3> QED
        BY <1>1, <1>2, <2>2, <2>3, <2>5, <3>1, SameAccounts
    <2> QED
      BY <2>4, <2>5
  <1>5. CASE FetchSub
    <2> DEFINE d == on["worker"]
    <2>1. /\ pc["worker"] = "sub" /\ Go("worker", "check", d, <<>>)
          /\ sendQueueSize' = [sendQueueSize EXCEPT ![d] = Dec(@)]
      BY <1>5 DEF FetchSub
    <2>2. /\ InHandOf("redis", c)' = InHandOf("redis", c)
          /\ InHandOf("worker", c)' = {} /\ InHandOf("worker", c) = {}
          /\ At("redis", "add", c)' = At("redis", "add", c)
          /\ At("worker", "sub", c) = (IF d = c THEN 1 ELSE 0)
          /\ At("worker", "sub", c)' = 0
      BY <1>1, <2>1, ThreadGoes DEF InHandOf, At, Threads
    <2>3. Coming(c)' = Coming(c)
      BY <1>3, <2>2 DEF Coming
    <2>4. CASE d = c
      <3>1. Account(sendQueueSize[c], Coming(c), 1, At("redis", "add", c), uncounted[c])
        BY <1>1, <2>2, <2>4, AccountsIs
      <3>2. Account(Dec(sendQueueSize[c]), Coming(c), 0, At("redis", "add", c), uncounted[c])
        BY <1>1, <3>1, AtBit, AccountSubtracted
      <3>3. sendQueueSize'[c] = Dec(sendQueueSize[c])
        BY <2>1, <2>4 DEF Booked, CounterType
      <3> QED
        BY <1>2, <2>2, <2>3, <3>2, <3>3, AccountsIsNext
    <2>5. CASE d # c
      <3>1. sendQueueSize'[c] = sendQueueSize[c]
        BY <2>1, <2>5 DEF Booked, CounterType
      <3> QED
        BY <1>1, <1>2, <2>2, <2>3, <2>5, <3>1, SameAccounts
    <2> QED
      BY <2>4, <2>5
  <1> QED
    BY <1>4, <1>5

(* A reply joins its queue: until fetch_add the counter is one behind. *)
LEMMA PushAccounted ==
  ASSUME Booked, Push
  PROVE  Accounted'
  <1> SUFFICES ASSUME NEW c \in Slots
               PROVE  Accounts(c)'
    BY DEF Accounted
  <1> DEFINE d == on["redis"]
             o == Head(hand["redis"])
  <1>1. /\ pc["redis"] = "push" /\ Go("redis", "add", d, <<>>)
        /\ UNCHANGED <<posted, iocp, sendQueueSize, uncounted>>
        /\ sendQueue' = [sendQueue EXCEPT ![d] = Append(@, o)]
    BY DEF Push, kernel
  <1>2. /\ ThreadsType /\ OneOwner /\ uncounted[c] \in Nat /\ Accounts(c)
        /\ pc["redis"] \in Holding /\ "redis" \in Threads /\ "worker" \in Threads
        /\ sendQueue \in [Slots -> Seq(Ovl)]
    BY <1>1 DEF Booked, CounterType, Accounted, Holding, Threads, SoundState
  <1>3. d \in Slots /\ o \in Ovl
    BY <1>2, HandTyped
  <1>4. /\ InHandOf("worker", c)' = InHandOf("worker", c)
        /\ InHandOf("redis", c)' = {} /\ InHandOf("redis", c) = {}
        /\ At("worker", "sub", c)' = At("worker", "sub", c)
        /\ At("redis", "add", c) = 0
        /\ At("redis", "add", c)' = IF d = c THEN 1 ELSE 0
    BY <1>1, <1>2, ThreadGoes DEF InHandOf, At
  <1>5. Coming(c)' = ToSet(sendQueue'[c]) \cup InHandOf("redis", c)' \cup InHandOf("worker", c)'
                       \cup FromKernel(posted, c) \cup FromPort(iocp, c)
    BY <1>1 DEF Coming, FromKernel, FromPort
  <1>6. o \notin Coming(c)
    BY <1>2, <1>4, HandNowhereElse DEF Coming
  <1>7. CASE d = c
    <2>1. ToSet(sendQueue'[c]) = ToSet(sendQueue[c]) \cup {o}
      <3>1. sendQueue'[c] = Append(sendQueue[c], o) /\ sendQueue[c] \in Seq(Ovl)
        BY <1>1, <1>2, <1>7
      <3> HIDE DEF o
      <3>2. ToSet(Append(sendQueue[c], o)) = ToSet(sendQueue[c]) \cup {o}
        BY <1>3, <3>1, QueuePlace
      <3> QED
        BY <3>1, <3>2
    <2>2. Coming(c)' = Coming(c) \cup {o}
      BY <1>4, <1>5, <2>1 DEF Coming
    <2> DEFINE D == Coming(c)
               s == At("worker", "sub", c)
    <2>3. Account(sendQueueSize[c], D, s, 0, uncounted[c]) /\ s \in {0, 1} /\ o \notin D
      BY <1>2, <1>4, <1>6, AccountsIs, AtBit
    <2>4. Account(sendQueueSize[c], D \cup {o}, s, 1, uncounted[c])
      <3> DEFINE n == sendQueueSize[c]
                 u == uncounted[c]
      <3>1. Account(n, D, s, 0, u) /\ s \in {0, 1} /\ u \in Nat /\ o \notin D
        BY <1>2, <2>3
      <3> HIDE DEF D, s, o, n, u
      <3>2. Account(n, D \cup {o}, s, 1, u)
        BY <3>1, AccountMore
      <3> QED
        BY <3>2 DEF n, u
    <2> QED
      BY <1>1, <1>4, <1>7, <2>2, <2>4, AccountsIsNext
  <1>8. CASE d # c
    <2>1. sendQueue'[c] = sendQueue[c]
      BY <1>1, <1>2, <1>8
    <2>2. Coming(c)' = Coming(c)
      BY <1>4, <1>5, <2>1 DEF Coming
    <2> QED
      BY <1>1, <1>2, <1>4, <1>8, <2>2, SameAccounts
  <1> QED
    BY <1>7, <1>8

(* ProcSend takes a reply from its queue: it is still on its way. *)
LEMMA PopAccounted ==
  ASSUME Booked, NEW t \in Threads, Pop(t)
  PROVE  Accounted'
  <1> SUFFICES ASSUME NEW c \in Slots
               PROVE  Accounts(c)'
    BY DEF Accounted
  <1> DEFINE d == on[t]
             o == Head(sendQueue[d])
  <1>1. /\ pc[t] = "pop" /\ UNCHANGED <<posted, iocp, sendQueueSize, uncounted>>
        /\ \/ Go(t, "idle", Center, <<>>) /\ UNCHANGED sendQueue
           \/ /\ sendQueue[d] # <<>>
              /\ sendQueue' = [sendQueue EXCEPT ![d] = Tail(sendQueue[d])]
              /\ Go(t, "send", d, <<o>>)
    BY DEF Pop, Return, kernel
  <1>2. ThreadsType /\ Accounts(c) /\ d \in Slots /\ sendQueue \in [Slots -> Seq(Ovl)]
    BY HandTyped DEF Booked, Accounted, SoundState
  <1>3. /\ \A u \in Threads : u # t => InHandOf(u, c)' = InHandOf(u, c)
        /\ At("worker", "sub", c)' = At("worker", "sub", c)
        /\ At("redis", "add", c)' = At("redis", "add", c)
        /\ InHandOf(t, c) = {}
    BY <1>1, <1>2, ThreadGoes DEF InHandOf, At, Threads
  <1>4. ToSet(sendQueue'[c]) \cup InHandOf(t, c)' = ToSet(sendQueue[c]) \cup InHandOf(t, c)
    <2>1. CASE Go(t, "idle", Center, <<>>) /\ UNCHANGED sendQueue
      BY <1>2, <1>3, <2>1, ThreadGoes DEF InHandOf
    <2>2. CASE /\ sendQueue[d] # <<>>
               /\ sendQueue' = [sendQueue EXCEPT ![d] = Tail(sendQueue[d])]
               /\ Go(t, "send", d, <<o>>)
      <3>1. InHandOf(t, c)' = IF d = c THEN ToSet(<<o>>) ELSE {}
        BY <1>2, <2>2, ThreadGoes DEF InHandOf
      <3>2. o \in Ovl /\ ToSet(sendQueue[d]) = ToSet(Tail(sendQueue[d])) \cup {o}
        BY <1>2, <2>2, Popped, QueuePlace
      <3>3. ToSet(<<o>>) = {o}
        BY <1>2, <3>2, QueuePlace
      <3> HIDE DEF o
      <3>4. CASE d = c
        BY <1>2, <1>3, <2>2, <3>1, <3>2, <3>3, <3>4
      <3>5. CASE d # c
        BY <1>2, <1>3, <2>2, <3>1, <3>5
      <3> QED
        BY <3>4, <3>5
    <2> QED
      BY <1>1, <2>1, <2>2
  <1>5. Coming(c)' = ToSet(sendQueue'[c]) \cup InHandOf("redis", c)' \cup InHandOf("worker", c)'
                       \cup FromKernel(posted, c) \cup FromPort(iocp, c)
    BY <1>1 DEF Coming, FromKernel, FromPort
  <1>6. Coming(c)' = Coming(c)
    BY <1>3, <1>4, <1>5 DEF Coming, Threads
  <1> QED
    BY <1>1, <1>2, <1>3, <1>6, SameAccounts

(* WSASend: with the kernel the reply is still on its way, without a peer it ends
   uncounted. *)
LEMMA SendAccounted ==
  ASSUME Booked, NEW t \in Threads, WSASend(t)
  PROVE  Accounted'
  <1> SUFFICES ASSUME NEW c \in Slots
               PROVE  Accounts(c)'
    BY DEF Accounted
  <1> DEFINE d == on[t]
             o == Head(hand[t])
             F == ToSet(sendQueue[c]) \cup FromKernel(posted, c) \cup FromPort(iocp, c)
             E == F \cup UNION {InHandOf(u, c) : u \in Threads \ {t}}
  <1>1. /\ pc[t] = "send" /\ UNCHANGED <<iocp, sendQueue, sendQueueSize>>
        /\ Go(t, "idle", Center, <<>>)
        /\ \/ /\ \E k \in {"SEND", "NEWSEND"} : posted' = posted \cup {Op(o, d, k)}
              /\ UNCHANGED uncounted
           \/ uncounted' = [uncounted EXCEPT ![d] = @ + 1] /\ UNCHANGED posted
    BY DEF WSASend, Return, reply
  <1>2. /\ ThreadsType /\ OneOwner /\ uncounted[c] \in Nat /\ Accounts(c)
        /\ pc[t] \in Holding /\ posted \in SUBSET OpType
    BY <1>1 DEF Booked, CounterType, Accounted, Holding, SoundState, Sound
  <1>3. d \in Slots /\ o \in Ovl /\ hand[t] = <<o>> /\ <<>> \in Seq(Ovl)
    BY <1>2, HandTyped
  <1>4. /\ \A u \in Threads : u # t => InHandOf(u, c)' = InHandOf(u, c)
        /\ At("worker", "sub", c)' = At("worker", "sub", c)
        /\ At("redis", "add", c)' = At("redis", "add", c)
        /\ InHandOf(t, c)' = {}
        /\ InHandOf(t, c) = IF d = c THEN ToSet(hand[t]) ELSE {}
    BY <1>1, <1>2, ThreadGoes DEF InHandOf, At, Threads
  <1>5. ToSet(hand[t]) = {o}
    <2> HIDE DEF o
    <2> QED
      BY <1>3, QueuePlace
  <1>6. o \notin E
    BY <1>2, HandNowhereElse
  <1>7. Coming(c) = E \cup InHandOf(t, c)
    BY DEF Coming, Threads
  <1>8. Coming(c)' = E \cup FromKernel(posted', c)
    <2>1. Coming(c)' = ToSet(sendQueue'[c]) \cup InHandOf("redis", c)' \cup InHandOf("worker", c)'
                         \cup FromKernel(posted', c) \cup FromPort(iocp', c)
      BY DEF Coming, FromKernel, FromPort
    <2>2. FromKernel(posted, c) \subseteq FromKernel(posted', c)
      BY <1>1 DEF FromKernel
    <2>3. InHandOf("redis", c)' \cup InHandOf("worker", c)'
            = UNION {InHandOf(u, c) : u \in Threads \ {t}}
      BY <1>4 DEF Threads
    <2> HIDE DEF o, d
    <2> QED
      BY <1>1, <2>1, <2>2, <2>3
  <1> HIDE DEF E
  <1>9. CASE d # c
    <2>1. FromKernel(posted', c) = FromKernel(posted, c) /\ uncounted'[c] = uncounted[c]
      <3>1. ASSUME NEW k \in {"SEND", "NEWSEND"}, posted' = posted \cup {Op(o, d, k)}
            PROVE  FromKernel(posted', c) = FromKernel(posted, c)
        <4> DEFINE x == Op(o, d, k)
        <4>1. Carried(x, c) = {}
          BY <1>9 DEF Carried, Op
        <4>2. posted' = posted \cup {x}
          BY <3>1
        <4> HIDE DEF x
        <4>3. FromKernel(posted \cup {x}, c) = FromKernel(posted, c) \cup Carried(x, c)
          BY <1>2, KernelPlace
        <4> QED
          BY <4>1, <4>2, <4>3
      <3>2. uncounted'[c] = uncounted[c]
        BY <1>1, <1>9 DEF Booked, CounterType
      <3>3. UNCHANGED posted => FromKernel(posted', c) = FromKernel(posted, c)
        OBVIOUS
      <3> QED
        BY <1>1, <3>1, <3>2, <3>3
    <2>2. Coming(c)' = Coming(c)
      BY <1>4, <1>7, <1>8, <1>9, <2>1 DEF E
    <2> QED
      BY <1>1, <1>2, <1>4, <2>1, <2>2, SameAccounts
  <1>10. CASE d = c /\ \E k \in {"SEND", "NEWSEND"} : posted' = posted \cup {Op(o, d, k)}
                    /\ UNCHANGED uncounted
    <2>1. PICK k \in {"SEND", "NEWSEND"} : posted' = posted \cup {Op(o, d, k)}
      BY <1>10
    <2>2. Carried(Op(o, d, k), c) = {o}
      BY <1>10 DEF Carried, Op, Sending
    <2>3. FromKernel(posted', c) = FromKernel(posted, c) \cup {o}
      <3> DEFINE x == Op(o, d, k)
      <3>1. Carried(x, c) = {o} /\ posted' = posted \cup {x}
        BY <2>1, <2>2
      <3> HIDE DEF x, o
      <3>2. FromKernel(posted \cup {x}, c) = FromKernel(posted, c) \cup Carried(x, c)
        BY <1>2, KernelPlace
      <3> QED
        BY <3>1, <3>2
    <2>4. Coming(c)' = Coming(c)
      <3>1. FromKernel(posted, c) \subseteq E
        BY DEF E
      <3> QED
        BY <1>4, <1>5, <1>7, <1>8, <1>10, <2>3, <3>1
    <2> QED
      BY <1>1, <1>2, <1>4, <1>10, <2>4, SameAccounts
  <1>11. CASE d = c /\ uncounted' = [uncounted EXCEPT ![d] = @ + 1] /\ UNCHANGED posted
    <2>1. uncounted'[c] = uncounted[c] + 1
      BY <1>11 DEF Booked, CounterType
    <2>2. Coming(c)' = E
      <3>1. FromKernel(posted, c) \subseteq E
        BY DEF E
      <3> QED
        BY <1>8, <1>11, <3>1
    <2>3. Coming(c) = E \cup {o}
      BY <1>4, <1>5, <1>7, <1>11
    <2> HIDE DEF o
    <2>4. Account(sendQueueSize[c], E \cup {o}, At("worker", "sub", c), At("redis", "add", c),
                  uncounted[c])
      BY <1>2, <2>3, AccountsIs
    <2>5. Account(sendQueueSize[c], E, At("worker", "sub", c), At("redis", "add", c),
                  uncounted[c] + 1)
      BY <1>2, <1>6, <2>4, AtBit, AccountLess
    <2> QED
      BY <1>1, <1>4, <2>1, <2>2, <2>5, AccountsIsNext
  <1> QED
    BY <1>1, <1>9, <1>10, <1>11

LEMMA AccountedStep ==
  ASSUME Booked, [Next]_vars
  PROVE  Accounted'
  <1>1. CASE \E t \in Threads : SendStep(t)
    BY <1>1, QuietStep, PopAccounted, SendAccounted DEF SendStep
  <1> QED
    BY <1>1, QuietStep, DisconnectAccounted, SentAccounted, CountAccounted, PushAccounted
       DEF Next, WorkStep, RedisStep, Threads

(* StartWork counts its first message. *)
LEMMA AccountedInit ==
  ASSUME Init
  PROVE  Accounted
  <1> SUFFICES ASSUME NEW c \in Slots
               PROVE  Accounts(c)
    BY DEF Accounted
  <1>1. /\ ToSet(sendQueue[c]) = {} /\ FromPort(iocp, c) = {} /\ uncounted[c] = 0
        /\ InHandOf("redis", c) = {} /\ InHandOf("worker", c) = {}
        /\ At("worker", "sub", c) = 0 /\ At("redis", "add", c) = 0
    BY DEF Init, InHandOf, FromPort, At, Threads, ToSet
  <1>2. Coming(c) = FromKernel(posted, c)
    BY <1>1 DEF Coming
  <1>3. 0 % SizeMod = 0 /\ 1 % SizeMod = 1
    BY SlotsAssumption
  <1>4. ASSUME FromKernel(posted, c) = {}, sendQueueSize[c] = 0
        PROVE  Accounts(c)
    <2>1. IsFiniteSet({}) /\ Cardinality({}) = 0
      BY FS_EmptySet
    <2>2. Account(0, {}, 0, 0, 0)
      BY <1>3, <2>1 DEF Account
    <2> QED
      BY <1>1, <1>2, <1>4, <2>2, AccountsIs
  <1>5. CASE InitCenterUp
    <2>1. PICK recv, send \in Pooled :
            /\ posted = {Op(recv, Center, "RECV"), Op(send, Center, "SEND")}
            /\ sendQueueSize = [k \in Slots |-> IF k = Center THEN 1 ELSE 0]
      BY <1>5 DEF InitCenterUp
    <2>2. FromKernel(posted, c) = IF c = Center THEN {send} ELSE {}
      BY <2>1 DEF FromKernel, Carried, Op, Sending
    <2>3. CASE c = Center
      <3>1. IsFiniteSet({send}) /\ Cardinality({send}) = 1
        BY FS_Singleton
      <3>2. Account(1, {send}, 0, 0, 0)
        BY <1>3, <3>1 DEF Account
      <3>3. sendQueueSize[c] = 1
        BY <2>1, <2>3
      <3> QED
        BY <1>1, <1>2, <2>2, <2>3, <3>2, <3>3, AccountsIs
    <2>4. CASE c # Center
      BY <1>4, <2>1, <2>2, <2>4
    <2> QED
      BY <2>3, <2>4
  <1>6. CASE InitCenterDown
    BY <1>4, <1>6 DEF InitCenterDown, FromKernel
  <1> QED
    BY <1>5, <1>6 DEF Init

-----------------------------------------------------------------------------
(* The rotation of the client slots. *)

Offered(p, q, c) ==
  \/ \E op \in p : op.slot = c /\ op.task = "ACCEPT" /\ op.live
  \/ \E i \in DOMAIN q : q[i].op.slot = c /\ ~ q[i].ok

Reach(a, s, p, q) ==
  \A c \in Slots \ {Center} :
    /\ s[c] = "fresh" => \E i \in DOMAIN a : a[i] = c
    /\ s[c] = "accepting" => Offered(p, q, c)

(* SlotReachable in terms of Reach, now and in the next state. *)
LEMMA ReachIs == SlotReachable <=> Reach(AcceptQueue, sock, posted, iocp)
  <1>1. \A c : c \in ToSet(AcceptQueue) <=> \E i \in DOMAIN AcceptQueue : AcceptQueue[i] = c
    BY DEF ToSet
  <1>2. \A c : /\ (\E op \in OfSlot(c) : op.task = "ACCEPT" /\ op.live) <=>
                    \E op \in posted : op.slot = c /\ op.task = "ACCEPT" /\ op.live
               /\ (\E i \in Queued(c) : ~ iocp[i].ok) <=>
                    \E i \in DOMAIN iocp : iocp[i].op.slot = c /\ ~ iocp[i].ok
    BY DEF OfSlot, Queued
  <1> QED
    BY <1>1, <1>2 DEF SlotReachable, Reach, Offered

LEMMA ReachIsNext == SlotReachable' <=> Reach(AcceptQueue', sock', posted', iocp')
  <1>1. \A c : c \in ToSet(AcceptQueue') <=> \E i \in DOMAIN AcceptQueue' : AcceptQueue'[i] = c
    BY DEF ToSet
  <1>2. \A c : /\ (\E op \in OfSlot(c)' : op.task = "ACCEPT" /\ op.live) <=>
                    \E op \in posted' : op.slot = c /\ op.task = "ACCEPT" /\ op.live
               /\ (\E i \in Queued(c)' : ~ iocp'[i].ok) <=>
                    \E i \in DOMAIN iocp' : iocp'[i].op.slot = c /\ ~ iocp'[i].ok
    BY DEF OfSlot, Queued
  <1> QED
    BY <1>1, <1>2 DEF SlotReachable, Reach, Offered

(* Taking a good packet, or one of another slot, leaves the offer of a slot. *)
LEMMA TakenOffer ==
  ASSUME NEW p, NEW q \in Ports, NEW c, q # <<>>, Offered(p, q, c),
         Head(q).ok \/ Head(q).op.slot # c
  PROVE  Offered(p, Tail(q), c)
  <1>1. /\ Head(q) = q[1]
        /\ \A i \in DOMAIN q : i # 1 => i - 1 \in DOMAIN Tail(q) /\ Tail(q)[i - 1] = q[i]
    BY DEF Ports
  <1> QED
    BY <1>1 DEF Offered

LEMMA OrphanOffer ==
  ASSUME NEW p \in SUBSET OpType, NEW q \in Ports, NEW d \in Slots, NEW c, c # d, Offered(p, q, c)
  PROVE  Offered({Orphan(d, op) : op \in p}, OrphanPackets(d, q), c)
  <1>1. CASE \E op \in p : op.slot = c /\ op.task = "ACCEPT" /\ op.live
    <2>1. PICK op \in p : op.slot = c /\ op.task = "ACCEPT" /\ op.live
      BY <1>1
    <2>2. Orphan(d, op) = op
      BY <2>1 DEF Orphan
    <2>3. op \in {Orphan(d, x) : x \in p}
      BY <2>2
    <2> QED
      BY <2>1, <2>3 DEF Offered
  <1>2. CASE \E i \in DOMAIN q : q[i].op.slot = c /\ ~ q[i].ok
    <2>1. PICK i \in DOMAIN q : q[i].op.slot = c /\ ~ q[i].ok
      BY <1>2
    <2>2. /\ DOMAIN OrphanPackets(d, q) = DOMAIN q
          /\ OrphanPackets(d, q)[i].op.slot = q[i].op.slot
          /\ OrphanPackets(d, q)[i].ok = q[i].ok
      BY OrphanedPackets, Orphaned DEF Ports
    <2> QED
      BY <2>1, <2>2 DEF Offered
  <1> QED
    BY <1>1, <1>2 DEF Offered

(* A completion ends the offer of a slot only when it brings a client. *)
LEMMA CompletedOffer ==
  ASSUME NEW p \in SUBSET OpType, NEW q \in Ports, NEW op \in p, NEW ok \in BOOLEAN, NEW c,
         Offered(p, q, c),
         op.slot = c /\ op.task = "ACCEPT" /\ op.live => ~ ok
  PROVE  Offered(p \ {op}, Append(q, Packet(op, ok)), c)
  <1> DEFINE q1 == Append(q, Packet(op, ok))
  <1>1. Packet(op, ok) \in Packets /\ Packet(op, ok).op = op /\ Packet(op, ok).ok = ok
    BY DEF Packets, Packet
  <1>2. /\ \A i \in DOMAIN q : i \in DOMAIN q1 /\ q1[i] = q[i]
        /\ Len(q) + 1 \in DOMAIN q1 /\ q1[Len(q) + 1] = Packet(op, ok)
    <2> HIDE DEF Packets
    <2>1. q1 \in Seq(Packets) /\ Len(q1) = Len(q) + 1 /\ Len(q) \in Nat
      BY <1>1, Pushed DEF Ports
    <2> QED
      BY <1>1, <2>1, Pushed DEF Ports
  <1> HIDE DEF q1
  <1>3. CASE \E i \in DOMAIN q : q[i].op.slot = c /\ ~ q[i].ok
    BY <1>2, <1>3 DEF Offered, q1
  <1>4. CASE \E x \in p : x.slot = c /\ x.task = "ACCEPT" /\ x.live
    <2>1. PICK x \in p : x.slot = c /\ x.task = "ACCEPT" /\ x.live
      BY <1>4
    <2>2. CASE x = op
      <3>1. q1[Len(q) + 1].op.slot = c /\ ~ q1[Len(q) + 1].ok
        BY <1>1, <1>2, <2>1, <2>2
      <3> QED
        BY <1>2, <3>1 DEF Offered, q1
    <2>3. CASE x # op
      BY <2>1, <2>3 DEF Offered, q1
    <2> QED
      BY <2>2, <2>3
  <1> QED
    BY <1>3, <1>4 DEF Offered

(* The steps that post an operation only add one. *)
LEMMA PostedGrows ==
  ASSUME WorkAccept \/ RecvAgain \/ (\E t \in Threads : WSASend(t)) \/ OfferSlot
  PROVE  posted \subseteq posted'
  BY DEF WorkAccept, RecvAgain, WSASend, OfferSlot

(* StartWork puts every client slot into the queue. *)
LEMMA ReachInit ==
  ASSUME Init
  PROVE  SlotReachable
  <1> SUFFICES ASSUME NEW c \in Slots \ {Center}
               PROVE  /\ \E i \in DOMAIN AcceptQueue : AcceptQueue[i] = c
                      /\ sock[c] = "fresh"
    BY ReachIs DEF Reach
  <1>1. c \in 1 .. MaxUsersObject - 1
    BY SlotsAssumption DEF Slots, Center
  <1> QED
    BY <1>1 DEF Init, InitCenterUp, InitCenterDown

(* The steps of the accepter. *)
LEMMA OfferReach ==
  ASSUME QueuesType, SlotReachable, OfferSlot
  PROVE  SlotReachable'
  <1> DEFINE a == Head(AcceptQueue)
  <1>1. /\ a \in Slots /\ a = AcceptQueue[1]
        /\ AcceptQueue' = Tail(AcceptQueue) /\ AcceptQueue \in Seq(Slots)
        /\ iocp' = iocp /\ sock' = [sock EXCEPT ![a] = "accepting"]
        /\ \E x \in AcceptCalls : Op(x, a, "ACCEPT") \in posted'
    BY Popped DEF OfferSlot, QueuesType
  <1>2. \A i \in DOMAIN AcceptQueue : i # 1 =>
          i - 1 \in DOMAIN AcceptQueue' /\ AcceptQueue'[i - 1] = AcceptQueue[i]
    BY <1>1
  <1>3. Reach(AcceptQueue, sock, posted, iocp) /\ posted \subseteq posted'
    BY ReachIs, PostedGrows
  <1>4. sock \in [Slots -> {"fresh", "accepting", "up", "down"}]
    BY DEF QueuesType
  <1> HIDE DEF a
  <1>5. ASSUME NEW c \in Slots \ {Center}
        PROVE  /\ sock'[c] = "fresh" => \E i \in DOMAIN AcceptQueue' : AcceptQueue'[i] = c
               /\ sock'[c] = "accepting" => Offered(posted', iocp', c)
    <2>1. CASE c = a
      <3>1. PICK x \in AcceptCalls : Op(x, a, "ACCEPT") \in posted'
        BY <1>1
      <3>2. Offered(posted', iocp', c)
        BY <2>1, <3>1 DEF Offered, Op
      <3> QED
        BY <1>1, <1>4, <2>1, <3>2
    <2>2. CASE c # a
      <3>1. sock'[c] = sock[c]
        BY <1>1, <1>4, <2>2
      <3>2. sock'[c] = "fresh" => \E i \in DOMAIN AcceptQueue' : AcceptQueue'[i] = c
        <4> SUFFICES ASSUME sock[c] = "fresh"
                     PROVE  \E i \in DOMAIN AcceptQueue' : AcceptQueue'[i] = c
          BY <3>1
        <4>1. PICK i \in DOMAIN AcceptQueue : AcceptQueue[i] = c
          BY <1>3 DEF Reach
        <4>2. i # 1
          BY <1>1, <2>2, <4>1
        <4> QED
          BY <1>2, <4>1, <4>2
      <3>3. sock'[c] = "accepting" => Offered(posted', iocp', c)
        <4>1. iocp' = iocp
          BY <1>1
        <4>2. Offered(posted, iocp, c) => Offered(posted', iocp', c)
          BY <1>3, <4>1 DEF Offered
        <4> QED
          BY <1>3, <3>1, <4>2 DEF Reach
      <3> QED
        BY <3>2, <3>3
    <2> QED
      BY <2>1, <2>2
  <1> QED
    BY <1>5, ReachIsNext DEF Reach

LEMMA RefusedReach ==
  ASSUME QueuesType, SlotReachable, RefusedSlot
  PROVE  SlotReachable'
  <1>1. /\ AcceptQueue' = Append(Tail(AcceptQueue), Head(AcceptQueue))
        /\ AcceptQueue \in Seq(Slots) /\ AcceptQueue # <<>>
        /\ UNCHANGED <<sock, posted, iocp>>
    BY DEF RefusedSlot, QueuesType, kernel
  <1>2. \A i \in DOMAIN AcceptQueue :
          IF i = 1 THEN /\ Len(AcceptQueue) \in DOMAIN AcceptQueue'
                        /\ AcceptQueue'[Len(AcceptQueue)] = AcceptQueue[1]
                   ELSE i - 1 \in DOMAIN AcceptQueue' /\ AcceptQueue'[i - 1] = AcceptQueue[i]
    BY <1>1
  <1>3. \A i \in DOMAIN AcceptQueue : \E j \in DOMAIN AcceptQueue' : AcceptQueue'[j] = AcceptQueue[i]
    BY <1>2
  <1> QED
    BY <1>1, <1>3, ReachIs, ReachIsNext DEF Reach

(* A reset ends the offers of its own slot only, and queues that slot. *)
LEMMA ResetReach ==
  ASSUME SoundState, QueuesType, SlotReachable, iocp # <<>>, ResetAndRequeue(First.slot)
  PROVE  SlotReachable'
  <1> DEFINE d == First.slot
  <1>1. /\ d \in Slots /\ sock' = [sock EXCEPT ![d] = "fresh"]
        /\ sock \in [Slots -> {"fresh", "accepting", "up", "down"}]
        /\ posted' = {Orphan(d, op) : op \in posted}
        /\ iocp' = OrphanPackets(d, Tail(iocp))
        /\ AcceptQueue' = Append(AcceptQueue, d) /\ AcceptQueue \in Seq(Slots)
    BY FirstTyped DEF ResetAndRequeue, QueuesType, OrphanOps
  <1>2. /\ posted \in SUBSET OpType /\ iocp \in Ports /\ Tail(iocp) \in Ports
    BY TakenSound DEF SoundState, Sound
  <1>3. Reach(AcceptQueue, sock, posted, iocp)
    BY ReachIs
  <1>4. /\ \A i \in DOMAIN AcceptQueue : i \in DOMAIN AcceptQueue' /\ AcceptQueue'[i] = AcceptQueue[i]
        /\ \E i \in DOMAIN AcceptQueue' : AcceptQueue'[i] = d
    BY <1>1
  <1>5. d = Head(iocp).op.slot
    BY DEF First
  <1> HIDE DEF d
  <1>6. ASSUME NEW c \in Slots \ {Center}
        PROVE  /\ sock'[c] = "fresh" => \E i \in DOMAIN AcceptQueue' : AcceptQueue'[i] = c
               /\ sock'[c] = "accepting" => Offered(posted', iocp', c)
    <2>1. CASE c = d
      BY <1>1, <1>4, <2>1
    <2>2. CASE c # d
      <3>1. sock'[c] = sock[c]
        BY <1>1, <2>2
      <3>2. sock'[c] = "fresh" => \E i \in DOMAIN AcceptQueue' : AcceptQueue'[i] = c
        BY <1>3, <1>4, <3>1 DEF Reach
      <3>3. sock'[c] = "accepting" => Offered(posted, Tail(iocp), c)
        BY <1>2, <1>3, <1>5, <2>2, <3>1, TakenOffer DEF Reach
      <3>4. sock'[c] = "accepting" => Offered(posted', iocp', c)
        BY <1>1, <1>2, <2>2, <3>3, OrphanOffer
      <3> QED
        BY <3>2, <3>4
    <2> QED
      BY <2>1, <2>2
  <1> QED
    BY <1>6, ReachIsNext DEF Reach

(* Steps that take a good packet, or none. *)
LEMMA WorkedReach ==
  ASSUME SoundState, SlotReachable,
         \/ WorkAccept \/ WorkRecv \/ RecvAgain \/ ReturnReceived \/ WorkSent \/ FetchSub
         \/ HandleRequest \/ Push \/ FetchAdd
         \/ \E t \in Threads : SendStep(t)
  PROVE  SlotReachable'
  <1>1. UNCHANGED <<AcceptQueue, sock>>
    BY DEF WorkAccept, WorkRecv, RecvAgain, ReturnReceived, WorkSent, FetchSub,
           HandleRequest, Push, FetchAdd, SendStep, Check, Pop, WSASend
  <1>2. posted \subseteq posted'
    <2>1. CASE WorkAccept \/ RecvAgain \/ (\E t \in Threads : WSASend(t))
      BY <2>1, PostedGrows
    <2>2. CASE \/ WorkRecv \/ ReturnReceived \/ WorkSent \/ FetchSub
               \/ HandleRequest \/ Push \/ FetchAdd
               \/ \E t \in Threads : Check(t) \/ Pop(t)
      BY <2>2 DEF WorkRecv, ReturnReceived, WorkSent, FetchSub, HandleRequest, Push,
                  FetchAdd, Check, Pop, kernel
    <2> QED
      BY <2>1, <2>2 DEF SendStep
  <1>3. \/ iocp # <<>> /\ Head(iocp).ok /\ iocp' = Tail(iocp)
        \/ iocp' = iocp
    <2>1. CASE WorkAccept \/ WorkRecv \/ WorkSent
      BY <2>1 DEF WorkAccept, WorkRecv, WorkSent, Took
    <2>2. CASE \/ RecvAgain \/ ReturnReceived \/ FetchSub \/ HandleRequest \/ Push \/ FetchAdd
               \/ \E t \in Threads : SendStep(t)
      BY <2>2 DEF RecvAgain, ReturnReceived, FetchSub, HandleRequest, Push, FetchAdd,
                  SendStep, Check, Pop, WSASend, kernel
    <2> QED
      BY <2>1, <2>2
  <1>4. ASSUME NEW c, Offered(posted, iocp, c)
        PROVE  Offered(posted', iocp', c)
    <2>1. Offered(posted, iocp', c)
      BY <1>3, <1>4, TakenOffer DEF SoundState, Sound
    <2> QED
      BY <1>2, <2>1 DEF Offered
  <1> QED
    BY <1>1, <1>4, ReachIs, ReachIsNext DEF Reach

(* A completion keeps the offer, or brings a client. *)
LEMMA KernelReach ==
  ASSUME SoundState, QueuesType, SlotReachable, KernelStep
  PROVE  SlotReachable'
  <1>1. PICK op \in posted, ok \in BOOLEAN :
          /\ Complete(op, ok)
          /\ op.task = "ACCEPT" /\ op.live =>
               /\ ok => sock' = [sock EXCEPT ![op.slot] = "up"]
               /\ ~ ok => UNCHANGED sock
          /\ ~ (op.task = "ACCEPT" /\ op.live) => UNCHANGED sock
    BY KernelCompletes
  <1>2. /\ UNCHANGED AcceptQueue
        /\ sock \in [Slots -> {"fresh", "accepting", "up", "down"}]
        /\ posted \in SUBSET OpType /\ iocp \in Ports
        /\ op.slot \in Slots
    BY KernelCompletes DEF QueuesType, SoundState, Sound, OpType
  <1>3. posted' = posted \ {op} /\ iocp' = Append(iocp, Packet(op, ok))
    BY <1>1 DEF Complete
  <1>4. ASSUME NEW c \in Slots \ {Center}
        PROVE  /\ sock'[c] = "fresh" => \E i \in DOMAIN AcceptQueue' : AcceptQueue'[i] = c
               /\ sock'[c] = "accepting" => Offered(posted', iocp', c)
    <2>1. \/ sock'[c] = "up"
          \/ /\ sock'[c] = sock[c]
             /\ op.slot = c /\ op.task = "ACCEPT" /\ op.live => ~ ok
      BY <1>1, <1>2
    <2>2. Reach(AcceptQueue, sock, posted, iocp)
      BY ReachIs
    <2>3. CASE sock'[c] = "up"
      BY <2>3
    <2>4. CASE sock'[c] = sock[c] /\ (op.slot = c /\ op.task = "ACCEPT" /\ op.live => ~ ok)
      <3>1. sock'[c] = "accepting" => Offered(posted', iocp', c)
        BY <1>2, <1>3, <2>2, <2>4, CompletedOffer DEF Reach
      <3> QED
        BY <1>2, <2>2, <2>4, <3>1 DEF Reach
    <2> QED
      BY <2>1, <2>3, <2>4
  <1> QED
    BY <1>4, ReachIsNext DEF Reach

(* A peer that leaves changes a connected slot only. *)
LEMMA LeaveReach ==
  ASSUME QueuesType, SlotReachable, \E c \in Slots : Leave(c)
  PROVE  SlotReachable'
  <1>1. PICK d \in Slots : Leave(d)
    OBVIOUS
  <1>2. \A c \in Slots : sock'[c] = sock[c] \/ sock'[c] = "down"
    BY <1>1 DEF Leave, QueuesType
  <1>3. UNCHANGED <<AcceptQueue, posted, iocp>>
    BY <1>1 DEF Leave, kernel
  <1> QED
    BY <1>2, <1>3, ReachIs, ReachIsNext DEF Reach

(* All steps. *)
LEMMA ReachStep ==
  ASSUME SoundState, QueuesType, SlotReachable, [Next]_vars
  PROVE  SlotReachable'
  <1>1. CASE WorkDisconnect \/ WorkAcceptFailed
    <2>1. iocp # <<>> /\ ResetAndRequeue(First.slot)
      BY <1>1 DEF WorkDisconnect, WorkAcceptFailed, Took
    <2> QED
      BY <2>1, ResetReach
  <1>2. CASE UNCHANGED vars
    BY <1>2, ReachIs, ReachIsNext DEF vars
  <1> QED
    BY <1>1, <1>2, OfferReach, RefusedReach, WorkedReach, KernelReach, LeaveReach
       DEF Next, AccepterStep, WorkStep, RedisStep, Threads

-----------------------------------------------------------------------------
(* The two kinds of operation stay apart: the acceptOvlap of a ConnUser never
   reaches returnOvLap, and nothing else is posted by AcceptEx. *)
LEMMA RightOps ==
  /\ \A op \in OpType : \A c \in Slots : RightId(op) => RightId(Orphan(c, op))
  /\ \A o \in Ovl : \A c : \A t \in {"RECV", "SEND", "NEWSEND"} : RightId(Op(o, c, t))
  /\ \A o \in AcceptCalls : \A c : RightId(Op(o, c, "ACCEPT"))
  <1>1. \A op \in OpType : \A c \in Slots : RightId(op) => RightId(Orphan(c, op))
    BY Orphaned DEF RightId
  <1>2. \A o \in Ovl : o \notin AcceptCalls
    BY IdsAssumption DEF Ovl
  <1> QED
    BY <1>1, <1>2 DEF RightId, Op

LEMMA AcceptIdsStep ==
  ASSUME SoundState, QueuesType, ThreadsType, AcceptIds, [Next]_vars
  PROVE  AcceptIds'
  <1>1. /\ posted \in SUBSET OpType /\ iocp \in Ports /\ pool \in SUBSET Ovl
        /\ \A op \in posted : RightId(op)
        /\ \A i \in DOMAIN iocp : RightId(iocp[i].op)
    BY DEF SoundState, Sound, AcceptIds, Ovl
  <1>2. iocp # <<>> => \A i \in DOMAIN Tail(iocp) : RightId(Tail(iocp)[i].op)
    <2>1. iocp # <<>> => \A i \in DOMAIN Tail(iocp) : i + 1 \in DOMAIN iocp /\ Tail(iocp)[i] = iocp[i + 1]
      <3> HIDE DEF Packets
      <3> QED
        BY <1>1, Popped DEF Ports
    <2> QED
      BY <1>1, <2>1
  <1>3. ASSUME \A op \in posted' : RightId(op),
               \/ iocp' = iocp
               \/ iocp # <<>> /\ iocp' = Tail(iocp)
        PROVE  AcceptIds'
    <2>1. \A i \in DOMAIN iocp' : RightId(iocp'[i].op)
      BY <1>1, <1>2, <1>3
    <2> QED
      BY <1>3, <2>1 DEF AcceptIds, RightId
  <1>4. CASE OfferSlot
    <2>1. \E a \in AcceptCalls, c \in Slots : posted' = posted \cup {Op(a, c, "ACCEPT")}
      BY <1>4, Popped DEF OfferSlot, QueuesType
    <2>2. iocp' = iocp
      BY <1>4 DEF OfferSlot
    <2> QED
      BY <1>1, <1>3, <2>1, <2>2, RightOps
  <1>5. CASE \/ RefusedSlot \/ (\E c \in Slots : Leave(c)) \/ UNCHANGED vars
             \/ ReturnReceived \/ FetchSub \/ HandleRequest \/ Push \/ FetchAdd
             \/ \E t \in Threads : Check(t) \/ Pop(t)
    <2>1. UNCHANGED kernel
      BY <1>5 DEF RefusedSlot, Leave, vars, ReturnReceived, FetchSub, HandleRequest, Push,
                  FetchAdd, Check, Pop, kernel
    <2> QED
      BY <1>1, <1>3, <2>1 DEF kernel
  <1>6. CASE WorkDisconnect \/ WorkAcceptFailed
    <2>1. /\ iocp # <<>> /\ First.slot \in Slots
          /\ posted' = {Orphan(First.slot, op) : op \in posted}
          /\ iocp' = OrphanPackets(First.slot, Tail(iocp))
          /\ Tail(iocp) \in Ports
      BY <1>6, FirstTyped, TakenSound
         DEF WorkDisconnect, WorkAcceptFailed, Took, ResetAndRequeue, OrphanOps, SoundState, Sound
    <2>2. \A op \in posted' : RightId(op)
      BY <1>1, <2>1, RightOps
    <2>3. /\ DOMAIN iocp' = DOMAIN Tail(iocp)
          /\ \A i \in DOMAIN Tail(iocp) : /\ iocp'[i].op = Orphan(First.slot, Tail(iocp)[i].op)
                                          /\ Tail(iocp)[i].op \in OpType
      BY <2>1, OrphanedPackets DEF Ports
    <2>4. \A i \in DOMAIN iocp' : RightId(iocp'[i].op)
      BY <1>2, <2>1, <2>3, RightOps
    <2> QED
      BY <2>2, <2>4 DEF AcceptIds, RightId
  <1>7. CASE WorkAccept \/ WorkRecv \/ WorkSent \/ RecvAgain
    <2>1. \/ iocp # <<>> /\ iocp' = Tail(iocp)
          \/ iocp' = iocp
      BY <1>7 DEF WorkAccept, WorkRecv, WorkSent, RecvAgain, Took
    <2>2. \/ \E o \in pool : \E c : posted' = posted \cup {Op(o, c, "RECV")}
          \/ posted' = posted
      BY <1>7 DEF WorkAccept, WorkRecv, WorkSent, RecvAgain
    <2>3. \A op \in posted' : RightId(op)
      BY <1>1, <2>2, RightOps
    <2> QED
      BY <1>3, <2>1, <2>3
  <1>8. ASSUME NEW t \in Threads, WSASend(t)
        PROVE  AcceptIds'
    <2>1. pc[t] \in Holding /\ iocp' = iocp
      BY <1>8 DEF WSASend, Holding
    <2>2. Head(hand[t]) \in Ovl
      BY <2>1, HandTyped
    <2>3. \/ \E o \in Ovl : \E c : \E k \in {"SEND", "NEWSEND"} : posted' = posted \cup {Op(o, c, k)}
          \/ posted' = posted
      BY <1>8, <2>2 DEF WSASend
    <2>4. \A op \in posted' : RightId(op)
      BY <1>1, <2>3, RightOps
    <2> QED
      BY <1>3, <2>1, <2>4
  <1>9. CASE KernelStep
    <2>1. PICK op \in posted, ok \in BOOLEAN : Complete(op, ok)
      BY <1>9, KernelCompletes
    <2>2. posted' = posted \ {op} /\ iocp' = Append(iocp, Packet(op, ok))
      BY <2>1 DEF Complete
    <2>3. Packet(op, ok) \in Packets /\ Packet(op, ok).op = op
      BY <1>1 DEF Packets, Packet
    <2>4. \A i \in DOMAIN iocp' : \/ i \in DOMAIN iocp /\ iocp'[i] = iocp[i]
                                  \/ iocp'[i] = Packet(op, ok)
      <3> HIDE DEF Packets
      <3> QED
        BY <1>1, <2>2, <2>3, Pushed DEF Ports
    <2>5. \A i \in DOMAIN iocp' : RightId(iocp'[i].op)
      BY <1>1, <2>3, <2>4
    <2> QED
      BY <1>1, <2>2, <2>5 DEF AcceptIds, RightId
  <1> QED
    BY <1>4, <1>5, <1>6, <1>7, <1>8, <1>9
       DEF Next, AccepterStep, WorkStep, RedisStep, SendStep, Threads

(* Every step keeps the shape of the queues, sockets and bounds. *)
LEMMA QueuesStep ==
  ASSUME SoundState, QueuesType, [Next]_vars
  PROVE  QueuesType'
  <1>1. iocp # <<>> => First.slot \in Slots
    BY FirstTyped
  <1>2. AcceptQueue # <<>> =>
          Head(AcceptQueue) \in Slots /\ Tail(AcceptQueue) \in Seq(Slots)
    BY DEF QueuesType
  <1>3. CASE OfferSlot
    BY <1>2, <1>3 DEF OfferSlot, QueuesType
  <1>4. CASE RefusedSlot
    BY <1>2, <1>4 DEF RefusedSlot, QueuesType
  <1>5. CASE WorkDisconnect \/ WorkAcceptFailed
    <2>1. /\ iocp # <<>>
          /\ sock' = [sock EXCEPT ![First.slot] = "fresh"]
          /\ AcceptQueue' = Append(AcceptQueue, First.slot)
          /\ UNCHANGED <<procSktQueue, arrivals, requests>>
      BY <1>5 DEF WorkDisconnect, WorkAcceptFailed, Took, ResetAndRequeue
    <2> QED
      BY <1>1, <2>1 DEF QueuesType
  <1>6. CASE \/ WorkAccept \/ RecvAgain \/ ReturnReceived \/ WorkSent \/ FetchSub
             \/ Push \/ FetchAdd \/ (\E t \in Threads : SendStep(t)) \/ UNCHANGED vars
    <2>1. UNCHANGED <<AcceptQueue, sock, procSktQueue, arrivals, requests>>
      BY <1>6 DEF WorkAccept, RecvAgain, ReturnReceived, WorkSent, FetchSub, Push, FetchAdd,
                  SendStep, Check, Pop, WSASend, vars
    <2> QED
      BY <2>1 DEF QueuesType
  <1>7. CASE WorkRecv
    <2>1. /\ iocp # <<>>
          /\ procSktQueue' = Append(procSktQueue, First.slot)
          /\ UNCHANGED <<AcceptQueue, sock, arrivals, requests>>
      BY <1>7 DEF WorkRecv, Took
    <2> QED
      BY <1>1, <2>1 DEF QueuesType
  <1>8. CASE HandleRequest
    <2>1. /\ procSktQueue # <<>> /\ procSktQueue' = Tail(procSktQueue)
          /\ UNCHANGED <<AcceptQueue, sock, arrivals, requests>>
      BY <1>8 DEF HandleRequest
    <2> QED
      BY <2>1 DEF QueuesType
  <1>9. CASE KernelStep
    <2>1. \A op \in posted : op.slot \in Slots
      BY DEF SoundState, Sound, OpType
    <2>2. \/ UNCHANGED sock
          \/ \E op \in posted : sock' = [sock EXCEPT ![op.slot] = "up"]
      BY <1>9, KernelCompletes
    <2>3. sock' \in [Slots -> {"fresh", "accepting", "up", "down"}]
      BY <2>1, <2>2 DEF QueuesType
    <2>4. arrivals' \in 0 .. MaxArrivals /\ requests' \in 0 .. MaxRequests
      BY <1>9, KernelCompletes, SlotsAssumption DEF QueuesType
    <2> QED
      BY <1>9, <2>3, <2>4, KernelCompletes DEF QueuesType
  <1>10. CASE \E c \in Slots : Leave(c)
    BY <1>10 DEF Leave, QueuesType
  <1> QED
    BY <1>3, <1>4, <1>5, <1>6, <1>7, <1>8, <1>9, <1>10
       DEF Next, AccepterStep, WorkStep, RedisStep, Threads

(* A thread that goes on keeps hand and label in step. *)
LEMMA GoTyped ==
  ASSUME ThreadsType, NEW t \in Threads, NEW l \in Labels, NEW d \in Slots,
         NEW h \in {<<>>} \cup {<<o>> : o \in Ovl}, h # <<>> <=> l \in Holding,
         Go(t, l, d, h)
  PROVE  ThreadsType'
  <1>1. /\ pc' \in [Threads -> Labels] /\ on' \in [Threads -> Slots]
        /\ hand' \in [Threads -> {<<>>} \cup {<<o>> : o \in Ovl}]
    BY DEF Go, ThreadsType
  <1>2. \A u \in Threads : hand'[u] # <<>> <=> pc'[u] \in Holding
    BY ThreadGoes DEF ThreadsType
  <1> QED
    BY <1>1, <1>2 DEF ThreadsType

LEMMA ThreadsStep ==
  ASSUME SoundState, QueuesType, ThreadsType, AcceptIds, [Next]_vars
  PROVE  ThreadsType'
  <1> DEFINE Empty == {"idle", "add", "sub", "check", "pop"}
  <1>1. ASSUME NEW t \in Threads, NEW l \in Empty, NEW d \in Slots, Go(t, l, d, <<>>)
        PROVE  ThreadsType'
    <2>1. l \in Labels /\ l \notin Holding
      BY DEF Labels, Holding
    <2> QED
      BY <1>1, <2>1, GoTyped
  <1>2. ASSUME NEW t \in Threads, NEW l \in Holding, NEW d \in Slots, NEW o \in Ovl,
               Go(t, l, d, <<o>>)
        PROVE  ThreadsType'
    <2>1. l \in Labels
      BY DEF Labels, Holding
    <2>2. <<o>> # <<>> /\ <<o>> \in {<<x>> : x \in Ovl}
      BY Single
    <2> QED
      BY <1>2, <2>1, <2>2, GoTyped
  <1>3. \A t \in Threads : on[t] \in Slots
    BY HandTyped
  <1>4. CASE UNCHANGED thread
    BY <1>4 DEF thread, ThreadsType
  <1>5. CASE Push \/ FetchAdd \/ FetchSub \/ ReturnReceived
    <2>1. \E t \in Threads : \E l \in Empty : \E d \in Slots : Go(t, l, d, <<>>)
      BY <1>3, <1>5, CenterIsSlot DEF Push, FetchAdd, FetchSub, ReturnReceived, Return, Threads
    <2> QED
      BY <1>1, <2>1
  <1>6. ASSUME NEW t \in Threads, Check(t) \/ WSASend(t)
        PROVE  ThreadsType'
    <2>1. \E l \in Empty : \E d \in Slots : Go(t, l, d, <<>>)
      BY <1>3, <1>6, CenterIsSlot DEF Check, WSASend, Return
    <2> QED
      BY <1>1, <2>1
  <1>7. ASSUME NEW t \in Threads, Pop(t)
        PROVE  ThreadsType'
    <2>1. CASE Return(t)
      BY <1>1, <2>1, CenterIsSlot DEF Return
    <2>2. CASE sendQueue[on[t]] # <<>> /\ Go(t, "send", on[t], <<Head(sendQueue[on[t]])>>)
      <3>1. Head(sendQueue[on[t]]) \in Ovl
        BY <1>3, <2>2, Popped DEF SoundState
      <3> QED
        BY <1>2, <1>3, <2>2, <3>1 DEF Holding
    <2> QED
      BY <1>7, <2>1, <2>2 DEF Pop
  <1>8. CASE WorkRecv
    <2>1. First.id \in Ovl /\ First.slot \in Slots
      BY <1>8, FirstTyped DEF WorkRecv, Took, First
    <2>2. Go("worker", "recv", First.slot, <<First.id>>)
      BY <1>8 DEF WorkRecv
    <2> QED
      BY <1>2, <2>1, <2>2 DEF Holding, Threads
  <1>9. CASE RecvAgain
    <2>1. pc["worker"] = "recv" /\ Go("worker", "return", on["worker"], hand["worker"])
      BY <1>9 DEF RecvAgain
    <2>2. Head(hand["worker"]) \in Ovl /\ hand["worker"] = <<Head(hand["worker"])>>
      BY <2>1, HandTyped DEF Holding, Threads
    <2>3. "return" \in Holding /\ "worker" \in Threads
      BY DEF Holding, Threads
    <2> QED
      BY <1>2, <1>3, <2>1, <2>2, <2>3
  <1>10. CASE WorkSent
    <2>1. First.slot \in Slots /\ Go("worker", "sub", First.slot, <<>>)
      BY <1>10, FirstTyped DEF WorkSent, Took
    <2> QED
      BY <1>1, <2>1 DEF Threads
  <1>11. CASE HandleRequest
    <2>1. Fillable \subseteq Ovl
      BY DEF Fillable, SoundState, Sound, Ovl
    <2>2. Head(procSktQueue) \in Slots
      BY <1>11, Popped DEF HandleRequest, QueuesType
    <2>3. \/ \E o \in Ovl : Go("redis", "push", Head(procSktQueue), <<o>>)
          \/ UNCHANGED thread
      BY <1>11, <2>1 DEF HandleRequest
    <2>4. "push" \in Holding /\ "redis" \in Threads
      BY DEF Holding, Threads
    <2> QED
      BY <1>2, <1>4, <2>2, <2>3, <2>4
  <1>12. CASE \/ AccepterStep \/ KernelStep \/ (\E c \in Slots : Leave(c)) \/ UNCHANGED vars
              \/ WorkDisconnect \/ WorkAccept \/ WorkAcceptFailed
    <2>1. UNCHANGED thread
      BY <1>12, KernelCompletes
         DEF AccepterStep, OfferSlot, RefusedSlot, Leave, vars, thread, WorkDisconnect,
             WorkAccept, WorkAcceptFailed
    <2> QED
      BY <1>4, <2>1
  <1> QED
    BY <1>5, <1>6, <1>7, <1>8, <1>9, <1>10, <1>11, <1>12
       DEF Next, WorkStep, RedisStep, SendStep, Threads

LEMMA CounterStep ==
  ASSUME SoundState, ThreadsType, CounterType, [Next]_vars
  PROVE  CounterType'
  <1>1. \A n \in 0 .. SizeMod - 1 : Inc(n) \in 0 .. SizeMod - 1 /\ Dec(n) \in 0 .. SizeMod - 1
    <2>0. SizeMod \in Nat /\ SizeMod > 0
      BY SlotsAssumption
    <2>1. \A x \in Int : x % SizeMod \in 0 .. SizeMod - 1
      BY <2>0, Division
    <2> QED
      BY <2>0, <2>1 DEF Inc, Dec
  <1>2. CASE UNCHANGED <<sendQueueSize, uncounted>>
    BY <1>2 DEF CounterType
  <1>3. CASE FetchAdd \/ FetchSub
    <2>1. \E c \in Slots : \E n \in {Inc(sendQueueSize[c]), Dec(sendQueueSize[c])} :
            sendQueueSize' = [sendQueueSize EXCEPT ![c] = n]
      BY <1>3, HandTyped DEF FetchAdd, FetchSub, Threads
    <2> QED
      BY <1>1, <1>3, <2>1 DEF FetchAdd, FetchSub, CounterType
  <1>4. CASE WorkDisconnect
    BY <1>4, FirstTyped DEF WorkDisconnect, Took, reply, CounterType
  <1>5. ASSUME NEW t \in Threads, WSASend(t)
        PROVE  CounterType'
    BY <1>5, HandTyped DEF WSASend, reply, CounterType
  <1>6. CASE \/ AccepterStep \/ KernelStep \/ (\E c \in Slots : Leave(c)) \/ UNCHANGED vars
             \/ WorkAccept \/ WorkAcceptFailed \/ WorkRecv \/ RecvAgain \/ ReturnReceived
             \/ WorkSent \/ HandleRequest \/ Push \/ \E t \in Threads : Check(t) \/ Pop(t)
    <2>1. UNCHANGED <<sendQueueSize, uncounted>>
      BY <1>6, KernelCompletes
         DEF AccepterStep, OfferSlot, RefusedSlot, Leave, vars, WorkAccept, WorkAcceptFailed,
             WorkRecv, RecvAgain, ReturnReceived, WorkSent, HandleRequest, Push, Check, Pop, reply
    <2> QED
      BY <1>2, <2>1
  <1> QED
    BY <1>3, <1>4, <1>5, <1>6 DEF Next, WorkStep, RedisStep, SendStep, Threads

LEMMA ShapeInit ==
  ASSUME Init
  PROVE  QueuesType /\ ThreadsType /\ CounterType /\ AcceptIds
  <1>1. QueuesType
    <2>1. MaxUsersObject - 1 \in Nat /\ \A i \in 1 .. MaxUsersObject - 1 : i \in Slots
      BY SlotsAssumption DEF Slots
    <2>2. AcceptQueue \in Seq(Slots)
      BY <2>1 DEF Init
    <2>3. sock \in [Slots -> {"fresh", "accepting", "up", "down"}]
      BY DEF Init, InitCenterUp, InitCenterDown
    <2> QED
      BY <2>2, <2>3, SlotsAssumption DEF Init, QueuesType
  <1>2. ThreadsType
    BY CenterIsSlot DEF Init, ThreadsType, Labels, Holding
  <1>3. CounterType
    BY SlotsAssumption DEF Init, InitCenterUp, InitCenterDown, CounterType
  <1>4. AcceptIds
    <2>1. \A o \in Pooled : \A k \in {"RECV", "SEND"} : RightId(Op(o, Center, k))
      BY RightOps DEF Ovl
    <2>2. \A op \in posted : RightId(op)
      BY <2>1 DEF Init, InitCenterUp, InitCenterDown
    <2> QED
      BY <2>2 DEF Init, AcceptIds
  <1> QED
    BY <1>1, <1>2, <1>3, <1>4

-----------------------------------------------------------------------------
(* What Init establishes and every step keeps.  A count is lost or gained with
   one reply because no two parts of the server hold the same object, and owners
   stay single because hands and labels go together: no part is inductive alone. *)
IInv ==
  /\ TypeOK
  /\ OneOwner
  /\ SendCounterAccounts
  /\ \A c \in Slots : IsFiniteSet(Due(c))
  /\ SlotReachable
  /\ AcceptIds

Parts ==
  /\ SoundState /\ QueuesType /\ ThreadsType /\ CounterType /\ Accounted
  /\ SlotReachable /\ AcceptIds

LEMMA AccountedIs ==
  Accounted <=> SendCounterAccounts /\ \A c \in Slots : IsFiniteSet(Due(c))
  BY DEF Accounted, Accounts, Account, SendCounterAccounts

LEMMA IInvParts == IInv <=> Parts
  BY SoundIs, TypeParts, AccountedIs DEF IInv, Parts

LEMMA IInvPartsNext == IInv' <=> Parts'
  BY IInvParts, PTL

LEMMA IInvInit == Init => IInv
  BY SoundInit, ShapeInit, AccountedInit, ReachInit, IInvParts DEF Parts

LEMMA IInvStep == IInv /\ [Next]_vars => IInv'
  <1> SUFFICES ASSUME Parts, [Next]_vars
               PROVE  Parts'
    BY IInvParts, IInvPartsNext
  <1>1. SoundState' /\ QueuesType' /\ ThreadsType' /\ CounterType'
    BY SoundStep, QueuesStep, ThreadsStep, CounterStep DEF Parts
  <1>2. Booked
    BY SoundIs DEF Parts, Booked
  <1>3. Accounted' /\ SlotReachable' /\ AcceptIds'
    BY <1>2, AccountedStep, ReachStep, AcceptIdsStep DEF Parts
  <1> QED
    BY <1>1, <1>3 DEF Parts

(* IInv holds in every reachable state of the slots. *)
THEOREM Inductive == Spec => []IInv
  BY IInvInit, IInvStep, PTL DEF Spec

(* The state keeps its shape, the counters their width, and a thread holds an
   object exactly where the code has one in its local variable. *)
THEOREM TypeCorrect == Spec => []TypeOK
  <1>1. IInv => TypeOK
    BY DEF IInv
  <1> QED
    BY <1>1, Inductive, PTL

(* However pool, queues, threads and kernel pass the OverlappedEx objects on,
   and whatever is reset in between, none is held twice. *)
THEOREM OneOwnerCorrect == Spec => []OneOwner
  <1>1. IInv => OneOwner
    BY DEF IInv
  <1> QED
    BY <1>1, Inductive, PTL

(* Whatever the order of push, count, completion, failed send and reset, the
   counter differs from the replies on their way by exactly the reply pushed and
   not yet added, the one completed and not yet subtracted, and those that ended
   without a SendComplete, which no later client of the slot gets back. *)
THEOREM SendCounterAccountsCorrect == Spec => []SendCounterAccounts
  <1>1. IInv => SendCounterAccounts
    BY DEF IInv
  <1> QED
    BY <1>1, Inductive, PTL

(* No order of failed completions, refused offers and arrivals takes a client
   slot out of the rotation between accepter and worker. *)
THEOREM SlotReachableCorrect == Spec => []SlotReachable
  <1>1. IInv => SlotReachable
    BY DEF IInv
  <1> QED
    BY <1>1, Inductive, PTL

-----------------------------------------------------------------------------
(* Which pooled objects go out of circulation. *)

Kept(f, p, q, w, o) == o \in f \/ Posted(p, o) \/ InPort(q, o) \/ InQueue(w, o)

KeptNow(o)  == Kept(pool, posted, iocp, Waits, o)
KeptNext(o) == Kept(pool', posted', iocp', Waits', o)

(* Circulating in terms of the holders, now and in the next state. *)
LEMMA CirculatingIs ==
  ASSUME SoundState
  PROVE  \A o : o \in Circulating <=> o \in Pooled /\ KeptNow(o)
  BY InUseIs DEF Circulating, KeptNow, Kept, SoundState, Sound

LEMMA CirculatingIsNext ==
  ASSUME SoundState'
  PROVE  \A o : o \in Circulating' <=> o \in Pooled /\ KeptNext(o)
  BY InUseIsNext DEF Circulating, KeptNext, Kept, SoundState, Sound

(* A step that takes the first packet keeps every other packet. *)
LEMMA TakenKept ==
  ASSUME SoundState, iocp # <<>>
  PROVE  \A o : InPort(iocp, o) => o = First.id \/ InPort(Tail(iocp), o)
  <1>1. \A i \in DOMAIN iocp : \/ i = 1 /\ iocp[i] = Head(iocp)
                               \/ i - 1 \in DOMAIN Tail(iocp) /\ Tail(iocp)[i - 1] = iocp[i]
    BY DEF SoundState, Sound, Ports
  <1> QED
    BY <1>1 DEF InPort, First

(* Whoever posts an operation holds its object. *)
LEMMA PostKept ==
  ASSUME NEW p, NEW e, NEW c, NEW t
  PROVE  /\ Posted(p \cup {Op(e, c, t)}, e)
         /\ \A o : Posted(p, o) => Posted(p \cup {Op(e, c, t)}, o)
  <1>1. Op(e, c, t) \in p \cup {Op(e, c, t)} /\ Op(e, c, t).id = e
    BY DEF Op
  <1> HIDE DEF Op
  <1> QED
    BY <1>1 DEF Posted

(* A reset keeps the objects of the operations it orphans. *)
LEMMA OrphanKept ==
  ASSUME NEW p \in SUBSET OpType, NEW q \in Ports, NEW d \in Slots, NEW o
  PROVE  /\ Posted(p, o) => Posted({Orphan(d, op) : op \in p}, o)
         /\ InPort(q, o) => InPort(OrphanPackets(d, q), o)
  <1>1. Posted(p, o) => Posted({Orphan(d, op) : op \in p}, o)
    <2>1. \A op \in p : Orphan(d, op).id = op.id
      BY Orphaned
    <2> QED
      BY <2>1 DEF Posted
  <1>2. InPort(q, o) => InPort(OrphanPackets(d, q), o)
    <2>1. /\ DOMAIN OrphanPackets(d, q) = DOMAIN q
          /\ \A i \in DOMAIN q : OrphanPackets(d, q)[i].op = Orphan(d, q[i].op) /\ q[i].op \in OpType
      BY OrphanedPackets DEF Ports
    <2>2. \A i \in DOMAIN q : OrphanPackets(d, q)[i].op.id = q[i].op.id
      BY <2>1, Orphaned
    <2> QED
      BY <2>1, <2>2 DEF InPort
  <1> QED
    BY <1>1, <1>2

(* What enters a holder is held there; only the first object leaves. *)
LEMMA TakesKept ==
  ASSUME NEW w \in Waiting, NEW h \in Holders, NEW o \in Ovl
  PROVE  /\ InQueue(Takes(w, h, o), o)
         /\ \A x : InQueue(w, x) => InQueue(Takes(w, h, o), x)
  <1> DEFINE w1 == Takes(w, h, o)
  <1>1. w[h] \in Seq(Ovl) /\ w1[h] = Append(w[h], o) /\ \A g \in Holders : g # h => w1[g] = w[g]
    BY DEF Waiting, Takes
  <1> HIDE DEF w1
  <1>2. /\ Len(w[h]) + 1 \in DOMAIN w1[h] /\ w1[h][Len(w[h]) + 1] = o
        /\ \A i \in DOMAIN w[h] : i \in DOMAIN w1[h] /\ w1[h][i] = w[h][i]
    BY <1>1
  <1> QED
    BY <1>1, <1>2 DEF InQueue, w1

LEMMA GivesKept ==
  ASSUME NEW w \in Waiting, NEW h \in Holders, w[h] # <<>>
  PROVE  /\ Gives(w, h) \in Waiting
         /\ \A x : InQueue(w, x) => x = Head(w[h]) \/ InQueue(Gives(w, h), x)
  <1> DEFINE w1 == Gives(w, h)
  <1>1. w[h] \in Seq(Ovl) /\ w1[h] = Tail(w[h]) /\ \A g \in Holders : g # h => w1[g] = w[g]
    BY DEF Waiting, Gives
  <1>2. w1 \in Waiting
    BY <1>1, Popped DEF Waiting, Gives
  <1> HIDE DEF w1
  <1>3. \A i \in DOMAIN w[h] : \/ w[h][i] = Head(w[h])
                               \/ i - 1 \in DOMAIN w1[h] /\ w1[h][i - 1] = w[h][i]
    BY <1>1
  <1> QED
    BY <1>1, <1>2, <1>3 DEF InQueue, w1

(* The steps that lose nothing. *)
LEMMA KernelKept ==
  ASSUME SoundState, KernelStep, NEW o, KeptNow(o)
  PROVE  KeptNext(o)
  <1>1. PICK op \in posted, ok \in BOOLEAN : Complete(op, ok)
    BY KernelCompletes
  <1>2. /\ posted' = posted \ {op} /\ iocp' = Append(iocp, Packet(op, ok))
        /\ UNCHANGED <<pool, sendQueue, hand>>
    BY <1>1, KernelCompletes DEF Complete, reply, thread
  <1>3. /\ Packet(op, ok) \in Packets /\ Packet(op, ok).op = op
        /\ iocp \in Seq(Packets)
    BY DEF Packets, Packet, SoundState, Sound, Ports
  <1>4. /\ DOMAIN iocp \subseteq DOMAIN iocp'
        /\ \A i \in DOMAIN iocp : iocp'[i] = iocp[i]
        /\ Len(iocp) + 1 \in DOMAIN iocp' /\ iocp'[Len(iocp) + 1] = Packet(op, ok)
    <2> HIDE DEF Packets
    <2> QED
      BY <1>2, <1>3
  <1>5. InPort(iocp', op.id) /\ (InPort(iocp, o) => InPort(iocp', o))
    BY <1>3, <1>4 DEF InPort
  <1>6. Posted(posted, o) => o = op.id \/ Posted(posted', o)
    BY <1>2 DEF Posted
  <1>7. Waits' = Waits
    BY <1>2, SameWaits
  <1> QED
    BY <1>2, <1>5, <1>6, <1>7 DEF KeptNow, KeptNext, Kept

LEMMA AcceptedKept ==
  ASSUME SoundState, AcceptIds, WorkAccept, NEW o \in Pooled, KeptNow(o)
  PROVE  KeptNext(o)
  <1>1. /\ iocp # <<>> /\ First.task = "ACCEPT" /\ iocp' = Tail(iocp)
        /\ UNCHANGED <<sendQueue, hand>>
    BY DEF WorkAccept, Took, First, reply, thread
  <1>2. First.id \notin Pooled
    BY <1>1, FirstTyped, IdsAssumption DEF RightId
  <1>3. PICK e \in pool : /\ posted' = posted \cup {Op(e, First.slot, "RECV")}
                          /\ pool' = pool \ {e}
    BY DEF WorkAccept
  <1>4. Posted(posted', e) /\ (Posted(posted, o) => Posted(posted', o))
    BY <1>3, PostKept
  <1>5. InPort(iocp, o) => InPort(iocp', o)
    BY <1>1, <1>2, TakenKept
  <1>6. Waits' = Waits
    BY <1>1, SameWaits
  <1> QED
    BY <1>3, <1>4, <1>5, <1>6 DEF KeptNow, KeptNext, Kept

LEMMA ReceivedKept ==
  ASSUME SoundState, ThreadsType, AcceptIds, WorkRecv, NEW o, KeptNow(o)
  PROVE  KeptNext(o)
  <1> DEFINE e == First.id
             h == <<"hand", "worker">>
  <1>1. /\ iocp # <<>> /\ iocp' = Tail(iocp) /\ First.task = "RECV" /\ pc["worker"] = "idle"
        /\ UNCHANGED <<pool, posted, sendQueue>>
        /\ hand' = [hand EXCEPT !["worker"] = <<e>>]
    BY DEF WorkRecv, Took, Go, reply, First
  <1>2. e \in Ovl /\ hand["worker"] = <<>> /\ h \in Holders /\ Waits \in Waiting
    BY <1>1, FirstTyped, HandTyped DEF Threads, Holding, Holders, SoundState, Sound
  <1>3. Waits' = Takes(Waits, h, e)
    BY <1>1, <1>2, TakenInHand DEF Threads
  <1>4. InQueue(Waits', e) /\ (InQueue(Waits, o) => InQueue(Waits', o))
    BY <1>2, <1>3, TakesKept
  <1>5. InPort(iocp, o) => o = e \/ InPort(iocp', o)
    BY <1>1, TakenKept
  <1> QED
    BY <1>1, <1>4, <1>5 DEF KeptNow, KeptNext, Kept

LEMMA ReturnedKept ==
  ASSUME SoundState, ThreadsType, ReturnReceived, NEW o \in Pooled, KeptNow(o)
  PROVE  KeptNext(o)
  <1> DEFINE e == Head(hand["worker"])
             h == <<"hand", "worker">>
  <1>1. /\ pc["worker"] = "return" /\ pool' = Returned(pool, e)
        /\ UNCHANGED <<posted, iocp, sendQueue>>
        /\ hand' = [hand EXCEPT !["worker"] = <<>>]
    BY DEF ReturnReceived, Return, Go, reply, kernel
  <1>2. pc["worker"] \in Holding /\ "worker" \in Threads
    BY <1>1 DEF Threads, Holding
  <1>3. Waits' = Gives(Waits, h)
    BY <1>1, <1>2, GivenFromHand
  <1>4. h \in Holders /\ Waits[h] = hand["worker"] /\ Waits[h] # <<>> /\ Waits \in Waiting
    BY <1>2, WaitsAt DEF ThreadsType, SoundState, Sound
  <1>5. InQueue(Waits, o) => o = e \/ InQueue(Waits', o)
    <2>1. \A x : InQueue(Waits, x) => x = Head(Waits[h]) \/ InQueue(Gives(Waits, h), x)
      <3> HIDE DEF h
      <3> QED
        BY <1>4, GivesKept
    <2> QED
      BY <1>3, <1>4, <2>1
  <1>6. (o \in pool => o \in pool') /\ (o = e => o \in pool')
    BY <1>1 DEF Returned
  <1> QED
    BY <1>1, <1>5, <1>6 DEF KeptNow, KeptNext, Kept

LEMMA SentKept ==
  ASSUME SoundState, ThreadsType, WorkSent, NEW o \in Pooled, KeptNow(o)
  PROVE  KeptNext(o)
  <1>1. /\ iocp # <<>> /\ iocp' = Tail(iocp) /\ pool' = Returned(pool, First.id)
        /\ pc["worker"] = "idle" /\ UNCHANGED <<posted, sendQueue>>
        /\ hand' = [hand EXCEPT !["worker"] = <<>>]
    BY DEF WorkSent, Took, Go, reply
  <1>2. hand["worker"] = <<>>
    BY <1>1, HandTyped DEF Threads, Holding
  <1>3. hand' = hand
    BY <1>1, <1>2 DEF ThreadsType
  <1>4. Waits' = Waits
    BY <1>1, <1>3, SameWaits
  <1>5. InPort(iocp, o) => o = First.id \/ InPort(iocp', o)
    BY <1>1, TakenKept
  <1>6. (o \in pool => o \in pool') /\ (o = First.id => o \in pool')
    BY <1>1 DEF Returned
  <1> QED
    BY <1>1, <1>4, <1>5, <1>6 DEF KeptNow, KeptNext, Kept

LEMMA HandledKept ==
  ASSUME SoundState, ThreadsType, HandleRequest, NEW o, KeptNow(o)
  PROVE  KeptNext(o)
  <1> DEFINE h == <<"hand", "redis">>
  <1>1. /\ pc["redis"] = "idle" /\ UNCHANGED <<posted, iocp, sendQueue>>
        /\ \/ \E e \in Fillable : /\ pool' = pool \ {e}
                                  /\ hand' = [hand EXCEPT !["redis"] = <<e>>]
           \/ UNCHANGED <<pool, hand>>
    BY DEF HandleRequest, Go, kernel, reply, thread
  <1>2. hand["redis"] = <<>> /\ h \in Holders /\ "redis" \in Threads /\ Waits \in Waiting
    BY <1>1, HandTyped DEF Threads, Holding, Holders, SoundState, Sound
  <1>3. Fillable \subseteq Ovl
    BY DEF Fillable, SoundState, Sound, Ovl
  <1>4. ASSUME NEW e \in Fillable, pool' = pool \ {e}, hand' = [hand EXCEPT !["redis"] = <<e>>]
        PROVE  KeptNext(o)
    <2>1. e \in Ovl /\ Waits' = Takes(Waits, h, e)
      BY <1>1, <1>2, <1>3, <1>4, TakenInHand
    <2>2. InQueue(Waits', e) /\ (InQueue(Waits, o) => InQueue(Waits', o))
      BY <1>2, <2>1, TakesKept
    <2>3. o \in pool => o = e \/ o \in pool'
      BY <1>4
    <2> QED
      BY <1>1, <2>2, <2>3 DEF KeptNow, KeptNext, Kept
  <1>5. CASE UNCHANGED <<pool, hand>>
    BY <1>1, <1>5, SameWaits DEF KeptNow, KeptNext, Kept
  <1> QED
    BY <1>1, <1>4, <1>5

(* An object passed from one holder to another stays held. *)
LEMMA PassedKept ==
  ASSUME NEW w \in Waiting, NEW h \in Holders, NEW g \in Holders, NEW e \in Ovl,
         w[h] # <<>>, e = Head(w[h])
  PROVE  \A x : InQueue(w, x) => InQueue(Takes(Gives(w, h), g, e), x)
  <1>1. /\ Gives(w, h) \in Waiting
        /\ \A x : InQueue(w, x) => x = e \/ InQueue(Gives(w, h), x)
    BY GivesKept
  <1>2. /\ InQueue(Takes(Gives(w, h), g, e), e)
        /\ \A x : InQueue(Gives(w, h), x) => InQueue(Takes(Gives(w, h), g, e), x)
    BY <1>1, TakesKept
  <1> QED
    BY <1>1, <1>2

LEMMA PushedKept ==
  ASSUME SoundState, ThreadsType, Push, NEW o, KeptNow(o)
  PROVE  KeptNext(o)
  <1> DEFINE c == on["redis"]
             e == Head(hand["redis"])
             h == <<"hand", "redis">>
             g == <<"queue", c>>
  <1>1. /\ pc["redis"] = "push" /\ UNCHANGED <<pool, posted, iocp>>
        /\ sendQueue' = [sendQueue EXCEPT ![c] = Append(@, e)]
        /\ hand' = [hand EXCEPT !["redis"] = <<>>]
    BY DEF Push, Go, kernel
  <1>2. pc["redis"] \in Holding /\ "redis" \in Threads
    BY <1>1 DEF Threads, Holding
  <1>3. c \in Slots /\ e \in Ovl
    BY <1>2, HandTyped
  <1>4. Waits' = Takes(Gives(Waits, h), g, e)
    BY <1>1, <1>2, <1>3, HandToQueue
  <1>5. /\ h \in Holders /\ Waits[h] = hand["redis"] /\ Waits[h] # <<>> /\ g \in Holders
        /\ Waits \in Waiting
    BY <1>2, <1>3, WaitsAt DEF ThreadsType, SoundState, Sound
  <1>6. e = Head(Waits[h])
    BY <1>5
  <1>7. InQueue(Waits, o) => InQueue(Waits', o)
    <2> HIDE DEF h, g, e
    <2> QED
      BY <1>3, <1>4, <1>5, <1>6, PassedKept
  <1> QED
    BY <1>1, <1>7 DEF KeptNow, KeptNext, Kept

LEMMA PoppedKept ==
  ASSUME SoundState, ThreadsType, NEW t \in Threads, Pop(t), NEW o, KeptNow(o)
  PROVE  KeptNext(o)
  <1> DEFINE c == on[t]
             e == Head(sendQueue[c])
             h == <<"hand", t>>
             g == <<"queue", c>>
  <1>1. /\ pc[t] = "pop" /\ UNCHANGED <<pool, posted, iocp>>
        /\ \/ hand' = [hand EXCEPT ![t] = <<>>] /\ UNCHANGED sendQueue
           \/ /\ sendQueue[c] # <<>>
              /\ sendQueue' = [sendQueue EXCEPT ![c] = Tail(sendQueue[c])]
              /\ hand' = [hand EXCEPT ![t] = <<e>>]
    BY DEF Pop, Return, Go, kernel
  <1>2. hand[t] = <<>> /\ c \in Slots /\ sendQueue[c] \in Seq(Ovl) /\ Waits \in Waiting
    BY <1>1, HandTyped DEF Holding, SoundState, Sound
  <1>3. h \in Holders /\ g \in Holders /\ Waits[g] = sendQueue[c]
    BY <1>2, WaitsAt
  <1>4. CASE hand' = [hand EXCEPT ![t] = <<>>] /\ UNCHANGED sendQueue
    <2>1. hand' = hand
      BY <1>2, <1>4 DEF ThreadsType
    <2> QED
      BY <1>1, <1>4, <2>1, SameWaits DEF KeptNow, KeptNext, Kept
  <1>5. CASE /\ sendQueue[c] # <<>>
             /\ sendQueue' = [sendQueue EXCEPT ![c] = Tail(sendQueue[c])]
             /\ hand' = [hand EXCEPT ![t] = <<e>>]
    <2>1. Waits' = Takes(Gives(Waits, g), h, e)
      BY <1>2, <1>5, QueueToHand
    <2>2. e \in Ovl /\ Waits[g] # <<>> /\ e = Head(Waits[g])
      BY <1>2, <1>3, <1>5, Popped
    <2>3. InQueue(Waits, o) => InQueue(Waits', o)
      <3> HIDE DEF h, g, e
      <3> QED
        BY <1>2, <1>3, <2>1, <2>2, PassedKept
    <2> QED
      BY <1>1, <2>3 DEF KeptNow, KeptNext, Kept
  <1> QED
    BY <1>1, <1>4, <1>5

(* The steps that may lose an object, and which one. *)
LEMMA DisconnectLoses ==
  ASSUME SoundState, WorkDisconnect \/ WorkAcceptFailed, NEW o, KeptNow(o), ~ KeptNext(o)
  PROVE  TookFirst /\ (o = First.id \/ (o \in pool /\ pool' # pool))
  <1> DEFINE d == First.slot
  <1>1. /\ iocp # <<>> /\ posted' = {Orphan(d, op) : op \in posted}
        /\ iocp' = OrphanPackets(d, Tail(iocp)) /\ UNCHANGED <<sendQueue, hand>>
    BY DEF WorkDisconnect, WorkAcceptFailed, Took, ResetAndRequeue, OrphanOps, reply, thread
  <1>2. /\ d \in Slots /\ posted \in SUBSET OpType /\ iocp \in Ports /\ Tail(iocp) \in Ports
    BY <1>1, FirstTyped, TakenSound DEF SoundState, Sound
  <1> HIDE DEF d
  <1>3. /\ Posted(posted, o) => Posted(posted', o)
        /\ InPort(Tail(iocp), o) => InPort(iocp', o)
    BY <1>1, <1>2, OrphanKept
  <1>4. InPort(iocp, o) => o = First.id \/ InPort(iocp', o)
    BY <1>1, <1>3, TakenKept
  <1>5. Waits' = Waits
    BY <1>1, SameWaits
  <1>6. o = First.id \/ (o \in pool /\ o \notin pool')
    BY <1>3, <1>4, <1>5 DEF KeptNow, KeptNext, Kept
  <1>7. TookFirst
    <2>1. Len(iocp') = Len(Tail(iocp))
      BY <1>1, <1>2, OrphanedPackets DEF Ports
    <2>2. Len(Tail(iocp)) = Len(iocp) - 1 /\ Len(iocp) \in Nat
      <3> HIDE DEF Packets
      <3> QED
        BY <1>1, <1>2 DEF Ports
    <2> QED
      BY <2>1, <2>2 DEF TookFirst
  <1> QED
    BY <1>6, <1>7

LEMMA RecvAgainLoses ==
  ASSUME SoundState, ThreadsType, RecvAgain, NEW o, KeptNow(o), ~ KeptNext(o)
  PROVE  pc["worker"] = "recv" /\ sock[on["worker"]] # "up" /\ o \in pool
  <1> DEFINE c == on["worker"]
  <1>1. /\ pc["worker"] = "recv" /\ UNCHANGED <<iocp, sendQueue>>
        /\ hand' = [hand EXCEPT !["worker"] = hand["worker"]]
        /\ \/ \E e \in pool : /\ posted' = posted \cup {Op(e, c, "RECV")}
                              /\ pool' = pool \ {e}
           \/ /\ sock[c] # "up" /\ UNCHANGED posted
              /\ \E e \in pool : pool' = pool \ {e}
           \/ UNCHANGED <<pool, posted>>
    BY DEF RecvAgain, Go, reply
  <1>2. hand' = hand
    BY <1>1 DEF ThreadsType, Threads
  <1>3. Waits' = Waits
    BY <1>1, <1>2, SameWaits
  <1>4. \A e \in pool : posted' = posted \cup {Op(e, c, "RECV")} =>
          /\ Posted(posted', e)
          /\ Posted(posted, o) => Posted(posted', o)
    BY PostKept
  <1> HIDE DEF c
  <1>5. sock[c] # "up" /\ o \in pool
    BY <1>1, <1>3, <1>4 DEF KeptNow, KeptNext, Kept
  <1> QED
    BY <1>1, <1>5 DEF c

LEMMA SendLoses ==
  ASSUME SoundState, ThreadsType, NEW t \in Threads, WSASend(t), NEW o, KeptNow(o), ~ KeptNext(o)
  PROVE  pc[t] = "send" /\ sock[on[t]] # "up" /\ hand[t] = <<o>>
  <1> DEFINE c == on[t]
             e == Head(hand[t])
             h == <<"hand", t>>
  <1>1. /\ pc[t] = "send" /\ UNCHANGED <<pool, iocp, sendQueue>>
        /\ hand' = [hand EXCEPT ![t] = <<>>]
        /\ \/ \E k \in {"SEND", "NEWSEND"} : posted' = posted \cup {Op(e, c, k)}
           \/ sock[c] # "up" /\ UNCHANGED posted
    BY DEF WSASend, Return, Go, reply
  <1>2. pc[t] \in Holding /\ hand[t] = <<e>>
    BY <1>1, HandTyped DEF Holding
  <1>3. Waits' = Gives(Waits, h)
    BY <1>1, <1>2, GivenFromHand
  <1>4. h \in Holders /\ Waits[h] = hand[t] /\ Waits[h] # <<>> /\ Waits \in Waiting
    BY <1>2, WaitsAt DEF ThreadsType, SoundState, Sound
  <1>5. InQueue(Waits, o) => o = e \/ InQueue(Waits', o)
    <2>1. \A x : InQueue(Waits, x) => x = Head(Waits[h]) \/ InQueue(Gives(Waits, h), x)
      <3> HIDE DEF h
      <3> QED
        BY <1>4, GivesKept
    <2> QED
      BY <1>3, <1>4, <2>1
  <1>6. \A k : posted' = posted \cup {Op(e, c, k)} =>
          /\ Posted(posted', e)
          /\ Posted(posted, o) => Posted(posted', o)
    BY PostKept
  <1> HIDE DEF e, c
  <1>7. sock[c] # "up" /\ o = e
    BY <1>1, <1>5, <1>6 DEF KeptNow, KeptNext, Kept
  <1> QED
    BY <1>1, <1>2, <1>7 DEF c

LEMMA LostStep ==
  ASSUME IInv, [Next]_vars, NEW o \in Circulating \ Circulating'
  PROVE  \/ TookFirst /\ ~Head(iocp).ok /\ o = First.id
         \/ TookFirst /\ First.task = "ACCEPT" /\ sock[First.slot] # "up" /\ o \in pool
         \/ pc["worker"] = "recv" /\ sock[on["worker"]] # "up" /\ o \in pool
         \/ \E t \in Threads : pc[t] = "send" /\ sock[on[t]] # "up" /\ hand[t] = <<o>>
  <1>1. SoundState /\ SoundState' /\ ThreadsType /\ AcceptIds
    BY IInvParts, IInvPartsNext, IInvStep DEF Parts
  <1>2. o \in Pooled /\ KeptNow(o) /\ ~ KeptNext(o)
    BY <1>1, CirculatingIs, CirculatingIsNext
  <1>3. CASE OfferSlot
    <2>1. posted \subseteq posted' /\ UNCHANGED <<pool, iocp, sendQueue, hand>>
      BY <1>3, PostedGrows DEF OfferSlot, reply, thread
    <2> QED
      BY <1>2, <2>1, SameWaits DEF KeptNow, KeptNext, Kept, Posted
  <1>4. CASE \/ RefusedSlot \/ (\E c \in Slots : Leave(c)) \/ UNCHANGED vars
             \/ FetchAdd \/ FetchSub \/ \E t \in Threads : Check(t)
    <2>1. UNCHANGED <<pool, posted, iocp, sendQueue>>
      BY <1>4 DEF RefusedSlot, Leave, vars, FetchAdd, FetchSub, Check, kernel, reply
    <2>2. hand' = hand
      <3>1. CASE RefusedSlot \/ (\E c \in Slots : Leave(c)) \/ UNCHANGED vars
        BY <3>1 DEF RefusedSlot, Leave, vars, thread
      <3>2. CASE FetchAdd \/ FetchSub \/ \E t \in Threads : Check(t)
        <4>1. \E t \in Threads : pc[t] \notin Holding /\ hand' = [hand EXCEPT ![t] = <<>>]
          BY <3>2 DEF FetchAdd, FetchSub, Check, Go, Return, Holding, Threads
        <4> QED
          BY <1>1, <4>1, HandTyped DEF ThreadsType
      <3> QED
        BY <1>4, <3>1, <3>2
    <2> QED
      BY <1>2, <2>1, <2>2, SameWaits DEF KeptNow, KeptNext
  <1>5. CASE WorkDisconnect
    <2>1. ~ Head(iocp).ok /\ pool' = pool
      BY <1>5 DEF WorkDisconnect, Took
    <2> QED
      BY <1>1, <1>2, <1>5, <2>1, DisconnectLoses
  <1>6. CASE WorkAcceptFailed
    <2>1. /\ iocp # <<>> /\ First.task = "ACCEPT"
          /\ pool' # pool => sock[First.slot] # "up"
      BY <1>6 DEF WorkAcceptFailed, Took, First
    <2>2. First.id \notin Pooled
      BY <1>1, <2>1, FirstTyped, IdsAssumption DEF RightId
    <2> QED
      BY <1>1, <1>2, <1>6, <2>1, <2>2, DisconnectLoses
  <1>7. CASE RecvAgain
    BY <1>1, <1>2, <1>7, RecvAgainLoses
  <1>8. ASSUME NEW t \in Threads, WSASend(t)
        PROVE  pc[t] = "send" /\ sock[on[t]] # "up" /\ hand[t] = <<o>>
    BY <1>1, <1>2, <1>8, SendLoses
  <1>9. CASE WorkAccept \/ WorkRecv \/ ReturnReceived \/ WorkSent
    BY <1>1, <1>2, <1>9, AcceptedKept, ReceivedKept, ReturnedKept, SentKept
  <1>10. CASE HandleRequest \/ Push \/ KernelStep \/ \E t \in Threads : Pop(t)
    BY <1>1, <1>2, <1>10, HandledKept, PushedKept, PoppedKept, KernelKept
  <1> QED
    BY <1>3, <1>4, <1>5, <1>6, <1>7, <1>8, <1>9, <1>10
       DEF Next, AccepterStep, WorkStep, RedisStep, SendStep, Threads

(* A pooled object goes out of circulation only as the object of a failed
   completion, or with a receive or send on a socket whose peer is gone. *)
THEOREM LostCorrect == Spec => LostOnlyWithAPeer
  <1>1. IInv /\ [Next]_vars =>
          [\A o \in Circulating \ Circulating' :
             \/ TookFirst /\ ~Head(iocp).ok /\ o = First.id
             \/ TookFirst /\ First.task = "ACCEPT" /\ sock[First.slot] # "up" /\ o \in pool
             \/ pc["worker"] = "recv" /\ sock[on["worker"]] # "up" /\ o \in pool
             \/ \E t \in Threads : pc[t] = "send" /\ sock[on[t]] # "up" /\ hand[t] = <<o>>]_vars
    BY LostStep
  <1> QED
    BY <1>1, Inductive, PTL DEF Spec, LostOnlyWithAPeer
=============================================================================
