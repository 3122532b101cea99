-------------------------- MODULE SendQueue_proofs --------------------------
(***************************************************************************)
(* The reply path of a connection for every number of messages, every      *)
(* window of the client and every width of the counter: the counter's      *)
(* accounting for any set of pushing threads and workers, and the order of *)
(* the replies for one of each, the configuration main.cpp starts.         *)
(***************************************************************************)
EXTENDS SendQueue, FiniteSetTheorems, TLAPS

-----------------------------------------------------------------------------
(* Remainders of the counter's arithmetic. *)

LEMMA Division ==
  ASSUME NEW b \in Nat, b > 0, NEW a \in Int
  PROVE  a % b \in 0 .. b - 1 /\ \E q \in Int : a = q * b + (a % b)
  <1>1. a % b \in 0 .. b - 1  OBVIOUS
  <1>2. a = (a \div b) * b + (a % b)  OBVIOUS
  <1>3. a \div b \in Int  OBVIOUS
  <1> QED  BY <1>1, <1>2, <1>3

LEMMA RemainderUnique ==
  ASSUME NEW b \in Nat, b > 0, NEW a \in Int,
         NEW q \in Int, NEW r \in 0 .. b - 1, a = q * b + r
  PROVE  a % b = r
  OBVIOUS

(* Wrapping before or after an addition makes no difference. *)
LEMMA ModAdd ==
  ASSUME NEW b \in Nat, b > 0, NEW a \in Int, NEW d \in Int
  PROVE  ((a % b) + d) % b = (a + d) % b
  <1> DEFINE r1 == a % b
             r2 == (r1 + d) % b
  <1>1. r1 \in 0 .. b - 1 /\ \E q \in Int : a = q * b + r1
    BY Division
  <1>2. r1 \in Int  BY <1>1
  <1>3. r2 \in 0 .. b - 1 /\ \E q \in Int : r1 + d = q * b + r2
    <2> HIDE DEF r1
    <2>1. r1 + d \in Int  BY <1>2
    <2> QED  BY <2>1, Division
  <1> HIDE DEF r1, r2
  <1>4. PICK q1 \in Int : a = q1 * b + r1  BY <1>1
  <1>5. PICK q2 \in Int : r1 + d = q2 * b + r2  BY <1>3
  <1>6. (q1 + q2) * b = q1 * b + q2 * b  OBVIOUS
  <1>7. q1 * b \in Int /\ q2 * b \in Int  OBVIOUS
  <1>8. a + d = (q1 + q2) * b + r2
    BY <1>2, <1>3, <1>4, <1>5, <1>6, <1>7
  <1>9. (a + d) % b = r2
    <2>1. a + d \in Int /\ q1 + q2 \in Int  OBVIOUS
    <2> QED  BY <1>3, <1>8, <2>1, RemainderUnique
  <1> QED  BY <1>9 DEF r1, r2

-----------------------------------------------------------------------------
(* The inductive invariant: a thread holds a reply just while it is between
   pop and WSASend; replies leave the queue oldest first, so whatever has left
   it is older than whatever is still in it; and no reply is in two hands. *)

HoldsWhileSending ==
  \A t \in Threads : IF pc[t] = "send" THEN held[t] \in Msgs ELSE held[t] = NoMsg

QueueOrdered ==
  /\ \A i \in 1 .. Len(sendQueue) : sendQueue[i] <= pushed
  /\ \A i, j \in 1 .. Len(sendQueue) : i < j => sendQueue[i] < sendQueue[j]

PoppedOlder ==
  /\ \A m \in inFlight : m <= pushed /\ \A i \in 1 .. Len(sendQueue) : m < sendQueue[i]
  /\ \A t \in At("send") :
       held[t] <= pushed /\ \A i \in 1 .. Len(sendQueue) : held[t] < sendQueue[i]

OneHand ==
  /\ \A t \in At("send") : held[t] \notin inFlight
  /\ \A t, u \in At("send") : held[t] = held[u] => t = u

IInv == TypeOK /\ HoldsWhileSending /\ QueueOrdered /\ PoppedOlder /\ OneHand

LEMMA InitIInv == Init => IInv
  BY BoundsAssumption
     DEF Init, IInv, TypeOK, HoldsWhileSending, QueueOrdered, PoppedOlder, OneHand,
         At, Threads, NoMsg

LEMMA NextTypeOK == TypeOK /\ HoldsWhileSending /\ [Next]_vars => TypeOK'
  <1> SUFFICES ASSUME TypeOK, HoldsWhileSending, [Next]_vars PROVE TypeOK'
    OBVIOUS
  <1> USE DEF TypeOK
  <1>1. ASSUME NEW p \in Pushers, Enqueue(p) PROVE TypeOK'
    <2>1. pushed + 1 \in Msgs /\ pushed + 1 \in 0 .. MaxMsgs /\ p \in Threads
      BY <1>1, BoundsAssumption DEF Enqueue, Msgs, Threads
    <2> QED  BY <1>1, <2>1 DEF Enqueue, Goto
  <1>2. ASSUME NEW p \in Pushers, FetchAdd(p) PROVE TypeOK'
    <2>1. Inc(sendQueueSize) \in 0 .. SizeMod - 1 /\ p \in Threads
      BY BoundsAssumption DEF Inc, Threads
    <2> QED  BY <1>2, <2>1 DEF FetchAdd, Goto
  <1>3. ASSUME NEW w \in Workers, TakeCompletion(w) PROVE TypeOK'
    <2>1. iocp' \in Seq(Msgs) /\ w \in Threads
      BY <1>3 DEF TakeCompletion, Threads
    <2> QED  BY <1>3, <2>1 DEF TakeCompletion, Goto
  <1>4. ASSUME NEW w \in Workers, FetchSub(w) PROVE TypeOK'
    <2>1. Dec(sendQueueSize) \in 0 .. SizeMod - 1 /\ w \in Threads
      BY BoundsAssumption DEF Dec, Threads
    <2> QED  BY <1>4, <2>1 DEF FetchSub, Goto
  <1>5. ASSUME NEW t \in Threads, Check(t) PROVE TypeOK'
    BY <1>5 DEF Check, Goto
  <1>6. ASSUME NEW t \in Threads, Pop(t) PROVE TypeOK'
    <2>1. Head(sendQueue) \in Msgs /\ sendQueue' \in Seq(Msgs)
      BY <1>6 DEF Pop, Rest
    <2> QED  BY <1>6, <2>1 DEF Pop, Goto
  <1>7. ASSUME NEW t \in Threads, PopEmpty(t) PROVE TypeOK'
    BY <1>7 DEF PopEmpty, Goto
  <1>8. ASSUME NEW t \in Threads, WSASend(t) PROVE TypeOK'
    <2>1. held[t] \in Msgs
      BY <1>8 DEF WSASend, HoldsWhileSending
    <2> QED  BY <1>8, <2>1 DEF WSASend, Goto, NoMsg
  <1>9. ASSUME NEW m \in inFlight, SendDone(m) PROVE TypeOK'
    BY <1>9 DEF SendDone
  <1>10. CASE UNCHANGED vars
    BY <1>10 DEF vars
  <1> QED  BY <1>1, <1>2, <1>3, <1>4, <1>5, <1>6, <1>7, <1>8, <1>9, <1>10
           DEF Next, PushStep, WorkStep, ProcSend, Threads

(* Replies are numbers. *)
LEMMA QueueOfInts ==
  ASSUME TypeOK
  PROVE  \A i \in 1 .. Len(sendQueue) : sendQueue[i] \in Msgs /\ sendQueue[i] \in Int
  <1>1. \A i \in 1 .. Len(sendQueue) : sendQueue[i] \in Msgs
    BY DEF TypeOK
  <1> QED  BY <1>1 DEF Msgs

(* The steps of Next with the threads that may take them. *)
LEMMA NextCases ==
  ASSUME [Next]_vars
  PROVE  \/ \E p \in Pushers : Enqueue(p) \/ FetchAdd(p)
         \/ \E w \in Workers : TakeCompletion(w) \/ FetchSub(w)
         \/ \E t \in Threads : Check(t) \/ Pop(t) \/ PopEmpty(t) \/ WSASend(t)
         \/ \E m \in inFlight : SendDone(m)
         \/ UNCHANGED vars
  BY DEF Next, PushStep, WorkStep, ProcSend, Threads

LEMMA NextIInv == IInv /\ [Next]_vars => IInv'
  <1> SUFFICES ASSUME IInv, [Next]_vars PROVE IInv'
    OBVIOUS
  <1> USE DEF IInv
  <1>0. TypeOK'
    BY NextTypeOK
  <1> USE DEF HoldsWhileSending, QueueOrdered, PoppedOlder, OneHand, At
  <1>1. ASSUME NEW p \in Pushers, Enqueue(p) PROVE IInv'
    <2>1. p \in Threads /\ pushed \in Nat /\ sendQueue \in Seq(Msgs)
      BY DEF Threads, TypeOK
    <2>2. /\ Len(sendQueue') = Len(sendQueue) + 1
          /\ \A i \in 1 .. Len(sendQueue) : sendQueue'[i] = sendQueue[i]
          /\ sendQueue'[Len(sendQueue) + 1] = pushed + 1
      BY <1>1, <2>1 DEF Enqueue
    <2>3. \A i \in 1 .. Len(sendQueue) : sendQueue[i] \in Int
      BY QueueOfInts
    <2>4. QueueOrdered'
      <3>1. pushed' = pushed + 1 /\ Len(sendQueue) \in Nat
        BY <1>1, <2>1 DEF Enqueue
      <3>2. ASSUME NEW i \in 1 .. Len(sendQueue')
            PROVE  \/ i \in 1 .. Len(sendQueue) /\ sendQueue'[i] = sendQueue[i]
                   \/ i = Len(sendQueue) + 1 /\ sendQueue'[i] = pushed + 1
        BY <2>2, <3>1
      <3>3. ASSUME NEW i \in 1 .. Len(sendQueue') PROVE sendQueue'[i] <= pushed'
        BY <2>1, <2>3, <3>1, <3>2
      <3>4. ASSUME NEW i \in 1 .. Len(sendQueue'), NEW j \in 1 .. Len(sendQueue'), i < j
            PROVE  sendQueue'[i] < sendQueue'[j]
        <4>1. i \in 1 .. Len(sendQueue) /\ sendQueue'[i] = sendQueue[i]
          BY <2>2, <3>1, <3>2, <3>4
        <4>2. CASE j \in 1 .. Len(sendQueue) /\ sendQueue'[j] = sendQueue[j]
          BY <3>4, <4>1, <4>2
        <4>3. CASE sendQueue'[j] = pushed + 1
          BY <2>1, <2>3, <4>1, <4>3
        <4> QED  BY <3>2, <4>2, <4>3
      <3> QED  BY <3>3, <3>4
    <2>5. \A t \in Threads : pc'[t] = "send" <=> pc[t] = "send"
      BY <1>1, <2>1 DEF Enqueue, Goto, TypeOK
    <2>6. HoldsWhileSending' /\ OneHand'
      BY <1>1, <2>5 DEF Enqueue
    <2>7. (\A m \in inFlight : m \in Int) /\ (\A t \in At("send") : held[t] \in Int)
      BY DEF TypeOK, Msgs
    <2>8. PoppedOlder'
      BY <1>1, <2>1, <2>2, <2>5, <2>7 DEF Enqueue
    <2> QED  BY <1>0, <2>4, <2>6, <2>8
  <1>2. ASSUME NEW p \in Pushers, FetchAdd(p) PROVE IInv'
    <2>1. \A t \in Threads : pc'[t] = "send" <=> pc[t] = "send"
      BY <1>2 DEF FetchAdd, Goto, TypeOK
    <2> QED  BY <1>0, <1>2, <2>1 DEF FetchAdd
  <1>3. ASSUME NEW w \in Workers, TakeCompletion(w) PROVE IInv'
    <2>1. \A t \in Threads : pc'[t] = "send" <=> pc[t] = "send"
      BY <1>3 DEF TakeCompletion, Goto, TypeOK
    <2> QED  BY <1>0, <1>3, <2>1 DEF TakeCompletion
  <1>4. ASSUME NEW w \in Workers, FetchSub(w) PROVE IInv'
    <2>1. \A t \in Threads : pc'[t] = "send" <=> pc[t] = "send"
      BY <1>4 DEF FetchSub, Goto, TypeOK
    <2> QED  BY <1>0, <1>4, <2>1 DEF FetchSub
  <1>5. ASSUME NEW t \in Threads, Check(t) PROVE IInv'
    <2>1. \A u \in Threads : pc'[u] = "send" <=> pc[u] = "send"
      BY <1>5 DEF Check, Goto, TypeOK
    <2> QED  BY <1>0, <1>5, <2>1 DEF Check
  <1>6. ASSUME NEW t \in Threads, Pop(t) PROVE IInv'
    <2>1. sendQueue \in Seq(Msgs) /\ sendQueue # <<>>
      BY <1>6 DEF Pop, TypeOK
    <2>2. /\ Len(sendQueue) \in Nat /\ Len(sendQueue) >= 1
          /\ Len(sendQueue') = Len(sendQueue) - 1
          /\ \A i \in 1 .. Len(sendQueue') :
               i + 1 \in 1 .. Len(sendQueue) /\ sendQueue'[i] = sendQueue[i + 1]
          /\ Head(sendQueue) = sendQueue[1] /\ Head(sendQueue) \in Msgs
      BY <1>6, <2>1 DEF Pop, Rest
    <2>3. \A i \in 1 .. Len(sendQueue) : sendQueue[i] \in Int
      BY QueueOfInts
    <2>4. QueueOrdered'
      <3>1. pushed' = pushed
        BY <1>6 DEF Pop
      <3>2. ASSUME NEW i \in 1 .. Len(sendQueue') PROVE sendQueue'[i] <= pushed'
        BY <2>2, <3>1
      <3>3. ASSUME NEW i \in 1 .. Len(sendQueue'), NEW j \in 1 .. Len(sendQueue'), i < j
            PROVE  sendQueue'[i] < sendQueue'[j]
        <4>1. i + 1 < j + 1
          BY <2>2, <3>3
        <4> QED  BY <2>2, <4>1
      <3> QED  BY <3>2, <3>3
    <2>5. ASSUME NEW i \in 1 .. Len(sendQueue') PROVE sendQueue[1] < sendQueue'[i]
      <3>1. i + 1 \in 1 .. Len(sendQueue) /\ sendQueue'[i] = sendQueue[i + 1] /\ 1 < i + 1
        BY <2>2
      <3> QED  BY <2>2, <3>1 DEF QueueOrdered
    <2>6. /\ held'[t] = sendQueue[1] /\ pc'[t] = "send" /\ pc[t] = "pop"
          /\ \A u \in Threads : u # t => held'[u] = held[u] /\ pc'[u] = pc[u]
          /\ inFlight' = inFlight /\ pushed' = pushed
      BY <1>6, <2>2 DEF Pop, Goto, TypeOK
    <2>7. HoldsWhileSending'
      BY <2>2, <2>6
    <2>8. sendQueue[1] <= pushed /\ (\A m \in inFlight : m < sendQueue[1])
          /\ (\A u \in At("send") : held[u] < sendQueue[1])
      BY <2>2
    <2>9. (\A m \in inFlight : m \in Int) /\ (\A u \in At("send") : held[u] \in Int)
      BY DEF TypeOK, Msgs
    <2>10. PoppedOlder'
      <3>1. ASSUME NEW m \in inFlight'
            PROVE  m <= pushed' /\ \A i \in 1 .. Len(sendQueue') : m < sendQueue'[i]
        BY <2>2, <2>6
      <3>2. ASSUME NEW u \in Threads, pc'[u] = "send"
            PROVE  held'[u] <= pushed' /\ \A i \in 1 .. Len(sendQueue') : held'[u] < sendQueue'[i]
        <4>1. CASE u = t
          BY <2>5, <2>6, <2>8, <4>1
        <4>2. CASE u # t
          <5>1. u \in At("send") /\ held'[u] = held[u]
            BY <2>6, <3>2, <4>2
          <5> QED  BY <2>2, <2>6, <5>1
        <4> QED  BY <4>1, <4>2
      <3> QED  BY <3>1, <3>2
    <2>11. OneHand'
      <3>1. ASSUME NEW u \in Threads, pc'[u] = "send", u # t
            PROVE  u \in At("send") /\ held'[u] = held[u] /\ held[u] # sendQueue[1]
        <4>1. u \in At("send") /\ held'[u] = held[u]
          BY <2>6, <3>1
        <4>2. held[u] < sendQueue[1] /\ held[u] \in Int /\ sendQueue[1] \in Int
          BY <2>2, <2>3, <2>8, <2>9, <4>1
        <4> QED  BY <4>1, <4>2
      <3>2. sendQueue[1] \notin inFlight
        <4>1. sendQueue[1] \in Int
          BY <2>2, <2>3
        <4> QED  BY <2>8, <4>1
      <3> QED  BY <2>6, <3>1, <3>2
    <2> QED  BY <1>0, <2>4, <2>7, <2>10, <2>11
  <1>7. ASSUME NEW t \in Threads, PopEmpty(t) PROVE IInv'
    <2>1. \A u \in Threads : pc'[u] = "send" <=> pc[u] = "send"
      BY <1>7 DEF PopEmpty, Goto, TypeOK
    <2> QED  BY <1>0, <1>7, <2>1 DEF PopEmpty
  <1>8. ASSUME NEW t \in Threads, WSASend(t) PROVE IInv'
    <2>1. /\ pc[t] = "send" /\ pc'[t] = "idle" /\ held'[t] = NoMsg
          /\ \A u \in Threads : u # t => held'[u] = held[u] /\ pc'[u] = pc[u]
          /\ inFlight' = inFlight \cup {held[t]}
          /\ sendQueue' = sendQueue /\ pushed' = pushed
      BY <1>8 DEF WSASend, Goto, TypeOK
    <2> QED  BY <1>0, <2>1
  <1>9. ASSUME NEW m \in inFlight, SendDone(m) PROVE IInv'
    BY <1>0, <1>9 DEF SendDone
  <1>10. CASE UNCHANGED vars
    BY <1>0, <1>10 DEF vars
  <1> QED  BY <1>1, <1>2, <1>3, <1>4, <1>5, <1>6, <1>7, <1>8, <1>9, <1>10, NextCases

(* Every variable keeps its kind; the counter stays a uint16_t and nothing but
   a reply is ever handed to WSASend (ConnUser.h:157-211). *)
THEOREM TypeCorrect == Spec => []TypeOK
  <1>1. IInv => TypeOK
    BY DEF IInv
  <1> QED  BY <1>1, InitIInv, NextIInv, PTL DEF Spec

-----------------------------------------------------------------------------
(* Counting. *)

(* Threads at a label are finitely many, and one of them makes the number
   positive. *)
LEMMA AtFinite ==
  ASSUME NEW l
  PROVE  /\ IsFiniteSet(At(l)) /\ Cardinality(At(l)) \in Nat
         /\ \A t \in At(l) : Cardinality(At(l)) >= 1
  <1>1. IsFiniteSet(Threads)
    BY ThreadsAssumption, FS_Union DEF Threads
  <1>2. IsFiniteSet(At(l))
    BY <1>1, FS_Subset DEF At
  <1>3. Cardinality(At(l)) \in Nat /\ (Cardinality(At(l)) = 0 <=> At(l) = {})
    BY <1>2, FS_CardinalityType, FS_EmptySet
  <1> QED  BY <1>2, <1>3

(* What a thread's move does to the numbers of threads at each label. *)
LEMMA GotoCounts ==
  ASSUME TypeOK, NEW t \in Threads, NEW k, NEW l, pc[t] = k, k # l, Goto(t, l)
  PROVE  /\ Cardinality(At(k)') = Cardinality(At(k)) - 1
         /\ Cardinality(At(l)') = Cardinality(At(l)) + 1
         /\ \A m : m # k /\ m # l => Cardinality(At(m)') = Cardinality(At(m))
  <1>1. pc' = [pc EXCEPT ![t] = l] /\ pc \in [Threads -> {"idle", "add", "sub", "check", "pop", "send"}]
    BY DEF Goto, TypeOK
  <1>2. At(k)' = At(k) \ {t} /\ t \in At(k)
    BY <1>1 DEF At
  <1>3. At(l)' = At(l) \cup {t} /\ t \notin At(l)
    BY <1>1 DEF At
  <1>4. \A m : m # k /\ m # l => At(m)' = At(m)
    BY <1>1 DEF At
  <1>5. Cardinality(At(k) \ {t}) = Cardinality(At(k)) - 1
    BY <1>2, AtFinite, FS_RemoveElement
  <1>6. Cardinality(At(l) \cup {t}) = Cardinality(At(l)) + 1
    BY <1>3, AtFinite, FS_AddElement
  <1> QED  BY <1>2, <1>3, <1>4, <1>5, <1>6

LEMMA InFlightFinite ==
  ASSUME TypeOK
  PROVE  IsFiniteSet(inFlight) /\ Cardinality(inFlight) \in Nat
  <1>1. IsFiniteSet(Msgs)
    BY BoundsAssumption, FS_Interval DEF Msgs
  <1>2. IsFiniteSet(inFlight)
    BY <1>1, FS_Subset DEF TypeOK
  <1> QED  BY <1>2, FS_CardinalityType

(* Replies that have left the queue and are not accounted for as done. *)
Alive == Cardinality(At("send")) + Cardinality(inFlight) + Len(iocp) + Cardinality(At("sub"))

(* What the counter stands for. *)
Total == Len(sendQueue) + Alive - Cardinality(At("add"))

LEMMA CountTypes ==
  ASSUME TypeOK
  PROVE  /\ Len(sendQueue) \in Nat /\ Len(iocp) \in Nat /\ Len(wire) \in Nat
         /\ Cardinality(inFlight) \in Nat
         /\ Cardinality(At("send")) \in Nat /\ Cardinality(At("sub")) \in Nat
         /\ Cardinality(At("add")) \in Nat
         /\ Alive \in Nat /\ Total \in Int
  <1>1. Len(sendQueue) \in Nat /\ Len(iocp) \in Nat /\ Len(wire) \in Nat
    BY DEF TypeOK
  <1>2. Cardinality(inFlight) \in Nat
    BY InFlightFinite
  <1>3. /\ Cardinality(At("send")) \in Nat /\ Cardinality(At("sub")) \in Nat
        /\ Cardinality(At("add")) \in Nat
    BY AtFinite
  <1> QED  BY <1>1, <1>2, <1>3 DEF Alive, Total

(* How each step changes the queue and the replies that have left it. *)
LEMMA StepCounts ==
  ASSUME IInv
  PROVE  /\ \A p \in Pushers : Enqueue(p) =>
              Len(sendQueue') = Len(sendQueue) + 1 /\ Alive' = Alive /\ Total' = Total
         /\ \A p \in Pushers : FetchAdd(p) => Alive' = Alive /\ Total' = Total + 1
         /\ \A w \in Workers : TakeCompletion(w) => Alive' = Alive /\ Total' = Total
         /\ \A w \in Workers : FetchSub(w) => Alive' = Alive - 1 /\ Total' = Total - 1
         /\ \A t \in Threads : Check(t) => Alive' = Alive /\ Total' = Total
         /\ \A t \in Threads : Pop(t) =>
              Len(sendQueue') = Len(sendQueue) - 1 /\ Alive' = Alive + 1 /\ Total' = Total
         /\ \A t \in Threads : PopEmpty(t) => Alive' = Alive /\ Total' = Total
         /\ \A t \in Threads : WSASend(t) => Alive' = Alive /\ Total' = Total
         /\ \A m \in inFlight : SendDone(m) => Alive' = Alive /\ Total' = Total
  <1>0. TypeOK
    BY DEF IInv
  <1>a. /\ Len(sendQueue) \in Nat /\ Len(iocp) \in Nat
        /\ Cardinality(inFlight) \in Nat
        /\ Cardinality(At("send")) \in Nat /\ Cardinality(At("sub")) \in Nat
        /\ Cardinality(At("add")) \in Nat /\ Alive \in Nat
    BY <1>0, CountTypes
  <1>1. ASSUME NEW p \in Pushers, Enqueue(p)
        PROVE  Len(sendQueue') = Len(sendQueue) + 1 /\ Alive' = Alive /\ Total' = Total
    <2>1. p \in Threads /\ pc[p] = "idle" /\ Goto(p, "add") /\ "idle" # "add"
      BY <1>1 DEF Enqueue, Threads
    <2>2. /\ Cardinality(At("add")') = Cardinality(At("add")) + 1
          /\ Cardinality(At("send")') = Cardinality(At("send"))
          /\ Cardinality(At("sub")') = Cardinality(At("sub"))
      BY <1>0, <2>1, GotoCounts
    <2>3. /\ Len(sendQueue') = Len(sendQueue) + 1
          /\ inFlight' = inFlight /\ iocp' = iocp
      BY <1>0, <1>1 DEF Enqueue, TypeOK
    <2>4. /\ Cardinality(inFlight') = Cardinality(inFlight)
          /\ Len(iocp') \in Int /\ Len(sendQueue') \in Int
      BY <1>a, <2>3
    <2>5. Alive' = Alive
      BY <1>a, <2>2, <2>3, <2>4, SMTT(30) DEF Alive
    <2> QED  BY <1>a, <2>2, <2>3, <2>5, SMTT(30) DEF Total
  <1>2. ASSUME NEW p \in Pushers, FetchAdd(p)
        PROVE  Alive' = Alive /\ Total' = Total + 1
    <2>1. p \in Threads /\ pc[p] = "add" /\ Goto(p, "check") /\ "add" # "check"
      BY <1>2 DEF FetchAdd, Threads
    <2>2. /\ Cardinality(At("add")') = Cardinality(At("add")) - 1
          /\ Cardinality(At("send")') = Cardinality(At("send"))
          /\ Cardinality(At("sub")') = Cardinality(At("sub"))
      BY <1>0, <2>1, GotoCounts
    <2>3. sendQueue' = sendQueue /\ inFlight' = inFlight /\ iocp' = iocp
      BY <1>2 DEF FetchAdd
    <2>4. /\ Cardinality(inFlight') = Cardinality(inFlight)
          /\ Len(iocp') \in Int /\ Len(sendQueue') \in Int
      BY <1>a, <2>3
    <2>5. Alive' = Alive
      BY <1>a, <2>2, <2>3, <2>4, SMTT(30) DEF Alive
    <2> QED  BY <1>a, <2>2, <2>3, <2>5, SMTT(30) DEF Total
  <1>3. ASSUME NEW w \in Workers, TakeCompletion(w)
        PROVE  Alive' = Alive /\ Total' = Total
    <2>1. w \in Threads /\ pc[w] = "idle" /\ Goto(w, "sub") /\ "idle" # "sub"
      BY <1>3 DEF TakeCompletion, Threads
    <2>2. /\ Cardinality(At("sub")') = Cardinality(At("sub")) + 1
          /\ Cardinality(At("send")') = Cardinality(At("send"))
          /\ Cardinality(At("add")') = Cardinality(At("add"))
      BY <1>0, <2>1, GotoCounts
    <2>3. /\ sendQueue' = sendQueue /\ inFlight' = inFlight
          /\ Len(iocp') = Len(iocp) - 1
      BY <1>0, <1>3 DEF TakeCompletion, TypeOK
    <2>4. /\ Cardinality(inFlight') = Cardinality(inFlight)
          /\ Len(iocp') \in Int /\ Len(sendQueue') \in Int
      BY <1>a, <2>3
    <2>5. Alive' = Alive
      BY <1>a, <2>2, <2>3, <2>4, SMTT(30) DEF Alive
    <2> QED  BY <1>a, <2>2, <2>3, <2>5, SMTT(30) DEF Total
  <1>4. ASSUME NEW w \in Workers, FetchSub(w)
        PROVE  Alive' = Alive - 1 /\ Total' = Total - 1
    <2>1. w \in Threads /\ pc[w] = "sub" /\ Goto(w, "check") /\ "sub" # "check"
      BY <1>4 DEF FetchSub, Threads
    <2>2. /\ Cardinality(At("sub")') = Cardinality(At("sub")) - 1
          /\ Cardinality(At("send")') = Cardinality(At("send"))
          /\ Cardinality(At("add")') = Cardinality(At("add"))
      BY <1>0, <2>1, GotoCounts
    <2>3. sendQueue' = sendQueue /\ inFlight' = inFlight /\ iocp' = iocp
      BY <1>4 DEF FetchSub
    <2>4. /\ Cardinality(inFlight') = Cardinality(inFlight)
          /\ Len(iocp') \in Int /\ Len(sendQueue') \in Int
      BY <1>a, <2>3
    <2>5. Alive' = Alive - 1
      BY <1>a, <2>2, <2>3, <2>4, SMTT(30) DEF Alive
    <2> QED  BY <1>a, <2>2, <2>3, <2>5, SMTT(30) DEF Total
  <1>5. ASSUME NEW t \in Threads, Check(t)
        PROVE  Alive' = Alive /\ Total' = Total
    <2>1. PICK l \in {"pop", "idle"} : Goto(t, l)
      BY <1>5 DEF Check
    <2>2. pc[t] = "check" /\ "check" # l
      BY <1>5 DEF Check
    <2>3. /\ Cardinality(At("sub")') = Cardinality(At("sub"))
          /\ Cardinality(At("send")') = Cardinality(At("send"))
          /\ Cardinality(At("add")') = Cardinality(At("add"))
      BY <1>0, <2>1, <2>2, GotoCounts
    <2>4. sendQueue' = sendQueue /\ inFlight' = inFlight /\ iocp' = iocp
      BY <1>5 DEF Check
    <2> QED  BY <2>3, <2>4 DEF Alive, Total
  <1>6. ASSUME NEW t \in Threads, Pop(t)
        PROVE  Len(sendQueue') = Len(sendQueue) - 1 /\ Alive' = Alive + 1 /\ Total' = Total
    <2>1. pc[t] = "pop" /\ Goto(t, "send") /\ "pop" # "send"
      BY <1>6 DEF Pop
    <2>2. /\ Cardinality(At("sub")') = Cardinality(At("sub"))
          /\ Cardinality(At("send")') = Cardinality(At("send")) + 1
          /\ Cardinality(At("add")') = Cardinality(At("add"))
      BY <1>0, <2>1, GotoCounts
    <2>3. /\ Len(sendQueue') = Len(sendQueue) - 1
          /\ inFlight' = inFlight /\ iocp' = iocp
      BY <1>0, <1>6 DEF Pop, Rest, TypeOK
    <2>4. /\ Cardinality(inFlight') = Cardinality(inFlight)
          /\ Len(iocp') \in Int /\ Len(sendQueue') \in Int
      BY <1>a, <2>3
    <2>5. Alive' = Alive + 1
      BY <1>a, <2>2, <2>3, <2>4, SMTT(30) DEF Alive
    <2> QED  BY <1>a, <2>2, <2>3, <2>5, SMTT(30) DEF Total
  <1>7. ASSUME NEW t \in Threads, PopEmpty(t)
        PROVE  Alive' = Alive /\ Total' = Total
    <2>1. pc[t] = "pop" /\ Goto(t, "idle") /\ "pop" # "idle"
      BY <1>7 DEF PopEmpty
    <2>2. /\ Cardinality(At("sub")') = Cardinality(At("sub"))
          /\ Cardinality(At("send")') = Cardinality(At("send"))
          /\ Cardinality(At("add")') = Cardinality(At("add"))
      BY <1>0, <2>1, GotoCounts
    <2>3. sendQueue' = sendQueue /\ inFlight' = inFlight /\ iocp' = iocp
      BY <1>7 DEF PopEmpty
    <2> QED  BY <2>2, <2>3 DEF Alive, Total
  <1>8. ASSUME NEW t \in Threads, WSASend(t)
        PROVE  Alive' = Alive /\ Total' = Total
    <2>1. pc[t] = "send" /\ Goto(t, "idle") /\ "send" # "idle"
      BY <1>8 DEF WSASend
    <2>2. /\ Cardinality(At("sub")') = Cardinality(At("sub"))
          /\ Cardinality(At("send")') = Cardinality(At("send")) - 1
          /\ Cardinality(At("add")') = Cardinality(At("add"))
      BY <1>0, <2>1, GotoCounts
    <2>3. held[t] \notin inFlight
      BY <2>1 DEF IInv, OneHand, At
    <2>4. Cardinality(inFlight') = Cardinality(inFlight) + 1
      BY <1>0, <1>8, <2>3, InFlightFinite, FS_AddElement DEF WSASend
    <2>5. sendQueue' = sendQueue /\ iocp' = iocp
      BY <1>8 DEF WSASend
    <2>6. /\ Len(iocp') = Len(iocp) /\ Len(sendQueue') = Len(sendQueue)
      BY <2>5
    <2>7. Alive' = Alive
      BY <1>a, <2>2, <2>4, <2>6, SMTT(30) DEF Alive
    <2> QED  BY <2>2, <2>6, <2>7 DEF Total
  <1>9. ASSUME NEW m \in inFlight, SendDone(m)
        PROVE  Alive' = Alive /\ Total' = Total
    <2>1. Cardinality(inFlight') = Cardinality(inFlight) - 1
      BY <1>0, <1>9, InFlightFinite, FS_RemoveElement DEF SendDone
    <2>2. Len(iocp') = Len(iocp) + 1 /\ sendQueue' = sendQueue /\ pc' = pc
      BY <1>0, <1>9 DEF SendDone, TypeOK
    <2>3. /\ At("send")' = At("send") /\ At("sub")' = At("sub") /\ At("add")' = At("add")
      BY <2>2 DEF At
    <2>4. Alive' = Alive
      BY <1>a, <2>1, <2>2, <2>3, SMTT(30) DEF Alive
    <2> QED  BY <2>2, <2>3, <2>4 DEF Total
  <1> QED  BY <1>1, <1>2, <1>3, <1>4, <1>5, <1>6, <1>7, <1>8, <1>9, Zenon

LEMMA StutterCounts ==
  ASSUME UNCHANGED vars
  PROVE  Alive' = Alive /\ Total' = Total
  BY DEF vars, Alive, Total, At

-----------------------------------------------------------------------------
(* What the counter stands for, in the words of SizeAccounting. *)
Counted == sendQueueSize = Total % SizeMod

LEMMA CountedIsSizeAccounting == TypeOK /\ Counted => SizeAccounting
  <1> SUFFICES ASSUME TypeOK, Counted PROVE SizeAccounting
    OBVIOUS
  <1>1. Total = Len(sendQueue) + Cardinality(At("send")) + Cardinality(inFlight)
                  + Len(iocp) + Cardinality(At("sub")) - Cardinality(At("add"))
    <2>1. /\ Len(sendQueue) \in Nat /\ Len(iocp) \in Nat /\ Cardinality(inFlight) \in Nat
          /\ Cardinality(At("send")) \in Nat /\ Cardinality(At("sub")) \in Nat
          /\ Cardinality(At("add")) \in Nat
      BY CountTypes
    <2> QED  BY <2>1 DEF Total, Alive
  <1> QED  BY <1>1, Zenon DEF Counted, SizeAccounting

LEMMA InitCounted == Init => Counted
  <1> SUFFICES ASSUME Init PROVE Counted
    OBVIOUS
  <1>1. At("send") = {} /\ At("sub") = {} /\ At("add") = {} /\ inFlight = {}
    BY DEF Init, At
  <1>2. Len(sendQueue) = 0 /\ Len(iocp) = 0 /\ sendQueueSize = 0
    BY DEF Init
  <1>3. /\ Cardinality(At("send")) = 0 /\ Cardinality(At("sub")) = 0
        /\ Cardinality(At("add")) = 0 /\ Cardinality(inFlight) = 0
    BY <1>1, FS_EmptySet, Zenon
  <1>5. Total = 0
    BY <1>2, <1>3 DEF Total, Alive
  <1>4. 0 % SizeMod = 0
    BY BoundsAssumption
  <1> QED  BY <1>2, <1>4, <1>5 DEF Counted

LEMMA NextCounted == IInv /\ Counted /\ [Next]_vars => Counted'
  <1> SUFFICES ASSUME IInv, Counted, [Next]_vars PROVE Counted'
    OBVIOUS
  <1>1. TypeOK /\ Total \in Int /\ SizeMod \in Nat /\ SizeMod > 0
    BY CountTypes, BoundsAssumption DEF IInv
  <1>w. \A d \in Int : ((Total % SizeMod) + d) % SizeMod = (Total + d) % SizeMod
    BY <1>1, ModAdd
  <1>2. ASSUME sendQueueSize' = sendQueueSize, Total' = Total PROVE Counted'
    BY <1>2 DEF Counted
  <1>3. ASSUME NEW p \in Pushers, FetchAdd(p) PROVE Counted'
    <2>1. sendQueueSize' = ((Total % SizeMod) + 1) % SizeMod /\ Total' = Total + 1
      BY <1>3, StepCounts DEF FetchAdd, Inc, Counted
    <2> QED  BY <1>w, <2>1 DEF Counted
  <1>4. ASSUME NEW w \in Workers, FetchSub(w) PROVE Counted'
    <2>1. sendQueueSize' = ((Total % SizeMod) - 1) % SizeMod /\ Total' = Total - 1
      BY <1>4, StepCounts DEF FetchSub, Dec, Counted
    <2>2. (Total % SizeMod) - 1 = (Total % SizeMod) + (-1) /\ Total - 1 = Total + (-1)
      BY <1>1, BoundsAssumption
    <2>3. ((Total % SizeMod) + (-1)) % SizeMod = (Total + (-1)) % SizeMod
      BY <1>w
    <2> QED  BY <2>1, <2>2, <2>3 DEF Counted
  <1>5. CASE \E p \in Pushers : Enqueue(p)
    BY <1>2, <1>5, StepCounts DEF Enqueue
  <1>6. CASE \E w \in Workers : TakeCompletion(w)
    BY <1>2, <1>6, StepCounts DEF TakeCompletion
  <1>7. CASE \E t \in Threads : Check(t) \/ Pop(t) \/ PopEmpty(t) \/ WSASend(t)
    BY <1>2, <1>7, StepCounts DEF Check, Pop, PopEmpty, WSASend
  <1>8. CASE \E m \in inFlight : SendDone(m)
    BY <1>2, <1>8, StepCounts DEF SendDone
  <1>9. CASE UNCHANGED vars
    BY <1>2, <1>9, StutterCounts DEF vars
  <1> QED  BY <1>3, <1>4, <1>5, <1>6, <1>7, <1>8, <1>9, NextCases

(* sendQueueSize equals what is queued or on its way, less the increments not
   yet made, modulo its width: for any number of threads and any interleaving
   of their accesses (ConnUser.h:171, 181, 184, 190, 192). *)
THEOREM SizeAccountingCorrect == Spec => []SizeAccounting
  <1>1. IInv /\ Counted => SizeAccounting
    BY CountedIsSizeAccounting DEF IInv
  <1> QED  BY <1>1, InitIInv, NextIInv, InitCounted, NextCounted, PTL DEF Spec

-----------------------------------------------------------------------------
(* One pushing thread and one worker, as main.cpp starts them, and a client
   that leaves fewer requests unanswered than the counter has values. *)

(* The pusher that is about to send has found nothing else on its way.  A
   worker may find the pusher's next reply besides a send of the pusher's, so
   there may be two. *)
Careful(p, w) ==
  /\ pc[w] # "add"
  /\ pc[p] \in {"pop", "send"} => Len(sendQueue) + Alive <= 1
  /\ pc[w] \in {"check", "pop"} => Alive <= 1
  /\ Alive <= 2

(* Replies are numbered as they were pushed: those passed to WSASend, the one
   in the hand of a sending thread, and those in the queue follow each other. *)
Consecutive ==
  /\ pushed = Len(wire) + Cardinality(At("send")) + Len(sendQueue)
  /\ \A i \in 1 .. Len(wire) : wire[i] = i
  /\ \A t \in At("send") : held[t] = Len(wire) + 1
  /\ \A i \in 1 .. Len(sendQueue) :
       sendQueue[i] = Len(wire) + Cardinality(At("send")) + i

Windowed == pushed - Len(wire) <= Window

PairInv(p, w) == Careful(p, w) /\ Consecutive /\ Windowed

(* The threads that are about to send. *)
LEMMA SenderCounts ==
  ASSUME TypeOK
  PROVE  /\ \A t \in Threads : Pop(t) =>
              Cardinality(At("send")') = Cardinality(At("send")) + 1
         /\ \A t \in Threads : WSASend(t) =>
              Cardinality(At("send")') = Cardinality(At("send")) - 1
         /\ \A t \in Threads :
              Enqueue(t) \/ FetchAdd(t) \/ TakeCompletion(t) \/ FetchSub(t) \/ Check(t)
                \/ PopEmpty(t)
              => At("send")' = At("send")
  <1>1. ASSUME NEW t \in Threads, Pop(t)
        PROVE  Cardinality(At("send")') = Cardinality(At("send")) + 1
    <2>1. pc[t] = "pop" /\ Goto(t, "send") /\ "pop" # "send"
      BY <1>1 DEF Pop
    <2> QED  BY <2>1, GotoCounts
  <1>2. ASSUME NEW t \in Threads, WSASend(t)
        PROVE  Cardinality(At("send")') = Cardinality(At("send")) - 1
    <2>1. pc[t] = "send" /\ Goto(t, "idle") /\ "send" # "idle"
      BY <1>2 DEF WSASend
    <2> QED  BY <2>1, GotoCounts
  <1>3. ASSUME NEW t \in Threads,
               Enqueue(t) \/ FetchAdd(t) \/ TakeCompletion(t) \/ FetchSub(t) \/ Check(t)
                 \/ PopEmpty(t)
        PROVE  At("send")' = At("send")
    <2>1. \A u \in Threads : pc'[u] = "send" <=> pc[u] = "send"
      BY <1>3 DEF Enqueue, FetchAdd, TakeCompletion, FetchSub, Check, PopEmpty, Goto, TypeOK
    <2> QED  BY <2>1 DEF At
  <1> QED  BY <1>1, <1>2, <1>3

LEMMA PairStep ==
  ASSUME NEW p, NEW w, Pushers = {p}, Workers = {w}, Window + 2 <= SizeMod,
         IInv, Counted, PairInv(p, w), [Next]_vars
  PROVE  PairInv(p, w)'
  <1>0. TypeOK /\ p # w /\ Threads = {p, w} /\ p \in Threads /\ w \in Threads
    BY ThreadsAssumption DEF IInv, Threads
  <1>1. /\ Len(sendQueue) \in Nat /\ Len(iocp) \in Nat /\ Len(wire) \in Nat
        /\ Cardinality(inFlight) \in Nat /\ pushed \in Nat
        /\ Cardinality(At("send")) \in Nat /\ Cardinality(At("sub")) \in Nat
        /\ Cardinality(At("add")) \in Nat /\ Alive \in Nat
        /\ Cardinality(At("send")) <= Alive
    <2>1. /\ Len(sendQueue) \in Nat /\ Len(iocp) \in Nat /\ Len(wire) \in Nat
          /\ Cardinality(inFlight) \in Nat /\ pushed \in Nat
          /\ Cardinality(At("send")) \in Nat /\ Cardinality(At("sub")) \in Nat
          /\ Cardinality(At("add")) \in Nat
      BY <1>0, CountTypes DEF TypeOK
    <2> QED  BY <2>1 DEF Alive
  <1>2. /\ pc \in [Threads -> {"idle", "add", "sub", "check", "pop", "send"}]
        /\ sendQueue \in Seq(Msgs) /\ wire \in Seq(Msgs) /\ held \in [Threads -> Msgs \cup {NoMsg}]
    BY <1>0 DEF TypeOK
  <1>3. pc[p] = "send" => At("send") = {p} /\ Cardinality(At("send")) = 1 /\ sendQueue = <<>>
    <2> SUFFICES ASSUME pc[p] = "send"
                 PROVE  At("send") = {p} /\ Cardinality(At("send")) = 1 /\ sendQueue = <<>>
      OBVIOUS
    <2>1. p \in At("send") /\ Cardinality(At("send")) >= 1
      BY <1>0, AtFinite DEF At
    <2>2. Len(sendQueue) + Alive <= 1
      BY DEF PairInv, Careful
    <2>3. Len(sendQueue) = 0 /\ Cardinality(At("send")) = 1
      BY <1>1, <2>1, <2>2
    <2>4. PICK x : At("send") = {x}
      BY <2>3, AtFinite, FS_Singleton
    <2> QED  BY <1>2, <2>1, <2>3, <2>4
  <1>4. pc[w] = "send" /\ pc[p] # "send" => At("send") = {w} /\ Cardinality(At("send")) = 1
    <2> SUFFICES ASSUME pc[w] = "send", pc[p] # "send"
                 PROVE  At("send") = {w} /\ Cardinality(At("send")) = 1
      OBVIOUS
    <2>1. At("send") = {w}
      BY <1>0 DEF At
    <2> QED  BY <2>1, FS_Singleton
  <1>5. pc[p] # "send" /\ pc[w] # "send" => At("send") = {} /\ Cardinality(At("send")) = 0
    <2> SUFFICES ASSUME pc[p] # "send", pc[w] # "send"
                 PROVE  At("send") = {} /\ Cardinality(At("send")) = 0
      OBVIOUS
    <2>1. At("send") = {}
      BY <1>0 DEF At
    <2> QED  BY <2>1, FS_EmptySet
  <1> USE DEF PairInv
  <1>6. ASSUME Enqueue(p) PROVE PairInv(p, w)'
    <2>1. /\ pc' = [pc EXCEPT ![p] = "add"] /\ pushed - Len(wire) < Window
          /\ sendQueue' = Append(sendQueue, pushed + 1) /\ wire' = wire
          /\ held' = held /\ pushed' = pushed + 1
          /\ Alive' = Alive /\ At("send")' = At("send")
      BY <1>0, <1>6, StepCounts, SenderCounts DEF Enqueue, Goto
    <2>2. Careful(p, w)'
      BY <1>0, <1>2, <2>1 DEF Careful
    <2>3. /\ Len(sendQueue') = Len(sendQueue) + 1
          /\ \A i \in 1 .. Len(sendQueue) : sendQueue'[i] = sendQueue[i]
          /\ sendQueue'[Len(sendQueue) + 1] = pushed + 1
      BY <1>2, <2>1
    <2>a. /\ pushed = Len(wire) + Cardinality(At("send")) + Len(sendQueue)
          /\ Len(wire') = Len(wire) /\ Cardinality(At("send")') = Cardinality(At("send"))
      BY <2>1 DEF Consecutive
    <2>4. ASSUME NEW i \in 1 .. Len(sendQueue')
          PROVE  sendQueue'[i] = Len(wire') + Cardinality(At("send")') + i
      <3>1. CASE i \in 1 .. Len(sendQueue)
        BY <2>1, <2>3, <3>1 DEF Consecutive
      <3>2. CASE i = Len(sendQueue) + 1
        <4>1. sendQueue'[i] = pushed + 1
          BY <2>3, <3>2
        <4> QED  BY <1>1, <2>a, <3>2, <4>1, SMTT(30)
      <3>3. i \in 1 .. Len(sendQueue) \/ i = Len(sendQueue) + 1
        BY <1>1, <2>3
      <3> QED  BY <3>1, <3>2, <3>3
    <2>5. pushed' = Len(wire') + Cardinality(At("send")') + Len(sendQueue')
      BY <1>1, <2>1, <2>3, <2>a, SMTT(30)
    <2>6. Consecutive'
      BY <2>1, <2>4, <2>5 DEF Consecutive
    <2>7. Windowed'
      BY <1>1, <2>1, BoundsAssumption DEF Windowed
    <2> QED  BY <2>2, <2>6, <2>7
  <1>7. ASSUME FetchAdd(p) PROVE PairInv(p, w)'
    <2>1. /\ pc' = [pc EXCEPT ![p] = "check"] /\ sendQueue' = sendQueue /\ wire' = wire
          /\ held' = held /\ pushed' = pushed /\ Alive' = Alive /\ At("send")' = At("send")
      BY <1>0, <1>7, StepCounts, SenderCounts DEF FetchAdd, Goto
    <2>2. Careful(p, w)'
      BY <1>0, <1>2, <2>1 DEF Careful
    <2>3. Consecutive' /\ Windowed'
      BY <2>1 DEF Consecutive, Windowed
    <2> QED  BY <2>2, <2>3
  <1>8. ASSUME TakeCompletion(w) PROVE PairInv(p, w)'
    <2>1. /\ pc' = [pc EXCEPT ![w] = "sub"] /\ sendQueue' = sendQueue /\ wire' = wire
          /\ held' = held /\ pushed' = pushed /\ Alive' = Alive /\ At("send")' = At("send")
      BY <1>0, <1>8, StepCounts, SenderCounts DEF TakeCompletion, Goto
    <2>2. Careful(p, w)'
      BY <1>0, <1>2, <2>1 DEF Careful
    <2>3. Consecutive' /\ Windowed'
      BY <2>1 DEF Consecutive, Windowed
    <2> QED  BY <2>2, <2>3
  <1>9. ASSUME FetchSub(w) PROVE PairInv(p, w)'
    <2>1. /\ pc' = [pc EXCEPT ![w] = "check"] /\ sendQueue' = sendQueue /\ wire' = wire
          /\ held' = held /\ pushed' = pushed /\ Alive' = Alive - 1 /\ At("send")' = At("send")
      BY <1>0, <1>9, StepCounts, SenderCounts DEF FetchSub, Goto
    <2>2. Careful(p, w)'
      BY <1>0, <1>1, <1>2, <2>1 DEF Careful
    <2>3. Consecutive' /\ Windowed'
      BY <2>1 DEF Consecutive, Windowed
    <2> QED  BY <2>2, <2>3
  <1>10. ASSUME NEW t \in Threads, Check(t) PROVE PairInv(p, w)'
    <2>1. /\ pc[t] = "check"
          /\ pc' = [pc EXCEPT ![t] = IF sendQueueSize = 1 THEN "pop" ELSE "idle"]
          /\ sendQueue' = sendQueue /\ wire' = wire
          /\ held' = held /\ pushed' = pushed /\ Alive' = Alive /\ At("send")' = At("send")
      BY <1>0, <1>10, StepCounts, SenderCounts DEF Check, Goto, IsOnlyOne
    <2>2. Consecutive' /\ Windowed'
      BY <2>1 DEF Consecutive, Windowed
    <2>3. CASE t = w
      <3>1. Careful(p, w)'
        BY <1>0, <1>2, <2>1, <2>3 DEF Careful
      <3> QED  BY <2>2, <3>1
    <2>4. CASE t = p
      <3>1. ASSUME sendQueueSize = 1 PROVE Len(sendQueue) + Alive <= 1
        <4>1. At("add") = {}
          BY <1>0, <2>1, <2>4 DEF At, Careful
        <4>2. Cardinality(At("add")) = 0
          BY <4>1, FS_EmptySet
        <4>3. Total = Len(sendQueue) + Alive
          BY <1>1, <4>2 DEF Total
        <4>4. Len(sendQueue) <= Window /\ Alive <= 2
          BY <1>1, BoundsAssumption DEF Windowed, Consecutive, Careful
        <4>5. Total \in 0 .. SizeMod
          BY <1>1, <4>3, <4>4, BoundsAssumption
        <4>6. Total % SizeMod = 1
          BY <3>1 DEF Counted
        <4>7. \A n \in 0 .. SizeMod - 1 : n % SizeMod = n
          BY BoundsAssumption
        <4>8. SizeMod % SizeMod = 0
          BY BoundsAssumption
        <4>9. Total = SizeMod \/ Total \in 0 .. SizeMod - 1
          BY <4>5, BoundsAssumption
        <4>10. Total = 1
          BY <4>6, <4>7, <4>8, <4>9
        <4> QED  BY <1>1, <4>3, <4>10
      <3>2. Careful(p, w)'
        BY <1>0, <1>2, <2>1, <2>4, <3>1 DEF Careful
      <3> QED  BY <2>2, <3>2
    <2> QED  BY <1>0, <2>3, <2>4
  <1>11. ASSUME NEW t \in Threads, Pop(t) PROVE PairInv(p, w)'
    <2>1. /\ pc[t] = "pop" /\ sendQueue # <<>>
          /\ pc' = [pc EXCEPT ![t] = "send"]
          /\ held' = [held EXCEPT ![t] = Head(sendQueue)]
          /\ sendQueue' = Tail(sendQueue) /\ wire' = wire /\ pushed' = pushed
          /\ Alive' = Alive + 1 /\ Len(sendQueue') = Len(sendQueue) - 1
          /\ Cardinality(At("send")') = Cardinality(At("send")) + 1
      BY <1>0, <1>11, StepCounts, SenderCounts DEF Pop, Goto, Rest
    <2>2. Len(sendQueue) >= 1
      BY <1>2, <2>1
    <2>3. pc[p] # "send"
      BY <1>3, <2>1
    <2>4. pc[w] # "send"
      <3>1. CASE t = w
        BY <2>1, <3>1
      <3>2. CASE t = p
        <4>1. Len(sendQueue) + Alive <= 1
          BY <2>1, <3>2 DEF Careful
        <4>2. Cardinality(At("send")) = 0
          BY <1>1, <2>2, <4>1
        <4> QED  BY <1>4, <2>3, <4>2
      <3> QED  BY <1>0, <3>1, <3>2
    <2>5. At("send") = {} /\ Cardinality(At("send")) = 0
      BY <1>5, <2>3, <2>4
    <2>6. \A u \in At("send")' : u = t
      BY <1>0, <1>2, <2>1, <2>3, <2>4 DEF At
    <2>7. Head(sendQueue) = sendQueue[1] /\ sendQueue[1] = Len(wire) + 1
      BY <1>1, <1>2, <2>2, <2>5 DEF Consecutive
    <2>8. \A u \in At("send")' : held'[u] = Len(wire') + 1
      BY <1>2, <2>1, <2>6, <2>7
    <2>9. ASSUME NEW i \in 1 .. Len(sendQueue')
          PROVE  sendQueue'[i] = Len(wire') + Cardinality(At("send")') + i
      <3>1. i + 1 \in 1 .. Len(sendQueue) /\ sendQueue'[i] = sendQueue[i + 1]
        BY <1>1, <1>2, <2>1, <2>2
      <3>2. sendQueue[i + 1] = Len(wire) + Cardinality(At("send")) + (i + 1)
        BY <3>1 DEF Consecutive
      <3> QED  BY <1>1, <2>1, <2>5, <3>1, <3>2
    <2>10. pushed' = Len(wire') + Cardinality(At("send")') + Len(sendQueue')
      BY <1>1, <2>1, <2>5 DEF Consecutive
    <2>11. Consecutive' /\ Windowed'
      BY <2>1, <2>8, <2>9, <2>10 DEF Consecutive, Windowed
    <2>12. Careful(p, w)'
      <3>1. CASE t = p
        <4>1. Len(sendQueue) + Alive <= 1
          BY <2>1, <3>1 DEF Careful
        <4>2. pc'[w] = pc[w]
          BY <1>0, <1>2, <2>1, <3>1
        <4> QED  BY <1>1, <2>1, <2>2, <4>1, <4>2 DEF Careful
      <3>2. CASE t = w
        <4>1. Alive <= 1 /\ pc'[w] = "send" /\ pc'[p] = pc[p]
          BY <1>0, <1>2, <2>1, <3>2 DEF Careful
        <4> QED  BY <1>1, <2>1, <2>2, <4>1 DEF Careful
      <3> QED  BY <1>0, <3>1, <3>2
    <2> QED  BY <2>11, <2>12
  <1>12. ASSUME NEW t \in Threads, PopEmpty(t) PROVE PairInv(p, w)'
    <2>1. /\ pc' = [pc EXCEPT ![t] = "idle"] /\ sendQueue' = sendQueue /\ wire' = wire
          /\ held' = held /\ pushed' = pushed /\ Alive' = Alive /\ At("send")' = At("send")
      BY <1>0, <1>12, StepCounts, SenderCounts DEF PopEmpty, Goto
    <2>2. Careful(p, w)'
      BY <1>0, <1>2, <2>1 DEF Careful
    <2>3. Consecutive' /\ Windowed'
      BY <2>1 DEF Consecutive, Windowed
    <2> QED  BY <2>2, <2>3
  <1>13. ASSUME NEW t \in Threads, WSASend(t) PROVE PairInv(p, w)'
    <2>1. /\ pc[t] = "send" /\ pc' = [pc EXCEPT ![t] = "idle"]
          /\ wire' = Append(wire, held[t])
          /\ sendQueue' = sendQueue /\ pushed' = pushed /\ Alive' = Alive
          /\ Cardinality(At("send")') = Cardinality(At("send")) - 1
      BY <1>0, <1>13, StepCounts, SenderCounts DEF WSASend, Goto
    <2>2. At("send") = {t} /\ Cardinality(At("send")) = 1
      <3>1. t \in At("send")
        BY <2>1 DEF At
      <3>2. CASE pc[p] = "send"
        BY <1>3, <3>1, <3>2
      <3>3. CASE pc[p] # "send"
        <4>1. t = w
          BY <1>0, <2>1, <3>3
        <4> QED  BY <1>4, <2>1, <3>3, <4>1
      <3> QED  BY <3>2, <3>3
    <2>3. held[t] = Len(wire) + 1
      BY <2>2 DEF Consecutive
    <2>4. /\ Len(wire') = Len(wire) + 1 /\ wire'[Len(wire) + 1] = Len(wire) + 1
          /\ \A i \in 1 .. Len(wire) : wire'[i] = wire[i]
      BY <1>2, <2>1, <2>3
    <2>5. ASSUME NEW i \in 1 .. Len(wire') PROVE wire'[i] = i
      <3>1. i \in 1 .. Len(wire) \/ i = Len(wire) + 1
        BY <1>1, <2>4
      <3>2. \A j \in 1 .. Len(wire) : wire[j] = j
        BY DEF Consecutive
      <3> QED  BY <2>4, <3>1, <3>2
    <2>6. At("send")' = {}
      BY <1>0, <1>2, <2>1, <2>2 DEF At
    <2>7. pushed' = Len(wire') + Cardinality(At("send")') + Len(sendQueue')
      BY <1>1, <2>1, <2>2, <2>4 DEF Consecutive
    <2>8. \A i \in 1 .. Len(sendQueue') :
            sendQueue'[i] = Len(wire') + Cardinality(At("send")') + i
      BY <1>1, <2>1, <2>2, <2>4 DEF Consecutive
    <2>9. Consecutive'
      BY <2>5, <2>6, <2>7, <2>8 DEF Consecutive
    <2>10. Windowed'
      BY <1>1, <2>1, <2>4, BoundsAssumption DEF Windowed
    <2>11. Careful(p, w)'
      BY <1>0, <1>2, <2>1 DEF Careful
    <2> QED  BY <2>9, <2>10, <2>11
  <1>14. ASSUME NEW m \in inFlight, SendDone(m) PROVE PairInv(p, w)'
    <2>1. /\ pc' = pc /\ sendQueue' = sendQueue /\ wire' = wire
          /\ held' = held /\ pushed' = pushed /\ Alive' = Alive
      BY <1>14, StepCounts DEF SendDone
    <2>2. At("send")' = At("send")
      BY <2>1 DEF At
    <2>3. Careful(p, w)'
      BY <2>1 DEF Careful
    <2>4. Consecutive' /\ Windowed'
      BY <2>1, <2>2 DEF Consecutive, Windowed
    <2> QED  BY <2>3, <2>4
  <1>15. CASE UNCHANGED vars
    <2>1. /\ pc' = pc /\ sendQueue' = sendQueue /\ wire' = wire
          /\ held' = held /\ pushed' = pushed /\ Alive' = Alive
      BY <1>15, StutterCounts DEF vars
    <2>2. At("send")' = At("send")
      BY <2>1 DEF At
    <2>3. Careful(p, w)'
      BY <2>1 DEF Careful
    <2>4. Consecutive' /\ Windowed'
      BY <2>1, <2>2 DEF Consecutive, Windowed
    <2> QED  BY <2>3, <2>4
  <1> QED
    BY <1>6, <1>7, <1>8, <1>9, <1>10, <1>11, <1>12, <1>13, <1>14, <1>15, NextCases

LEMMA PairInit ==
  ASSUME NEW p, NEW w, Pushers = {p}, Workers = {w}, Init
  PROVE  PairInv(p, w)
  <1>1. /\ At("send") = {} /\ At("sub") = {} /\ inFlight = {}
        /\ pc[p] = "idle" /\ pc[w] = "idle"
    BY DEF Init, At, Threads
  <1>2. /\ Cardinality(At("send")) = 0 /\ Cardinality(At("sub")) = 0
        /\ Cardinality(inFlight) = 0
    BY <1>1, FS_EmptySet, Zenon
  <1>3. Len(sendQueue) = 0 /\ Len(iocp) = 0 /\ Len(wire) = 0 /\ pushed = 0
    BY DEF Init
  <1>4. Alive = 0
    BY <1>2, <1>3 DEF Alive
  <1>5. Consecutive
    BY <1>1, <1>2, <1>3 DEF Consecutive
  <1> QED  BY <1>1, <1>3, <1>4, <1>5, BoundsAssumption DEF PairInv, Careful, Windowed

(* With the threads main.cpp starts a client gets its replies in the order the
   handlers pushed them, whatever it leaves unread: the test of the counter
   keeps the worker's pop and the redis thread's from overtaking each other
   (ConnUser.h:184, 192, 201-203). *)
THEOREM ShippedOrder ==
  ASSUME NEW p, NEW w, Pushers = {p}, Workers = {w}, Window + 2 <= SizeMod
  PROVE  Spec => []WireInPushOrder
  <1>1. Init => PairInv(p, w)
    BY PairInit
  <1>2. IInv /\ Counted /\ PairInv(p, w) /\ [Next]_vars => PairInv(p, w)'
    BY PairStep
  <1>3. PairInv(p, w) => WireInPushOrder
    BY DEF PairInv, Consecutive, WireInPushOrder
  <1> QED
    BY <1>1, <1>2, <1>3, InitIInv, NextIInv, InitCounted, NextCounted, PTL DEF Spec

(* ... and no more than two sends of the connection are ever outstanding. *)
THEOREM ShippedOutstanding ==
  ASSUME NEW p, NEW w, Pushers = {p}, Workers = {w}, Window + 2 <= SizeMod
  PROVE  Spec => []AtMostTwoOutstanding
  <1>1. Init => PairInv(p, w)
    BY PairInit
  <1>2. IInv /\ Counted /\ PairInv(p, w) /\ [Next]_vars => PairInv(p, w)'
    BY PairStep
  <1>3. IInv /\ PairInv(p, w) => AtMostTwoOutstanding
    <2> SUFFICES ASSUME TypeOK, Alive <= 2 PROVE AtMostTwoOutstanding
      BY DEF IInv, PairInv, Careful
    <2> QED  BY CountTypes DEF Alive, AtMostTwoOutstanding, Outstanding
  <1> QED
    BY <1>1, <1>2, <1>3, InitIInv, NextIInv, InitCounted, NextCounted, PTL DEF Spec
=============================================================================
