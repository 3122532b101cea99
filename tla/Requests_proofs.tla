-------------------------- MODULE Requests_proofs --------------------------
(***************************************************************************)
(* Proofs about Requests, for any number of slots, accounts, connections   *)
(* and requests and any size of the ring: sizes and ring agree, handlers   *)
(* are called for requests only, replies are in order and are those of the *)
(* latest login, and the whole is a queue of requests (RequestService).    *)
(*                                                                         *)
(* Two arguments carry it.  Ahead counts the cells queued for a slot; a    *)
(* push adds its size behind them and a pop takes the first size off, so   *)
(* the pieces stay where the ring has them.  And request numbers only grow *)
(* from the replies over the ring to the stream of a slot.                 *)
(***************************************************************************)
EXTENDS Requests, FiniteSetTheorems, TLAPS

-----------------------------------------------------------------------------
(* The sizes queued for a slot, for any queue q of DataPackets. *)

DataPackets == [slot : Slots, size : Nat \ {0}]

(* What a queue holds at each place, and after a push and a pop. *)
LEMMA QueuePlaces ==
  ASSUME NEW q \in Seq(DataPackets)
  PROVE  /\ Len(q) \in Nat /\ DOMAIN q = 1 .. Len(q)
         /\ \A j \in 1 .. Len(q) : q[j] \in DataPackets /\ q[j].slot \in Slots /\ q[j].size \in Nat /\ q[j].size > 0
  <1>1. \A e \in DataPackets : e.slot \in Slots /\ e.size \in Nat /\ e.size > 0
    BY DEF DataPackets
  <1>2. Len(q) \in Nat /\ DOMAIN q = 1 .. Len(q) /\ \A j \in 1 .. Len(q) : q[j] \in DataPackets
    <2> HIDE DEF DataPackets
    <2> QED
      OBVIOUS
  <1> QED
    BY <1>1, <1>2

(* A DataPacket is queued behind the others. *)
LEMMA QueuePush ==
  ASSUME NEW q \in Seq(DataPackets), NEW e \in DataPackets
  PROVE  /\ Append(q, e) \in Seq(DataPackets) /\ Len(Append(q, e)) = Len(q) + 1
         /\ Append(q, e)[Len(q) + 1] = e
         /\ \A j \in 1 .. Len(q) : Append(q, e)[j] = q[j]
  OBVIOUS

(* The first DataPacket is taken. *)
LEMMA QueuePop ==
  ASSUME NEW q \in Seq(DataPackets), q # <<>>
  PROVE  /\ Tail(q) \in Seq(DataPackets) /\ Len(Tail(q)) = Len(q) - 1 /\ Len(q) > 0
         /\ Head(q) = q[1]
         /\ \A j \in 1 .. Len(q) - 1 : Tail(q)[j] = q[j + 1]
  OBVIOUS

(* Membership in Ahead. *)
LEMMA AheadIs ==
  ASSUME NEW q, NEW k, NEW s, NEW x
  PROVE  x \in Ahead(q, k, s) <=>
           \E j \in 1 .. k - 1 : q[j].slot = s /\ \E m \in 1 .. q[j].size : x = <<j, m>>
  BY DEF Ahead

(* Ahead is finite, so that its cardinality counts cells. *)
LEMMA AheadFinite ==
  ASSUME NEW q \in Seq(DataPackets), NEW s, NEW k \in 1 .. Len(q) + 1
  PROVE  IsFiniteSet(Ahead(q, k, s)) /\ Cardinality(Ahead(q, k, s)) \in Nat
  <1> DEFINE J == {j \in 1 .. k - 1 : q[j].slot = s}
             P == {{j} \X (1 .. q[j].size) : j \in J}
  <1>1. k \in Int /\ \A j \in J : j \in 1 .. Len(q) /\ q[j].size \in Nat
    BY QueuePlaces
  <1>2. IsFiniteSet(J)
    <2>1. IsFiniteSet(1 .. k - 1)
      BY FS_Interval
    <2> QED
      BY <2>1, FS_Subset
  <1>3. IsFiniteSet(P)
    <2> DEFINE g == [j \in J |-> {j} \X (1 .. q[j].size)]
    <2>1. g \in Surjection(J, P)
      BY DEF Surjection
    <2> HIDE DEF J, P, g
    <2> QED
      BY <1>2, <2>1, FS_Surjection
  <1>4. \A p \in P : IsFiniteSet(p)
    <2> SUFFICES ASSUME NEW j \in J PROVE IsFiniteSet({j} \X (1 .. q[j].size))
      OBVIOUS
    <2>1. q[j].size \in Int /\ 1 \in Int
      BY <1>1
    <2>2. IsFiniteSet(1 .. q[j].size)
      BY <2>1, FS_Interval
    <2>3. IsFiniteSet({j})
      BY FS_Singleton
    <2> QED
      BY <2>2, <2>3, FS_Product
  <1>5. IsFiniteSet(UNION P)
    BY <1>3, <1>4, FS_UNION
  <1> QED
    BY <1>5, FS_CardinalityType DEF Ahead

(* Nothing is ahead of the first. *)
LEMMA AheadOfFirst ==
  ASSUME NEW q, NEW s
  PROVE  Cardinality(Ahead(q, 1, s)) = 0
  <1>1. Ahead(q, 1, s) = {}
    BY AheadIs
  <1> QED
    BY <1>1, FS_EmptySet

(* One DataPacket further, its size more. *)
LEMMA AheadNext ==
  ASSUME NEW q \in Seq(DataPackets), NEW s, NEW k \in 1 .. Len(q)
  PROVE  Cardinality(Ahead(q, k + 1, s)) =
           Cardinality(Ahead(q, k, s)) + (IF q[k].slot = s THEN q[k].size ELSE 0)
  <1> DEFINE B == {x \in {k} \X (1 .. q[k].size) : q[k].slot = s}
  <1>1. q[k].size \in Nat /\ k \in Nat
    BY QueuePlaces
  <1>2. Ahead(q, k + 1, s) = Ahead(q, k, s) \cup B
    <2>1. \A x : x \in B <=> q[k].slot = s /\ \E m \in 1 .. q[k].size : x = <<k, m>>
      OBVIOUS
    <2>2. 1 .. (k + 1) - 1 = (1 .. k - 1) \cup {k}
      BY <1>1
    <2> HIDE DEF B
    <2> QED
      BY <2>1, <2>2, AheadIs
  <1>3. Ahead(q, k, s) \cap B = {}
    BY <1>1, AheadIs
  <1>4. IsFiniteSet(B) /\ Cardinality(B) = (IF q[k].slot = s THEN q[k].size ELSE 0)
    <2>1. CASE q[k].slot = s
      <3>1. B = {k} \X (1 .. q[k].size)
        BY <2>1
      <3>2. /\ IsFiniteSet({k}) /\ Cardinality({k}) = 1
            /\ IsFiniteSet(1 .. q[k].size)
            /\ Cardinality(1 .. q[k].size) = IF 1 > q[k].size THEN 0 ELSE q[k].size - 1 + 1
        <4>1. q[k].size \in Int /\ 1 \in Int
          BY <1>1
        <4>2. /\ IsFiniteSet(1 .. q[k].size)
              /\ Cardinality(1 .. q[k].size) = IF 1 > q[k].size THEN 0 ELSE q[k].size - 1 + 1
          BY <4>1, FS_Interval
        <4> QED
          BY <4>2, FS_Singleton
      <3>3. IsFiniteSet(B) /\ Cardinality(B) = Cardinality({k}) * Cardinality(1 .. q[k].size)
        BY <3>1, <3>2, FS_Product
      <3>4. Cardinality(1 .. q[k].size) = q[k].size
        BY <1>1, <3>2
      <3> HIDE DEF B
      <3>5. Cardinality(B) = q[k].size
        BY <1>1, <3>2, <3>3, <3>4
      <3> QED
        BY <2>1, <3>3, <3>5
    <2>2. CASE q[k].slot # s
      <3>1. B = {}
        BY <2>2
      <3> QED
        BY <2>2, <3>1, FS_EmptySet
    <2> QED
      BY <2>1, <2>2
  <1> HIDE DEF B
  <1>5. IsFiniteSet(Ahead(q, k, s)) /\ Cardinality(Ahead(q, k, s)) \in Nat
    BY <1>1, AheadFinite, QueuePlaces
  <1>6. Cardinality(Ahead(q, k, s) \cap B) = 0
    BY <1>3, FS_EmptySet
  <1>7. Cardinality(Ahead(q, k, s) \cup B) =
          Cardinality(Ahead(q, k, s)) + Cardinality(B) - Cardinality(Ahead(q, k, s) \cap B)
    BY <1>4, <1>5, FS_Union
  <1>8. Cardinality(B) \in Nat
    BY <1>4, FS_CardinalityType
  <1>9. Cardinality(Ahead(q, k + 1, s)) = Cardinality(Ahead(q, k, s)) + Cardinality(B)
    <2>1. Cardinality(Ahead(q, k, s) \cup B) = Cardinality(Ahead(q, k, s)) + Cardinality(B)
      BY <1>5, <1>6, <1>7, <1>8
    <2> QED
      BY <1>2, <2>1
  <1> QED
    BY <1>4, <1>9

(* What is ahead of one DataPacket is ahead of the later ones. *)
LEMMA AheadGrows ==
  ASSUME NEW q \in Seq(DataPackets), NEW s, NEW k \in 1 .. Len(q) + 1, NEW l \in k .. Len(q) + 1
  PROVE  Cardinality(Ahead(q, k, s)) <= Cardinality(Ahead(q, l, s))
  <1>1. l \in 1 .. Len(q) + 1
    BY QueuePlaces
  <1>2. Ahead(q, k, s) \subseteq Ahead(q, l, s)
    <2>1. 1 .. k - 1 \subseteq 1 .. l - 1
      BY QueuePlaces
    <2> QED
      BY <2>1, AheadIs
  <1> QED
    BY <1>1, <1>2, AheadFinite, FS_Subset

(* A push changes nothing of what was ahead. *)
LEMMA AheadPush ==
  ASSUME NEW q \in Seq(DataPackets), NEW e \in DataPackets, NEW s, NEW k \in 1 .. Len(q) + 1
  PROVE  Ahead(Append(q, e), k, s) = Ahead(q, k, s)
  <1> DEFINE r == Append(q, e)
  <1>1. \A j \in 1 .. k - 1 : r[j] = q[j]
    BY QueuePush, QueuePlaces
  <1> HIDE DEF r
  <1>2. \A x : x \in Ahead(r, k, s) <=> x \in Ahead(q, k, s)
    BY <1>1, AheadIs
  <1> QED
    BY <1>2 DEF r

(* After a pop the sizes of the others are ahead, and not that of the first. *)
LEMMA AheadPop ==
  ASSUME NEW q \in Seq(DataPackets), q # <<>>, NEW s, NEW k \in 1 .. Len(q)
  PROVE  Cardinality(Ahead(q, k + 1, s)) =
           Cardinality(Ahead(Tail(q), k, s)) + (IF q[1].slot = s THEN q[1].size ELSE 0)
  <1> DEFINE r == Tail(q)
             A == Ahead(r, k, s)
             B == {<<x[1] + 1, x[2]>> : x \in A}
             C == Ahead(q, 2, s)
  <1>1. /\ r \in Seq(DataPackets) /\ Len(r) = Len(q) - 1 /\ Len(q) \in Nat /\ Len(q) > 0
        /\ \A j \in 1 .. Len(q) - 1 : r[j] = q[j + 1]
        /\ k \in 1 .. Len(r) + 1
    BY QueuePop, QueuePlaces
  <1>2. IsFiniteSet(A)
    BY <1>1, AheadFinite
  <1>3. \A x : x \in A <=> \E j \in 1 .. k - 1 : q[j + 1].slot = s /\ \E m \in 1 .. q[j + 1].size : x = <<j, m>>
    <2>1. \A j \in 1 .. k - 1 : r[j] = q[j + 1]
      BY <1>1
    <2> HIDE DEF r
    <2> QED
      BY <2>1, AheadIs
  <1>4. C \cap B = {}
    <2>1. \A x \in C : x[1] = 1
      BY AheadIs
    <2>2. \A x \in B : x[1] # 1
      BY <1>3
    <2> QED
      BY <2>1, <2>2
  <1>5. Ahead(q, k + 1, s) = C \cup B
    <2>1. ASSUME NEW x \in Ahead(q, k + 1, s)
          PROVE  x \in C \cup B
      <3>1. PICK j \in 1 .. (k + 1) - 1 :
              q[j].slot = s /\ \E m \in 1 .. q[j].size : x = <<j, m>>
        BY <2>1, AheadIs
      <3>2. CASE j = 1
        BY <3>1, <3>2, AheadIs
      <3>3. CASE j # 1
        <4>1. PICK m \in 1 .. q[j].size : x = <<j, m>>
          BY <3>1
        <4>2. j - 1 \in 1 .. k - 1 /\ (j - 1) + 1 = j
          BY <1>1, <3>3
        <4>3. <<j - 1, m>> \in A
          BY <1>3, <3>1, <4>2
        <4>4. x = <<<<j - 1, m>>[1] + 1, <<j - 1, m>>[2]>>
          BY <4>1, <4>2
        <4> HIDE DEF A
        <4> QED
          BY <4>3, <4>4
      <3> QED
        BY <3>2, <3>3
    <2>2. ASSUME NEW x \in C
          PROVE  x \in Ahead(q, k + 1, s)
      <3>1. 1 .. 2 - 1 \subseteq 1 .. (k + 1) - 1
        BY <1>1
      <3> QED
        BY <2>2, <3>1, AheadIs
    <2>3. ASSUME NEW x \in B
          PROVE  x \in Ahead(q, k + 1, s)
      <3>1. PICK y \in A : x = <<y[1] + 1, y[2]>>
        BY <2>3
      <3>2. PICK j \in 1 .. k - 1 : q[j + 1].slot = s /\ \E m \in 1 .. q[j + 1].size : y = <<j, m>>
        BY <1>3, <3>1
      <3>3. j + 1 \in 1 .. (k + 1) - 1
        BY <1>1
      <3>4. \E m \in 1 .. q[j + 1].size : x = <<j + 1, m>>
        BY <3>1, <3>2
      <3> QED
        BY <3>2, <3>3, <3>4, AheadIs
    <2> HIDE DEF B, C
    <2> QED
      BY <2>1, <2>2, <2>3
  <1>6. IsFiniteSet(B) /\ Cardinality(B) = Cardinality(A)
    <2> DEFINE g == [x \in A |-> <<x[1] + 1, x[2]>>]
    <2>1. \A x, y \in A : <<x[1] + 1, x[2]>> = <<y[1] + 1, y[2]>> => x = y
      BY <1>3
    <2> HIDE DEF A
    <2>2. g \in Bijection(A, B)
      BY <2>1 DEF Bijection, Injection, Surjection, IsInjective
    <2> QED
      BY <1>2, <2>2, FS_Bijection DEF ExistsBijection
  <1>7. /\ IsFiniteSet(C) /\ Cardinality(C) \in Nat
        /\ Cardinality(C) = IF q[1].slot = s THEN q[1].size ELSE 0
    <2>1. 1 \in 1 .. Len(q) /\ 1 + 1 = 2 /\ 2 \in 1 .. Len(q) + 1
      BY <1>1
    <2>2. Cardinality(Ahead(q, 1 + 1, s)) =
            Cardinality(Ahead(q, 1, s)) + (IF q[1].slot = s THEN q[1].size ELSE 0)
      BY <2>1, AheadNext
    <2>3. q[1].size \in Nat
      BY <2>1, QueuePlaces
    <2> QED
      BY <2>1, <2>2, <2>3, AheadOfFirst, AheadFinite
  <1> HIDE DEF A, B, C
  <1>8. Cardinality(C \cap B) = 0
    BY <1>4, FS_EmptySet
  <1>9. Cardinality(C \cup B) = Cardinality(C) + Cardinality(B) - Cardinality(C \cap B)
    BY <1>6, <1>7, FS_Union
  <1>10. Cardinality(A) \in Nat
    BY <1>2, FS_CardinalityType
  <1>11. Cardinality(Ahead(q, k + 1, s)) = Cardinality(A) + Cardinality(C)
    <2>1. Cardinality(C \cup B) = Cardinality(A) + Cardinality(C)
      BY <1>6, <1>7, <1>8, <1>9, <1>10
    <2> QED
      BY <1>5, <2>1
  <1> QED
    BY <1>7, <1>11 DEF A, r

-----------------------------------------------------------------------------
(* A ring x of slot s and the sizes queued for it agree. *)

Framed(q, x, s) ==
  /\ Cardinality(Ahead(q, Len(q) + 1, s)) = Len(x)
  /\ \A k \in 1 .. Len(q) :
       q[k].slot = s => x[Cardinality(Ahead(q, k, s)) + 1][2] = "header"

(* What Read leaves of a sequence, and what it takes. *)
LEMMA Dropped ==
  ASSUME NEW S, NEW x \in Seq(S), NEW n \in Nat, n <= Len(x)
  PROVE  /\ SubSeq(x, n + 1, Len(x)) \in Seq(S)
         /\ Len(SubSeq(x, n + 1, Len(x))) = Len(x) - n
         /\ \A i \in 1 .. Len(SubSeq(x, n + 1, Len(x))) : SubSeq(x, n + 1, Len(x))[i] = x[n + i]
  <1>1. Len(x) \in Nat /\ \A i \in 1 .. Len(x) : x[i] \in S
    OBVIOUS
  <1>2. Len(SubSeq(x, n + 1, Len(x))) = Len(x) - n
    BY <1>1
  <1>3. \A i \in 1 .. Len(x) - n : SubSeq(x, n + 1, Len(x))[i] = x[n + i]
    BY <1>1
  <1>4. SubSeq(x, n + 1, Len(x)) \in Seq(S)
    BY <1>1
  <1> QED
    BY <1>2, <1>3, <1>4

Starts(x) == x # <<>> => x[1][2] = "header"

(* Every piece lies in the ring. *)
LEMMA FramedInside ==
  ASSUME NEW q \in Seq(DataPackets), NEW s, NEW x, Framed(q, x, s), NEW k \in 1 .. Len(q)
  PROVE  /\ Cardinality(Ahead(q, k, s)) \in Nat
         /\ Cardinality(Ahead(q, k, s)) + (IF q[k].slot = s THEN q[k].size ELSE 0) <= Len(x)
  <1>1. /\ Len(q) \in Nat /\ k \in 1 .. Len(q) + 1 /\ k + 1 \in 1 .. Len(q) + 1
        /\ Len(q) + 1 \in (k + 1) .. Len(q) + 1
    BY QueuePlaces
  <1>2. Cardinality(Ahead(q, k + 1, s)) <= Cardinality(Ahead(q, Len(q) + 1, s))
    BY <1>1, AheadGrows
  <1>3. Cardinality(Ahead(q, k + 1, s)) =
          Cardinality(Ahead(q, k, s)) + (IF q[k].slot = s THEN q[k].size ELSE 0)
    BY AheadNext
  <1> QED
    BY <1>1, <1>2, <1>3, AheadFinite DEF Framed

(* A receive of e.size cells y, the first a header, extends queue and ring alike. *)
LEMMA FramedPush ==
  ASSUME NEW q \in Seq(DataPackets), NEW s, NEW S, NEW x \in Seq(S), Framed(q, x, s),
         NEW e \in DataPackets, NEW y \in Seq(S),
         e.slot = s => Len(y) = e.size /\ Starts(y),
         e.slot # s => y = <<>>
  PROVE  Framed(Append(q, e), x \o y, s)
  <1> DEFINE r == Append(q, e)
             z == x \o y
  <1>1. /\ r \in Seq(DataPackets) /\ Len(r) = Len(q) + 1 /\ Len(q) \in Nat /\ r[Len(q) + 1] = e
        /\ \A j \in 1 .. Len(q) : r[j] = q[j]
        /\ e.size \in Nat /\ e.size > 0
    BY QueuePush, QueuePlaces DEF DataPackets
  <1>2. \A k \in 1 .. Len(q) + 1 : Ahead(r, k, s) = Ahead(q, k, s)
    BY AheadPush
  <1>3. /\ Len(z) = Len(x) + Len(y) /\ Len(x) \in Nat /\ Len(y) \in Nat
        /\ \A i \in 1 .. Len(x) : z[i] = x[i]
        /\ y # <<>> => z[Len(x) + 1] = y[1]
    OBVIOUS
  <1> HIDE DEF r, z
  <1>4. /\ Cardinality(Ahead(r, Len(q) + 1, s)) = Len(x)
        /\ Cardinality(Ahead(r, Len(r) + 1, s)) = Len(x) + (IF e.slot = s THEN e.size ELSE 0)
    <2>1. Len(q) + 1 \in 1 .. Len(r) /\ Len(q) + 1 \in 1 .. Len(q) + 1
      BY <1>1
    <2>2. Cardinality(Ahead(r, (Len(q) + 1) + 1, s)) =
            Cardinality(Ahead(r, Len(q) + 1, s))
              + (IF r[Len(q) + 1].slot = s THEN r[Len(q) + 1].size ELSE 0)
      BY <1>1, <2>1, AheadNext
    <2> QED
      BY <1>1, <1>2, <2>1, <2>2 DEF Framed
  <1>5. Len(y) = IF e.slot = s THEN e.size ELSE 0
    <2>1. Len(<<>>) = 0
      OBVIOUS
    <2> QED
      BY <2>1
  <1>6. ASSUME NEW k \in 1 .. Len(r), r[k].slot = s
        PROVE  z[Cardinality(Ahead(r, k, s)) + 1][2] = "header"
    <2>1. CASE k = Len(q) + 1
      <3>1. e.slot = s /\ Len(y) > 0 /\ y # <<>>
        BY <1>1, <1>3, <1>5, <1>6, <2>1
      <3> QED
        BY <1>3, <1>4, <2>1, <3>1 DEF Starts
    <2>2. CASE k # Len(q) + 1
      <3>1. k \in 1 .. Len(q) /\ k \in 1 .. Len(q) + 1 /\ r[k] = q[k]
        BY <1>1, <2>2
      <3>2. /\ Cardinality(Ahead(q, k, s)) \in Nat
            /\ Cardinality(Ahead(q, k, s)) + q[k].size <= Len(x)
            /\ q[k].size \in Nat /\ q[k].size > 0
        BY <1>6, <3>1, FramedInside, QueuePlaces
      <3>3. x[Cardinality(Ahead(q, k, s)) + 1][2] = "header"
        BY <1>6, <3>1 DEF Framed
      <3>4. Cardinality(Ahead(q, k, s)) + 1 \in 1 .. Len(x)
        BY <1>3, <3>2
      <3>5. Ahead(r, k, s) = Ahead(q, k, s)
        BY <1>2, <3>1
      <3> QED
        BY <1>3, <3>3, <3>4, <3>5
    <2> QED
      BY <2>1, <2>2
  <1> QED
    BY <1>3, <1>4, <1>5, <1>6 DEF Framed, r, z

(* The piece announced first is there, and starts with a header. *)
LEMMA FramedFirst ==
  ASSUME NEW q \in Seq(DataPackets), NEW s, NEW x, Framed(q, x, s), q # <<>>, q[1].slot = s
  PROVE  q[1].size <= Len(x) /\ x[1][2] = "header"
  <1>1. 1 \in 1 .. Len(q) /\ q[1].size \in Nat
    BY QueuePop, QueuePlaces
  <1> QED
    BY <1>1, FramedInside, AheadOfFirst DEF Framed

(* Taking it leaves the rest in agreement; n is 0 for the other slots. *)
LEMMA FramedPop ==
  ASSUME NEW q \in Seq(DataPackets), NEW s, NEW S, NEW x \in Seq(S), Framed(q, x, s), q # <<>>,
         NEW n, q[1].slot = s => n = q[1].size, q[1].slot # s => n = 0
  PROVE  /\ SubSeq(x, n + 1, Len(x)) \in Seq(S)
         /\ Framed(Tail(q), SubSeq(x, n + 1, Len(x)), s)
  <1> DEFINE r == Tail(q)
             y == SubSeq(x, n + 1, Len(x))
  <1>1. /\ r \in Seq(DataPackets) /\ Len(r) = Len(q) - 1 /\ Len(q) \in Nat /\ Len(q) > 0
        /\ \A j \in 1 .. Len(r) : r[j] = q[j + 1]
    BY QueuePop, QueuePlaces
  <1>2. n \in Nat /\ n <= Len(x) /\ Len(x) \in Nat
    <2>1. 1 \in 1 .. Len(q) /\ q[1].size \in Nat
      BY <1>1, QueuePlaces
    <2> QED
      BY <2>1, FramedInside, AheadOfFirst
  <1>3. y \in Seq(S) /\ Len(y) = Len(x) - n /\ \A i \in 1 .. Len(y) : y[i] = x[n + i]
    BY <1>2, Dropped
  <1>4. \A k \in 1 .. Len(q) : Cardinality(Ahead(q, k + 1, s)) = Cardinality(Ahead(r, k, s)) + n
    BY AheadPop
  <1> HIDE DEF r, y
  <1>5. Cardinality(Ahead(r, Len(r) + 1, s)) = Len(y)
    <2>1. Len(q) \in 1 .. Len(q) /\ Len(r) + 1 = Len(q) /\ Len(r) + 1 \in 1 .. Len(r) + 1
      BY <1>1
    <2>2. Cardinality(Ahead(q, Len(q) + 1, s)) = Cardinality(Ahead(r, Len(r) + 1, s)) + n
      BY <1>4, <2>1
    <2>3. Cardinality(Ahead(r, Len(r) + 1, s)) \in Nat
      BY <1>1, <2>1, AheadFinite
    <2> QED
      BY <1>2, <1>3, <2>2, <2>3 DEF Framed
  <1>6. ASSUME NEW k \in 1 .. Len(r), r[k].slot = s
        PROVE  y[Cardinality(Ahead(r, k, s)) + 1][2] = "header"
    <2> DEFINE a == Cardinality(Ahead(r, k, s))
               b == Cardinality(Ahead(q, k + 1, s))
    <2>1. k + 1 \in 1 .. Len(q) /\ k \in 1 .. Len(q) /\ q[k + 1] = r[k] /\ k \in 1 .. Len(r) + 1
      BY <1>1
    <2>2. x[b + 1][2] = "header"
      BY <1>6, <2>1 DEF Framed
    <2>3. /\ b + q[k + 1].size <= Len(x)
          /\ q[k + 1].size \in Nat /\ q[k + 1].size > 0
      BY <1>6, <2>1, FramedInside, QueuePlaces
    <2>4. b = a + n
      BY <1>4, <2>1
    <2>5. a \in Nat
      BY <1>1, <2>1, AheadFinite
    <2> HIDE DEF a, b
    <2>6. a + 1 \in 1 .. Len(x) - n /\ n + (a + 1) = b + 1
      <3>1. n \in Nat /\ Len(x) \in Nat
        BY <1>2
      <3> DEFINE m == Len(x)
                 l == q[k + 1].size
      <3>2. n \in Nat /\ m \in Nat /\ a \in Nat /\ b = a + n /\ l \in Nat /\ l > 0 /\ b + l <= m
        BY <2>3, <2>4, <2>5, <3>1
      <3> HIDE DEF m, l
      <3>3. a + 1 \in 1 .. m - n /\ n + (a + 1) = b + 1
        BY <3>2
      <3> QED
        BY <3>3 DEF m
    <2>7. y[a + 1] = x[b + 1]
      <3>1. Len(y) = Len(x) - n /\ \A i \in 1 .. Len(y) : y[i] = x[n + i]
        BY <1>3
      <3>2. a + 1 \in 1 .. Len(y)
        BY <2>6, <3>1
      <3>3. y[a + 1] = x[n + (a + 1)]
        BY <3>1, <3>2
      <3> QED
        BY <2>6, <3>3
    <2>8. y[a + 1][2] = "header"
      BY <2>2, <2>7
    <2> QED
      BY <2>8 DEF a
  <1>7. y \in Seq(S) /\ Framed(r, y, s)
    BY <1>3, <1>5, <1>6 DEF Framed
  <1> QED
    BY <1>7 DEF r, y

-----------------------------------------------------------------------------
(* The cells of a slot: those in its ring (x) and those on the way (y), of n
   requests sent so far.  Headers are in the order of their requests. *)

Ordered(x) ==
  \A i, j \in 1 .. Len(x) :
    i < j /\ x[i][2] = "header" /\ x[j][2] = "header" => x[i][1] < x[j][1]
Precedes(x, y) ==
  \A i \in 1 .. Len(x), j \in 1 .. Len(y) :
    x[i][2] = "header" /\ y[j][2] = "header" => x[i][1] < y[j][1]
Below(x, n)  == \A i \in 1 .. Len(x) : x[i][1] \in 1 .. n
Behind(x, r) == \A i \in 1 .. Len(x) : x[i][2] = "header" => r < x[i][1]

Line(x, y, n) ==
  /\ Ordered(x) /\ Ordered(y) /\ Precedes(x, y)
  /\ Below(x, n) /\ Below(y, n)

(* The cells of two sequences in one. *)
LEMMA Joined ==
  ASSUME NEW S, NEW x \in Seq(S), NEW y \in Seq(S)
  PROVE  /\ x \o y \in Seq(S) /\ Len(x \o y) = Len(x) + Len(y)
         /\ Len(x) \in Nat /\ Len(y) \in Nat
         /\ \A i \in 1 .. Len(x \o y) :
              \/ i \in 1 .. Len(x) /\ (x \o y)[i] = x[i]
              \/ i - Len(x) \in 1 .. Len(y) /\ (x \o y)[i] = y[i - Len(x)] /\ i > Len(x)
  OBVIOUS

(* The order of headers, when two sequences in order are joined. *)
LEMMA JoinedOrder ==
  ASSUME NEW S, NEW x \in Seq(S), NEW y \in Seq(S)
  PROVE  /\ Ordered(x) /\ Ordered(y) /\ Precedes(x, y) => Ordered(x \o y)
         /\ \A z : Precedes(x, z) /\ Precedes(y, z) => Precedes(x \o y, z)
         /\ \A z : Precedes(z, x) /\ Precedes(z, y) => Precedes(z, x \o y)
         /\ \A n : Below(x, n) /\ Below(y, n) => Below(x \o y, n)
         /\ \A r : Behind(x, r) /\ Behind(y, r) => Behind(x \o y, r)
  <1> DEFINE z == x \o y
  <1>1. /\ Len(x) \in Nat /\ Len(y) \in Nat /\ Len(z) \in Nat
        /\ \A i \in 1 .. Len(z) :
             \/ i \in 1 .. Len(x) /\ z[i] = x[i]
             \/ i - Len(x) \in 1 .. Len(y) /\ z[i] = y[i - Len(x)] /\ i > Len(x)
    BY Joined
  <1> HIDE DEF z
  <1>2. Ordered(x) /\ Ordered(y) /\ Precedes(x, y) => Ordered(z)
    <2> SUFFICES ASSUME Ordered(x), Ordered(y), Precedes(x, y),
                        NEW i \in 1 .. Len(z), NEW j \in 1 .. Len(z), i < j,
                        z[i][2] = "header", z[j][2] = "header"
                 PROVE  z[i][1] < z[j][1]
      BY DEF Ordered
    <2>1. CASE i \in 1 .. Len(x) /\ z[i] = x[i] /\ j \in 1 .. Len(x) /\ z[j] = x[j]
      BY <2>1 DEF Ordered
    <2>2. CASE i \in 1 .. Len(x) /\ z[i] = x[i] /\ j - Len(x) \in 1 .. Len(y) /\ z[j] = y[j - Len(x)]
      BY <2>2 DEF Precedes
    <2>3. CASE /\ i - Len(x) \in 1 .. Len(y) /\ z[i] = y[i - Len(x)]
               /\ j - Len(x) \in 1 .. Len(y) /\ z[j] = y[j - Len(x)]
      <3>1. i - Len(x) < j - Len(x)
        BY <1>1
      <3> QED
        BY <2>3, <3>1 DEF Ordered
    <2>4. ~ (i > Len(x) /\ j \in 1 .. Len(x))
      BY <1>1
    <2> QED
      BY <1>1, <2>1, <2>2, <2>3, <2>4
  <1>3. /\ \A w : Precedes(x, w) /\ Precedes(y, w) => Precedes(z, w)
        /\ \A w : Precedes(w, x) /\ Precedes(w, y) => Precedes(w, z)
    BY <1>1 DEF Precedes
  <1>4. \A n : Below(x, n) /\ Below(y, n) => Below(z, n)
    BY <1>1 DEF Below
  <1>5. \A r : Behind(x, r) /\ Behind(y, r) => Behind(z, r)
    BY <1>1 DEF Behind
  <1> QED
    BY <1>2, <1>3, <1>4, <1>5 DEF z

(* The first n cells and the others. *)
LEMMA Split ==
  ASSUME NEW S, NEW x \in Seq(S), NEW n \in Nat, n <= Len(x)
  PROVE  /\ SubSeq(x, 1, n) \in Seq(S) /\ Len(SubSeq(x, 1, n)) = n
         /\ \A i \in 1 .. n : SubSeq(x, 1, n)[i] = x[i]
         /\ SubSeq(x, n + 1, Len(x)) \in Seq(S)
         /\ Len(SubSeq(x, n + 1, Len(x))) = Len(x) - n
         /\ \A i \in 1 .. Len(x) - n : SubSeq(x, n + 1, Len(x))[i] = x[n + i]
  <1>1. Len(x) \in Nat /\ \A i \in 1 .. Len(x) : x[i] \in S
    OBVIOUS
  <1>2. Len(SubSeq(x, 1, n)) = n /\ \A i \in 1 .. n : SubSeq(x, 1, n)[i] = x[i]
    BY <1>1
  <1>3. SubSeq(x, 1, n) \in Seq(S)
    BY <1>1
  <1> QED
    BY <1>2, <1>3, Dropped

(* The order of headers on both sides of a cut. *)
LEMMA SplitOrder ==
  ASSUME NEW S, NEW x \in Seq(S), NEW n \in Nat, n <= Len(x)
  PROVE  LET a == SubSeq(x, 1, n)
             b == SubSeq(x, n + 1, Len(x))
         IN  /\ Ordered(x) => Ordered(a) /\ Ordered(b) /\ Precedes(a, b)
             /\ \A z : Precedes(x, z) => Precedes(a, z) /\ Precedes(b, z)
             /\ \A z : Precedes(z, x) => Precedes(z, a) /\ Precedes(z, b)
             /\ \A m : Below(x, m) => Below(a, m) /\ Below(b, m)
             /\ \A r : Behind(x, r) => Behind(a, r) /\ Behind(b, r)
  <1> DEFINE a == SubSeq(x, 1, n)
             b == SubSeq(x, n + 1, Len(x))
  <1>1. /\ Len(a) = n /\ Len(b) = Len(x) - n /\ Len(x) \in Nat
        /\ \A i \in 1 .. Len(a) : i \in 1 .. Len(x) /\ a[i] = x[i]
        /\ \A i \in 1 .. Len(b) : n + i \in 1 .. Len(x) /\ b[i] = x[n + i]
    BY Split
  <1> HIDE DEF a, b
  <1>2. Ordered(x) => Ordered(a) /\ Ordered(b) /\ Precedes(a, b)
    <2>1. \A i, j \in 1 .. Len(b) : i < j => n + i < n + j
      BY <1>1
    <2>2. \A i \in 1 .. Len(a), j \in 1 .. Len(b) : i < n + j
      BY <1>1
    <2>3. Ordered(x) => Ordered(a)
      BY <1>1 DEF Ordered
    <2>4. Ordered(x) => Ordered(b)
      <3> SUFFICES ASSUME Ordered(x), NEW i \in 1 .. Len(b), NEW j \in 1 .. Len(b), i < j,
                          b[i][2] = "header", b[j][2] = "header"
                   PROVE  b[i][1] < b[j][1]
        BY DEF Ordered
      <3>1. /\ n + i \in 1 .. Len(x) /\ n + j \in 1 .. Len(x) /\ n + i < n + j
            /\ b[i] = x[n + i] /\ b[j] = x[n + j]
        BY <1>1, <2>1
      <3> QED
        BY <3>1 DEF Ordered
    <2>5. Ordered(x) => Precedes(a, b)
      <3> SUFFICES ASSUME Ordered(x), NEW i \in 1 .. Len(a), NEW j \in 1 .. Len(b),
                          a[i][2] = "header", b[j][2] = "header"
                   PROVE  a[i][1] < b[j][1]
        BY DEF Precedes
      <3>1. /\ i \in 1 .. Len(x) /\ n + j \in 1 .. Len(x) /\ i < n + j
            /\ a[i] = x[i] /\ b[j] = x[n + j]
        BY <1>1, <2>2
      <3> QED
        BY <3>1 DEF Ordered
    <2> QED
      BY <2>3, <2>4, <2>5
  <1>3. /\ \A z : Precedes(x, z) => Precedes(a, z) /\ Precedes(b, z)
        /\ \A z : Precedes(z, x) => Precedes(z, a) /\ Precedes(z, b)
    <2>1. \A z : Precedes(x, z) => Precedes(a, z)
      BY <1>1 DEF Precedes
    <2>2. \A z : Precedes(x, z) => Precedes(b, z)
      BY <1>1 DEF Precedes
    <2>3. \A z : Precedes(z, x) => Precedes(z, a)
      BY <1>1 DEF Precedes
    <2>4. \A z : Precedes(z, x) => Precedes(z, b)
      BY <1>1 DEF Precedes
    <2> QED
      BY <2>1, <2>2, <2>3, <2>4
  <1>4. \A m : Below(x, m) => Below(a, m) /\ Below(b, m)
    BY <1>1 DEF Below
  <1>5. \A r : Behind(x, r) => Behind(a, r) /\ Behind(b, r)
    BY <1>1 DEF Behind
  <1> QED
    BY <1>2, <1>3, <1>4, <1>5 DEF a, b

(* A client sends request n + 1. *)
LEMMA SentLine ==
  ASSUME NEW x \in Seq(CellSet), NEW y \in Seq(CellSet), NEW n \in Nat, Line(x, y, n),
         n + 1 \in Reqs, NEW kind
  PROVE  /\ y \o Cells(n + 1, kind) \in Seq(CellSet)
         /\ Line(x, y \o Cells(n + 1, kind), n + 1)
         /\ Starts(y) => Starts(y \o Cells(n + 1, kind))
         /\ \A r \in 1 .. n : Behind(y, r) => Behind(y \o Cells(n + 1, kind), r)
  <1> DEFINE c == Cells(n + 1, kind)
  <1>1. /\ c \in Seq(CellSet) /\ Len(c) \in 1 .. 2
        /\ c[1] = <<n + 1, "header">>
        /\ \A i \in 1 .. Len(c) : c[i][1] = n + 1 /\ (c[i][2] = "header" => i = 1)
    <2>1. <<n + 1, "header">> \in CellSet /\ <<n + 1, "body">> \in CellSet
      BY DEF CellSet
    <2>2. CASE kind \in {"USERINFO", "GAMESTART", "LOGINRESPONSE"}
      <3>1. c = << <<n + 1, "header">>, <<n + 1, "body">> >>
        BY <2>2 DEF Cells
      <3> HIDE DEF c, CellSet
      <3> QED
        BY <2>1, <3>1
    <2>3. CASE kind \notin {"USERINFO", "GAMESTART", "LOGINRESPONSE"}
      <3>1. c = << <<n + 1, "header">> >>
        BY <2>3 DEF Cells
      <3> HIDE DEF c, CellSet
      <3> QED
        BY <2>1, <3>1
    <2> QED
      BY <2>2, <2>3
  <1> HIDE DEF c
  <1>2. Ordered(c) /\ Below(c, n + 1)
    BY <1>1 DEF Ordered, Below
  <1>3. Precedes(x, c) /\ Precedes(y, c)
    BY <1>1 DEF Line, Below, Precedes
  <1>4. Below(x, n + 1) /\ Below(y, n + 1)
    BY DEF Line, Below
  <1>5. \A r \in 1 .. n : Behind(c, r)
    BY <1>1 DEF Behind
  <1>6. Starts(y) => Starts(y \o c)
    <2>1. Len(y) \in Nat /\ \A i \in 1 .. Len(y) : (y \o c)[i] = y[i]
      BY <1>1
    <2>2. y # <<>> => 1 \in 1 .. Len(y)
      BY <2>1
    <2>3. y = <<>> => (y \o c)[1] = c[1]
      BY <1>1
    <2> QED
      BY <1>1, <2>1, <2>2, <2>3 DEF Starts
  <1>7. y \o c \in Seq(CellSet)
    BY <1>1, Joined
  <1>8. Line(x, y \o c, n + 1)
    BY <1>1, <1>2, <1>3, <1>4, JoinedOrder DEF Line
  <1>9. \A r \in 1 .. n : Behind(y, r) => Behind(y \o c, r)
    BY <1>1, <1>5, JoinedOrder
  <1> QED
    BY <1>6, <1>7, <1>8, <1>9 DEF c

(* A receive takes the first m cells on the way; they reach the ring, or not. *)
LEMMA ReceivedLine ==
  ASSUME NEW x \in Seq(CellSet), NEW y \in Seq(CellSet), NEW n, Line(x, y, n),
         NEW m \in Nat, m <= Len(y)
  PROVE  /\ SubSeq(y, m + 1, Len(y)) \in Seq(CellSet)
         /\ x \o SubSeq(y, 1, m) \in Seq(CellSet)
         /\ Line(x, SubSeq(y, m + 1, Len(y)), n)
         /\ Line(x \o SubSeq(y, 1, m), SubSeq(y, m + 1, Len(y)), n)
         /\ \A r : Behind(x, r) /\ Behind(y, r) =>
              Behind(SubSeq(y, m + 1, Len(y)), r) /\ Behind(x \o SubSeq(y, 1, m), r)
  <1> DEFINE a == SubSeq(y, 1, m)
             b == SubSeq(y, m + 1, Len(y))
  <1>1. a \in Seq(CellSet) /\ b \in Seq(CellSet)
    BY Split
  <1>2. /\ Ordered(a) /\ Ordered(b) /\ Precedes(a, b)
        /\ Precedes(x, a) /\ Precedes(x, b)
        /\ Below(a, n) /\ Below(b, n)
        /\ \A r : Behind(y, r) => Behind(a, r) /\ Behind(b, r)
    BY SplitOrder DEF Line
  <1> HIDE DEF a, b
  <1>3. x \o a \in Seq(CellSet)
    BY <1>1, Joined
  <1>4. Line(x, b, n)
    BY <1>2 DEF Line
  <1>5. Ordered(x \o a) /\ Precedes(x \o a, b) /\ Below(x \o a, n)
    BY <1>1, <1>2, JoinedOrder DEF Line
  <1>6. \A r : Behind(x, r) /\ Behind(a, r) => Behind(x \o a, r)
    BY <1>1, JoinedOrder
  <1>7. Line(x \o a, b, n)
    BY <1>2, <1>5 DEF Line
  <1> QED
    BY <1>1, <1>2, <1>3, <1>4, <1>6, <1>7 DEF a, b

(* The redis thread takes m cells, the first a header. *)
LEMMA ReadLine ==
  ASSUME NEW x \in Seq(CellSet), NEW y \in Seq(CellSet), NEW n, Line(x, y, n),
         NEW m \in Nat, m > 0, m <= Len(x)
  PROVE  /\ SubSeq(x, m + 1, Len(x)) \in Seq(CellSet)
         /\ Line(SubSeq(x, m + 1, Len(x)), y, n)
         /\ \A r : Behind(x, r) => Behind(SubSeq(x, m + 1, Len(x)), r)
         /\ x[1][2] = "header" =>
              Behind(SubSeq(x, m + 1, Len(x)), x[1][1]) /\ Behind(y, x[1][1])
         /\ x[1][1] \in 1 .. n
  <1> DEFINE b == SubSeq(x, m + 1, Len(x))
  <1>1. /\ b \in Seq(CellSet) /\ Len(b) = Len(x) - m /\ Len(x) \in Nat
        /\ \A i \in 1 .. Len(b) : m + i \in 1 .. Len(x) /\ b[i] = x[m + i] /\ 1 < m + i
    <2>1. /\ b \in Seq(CellSet) /\ Len(b) = Len(x) - m
          /\ \A i \in 1 .. Len(b) : b[i] = x[m + i]
      BY Split
    <2> DEFINE l == Len(x)
    <2>2. l \in Nat /\ Len(b) = l - m
      BY <2>1
    <2> HIDE DEF b, l
    <2>3. \A i \in 1 .. Len(b) : m + i \in 1 .. l /\ 1 < m + i
      BY <2>2
    <2> QED
      BY <2>1, <2>2, <2>3 DEF l
  <1>2. /\ Ordered(b) /\ Precedes(b, y) /\ Below(b, n)
        /\ \A r : Behind(x, r) => Behind(b, r)
    BY SplitOrder DEF Line
  <1> HIDE DEF b
  <1>3. Line(b, y, n)
    BY <1>2 DEF Line
  <1>4. 1 \in 1 .. Len(x)
    BY <1>1
  <1>5. x[1][2] = "header" => Behind(b, x[1][1])
    BY <1>1, <1>4 DEF Line, Ordered, Behind
  <1>6. x[1][2] = "header" => Behind(y, x[1][1])
    BY <1>4 DEF Line, Precedes, Behind
  <1>7. x[1][1] \in 1 .. n
    BY <1>4 DEF Line, Below
  <1> QED
    BY <1>1, <1>2, <1>3, <1>5, <1>6, <1>7 DEF b

-----------------------------------------------------------------------------
(* The parts of the inductive invariant. *)

(* Requests are where they were sent, in order, and exist. *)
Lines == \A s \in Slots : Line(ring[s], stream[s], Len(requests))

(* What is still to come is newer than what was answered. *)
Answered ==
  \A i \in 1 .. Len(replies) :
    /\ replies[i].req \in 1 .. Len(requests)
    /\ Behind(ring[replies[i].slot], replies[i].req)
    /\ Behind(stream[replies[i].slot], replies[i].req)

(* Where nothing was cut, sizes and ring agree and the next cell on the way is
   a header. *)
Frames ==
  \A s \in Slots \ torn : Framed(procSktQueue, ring[s], s) /\ Starts(stream[s])

(* HandlersDefined, with the packet that stopped the thread still queued. *)
Stopped ==
  undefined => procSktQueue # <<>> /\ (Job.slot \in torn \/ (Readable /\ ~ HasHandler))

InOrder ==
  \A i, j \in 1 .. Len(replies) :
    i < j /\ replies[i].slot = replies[j].slot => replies[i].req < replies[j].req

(* ServedAsLastLogin at one reply, over any replies rp, requests rq and uploads
   up, with the latest login as a witness; and what a slot's userPk has to do
   with its latest login. *)
LoginsOf(rp, rq, s, b) ==
  {j \in 1 .. b - 1 : rp[j].slot = s /\ rq[rp[j].req].kind = "USERINFO" /\ rp[j].res.ok}

Latest(l, j) == j \in l /\ \A k \in l : k <= j

ServedBy(rp, rq, up, i) ==
  /\ rp[i].res.ok
  /\ LoginsOf(rp, rq, rp[i].slot, i) # {}
  /\ rq[rp[i].req].kind # "USERINFO"
  =>
  \E j : /\ Latest(LoginsOf(rp, rq, rp[i].slot, i), j)
         /\ rp[i].res.pk = rp[j].res.pk
         /\ rp[i].res.pk \in up

SessionOf(rp, rq, up, pk, s) ==
  LoginsOf(rp, rq, s, Len(rp) + 1) # {} =>
    \E j : /\ Latest(LoginsOf(rp, rq, s, Len(rp) + 1), j)
           /\ pk[s] = rp[j].res.pk
           /\ pk[s] \in up

Served  == \A i \in 1 .. Len(replies) : ServedBy(replies, requests, uploaded, i)
Session == \A s \in Slots : SessionOf(replies, requests, uploaded, userPk, s)

(* What the sequences of requests and replies hold. *)
Requested == [conn : Conns, slot : Slots, kind : Kinds]
Replied   == [req : Reqs, slot : Slots, to : 0 .. MaxConns, res : Results]

(* A sequence and what it had before the last push. *)
LEMMA Grown ==
  ASSUME NEW S, NEW x \in Seq(S), NEW e
  PROVE  /\ Len(x) \in Nat /\ DOMAIN x = 1 .. Len(x)
         /\ Len(Append(x, e)) = Len(x) + 1 /\ Append(x, e)[Len(x) + 1] = e
         /\ \A i \in 1 .. Len(x) : Append(x, e)[i] = x[i]
         /\ e \in S => Append(x, e) \in Seq(S)
  OBVIOUS

(* What TypeOK says of the single elements. *)
LEMMA Typed ==
  ASSUME TypeOK
  PROVE  /\ requests \in Seq(Requested) /\ replies \in Seq(Replied)
         /\ procSktQueue \in Seq(DataPackets)
         /\ Len(requests) \in Nat /\ Len(replies) \in Nat
         /\ \A s \in Slots : ring[s] \in Seq(CellSet) /\ stream[s] \in Seq(CellSet)
         /\ \A i \in 1 .. Len(replies) :
              replies[i] \in Replied /\ replies[i].slot \in Slots /\ replies[i].req \in Nat
  <1>1. /\ requests \in Seq(Requested) /\ replies \in Seq(Replied)
        /\ procSktQueue \in Seq(DataPackets)
        /\ \A s \in Slots : ring[s] \in Seq(CellSet) /\ stream[s] \in Seq(CellSet)
    BY DEF TypeOK, Requested, Replied, DataPackets
  <1>2. \A r \in Replied : r.slot \in Slots /\ r.req \in Nat
    BY DEF Replied, Reqs
  <1>3. Len(requests) \in Nat /\ Len(replies) \in Nat /\ \A i \in 1 .. Len(replies) : replies[i] \in Replied
    <2> HIDE DEF Replied, Requested
    <2> QED
      BY <1>1
  <1> QED
    BY <1>1, <1>2, <1>3

(* The invariants the runs check, in the words of the proof. *)
LEMMA RunsInvariants ==
  ASSUME TypeOK
  PROVE  /\ Frames => Framing
         /\ Stopped => HandlersDefined
         /\ InOrder => AnsweredInOrder
         /\ Served => ServedAsLastLogin
  <1>1. DOMAIN procSktQueue = 1 .. Len(procSktQueue) /\ DOMAIN replies = 1 .. Len(replies)
    BY Typed
  <1>2. Frames => Framing
    BY <1>1 DEF Frames, Framed, Framing, Before
  <1>3. Stopped => HandlersDefined
    BY DEF Stopped, HandlersDefined
  <1>4. InOrder => AnsweredInOrder
    BY <1>1 DEF InOrder, AnsweredInOrder
  <1>5. Served => ServedAsLastLogin
    <2> SUFFICES ASSUME Served, NEW i \in DOMAIN replies,
                        replies[i].res.ok, Logins(replies[i].slot, i) # {},
                        requests[replies[i].req].kind # "USERINFO"
                 PROVE  LET last == CHOOSE j \in Logins(replies[i].slot, i) :
                                      \A k \in Logins(replies[i].slot, i) : k <= j
                        IN  /\ replies[i].res.pk = replies[last].res.pk
                            /\ replies[i].res.pk \in uploaded
      BY DEF ServedAsLastLogin
    <2> DEFINE l == Logins(replies[i].slot, i)
    <2>0. l = LoginsOf(replies, requests, replies[i].slot, i)
      BY DEF Logins, LoginsOf
    <2>1. PICK j : /\ j \in l /\ \A k \in l : k <= j
                   /\ replies[i].res.pk = replies[j].res.pk
                   /\ replies[i].res.pk \in uploaded
      BY <1>1, <2>0 DEF Served, ServedBy, Latest
    <2>2. l \subseteq Int
      BY DEF Logins
    <2> HIDE DEF l
    <2>3. (CHOOSE m \in l : \A k \in l : k <= m) = j
      <3>1. \A m \in l : (\A k \in l : k <= m) => m = j
        BY <2>1, <2>2
      <3> QED
        BY <2>1, <3>1
    <2> QED
      BY <2>1, <2>3 DEF l
  <1> QED
    BY <1>2, <1>3, <1>4, <1>5

(* Requests and replies that are there stay as they are. *)
Kept ==
  /\ Len(replies) <= Len(replies') /\ \A j \in 1 .. Len(replies) : replies'[j] = replies[j]
  /\ Len(requests) <= Len(requests')
  /\ \A r \in 1 .. Len(requests) : requests'[r] = requests[r]
  /\ uploaded \subseteq uploaded'

(* The logins before a reply do not change when more is pushed. *)
LEMMA LoginsKept ==
  ASSUME TypeOK, Answered, Kept, NEW s, NEW b \in 1 .. Len(replies) + 1
  PROVE  LoginsOf(replies', requests', s, b) = LoginsOf(replies, requests, s, b)
  <1>1. \A j \in 1 .. b - 1 : /\ j \in 1 .. Len(replies) /\ replies'[j] = replies[j]
                              /\ requests'[replies[j].req] = requests[replies[j].req]
    BY Typed DEF Answered, Kept
  <1> QED
    BY <1>1 DEF LoginsOf

(* Nor does what a reply has to do with the latest login before it. *)
LEMMA ServedKept ==
  ASSUME TypeOK, Answered, Kept, NEW i \in 1 .. Len(replies),
         ServedBy(replies, requests, uploaded, i)
  PROVE  ServedBy(replies', requests', uploaded', i)
  <1> DEFINE l == LoginsOf(replies, requests, replies[i].slot, i)
  <1>1. i \in 1 .. Len(replies) + 1 /\ i \in Nat /\ Len(replies) \in Nat
    BY Typed
  <1>2. /\ replies'[i] = replies[i]
        /\ requests'[replies[i].req] = requests[replies[i].req]
    BY DEF Answered, Kept
  <1>3. LoginsOf(replies', requests', replies[i].slot, i) = l
    BY <1>1, LoginsKept
  <1>4. \A j \in l : replies'[j] = replies[j]
    BY <1>1 DEF LoginsOf, Kept
  <1> HIDE DEF l
  <1>5. uploaded \subseteq uploaded'
    BY DEF Kept
  <1> QED
    BY <1>2, <1>3, <1>4, <1>5 DEF ServedBy, Latest, l

(* A step that pushes no reply and changes no userPk. *)
LEMMA QuietStep ==
  ASSUME TypeOK, Answered, Kept, InOrder, Served, Session,
         replies' = replies, userPk' = userPk
  PROVE  InOrder' /\ Served' /\ Session'
  <1>1. InOrder'
    BY DEF InOrder
  <1>2. Served'
    BY ServedKept DEF Served
  <1>3. ASSUME NEW s \in Slots
        PROVE  SessionOf(replies', requests', uploaded', userPk', s)
    <2>1. Len(replies) + 1 \in 1 .. Len(replies) + 1
      BY Typed
    <2>2. LoginsOf(replies', requests', s, Len(replies) + 1) =
            LoginsOf(replies, requests, s, Len(replies) + 1)
      BY <2>1, LoginsKept
    <2>3. SessionOf(replies, requests, uploaded, userPk, s)
      BY DEF Session
    <2> QED
      BY <2>2, <2>3 DEF SessionOf, Kept
  <1> QED
    BY <1>1, <1>2, <1>3 DEF Session

-----------------------------------------------------------------------------
(* Clients and the worker. *)

Parts == Lines /\ Answered /\ Frames /\ Stopped /\ InOrder /\ Served /\ Session

(* The packet popped, its slot and its size. *)
LEMMA JobIs ==
  ASSUME TypeOK, procSktQueue # <<>>
  PROVE  /\ Job = procSktQueue[1] /\ Job \in DataPackets
         /\ Job.slot \in Slots /\ Job.size \in Nat /\ Job.size > 0
  <1>1. /\ procSktQueue \in Seq(DataPackets) /\ 1 \in 1 .. Len(procSktQueue)
        /\ Job = procSktQueue[1]
    BY Typed, QueuePop DEF Job
  <1> QED
    BY <1>1, QueuePlaces

(* What stopped the thread does not change by what comes behind it. *)
LEMMA StoppedKept ==
  ASSUME TypeOK, Lines, Stopped, undefined' = undefined, torn \subseteq torn',
         procSktQueue # <<>> => procSktQueue' # <<>> /\ Head(procSktQueue') = Head(procSktQueue),
         \A s \in Slots : /\ Len(ring[s]) <= Len(ring'[s])
                          /\ \A i \in 1 .. Len(ring[s]) : ring'[s][i] = ring[s][i],
         ring' \in [Slots -> Seq(CellSet)],
         \A r \in 1 .. Len(requests) : requests'[r] = requests[r]
  PROVE  Stopped'
  <1> SUFFICES ASSUME undefined, procSktQueue # <<>>
               PROVE  procSktQueue' # <<>> /\ (Job'.slot \in torn' \/ (Readable' /\ ~ HasHandler'))
    BY DEF Stopped
  <1>1. /\ procSktQueue' # <<>> /\ Job' = Job
        /\ Job.slot \in Slots /\ Job.size \in Nat /\ Job.size > 0
    BY JobIs DEF Job
  <1>2. CASE Job.slot \in torn
    BY <1>1, <1>2
  <1>3. CASE Readable /\ ~ HasHandler
    <2> DEFINE x == ring[Job.slot]
               y == ring'[Job.slot]
    <2>1. /\ x \in Seq(CellSet) /\ y \in Seq(CellSet) /\ Len(x) \in Nat /\ Len(y) \in Nat
          /\ Len(x) <= Len(y) /\ \A i \in 1 .. Len(x) : y[i] = x[i]
          /\ Job.size <= Len(x)
      BY <1>1, <1>3, Typed DEF Readable
    <2>2. 1 \in 1 .. Len(x) /\ Head(x) = x[1] /\ Head(y) = y[1] /\ y[1] = x[1]
      BY <1>1, <2>1
    <2>3. x[1][1] \in 1 .. Len(requests)
      BY <1>1, <2>2 DEF Lines, Line, Below
    <2>4. ring'[Job'.slot] = y
      BY <1>1
    <2>5. Readable'
      BY <1>1, <1>3, <2>1, <2>2, <2>4 DEF Readable
    <2>6. Cur = x[1][1] /\ Cur' = x[1][1]
      BY <1>1, <2>2, <2>4 DEF Cur
    <2>7. ~ HasHandler'
      BY <1>3, <2>3, <2>6 DEF HasHandler
    <2> QED
      BY <1>1, <2>5, <2>7
  <1> QED
    BY <1>1, <1>2, <1>3 DEF Stopped

(* A new client takes a slot with what its predecessors left there. *)
LEMMA ConnectStep ==
  ASSUME TypeOK, Parts, NEW s \in Slots, NEW name \in Names, Connect(s, name)
  PROVE  TypeOK' /\ Parts'
  <1>1. UNCHANGED <<requests, stream, ring, userPk, procSktQueue, undefined, uploaded, replies, dropped, torn>>
    BY DEF Connect
  <1>2. Parts'
    BY <1>1 DEF Parts, Lines, Answered, Frames, Stopped, Job, Readable, HasHandler, Cur, InOrder,
                Served, Session
  <1>3. owner' \in Seq(Names) /\ Len(owner) \in Nat
    BY DEF Connect, TypeOK
  <1>4. conn' \in [Slots -> 0 .. MaxConns]
    BY <1>3, NumbersAssumption DEF Connect, TypeOK
  <1> QED
    BY <1>1, <1>2, <1>3, <1>4 DEF TypeOK

(* A client sends a request, numbered above all others. *)
LEMMA SendStep ==
  ASSUME TypeOK, Parts, NEW s \in Slots, NEW kind \in Asked, Send(s, kind)
  PROVE  TypeOK' /\ Parts'
  <1> DEFINE n == Len(requests)
             y == stream[s] \o Cells(n + 1, kind)
             e == [conn |-> conn[s], slot |-> s, kind |-> kind]
  <1>1. /\ UNCHANGED <<conn, owner, ring, userPk, procSktQueue, undefined, uploaded, replies, dropped, torn>>
        /\ requests' = Append(requests, e) /\ stream' = [stream EXCEPT ![s] = y]
        /\ n < MaxRequests /\ conn[s] # 0
    BY DEF Send
  <1>2. n \in Nat /\ n + 1 \in Reqs
    BY <1>1, Typed, NumbersAssumption DEF Reqs
  <1>3. e \in Requested
    BY <1>1, NumbersAssumption DEF Requested, TypeOK, Conns
  <1>4. /\ requests' \in Seq(Requested) /\ Len(requests') = n + 1
        /\ \A r \in 1 .. n : requests'[r] = requests[r]
    <2> HIDE DEF Requested, e
    <2> QED
      BY <1>1, <1>3, Typed, Grown
  <1>5. Kept
    BY <1>1, <1>2, <1>4, Typed DEF Kept
  <1>6. /\ y \in Seq(CellSet)
        /\ Line(ring[s], y, n + 1)
        /\ Starts(stream[s]) => Starts(y)
        /\ \A r \in 1 .. n : Behind(stream[s], r) => Behind(y, r)
    BY <1>2, Typed, SentLine DEF Parts, Lines
  <1> HIDE DEF e
  <1>7. stream'[s] = y /\ \A t \in Slots : t # s => stream'[t] = stream[t]
    BY <1>1 DEF TypeOK
  <1> HIDE DEF y
  <1>8. TypeOK'
    <2>1. stream' \in [Slots -> Seq(CellSet)]
      BY <1>1, <1>6 DEF TypeOK
    <2> QED
      BY <1>1, <1>4, <2>1 DEF TypeOK, Requested
  <1>9. Lines'
    <2>1. \A t \in Slots : Line(ring[t], stream[t], n) => Line(ring[t], stream[t], n + 1)
      BY <1>2 DEF Line, Below
    <2>2. \A t \in Slots : Line(ring[t], stream'[t], n + 1)
      BY <1>6, <1>7, <2>1 DEF Parts, Lines
    <2> QED
      BY <1>1, <1>4, <2>2 DEF Lines
  <1>10. Answered'
    <2>1. ASSUME NEW i \in 1 .. Len(replies)
          PROVE  /\ replies[i].req \in 1 .. n + 1
                 /\ Behind(ring[replies[i].slot], replies[i].req)
                 /\ Behind(stream'[replies[i].slot], replies[i].req)
      <3>1. /\ replies[i].req \in 1 .. n /\ replies[i].slot \in Slots
            /\ Behind(ring[replies[i].slot], replies[i].req)
            /\ Behind(stream[replies[i].slot], replies[i].req)
        BY Typed DEF Parts, Answered
      <3> QED
        BY <1>2, <1>6, <1>7, <3>1
    <2> QED
      BY <1>1, <1>4, <2>1 DEF Answered
  <1>11. Frames'
    BY <1>1, <1>6, <1>7 DEF Parts, Frames
  <1>12. Stopped'
    <2>1. ring' \in [Slots -> Seq(CellSet)] /\ \A t \in Slots : Len(ring[t]) \in Nat
      BY <1>1, Typed DEF TypeOK
    <2> QED
      BY <1>1, <1>4, <2>1, StoppedKept DEF Parts
  <1>13. InOrder' /\ Served' /\ Session'
    BY <1>1, <1>5, QuietStep DEF Parts
  <1> QED
    BY <1>8, <1>9, <1>10, <1>11, <1>12, <1>13 DEF Parts

(* A reset drops what is on the way, and leaves ring, queue and userPk. *)
LEMMA ResetStep ==
  ASSUME TypeOK, Parts, NEW s \in Slots, Reset(s)
  PROVE  TypeOK' /\ Parts'
  <1>1. /\ UNCHANGED <<owner, requests, userPk, procSktQueue, undefined, uploaded, replies, dropped, torn>>
        /\ stream' = [stream EXCEPT ![s] = <<>>]
        /\ conn' = [conn EXCEPT ![s] = 0]
    BY DEF Reset
  <1>2. ring' = ring
    BY DEF Reset, RingAfterReset, TypeOK
  <1>3. /\ \A t \in Slots : stream'[t] = stream[t] \/ stream'[t] = <<>>
        /\ stream' \in [Slots -> Seq(CellSet)]
        /\ conn' \in [Slots -> 0 .. MaxConns]
    BY <1>1, NumbersAssumption DEF TypeOK
  <1>4. TypeOK'
    BY <1>1, <1>2, <1>3 DEF TypeOK
  <1>5. /\ \A x, n : Line(x, stream[s], n) => Line(x, <<>>, n)
        /\ \A t, x, n : Line(x, stream[t], n) => Line(x, <<>>, n)
        /\ \A r : Behind(<<>>, r)
        /\ Starts(<<>>)
    BY DEF Line, Ordered, Precedes, Below, Behind, Starts
  <1>6. Lines'
    BY <1>1, <1>2, <1>3, <1>5 DEF Parts, Lines
  <1>7. Answered'
    <2>1. \A i \in 1 .. Len(replies) : replies[i].slot \in Slots
      BY Typed
    <2> QED
      BY <1>1, <1>2, <1>3, <1>5, <2>1 DEF Parts, Answered
  <1>8. Frames'
    BY <1>1, <1>2, <1>3, <1>5 DEF Parts, Frames
  <1>9. Stopped'
    BY <1>1, <1>2 DEF Parts, Stopped, Job, Readable, HasHandler, Cur
  <1>10. Kept
    BY <1>1, Typed DEF Kept
  <1>11. InOrder' /\ Served' /\ Session'
    BY <1>1, <1>10, QuietStep DEF Parts
  <1> QED
    BY <1>4, <1>6, <1>7, <1>8, <1>9, <1>11 DEF Parts

(* A receive: the cells reach the ring and the queue, or the slot is torn. *)
LEMMA PushStep ==
  ASSUME TypeOK, Parts, NEW s \in Slots, NEW n \in 1 .. 2 * Window, PushRedisPacket(s, n)
  PROVE  TypeOK' /\ Parts'
  <1> DEFINE cells == SubSeq(stream[s], 1, n)
             rest  == SubSeq(stream[s], n + 1, Len(stream[s]))
             e     == [slot |-> s, size |-> n]
  <1>1. /\ UNCHANGED <<conn, owner, requests, userPk, undefined, uploaded, replies, dropped>>
        /\ stream' = [stream EXCEPT ![s] = rest]
        /\ procSktQueue' = Append(procSktQueue, e)
        /\ \/ ring' = [ring EXCEPT ![s] = @ \o cells]
           \/ ring' = ring /\ s \in torn'
        /\ torn \subseteq torn' /\ torn' \subseteq torn \cup {s}
        /\ rest # <<>> /\ Head(rest)[2] = "body" => s \in torn'
        /\ n <= Len(stream[s])
    BY DEF PushRedisPacket
  <1>2. n \in Nat /\ n > 0
    BY NumbersAssumption
  <1>3. /\ rest \in Seq(CellSet) /\ ring[s] \o cells \in Seq(CellSet)
        /\ Line(ring[s], rest, Len(requests))
        /\ Line(ring[s] \o cells, rest, Len(requests))
        /\ \A r : Behind(ring[s], r) /\ Behind(stream[s], r) =>
             Behind(rest, r) /\ Behind(ring[s] \o cells, r)
    BY <1>1, <1>2, Typed, ReceivedLine DEF Parts, Lines
  <1>4. /\ cells \in Seq(CellSet) /\ Len(cells) = n
        /\ Starts(stream[s]) => Starts(cells)
    <2>1. /\ stream[s] \in Seq(CellSet)
          /\ cells \in Seq(CellSet) /\ Len(cells) = n
          /\ \A i \in 1 .. n : cells[i] = stream[s][i]
      BY <1>1, <1>2, Typed, Split
    <2>2. stream[s] # <<>> /\ 1 \in 1 .. n
      BY <1>1, <1>2, <2>1
    <2> QED
      BY <2>1, <2>2 DEF Starts
  <1>5. e \in DataPackets
    BY <1>2 DEF DataPackets
  <1>6. s \notin torn' => Starts(rest)
    <2>1. rest # <<>> => Head(rest) = rest[1] /\ rest[1] \in CellSet
      BY <1>3
    <2>2. \A c \in CellSet : c[2] = "header" \/ c[2] = "body"
      BY DEF CellSet
    <2> QED
      BY <1>1, <2>1, <2>2 DEF Starts
  <1> HIDE DEF cells, rest, e
  <1>7. /\ stream'[s] = rest /\ \A t \in Slots : t # s => stream'[t] = stream[t]
        /\ ring'[s] = ring[s] \o cells \/ (ring'[s] = ring[s] /\ s \in torn')
        /\ \A t \in Slots : t # s => ring'[t] = ring[t]
        /\ stream' \in [Slots -> Seq(CellSet)] /\ ring' \in [Slots -> Seq(CellSet)]
    BY <1>1, <1>3 DEF TypeOK
  <1>8. /\ procSktQueue \in Seq(DataPackets) /\ procSktQueue' \in Seq(DataPackets)
        /\ procSktQueue # <<>> => Head(procSktQueue') = Head(procSktQueue)
        /\ procSktQueue' # <<>>
    <2>1. procSktQueue \in Seq(DataPackets)
      BY Typed
    <2> HIDE DEF DataPackets
    <2> QED
      BY <1>1, <1>5, <2>1
  <1>9. TypeOK'
    BY <1>1, <1>7, <1>8 DEF TypeOK, DataPackets
  <1>10. Lines'
    BY <1>1, <1>3, <1>7 DEF Parts, Lines
  <1>11. Answered'
    <2>1. ASSUME NEW i \in 1 .. Len(replies)
          PROVE  /\ Behind(ring'[replies[i].slot], replies[i].req)
                 /\ Behind(stream'[replies[i].slot], replies[i].req)
      <3>1. /\ replies[i].slot \in Slots
            /\ Behind(ring[replies[i].slot], replies[i].req)
            /\ Behind(stream[replies[i].slot], replies[i].req)
        BY Typed DEF Parts, Answered
      <3>2. CASE replies[i].slot = s
        BY <1>3, <1>7, <3>1, <3>2
      <3>3. CASE replies[i].slot # s
        BY <1>7, <3>1, <3>3
      <3> QED
        BY <3>2, <3>3
    <2> QED
      BY <1>1, <2>1 DEF Parts, Answered
  <1>12. Frames'
    <2> SUFFICES ASSUME NEW t \in Slots \ torn'
                 PROVE  Framed(procSktQueue', ring'[t], t) /\ Starts(stream'[t])
      BY DEF Frames
    <2>1. /\ Framed(procSktQueue, ring[t], t) /\ Starts(stream[t])
          /\ ring[t] \in Seq(CellSet)
      BY <1>1, Typed DEF Parts, Frames
    <2>2. e.slot = s /\ e.size = n
      BY DEF e
    <2>3. CASE t = s
      <3>1. Framed(Append(procSktQueue, e), ring[s] \o cells, s)
        BY <1>4, <1>5, <1>8, <2>1, <2>2, <2>3, FramedPush
      <3> QED
        BY <1>1, <1>6, <1>7, <2>3, <3>1
    <2>4. CASE t # s
      <3>1. <<>> \in Seq(CellSet) /\ ring[t] \o <<>> = ring[t]
        BY <2>1
      <3>2. Framed(Append(procSktQueue, e), ring[t] \o <<>>, t)
        BY <1>5, <1>8, <2>1, <2>2, <2>4, <3>1, FramedPush
      <3> QED
        BY <1>1, <1>7, <2>1, <2>4, <3>1, <3>2
    <2> QED
      BY <2>3, <2>4
  <1>13. Stopped'
    <2>1. \A t \in Slots : /\ Len(ring[t]) <= Len(ring'[t])
                           /\ \A i \in 1 .. Len(ring[t]) : ring'[t][i] = ring[t][i]
      <3>1. \A t \in Slots : ring[t] \in Seq(CellSet) /\ Len(ring[t]) \in Nat
        BY Typed
      <3>2. /\ Len(ring[s] \o cells) >= Len(ring[s])
            /\ \A i \in 1 .. Len(ring[s]) : (ring[s] \o cells)[i] = ring[s][i]
        BY <1>4, <3>1
      <3>3. \A t \in Slots : ring'[t] = ring[t] \/ (t = s /\ ring'[t] = ring[s] \o cells)
        BY <1>7
      <3> QED
        BY <3>1, <3>2, <3>3
    <2> QED
      BY <1>1, <1>7, <1>8, <2>1, StoppedKept DEF Parts
  <1>14. Kept
    BY <1>1, Typed DEF Kept
  <1>15. InOrder' /\ Served' /\ Session'
    BY <1>1, <1>14, QuietStep DEF Parts
  <1> QED
    BY <1>9, <1>10, <1>11, <1>12, <1>13, <1>15 DEF Parts

-----------------------------------------------------------------------------
(* The redis thread. *)

(* What a handler may leave, whatever it calls fails or succeeds. *)
Handled(kind, res) ==
  /\ Taken(kind)
  /\ PushSendMsg(res)
  /\ res \in Results
  /\ uploaded \subseteq uploaded' /\ uploaded' \subseteq Pks
  /\ \/ /\ kind = "USERINFO" /\ res.ok
        /\ userPk' = [userPk EXCEPT ![Job.slot] = res.pk]
        /\ res.pk \in uploaded'
     \/ /\ kind = "USERINFO" /\ ~ res.ok /\ userPk' = userPk
     \/ /\ kind # "USERINFO" /\ userPk' = userPk
        /\ res.ok => res.pk = userPk[Job.slot]

(* The three handlers are of that form. *)
LEMMA HandlersAre ==
  ASSUME TypeOK, GetUserInfo \/ GetUserData \/ GameStart, Job.slot \in Slots
  PROVE  \E kind \in Replying, res \in Results : Handled(kind, res)
  <1>1. \A name : PkOf(name) \in Pks
    BY DEF PkOf, Pks
  <1>2. \A pk \in Pks : Data(pk) \in Results /\ Data(pk).ok /\ Data(pk).pk = pk
    BY DEF Data, Results
  <1>3. Error \in Results /\ ~ Error.ok
    BY DEF Error, Results, Pks
  <1>4. uploaded \subseteq Pks /\ userPk[Job.slot] \in Pks
    BY DEF TypeOK
  <1>5. "USERINFO" \in Replying /\ "USERDATA" \in Replying /\ "GAMESTART" \in Replying
    BY DEF Replying
  <1>6. CASE GetUserInfo
    <2>1. PICK name \in NamesRead :
            \/ PushSendMsg(Error) /\ UNCHANGED <<userPk, uploaded>>
            \/ PushSendMsg(Error) /\ uploaded' = uploaded \cup {PkOf(name)} /\ UNCHANGED userPk
            \/ /\ PushSendMsg(Data(PkOf(name)))
               /\ uploaded' = uploaded \cup {PkOf(name)}
               /\ userPk' = [userPk EXCEPT ![Job.slot] = PkOf(name)]
      BY <1>6 DEF GetUserInfo
    <2>2. Taken("USERINFO")
      BY <1>6 DEF GetUserInfo
    <2> DEFINE pk == PkOf(name)
    <2>3. pk \in Pks
      BY <1>1
    <2>4. CASE PushSendMsg(Error) /\ uploaded \subseteq uploaded' /\ uploaded' \subseteq Pks /\ userPk' = userPk
      BY <1>3, <1>5, <2>2, <2>4 DEF Handled
    <2>5. CASE /\ PushSendMsg(Data(pk))
               /\ uploaded' = uploaded \cup {pk}
               /\ userPk' = [userPk EXCEPT ![Job.slot] = pk]
      BY <1>2, <1>4, <1>5, <2>2, <2>3, <2>5 DEF Handled
    <2> QED
      BY <1>4, <2>1, <2>3, <2>4, <2>5
  <1>7. CASE GetUserData \/ GameStart
    <2>1. PICK kind \in {"USERDATA", "GAMESTART"} : Serve(kind)
      BY <1>7 DEF GetUserData, GameStart
    <2>2. kind \in Replying /\ kind # "USERINFO"
      BY <2>1, <1>5
    <2>3. /\ Taken(kind) /\ UNCHANGED <<userPk, uploaded>>
          /\ PushSendMsg(Data(userPk[Job.slot])) \/ PushSendMsg(Error)
      BY <2>1 DEF Serve
    <2>4. CASE PushSendMsg(Error)
      BY <1>3, <1>4, <2>2, <2>3, <2>4 DEF Handled
    <2>5. CASE PushSendMsg(Data(userPk[Job.slot]))
      BY <1>2, <1>4, <2>2, <2>3, <2>5 DEF Handled
    <2> QED
      BY <2>3, <2>4, <2>5
  <1> QED
    BY <1>6, <1>7

(* The request a readable packet begins with was sent, and is numbered Cur. *)
LEMMA CurIs ==
  ASSUME TypeOK, procSktQueue # <<>>, Readable
  PROVE  /\ Cur = ring[Job.slot][1][1] /\ ring[Job.slot][1][2] = "header"
         /\ ring[Job.slot] \in Seq(CellSet) /\ Job.size <= Len(ring[Job.slot])
  <1>1. ring[Job.slot] \in Seq(CellSet) /\ Job.size <= Len(ring[Job.slot]) /\ ring[Job.slot] # <<>>
    BY JobIs, Typed DEF Readable
  <1>2. Head(ring[Job.slot]) = ring[Job.slot][1]
    BY <1>1
  <1> QED
    BY <1>1, <1>2 DEF Cur, Readable

(* Where nothing was cut the thread finds what was announced. *)
LEMMA UncutReadable ==
  ASSUME TypeOK, Frames, procSktQueue # <<>>, Job.slot \notin torn
  PROVE  Readable
  <1>1. /\ Job = procSktQueue[1] /\ Job.slot \in Slots /\ Job.size \in Nat /\ Job.size > 0
    BY JobIs
  <1>2. procSktQueue \in Seq(DataPackets) /\ ring[Job.slot] \in Seq(CellSet)
    BY <1>1, Typed
  <1>3. Job.size <= Len(ring[Job.slot]) /\ ring[Job.slot][1][2] = "header"
    BY <1>1, <1>2, FramedFirst DEF Frames
  <1>4. Head(ring[Job.slot]) = ring[Job.slot][1]
    BY <1>1, <1>2, <1>3
  <1> QED
    BY <1>3, <1>4 DEF Readable

(* What stops the thread is a torn slot or a request without a handler. *)
LEMMA UndefinedStep ==
  ASSUME TypeOK, Parts, TakenUndefined
  PROVE  TypeOK' /\ Parts'
  <1>1. /\ UNCHANGED <<client, ring, userPk, procSktQueue, uploaded, replies, dropped, torn>>
        /\ undefined' = TRUE /\ procSktQueue # <<>> /\ ~ (Readable /\ HasHandler)
    BY DEF TakenUndefined
  <1>2. Job.slot \in torn \/ (Readable /\ ~ HasHandler)
    BY <1>1, UncutReadable DEF Parts
  <1>3. TypeOK'
    BY <1>1 DEF TypeOK, client
  <1>4. Stopped'
    BY <1>1, <1>2 DEF Stopped, Job, Readable, HasHandler, Cur, client
  <1> QED
    BY <1>1, <1>3, <1>4 DEF Parts, Lines, Answered, Frames, InOrder, Served, Session, client

(* The requests joined behind one are requests. *)
LEMMA JoinedAre ==
  ASSUME NEW x \in Seq(CellSet), NEW b \in Nat, NEW n \in Nat, b + n <= Len(x)
  PROVE  JoinedBehind(x, b, n) \subseteq Reqs
  <1>1. \A i \in 2 .. n : b + i \in 1 .. Len(x)
    OBVIOUS
  <1>2. \A i \in 1 .. Len(x) : x[i] \in CellSet
    <2> HIDE DEF CellSet
    <2> QED
      OBVIOUS
  <1>3. \A c \in CellSet : c[1] \in Reqs
    BY DEF CellSet
  <1> QED
    BY <1>1, <1>2, <1>3 DEF JoinedBehind

(* What taking a packet leaves, whatever its handler does then. *)
TakenLeaves ==
  /\ ring' \in [Slots -> Seq(CellSet)]
  /\ procSktQueue' \in Seq(DataPackets)
  /\ dropped' \in SUBSET Reqs
  /\ Lines' /\ Frames' /\ Stopped'
  /\ Cur \in 1 .. Len(requests) /\ Cur \in Reqs /\ Job.slot \in Slots
  /\ Behind(ring'[Job.slot], Cur) /\ Behind(stream[Job.slot], Cur)
  /\ \A i \in 1 .. Len(replies) :
       /\ replies[i].slot \in Slots /\ replies[i].req \in 1 .. Len(requests)
       /\ Behind(ring[replies[i].slot], replies[i].req)
       /\ Behind(ring'[replies[i].slot], replies[i].req)
       /\ Behind(stream[replies[i].slot], replies[i].req)

LEMMA TakenStep ==
  ASSUME TypeOK, Parts, NEW kind, Taken(kind)
  PROVE  TakenLeaves
  <1> DEFINE s == Job.slot
  <1>1. /\ UNCHANGED <<conn, owner, requests, stream, undefined, torn>>
        /\ ~ undefined /\ procSktQueue # <<>> /\ Readable
        /\ procSktQueue' = Tail(procSktQueue)
        /\ ring' = [ring EXCEPT ![s] = AfterRead(@, Job.size)]
        /\ dropped' = dropped \cup JoinedBehind(ring[s], 0, Job.size)
    BY DEF Taken, client
  <1>2. /\ Job = procSktQueue[1] /\ s \in Slots /\ Job.size \in Nat /\ Job.size > 0
        /\ Cur = ring[s][1][1] /\ ring[s][1][2] = "header"
        /\ ring[s] \in Seq(CellSet) /\ Job.size <= Len(ring[s])
        /\ stream[s] \in Seq(CellSet)
    BY <1>1, JobIs, CurIs, Typed
  <1> DEFINE x == SubSeq(ring[s], Job.size + 1, Len(ring[s]))
  <1>3. /\ x \in Seq(CellSet)
        /\ Line(x, stream[s], Len(requests))
        /\ \A r : Behind(ring[s], r) => Behind(x, r)
        /\ Behind(x, Cur) /\ Behind(stream[s], Cur)
        /\ Cur \in 1 .. Len(requests)
    BY <1>2, ReadLine DEF Parts, Lines
  <1>4. /\ ring'[s] = x /\ \A t \in Slots : t # s => ring'[t] = ring[t]
        /\ ring' \in [Slots -> Seq(CellSet)]
    BY <1>1, <1>2, <1>3 DEF TypeOK, AfterRead
  <1>5. Cur \in Reqs
    <2>1. ring[s][1] \in CellSet
      BY <1>2
    <2> QED
      BY <1>2, <2>1 DEF CellSet
  <1>6. dropped' \in SUBSET Reqs
    <2>1. 0 + Job.size <= Len(ring[s]) /\ 0 \in Nat
      BY <1>2
    <2>2. JoinedBehind(ring[s], 0, Job.size) \subseteq Reqs
      BY <1>2, <2>1, JoinedAre
    <2> QED
      BY <1>1, <2>2 DEF TypeOK
  <1> HIDE DEF x, s
  <1>7. procSktQueue' \in Seq(DataPackets)
    BY <1>1, Typed, QueuePop
  <1>8. Lines'
    BY <1>1, <1>3, <1>4 DEF Parts, Lines
  <1>9. ASSUME NEW i \in 1 .. Len(replies)
        PROVE  /\ replies[i].slot \in Slots /\ replies[i].req \in 1 .. Len(requests)
               /\ Behind(ring[replies[i].slot], replies[i].req)
               /\ Behind(ring'[replies[i].slot], replies[i].req)
               /\ Behind(stream[replies[i].slot], replies[i].req)
    <2>1. /\ replies[i].slot \in Slots /\ replies[i].req \in 1 .. Len(requests)
          /\ Behind(ring[replies[i].slot], replies[i].req)
          /\ Behind(stream[replies[i].slot], replies[i].req)
      BY Typed DEF Parts, Answered
    <2>2. CASE replies[i].slot = s
      BY <1>3, <1>4, <2>1, <2>2
    <2>3. CASE replies[i].slot # s
      BY <1>4, <2>1, <2>3
    <2> QED
      BY <2>1, <2>2, <2>3
  <1>10. Frames'
    <2> SUFFICES ASSUME NEW t \in Slots \ torn
                 PROVE  Framed(procSktQueue', ring'[t], t) /\ Starts(stream[t])
      BY <1>1 DEF Frames
    <2>1. /\ Framed(procSktQueue, ring[t], t) /\ Starts(stream[t])
          /\ ring[t] \in Seq(CellSet) /\ procSktQueue \in Seq(DataPackets)
      BY Typed DEF Parts, Frames
    <2>2. CASE t = s
      <3>1. procSktQueue[1].slot = t /\ procSktQueue[1].size = Job.size
        BY <1>2, <2>2 DEF s
      <3>2. Framed(Tail(procSktQueue), SubSeq(ring[t], Job.size + 1, Len(ring[t])), t)
        BY <1>1, <2>1, <3>1, FramedPop
      <3> QED
        BY <1>1, <1>4, <2>1, <2>2, <3>2 DEF x
    <2>3. CASE t # s
      <3>1. procSktQueue[1].slot # t
        BY <1>2, <2>3 DEF s
      <3>2. Framed(Tail(procSktQueue), SubSeq(ring[t], 0 + 1, Len(ring[t])), t)
        BY <1>1, <2>1, <3>1, FramedPop
      <3>3. SubSeq(ring[t], 0 + 1, Len(ring[t])) = ring[t]
        BY <2>1
      <3> QED
        BY <1>1, <1>4, <2>1, <2>3, <3>2, <3>3
    <2> QED
      BY <2>2, <2>3
  <1>11. Stopped'
    BY <1>1 DEF Stopped
  <1> QED
    BY <1>2, <1>3, <1>4, <1>5, <1>6, <1>7, <1>8, <1>9, <1>10, <1>11 DEF TakenLeaves, s

(* A handler that replies keeps the invariant: part by part. *)
LEMMA HandledStep ==
  ASSUME TypeOK, Parts, NEW kind, NEW res, Handled(kind, res)
  PROVE  TypeOK' /\ Parts'
  <1> DEFINE s == Job.slot
             n == Len(replies)
             e == [req |-> Cur, slot |-> s, to |-> conn[s], res |-> res]
  <1>1. /\ UNCHANGED <<conn, owner, requests, stream, undefined, torn>>
        /\ ~ undefined /\ procSktQueue # <<>> /\ Readable
        /\ requests[Cur].kind = kind
        /\ replies' = Append(replies, e)
    BY DEF Handled, Taken, PushSendMsg, Pushed, client
  <1>2. /\ s \in Slots /\ Job.size > 0 /\ Job.size \in Nat
        /\ Cur = ring[s][1][1] /\ ring[s][1][2] = "header"
        /\ ring[s] \in Seq(CellSet) /\ Job.size <= Len(ring[s])
    BY <1>1, JobIs, CurIs
  <1>3. /\ ring' \in [Slots -> Seq(CellSet)] /\ procSktQueue' \in Seq(DataPackets)
        /\ dropped' \in SUBSET Reqs
        /\ Cur \in 1 .. Len(requests) /\ Cur \in Reqs
        /\ Behind(ring'[s], Cur) /\ Behind(stream[s], Cur)
    BY TakenStep DEF TakenLeaves, Handled
  <1>4. Lines' /\ Frames' /\ Stopped'
    BY TakenStep DEF TakenLeaves, Handled
  <1>5. e \in Replied /\ e.req = Cur /\ e.slot = s /\ e.res = res
    BY <1>2, <1>3 DEF Handled, Replied, TypeOK
  <1>12. ASSUME NEW i \in 1 .. n
         PROVE  /\ replies[i].slot \in Slots /\ replies[i].req \in 1 .. Len(requests)
                /\ Behind(ring[replies[i].slot], replies[i].req)
                /\ Behind(ring'[replies[i].slot], replies[i].req)
                /\ Behind(stream[replies[i].slot], replies[i].req)
    BY TakenStep DEF TakenLeaves, Handled
  <1> HIDE DEF e, s
  <1>6. /\ replies' \in Seq(Replied) /\ Len(replies') = n + 1 /\ n \in Nat
        /\ replies'[n + 1] = e
        /\ \A i \in 1 .. n : replies'[i] = replies[i]
    <2>1. replies \in Seq(Replied) /\ n \in Nat
      BY Typed
    <2> HIDE DEF Replied
    <2> QED
      BY <1>1, <1>5, <2>1, Grown
  <1>8. userPk' \in [Slots -> Pks] /\ \A t \in Slots : t # s => userPk'[t] = userPk[t]
    <2>1. res.pk \in Pks
      BY DEF Handled, Results
    <2> QED
      BY <2>1 DEF Handled, TypeOK, s
  <1>9. Kept
    BY <1>1, <1>6, Typed DEF Kept, Handled
  <1>10. TypeOK'
    BY <1>1, <1>3, <1>6, <1>8 DEF TypeOK, Handled, Replied, DataPackets
  <1>13. Answered'
    <2> SUFFICES ASSUME NEW i \in 1 .. n + 1
                 PROVE  /\ replies'[i].req \in 1 .. Len(requests)
                        /\ Behind(ring'[replies'[i].slot], replies'[i].req)
                        /\ Behind(stream[replies'[i].slot], replies'[i].req)
      BY <1>1, <1>6 DEF Answered
    <2>1. CASE i = n + 1
      BY <1>3, <1>5, <1>6, <2>1
    <2>2. CASE i # n + 1
      <3>1. i \in 1 .. n
        BY <1>6, <2>2
      <3> QED
        BY <1>6, <1>12, <3>1
    <2> QED
      BY <2>1, <2>2
  <1>16. InOrder'
    <2> SUFFICES ASSUME NEW i \in 1 .. n + 1, NEW j \in 1 .. n + 1, i < j,
                        replies'[i].slot = replies'[j].slot
                 PROVE  replies'[i].req < replies'[j].req
      BY <1>6 DEF InOrder
    <2>1. i \in 1 .. n
      BY <1>6
    <2>2. CASE j = n + 1
      <3>1. replies[i].slot = s /\ replies'[j].req = Cur
        BY <1>5, <1>6, <2>1, <2>2
      <3>2. Behind(ring[s], replies[i].req)
        BY <1>12, <2>1, <3>1
      <3>3. 1 \in 1 .. Len(ring[s])
        BY <1>2
      <3> QED
        BY <1>2, <1>6, <2>1, <3>1, <3>2, <3>3 DEF Behind
    <2>3. CASE j # n + 1
      <3>1. j \in 1 .. n
        BY <1>6, <2>3
      <3> QED
        BY <1>6, <2>1, <3>1 DEF Parts, InOrder
    <2> QED
      BY <2>2, <2>3
  <1> DEFINE l(t) == LoginsOf(replies, requests, t, n + 1)
             l1(t) == LoginsOf(replies', requests', t, n + 1)
             l2(t) == LoginsOf(replies', requests', t, n + 2)
  <1>17. /\ \A t : l1(t) = l(t) /\ l(t) \subseteq 1 .. n
         /\ \A t : l2(t) = IF t = s /\ kind = "USERINFO" /\ res.ok THEN l(t) \cup {n + 1} ELSE l(t)
    <2>1. n + 1 \in 1 .. n + 1 /\ 1 .. (n + 2) - 1 = (1 .. (n + 1) - 1) \cup {n + 1} /\ (n + 1) - 1 = n
      BY <1>6
    <2>2. \A t : l1(t) = l(t)
      BY <1>9, <2>1, LoginsKept DEF Parts
    <2>3. requests'[replies'[n + 1].req].kind = kind /\ replies'[n + 1].slot = s /\ replies'[n + 1].res = res
      BY <1>1, <1>5, <1>6
    <2>4. \A t : l2(t) = IF t = s /\ kind = "USERINFO" /\ res.ok THEN l1(t) \cup {n + 1} ELSE l1(t)
      BY <2>1, <2>3 DEF LoginsOf
    <2>5. \A t : l(t) \subseteq 1 .. n
      BY <2>1 DEF LoginsOf
    <2> QED
      BY <2>2, <2>4, <2>5
  <1> HIDE DEF l, l1, l2
  <1>18. Served'
    <2> SUFFICES ASSUME NEW i \in 1 .. n + 1
                 PROVE  ServedBy(replies', requests', uploaded', i)
      BY <1>6 DEF Served
    <2>1. CASE i \in 1 .. n
      BY <1>9, <2>1, ServedKept DEF Parts, Served
    <2>2. CASE i = n + 1
      <3> SUFFICES ASSUME res.ok, l(s) # {}, kind # "USERINFO"
                   PROVE  \E j : /\ Latest(l(s), j)
                                 /\ res.pk = replies'[j].res.pk
                                 /\ res.pk \in uploaded'
        <4>1. /\ replies'[i] = e /\ requests'[Cur].kind = kind
              /\ l1(s) = LoginsOf(replies', requests', s, i) /\ l1(s) = l(s)
          BY <1>1, <1>6, <1>17, <2>2 DEF l1
        <4> QED
          BY <1>5, <4>1 DEF ServedBy
      <3>1. res.pk = userPk[s]
        BY DEF Handled, s
      <3>2. PICK j : Latest(l(s), j) /\ userPk[s] = replies[j].res.pk /\ userPk[s] \in uploaded
        BY <1>2 DEF Parts, Session, SessionOf, l
      <3>3. j \in 1 .. n
        BY <1>17, <3>2 DEF Latest
      <3> QED
        BY <1>6, <3>1, <3>2, <3>3 DEF Handled
    <2> QED
      BY <1>6, <2>1, <2>2
  <1>19. Session'
    <2> SUFFICES ASSUME NEW t \in Slots, l2(t) # {}
                 PROVE  \E j : /\ Latest(l2(t), j)
                               /\ userPk'[t] = replies'[j].res.pk
                               /\ userPk'[t] \in uploaded'
      <3>1. Len(replies') + 1 = n + 2
        BY <1>6
      <3> QED
        BY <3>1 DEF Session, SessionOf, l2
    <2>1. CASE t = s /\ kind = "USERINFO" /\ res.ok
      <3>1. l2(t) = l(t) \cup {n + 1} /\ l(t) \subseteq 1 .. n
        BY <1>17, <2>1
      <3>2. Latest(l2(t), n + 1)
        BY <1>6, <3>1 DEF Latest
      <3>3. userPk'[t] = res.pk /\ res.pk \in uploaded'
        BY <2>1 DEF Handled, TypeOK, s
      <3> QED
        BY <1>5, <1>6, <3>2, <3>3
    <2>2. CASE ~ (t = s /\ kind = "USERINFO" /\ res.ok)
      <3>1. l2(t) = l(t) /\ l(t) \subseteq 1 .. n
        BY <1>17, <2>2
      <3>2. PICK j : Latest(l(t), j) /\ userPk[t] = replies[j].res.pk /\ userPk[t] \in uploaded
        BY <3>1 DEF Parts, Session, SessionOf, l
      <3>3. j \in 1 .. n
        BY <3>1, <3>2 DEF Latest
      <3>4. userPk'[t] = userPk[t]
        BY <1>8, <2>2 DEF Handled
      <3> QED
        BY <1>6, <3>1, <3>2, <3>3, <3>4 DEF Handled
    <2> QED
      BY <2>1, <2>2
  <1> QED
    BY <1>4, <1>10, <1>13, <1>16, <1>18, <1>19 DEF Parts

(* ImLoginResponse takes its packet and leaves the rest alone. *)
LEMMA NoteStep ==
  ASSUME TypeOK, Parts, ImLoginResponse
  PROVE  TypeOK' /\ Parts'
  <1>1. Taken("LOGINRESPONSE") /\ UNCHANGED <<userPk, uploaded, replies>>
    BY DEF ImLoginResponse
  <1>2. TakenLeaves
    BY <1>1, TakenStep
  <1>3. UNCHANGED <<conn, owner, requests, stream, undefined, torn>>
    BY <1>1 DEF Taken, client
  <1>4. TypeOK'
    BY <1>1, <1>2, <1>3 DEF TypeOK, TakenLeaves, DataPackets
  <1>5. Answered'
    BY <1>1, <1>2, <1>3 DEF Answered, TakenLeaves
  <1>6. Kept
    BY <1>1, <1>3, Typed DEF Kept
  <1>7. InOrder' /\ Served' /\ Session'
    BY <1>1, <1>6, QuietStep DEF Parts
  <1> QED
    BY <1>2, <1>4, <1>5, <1>7 DEF Parts, TakenLeaves

(* Every step of the system keeps the invariant. *)
LEMMA Step ==
  ASSUME TypeOK, Parts, [Next]_vars
  PROVE  TypeOK' /\ Parts'
  <1>1. CASE UNCHANGED vars
    BY <1>1 DEF vars, client, TypeOK, Parts, Lines, Answered, Frames, Stopped, Job, InOrder,
                Served, Session, Readable, HasHandler, Cur
  <1>2. CASE GetUserInfo \/ GetUserData \/ GameStart
    <2>1. procSktQueue # <<>>
      BY <1>2 DEF GetUserInfo, GetUserData, GameStart, Serve, Taken
    <2> QED
      BY <1>2, <2>1, JobIs, HandlersAre, HandledStep
  <1> QED
    BY <1>1, <1>2, ConnectStep, SendStep, PushStep, ResetStep, UndefinedStep, NoteStep DEF Next, RedisStep

(* It holds at the start. *)
LEMMA InitParts ==
  ASSUME Init
  PROVE  TypeOK /\ Parts
  <1>1. /\ procSktQueue = <<>> /\ procSktQueue \in Seq(DataPackets) /\ Len(procSktQueue) = 0
        /\ \A s \in Slots : ring[s] = <<>> /\ stream[s] = <<>>
        /\ requests = <<>> /\ Len(requests) = 0 /\ replies = <<>> /\ Len(replies) = 0
    BY DEF Init
  <1>2. TypeOK
    <2>1. userPk \in [Slots -> Pks]
      BY NamesAssumption DEF Init
    <2>2. conn \in [Slots -> 0 .. MaxConns]
      BY NumbersAssumption DEF Init
    <2>3. stream \in [Slots -> Seq(CellSet)] /\ ring \in [Slots -> Seq(CellSet)]
      <3>1. <<>> \in Seq(CellSet)
        OBVIOUS
      <3> HIDE DEF CellSet
      <3> QED
        BY <3>1 DEF Init
    <2>4. /\ owner \in Seq(Names)
          /\ requests \in Seq([conn : Conns, slot : Slots, kind : Kinds])
          /\ procSktQueue \in Seq([slot : Slots, size : Nat \ {0}])
          /\ replies \in Seq([req : Reqs, slot : Slots, to : 0 .. MaxConns, res : Results])
      BY DEF Init
    <2>5. undefined \in BOOLEAN /\ uploaded \subseteq Pks /\ dropped \subseteq Reqs /\ torn \subseteq Slots
      BY DEF Init
    <2> QED
      BY <2>1, <2>2, <2>3, <2>4, <2>5 DEF TypeOK
  <1>3. Lines /\ Answered
    BY <1>1 DEF Lines, Answered, Line, Ordered, Precedes, Below
  <1>4. Frames
    <2>1. \A s \in Slots : Cardinality(Ahead(procSktQueue, Len(procSktQueue) + 1, s)) = 0
      BY <1>1, AheadOfFirst
    <2> QED
      BY <1>1, <2>1 DEF Frames, Framed, Starts
  <1>5. Stopped
    BY DEF Init, Stopped
  <1>6. InOrder /\ Served
    BY <1>1 DEF InOrder, Served
  <1>7. Session
    BY <1>1 DEF Session, SessionOf, LoginsOf
  <1> QED
    BY <1>2, <1>3, <1>4, <1>5, <1>6, <1>7 DEF Parts

(* The inductive invariant: the state has its shape; requests stand in ring and
   stream in the order they were sent, behind those already answered; sizes and
   ring agree; the thread stops only at a torn slot or at a request without a
   handler; replies are in order; what
   was served, and each slot's userPk, is that of the latest login. *)
THEOREM Inductive == Spec => [](TypeOK /\ Parts)
  <1>1. TypeOK /\ Parts /\ [Next]_vars => (TypeOK /\ Parts)'
    BY Step
  <1> QED
    BY <1>1, InitParts, PTL DEF Spec

(* The state keeps its shape whatever clients, worker and redis thread do. *)
THEOREM TypeCorrect == Spec => []TypeOK
  BY Inductive, PTL

(* The sizes that PushRedisPacket queued cut each ring into pieces that start
   with a header, on every slot where no request was cut or refused. *)
THEOREM FramingCorrect == Spec => []Framing
  <1>1. TypeOK /\ Parts => Framing
    BY RunsInvariants DEF Parts
  <1> QED
    BY <1>1, Inductive, PTL

(* On every slot where no request was cut or refused, RedisThread uses what Read
   gave and calls the handler of a request; only a packetId that has no handler,
   at the front of a whole packet, stops it there. *)
THEOREM HandlersDefinedCorrect == Spec => []HandlersDefined
  <1>1. TypeOK /\ Parts => HandlersDefined
    BY RunsInvariants DEF Parts
  <1> QED
    BY <1>1, Inductive, PTL

(* No request is answered twice, and those of a slot are answered in the order
   they were sent, for any number of slots, clients and requests. *)
THEOREM AnsweredInOrderCorrect == Spec => []AnsweredInOrder
  <1>1. TypeOK /\ Parts => AnsweredInOrder
    BY RunsInvariants DEF Parts
  <1> QED
    BY <1>1, Inductive, PTL

(* What a slot is served after a login is the data of the latest login that was
   reported as successful, and that user is in the Redis cluster. *)
THEOREM ServedAsLastLoginCorrect == Spec => []ServedAsLastLogin
  <1>1. TypeOK /\ Parts => ServedAsLastLogin
    BY RunsInvariants DEF Parts
  <1> QED
    BY <1>1, Inductive, PTL

-----------------------------------------------------------------------------
(* The refinement of RequestService. *)

(* The packet that piece number k of queue q announces, for any requests rq and
   rings rg; Inbox in these words. *)
HandlerBy(rq, r) ==
  IF rq[r].kind \in Replying THEN "replies" ELSE IF rq[r].kind \in Handlers THEN "silent" ELSE "none"

PacketIn(rq, x, a, n) ==
  [first |-> x[a + 1][1], handler |-> HandlerBy(rq, x[a + 1][1]), behind |-> JoinedBehind(x, a, n)]

PacketOf(rq, q, rg, k) ==
  PacketIn(rq, rg[q[k].slot], Cardinality(Ahead(q, k, q[k].slot)), q[k].size)

InPackets == [first : Nat, handler : {"replies", "silent", "none"}, behind : SUBSET Reqs]

Answers == [i \in DOMAIN replies |-> replies[i].req]

(* Two sequences with the same elements. *)
LEMMA SameSequence ==
  ASSUME NEW S, NEW x \in Seq(S), NEW y \in Seq(S), Len(x) = Len(y),
         \A k \in 1 .. Len(x) : x[k] = y[k]
  PROVE  x = y
  OBVIOUS

(* The same cells at another place, and the same request, make the same packet. *)
SameCells(x, a, y, b, n) == \A i \in 1 .. n : x[a + i] = y[b + i]

LEMMA SamePacket ==
  ASSUME NEW rq1, NEW rq2, NEW x, NEW y, NEW a \in Nat, NEW b \in Nat, NEW n \in Nat, n > 0,
         SameCells(x, a, y, b, n),
         rq1[x[a + 1][1]] = rq2[x[a + 1][1]]
  PROVE  PacketIn(rq1, x, a, n) = PacketIn(rq2, y, b, n)
  <1>1. x[a + 1] = y[b + 1]
    <2>1. 1 \in 1 .. n
      OBVIOUS
    <2> QED
      BY <2>1 DEF SameCells
  <1>2. \A i \in 2 .. n : x[a + i] = y[b + i]
    BY DEF SameCells
  <1>3. JoinedBehind(x, a, n) = JoinedBehind(y, b, n)
    BY <1>2 DEF JoinedBehind
  <1> QED
    BY <1>1, <1>3 DEF PacketIn, HandlerBy

(* Where a piece lies in its ring. *)
LEMMA PieceIs ==
  ASSUME TypeOK, Frames, torn = {}, NEW k \in 1 .. Len(procSktQueue)
  PROVE  LET q == procSktQueue
             t == q[k].slot
             a == Cardinality(Ahead(q, k, t))
         IN  /\ t \in Slots /\ q[k].size \in Nat /\ q[k].size > 0 /\ a \in Nat
             /\ ring[t] \in Seq(CellSet) /\ Len(ring[t]) \in Nat
             /\ a + q[k].size <= Len(ring[t])
             /\ \A i \in 1 .. q[k].size : a + i \in 1 .. Len(ring[t])
  <1> DEFINE q == procSktQueue
             t == q[k].slot
             a == Cardinality(Ahead(q, k, t))
  <1>1. q \in Seq(DataPackets) /\ t \in Slots /\ q[k].size \in Nat /\ q[k].size > 0
    BY Typed, QueuePlaces
  <1>2. ring[t] \in Seq(CellSet) /\ Len(ring[t]) \in Nat /\ Framed(q, ring[t], t)
    BY <1>1, Typed DEF Frames
  <1>3. a \in Nat /\ a + q[k].size <= Len(ring[t])
    BY <1>1, <1>2, FramedInside
  <1> HIDE DEF a, q
  <1>4. \A i \in 1 .. q[k].size : a + i \in 1 .. Len(ring[t])
    BY <1>1, <1>2, <1>3
  <1> QED
    BY <1>1, <1>2, <1>3, <1>4 DEF a, q

(* Where nothing is torn, the inbox is what the pieces announce: requests that
   were sent. *)
InboxNow ==
  /\ Inbox \in Seq(InPackets) /\ Len(Inbox) = Len(procSktQueue)
  /\ \A k \in 1 .. Len(procSktQueue) :
       /\ Inbox[k] = PacketOf(requests, procSktQueue, ring, k)
       /\ Inbox[k].first \in 1 .. Len(requests)

LEMMA InboxIs == TypeOK /\ Frames /\ Lines /\ torn = {} => InboxNow
  <1> SUFFICES ASSUME TypeOK, Frames, Lines, torn = {}
               PROVE  InboxNow
    OBVIOUS
  <1> DEFINE q == procSktQueue
  <1>1. Len(q) \in Nat /\ DOMAIN q = 1 .. Len(q) /\ q \in Seq(DataPackets)
    BY Typed, QueuePlaces
  <1>2. Inbox = [k \in 1 .. Len(q) |-> PacketOf(requests, q, ring, k)]
    BY <1>1 DEF Inbox, Arrived, HandlerOf, HandlerBy, PacketOf, PacketIn, Before
  <1>3. ASSUME NEW k \in 1 .. Len(q)
        PROVE  /\ PacketOf(requests, q, ring, k) \in InPackets
               /\ PacketOf(requests, q, ring, k).first \in 1 .. Len(requests)
    <2> DEFINE t == q[k].slot
               a == Cardinality(Ahead(q, k, t))
               x == ring[t]
    <2>1. /\ t \in Slots /\ q[k].size \in Nat /\ q[k].size > 0 /\ a \in Nat
          /\ x \in Seq(CellSet) /\ a + q[k].size <= Len(x)
          /\ \A i \in 1 .. q[k].size : a + i \in 1 .. Len(x)
      BY PieceIs
    <2>2. a + 1 \in 1 .. Len(x)
      <3>1. 1 \in 1 .. q[k].size
        BY <2>1
      <3> QED
        BY <2>1, <3>1
    <2>3. x[a + 1][1] \in 1 .. Len(requests)
      <3>1. Below(x, Len(requests))
        BY <2>1 DEF Lines, Line
      <3> QED
        BY <2>2, <3>1 DEF Below
    <2>4. JoinedBehind(x, a, q[k].size) \subseteq Reqs
      BY <2>1, JoinedAre
    <2>5. \A r : HandlerBy(requests, r) \in {"replies", "silent", "none"}
      BY DEF HandlerBy
    <2>6. PacketOf(requests, q, ring, k) = PacketIn(requests, x, a, q[k].size)
      BY DEF PacketOf
    <2> HIDE DEF x, a
    <2> QED
      BY <2>3, <2>4, <2>5, <2>6 DEF PacketIn, InPackets
  <1> HIDE DEF q
  <1>4. Inbox \in Seq(InPackets) /\ Len(Inbox) = Len(q)
    <2> HIDE DEF InPackets
    <2> QED
      BY <1>1, <1>2, <1>3
  <1> QED
    BY <1>2, <1>3, <1>4 DEF InboxNow, q

(* The same of the state after a step. *)
LEMMA InboxIsNext == (TypeOK /\ Frames /\ Lines /\ torn = {} => InboxNow)'
  BY InboxIs, PTL

(* A client that sends changes nothing of what has arrived. *)
LEMMA SendKeeps ==
  ASSUME TypeOK, Parts, TypeOK', Parts', torn = {}, torn' = {},
         NEW s \in Slots, NEW kind, Send(s, kind)
  PROVE  Inbox' = Inbox
  <1> DEFINE q == procSktQueue
  <1>1. InboxNow
    BY InboxIs DEF Parts
  <1>2. InboxNow'
    BY InboxIsNext DEF Parts
  <1>3. /\ q' = q /\ ring' = ring
        /\ \A r \in 1 .. Len(requests) : requests'[r] = requests[r]
    <2>1. q' = q /\ ring' = ring /\ \E e : requests' = Append(requests, e)
      BY DEF Send
    <2>2. requests \in Seq(Requested)
      BY Typed
    <2> HIDE DEF Requested
    <2> QED
      BY <2>1, <2>2, Grown
  <1>4. ASSUME NEW k \in 1 .. Len(q)
        PROVE  Inbox'[k] = Inbox[k]
    <2> DEFINE t == q[k].slot
               a == Cardinality(Ahead(q, k, t))
    <2>1. q[k].size \in Nat /\ q[k].size > 0 /\ a \in Nat
      BY PieceIs DEF Parts
    <2>2. /\ Inbox[k] = PacketIn(requests, ring[t], a, q[k].size)
          /\ Inbox[k].first \in 1 .. Len(requests)
          /\ Inbox'[k] = PacketIn(requests', ring[t], a, q[k].size)
      BY <1>1, <1>2, <1>3 DEF InboxNow, PacketOf
    <2> HIDE DEF a, q
    <2>3. ring[t][a + 1][1] \in 1 .. Len(requests)
      BY <2>2 DEF PacketIn
    <2>4. PacketIn(requests, ring[t], a, q[k].size) = PacketIn(requests', ring[t], a, q[k].size)
      <3> DEFINE x == ring[t]
                 m == q[k].size
      <3>1. m \in Nat /\ m > 0 /\ a \in Nat /\ requests[x[a + 1][1]] = requests'[x[a + 1][1]]
        BY <1>3, <2>1, <2>3
      <3>2. SameCells(x, a, x, a, m)
        BY DEF SameCells
      <3> HIDE DEF x, m
      <3>3. PacketIn(requests, x, a, m) = PacketIn(requests', x, a, m)
        BY <3>1, <3>2, SamePacket
      <3> QED
        BY <3>3 DEF x, m
    <2> QED
      BY <2>2, <2>4
  <1> HIDE DEF InPackets
  <1> QED
    BY <1>1, <1>2, <1>3, <1>4, SameSequence DEF InboxNow

(* A packet that a worker passes on arrives in the inbox. *)
LEMMA PushArrives ==
  ASSUME TypeOK, Parts, TypeOK', Parts', torn = {}, torn' = {},
         NEW s \in Slots, NEW n \in 1 .. 2 * Window, PushRedisPacket(s, n)
  PROVE  /\ Inbox' = Append(Inbox, Inbox'[Len(procSktQueue) + 1])
         /\ Len(procSktQueue) + 1 \in DOMAIN Inbox'
  <1> DEFINE q == procSktQueue
             e == [slot |-> s, size |-> n]
  <1>1. InboxNow
    BY InboxIs DEF Parts
  <1>2. InboxNow'
    BY InboxIsNext DEF Parts
  <1>3. /\ q' = Append(q, e) /\ n \in Nat /\ n > 0 /\ requests' = requests
        /\ ring' = [ring EXCEPT ![s] = @ \o SubSeq(stream[s], 1, n)]
    <2>1. q' = Append(q, e) /\ n \in Nat /\ n > 0 /\ requests' = requests
      BY NumbersAssumption DEF PushRedisPacket
    <2>2. Len(ring[s]) + n <= RingSize
      BY DEF PushRedisPacket
    <2>3. ring' = [ring EXCEPT ![s] = @ \o SubSeq(stream[s], 1, n)]
      BY <2>2 DEF PushRedisPacket
    <2> QED
      BY <2>1, <2>3
  <1>4. e \in DataPackets /\ q \in Seq(DataPackets)
    BY <1>3, Typed DEF DataPackets
  <1>5. Len(q') = Len(q) + 1 /\ Len(q) \in Nat /\ \A k \in 1 .. Len(q) : q'[k] = q[k]
    BY <1>3, <1>4, QueuePush, QueuePlaces
  <1>6. \A t \in Slots : \A i \in 1 .. Len(ring[t]) : ring'[t][i] = ring[t][i]
    <2>1. n <= Len(stream[s]) /\ stream[s] \in Seq(CellSet)
      BY Typed DEF PushRedisPacket
    <2>2. SubSeq(stream[s], 1, n) \in Seq(CellSet)
      BY <1>3, <2>1, Split
    <2>3. ring[s] \in Seq(CellSet) /\ ring'[s] = ring[s] \o SubSeq(stream[s], 1, n)
      BY <1>3, Typed DEF TypeOK
    <2>4. \A i \in 1 .. Len(ring[s]) : ring'[s][i] = ring[s][i]
      BY <2>2, <2>3
    <2>5. \A t \in Slots : t # s => ring'[t] = ring[t]
      BY <1>3 DEF TypeOK
    <2> QED
      BY <2>4, <2>5
  <1>7. ASSUME NEW k \in 1 .. Len(q)
        PROVE  Inbox'[k] = Inbox[k]
    <2> DEFINE t == q[k].slot
               a == Cardinality(Ahead(q, k, t))
    <2>1. /\ t \in Slots /\ q[k].size \in Nat /\ q[k].size > 0 /\ a \in Nat
          /\ \A i \in 1 .. q[k].size : a + i \in 1 .. Len(ring[t])
      BY PieceIs DEF Parts
    <2>2. Ahead(q', k, t) = Ahead(q, k, t)
      <3>1. k \in 1 .. Len(q) + 1
        BY <1>5
      <3> QED
        BY <1>3, <1>4, <3>1, AheadPush
    <2>3. q'[k] = q[k] /\ k \in 1 .. Len(q')
      BY <1>5
    <2>4. /\ Inbox'[k] = PacketIn(requests, ring'[t], a, q[k].size)
          /\ Inbox[k] = PacketIn(requests, ring[t], a, q[k].size)
      BY <1>1, <1>2, <1>3, <2>2, <2>3 DEF InboxNow, PacketOf
    <2> HIDE DEF a, q
    <2>5. \A i \in 1 .. q[k].size : ring'[t][a + i] = ring[t][a + i]
      BY <1>6, <2>1
    <2>6. PacketIn(requests, ring'[t], a, q[k].size) = PacketIn(requests, ring[t], a, q[k].size)
      <3> DEFINE x == ring'[t]
                 y == ring[t]
                 m == q[k].size
      <3>1. m \in Nat /\ m > 0 /\ a \in Nat /\ SameCells(x, a, y, a, m)
        BY <2>1, <2>5 DEF SameCells
      <3> HIDE DEF x, y, m
      <3>2. PacketIn(requests, x, a, m) = PacketIn(requests, y, a, m)
        BY <3>1, SamePacket
      <3> QED
        BY <3>2 DEF x, y, m
    <2> QED
      BY <2>4, <2>6
  <1> HIDE DEF InPackets, q
  <1>8. /\ Inbox \in Seq(InPackets) /\ Len(Inbox) = Len(q)
        /\ Inbox' \in Seq(InPackets) /\ Len(Inbox') = Len(q) + 1
    BY <1>1, <1>2, <1>5 DEF InboxNow, q
  <1>9. Inbox'[Len(q) + 1] \in InPackets /\ Len(q) + 1 \in DOMAIN Inbox'
    <2>1. Len(q) + 1 \in 1 .. Len(Inbox')
      BY <1>5, <1>8
    <2> QED
      BY <1>8, <2>1
  <1> DEFINE y == Append(Inbox, Inbox'[Len(q) + 1])
  <1>10. /\ y \in Seq(InPackets) /\ Len(y) = Len(q) + 1
         /\ y[Len(q) + 1] = Inbox'[Len(q) + 1]
         /\ \A k \in 1 .. Len(q) : y[k] = Inbox[k]
    BY <1>8, <1>9, Grown
  <1> HIDE DEF y
  <1>11. \A k \in 1 .. Len(Inbox') : Inbox'[k] = y[k]
    <2> SUFFICES ASSUME NEW k \in 1 .. Len(q) + 1
                 PROVE  Inbox'[k] = y[k]
      BY <1>8
    <2>1. CASE k = Len(q) + 1
      BY <1>10, <2>1
    <2>2. CASE k # Len(q) + 1
      <3>1. k \in 1 .. Len(q)
        BY <1>5, <2>2
      <3> QED
        BY <1>7, <1>10, <3>1
    <2> QED
      BY <2>1, <2>2
  <1>12. Inbox' = y
    BY <1>8, <1>10, <1>11, SameSequence
  <1> QED
    BY <1>9, <1>12 DEF y, q

(* The packet the redis thread is about to take is the first of the inbox. *)
LEMMA FrontIs ==
  ASSUME TypeOK, Parts, torn = {}, procSktQueue # <<>>
  PROVE  /\ Inbox # <<>> /\ Readable
         /\ Head(Inbox).first = Cur /\ Head(Inbox).handler = HandlerBy(requests, Cur)
         /\ Head(Inbox).behind = JoinedBehind(ring[Job.slot], 0, Job.size)
  <1> DEFINE q == procSktQueue
  <1>1. InboxNow
    BY InboxIs DEF Parts
  <1>2. Readable
    BY UncutReadable DEF Parts
  <1>3. Job = q[1] /\ Cur = ring[Job.slot][1][1]
    BY <1>2, JobIs, CurIs
  <1>4. 1 \in 1 .. Len(q) /\ Cardinality(Ahead(q, 1, q[1].slot)) = 0
    BY Typed, QueuePop, QueuePlaces, AheadOfFirst
  <1>5. Inbox[1] = PacketIn(requests, ring[Job.slot], 0, Job.size)
    BY <1>1, <1>3, <1>4 DEF InboxNow, PacketOf
  <1>6. Inbox # <<>> /\ Head(Inbox) = Inbox[1]
    <2> HIDE DEF InPackets
    <2> QED
      BY <1>1, <1>4 DEF InboxNow
  <1> QED
    BY <1>2, <1>3, <1>5, <1>6 DEF PacketIn

(* Taking it leaves the others. *)
LEMMA TakenLeavesInbox ==
  ASSUME TypeOK, Parts, TypeOK', Parts', torn = {}, torn' = {}, NEW kind, Taken(kind)
  PROVE  Inbox' = Tail(Inbox) /\ dropped' = dropped \cup Head(Inbox).behind
  <1> DEFINE q == procSktQueue
             s == Job.slot
  <1>1. InboxNow
    BY InboxIs DEF Parts
  <1>2. InboxNow'
    BY InboxIsNext DEF Parts
  <1>3. /\ q # <<>> /\ q' = Tail(q) /\ Readable /\ requests' = requests
        /\ ring' = [ring EXCEPT ![s] = SubSeq(@, Job.size + 1, Len(@))]
        /\ dropped' = dropped \cup JoinedBehind(ring[s], 0, Job.size)
    BY DEF Taken, AfterRead, client
  <1>4. /\ q \in Seq(DataPackets) /\ q' \in Seq(DataPackets)
        /\ Len(q') = Len(q) - 1 /\ Len(q) \in Nat /\ Len(q) > 0
        /\ \A k \in 1 .. Len(q') : q'[k] = q[k + 1] /\ k + 1 \in 1 .. Len(q)
    BY <1>3, Typed, QueuePop, QueuePlaces
  <1>5. /\ Job = q[1] /\ s \in Slots /\ Job.size \in Nat /\ Job.size > 0
        /\ ring[s] \in Seq(CellSet) /\ Job.size <= Len(ring[s])
    BY <1>3, JobIs, CurIs
  <1>6. /\ ring'[s] = SubSeq(ring[s], Job.size + 1, Len(ring[s]))
        /\ \A t \in Slots : t # s => ring'[t] = ring[t]
    BY <1>3, <1>5 DEF TypeOK
  <1>7. ASSUME NEW k \in 1 .. Len(q')
        PROVE  Inbox'[k] = Inbox[k + 1]
    <2> DEFINE t == q[k + 1].slot
               a == Cardinality(Ahead(q, k + 1, t))
               b == Cardinality(Ahead(q', k, t))
               m == q[k + 1].size
    <2>1. /\ q'[k] = q[k + 1] /\ k + 1 \in 1 .. Len(q) /\ k \in 1 .. Len(q)
          /\ k \in 1 .. Len(q') + 1
      BY <1>4
    <2>2. /\ t \in Slots /\ m \in Nat /\ m > 0 /\ a \in Nat
          /\ Len(ring[t]) \in Nat /\ a + m <= Len(ring[t])
      BY <2>1, PieceIs DEF Parts
    <2>3. b \in Nat
      BY <1>4, <2>1, AheadFinite
    <2>4. a = b + (IF q[1].slot = t THEN q[1].size ELSE 0)
      BY <1>3, <1>4, <2>1, AheadPop
    <2>5. /\ Inbox'[k] = PacketIn(requests, ring'[t], b, m)
          /\ Inbox[k + 1] = PacketIn(requests, ring[t], a, m)
      BY <1>1, <1>2, <1>3, <2>1 DEF InboxNow, PacketOf
    <2> HIDE DEF a, b, m
    <2>6. \A i \in 1 .. m : ring'[t][b + i] = ring[t][a + i]
      <3>1. CASE t = s
        <4> DEFINE n == Job.size
                   x == ring[s]
        <4>1. a = b + n /\ n \in Nat /\ x \in Seq(CellSet) /\ n <= Len(x) /\ a + m <= Len(x)
              /\ Len(x) \in Nat
          BY <1>5, <2>2, <2>4, <3>1
        <4>2. ring'[t] = SubSeq(x, n + 1, Len(x)) /\ ring[t] = x
          BY <1>6, <3>1
        <4> HIDE DEF n, x, CellSet
        <4>3. \A i \in 1 .. Len(x) - n : SubSeq(x, n + 1, Len(x))[i] = x[n + i]
          BY <4>1, Split
        <4>4. \A i \in 1 .. m : b + i \in 1 .. Len(x) - n /\ n + (b + i) = a + i
          <5> DEFINE z == Len(x)
          <5>1. z \in Nat /\ n \in Nat /\ a \in Nat /\ b \in Nat /\ m \in Nat
            BY <2>2, <2>3, <4>1
          <5>2. a = b + n /\ a + m <= z
            BY <4>1
          <5> HIDE DEF z
          <5>3. \A i \in 1 .. m : b + i \in 1 .. z - n /\ n + (b + i) = a + i
            BY <5>1, <5>2
          <5> QED
            BY <5>3 DEF z
        <4> QED
          BY <4>2, <4>3, <4>4
      <3>2. CASE t # s
        <4>1. a = b
          BY <1>5, <2>3, <2>4, <3>2
        <4> QED
          BY <1>6, <2>2, <3>2, <4>1
      <3> QED
        BY <3>1, <3>2
    <2>7. PacketIn(requests, ring'[t], b, m) = PacketIn(requests, ring[t], a, m)
      <3> DEFINE x == ring'[t]
                 y == ring[t]
      <3>1. m \in Nat /\ m > 0 /\ a \in Nat /\ b \in Nat /\ SameCells(x, b, y, a, m)
        BY <2>2, <2>3, <2>6 DEF SameCells
      <3> HIDE DEF x, y
      <3>2. PacketIn(requests, x, b, m) = PacketIn(requests, y, a, m)
        BY <3>1, SamePacket
      <3> QED
        BY <3>2 DEF x, y
    <2> QED
      BY <2>5, <2>7
  <1> HIDE DEF InPackets, q
  <1>8. /\ Inbox \in Seq(InPackets) /\ Len(Inbox) = Len(q)
        /\ Inbox' \in Seq(InPackets) /\ Len(Inbox') = Len(q')
    BY <1>1, <1>2 DEF InboxNow, q
  <1>9. /\ Tail(Inbox) \in Seq(InPackets) /\ Len(Tail(Inbox)) = Len(q')
        /\ \A k \in 1 .. Len(q') : Tail(Inbox)[k] = Inbox[k + 1]
    BY <1>4, <1>8
  <1>10. Inbox' = Tail(Inbox)
    <2>1. \A k \in 1 .. Len(Inbox') : Inbox'[k] = Tail(Inbox)[k]
      BY <1>7, <1>8, <1>9
    <2> QED
      BY <1>8, <1>9, <2>1, SameSequence
  <1>11. dropped' = dropped \cup Head(Inbox).behind
    BY <1>3, FrontIs DEF q
  <1> QED
    BY <1>10, <1>11

(* The reply is the answer to the first request of the packet. *)
LEMMA HandlerAnswers ==
  ASSUME TypeOK, TypeOK', procSktQueue # <<>>, Readable, NEW res, PushSendMsg(res)
  PROVE  Answers' = Append(Answers, Cur)
  <1> DEFINE e == [req |-> Cur, slot |-> Job.slot, to |-> conn[Job.slot], res |-> res]
             n == Len(replies)
  <1>1. /\ n \in Nat /\ DOMAIN replies = 1 .. n
        /\ Len(replies') = n + 1 /\ replies'[n + 1] = e
        /\ \A i \in 1 .. n : replies'[i] = replies[i]
    <2>1. replies \in Seq(Replied)
      BY Typed
    <2>2. replies' = Append(replies, e)
      BY DEF PushSendMsg, Pushed
    <2> HIDE DEF Replied, e
    <2> QED
      BY <2>1, <2>2, Grown
  <1>2. replies' \in Seq(Replied) /\ DOMAIN replies' = 1 .. n + 1
    <2>1. replies' \in Seq(Replied)
      BY DEF TypeOK, Replied
    <2> HIDE DEF Replied
    <2> QED
      BY <1>1, <2>1
  <1>3. e.req = Cur /\ Cur \in Nat
    <2>1. ring[Job.slot] \in Seq(CellSet) /\ 1 \in 1 .. Len(ring[Job.slot])
          /\ Cur = ring[Job.slot][1][1]
      BY CurIs, JobIs
    <2>2. ring[Job.slot][1] \in CellSet
      <3> HIDE DEF CellSet
      <3> QED
        BY <2>1
    <2> QED
      BY <2>1, <2>2 DEF CellSet, Reqs
  <1> HIDE DEF e
  <1>4. /\ Answers' = [i \in 1 .. n + 1 |-> IF i = n + 1 THEN Cur ELSE replies[i].req]
        /\ Answers = [i \in 1 .. n |-> replies[i].req]
    BY <1>1, <1>2, <1>3 DEF Answers
  <1>5. \A i \in 1 .. n : replies[i].req \in Nat
    BY Typed
  <1>6. Answers \in Seq(Nat) /\ Len(Answers) = n
    BY <1>1, <1>4, <1>5
  <1> HIDE DEF n
  <1> QED
    BY <1>1, <1>3, <1>4, <1>6

(* What RequestService sees. *)
Seen == <<procSktQueue, ring, requests, replies, dropped, undefined, torn>>

(* A step that changes nothing of it is a stutter there. *)
LEMMA Unseen ==
  ASSUME UNCHANGED Seen
  PROVE  UNCHANGED Service!vars
  BY DEF Seen, Service!vars, Inbox, Arrived, HandlerOf, Before

(* Every step is one of RequestService, or none. *)
LEMMA ServiceStep ==
  ASSUME TypeOK, Parts, [Next]_vars
  PROVE  [Service!Next]_Service!vars
  <1>1. TypeOK' /\ Parts'
    BY Step
  <1>2. CASE torn' # {}
    BY <1>2 DEF Service!Next, Service!Break
  <1>3. CASE torn' = {}
    <2>1. torn = {}
      <3>1. torn \subseteq torn'
        BY DEF Next, RedisStep, Connect, Send, PushRedisPacket, Reset, GetUserInfo, GetUserData,
               GameStart, ImLoginResponse, Serve, Taken, TakenUndefined, vars
      <3> QED
        BY <1>3, <3>1
    <2>2. CASE \E s \in Slots : \E n \in 1 .. 2 * Window : PushRedisPacket(s, n)
      <3>1. PICK s \in Slots, n \in 1 .. 2 * Window : PushRedisPacket(s, n)
        BY <2>2
      <3>2. /\ Inbox' = Append(Inbox, Inbox'[Len(procSktQueue) + 1])
            /\ Len(procSktQueue) + 1 \in DOMAIN Inbox'
        BY <1>1, <1>3, <2>1, <3>1, PushArrives
      <3>3. replies' = replies /\ dropped' = dropped /\ undefined' = undefined
        BY <3>1 DEF PushRedisPacket
      <3> QED
        BY <1>3, <2>1, <3>2, <3>3 DEF Service!Next, Service!Arrive
    <2>3. CASE GetUserInfo \/ GetUserData \/ GameStart
      <3>1. procSktQueue # <<>>
        BY <2>3 DEF GetUserInfo, GetUserData, GameStart, Serve, Taken
      <3>2. PICK kind \in Replying, res \in Results : Handled(kind, res)
        BY <2>3, <3>1, JobIs, HandlersAre
      <3>3. /\ Taken(kind) /\ PushSendMsg(res) /\ requests[Cur].kind = kind
            /\ ~ undefined /\ undefined' = undefined
        BY <3>2 DEF Handled, Taken
      <3>4. /\ Inbox # <<>> /\ Readable /\ Head(Inbox).first = Cur /\ Head(Inbox).handler = "replies"
        BY <2>1, <3>1, <3>3, FrontIs DEF HandlerBy
      <3>5. Inbox' = Tail(Inbox) /\ dropped' = dropped \cup Head(Inbox).behind
        BY <1>1, <1>3, <2>1, <3>3, TakenLeavesInbox
      <3>6. Answers' = Append(Answers, Cur)
        BY <1>1, <3>1, <3>3, <3>4, HandlerAnswers
      <3>7. Service!Answer
        BY <1>3, <2>1, <3>3, <3>4, <3>5, <3>6
           DEF Service!Answer, Service!Due, Service!Taken, Answers
      <3> QED
        BY <3>7 DEF Service!Next, Service!Serve
    <2>4. CASE ImLoginResponse
      <3>1. /\ Taken("LOGINRESPONSE") /\ requests[Cur].kind = "LOGINRESPONSE" /\ replies' = replies
            /\ ~ undefined /\ undefined' = undefined /\ procSktQueue # <<>>
        BY <2>4 DEF ImLoginResponse, Taken
      <3>2. Inbox # <<>> /\ Head(Inbox).handler = "silent"
        BY <2>1, <3>1, FrontIs DEF HandlerBy, Handlers, Replying
      <3>3. Inbox' = Tail(Inbox) /\ dropped' = dropped \cup Head(Inbox).behind
        BY <1>1, <1>3, <2>1, <3>1, TakenLeavesInbox
      <3>4. Service!Note
        BY <1>3, <2>1, <3>1, <3>2, <3>3 DEF Service!Note, Service!Due, Service!Taken
      <3> QED
        BY <3>4 DEF Service!Next, Service!Serve
    <2>5. CASE TakenUndefined
      <3>1. /\ UNCHANGED <<procSktQueue, ring, requests, replies, dropped, torn>>
            /\ procSktQueue # <<>> /\ ~ undefined /\ undefined' = TRUE /\ ~ (Readable /\ HasHandler)
        BY <2>5 DEF TakenUndefined, client
      <3>2. Inbox # <<>> /\ Head(Inbox).handler = "none"
        BY <2>1, <3>1, FrontIs DEF HasHandler, HandlerBy, Handlers
      <3>3. Inbox' = Inbox
        BY <3>1 DEF Inbox, Arrived, HandlerOf, Before
      <3>4. Service!Halt
        BY <1>3, <2>1, <3>1, <3>2, <3>3 DEF Service!Halt, Service!Due
      <3> QED
        BY <3>4 DEF Service!Next, Service!Serve
    <2>6. CASE \E s \in Slots, kind \in Asked : Send(s, kind)
      <3>1. PICK s \in Slots, kind \in Asked : Send(s, kind)
        BY <2>6
      <3>2. Inbox' = Inbox
        BY <1>1, <1>3, <2>1, <3>1, SendKeeps
      <3>3. UNCHANGED <<replies, dropped, undefined, torn>>
        BY <3>1 DEF Send
      <3> QED
        BY <3>2, <3>3 DEF Service!vars
    <2>7. CASE \E s \in Slots : (\E name \in Names : Connect(s, name)) \/ Reset(s)
      <3>1. UNCHANGED Seen
        BY <2>7 DEF Connect, Reset, RingAfterReset, TypeOK, Seen
      <3> QED
        BY <3>1, Unseen
    <2>8. CASE UNCHANGED vars
      <3>1. UNCHANGED Seen
        BY <2>8 DEF vars, client, Seen
      <3> QED
        BY <3>1, Unseen
    <2> QED
      BY <2>2, <2>3, <2>4, <2>5, <2>6, <2>7, <2>8 DEF Next, RedisStep
  <1> QED
    BY <1>2, <1>3

(* As long as nothing is cut or refused, the server is a queue of packets, each
   served with the reply of its first request if that has one, the requests
   behind it dropped, and halted by a request without a handler: the steps of
   clients, worker and redis thread are those of RequestService (that all
   packets come up in the end is left to TLC). *)
THEOREM ServiceCorrect == Spec => Service!Spec
  <1>1. Init => Service!Init
    <2> SUFFICES ASSUME Init PROVE Service!Init
      OBVIOUS
    <2>1. /\ torn = {} /\ DOMAIN procSktQueue = {} /\ DOMAIN replies = {}
          /\ dropped = {} /\ undefined = FALSE
      BY DEF Init
    <2>2. Inbox = <<>> /\ [i \in DOMAIN replies |-> replies[i].req] = <<>>
      BY <2>1 DEF Inbox
    <2> QED
      BY <2>1, <2>2 DEF Service!Init
  <1>2. TypeOK /\ Parts /\ [Next]_vars => [Service!Next]_Service!vars
    BY ServiceStep
  <1> QED
    BY <1>1, <1>2, Inductive, PTL DEF Spec, Service!Spec
=============================================================================
