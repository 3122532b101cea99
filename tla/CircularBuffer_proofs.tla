----------------------- MODULE CircularBuffer_proofs -----------------------
(***************************************************************************)
(* The ring buffer for every capacity, every call length and every set of  *)
(* byte values: its counters stay in range and agree, and it implements    *)
(* the bounded byte stream of ByteFifo.                                    *)
(***************************************************************************)
EXTENDS CircularBuffer, TLAPS

-----------------------------------------------------------------------------
(* Arithmetic of positions. *)

(* Division with remainder, and its uniqueness. *)
LEMMA Division ==
  ASSUME NEW b \in Nat, b > 0, NEW a \in Int
  PROVE  a % b \in 0 .. b - 1 /\ \E q \in Int : a = q * b + (a % b)
  <1>1. a % b \in 0 .. b - 1  OBVIOUS
  <1>2. a = (a \div b) * b + (a % b)  OBVIOUS
  <1>3. a \div b \in Int  OBVIOUS
  <1> QED  BY <1>1, <1>2, <1>3

LEMMA RemainderUnique ==
  ASSUME NEW b \in Nat, b > 0, NEW a \in Int,
         NEW q \in Int, NEW r \in 0 .. b - 1, a = q * b + r
  PROVE  a % b = r
  OBVIOUS

(* Two steps round the ring are one (CircularBuffer.cpp:23, 47). *)
LEMMA AdvanceTwice ==
  ASSUME NEW p \in Int, NEW m \in Int, NEW n \in Int
  PROVE  Advance(Advance(p, m), n) = Advance(p, m + n)
  <1> DEFINE r1 == Advance(p, m)
             r2 == Advance(r1, n)
  <1>1. r1 \in 0 .. BufferSize - 1 /\ \E q \in Int : p + m = q * BufferSize + r1
    BY Division, BufferAssumption DEF Advance
  <1>2. r1 \in Int  BY <1>1, BufferAssumption
  <1>3. r2 \in 0 .. BufferSize - 1 /\ \E q \in Int : r1 + n = q * BufferSize + r2
    <2> HIDE DEF r1
    <2>1. r1 + n \in Int  BY <1>2
    <2> QED  BY <2>1, Division, BufferAssumption DEF Advance
  <1> HIDE DEF r1, r2
  <1>4. PICK q1 \in Int : p + m = q1 * BufferSize + r1  BY <1>1
  <1>5. PICK q2 \in Int : r1 + n = q2 * BufferSize + r2  BY <1>3
  <1>6. (q1 + q2) * BufferSize = q1 * BufferSize + q2 * BufferSize
    BY BufferAssumption
  <1>7. q1 * BufferSize \in Int /\ q2 * BufferSize \in Int
    BY BufferAssumption
  <1>8. p + (m + n) = (q1 + q2) * BufferSize + r2
    BY <1>2, <1>3, <1>4, <1>5, <1>6, <1>7, BufferAssumption
  <1>9. (p + (m + n)) % BufferSize = r2
    <2>1. p + (m + n) \in Int /\ q1 + q2 \in Int  OBVIOUS
    <2> QED  BY <1>3, <1>8, <2>1, RemainderUnique, BufferAssumption
  <1> QED  BY <1>9 DEF Advance, r1, r2

(* At most one turn round the ring needs at most one wrap. *)
LEMMA AdvanceOnce ==
  ASSUME NEW p \in Index, NEW m \in 0 .. BufferSize
  PROVE  /\ Advance(p, m) \in Index
         /\ Advance(p, m) = IF p + m < BufferSize THEN p + m ELSE p + m - BufferSize
  <1>1. CASE p + m < BufferSize
    BY <1>1, BufferAssumption DEF Advance, Index
  <1>2. CASE p + m >= BufferSize
    <2>1. p + m = 1 * BufferSize + (p + m - BufferSize)
      BY BufferAssumption DEF Index
    <2>2. p + m - BufferSize \in 0 .. BufferSize - 1
      BY <1>2, BufferAssumption DEF Index
    <2>3. (p + m) % BufferSize = p + m - BufferSize
      BY <2>1, <2>2, BufferAssumption DEF Index
    <2> QED  BY <1>2, <2>2, <2>3, BufferAssumption DEF Advance, Index
  <1> QED  BY <1>1, <1>2, BufferAssumption DEF Index

-----------------------------------------------------------------------------
(* What the copies do. *)

(* A function on 1..n is a sequence of length n, and back. *)
LEMMA FunctionIsSequence ==
  ASSUME NEW S, NEW n \in Nat, NEW s \in [1 .. n -> S]
  PROVE  s \in Seq(S) /\ Len(s) = n
  OBVIOUS

LEMMA SequenceIsFunction ==
  ASSUME NEW S, NEW s \in Seq(S)
  PROVE  s = [i \in 1 .. Len(s) |-> s[i]]
  OBVIOUS

(* The argument of Write is a sequence of at most MaxLen bytes. *)
LEMMA ChunkType ==
  ASSUME NEW data \in Chunks
  PROVE  data \in Seq(Bytes) /\ Len(data) \in 0 .. MaxLen
  BY BufferAssumption DEF Chunks

(* Both memcpys of Write stay inside the array; the byte with offset o lands o
   positions after writePos and every other byte stays as it was. *)
LEMMA StoredBytes ==
  ASSUME TypeOK, NEW data \in Seq(Bytes), HasSpace(Len(data))
  PROVE  /\ Stored(data) \in [Index -> Bytes]
         /\ \A o \in 0 .. Len(data) - 1 : Stored(data)[Advance(writePos, o)] = data[o + 1]
         /\ \A k \in Index :
              (\A o \in 0 .. Len(data) - 1 : k # Advance(writePos, o))
                => Stored(data)[k] = buffer[k]
  <1> DEFINE n == Len(data)
             e == BufferSize - writePos
  <1>1. n \in 0 .. BufferSize /\ e \in 1 .. BufferSize /\ writePos \in Index
    BY BufferAssumption DEF TypeOK, HasSpace, Index
  <1>2. \A o \in 0 .. n - 1 :
          Advance(writePos, o) = IF writePos + o < BufferSize
                                 THEN writePos + o
                                 ELSE writePos + o - BufferSize
    BY <1>1, AdvanceOnce, BufferAssumption
  <1>3. CASE e >= n
    <2>1. Stored(data) = [k \in Index |->
            IF k \in writePos .. writePos + n - 1 THEN data[k - writePos + 1] ELSE buffer[k]]
      BY <1>3 DEF Stored, Memcpy, TypeOK
    <2>2. \A k \in Index : k \in writePos .. writePos + n - 1
            => k - writePos \in 0 .. n - 1 /\ k = Advance(writePos, k - writePos)
      BY <1>1, <1>2, BufferAssumption DEF Index
    <2>3. Stored(data) \in [Index -> Bytes]
      BY <2>1, <2>2 DEF TypeOK
    <2>4. ASSUME NEW o \in 0 .. n - 1
          PROVE  Stored(data)[Advance(writePos, o)] = data[o + 1]
      <3>1. Advance(writePos, o) = writePos + o /\ writePos + o \in Index
        BY <1>1, <1>2, <1>3, BufferAssumption DEF Index
      <3>2. writePos + o \in writePos .. writePos + n - 1
             /\ (writePos + o) - writePos = o
        BY <1>1 DEF Index
      <3> QED  BY <2>1, <3>1, <3>2
    <2>5. ASSUME NEW k \in Index, \A o \in 0 .. n - 1 : k # Advance(writePos, o)
          PROVE  Stored(data)[k] = buffer[k]
      BY <2>1, <2>2, <2>5
    <2> QED  BY <2>3, <2>4, <2>5
  <1>4. CASE e < n
    <2> DEFINE d1 == SubSeq(data, 1, e)
               d2 == SubSeq(data, e + 1, n)
    <2>1. /\ Len(d1) = e /\ \A i \in 1 .. e : d1[i] = data[i]
          /\ Len(d2) = n - e /\ \A i \in 1 .. n - e : d2[i] = data[e + i]
      BY <1>1, <1>4
    <2>2. Stored(data) = Memcpy(Memcpy(buffer, writePos, d1), 0, d2)
      BY <1>1, <1>4 DEF Stored
    <2> HIDE DEF d1, d2
    <2>3. Memcpy(buffer, writePos, d1) = [k \in Index |->
            IF k \in writePos .. writePos + e - 1 THEN d1[k - writePos + 1] ELSE buffer[k]]
      BY <2>1 DEF Memcpy, TypeOK
    <2>4. Stored(data) = [k \in Index |->
            IF k \in 0 .. n - e - 1 THEN d2[k - 0 + 1]
            ELSE IF k \in writePos .. writePos + e - 1 THEN d1[k - writePos + 1]
            ELSE buffer[k]]
      BY <2>1, <2>2, <2>3, <1>1 DEF Memcpy
    <2>5. Stored(data) = [k \in Index |->
            IF k <= n - e - 1 THEN data[e + k + 1]
            ELSE IF k >= writePos THEN data[k - writePos + 1]
            ELSE buffer[k]]
      BY <2>1, <2>4, <1>1, <1>4, BufferAssumption DEF Index
    <2>6. ASSUME NEW k \in Index, k <= n - e - 1
          PROVE  e + k \in 0 .. n - 1 /\ k = Advance(writePos, e + k)
      BY <2>6, <1>1, <1>2, BufferAssumption DEF Index
    <2>7. ASSUME NEW k \in Index, k >= writePos
          PROVE  k - writePos \in 0 .. n - 1 /\ k = Advance(writePos, k - writePos)
      BY <2>7, <1>1, <1>2, <1>4, BufferAssumption DEF Index
    <2>8. Stored(data) \in [Index -> Bytes]
      BY <2>5, <2>6, <2>7, <1>1 DEF TypeOK
    <2>9. ASSUME NEW o \in 0 .. n - 1
          PROVE  Stored(data)[Advance(writePos, o)] = data[o + 1]
      <3> DEFINE k == Advance(writePos, o)
      <3>1. CASE o < e
        <4>1. k \in Index /\ k = writePos + o
          BY <3>1, <1>1, <1>2, BufferAssumption DEF Index
        <4>2. ~(k <= n - e - 1) /\ k >= writePos /\ k - writePos = o
          BY <4>1, <3>1, <1>1, BufferAssumption DEF Index
        <4> HIDE DEF k
        <4>3. Stored(data)[k] = data[o + 1]
          BY <2>5, <4>1, <4>2
        <4> QED  BY <4>3 DEF k
      <3>2. CASE o >= e
        <4>1. k \in Index /\ k = writePos + o - BufferSize
          BY <3>2, <1>1, <1>2, BufferAssumption DEF Index
        <4>2. k <= n - e - 1 /\ e + k = o
          BY <4>1, <3>2, <1>1, BufferAssumption DEF Index
        <4> HIDE DEF k
        <4>3. Stored(data)[k] = data[o + 1]
          BY <2>5, <4>1, <4>2
        <4> QED  BY <4>3 DEF k
      <3> QED  BY <3>1, <3>2, <1>1
    <2>10. ASSUME NEW k \in Index, \A o \in 0 .. n - 1 : k # Advance(writePos, o)
           PROVE  Stored(data)[k] = buffer[k]
      BY <2>5, <2>6, <2>7, <2>10
    <2> QED  BY <2>8, <2>9, <2>10
  <1> QED  BY <1>1, <1>3, <1>4

(* Both memcpys of Read stay inside the array: they fetch the size oldest
   bytes, in order. *)
LEMMA FetchedBytes ==
  ASSUME TypeOK, NEW size \in Nat, currentSize >= size
  PROVE  Fetched(size) = [i \in 1 .. size |-> buffer[Advance(readPos, i - 1)]]
  <1> DEFINE e == BufferSize - readPos
  <1>1. size \in 0 .. BufferSize /\ e \in 1 .. BufferSize /\ readPos \in Index
    BY BufferAssumption DEF TypeOK, Index
  <1>2. \A i \in 1 .. size :
          Advance(readPos, i - 1) = IF readPos + (i - 1) < BufferSize
                                    THEN readPos + (i - 1)
                                    ELSE readPos + (i - 1) - BufferSize
    BY <1>1, AdvanceOnce, BufferAssumption
  <1>3. CASE e >= size
    <2>1. Fetched(size) = [i \in 1 .. size |-> buffer[readPos + i - 1]]
      BY <1>3 DEF Fetched, Slice
    <2>2. \A i \in 1 .. size : readPos + i - 1 = Advance(readPos, i - 1)
      BY <1>1, <1>2, <1>3, BufferAssumption DEF Index
    <2> QED  BY <2>1, <2>2
  <1>4. CASE e < size
    <2> DEFINE s1 == [i \in 1 .. e |-> buffer[readPos + i - 1]]
               s2 == [i \in 1 .. size - e |-> buffer[0 + i - 1]]
    <2>1. Fetched(size) = s1 \o s2
      <3>1. Fetched(size) = Slice(readPos, e) \o Slice(0, size - e)
        BY <1>1, <1>4, BufferAssumption DEF Fetched, Index
      <3> QED  BY <3>1 DEF Slice
    <2>2. /\ s1 \in Seq(Bytes) /\ Len(s1) = e
          /\ s2 \in Seq(Bytes) /\ Len(s2) = size - e
      <3>1. \A i \in 1 .. e : readPos + i - 1 \in Index
        BY <1>1, BufferAssumption DEF Index
      <3>2. \A i \in 1 .. size - e : 0 + i - 1 \in Index
        BY <1>1, <1>4, BufferAssumption DEF Index
      <3>3. s1 \in [1 .. e -> Bytes] /\ s2 \in [1 .. size - e -> Bytes]
        BY <3>1, <3>2 DEF TypeOK
      <3>4. e \in Nat /\ size - e \in Nat
        BY <1>1, <1>4
      <3> HIDE DEF s1, s2
      <3> QED  BY <3>3, <3>4, FunctionIsSequence
    <2>3. /\ \A i \in 1 .. e : s1[i] = buffer[readPos + i - 1]
          /\ \A i \in 1 .. size - e : s2[i] = buffer[0 + i - 1]
      OBVIOUS
    <2> HIDE DEF s1, s2
    <2>4. ASSUME NEW i \in 1 .. size
          PROVE  (s1 \o s2)[i] = buffer[Advance(readPos, i - 1)]
      <3>1. CASE i <= e
        <4>1. (s1 \o s2)[i] = s1[i]
          BY <3>1, <2>2, <1>1
        <4>2. Advance(readPos, i - 1) = readPos + i - 1
          BY <3>1, <1>1, <1>2, BufferAssumption DEF Index
        <4> QED  BY <4>1, <4>2, <2>3, <3>1, <1>1
      <3>2. CASE i > e
        <4>1. (s1 \o s2)[i] = s2[i - e]
          BY <3>2, <2>2, <1>1
        <4>2. i - e \in 1 .. size - e /\ Advance(readPos, i - 1) = 0 + (i - e) - 1
          BY <3>2, <1>1, <1>2, BufferAssumption DEF Index
        <4> QED  BY <4>1, <4>2, <2>3
      <3>3. i <= e \/ i > e  BY <1>1, BufferAssumption DEF Index
      <3> QED  BY <3>1, <3>2, <3>3, Zenon
    <2>5. s1 \o s2 \in Seq(Bytes) /\ Len(s1 \o s2) = size
      BY <2>2, <1>1, <1>4
    <2>6. s1 \o s2 = [i \in 1 .. size |-> (s1 \o s2)[i]]
      BY <2>5, SequenceIsFunction
    <2> QED  BY <2>1, <2>4, <2>6
  <1> QED  BY <1>1, <1>3, <1>4

-----------------------------------------------------------------------------
(* Positions and size stay in range whatever is written and read: no memcpy
   of Write or Read leaves the allocation (CircularBuffer.cpp:5-51). *)
THEOREM TypeCorrect == Spec => []TypeOK
  <1>1. Init => TypeOK
    BY BufferAssumption DEF Init, TypeOK, Index
  <1>2. TypeOK /\ [Next]_vars => TypeOK'
    <2> SUFFICES ASSUME TypeOK, [Next]_vars PROVE TypeOK'
      OBVIOUS
    <2>1. ASSUME NEW data \in Chunks, Write(data) PROVE TypeOK'
      <3>1. data \in Seq(Bytes) /\ Len(data) \in Nat
        BY ChunkType
      <3>2. buffer' \in [Index -> Bytes]
        BY <2>1, <3>1, StoredBytes DEF Write
      <3>3. writePos' \in Index /\ currentSize' \in 0 .. BufferSize
        <4>1. Len(data) \in 0 .. BufferSize
          BY <2>1, <3>1, BufferAssumption DEF Write, HasSpace, TypeOK
        <4> QED  BY <2>1, <3>1, <4>1, AdvanceOnce, BufferAssumption
                 DEF Write, HasSpace, TypeOK
      <3> QED  BY <2>1, <3>2, <3>3 DEF Write, TypeOK
    <2>2. ASSUME NEW size \in 0 .. MaxLen, Read(size) PROVE TypeOK'
      <3>1. size \in 0 .. BufferSize /\ size \in Nat
        BY <2>2, BufferAssumption DEF Read, TypeOK
      <3>2. readPos' \in Index /\ currentSize' \in 0 .. BufferSize
        BY <2>2, <3>1, AdvanceOnce, BufferAssumption DEF Read, TypeOK
      <3>3. readData' \in Seq(Bytes)
        <4>1. \A i \in 1 .. size : Advance(readPos, i - 1) \in Index
          BY <3>1, AdvanceOnce, BufferAssumption DEF TypeOK
        <4>2. readData' = [i \in 1 .. size |-> buffer[Advance(readPos, i - 1)]]
          BY <2>2, <3>1, FetchedBytes DEF Read
        <4>3. readData' \in [1 .. size -> Bytes]
          BY <4>1, <4>2 DEF TypeOK
        <4> QED  BY <3>1, <4>3, FunctionIsSequence
      <3> QED  BY <2>2, <3>2, <3>3 DEF Read, TypeOK
    <2>3. ASSUME NEW data \in Chunks, WriteRefused(data) PROVE TypeOK'
      BY <2>3 DEF WriteRefused, TypeOK
    <2>4. ASSUME NEW size \in 0 .. MaxLen, ReadRefused(size) PROVE TypeOK'
      BY <2>4 DEF ReadRefused, TypeOK
    <2>5. CASE UNCHANGED vars
      BY <2>5 DEF vars, TypeOK
    <2> QED  BY <2>1, <2>2, <2>3, <2>4, <2>5 DEF Next
  <1> QED  BY <1>1, <1>2, PTL DEF Spec

(* The two positions and the size never disagree, so the three counters that
   Write and Read update separately describe one content. *)
THEOREM OccupancyCorrect == Spec => []Occupancy
  <1>1. Init => Occupancy
    BY AdvanceOnce, BufferAssumption DEF Init, Occupancy, Index
  <1>2. TypeOK /\ Occupancy /\ [Next]_vars => Occupancy'
    <2> SUFFICES ASSUME TypeOK, Occupancy, [Next]_vars PROVE Occupancy'
      OBVIOUS
    <2> USE DEF Occupancy
    <2>1. ASSUME NEW data \in Chunks, Write(data) PROVE Occupancy'
      <3>1. readPos \in Int /\ currentSize \in Int /\ Len(data) \in Int
        BY ChunkType, BufferAssumption DEF TypeOK, Index
      <3>2. writePos' = Advance(Advance(readPos, currentSize), Len(data))
        BY <2>1 DEF Write
      <3>3. writePos' = Advance(readPos, currentSize + Len(data))
        BY <3>1, <3>2, AdvanceTwice
      <3> QED  BY <2>1, <3>3 DEF Write, Advance
    <2>2. ASSUME NEW size \in 0 .. MaxLen, Read(size) PROVE Occupancy'
      <3>1. readPos \in Int /\ currentSize \in Int /\ size \in Int
        BY BufferAssumption DEF TypeOK, Index
      <3>2. Advance(Advance(readPos, size), currentSize - size)
              = Advance(readPos, size + (currentSize - size))
        BY <3>1, AdvanceTwice
      <3>3. size + (currentSize - size) = currentSize
        BY <3>1
      <3> QED  BY <2>2, <3>2, <3>3 DEF Read, Advance
    <2>3. ASSUME NEW data \in Chunks, WriteRefused(data) PROVE Occupancy'
      BY <2>3 DEF WriteRefused, Advance
    <2>4. ASSUME NEW size \in 0 .. MaxLen, ReadRefused(size) PROVE Occupancy'
      BY <2>4 DEF ReadRefused, Advance
    <2>5. CASE UNCHANGED vars
      BY <2>5 DEF vars, Advance
    <2> QED  BY <2>1, <2>2, <2>3, <2>4, <2>5 DEF Next
  <1> QED  BY <1>1, <1>2, TypeCorrect, PTL DEF Spec

-----------------------------------------------------------------------------
(* Different offsets below the capacity are different places. *)
LEMMA AdvanceInjective ==
  ASSUME NEW p \in Index, NEW a \in 0 .. BufferSize - 1, NEW b \in 0 .. BufferSize - 1,
         a < b
  PROVE  Advance(p, a) # Advance(p, b)
  <1>1. a \in 0 .. BufferSize /\ b \in 0 .. BufferSize  BY BufferAssumption
  <1>2. /\ Advance(p, a) = IF p + a < BufferSize THEN p + a ELSE p + a - BufferSize
        /\ Advance(p, b) = IF p + b < BufferSize THEN p + b ELSE p + b - BufferSize
    BY <1>1, AdvanceOnce
  <1> QED  BY <1>2, BufferAssumption DEF Index

LEMMA ContentsType ==
  ASSUME TypeOK
  PROVE  Contents \in Seq(Bytes) /\ Len(Contents) = currentSize
  <1>1. currentSize \in Nat /\ currentSize <= BufferSize /\ readPos \in Index
    BY BufferAssumption DEF TypeOK
  <1>2. \A i \in 1 .. currentSize : Advance(readPos, i - 1) \in Index
    BY <1>1, AdvanceOnce, BufferAssumption
  <1>3. Contents \in [1 .. currentSize -> Bytes]
    BY <1>2 DEF Contents, TypeOK
  <1> QED  BY <1>1, <1>3, FunctionIsSequence

(* A write appends to the contents of the ring. *)
LEMMA WriteAppends ==
  ASSUME TypeOK, Occupancy, NEW data \in Chunks, Write(data)
  PROVE  Contents' = Contents \o data
  <1> DEFINE c == currentSize
             n == Len(data)
  <1>1. /\ data \in Seq(Bytes) /\ n \in Nat /\ c \in 0 .. BufferSize
        /\ c + n <= BufferSize /\ readPos \in Index /\ HasSpace(n)
    BY ChunkType, BufferAssumption DEF Write, HasSpace, TypeOK
  <1>2. Contents' = [i \in 1 .. c + n |-> Stored(data)[Advance(readPos, i - 1)]]
    BY DEF Write, Contents, Advance
  <1>3. Contents \in Seq(Bytes) /\ Len(Contents) = c
    BY ContentsType
  <1> HIDE DEF c, n
  <1>4. Contents \o data \in Seq(Bytes) /\ Len(Contents \o data) = c + n
    BY <1>1, <1>3 DEF n
  <1>5. Contents \o data = [i \in 1 .. c + n |-> (Contents \o data)[i]]
    BY <1>4, SequenceIsFunction
  <1>6. ASSUME NEW i \in 1 .. c + n
        PROVE  Stored(data)[Advance(readPos, i - 1)] = (Contents \o data)[i]
    <2>1. CASE i <= c
      <3> DEFINE k == Advance(readPos, i - 1)
      <3>1. i \in 1 .. c /\ i - 1 \in 0 .. BufferSize
        BY <1>1, <2>1, BufferAssumption
      <3>2. k \in Index
        BY <1>1, <3>1, AdvanceOnce
      <3>3. ASSUME NEW o \in 0 .. n - 1 PROVE k # Advance(writePos, o)
        <4>1. Advance(writePos, o) = Advance(readPos, c + o)
          BY <1>1, AdvanceTwice, BufferAssumption DEF Occupancy, c, Index
        <4>2. i - 1 \in 0 .. BufferSize - 1 /\ c + o \in 0 .. BufferSize - 1 /\ i - 1 < c + o
          BY <1>1, <3>1, BufferAssumption
        <4>3. k # Advance(readPos, c + o)
          BY <1>1, <4>2, AdvanceInjective
        <4> QED  BY <4>1, <4>3
      <3>4. Stored(data)[k] = buffer[k]
        BY <1>1, <3>2, <3>3, StoredBytes DEF n
      <3>5. (Contents \o data)[i] = Contents[i]
        BY <1>1, <1>3, <3>1 DEF n
      <3>6. Contents[i] = buffer[k]
        BY <3>1 DEF Contents, c
      <3> QED  BY <3>4, <3>5, <3>6
    <2>2. CASE i > c
      <3> DEFINE o == i - 1 - c
      <3>1. o \in 0 .. n - 1 /\ i - c = o + 1 /\ i - 1 = c + o
        BY <1>1, <2>2
      <3> HIDE DEF o
      <3>2. Advance(readPos, i - 1) = Advance(writePos, o)
        BY <1>1, <3>1, AdvanceTwice, BufferAssumption DEF Occupancy, c, Index
      <3>3. Stored(data)[Advance(writePos, o)] = data[o + 1]
        BY <1>1, <3>1, StoredBytes DEF n
      <3>4. (Contents \o data)[i] = data[i - c]
        BY <1>1, <1>3, <2>2 DEF n
      <3> QED  BY <3>1, <3>2, <3>3, <3>4
    <2>3. i <= c \/ i > c  BY <1>1
    <2> QED  BY <2>1, <2>2, <2>3
  <1> QED  BY <1>2, <1>5, <1>6

(* A read removes the oldest bytes from the contents and returns them. *)
LEMMA ReadTakes ==
  ASSUME TypeOK, NEW size \in Nat, Read(size)
  PROVE  /\ size <= Len(Contents)
         /\ readData' = SubSeq(Contents, 1, size)
         /\ Contents' = SubSeq(Contents, size + 1, Len(Contents))
  <1> DEFINE c == currentSize
  <1>1. /\ c \in 0 .. BufferSize /\ size \in 0 .. c /\ c - size \in Nat
        /\ readPos \in Int /\ currentSize >= size
    BY BufferAssumption DEF Read, TypeOK, Index
  <1>2. Contents \in Seq(Bytes) /\ Len(Contents) = c
    BY ContentsType
  <1>3. readData' = [i \in 1 .. size |-> buffer[Advance(readPos, i - 1)]]
    BY <1>1, FetchedBytes DEF Read
  <1>4. Contents' = [i \in 1 .. c - size |-> buffer[Advance(Advance(readPos, size), i - 1)]]
    BY DEF Read, Contents, Advance
  <1>5. \A i \in 1 .. c : Contents[i] = buffer[Advance(readPos, i - 1)]
    BY DEF Contents
  <1> HIDE DEF c
  <1>6. SubSeq(Contents, 1, size) = [i \in 1 .. size |-> Contents[i]]
    BY <1>1, <1>2
  <1>7. SubSeq(Contents, size + 1, c) = [i \in 1 .. c - size |-> Contents[size + i]]
    BY <1>1, <1>2
  <1>8. ASSUME NEW i \in 1 .. c - size
        PROVE  buffer[Advance(Advance(readPos, size), i - 1)] = Contents[size + i]
    <2>1. Advance(Advance(readPos, size), i - 1) = Advance(readPos, size + (i - 1))
      BY <1>1, AdvanceTwice
    <2>2. size + (i - 1) = (size + i) - 1 /\ size + i \in 1 .. c
      BY <1>1
    <2> QED  BY <2>1, <2>2, <1>5
  <1>9. \A i \in 1 .. size : i \in 1 .. c
    BY <1>1
  <1>10. size <= c
    BY <1>1
  <1> QED  BY <1>2, <1>3, <1>4, <1>5, <1>6, <1>7, <1>8, <1>9, <1>10

(* The ring implements the bounded byte stream: every Write and Read of the
   code is a Write or Read of ByteFifo on the ring's contents, wraps and the
   full and empty ring included. *)
THEOREM RingImplementsFifo == Spec => ImplementsFifo
  <1>1. Init => Fifo!Init
    <2> SUFFICES ASSUME Init PROVE Fifo!Init
      OBVIOUS
    <2>1. Contents = <<>>
      BY DEF Init, Contents
    <2> QED  BY <2>1 DEF Init, Fifo!Init
  <1>2. TypeOK /\ Occupancy /\ [Next]_vars => [Fifo!Next]_Fifo!vars
    <2> SUFFICES ASSUME TypeOK, Occupancy, [Next]_vars
                 PROVE  [Fifo!Next]_Fifo!vars
      OBVIOUS
    <2>1. /\ Contents \in Seq(Bytes) /\ Len(Contents) = currentSize
          /\ currentSize \in Nat /\ BufferSize \in Nat /\ Chunks = Fifo!Chunks
      BY ContentsType, BufferAssumption DEF TypeOK, Chunks, Fifo!Chunks
    <2>2. ASSUME NEW data \in Chunks, Write(data) PROVE Fifo!Write(data)
      <3>1. Len(data) \in Nat
        BY ChunkType
      <3>2. Len(Contents) + Len(data) <= BufferSize
        BY <2>1, <2>2, <3>1 DEF Write, HasSpace
      <3> QED  BY <2>2, <3>2, WriteAppends DEF Write, Fifo!Write
    <2>3. ASSUME NEW data \in Chunks, WriteRefused(data) PROVE Fifo!Write(data)
      <3>1. Len(data) \in Nat
        BY ChunkType
      <3>2. ~(Len(Contents) + Len(data) <= BufferSize)
        BY <2>1, <2>3, <3>1 DEF WriteRefused, HasSpace
      <3>3. Contents' = Contents
        BY <2>3 DEF WriteRefused, Contents, Advance
      <3>4. ret' = FALSE /\ (Len(Contents) + Len(data) <= BufferSize) = FALSE
        BY <2>3, <3>2 DEF WriteRefused
      <3> QED  BY <2>3, <3>3, <3>4, Zenon DEF WriteRefused, Fifo!Write
    <2>4. ASSUME NEW size \in 0 .. MaxLen, Read(size) PROVE Fifo!Read(size)
      <3>1. size \in Nat
        BY BufferAssumption
      <3> QED  BY <2>4, <3>1, ReadTakes DEF Read, Fifo!Read
    <2>5. ASSUME NEW size \in 0 .. MaxLen, ReadRefused(size) PROVE Fifo!Read(size)
      <3>1. size > Len(Contents)
        BY <2>1, <2>5, BufferAssumption DEF ReadRefused
      <3>2. Contents' = Contents
        BY <2>5 DEF ReadRefused, Contents, Advance
      <3> QED  BY <2>5, <3>1, <3>2 DEF ReadRefused, Fifo!Read
    <2>6. CASE UNCHANGED vars
      <3>1. Contents' = Contents
        BY <2>6 DEF vars, Contents, Advance
      <3> QED  BY <2>6, <3>1 DEF vars, Fifo!vars
    <2> QED  BY <2>1, <2>2, <2>3, <2>4, <2>5, <2>6 DEF Next, Fifo!Next
  <1> QED  BY <1>1, <1>2, TypeCorrect, OccupancyCorrect, PTL
           DEF Spec, ImplementsFifo, Fifo!Spec
=============================================================================
