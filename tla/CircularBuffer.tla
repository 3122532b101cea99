--------------------------- MODULE CircularBuffer ---------------------------
(***************************************************************************)
(* CircularBuffer (CircularBuffer.h, CircularBuffer.cpp): the ring in      *)
(* which a connection's received bytes wait for the redis thread.  Write   *)
(* and Read hold bufferMutex from their first statement to their last, so  *)
(* each is one step.                                                       *)
(***************************************************************************)
EXTENDS Integers, Sequences

CONSTANTS
  Bytes,       \* values of a byte
  BufferSize,  \* MAX_CIRCLE_SIZE
  MaxLen       \* bound: bytes of one call (MAX_RECV_SIZE in the code)

ASSUME BufferAssumption ==
  /\ BufferSize \in Nat /\ BufferSize > 0
  /\ MaxLen \in Nat

VARIABLES
  buffer,       \* the char array
  writePos,
  readPos,
  currentSize,
  readData,     \* what the caller's array holds after Read
  ret           \* what the last call returned

vars == <<buffer, writePos, readPos, currentSize, readData, ret>>

Index  == 0 .. BufferSize - 1
Chunks == UNION {[1 .. n -> Bytes] : n \in 0 .. MaxLen}

(* The array comes from new char[]: its first contents are arbitrary. *)
Init ==
  /\ buffer \in [Index -> Bytes]
  /\ writePos = 0
  /\ readPos = 0
  /\ currentSize = 0
  /\ readData = <<>>
  /\ ret = TRUE

-----------------------------------------------------------------------------
(* Bugs a change to this code could plausibly introduce. *)

AdvanceNoWrap(pos, n)    == pos + n
AdvanceToStart(pos, n)   == IF pos + n >= BufferSize THEN 0 ELSE pos + n
HasSpaceIgnoringUsed(n)  == BufferSize >= n

-----------------------------------------------------------------------------
(* A position moves round the ring. *)
Advance(pos, n) == (pos + n) % BufferSize

HasSpace(n) == BufferSize - currentSize >= n

(* memcpy(buf + at, data, ...) *)
Memcpy(buf, at, data) ==
  [k \in DOMAIN buf |->
     IF k \in at .. at + Len(data) - 1 THEN data[k - at + 1] ELSE buf[k]]

(* The array once data is stored at writePos: one copy, or two when the end
   of the array comes first. *)
Stored(data) ==
  LET endSpace == BufferSize - writePos
  IN  IF endSpace >= Len(data)
      THEN Memcpy(buffer, writePos, data)
      ELSE Memcpy(Memcpy(buffer, writePos, SubSeq(data, 1, endSpace)),
                  0, SubSeq(data, endSpace + 1, Len(data)))

(* n bytes of the array from position at. *)
Slice(at, n) == [i \in 1 .. n |-> buffer[at + i - 1]]

(* The bytes a read of the given size copies out. *)
Fetched(size) ==
  LET endSpace == BufferSize - readPos
  IN  IF endSpace >= size
      THEN Slice(readPos, size)
      ELSE Slice(readPos, endSpace) \o Slice(0, size - endSpace)

Write(data) ==
  /\ HasSpace(Len(data))
  /\ buffer' = Stored(data)
  /\ writePos' = Advance(writePos, Len(data))
  /\ currentSize' = currentSize + Len(data)
  /\ ret' = TRUE
  /\ UNCHANGED <<readPos, readData>>

WriteRefused(data) ==
  /\ ~HasSpace(Len(data))
  /\ ret' = FALSE
  /\ UNCHANGED <<buffer, writePos, readPos, currentSize, readData>>

Read(size) ==
  /\ currentSize >= size
  /\ readData' = Fetched(size)
  /\ readPos' = Advance(readPos, size)
  /\ currentSize' = currentSize - size
  /\ ret' = TRUE
  /\ UNCHANGED <<buffer, writePos>>

ReadRefused(size) ==
  /\ currentSize < size
  /\ ret' = FALSE
  /\ UNCHANGED <<buffer, writePos, readPos, currentSize, readData>>

Next ==
  \/ \E data \in Chunks : Write(data) \/ WriteRefused(data)
  \/ \E size \in 0 .. MaxLen : Read(size) \/ ReadRefused(size)

Spec == Init /\ [][Next]_vars

-----------------------------------------------------------------------------
(* Positions stay inside the array and the size inside the capacity, so no
   memcpy leaves the allocation. *)
TypeOK ==
  /\ buffer \in [Index -> Bytes]
  /\ writePos \in Index
  /\ readPos \in Index
  /\ currentSize \in 0 .. BufferSize
  /\ readData \in Seq(Bytes)
  /\ ret \in BOOLEAN

(* The three counters agree: the write position is always currentSize bytes
   after the read position, also after a wrap and when the ring is full or
   empty, where the two positions coincide (CircularBuffer.cpp:23, 47). *)
Occupancy == writePos = Advance(readPos, currentSize)

(* The bytes in the ring, oldest first. *)
Contents == [i \in 1 .. currentSize |-> buffer[Advance(readPos, i - 1)]]

(* The ring behaves as the bounded byte stream its users rely on: bytes come
   out once, in order and unchanged, whatever was in the array before
   (CircularBuffer.cpp:5-51). *)
Fifo == INSTANCE ByteFifo WITH fifo <- Contents, Capacity <- BufferSize
ImplementsFifo == Fifo!Spec
=============================================================================
