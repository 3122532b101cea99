------------------------------ MODULE ByteFifo ------------------------------
(***************************************************************************)
(* What a connection's receive buffer promises its two users: a bounded    *)
(* first-in first-out stream of bytes.  A write is taken whole or refused  *)
(* whole; a read returns the oldest bytes or, if there are too few, fails  *)
(* and leaves everything as it was.  RedisManager::PushRedisPacket writes  *)
(* and RedisManager::RedisThread reads.                                    *)
(***************************************************************************)
EXTENDS Integers, Sequences

CONSTANTS
  Bytes,     \* values of a byte
  Capacity,  \* bytes the stream holds at most
  MaxLen     \* bytes of one call at most

VARIABLES
  fifo,      \* the bytes written and not yet read, oldest first
  readData,  \* what the last successful read returned
  ret        \* what the last call returned

vars == <<fifo, readData, ret>>

Chunks == UNION {[1 .. n -> Bytes] : n \in 0 .. MaxLen}

Init ==
  /\ fifo = <<>>
  /\ readData = <<>>
  /\ ret = TRUE

Write(data) ==
  /\ ret' = (Len(fifo) + Len(data) <= Capacity)
  /\ fifo' = IF ret' THEN fifo \o data ELSE fifo
  /\ UNCHANGED readData

Read(size) ==
  \/ /\ size <= Len(fifo)
     /\ readData' = SubSeq(fifo, 1, size)
     /\ fifo' = SubSeq(fifo, size + 1, Len(fifo))
     /\ ret' = TRUE
  \/ /\ size > Len(fifo)
     /\ ret' = FALSE
     /\ UNCHANGED <<fifo, readData>>

Next ==
  \/ \E data \in Chunks : Write(data)
  \/ \E size \in 0 .. MaxLen : Read(size)

Spec == Init /\ [][Next]_vars
=============================================================================
