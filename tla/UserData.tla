------------------------------ MODULE UserData ------------------------------
(***************************************************************************)
(* What the handlers of RedisManager hand out from MySQL: the rows of a    *)
(* user's table, decoded by MySQLManager, packed into the reply and, for   *)
(* an inventory, written to the user's hash in the Redis cluster.          *)
(*                                                                         *)
(* GetEquipment, GetConsumables and GetMaterials take the same steps and   *)
(* are one handler here, with a row for each position of the inventory,    *)
(* empty ones included; a row is its item code, its enhance or count goes  *)
(* with it.  Passes have rows of another length and no hash.  Game servers *)
(* change the rows at any time.  A version counts the changes of a row, so *)
(* that a value can be told from the same value later; the code has no     *)
(* such thing, and only the properties look at it.                         *)
(*                                                                         *)
(* A redis thread fetches row by row through the Result and Row that all   *)
(* threads share (MySQLManager is not made for more than one).             *)
(***************************************************************************)
EXTENDS Integers, Sequences, FiniteSets

CONSTANTS
  RedisThreads,  \* the threads that run handlers (main.cpp: one)
  Users,         \* pks
  Positions,     \* positions of an inventory: 1 .. Positions
  Codes,         \* what an item_code column holds: numbers and Unreadable
  Unreadable,    \* what std::stoi throws at
  Word,          \* numbers a uint16_t has (2^16)
  MaxPasses,     \* passes a user may have, numbered in the order of their rows
  FullPasses,    \* those whose 64 reward bits std::stoi cannot read
  InvenLen,      \* cells of an inventory's buffer (MAX_INVEN_SIZE + 1)
  PassLen,       \* cells of a pass buffer (MAX_PASS_SIZE + 1)
  MaxChanges     \* bound: changes of rows

Passes == 1 .. MaxPasses

(* main.cpp:4.  More than one would fetch each other's rows. *)
ASSUME OneRedisThread == \E t \in RedisThreads : RedisThreads = {t}
ASSUME DataAssumption ==
  /\ Users # {}
  /\ Positions \in Nat /\ Word \in Nat \ {0} /\ Unreadable \notin Int
  /\ Codes \subseteq Int \cup {Unreadable}
  /\ FullPasses \subseteq Passes
  /\ MaxPasses \in Nat /\ InvenLen \in Nat /\ PassLen \in Nat /\ MaxChanges \in Nat

VARIABLES
  table,         \* per user and position: a row, with the number of its changes
  passes,        \* per user: the number of passes
  changes,
  pc,            \* per thread: where it is
  ask,           \* per thread: whose rows of which kind it fetches
  result,        \* MySQLManager::Result, what is left to fetch
  records,       \* per thread: what the handler's vector holds
  hash,          \* per user and position: the field of the inventory's key
  asOf,          \* history, per thread: the rows when they were asked for
  reply          \* history: the last reply with data

mysql  == <<table, passes, changes>>
thread == <<pc, ask, records, asOf>>
vars   == <<mysql, thread, result, hash, reply>>

Kinds == {"inventory", "passes"}

Versions == 0 .. MaxChanges
NoField  == [code |-> 0, version |-> -1]
NoReply  == [ask |-> [user |-> CHOOSE u \in Users : TRUE, kind |-> "passes"],
             count |-> 0, payload |-> <<>>, asOf |-> <<>>]

Init ==
  /\ table \in [Users -> [1 .. Positions -> [code : Codes, version : {0}]]]
  /\ passes \in [Users -> 0 .. MaxPasses]
  /\ changes = 0
  /\ pc = [t \in RedisThreads |-> "idle"]
  /\ ask = [t \in RedisThreads |-> NoReply.ask]
  /\ result = <<>>
  /\ records = [t \in RedisThreads |-> <<>>]
  /\ hash = [u \in Users |-> [p \in 1 .. Positions |-> NoField]]
  /\ asOf = [t \in RedisThreads |-> <<>>]
  /\ reply = NoReply

Return(t) ==
  /\ pc' = [pc EXCEPT ![t] = "idle"]
  /\ asOf' = [asOf EXCEPT ![t] = <<>>]
  /\ UNCHANGED <<ask, records>>

-----------------------------------------------------------------------------
(* A game server changes a row. *)
Change(u, p, code) ==
  /\ changes < MaxChanges
  /\ code # table[u][p].code
  /\ changes' = changes + 1
  /\ table' = [table EXCEPT ![u][p] = [code |-> code, version |-> changes']]
  /\ UNCHANGED <<passes, thread, result, hash, reply>>

(* The rows of a query.  None of the SELECTs has an ORDER BY: that rows come in
   the order of their positions is an assumption about the tables, whose keys are
   declared nowhere in src/. *)
Rows(u, kind) ==
  IF kind = "passes" THEN [k \in 1 .. passes[u] |-> [pass |-> k]]
  ELSE [p \in 1 .. Positions |->
          [position |-> p, code |-> table[u][p].code, version |-> table[u][p].version]]

(* Mutant: the inventory's vector is a member that is not cleared. *)
VectorKept(t, kind) ==
  SelectSeq(records[t], LAMBDA r : kind = "inventory" /\ "position" \in DOMAIN r)

(* The handler's vector is made anew. *)
NewVector(t, kind) == <<>>

(* A handler starts with its query. *)
Query(t, u, kind) ==
  /\ pc[t] = "idle"
  /\ pc' = [pc EXCEPT ![t] = "fetch"]
  /\ ask' = [ask EXCEPT ![t] = [user |-> u, kind |-> kind]]
  /\ result' = Rows(u, kind)
  /\ asOf' = [asOf EXCEPT ![t] = Rows(u, kind)]
  /\ records' = [records EXCEPT ![t] = NewVector(t, kind)]
  /\ UNCHANGED <<mysql, hash, reply>>

(* (uint16_t)std::stoi(...) *)
Cast(code) == code % Word

(* Mutant: the column is compared with 0 before it is cast. *)
EmptyBeforeCast(row) == row.code = 0

Empty(row) == Cast(row.code) = 0

(* What is kept of a row of an inventory. *)
Item(row) == [row EXCEPT !.code = Cast(@)]

(* std::stoi can read what a row holds. *)
Readable(row) ==
  IF "pass" \in DOMAIN row THEN row.pass \notin FullPasses ELSE row.code # Unreadable

(* mysql_fetch_row gives the next row: an empty position is skipped. *)
Fetch(t) ==
  /\ pc[t] = "fetch" /\ result # <<>> /\ Readable(Head(result))
  /\ LET row == Head(result) IN
     \/ /\ "pass" \in DOMAIN row
        /\ records' = [records EXCEPT ![t] = Append(@, row)]
     \/ /\ "code" \in DOMAIN row
        /\ records' = IF Empty(row) THEN records
                      ELSE [records EXCEPT ![t] = Append(@, Item(row))]
  /\ result' = Tail(result)
  /\ UNCHANGED <<mysql, pc, ask, asOf, hash, reply>>

(* std::stoi throws, and the handler replies without data.  (A query that fails
   does the same, and changes nothing that is modelled.) *)
Throw(t) ==
  /\ pc[t] = "fetch" /\ result # <<>> /\ ~ Readable(Head(result))
  /\ result' = <<>>
  /\ Return(t)
  /\ UNCHANGED <<mysql, hash, reply>>

-----------------------------------------------------------------------------
(* A record is three cells: code, position and the rest; or id, bits, type. *)
RecordLen == 3

Cells(recs) ==
  [i \in 1 .. RecordLen * Len(recs) |->
     <<recs[(i - 1) \div RecordLen + 1], ((i - 1) % RecordLen) + 1>>]

(* Mutant: the buffer has the length of what is copied out of it. *)
BufferAsCopied(kind) == IF kind = "passes" THEN 1 ELSE InvenLen

(* The length of tempC. *)
Buffer(kind) == IF kind = "passes" THEN PassLen ELSE InvenLen

(* How much of tempC goes into the reply: of passes, MAX_PASS_ID_LEN + 1 bytes,
   which is one id, where the comment at RedisManager.cpp:381 speaks of the state
   of every pass and PassRewords has room for all of tempC.  No property below
   says what of several passes should arrive. *)
Copied(kind) == IF kind = "passes" THEN 1 ELSE InvenLen

(* The records are copied one behind the other; nothing bounds their number. *)
Pack(t) ==
  /\ pc[t] = "fetch" /\ result = <<>>
  /\ pc' = [pc EXCEPT ![t] =
               IF Len(Cells(records[t])) <= Buffer(ask[t].kind) THEN "packed" ELSE "undefined"]
  /\ UNCHANGED <<mysql, ask, records, asOf, result, hash, reply>>

(* pipe.hset for each item, in order: of two for one position the last stays. *)
Written(u, items) ==
  [hash EXCEPT ![u] = [p \in 1 .. Positions |->
     LET at == {k \in DOMAIN items : items[k].position = p} IN
     IF at = {} THEN @[p]
     ELSE LET last == items[CHOOSE k \in at : \A j \in at : j <= k]
          IN [code |-> last.code, version |-> last.version]]]

PushSendMsg(t) ==
  /\ Return(t)
  /\ reply' = [ask |-> ask[t], count |-> Len(records[t]),
               payload |-> LET all == Cells(records[t])
                           IN SubSeq(all, 1, IF Len(all) < Copied(ask[t].kind)
                                             THEN Len(all) ELSE Copied(ask[t].kind)),
               asOf |-> asOf[t]]
  /\ UNCHANGED <<mysql, result>>

Packed(t, kind) == pc[t] = "packed" /\ ask[t].kind = kind

(* Mutant: an error of exec is only logged. *)
ReplyWhateverExecDid(t) ==
  /\ Packed(t, "inventory")
  /\ \E n \in 0 .. Len(records[t]) : hash' = Written(ask[t].user, SubSeq(records[t], 1, n))
  /\ PushSendMsg(t)

(* pipe.exec succeeds. *)
ReplyInventory(t) ==
  /\ Packed(t, "inventory")
  /\ hash' = Written(ask[t].user, records[t])
  /\ PushSendMsg(t)

(* pipe.exec throws, some of the commands executed. *)
UploadFails(t) ==
  /\ Packed(t, "inventory")
  /\ \E n \in 0 .. Len(records[t]) : hash' = Written(ask[t].user, SubSeq(records[t], 1, n))
  /\ Return(t)
  /\ UNCHANGED <<mysql, result, reply>>

ReplyPasses(t) ==
  /\ Packed(t, "passes")
  /\ PushSendMsg(t)
  /\ UNCHANGED hash

HandlerStep(t) ==
  \/ \E u \in Users, kind \in Kinds : Query(t, u, kind)
  \/ Fetch(t) \/ Throw(t) \/ Pack(t)
  \/ ReplyInventory(t) \/ UploadFails(t) \/ ReplyPasses(t)

Next ==
  \/ \E t \in RedisThreads : HandlerStep(t)
  \/ \E u \in Users, p \in 1 .. Positions, code \in Codes : Change(u, p, code)

Spec == Init /\ [][Next]_vars

-----------------------------------------------------------------------------
ItemsOf(codes) == [position : 1 .. Positions, code : codes, version : Versions]
RowSeqs   == Seq(ItemsOf(Codes) \cup [pass : Passes])
RecordSeq == Seq(ItemsOf(1 .. Word - 1) \cup [pass : Passes])

(* The state has its shape; in particular a decoded item has a code that a
   uint16_t can hold and that is not 0, the code of an empty position. *)
TypeOK ==
  /\ table \in [Users -> [1 .. Positions -> [code : Codes, version : Versions]]]
  /\ passes \in [Users -> 0 .. MaxPasses]
  /\ changes \in Versions
  /\ pc \in [RedisThreads -> {"idle", "fetch", "packed", "undefined"}]
  /\ ask \in [RedisThreads -> [user : Users, kind : Kinds]]
  /\ result \in RowSeqs
  /\ asOf \in [RedisThreads -> RowSeqs]
  /\ records \in [RedisThreads -> RecordSeq]
  /\ hash \in [Users -> [1 .. Positions -> [code : 0 .. Word - 1, version : {-1} \cup Versions]]]
  /\ reply.ask \in [user : Users, kind : Kinds] /\ reply.count \in Nat

(* The positions that hold an item, among the rows of a query. *)
Held(rows) == {p \in DOMAIN rows : ~ Empty(rows[p])}

(* The items of these rows, each once, in the order of their positions. *)
IsInventory(items, rows) ==
  /\ Len(items) = Cardinality(Held(rows))
  /\ \A k \in DOMAIN items :
       /\ items[k].position \in Held(rows)
       /\ items[k] = Item(rows[items[k].position])
  /\ \A j, k \in DOMAIN items : j < k => items[j].position < items[k].position

(* A reply with data decodes to the items the user had at one moment, the moment
   of the query: all of them, intact, and nothing else, through the cast, the
   skipped rows, the packing and the cut at the end of the buffer
   (MySQLManager.cpp:231-240, RedisManager.cpp:203-237).  It needs the one redis
   thread of main.cpp. *)
ReplyIsOneSnapshot ==
  reply.ask.kind = "inventory" =>
    LET items == [k \in 1 .. reply.count |-> reply.payload[RecordLen * (k - 1) + 1][1]] IN
    /\ Len(reply.payload) = RecordLen * reply.count
    /\ reply.payload = Cells(items)
    /\ IsInventory(items, reply.asOf)

(* The heap is overrun only by a user with more than the buffer was made for. *)
OverrunOnlyByTooMany ==
  \A t \in RedisThreads :
    pc[t] = "undefined" =>
      LET n == IF ask[t].kind = "passes" THEN Len(asOf[t]) ELSE Cardinality(Held(asOf[t]))
      IN n * RecordLen > IF ask[t].kind = "passes" THEN PassLen ELSE InvenLen

(* A client that was shown an item finds it, or something newer, in the hash
   the game server reads, whatever uploads fail afterwards
   (RedisManager.cpp:209-239). *)
HashNotBehindReply ==
  reply.ask.kind = "inventory" =>
    \A p \in Held(reply.asOf) :
      LET item == Item(reply.asOf[p])
          field == hash[reply.ask.user][p]
      IN field.version > item.version \/ field = [code |-> item.code, version |-> item.version]

(* No upload, complete or not, replaces a field by an older value of the row. *)
HashNeverGoesBack ==
  [][\A u \in Users, p \in 1 .. Positions :
       hash'[u][p].version >= hash[u][p].version]_vars
=============================================================================
