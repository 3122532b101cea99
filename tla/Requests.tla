------------------------------ MODULE Requests ------------------------------
(***************************************************************************)
(* How the requests of clients are handled: RedisManager with the receive  *)
(* buffer and the userPk of each ConnUser, from a completed receive to the *)
(* reply a handler pushes.                                                 *)
(*                                                                         *)
(* A worker writes the received bytes to the slot's ring and queues their  *)
(* number and the slot (PushRedisPacket).  The redis thread (main.cpp asks *)
(* for one) takes the pair, reads as many bytes from the slot's ring, and  *)
(* calls the handler that the header at their start names.  Slots outlive  *)
(* connections: Reset closes the socket and leaves ring, userPk and        *)
(* procSktQueue alone, and a completed receive outlives its socket.        *)
(*                                                                         *)
(* Bytes are cells: a request is its header cell followed by the cells of  *)
(* its body.  TCP may deliver several requests at once and may cut one in  *)
(* two.  Requests are numbered in the order they are sent, connections in  *)
(* the order they are made.                                                *)
(*                                                                         *)
(* A pass of the redis thread through its loop is one step.  Only this     *)
(* thread reads rings and userPks, and writers only append behind what it  *)
(* will read: a reset, a new client or a receive that comes between two of *)
(* its accesses leads where it leads when it comes before the pass.  For   *)
(* the same reason a receive is in the ring when it completes: what waits  *)
(* in the completion port might as well wait in procSktQueue.              *)
(***************************************************************************)
EXTENDS Integers, Sequences, FiniteSets

CONSTANTS
  Slots,         \* the client slots
  Users,         \* the accounts in MySQL; a user stands for its pk as well
  Stranger,      \* a name without an account
  NoUser,        \* pk 0
  FirstPks,      \* what the uninitialised userPk of a new ConnUser may hold
  RingSize,      \* cells a ring holds (MAX_CIRCLE_SIZE)
  Window,        \* requests of a connection that wait for an answer, or get none
  Asked,         \* the kinds of requests clients send
  MaxConns,      \* bound: connections
  MaxRequests    \* bound: requests

(* packetIDTable, by what the handlers do here: GetEquipment, GetConsumables,
   GetMaterials and GetPassRewordInfos take the same steps (module UserData
   has what they send), and ImLoginResponse replies nothing.  A client may
   send any packetId: OTHER stands for those without a handler, as 811. *)
Replying == {"USERINFO", "USERDATA", "GAMESTART"}
Handlers == Replying \cup {"LOGINRESPONSE"}
Kinds    == Handlers \cup {"OTHER"}

Pks   == Users \cup {NoUser}
Names == Users \cup {Stranger}
Conns == 1 .. MaxConns
Reqs  == 1 .. MaxRequests

ASSUME NamesAssumption ==
  Stranger \notin Pks /\ NoUser \notin Users /\ FirstPks \subseteq Pks
ASSUME NumbersAssumption ==
  /\ RingSize \in Nat /\ Window \in Nat /\ Asked \subseteq Kinds
  /\ MaxConns \in Nat /\ MaxRequests \in Nat

VARIABLES
  conn,          \* per slot: number of its connection, 0 when it has none
  owner,         \* per connection made: the name its client logs in with
  requests,      \* the requests sent: connection, slot and kind of each
  stream,        \* per slot: cells its client sent that no receive took yet
  ring,          \* per slot: circularBuffer
  userPk,        \* per slot
  procSktQueue,  \* what PushRedisPacket queued, oldest first
  undefined,     \* the redis thread has used what it does not have
  uploaded,      \* pks whose userinfo key was written to the Redis cluster
  replies,       \* history: replies in the order they were pushed
  dropped,       \* history: requests read behind another, and not looked at
  torn           \* history: slots where a request was cut or found no room

client == <<conn, owner, requests, stream>>
vars   == <<client, ring, userPk, procSktQueue, undefined, uploaded, replies, dropped, torn>>

(* Requests with a user's name, and packet 802, are longer than a header. *)
Cells(r, kind) ==
  IF kind \in {"USERINFO", "GAMESTART", "LOGINRESPONSE"}
  THEN << <<r, "header">>, <<r, "body">> >>
  ELSE << <<r, "header">> >>

(* A reply with data of the user pk, and the reply of the error paths. *)
Data(pk) == [ok |-> TRUE, pk |-> pk]
Error    == [ok |-> FALSE, pk |-> NoUser]

Init ==
  /\ conn = [s \in Slots |-> 0]
  /\ owner = <<>>
  /\ requests = <<>>
  /\ stream = [s \in Slots |-> <<>>]
  /\ ring = [s \in Slots |-> <<>>]
  /\ userPk \in [Slots -> FirstPks]
  /\ procSktQueue = <<>>
  /\ undefined = FALSE
  /\ uploaded = {}
  /\ replies = <<>>
  /\ dropped = {}
  /\ torn = {}

-----------------------------------------------------------------------------
(* Clients *)

Connect(s, name) ==
  /\ conn[s] = 0
  /\ Len(owner) < MaxConns
  /\ owner' = Append(owner, name)
  /\ conn' = [conn EXCEPT ![s] = Len(owner) + 1]
  /\ UNCHANGED <<requests, stream, ring, userPk, procSktQueue, undefined, uploaded, replies, dropped, torn>>

(* A client counts the replies it gets; it cannot tell for whom they were. *)
Unanswered(k) ==
  Cardinality({r \in DOMAIN requests : requests[r].conn = k})
    - Cardinality({i \in DOMAIN replies : replies[i].to = k})

Send(s, kind) ==
  /\ conn[s] # 0
  /\ Len(requests) < MaxRequests
  /\ Unanswered(conn[s]) < Window
  /\ requests' = Append(requests, [conn |-> conn[s], slot |-> s, kind |-> kind])
  /\ stream' = [stream EXCEPT ![s] = @ \o Cells(Len(requests) + 1, kind)]
  /\ UNCHANGED <<conn, owner, ring, userPk, procSktQueue, undefined, uploaded, replies, dropped, torn>>

-----------------------------------------------------------------------------
(* WorkThread *)

(* A receive completes with the first n cells that are on the way, and
   PushRedisPacket takes them.  Whether Write had room is not looked at. *)
PushRedisPacket(s, n) ==
  /\ n <= Len(stream[s])
  /\ LET cells == SubSeq(stream[s], 1, n)
         rest  == SubSeq(stream[s], n + 1, Len(stream[s]))
         fits  == Len(ring[s]) + n <= RingSize
         cut   == rest # <<>> /\ Head(rest)[2] = "body"
     IN /\ stream' = [stream EXCEPT ![s] = rest]
        /\ ring' = IF fits THEN [ring EXCEPT ![s] = @ \o cells] ELSE ring
        /\ torn' = IF fits /\ ~ cut THEN torn ELSE torn \cup {s}
  /\ procSktQueue' = Append(procSktQueue, [slot |-> s, size |-> n])
  /\ UNCHANGED <<conn, owner, requests, userPk, undefined, uploaded, replies, dropped>>

(* Mutant: the reset empties the ring, and not procSktQueue. *)
RingEmptied(s) == <<>>

(* What ConnUser::Reset leaves in a slot's ring: everything. *)
RingAfterReset(s) == ring[s]

(* A failed or empty completion for the slot.  What no receive has taken is
   gone; if that is the rest of a request, the slot has it cut already. *)
Reset(s) ==
  /\ conn[s] # 0
  /\ conn' = [conn EXCEPT ![s] = 0]
  /\ stream' = [stream EXCEPT ![s] = <<>>]
  /\ ring' = [ring EXCEPT ![s] = RingAfterReset(s)]
  /\ UNCHANGED <<owner, requests, userPk, procSktQueue, undefined, uploaded, replies, dropped, torn>>

-----------------------------------------------------------------------------
(* RedisThread *)

(* The DataPacket that is popped, and the request at the front of its slot. *)
Job == Head(procSktQueue)
Cur == Head(ring[Job.slot])[1]

(* Mutant: one byte of what was announced stays in the ring. *)
OneCellLeft(cells, n) == SubSeq(cells, n, Len(cells))

(* What CircularBuffer::Read leaves of the ring. *)
AfterRead(cells, n) == SubSeq(cells, n + 1, Len(cells))

(* Read gives the bytes, and they start with a header. *)
Readable ==
  /\ Job.size <= Len(ring[Job.slot])
  /\ Head(ring[Job.slot])[2] = "header"

(* The table has a function for the packetId at the front. *)
HasHandler == requests[Cur].kind \in Handlers

(* The requests that begin in the first n cells at place b + 1 of a ring, but
   for the one that begins there. *)
JoinedBehind(cells, b, n) ==
  {cells[b + i][1] : i \in {i \in 2 .. n : cells[b + i][2] = "header"}}

(* ReadRecvData, and the handler looked up by the packetId it found.  Nobody
   looks at the requests behind the first. *)
Taken(kind) ==
  /\ ~ undefined
  /\ procSktQueue # <<>>
  /\ Readable
  /\ requests[Cur].kind = kind
  /\ procSktQueue' = Tail(procSktQueue)
  /\ ring' = [ring EXCEPT ![Job.slot] = AfterRead(@, Job.size)]
  /\ dropped' = dropped \cup JoinedBehind(ring[Job.slot], 0, Job.size)
  /\ UNCHANGED <<client, undefined, torn>>

(* If the ring holds too little ReadRecvData ends without a return; if it does
   not start with a header, some other bytes are taken for a packetId and the
   table has no function for it; nor has it one for the packetId of a whole
   request that is none of its own. *)
TakenUndefined ==
  /\ ~ undefined
  /\ procSktQueue # <<>>
  /\ ~ (Readable /\ HasHandler)
  /\ undefined' = TRUE
  /\ UNCHANGED <<client, ring, userPk, procSktQueue, uploaded, replies, dropped, torn>>

(* Mutant: a reply for a slot without a client is not even made. *)
OnlyToClients(reply) == IF reply.to = 0 THEN replies ELSE Append(replies, reply)

Pushed(reply) == Append(replies, reply)

(* The handlers that reply end with PushSendMsg to whoever has the slot by then. *)
PushSendMsg(result) ==
  replies' = Pushed([req |-> Cur, slot |-> Job.slot, to |-> conn[Job.slot], res |-> result])

(* Mutant: a row is taken for granted. *)
PkTakenForGranted(name) == name

(* GetUserInfoById succeeds for a name without a row, with pk 0. *)
PkOf(name) == IF name \in Users THEN name ELSE NoUser

(* The name in the request; if its body was cut off, what readData holds from
   earlier requests. *)
NamesRead == IF Job.size = 1 THEN Names ELSE {owner[requests[Cur].conn]}

(* Mutant: the pk is set as soon as MySQL has given it. *)
GetUserInfoSettingPkFirst ==
  /\ Taken("USERINFO")
  /\ \E name \in NamesRead : LET pk == PkOf(name) IN
     \/ PushSendMsg(Error) /\ UNCHANGED <<userPk, uploaded>>
     \/ /\ userPk' = [userPk EXCEPT ![Job.slot] = pk]
        /\ \/ PushSendMsg(Error) /\ uploaded' \in {uploaded, uploaded \cup {pk}}
           \/ PushSendMsg(Data(pk)) /\ uploaded' = uploaded \cup {pk}

(* GetUserInfo: MySQL fails; the pipeline fails, its commands executed or
   not; or both succeed and the slot is the user's from now on. *)
GetUserInfo ==
  /\ Taken("USERINFO")
  /\ \E name \in NamesRead : LET pk == PkOf(name) IN
     \/ PushSendMsg(Error) /\ UNCHANGED <<userPk, uploaded>>
     \/ PushSendMsg(Error) /\ uploaded' = uploaded \cup {pk} /\ UNCHANGED userPk
     \/ /\ PushSendMsg(Data(pk))
        /\ uploaded' = uploaded \cup {pk}
        /\ userPk' = [userPk EXCEPT ![Job.slot] = pk]

(* The other handlers: the data is that of the slot's userPk, or an error of
   what they call is reported. *)
Serve(kind) ==
  /\ Taken(kind)
  /\ PushSendMsg(Data(userPk[Job.slot])) \/ PushSendMsg(Error)
  /\ UNCHANGED <<userPk, uploaded>>

GetUserData == Serve("USERDATA")    \* MySQL, and Redis for the inventory
GameStart   == Serve("GAMESTART")   \* the token, then Redis

(* Nothing but output depends on the answer of the login server. *)
ImLoginResponse ==
  /\ Taken("LOGINRESPONSE")
  /\ UNCHANGED <<userPk, uploaded, replies>>

RedisStep == GetUserInfo \/ GetUserData \/ GameStart \/ ImLoginResponse \/ TakenUndefined

Next ==
  \/ \E s \in Slots :
       \/ \E name \in Names : Connect(s, name)
       \/ \E kind \in Asked : Send(s, kind)
       \/ \E n \in 1 .. 2 * Window : PushRedisPacket(s, n)
       \/ Reset(s)
  \/ RedisStep

Spec == Init /\ [][Next]_vars

(* The redis thread never stops looping.  Nothing is assumed of the clients or
   the network. *)
FairSpec == Spec /\ WF_vars(RedisStep)

-----------------------------------------------------------------------------
Results == [ok : BOOLEAN, pk : Pks]
CellSet == Reqs \X {"header", "body"}

(* The state has its shape; in particular a slot's userPk is the pk of an
   account or 0 (MySQLManager.cpp:188, RedisManager.cpp:172). *)
TypeOK ==
  /\ conn \in [Slots -> 0 .. MaxConns]
  /\ owner \in Seq(Names)
  /\ requests \in Seq([conn : Conns, slot : Slots, kind : Kinds])
  /\ stream \in [Slots -> Seq(CellSet)]
  /\ ring \in [Slots -> Seq(CellSet)]
  /\ userPk \in [Slots -> Pks]
  /\ procSktQueue \in Seq([slot : Slots, size : Nat \ {0}])
  /\ undefined \in BOOLEAN
  /\ uploaded \subseteq Pks
  /\ replies \in Seq([req : Reqs, slot : Slots, to : 0 .. MaxConns, res : Results])
  /\ dropped \subseteq Reqs
  /\ torn \subseteq Slots

(* The cells queued for slot s ahead of the k-th DataPacket of queue q, each
   by its DataPacket and its place there. *)
Ahead(q, k, s) ==
  UNION {{j} \X (1 .. q[j].size) : j \in {j \in 1 .. k - 1 : q[j].slot = s}}

Before(k, s) == Cardinality(Ahead(procSktQueue, k, s))

(* The ring of a slot (written by workers, read by the redis thread, kept
   across connections) and the sizes queued for it in procSktQueue agree: the
   sizes cut the ring without remainder, each piece starting with a header.
   It takes a request cut in two, or one the ring had no room for, to end that
   (ConnUser.h:62-76, RedisManager.cpp:71-76). *)
Framing ==
  \A s \in Slots \ torn :
    /\ Before(Len(procSktQueue) + 1, s) = Len(ring[s])
    /\ \A k \in DOMAIN procSktQueue :
         procSktQueue[k].slot = s => ring[s][Before(k, s) + 1][2] = "header"

(* What stops the redis thread (ReadRecvData without a result, a null function
   of the table) is the packet it has popped and nothing else: on a slot where
   every request was whole and found room, a request whose own packetId has no
   handler.  Neither resets nor clients that follow each other on a slot make it
   take other bytes for a header (ConnUser.h:65, RedisManager.cpp:103-104). *)
HandlersDefined == undefined => Job.slot \in torn \/ (Readable /\ ~ HasHandler)

(* No request is answered twice, and those of one slot, even of successive
   clients, are answered in the order they were sent, whatever the worker,
   the redis thread and the resets do in between. *)
AnsweredInOrder ==
  \A i, j \in DOMAIN replies :
    i < j /\ replies[i].slot = replies[j].slot => replies[i].req < replies[j].req

Logins(s, before) ==
  {j \in 1 .. before - 1 :
     /\ replies[j].slot = s
     /\ requests[replies[j].req].kind = "USERINFO"
     /\ replies[j].res.ok}

(* Once a login on a slot has succeeded, the data and tokens handed out there
   are those of the latest login whose reply reported success, and the userinfo
   of that user is in the Redis cluster: a login that failed half-way leaves
   the session as it was (RedisManager.cpp:141-172). *)
ServedAsLastLogin ==
  \A i \in DOMAIN replies :
    LET logins == Logins(replies[i].slot, i) IN
    replies[i].res.ok /\ logins # {}
        /\ requests[replies[i].req].kind # "USERINFO" =>
      LET last == CHOOSE j \in logins : \A k \in logins : k <= j IN
      /\ replies[i].res.pk = replies[last].res.pk
      /\ replies[i].res.pk \in uploaded

(* The packets the redis thread will come to: how the table treats the request
   each begins with, and the requests behind that one. *)
HandlerOf(r) ==
  IF requests[r].kind \in Replying THEN "replies"
  ELSE IF requests[r].kind \in Handlers THEN "silent" ELSE "none"

Arrived(cells, b, n) ==
  LET r == cells[b + 1][1]
  IN [first |-> r, handler |-> HandlerOf(r), behind |-> JoinedBehind(cells, b, n)]

Inbox ==
  [k \in DOMAIN procSktQueue |->
     LET s == procSktQueue[k].slot
     IN Arrived(ring[s], Before(k, s), procSktQueue[k].size)]

Service == INSTANCE RequestService
  WITH inbox    <- IF torn = {} THEN Inbox ELSE <<>>,
       answered <- IF torn = {} THEN [i \in DOMAIN replies |-> replies[i].req] ELSE <<>>,
       dropped  <- IF torn = {} THEN dropped ELSE {},
       halted   <- IF torn = {} THEN undefined ELSE FALSE,
       broken   <- torn # {}

(* As long as no request is cut or refused, the server is a queue of packets:
   they are served in the order they came, whoever comes and goes on their
   slots, the first request of each with the one reply of its handler (none for
   packet 802); the requests behind it are dropped, and no others; and all of
   them come up in the end, but behind a request without a handler, which
   halts the server (RedisManager.cpp:71-110). *)
ImplementsService == Service!FairSpec

(* "Reset ConnUser" (LoginServer.cpp:225): a connection starts with a slot that
   holds nothing of the one before, so (but on a slot where a request was cut)
   replies carry a user's data only to connections on which that user's login
   succeeded. *)
OwnDataOnly ==
  \A i \in DOMAIN replies :
    /\ replies[i].slot \notin torn
    /\ replies[i].to # 0 /\ replies[i].res.ok /\ replies[i].res.pk \in Users
    =>
      \E j \in 1 .. i :
        /\ replies[j].to = replies[i].to /\ replies[j].res = replies[i].res
        /\ requests[replies[j].req].kind = "USERINFO"
        /\ requests[replies[j].req].conn = replies[i].to
=============================================================================
