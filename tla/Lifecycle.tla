------------------------------ MODULE Lifecycle ------------------------------
(***************************************************************************)
(* From main to the end of ServerEnd: the objects and threads of the login *)
(* server, in the order in which LoginServer::StartWork and                *)
(* RedisManager::init make them and ServerEnd and ~RedisManager end them,  *)
(* and the threads that use them meanwhile.                                *)
(*                                                                         *)
(* Threads run as soon as they are made.  Clients that connect while       *)
(* StartWork is not through are served by threads whose objects may not be *)
(* there yet: the use of a null, unset or deleted pointer, and an          *)
(* exception nobody catches, make the server `crashed', and there the      *)
(* model ends.                                                             *)
(*                                                                         *)
(* The connection of a slot is coarse here (ConnSlots has the details).  A *)
(* thread's step is what it does between two looks at its run flag or at a *)
(* queue.                                                                  *)
(***************************************************************************)
EXTENDS Integers, Sequences, FiniteSets

CONSTANTS
  MaxThreadCnt,      \* worker threads, and redis threads (main.cpp: 1)
  MaxUsersObject,    \* slots (MAX_USERS_OBJECT)
  MaxArrivals,       \* bound: clients that connect
  MaxData            \* bound: receives that complete with data

ASSUME CountsAssumption ==
  /\ MaxThreadCnt \in Nat \ {0} /\ MaxUsersObject \in Nat \ {0}
  /\ MaxArrivals \in Nat /\ MaxData \in Nat

Slots  == 0 .. MaxUsersObject - 1
Center == 0

AccepterCnt == (MaxThreadCnt \div 4) + 1

First(kind, n) == {kind} \X (1 .. n)
Workers      == First("worker", MaxThreadCnt)
Accepters    == First("accepter", AccepterCnt)
RedisThreads == First("redis", MaxThreadCnt)
Threads      == Workers \cup Accepters \cup RedisThreads

Packets    == [type : {"ACCEPT", "RECV", "SEND", "LOST"}, slot : Slots]
NullPacket == [type |-> "NULL", slot |-> Center]

(* Where the main thread can be, in the order of the code. *)
Starting == {"init", "CreateWorkThread", "CreateAccepterThread", "new managers",
             "push", "insert", "RedisRun", "new MySQLManager", "SetRankingInRedis",
             "SetManager", "CenterServerConnect"}
Ending   == {"ServerEnd", "post", "join workThreads", "delete redisManager",
             "join redisThreads", "delete connUsersManager"}

VARIABLES
  main,          \* where the main thread is
  next,          \* the slot StartWork makes next
  inited,        \* how far LoginServer::init got
  pc, job,       \* per thread: where it is; per redis thread: the slot it serves
  workThreads,   \* the threads in LoginServer's vector
  workRun, accepterRun, redisRun,
  users, table,  \* connUsersManager, and the slots inserted in it
  redisManager,
  managerSet,    \* SetManager was called
  redis,         \* RedisManager::redis is not null
  mySQL,         \* RedisManager::mySQLManager
  port,          \* packets in the completion port, oldest first
  acceptQueue, procSktQueue,
  link,          \* per slot: its socket
  arrivals, data,
  crashed,
  blame          \* history: failures and early clients the code has no answer to

flags   == <<workRun, accepterRun, redisRun>>
objects == <<inited, users, table, redisManager, managerSet, redis, mySQL>>
queues  == <<port, acceptQueue, procSktQueue>>
threads == <<pc, job, workThreads>>
world   == <<link, arrivals, data>>
vars    == <<main, next, threads, flags, objects, queues, world, crashed, blame>>

Init ==
  /\ main = "init" /\ next = 1 /\ inited = "nothing"
  /\ pc = [t \in Threads |-> "none"]
  /\ job = [t \in RedisThreads |-> Center]
  /\ workThreads = {}
  /\ workRun = FALSE /\ accepterRun = FALSE /\ redisRun = FALSE
  /\ users = "unset" /\ table = {} /\ redisManager = "unset"
  /\ managerSet = FALSE /\ redis = FALSE /\ mySQL = "unset"
  /\ port = <<>> /\ acceptQueue = {} /\ procSktQueue = <<>>
  /\ link = [s \in Slots |-> "idle"]
  /\ arrivals = 0 /\ data = 0
  /\ crashed = FALSE /\ blame = {}

At(where) == main = where /\ ~ crashed

Go(from, to) == At(from) /\ main' = to

Blame(what) == blame' = blame \cup {what}

(* The threads of a set that were made start their loops. *)
Run(made) == pc' = [t \in Threads |-> IF t \in made THEN "loop" ELSE pc[t]]

Crash ==
  /\ crashed' = TRUE
  /\ UNCHANGED <<main, next, threads, flags, objects, queues, world>>

-----------------------------------------------------------------------------
(* main, LoginServer::init and StartWork.  main looks at no result. *)

(* Everything before the port fails, binding the listening socket to it does
   (then the pool is not made and no accept is ever reported), or all is well. *)
InitServer ==
  /\ Go("init", "CreateWorkThread")
  /\ \/ inited' = "all" /\ UNCHANGED blame
     \/ inited' \in {"nothing", "port"} /\ Blame("init")
  /\ UNCHANGED <<next, threads, flags, users, table, redisManager, managerSet, redis,
                 mySQL, queues, world, crashed>>

(* Making threads may end early with an exception, which is caught and makes
   StartWork return false. *)
MakeThreads(kind, cnt, to) ==
  \E n \in 0 .. cnt :
    /\ Run(First(kind, n))
    /\ workThreads' = workThreads \cup First(kind, n)
    /\ IF n = cnt THEN main' = to /\ UNCHANGED blame
                  ELSE main' = "running" /\ Blame("threads")

CreateWorkThread ==
  /\ At("CreateWorkThread")
  /\ workRun' = TRUE
  /\ MakeThreads("worker", MaxThreadCnt, "CreateAccepterThread")
  /\ UNCHANGED <<next, job, accepterRun, redisRun, objects, queues, world, crashed>>

CreateAccepterThread ==
  /\ At("CreateAccepterThread")
  /\ accepterRun' = TRUE
  /\ MakeThreads("accepter", AccepterCnt, "new managers")
  /\ UNCHANGED <<next, job, workRun, redisRun, objects, queues, world, crashed>>

(* Mutant: the loop includes MAX_USERS_OBJECT. *)
ToMakeInclusive(s) == s <= MaxUsersObject

ToMake(s) == s < MaxUsersObject

(* Both managers, and the centre server's slot. *)
NewManagers ==
  /\ At("new managers")
  /\ main' = IF ToMake(1) THEN "push" ELSE "RedisRun"
  /\ users' = "made" /\ redisManager' = "made" /\ table' = {Center}
  /\ UNCHANGED <<next, threads, flags, inited, managerSet, redis, mySQL, queues,
                 world, crashed, blame>>

PushSlot ==
  /\ Go("push", "insert")
  /\ acceptQueue' = acceptQueue \cup {next}
  /\ UNCHANGED <<next, threads, flags, objects, port, procSktQueue, world, crashed, blame>>

InsertUser ==
  /\ At("insert")
  /\ table' = table \cup {next}
  /\ next' = next + 1
  /\ main' = IF ToMake(next') THEN "push" ELSE "RedisRun"
  /\ UNCHANGED <<threads, flags, inited, users, redisManager, managerSet, redis,
                 mySQL, queues, world, crashed, blame>>

-----------------------------------------------------------------------------
(* RedisManager::init and what follows it *)

(* The cluster answers and the redis threads run, some or all of them; or it
   does not, and redis stays null. *)
RedisRun ==
  /\ Go("RedisRun", "new MySQLManager")
  /\ \/ /\ redis' = TRUE
        /\ redisRun' = TRUE
        /\ \E n \in 0 .. MaxThreadCnt :
             /\ Run(First("redis", n))
             /\ IF n = MaxThreadCnt THEN UNCHANGED blame ELSE Blame("threads")
     \/ Blame("Redis") /\ UNCHANGED <<redis, redisRun, pc>>
  /\ UNCHANGED <<next, job, workThreads, workRun, accepterRun, inited, users, table,
                 redisManager, managerSet, mySQL, queues, world, crashed>>

(* MySQLManager::init, whose result is not looked at: without a connection
   the query for the ranking is made on a null pointer. *)
NewMySQLManager ==
  /\ Go("new MySQLManager", "SetRankingInRedis")
  /\ \/ mySQL' = "connected" /\ UNCHANGED blame
     \/ mySQL' = "no connection" /\ Blame("MySQL")
  /\ UNCHANGED <<next, threads, flags, inited, users, table, redisManager,
                 managerSet, redis, queues, world, crashed>>

(* SetRankingInRedis gives no ranks, and init returns; or it gives some, and
   SetRanking writes them.  Nobody else may use the connection meanwhile. *)
SetRanking ==
  /\ Go("SetRankingInRedis", "SetManager")
  /\ mySQL = "connected"
  /\ mySQL' = "free"
  /\ UNCHANGED <<next, threads, flags, inited, users, table, redisManager,
                 managerSet, redis, queues, world, crashed, blame>>

(* The query without a connection; or ranks, and redis is null or its pipeline
   throws, which nobody catches. *)
SetRankingCrash ==
  /\ At("SetRankingInRedis")
  /\ blame' = IF mySQL = "connected" THEN blame \cup {"Redis"} ELSE blame
  /\ Crash

(* Mutant: the redis threads get the slots before MySQL is there, so that no
   early request finds an unset pointer. *)
SetManagerFirst ==
  /\ At("RedisRun") /\ ~ managerSet
  /\ managerSet' = TRUE
  /\ UNCHANGED <<main, next, threads, flags, inited, users, table, redisManager,
                 redis, mySQL, queues, world, crashed, blame>>

SetManager ==
  /\ Go("SetManager", "CenterServerConnect")
  /\ managerSet' = TRUE
  /\ UNCHANGED <<next, threads, flags, inited, users, table, redisManager, redis,
                 mySQL, queues, world, crashed, blame>>

(* The centre server cannot be reached; or its slot listens and the first
   packet is sent to it, with objects of the pool that init made. *)
CenterServerConnect ==
  /\ Go("CenterServerConnect", "running")
  /\ \/ UNCHANGED <<port, link>>
     \/ /\ inited = "all"
        /\ link' = [link EXCEPT ![Center] = "listening"]
        /\ port' \in {port, Append(port, [type |-> "SEND", slot |-> Center])}
  /\ UNCHANGED <<next, threads, flags, objects, acceptQueue, procSktQueue, arrivals,
                 data, crashed, blame>>

CenterServerCrash ==
  /\ At("CenterServerConnect") /\ inited # "all"
  /\ Crash /\ UNCHANGED blame

StartStep ==
  \/ InitServer \/ CreateWorkThread \/ CreateAccepterThread \/ NewManagers
  \/ PushSlot \/ InsertUser \/ RedisRun \/ NewMySQLManager
  \/ SetRanking \/ SetRankingCrash \/ SetManager
  \/ CenterServerConnect \/ CenterServerCrash

-----------------------------------------------------------------------------
(* ServerEnd.  Accepters are in workThreads as well; acceptThreads is empty. *)

Command ==
  /\ Go("running", "ServerEnd")
  /\ UNCHANGED <<next, threads, flags, objects, queues, world, crashed, blame>>

StopFlags ==
  /\ Go("ServerEnd", "post")
  /\ workRun' = FALSE /\ accepterRun' = FALSE
  /\ UNCHANGED <<next, threads, redisRun, objects, queues, world, crashed, blame>>

(* Mutant: one packet is posted, as if the workers handed it on. *)
OneWakeUp == <<NullPacket>>

(* As many null packets as workThreads holds. *)
WakeUps == [k \in 1 .. Cardinality(workThreads) |-> NullPacket]

PostWakeUps ==
  /\ Go("post", "join workThreads")
  /\ port' = IF inited = "nothing" THEN port ELSE port \o WakeUps
  /\ UNCHANGED <<next, threads, flags, objects, acceptQueue, procSktQueue, world,
                 crashed, blame>>

JoinWorkThreads ==
  /\ Go("join workThreads", "delete redisManager")
  /\ \A t \in workThreads : pc[t] = "ended"
  /\ UNCHANGED <<next, threads, flags, objects, queues, world, crashed, blame>>

(* delete redisManager runs ~RedisManager: the flag, and the joins.  If
   StartWork did not get to it the pointer was never set. *)
DeleteRedisManager ==
  /\ Go("delete redisManager", "join redisThreads")
  /\ redisManager = "made"
  /\ redisRun' = FALSE
  /\ UNCHANGED <<next, threads, workRun, accepterRun, objects, queues, world, crashed, blame>>

DeleteUnset ==
  /\ At("delete redisManager") /\ redisManager = "unset"
  /\ Crash /\ UNCHANGED blame

(* Mutant: ~RedisManager without its joins. *)
NoJoinRedisThreads ==
  /\ Go("join redisThreads", "delete connUsersManager")
  /\ redisManager' = "deleted"
  /\ UNCHANGED <<next, threads, flags, inited, users, table, managerSet, redis,
                 mySQL, queues, world, crashed, blame>>

JoinRedisThreads ==
  /\ Go("join redisThreads", "delete connUsersManager")
  /\ \A t \in RedisThreads : pc[t] \in {"none", "ended"}
  /\ redisManager' = "deleted"
  /\ UNCHANGED <<next, threads, flags, inited, users, table, managerSet, redis,
                 mySQL, queues, world, crashed, blame>>

DeleteConnUsersManager ==
  /\ Go("delete connUsersManager", "ended")
  /\ users' = "deleted"
  /\ UNCHANGED <<next, threads, flags, inited, table, redisManager, managerSet, redis,
                 mySQL, queues, world, crashed, blame>>

EndStep ==
  \/ StopFlags \/ PostWakeUps \/ JoinWorkThreads
  \/ DeleteRedisManager \/ DeleteUnset \/ JoinRedisThreads \/ DeleteConnUsersManager

-----------------------------------------------------------------------------
(* The threads *)

On(t, where) == pc[t] = where /\ ~ crashed

Goto(t, where) == pc' = [pc EXCEPT ![t] = where]

(* A worker looks at WorkRun, and then waits for a packet as long as it takes.
   Accepters and redis threads poll: their look at the flag and at the queue is
   one step. *)
WorkerLooks(t) ==
  /\ On(t, "loop")
  /\ Goto(t, IF workRun THEN "wait" ELSE "ended")
  /\ UNCHANGED <<main, next, job, workThreads, flags, objects, queues, world, crashed, blame>>

Ends(t, run) ==
  /\ On(t, "loop") /\ ~ run
  /\ Goto(t, "ended")
  /\ UNCHANGED <<main, next, job, workThreads, flags, objects, queues, world, crashed, blame>>

HasUser(s) == users = "made" /\ s \in table

(* GetQueuedCompletionStatus gives a packet; what cannot be looked up is used
   all the same. *)
WorkerTakes(t) ==
  /\ On(t, "wait")
  /\ port # <<>>
  /\ LET p == Head(port) IN
     /\ p.type # "NULL" => HasUser(p.slot)
     /\ p.type = "RECV" => redisManager = "made" /\ managerSet
     /\ workRun' = (workRun /\ p.type # "NULL")
     /\ procSktQueue' = IF p.type = "RECV" THEN Append(procSktQueue, p.slot) ELSE procSktQueue
     /\ \/ /\ p.type \in {"ACCEPT", "RECV"}            \* ConnUserRecv
           /\ link' = [link EXCEPT ![p.slot] = "listening"]
           /\ UNCHANGED acceptQueue
        \/ /\ p.type \in {"ACCEPT", "LOST"}            \* Reset
           /\ link' = [link EXCEPT ![p.slot] = "idle"]
           /\ acceptQueue' = acceptQueue \cup {p.slot}
        \/ /\ p.type \in {"SEND", "NULL"}
           /\ UNCHANGED <<link, acceptQueue>>
  /\ port' = Tail(port)
  /\ Goto(t, "loop")
  /\ UNCHANGED <<main, next, job, workThreads, accepterRun, redisRun, objects, arrivals,
                 data, crashed, blame>>

(* Without a port the call fails at once and leaves a null OverlappedEx. *)
WorkerCrash(t) ==
  /\ On(t, "wait")
  /\ \/ inited = "nothing"
     \/ /\ port # <<>>
        /\ LET p == Head(port) IN
             \/ p.type # "NULL" /\ ~ HasUser(p.slot)
             \/ p.type = "RECV" /\ ~ (redisManager = "made" /\ managerSet)
  /\ Crash /\ UNCHANGED blame

(* A slot of AcceptQueue is offered to clients; refused, it goes back. *)
AccepterTakes(t) ==
  /\ On(t, "loop") /\ accepterRun
  /\ \E s \in acceptQueue :
       /\ link[s] = "idle" /\ inited # "nothing"
       /\ acceptQueue' = acceptQueue \ {s}
       /\ link' = [link EXCEPT ![s] = "offered"]
  /\ UNCHANGED <<main, next, threads, flags, objects, port, procSktQueue,
                 arrivals, data, crashed, blame>>

(* A redis thread takes a request, and then needs the slots, MySQL and Redis
   until it has pushed the reply, whose send may complete. *)
RedisTakes(t) ==
  /\ On(t, "loop") /\ redisRun
  /\ procSktQueue # <<>>
  /\ procSktQueue' = Tail(procSktQueue)
  /\ job' = [job EXCEPT ![t] = Head(procSktQueue)]
  /\ Goto(t, "handle")
  /\ UNCHANGED <<main, next, workThreads, flags, objects, port, acceptQueue, world, crashed, blame>>

RedisReplies(t) ==
  /\ On(t, "handle")
  /\ IF HasUser(job[t]) /\ redisManager = "made" /\ mySQL # "unset" /\ redis
     THEN /\ port' \in {port, Append(port, [type |-> "SEND", slot |-> job[t]])}
          /\ Goto(t, "loop")
          /\ UNCHANGED <<main, next, job, workThreads, flags, objects, acceptQueue,
                         procSktQueue, world, crashed>>
     ELSE Crash
  /\ UNCHANGED blame

WorkerStep(t) == WorkerLooks(t) \/ WorkerTakes(t) \/ WorkerCrash(t)
AccepterStep(t) == Ends(t, accepterRun) \/ AccepterTakes(t)
RedisStep(t) == Ends(t, redisRun) \/ RedisTakes(t) \/ RedisReplies(t)

-----------------------------------------------------------------------------
(* Clients and the centre server *)

(* A client connects to an offered socket.  It is early while StartWork is not
   through. *)
Arrive(s) ==
  /\ link[s] = "offered" /\ ~ crashed /\ inited = "all"
  /\ arrivals < MaxArrivals
  /\ arrivals' = arrivals + 1
  /\ link' = [link EXCEPT ![s] = "accepted"]
  /\ port' = Append(port, [type |-> "ACCEPT", slot |-> s])
  /\ IF main \in Starting THEN Blame("early") ELSE UNCHANGED blame
  /\ UNCHANGED <<main, next, threads, flags, objects, acceptQueue, procSktQueue, data, crashed>>

(* The posted receive completes, with data or without. *)
Receive(s) ==
  /\ link[s] = "listening" /\ ~ crashed
  /\ link' = [link EXCEPT ![s] = "received"]
  /\ \/ /\ data < MaxData
        /\ data' = data + 1
        /\ port' = Append(port, [type |-> "RECV", slot |-> s])
     \/ /\ port' = Append(port, [type |-> "LOST", slot |-> s])
        /\ UNCHANGED data
  /\ UNCHANGED <<main, next, threads, flags, objects, acceptQueue, procSktQueue,
                 arrivals, crashed, blame>>

Next ==
  \/ StartStep
  \/ Command
  \/ EndStep
  \/ \E t \in Workers : WorkerStep(t)
  \/ \E t \in Accepters : AccepterStep(t)
  \/ \E t \in RedisThreads : RedisStep(t)
  \/ \E s \in Slots : Arrive(s) \/ Receive(s)

Spec == Init /\ [][Next]_vars

(* The main thread and the loops go on: what they call returns, the centre
   server's connect and MySQL included.  Nobody has to end the server, and no
   client has to do anything. *)
FairSpec ==
  /\ Spec
  /\ WF_vars(StartStep \/ EndStep)
  /\ \A t \in Workers : WF_vars(WorkerStep(t))
  /\ \A t \in Accepters : WF_vars(AccepterStep(t))
  /\ \A t \in RedisThreads : WF_vars(RedisStep(t))

-----------------------------------------------------------------------------
(* The state has its shape, and a thread is in no vector before it was made. *)
TypeOK ==
  /\ main \in Starting \cup {"running"} \cup Ending \cup {"ended"}
  /\ next \in 1 .. MaxUsersObject
  /\ inited \in {"nothing", "port", "all"}
  /\ pc \in [Threads -> {"none", "loop", "wait", "handle", "ended"}]
  /\ job \in [RedisThreads -> Slots]
  /\ workThreads \subseteq Workers \cup Accepters
  /\ \A t \in workThreads : pc[t] # "none"
  /\ {workRun, accepterRun, redisRun, managerSet, redis, crashed} \subseteq BOOLEAN
  /\ users \in {"unset", "made", "deleted"}
  /\ redisManager \in {"unset", "made", "deleted"}
  /\ mySQL \in {"unset", "connected", "no connection", "free"}
  /\ table \subseteq Slots /\ acceptQueue \subseteq Slots
  /\ port \in Seq(Packets \cup {NullPacket})
  /\ procSktQueue \in Seq(Slots)
  /\ link \in [Slots -> {"idle", "offered", "accepted", "listening", "received"}]
  /\ arrivals \in 0 .. MaxArrivals /\ data \in 0 .. MaxData
  /\ blame \subseteq {"init", "threads", "MySQL", "Redis", "early"}

(* A server that came up as it should uses no object before it is made or after
   it is deleted, through all of ServerEnd: only a failure of init or of making
   threads, which main ignores, still matters after StartWork; and StartWork
   itself is safe unless a client is early or MySQL or Redis fails
   (LoginServer.cpp:53-113, RedisManager.cpp:20-37, RedisManager.h:21-29). *)
DefinedOnceStarted ==
  crashed => /\ main \in Starting => blame # {}
             /\ main \notin Starting => blame \cap {"init", "threads"} # {}

(* No request is handled before MySQL is connected and the ranking is through
   with the one connection and the one Result: that redis threads start before
   (RedisManager.cpp:20-32) is made good by SetManager coming after, without
   which no request gets into procSktQueue. *)
HandlersAfterMySQL ==
  (\E t \in RedisThreads : pc[t] = "handle") => mySQL = "free"

(* ServerEnd returns, whoever takes the wake-up packets and whatever is still
   in the port: each worker finds one (LoginServer.cpp:84-102). *)
ServerEndReturns == main = "ServerEnd" ~> main = "ended" \/ crashed
=============================================================================
