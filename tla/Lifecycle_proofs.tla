-------------------------- MODULE Lifecycle_proofs --------------------------
(***************************************************************************)
(* The life of the login server for every number of threads, of slots, of  *)
(* clients and of packets: once init and the making of threads have        *)
(* succeeded nothing is used before it is made or after it is deleted, and *)
(* no handler runs before MySQL is ready.                                  *)
(***************************************************************************)
EXTENDS Lifecycle, FiniteSetTheorems, TLAPS

-----------------------------------------------------------------------------
(* The invariant is about where the main thread is: what it has made and not
   yet deleted, which threads can still be in their loops, and what can be
   under way before StartWork is through. *)

(* What StartWork has made by the time it is at a statement: both managers,
   and of the table the slots below next. *)
Made == {"push", "insert", "RedisRun", "new MySQLManager", "SetRankingInRedis",
         "SetManager", "CenterServerConnect"}

StartOrder ==
  /\ main \in {"init", "CreateWorkThread", "CreateAccepterThread", "new managers"}
       => next = 1
  /\ main \in Made => users = "made" /\ redisManager = "made"
  /\ main \in {"push", "insert"} => table = 0 .. next - 1 /\ next < MaxUsersObject
  /\ main \in Made \ {"push", "insert"} => table = Slots

(* SetManager comes after everything else has used MySQL. *)
MySQLOrder ==
  /\ main = "SetRankingInRedis" => mySQL \in {"connected", "no connection"}
  /\ mySQL = "no connection" => "MySQL" \in blame
  /\ main \in {"SetManager", "CenterServerConnect"} => mySQL = "free"
  /\ main \in Starting \ {"CenterServerConnect"} => ~ managerSet
  /\ main = "CenterServerConnect" => managerSet
  /\ managerSet => mySQL = "free"

(* A server that left StartWork at its end has everything until ServerEnd
   deletes it; one that left it early has "threads" to blame. *)
Started ==
  /\ main # "init" /\ inited # "all" => "init" \in blame
  /\ main \notin Starting /\ "threads" \notin blame =>
       /\ managerSet /\ table = Slots
       /\ main # "ended" => users = "made"
       /\ main \notin {"delete connUsersManager", "ended"} => redisManager = "made"

(* Threads that ServerEnd has to join: it knows the workers, and redis threads
   are there only with a connection to Redis. *)
Joined ==
  /\ \A t \in Workers : pc[t] # "none" => t \in workThreads
  /\ \A t \in RedisThreads : pc[t] # "none" => redis
  /\ main \in {"delete redisManager", "join redisThreads", "delete connUsersManager", "ended"}
       => \A t \in Workers : pc[t] \in {"none", "ended"}
  /\ main \in {"delete connUsersManager", "ended"}
       => \A t \in RedisThreads : pc[t] \in {"none", "ended"}
  /\ \A t \in Workers : pc[t] # "none" => main # "init"

(* A packet, a request or a connection while StartWork runs is an early client's. *)
EarlyOnly ==
  main \in Starting /\ "early" \notin blame =>
    /\ port = <<>> /\ procSktQueue = <<>>
    /\ \A s \in Slots : link[s] \in {"idle", "offered"}
    /\ \A t \in RedisThreads : pc[t] # "handle"

(* Requests get past a worker only through redisManager with its managers set. *)
RequestsAfterSetManager ==
  procSktQueue # <<>> \/ (\E t \in RedisThreads : pc[t] = "handle") => managerSet

IInv ==
  /\ TypeOK /\ StartOrder /\ MySQLOrder /\ Started /\ Joined
  /\ EarlyOnly /\ RequestsAfterSetManager /\ DefinedOnceStarted

-----------------------------------------------------------------------------
(* The kinds of threads. *)

LEMMA Counts == AccepterCnt \in Nat \ {0} /\ MaxThreadCnt \in Nat \ {0}
  BY CountsAssumption DEF AccepterCnt

LEMMA Kinds ==
  /\ \A t \in Workers : t \notin RedisThreads /\ t \notin Accepters
  /\ \A t \in Accepters : t \notin RedisThreads
  <1>1. \A kind, n : \A t \in First(kind, n) : t[1] = kind
    BY DEF First
  <1> QED  BY <1>1 DEF Workers, Accepters, RedisThreads

LEMMA FirstFew ==
  ASSUME NEW kind, NEW cnt \in Nat, NEW n \in 0 .. cnt
  PROVE  First(kind, n) \subseteq First(kind, cnt)
  BY DEF First

(* The wake-up packets are a sequence: workThreads is finite. *)
LEMMA WakeUpsType ==
  ASSUME TypeOK
  PROVE  WakeUps \in Seq({NullPacket})
  <1>1. \A kind : \A n \in Nat : IsFiniteSet(First(kind, n))
    <2> SUFFICES ASSUME NEW kind, NEW n \in Nat  PROVE IsFiniteSet({kind} \X (1 .. n))
      BY DEF First
    <2>1. IsFiniteSet({kind})  BY FS_Singleton
    <2>2. IsFiniteSet(1 .. n)  BY FS_Interval
    <2> QED  BY <2>1, <2>2, FS_Product
  <1>2. IsFiniteSet(Workers) /\ IsFiniteSet(Accepters)
    BY <1>1, Counts DEF Workers, Accepters
  <1>3. IsFiniteSet(Workers \cup Accepters)
    BY <1>2, FS_Union
  <1>4. IsFiniteSet(workThreads)
    BY <1>3, FS_Subset DEF TypeOK
  <1>5. Cardinality(workThreads) \in Nat
    BY <1>4, FS_CardinalityType
  <1> QED  BY <1>5 DEF WakeUps

(* A packet leaves the port, or enters it, and the port is a port. *)
LEMMA PortMoves ==
  ASSUME NEW P, NEW q \in Seq(P)
  PROVE  /\ \A p \in P : Append(q, p) \in Seq(P)
         /\ q # <<>> => Head(q) \in P /\ Tail(q) \in Seq(P)
  OBVIOUS

LEMMA CenterIsSlot == Center \in Slots
  BY CountsAssumption DEF Center, Slots

LEMMA OnlyFirst == {0} = 0 .. 1 - 1
  OBVIOUS

(* Slots are made in order: after the last one the table is full. *)
LEMMA Following ==
  ASSUME NEW n \in 1 .. MaxUsersObject
  PROVE  /\ ~ (n < MaxUsersObject) => n = MaxUsersObject
         /\ n < MaxUsersObject => n + 1 \in 1 .. MaxUsersObject
         /\ n < MaxUsersObject => n \in Slots
         /\ (0 .. n - 1) \cup {n} = 0 .. (n + 1) - 1
         /\ 1 \in 1 .. MaxUsersObject
  BY CountsAssumption DEF Slots

LEMMA SeqWider ==
  ASSUME NEW S, NEW T, S \subseteq T, NEW q \in Seq(S)
  PROVE  q \in Seq(T)
  OBVIOUS

(* The parts of TypeOK, each with the variables it is about. *)
MainType ==
  /\ main \in Starting \cup {"running"} \cup Ending \cup {"ended"}
  /\ next \in 1 .. MaxUsersObject
  /\ inited \in {"nothing", "port", "all"}
  /\ users \in {"unset", "made", "deleted"}
  /\ redisManager \in {"unset", "made", "deleted"}
  /\ mySQL \in {"unset", "connected", "no connection", "free"}
  /\ table \subseteq Slots

ThreadType ==
  /\ pc \in [Threads -> {"none", "loop", "wait", "handle", "ended"}]
  /\ job \in [RedisThreads -> Slots]
  /\ workThreads \subseteq Workers \cup Accepters
  /\ \A t \in workThreads : pc[t] # "none"

FlagType ==
  /\ workRun \in BOOLEAN /\ accepterRun \in BOOLEAN /\ redisRun \in BOOLEAN
  /\ managerSet \in BOOLEAN /\ redis \in BOOLEAN /\ crashed \in BOOLEAN

PortType ==
  /\ port \in Seq(Packets \cup {NullPacket})
  /\ procSktQueue \in Seq(Slots)

LinkType ==
  /\ acceptQueue \subseteq Slots
  /\ link \in [Slots -> {"idle", "offered", "accepted", "listening", "received"}]
  /\ arrivals \in 0 .. MaxArrivals /\ data \in 0 .. MaxData
  /\ blame \subseteq {"init", "threads", "MySQL", "Redis", "early"}

LEMMA TypeParts ==
  TypeOK <=> MainType /\ ThreadType /\ FlagType /\ PortType /\ LinkType
  BY DEF TypeOK, MainType, ThreadType, FlagType, PortType, LinkType

LEMMA TypePartsNext ==
  TypeOK' <=> MainType' /\ ThreadType' /\ FlagType' /\ PortType' /\ LinkType'
  BY DEF TypeOK, MainType, ThreadType, FlagType, PortType, LinkType

(* A step keeps the parts, under what StartWork's order adds. *)
LEMMA MainTypeStep ==
  ASSUME MainType, StartOrder, [Next]_vars
  PROVE  MainType'
  <1> USE CountsAssumption DEF flags, objects, queues, threads, world, MainType,
          Starting, Ending, Slots
  <1>1. CASE InitServer
    BY <1>1 DEF InitServer, Go, At, Blame
  <1>2. CASE CreateWorkThread
    BY <1>2 DEF CreateWorkThread, MakeThreads, Run, At, Blame
  <1>3. CASE CreateAccepterThread
    BY <1>3 DEF CreateAccepterThread, MakeThreads, Run, At, Blame
  <1>4. CASE NewManagers
    BY <1>4, CenterIsSlot DEF NewManagers, At, ToMake
  <1>5. CASE PushSlot
    BY <1>5 DEF PushSlot, Go, At
  <1>6. CASE InsertUser
    <2>1. next < MaxUsersObject
      BY <1>6 DEF InsertUser, Go, At, StartOrder
    <2>2. next \in 1 .. MaxUsersObject
      OBVIOUS
    <2>3. next \in Slots /\ next + 1 \in 1 .. MaxUsersObject
      BY <2>1, <2>2, Following
    <2>4. table' \subseteq Slots /\ next' \in 1 .. MaxUsersObject
      BY <1>6, <2>3 DEF InsertUser
    <2>5. main' \in Starting
      BY <1>6 DEF InsertUser
    <2> QED
      BY <1>6, <2>4, <2>5 DEF InsertUser
  <1>7. CASE RedisRun
    BY <1>7 DEF RedisRun, Go, At, Run, Blame
  <1>8. CASE NewMySQLManager
    BY <1>8 DEF NewMySQLManager, Go, At, Blame
  <1>9. CASE SetRanking
    BY <1>9 DEF SetRanking, Go, At
  <1>10. CASE SetManager
    BY <1>10 DEF SetManager, Go, At
  <1>11. CASE CenterServerConnect
    BY <1>11 DEF CenterServerConnect, Go, At
  <1>12. CASE Command
    BY <1>12 DEF Command, Go, At
  <1>13. CASE StopFlags
    BY <1>13 DEF StopFlags, Go, At
  <1>14. CASE PostWakeUps
    BY <1>14 DEF PostWakeUps, Go, At
  <1>15. CASE JoinWorkThreads
    BY <1>15 DEF JoinWorkThreads, Go, At
  <1>16. CASE DeleteRedisManager
    BY <1>16 DEF DeleteRedisManager, Go, At
  <1>17. CASE JoinRedisThreads
    BY <1>17 DEF JoinRedisThreads, Go, At
  <1>18. CASE DeleteConnUsersManager
    BY <1>18 DEF DeleteConnUsersManager, Go, At
  <1>19. CASE \/ SetRankingCrash \/ CenterServerCrash \/ DeleteUnset
            \/ (\E t \in Workers : WorkerLooks(t))
            \/ (\E t \in Workers : WorkerTakes(t))
            \/ (\E t \in Workers : WorkerCrash(t))
            \/ (\E t \in Accepters : Ends(t, accepterRun))
            \/ (\E t \in Accepters : AccepterTakes(t))
            \/ (\E t \in RedisThreads : Ends(t, redisRun))
            \/ (\E t \in RedisThreads : RedisTakes(t))
            \/ (\E t \in RedisThreads : RedisReplies(t))
            \/ (\E s \in Slots : Arrive(s)) \/ (\E s \in Slots : Receive(s))
    <2>1. UNCHANGED <<main, next, inited, users, redisManager, mySQL, table>>
      BY <1>19 DEF SetRankingCrash, At, Crash, CenterServerCrash,
         DeleteUnset, WorkerLooks, On, Goto, WorkerTakes, WorkerCrash, Ends,
         AccepterTakes, RedisTakes, RedisReplies, Arrive, Blame, Receive
    <2> QED
      BY <2>1
  <1>20. CASE UNCHANGED vars
    BY <1>20 DEF vars
  <1> QED
    BY <1>1, <1>2, <1>3, <1>4, <1>5, <1>6, <1>7, <1>8, <1>9, <1>10, <1>11,
       <1>12, <1>13, <1>14, <1>15, <1>16, <1>17, <1>18, <1>19, <1>20 DEF Next,
       StartStep, EndStep, WorkerStep, AccepterStep, RedisStep

LEMMA ThreadTypeStep ==
  ASSUME ThreadType, PortType, [Next]_vars
  PROVE  ThreadType'
  <1> USE DEF flags, objects, queues, threads, world, ThreadType, Threads
  <1>1. CASE CreateWorkThread
    <2>1. PICK n \in 0 .. MaxThreadCnt :
            /\ Run(First("worker", n))
            /\ workThreads' = workThreads \cup First("worker", n)
      BY <1>1 DEF CreateWorkThread, MakeThreads
    <2>2. First("worker", n) \subseteq Workers
      BY FirstFew, Counts DEF Workers
    <2>3. job' = job
      BY <1>1 DEF CreateWorkThread
    <2> QED
      BY <2>1, <2>2, <2>3 DEF Run
  <1>2. CASE CreateAccepterThread
    <2>1. PICK n \in 0 .. AccepterCnt :
            /\ Run(First("accepter", n))
            /\ workThreads' = workThreads \cup First("accepter", n)
      BY <1>2 DEF CreateAccepterThread, MakeThreads
    <2>2. First("accepter", n) \subseteq Accepters
      BY FirstFew, Counts DEF Accepters
    <2>3. job' = job
      BY <1>2 DEF CreateAccepterThread
    <2> QED
      BY <2>1, <2>2, <2>3 DEF Run
  <1>3. CASE RedisRun
    BY <1>3 DEF RedisRun, Go, At, Run, Blame
  <1>4. ASSUME NEW t \in Workers, WorkerLooks(t)
       PROVE  ThreadType'
    BY <1>4 DEF WorkerLooks, On, Goto
  <1>5. ASSUME NEW t \in Workers, WorkerTakes(t)
       PROVE  ThreadType'
    BY <1>5 DEF WorkerTakes, On, Goto
  <1>6. ASSUME NEW t \in Accepters, Ends(t, accepterRun)
       PROVE  ThreadType'
    BY <1>6 DEF Ends, On, Goto
  <1>7. ASSUME NEW t \in RedisThreads, Ends(t, redisRun)
       PROVE  ThreadType'
    BY <1>7 DEF Ends, On, Goto
  <1>8. ASSUME NEW t \in RedisThreads, RedisTakes(t)
       PROVE  ThreadType'
    BY <1>8, PortMoves DEF RedisTakes, On, Goto, PortType
  <1>9. ASSUME NEW t \in RedisThreads, RedisReplies(t)
       PROVE  ThreadType'
    BY <1>9 DEF RedisReplies, On, Goto, Crash
  <1>10. CASE \/ InitServer \/ NewManagers \/ PushSlot \/ InsertUser
            \/ NewMySQLManager \/ SetRanking \/ SetRankingCrash \/ SetManager
            \/ CenterServerConnect \/ CenterServerCrash \/ Command \/ StopFlags
            \/ PostWakeUps \/ JoinWorkThreads \/ DeleteRedisManager
            \/ DeleteUnset \/ JoinRedisThreads \/ DeleteConnUsersManager
            \/ (\E t \in Workers : WorkerCrash(t))
            \/ (\E t \in Accepters : AccepterTakes(t))
            \/ (\E s \in Slots : Arrive(s)) \/ (\E s \in Slots : Receive(s))
    BY <1>10 DEF InitServer, Go, At, Blame, NewManagers, ToMake, PushSlot,
       InsertUser, NewMySQLManager, SetRanking, SetRankingCrash, Crash,
       SetManager, CenterServerConnect, CenterServerCrash, Command, StopFlags,
       PostWakeUps, JoinWorkThreads, DeleteRedisManager, DeleteUnset,
       JoinRedisThreads, DeleteConnUsersManager, WorkerCrash, On, AccepterTakes,
       Arrive, Receive
  <1>11. CASE UNCHANGED vars
    BY <1>11 DEF vars
  <1> QED
    BY <1>1, <1>2, <1>3, <1>4, <1>5, <1>6, <1>7, <1>8, <1>9, <1>10, <1>11 DEF
       Next, StartStep, EndStep, WorkerStep, AccepterStep, RedisStep

LEMMA FlagTypeStep ==
  ASSUME FlagType, [Next]_vars
  PROVE  FlagType'
  <1> USE DEF flags, objects, queues, threads, world, FlagType
  <1>1. CASE CreateWorkThread
    BY <1>1 DEF CreateWorkThread, MakeThreads, Run, At, Blame
  <1>2. CASE CreateAccepterThread
    BY <1>2 DEF CreateAccepterThread, MakeThreads, Run, At, Blame
  <1>3. CASE RedisRun
    BY <1>3 DEF RedisRun, Go, At, Run, Blame
  <1>4. CASE SetRankingCrash
    BY <1>4 DEF SetRankingCrash, At, Crash
  <1>5. CASE SetManager
    BY <1>5 DEF SetManager, Go, At
  <1>6. CASE CenterServerCrash
    BY <1>6 DEF CenterServerCrash, At, Crash
  <1>7. CASE StopFlags
    BY <1>7 DEF StopFlags, Go, At
  <1>8. CASE DeleteRedisManager
    BY <1>8 DEF DeleteRedisManager, Go, At
  <1>9. CASE DeleteUnset
    BY <1>9 DEF DeleteUnset, At, Crash
  <1>10. ASSUME NEW t \in Workers, WorkerTakes(t)
       PROVE  FlagType'
    BY <1>10 DEF WorkerTakes, On, Goto
  <1>11. ASSUME NEW t \in Workers, WorkerCrash(t)
       PROVE  FlagType'
    BY <1>11 DEF WorkerCrash, On, Crash
  <1>12. ASSUME NEW t \in RedisThreads, RedisReplies(t)
       PROVE  FlagType'
    BY <1>12 DEF RedisReplies, On, Goto, Crash
  <1>13. CASE \/ InitServer \/ NewManagers \/ PushSlot \/ InsertUser
            \/ NewMySQLManager \/ SetRanking \/ CenterServerConnect \/ Command
            \/ PostWakeUps \/ JoinWorkThreads \/ JoinRedisThreads
            \/ DeleteConnUsersManager \/ (\E t \in Workers : WorkerLooks(t))
            \/ (\E t \in Accepters : Ends(t, accepterRun))
            \/ (\E t \in Accepters : AccepterTakes(t))
            \/ (\E t \in RedisThreads : Ends(t, redisRun))
            \/ (\E t \in RedisThreads : RedisTakes(t))
            \/ (\E s \in Slots : Arrive(s)) \/ (\E s \in Slots : Receive(s))
    BY <1>13 DEF InitServer, Go, At, Blame, NewManagers, ToMake, PushSlot,
       InsertUser, NewMySQLManager, SetRanking, CenterServerConnect, Command,
       PostWakeUps, JoinWorkThreads, JoinRedisThreads, DeleteConnUsersManager,
       WorkerLooks, On, Goto, Ends, AccepterTakes, RedisTakes, Arrive, Receive
  <1>14. CASE UNCHANGED vars
    BY <1>14 DEF vars
  <1> QED
    BY <1>1, <1>2, <1>3, <1>4, <1>5, <1>6, <1>7, <1>8, <1>9, <1>10, <1>11,
       <1>12, <1>13, <1>14 DEF Next, StartStep, EndStep, WorkerStep,
       AccepterStep, RedisStep

LEMMA PortTypeStep ==
  ASSUME TypeOK, [Next]_vars
  PROVE  PortType'
  <1> USE TypeParts DEF flags, objects, queues, threads, world, PortType
  <1>1. CASE CenterServerConnect
    <2>1. [type |-> "SEND", slot |-> Center] \in Packets \cup {NullPacket}
      BY CenterIsSlot DEF Packets
    <2>2. /\ port' \in {port, Append(port, [type |-> "SEND", slot |-> Center])}
          /\ procSktQueue' = procSktQueue
      BY <1>1 DEF CenterServerConnect
    <2> QED
      BY <2>1, <2>2, PortMoves
  <1>2. CASE PostWakeUps
    <2>1. WakeUps \in Seq(Packets \cup {NullPacket})
      BY WakeUpsType, TypeParts, SeqWider
    <2>2. port \o WakeUps \in Seq(Packets \cup {NullPacket})
      BY <2>1
    <2> QED
      BY <1>2, <2>2 DEF PostWakeUps
  <1>3. ASSUME NEW t \in Workers, WorkerTakes(t)
       PROVE  PortType'
    <2>1. port # <<>> /\ port' = Tail(port)
      BY <1>3 DEF WorkerTakes
    <2>2. port' \in Seq(Packets \cup {NullPacket}) /\ Head(port) \in Packets \cup {NullPacket}
      BY <2>1, PortMoves
    <2>3. Head(port).slot \in Slots
      BY <2>2, CenterIsSlot DEF Packets, NullPacket
    <2>4. procSktQueue' = procSktQueue \/ procSktQueue' = Append(procSktQueue, Head(port).slot)
      BY <1>3 DEF WorkerTakes
    <2> QED
      BY <2>2, <2>3, <2>4, PortMoves
  <1>4. ASSUME NEW t \in RedisThreads, RedisTakes(t)
       PROVE  PortType'
    BY <1>4, PortMoves DEF RedisTakes, On, Goto
  <1>5. ASSUME NEW t \in RedisThreads, RedisReplies(t)
       PROVE  PortType'
    <2>1. [type |-> "SEND", slot |-> job[t]] \in Packets \cup {NullPacket}
      BY TypeParts DEF Packets, ThreadType
    <2>2. /\ port' \in {port, Append(port, [type |-> "SEND", slot |-> job[t]])}
          /\ procSktQueue' = procSktQueue
      BY <1>5 DEF RedisReplies, Crash
    <2> QED
      BY <2>1, <2>2, PortMoves
  <1>6. ASSUME NEW s \in Slots, Arrive(s)
       PROVE  PortType'
    <2>1. [type |-> "ACCEPT", slot |-> s] \in Packets \cup {NullPacket}
      BY <1>6 DEF Packets
    <2>2. /\ port' \in {port, Append(port, [type |-> "ACCEPT", slot |-> s])}
          /\ procSktQueue' = procSktQueue
      BY <1>6 DEF Arrive
    <2> QED
      BY <2>1, <2>2, PortMoves
  <1>7. ASSUME NEW s \in Slots, Receive(s)
       PROVE  PortType'
    <2>1. /\ [type |-> "RECV", slot |-> s] \in Packets \cup {NullPacket}
          /\ [type |-> "LOST", slot |-> s] \in Packets \cup {NullPacket}
      BY <1>7 DEF Packets
    <2>2. /\ \/ port' = Append(port, [type |-> "RECV", slot |-> s])
             \/ port' = Append(port, [type |-> "LOST", slot |-> s])
          /\ procSktQueue' = procSktQueue
      BY <1>7 DEF Receive
    <2>3. \A p \in Packets \cup {NullPacket} :
             Append(port, p) \in Seq(Packets \cup {NullPacket})
      BY PortMoves
    <2> QED
      BY <2>1, <2>2, <2>3
  <1>8. CASE \/ InitServer \/ CreateWorkThread \/ CreateAccepterThread
            \/ NewManagers \/ PushSlot \/ InsertUser \/ RedisRun
            \/ NewMySQLManager \/ SetRanking \/ SetRankingCrash \/ SetManager
            \/ CenterServerCrash \/ Command \/ StopFlags \/ JoinWorkThreads
            \/ DeleteRedisManager \/ DeleteUnset \/ JoinRedisThreads
            \/ DeleteConnUsersManager \/ (\E t \in Workers : WorkerLooks(t))
            \/ (\E t \in Workers : WorkerCrash(t))
            \/ (\E t \in Accepters : Ends(t, accepterRun))
            \/ (\E t \in Accepters : AccepterTakes(t))
            \/ (\E t \in RedisThreads : Ends(t, redisRun))
    BY <1>8 DEF InitServer, Go, At, Blame, CreateWorkThread, MakeThreads,
       Run, CreateAccepterThread, NewManagers, ToMake, PushSlot, InsertUser,
       RedisRun, NewMySQLManager, SetRanking, SetRankingCrash, Crash,
       SetManager, CenterServerCrash, Command, StopFlags, JoinWorkThreads,
       DeleteRedisManager, DeleteUnset, JoinRedisThreads,
       DeleteConnUsersManager, WorkerLooks, On, Goto, WorkerCrash, Ends,
       AccepterTakes
  <1>9. CASE UNCHANGED vars
    BY <1>9 DEF vars
  <1> QED
    BY <1>1, <1>2, <1>3, <1>4, <1>5, <1>6, <1>7, <1>8, <1>9 DEF Next,
       StartStep, EndStep, WorkerStep, AccepterStep, RedisStep

LEMMA LinkTypeStep ==
  ASSUME LinkType, PortType, MainType, StartOrder, [Next]_vars
  PROVE  LinkType'
  <1> USE DEF flags, objects, queues, threads, world, LinkType
  <1>1. CASE InitServer
    BY <1>1 DEF InitServer, Go, At, Blame
  <1>2. CASE CreateWorkThread
    BY <1>2 DEF CreateWorkThread, MakeThreads, Run, At, Blame
  <1>3. CASE CreateAccepterThread
    BY <1>3 DEF CreateAccepterThread, MakeThreads, Run, At, Blame
  <1>4. CASE PushSlot
    <2>1. next < MaxUsersObject /\ next \in 1 .. MaxUsersObject
      BY <1>4 DEF PushSlot, Go, At, StartOrder, MainType
    <2>2. next \in Slots
      BY <2>1, CountsAssumption DEF Slots
    <2> QED
      BY <1>4, <2>2 DEF PushSlot
  <1>5. CASE RedisRun
    BY <1>5 DEF RedisRun, Go, At, Run, Blame
  <1>6. CASE NewMySQLManager
    BY <1>6 DEF NewMySQLManager, Go, At, Blame
  <1>7. CASE SetRankingCrash
    BY <1>7 DEF SetRankingCrash, At, Crash
  <1>8. CASE CenterServerConnect
    BY <1>8, CenterIsSlot DEF CenterServerConnect, Go, At
  <1>9. ASSUME NEW t \in Workers, WorkerTakes(t)
       PROVE  LinkType'
    <2>1. port # <<>>
      BY <1>9 DEF WorkerTakes
    <2>2. Head(port) \in Packets \cup {NullPacket}
      BY <2>1, PortMoves DEF PortType
    <2>3. Head(port).slot \in Slots
      BY <2>2, CenterIsSlot DEF Packets, NullPacket
    <2> QED
      BY <1>9, <2>3 DEF WorkerTakes
  <1>10. ASSUME NEW t \in Accepters, AccepterTakes(t)
       PROVE  LinkType'
    BY <1>10 DEF AccepterTakes, On
  <1>11. ASSUME NEW s \in Slots, Arrive(s)
       PROVE  LinkType'
    <2>1. arrivals' \in 0 .. MaxArrivals
      BY <1>11, CountsAssumption DEF Arrive
    <2>2. blame' \in {blame, blame \cup {"early"}}
      BY <1>11 DEF Arrive, Blame
    <2> QED
      BY <1>11, <2>1, <2>2 DEF Arrive
  <1>12. ASSUME NEW s \in Slots, Receive(s)
       PROVE  LinkType'
    BY <1>12, CountsAssumption DEF Receive
  <1>13. CASE \/ NewManagers \/ InsertUser \/ SetRanking \/ SetManager
            \/ CenterServerCrash \/ Command \/ StopFlags \/ PostWakeUps
            \/ JoinWorkThreads \/ DeleteRedisManager \/ DeleteUnset
            \/ JoinRedisThreads \/ DeleteConnUsersManager
            \/ (\E t \in Workers : WorkerLooks(t))
            \/ (\E t \in Workers : WorkerCrash(t))
            \/ (\E t \in Accepters : Ends(t, accepterRun))
            \/ (\E t \in RedisThreads : Ends(t, redisRun))
            \/ (\E t \in RedisThreads : RedisTakes(t))
            \/ (\E t \in RedisThreads : RedisReplies(t))
    BY <1>13 DEF NewManagers, At, ToMake, InsertUser, Go, SetRanking,
       SetManager, CenterServerCrash, Crash, Command, StopFlags, PostWakeUps,
       JoinWorkThreads, DeleteRedisManager, DeleteUnset, JoinRedisThreads,
       DeleteConnUsersManager, WorkerLooks, On, Goto, WorkerCrash, Ends,
       RedisTakes, RedisReplies
  <1>14. CASE UNCHANGED vars
    BY <1>14 DEF vars
  <1> QED
    BY <1>1, <1>2, <1>3, <1>4, <1>5, <1>6, <1>7, <1>8, <1>9, <1>10, <1>11,
       <1>12, <1>13, <1>14 DEF Next, StartStep, EndStep, WorkerStep,
       AccepterStep, RedisStep

LEMMA TypeStep ==
  ASSUME TypeOK, StartOrder, [Next]_vars
  PROVE  TypeOK'
  BY TypeParts, TypePartsNext, MainTypeStep, ThreadTypeStep, FlagTypeStep, PortTypeStep,
     LinkTypeStep

-----------------------------------------------------------------------------
(* The main thread's order: other threads change nothing it is about. *)

LEMMA StartOrderStep ==
  ASSUME MainType, StartOrder, [Next]_vars
  PROVE  StartOrder'
  <1> USE DEF flags, objects, queues, threads, world, StartOrder, Made
  <1>1. CASE InitServer
    BY <1>1 DEF InitServer, Go, At, Blame
  <1>2. CASE CreateWorkThread
    BY <1>2 DEF CreateWorkThread, MakeThreads, Run, At, Blame
  <1>3. CASE CreateAccepterThread
    BY <1>3 DEF CreateAccepterThread, MakeThreads, Run, At, Blame
  <1>4. CASE NewManagers
    <2>1. /\ main' = IF 1 < MaxUsersObject THEN "push" ELSE "RedisRun"
          /\ table' = {0} /\ next' = next
          /\ users' = "made" /\ redisManager' = "made"
      BY <1>4 DEF NewManagers, ToMake, Center
    <2>2. next = 1
      BY <1>4 DEF NewManagers, At
    <2>3. table' = 0 .. next' - 1
      BY <2>1, <2>2, OnlyFirst
    <2>4. ~ (1 < MaxUsersObject) => 1 = MaxUsersObject
      BY <2>2, Following DEF MainType
    <2>5. ~ (1 < MaxUsersObject) => table' = Slots
      BY <2>1, <2>2, <2>3, <2>4 DEF Slots
    <2> QED
      BY <2>1, <2>2, <2>3, <2>5
  <1>5. CASE PushSlot
    BY <1>5 DEF PushSlot, Go, At
  <1>6. CASE InsertUser
    <2>1. /\ main' = IF next + 1 < MaxUsersObject THEN "push" ELSE "RedisRun"
          /\ next' = next + 1 /\ table' = table \cup {next}
          /\ UNCHANGED <<users, redisManager>>
      BY <1>6 DEF InsertUser, ToMake
    <2>2. /\ users = "made" /\ redisManager = "made"
          /\ table = 0 .. next - 1 /\ next < MaxUsersObject
      BY <1>6 DEF InsertUser, Go, At
    <2>3. next \in 1 .. MaxUsersObject /\ MaxUsersObject \in Nat
      BY CountsAssumption DEF MainType
    <2>4. table' = 0 .. next' - 1
      BY <2>1, <2>2, <2>3, Following
    <2>5. ~ (next + 1 < MaxUsersObject) => next + 1 = MaxUsersObject
      BY <2>2, <2>3, Following
    <2>6. ~ (next + 1 < MaxUsersObject) => table' = Slots
      BY <2>1, <2>4, <2>5 DEF Slots
    <2> QED
      BY <2>1, <2>2, <2>4, <2>6
  <1>7. CASE RedisRun
    BY <1>7 DEF RedisRun, Go, At, Run, Blame
  <1>8. CASE NewMySQLManager
    BY <1>8 DEF NewMySQLManager, Go, At, Blame
  <1>9. CASE SetRanking
    BY <1>9 DEF SetRanking, Go, At
  <1>10. CASE SetManager
    BY <1>10 DEF SetManager, Go, At
  <1>11. CASE CenterServerConnect
    BY <1>11 DEF CenterServerConnect, Go, At
  <1>12. CASE Command
    BY <1>12 DEF Command, Go, At
  <1>13. CASE StopFlags
    BY <1>13 DEF StopFlags, Go, At
  <1>14. CASE PostWakeUps
    BY <1>14 DEF PostWakeUps, Go, At
  <1>15. CASE JoinWorkThreads
    BY <1>15 DEF JoinWorkThreads, Go, At
  <1>16. CASE DeleteRedisManager
    BY <1>16 DEF DeleteRedisManager, Go, At
  <1>17. CASE JoinRedisThreads
    BY <1>17 DEF JoinRedisThreads, Go, At
  <1>18. CASE DeleteConnUsersManager
    BY <1>18 DEF DeleteConnUsersManager, Go, At
  <1>19. CASE \/ SetRankingCrash \/ CenterServerCrash \/ DeleteUnset
            \/ (\E t \in Workers : WorkerLooks(t))
            \/ (\E t \in Workers : WorkerTakes(t))
            \/ (\E t \in Workers : WorkerCrash(t))
            \/ (\E t \in Accepters : Ends(t, accepterRun))
            \/ (\E t \in Accepters : AccepterTakes(t))
            \/ (\E t \in RedisThreads : Ends(t, redisRun))
            \/ (\E t \in RedisThreads : RedisTakes(t))
            \/ (\E t \in RedisThreads : RedisReplies(t))
            \/ (\E s \in Slots : Arrive(s)) \/ (\E s \in Slots : Receive(s))
    <2>1. UNCHANGED <<main, next, users, redisManager, table>>
      BY <1>19 DEF SetRankingCrash, At, Crash, CenterServerCrash,
         DeleteUnset, WorkerLooks, On, Goto, WorkerTakes, WorkerCrash, Ends,
         AccepterTakes, RedisTakes, RedisReplies, Arrive, Blame, Receive
    <2> QED
      BY <2>1
  <1>20. CASE UNCHANGED vars
    BY <1>20 DEF vars
  <1> QED
    BY <1>1, <1>2, <1>3, <1>4, <1>5, <1>6, <1>7, <1>8, <1>9, <1>10, <1>11,
       <1>12, <1>13, <1>14, <1>15, <1>16, <1>17, <1>18, <1>19, <1>20 DEF Next,
       StartStep, EndStep, WorkerStep, AccepterStep, RedisStep

LEMMA MySQLOrderStep ==
  ASSUME MySQLOrder, [Next]_vars
  PROVE  MySQLOrder'
  <1> USE DEF flags, objects, queues, threads, world, MySQLOrder, Starting,
          Ending
  <1>1. CASE InitServer
    BY <1>1 DEF InitServer, Go, At, Blame
  <1>2. CASE CreateWorkThread
    BY <1>2 DEF CreateWorkThread, MakeThreads, Run, At, Blame
  <1>3. CASE CreateAccepterThread
    BY <1>3 DEF CreateAccepterThread, MakeThreads, Run, At, Blame
  <1>4. CASE NewManagers
    BY <1>4 DEF NewManagers, At, ToMake
  <1>5. CASE PushSlot
    BY <1>5 DEF PushSlot, Go, At
  <1>6. CASE InsertUser
    BY <1>6 DEF InsertUser, Go, At, ToMake
  <1>7. CASE RedisRun
    BY <1>7 DEF RedisRun, Go, At, Run, Blame
  <1>8. CASE NewMySQLManager
    BY <1>8 DEF NewMySQLManager, Go, At, Blame
  <1>9. CASE SetRanking
    BY <1>9 DEF SetRanking, Go, At
  <1>10. CASE SetRankingCrash
    BY <1>10 DEF SetRankingCrash, At, Crash, Crash
  <1>11. CASE SetManager
    BY <1>11 DEF SetManager, Go, At
  <1>12. CASE CenterServerConnect
    BY <1>12 DEF CenterServerConnect, Go, At
  <1>13. CASE Command
    BY <1>13 DEF Command, Go, At
  <1>14. CASE StopFlags
    BY <1>14 DEF StopFlags, Go, At
  <1>15. CASE PostWakeUps
    BY <1>15 DEF PostWakeUps, Go, At
  <1>16. CASE JoinWorkThreads
    BY <1>16 DEF JoinWorkThreads, Go, At
  <1>17. CASE DeleteRedisManager
    BY <1>17 DEF DeleteRedisManager, Go, At
  <1>18. CASE JoinRedisThreads
    BY <1>18 DEF JoinRedisThreads, Go, At
  <1>19. CASE DeleteConnUsersManager
    BY <1>19 DEF DeleteConnUsersManager, Go, At
  <1>20. ASSUME NEW s \in Slots, Arrive(s)
       PROVE  MySQLOrder'
    BY <1>20 DEF Arrive, Blame
  <1>21. CASE \/ CenterServerCrash \/ DeleteUnset
            \/ (\E t \in Workers : WorkerLooks(t))
            \/ (\E t \in Workers : WorkerTakes(t))
            \/ (\E t \in Workers : WorkerCrash(t))
            \/ (\E t \in Accepters : Ends(t, accepterRun))
            \/ (\E t \in Accepters : AccepterTakes(t))
            \/ (\E t \in RedisThreads : Ends(t, redisRun))
            \/ (\E t \in RedisThreads : RedisTakes(t))
            \/ (\E t \in RedisThreads : RedisReplies(t))
            \/ (\E s \in Slots : Receive(s))
    <2>1. UNCHANGED <<main, mySQL, managerSet, blame>>
      BY <1>21 DEF CenterServerCrash, At, Crash, DeleteUnset, WorkerLooks,
         On, Goto, WorkerTakes, WorkerCrash, Ends, AccepterTakes, RedisTakes,
         RedisReplies, Receive
    <2> QED
      BY <2>1
  <1>22. CASE UNCHANGED vars
    BY <1>22 DEF vars
  <1> QED
    BY <1>1, <1>2, <1>3, <1>4, <1>5, <1>6, <1>7, <1>8, <1>9, <1>10, <1>11,
       <1>12, <1>13, <1>14, <1>15, <1>16, <1>17, <1>18, <1>19, <1>20, <1>21,
       <1>22 DEF Next, StartStep, EndStep, WorkerStep, AccepterStep, RedisStep

LEMMA StartedStep ==
  ASSUME TypeOK, StartOrder, MySQLOrder, Started, [Next]_vars
  PROVE  Started'
  <1> USE DEF flags, objects, queues, threads, world, Started, StartOrder, Made,
          MySQLOrder, Starting, Ending
  <1>1. CASE InitServer
    BY <1>1 DEF InitServer, Go, At, Blame
  <1>2. CASE CreateWorkThread
    BY <1>2 DEF CreateWorkThread, MakeThreads, Run, At, Blame
  <1>3. CASE CreateAccepterThread
    BY <1>3 DEF CreateAccepterThread, MakeThreads, Run, At, Blame
  <1>4. CASE NewManagers
    BY <1>4 DEF NewManagers, At, ToMake
  <1>5. CASE PushSlot
    BY <1>5 DEF PushSlot, Go, At
  <1>6. CASE InsertUser
    BY <1>6 DEF InsertUser, Go, At, ToMake
  <1>7. CASE RedisRun
    BY <1>7 DEF RedisRun, Go, At, Run, Blame
  <1>8. CASE NewMySQLManager
    BY <1>8 DEF NewMySQLManager, Go, At, Blame
  <1>9. CASE SetRanking
    BY <1>9 DEF SetRanking, Go, At
  <1>10. CASE SetManager
    BY <1>10 DEF SetManager, Go, At
  <1>11. CASE CenterServerConnect
    BY <1>11 DEF CenterServerConnect, Go, At
  <1>12. CASE Command
    BY <1>12 DEF Command, Go, At
  <1>13. CASE StopFlags
    BY <1>13 DEF StopFlags, Go, At
  <1>14. CASE PostWakeUps
    BY <1>14 DEF PostWakeUps, Go, At
  <1>15. CASE JoinWorkThreads
    BY <1>15 DEF JoinWorkThreads, Go, At
  <1>16. CASE DeleteRedisManager
    BY <1>16 DEF DeleteRedisManager, Go, At
  <1>17. CASE JoinRedisThreads
    BY <1>17 DEF JoinRedisThreads, Go, At
  <1>18. CASE DeleteConnUsersManager
    BY <1>18 DEF DeleteConnUsersManager, Go, At
  <1>19. CASE \/ SetRankingCrash \/ CenterServerCrash \/ DeleteUnset
            \/ (\E t \in Workers : WorkerLooks(t))
            \/ (\E t \in Workers : WorkerTakes(t))
            \/ (\E t \in Workers : WorkerCrash(t))
            \/ (\E t \in Accepters : Ends(t, accepterRun))
            \/ (\E t \in Accepters : AccepterTakes(t))
            \/ (\E t \in RedisThreads : Ends(t, redisRun))
            \/ (\E t \in RedisThreads : RedisTakes(t))
            \/ (\E t \in RedisThreads : RedisReplies(t))
            \/ (\E s \in Slots : Arrive(s)) \/ (\E s \in Slots : Receive(s))
    BY <1>19 DEF SetRankingCrash, At, Crash, CenterServerCrash, DeleteUnset,
       WorkerLooks, On, Goto, WorkerTakes, WorkerCrash, Ends, AccepterTakes,
       RedisTakes, RedisReplies, Arrive, Blame, Receive
  <1>20. CASE UNCHANGED vars
    BY <1>20 DEF vars
  <1> QED
    BY <1>1, <1>2, <1>3, <1>4, <1>5, <1>6, <1>7, <1>8, <1>9, <1>10, <1>11,
       <1>12, <1>13, <1>14, <1>15, <1>16, <1>17, <1>18, <1>19, <1>20 DEF Next,
       StartStep, EndStep, WorkerStep, AccepterStep, RedisStep

-----------------------------------------------------------------------------
(* Threads. *)

LEMMA JoinedStep ==
  ASSUME TypeOK, Joined, [Next]_vars
  PROVE  Joined'
  <1> USE TypeParts DEF flags, objects, queues, threads, world, Joined,
          ThreadType, FlagType
  <1>1. CASE InitServer
    BY <1>1 DEF InitServer, Go, At, Blame
  <1>2. CASE CreateWorkThread
    <2>1. PICK n \in 0 .. MaxThreadCnt :
            /\ Run(First("worker", n))
            /\ workThreads' = workThreads \cup First("worker", n)
            /\ main' \in {"CreateAccepterThread", "new managers", "running"}
      BY <1>2 DEF CreateWorkThread, MakeThreads
    <2>2. First("worker", n) \subseteq Workers
      BY FirstFew, Counts DEF Workers
    <2>3. redis' = redis
      BY <1>2 DEF CreateWorkThread
    <2> QED
      BY <2>1, <2>2, <2>3, Kinds DEF Run, Threads
  <1>3. CASE CreateAccepterThread
    <2>1. PICK n \in 0 .. AccepterCnt :
            /\ Run(First("accepter", n))
            /\ workThreads' = workThreads \cup First("accepter", n)
            /\ main' \in {"CreateAccepterThread", "new managers", "running"}
      BY <1>3 DEF CreateAccepterThread, MakeThreads
    <2>2. First("accepter", n) \subseteq Accepters
      BY FirstFew, Counts DEF Accepters
    <2>3. redis' = redis
      BY <1>3 DEF CreateAccepterThread
    <2> QED
      BY <2>1, <2>2, <2>3, Kinds DEF Run, Threads
  <1>4. CASE NewManagers
    BY <1>4 DEF NewManagers, At, ToMake
  <1>5. CASE PushSlot
    BY <1>5 DEF PushSlot, Go, At
  <1>6. CASE InsertUser
    BY <1>6 DEF InsertUser, Go, At, ToMake
  <1>7. CASE RedisRun
    <2>1. First("redis", MaxThreadCnt) = RedisThreads
      BY DEF RedisThreads
    <2>2. \A n \in 0 .. MaxThreadCnt : First("redis", n) \subseteq RedisThreads
      BY <2>1, FirstFew, Counts
    <2>3. UNCHANGED pc \/ (redis' /\ \E n \in 0 .. MaxThreadCnt : Run(First("redis", n)))
      BY <1>7 DEF RedisRun
    <2>4. /\ main' = "new MySQLManager" /\ workThreads' = workThreads
          /\ main = "RedisRun" /\ (redis' \/ redis' = redis)
      BY <1>7 DEF RedisRun, Go, At
    <2> QED
      BY <2>2, <2>3, <2>4, Kinds DEF Run, Threads
  <1>8. CASE NewMySQLManager
    BY <1>8 DEF NewMySQLManager, Go, At, Blame
  <1>9. CASE SetRanking
    BY <1>9 DEF SetRanking, Go, At
  <1>10. CASE SetManager
    BY <1>10 DEF SetManager, Go, At
  <1>11. CASE CenterServerConnect
    BY <1>11 DEF CenterServerConnect, Go, At
  <1>12. CASE Command
    BY <1>12 DEF Command, Go, At
  <1>13. CASE StopFlags
    BY <1>13 DEF StopFlags, Go, At
  <1>14. CASE PostWakeUps
    BY <1>14 DEF PostWakeUps, Go, At
  <1>15. CASE JoinWorkThreads
    BY <1>15 DEF JoinWorkThreads, Go, At
  <1>16. CASE DeleteRedisManager
    BY <1>16 DEF DeleteRedisManager, Go, At
  <1>17. CASE JoinRedisThreads
    BY <1>17 DEF JoinRedisThreads, Go, At
  <1>18. CASE DeleteConnUsersManager
    BY <1>18 DEF DeleteConnUsersManager, Go, At
  <1>19. ASSUME NEW t \in Workers, WorkerLooks(t)
       PROVE  Joined'
    BY <1>19, Kinds DEF WorkerLooks, On, Goto, Threads
  <1>20. ASSUME NEW t \in Workers, WorkerTakes(t)
       PROVE  Joined'
    BY <1>20, Kinds DEF WorkerTakes, On, Goto, Threads
  <1>21. ASSUME NEW t \in Accepters, Ends(t, accepterRun)
       PROVE  Joined'
    BY <1>21, Kinds DEF Ends, On, Goto, Threads
  <1>22. ASSUME NEW t \in RedisThreads, Ends(t, redisRun)
       PROVE  Joined'
    BY <1>22, Kinds DEF Ends, On, Goto, Threads
  <1>23. ASSUME NEW t \in RedisThreads, RedisTakes(t)
       PROVE  Joined'
    BY <1>23, Kinds DEF RedisTakes, On, Goto, Threads
  <1>24. ASSUME NEW t \in RedisThreads, RedisReplies(t)
       PROVE  Joined'
    BY <1>24, Kinds DEF RedisReplies, On, Goto, Crash, Threads
  <1>25. CASE \/ SetRankingCrash \/ CenterServerCrash \/ DeleteUnset
            \/ (\E t \in Workers : WorkerCrash(t))
            \/ (\E t \in Accepters : AccepterTakes(t))
            \/ (\E s \in Slots : Arrive(s)) \/ (\E s \in Slots : Receive(s))
    <2>1. UNCHANGED <<main, pc, redis, workThreads>>
      BY <1>25 DEF SetRankingCrash, At, Crash, CenterServerCrash,
         DeleteUnset, WorkerCrash, On, AccepterTakes, Arrive, Blame, Receive
    <2> QED
      BY <2>1
  <1>26. CASE UNCHANGED vars
    BY <1>26 DEF vars
  <1> QED
    BY <1>1, <1>2, <1>3, <1>4, <1>5, <1>6, <1>7, <1>8, <1>9, <1>10, <1>11,
       <1>12, <1>13, <1>14, <1>15, <1>16, <1>17, <1>18, <1>19, <1>20, <1>21,
       <1>22, <1>23, <1>24, <1>25, <1>26 DEF Next, StartStep, EndStep,
       WorkerStep, AccepterStep, RedisStep

LEMMA EarlyOnlyStep ==
  ASSUME TypeOK, EarlyOnly, [Next]_vars
  PROVE  EarlyOnly'
  <1> USE DEF flags, objects, queues, threads, world, EarlyOnly, Starting,
          Ending, LinkType
  <1>1. CASE InitServer
    BY <1>1 DEF InitServer, Go, At, Blame
  <1>2. CASE CreateWorkThread
    BY <1>2 DEF CreateWorkThread, MakeThreads, Run, At, Blame, Threads
  <1>3. CASE CreateAccepterThread
    BY <1>3 DEF CreateAccepterThread, MakeThreads, Run, At, Blame, Threads
  <1>4. CASE NewManagers
    BY <1>4 DEF NewManagers, At, ToMake
  <1>5. CASE PushSlot
    BY <1>5 DEF PushSlot, Go, At
  <1>6. CASE InsertUser
    BY <1>6 DEF InsertUser, Go, At, ToMake
  <1>7. CASE RedisRun
    BY <1>7 DEF RedisRun, Go, At, Run, Blame, Threads
  <1>8. CASE NewMySQLManager
    BY <1>8 DEF NewMySQLManager, Go, At, Blame
  <1>9. CASE SetRanking
    BY <1>9 DEF SetRanking, Go, At
  <1>10. CASE SetRankingCrash
    BY <1>10 DEF SetRankingCrash, At, Crash
  <1>11. CASE SetManager
    BY <1>11 DEF SetManager, Go, At
  <1>12. CASE CenterServerConnect
    BY <1>12 DEF CenterServerConnect, Go, At
  <1>13. CASE Command
    BY <1>13 DEF Command, Go, At
  <1>14. CASE StopFlags
    BY <1>14 DEF StopFlags, Go, At
  <1>15. CASE PostWakeUps
    BY <1>15 DEF PostWakeUps, Go, At
  <1>16. CASE JoinWorkThreads
    BY <1>16 DEF JoinWorkThreads, Go, At
  <1>17. CASE DeleteRedisManager
    BY <1>17 DEF DeleteRedisManager, Go, At
  <1>18. CASE JoinRedisThreads
    BY <1>18 DEF JoinRedisThreads, Go, At
  <1>19. CASE DeleteConnUsersManager
    BY <1>19 DEF DeleteConnUsersManager, Go, At
  <1>20. ASSUME NEW t \in Workers, WorkerLooks(t)
       PROVE  EarlyOnly'
    BY <1>20, TypeParts DEF WorkerLooks, On, Goto, Threads, ThreadType
  <1>21. ASSUME NEW t \in Workers, WorkerTakes(t)
       PROVE  EarlyOnly'
    BY <1>21, TypeParts DEF WorkerTakes, On, Goto, Threads, ThreadType
  <1>22. ASSUME NEW t \in Accepters, Ends(t, accepterRun)
       PROVE  EarlyOnly'
    BY <1>22, TypeParts DEF Ends, On, Goto, Threads, ThreadType
  <1>23. ASSUME NEW t \in Accepters, AccepterTakes(t)
       PROVE  EarlyOnly'
    BY <1>23, TypeParts DEF AccepterTakes, On, Threads, ThreadType
  <1>24. ASSUME NEW t \in RedisThreads, Ends(t, redisRun)
       PROVE  EarlyOnly'
    BY <1>24, TypeParts DEF Ends, On, Goto, Threads, ThreadType
  <1>25. ASSUME NEW t \in RedisThreads, RedisTakes(t)
       PROVE  EarlyOnly'
    BY <1>25, TypeParts DEF RedisTakes, On, Goto, Threads, ThreadType
  <1>26. ASSUME NEW t \in RedisThreads, RedisReplies(t)
       PROVE  EarlyOnly'
    BY <1>26, TypeParts DEF RedisReplies, On, Goto, Crash, Threads,
       ThreadType
  <1>27. ASSUME NEW s \in Slots, Arrive(s)
       PROVE  EarlyOnly'
    BY <1>27, TypeParts DEF Arrive, Blame, Threads, ThreadType
  <1>28. ASSUME NEW s \in Slots, Receive(s)
       PROVE  EarlyOnly'
    BY <1>28, TypeParts DEF Receive, Threads, ThreadType
  <1>29. CASE \/ CenterServerCrash \/ DeleteUnset
            \/ (\E t \in Workers : WorkerCrash(t))
    <2>1. UNCHANGED <<main, pc, port, procSktQueue, link, blame>>
      BY <1>29 DEF CenterServerCrash, At, Crash, DeleteUnset, WorkerCrash, On
    <2> QED
      BY <2>1
  <1>30. CASE UNCHANGED vars
    BY <1>30 DEF vars
  <1> QED
    BY <1>1, <1>2, <1>3, <1>4, <1>5, <1>6, <1>7, <1>8, <1>9, <1>10, <1>11,
       <1>12, <1>13, <1>14, <1>15, <1>16, <1>17, <1>18, <1>19, <1>20, <1>21,
       <1>22, <1>23, <1>24, <1>25, <1>26, <1>27, <1>28, <1>29, <1>30 DEF Next,
       StartStep, EndStep, WorkerStep, AccepterStep, RedisStep

LEMMA RequestsStep ==
  ASSUME TypeOK, RequestsAfterSetManager, [Next]_vars
  PROVE  RequestsAfterSetManager'
  <1> USE DEF flags, objects, queues, threads, world, RequestsAfterSetManager
  <1>1. CASE CreateWorkThread
    BY <1>1 DEF CreateWorkThread, MakeThreads, Run, At, Blame, Threads
  <1>2. CASE CreateAccepterThread
    BY <1>2 DEF CreateAccepterThread, MakeThreads, Run, At, Blame, Threads
  <1>3. CASE RedisRun
    BY <1>3 DEF RedisRun, Go, At, Run, Blame, Threads
  <1>4. CASE SetManager
    BY <1>4 DEF SetManager, Go, At
  <1>5. ASSUME NEW t \in Workers, WorkerLooks(t)
       PROVE  RequestsAfterSetManager'
    BY <1>5 DEF WorkerLooks, On, Goto
  <1>6. ASSUME NEW t \in Workers, WorkerTakes(t)
       PROVE  RequestsAfterSetManager'
    BY <1>6 DEF WorkerTakes, On, Goto
  <1>7. ASSUME NEW t \in Accepters, Ends(t, accepterRun)
       PROVE  RequestsAfterSetManager'
    BY <1>7 DEF Ends, On, Goto
  <1>8. ASSUME NEW t \in RedisThreads, Ends(t, redisRun)
       PROVE  RequestsAfterSetManager'
    BY <1>8 DEF Ends, On, Goto
  <1>9. ASSUME NEW t \in RedisThreads, RedisTakes(t)
       PROVE  RequestsAfterSetManager'
    BY <1>9 DEF RedisTakes, On, Goto
  <1>10. ASSUME NEW t \in RedisThreads, RedisReplies(t)
       PROVE  RequestsAfterSetManager'
    BY <1>10 DEF RedisReplies, On, Goto, Crash
  <1>11. CASE \/ InitServer \/ NewManagers \/ PushSlot \/ InsertUser
            \/ NewMySQLManager \/ SetRanking \/ SetRankingCrash
            \/ CenterServerConnect \/ CenterServerCrash \/ Command \/ StopFlags
            \/ PostWakeUps \/ JoinWorkThreads \/ DeleteRedisManager
            \/ DeleteUnset \/ JoinRedisThreads \/ DeleteConnUsersManager
            \/ (\E t \in Workers : WorkerCrash(t))
            \/ (\E t \in Accepters : AccepterTakes(t))
            \/ (\E s \in Slots : Arrive(s)) \/ (\E s \in Slots : Receive(s))
    <2>1. UNCHANGED <<pc, procSktQueue, managerSet>>
      BY <1>11 DEF InitServer, Go, At, Blame, NewManagers, ToMake, PushSlot,
         InsertUser, NewMySQLManager, SetRanking, SetRankingCrash, Crash,
         CenterServerConnect, CenterServerCrash, Command, StopFlags,
         PostWakeUps, JoinWorkThreads, DeleteRedisManager, DeleteUnset,
         JoinRedisThreads, DeleteConnUsersManager, WorkerCrash, On,
         AccepterTakes, Arrive, Receive
    <2> QED
      BY <2>1
  <1>12. CASE UNCHANGED vars
    BY <1>12 DEF vars
  <1> QED
    BY <1>1, <1>2, <1>3, <1>4, <1>5, <1>6, <1>7, <1>8, <1>9, <1>10, <1>11,
       <1>12 DEF Next, StartStep, EndStep, WorkerStep, AccepterStep, RedisStep

-----------------------------------------------------------------------------
(* Crashes.  The two uses that threads make are of what Started and Joined say
   is there as long as a thread can use it. *)

LEMMA WorkerCrashes ==
  ASSUME IInv, NEW t \in Workers, WorkerCrash(t)
  PROVE  /\ main \in Starting => blame # {}
         /\ main \notin Starting => blame \cap {"init", "threads"} # {}
  <1>1. pc[t] = "wait"
    BY DEF WorkerCrash, On
  <1>2. main # "init"
    BY <1>1 DEF IInv, Joined
  <1>3. CASE inited = "nothing"
    BY <1>2, <1>3 DEF IInv, Started
  <1>4. CASE port # <<>> /\ (HasUser(Head(port).slot) => ~ (redisManager = "made" /\ managerSet))
    <2>1. Head(port).slot \in Slots
      BY <1>4, TypeParts, PortMoves, CenterIsSlot DEF IInv, PortType, Packets, NullPacket
    <2>2. CASE main \in Starting
      BY <1>4, <2>2 DEF IInv, EarlyOnly
    <2>3. CASE main \notin Starting
      <3>1. main \notin {"delete redisManager", "join redisThreads",
                        "delete connUsersManager", "ended"}
        BY <1>1 DEF IInv, Joined
      <3> QED
        BY <1>4, <2>1, <2>3, <3>1 DEF IInv, Started, HasUser
    <2> QED
      BY <2>2, <2>3
  <1> QED
    BY <1>3, <1>4 DEF WorkerCrash

LEMMA RedisCrashes ==
  ASSUME IInv, NEW t \in RedisThreads, RedisReplies(t), ~ crashed, crashed'
  PROVE  /\ main \in Starting => blame # {}
         /\ main \notin Starting => blame \cap {"init", "threads"} # {}
  <1>1. pc[t] = "handle"
    BY DEF RedisReplies, On
  <1>2. job[t] \in Slots
    BY TypeParts DEF IInv, ThreadType
  <1>3. ~ (HasUser(job[t]) /\ redisManager = "made" /\ mySQL # "unset" /\ redis)
    BY DEF RedisReplies
  <1>4. redis /\ mySQL = "free"
    BY <1>1 DEF IInv, Joined, RequestsAfterSetManager, MySQLOrder
  <1>5. CASE main \in Starting
    BY <1>1, <1>5 DEF IInv, EarlyOnly
  <1>6. CASE main \notin Starting
    <2>1. main \notin {"delete connUsersManager", "ended"}
      BY <1>1 DEF IInv, Joined
    <2> QED
      BY <1>2, <1>3, <1>4, <1>6, <2>1 DEF IInv, Started, HasUser
  <1> QED
    BY <1>5, <1>6

LEMMA DefinedStep ==
  ASSUME IInv, [Next]_vars
  PROVE  DefinedOnceStarted'
  <1>1. CASE SetRankingCrash
    BY <1>1 DEF SetRankingCrash, At, Crash, IInv, MySQLOrder, DefinedOnceStarted, Starting
  <1>2. CASE CenterServerCrash
    BY <1>2 DEF CenterServerCrash, At, Crash, IInv, Started, DefinedOnceStarted, Starting
  <1>3. CASE DeleteUnset
    BY <1>3 DEF DeleteUnset, At, Crash, IInv, Started, DefinedOnceStarted, Starting
  <1>4. ASSUME NEW t \in Workers, WorkerCrash(t)
       PROVE  DefinedOnceStarted'
    BY <1>4, WorkerCrashes DEF WorkerCrash, Crash, DefinedOnceStarted
  <1>5. ASSUME NEW t \in RedisThreads, RedisReplies(t)
       PROVE  DefinedOnceStarted'
    <2>1. ~ crashed
      BY <1>5 DEF RedisReplies, On
    <2>2. UNCHANGED <<main, blame>>
      BY <1>5 DEF RedisReplies, Crash
    <2> QED
      BY <1>5, <2>1, <2>2, RedisCrashes DEF DefinedOnceStarted
  <1>6. CASE \/ InitServer \/ CreateWorkThread \/ CreateAccepterThread
            \/ NewManagers \/ PushSlot \/ InsertUser \/ RedisRun
            \/ NewMySQLManager \/ SetRanking \/ SetManager
            \/ CenterServerConnect \/ Command \/ StopFlags \/ PostWakeUps
            \/ JoinWorkThreads \/ DeleteRedisManager \/ JoinRedisThreads
            \/ DeleteConnUsersManager \/ (\E t \in Workers : WorkerLooks(t))
            \/ (\E t \in Workers : WorkerTakes(t))
            \/ (\E t \in Accepters : Ends(t, accepterRun))
            \/ (\E t \in Accepters : AccepterTakes(t))
            \/ (\E t \in RedisThreads : Ends(t, redisRun))
            \/ (\E t \in RedisThreads : RedisTakes(t))
            \/ (\E s \in Slots : Arrive(s)) \/ (\E s \in Slots : Receive(s))
    <2>1. UNCHANGED <<crashed>>
      BY <1>6 DEF InitServer, Go, At, Blame, CreateWorkThread, MakeThreads,
         Run, CreateAccepterThread, NewManagers, ToMake, PushSlot, InsertUser,
         RedisRun, NewMySQLManager, SetRanking, SetManager, CenterServerConnect,
         Command, StopFlags, PostWakeUps, JoinWorkThreads, DeleteRedisManager,
         JoinRedisThreads, DeleteConnUsersManager, WorkerLooks, On, Goto,
         WorkerTakes, Ends, AccepterTakes, RedisTakes, Arrive, Receive
    <2>2. ~ crashed
      BY <1>6 DEF InitServer, Go, At, Blame, CreateWorkThread, MakeThreads,
         Run, CreateAccepterThread, NewManagers, ToMake, PushSlot, InsertUser,
         RedisRun, NewMySQLManager, SetRanking, SetManager, CenterServerConnect,
         Command, StopFlags, PostWakeUps, JoinWorkThreads, DeleteRedisManager,
         JoinRedisThreads, DeleteConnUsersManager, WorkerLooks, On, Goto,
         WorkerTakes, Ends, AccepterTakes, RedisTakes, Arrive, Receive
    <2> QED
      BY <2>1, <2>2 DEF DefinedOnceStarted
  <1>7. CASE UNCHANGED vars
    BY <1>7 DEF vars, IInv, DefinedOnceStarted
  <1> QED
    BY <1>1, <1>2, <1>3, <1>4, <1>5, <1>6, <1>7 DEF Next, StartStep, EndStep,
       WorkerStep, AccepterStep, RedisStep

-----------------------------------------------------------------------------
(* Before main has done anything nothing is there and nothing is under way. *)
THEOREM InitHolds == Init => IInv
  <1> SUFFICES ASSUME Init  PROVE IInv
    OBVIOUS
  <1>1. TypeOK
    <2>1. MainType
      BY CountsAssumption DEF Init, MainType, Starting
    <2>4. FlagType
      BY DEF Init, FlagType
    <2>5. PortType
      BY DEF Init, PortType
    <2>2. ThreadType
      BY CenterIsSlot DEF Init, ThreadType, Threads
    <2>3. LinkType
      BY CountsAssumption DEF Init, LinkType
    <2> QED
      BY <2>1, <2>2, <2>3, <2>4, <2>5, TypeParts
  <1>2. StartOrder /\ MySQLOrder /\ Started
    BY DEF Init, StartOrder, Made, MySQLOrder, Started, Starting
  <1>3. Joined /\ EarlyOnly /\ RequestsAfterSetManager /\ DefinedOnceStarted
    BY DEF Init, Joined, EarlyOnly, RequestsAfterSetManager, DefinedOnceStarted, Threads
  <1> QED
    BY <1>1, <1>2, <1>3 DEF IInv

(* No step of the main thread, of a worker, an accepter, a redis thread, a
   client or the centre server breaks the invariant. *)
THEOREM StepHolds == IInv /\ [Next]_vars => IInv'
  <1> SUFFICES ASSUME IInv, [Next]_vars  PROVE IInv'
    OBVIOUS
  <1>1. TypeOK /\ StartOrder /\ MainType /\ MySQLOrder
    BY TypeParts DEF IInv
  <1>2. TypeOK' /\ StartOrder' /\ MySQLOrder'
    BY <1>1, TypeStep, StartOrderStep, MySQLOrderStep
  <1>3. Started' /\ Joined'
    BY <1>1, StartedStep, JoinedStep DEF IInv
  <1>4. EarlyOnly' /\ RequestsAfterSetManager'
    BY EarlyOnlyStep, RequestsStep DEF IInv
  <1>5. DefinedOnceStarted'
    BY DefinedStep
  <1> QED
    BY <1>2, <1>3, <1>4, <1>5 DEF IInv

(* So it holds for ever. *)
THEOREM Invariant == Spec => []IInv
  BY InitHolds, StepHolds, PTL DEF Spec

-----------------------------------------------------------------------------
(* The state keeps its shape, for any number of threads and slots: no slot is
   made beyond the table, and no thread is joined that was not made. *)
THEOREM TypeCorrect == Spec => []TypeOK
  <1>1. IInv => TypeOK
    BY DEF IInv
  <1> QED
    BY <1>1, Invariant, PTL

(* After a start in which init and the making of threads succeeded nothing is
   used that is not there, to the end of ServerEnd, whatever clients do and
   whatever MySQL and Redis did; and a start that crashes had a failure or an
   early client (LoginServer::StartWork, ServerEnd, ~RedisManager). *)
THEOREM DefinedCorrect == Spec => []DefinedOnceStarted
  <1>1. IInv => DefinedOnceStarted
    BY DEF IInv
  <1> QED
    BY <1>1, Invariant, PTL

(* No redis thread is in a handler before the ranking is through with the
   connection to MySQL, although they run before it is made
   (RedisManager::init, SetManager). *)
THEOREM HandlersCorrect == Spec => []HandlersAfterMySQL
  <1>1. IInv => HandlersAfterMySQL
    BY DEF IInv, RequestsAfterSetManager, MySQLOrder, HandlersAfterMySQL
  <1> QED
    BY <1>1, Invariant, PTL

=============================================================================
