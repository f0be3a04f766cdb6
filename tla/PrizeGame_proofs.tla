-------------------------- MODULE PrizeGame_proofs --------------------------
(***************************************************************************)
(* Proofs about the prize server and its threaded client, for any number   *)
(* of threads, any length of the listening queue, and whether or not fork  *)
(* may fail.                                                               *)
(***************************************************************************)
EXTENDS PrizeGame, SequenceTheorems, TLAPS

First(c) == SubSeq(Reply(c), 1, 1)
Rest(c)  == SubSeq(Reply(c), 2, 2)

-----------------------------------------------------------------------------
(* The handler and the zombies *)

(* A dead server has left its zombies to init.                             *)
DeadHasNoZombies == spc = "dead" => Zombies = {}

ZombieInv == TypeOK /\ NoForgottenZombie /\ DeadHasNoZombies

-----------------------------------------------------------------------------
(* The life of one connection *)

(* The parent is at a connection it has no child for yet, or has just made *)
(* one.                                                                    *)
ParentAtWork ==
  /\ spc \in {"fork", "close"} => connfd \in Threads
  /\ spc = "fork" => child[connfd] = "none"

(* Who waits in the queue waits once, has sent or will send its number and *)
(* has no child.                                                           *)
Waiting ==
  /\ queue # <<>> => spc # "dead"
  /\ \A i \in 1..Len(queue) :
       /\ child[queue[i]] = "none"
       /\ tpc[queue[i]] \in {"send", "read", "killed"}
       /\ spc = "fork" => queue[i] # connfd
  /\ \A i, j \in 1..Len(queue) : queue[i] = queue[j] => i = j

(* Where a child is once it has replied, or has found its client gone.     *)
Served == {"close", "exit", "zombie", "reaped"}

InHand(c) == spc = "fork" /\ connfd = c

(* Before the answer: nothing has come back, and what is asked is only the *)
(* thread's own number.                                                    *)
Asked(c) ==
  /\ tpc[c] \in {"unborn", "connect"} =>
       child[c] = "none" /\ ~Queued(c) /\ ~InHand(c)
  /\ tpc[c] \in {"unborn", "connect", "send"} =>
       toServer[c] = <<>> /\ child[c] \in {"none", "read"}
  /\ toServer[c] \in {<<>>, <<c>>}
  /\ tpc[c] = "read" /\ child[c] \in {"none", "read"} => toServer[c] = <<c>>
  /\ child[c] = "reply" => got[c] = c
  /\ child[c] \in {"none", "read", "reply"} =>
       /\ toClient[c] = <<>> /\ printed[c] = <<>> /\ ~short[c]
       /\ tpc[c] # "readAgain"

(* Somebody has the connection open until it is answered, or the server is *)
(* dead.                                                                   *)
Held(c) ==
  /\ tpc[c] \in {"send", "read"} /\ child[c] = "none" =>
       Queued(c) \/ InHand(c) \/ spc = "dead"
  /\ child[c] \in {"read", "reply"} => <<c, c>> \in fds
  /\ InHand(c) => <<Server, c>> \in fds
  /\ tpc[c] = "done" => spc = "dead" \/ child[c] \in Served
  /\ tpc[c] = "done" => child[c] \notin {"read", "reply"}
  /\ c \in gone => tpc[c] \in {"done", "killed"}

(* After the answer: what is printed and what is still on its way is the   *)
(* answer, less what a read at the end of the loop has thrown away.        *)
Answered(c) ==
  /\ tpc[c] = "read" /\ child[c] \in Served =>
       \/ printed[c] = <<>> /\ toClient[c] = Reply(c) /\ ~short[c]
       \/ printed[c] = Reply(c) /\ toClient[c] = <<>> /\ ~short[c]
       \/ printed[c] = First(c) /\ toClient[c] = <<>> /\ short[c]
  /\ tpc[c] = "readAgain" =>
       \/ printed[c] = Reply(c) /\ toClient[c] = <<>> /\ ~short[c]
       \/ printed[c] = First(c) /\ toClient[c] = Rest(c) /\ short[c]
  /\ tpc[c] = "done" =>
       \/ printed[c] = Reply(c) /\ ~short[c]
       \/ printed[c] = First(c) /\ short[c]
       \/ printed[c] = <<>> /\ spc = "dead"

Life(c) == Asked(c) /\ Held(c) /\ Answered(c)

GameInv == TypeOK /\ ParentAtWork /\ Waiting /\ \A c \in Threads : Life(c)

-----------------------------------------------------------------------------
(* Types *)

(* The server and the client start with nothing connected.                 *)
LEMMA InitTypes == Init => TypeOK
<1> SUFFICES ASSUME Init PROVE TypeOK
  OBVIOUS
<1> USE DEF Init
<1>1. NetTypeOK
  BY NetAssumption DEF NoConnections, NetTypeOK
<1>2. ServerTypeOK
  BY DEF SInit, ServerTypeOK
<1>3. ClientTypeOK
  BY NetAssumption DEF CInit, ClientTypeOK
<1> QED
  BY <1>1, <1>2, <1>3 DEF TypeOK

(* What the server does keeps the net's and its own variables in their     *)
(* domains.                                                                *)
LEMMA ServerTypes ==
  ASSUME NetTypeOK, ServerTypeOK, SNext
  PROVE  NetTypeOK' /\ ServerTypeOK'
<1> USE DEF MainGoto, ChildGoto, net
<1>1. CASE Accept
  <2>1. /\ Head(queue) \in Threads /\ Tail(queue) \in Seq(Threads)
        /\ Len(Tail(queue)) <= Len(queue)
    BY <1>1, HeadTailProperties DEF Accept, NetTypeOK
  <2> QED
    BY <1>1, <2>1, LenProperties, NetAssumption
    DEF Accept, NetTypeOK, ServerTypeOK
<1>2. CASE Fork
  <2>1. fds' \subseteq ({Server} \cup Threads) \X Threads
    <3>1. connfd \in {Server} \cup Threads
      BY DEF ServerTypeOK, Server
    <3>2. \A f \in fds' : f \in fds \/ \E c \in Threads : f = <<connfd, c>>
      BY <1>2 DEF Fork
    <3>3. fds \subseteq ({Server} \cup Threads) \X Threads
      BY DEF NetTypeOK
    <3> QED
      BY <3>1, <3>2, <3>3
  <2>2. child' \in [Threads -> {"none", "read", "reply", "close", "exit",
                              "zombie", "reaped"}]
    BY <1>2 DEF Fork, ServerTypeOK
  <2> QED
    BY <1>2, <2>1, <2>2 DEF Fork, NetTypeOK, ServerTypeOK
<1>3. CASE CallFails
  <2>1. queue' \in Seq(Threads) /\ Len(queue') <= Backlog
    BY <1>3, NetAssumption DEF CallFails
  <2> QED
    BY <1>3, <2>1 DEF CallFails, NetTypeOK, ServerTypeOK
<1>4. CASE CloseParent
  BY <1>4 DEF CloseParent, NetTypeOK, ServerTypeOK
<1>5. CASE Handler
  BY <1>5 DEF Handler, Deliver, WaitPid, HandlerReturns, Zombies, NetTypeOK, ServerTypeOK
<1>6. ASSUME NEW c \in Threads, ChildRead(c) PROVE NetTypeOK' /\ ServerTypeOK'
  <2>1. /\ Head(toServer[c]) \in Threads
        /\ Tail(toServer[c]) \in Seq(Threads)
    BY <1>6, HeadTailProperties DEF ChildRead, NetTypeOK
  <2>2. NetTypeOK'
    BY <1>6, <2>1 DEF ChildRead, NetTypeOK
  <2>3. ServerTypeOK'
    BY <1>6, <2>1 DEF ChildRead, ServerTypeOK
  <2> QED
    BY <2>2, <2>3
<1>7. ASSUME NEW c \in Threads, ChildReadEnd(c) PROVE NetTypeOK' /\ ServerTypeOK'
  BY <1>7 DEF ChildReadEnd, NetTypeOK, ServerTypeOK
<1>8. ASSUME NEW c \in Threads, ChildReply(c) PROVE NetTypeOK' /\ ServerTypeOK'
  <2>1. Reply(got[c]) \in Seq(Halves)
    BY DEF ServerTypeOK, Reply, Halves
  <2>2. toClient' \in [Threads -> Seq(Halves)]
    BY <1>8, <2>1, ConcatProperties DEF ChildReply, NetTypeOK
  <2> QED
    BY <1>8, <2>2 DEF ChildReply, NetTypeOK, ServerTypeOK
<1>9. ASSUME NEW c \in Threads, ChildClose(c) PROVE NetTypeOK' /\ ServerTypeOK'
  BY <1>9 DEF ChildClose, NetTypeOK, ServerTypeOK
<1>10. ASSUME NEW c \in Threads, ChildExit(c) PROVE NetTypeOK' /\ ServerTypeOK'
  BY <1>10 DEF ChildExit, NetTypeOK, ServerTypeOK
<1> QED
  BY <1>1, <1>2, <1>3, <1>4, <1>5, <1>6, <1>7, <1>8, <1>9, <1>10
  DEF SNext, Main, Child

(* So does what the client does.                                           *)
LEMMA ClientTypes ==
  ASSUME NetTypeOK, ClientTypeOK,
         NEW on, Create \/ Join \/ \E c \in Threads : Thread(c, on)
  PROVE  NetTypeOK' /\ ClientTypeOK'
<1> USE DEF Goto, net
<1>1. CASE Create \/ Join
  <2>1. started' \in 0..N /\ joined' \in 0..N
    BY <1>1, NetAssumption DEF Create, Join, ClientTypeOK
  <2> QED
    BY <1>1, <2>1 DEF Create, Join, NetTypeOK, ClientTypeOK
<1>2. ASSUME NEW c \in Threads, Connect(c, on) PROVE NetTypeOK' /\ ClientTypeOK'
  <2>1. queue' \in Seq(Threads) /\ Len(queue') = Len(queue) + 1
    BY <1>2, AppendProperties DEF Connect, NetTypeOK
  <2> QED
    BY <1>2, <2>1, NetAssumption, LenProperties
    DEF Connect, NetTypeOK, ClientTypeOK
<1>3. ASSUME NEW c \in Threads, Refused(c, on) PROVE NetTypeOK' /\ ClientTypeOK'
  BY <1>3 DEF Refused, NetTypeOK, ClientTypeOK
<1>4. ASSUME NEW c \in Threads, Send(c) PROVE NetTypeOK' /\ ClientTypeOK'
  <2>1. toServer' \in [Threads -> Seq(Threads)]
    BY <1>4, AppendProperties DEF Send, NetTypeOK
  <2> QED
    BY <1>4, <2>1 DEF Send, NetTypeOK, ClientTypeOK
<1>5. ASSUME NEW c \in Threads, NEW n \in 1..2, Take(c, n)
      PROVE  /\ toClient' \in [Threads -> Seq(Halves)]
             /\ SubSeq(toClient[c], 1, n) \in Seq(Halves)
  <2>1. toClient[c] \in Seq(Halves) /\ Len(toClient[c]) \in Nat
    BY LenProperties DEF NetTypeOK
  <2>2. /\ SubSeq(toClient[c], n + 1, Len(toClient[c])) \in Seq(Halves)
        /\ SubSeq(toClient[c], 1, n) \in Seq(Halves)
    BY <1>5, <2>1, SubSeqProperties, ElementOfSeq DEF Take
  <2> QED
    BY <1>5, <2>2 DEF Take, NetTypeOK
<1>6. ASSUME NEW c \in Threads, Read(c) PROVE NetTypeOK' /\ ClientTypeOK'
  <2>1. PICK n \in 1..2 :
          /\ Take(c, n)
          /\ printed' = [printed EXCEPT ![c] = @ \o SubSeq(toClient[c], 1, n)]
          /\ short' = [short EXCEPT ![c] = @ \/ n < 2]
    BY <1>6 DEF Read
  <2>2. short' \in [Threads -> BOOLEAN]
    BY <2>1 DEF ClientTypeOK
  <2>3. printed' \in [Threads -> Seq(Halves)]
    BY <1>5, <2>1, ConcatProperties DEF ClientTypeOK
  <2>4. NetTypeOK'
    BY <1>5, <1>6, <2>1 DEF Read, NetTypeOK
  <2>5. ClientTypeOK'
    BY <1>6, <2>2, <2>3 DEF Read, ClientTypeOK
  <2> QED
    BY <2>4, <2>5
<1>7. ASSUME NEW c \in Threads, ReadAgain(c) PROVE NetTypeOK' /\ ClientTypeOK'
  <2>1. toClient' \in [Threads -> Seq(Halves)]
    BY <1>5, <1>7 DEF ReadAgain, NetTypeOK
  <2> QED
    BY <1>7, <2>1 DEF ReadAgain, NetTypeOK, ClientTypeOK
<1>8. ASSUME NEW c \in Threads, ReadEnd(c) PROVE NetTypeOK' /\ ClientTypeOK'
  BY <1>8 DEF ReadEnd, NetTypeOK, ClientTypeOK
<1> QED
  BY <1>1, <1>2, <1>3, <1>4, <1>6, <1>7, <1>8 DEF Thread

(* Every step keeps every variable in its domain.                          *)
LEMMA StepTypes == TypeOK /\ [Next]_vars => TypeOK'
<1> SUFFICES ASSUME TypeOK, [Next]_vars PROVE TypeOK'
  OBVIOUS
<1> USE DEF TypeOK
<1>1. CASE Serve
  BY <1>1, ServerTypes DEF Serve, cvars, ClientTypeOK
<1>2. CASE Starts \/ \E c \in Threads : Play(c)
  BY <1>2, ClientTypes DEF Starts, Play, svars, ServerTypeOK
<1>3. CASE UNCHANGED vars
  BY <1>3 DEF vars, net, svars, cvars, NetTypeOK, ServerTypeOK, ClientTypeOK
<1> QED
  BY <1>1, <1>2, <1>3 DEF Next, Quiet

-----------------------------------------------------------------------------
(* The handler and the zombies *)

(* The server starts with no child.                                        *)
LEMMA InitZombies == Init => ZombieInv
BY InitTypes
DEF Init, SInit, ZombieInv, NoForgottenZombie, DeadHasNoZombies, Zombies

(* A child that ends raises the signal, and the handler goes round until   *)
(* there is no zombie (server.c:134).                                      *)
LEMMA StepZombies == ZombieInv /\ [Next]_vars => ZombieInv'
<1> SUFFICES ASSUME ZombieInv, [Next]_vars PROVE ZombieInv'
  OBVIOUS
<1> DEFINE Z == NoForgottenZombie /\ DeadHasNoZombies
<1>1. Z /\ ServerTypeOK
  BY DEF ZombieInv, TypeOK
<1>2. ASSUME SNext PROVE Z'
  <2> USE <1>1
      DEF MainGoto, ChildGoto, ServerTypeOK, NoForgottenZombie,
          DeadHasNoZombies, Zombies
  <2>1. CASE Main
    BY <2>1 DEF Main, Accept, Fork, CallFails, CloseParent
  <2>2. CASE Handler
    BY <2>2 DEF Handler, Deliver, WaitPid, HandlerReturns
  <2>3. ASSUME NEW c \in Threads, Child(c) PROVE Z'
    BY <2>3 DEF Child, ChildRead, ChildReadEnd, ChildReply, ChildClose, ChildExit
  <2> QED
    BY <1>2, <2>1, <2>2, <2>3 DEF SNext
<1>3. ASSUME UNCHANGED svars PROVE Z'
  BY <1>1, <1>3 DEF svars, NoForgottenZombie, DeadHasNoZombies, Zombies
<1>4. SNext \/ UNCHANGED svars
  BY DEF Next, Serve, Starts, Play, Quiet, vars
<1> QED
  BY <1>2, <1>3, <1>4, StepTypes DEF ZombieInv

(* server.c:134: however many children end while the handler runs, a       *)
(* zombie is never left without a pending signal or a handler that still   *)
(* goes round.                                                             *)
THEOREM NoZombieIsForgotten == Spec => []NoForgottenZombie
<1>1. ZombieInv => NoForgottenZombie
  BY DEF ZombieInv
<1> QED
  BY <1>1, InitZombies, StepZombies, PTL DEF Spec

-----------------------------------------------------------------------------
(* The life of one connection *)

(* Every thread's connection begins its life at the start.                 *)
LEMMA InitGame == Init => GameInv
<1> SUFFICES ASSUME Init PROVE GameInv
  OBVIOUS
<1>1. ASSUME NEW c \in Threads PROVE Life(c)
  BY DEF Init, NoConnections, SInit, CInit, Life, Asked, Held, Answered,
     Queued, InHand, Served
<1>2. ParentAtWork /\ Waiting
  BY DEF Init, NoConnections, SInit, ParentAtWork, Waiting
<1> QED
  BY <1>1, <1>2, InitTypes DEF GameInv

(* What others do to the sockets does not change the life of a connection  *)
(* that keeps its descriptors.                                             *)
Same(c) ==
  /\ tpc'[c] = tpc[c] /\ got'[c] = got[c]
  /\ child'[c] = child[c] \/ (child[c] \in Served /\ child'[c] \in Served)
  /\ toServer'[c] = toServer[c] /\ toClient'[c] = toClient[c]
  /\ printed'[c] = printed[c] /\ short'[c] = short[c]
  /\ c \in gone' => c \in gone
  /\ Queued(c)' <=> Queued(c) /\ spc' # "dead"
  /\ InHand(c)' <=> InHand(c) /\ spc' # "dead"
  /\ spc = "dead" => spc' = "dead"
  /\ InHand(c)' => <<Server, c>> \in fds'
  /\ child[c] \in {"read", "reply"} => <<c, c>> \in fds'

(* Then its life is what it was.                                           *)
LEMMA SameLife ==
  ASSUME NEW c \in Threads, Life(c), Same(c)
  PROVE  Life(c)'
<1> USE DEF Life, Same, Served
<1>1. Asked(c)'
  BY DEF Asked
<1>2. Held(c)'
  BY DEF Held
<1>3. Answered(c)'
  BY DEF Answered
<1> QED
  BY <1>1, <1>2, <1>3

(* Main of the server.                                                     *)
LEMMA MainGame ==
  ASSUME GameInv, TypeOK', Main, UNCHANGED cvars
  PROVE  GameInv'
<1> DEFINE Ends == ParentAtWork' /\ Waiting' /\ \A c \in Threads : Life(c)'
<1> SUFFICES Ends
  BY DEF GameInv
<1> USE DEF cvars, MainGoto, ChildGoto
<1>1. /\ TypeOK /\ NetTypeOK /\ ServerTypeOK /\ ParentAtWork /\ Waiting
      /\ \A c \in Threads : Life(c) /\ Held(c)
  BY DEF GameInv, TypeOK, Life
<1>2. Len(queue) \in Nat /\ Server \notin Threads
  BY <1>1, LenProperties, NetAssumption DEF NetTypeOK, Threads, Server
<1>3. ASSUME Accept PROVE Ends
  <2>0. PICK d \in Threads : d = Head(queue)
    BY <1>1, <1>3, HeadTailProperties DEF Accept, NetTypeOK
  <2>1. /\ d = queue[1] /\ 1 \in 1..Len(queue)
        /\ Len(queue') = Len(queue) - 1
        /\ \A i \in 1..Len(queue') : queue'[i] = queue[i + 1] /\ i + 1 \in 1..Len(queue)
    BY <1>1, <1>2, <1>3, <2>0, HeadTailProperties, EmptySeq DEF Accept, NetTypeOK
  <2>2. ASSUME NEW c \in Threads
        PROVE  Queued(c)' <=> Queued(c) /\ c # d
    <3>1. ASSUME Queued(c)' PROVE Queued(c) /\ c # d
      BY <1>1, <2>1, <3>1 DEF Queued, Waiting
    <3>2. ASSUME Queued(c), c # d PROVE Queued(c)'
      <4>1. PICK i \in 1..Len(queue) : queue[i] = c
        BY <3>2 DEF Queued
      <4>2. i - 1 \in 1..Len(queue')
        BY <1>2, <2>1, <3>2, <4>1
      <4>3. queue'[i - 1] = queue[i]
        BY <1>2, <2>1, <4>2
      <4> QED
        BY <4>1, <4>2, <4>3 DEF Queued
    <3> QED
      BY <3>1, <3>2
  <2>3. ASSUME NEW c \in Threads, c # d PROVE Life(c)'
    <3>1. Same(c)
      <4>1. ~InHand(c) /\ ~InHand(c)' /\ spc # "dead" /\ spc' # "dead"
        BY <1>3, <2>0, <2>3 DEF Accept, InHand
      <4> QED
        BY <1>1, <1>3, <2>2, <2>3, <4>1 DEF Accept, Same, Held
    <3> QED
      BY <1>1, <3>1, SameLife
  <2>4. Life(d)'
    <3>1. child[d] = "none" /\ tpc[d] \in {"send", "read", "killed"}
      BY <1>1, <2>1 DEF Waiting
    <3>2. InHand(d)' /\ ~Queued(d)' /\ <<Server, d>> \in fds'
      BY <1>3, <2>0, <2>1, <2>2 DEF Accept, InHand
    <3> QED
      BY <1>1, <1>3, <2>1, <3>1, <3>2 DEF Accept, Life, Asked, Held, Answered
  <2>5. ParentAtWork'
    BY <1>1, <1>3, <2>0, <2>1 DEF Accept, ParentAtWork, Waiting
  <2>6. Waiting'
    BY <1>1, <1>2, <1>3, <2>0, <2>1 DEF Accept, Waiting
  <2> QED
    BY <2>3, <2>4, <2>5, <2>6
<1>4. ASSUME Fork PROVE Ends
  <2>1. PICK d \in Threads : d = connfd /\ InHand(d)
    BY <1>1, <1>4 DEF Fork, ParentAtWork, InHand
  <2>2. ASSUME NEW c \in Threads, c # d PROVE Life(c)'
    <3>1. Same(c)
      <4>1. ~InHand(c) /\ ~InHand(c)' /\ spc # "dead" /\ spc' # "dead"
        BY <1>4, <2>1, <2>2 DEF Fork, InHand
      <4>2. child'[c] = child[c] /\ fds \subseteq fds'
        BY <1>1, <1>4, <2>1, <2>2 DEF Fork, ServerTypeOK
      <4> QED
        BY <1>1, <1>4, <4>1, <4>2 DEF Fork, Same, Held, Queued
    <3> QED
      BY <1>1, <3>1, SameLife
  <2>3. Life(d)'
    <3>1. <<d, d>> \in fds' /\ child'[d] = "read"
      BY <1>1, <1>4, <2>1 DEF Fork, Life, Held, ServerTypeOK
    <3>2. ~Queued(d)'
      BY <1>1, <1>4, <2>1 DEF Fork, Waiting, Queued
    <3> QED
      BY <1>1, <1>4, <2>1, <3>1, <3>2
      DEF Fork, Life, Asked, Held, Answered, InHand, Served, Queued
  <2>4. ParentAtWork'
    BY <1>4, <2>1 DEF Fork, ParentAtWork
  <2>5. Waiting'
    <3>1. ASSUME NEW i \in 1..Len(queue)
          PROVE  child'[queue[i]] = child[queue[i]]
      BY <1>1, <1>4, <2>1 DEF Fork, Waiting, NetTypeOK, ServerTypeOK
    <3> QED
      BY <1>1, <1>4, <3>1 DEF Fork, Waiting
  <2> QED
    BY <2>2, <2>3, <2>4, <2>5
<1>5. ASSUME CallFails PROVE Ends
  <2>1. ASSUME NEW c \in Threads PROVE Life(c)'
    <3>1. Same(c)
      <4>1. ~InHand(c)' /\ ~Queued(c)' /\ spc # "dead" /\ spc' = "dead"
        BY <1>5, EmptySeq DEF CallFails, InHand, Queued
      <4>2. child'[c] = child[c] \/ (child[c] \in Served /\ child'[c] \in Served)
        BY <1>1, <1>5 DEF CallFails, ServerTypeOK, Zombies, Served
      <4>3. child[c] \in {"read", "reply"} => <<c, c>> \in fds'
        BY <1>1, <1>2, <1>5 DEF CallFails, Held
      <4> QED
        BY <1>5, <4>1, <4>2, <4>3 DEF CallFails, Same
    <3> QED
      BY <1>1, <3>1, SameLife
  <2>2. ParentAtWork' /\ Waiting'
    BY <1>5, EmptySeq DEF CallFails, ParentAtWork, Waiting
  <2> QED
    BY <2>1, <2>2
<1>6. ASSUME CloseParent PROVE Ends
  <2>1. ASSUME NEW c \in Threads PROVE Life(c)'
    <3>1. Same(c)
      BY <1>1, <1>2, <1>6, <2>1 DEF CloseParent, Same, InHand, Queued, Life, Held, Waiting
    <3> QED
      BY <1>1, <3>1, SameLife
  <2>2. ParentAtWork' /\ Waiting'
    BY <1>1, <1>6 DEF CloseParent, ParentAtWork, Waiting
  <2> QED
    BY <2>1, <2>2
<1> QED
  BY <1>3, <1>4, <1>5, <1>6 DEF Main

(* The handler and the children.                                           *)
LEMMA OthersGame ==
  ASSUME GameInv, TypeOK', Handler \/ (\E d \in Threads : Child(d)),
         UNCHANGED cvars
  PROVE  GameInv'
<1> DEFINE Ends == ParentAtWork' /\ Waiting' /\ \A c \in Threads : Life(c)'
<1> SUFFICES Ends
  BY DEF GameInv
<1> USE DEF cvars, net, ChildGoto
<1>1. /\ TypeOK /\ NetTypeOK /\ ServerTypeOK /\ ParentAtWork /\ Waiting
      /\ \A c \in Threads : Life(c) /\ Asked(c) /\ Held(c) /\ Answered(c)
  BY DEF GameInv, TypeOK, Life
<1>2. Server \notin Threads
  BY NetAssumption DEF Threads, Server
<1>3. ASSUME NEW d \in Threads, child[d] # "none", NEW to,
             child' = [child EXCEPT ![d] = to],
             UNCHANGED <<queue, tpc, spc, connfd>>
      PROVE  ParentAtWork' /\ Waiting'
  <2>1. ASSUME NEW i \in 1..Len(queue)
        PROVE  child'[queue[i]] = child[queue[i]]
    BY <1>1, <1>3 DEF Waiting, NetTypeOK, ServerTypeOK
  <2> QED
    BY <1>1, <1>3, <2>1 DEF ParentAtWork, Waiting, ServerTypeOK
<1>4. ASSUME NEW d \in Threads, child[d] # "none", NEW to,
             child' = [child EXCEPT ![d] = to],
             UNCHANGED <<queue, tpc, spc, connfd, printed, short, gone>>,
             \A c \in Threads \ {d} :
               /\ UNCHANGED <<toServer[c], toClient[c], got[c]>>
               /\ <<c, c>> \in fds => <<c, c>> \in fds'
               /\ <<Server, c>> \in fds => <<Server, c>> \in fds',
             NEW c \in Threads, c # d
      PROVE  Life(c)'
  <2>1. UNCHANGED <<Queued(c), InHand(c)>>
    BY <1>4 DEF Queued, InHand
  <2>2. child'[c] = child[c]
    BY <1>1, <1>4 DEF ServerTypeOK
  <2>3. InHand(c) => spc # "dead"
    BY DEF InHand
  <2>4. Queued(c) => spc # "dead"
    BY <1>1, EmptySeq DEF Queued, Waiting
  <2>5. Same(c)
    BY <1>1, <1>4, <2>1, <2>2, <2>3, <2>4 DEF Same, Held
  <2> QED
    BY <1>1, <2>5, SameLife
<1>5. ASSUME UNCHANGED <<queue, tpc, spc, connfd, printed, short, gone, got,
                         toServer, toClient>>,
             \A c \in Threads :
               /\ child'[c] = child[c] \/ (child[c] \in Served /\ child'[c] \in Served)
               /\ <<Server, c>> \in fds => <<Server, c>> \in fds'
               /\ child[c] \in {"read", "reply"} => <<c, c>> \in fds',
             NEW c \in Threads
      PROVE  Life(c)'
  <2>1. UNCHANGED <<Queued(c), InHand(c)>>
    BY <1>5 DEF Queued, InHand
  <2>2. InHand(c) => spc # "dead"
    BY DEF InHand
  <2>3. Queued(c) => spc # "dead"
    BY <1>1, EmptySeq DEF Queued, Waiting
  <2>4. Same(c)
    BY <1>1, <1>5, <2>1, <2>2, <2>3 DEF Same, Held
  <2> QED
    BY <1>1, <2>4, SameLife
<1>6. ASSUME Handler PROVE Ends
  <2>1. CASE Deliver \/ HandlerReturns
    BY <1>1, <1>5, <2>1
    DEF Deliver, HandlerReturns, ParentAtWork, Waiting, Held, InHand
  <2>2. CASE WaitPid
    <3>1. PICK d \in Threads : ChildGoto(d, "zombie", "reaped")
      BY <2>2 DEF WaitPid, Zombies
    <3>2. \A c \in Threads :
            child'[c] = child[c] \/ (child[c] \in Served /\ child'[c] \in Served)
      BY <1>1, <3>1 DEF ServerTypeOK, Served
    <3> QED
      BY <1>1, <1>3, <1>5, <2>2, <3>1, <3>2 DEF WaitPid, Held
  <2> QED
    BY <1>6, <2>1, <2>2 DEF Handler
<1>7. ASSUME NEW d \in Threads, ChildRead(d) PROVE Ends
  <2>1. /\ toServer[d] = <<d>> /\ child[d] = "read"
        /\ tpc[d] \notin {"unborn", "connect", "send"}
    BY <1>1, <1>7 DEF ChildRead, Asked
  <2>2. got'[d] = d /\ toServer'[d] = <<>> /\ child'[d] = "reply"
    BY <1>1, <1>7, <2>1 DEF ChildRead, ServerTypeOK, NetTypeOK
  <2>3. Life(d)'
    BY <1>1, <1>7, <2>1, <2>2
    DEF ChildRead, Life, Asked, Held, Answered, Served, InHand
  <2>4. ASSUME NEW c \in Threads, c # d PROVE Life(c)'
    BY <1>1, <1>4, <1>7, <2>4 DEF ChildRead, NetTypeOK, ServerTypeOK
  <2> QED
    BY <1>3, <1>7, <2>3, <2>4 DEF ChildRead
<1>8. ASSUME NEW d \in Threads, ChildReadEnd(d) PROVE Ends
  <2>1. tpc[d] = "killed" /\ child'[d] = "close"
    BY <1>1, <1>8 DEF ChildReadEnd, Held, ServerTypeOK
  <2>2. Life(d)'
    BY <1>1, <1>8, <2>1
    DEF ChildReadEnd, Life, Asked, Held, Answered, Served, InHand
  <2>3. ASSUME NEW c \in Threads, c # d PROVE Life(c)'
    BY <1>4, <1>8, <2>3 DEF ChildReadEnd
  <2> QED
    BY <1>3, <1>8, <2>2, <2>3 DEF ChildReadEnd
<1>9. ASSUME NEW d \in Threads, ChildReply(d) PROVE Ends
  <2>1. /\ tpc[d] \in {"read", "killed"} /\ got[d] = d
        /\ toClient[d] = <<>> /\ printed[d] = <<>> /\ ~short[d]
    BY <1>1, <1>9 DEF ChildReply, Asked, Held, GameInv, TypeOK, ClientTypeOK
  <2>2. toClient'[d] = Reply(d) /\ child'[d] = "close"
    <3>1. <<>> \o Reply(d) = Reply(d)
      BY DEF Reply
    <3> QED
      BY <1>1, <1>9, <2>1, <3>1 DEF ChildReply, NetTypeOK, ServerTypeOK
  <2>3. Life(d)'
    BY <1>1, <1>9, <2>1, <2>2
    DEF ChildReply, Life, Asked, Held, Answered, Served, InHand
  <2>4. ASSUME NEW c \in Threads, c # d PROVE Life(c)'
    BY <1>1, <1>4, <1>9, <2>4 DEF ChildReply, NetTypeOK
  <2> QED
    BY <1>3, <1>9, <2>3, <2>4 DEF ChildReply
<1>10. ASSUME NEW d \in Threads, ChildClose(d) \/ ChildExit(d) PROVE Ends
  <2>1. \A c \in Threads :
          /\ child'[c] = child[c] \/ (child[c] \in Served /\ child'[c] \in Served)
          /\ <<Server, c>> \in fds => <<Server, c>> \in fds'
          /\ child[c] \in {"read", "reply"} => <<c, c>> \in fds'
    BY <1>1, <1>2, <1>10 DEF ChildClose, ChildExit, ServerTypeOK, Served, Held
  <2> QED
    BY <1>3, <1>5, <1>10, <2>1 DEF ChildClose, ChildExit
<1> QED
  BY <1>6, <1>7, <1>8, <1>9, <1>10 DEF Child

(* A reply and its two halves.                                             *)
LEMMA ReplyHalves ==
  ASSUME NEW c \in Threads
  PROVE  /\ Len(Reply(c)) = 2 /\ Len(Rest(c)) = 1
         /\ SubSeq(Reply(c), 1, 2) = Reply(c)
         /\ SubSeq(Reply(c), 3, 2) = <<>> /\ SubSeq(Rest(c), 2, 1) = <<>>
         /\ First(c) # <<>> /\ Reply(c) # <<>>
         /\ <<>> \o Reply(c) = Reply(c) /\ <<>> \o First(c) = First(c)
<1> DEFINE S == {<<c, "head">>, <<c, "tail">>}
<1>1. Reply(c) \in Seq(S) /\ Len(Reply(c)) = 2
  BY DEF Reply
<1> HIDE DEF S
<1>2. \A i \in 1..2 : Reply(c)[i] \in S
  BY <1>1, ElementOfSeq
<1>3. First(c) \in Seq(S) /\ Len(First(c)) = 1
  BY <1>2, SubSeqProperties DEF First
<1>4. Rest(c) \in Seq(S) /\ Len(Rest(c)) = 1
  BY <1>2, SubSeqProperties DEF Rest
<1>5. First(c) # <<>> /\ Reply(c) # <<>>
  <2>1. Len(<<>>) = 0
    OBVIOUS
  <2>2. Len(Reply(c)) # Len(<<>>) /\ Len(First(c)) # Len(<<>>)
    BY <1>1, <1>3, <2>1
  <2> QED
    BY <2>2, Zenon
<1>6. SubSeq(Reply(c), 1, 2) = Reply(c)
  BY <1>1, SubSeqFull
<1>7. SubSeq(Reply(c), 3, 2) = <<>> /\ SubSeq(Rest(c), 2, 1) = <<>>
  BY SubSeqEmpty
<1>8. <<>> \o Reply(c) = Reply(c) /\ <<>> \o First(c) = First(c)
  BY <1>1, <1>3, ConcatEmptySeq
<1> QED
  BY <1>1, <1>4, <1>5, <1>6, <1>7, <1>8

(* The client: main and the threads.                                       *)
LEMMA ClientGame ==
  ASSUME GameInv, TypeOK', UNCHANGED svars,
         Create \/ Join \/ (\E d \in Threads : Thread(d, spc # "dead"))
  PROVE  GameInv'
<1> DEFINE Ends == ParentAtWork' /\ Waiting' /\ \A c \in Threads : Life(c)'
<1> SUFFICES Ends
  BY DEF GameInv
<1> USE DEF svars, net, Goto
<1>1. /\ TypeOK /\ NetTypeOK /\ ClientTypeOK /\ ParentAtWork /\ Waiting
      /\ \A c \in Threads : Life(c) /\ Asked(c) /\ Held(c) /\ Answered(c)
  BY DEF GameInv, TypeOK, Life
<1>2. ASSUME NEW c \in Threads,
             UNCHANGED <<tpc[c], toServer[c], toClient[c], printed[c], short[c],
                         fds>>,
             c \in gone' => c \in gone, Queued(c)' <=> Queued(c)
      PROVE  Life(c)'
  <2>1. UNCHANGED InHand(c) /\ (InHand(c) => spc # "dead")
    BY DEF InHand
  <2>2. Queued(c) => spc # "dead"
    BY <1>1, EmptySeq DEF Queued, Waiting
  <2>3. Same(c)
    BY <1>1, <1>2, <2>1, <2>2 DEF Same, Held
  <2> QED
    BY <1>1, <2>3, SameLife
<1>3. ASSUME NEW d \in Threads, NEW to, tpc' = [tpc EXCEPT ![d] = to],
             ~Queued(d) \/ to \in {"send", "read", "killed"},
             UNCHANGED queue
      PROVE  ParentAtWork' /\ Waiting'
  <2>1. ASSUME NEW i \in 1..Len(queue)
        PROVE  tpc'[queue[i]] \in {"send", "read", "killed"}
    <3>1. queue[i] \in Threads /\ tpc[queue[i]] \in {"send", "read", "killed"}
      BY <1>1 DEF Waiting, NetTypeOK
    <3>2. CASE queue[i] = d
      BY <1>1, <1>3, <3>2 DEF Queued, ClientTypeOK
    <3>3. CASE queue[i] # d
      BY <1>1, <1>3, <3>1, <3>3 DEF ClientTypeOK
    <3> QED
      BY <3>2, <3>3
  <2> QED
    BY <1>1, <1>3, <2>1 DEF ParentAtWork, Waiting
<1>4. ASSUME NEW d \in Threads, NEW to, tpc' = [tpc EXCEPT ![d] = to],
             UNCHANGED <<queue, fds>>,
             \A c \in Threads \ {d} :
               /\ UNCHANGED <<toServer[c], toClient[c], printed[c], short[c]>>
               /\ c \in gone' => c \in gone,
             NEW c \in Threads, c # d
      PROVE  Life(c)'
  <2>1. UNCHANGED Queued(c)
    BY <1>4 DEF Queued
  <2> QED
    BY <1>1, <1>2, <1>4, <2>1 DEF ClientTypeOK
<1>5. ASSUME Create PROVE Ends
  <2>1. PICK d \in Threads : d = started + 1
    BY <1>1, <1>5, NetAssumption DEF Create, ClientTypeOK, Threads
  <2>2. tpc[d] = "unborn" /\ tpc'[d] = "connect"
    BY <1>1, <1>5, <2>1 DEF Create, ClientTypeOK
  <2>3. Life(d)'
    BY <1>1, <1>5, <2>2
    DEF Create, Life, Asked, Held, Answered, Queued, InHand
  <2>4. ASSUME NEW c \in Threads, c # d PROVE Life(c)'
    BY <1>4, <1>5, <2>1, <2>4 DEF Create
  <2> QED
    BY <1>1, <1>3, <1>5, <2>1, <2>2, <2>3, <2>4 DEF Create, Asked
<1>6. ASSUME Join PROVE Ends
  BY <1>1, <1>2, <1>6 DEF Join, Queued, ParentAtWork, Waiting
<1>7. ASSUME NEW d \in Threads, Connect(d, spc # "dead") PROVE Ends
  <2>1. /\ queue' = Append(queue, d) /\ Len(queue) \in Nat
        /\ Len(queue') = Len(queue) + 1 /\ queue'[Len(queue) + 1] = d
        /\ \A i \in 1..Len(queue) : queue'[i] = queue[i]
    BY <1>1, <1>7, AppendProperties, LenProperties DEF Connect, NetTypeOK
  <2>2. tpc[d] = "connect" /\ tpc'[d] = "send" /\ ~Queued(d)
    BY <1>1, <1>7 DEF Connect, ClientTypeOK, Asked
  <2>3. Queued(d)' /\ \A c \in Threads : c # d => (Queued(c)' <=> Queued(c))
    BY <2>1 DEF Queued
  <2>4. Life(d)'
    BY <1>1, <1>7, <2>2, <2>3
    DEF Connect, Life, Asked, Held, Answered, InHand
  <2>5. ASSUME NEW c \in Threads, c # d PROVE Life(c)'
    BY <1>1, <1>2, <1>7, <2>3, <2>5 DEF Connect, ClientTypeOK
  <2>6. ParentAtWork'
    BY <1>1, <1>7 DEF Connect, ParentAtWork
  <2>7. Waiting'
    <3>1. \A i \in 1..Len(queue) : queue[i] \in Threads /\ queue[i] # d
      BY <1>1, <2>2 DEF NetTypeOK, Queued
    <3>2. child[d] = "none" /\ ~InHand(d)
      BY <1>1, <2>2 DEF Asked
    <3> QED
      BY <1>1, <1>7, <2>1, <2>2, <3>1, <3>2
      DEF Connect, Waiting, InHand, ClientTypeOK
  <2> QED
    BY <2>4, <2>5, <2>6, <2>7
<1>8. ASSUME NEW d \in Threads, Refused(d, spc # "dead") PROVE Ends
  <2>1. ASSUME NEW c \in Threads PROVE Life(c)'
    BY <1>1, <1>8, <2>1
    DEF Refused, Life, Asked, Held, Answered, Queued, InHand
  <2>2. ParentAtWork' /\ Waiting'
    BY <1>1, <1>8 DEF Refused, ParentAtWork, Waiting, NetTypeOK
  <2> QED
    BY <2>1, <2>2
<1>9. ASSUME NEW d \in Threads, Send(d) PROVE Ends
  <2>1. tpc[d] = "send" /\ tpc'[d] = "read" /\ toServer[d] = <<>>
    BY <1>1, <1>9 DEF Send, ClientTypeOK, Asked
  <2>2. toServer'[d] = <<d>>
    BY <1>1, <1>9, <2>1 DEF Send, NetTypeOK
  <2>3. Life(d)'
    BY <1>1, <1>9, <2>1, <2>2
    DEF Send, Life, Asked, Held, Answered, Queued, InHand, Served
  <2>4. ASSUME NEW c \in Threads, c # d PROVE Life(c)'
    BY <1>1, <1>4, <1>9, <2>4 DEF Send, NetTypeOK
  <2> QED
    BY <1>3, <1>9, <2>3, <2>4 DEF Send
<1>10. ASSUME NEW d \in Threads, Read(d) PROVE Ends
  <2>1. PICK n \in 1..2 :
          /\ Take(d, n)
          /\ printed' = [printed EXCEPT ![d] = @ \o SubSeq(toClient[d], 1, n)]
          /\ short' = [short EXCEPT ![d] = @ \/ n < 2]
    BY <1>10 DEF Read
  <2>2. toClient[d] # <<>> /\ tpc[d] = "read" /\ tpc'[d] = "readAgain"
    BY <1>1, <1>10, <2>1, EmptySeq DEF Read, Take, NetTypeOK, ClientTypeOK
  <2>3. printed[d] = <<>> /\ toClient[d] = Reply(d) /\ ~short[d]
    <3>1. child[d] \in Served
      BY <1>1, <2>2 DEF Asked, Served, TypeOK, ServerTypeOK
    <3> QED
      BY <1>1, <2>2, <3>1 DEF Answered
  <2>9. ~Queued(d)
    BY <1>1, <2>2 DEF Asked, Waiting, Queued
  <2>4. /\ printed'[d] = printed[d] \o SubSeq(Reply(d), 1, n)
        /\ toClient'[d] = SubSeq(Reply(d), n + 1, 2)
    BY <1>1, <2>1, <2>3, ReplyHalves DEF Take, NetTypeOK, ClientTypeOK
  <2>5. short'[d] <=> n = 1
    <3>1. short'[d] = (short[d] \/ n < 2)
      BY <1>1, <2>1 DEF ClientTypeOK
    <3>2. n < 2 <=> n = 1
      OBVIOUS
    <3> QED
      BY <2>3, <3>1, <3>2, Zenon
  <2>6. \/ printed'[d] = Reply(d) /\ toClient'[d] = <<>> /\ ~short'[d]
        \/ printed'[d] = First(d) /\ toClient'[d] = Rest(d) /\ short'[d]
    <3>1. CASE n = 2
      BY <2>3, <2>4, <2>5, <3>1, ReplyHalves
    <3>2. CASE n = 1
      BY <2>3, <2>4, <2>5, <3>2, ReplyHalves DEF First, Rest
    <3> QED
      BY <3>1, <3>2
  <2>7. Life(d)'
    BY <1>1, <1>10, <2>2, <2>3, <2>6
    DEF Read, Life, Asked, Held, Answered, Queued, InHand, Served
  <2>8. ASSUME NEW c \in Threads, c # d PROVE Life(c)'
    BY <1>1, <1>4, <1>10, <2>1, <2>8 DEF Read, Take, NetTypeOK, ClientTypeOK
  <2> QED
    BY <1>3, <1>10, <2>7, <2>8, <2>9 DEF Read
<1>11. ASSUME NEW d \in Threads, ReadAgain(d) PROVE Ends
  <2>1. /\ tpc[d] = "readAgain" /\ tpc'[d] = "read" /\ child[d] \in Served
        /\ toServer[d] \in {<<>>, <<d>>}
    BY <1>1, <1>11
    DEF ReadAgain, ClientTypeOK, Asked, Served, TypeOK, ServerTypeOK
  <2>2. toClient'[d] = <<>>
    <3>1. CASE AtEnd(d)
      BY <1>11, <3>1 DEF ReadAgain, AtEnd
    <3>2. CASE ~AtEnd(d)
      <4>1. PICK n \in 1..2 : Take(d, n)
        BY <1>11, <3>2 DEF ReadAgain
      <4>2. toClient[d] # <<>>
        BY <4>1 DEF Take
      <4>3. toClient[d] = Rest(d) /\ Len(toClient[d]) = 1
        BY <1>1, <2>1, <4>2, ReplyHalves DEF Answered
      <4>4. n = 1
        BY <4>1, <4>3 DEF Take
      <4>5. toClient'[d] = SubSeq(Rest(d), 2, 1)
        BY <1>1, <4>1, <4>3, <4>4 DEF Take, NetTypeOK
      <4> QED
        BY <4>5, ReplyHalves
    <3> QED
      BY <3>1, <3>2
  <2>3. Life(d)'
    BY <1>1, <1>11, <2>1, <2>2
    DEF ReadAgain, Life, Asked, Held, Answered, Queued, InHand, Served
  <2>4. ASSUME NEW c \in Threads, c # d PROVE Life(c)'
    BY <1>1, <1>4, <1>11, <2>4 DEF ReadAgain, Take, NetTypeOK
  <2> QED
    BY <1>3, <1>11, <2>3, <2>4 DEF ReadAgain
<1>12. ASSUME NEW d \in Threads, ReadEnd(d) PROVE Ends
  <2>1. /\ tpc[d] = "read" /\ tpc'[d] = "done"
        /\ ~Queued(d) /\ toClient[d] = <<>>
        /\ <<Server, d>> \notin fds /\ <<d, d>> \notin fds
    BY <1>1, <1>12 DEF ReadEnd, ClientTypeOK, AtEnd, OpenIn
  <2>2. ASSUME child[d] \in Served PROVE Life(d)'
    <3>1. \/ printed[d] = Reply(d) /\ ~short[d]
          \/ printed[d] = First(d) /\ short[d]
      BY <1>1, <2>1, <2>2, ReplyHalves DEF Answered
    <3> QED
      BY <1>1, <1>12, <2>1, <2>2, <3>1
      DEF ReadEnd, Life, Asked, Held, Answered, Queued, InHand, Served
  <2>3. ASSUME child[d] \notin Served PROVE Life(d)'
    <3>1. child[d] = "none" /\ spc = "dead" /\ printed[d] = <<>>
      BY <1>1, <2>1, <2>3 DEF Held, Asked, InHand, Served, TypeOK, ServerTypeOK
    <3> QED
      BY <1>1, <1>12, <2>1, <3>1
      DEF ReadEnd, Life, Asked, Held, Answered, Queued, InHand, Served
  <2>4. ASSUME NEW c \in Threads, c # d PROVE Life(c)'
    BY <1>1, <1>4, <1>12, <2>4 DEF ReadEnd
  <2> QED
    BY <1>3, <1>12, <2>1, <2>2, <2>3, <2>4 DEF ReadEnd
<1> QED
  BY <1>5, <1>6, <1>7, <1>8, <1>9, <1>10, <1>11, <1>12 DEF Thread

(* No step of the server, the handler, a child or the client breaks it.    *)
LEMMA StepGame == GameInv /\ [Next]_vars => GameInv'
<1> SUFFICES ASSUME GameInv, [Next]_vars PROVE GameInv'
  OBVIOUS
<1>1. TypeOK'
  BY StepTypes DEF GameInv
<1>2. CASE Serve
  BY <1>1, <1>2, MainGame, OthersGame DEF Serve, SNext
<1>3. CASE Starts \/ \E c \in Threads : Play(c)
  BY <1>1, <1>3, ClientGame DEF Starts, Play
<1>4. CASE UNCHANGED vars
  BY <1>1, <1>4
  DEF vars, net, svars, cvars, GameInv, ParentAtWork, Waiting, Life, Asked,
      Held, Answered, Queued, InHand
<1> QED
  BY <1>2, <1>3, <1>4 DEF Next, Quiet

(* client.c:46-73: whatever the order in which threads, children and the   *)
(* handler run, however the reads cut the answers, and also when the       *)
(* server dies of a failed fork: a thread that ends has printed the answer *)
(* to its own number, the part of it that its first read brought, or       *)
(* nothing because the server was dead.                                    *)
THEOREM EveryThreadGetsItsOwnReply == Spec => []OwnReply
<1>1. GameInv => OwnReply
  BY DEF GameInv, Life, Answered, OwnReply, First
<1> QED
  BY <1>1, InitGame, StepGame, PTL DEF Spec

(* Every variable of server and client stays in its domain.                *)
THEOREM TypesHold == Spec => []TypeOK
BY InitTypes, StepTypes, PTL DEF Spec
=============================================================================
