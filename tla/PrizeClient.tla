---------------------------- MODULE PrizeClient ----------------------------
(***************************************************************************)
(* The client of exercise 9: main starts N threads and joins them; thread  *)
(* i connects, sends the number i and prints what comes back.              *)
(***************************************************************************)
EXTENDS PrizeNet

VARIABLES
  started, joined,  (* how far main's two loops have come                   *)
  tpc,              (* where each thread is                                 *)
  printed,          (* what each thread has printed                         *)
  short             (* history: a read of it ended inside the reply         *)

cvars == <<started, joined, tpc, printed, short>>

CInit ==
  /\ started = 0 /\ joined = 0
  /\ tpc = [c \in Threads |-> "unborn"]
  /\ printed = [c \in Threads |-> <<>>]
  /\ short = [c \in Threads |-> FALSE]

Goto(c, from, to) == tpc[c] = from /\ tpc' = [tpc EXCEPT ![c] = to]

Create ==
  /\ started < N /\ started' = started + 1
  /\ Goto(started + 1, "unborn", "connect")
  /\ UNCHANGED <<net, joined, printed, short>>

Join ==
  /\ started = N /\ joined < N
  /\ tpc[joined + 1] = "done"
  /\ joined' = joined + 1
  /\ UNCHANGED <<net, started, tpc, printed, short>>

(* With the queue full the kernel keeps trying.                            *)
Connect(c, listening) ==
  /\ listening /\ Len(queue) < Backlog
  /\ Goto(c, "connect", "send")
  /\ queue' = Append(queue, c)
  /\ UNCHANGED <<toServer, toClient, fds, gone, started, joined, printed, short>>

(* A refused connection ends the process with all its threads.             *)
Refused(c, listening) ==
  /\ ~listening /\ tpc[c] = "connect"
  /\ tpc' = [d \in Threads |-> "killed"] /\ gone' = Threads
  /\ UNCHANGED <<queue, toServer, toClient, fds, started, joined, printed, short>>

(* A mutation of Send: all threads share main's loop variable.             *)
Send_SharedNumber(c) ==
  /\ Goto(c, "send", "read")
  /\ toServer' = [toServer EXCEPT ![c] = Append(@, started)]
  /\ UNCHANGED <<queue, toClient, fds, gone, started, joined, printed, short>>

Send(c) ==
  /\ Goto(c, "send", "read")
  /\ toServer' = [toServer EXCEPT ![c] = Append(@, c)]
  /\ UNCHANGED <<queue, toClient, fds, gone, started, joined, printed, short>>

(* A read returns some of what is there.                                   *)
Take(c, n) ==
  /\ n \in 1..Len(toClient[c])
  /\ toClient' = [toClient EXCEPT ![c] = SubSeq(@, n + 1, Len(@))]

Read(c) ==
  /\ Goto(c, "read", "readAgain")
  /\ \E n \in 1..2 :
       /\ Take(c, n)
       /\ printed' = [printed EXCEPT ![c] = @ \o SubSeq(toClient[c], 1, n)]
       /\ short' = [short EXCEPT ![c] = @ \/ n < 2]
  /\ UNCHANGED <<queue, toServer, fds, gone, started, joined>>

(* The read at the end of the loop's body: what it finds is not printed.   *)
ReadAgain(c) ==
  /\ Goto(c, "readAgain", "read")
  /\ IF AtEnd(c) THEN UNCHANGED toClient ELSE \E n \in 1..2 : Take(c, n)
  /\ UNCHANGED <<queue, toServer, fds, gone, started, joined, printed, short>>

ReadEnd(c) ==
  /\ Goto(c, "read", "done")
  /\ AtEnd(c)
  /\ gone' = gone \cup {c}
  /\ UNCHANGED <<queue, toServer, toClient, fds, started, joined, printed, short>>

Thread(c, listening) ==
  \/ Connect(c, listening) \/ Refused(c, listening) \/ Send(c)
  \/ Read(c) \/ ReadAgain(c) \/ ReadEnd(c)

ClientEnded == joined = N \/ \E c \in Threads : tpc[c] = "killed"

ClientTypeOK ==
  /\ started \in 0..N /\ joined \in 0..N
  /\ tpc \in [Threads -> {"unborn", "connect", "send", "read", "readAgain",
                          "done", "killed"}]
  /\ printed \in [Threads -> Seq(Halves)]
  /\ short \in [Threads -> BOOLEAN]
=============================================================================
