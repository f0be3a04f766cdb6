------------------------------ MODULE PrizeNet ------------------------------
(***************************************************************************)
(* What the server and the client of exercise 9 share: the listening       *)
(* socket's queue and one TCP connection per thread of the client.  The    *)
(* kernel is not part of the repository; this is what its calls do.        *)
(*                                                                         *)
(* A connection is named after the client's thread.  A reply is a stream   *)
(* of two halves, because a read may end inside it.                        *)
(***************************************************************************)
EXTENDS Integers, Sequences, FiniteSets

CONSTANTS
  N,          (* argv[1] of the client: its threads                         *)
  Backlog     (* connections that wait to be accepted, 5 in the program     *)

ASSUME NetAssumption == N \in Nat /\ Backlog \in Nat \ {0}

Threads == 1..N
Server  == 0    (* the parent; its children have the number of their client *)

VARIABLES
  queue,      (* the connections not accepted yet                           *)
  toServer,   (* what each connection has on its way to the server          *)
  toClient,   (* and to the client                                          *)
  fds,        (* <<p, c>>: process p of the server has connection c open    *)
  gone        (* the connections whose client has closed its end            *)

net == <<queue, toServer, toClient, fds, gone>>

NoConnections ==
  /\ queue = <<>>
  /\ toServer = [c \in Threads |-> <<>>]
  /\ toClient = [c \in Threads |-> <<>>]
  /\ fds = {} /\ gone = {}

Queued(c) == \E i \in 1..Len(queue) : queue[i] = c
OpenIn(c) == {p \in {Server} \cup Threads : <<p, c>> \in fds}

(* The client reads the end of the stream once every copy of the           *)
(* descriptor is closed and the data is used up.                           *)
AtEnd(c) == ~Queued(c) /\ OpenIn(c) = {} /\ toClient[c] = <<>>

Reply(i) == << <<i, "head">>, <<i, "tail">> >>
Halves   == ({0} \cup Threads) \X {"head", "tail"}

NetTypeOK ==
  /\ queue \in Seq(Threads) /\ Len(queue) <= Backlog
  /\ toServer \in [Threads -> Seq(Threads)]
  /\ toClient \in [Threads -> Seq(Halves)]
  /\ fds \subseteq ({Server} \cup Threads) \X Threads
  /\ gone \subseteq Threads
=============================================================================
