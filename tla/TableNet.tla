------------------------------ MODULE TableNet ------------------------------
(***************************************************************************)
(* What the server and the clients of exercise 8 share: the listening      *)
(* socket's queue and one TCP connection per client.  The kernel is not    *)
(* part of the repository; this is what its calls do for these programs.   *)
(*                                                                         *)
(* A text on its way to a client is a piece of the stream: a card, the     *)
(* end of a game, or one half of the question, which a read may split.     *)
(***************************************************************************)
EXTENDS Integers, Sequences

CONSTANTS
  Clients,
  Backlog,    (* connections that wait to be accepted, 5 in the program     *)
  Splits      (* whether a read may end inside the question; on the         *)
              (* loopback device, which the programs use, none does         *)

ASSUME TableNetAssumption == Backlog \in Nat \ {0} /\ Splits \in BOOLEAN

VARIABLES
  queue,      (* the connections not accepted yet                           *)
  toServer,   (* the answers on their way                                   *)
  toClient,   (* the pieces on their way                                    *)
  ended,      (* the connections whose server side is closed                *)
  left        (* what a client that went away has left of its connection:   *)
              (* "no", "fin", "rst", and "broken" when the server has       *)
              (* written to it since                                        *)

net == <<queue, toServer, toClient, ended, left>>

NoConnections ==
  /\ queue = <<>>
  /\ toServer = [c \in Clients |-> <<>>]
  /\ toClient = [c \in Clients |-> <<>>]
  /\ ended = {}
  /\ left = [c \in Clients |-> "no"]

Card(who, v) == [what |-> who, worth |-> v]
Text(t)      == [what |-> t, worth |-> 0]
Question     == << Text("ask"), Text("ask?") >>

(* write(): bytes for a client that is gone bring back a reset, or use up  *)
(* the one that has come.                                                  *)
Arrive(c, pieces) ==
  IF left[c] = "no"
    THEN toClient' = [toClient EXCEPT ![c] = @ \o pieces] /\ UNCHANGED left
    ELSE left' = [left EXCEPT ![c] = "broken"] /\ UNCHANGED toClient

(* What n write() calls in a row to c may end the caller with: the second  *)
(* to a client that is gone raises SIGPIPE.                                *)
MaySigpipe(c, n) == left[c] = "broken" \/ (left[c] # "no" /\ n > 1)
=============================================================================
