----------------------------- MODULE PrizeGame -----------------------------
(***************************************************************************)
(* Exercise 9: one run of the client against a running server.             *)
(***************************************************************************)
EXTENDS PrizeServer, PrizeClient

vars == <<net, svars, cvars>>

Init == NoConnections /\ SInit /\ CInit

Serve   == SNext /\ UNCHANGED cvars
Starts  == (Create \/ Join) /\ UNCHANGED svars
Play(c) == Thread(c, spc # "dead") /\ UNCHANGED svars

(* The server waits for more clients for ever.                             *)
Quiet ==
  /\ ClientEnded /\ queue = <<>>
  /\ \A c \in Threads : child[c] \in {"none", "reaped"}
  /\ UNCHANGED vars

Next == Serve \/ Starts \/ (\E c \in Threads : Play(c)) \/ Quiet

Fairness ==
  /\ WF_vars(Main /\ UNCHANGED cvars) /\ WF_vars(Handler /\ UNCHANGED cvars)
  /\ \A c \in Threads : WF_vars(Child(c) /\ UNCHANGED cvars) /\ WF_vars(Play(c))
  /\ WF_vars(Starts)

Spec     == Init /\ [][Next]_vars
FairSpec == Spec /\ Fairness

-----------------------------------------------------------------------------
(* Properties *)

(* Every variable stays in its domain.                                     *)
TypeOK == NetTypeOK /\ ServerTypeOK /\ ClientTypeOK

(* SIGCHLDs merge while one is pending or handled, but no child is         *)
(* forgotten: while there is a zombie, a signal is pending or the handler  *)
(* still goes round its loop (server.c:134).                               *)
NoForgottenZombie ==
  Zombies # {} => sigchld \/ hpc = "loop"

(* Each thread prints the answer to its own number, once and nobody        *)
(* else's, and all of it if no read ended inside it: the read at           *)
(* client.c:68 throws away what it gets.                                   *)
OwnReply ==
  \A c \in Threads :
    tpc[c] = "done" =>
      \/ ~short[c] /\ printed[c] = Reply(c)
      \/ short[c] /\ printed[c] = SubSeq(Reply(c), 1, 1)
      \/ spc = "dead" /\ printed[c] = <<>>

(* The client always ends: every connection is answered or closed, by      *)
(* everyone who has it open, also when the server dies of a failed call.   *)
(* And every child ends and is collected for good: by the handler, by init *)
(* when the server is dead.                                                *)
ServiceEnds ==
  <>ClientEnded /\ <>[](\A c \in Threads : child[c] \in {"none", "reaped"})
=============================================================================
