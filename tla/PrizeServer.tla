---------------------------- MODULE PrizeServer ----------------------------
(***************************************************************************)
(* The server of exercise 9: the parent accepts and forks, a child serves  *)
(* one connection, and the parent's SIGCHLD handler, which may interrupt   *)
(* it anywhere, collects children that have ended.  signal() gives the     *)
(* handler BSD semantics: the signal is blocked while it runs, at most one *)
(* is remembered meanwhile, and an interrupted accept goes on.             *)
(***************************************************************************)
EXTENDS PrizeNet

CONSTANT CallsMayFail  (* whether accept and fork may return an error       *)

ASSUME ServerAssumption == CallsMayFail \in BOOLEAN

VARIABLES
  spc, connfd,   (* main: the next statement, the connection it is at       *)
  sigchld, hpc,  (* SIGCHLD is pending; whether sig_chld runs               *)
  child,         (* where the child of each connection is                   *)
  got            (* i: the number it has read                               *)

svars == <<spc, connfd, sigchld, hpc, child, got>>

SInit ==
  /\ spc = "accept" /\ connfd = 0
  /\ sigchld = FALSE /\ hpc = "off"
  /\ child = [c \in Threads |-> "none"]
  /\ got = [c \in Threads |-> 0]

Zombies == {c \in Threads : child[c] = "zombie"}

MainGoto(from, to) == spc = from /\ hpc = "off" /\ spc' = to
ChildGoto(c, from, to) ==
  child[c] = from /\ child' = [child EXCEPT ![c] = to]

Accept ==
  /\ MainGoto("accept", "fork")
  /\ queue # <<>>
  /\ connfd' = Head(queue) /\ queue' = Tail(queue)
  /\ fds' = fds \cup {<<Server, Head(queue)>>}
  /\ UNCHANGED <<toServer, toClient, gone, sigchld, hpc, child, got>>

(* The child gets a copy of every descriptor the parent has open.          *)
Fork ==
  /\ MainGoto("fork", "close")
  /\ ChildGoto(connfd, "none", "read")
  /\ fds' = fds \cup {<<connfd, c>> : c \in {d \in Threads : <<Server, d>> \in fds}}
  /\ UNCHANGED <<queue, toServer, toClient, gone, connfd, sigchld, hpc, got>>

(* accept cannot give it the connection that waits, or fork fails.  The    *)
(* server exits: nobody listens, what waited is reset, and init inherits   *)
(* its children.                                                           *)
CallFails ==
  /\ CallsMayFail
  /\ MainGoto("fork", "dead") \/ (MainGoto("accept", "dead") /\ queue # <<>>)
  /\ fds' = {f \in fds : f[1] # Server}
  /\ queue' = <<>>
  /\ child' = [c \in Threads |-> IF c \in Zombies THEN "reaped" ELSE child[c]]
  /\ UNCHANGED <<toServer, toClient, gone, connfd, sigchld, hpc, got>>

CloseParent ==
  /\ MainGoto("close", "accept")
  /\ fds' = fds \ {<<Server, connfd>>}
  /\ UNCHANGED <<queue, toServer, toClient, gone, connfd, sigchld, hpc, child, got>>

Main == Accept \/ Fork \/ CallFails \/ CloseParent

-----------------------------------------------------------------------------
(* sig_chld *)

Deliver ==
  /\ sigchld /\ hpc = "off" /\ spc # "dead"
  /\ sigchld' = FALSE /\ hpc' = "loop"
  /\ UNCHANGED <<net, spc, connfd, child, got>>

(* A mutation of WaitPid: one child per signal.                            *)
WaitPid_Once ==
  /\ hpc = "loop" /\ hpc' = "off"
  /\ \E c \in Zombies : ChildGoto(c, "zombie", "reaped")
  /\ UNCHANGED <<net, spc, connfd, sigchld, got>>

WaitPid ==
  /\ hpc = "loop"
  /\ \E c \in Zombies : ChildGoto(c, "zombie", "reaped")
  /\ UNCHANGED <<net, spc, connfd, sigchld, hpc, got>>

HandlerReturns ==
  /\ hpc = "loop" /\ Zombies = {}
  /\ hpc' = "off"
  /\ UNCHANGED <<net, spc, connfd, sigchld, child, got>>

Handler == Deliver \/ WaitPid \/ HandlerReturns

-----------------------------------------------------------------------------
(* handle_client and the end of the child *)

ChildRead(c) ==
  /\ ChildGoto(c, "read", "reply")
  /\ toServer[c] # <<>>
  /\ got' = [got EXCEPT ![c] = Head(toServer[c])]
  /\ toServer' = [toServer EXCEPT ![c] = Tail(@)]
  /\ UNCHANGED <<queue, toClient, fds, gone, spc, connfd, sigchld, hpc>>

ChildReadEnd(c) ==
  /\ ChildGoto(c, "read", "close")
  /\ toServer[c] = <<>> /\ c \in gone
  /\ UNCHANGED <<net, spc, connfd, sigchld, hpc, got>>

(* A mutation of ChildReply: the connection is not closed after the reply. *)
ChildReply_KeepsOpen(c) ==
  /\ ChildGoto(c, "reply", "read")
  /\ toClient' = [toClient EXCEPT ![c] = @ \o Reply(got[c])]
  /\ UNCHANGED <<queue, toServer, fds, gone, spc, connfd, sigchld, hpc, got>>

(* Prize or not, the reply names the number; the choice between the two    *)
(* texts, by the child's pid, is left out.                                 *)
ChildReply(c) ==
  /\ ChildGoto(c, "reply", "close")
  /\ toClient' = [toClient EXCEPT ![c] = @ \o Reply(got[c])]
  /\ UNCHANGED <<queue, toServer, fds, gone, spc, connfd, sigchld, hpc, got>>

(* The loop's next read, and the second close, fail on the closed          *)
(* descriptor.                                                             *)
ChildClose(c) ==
  /\ ChildGoto(c, "close", "exit")
  /\ fds' = fds \ {<<c, c>>}
  /\ UNCHANGED <<queue, toServer, toClient, gone, spc, connfd, sigchld, hpc, got>>

ChildExit(c) ==
  /\ ChildGoto(c, "exit", IF spc = "dead" THEN "reaped" ELSE "zombie")
  /\ sigchld' = TRUE
  /\ fds' = {f \in fds : f[1] # c}
  /\ UNCHANGED <<queue, toServer, toClient, gone, spc, connfd, hpc, got>>

Child(c) ==
  \/ ChildRead(c) \/ ChildReadEnd(c) \/ ChildReply(c)
  \/ ChildClose(c) \/ ChildExit(c)

SNext == Main \/ Handler \/ \E c \in Threads : Child(c)

ServerTypeOK ==
  /\ spc \in {"accept", "fork", "close", "dead"} /\ connfd \in {0} \cup Threads
  /\ sigchld \in BOOLEAN /\ hpc \in {"off", "loop"}
  /\ child \in [Threads -> {"none", "read", "reply", "close", "exit",
                            "zombie", "reaped"}]
  /\ got \in [Threads -> {0} \cup Threads]
=============================================================================
