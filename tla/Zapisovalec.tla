---------------------------- MODULE Zapisovalec ----------------------------
(***************************************************************************)
(* zapisovalec.c of exercise 6: opens the queue if it exists, and appends  *)
(* every received text that differs from the one before it to a file,      *)
(* until it receives the empty string; then it removes the queue.          *)
(***************************************************************************)
EXTENDS SysVIPC

VARIABLES
  zpc,    (* the next statement                                             *)
  zmsq,   (* msqid; 0 stands for the -1 of a failed msgget                  *)
  zbuf,   (* msgbuf.mtext                                                   *)
  zprev,  (* prev                                                           *)
  file    (* the numbers of the texts written; 0 for bytes nobody sent      *)

zvars == <<zpc, zmsq, zbuf, zprev, file>>

(* msgbuf is never initialised: until something is received its first byte *)
(* is whatever the stack held.                                             *)
ZInit ==
  /\ zpc = "off"
  /\ zmsq = 0
  /\ zbuf \in {Blank, Text(0)}
  /\ zprev = Blank
  /\ file = <<>>

ZGoto(from, to) == zpc = from /\ zpc' = to

(* msgget without IPC_CREAT, and a failure is only reported.               *)
ZMsgGet ==
  /\ ZGoto("off", "recv")
  /\ zmsq' = msq.now
  /\ UNCHANGED <<ipc, zbuf, zprev, file>>

ZRecv ==
  /\ ZGoto("recv", "handle")
  /\ zmsq # 0
  /\ msq.msgs # <<>>
  /\ zbuf' = Head(msq.msgs)
  /\ msq' = [msq EXCEPT !.msgs = Tail(@)]
  /\ UNCHANGED <<sem, shm, zmsq, zprev, file>>

(* msgrcv on the id -1 fails at once and leaves the buffer as it was.      *)
ZRecvFails ==
  /\ ZGoto("recv", "handle")
  /\ zmsq = 0
  /\ UNCHANGED <<ipc, zmsq, zbuf, zprev, file>>

ZEnd ==
  /\ ZGoto("handle", "remove")
  /\ zbuf.nul
  /\ UNCHANGED <<ipc, zmsq, zbuf, zprev, file>>

ZSkip ==
  /\ ZGoto("handle", "recv")
  /\ ~zbuf.nul /\ zbuf = zprev
  /\ UNCHANGED <<ipc, zmsq, zbuf, zprev, file>>

(* A mutation of ZWrite: every received text is written.                   *)
ZWrite_Repeats ==
  /\ ZGoto("handle", "recv")
  /\ ~zbuf.nul
  /\ file' = Append(file, zbuf.id)
  /\ zprev' = zbuf
  /\ UNCHANGED <<ipc, zmsq, zbuf>>

ZWrite ==
  /\ ZGoto("handle", "recv")
  /\ ~zbuf.nul /\ zbuf # zprev
  /\ file' = Append(file, zbuf.id)
  /\ zprev' = zbuf
  /\ UNCHANGED <<ipc, zmsq, zbuf>>

ZRemove ==
  /\ ZGoto("remove", "done")
  /\ msq' = IF zmsq # 0 THEN [Rmid(msq, zmsq) EXCEPT !.msgs = <<>>] ELSE msq
  /\ UNCHANGED <<sem, shm, zmsq, zbuf, zprev, file>>

ZNext ==
  ZMsgGet \/ ZRecv \/ ZRecvFails \/ ZEnd \/ ZSkip \/ ZWrite \/ ZRemove

ZIdle ==
  \/ zpc \in {"off", "done"}
  \/ zpc = "recv" /\ zmsq # 0 /\ msq.msgs = <<>>
=============================================================================
