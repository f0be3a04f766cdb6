------------------------------ MODULE SysVIPC ------------------------------
(***************************************************************************)
(* The System V IPC objects the three programs of exercise 6 share, as     *)
(* those programs use them: one semaphore, one shared memory segment, one  *)
(* message queue, each found by its key.  The kernel is not part of the    *)
(* repository; this module says what its calls do to these objects.        *)
(*                                                                         *)
(* An object is known by the number of its creation.  0 stands for no      *)
(* object: the key is free.  Removing an object frees its key and makes    *)
(* its number invalid for ever; a segment that a process has attached      *)
(* keeps its bytes for that process.                                       *)
(***************************************************************************)
EXTENDS Integers, Sequences

CONSTANT QueueCap  (* the messages the queue holds before msgsnd blocks    *)

ASSUME QueueAssumption == QueueCap \in Nat \ {0}

VARIABLES
  sem,   (* [now, made, val]: the live object, how many were made, values  *)
  shm,   (* [now, made, seg]: likewise, with the segments' contents        *)
  msq    (* [now, made, msgs]: likewise, with the live queue's messages    *)

ipc == <<sem, shm, msq>>

(* What can be told about the bytes at the start of a segment: the number  *)
(* in the text last printed into it (0: no whole text was ever), and       *)
(* whether the first byte is NUL.  Both facts survive in a message.        *)
Content  == [id : Nat, nul : BOOLEAN]
Blank    == [id |-> 0, nul |-> TRUE]
Text(i)  == [id |-> i, nul |-> FALSE]
Cut(c)   == [c EXCEPT !.nul = TRUE]

Ids == 1..2   (* no behaviour of one run of each program makes more        *)

NoIPC ==
  /\ sem = [now |-> 0, made |-> 0, val |-> [i \in Ids |-> 0]]
  /\ shm = [now |-> 0, made |-> 0, seg |-> [i \in Ids |-> Blank]]
  /\ msq = [now |-> 0, made |-> 0, msgs |-> <<>>]

(* What an earlier generator leaves behind, for the next one to find by    *)
(* its key: a semaphore of value v and a segment.                          *)
LeftBehind(v, c) ==
  /\ sem = [now |-> 1, made |-> 1, val |-> [i \in Ids |-> IF i = 1 THEN v ELSE 0]]
  /\ shm = [now |-> 1, made |-> 1, seg |-> [i \in Ids |-> IF i = 1 THEN c ELSE Blank]]
  /\ msq = [now |-> 0, made |-> 0, msgs |-> <<>>]

(* xxxget(key, IPC_CREAT): the live object, or a new one.                  *)
Got(o) == IF o.now # 0 THEN o.now ELSE o.made + 1
Get(o) == IF o.now # 0 THEN o ELSE [o EXCEPT !.made = @ + 1, !.now = o.made + 1]

(* xxxctl(id, IPC_RMID)                                                    *)
Rmid(o, id) == IF o.now = id THEN [o EXCEPT !.now = 0] ELSE o

SemLive(id) == id # 0 /\ sem.now = id
SemAdd(id, n) == sem' = [sem EXCEPT !.val[id] = @ + n]

(* semop(-1): blocks while the value is 0; the program sees an error when  *)
(* the semaphore is gone.                                                  *)
Down(id) == SemLive(id) /\ sem.val[id] > 0 /\ SemAdd(id, -1)
Up(id)   == SemLive(id) /\ SemAdd(id, 1)

(* semctl(SETVAL, 1), which fails without effect when the semaphore is     *)
(* gone.                                                                   *)
SetVal(id) == sem' = IF SemLive(id) THEN [sem EXCEPT !.val[id] = 1] ELSE sem

Store(id, c) == shm' = [shm EXCEPT !.seg[id] = c]

(* msgsnd(id, addr, ...) straight from a segment with content c: the first *)
(* eight bytes are taken for the type, which must be positive, and a       *)
(* segment nobody has printed into has only zeros there.  A full queue     *)
(* blocks the caller; a queue that is gone is an error.                    *)
Sendable(id, c) == msq.now = id /\ c # Blank
CanSend(id, c)  == Sendable(id, c) => Len(msq.msgs) < QueueCap
Sent(id, c)     ==
  IF Sendable(id, c) THEN [msq EXCEPT !.msgs = Append(@, c)] ELSE msq
=============================================================================
