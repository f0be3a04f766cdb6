----------------------------- MODULE Posrednik -----------------------------
(***************************************************************************)
(* posrednik.c of exercise 6: resets the semaphore to 1, then forwards     *)
(* whatever the shared segment holds to the message queue, once per round  *)
(* and under the semaphore, until it finds the empty string.  It forwards  *)
(* the end twice and removes the semaphore and the segment.                *)
(***************************************************************************)
EXTENDS SysVIPC

CONSTANT PSleep   (* ticks of its sleep                                     *)

ASSUME PosrednikAssumption == PSleep \in Nat

VARIABLES
  ppc,               (* the next statement                                  *)
  psem, pshm, pmsq,  (* semid, the segment behind addr, msqid               *)
  pprev,             (* prev: the text last shown on its terminal           *)
  pnap               (* ticks left to sleep                                 *)

pvars == <<ppc, psem, pshm, pmsq, pprev, pnap>>

PInit ==
  /\ ppc = "off"
  /\ psem = 0 /\ pshm = 0 /\ pmsq = 0
  /\ pprev = Blank
  /\ pnap = 0

PGoto(from, to) == ppc = from /\ pnap = 0 /\ ppc' = to

PSemGet ==
  /\ PGoto("off", "setval")
  /\ psem' = Got(sem) /\ sem' = Get(sem)
  /\ UNCHANGED <<shm, msq, pshm, pmsq, pprev, pnap>>

PSetVal ==
  /\ PGoto("setval", "shmget")
  /\ SetVal(psem)
  /\ UNCHANGED <<shm, msq, psem, pshm, pmsq, pprev, pnap>>

PShmGet ==
  /\ PGoto("shmget", "msgget")
  /\ pshm' = Got(shm) /\ shm' = Get(shm)
  /\ UNCHANGED <<sem, msq, psem, pmsq, pprev, pnap>>

PMsgGet ==
  /\ PGoto("msgget", "lock")
  /\ pmsq' = Got(msq) /\ msq' = Get(msq)
  /\ UNCHANGED <<sem, shm, psem, pshm, pprev, pnap>>

(* A mutation of PLock: IPC_NOWAIT, and the error is only reported.        *)
PLock_NoWait ==
  /\ PGoto("lock", "check")
  /\ IF sem.val[psem] > 0 THEN Down(psem) ELSE UNCHANGED sem
  /\ UNCHANGED <<shm, msq, psem, pshm, pmsq, pprev, pnap>>

(* lock: an error would only be reported, but only this program removes    *)
(* the semaphore, after its last use.                                      *)
PLock ==
  /\ PGoto("lock", "check")
  /\ Down(psem)
  /\ UNCHANGED <<shm, msq, psem, pshm, pmsq, pprev, pnap>>

Seen == shm.seg[pshm]

(* A mutation of PCheck: a text seen before is taken for the end.          *)
PCheck_StopsOnRepeat ==
  /\ PGoto("check", IF Seen.nul \/ Seen = pprev THEN "unlockEnd" ELSE "show")
  /\ UNCHANGED <<ipc, psem, pshm, pmsq, pprev, pnap>>

PCheck ==
  /\ PGoto("check", IF Seen.nul THEN "unlockEnd" ELSE "show")
  /\ UNCHANGED <<ipc, psem, pshm, pmsq, pprev, pnap>>

PShow ==
  /\ PGoto("show", "send")
  /\ pprev' = Seen
  /\ UNCHANGED <<ipc, psem, pshm, pmsq, pnap>>

(* The semaphore is still held while a full queue blocks this step.        *)
PSend ==
  /\ PGoto("send", "unlock")
  /\ CanSend(pmsq, Seen)
  /\ msq' = Sent(pmsq, Seen)
  /\ UNCHANGED <<sem, shm, psem, pshm, pmsq, pprev, pnap>>

PUnlock ==
  /\ PGoto("unlock", "lock")
  /\ Up(psem)
  /\ pnap' = PSleep
  /\ UNCHANGED <<shm, msq, psem, pshm, pmsq, pprev>>

(* A mutation of PUnlockEnd: the loop is left without unlocking.           *)
PUnlockEnd_Forgotten ==
  /\ PGoto("unlockEnd", "sendEnd")
  /\ UNCHANGED <<ipc, psem, pshm, pmsq, pprev, pnap>>

PUnlockEnd ==
  /\ PGoto("unlockEnd", "sendEnd")
  /\ Up(psem)
  /\ UNCHANGED <<shm, msq, psem, pshm, pmsq, pprev, pnap>>

(* The end is forwarded after the unlock, once on the way out of the loop  *)
(* and once after it.                                                      *)
PSendEnd ==
  /\ \/ PGoto("sendEnd", "sendAgain")
     \/ PGoto("sendAgain", "rmSem")
  /\ CanSend(pmsq, Seen)
  /\ msq' = Sent(pmsq, Seen)
  /\ UNCHANGED <<sem, shm, psem, pshm, pmsq, pprev, pnap>>

PRmSem ==
  /\ PGoto("rmSem", "rmShm")
  /\ sem' = Rmid(sem, psem)
  /\ UNCHANGED <<shm, msq, psem, pshm, pmsq, pprev, pnap>>

PRmShm ==
  /\ PGoto("rmShm", "done")
  /\ shm' = Rmid(shm, pshm)
  /\ UNCHANGED <<sem, msq, psem, pshm, pmsq, pprev, pnap>>

PNext ==
  \/ PSemGet \/ PSetVal \/ PShmGet \/ PMsgGet
  \/ PLock \/ PCheck \/ PShow \/ PSend \/ PUnlock
  \/ PUnlockEnd \/ PSendEnd \/ PRmSem \/ PRmShm

PHolds == ppc \in {"check", "show", "send", "unlock", "unlockEnd"}

PIdle ==
  \/ ppc \in {"off", "done"} \/ pnap > 0
  \/ ppc = "lock" /\ SemLive(psem) /\ sem.val[psem] = 0
  \/ ppc \in {"send", "sendEnd", "sendAgain"} /\ ~CanSend(pmsq, Seen)
=============================================================================
