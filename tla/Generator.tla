----------------------------- MODULE Generator -----------------------------
(***************************************************************************)
(* generator.c of exercise 6: resets the semaphore to 1, then prints       *)
(* Messages numbered texts one after the other into the shared segment,    *)
(* each under the semaphore, and at the end, without the semaphore, cuts   *)
(* the text to the empty string to say that there is no more.              *)
(***************************************************************************)
EXTENDS SysVIPC

CONSTANTS
  Messages,   (* the texts to print, 4 in the program                       *)
  GSleep      (* ticks of each of its two sleeps                             *)

ASSUME GeneratorAssumption == Messages \in Nat \ {0} /\ GSleep \in Nat

VARIABLES
  gpc, gi,    (* the next statement, the number of the next text            *)
  gsem, gshm, (* semid; the segment behind addr                             *)
  gnap        (* ticks left to sleep                                        *)

gvars == <<gpc, gi, gsem, gshm, gnap>>

GInit ==
  /\ gpc = "off" /\ gi = 1
  /\ gsem = 0 /\ gshm = 0
  /\ gnap = 0

GGoto(from, to) == gpc = from /\ gnap = 0 /\ gpc' = to

GSemGet ==
  /\ GGoto("off", "setval")
  /\ gsem' = Got(sem) /\ sem' = Get(sem)
  /\ UNCHANGED <<shm, msq, gi, gshm, gnap>>

(* A mutation of GSetVal: only the first process to come initialises.      *)
GSetVal_OnlyFirst ==
  /\ GGoto("setval", "shmget")
  /\ IF shm.now = 0 THEN SetVal(gsem) ELSE UNCHANGED sem
  /\ UNCHANGED <<shm, msq, gi, gsem, gshm, gnap>>

GSetVal ==
  /\ GGoto("setval", "shmget")
  /\ SetVal(gsem)
  /\ UNCHANGED <<shm, msq, gi, gsem, gshm, gnap>>

GShmGet ==
  /\ GGoto("shmget", "lock")
  /\ gshm' = Got(shm) /\ shm' = Get(shm)
  /\ gnap' = GSleep
  /\ UNCHANGED <<sem, msq, gi, gsem>>

GLock ==
  /\ GGoto("lock", "print")
  /\ Down(gsem)
  /\ UNCHANGED <<shm, msq, gi, gsem, gshm, gnap>>

(* sprintf is not one step for a reader.  Over a text of the same length   *)
(* only the digit changes, after the first byte, which may have been cut;  *)
(* but into an empty segment the first text grows from a beginning that is *)
(* not yet a text.                                                         *)
GPrintPart ==
  /\ GGoto("print", "printing")
  /\ Store(gshm, Text(shm.seg[gshm].id))
  /\ UNCHANGED <<sem, msq, gi, gsem, gshm, gnap>>

GPrint ==
  /\ GGoto("printing", "unlock")
  /\ Store(gshm, Text(gi))
  /\ gnap' = GSleep
  /\ UNCHANGED <<sem, msq, gi, gsem, gshm>>

(* A mutation of GUnlock: no sleep before the next lock.                   *)
GUnlock_NoSleep ==
  /\ GGoto("unlock", IF gi < Messages THEN "lock" ELSE "cut")
  /\ Up(gsem)
  /\ gi' = gi + 1
  /\ UNCHANGED <<shm, msq, gsem, gshm, gnap>>

GUnlock ==
  /\ GGoto("unlock", IF gi < Messages THEN "lock" ELSE "cut")
  /\ Up(gsem)
  /\ gi' = gi + 1
  /\ gnap' = IF gi < Messages THEN GSleep ELSE 0
  /\ UNCHANGED <<shm, msq, gsem, gshm>>

(* lock and unlock end the program when the semaphore is gone.             *)
GFail ==
  /\ gpc \in {"lock", "unlock"} /\ gnap = 0
  /\ ~SemLive(gsem)
  /\ gpc' = "failed"
  /\ UNCHANGED <<ipc, gi, gsem, gshm, gnap>>

GCut ==
  /\ GGoto("cut", "done")
  /\ Store(gshm, Cut(shm.seg[gshm]))
  /\ UNCHANGED <<sem, msq, gi, gsem, gshm, gnap>>

GNext ==
  \/ GSemGet \/ GSetVal \/ GShmGet
  \/ GLock \/ GPrintPart \/ GPrint \/ GUnlock \/ GFail \/ GCut

GHolds == gpc \in {"print", "printing", "unlock"}

(* It cannot move before a tick or another process does.                   *)
GIdle ==
  \/ gpc \in {"off", "done", "failed"} \/ gnap > 0
  \/ gpc = "lock" /\ SemLive(gsem) /\ sem.val[gsem] = 0
=============================================================================
