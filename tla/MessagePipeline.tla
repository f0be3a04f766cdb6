-------------------------- MODULE MessagePipeline --------------------------
(***************************************************************************)
(* Exercise 6: generator, posrednik and zapisovalec run side by side and   *)
(* meet only in the kernel's semaphore, segment and message queue.  They   *)
(* are started by hand: in any order, or in the one order in which they    *)
(* work, each when what it needs is there.  The machine may be loaded, or  *)
(* do everything else in no time while they sleep.  The generator may be   *)
(* killed and started again, and a generator that ran before may have left *)
(* its semaphore and its segment.                                          *)
(***************************************************************************)
EXTENDS Generator, Posrednik, Zapisovalec

CONSTANT
  MaxKills    (* how often the generator is killed and started again        *)

ASSUME PipelineAssumption == MaxKills \in Nat

VARIABLES
  ordered,    (* whether the programs are started in the order that works   *)
  prompt,     (* whether all but the sleeps is instantaneous                *)
  kills,      (* so far                                                     *)
  leftover,   (* an earlier run has left something                          *)
  broken      (* history: a SETVAL hit the semaphore while it was held      *)

vars == <<ipc, gvars, pvars, zvars, ordered, prompt, kills, leftover, broken>>

(* Of a generator that nobody listened to, or that was killed inside its   *)
(* critical section.                                                       *)
Leftovers ==
  LeftBehind(1, Cut(Text(Messages))) \/ LeftBehind(0, Text(1))

Init ==
  /\ leftover \in BOOLEAN
  /\ IF leftover THEN Leftovers ELSE NoIPC
  /\ GInit /\ PInit /\ ZInit
  /\ ordered \in BOOLEAN /\ prompt \in BOOLEAN
  /\ kills = 0 /\ broken = FALSE

(* posrednik takes an empty segment for the end, and zapisovalec needs the *)
(* queue: the second waits for the first text, the third for the queue.    *)
PMayStart == ordered => gi > 1
ZMayStart == ordered => pmsq # 0

Generate ==
  /\ GNext
  /\ broken' = (broken \/ (gpc = "setval" /\ PHolds /\ psem = gsem))
  /\ UNCHANGED <<pvars, zvars, ordered, prompt, kills, leftover>>

Forward ==
  /\ PNext
  /\ ppc = "off" => PMayStart
  /\ broken' = (broken \/ (ppc = "setval" /\ GHolds /\ gsem = psem))
  /\ UNCHANGED <<gvars, zvars, ordered, prompt, kills, leftover>>

Record ==
  /\ ZNext
  /\ zpc = "off" => ZMayStart
  /\ UNCHANGED <<gvars, pvars, ordered, prompt, kills, leftover, broken>>

(* The semaphore operations carry no SEM_UNDO: a generator that dies keeps *)
(* what it took.  (Only where something is said of it: in ordered runs.)   *)
Kill ==
  /\ ordered /\ kills < MaxKills
  /\ gpc \notin {"off", "done", "failed"}
  /\ gpc' = "off" /\ gi' = 1 /\ gsem' = 0 /\ gshm' = 0 /\ gnap' = 0
  /\ kills' = kills + 1
  /\ UNCHANGED <<ipc, pvars, zvars, ordered, prompt, leftover, broken>>

(* On a prompt machine time passes only when nobody can do anything else:  *)
(* next to a sleep of a second or two everything else is instantaneous.    *)
PrevTick(n) == IF n = 0 THEN 0 ELSE n - 1

Tick ==
  /\ gnap + pnap > 0
  /\ prompt => GIdle /\ PIdle /\ ZIdle /\ ~(ppc = "off" /\ PMayStart)
  /\ gnap' = PrevTick(gnap) /\ pnap' = PrevTick(pnap)
  /\ UNCHANGED <<ipc, gpc, gi, gsem, gshm, ppc, psem, pshm, pmsq, pprev,
                 zvars, ordered, prompt, kills, leftover, broken>>

Terminated ==
  /\ gpc \in {"done", "failed"} /\ ppc = "done" /\ zpc = "done"
  /\ UNCHANGED vars

Next == Generate \/ Forward \/ Record \/ Kill \/ Tick \/ Terminated

(* Each program is scheduled, and started.  semop serves those who wait in *)
(* the order they came, so a waiter is not passed over for ever.           *)
Fairness ==
  /\ WF_vars(Generate) /\ SF_vars(Generate /\ GLock)
  /\ WF_vars(Forward) /\ SF_vars(Forward /\ PLock)
  /\ WF_vars(Record) /\ WF_vars(Tick)

Spec     == Init /\ [][Next]_vars
FairSpec == Spec /\ Fairness

-----------------------------------------------------------------------------
(* Properties *)

GPCs == {"off", "setval", "shmget", "lock", "print", "printing", "unlock",
         "cut", "done", "failed"}
PPCs == {"off", "setval", "shmget", "msgget", "lock", "check", "show", "send",
         "unlock", "unlockEnd", "sendEnd", "sendAgain", "rmSem", "rmShm",
         "done"}
ZPCs == {"off", "recv", "handle", "remove", "done"}

(* Every variable stays in its domain, the queue within its capacity.      *)
TypeOK ==
  /\ sem \in [now : {0} \cup Ids, made : {0} \cup Ids, val : [Ids -> 0..2]]
  /\ shm \in [now : {0} \cup Ids, made : {0} \cup Ids,
              seg : [Ids -> [id : 0..Messages, nul : BOOLEAN]]]
  /\ msq.now \in {0, 1} /\ Len(msq.msgs) <= QueueCap
  /\ gpc \in GPCs /\ gi \in 1..(Messages + 1)
  /\ gsem \in {0} \cup Ids /\ gshm \in {0} \cup Ids /\ gnap \in 0..GSleep
  /\ ppc \in PPCs /\ pprev \in Content /\ pnap \in 0..PSleep
  /\ psem \in {0} \cup Ids /\ pshm \in {0} \cup Ids /\ pmsq \in {0, 1}
  /\ zpc \in ZPCs /\ zmsq \in {0, 1} /\ zbuf \in Content /\ zprev \in Content
  /\ file \in Seq(0..Messages)
  /\ ordered \in BOOLEAN /\ prompt \in BOOLEAN
  /\ kills \in 0..MaxKills /\ leftover \in BOOLEAN /\ broken \in BOOLEAN

PLoop == {"off", "setval", "shmget", "msgget", "lock", "check", "show",
          "send", "unlock", "unlockEnd"}

Holders == {p \in {"g", "p"} : IF p = "g" THEN GHolds ELSE PHolds}

(* generator.c:40 and posrednik.c:51 say it of the value 1 they set: one   *)
(* process at a time has the semaphore.                                    *)
AtMostOneHolder == gsem = psem => Holders # {"g", "p"}

(* What is true of it: units are conserved, so one process at a time is in *)
(* its critical section, unless one program's SETVAL ran while the other   *)
(* was already inside.                                                     *)
UnitConserved ==
  /\ ~broken /\ kills = 0
  /\ gsem = psem /\ SemLive(psem)
  /\ gpc \notin {"off", "setval"} /\ ppc \notin {"off", "setval"}
  => sem.val[psem] + (IF GHolds THEN 1 ELSE 0) + (IF PHolds THEN 1 ELSE 0) = 1

(* The semaphore is what keeps a half printed first text from being shown, *)
(* sent and written (posrednik.c:84-90, zapisovalec.c:55).  It does so     *)
(* only inside posrednik's loop: the two sends after the break             *)
(* (posrednik.c:79, 95) run without it and carry whatever the segment      *)
(* holds by then.  When posrednik was started too early that may be half a *)
(* text, which then reaches the file; programs started in order never send *)
(* one there either.                                                       *)
OnlyWholeTexts ==
  ~broken /\ kills = 0 =>
    /\ pprev # Blank => pprev.id # 0
    /\ ordered \/ ppc \in PLoop =>
         /\ \A i \in 1..Len(msq.msgs) : msq.msgs[i].id # 0
         /\ zmsq # 0 => \A i \in 1..Len(file) : file[i] # 0

(* However often a text is sent and however the programs interleave, the   *)
(* file holds each text at most once and in the order of their numbers, as *)
(* long as one generator makes them all.  A segment left by an earlier one *)
(* does no harm to programs that are started in order.                     *)
FileInOrder ==
  kills = 0 /\ (leftover => ordered) =>
    \A i, j \in 1..Len(file) : i < j => file[i] < file[j]

(* Started in order and not killed, the generator never loses its          *)
(* semaphore, and when all three have ended no kernel object is left over. *)
CleanEnd ==
  ordered /\ kills = 0 =>
  /\ gpc # "failed"
  /\ gpc = "done" /\ ppc = "done" /\ zpc = "done" =>
       sem.now = 0 /\ shm.now = 0 /\ msq.now = 0

(* Started in order, on a prompt machine, every text but perhaps the last  *)
(* reaches the file: only the last is wiped without the semaphore, at once *)
(* after the unlock (generator.c:63-66).                                   *)
OnlyLastMayBeLost ==
  ordered /\ prompt /\ kills = 0 /\ zpc = "done" =>
    file \in {[i \in 1..n |-> i] : n \in {Messages - 1, Messages}}

(* Started in order all three programs end, also when the generator is     *)
(* killed inside its critical section and started again: its SETVAL frees  *)
(* the semaphore its predecessor died with.                                *)
AllTerminate ==
  ordered => <>(gpc = "done" /\ ppc = "done" /\ zpc = "done")
=============================================================================
