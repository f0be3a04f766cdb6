----------------------------- MODULE MonteCarlo -----------------------------
(***************************************************************************)
(* Exercise 7: N_threads threads estimate an integral.  Each one samples   *)
(* in batches on its own and adds the batch to two global counters under   *)
(* one mutex, until the counters have reached N_MAX samples.  main creates *)
(* the threads, joins them in order and then reads the counters without    *)
(* the mutex.                                                              *)
(***************************************************************************)
EXTENDS Integers

CONSTANTS
  N_threads,  (* argv[1]                                                *)
  N_MAX,      (* the samples to reach, 10^9 in the program              *)
  Batch       (* the samples of one pass of the inner loop, 10^6        *)

ASSUME MonteCarloAssumption ==
  /\ N_threads \in Nat
  /\ N_MAX \in Nat \ {0}
  /\ Batch \in Nat \ {0}

Threads == 1..N_threads

VARIABLES
  N_global, P_global,  (* the shared counters: samples, hits              *)
  mutexP,              (* the thread that holds the mutex, 0 when free    *)
  pc,                  (* where each thread is                            *)
  local_N, local_P,    (* each thread's counts since its last commit      *)
  created, joined,     (* how far main's two loops have come              *)
  report               (* what main has printed: <<>> or <<P, N>>         *)

vars == <<N_global, P_global, mutexP, pc, local_N, local_P,
          created, joined, report>>
globals == <<N_global, P_global>>
locals  == <<local_N, local_P>>
mains   == <<created, joined, report>>

Goto(t, from, to) ==
  /\ pc[t] = from
  /\ pc' = [pc EXCEPT ![t] = to]

(* A mutation of Lock: a trylock whose result is ignored.                  *)
Lock_NoWait(t) == mutexP' = t

Lock(t)   == mutexP = 0 /\ mutexP' = t
Unlock(t) == mutexP' = 0

Init ==
  /\ N_global = 0 /\ P_global = 0
  /\ mutexP = 0
  /\ pc = [t \in Threads |-> "unborn"]
  /\ local_N = [t \in Threads |-> 0]
  /\ local_P = [t \in Threads |-> 0]
  /\ created = 0 /\ joined = 0
  /\ report = <<>>

-----------------------------------------------------------------------------
(* main *)

Create ==
  /\ created < N_threads
  /\ Goto(created + 1, "unborn", "top")
  /\ created' = created + 1
  /\ UNCHANGED <<globals, locals, mutexP, joined, report>>

(* A mutation of Join: main does not wait.                                 *)
Join_NoWait ==
  /\ created = N_threads
  /\ joined < N_threads
  /\ joined' = joined + 1
  /\ UNCHANGED <<globals, locals, mutexP, pc, created, report>>

Join ==
  /\ created = N_threads
  /\ joined < N_threads
  /\ pc[joined + 1] = "exited"
  /\ joined' = joined + 1
  /\ UNCHANGED <<globals, locals, mutexP, pc, created, report>>

Report ==
  /\ created = N_threads /\ joined = N_threads
  /\ report = <<>>
  /\ report' = <<P_global, N_global>>
  /\ UNCHANGED <<globals, locals, mutexP, pc, created, joined>>

-----------------------------------------------------------------------------
(* thread_function *)

LockTop(t) ==
  /\ Goto(t, "top", "check")
  /\ Lock(t)
  /\ UNCHANGED <<globals, locals, mains>>

CheckTop(t) ==
  /\ Goto(t, "check", IF N_global >= N_MAX THEN "exited" ELSE "sample")
  /\ Unlock(t)
  /\ UNCHANGED <<globals, locals, mains>>

Sample(t) ==
  /\ Goto(t, "sample", "lockAdd")
  /\ \E k \in 0..Batch : local_P' = [local_P EXCEPT ![t] = @ + k]
  /\ local_N' = [local_N EXCEPT ![t] = @ + Batch]
  /\ UNCHANGED <<globals, mutexP, mains>>

LockAdd(t) ==
  /\ Goto(t, "lockAdd", "add")
  /\ Lock(t)
  /\ UNCHANGED <<globals, locals, mains>>

(* A mutation of GiveUp: the early exit forgets to unlock.                 *)
GiveUp_NoUnlock(t) ==
  /\ N_global >= N_MAX
  /\ Goto(t, "add", "exited")
  /\ UNCHANGED <<globals, locals, mutexP, mains>>

(* The quota was reached while this thread sampled: its batch is dropped.  *)
GiveUp(t) ==
  /\ N_global >= N_MAX
  /\ Goto(t, "add", "exited")
  /\ Unlock(t)
  /\ UNCHANGED <<globals, locals, mains>>

(* A mutation of AddN: no second look at the quota.                         *)
AddN_NoRecheck(t) ==
  /\ Goto(t, "add", "addP")
  /\ N_global' = N_global + local_N[t]
  /\ UNCHANGED <<P_global, locals, mutexP, mains>>

(* A mutation of AddN: the mutex is given back between the two additions.  *)
AddN_Unlocks(t) ==
  /\ N_global < N_MAX
  /\ Goto(t, "add", "addP")
  /\ N_global' = N_global + local_N[t]
  /\ Unlock(t)
  /\ UNCHANGED <<P_global, locals, mains>>

AddN(t) ==
  /\ N_global < N_MAX
  /\ Goto(t, "add", "addP")
  /\ N_global' = N_global + local_N[t]
  /\ UNCHANGED <<P_global, locals, mutexP, mains>>

AddP(t) ==
  /\ Goto(t, "addP", "top")
  /\ P_global' = P_global + local_P[t]
  /\ Unlock(t)
  /\ local_N' = [local_N EXCEPT ![t] = 0]
  /\ local_P' = [local_P EXCEPT ![t] = 0]
  /\ UNCHANGED <<N_global, mains>>

Thread(t) ==
  \/ LockTop(t) \/ CheckTop(t) \/ Sample(t)
  \/ LockAdd(t) \/ GiveUp(t) \/ AddN(t) \/ AddP(t)

Main == Create \/ Join \/ Report

(* After main has returned the process is gone.                            *)
Terminated == report # <<>> /\ UNCHANGED vars

Next == Main \/ (\E t \in Threads : Thread(t)) \/ Terminated

(* Every thread is scheduled.  A thread that waits for the mutex while     *)
(* others keep taking it need not get it: weak fairness is all that is     *)
(* asked of the mutex.                                                     *)
Fairness == WF_vars(Main) /\ \A t \in Threads : WF_vars(Thread(t))

Spec     == Init /\ [][Next]_vars
FairSpec == Spec /\ Fairness

-----------------------------------------------------------------------------
(* Properties *)

PCs == {"unborn", "top", "check", "sample", "lockAdd", "add", "addP", "exited"}
Critical == {"check", "add", "addP"}

(* Every variable stays in its domain.                                     *)
TypeOK ==
  /\ N_global \in Nat /\ P_global \in Nat
  /\ mutexP \in {0} \cup Threads
  /\ pc \in [Threads -> PCs]
  /\ local_N \in [Threads -> Nat] /\ local_P \in [Threads -> Nat]
  /\ created \in 0..N_threads /\ joined \in 0..N_threads
  /\ report \in {<<>>} \cup (Nat \X Nat)

(* The check of the quota and the addition are one critical section, so    *)
(* the total overshoots N_MAX by less than one batch however many threads  *)
(* finish a batch at the same time (naloga.c:90-98).  With the program's   *)
(* 10^9 and 10^6 the sum stays below 2^31, so the ints never overflow.     *)
Overshoot == N_global < N_MAX + Batch

(* Whoever finds the mutex free, or has it and looks at the counters, sees *)
(* two that belong together: no other thread is between the two additions  *)
(* of naloga.c:95-96, the samples counted are whole batches, and at most   *)
(* all of them hit.                                                        *)
CountersAgree ==
  mutexP = 0 \/ pc[mutexP] \in {"check", "add"} =>
    /\ \A t \in Threads : pc[t] # "addP"
    /\ N_global % Batch = 0 /\ P_global <= N_global

(* main reads the counters with no lock (naloga.c:52-54).  That is right   *)
(* only because by then every thread has been joined: what it prints is    *)
(* the final state of both counters, and the quota has been reached unless *)
(* there never was a thread.                                               *)
ReportIsFinal ==
  report # <<>> =>
    /\ report = <<P_global, N_global>>
    /\ N_threads > 0 => N_global >= N_MAX
    /\ \A t \in Threads : pc[t] = "exited"

(* A thread leaves only once the quota is reached, and from then on no     *)
(* thread moves the number of samples again (naloga.c:73, 91).             *)
QuotaCloses == [][N_global >= N_MAX => N_global' = N_global]_vars

(* The counters, with a hit count still on its way added, behave as the    *)
(* abstract budget: every change is one whole batch committed below the    *)
(* quota.                                                                  *)
PendingHits ==
  IF mutexP # 0 /\ pc[mutexP] = "addP" THEN local_P[mutexP] ELSE 0

Budget == INSTANCE SampleBudget
            WITH Quota   <- N_MAX,
                 samples <- N_global,
                 hits    <- P_global + PendingHits
BudgetSpec == Budget!Spec

(* The program always ends with a report: no interleaving leaves a thread  *)
(* waiting for the mutex, or main for a thread, for ever.                  *)
EventuallyReports == <>(report # <<>>)

(* README.md:8-11 of the exercise: a thread adds its local counts to the   *)
(* global ones, and only then compares the total with the maximum; so a    *)
(* thread that has ended has nothing left uncounted.                       *)
EveryBatchCounted == \A t \in Threads : pc[t] = "exited" => local_N[t] = 0
=============================================================================
