------------------------- MODULE MonteCarlo_proofs -------------------------
(***************************************************************************)
(* Theorems about exercise 7 for every number of threads, every quota and  *)
(* every batch size.                                                       *)
(***************************************************************************)
EXTENDS MonteCarlo, TLAPS

(* A total of whole batches stays one when a batch is added, whatever the  *)
(* size of the batches (naloga.c:95).                                      *)
LEMMA AddDivisor ==
  ASSUME NEW n \in Nat, NEW b \in Nat \ {0}
  PROVE  (n + b) % b = n % b
<1> DEFINE q == (n + b) \div b
           r == (n + b) % b
           p == n \div b
           s == n % b
<1>1. q \in Int /\ r \in 0..(b - 1) /\ n + b = b * q + r
  OBVIOUS
<1>2. p \in Int /\ s \in 0..(b - 1) /\ n = b * p + s
  OBVIOUS
<1> HIDE DEF q, r, p, s
<1>3. b * (q - p - 1) = s - r
  BY <1>1, <1>2
<1>4. (q - p - 1 >= 1 => b * (q - p - 1) >= b) /\ (q - p - 1 <= -1 => b * (q - p - 1) <= -b)
  BY <1>1, <1>2
<1>5. q - p - 1 = 0
  BY <1>1, <1>2, <1>3, <1>4
<1> QED
  BY <1>1, <1>2, <1>3, <1>5 DEF r, s

(* The mutex belongs to the one thread that is in a critical section.      *)
Owner == \A t \in Threads : pc[t] \in Critical <=> mutexP = t

(* What a thread has not yet committed is nothing or one batch.            *)
Uncommitted ==
  \A t \in Threads :
    /\ local_P[t] <= local_N[t]
    /\ pc[t] \in {"unborn", "top", "check", "sample"} => local_N[t] = 0
    /\ pc[t] \in {"lockAdd", "add", "addP"} => local_N[t] = Batch

(* The hits never outnumber the samples, with the hits of a half-done      *)
(* commit counted too.                                                     *)
HitsBounded ==
  /\ P_global <= N_global
  /\ \A t \in Threads : pc[t] = "addP" => P_global + local_N[t] <= N_global

(* The samples counted are whole batches.                                  *)
WholeBatches == N_global % Batch = 0

(* main's two loops and the threads they create and wait for.              *)
Lifecycle ==
  /\ \A t \in Threads : pc[t] = "unborn" <=> t > created
  /\ \A t \in Threads : t <= joined => pc[t] = "exited"
  /\ \A t \in Threads : pc[t] = "exited" => N_global >= N_MAX
  /\ report # <<>> => joined = N_threads /\ report = <<P_global, N_global>>

(* The inductive invariant.  Owner is what makes Overshoot inductive: a    *)
(* thread at "add" holds the mutex, so the total it compared with N_MAX is *)
(* the total it adds to.                                                   *)
IInv ==
  /\ TypeOK
  /\ Owner
  /\ Uncommitted
  /\ HitsBounded
  /\ WholeBatches
  /\ Lifecycle
  /\ Overshoot

(* Before main creates a thread both counters are 0 and the mutex is       *)
(* free.                                                                   *)
LEMMA InitIInv == Init => IInv
<1>1. 0 % Batch = 0
  BY MonteCarloAssumption
<1>2. QED
  BY MonteCarloAssumption, <1>1
  DEF Init, IInv, TypeOK, Owner, Uncommitted, HitsBounded, WholeBatches,
      Lifecycle, Overshoot, Threads, PCs, Critical

(* Only a commit of a batch moves the number of samples.                   *)
LEMMA WholeBatchesPreserved ==
  IInv /\ [Next]_vars => WholeBatches'
<1> SUFFICES ASSUME IInv, [Next]_vars PROVE WholeBatches'
  OBVIOUS
<1>1. ASSUME NEW t \in Threads, AddN(t) PROVE WholeBatches'
  <2>1. N_global' = N_global + Batch
    BY <1>1 DEF AddN, Goto, IInv, TypeOK, Uncommitted, Threads
  <2>2. QED
    BY <2>1, AddDivisor, MonteCarloAssumption
    DEF IInv, TypeOK, WholeBatches
<1>2. ASSUME NEW t \in Threads, Thread(t), ~AddN(t) PROVE WholeBatches'
  BY <1>2 DEF IInv, WholeBatches, Thread, LockTop, CheckTop, Sample, LockAdd,
              GiveUp, AddP, globals
<1>3. CASE Main \/ Terminated \/ UNCHANGED vars
  BY <1>3 DEF IInv, WholeBatches, Main, Create, Join, Report, Terminated,
              globals, vars
<1>4. QED
  BY <1>1, <1>2, <1>3 DEF Next

(* No step of main or of a thread breaks the inductive invariant.          *)
LEMMA NextIInv == IInv /\ [Next]_vars => IInv'
<1> SUFFICES ASSUME IInv, [Next]_vars PROVE IInv'
  OBVIOUS
<1>0. WholeBatches'
  BY WholeBatchesPreserved
<1> USE <1>0, MonteCarloAssumption
    DEF IInv, TypeOK, Owner, Uncommitted, HitsBounded, Lifecycle, Overshoot,
        Threads, PCs, Critical, Goto, Lock, Unlock,
        globals, locals, mains
<1>1. CASE Create
  BY <1>1 DEF Create
<1>2. CASE Join
  BY <1>2 DEF Join
<1>3. CASE Report
  BY <1>3 DEF Report
<1>4. ASSUME NEW t \in Threads, LockTop(t) PROVE IInv'
  BY <1>4 DEF LockTop
<1>5. ASSUME NEW t \in Threads, CheckTop(t) PROVE IInv'
  BY <1>5 DEF CheckTop
<1>6. ASSUME NEW t \in Threads, Sample(t) PROVE IInv'
  BY <1>6 DEF Sample
<1>7. ASSUME NEW t \in Threads, LockAdd(t) PROVE IInv'
  BY <1>7 DEF LockAdd
<1>8. ASSUME NEW t \in Threads, GiveUp(t) PROVE IInv'
  <2>1. TypeOK' /\ Overshoot'
    BY <1>8 DEF GiveUp
  <2>2. Owner'
    BY <1>8 DEF GiveUp
  <2>3. Uncommitted' /\ HitsBounded'
    BY <1>8 DEF GiveUp
  <2>4. Lifecycle'
    BY <1>8 DEF GiveUp
  <2>5. QED
    BY <2>1, <2>2, <2>3, <2>4
<1>9. ASSUME NEW t \in Threads, AddN(t) PROVE IInv'
  <2>1. local_N[t] = Batch /\ mutexP = t
    BY <1>9 DEF AddN
  <2>2. TypeOK' /\ Overshoot'
    BY <1>9, <2>1 DEF AddN
  <2>3. Owner' /\ Uncommitted'
    BY <1>9, <2>1 DEF AddN
  <2>4. \A u \in Threads : pc[u] = "addP" => u = t
    BY <2>1
  <2>5. HitsBounded'
    BY <1>9, <2>1, <2>4 DEF AddN
  <2>6. report = <<>>
    \* A report would mean that every thread, t too, has exited.
    BY <1>9 DEF AddN
  <2>7. Lifecycle'
    BY <1>9, <2>6 DEF AddN
  <2>8. QED
    BY <2>2, <2>3, <2>5, <2>7
<1>10. ASSUME NEW t \in Threads, AddP(t) PROVE IInv'
  <2>1. mutexP = t /\ report = <<>>
    BY <1>10 DEF AddP
  <2>2. TypeOK' /\ Overshoot'
    BY <1>10, <2>1 DEF AddP
  <2>3. Owner' /\ Uncommitted'
    BY <1>10, <2>1 DEF AddP
  <2>4. \A u \in Threads : pc[u] = "addP" => u = t
    BY <2>1
  <2>5. HitsBounded'
    BY <1>10, <2>1, <2>4 DEF AddP
  <2>6. Lifecycle'
    BY <1>10, <2>1 DEF AddP
  <2>7. QED
    BY <2>2, <2>3, <2>5, <2>6
<1>11. CASE UNCHANGED vars
  BY <1>11 DEF vars
<1>12. QED
  BY <1>1, <1>2, <1>3, <1>4, <1>5, <1>6, <1>7, <1>8, <1>9, <1>10, <1>11
  DEF Next, Main, Thread, Terminated

(* The type invariant, and with it the whole inductive invariant, for      *)
(* every number of threads.                                                *)
THEOREM InductiveInvariant == Spec => []IInv
  BY InitIInv, NextIInv, PTL DEF Spec

(* No interleaving of any number of threads makes the total of             *)
(* naloga.c:95 exceed the quota by a batch or more.                        *)
THEOREM NoOvershoot == Spec => []Overshoot
<1>1. IInv => Overshoot
  BY DEF IInv
<1>2. QED
  BY InductiveInvariant, <1>1, PTL

(* main prints the final counters, though it reads them without the mutex  *)
(* (naloga.c:52-54).                                                       *)
THEOREM FinalReport == Spec => []ReportIsFinal
<1>1. IInv => ReportIsFinal
  <2> SUFFICES ASSUME IInv, report # <<>> PROVE ReportIsFinal
    BY DEF ReportIsFinal
  <2>1. report = <<P_global, N_global>> /\ joined = N_threads
    BY DEF IInv, Lifecycle
  <2>2. \A t \in Threads : pc[t] = "exited"
    BY <2>1, MonteCarloAssumption DEF IInv, Lifecycle, Threads
  <2>3. N_threads > 0 => N_global >= N_MAX
    <3> SUFFICES ASSUME N_threads > 0 PROVE N_global >= N_MAX
      OBVIOUS
    <3>1. 1 \in Threads
      BY MonteCarloAssumption DEF Threads
    <3>2. QED
      BY <2>2, <3>1 DEF IInv, Lifecycle
  <2>4. QED
    BY <2>1, <2>2, <2>3 DEF ReportIsFinal
<1>2. QED
  BY InductiveInvariant, <1>1, PTL

(* Once the quota is reached the number of samples never moves again.      *)
THEOREM ClosedQuota == Spec => QuotaCloses
<1>1. IInv /\ [Next]_vars => [N_global >= N_MAX => N_global' = N_global]_vars
  <2> SUFFICES ASSUME IInv, Next, N_global >= N_MAX
               PROVE  N_global' = N_global
    BY DEF vars
  <2>1. \A t \in Threads : ~AddN(t)
    BY MonteCarloAssumption DEF AddN, IInv, TypeOK
  <2>2. ASSUME NEW t \in Threads, Thread(t) PROVE N_global' = N_global
    BY <2>1, <2>2
    DEF Thread, LockTop, CheckTop, Sample, LockAdd, GiveUp, AddP, globals
  <2>3. QED
    BY <2>2 DEF Next, Main, Create, Join, Report, Terminated, globals, vars
<1>2. QED
  BY InductiveInvariant, <1>1, PTL DEF Spec, QuotaCloses

(* Whoever finds the mutex free, or has it and looks at the counters, sees *)
(* none of another thread's half done additions (naloga.c:95-97).          *)
THEOREM CountersAlwaysAgree == Spec => []CountersAgree
<1>1. IInv => CountersAgree
  <2> SUFFICES ASSUME IInv, mutexP = 0 \/ pc[mutexP] \in {"check", "add"}
               PROVE  CountersAgree
    BY DEF CountersAgree
  <2>1. \A t \in Threads : pc[t] # "addP"
    BY MonteCarloAssumption DEF IInv, TypeOK, Owner, Critical, Threads
  <2> QED
    BY <2>1 DEF IInv, WholeBatches, HitsBounded, CountersAgree
<1>2. QED
  BY InductiveInvariant, <1>1, PTL

-----------------------------------------------------------------------------
(* Implementation of the abstract budget                                   *)

(* The program starts with an empty budget.                                *)
LEMMA InitRefines == Init => Budget!Init
  BY DEF Init, Budget!Init, PendingHits

(* AddN is the commit, with the thread's hits as the batch's hits; AddP    *)
(* moves those hits from the refinement mapping into P_global; every other *)
(* step is a stutter.                                                      *)
LEMMA NextRefines == IInv /\ [Next]_vars => [Budget!Next]_(Budget!vars)
<1> SUFFICES ASSUME IInv, [Next]_vars PROVE [Budget!Next]_(Budget!vars)
  OBVIOUS
<1> USE MonteCarloAssumption
<1> DEFINE h == P_global + PendingHits
<1>1. ASSUME NEW t \in Threads, AddN(t) PROVE Budget!Next
  <2>1. mutexP = t /\ mutexP' = t /\ t # 0
    BY <1>1 DEF AddN, IInv, Owner, Critical, Goto, Threads
  <2>2. pc[t] = "add" /\ pc'[t] = "addP"
    BY <1>1 DEF AddN, Goto, IInv, TypeOK
  <2>3. PendingHits = 0 /\ PendingHits' = local_P[t]
    BY <1>1, <2>1, <2>2 DEF PendingHits, AddN, locals
  <2>4. local_N[t] = Batch /\ local_P[t] \in 0..Batch
    BY <2>2 DEF IInv, Uncommitted, TypeOK
  <2>5. N_global < N_MAX /\ N_global' = N_global + Batch
    BY <1>1, <2>4 DEF AddN
  <2>6. h' = h + local_P[t]
    BY <1>1, <2>3, <2>4 DEF AddN, IInv, TypeOK
  <2>7. QED
    BY <2>4, <2>5, <2>6 DEF Budget!Next, Budget!Commit
<1>2. ASSUME NEW t \in Threads, AddP(t) PROVE UNCHANGED Budget!vars
  <2>1. mutexP = t /\ t # 0 /\ pc[t] = "addP" /\ mutexP' = 0
    BY <1>2 DEF AddP, Unlock, IInv, Owner, Critical, Goto, Threads
  <2>2. PendingHits = local_P[t] /\ PendingHits' = 0
    BY <2>1 DEF PendingHits
  <2>3. P_global' = P_global + local_P[t] /\ N_global' = N_global
    BY <1>2 DEF AddP
  <2>4. QED
    BY <2>2, <2>3 DEF Budget!vars, IInv, TypeOK
<1>3. ASSUME NEW t \in Threads, LockTop(t) \/ LockAdd(t)
      PROVE  UNCHANGED Budget!vars
  <2>1. mutexP = 0 /\ mutexP' = t /\ pc'[t] # "addP" /\ UNCHANGED globals
    BY <1>3 DEF LockTop, LockAdd, Goto, Lock, IInv, TypeOK
  <2>2. QED
    BY <2>1 DEF PendingHits, Budget!vars, globals
<1>4. ASSUME NEW t \in Threads, CheckTop(t) \/ GiveUp(t)
      PROVE  UNCHANGED Budget!vars
  <2>1. mutexP = t /\ mutexP' = 0 /\ pc[t] # "addP" /\ UNCHANGED globals
    BY <1>4 DEF CheckTop, GiveUp, Goto, Unlock, IInv, Owner, Critical
  <2>2. QED
    BY <2>1 DEF PendingHits, Budget!vars, globals
<1>5. ASSUME NEW t \in Threads, Sample(t) PROVE UNCHANGED Budget!vars
  \* Another thread may be half-way through its commit meanwhile.
  <2>1. t # mutexP /\ UNCHANGED <<globals, mutexP>>
    BY <1>5 DEF Sample, Goto, IInv, Owner, Critical
  <2>2. mutexP # 0 => /\ mutexP \in Threads
                      /\ pc'[mutexP] = pc[mutexP]
                      /\ local_P'[mutexP] = local_P[mutexP]
    BY <1>5, <2>1 DEF Sample, Goto, IInv, TypeOK
  <2>3. QED
    BY <2>1, <2>2 DEF PendingHits, Budget!vars, globals
<1>6. CASE Main \/ Terminated \/ UNCHANGED vars
  <2>1. UNCHANGED <<globals, locals, mutexP>>
    BY <1>6 DEF Main, Create, Join, Report, Terminated, vars, globals, locals
  <2>2. \A t \in Threads : pc[t] = "addP" <=> pc'[t] = "addP"
    BY <1>6 DEF Main, Create, Join, Report, Terminated, vars, Goto, Threads,
                IInv, TypeOK
  <2>3. UNCHANGED PendingHits
    BY <2>1, <2>2 DEF PendingHits, locals, IInv, TypeOK
  <2>4. QED
    BY <2>1, <2>3 DEF Budget!vars, globals
<1>7. QED
  BY <1>1, <1>2, <1>3, <1>4, <1>5, <1>6 DEF Next, Thread

(* The threads of naloga.c:63-106 together implement the abstract budget.  *)
THEOREM RefinesBudget == Spec => BudgetSpec
  BY InitRefines, NextRefines, InductiveInvariant, PTL
  DEF Spec, BudgetSpec, Budget!Spec
=============================================================================
