--------------------------- MODULE Shells_proofs ---------------------------
(***************************************************************************)
(* Proofs about the shells of exercises 4 and 5, for any lines and scripts *)
(* whatever, any number of processes, any size of a pipe, and about the    *)
(* alarm of exercise 5, for any number of keys and ticks of a second.      *)
(***************************************************************************)
EXTENDS Shells, SequenceTheorems, FiniteSetTheorems, TLAPS

-----------------------------------------------------------------------------
(* The invariant *)

Inputs == {<<>>} \cup Lines \cup UNION {ToSet(s) : s \in Scripts}

Processes ==
  [pc : {"fgets", "wait", "child", "command", "zombie"},
   commandCounter : Nat, input : Inputs, next : Nat]

(* Every shell of the chain but the last waits for the next, and the last  *)
(* one does not wait: in a chain of any length one process runs.           *)
ChainInv ==
  /\ script \in {<<>>} \cup Scripts
  /\ chain \in Seq(Processes)
  /\ \A d \in 1..Len(chain) : chain[d].pc = "wait" <=> d < Len(chain)

JobRecords ==
  [left : {left(ws) : ws \in Lines}, right : {right(ws) : ws \in Lines},
   p2 : {"child", "forked", "wait", "command", "zombie", "gone"},
   p3 : {"none", "child", "command", "zombie"},
   pipe : Int, writers : SUBSET {"P2", "P3"}, readers : SUBSET {"P2", "P3"},
   toWrite : Int]

(* The P2 of a line is there only while P1 waits for it, and it is the one *)
(* of the last line.                                                       *)
JobsInv ==
  /\ p1 \in {"fgets", "wait", "ended"}
  /\ jobs \in Seq(JobRecords)
  /\ p1 = "wait" => jobs # <<>>
  /\ \A n \in 1..Len(jobs) : jobs[n].p2 = "gone" \/ (p1 = "wait" /\ n = Len(jobs))

(* Only one of the two shells is at work.                                  *)
OneShell == chain = <<>> \/ (p1 = "ended" /\ jobs = <<>>)

ShellsInv == ChainInv /\ JobsInv /\ OneShell

(* One shell starts at its prompt (shell.c:27, shell2.c:30), or none does. *)
LEMMA InitShells == Init => ShellsInv
<1> SUFFICES ASSUME Init PROVE ShellsInv
  OBVIOUS
<1>1. jobs = <<>> /\ p1 \in {"fgets", "ended"} /\ script \in {<<>>} \cup Scripts
  BY DEF Init, ShellStarts, NoShell
<1>2. JobsInv
  BY <1>1, EmptySeq DEF JobsInv
<1>3. CASE ShellStarts /\ p1 = "ended"
  <2>1. chain = <<Started>> /\ Started \in Processes
    BY <1>3 DEF ShellStarts, Started, Processes, Inputs
  <2>2. chain \in Seq(Processes) /\ Len(chain) = 1 /\ chain[1].pc = "fgets"
    BY <2>1 DEF Started
  <2> QED
    BY <1>1, <1>2, <1>3, <2>2 DEF ShellsInv, ChainInv, OneShell
<1>4. CASE NoShell
  <2>1. chain = <<>>
    BY <1>4 DEF NoShell
  <2> QED
    BY <1>1, <1>2, <2>1, EmptySeq DEF ShellsInv, ChainInv, OneShell
<1> QED
  BY <1>3, <1>4 DEF Init

-----------------------------------------------------------------------------
(* The shell of exercise 4 *)

(* A line read is an input (shell.c:29), for the shell and its child.      *)
LEMMA ReadsLine ==
  ASSUME ChainInv, NEW p \in Processes, NEW ws \in Lines \cup ToSet(script)
  PROVE  /\ Read(p, ws) \in Processes /\ Read(p, ws).pc = p.pc
         /\ Parent(Read(p, ws)) \in Processes /\ Parent(Read(p, ws)).pc = "wait"
         /\ Child(Read(p, ws)) \in Processes /\ Child(Read(p, ws)).pc = "child"
<1> DEFINE q == Read(p, ws)
<1>1. ws \in Inputs
  <2>1. ToSet(<<>>) = {}
    BY DEF ToSet
  <2> QED
    BY <2>1 DEF Inputs, ChainInv
<1>2. q \in Processes /\ q.pc = p.pc
  <2>1. p.commandCounter + 1 \in Nat /\ p.next + 1 \in Nat
    BY DEF Processes
  <2>2. \A a, b \in Nat : LET r == [p EXCEPT !.commandCounter = a, !.input = ws, !.next = b]
                         IN r \in Processes /\ r.pc = p.pc
    BY <1>1 DEF Processes
  <2> QED
    BY <2>1, <2>2 DEF Read
<1>3. Parent(q) \in Processes /\ Parent(q).pc = "wait"
  BY <1>2 DEF Parent, Processes
<1>4. Child(q) \in Processes /\ Child(q).pc = "child"
  BY <1>2 DEF Child, Processes
<1> QED
  BY <1>2, <1>3, <1>4

(* A shell reads a line and waits for the child it forks (shell.c:29-50),  *)
(* or ends; a child runs a program, ends, or becomes the next shell; and   *)
(* who was waited for leaves the chain.                                    *)
LEMMA StepChain ==
  ASSUME ChainInv, NEW d \in 1..Len(chain), ShellRuns(d) \/ ShellTyped(d)
  PROVE  ChainInv' /\ chain # <<>>
<1> DEFINE n == Len(chain)
<1>1. /\ chain \in Seq(Processes) /\ n \in Nat /\ d \in 1..n
      /\ \A e \in 1..n : chain[e] \in Processes /\ (chain[e].pc = "wait" <=> e < n)
  BY ElementOfSeq, LenProperties DEF ChainInv
<1>2. chain # <<>> /\ script' = script
  BY <1>1, EmptySeq DEF ShellRuns, ShellTyped, ReadCommand, ReadEnd, ChildExec, ProgramEnds, WaitChild
<1> SUFFICES /\ chain' \in Seq(Processes)
             /\ \A e \in 1..Len(chain') : chain'[e].pc = "wait" <=> e < Len(chain')
  BY <1>2 DEF ChainInv
<1> HIDE DEF n
<1>3. ASSUME NEW r \in Processes, r.pc # "wait", chain[d].pc # "wait",
             chain' = [chain EXCEPT ![d] = r]
      PROVE  /\ chain' \in Seq(Processes)
             /\ \A e \in 1..Len(chain') : chain'[e].pc = "wait" <=> e < Len(chain')
  <2>1. /\ chain' \in Seq(Processes) /\ Len(chain') = n
        /\ \A e \in 1..n : chain'[e] = IF e = d THEN r ELSE chain[e]
    BY <1>1, <1>3, ExceptSeq DEF n
  <2> QED
    BY <1>1, <1>3, <2>1
<1>4. CASE ReadCommand(d)
  <2>1. PICK ws \in Lines \cup ToSet(script) :
          /\ chain[d].pc = "fgets"
          /\ chain' = IF Len(chain) < MaxProcesses
                      THEN Append([chain EXCEPT ![d] = Parent(Read(chain[d], ws))],
                                  Child(Read(chain[d], ws)))
                      ELSE [chain EXCEPT ![d] = Read(chain[d], ws)]
    BY <1>4 DEF ReadCommand
  <2> DEFINE p == Read(chain[d], ws)
  <2>2. chain[d] \in Processes /\ chain[d].pc = "fgets"
    BY <1>1, <2>1
  <2>3. p \in Processes /\ p.pc = "fgets"
    BY <2>1, <2>2, ReadsLine
  <2>4. Parent(p) \in Processes /\ Parent(p).pc = "wait"
    BY <2>1, <2>2, ReadsLine
  <2>5. Child(p) \in Processes /\ Child(p).pc = "child"
    BY <2>1, <2>2, ReadsLine
  <2> HIDE DEF p
  <2>6. CASE Len(chain) < MaxProcesses
    <3> DEFINE c == [chain EXCEPT ![d] = Parent(p)]
    <3>1. chain' = Append(c, Child(p))
      BY <2>1, <2>6 DEF p
    <3>2. /\ c \in Seq(Processes) /\ Len(c) = n
          /\ \A e \in 1..n : c[e] = IF e = d THEN Parent(p) ELSE chain[e]
      BY <1>1, <2>4, ExceptSeq DEF n
    <3> HIDE DEF c
    <3>3. /\ chain' \in Seq(Processes) /\ Len(chain') = n + 1
          /\ \A e \in 1..n : chain'[e] = c[e]
          /\ chain'[n + 1] = Child(p)
      BY <2>5, <3>1, <3>2, AppendProperties
    <3>4. d = n
      BY <1>1, <2>1
    <3>5. \A e \in 1..n : chain'[e].pc = "wait"
      BY <1>1, <2>4, <3>2, <3>3, <3>4
    <3> QED
      BY <1>1, <2>5, <3>3, <3>5
  <2>7. CASE ~(Len(chain) < MaxProcesses)
    BY <1>3, <2>1, <2>3, <2>7 DEF p
  <2> QED
    BY <2>6, <2>7
<1>5. CASE ReadEnd(d) \/ ChildExec(d) \/ ProgramEnds(d)
  <2>1. PICK x \in {"fgets", "command", "zombie"} :
          chain' = [chain EXCEPT ![d] = [chain[d] EXCEPT !.pc = x]] /\ chain[d].pc # "wait"
    <3>1. CASE ReadEnd(d) \/ ProgramEnds(d)
      BY <3>1 DEF ReadEnd, ProgramEnds
    <3>2. CASE ChildExec(d)
      <4>1. Execvp(Args(chain[d])) \in {"crash", "command", "failed"}
        BY DEF Execvp
      <4> QED
        BY <3>2, <4>1 DEF ChildExec
    <3> QED
      BY <1>5, <3>1, <3>2
  <2>2. [chain[d] EXCEPT !.pc = x] \in Processes /\ [chain[d] EXCEPT !.pc = x].pc = x
    BY <1>1 DEF Processes
  <2> QED
    BY <1>3, <2>1, <2>2
<1>6. CASE WaitChild(d)
  <2>1. /\ chain[d].pc = "wait" /\ chain[d + 1].pc = "zombie"
        /\ chain' = [Front(chain) EXCEPT ![d] = [Front(chain)[d] EXCEPT !.pc = "fgets"]]
    BY <1>6 DEF WaitChild
  <2>2. d < n /\ d + 1 \in 1..n
    BY <1>1, <2>1
  <2>3. d + 1 = n
    BY <1>1, <2>1, <2>2
  <2>4. /\ Front(chain) \in Seq(Processes) /\ Len(Front(chain)) = d
        /\ \A e \in 1..d : Front(chain)[e] = chain[e]
    <3>1. Front(chain) = SubSeq(chain, 1, d)
      BY <2>3, <1>1 DEF Front, n
    <3> QED
      BY <1>1, <2>2, <3>1, SubSeqProperties DEF n
  <2>5. PICK f : f = Front(chain)
    OBVIOUS
  <2>6. PICK r : r = [f[d] EXCEPT !.pc = "fgets"]
    OBVIOUS
  <2>7. r \in Processes /\ r.pc = "fgets"
    <3>1. f[d] \in Processes
      BY <1>1, <2>4, <2>5
    <3> QED
      BY <2>6, <3>1 DEF Processes
  <2>8. /\ f \in Seq(Processes) /\ Len(f) = d /\ d \in 1..Len(f)
        /\ chain' = [f EXCEPT ![d] = r]
    BY <1>1, <2>1, <2>4, <2>5, <2>6
  <2>9. /\ chain' \in Seq(Processes) /\ Len(chain') = d
        /\ \A e \in 1..d : chain'[e] = IF e = d THEN r ELSE f[e]
    BY <2>7, <2>8, ExceptSeq
  <2>10. \A e \in 1..d : e # d => chain'[e].pc = "wait"
    BY <1>1, <2>2, <2>4, <2>5, <2>9
  <2> QED
    BY <1>1, <2>7, <2>9, <2>10
<1> QED
  BY <1>4, <1>5, <1>6 DEF ShellRuns, ShellTyped

-----------------------------------------------------------------------------
(* The shell of exercise 5 *)

(* The processes of a line change the records of that line only, and only  *)
(* P1 buries P2.                                                           *)
LEMMA StepLine ==
  ASSUME JobsInv, NEW n \in 1..Len(jobs), NEW j \in JobRecords, Becomes(n, j),
         jobs[n].p2 # "gone" \/ j.p2 = jobs[n].p2
  PROVE  JobsInv'
<1>1. /\ jobs \in Seq(JobRecords) /\ Len(jobs) \in Nat /\ p1' = p1
      /\ jobs' = [jobs EXCEPT ![n] = j]
  BY LenProperties DEF JobsInv, Becomes
<1>2. /\ jobs' \in Seq(JobRecords) /\ Len(jobs') = Len(jobs)
      /\ \A m \in 1..Len(jobs) : jobs'[m] = IF m = n THEN j ELSE jobs[m]
  BY <1>1, ExceptSeq
<1>3. jobs' # <<>>
  BY <1>1, <1>2, EmptySeq
<1>4. \A m \in 1..Len(jobs) :
        jobs'[m].p2 = "gone" \/ (p1' = "wait" /\ m = Len(jobs'))
  <2>1. \A m \in 1..Len(jobs) : jobs[m].p2 = "gone" \/ (p1 = "wait" /\ m = Len(jobs))
    BY DEF JobsInv
  <2>2. jobs[n].p2 = "gone" => j.p2 = "gone"
    OBVIOUS
  <2> QED
    BY <1>1, <1>2, <2>1, <2>2
<1> QED
  BY <1>1, <1>2, <1>3, <1>4 DEF JobsInv

(* P2, to its end (shell2.c:43-81).                                        *)
LEMMA StepP2 ==
  ASSUME JobsInv, NEW n \in 1..Len(jobs), P2Step(n)
  PROVE  JobsInv'
<1>1. jobs[n] \in JobRecords
  BY ElementOfSeq DEF JobsInv
<1>2. P2Ends(jobs[n]) \in JobRecords
  BY <1>1 DEF P2Ends, JobRecords
<1>3. jobs[n].p2 # "gone"
  BY DEF P2Step, P2Simple, P2Pipe, P2Exec, P2Wait, LeftWrites, LeftEnds
<1>4. \E j \in JobRecords : Becomes(n, j)
  <2>1. CASE P2Simple(n)
    <3>1. [jobs[n] EXCEPT !.p2 = "command"] \in JobRecords
      BY <1>1 DEF JobRecords
    <3> QED
      BY <1>2, <2>1, <3>1 DEF P2Simple
  <2>2. CASE P2Pipe(n)
    <3>1. [jobs[n] EXCEPT !.p2 = "forked", !.p3 = "child",
             !.writers = {"P2", "P3"}, !.readers = {"P2", "P3"}] \in JobRecords
      BY <1>1 DEF JobRecords
    <3> QED
      BY <1>2, <2>2, <3>1 DEF P2Pipe
  <2>3. CASE P2Exec(n)
    <3> DEFINE j == [jobs[n] EXCEPT !.readers = @ \ {"P2"}]
    <3>1. j \in JobRecords
      BY <1>1 DEF JobRecords
    <3>2. /\ [j EXCEPT !.p2 = "command"] \in JobRecords
          /\ [j EXCEPT !.p2 = "wait"] \in JobRecords
          /\ P2Ends(j) \in JobRecords
      <4> HIDE DEF j
      <4> QED
        BY <3>1 DEF P2Ends, JobRecords
    <3>3. Execvp(parse2(j.left)) \in {"crash", "command", "failed"}
      BY DEF Execvp
    <3>4. \/ Becomes(n, [j EXCEPT !.p2 = "command"])
          \/ Becomes(n, [j EXCEPT !.p2 = "wait"])
          \/ Becomes(n, P2Ends(j))
      BY <2>3, <3>3 DEF P2Exec
    <3> HIDE DEF j
    <3> QED
      BY <3>2, <3>4
  <2>4. CASE P2Wait(n) \/ LeftEnds(n)
    BY <1>2, <2>4 DEF P2Wait, LeftEnds
  <2>5. CASE LeftWrites(n)
    <3>1. \A a, b \in Int : [jobs[n] EXCEPT !.pipe = a, !.toWrite = b] \in JobRecords
      BY <1>1 DEF JobRecords
    <3>2. jobs[n].pipe + 1 \in Int /\ jobs[n].toWrite - 1 \in Int
      BY <1>1 DEF JobRecords
    <3>3. [jobs[n] EXCEPT !.pipe = jobs[n].pipe + 1, !.toWrite = jobs[n].toWrite - 1]
            \in JobRecords
      BY <3>1, <3>2
    <3> QED
      BY <1>2, <2>5, <3>3 DEF LeftWrites
  <2> QED
    BY <2>1, <2>2, <2>3, <2>4, <2>5 DEF P2Step
<1> QED
  BY <1>3, <1>4, StepLine

(* P3, which may outlive the line it belongs to (shell2.c:60-69).          *)
LEMMA StepP3 ==
  ASSUME JobsInv, NEW n \in 1..Len(jobs), P3Step(n)
  PROVE  JobsInv'
<1>1. jobs[n] \in JobRecords
  BY ElementOfSeq DEF JobsInv
<1>2. P3Ends(jobs[n]) \in JobRecords /\ P3Ends(jobs[n]).p2 = jobs[n].p2
  BY <1>1 DEF P3Ends, JobRecords
<1>3. \E j \in JobRecords : Becomes(n, j) /\ j.p2 = jobs[n].p2
  <2>1. CASE P3Exec(n)
    <3>1. Closed(jobs[n]) \in JobRecords /\ Closed(jobs[n]).p2 = jobs[n].p2
      BY <1>1 DEF Closed, JobRecords
    <3>2. /\ [Closed(jobs[n]) EXCEPT !.p3 = "command"] \in JobRecords
          /\ [Closed(jobs[n]) EXCEPT !.p3 = "command"].p2 = jobs[n].p2
      BY <3>1 DEF JobRecords
    <3> QED
      BY <1>2, <2>1, <3>2 DEF P3Exec
  <2>2. CASE RightReads(n)
    <3>1. /\ [jobs[n] EXCEPT !.pipe = @ - 1] \in JobRecords
          /\ [jobs[n] EXCEPT !.pipe = @ - 1].p2 = jobs[n].p2
      BY <1>1 DEF JobRecords
    <3> QED
      BY <2>2, <3>1 DEF RightReads
  <2>3. CASE RightEnds(n)
    BY <1>2, <2>3 DEF RightEnds
  <2> QED
    BY <2>1, <2>2, <2>3 DEF P3Step
<1> QED
  BY <1>3, StepLine

(* P1 reads a line, forks P2 for it, and buries it before the next one     *)
(* (shell2.c:31-84).                                                       *)
LEMMA StepP1 ==
  ASSUME JobsInv, P1Command \/ P1End \/ P1Wait
  PROVE  JobsInv'
<1> DEFINE n == Len(jobs)
<1>1. /\ jobs \in Seq(JobRecords) /\ n \in Nat /\ (jobs = <<>> <=> n = 0)
      /\ \A m \in 1..n : jobs[m] \in JobRecords
  BY LenProperties, EmptySeq, ElementOfSeq DEF JobsInv
<1>2. CASE P1Command
  <2>1. p1 = "fgets" /\ \A m \in 1..n : jobs[m].p2 = "gone"
    BY <1>2 DEF P1Command, JobsInv
  <2>2. CASE UNCHANGED pipeVars
    BY <2>2 DEF pipeVars, JobsInv
  <2>3. ASSUME NEW ws \in Lines, jobs' = Append(jobs, Job(ws)), p1' = "wait"
        PROVE  JobsInv'
    <3>1. Job(ws) \in JobRecords
      BY PipeAssumption DEF Job, JobRecords
    <3>2. /\ jobs' \in Seq(JobRecords) /\ Len(jobs') = n + 1
          /\ \A m \in 1..n : jobs'[m] = jobs[m]
      BY <1>1, <2>3, <3>1, AppendProperties
    <3>3. jobs' # <<>>
      BY <1>1, <3>2, EmptySeq
    <3> QED
      BY <1>1, <2>1, <2>3, <3>2, <3>3 DEF JobsInv
  <2> QED
    BY <1>2, <2>2, <2>3 DEF P1Command
<1>3. CASE P1End
  BY <1>3 DEF P1End, JobsInv
<1>4. CASE P1Wait
  <2>1. /\ p1 = "wait" /\ p1' = "fgets" /\ n \in 1..n
        /\ jobs' = [jobs EXCEPT ![n] = [jobs[n] EXCEPT !.p2 = "gone"]]
    BY <1>1, <1>4 DEF P1Wait, JobsInv
  <2>2. /\ [jobs[n] EXCEPT !.p2 = "gone"] \in JobRecords
        /\ [jobs[n] EXCEPT !.p2 = "gone"].p2 = "gone"
    BY <1>1, <2>1 DEF JobRecords
  <2>3. /\ jobs' \in Seq(JobRecords) /\ Len(jobs') = n
        /\ \A m \in 1..n :
             jobs'[m] = IF m = n THEN [jobs[n] EXCEPT !.p2 = "gone"] ELSE jobs[m]
    BY <1>1, <2>1, <2>2, ExceptSeq
  <2>4. \A m \in 1..n : m # n => jobs[m].p2 = "gone"
    BY DEF JobsInv
  <2>5. \A m \in 1..n : jobs'[m].p2 = "gone"
    BY <2>2, <2>3, <2>4
  <2> QED
    BY <2>1, <2>3, <2>5 DEF JobsInv
<1> QED
  BY <1>2, <1>3, <1>4

-----------------------------------------------------------------------------
(* Both *)

(* Ctrl+C kills programs in either shell, and no shell (shell.c:25,        *)
(* shell2.c:23).                                                           *)
LEMMA StepInterrupt ==
  ASSUME ShellsInv, Interrupt
  PROVE  ShellsInv'
<1> DEFINE n == Len(chain)
           m == Len(jobs)
           newPc(d) == [chain[d] EXCEPT !.pc = AfterSigint(@)]
           mid(k) == IF AfterSigint(jobs[k].p3) # jobs[k].p3 THEN P3Ends(jobs[k]) ELSE jobs[k]
           new(k) == IF AfterSigint(jobs[k].p2) # jobs[k].p2 THEN P2Ends(mid(k)) ELSE mid(k)
<1>1. /\ chain' = [d \in DOMAIN chain |-> newPc(d)]
      /\ jobs' = [k \in DOMAIN jobs |-> new(k)]
      /\ script' = script /\ p1' = p1
  BY DEF Interrupt
<1>2. /\ chain \in Seq(Processes) /\ n \in Nat /\ DOMAIN chain = 1..n
      /\ jobs \in Seq(JobRecords) /\ m \in Nat /\ DOMAIN jobs = 1..m
      /\ (chain = <<>> <=> n = 0) /\ (jobs = <<>> <=> m = 0)
  BY LenProperties, EmptySeq DEF ShellsInv, ChainInv, JobsInv
<1>3. \A d \in 1..n : /\ newPc(d) \in Processes
                      /\ newPc(d).pc = "wait" <=> chain[d].pc = "wait"
  <2>1. SUFFICES ASSUME NEW d \in 1..n
                 PROVE  newPc(d) \in Processes /\ (newPc(d).pc = "wait" <=> chain[d].pc = "wait")
    OBVIOUS
  <2>2. chain[d] \in Processes
    BY <1>2, ElementOfSeq
  <2> QED
    BY <2>2 DEF Processes, AfterSigint
<1>4. \A k \in 1..m : new(k) \in JobRecords /\ (jobs[k].p2 = "gone" => new(k).p2 = "gone")
  <2>1. SUFFICES ASSUME NEW k \in 1..m
                 PROVE  new(k) \in JobRecords /\ (jobs[k].p2 = "gone" => new(k).p2 = "gone")
    OBVIOUS
  <2>2. jobs[k] \in JobRecords
    BY <1>2, ElementOfSeq
  <2>3. P3Ends(jobs[k]) \in JobRecords /\ P3Ends(jobs[k]).p2 = jobs[k].p2
    BY <2>2 DEF P3Ends, JobRecords
  <2>4. mid(k) \in JobRecords /\ mid(k).p2 = jobs[k].p2
    BY <2>2, <2>3
  <2>5. \A r \in JobRecords : P2Ends(r) \in JobRecords
    BY DEF P2Ends, JobRecords
  <2>6. jobs[k].p2 = "gone" => AfterSigint(jobs[k].p2) = jobs[k].p2
    BY DEF AfterSigint
  <2> HIDE DEF mid
  <2> QED
    BY <2>4, <2>5, <2>6
<1> HIDE DEF newPc, new
<1>5. /\ chain' \in Seq(Processes) /\ Len(chain') = n
      /\ \A d \in 1..n : chain'[d] = newPc(d)
  <2>1. chain' \in [1..n -> Processes]
    BY <1>1, <1>2, <1>3
  <2> QED
    BY <1>1, <1>2, <2>1, SeqDef, LenProperties
<1>6. /\ jobs' \in Seq(JobRecords) /\ Len(jobs') = m
      /\ \A k \in 1..m : jobs'[k] = new(k)
  <2>1. jobs' \in [1..m -> JobRecords]
    BY <1>1, <1>2, <1>4
  <2> QED
    BY <1>1, <1>2, <2>1, SeqDef, LenProperties
<1>7. ChainInv'
  BY <1>1, <1>2, <1>3, <1>5 DEF ShellsInv, ChainInv
<1>8. (chain' = <<>> <=> n = 0) /\ (jobs' = <<>> <=> m = 0)
  BY <1>2, <1>5, <1>6, EmptySeq
<1>9. JobsInv'
  BY <1>1, <1>2, <1>4, <1>6, <1>8 DEF ShellsInv, JobsInv
<1> QED
  BY <1>1, <1>2, <1>7, <1>8, <1>9 DEF ShellsInv, OneShell

(* Every step of either shell, of a program, of the terminal keeps it.     *)
LEMMA StepShells == ShellsInv /\ [Next]_vars => ShellsInv'
<1> SUFFICES ASSUME ShellsInv, [Next]_vars PROVE ShellsInv'
  OBVIOUS
<1>1. /\ DOMAIN chain = 1..Len(chain) /\ DOMAIN jobs = 1..Len(jobs)
      /\ \A k \in 1..Len(jobs) : jobs # <<>>
  BY LenProperties, EmptySeq DEF ShellsInv, ChainInv, JobsInv
<1>2. ASSUME NEW d \in DOMAIN chain, ShellRuns(d) \/ ShellTyped(d), UNCHANGED pipeVars
      PROVE  ShellsInv'
  <2>1. ChainInv' /\ chain # <<>>
    BY <1>1, <1>2, StepChain DEF ShellsInv
  <2> QED
    BY <1>2, <2>1 DEF ShellsInv, pipeVars, JobsInv, OneShell
<1>3. ASSUME UNCHANGED shellVars, JobsInv', chain = <<>>
      PROVE  ShellsInv'
  BY <1>3 DEF ShellsInv, shellVars, ChainInv, OneShell
<1>4. ASSUME P1Command \/ P1End \/ P1Wait, UNCHANGED shellVars
      PROVE  ShellsInv'
  <2>1. chain = <<>>
    BY <1>4 DEF ShellsInv, OneShell, P1Command, P1End, P1Wait
  <2> QED
    BY <1>3, <1>4, <2>1, StepP1 DEF ShellsInv
<1>5. ASSUME NEW n \in DOMAIN jobs, P2Step(n) \/ P3Step(n), UNCHANGED shellVars
      PROVE  ShellsInv'
  <2>1. chain = <<>>
    BY <1>1, <1>5 DEF ShellsInv, OneShell
  <2> QED
    BY <1>1, <1>3, <1>5, <2>1, StepP2, StepP3 DEF ShellsInv
<1>6. ASSUME UNCHANGED <<shellVars, pipeVars>>
      PROVE  ShellsInv'
  BY <1>6 DEF ShellsInv, shellVars, pipeVars, ChainInv, JobsInv, OneShell
<1>7. CASE UNCHANGED vars \/ Done
  BY <1>6, <1>7 DEF vars, Done
<1> QED
  BY <1>2, <1>4, <1>5, <1>6, <1>7, StepInterrupt DEF Next, Runs, P2, P3

(* OneReader: what is typed at the terminal has one reader, however many   *)
(* shells unknown commands have left behind (shell.c:45) and whatever      *)
(* outlives its line in a pipe (shell2.c:84).                              *)
THEOREM OneReaderAtMost == Spec => []OneReader
<1>1. ShellsInv => OneReader
  <2> SUFFICES ASSUME ShellsInv PROVE OneReader
    OBVIOUS
  <2>1. DOMAIN chain = 1..Len(chain) /\ DOMAIN jobs = 1..Len(jobs)
        /\ (chain # <<>> => p1 = "ended" /\ jobs = <<>>) /\ Len(<<>>) = 0
        /\ Len(chain) \in Nat /\ Len(jobs) \in Nat
    BY LenProperties, EmptySeq DEF ShellsInv, ChainInv, JobsInv, OneShell
  <2> DEFINE reader == IF chain # <<>> THEN <<"shell", Len(chain)>>
                       ELSE IF p1 = "fgets" THEN <<"P1", 0>> ELSE <<"P2", Len(jobs)>>
  <2>2. \A d \in DOMAIN chain : chain[d].pc \in {"fgets", "command"} =>
          chain # <<>> /\ d = Len(chain)
    BY <2>1 DEF ShellsInv, ChainInv
  <2>3. p1 = "fgets" => chain = <<>>
    BY <2>1
  <2>4. \A n \in DOMAIN jobs : jobs[n].p2 = "command" =>
          chain = <<>> /\ p1 = "wait" /\ n = Len(jobs)
    BY <2>1 DEF ShellsInv, JobsInv
  <2>5. TerminalReaders \subseteq {reader}
    BY <2>2, <2>3, <2>4 DEF TerminalReaders
  <2>6. IsFiniteSet({reader}) /\ Cardinality({reader}) = 1
    BY FS_Singleton
  <2>7. Cardinality(TerminalReaders) <= Cardinality({reader})
    BY <2>5, <2>6, FS_Subset
  <2> HIDE DEF reader
  <2> QED
    BY <2>6, <2>7 DEF OneReader
<1> QED
  BY <1>1, InitShells, StepShells, PTL DEF Spec

-----------------------------------------------------------------------------
(* The script of exercise 4 *)

UnknownIn(a, b) == {k \in a..b : Unknown(k)}

(* How often line j is tried by a shell that reads line m next, with all   *)
(* the shells that unknown commands will have left behind by then.         *)
Tries(m, j) == IF m <= j THEN Cardinality(SUBSET UnknownIn(m, j - 1)) ELSE 0

(* How often a process has still to see to it that line j is tried: a      *)
(* child first tries the line it was forked for (shell.c:45), and reads on *)
(* when there is no such program.                                          *)
Owes(p, j) ==
  IF p.pc \in {"fgets", "wait"} THEN Tries(p.next, j)
  ELSE IF p.pc = "child"
  THEN (IF j = p.next - 1 THEN 1 ELSE 0)
         + (IF Unknown(p.next - 1) THEN Tries(p.next, j) ELSE 0)
  ELSE 0

Debts(j) == [d \in 1..Len(chain) |-> Owes(chain[d], j)]

(* A process knows its place in the script, and there are no more shells   *)
(* than unknown lines have been read.                                      *)
InScript(d) ==
  LET p == chain[d] IN
  /\ p.next \in 1..(Len(script) + 1) /\ p.commandCounter = p.next - 1
  /\ p.pc \in {"fgets", "wait"} => d <= 1 + Cardinality(UnknownIn(1, p.next - 1))
  /\ p.pc = "child" => /\ p.next > 1 /\ p.input = script[p.next - 1]
                       /\ d <= 2 + Cardinality(UnknownIn(1, p.next - 2))

Enough == Cardinality(UnknownIn(1, Len(script) - 1)) + 1 < MaxProcesses

(* s adds up the first n of f.                                             *)
Sums(s, f, n) ==
  /\ s \in [0..n -> Nat] /\ s[0] = 0
  /\ \A d \in 1..n : f[d] \in Nat /\ s[d] = s[d - 1] + f[d]

(* What has been tried and what is owed is what the first shell had to do, *)
(* and nothing gets lost as long as no fork fails.                         *)
Settled(j) ==
  \E s : /\ Sums(s, Debts(j), Len(chain))
         /\ attempts[j] + s[Len(chain)] <= Tries(1, j)
         /\ Enough => attempts[j] + s[Len(chain)] = Tries(1, j)

Accounts ==
  /\ Len(chain) > 0
  /\ attempts \in [1..Len(script) -> Nat]
  /\ \A d \in 1..Len(chain) : InScript(d)
  /\ \A j \in 1..Len(script) : Settled(j)

ScriptInv == ShellsInv /\ (script # <<>> => Accounts)

(* One more element makes twice as many subsets.                           *)
LEMMA TwiceAsMany ==
  ASSUME NEW S, IsFiniteSet(S), NEW x, x \notin S
  PROVE  Cardinality(SUBSET (S \cup {x})) = 2 * Cardinality(SUBSET S)
<1> DEFINE A == SUBSET S
           B == {T \cup {x} : T \in A}
           f == [T \in A |-> T \cup {x}]
<1>1. IsFiniteSet(A)
  BY FS_SUBSET
<1>2. f \in Bijection(A, B)
  <2>1. f \in [A -> B] /\ \A b \in B : \E a \in A : f[a] = b
    OBVIOUS
  <2>2. ASSUME NEW a \in A, NEW b \in A, f[a] = f[b] PROVE a = b
    <3>1. a \cup {x} = b \cup {x}
      BY <2>2
    <3>2. x \notin a /\ x \notin b
      OBVIOUS
    <3> HIDE DEF A, B, f
    <3>3. \A y : y \in a <=> y \in b
      BY <3>1, <3>2
    <3> QED
      BY <3>3
  <2> HIDE DEF A, B, f
  <2> QED
    BY <2>1, <2>2 DEF Bijection, Injection, Surjection, IsInjective
<1>3. IsFiniteSet(B) /\ Cardinality(B) = Cardinality(A)
  <2>1. ExistsBijection(A, B)
    BY <1>2, Zenon DEF ExistsBijection
  <2> HIDE DEF A, B, f
  <2> QED
    BY <1>1, <2>1, FS_Bijection
<1>4. A \cap B = {}
  OBVIOUS
<1>5. SUBSET (S \cup {x}) = A \cup B
  <2>1. ASSUME NEW T \in SUBSET (S \cup {x}), x \in T PROVE T \in B
    <3>1. T \ {x} \in A /\ T = (T \ {x}) \cup {x}
      BY <2>1
    <3> QED
      BY <3>1
  <2> QED
    BY <2>1
<1> HIDE DEF A, B, f
<1>6. Cardinality(A \cup B) = Cardinality(A) + Cardinality(B) - Cardinality(A \cap B)
  BY <1>1, <1>3, FS_Union
<1>7. Cardinality(A \cap B) = 0 /\ Cardinality(A) \in Nat
  BY <1>1, <1>4, FS_EmptySet, FS_CardinalityType
<1>8. PICK n \in Nat : n = Cardinality(A)
  BY <1>7
<1>9. Cardinality(A \cup B) = n + n - 0
  BY <1>3, <1>6, <1>7, <1>8
<1>10. n + n - 0 = 2 * n
  OBVIOUS
<1>11. Cardinality(A \cup B) = 2 * Cardinality(A)
  BY <1>8, <1>9, <1>10
<1> QED
  BY <1>5, <1>11 DEF A

(* The unknown lines among some.                                           *)
LEMMA Unknowns ==
  /\ \A a, b \in Int : /\ IsFiniteSet(UnknownIn(a, b))
                       /\ Cardinality(UnknownIn(a, b)) \in Nat
  /\ \A b, c \in Int : b <= c => Cardinality(UnknownIn(1, b)) <= Cardinality(UnknownIn(1, c))
  /\ \A b \in Nat : b > 0 /\ Unknown(b) =>
       Cardinality(UnknownIn(1, b)) = Cardinality(UnknownIn(1, b - 1)) + 1
<1>1. ASSUME NEW a \in Int, NEW b \in Int
      PROVE  IsFiniteSet(UnknownIn(a, b)) /\ Cardinality(UnknownIn(a, b)) \in Nat
  <2>1. IsFiniteSet(a..b)
    BY FS_Interval
  <2>2. UnknownIn(a, b) \in SUBSET (a..b)
    BY DEF UnknownIn
  <2>3. IsFiniteSet(UnknownIn(a, b))
    BY <2>1, <2>2, FS_Subset
  <2> QED
    BY <2>3, FS_CardinalityType
<1>2. ASSUME NEW b \in Int, NEW c \in Int, b <= c
      PROVE  Cardinality(UnknownIn(1, b)) <= Cardinality(UnknownIn(1, c))
  <2>1. UnknownIn(1, b) \in SUBSET UnknownIn(1, c)
    BY <1>2 DEF UnknownIn
  <2> QED
    BY <1>1, <2>1, FS_Subset
<1>3. ASSUME NEW b \in Nat, b > 0, Unknown(b)
      PROVE  Cardinality(UnknownIn(1, b)) = Cardinality(UnknownIn(1, b - 1)) + 1
  <2>1. /\ UnknownIn(1, b) = UnknownIn(1, b - 1) \cup {b} /\ b \notin UnknownIn(1, b - 1)
    <3>1. \A k : k \in 1..b <=> k \in 1..(b - 1) \/ k = b
      BY <1>3
    <3>2. b \notin 1..(b - 1)
      OBVIOUS
    <3> QED
      BY <1>3, <3>1, <3>2 DEF UnknownIn
  <2>2. IsFiniteSet(UnknownIn(1, b - 1))
    BY <1>1
  <2> QED
    BY <2>1, <2>2, FS_AddElement
<1> QED
  BY <1>1, <1>2, <1>3

(* A shell reads a line, tries it in a child, and goes on; and so does the *)
(* child if there is no such program (shell.c:45-49).                      *)
LEMMA TriesLine ==
  ASSUME NEW m \in Nat, NEW j \in Nat
  PROVE  /\ Tries(m, j) \in Nat
         /\ m > j => Tries(m, j) = 0
         /\ Tries(m, j) = Tries(m + 1, j) + ((IF j = m THEN 1 ELSE 0)
                            + (IF Unknown(m) THEN Tries(m + 1, j) ELSE 0))
<1>1. ASSUME NEW i \in Nat PROVE Tries(i, j) \in Nat /\ (i > j => Tries(i, j) = 0)
  <2>1. i \in Int /\ j - 1 \in Int
    OBVIOUS
  <2>2. IsFiniteSet(UnknownIn(i, j - 1))
    BY <2>1, Unknowns
  <2>3. IsFiniteSet(SUBSET UnknownIn(i, j - 1))
    BY <2>2, FS_SUBSET
  <2>4. Cardinality(SUBSET UnknownIn(i, j - 1)) \in Nat
    BY <2>3, FS_CardinalityType
  <2> QED
    BY <2>4 DEF Tries
<1>2. CASE m > j
  BY <1>1, <1>2
<1>3. CASE m = j
  <2>1. UnknownIn(m, j - 1) = {}
    BY <1>3 DEF UnknownIn
  <2>2. SUBSET {} = {{}}
    OBVIOUS
  <2>3. Tries(m, j) = 1
    <3>1. Cardinality({{}}) = 1
      BY FS_Singleton
    <3>2. Tries(m, j) = Cardinality(SUBSET UnknownIn(m, j - 1))
      BY <1>3 DEF Tries
    <3> QED
      BY <2>1, <2>2, <3>1, <3>2
  <2>4. Tries(m + 1, j) = 0
    BY <1>1, <1>3
  <2> QED
    BY <1>1, <1>3, <2>3, <2>4
<1>4. CASE m < j
  <2> DEFINE S == UnknownIn(m + 1, j - 1)
  <2>1. m + 1 \in Int /\ j - 1 \in Int
    OBVIOUS
  <2>2. IsFiniteSet(S)
    BY <2>1, Unknowns
  <2>3. Tries(m, j) = Cardinality(SUBSET UnknownIn(m, j - 1))
        /\ Tries(m + 1, j) = Cardinality(SUBSET S) /\ j # m
    BY <1>4 DEF Tries
  <2>4. m \notin S
    BY DEF UnknownIn
  <2>5. \A k : k \in m..(j - 1) <=> k \in (m + 1)..(j - 1) \/ k = m
    BY <1>4
  <2>6. UnknownIn(m, j - 1) = IF Unknown(m) THEN S \cup {m} ELSE S
    BY <2>5 DEF UnknownIn
  <2> HIDE DEF S
  <2>7. CASE Unknown(m)
    <3>1. Tries(m, j) = 2 * Tries(m + 1, j)
      BY <2>2, <2>3, <2>4, <2>6, <2>7, TwiceAsMany
    <3>2. PICK t \in Nat : t = Tries(m + 1, j)
      BY <1>1
    <3>3. 2 * t = t + (0 + t)
      OBVIOUS
    <3> QED
      BY <1>1, <1>4, <2>3, <2>7, <3>1, <3>2, <3>3
  <2>8. CASE ~Unknown(m)
    <3>1. Tries(m, j) = Tries(m + 1, j)
      BY <2>3, <2>6, <2>8
    <3>2. PICK t \in Nat : t = Tries(m + 1, j)
      BY <1>1
    <3>3. t = t + (0 + 0)
      OBVIOUS
    <3> QED
      BY <1>1, <1>4, <2>3, <2>8, <3>1, <3>2, <3>3
  <2> QED
    BY <2>7, <2>8
<1> QED
  BY <1>2, <1>3, <1>4

(* The script stays the same, and so does all that is said of its lines.   *)
LEMMA SameScript ==
  ASSUME script' = script
  PROVE  /\ \A k : Unknown(k)' <=> Unknown(k)
         /\ \A a, b : UnknownIn(a, b)' = UnknownIn(a, b)
         /\ \A m, j : Tries(m, j)' = Tries(m, j)
         /\ \A p, j : Owes(p, j)' = Owes(p, j)
         /\ Enough' <=> Enough
<1>1. \A k : Unknown(k)' <=> Unknown(k)
  BY DEF Unknown
<1>2. \A a, b : UnknownIn(a, b)' = UnknownIn(a, b)
  BY <1>1 DEF UnknownIn
<1>3. \A m, j : Tries(m, j)' = Tries(m, j)
  BY <1>2 DEF Tries
<1>4. \A p, j : Owes(p, j)' = Owes(p, j)
  BY <1>1, <1>3 DEF Owes
<1> QED
  BY <1>1, <1>2, <1>3, <1>4 DEF Enough

(* A sum of at most two more.                                              *)
Rest(f, k, n) == (IF n > k THEN f[k + 1] ELSE 0) + (IF n > k + 1 THEN f[k + 2] ELSE 0)

LEMMA SumOfRest ==
  ASSUME NEW n \in Nat, NEW s, NEW f, Sums(s, f, n), NEW k \in 0..n, n <= k + 2
  PROVE  s[k] \in Nat /\ s[n] \in Nat /\ s[n] = s[k] + Rest(f, k, n)
<1>1. s[k] \in Nat /\ s[n] \in Nat
  BY DEF Sums
<1>2. CASE n = k
  BY <1>1, <1>2 DEF Rest
<1>3. CASE n = k + 1
  <2>1. s[n] = s[n - 1] + f[n] /\ f[n] \in Nat
    BY <1>3 DEF Sums
  <2>2. Rest(f, k, n) = f[n] + 0
    BY <1>3 DEF Rest
  <2>3. s[n] = s[k] + f[n]
    BY <1>3, <2>1
  <2> QED
    BY <1>1, <2>1, <2>2, <2>3
<1>4. CASE n = k + 2
  <2>1. s[k + 2] = s[k + 1] + f[k + 2] /\ s[k + 1] = s[k] + f[k + 1] /\ s[k + 1] \in Nat
        /\ f[k + 1] \in Nat /\ f[k + 2] \in Nat
    BY <1>4 DEF Sums
  <2>2. Rest(f, k, n) = f[k + 1] + f[k + 2]
    BY <1>4 DEF Rest
  <2> QED
    BY <1>1, <1>4, <2>1, <2>2
<1> QED
  BY <1>2, <1>3, <1>4

LEMMA SumWithRest ==
  ASSUME NEW n \in Nat, NEW s, NEW f, Sums(s, f, n), NEW k \in 0..n,
         NEW m \in k..(k + 2), NEW g, \A d \in 1..k : g[d] = f[d],
         \A d \in 1..m : g[d] \in Nat
  PROVE  \E t : Sums(t, g, m) /\ t[m] = s[k] + Rest(g, k, m)
<1> DEFINE t == [d \in 0..m |-> IF d <= k THEN s[d]
                               ELSE IF d = k + 1 THEN s[k] + g[k + 1]
                               ELSE (s[k] + g[k + 1]) + g[k + 2]]
<1>1. /\ \A d \in 0..k : s[d] \in Nat
      /\ s[0] = 0 /\ \A d \in 1..k : s[d] = s[d - 1] + f[d]
  BY DEF Sums
<1>2. /\ m > k => g[k + 1] \in Nat
      /\ m > k + 1 => g[k + 2] \in Nat
  OBVIOUS
<1>3. /\ \A d \in 0..k : t[d] = s[d]
      /\ m > k => t[k + 1] = s[k] + g[k + 1]
      /\ m > k + 1 => t[k + 2] = (s[k] + g[k + 1]) + g[k + 2]
  OBVIOUS
<1>4. \A d \in 0..m : d \in 0..k \/ (d = k + 1 /\ m > k) \/ (d = k + 2 /\ m > k + 1)
  OBVIOUS
<1>5. t \in [0..m -> Nat]
  <2>1. \A d \in 0..m : t[d] \in Nat
    <3> HIDE DEF t
    <3>1. k \in 0..k
      OBVIOUS
    <3> QED
      BY <1>1, <1>2, <1>3, <1>4, <3>1
  <2> QED
    BY <2>1
<1> HIDE DEF t
<1>6. \A d \in 1..m : t[d] = t[d - 1] + g[d]
  <2>1. ASSUME NEW d \in 1..m PROVE t[d] = t[d - 1] + g[d]
    <3>1. CASE d \in 0..k
      <4>1. d \in 1..k /\ d - 1 \in 0..k
        BY <3>1
      <4> QED
        BY <1>1, <1>3, <3>1, <4>1
    <3>2. CASE d = k + 1 /\ m > k
      <4>1. d - 1 = k /\ k \in 0..k
        BY <3>2
      <4> QED
        BY <1>3, <3>2, <4>1
    <3>3. CASE d = k + 2 /\ m > k + 1
      <4>1. d - 1 = k + 1 /\ m > k
        BY <3>3
      <4> QED
        BY <1>3, <3>3, <4>1
    <3> QED
      BY <1>4, <3>1, <3>2, <3>3
  <2> QED
    BY <2>1
<1>7. Sums(t, g, m)
  <2>1. t[0] = 0
    BY <1>1, <1>3
  <2> QED
    BY <1>5, <1>6, <2>1 DEF Sums
<1>8. t[m] = s[k] + Rest(g, k, m)
  <2>1. t[k] = s[k]
    BY <1>3
  <2>2. t[m] = t[k] + Rest(g, k, m)
    BY <1>7, SumOfRest
  <2> QED
    BY <2>1, <2>2
<1> QED
  BY <1>7, <1>8

Alike(f, n, k, g, m) ==
  /\ n \in Nat /\ m \in Nat /\ k \in 0..n /\ n <= k + 2 /\ k <= m /\ m <= k + 2
  /\ \A d \in 1..k : g[d] = f[d]
  /\ \A d \in 1..m : g[d] \in Nat

Alongside(s, f, n, k, g, m) ==
  \E t, x : /\ Sums(t, g, m) /\ x \in Nat
           /\ s[n] = x + Rest(f, k, n) /\ t[m] = x + Rest(g, k, m)

LEMMA Balance ==
  ASSUME NEW s, NEW f, NEW n, NEW k, NEW g, NEW m, Sums(s, f, n), Alike(f, n, k, g, m)
  PROVE  Alongside(s, f, n, k, g, m)
<1> USE DEF Alike
<1>1. s[k] \in Nat /\ s[n] = s[k] + Rest(f, k, n)
  BY SumOfRest
<1>2. m \in k..(k + 2)
  OBVIOUS
<1>3. PICK t : Sums(t, g, m) /\ t[m] = s[k] + Rest(g, k, m)
  BY <1>2, SumWithRest
<1> QED
  BY <1>1, <1>3 DEF Alongside

Exchanged(a, b, old, new, x, all) ==
  a + (x + old) <= all /\ b + new <= a + old =>
    /\ b + (x + new) <= all
    /\ a + (x + old) = all /\ b + new = a + old => b + (x + new) = all

LEMMA Exchange ==
  \A a, b, old, new, x, all \in Nat : Exchanged(a, b, old, new, x, all)
BY DEF Exchanged

(* A step that leaves the first k processes alone settles a line if it     *)
(* does for the others.                                                    *)
LEMMA StepSettled ==
  ASSUME script' = script, NEW j \in 1..Len(script), Len(script) \in Nat, Settled(j),
         Len(chain) \in Nat, Len(chain') \in Nat,
         attempts[j] \in Nat, attempts'[j] \in Nat,
         NEW k \in 0..Len(chain), Len(chain) <= k + 2,
         k <= Len(chain'), Len(chain') <= k + 2,
         \A d \in 1..k : Owes(chain'[d], j) = Owes(chain[d], j),
         \A d \in 1..Len(chain') : Owes(chain'[d], j) \in Nat,
         NEW old \in Nat, old = Rest(Debts(j), k, Len(chain)),
         NEW new \in Nat, new = Rest([d \in 1..Len(chain') |-> Owes(chain'[d], j)], k, Len(chain')),
         attempts'[j] + new <= attempts[j] + old,
         Enough => attempts'[j] + new = attempts[j] + old
  PROVE  Settled(j)'
<1>1. PICK f, g : f = Debts(j) /\ g = [d \in 1..Len(chain') |-> Owes(chain'[d], j)]
  OBVIOUS
<1>2. PICK s : /\ Sums(s, f, Len(chain))
               /\ attempts[j] + s[Len(chain)] <= Tries(1, j)
               /\ Enough => attempts[j] + s[Len(chain)] = Tries(1, j)
  BY <1>1 DEF Settled
<1>3. Debts(j)' = g
  BY <1>1, SameScript DEF Debts
<1>4. \A d \in 1..k : g[d] = f[d]
  BY <1>1 DEF Debts
<1>5. \A d \in 1..Len(chain') : g[d] \in Nat
  BY <1>1
<1>6. new = Rest(g, k, Len(chain')) /\ old = Rest(f, k, Len(chain))
  BY <1>1
<1>7. Tries(1, j) \in Nat
  <2>1. 1 \in Nat /\ j \in Nat
    OBVIOUS
  <2> QED
    BY <2>1, TriesLine
<1>8. PICK n \in Nat, m \in Nat, a \in Nat, b \in Nat, all \in Nat :
        /\ n = Len(chain) /\ m = Len(chain') /\ a = attempts[j] /\ b = attempts'[j]
        /\ all = Tries(1, j)
  BY <1>7
<1>9. /\ Sums(s, f, n) /\ k \in 0..n /\ n <= k + 2 /\ k <= m /\ m <= k + 2
      /\ old = Rest(f, k, n) /\ new = Rest(g, k, m)
      /\ a + s[n] <= all /\ b + new <= a + old
  BY <1>2, <1>6, <1>8
<1>10. \A d \in 1..m : g[d] \in Nat
  BY <1>5, <1>8
<1>11. PICK t, x : /\ Sums(t, g, m) /\ x \in Nat
                   /\ s[n] = x + old /\ t[m] = x + new
  <2>1. Alike(f, n, k, g, m)
    BY <1>4, <1>9, <1>10 DEF Alike
  <2>2. Sums(s, f, n)
    BY <1>9
  <2>3. Alongside(s, f, n, k, g, m)
    BY <2>1, <2>2, Balance
  <2> QED
    BY <1>9, <2>3 DEF Alongside
<1>12. a + (x + old) <= all /\ b + new <= a + old
  BY <1>9, <1>11
<1>13. /\ b + (x + new) <= all
       /\ a + (x + old) = all /\ b + new = a + old => b + (x + new) = all
  <2>1. Exchanged(a, b, old, new, x, all)
    BY <1>11, Exchange, Zenon
  <2> QED
    BY <1>12, <2>1 DEF Exchanged
<1>14. b + t[m] <= all
  BY <1>11, <1>13
<1>15. ASSUME Enough PROVE b + t[m] = all
  <2>1. a + (x + old) = all /\ b + new = a + old
    BY <1>2, <1>8, <1>11, <1>15
  <2> QED
    BY <1>11, <1>13, <2>1
<1>16. Tries(1, j)' = Tries(1, j) /\ (Enough' <=> Enough)
  BY SameScript
<1> QED
  BY <1>3, <1>8, <1>11, <1>14, <1>15, <1>16 DEF Settled

(* What a process owes is a number.                                        *)
LEMMA OwesType ==
  ASSUME NEW p, p.next \in Nat, NEW j \in Nat
  PROVE  Owes(p, j) \in Nat
<1>1. Tries(p.next, j) \in Nat
  BY TriesLine
<1> QED
  BY <1>1 DEF Owes

(* What the last processes owe, all but the first k.                       *)
Due(c, k, j) ==
  IF Len(c) = k THEN 0
  ELSE IF Len(c) = k + 1 THEN Owes(c[k + 1], j)
  ELSE Owes(c[k + 1], j) + Owes(c[k + 2], j)

LEMMA DueIs ==
  ASSUME NEW c, NEW j, Len(c) \in Nat, NEW k \in 0..Len(c), Len(c) <= k + 2,
         \A d \in 1..Len(c) : Owes(c[d], j) \in Nat
  PROVE  /\ Due(c, k, j) \in Nat
         /\ Due(c, k, j) = Rest([d \in 1..Len(c) |-> Owes(c[d], j)], k, Len(c))
<1> DEFINE f == [d \in 1..Len(c) |-> Owes(c[d], j)]
<1>1. \A d \in 1..Len(c) : f[d] = Owes(c[d], j)
  OBVIOUS
<1> HIDE DEF f
<1>2. CASE Len(c) = k
  BY <1>2 DEF Due, Rest
<1>3. CASE Len(c) = k + 1
  <2>1. k + 1 \in 1..Len(c)
    BY <1>3
  <2>2. f[k + 1] = Owes(c[k + 1], j) /\ Owes(c[k + 1], j) \in Nat
    BY <1>1, <2>1
  <2>3. Due(c, k, j) = Owes(c[k + 1], j)
    BY <1>3 DEF Due
  <2>4. Rest(f, k, Len(c)) = f[k + 1] + 0
    BY <1>3 DEF Rest
  <2> QED
    BY <2>2, <2>3, <2>4 DEF f
<1>4. CASE Len(c) = k + 2
  <2>1. k + 1 \in 1..Len(c) /\ k + 2 \in 1..Len(c)
    BY <1>4
  <2>2. /\ f[k + 1] = Owes(c[k + 1], j) /\ Owes(c[k + 1], j) \in Nat
        /\ f[k + 2] = Owes(c[k + 2], j) /\ Owes(c[k + 2], j) \in Nat
    BY <1>1, <2>1
  <2>3. Due(c, k, j) = Owes(c[k + 1], j) + Owes(c[k + 2], j)
    BY <1>4 DEF Due
  <2>4. Rest(f, k, Len(c)) = f[k + 1] + f[k + 2]
    BY <1>4 DEF Rest
  <2> QED
    BY <2>2, <2>3, <2>4 DEF f
<1> QED
  BY <1>2, <1>3, <1>4

LEMMA StepAccounts ==
  ASSUME Accounts, script' = script, Len(script) \in Nat,
         Len(chain) \in Nat, Len(chain') \in Nat,
         NEW k \in 0..Len(chain), Len(chain) <= k + 2,
         k <= Len(chain'), Len(chain') <= k + 2,
         Len(chain') > 0, attempts' \in [1..Len(script) -> Nat],
         \A d \in 1..Len(chain') : InScript(d)',
         \A d \in 1..k, j \in 1..Len(script) : Owes(chain'[d], j) = Owes(chain[d], j),
         \A j \in 1..Len(script) :
           /\ attempts'[j] + Due(chain', k, j) <= attempts[j] + Due(chain, k, j)
           /\ Enough => attempts'[j] + Due(chain', k, j) = attempts[j] + Due(chain, k, j)
  PROVE  Accounts'
<1>1. ASSUME NEW j \in 1..Len(script) PROVE Settled(j)'
  <2>1. /\ Settled(j) /\ attempts[j] \in Nat /\ attempts'[j] \in Nat /\ j \in Nat
        /\ \A d \in 1..k : Owes(chain'[d], j) = Owes(chain[d], j)
    BY DEF Accounts
  <2>2. \A d \in 1..Len(chain) : Owes(chain[d], j) \in Nat
    <3>1. ASSUME NEW d \in 1..Len(chain) PROVE Owes(chain[d], j) \in Nat
      <4>1. chain[d].next \in Nat
        BY DEF Accounts, InScript
      <4> QED
        BY <2>1, <4>1, OwesType
    <3> QED
      BY <3>1
  <2>3. \A d \in 1..Len(chain') : Owes(chain'[d], j) \in Nat
    <3>1. ASSUME NEW d \in 1..Len(chain') PROVE Owes(chain'[d], j) \in Nat
      <4>1. chain'[d].next \in Nat
        BY DEF InScript
      <4> QED
        BY <2>1, <4>1, OwesType
    <3> QED
      BY <3>1
  <2>4. /\ Due(chain, k, j) \in Nat
        /\ Due(chain, k, j) = Rest([d \in 1..Len(chain) |-> Owes(chain[d], j)], k, Len(chain))
    BY <2>2, DueIs
  <2>5. PICK c : c = chain'
    OBVIOUS
  <2>6. /\ Due(c, k, j) \in Nat
        /\ Due(c, k, j) = Rest([d \in 1..Len(c) |-> Owes(c[d], j)], k, Len(c))
    <3>1. /\ Len(c) \in Nat /\ k \in 0..Len(c) /\ Len(c) <= k + 2
          /\ \A d \in 1..Len(c) : Owes(c[d], j) \in Nat
      BY <2>3, <2>5
    <3> QED
      BY <3>1, DueIs
  <2>7. PICK old \in Nat, new \in Nat : old = Due(chain, k, j) /\ new = Due(c, k, j)
    BY <2>4, <2>6
  <2>8. /\ old = Rest(Debts(j), k, Len(chain))
        /\ new = Rest([d \in 1..Len(chain') |-> Owes(chain'[d], j)], k, Len(chain'))
    BY <2>4, <2>5, <2>6, <2>7 DEF Debts
  <2>9. /\ attempts'[j] + new <= attempts[j] + old
        /\ Enough => attempts'[j] + new = attempts[j] + old
    BY <2>5, <2>7
  <2> QED
    BY <2>1, <2>3, <2>8, <2>9, StepSettled
<1> QED
  BY <1>1 DEF Accounts

(* A process that has not moved keeps its place.                           *)
LEMMA KeepsPlace ==
  ASSUME script' = script, NEW e, InScript(e), chain'[e] = chain[e]
  PROVE  InScript(e)'
BY SameScript DEF InScript

(* So it is when only the last process moves.                              *)
LEMMA LastMoves ==
  ASSUME ChainInv, Accounts, script' = script, Len(script) \in Nat,
         NEW n \in 1..Len(chain), n = Len(chain),
         NEW r \in Processes, chain' = [chain EXCEPT ![n] = r], InScript(n)',
         attempts' \in [1..Len(script) -> Nat],
         \A j \in 1..Len(script) :
           /\ attempts'[j] + Owes(r, j) <= attempts[j] + Owes(chain[n], j)
           /\ Enough => attempts'[j] + Owes(r, j) = attempts[j] + Owes(chain[n], j)
  PROVE  Accounts'
<1>1. n \in Nat /\ n = Len(chain) /\ n > 0
  BY LenProperties DEF ChainInv
<1>2. /\ chain' \in Seq(Processes) /\ Len(chain') = n
      /\ \A e \in 1..n : chain'[e] = IF e = n THEN r ELSE chain[e]
  BY <1>1, ExceptSeq DEF ChainInv
<1>3. PICK k \in Nat : n = k + 1
  <2>1. n - 1 \in Nat /\ n = (n - 1) + 1
    BY <1>1
  <2> QED
    BY <2>1
<1>4. \A e \in 1..n : InScript(e)'
  <2>1. ASSUME NEW e \in 1..n, e # n PROVE InScript(e)'
    BY <1>1, <1>2, <2>1, KeepsPlace DEF Accounts
  <2> QED
    BY <1>1, <2>1
<1>5. ASSUME NEW j \in 1..Len(script)
      PROVE  Due(chain', k, j) = Owes(r, j) /\ Due(chain, k, j) = Owes(chain[n], j)
  <2>1. n # k /\ n = k + 1 /\ chain'[k + 1] = r
    BY <1>2, <1>3
  <2> QED
    BY <1>1, <1>2, <2>1 DEF Due
<1>6. /\ Len(chain) \in Nat /\ Len(chain') \in Nat /\ k \in 0..Len(chain)
      /\ Len(chain) <= k + 2 /\ k <= Len(chain') /\ Len(chain') <= k + 2 /\ Len(chain') > 0
      /\ \A d \in 1..k, j \in 1..Len(script) : Owes(chain'[d], j) = Owes(chain[d], j)
  BY <1>1, <1>2, <1>3
<1>7. \A j \in 1..Len(script) :
        /\ attempts'[j] + Due(chain', k, j) <= attempts[j] + Due(chain, k, j)
        /\ Enough => attempts'[j] + Due(chain', k, j) = attempts[j] + Due(chain, k, j)
  BY <1>1, <1>5
<1>8. \A e \in 1..Len(chain') : InScript(e)'
  BY <1>2, <1>4
<1> QED
  BY <1>6, <1>7, <1>8, StepAccounts

(* A child tries its line (shell.c:39-48): the even ones in the way of     *)
(* parse, the odd ones in that of parse2, by the counter it has inherited. *)
LEMMA AccountsExec ==
  ASSUME ChainInv, Accounts, script # <<>>, script' = script, Len(script) \in Nat,
         NEW d \in 1..Len(chain), ChildExec(d)
  PROVE  Accounts'
<1>1. PICK p \in Processes : p = chain[d] /\ p.pc = "child" /\ d = Len(chain)
  <2>1. chain[d] \in Processes /\ chain[d].pc = "child"
    BY ElementOfSeq DEF ChainInv, ChildExec
  <2>2. d = Len(chain)
    <3>1. Len(chain) \in Nat /\ ~(d < Len(chain))
      BY <2>1, LenProperties DEF ChainInv
    <3> QED
      BY <3>1
  <2> QED
    BY <2>1, <2>2
<1>2. PICK i \in 1..Len(script) : i = p.next - 1
  BY <1>1 DEF Accounts, InScript
<1>3. /\ p.next = i + 1 /\ p.commandCounter = i /\ p.input = script[i]
      /\ d <= 2 + Cardinality(UnknownIn(1, i - 1)) /\ p.next \in 1..(Len(script) + 1)
  <2>1. /\ p.next \in 1..(Len(script) + 1) /\ p.commandCounter = p.next - 1
        /\ p.input = script[p.next - 1]
        /\ d <= 2 + Cardinality(UnknownIn(1, p.next - 2))
    BY <1>1 DEF Accounts, InScript
  <2>2. p.next = i + 1 /\ p.next - 2 = i - 1
    BY <1>2, <2>1
  <2> QED
    BY <1>2, <2>1, <2>2
<1>4. Execvp(Args(p)) = "failed" <=> Unknown(i)
  BY <1>3 DEF Args, Unknown
<1>5. PICK x : x = CASE Execvp(Args(p)) = "crash"   -> "zombie"
                     [] Execvp(Args(p)) = "command" -> "command"
                     [] OTHER                       -> "fgets"
  OBVIOUS
<1>6. x \in {"zombie", "command", "fgets"} /\ (x = "fgets" <=> Unknown(i))
  <2>1. Execvp(Args(p)) \in {"crash", "command", "failed"}
    BY DEF Execvp
  <2>2. CASE Execvp(Args(p)) = "crash"
    BY <1>4, <1>5, <2>2
  <2>3. CASE Execvp(Args(p)) = "command"
    BY <1>4, <1>5, <2>3
  <2>4. CASE Execvp(Args(p)) = "failed"
    BY <1>4, <1>5, <2>4
  <2> QED
    BY <2>1, <2>2, <2>3, <2>4
<1>7. PICK r : r = [p EXCEPT !.pc = x]
  OBVIOUS
<1>8. r \in Processes /\ r.pc = x /\ r.next = p.next /\ r.commandCounter = p.commandCounter
  BY <1>6, <1>7 DEF Processes
<1>9. chain' = [chain EXCEPT ![d] = r]
  BY <1>1, <1>5, <1>7 DEF ChildExec
<1>10. attempts' = [attempts EXCEPT ![i] = attempts[i] + 1] /\ attempts \in [1..Len(script) -> Nat]
  BY <1>1, <1>2 DEF ChildExec, Tty, Accounts
<1>11. chain'[d] = r
  BY <1>9, ExceptSeq DEF ChainInv
<1>12. InScript(d)'
  <2>1. /\ r.next \in 1..(Len(script) + 1) /\ r.commandCounter = r.next - 1
        /\ r.pc # "child" /\ r.pc # "wait"
    BY <1>3, <1>6, <1>8
  <2>2. ASSUME r.pc = "fgets" PROVE d <= 1 + Cardinality(UnknownIn(1, r.next - 1))
    <3>1. r.next - 1 = i /\ i \in Nat /\ i > 0 /\ Unknown(i)
      BY <1>3, <1>6, <1>8, <2>2
    <3>2. Cardinality(UnknownIn(1, i)) = Cardinality(UnknownIn(1, i - 1)) + 1
      BY <3>1, Unknowns
    <3>3. i - 1 \in Int /\ 1 \in Int
      OBVIOUS
    <3>4. PICK u \in Nat : u = Cardinality(UnknownIn(1, i - 1))
      BY <3>3, Unknowns
    <3>5. d <= 2 + u
      BY <1>3, <3>4
    <3>6. d <= 1 + (u + 1)
      BY <3>5
    <3> QED
      BY <3>1, <3>2, <3>4, <3>6
  <2>3. UnknownIn(1, r.next - 1)' = UnknownIn(1, r.next - 1)
    BY SameScript
  <2> QED
    BY <1>11, <2>1, <2>2, <2>3 DEF InScript
<1>13. ASSUME NEW j \in 1..Len(script)
       PROVE  attempts'[j] + Owes(r, j) = attempts[j] + Owes(p, j)
              /\ attempts'[j] + Owes(r, j) <= attempts[j] + Owes(p, j)
  <2>1. PICK t \in Nat : t = Tries(p.next, j)
    <3>1. p.next \in Nat /\ j \in Nat
      BY <1>3
    <3> QED
      BY <3>1, TriesLine
  <2>2. PICK a \in Nat : a = attempts[j]
    BY <1>10
  <2>3. attempts'[j] = IF j = i THEN a + 1 ELSE a
    BY <1>10, <2>2
  <2>4. Owes(r, j) = IF Unknown(i) THEN t ELSE 0
    BY <1>6, <1>8, <2>1 DEF Owes
  <2>5. Owes(p, j) = (IF j = i THEN 1 ELSE 0) + (IF Unknown(i) THEN t ELSE 0)
    BY <1>1, <1>2, <2>1 DEF Owes
  <2>6. CASE Unknown(i)
    BY <2>2, <2>3, <2>4, <2>5, <2>6
  <2>7. CASE ~Unknown(i)
    BY <2>2, <2>3, <2>4, <2>5, <2>7
  <2> QED
    BY <2>6, <2>7
<1>14. attempts' \in [1..Len(script) -> Nat]
  BY <1>10
<1>15. \A j \in 1..Len(script) :
         /\ attempts'[j] + Owes(r, j) <= attempts[j] + Owes(chain[d], j)
         /\ Enough => attempts'[j] + Owes(r, j) = attempts[j] + Owes(chain[d], j)
  BY <1>1, <1>13
<1> QED
  BY <1>1, <1>8, <1>9, <1>12, <1>14, <1>15, LastMoves

(* A program ends, or a shell at the end of the script (shell.c:29).       *)
LEMMA AccountsEnd ==
  ASSUME ChainInv, Accounts, script # <<>>, script' = script, Len(script) \in Nat,
         NEW d \in 1..Len(chain), ReadEnd(d) \/ ProgramEnds(d)
  PROVE  Accounts'
<1>1. PICK p \in Processes : p = chain[d] /\ p.pc \in {"fgets", "command"} /\ d = Len(chain)
  <2>1. chain[d] \in Processes /\ chain[d].pc \in {"fgets", "command"}
    BY ElementOfSeq DEF ChainInv, ReadEnd, ProgramEnds
  <2>2. d = Len(chain)
    <3>1. Len(chain) \in Nat /\ ~(d < Len(chain))
      BY <2>1, LenProperties DEF ChainInv
    <3> QED
      BY <3>1
  <2> QED
    BY <2>1, <2>2
<1>2. PICK r : r = [p EXCEPT !.pc = "zombie"]
  OBVIOUS
<1>3. r \in Processes /\ r.pc = "zombie" /\ r.next = p.next /\ r.commandCounter = p.commandCounter
  BY <1>2 DEF Processes
<1>4. /\ chain' = [chain EXCEPT ![d] = r] /\ attempts' = attempts
      /\ p.pc = "fgets" => p.next > Len(script)
  BY <1>1, <1>2 DEF ReadEnd, ProgramEnds, Tty
<1>5. chain'[d] = r
  BY <1>4, ExceptSeq DEF ChainInv
<1>6. InScript(d) /\ p.next \in 1..(Len(script) + 1) /\ p.commandCounter = p.next - 1
  BY <1>1 DEF Accounts, InScript
<1>7. InScript(d)'
  BY <1>3, <1>5, <1>6 DEF InScript
<1>8. attempts \in [1..Len(script) -> Nat]
  BY DEF Accounts
<1>9. ASSUME NEW j \in 1..Len(script)
      PROVE  /\ attempts'[j] + Owes(r, j) = attempts[j] + Owes(p, j)
             /\ attempts'[j] + Owes(r, j) <= attempts[j] + Owes(p, j)
  <2>1. Owes(r, j) = 0
    BY <1>3 DEF Owes
  <2>2. Owes(p, j) = 0
    <3>1. CASE p.pc = "fgets"
      <4>1. p.next \in Nat /\ j \in Nat /\ p.next > j
        BY <1>4, <1>6, <3>1
      <4>2. Tries(p.next, j) = 0
        BY <4>1, TriesLine
      <4> QED
        BY <3>1, <4>2 DEF Owes
    <3>2. CASE p.pc = "command"
      BY <3>2 DEF Owes
    <3> QED
      BY <1>1, <3>1, <3>2
  <2> QED
    BY <1>4, <1>8, <2>1, <2>2
<1>10. \A j \in 1..Len(script) :
         /\ attempts'[j] + Owes(r, j) <= attempts[j] + Owes(chain[d], j)
         /\ Enough => attempts'[j] + Owes(r, j) = attempts[j] + Owes(chain[d], j)
  BY <1>1, <1>9
<1> QED
  BY <1>1, <1>3, <1>4, <1>7, <1>8, <1>10, LastMoves

(* The place after line a, of b lines.                                     *)
LEMMA NextLine ==
  ASSUME NEW b \in Nat, NEW a \in 1..b
  PROVE  /\ a \in Nat /\ a > 0 /\ a <= b /\ a - 1 <= b - 1
         /\ a + 1 \in 1..(b + 1) /\ (a + 1) - 1 = a /\ (a + 1) - 2 = a - 1 /\ a + 1 > 1
OBVIOUS

(* A shell reads a line and forks a child for it; when the fork fails, the *)
(* line is lost, and so is what would have come of it (shell.c:35-49).     *)
LEMMA AccountsRead ==
  ASSUME ChainInv, ChainInv', Accounts, script # <<>>, script' = script,
         Len(script) \in Nat, DOMAIN script = 1..Len(script),
         NEW d \in 1..Len(chain), ReadCommand(d)
  PROVE  Accounts'
<1>1. PICK n \in Nat, p \in Processes :
        n = Len(chain) /\ n > 0 /\ d = n /\ p = chain[d] /\ p.pc = "fgets"
  <2>1. chain[d] \in Processes /\ chain[d].pc = "fgets"
    BY ElementOfSeq DEF ChainInv, ReadCommand
  <2>2. Len(chain) \in Nat /\ ~(d < Len(chain))
    BY <2>1, LenProperties DEF ChainInv
  <2> QED
    BY <2>1, <2>2
<1>2. PICK ws \in Lines \cup ToSet(script) :
                /\ p.next \in DOMAIN script /\ ws = script[p.next]
                /\ chain' = IF Len(chain) < MaxProcesses
                            THEN Append([chain EXCEPT ![d] = Parent(Read(p, ws))],
                                        Child(Read(p, ws)))
                            ELSE [chain EXCEPT ![d] = Read(p, ws)]
                /\ attempts' = attempts
  BY <1>1 DEF ReadCommand, Fgets, Tty
<1>3. PICK m \in 1..Len(script) :
        /\ m = p.next /\ p.commandCounter = m - 1
        /\ n <= 1 + Cardinality(UnknownIn(1, m - 1))
  <2>1. /\ p.commandCounter = p.next - 1
        /\ n <= 1 + Cardinality(UnknownIn(1, p.next - 1))
    BY <1>1 DEF Accounts, InScript
  <2>2. p.next \in 1..Len(script)
    BY <1>2
  <2> QED
    BY <2>1, <2>2
<1>4. /\ m \in Nat /\ m > 0 /\ m <= Len(script) /\ m - 1 <= Len(script) - 1
      /\ m + 1 \in 1..(Len(script) + 1) /\ (m + 1) - 1 = m /\ (m + 1) - 2 = m - 1
      /\ m + 1 > 1
  BY NextLine
<1>5. PICK q : q = Read(p, ws)
  OBVIOUS
<1>6. /\ q.pc = "fgets" /\ q.next = m + 1 /\ q.commandCounter = m /\ q.input = script[m]
      /\ Parent(q) = [q EXCEPT !.pc = "wait"] /\ Child(q) = [q EXCEPT !.pc = "child"]
  <2>1. /\ q = [p EXCEPT !.commandCounter = p.commandCounter + 1, !.input = ws,
                         !.next = p.next + 1]
    BY <1>5 DEF Read
  <2>2. /\ q.pc = p.pc /\ q.next = p.next + 1 /\ q.input = ws
        /\ q.commandCounter = p.commandCounter + 1
    BY <2>1 DEF Processes
  <2>3. p.commandCounter + 1 = m
    <3>1. (m - 1) + 1 = m
      BY <1>4
    <3> QED
      BY <1>3, <3>1
  <2> QED
    BY <1>1, <1>2, <1>3, <2>2, <2>3 DEF Parent, Child
<1>7. PICK u \in Nat, v \in Nat : /\ u = Cardinality(UnknownIn(1, m - 1))
                                 /\ v = Cardinality(UnknownIn(1, m))
                                 /\ n <= 1 + u /\ n <= 1 + v /\ n + 1 <= 2 + u
  <2>1. 1 \in Int /\ m - 1 \in Int /\ m \in Int /\ m - 1 <= m
    BY <1>4
  <2>2. /\ Cardinality(UnknownIn(1, m - 1)) \in Nat /\ Cardinality(UnknownIn(1, m)) \in Nat
        /\ Cardinality(UnknownIn(1, m - 1)) <= Cardinality(UnknownIn(1, m))
    BY <2>1, Unknowns
  <2>3. PICK u \in Nat, v \in Nat : /\ u = Cardinality(UnknownIn(1, m - 1))
                                   /\ v = Cardinality(UnknownIn(1, m))
    BY <2>2
  <2>4. u <= v /\ n <= 1 + u
    BY <1>3, <2>2, <2>3
  <2>5. n <= 1 + v /\ n + 1 <= 2 + u
    BY <2>4
  <2> QED
    BY <2>3, <2>4, <2>5
<1>8. attempts \in [1..Len(script) -> Nat] /\ chain \in Seq(Processes) /\ chain' \in Seq(Processes)
  BY DEF Accounts, ChainInv
<1>9. /\ q \in Processes /\ Parent(q) \in Processes /\ Child(q) \in Processes
  BY <1>2, <1>5, ReadsLine
<1>10. ASSUME NEW j \in 1..Len(script)
       PROVE  /\ Owes(p, j) = Tries(m, j) /\ Owes(q, j) = Tries(m + 1, j)
              /\ Tries(m, j) \in Nat /\ Tries(m + 1, j) \in Nat
              /\ Tries(m + 1, j) <= Tries(m, j)
              /\ Owes(Parent(q), j) + Owes(Child(q), j) = Owes(p, j)
  <2>1. /\ Parent(q).pc = "wait" /\ Parent(q).next = m + 1
        /\ Child(q).pc = "child" /\ Child(q).next = m + 1
    BY <1>6, <1>9 DEF Processes
  <2>2. Owes(p, j) = Tries(m, j) /\ Owes(q, j) = Tries(m + 1, j)
        /\ Owes(Parent(q), j) = Tries(m + 1, j)
    BY <1>1, <1>3, <1>6, <2>1 DEF Owes
  <2>3. Owes(Child(q), j) = (IF j = m THEN 1 ELSE 0)
                              + (IF Unknown(m) THEN Tries(m + 1, j) ELSE 0)
    <3>1. Child(q).next - 1 = m
      BY <2>1
    <3> QED
      BY <2>1, <3>1 DEF Owes
  <2>4. /\ Tries(m, j) \in Nat
        /\ Tries(m, j) = Tries(m + 1, j) + ((IF j = m THEN 1 ELSE 0)
                            + (IF Unknown(m) THEN Tries(m + 1, j) ELSE 0))
    <3>1. j \in Nat
      OBVIOUS
    <3> QED
      BY <3>1, TriesLine
  <2>5. Tries(m + 1, j) \in Nat
    <3>1. j \in Nat /\ m + 1 \in Nat
      OBVIOUS
    <3> QED
      BY <3>1, TriesLine
  <2>6. Tries(m + 1, j) <= Tries(m, j)
    <3>1. PICK t \in Nat : t = Tries(m + 1, j)
      BY <2>5
    <3>2. \A b \in {0, 1}, x \in {0, t} : t <= t + (b + x)
      OBVIOUS
    <3> QED
      BY <2>4, <3>1, <3>2
  <2> QED
    BY <2>2, <2>3, <2>4, <2>5, <2>6
<1>11. CASE Len(chain) < MaxProcesses
  <2> DEFINE c == [chain EXCEPT ![d] = Parent(q)]
  <2>1. chain' = Append(c, Child(q))
    BY <1>2, <1>5, <1>11
  <2>2. /\ c \in Seq(Processes) /\ Len(c) = n
        /\ \A e \in 1..n : c[e] = IF e = n THEN Parent(q) ELSE chain[e]
    BY <1>1, <1>8, <1>9, ExceptSeq
  <2> HIDE DEF c
  <2>3. /\ Len(chain') = n + 1 /\ chain'[n + 1] = Child(q) /\ chain'[n] = Parent(q)
        /\ \A e \in 1..(n - 1) : chain'[e] = chain[e]
    <3>1. /\ Len(chain') = n + 1 /\ chain'[n + 1] = Child(q)
          /\ \A e \in 1..n : chain'[e] = c[e]
      BY <1>9, <2>1, <2>2, AppendProperties
    <3> QED
      BY <1>1, <2>2, <3>1
  <2>4. InScript(n)'
    <3>1. /\ Parent(q).pc = "wait" /\ Parent(q).next = m + 1 /\ Parent(q).commandCounter = m
      BY <1>6, <1>9 DEF Processes
    <3>2. /\ Parent(q).next \in 1..(Len(script) + 1)
          /\ Parent(q).commandCounter = Parent(q).next - 1 /\ Parent(q).next - 1 = m
      BY <1>4, <3>1
    <3>3. n <= 1 + Cardinality(UnknownIn(1, Parent(q).next - 1))
      BY <1>7, <3>2
    <3>4. UnknownIn(1, Parent(q).next - 1)' = UnknownIn(1, Parent(q).next - 1)
      BY SameScript
    <3> QED
      BY <2>3, <3>1, <3>2, <3>3, <3>4 DEF InScript
  <2>5. InScript(n + 1)'
    <3>1. /\ Child(q).pc = "child" /\ Child(q).next = m + 1 /\ Child(q).commandCounter = m
          /\ Child(q).input = script[m]
      BY <1>6, <1>9 DEF Processes
    <3>2. /\ Child(q).next \in 1..(Len(script) + 1) /\ Child(q).next > 1
          /\ Child(q).commandCounter = Child(q).next - 1
          /\ Child(q).next - 1 = m /\ Child(q).next - 2 = m - 1
      BY <1>4, <3>1
    <3>3. n + 1 <= 2 + Cardinality(UnknownIn(1, Child(q).next - 2))
      BY <1>7, <3>2
    <3>4. UnknownIn(1, Child(q).next - 2)' = UnknownIn(1, Child(q).next - 2)
      BY SameScript
    <3>5. Child(q).input = script[Child(q).next - 1]
      BY <3>1, <3>2
    <3> QED
      BY <2>3, <3>1, <3>2, <3>3, <3>4, <3>5 DEF InScript
  <2>6. \A e \in 1..Len(chain') : InScript(e)'
    <3>1. ASSUME NEW e \in 1..(n - 1) PROVE InScript(e)'
      <4>1. InScript(e)
        BY <1>1 DEF Accounts
      <4> QED
        BY <2>3, <4>1, KeepsPlace
    <3>2. \A e \in 1..(n + 1) : e \in 1..(n - 1) \/ e = n \/ e = n + 1
      BY <1>1
    <3> QED
      BY <2>3, <2>4, <2>5, <3>1, <3>2
  <2>7. PICK k \in Nat : n = k + 1
    <3>1. n - 1 \in Nat /\ n = (n - 1) + 1
      BY <1>1
    <3> QED
      BY <3>1
  <2>8. ASSUME NEW j \in 1..Len(script)
        PROVE  /\ Due(chain, k, j) = Owes(p, j)
               /\ Due(chain', k, j) = Owes(Parent(q), j) + Owes(Child(q), j)
    <3>1. /\ k + 1 = n /\ k + 2 = n + 1 /\ n # k /\ n + 1 # k /\ n + 1 # k + 1
      BY <1>1, <2>7
    <3>2. Due(chain, k, j) = Owes(p, j)
      BY <1>1, <3>1 DEF Due
    <3>3. Due(chain', k, j) = Owes(Parent(q), j) + Owes(Child(q), j)
      BY <2>3, <3>1 DEF Due
    <3> QED
      BY <3>2, <3>3
  <2>9. /\ Len(chain) \in Nat /\ Len(chain') \in Nat /\ k \in 0..Len(chain)
        /\ Len(chain) <= k + 2 /\ k <= Len(chain') /\ Len(chain') <= k + 2 /\ Len(chain') > 0
        /\ \A e \in 1..k, j \in 1..Len(script) : Owes(chain'[e], j) = Owes(chain[e], j)
    BY <1>1, <2>3, <2>7
  <2>10. \A j \in 1..Len(script) :
           /\ attempts'[j] + Due(chain', k, j) <= attempts[j] + Due(chain, k, j)
           /\ Enough => attempts'[j] + Due(chain', k, j) = attempts[j] + Due(chain, k, j)
    <3>1. ASSUME NEW j \in 1..Len(script)
          PROVE  /\ attempts'[j] + Due(chain', k, j) = attempts[j] + Due(chain, k, j)
                 /\ attempts'[j] + Due(chain', k, j) <= attempts[j] + Due(chain, k, j)
      <4>1. Due(chain', k, j) = Due(chain, k, j) /\ Due(chain, k, j) \in Nat
        BY <1>10, <2>8
      <4>2. attempts'[j] = attempts[j] /\ attempts[j] \in Nat
        BY <1>2, <1>8
      <4> QED
        BY <4>1, <4>2
    <3> QED
      BY <3>1
  <2> QED
    BY <1>2, <1>8, <2>6, <2>9, <2>10, StepAccounts
<1>12. CASE ~(Len(chain) < MaxProcesses)
  <2>1. chain' = [chain EXCEPT ![d] = q]
    BY <1>2, <1>5, <1>12
  <2>2. chain'[d] = q
    BY <1>8, <1>9, <2>1, ExceptSeq
  <2>3. InScript(d)'
    <3>1. d <= 1 + v
      BY <1>1, <1>7
    <3>2. /\ q.next \in 1..(Len(script) + 1) /\ q.commandCounter = q.next - 1
          /\ q.next - 1 = m /\ q.pc = "fgets"
      BY <1>4, <1>6
    <3>3. d <= 1 + Cardinality(UnknownIn(1, q.next - 1))
      BY <1>7, <3>1, <3>2
    <3>4. UnknownIn(1, q.next - 1)' = UnknownIn(1, q.next - 1)
      BY SameScript
    <3> QED
      BY <2>2, <3>2, <3>3, <3>4 DEF InScript
  <2>4. ~Enough
    <3>1. 1 \in Int /\ m - 1 \in Int /\ Len(script) - 1 \in Int
      BY <1>4
    <3>2. /\ u <= Cardinality(UnknownIn(1, Len(script) - 1))
          /\ Cardinality(UnknownIn(1, Len(script) - 1)) \in Nat
      BY <1>4, <1>7, <3>1, Unknowns
    <3>3. PICK most \in Nat : most = MaxProcesses
      BY ShellAssumption
    <3>4. PICK w \in Nat : w = Cardinality(UnknownIn(1, Len(script) - 1))
      BY <3>2
    <3>5. u <= w /\ ~(n < most)
      BY <1>1, <1>12, <3>2, <3>3, <3>4
    <3>6. ~(w + 1 < most)
      BY <1>7, <3>5
    <3> QED
      BY <3>3, <3>4, <3>6 DEF Enough
  <2>5. \A j \in 1..Len(script) :
           /\ attempts'[j] + Owes(q, j) <= attempts[j] + Owes(chain[d], j)
           /\ Enough => attempts'[j] + Owes(q, j) = attempts[j] + Owes(chain[d], j)
    <3>1. ASSUME NEW j \in 1..Len(script)
          PROVE  attempts'[j] + Owes(q, j) <= attempts[j] + Owes(p, j)
      <4>1. /\ Owes(q, j) <= Owes(p, j) /\ Owes(q, j) \in Nat /\ Owes(p, j) \in Nat
        BY <1>10
      <4>2. attempts'[j] = attempts[j] /\ attempts[j] \in Nat
        BY <1>2, <1>8
      <4> QED
        BY <4>1, <4>2
    <3> QED
      BY <1>1, <2>4, <3>1
  <2> QED
    BY <1>1, <1>2, <1>8, <1>9, <2>1, <2>3, <2>5, LastMoves
<1> QED
  BY <1>11, <1>12

(* A parent buries its child and is back at its prompt (shell.c:49); the   *)
(* child owed nothing any more.                                            *)
LEMMA AccountsWait ==
  ASSUME ChainInv, ChainInv', Accounts, script' = script, Len(script) \in Nat,
         NEW d \in 1..Len(chain), WaitChild(d)
  PROVE  Accounts'
<1>1. PICK n \in Nat : /\ n = Len(chain) /\ d + 1 = n /\ d \in Nat /\ d > 0
                       /\ chain[d].pc = "wait" /\ chain[n].pc = "zombie"
  <2>1. /\ chain[d].pc = "wait" /\ chain[d + 1].pc = "zombie"
    BY DEF WaitChild
  <2>2. Len(chain) \in Nat /\ d < Len(chain) /\ ~(d + 1 \in 1..Len(chain) /\ d + 1 < Len(chain))
    BY <2>1, LenProperties DEF ChainInv
  <2>3. d + 1 = Len(chain) /\ d \in Nat /\ d > 0
    BY <2>2
  <2> QED
    BY <2>1, <2>2, <2>3
<1>2. PICK r : r = [chain[d] EXCEPT !.pc = "fgets"]
  OBVIOUS
<1>3. /\ r \in Processes /\ r.pc = "fgets" /\ r.next = chain[d].next
      /\ r.commandCounter = chain[d].commandCounter
  <2>1. chain[d] \in Processes
    BY ElementOfSeq DEF ChainInv
  <2> QED
    BY <1>2, <2>1 DEF Processes
<1>4. /\ Len(chain') = d /\ \A e \in 1..d : chain'[e] = IF e = d THEN r ELSE chain[e]
  <2>1. /\ Front(chain) \in Seq(Processes) /\ Len(Front(chain)) = d
        /\ \A e \in 1..d : Front(chain)[e] = chain[e]
    <3>1. Front(chain) = SubSeq(chain, 1, d)
      BY <1>1 DEF Front
    <3>2. chain \in Seq(Processes)
      BY DEF ChainInv
    <3> QED
      BY <1>1, <3>1, <3>2, SubSeqProperties
  <2>2. PICK f : f = Front(chain)
    OBVIOUS
  <2>3. /\ f \in Seq(Processes) /\ Len(f) = d /\ d \in 1..Len(f)
        /\ \A e \in 1..d : f[e] = chain[e]
    BY <1>1, <2>1, <2>2
  <2>4. chain' = [f EXCEPT ![d] = [f[d] EXCEPT !.pc = "fgets"]]
    BY <2>2 DEF WaitChild
  <2>5. chain' = [f EXCEPT ![d] = r]
    BY <1>2, <2>3, <2>4
  <2>6. /\ Len(chain') = d /\ \A e \in 1..d : chain'[e] = IF e = d THEN r ELSE f[e]
    BY <1>3, <2>3, <2>5, ExceptSeq
  <2> QED
    BY <2>3, <2>6
<1>5. \A e \in 1..Len(chain') : InScript(e)'
  <2>1. ASSUME NEW e \in 1..d, e # d PROVE InScript(e)'
    <3>1. InScript(e) /\ chain'[e] = chain[e]
      BY <1>1, <1>4, <2>1 DEF Accounts
    <3> QED
      BY <3>1, KeepsPlace
  <2>2. InScript(d)'
    <3>1. chain'[d] = r
      BY <1>1, <1>4
    <3>2. InScript(d)
      BY DEF Accounts
    <3>3. UnknownIn(1, r.next - 1)' = UnknownIn(1, r.next - 1)
      BY SameScript
    <3> QED
      BY <1>1, <1>3, <3>1, <3>2, <3>3 DEF InScript
  <2> QED
    BY <1>4, <2>1, <2>2
<1>6. PICK k \in Nat : d = k + 1
  <2>1. d - 1 \in Nat /\ d = (d - 1) + 1
    BY <1>1
  <2> QED
    BY <2>1
<1>7. ASSUME NEW j \in 1..Len(script)
      PROVE  Due(chain', k, j) = Due(chain, k, j) /\ Due(chain, k, j) \in Nat
  <2>1. /\ Len(chain) = k + 2 /\ k + 2 # k /\ k + 2 # k + 1 /\ Len(chain') = k + 1 /\ k + 1 # k
        /\ chain'[k + 1] = r /\ k + 1 = d /\ k + 2 = n
    BY <1>1, <1>4, <1>6
  <2>2. Due(chain', k, j) = Owes(r, j)
    BY <2>1 DEF Due
  <2>3. Due(chain, k, j) = Owes(chain[d], j) + Owes(chain[n], j)
    BY <2>1 DEF Due
  <2>4. Owes(r, j) = Tries(chain[d].next, j) /\ Owes(chain[d], j) = Tries(chain[d].next, j)
    BY <1>1, <1>3 DEF Owes
  <2>5. Owes(chain[n], j) = 0
    BY <1>1 DEF Owes
  <2>6. Tries(chain[d].next, j) \in Nat
    <3>1. chain[d].next \in Nat /\ j \in Nat
      BY DEF Accounts, InScript
    <3> QED
      BY <3>1, TriesLine
  <2> QED
    BY <2>2, <2>3, <2>4, <2>5, <2>6
<1>8. /\ Len(chain) \in Nat /\ Len(chain') \in Nat /\ k \in 0..Len(chain)
      /\ Len(chain) <= k + 2 /\ k <= Len(chain') /\ Len(chain') <= k + 2 /\ Len(chain') > 0
      /\ \A e \in 1..k, j \in 1..Len(script) : Owes(chain'[e], j) = Owes(chain[e], j)
  BY <1>1, <1>4, <1>6
<1>9. attempts \in [1..Len(script) -> Nat] /\ attempts' = attempts
  BY DEF Accounts, WaitChild
<1>10. \A j \in 1..Len(script) :
         /\ attempts'[j] + Due(chain', k, j) <= attempts[j] + Due(chain, k, j)
         /\ Enough => attempts'[j] + Due(chain', k, j) = attempts[j] + Due(chain, k, j)
  BY <1>7, <1>9
<1> QED
  BY <1>5, <1>8, <1>9, <1>10, StepAccounts

(* Ctrl+C ends programs, and no shell (shell.c:43).                        *)
LEMMA AccountsInterrupt ==
  ASSUME ChainInv, Accounts, script' = script, Len(script) \in Nat, Interrupt
  PROVE  Accounts'
<1>1. PICK n \in Nat : n = Len(chain) /\ n > 0 /\ DOMAIN chain = 1..n /\ chain \in Seq(Processes)
  BY LenProperties DEF ChainInv, Accounts
<1> DEFINE newPc(d) == [chain[d] EXCEPT !.pc = AfterSigint(@)]
<1>2. chain' = [d \in 1..n |-> newPc(d)] /\ attempts' = attempts
  BY <1>1 DEF Interrupt
<1>3. ASSUME NEW d \in 1..n
      PROVE  /\ newPc(d) \in Processes /\ newPc(d).next = chain[d].next
             /\ newPc(d).commandCounter = chain[d].commandCounter
             /\ newPc(d).input = chain[d].input
             /\ \/ newPc(d).pc = chain[d].pc
                \/ newPc(d).pc = "zombie" /\ chain[d].pc = "command"
  <2>1. chain[d] \in Processes
    BY <1>1, ElementOfSeq
  <2> QED
    BY <2>1 DEF Processes, AfterSigint
<1> HIDE DEF newPc
<1>4. Len(chain') = n /\ \A d \in 1..n : chain'[d] = newPc(d)
  <2>1. chain' \in [1..n -> Processes]
    BY <1>2, <1>3
  <2> QED
    BY <1>1, <1>2, <2>1, SeqDef, LenProperties
<1>5. \A d \in 1..Len(chain') : InScript(d)'
  <2>1. ASSUME NEW d \in 1..n PROVE InScript(d)'
    <3>1. InScript(d)
      BY <1>1 DEF Accounts
    <3>2. \A b : UnknownIn(1, b)' = UnknownIn(1, b)
      BY SameScript
    <3>3. chain'[d] = newPc(d)
      BY <1>4
    <3> QED
      BY <1>3, <3>1, <3>2, <3>3 DEF InScript
  <2> QED
    BY <1>4, <2>1
<1>6. ASSUME NEW d \in 1..n, NEW j \in 1..Len(script)
      PROVE  Owes(chain'[d], j) = Owes(chain[d], j)
  BY <1>3, <1>4 DEF Owes
<1>7. /\ Len(chain) \in Nat /\ Len(chain') \in Nat /\ n \in 0..Len(chain)
      /\ Len(chain) <= n + 2 /\ n <= Len(chain') /\ Len(chain') <= n + 2 /\ Len(chain') > 0
  BY <1>1, <1>4
<1>8. attempts \in [1..Len(script) -> Nat]
  BY DEF Accounts
<1>9. \A j \in 1..Len(script) : Due(chain', n, j) = 0 /\ Due(chain, n, j) = 0
  BY <1>1, <1>4 DEF Due
<1>10. \A j \in 1..Len(script) :
         /\ attempts'[j] + Due(chain', n, j) <= attempts[j] + Due(chain, n, j)
         /\ Enough => attempts'[j] + Due(chain', n, j) = attempts[j] + Due(chain, n, j)
  BY <1>2, <1>8, <1>9
<1> QED
  BY <1>2, <1>5, <1>6, <1>7, <1>8, <1>10, StepAccounts

(* The lines of the script can be counted.                                 *)
LEMMA ScriptLength ==
  ASSUME script \in {<<>>} \cup Scripts
  PROVE  DOMAIN script = 1..Len(script) /\ Len(script) \in Nat
<1>1. CASE script \in Scripts
  <2>1. PICK S : script \in Seq(S)
    BY <1>1, ShellAssumption
  <2> QED
    BY <2>1, LenProperties
<1>2. CASE script = <<>>
  <2>1. script \in Seq({})
    BY <1>2
  <2> QED
    BY <2>1, LenProperties
<1> QED
  BY <1>1, <1>2

(* At the start the first shell owes it all.                               *)
LEMMA InitScript == Init => ScriptInv
<1> SUFFICES ASSUME Init, script # <<>> PROVE Accounts
  BY InitShells DEF ScriptInv
<1>1. ShellStarts /\ ChainInv
  BY InitShells DEF Init, NoShell, ShellsInv
<1>2. DOMAIN script = 1..Len(script) /\ Len(script) \in Nat
  BY <1>1, ScriptLength DEF ChainInv
<1>3. /\ Len(chain) = 1 /\ chain[1] = Started /\ attempts = [i \in 1..Len(script) |-> 0]
  BY <1>1, <1>2 DEF ShellStarts
<1>4. InScript(1)
  <2>1. /\ Started.next = 1 /\ Started.commandCounter = 0 /\ Started.pc = "fgets"
    BY DEF Started
  <2>2. 1 \in 1..(Len(script) + 1) /\ 1 - 1 = 0
    BY <1>2
  <2>3. PICK u \in Nat : u = Cardinality(UnknownIn(1, 0))
    <3>1. 1 \in Int /\ 0 \in Int
      OBVIOUS
    <3> QED
      BY <3>1, Unknowns
  <2>4. 1 <= 1 + u
    OBVIOUS
  <2> QED
    BY <1>3, <2>1, <2>2, <2>3, <2>4 DEF InScript
<1>5. ASSUME NEW j \in 1..Len(script) PROVE Settled(j)
  <2>1. PICK t \in Nat : t = Tries(1, j)
    <3>1. j \in Nat /\ 1 \in Nat
      OBVIOUS
    <3> QED
      BY <3>1, TriesLine
  <2>2. Owes(chain[1], j) = t
    BY <1>3, <2>1 DEF Started, Owes
  <2> DEFINE s == [e \in 0..1 |-> IF e = 0 THEN 0 ELSE t]
  <2>3. Debts(j) = [e \in 1..1 |-> Owes(chain[e], j)]
    BY <1>3 DEF Debts
  <2>4. Debts(j)[1] = t
    BY <2>2, <2>3
  <2>5. Sums(s, Debts(j), 1)
    <3>1. s \in [0..1 -> Nat] /\ s[0] = 0 /\ s[1] = t /\ s[1 - 1] = 0 /\ t = 0 + t
      OBVIOUS
    <3>2. \A e \in 1..1 : e = 1
      OBVIOUS
    <3> HIDE DEF s
    <3> QED
      BY <2>4, <3>1, <3>2 DEF Sums
  <2>6. attempts[j] = 0 /\ s[1] = t /\ 0 + t = t /\ t <= t
    BY <1>3
  <2> HIDE DEF s
  <2> QED
    BY <1>3, <2>1, <2>5, <2>6 DEF Settled
<1> QED
  BY <1>2, <1>3, <1>4, <1>5 DEF Accounts

LEMMA StepScript == ScriptInv /\ [Next]_vars => ScriptInv'
<1> SUFFICES ASSUME ScriptInv, [Next]_vars, script' # <<>> PROVE Accounts'
  BY StepShells DEF ScriptInv
<1>1. ChainInv /\ ChainInv' /\ OneShell
  BY StepShells DEF ScriptInv, ShellsInv
<1>2. script' = script
  BY DEF Next, vars, shellVars, Done, Runs, ShellRuns, ShellTyped, P2, P3, Interrupt,
         ReadCommand, ReadEnd, ChildExec, ProgramEnds, WaitChild
<1>3. Accounts /\ script # <<>>
  BY <1>2 DEF ScriptInv
<1>4. DOMAIN script = 1..Len(script) /\ Len(script) \in Nat /\ DOMAIN chain = 1..Len(chain)
  BY <1>1, ScriptLength, LenProperties DEF ChainInv
<1>5. ASSUME NEW d \in DOMAIN chain, ShellRuns(d)
      PROVE  Accounts'
  <2>1. CASE ChildExec(d)
    BY <1>1, <1>2, <1>3, <1>4, <2>1, AccountsExec
  <2>2. CASE ProgramEnds(d) \/ ReadEnd(d)
    BY <1>1, <1>2, <1>3, <1>4, <2>2, AccountsEnd
  <2>3. CASE WaitChild(d)
    BY <1>1, <1>2, <1>3, <1>4, <2>3, AccountsWait
  <2>4. CASE ReadCommand(d)
    BY <1>1, <1>2, <1>3, <1>4, <2>4, AccountsRead
  <2> QED
    BY <1>5, <2>1, <2>2, <2>3, <2>4 DEF ShellRuns
<1>6. ASSUME NEW d \in DOMAIN chain, ShellTyped(d)
      PROVE  Accounts'
  BY <1>3, <1>6 DEF ShellTyped, Tty
<1>7. CASE Interrupt
  BY <1>1, <1>2, <1>3, <1>4, <1>7, AccountsInterrupt
<1>8. ASSUME UNCHANGED shellVars
      PROVE  Accounts'
  <2>1. chain' = chain /\ attempts' = attempts
    BY <1>8 DEF shellVars
  <2>2. \A d \in 1..Len(chain) : InScript(d)'
    BY <1>2, <1>3, <2>1, KeepsPlace DEF Accounts
  <2>3. \A j : Debts(j)' = Debts(j) /\ Tries(1, j)' = Tries(1, j)
    BY <1>2, <2>1, SameScript DEF Debts
  <2>4. \A j \in 1..Len(script) : Settled(j)'
    <3>1. Enough' <=> Enough
      BY <1>2, SameScript
    <3> QED
      BY <1>3, <2>1, <2>3, <3>1 DEF Accounts, Settled
  <2> QED
    BY <1>2, <1>3, <2>1, <2>2, <2>4 DEF Accounts
<1>9. CASE UNCHANGED vars \/ Done
  BY <1>8, <1>9 DEF vars, Done
<1> QED
  BY <1>5, <1>6, <1>7, <1>8, <1>9 DEF Next, Runs, P2, P3

(* UnknownRunsRestTwice: every unknown command leaves a shell behind,      *)
(* which reads the rest of the script from its copy of the buffer          *)
(* (shell.c:29, 45), so that a line is tried once for every outcome of the *)
(* unknown ones before it: never more often, and no less when no fork      *)
(* fails.                                                                  *)
THEOREM UnknownLinesDouble == Spec => []UnknownRunsRestTwice
<1>1. ScriptInv => UnknownRunsRestTwice
  <2> SUFFICES ASSUME ScriptInv PROVE UnknownRunsRestTwice
    OBVIOUS
  <2>1. script \in {<<>>} \cup Scripts /\ ChainInv
    BY DEF ScriptInv, ShellsInv, ChainInv
  <2>2. DOMAIN script = 1..Len(script) /\ Len(script) \in Nat
    BY <2>1, ScriptLength
  <2> SUFFICES ASSUME NEW i \in 1..Len(script)
               PROVE  /\ attempts[i] <= 2 ^ Cardinality(UnknownIn(1, i - 1))
                      /\ chain[1].pc = "zombie" /\ Enough
                           => attempts[i] = 2 ^ Cardinality(UnknownIn(1, i - 1))
    BY <2>2 DEF UnknownRunsRestTwice, UnknownIn, Enough
  <2>3. script # <<>>
    BY <2>2, EmptySeq
  <2>4. Accounts
    BY <2>3 DEF ScriptInv
  <2>5. PICK t \in Nat : t = Tries(1, i) /\ t = 2 ^ Cardinality(UnknownIn(1, i - 1))
    <3>1. 1 \in Int /\ i - 1 \in Int /\ 1 <= i /\ i \in Nat /\ 1 \in Nat
      OBVIOUS
    <3>2. IsFiniteSet(UnknownIn(1, i - 1))
      BY <3>1, Unknowns
    <3>3. Cardinality(SUBSET UnknownIn(1, i - 1)) = 2 ^ Cardinality(UnknownIn(1, i - 1))
      BY <3>2, FS_SUBSET
    <3>4. Tries(1, i) = Cardinality(SUBSET UnknownIn(1, i - 1))
      BY <3>1 DEF Tries
    <3>5. Tries(1, i) \in Nat
      BY <3>1, TriesLine
    <3> QED
      BY <3>3, <3>4, <3>5
  <2>6. PICK n \in Nat : n = Len(chain) /\ n > 0
    BY <2>1, <2>4, LenProperties DEF ChainInv, Accounts
  <2>7. PICK s : /\ Sums(s, Debts(i), n) /\ attempts[i] + s[n] <= t
                 /\ Enough => attempts[i] + s[n] = t
    BY <2>4, <2>5, <2>6 DEF Accounts, Settled
  <2>8. attempts[i] \in Nat /\ s[n] \in Nat
    BY <2>4, <2>6, <2>7 DEF Accounts, Sums
  <2>9. attempts[i] <= t
    BY <2>7, <2>8
  <2>10. ASSUME chain[1].pc = "zombie", Enough PROVE attempts[i] = t
    <3>1. n = 1
      BY <2>1, <2>6, <2>10 DEF ChainInv
    <3>2. Debts(i)[1] = 0
      BY <2>6, <2>10, <3>1 DEF Debts, Owes
    <3>3. s[0] = 0 /\ s[1] = s[1 - 1] + Debts(i)[1]
      BY <2>7, <3>1 DEF Sums
    <3>4. s[1] = 0
      BY <3>2, <3>3
    <3> QED
      BY <2>7, <2>8, <2>10, <3>1, <3>4
  <2> QED
    BY <2>5, <2>9, <2>10
<1> QED
  BY <1>1, InitScript, StepScript, PTL DEF Spec

-----------------------------------------------------------------------------
(* The pipes *)

(* Who may have an end of the pipe of a line open (shell2.c:61, 71): P2    *)
(* its writing end until it ends, its reading end until it looks for its   *)
(* program; P3 its writing end until then, its reading end to its end.  P2 *)
(* has a child from its fork to the end of its wait, or to its own end;    *)
(* and it waits for that child only when there is no program for it.       *)
PipeOK(j) ==
  /\ j.pipe \in 0..PipeCap
  /\ "P2" \in j.writers => j.p2 \in {"forked", "command", "wait"}
  /\ "P3" \in j.writers => j.p3 = "child"
  /\ "P2" \in j.readers => j.p2 = "forked"
  /\ "P3" \in j.readers => j.p3 \in {"child", "command"}
  /\ j.p2 = "child" => j.p3 = "none"
  /\ j.p2 \in {"forked", "wait"} => j.p3 # "none"
  /\ j.p3 = "zombie" => j.p2 \in {"forked", "command", "wait"}
  /\ j.p2 = "wait" => Execvp(parse2(j.left)) = "failed"

PipesInv == ShellsInv /\ \A n \in 1..Len(jobs) : PipeOK(jobs[n])

(* Someone of line n has a call that returns: P1 buries P2; P2 and P3 have *)
(* not started their programs, or P2 can bury P3; the left side is no      *)
(* writer, or one whose write returns; the right side is no reader, or one *)
(* whose read returns.                                                     *)
CanGoOn(n) ==
  \/ p1 = "wait" /\ n = Len(jobs) /\ jobs[n].p2 = "zombie"
  \/ jobs[n].p2 \in {"child", "forked"} \/ jobs[n].p3 = "child"
  \/ jobs[n].p2 = "wait" /\ jobs[n].p3 = "zombie"
  \/ /\ jobs[n].p2 = "command"
     /\ ~Writes(n) \/ jobs[n].readers = {} \/ jobs[n].pipe < PipeCap
  \/ /\ jobs[n].p3 = "command"
     /\ Right(n) \notin {"cat", "head"} \/ AtEnd(n) \/ jobs[n].pipe > 0

(* One line changes as PipeOK allows.                                      *)
LEMMA OtherLines ==
  ASSUME PipesInv, NEW n \in 1..Len(jobs), NEW j, Becomes(n, j), PipeOK(j)
  PROVE  \A m \in 1..Len(jobs') : PipeOK(jobs'[m])
<1>1. jobs \in Seq(JobRecords) /\ jobs' = [jobs EXCEPT ![n] = j]
  BY DEF PipesInv, ShellsInv, JobsInv, Becomes
<1>2. Len(jobs') = Len(jobs) /\ \A m \in 1..Len(jobs) : jobs'[m] = IF m = n THEN j ELSE jobs[m]
  <2>1. DOMAIN jobs = 1..Len(jobs) /\ Len(jobs) \in Nat
    BY <1>1, LenProperties
  <2>2. DOMAIN jobs' = 1..Len(jobs)
    BY <1>1, <2>1
  <2>3. jobs' \in Seq(JobRecords \cup {j})
    <3>1. \A m \in 1..Len(jobs) : jobs'[m] \in JobRecords \cup {j}
      BY <1>1, <2>1, ElementOfSeq
    <3>2. jobs' \in [1..Len(jobs) -> JobRecords \cup {j}]
      BY <1>1, <2>1, <3>1
    <3> QED
      BY <2>1, <3>2, SeqDef
  <2>4. Len(jobs') = Len(jobs)
    BY <2>1, <2>2, <2>3, LenProperties
  <2> QED
    BY <1>1, <2>1, <2>4
<1> QED
  BY <1>2 DEF PipesInv

(* What is left of a line when P2 or P3 has ended.                         *)
LEMMA PipeEnds ==
  ASSUME NEW j \in JobRecords, PipeOK(j)
  PROVE  /\ j.p2 # "gone" => PipeOK(P2Ends(j))
         /\ j.p3 # "none" => PipeOK(P3Ends(j))
<1>1. ASSUME j.p2 # "gone" PROVE PipeOK(P2Ends(j))
  <2> DEFINE k == P2Ends(j)
  <2>1. /\ k.pipe = j.pipe /\ k.p2 = "zombie" /\ k.left = j.left
        /\ k.p3 = (IF j.p3 = "zombie" THEN "none" ELSE j.p3)
        /\ k.writers = j.writers \ {"P2"} /\ k.readers = j.readers \ {"P2"}
    BY DEF P2Ends, JobRecords
  <2> HIDE DEF k
  <2> QED
    BY <2>1 DEF PipeOK, k
<1>2. ASSUME j.p3 # "none" PROVE PipeOK(P3Ends(j))
  <2> DEFINE k == P3Ends(j)
  <2>1. /\ k.pipe = j.pipe /\ k.p2 = j.p2 /\ k.left = j.left
        /\ k.p3 = (IF j.p2 \in {"zombie", "gone"} THEN "none" ELSE "zombie")
        /\ k.writers = j.writers \ {"P3"} /\ k.readers = j.readers \ {"P3"}
    BY DEF P3Ends, JobRecords
  <2>2. j.p2 \in {"child", "forked", "wait", "command", "zombie", "gone"}
    BY DEF JobRecords
  <2>3. j.p2 # "child"
    BY <1>2 DEF PipeOK
  <2> HIDE DEF k
  <2> QED
    BY <2>1, <2>2, <2>3 DEF PipeOK, k
<1> QED
  BY <1>1, <1>2

(* P2, P3 and Ctrl+C keep the ends of the pipe in order.                   *)
LEMMA StepPipe ==
  ASSUME PipesInv, NEW n \in 1..Len(jobs), P2Step(n) \/ P3Step(n)
  PROVE  \A m \in 1..Len(jobs') : PipeOK(jobs'[m])
<1>1. jobs[n] \in JobRecords /\ PipeOK(jobs[n])
  BY ElementOfSeq DEF PipesInv, ShellsInv, JobsInv
<1>2. PipeCap \in Nat \ {0}
  BY PipeAssumption
<1>3. SUFFICES \E j : Becomes(n, j) /\ PipeOK(j)
  BY OtherLines
<1>4. jobs[n].p2 # "gone" => PipeOK(P2Ends(jobs[n]))
  BY <1>1, PipeEnds
<1>5. jobs[n].p3 # "none" => PipeOK(P3Ends(jobs[n]))
  BY <1>1, PipeEnds
<1>6. CASE P2Simple(n)
  <2> DEFINE j == [jobs[n] EXCEPT !.p2 = "command"]
  <2>1. /\ j.pipe = jobs[n].pipe /\ j.p2 = "command" /\ j.p3 = jobs[n].p3
        /\ j.writers = jobs[n].writers /\ j.readers = jobs[n].readers
    BY <1>1 DEF JobRecords
  <2>2. jobs[n].p2 = "child" /\ (Becomes(n, j) \/ Becomes(n, P2Ends(jobs[n])))
    BY <1>6 DEF P2Simple
  <2> HIDE DEF j
  <2>3. PipeOK(j)
    BY <1>1, <2>1, <2>2 DEF PipeOK
  <2> QED
    BY <1>4, <2>2, <2>3
<1>7. CASE P2Pipe(n)
  <2> DEFINE j == [jobs[n] EXCEPT !.p2 = "forked", !.p3 = "child",
                   !.writers = {"P2", "P3"}, !.readers = {"P2", "P3"}]
  <2>1. /\ j.pipe = jobs[n].pipe /\ j.p2 = "forked" /\ j.p3 = "child"
    BY <1>1 DEF JobRecords
  <2>2. jobs[n].p2 = "child" /\ (Becomes(n, j) \/ Becomes(n, P2Ends(jobs[n])))
    BY <1>7 DEF P2Pipe
  <2> HIDE DEF j
  <2>3. PipeOK(j)
    BY <1>1, <2>1 DEF PipeOK
  <2> QED
    BY <1>4, <2>2, <2>3
<1>8. CASE P2Exec(n)
  <2> DEFINE i == [jobs[n] EXCEPT !.readers = @ \ {"P2"}]
             c == [i EXCEPT !.p2 = "command"]
             w == [i EXCEPT !.p2 = "wait"]
  <2>1. /\ i \in JobRecords
        /\ i.pipe = jobs[n].pipe /\ i.p2 = jobs[n].p2 /\ i.p3 = jobs[n].p3
        /\ i.left = jobs[n].left
        /\ i.writers = jobs[n].writers /\ i.readers = jobs[n].readers \ {"P2"}
    BY <1>1 DEF JobRecords
  <2>2. Execvp(parse2(i.left)) \in {"crash", "command", "failed"}
    BY DEF Execvp
  <2>3. /\ jobs[n].p2 = "forked"
        /\ \/ Becomes(n, c)
           \/ Becomes(n, w) /\ Execvp(parse2(i.left)) = "failed"
           \/ Becomes(n, P2Ends(i))
    BY <1>8, <2>2 DEF P2Exec
  <2> HIDE DEF i
  <2>4. PipeOK(i)
    BY <1>1, <2>1 DEF PipeOK
  <2>5. /\ c.pipe = i.pipe /\ c.p2 = "command" /\ c.p3 = i.p3
        /\ c.writers = i.writers /\ c.readers = i.readers
    BY <2>1 DEF JobRecords
  <2>6. /\ w.pipe = i.pipe /\ w.p2 = "wait" /\ w.p3 = i.p3 /\ w.left = i.left
        /\ w.writers = i.writers /\ w.readers = i.readers
    BY <2>1 DEF JobRecords
  <2> HIDE DEF c, w
  <2>7. PipeOK(c)
    BY <2>1, <2>3, <2>4, <2>5 DEF PipeOK
  <2>8. Execvp(parse2(i.left)) = "failed" => PipeOK(w)
    BY <2>1, <2>3, <2>4, <2>6 DEF PipeOK
  <2>9. PipeOK(P2Ends(i))
    BY <2>1, <2>3, <2>4, PipeEnds
  <2> QED
    BY <2>3, <2>7, <2>8, <2>9
<1>9. CASE P2Wait(n) \/ LeftEnds(n)
  BY <1>4, <1>9 DEF P2Wait, LeftEnds
<1>10. CASE LeftWrites(n)
  <2> DEFINE j == [jobs[n] EXCEPT !.pipe = @ + 1, !.toWrite = @ - 1]
  <2>1. /\ j.pipe = jobs[n].pipe + 1 /\ j.p2 = jobs[n].p2 /\ j.p3 = jobs[n].p3
        /\ j.left = jobs[n].left
        /\ j.writers = jobs[n].writers /\ j.readers = jobs[n].readers
    BY <1>1 DEF JobRecords
  <2>2. /\ jobs[n].p2 = "command"
        /\ (Becomes(n, j) /\ jobs[n].pipe < PipeCap) \/ Becomes(n, P2Ends(jobs[n]))
    BY <1>10 DEF LeftWrites
  <2> HIDE DEF j
  <2>3. jobs[n].pipe < PipeCap => PipeOK(j)
    BY <1>1, <1>2, <2>1 DEF PipeOK
  <2> QED
    BY <1>4, <2>2, <2>3
<1>11. CASE P3Exec(n)
  <2> DEFINE j == [Closed(jobs[n]) EXCEPT !.p3 = "command"]
  <2>1. /\ j.pipe = jobs[n].pipe /\ j.p2 = jobs[n].p2 /\ j.p3 = "command"
        /\ j.left = jobs[n].left
        /\ j.writers = jobs[n].writers \ {"P3"} /\ j.readers = jobs[n].readers
    BY <1>1 DEF Closed, JobRecords
  <2>2. jobs[n].p3 = "child" /\ (Becomes(n, j) \/ Becomes(n, P3Ends(jobs[n])))
    BY <1>11 DEF P3Exec
  <2> HIDE DEF j
  <2>3. PipeOK(j)
    BY <1>1, <2>1, <2>2 DEF PipeOK
  <2> QED
    BY <1>5, <2>2, <2>3
<1>12. CASE RightReads(n)
  <2> DEFINE j == [jobs[n] EXCEPT !.pipe = @ - 1]
  <2>1. /\ j.pipe = jobs[n].pipe - 1 /\ j.p2 = jobs[n].p2 /\ j.p3 = jobs[n].p3
        /\ j.left = jobs[n].left
        /\ j.writers = jobs[n].writers /\ j.readers = jobs[n].readers
    BY <1>1 DEF JobRecords
  <2>2. Becomes(n, j) /\ jobs[n].pipe > 0
    BY <1>12 DEF RightReads
  <2> HIDE DEF j
  <2>3. PipeOK(j)
    BY <1>1, <1>2, <2>1, <2>2 DEF PipeOK
  <2> QED
    BY <2>2, <2>3
<1>13. CASE RightEnds(n)
  BY <1>5, <1>13 DEF RightEnds
<1> QED
  BY <1>6, <1>7, <1>8, <1>9, <1>10, <1>11, <1>12, <1>13 DEF P2Step, P3Step

(* P1 starts a line without a pipe, and buries who has none of its ends.   *)
LEMMA StepPipeP1 ==
  ASSUME PipesInv, P1Command \/ P1End \/ P1Wait
  PROVE  \A m \in 1..Len(jobs') : PipeOK(jobs'[m])
<1> DEFINE n == Len(jobs)
<1>1. /\ jobs \in Seq(JobRecords) /\ n \in Nat /\ (jobs = <<>> <=> n = 0)
      /\ \A m \in 1..n : jobs[m] \in JobRecords /\ PipeOK(jobs[m])
  BY LenProperties, EmptySeq, ElementOfSeq DEF PipesInv, ShellsInv, JobsInv
<1>2. PipeCap \in Nat \ {0}
  BY PipeAssumption
<1>3. CASE jobs' = jobs
  BY <1>1, <1>3
<1>4. ASSUME NEW ws \in Lines, jobs' = Append(jobs, Job(ws))
      PROVE  \A m \in 1..Len(jobs') : PipeOK(jobs'[m])
  <2>1. Job(ws) \in JobRecords /\ PipeOK(Job(ws))
    BY <1>2, PipeAssumption DEF Job, JobRecords, PipeOK
  <2>2. /\ Len(jobs') = n + 1 /\ jobs'[n + 1] = Job(ws)
        /\ \A m \in 1..n : jobs'[m] = jobs[m]
    BY <1>1, <1>4, <2>1, AppendProperties
  <2> HIDE DEF n
  <2>3. \A m \in 1..(n + 1) : m = n + 1 \/ m \in 1..n
    BY <1>1
  <2> QED
    BY <1>1, <2>1, <2>2, <2>3
<1>5. CASE P1Wait
  <2> DEFINE j == [jobs[n] EXCEPT !.p2 = "gone"]
  <2>1. /\ n \in 1..n /\ jobs[n].p2 = "zombie"
        /\ jobs' = [jobs EXCEPT ![n] = j]
    <3>1. n \in 1..n
      BY <1>1, <1>5 DEF P1Wait, PipesInv, ShellsInv, JobsInv
    <3>2. Last(jobs) = jobs[n]
      BY DEF Last
    <3> QED
      BY <1>5, <3>1, <3>2 DEF P1Wait
  <2>2. j \in JobRecords
    BY <1>1, <2>1 DEF JobRecords
  <2>3. /\ j.pipe = jobs[n].pipe /\ j.p2 = "gone" /\ j.p3 = jobs[n].p3
        /\ j.writers = jobs[n].writers /\ j.readers = jobs[n].readers
    BY <1>1, <2>1 DEF JobRecords
  <2>4. PipeOK(j)
    <3>1. PipeOK(jobs[n])
      BY <1>1, <2>1
    <3> HIDE DEF j
    <3> QED
      BY <2>1, <2>3, <3>1 DEF PipeOK
  <2>5. /\ Len(jobs') = n
        /\ \A m \in 1..n : jobs'[m] = IF m = n THEN j ELSE jobs[m]
    BY <1>1, <2>1, <2>2, ExceptSeq
  <2> QED
    BY <1>1, <2>4, <2>5
<1> QED
  BY <1>3, <1>4, <1>5 DEF P1Command, P1End, pipeVars

(* A Ctrl+C ends the programs of a line as their own ends would.           *)
LEMMA StepPipeInterrupt ==
  ASSUME PipesInv, Interrupt
  PROVE  \A m \in 1..Len(jobs') : PipeOK(jobs'[m])
<1> DEFINE mid(j) == IF AfterSigint(j.p3) # j.p3 THEN P3Ends(j) ELSE j
           new(j) == IF AfterSigint(j.p2) # j.p2 THEN P2Ends(mid(j)) ELSE mid(j)
<1>1. /\ jobs \in Seq(JobRecords) /\ DOMAIN jobs = 1..Len(jobs) /\ Len(jobs) \in Nat
      /\ \A m \in 1..Len(jobs) : jobs[m] \in JobRecords /\ PipeOK(jobs[m])
  BY LenProperties, ElementOfSeq DEF PipesInv, ShellsInv, JobsInv
<1>2. jobs' = [m \in 1..Len(jobs) |-> new(jobs[m])]
  BY <1>1 DEF Interrupt
<1>3. ASSUME NEW j \in JobRecords, PipeOK(j)
      PROVE  PipeOK(new(j))
  <2>1. P3Ends(j) \in JobRecords /\ P3Ends(j).p2 = j.p2
    BY DEF P3Ends, JobRecords
  <2>2. AfterSigint(j.p3) # j.p3 => j.p3 # "none"
    BY DEF AfterSigint
  <2>3. mid(j) \in JobRecords /\ PipeOK(mid(j)) /\ mid(j).p2 = j.p2
    BY <1>3, <2>1, <2>2, PipeEnds
  <2>4. AfterSigint(j.p2) # j.p2 => j.p2 # "gone"
    BY DEF AfterSigint
  <2> HIDE DEF mid
  <2> QED
    BY <2>3, <2>4, PipeEnds
<1> HIDE DEF new
<1>4. jobs' \in Seq({new(j) : j \in JobRecords}) /\ DOMAIN jobs' = 1..Len(jobs)
  BY <1>1, <1>2, SeqDef
<1>5. Len(jobs') = Len(jobs)
  BY <1>1, <1>4, LenProperties
<1> QED
  BY <1>1, <1>2, <1>3, <1>5

(* Every step at the terminal keeps them.                                  *)
LEMMA StepPipes == PipesInv /\ [Next]_vars => PipesInv'
<1> SUFFICES ASSUME PipesInv, [Next]_vars
             PROVE  \A m \in 1..Len(jobs') : PipeOK(jobs'[m])
  BY StepShells DEF PipesInv
<1>1. DOMAIN jobs = 1..Len(jobs)
  BY LenProperties DEF PipesInv, ShellsInv, JobsInv
<1>2. CASE UNCHANGED jobs
  BY <1>2 DEF PipesInv
<1>3. CASE UNCHANGED pipeVars \/ UNCHANGED vars \/ Done
  BY <1>2, <1>3 DEF pipeVars, vars, Done
<1>4. CASE \E n \in 1..MaxTyped : P2(n) \/ P3(n)
  BY <1>1, <1>4, StepPipe DEF P2, P3
<1>5. CASE (CtrlC \/ AlarmRuns) /\ UNCHANGED <<shellVars, pipeVars>>
  BY <1>3, <1>5
<1>6. CASE P1Command \/ P1End \/ P1Wait
  BY <1>6, StepPipeP1
<1> QED
  BY <1>3, <1>4, <1>5, <1>6, StepPipeInterrupt DEF Next, Runs

(* No line is stuck, for any lines, any size of a pipe and of what ls      *)
(* prints: one that is not over has someone who can go on, or hangs with a *)
(* left side that names no program (shell2.c:71-77), until a Ctrl+C.  This *)
(* is the safety half of PipesEnd.                                         *)
THEOREM NoLineIsStuck ==
  Spec => [](\A n \in DOMAIN jobs :
               /\ Hung(n) => Execvp(parse2(jobs[n].left)) = "failed"
               /\ Over(n) \/ Hung(n) \/ CanGoOn(n))
<1> DEFINE Free == \A n \in DOMAIN jobs :
                     /\ Hung(n) => Execvp(parse2(jobs[n].left)) = "failed"
                     /\ Over(n) \/ Hung(n) \/ CanGoOn(n)
<1>1. Init => PipesInv
  <2>1. Init => jobs = <<>> /\ Len(<<>>) = 0
    BY DEF Init
  <2> QED
    BY <2>1, InitShells DEF PipesInv
<1>2. PipesInv => Free
  <2> SUFFICES ASSUME PipesInv, NEW n \in DOMAIN jobs
               PROVE  /\ Hung(n) => Execvp(parse2(jobs[n].left)) = "failed"
                      /\ Over(n) \/ Hung(n) \/ CanGoOn(n)
    BY DEF Free
  <2> DEFINE j == jobs[n]
  <2>1. j \in JobRecords /\ PipeOK(j) /\ n \in 1..Len(jobs)
    BY LenProperties, ElementOfSeq DEF PipesInv, ShellsInv, JobsInv
  <2>2. /\ j.p2 \in {"child", "forked", "wait", "command", "zombie", "gone"}
        /\ j.p3 \in {"none", "child", "command", "zombie"}
        /\ j.writers \subseteq {"P2", "P3"} /\ j.readers \subseteq {"P2", "P3"}
        /\ PipeCap \in Nat \ {0} /\ j.pipe \in 0..PipeCap
    BY <2>1, PipeAssumption DEF JobRecords, PipeOK
  <2>3. j.p2 = "zombie" => p1 = "wait" /\ n = Len(jobs)
    BY <2>1 DEF PipesInv, ShellsInv, JobsInv
  <2>4. Hung(n) => Execvp(parse2(j.left)) = "failed"
    BY <2>1 DEF Hung, PipeOK
  <2>5. Over(n) \/ Hung(n) \/ CanGoOn(n)
    <3> SUFFICES ASSUME ~CanGoOn(n) PROVE Over(n) \/ Hung(n)
      OBVIOUS
    <3>1. /\ j.p2 \notin {"child", "forked", "zombie"} /\ j.p3 # "child"
          /\ j.p2 = "wait" => j.p3 # "zombie"
          /\ j.p2 = "command" => j.readers # {} /\ j.pipe >= PipeCap
          /\ j.p3 = "command" =>
               Right(n) # "ls" /\ (j.writers # {} \/ j.pipe # 0) /\ ~(j.pipe > 0)
      BY <2>2, <2>3 DEF CanGoOn, AtEnd
    <3>2. j.p3 = "command" => j.pipe = 0 /\ j.writers = {"P2"}
      <4>1. j.p3 = "command" => "P3" \notin j.writers
        BY <2>1 DEF PipeOK
      <4> QED
        BY <2>2, <3>1, <4>1
    <3>3. CASE j.p2 = "command"
      <4>1. "P2" \notin j.readers
        BY <2>1, <3>3 DEF PipeOK
      <4>2. "P3" \in j.readers
        BY <2>2, <3>1, <3>3, <4>1
      <4>3. j.p3 = "command"
        BY <2>1, <3>1, <4>2 DEF PipeOK
      <4> QED
        BY <2>2, <3>1, <3>2, <3>3, <4>3
    <3>4. CASE j.p2 = "wait"
      <4>1. j.p3 = "command"
        BY <2>1, <2>2, <3>1, <3>4 DEF PipeOK
      <4> QED
        BY <3>1, <3>2, <3>4, <4>1 DEF Hung
    <3>5. CASE j.p2 = "gone"
      <4>1. "P2" \notin j.writers /\ j.p3 # "zombie"
        BY <2>1, <3>5 DEF PipeOK
      <4>2. j.p3 = "none"
        BY <2>2, <3>1, <3>2, <4>1
      <4> QED
        BY <3>5, <4>2 DEF Over
    <3> QED
      BY <2>2, <3>1, <3>3, <3>4, <3>5
  <2> QED
    BY <2>4, <2>5
<1> QED
  BY <1>1, <1>2, StepPipes, PTL DEF Spec

-----------------------------------------------------------------------------
(* The alarm of exercise 5 *)

(* Five seconds, moved by k keys.                                          *)
InDrift(e, k) ==
  /\ 5 * Second - k * (Second \div 2) <= e
  /\ e <= 5 * Second + k * (Second - 1)

AlarmTypes ==
  /\ typed \in Nat /\ phase \in 0..4 /\ leftTicks \in Nat /\ rung \in BOOLEAN
  /\ hpc \in {"off", "stop", "restart"} /\ unslept_time \in Nat /\ elapsed \in Nat

(* The alarm there is, or is to be when the handler has started it again,  *)
(* ends a phase of five seconds, moved by the keys that have been handled. *)
(* An alarm that has rung is no more left; one that rings inside alarm(0)  *)
(* leaves nothing to start again.                                          *)
AlarmInv ==
  /\ AlarmTypes
  /\ rung => leftTicks = 0 /\ phase \in 1..3
  /\ hpc = "off" /\ (rung \/ leftTicks > 0) => InDrift(elapsed + leftTicks, typed)
  /\ hpc = "stop" =>
       /\ typed > 0
       /\ rung \/ leftTicks > 0 => InDrift(elapsed + leftTicks, typed - 1)
  /\ hpc = "restart" =>
       /\ rung => unslept_time = 0 /\ InDrift(elapsed, typed)
       /\ unslept_time > 0 => InDrift(elapsed + unslept_time * Second, typed)

(* alarm rounds to the nearest whole second, but never to none: in ticks,  *)
(* it takes half a second away at most, and adds less than one.            *)
LEMMA Rounding ==
  ASSUME NEW t \in Nat
  PROVE  /\ WholeSeconds(t) \in Nat
         /\ WholeSeconds(t) = 0 <=> t = 0
         /\ WholeSeconds(t) * Second - t \in (-(Second \div 2))..(Second - 1)
<1> DEFINE h == Second \div 2
           q == (t + h) \div Second
           r == (t + h) % Second
<1>1. Second \in Nat \ {0} /\ h \in Nat /\ h <= Second - 1 /\ Second - 1 <= 2 * h
  BY AlarmAssumption
<1>2. ASSUME NEW n \in Nat, NEW b \in Nat \ {0}
      PROVE  n \div b \in Nat /\ n % b \in 0..(b - 1) /\ n = b * (n \div b) + (n % b)
  <2>1. n \div b \in Nat
    OBVIOUS
  <2>2. n % b \in 0..(b - 1)
    OBVIOUS
  <2>3. n = b * (n \div b) + (n % b)
    OBVIOUS
  <2> QED
    BY <2>1, <2>2, <2>3
<1>3. q \in Nat /\ r \in 0..(Second - 1) /\ t + h = Second * q + r
  <2> HIDE DEF h
  <2>1. t + h \in Nat
    BY <1>1
  <2> QED
    BY <1>1, <1>2, <2>1
<1> HIDE DEF h, q, r
<1>4. CASE t \in 1..(Second - 1)
  <2>1. WholeSeconds(t) = 1 /\ 1 * Second = Second
    BY <1>1, <1>4 DEF WholeSeconds
  <2> QED
    BY <1>1, <1>4, <2>1 DEF h
<1>5. CASE t \notin 1..(Second - 1)
  <2>1. WholeSeconds(t) = q
    BY <1>5 DEF WholeSeconds, q, h
  <2>2. q * Second \in Nat /\ q * Second = t + h - r
    <3>1. q * Second = Second * q
      BY <1>1, <1>3
    <3>2. t + h - r \in Int /\ t + h - r = Second * q
      BY <1>1, <1>3
    <3>3. q * Second >= 0
      BY <1>1, <1>3
    <3> QED
      BY <3>1, <3>2, <3>3
  <2>3. q * Second - t \in (-h)..(Second - 1)
    BY <1>1, <1>3, <2>2
  <2>4. t >= Second => q > 0
    <3>1. q = 0 => q * Second = 0
      BY <1>1
    <3> QED
      BY <1>1, <1>3, <2>2, <3>1
  <2>5. t = 0 => q = 0
    <3>1. q > 0 => q * Second >= Second
      BY <1>1, <1>3
    <3> QED
      BY <1>1, <1>3, <2>2, <3>1
  <2> QED
    BY <1>1, <1>3, <1>5, <2>1, <2>3, <2>4, <2>5 DEF h
<1> QED
  BY <1>4, <1>5

(* A whole phase has not drifted; one more key moves it on, or leaves it.  *)
LEMMA Drifts ==
  /\ \A k \in Nat : InDrift(5 * Second, k)
  /\ \A e \in Int, k \in Nat, d \in (-(Second \div 2))..(Second - 1) :
       InDrift(e, k) => InDrift(e + d, k + 1)
  /\ \A e \in Int, k \in Nat : InDrift(e, k) => InDrift(e, k + 1)
<1> DEFINE h == Second \div 2
           g == Second - 1
<1>1. Second \in Nat \ {0} /\ h \in Nat /\ g \in Nat
  BY AlarmAssumption
<1>2. \A e, k : InDrift(e, k) <=> 5 * Second - k * h <= e /\ e <= 5 * Second + k * g
  BY DEF InDrift
<1> HIDE DEF h, g
<1>3. \A k \in Nat : /\ k * h \in Nat /\ (k + 1) * h = k * h + h
                     /\ k * g \in Nat /\ (k + 1) * g = k * g + g
  BY <1>1
<1>4. \A k \in Nat : InDrift(5 * Second, k)
  BY <1>1, <1>2, <1>3
<1>5. ASSUME NEW e \in Int, NEW k \in Nat, NEW d \in (-h)..g, InDrift(e, k)
      PROVE  InDrift(e + d, k + 1)
  BY <1>1, <1>2, <1>3, <1>5
<1>6. ASSUME NEW e \in Int, NEW k \in Nat, InDrift(e, k)
      PROVE  InDrift(e, k + 1)
  BY <1>1, <1>2, <1>3, <1>6
<1> QED
  BY <1>4, <1>5, <1>6 DEF h, g

(* The first phase is still to come, or has its five seconds before it.    *)
LEMMA InitAlarm == Init => AlarmInv
<1> SUFFICES ASSUME Init PROVE AlarmInv
  OBVIOUS
<1>1. typed = 0 /\ (AlarmStarts(0) \/ AlarmStarts(1))
  BY DEF Init
<1>2. Second \in Nat \ {0} /\ InDrift(5 * Second, 0) /\ 5 * Second \in Nat
  BY Drifts, AlarmAssumption
<1>3. /\ leftTicks \in {0, 5 * Second} /\ phase \in {0, 1} /\ elapsed = 0
      /\ hpc = "off" /\ unslept_time = 0 /\ rung = FALSE
  BY <1>1 DEF AlarmStarts
<1>4. leftTicks > 0 => InDrift(elapsed + leftTicks, typed)
  <2>1. leftTicks > 0 => elapsed + leftTicks = 5 * Second
    BY <1>2, <1>3
  <2> QED
    BY <1>1, <1>2, <2>1
<1>5. typed \in Nat /\ phase \in 0..4 /\ leftTicks \in Nat /\ elapsed \in Nat /\ unslept_time \in Nat
  BY <1>1, <1>2, <1>3
<1> QED
  BY <1>3, <1>4, <1>5 DEF AlarmInv, AlarmTypes

(* What is typed at a shell is no key for naloga1.                         *)
LEMMA StepOthers ==
  ASSUME AlarmInv, UNCHANGED alarmVars, typed' \in {typed, typed + 1}
  PROVE  AlarmInv'
<1>1. AlarmTypes /\ AlarmTypes'
  BY DEF AlarmInv, AlarmTypes, alarmVars
<1> DEFINE e == elapsed + leftTicks
           u == elapsed + unslept_time * Second
<1>2. e \in Int /\ u \in Int /\ elapsed \in Int
  BY <1>1, AlarmAssumption DEF AlarmTypes
<1>3. e' = e /\ u' = u
  BY DEF alarmVars
<1>4. \A x \in Int : /\ InDrift(x, typed) => InDrift(x, typed')
                     /\ typed > 0 /\ InDrift(x, typed - 1) => InDrift(x, typed' - 1)
  BY <1>1, Drifts DEF AlarmTypes
<1> HIDE DEF e, u
<1> QED
  BY <1>1, <1>2, <1>3, <1>4 DEF AlarmInv, AlarmTypes, alarmVars, e, u

(* Ctrl+C, the clock, and the handlers (naloga1.c:8-33).                   *)
LEMMA StepAlarm ==
  ASSUME AlarmInv, CtrlC \/ AlarmRuns
  PROVE  AlarmInv'
<1>1. AlarmTypes /\ Second \in Nat \ {0}
  BY AlarmAssumption DEF AlarmInv
<1>2. CASE CtrlC
  <2>1. typed' = typed + 1 /\ typed + 1 \in Nat /\ typed' - 1 = typed
    BY <1>1, <1>2 DEF CtrlC, AlarmTypes
  <2>2. elapsed + leftTicks \in Int
    BY <1>1 DEF AlarmTypes
  <2>3. rung \/ leftTicks > 0 => /\ InDrift(elapsed + leftTicks, typed)
                                 /\ InDrift(elapsed + leftTicks, typed')
    <3>1. rung \/ leftTicks > 0 => InDrift(elapsed + leftTicks, typed)
      BY <1>2 DEF CtrlC, AlarmInv
    <3> QED
      BY <1>1, <2>1, <2>2, <3>1, Drifts DEF AlarmTypes
  <2>4. AlarmTypes'
    BY <1>1, <1>2, <2>1 DEF CtrlC, AlarmTypes
  <2> QED
    BY <1>1, <1>2, <2>1, <2>3, <2>4 DEF CtrlC, AlarmInv, AlarmTypes
<1>3. CASE AlarmTick
  <2>1. /\ leftTicks' = leftTicks - 1 /\ elapsed' = elapsed + 1 /\ leftTicks > 0
        /\ elapsed' + leftTicks' = elapsed + leftTicks
    BY <1>1, <1>3 DEF AlarmTick, AlarmTypes
  <2>2. AlarmTypes' /\ (rung' => leftTicks' = 0 /\ phase' \in 1..3)
    <3>1. leftTicks' \in Nat /\ elapsed' \in Nat /\ (leftTicks = 1 => leftTicks' = 0)
      BY <1>1, <2>1 DEF AlarmTypes
    <3>2. /\ rung' \in BOOLEAN /\ (rung' => leftTicks = 1)
          /\ phase' = phase /\ phase \in 1..3
          /\ UNCHANGED <<typed, hpc, unslept_time>>
      BY <1>3 DEF AlarmTick
    <3> QED
      BY <1>1, <3>1, <3>2 DEF AlarmTypes
  <2> QED
    BY <1>3, <2>1, <2>2 DEF AlarmTick, AlarmInv
<1>4. CASE StopAlarm
  <2> DEFINE w == WholeSeconds(leftTicks)
             d == w * Second - leftTicks
  <2>1. /\ w \in Nat /\ (w = 0 <=> leftTicks = 0) /\ w * Second \in Nat
        /\ d \in (-(Second \div 2))..(Second - 1)
    BY <1>1, Rounding DEF AlarmTypes
  <2>2. /\ unslept_time' = w /\ leftTicks' = 0 /\ hpc = "stop" /\ hpc' = "restart"
        /\ elapsed' = elapsed /\ rung' = rung /\ typed' = typed /\ phase' = phase
    BY <1>4 DEF StopAlarm
  <2> HIDE DEF w
  <2>3. AlarmTypes'
    BY <1>1, <2>1, <2>2 DEF AlarmTypes
  <2>4. typed - 1 \in Nat /\ (typed - 1) + 1 = typed /\ elapsed + leftTicks \in Int
    BY <1>1, <2>2 DEF AlarmInv, AlarmTypes
  <2>5. leftTicks > 0 => InDrift(elapsed' + unslept_time' * Second, typed')
    <3>1. leftTicks > 0 => InDrift(elapsed + leftTicks, typed - 1)
      BY <2>2 DEF AlarmInv
    <3>2. leftTicks > 0 => InDrift((elapsed + leftTicks) + d, typed)
      BY <2>1, <2>4, <3>1, Drifts
    <3>3. (elapsed + leftTicks) + d = elapsed + w * Second
      BY <1>1, <2>1 DEF AlarmTypes
    <3> QED
      BY <2>2, <3>2, <3>3
  <2>6. rung => unslept_time' = 0 /\ InDrift(elapsed', typed')
    <3>1. rung => leftTicks = 0 /\ InDrift(elapsed + leftTicks, typed - 1)
      BY <2>2 DEF AlarmInv
    <3>2. elapsed \in Int /\ (leftTicks = 0 => elapsed + leftTicks = elapsed)
      BY <1>1 DEF AlarmTypes
    <3>3. InDrift(elapsed, typed - 1) => InDrift(elapsed, typed)
      BY <2>4, <3>2, Drifts
    <3> QED
      BY <2>1, <2>2, <3>1, <3>2, <3>3
  <2>7. unslept_time' > 0 => leftTicks > 0
    BY <1>1, <2>1, <2>2 DEF AlarmTypes
  <2> QED
    BY <2>2, <2>3, <2>5, <2>6, <2>7 DEF AlarmInv
<1>5. CASE RestartAlarm
  <2>1. unslept_time * Second \in Nat /\ (unslept_time * Second > 0 => unslept_time > 0)
    BY <1>1 DEF AlarmTypes
  <2>2. AlarmTypes'
    BY <1>1, <1>5, <2>1 DEF RestartAlarm, AlarmTypes
  <2> QED
    BY <1>5, <2>1, <2>2 DEF RestartAlarm, AlarmInv
<1>6. CASE handle_alarm
  <2>1. /\ rung /\ rung' = FALSE /\ phase' = phase + 1 /\ elapsed' = 0
        /\ typed' = typed /\ unslept_time' = unslept_time
        /\ hpc' \in {"off", hpc} /\ leftTicks' \in {0, 5 * Second}
    BY <1>6 DEF handle_alarm
  <2>2. phase \in 1..3
    BY <2>1 DEF AlarmInv
  <2>3. AlarmTypes'
    <3>1. leftTicks' \in Nat /\ elapsed' \in Nat
      BY <1>1, <2>1
    <3>2. phase' \in 0..4
      BY <2>1, <2>2
    <3> QED
      BY <1>1, <2>1, <3>1, <3>2 DEF AlarmTypes
  <2>4. leftTicks' > 0 => elapsed' + leftTicks' = 5 * Second
    <3>1. 5 * Second \in Nat /\ 0 + 5 * Second = 5 * Second
      BY <1>1
    <3>2. leftTicks' = 0 \/ leftTicks' = 5 * Second
      BY <2>1
    <3> QED
      BY <2>1, <3>1, <3>2
  <2>5. \A k \in Nat : leftTicks' > 0 => InDrift(elapsed' + leftTicks', k)
    BY <2>4, Drifts
  <2>6. hpc = "stop" => typed > 0 /\ typed - 1 \in Nat
    BY <1>1 DEF AlarmInv, AlarmTypes
  <2>7. hpc = "restart" => unslept_time = 0
    BY <2>1 DEF AlarmInv
  <2>8. typed \in Nat
    BY <1>1 DEF AlarmTypes
  <2> QED
    BY <2>1, <2>3, <2>5, <2>6, <2>7, <2>8 DEF AlarmInv
<1> QED
  BY <1>2, <1>3, <1>4, <1>5, <1>6 DEF AlarmRuns

(* Whatever runs at the terminal keeps it.                                 *)
LEMMA StepDrift == AlarmInv /\ [Next]_vars => AlarmInv'
<1> SUFFICES ASSUME AlarmInv, [Next]_vars PROVE AlarmInv'
  OBVIOUS
<1>1. ASSUME NEW d \in DOMAIN chain, ShellRuns(d) \/ ShellTyped(d), UNCHANGED alarmVars
      PROVE  AlarmInv'
  <2>1. typed' \in {typed, typed + 1}
    BY <1>1 DEF ShellRuns, ShellTyped, ReadCommand, Fgets, TypeLine, ReadEnd, ChildExec,
                ProgramEnds, WaitChild
  <2> QED
    BY <1>1, <2>1, StepOthers
<1>2. ASSUME P1Command \/ P1End \/ P1Wait, UNCHANGED shellVars, UNCHANGED alarmVars
      PROVE  AlarmInv'
  <2>1. typed' \in {typed, typed + 1}
    BY <1>2 DEF P1Command, TypeLine, P1End, P1Wait
  <2> QED
    BY <1>2, <2>1, StepOthers
<1>3. ASSUME NEW n \in DOMAIN jobs, P2Step(n) \/ P3Step(n), UNCHANGED alarmVars
      PROVE  AlarmInv'
  <2>1. typed' = typed
    BY <1>3 DEF P2Step, P2Simple, P2Pipe, P2Exec, P2Wait, LeftWrites, LeftEnds,
                P3Step, P3Exec, RightReads, RightEnds, Becomes
  <2> QED
    BY <1>3, <2>1, StepOthers
<1>4. CASE Interrupt \/ Done \/ UNCHANGED vars
  <2>1. typed' = typed /\ UNCHANGED alarmVars
    BY <1>4 DEF Interrupt, Done, vars
  <2> QED
    BY <2>1, StepOthers
<1>5. CASE \E d \in 1..MaxProcesses : Runs(d)
  BY <1>1, <1>5 DEF Runs
<1>6. CASE \E n \in 1..MaxTyped : P2(n) \/ P3(n)
  BY <1>3, <1>6 DEF P2, P3
<1> QED
  BY <1>1, <1>2, <1>4, <1>5, <1>6, StepAlarm DEF Next

(* AlarmDrift, the safety half of PhasesEnd: the alarm of a phase rings    *)
(* after five seconds, but for less than a second for every Ctrl+C         *)
(* (naloga1.c:10-12).                                                      *)
THEOREM AlarmKeepsTime == Spec => []AlarmDrift
<1>1. AlarmInv => AlarmDrift
  <2> SUFFICES ASSUME AlarmInv, rung PROVE AlarmDrift
    BY DEF AlarmDrift
  <2>1. /\ elapsed \in Nat /\ typed \in Nat /\ leftTicks = 0
        /\ elapsed + leftTicks = elapsed
        /\ Second \in Nat \ {0}
    BY AlarmAssumption DEF AlarmInv, AlarmTypes
  <2>2. InDrift(elapsed, typed)
    <3>1. hpc = "stop" => typed - 1 \in Nat /\ InDrift(elapsed, typed - 1)
                            /\ (typed - 1) + 1 = typed
      BY <2>1 DEF AlarmInv
    <3>2. hpc = "stop" => InDrift(elapsed, typed)
      BY <2>1, <3>1, Drifts
    <3> QED
      BY <2>1, <3>2 DEF AlarmInv, AlarmTypes
  <2> DEFINE h == Second \div 2
             low == typed * h
             high == typed * (Second - 1)
  <2>3. h \in Nat /\ low \in Int /\ high \in Int
    <3>1. h \in Nat /\ Second - 1 \in Nat
      BY <2>1
    <3> HIDE DEF h
    <3> QED
      BY <2>1, <3>1
  <2>4. 5 * Second - low <= elapsed /\ elapsed <= 5 * Second + high
    BY <2>2 DEF InDrift
  <2>5. AlarmDrift <=> elapsed \in (5 * Second - low)..(5 * Second + high)
    BY DEF AlarmDrift
  <2> HIDE DEF low, high
  <2> QED
    BY <2>1, <2>3, <2>4, <2>5
<1> QED
  BY <1>1, InitAlarm, StepDrift, PTL DEF Spec
(* While naloga1 runs an alarm is set, or has been sent, or handle_sigint  *)
(* is about to set it again; unless the alarm rang inside alarm(0), and    *)
(* then the first phase ends with it, and no Ctrl+C is caught any more.    *)
Coming ==
  /\ late \in BOOLEAN /\ (hpc # "off" => phase \in 1..3)
  /\ late => hpc # "stop" /\ (phase >= 2 \/ (hpc = "restart" /\ rung))
  /\ hpc = "restart" /\ ~late => unslept_time > 0
  /\ hpc # "restart" /\ ~late /\ phase \in 1..3 => rung \/ leftTicks > 0

LEMMA StepComing == AlarmInv /\ Coming /\ [Next]_vars => Coming'
<1> SUFFICES ASSUME AlarmInv, Coming, [Next]_vars PROVE Coming'
  OBVIOUS
<1>1. AlarmTypes /\ Second \in Nat \ {0} /\ (rung => leftTicks = 0 /\ phase \in 1..3)
  BY AlarmAssumption DEF AlarmInv
<1>2. CASE UNCHANGED alarmVars
  BY <1>2 DEF Coming, alarmVars
<1>3. CASE CtrlC
  BY <1>1, <1>3 DEF CtrlC, Coming, AlarmTypes
<1>4. CASE AlarmTick
  <2>1. /\ phase \in 1..3 /\ leftTicks \in Nat /\ leftTicks > 0 /\ hpc # "restart"
        /\ phase' = phase /\ hpc' = hpc /\ late' = late /\ unslept_time' = unslept_time
        /\ leftTicks' = leftTicks - 1 /\ rung' = (leftTicks = 1)
    BY <1>1, <1>4 DEF AlarmTick, AlarmTypes
  <2>2. rung' \/ leftTicks' > 0
    <3>1. leftTicks = 1 \/ leftTicks - 1 > 0
      BY <2>1
    <3> QED
      BY <2>1, <3>1
  <2> QED
    BY <2>1, <2>2 DEF Coming
<1>5. CASE StopAlarm
  <2>1. leftTicks > 0 => WholeSeconds(leftTicks) > 0
    <3>1. WholeSeconds(leftTicks) \in Nat /\ (WholeSeconds(leftTicks) = 0 <=> leftTicks = 0)
      BY <1>1, Rounding DEF AlarmTypes
    <3> QED
      BY <1>1, <3>1 DEF AlarmTypes
  <2>2. /\ hpc = "stop" /\ hpc' = "restart" /\ unslept_time' = WholeSeconds(leftTicks)
        /\ late' = rung /\ rung' = rung /\ phase' = phase
    BY <1>5 DEF StopAlarm
  <2>3. ~late /\ phase \in 1..3 /\ (rung \/ leftTicks > 0) /\ rung \in BOOLEAN
    BY <1>1, <2>2 DEF Coming, AlarmTypes
  <2> QED
    BY <2>1, <2>2, <2>3 DEF Coming
<1>6. CASE RestartAlarm
  <2>1. /\ hpc = "restart" /\ ~rung /\ hpc' = "off" /\ leftTicks' = unslept_time * Second
        /\ phase' = phase /\ rung' = rung /\ late' = late
    BY <1>6 DEF RestartAlarm
  <2>2. ~late => leftTicks' > 0
    <3>1. ~late => unslept_time > 0
      BY <2>1 DEF Coming
    <3>2. \A k \in Nat : k > 0 => k * Second > 0
      BY <1>1
    <3> QED
      BY <1>1, <2>1, <3>1, <3>2 DEF AlarmTypes
  <2> QED
    BY <2>1, <2>2 DEF Coming
<1>7. CASE handle_alarm
  <2>1. /\ rung /\ phase \in 1..3 /\ phase' = phase + 1 /\ late' = late
        /\ unslept_time' = unslept_time
        /\ hpc' = (IF phase = 3 THEN "off" ELSE hpc)
        /\ leftTicks' = (IF phase = 3 THEN 0 ELSE 5 * Second)
    BY <1>1, <1>7 DEF handle_alarm
  <2>2. phase' >= 2 /\ (phase # 3 => phase' \in 1..3) /\ (phase' \in 1..3 => phase # 3)
    BY <2>1
  <2>3. phase # 3 => leftTicks' > 0
    BY <1>1, <2>1
  <2> QED
    BY <2>1, <2>2, <2>3 DEF Coming
<1>8. Next \/ UNCHANGED vars => \/ UNCHANGED alarmVars \/ CtrlC \/ AlarmRuns
  BY DEF Next, vars, Runs, P2, P3, Interrupt, Done
<1> QED
  BY <1>2, <1>3, <1>4, <1>5, <1>6, <1>7, <1>8 DEF AlarmRuns

(* Besides, as long as naloga1 runs there is an alarm to come, set, sent   *)
(* or about to be set again, with a second in it at least; unless it rang  *)
(* inside the call of naloga1.c:10.  What PhasesEnd adds is that time      *)
(* passes.                                                                 *)
THEOREM AnAlarmIsComing ==
  Spec => [](phase \in 1..3 /\ ~late =>
               rung \/ leftTicks > 0 \/ (hpc = "restart" /\ unslept_time > 0))
<1>1. Init => Coming
  <2> SUFFICES ASSUME Init PROVE Coming
    OBVIOUS
  <2>1. AlarmStarts(0) \/ AlarmStarts(1)
    BY DEF Init
  <2>2. 5 * Second > 0
    BY AlarmAssumption
  <2>3. /\ phase \in {0, 1} /\ leftTicks = (IF phase = 0 THEN 0 ELSE 5 * Second)
        /\ hpc = "off" /\ late = FALSE
    BY <2>1 DEF AlarmStarts
  <2>4. phase \in 1..3 => leftTicks > 0
    <3>1. PICK t \in Nat : t = 5 * Second /\ t > 0
      BY <2>2, AlarmAssumption
    <3> QED
      BY <2>3, <3>1
  <2>5. late \in BOOLEAN /\ ~late
    BY <2>3
  <2>6. hpc = "off" /\ hpc # "restart"
    BY <2>3
  <2> QED
    BY <2>4, <2>5, <2>6 DEF Coming
<1>2. Coming => (phase \in 1..3 /\ ~late =>
                   rung \/ leftTicks > 0 \/ (hpc = "restart" /\ unslept_time > 0))
  BY DEF Coming
<1> QED
  BY <1>1, <1>2, InitAlarm, StepDrift, StepComing, PTL DEF Spec
=============================================================================
