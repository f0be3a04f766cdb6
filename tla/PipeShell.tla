----------------------------- MODULE PipeShell -----------------------------
(***************************************************************************)
(* The shell of exercise 5.  P1 reads lines and forks P2 for each; for     *)
(* "left => right" P2 makes a pipe, forks P3 for the right side and        *)
(* becomes the left side.  P1 waits for P2 alone, so P3 may outlive the    *)
(* line it belongs to: jobs has the processes of every line so far.        *)
(***************************************************************************)
EXTENDS CommandLine

CONSTANTS
  PipeCap,   (* the pieces a pipe holds                                     *)
  Output     (* the pieces ls writes                                        *)

ASSUME PipeAssumption == PipeCap \in Nat \ {0} /\ Output \in Nat

VARIABLES
  p1,     (* P1: at fgets, waiting, ended                                   *)
  jobs    (* for every line its sides, P2, P3 and the pipe: what is in it,  *)
          (* who has its writing and its reading end, what ls has to write  *)

pipeVars == <<p1, jobs>>

(* split cuts at the first " => ", which has a space on both sides.        *)
Cuts(ws)  == {i \in 2..(Len(ws) - 1) : ws[i] = "=>"}
left(ws)  == IF Cuts(ws) = {} THEN ws ELSE SubSeq(ws, 1, Min(Cuts(ws)) - 1)
right(ws) ==
  IF Cuts(ws) = {} THEN <<"">> ELSE SubSeq(ws, Min(Cuts(ws)) + 1, Len(ws))

Job(ws) ==
  [left |-> left(ws), right |-> right(ws), p2 |-> "child", p3 |-> "none",
   pipe |-> 0, writers |-> {}, readers |-> {}, toWrite |-> Output]

(* P2 or P3 has gone: its ends of the pipe are closed, and init buries P3  *)
(* when nobody else will.                                                  *)
P2Ends(j) == [j EXCEPT !.p2 = "zombie",
                       !.p3 = IF @ = "zombie" THEN "none" ELSE @,
                       !.writers = @ \ {"P2"}, !.readers = @ \ {"P2"}]
P3Ends(j) == [j EXCEPT !.p3 = IF j.p2 \in {"zombie", "gone"} THEN "none"
                                ELSE "zombie",
                       !.writers = @ \ {"P3"}, !.readers = @ \ {"P3"}]

-----------------------------------------------------------------------------
(* P1 *)

(* A failed fork is reported, and the line forgotten.                      *)
P1Command ==
  /\ p1 = "fgets"
  /\ \E ws \in Lines :
       /\ TypeLine(ws)
       /\ \/ jobs' = Append(jobs, Job(ws)) /\ p1' = "wait"
          \/ UNCHANGED pipeVars

P1End == p1 = "fgets" /\ p1' = "ended" /\ UNCHANGED <<typed, jobs>>

P1Wait ==
  /\ p1 = "wait" /\ Last(jobs).p2 = "zombie"
  /\ p1' = "fgets"
  /\ jobs' = [jobs EXCEPT ![Len(jobs)].p2 = "gone"]
  /\ UNCHANGED typed

-----------------------------------------------------------------------------
(* P2 and P3 of line n *)

Becomes(n, j) == jobs' = [jobs EXCEPT ![n] = j] /\ UNCHANGED <<typed, p1>>

(* A simple command has nothing to the right; whether or not there is such *)
(* a program, P2 never comes back.                                         *)
P2Simple(n) ==
  /\ jobs[n].p2 = "child" /\ jobs[n].right = <<"">>
  /\ Becomes(n, IF Execvp(parse2(jobs[n].left)) = "command"
             THEN [jobs[n] EXCEPT !.p2 = "command"] ELSE P2Ends(jobs[n]))

(* pipe and fork, each of which may fail.                                  *)
P2Pipe(n) ==
  /\ jobs[n].p2 = "child" /\ jobs[n].right # <<"">>
  /\ \/ Becomes(n, [jobs[n] EXCEPT !.p2 = "forked", !.p3 = "child",
                   !.writers = {"P2", "P3"}, !.readers = {"P2", "P3"}])
     \/ Becomes(n, P2Ends(jobs[n]))

Closed_Forgotten(j) == j   (* a mutation of Closed: close(fd[1]) is missing *)

(* P3 closes its writing end.                                              *)
Closed(j) == [j EXCEPT !.writers = @ \ {"P3"}]

(* P3: the pipe becomes the standard input.                                *)
P3Exec(n) ==
  /\ jobs[n].p3 = "child"
  /\ Becomes(n, IF Execvp(parse2(jobs[n].right)) = "command"
             THEN [Closed(jobs[n]) EXCEPT !.p3 = "command"]
             ELSE P3Ends(jobs[n]))

(* P2: the pipe becomes the standard output.  When there is no program for *)
(* it, P2 waits for P3 and keeps this end of the pipe open.                *)
P2Exec(n) ==
  LET j == [jobs[n] EXCEPT !.readers = @ \ {"P2"}] IN
  /\ jobs[n].p2 = "forked"
  /\ Becomes(n, CASE Execvp(parse2(j.left)) = "command" -> [j EXCEPT !.p2 = "command"]
               [] Execvp(parse2(j.left)) = "failed"  -> [j EXCEPT !.p2 = "wait"]
               [] OTHER                              -> P2Ends(j))

P2Wait(n) ==
  /\ jobs[n].p2 = "wait" /\ jobs[n].p3 = "zombie"
  /\ Becomes(n, P2Ends(jobs[n]))

Piped(n) == jobs[n].right # <<"">>
Writes(n) ==
  parse2(jobs[n].left)[1] = "ls" /\ Piped(n) /\ jobs[n].toWrite > 0

(* ls with its output in the pipe writes, waits while the pipe is full,    *)
(* and dies of SIGPIPE when nobody can read it.                            *)
LeftWrites(n) ==
  /\ jobs[n].p2 = "command" /\ Writes(n)
  /\ IF jobs[n].readers = {} THEN Becomes(n, P2Ends(jobs[n]))
     ELSE /\ jobs[n].pipe < PipeCap
          /\ Becomes(n, [jobs[n] EXCEPT !.pipe = @ + 1, !.toWrite = @ - 1])

(* The left side, or a simple command, ends; one that reads the terminal   *)
(* does on Ctrl+D.                                                         *)
LeftEnds(n) ==
  /\ jobs[n].p2 = "command" /\ ~Writes(n)
  /\ Becomes(n, P2Ends(jobs[n]))

AtEnd(n) == jobs[n].pipe = 0 /\ jobs[n].writers = {}

Right(n) == parse2(jobs[n].right)[1]

RightReads(n) ==
  /\ jobs[n].p3 = "command" /\ Right(n) = "cat" /\ jobs[n].pipe > 0
  /\ Becomes(n, [jobs[n] EXCEPT !.pipe = @ - 1])

(* cat ends at the end of the input, head when it has a piece or there is  *)
(* none, ls as it likes.                                                   *)
RightEnds(n) ==
  /\ jobs[n].p3 = "command"
  /\ CASE Right(n) = "cat"  -> AtEnd(n)
       [] Right(n) = "head" -> AtEnd(n) \/ jobs[n].pipe > 0
       [] OTHER                             -> TRUE
  /\ Becomes(n, P3Ends(jobs[n]))

P2Step(n) ==
  \/ P2Simple(n) \/ P2Pipe(n) \/ P2Exec(n) \/ P2Wait(n)
  \/ LeftWrites(n) \/ LeftEnds(n)
P3Step(n) == P3Exec(n) \/ RightReads(n) \/ RightEnds(n)
=============================================================================
