------------------------------- MODULE Shells -------------------------------
(***************************************************************************)
(* A person at a terminal with the shell of exercise 4, fed by hand or by  *)
(* a script, or the one of exercise 5, or the program of that exercise     *)
(* that catches Ctrl+C.  Keys are Ctrl+C, at any time, and Ctrl+D,         *)
(* whenever something reads the terminal.                                  *)
(***************************************************************************)
EXTENDS Shell, PipeShell, AlarmPhases

vars == <<typed, shellVars, pipeVars, alarmVars>>

Init ==
  /\ typed = 0 /\ jobs = <<>>
  /\ \/ ShellStarts /\ p1 = "ended" /\ AlarmStarts(0)
     \/ NoShell /\ p1 = "fgets" /\ AlarmStarts(0)
     \/ NoShell /\ p1 = "ended" /\ AlarmStarts(1)

(* Ctrl+C while some program runs in either shell; at other times only    *)
(* handlers run, and print.                                                *)
Interrupt ==
  /\ chain' = [d \in DOMAIN chain |-> [chain[d] EXCEPT !.pc = AfterSigint(@)]]
  /\ jobs' = [n \in DOMAIN jobs |->
       LET j  == jobs[n]
           j3 == IF AfterSigint(j.p3) # j.p3 THEN P3Ends(j) ELSE j
       IN IF AfterSigint(j.p2) # j.p2 THEN P2Ends(j3) ELSE j3]
  /\ \/ \E d \in DOMAIN chain : chain[d].pc = "command"
     \/ \E n \in DOMAIN jobs : "command" \in {jobs[n].p2, jobs[n].p3}
  /\ UNCHANGED <<typed, script, attempts, p1, alarmVars>>

(* The right side of line n waits for input that P2 alone could write,     *)
(* which waits for the right side to end.                                  *)
Hung(n) ==
  /\ jobs[n].p2 = "wait" /\ jobs[n].p3 = "command"
  /\ jobs[n].pipe = 0 /\ jobs[n].writers = {"P2"} /\ Right(n) # "ls"

ShellLeft ==
  IF chain = <<>> THEN p1 = "ended" ELSE chain[1].pc = "zombie"

Over(n) == jobs[n].p2 = "gone" /\ jobs[n].p3 = "none"

AlarmOver == phase \in {0, 4} \/ (leftTicks = 0 /\ ~rung /\ hpc = "off")

Done ==
  /\ ShellLeft /\ (\A n \in DOMAIN jobs : Over(n)) /\ AlarmOver
  /\ UNCHANGED vars

Runs(d) == d \in DOMAIN chain /\ ShellRuns(d) /\ UNCHANGED <<pipeVars, alarmVars>>
P2(n)   == n \in DOMAIN jobs /\ P2Step(n) /\ UNCHANGED <<shellVars, alarmVars>>
P3(n)   == n \in DOMAIN jobs /\ P3Step(n) /\ UNCHANGED <<shellVars, alarmVars>>

Next ==
  \/ \E d \in DOMAIN chain : ShellTyped(d) /\ UNCHANGED <<pipeVars, alarmVars>>
  \/ \E d \in 1..MaxProcesses : Runs(d)
  \/ (P1Command \/ P1End \/ P1Wait) /\ UNCHANGED <<shellVars, alarmVars>>
  \/ \E n \in 1..MaxTyped : P2(n) \/ P3(n)
  \/ (CtrlC \/ AlarmRuns) /\ UNCHANGED <<shellVars, pipeVars>>
  \/ Interrupt \/ Done

(* The kernel runs every process; nobody has to type.  A program that      *)
(* waits for the terminal gets its Ctrl+D one day, and a hung pipe its     *)
(* Ctrl+C.                                                                 *)
Fairness ==
  /\ \A d \in 1..MaxProcesses : WF_vars(Runs(d))
  /\ WF_vars(P1Wait /\ UNCHANGED <<shellVars, alarmVars>>)
  /\ WF_vars(AlarmRuns /\ UNCHANGED <<shellVars, pipeVars>>)
  /\ \A n \in 1..MaxTyped : WF_vars(P2(n)) /\ WF_vars(P3(n))
  /\ WF_vars((\E n \in DOMAIN jobs : Hung(n)) /\ Interrupt)

Spec == Init /\ [][Next]_vars /\ Fairness

-----------------------------------------------------------------------------
(* Properties *)

(* Who may read the terminal: the shells at their prompt, and what they    *)
(* have started with it as standard input.                                 *)
TerminalReaders ==
  {<<"shell", d>> : d \in {e \in DOMAIN chain :
                             chain[e].pc \in {"fgets", "command"}}}
  \cup {<<"P1", 0>> : x \in {"fgets"} \cap {p1}}
  \cup {<<"P2", n>> : n \in {m \in DOMAIN jobs : jobs[m].p2 = "command"}}

(* However many shells unknown commands have left behind (shell.c:45), and *)
(* whatever outlives its line in a pipe (shell2.c:84), what is typed has   *)
(* one reader: nothing tears it apart.                                     *)
OneReader == Cardinality(TerminalReaders) <= 1

(* A command that is not there makes one more shell, which reads the rest  *)
(* of the script from its copy of the buffer before its parent does: when  *)
(* the script is done, every line has run once for every outcome of the    *)
(* unknown ones before it, unless a fork failed.  Which lines are unknown  *)
(* depends on their place (shell.c:39): the even ones go through parse, so *)
(* that " ls" is unknown there and known elsewhere.  The exercise asks for *)
(* the contrary: that is ParsesAsAsked.                                    *)
Unknown(i) ==
  Execvp(IF i % 2 = 0 THEN parse(script[i]) ELSE parse2(script[i])) = "failed"

UnknownRunsRestTwice ==
  LET unknowns(n) == Cardinality({i \in 1..n : Unknown(i)}) IN
  \A i \in DOMAIN script :
    /\ attempts[i] <= 2 ^ unknowns(i - 1)
    /\ chain[1].pc = "zombie" /\ unknowns(Len(script) - 1) + 1 < MaxProcesses
         => attempts[i] = 2 ^ unknowns(i - 1)

(* README.md:8 of exercise 4: "parse za lihe ukaze po vrsti, strtok pa za  *)
(* sode", parse for the odd commands and strtok for the even.  shell.c:36  *)
(* counts before line 39 compares, and has it the other way round.         *)
ParsesAsAsked ==
  \A d \in DOMAIN chain :
    chain[d].pc = "child" =>
      Args(chain[d]) = IF chain[d].commandCounter % 2 = 1 THEN parse(chain[d].input)
                       ELSE parse2(chain[d].input)

(* Every line comes to its end, on both sides of its pipe, though P1 waits *)
(* for P2 alone (shell2.c:84): nobody is left with an end of the pipe open *)
(* (shell2.c:61, 71), and only a pipe whose left side has no program needs *)
(* a Ctrl+C for it.                                                        *)
PipesEnd ==
  /\ \A n \in 1..MaxTyped :
       [](n \in DOMAIN jobs /\ Hung(n) => Execvp(parse2(jobs[n].left)) = "failed")
  /\ \A n \in 1..MaxTyped :
       (n \in DOMAIN jobs) ~> (n \in DOMAIN jobs /\ Over(n))

(* Each Ctrl+C moves the alarm by less than a second, for the handler      *)
(* starts it again with the whole seconds alarm(0) has returned            *)
(* (naloga1.c:10-12), late or not: a phase of five seconds ends after five *)
(* seconds, give or take what the keys may add up to.                      *)
AlarmDrift ==
  rung => elapsed \in (5 * Second - typed * (Second \div 2))
                        ..(5 * Second + typed * (Second - 1))

(* Besides, naloga1 comes to its end: unless the alarm has rung inside the *)
(* call of naloga1.c:10, for then line 12 stops the next alarm, and        *)
(* nothing comes any more.                                                 *)
PhasesEnd == []AlarmDrift /\ <>(phase \in {0, 4} \/ late)

(* No line keeps a shell from its prompt for ever: every child is waited   *)
(* for, and Ctrl+C gets the shell out of a pipe that hangs.                *)
PromptReturns ==
  []<>(\/ \E d \in DOMAIN chain : chain[d].pc = "fgets"
       \/ p1 = "fgets" \/ ShellLeft)
=============================================================================
