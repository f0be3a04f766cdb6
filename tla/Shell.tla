------------------------------- MODULE Shell -------------------------------
(***************************************************************************)
(* The shell of exercise 4.  The processes form a chain, each the parent   *)
(* of the next: a process has one child at a time and waits for it.  A     *)
(* child whose execvp fails does not exit: it goes on round the loop, as a *)
(* shell of its own.                                                       *)
(*                                                                         *)
(* The standard input is the terminal, or a script read from a file: the   *)
(* first fgets takes all of it into the buffer of stdio, and every process *)
(* forked later has a copy of that buffer and of the place in it.          *)
(***************************************************************************)
EXTENDS CommandLine

CONSTANTS
  Scripts,      (* the scripts it may be given                              *)
  MaxProcesses  (* fork fails when there are so many                        *)

ASSUME ShellAssumption ==
  /\ Scripts \subseteq Seq(Seq(Programs \cup {"nope", "=>", ""}) \ {<<>>})
  /\ MaxProcesses \in Nat \ {0}

VARIABLES
  chain,        (* the shell and its descendants                            *)
  script,       (* the lines of the script; none: input is the terminal     *)
  attempts      (* history: how often each line of it went to execvp        *)

shellVars == <<chain, script, attempts>>

Tty == script = <<>>
Started == [pc |-> "fgets", commandCounter |-> 0, input |-> <<>>, next |-> 1]

ShellStarts ==
  /\ chain = <<Started>>
  /\ script \in Scripts \cup {<<>>}
  /\ attempts = [i \in DOMAIN script |-> 0]

NoShell == chain = <<>> /\ script = <<>> /\ attempts = <<>>

(* Every space ends an argument, if only an empty one (the test for that   *)
(* is always true); the end of the line ends one that is not empty.        *)
parse(ws) == Front(ws) \o SelectSeq(<<Last(ws)>>, LAMBDA w : w # "")

Args(p) == IF p.commandCounter % 2 = 0 THEN parse(p.input) ELSE parse2(p.input)

Fgets(d, ws) ==
  IF Tty THEN TypeLine(ws)
  ELSE /\ chain[d].next \in DOMAIN script /\ ws = script[chain[d].next]
       /\ UNCHANGED typed

Read(p, ws) ==
  [p EXCEPT !.commandCounter = @ + 1, !.input = ws, !.next = @ + 1]

(* A mutation of Parent: the shell does not wait for the child.            *)
Parent_NoWait(p) == p

Parent(p) == [p EXCEPT !.pc = "wait"]

(* A mutation of Child: the counter is not inherited.                      *)
Child_FromZero(p) == [p EXCEPT !.pc = "child", !.commandCounter = 1]

Child(p) == [p EXCEPT !.pc = "child"]

(* One round of the loop to the fork and the counter after it.  When fork  *)
(* fails, wait(NULL) returns at once and the line is forgotten.            *)
ReadCommand(d) ==
  \E ws \in Lines \cup ToSet(script) :
    LET p == Read(chain[d], ws) IN
    /\ chain[d].pc = "fgets"
    /\ Fgets(d, ws)
    /\ chain' = IF Len(chain) < MaxProcesses
                THEN Append([chain EXCEPT ![d] = Parent(p)], Child(p))
                ELSE [chain EXCEPT ![d] = p]
    /\ UNCHANGED <<script, attempts>>

(* Ctrl+D, or the end of the script.                                       *)
ReadEnd(d) ==
  /\ chain[d].pc = "fgets"
  /\ Tty \/ chain[d].next > Len(script)
  /\ chain' = [chain EXCEPT ![d].pc = "zombie"]
  /\ UNCHANGED <<typed, script, attempts>>

ChildExec(d) ==
  /\ chain[d].pc = "child"
  /\ chain' = [chain EXCEPT ![d].pc =
       CASE Execvp(Args(chain[d])) = "crash"   -> "zombie"
         [] Execvp(Args(chain[d])) = "command" -> "command"
         [] OTHER                              -> "fgets"]
  /\ attempts' = IF Tty THEN attempts
                 ELSE [attempts EXCEPT ![chain[d].next - 1] = @ + 1]
  /\ UNCHANGED <<typed, script>>

(* The program ends; one that reads the terminal does on Ctrl+D.           *)
ProgramEnds(d) ==
  /\ chain[d].pc = "command"
  /\ chain' = [chain EXCEPT ![d].pc = "zombie"]
  /\ UNCHANGED <<typed, script, attempts>>

WaitChild(d) ==
  /\ chain[d].pc = "wait"
  /\ chain[d + 1].pc = "zombie"
  /\ chain' = [Front(chain) EXCEPT ![d].pc = "fgets"]
  /\ UNCHANGED <<typed, script, attempts>>

(* What the processes do by themselves, and what somebody has to type.     *)
ShellRuns(d) ==
  \/ ChildExec(d) \/ ProgramEnds(d) \/ WaitChild(d)
  \/ ~Tty /\ (ReadCommand(d) \/ ReadEnd(d))
ShellTyped(d) == Tty /\ (ReadCommand(d) \/ ReadEnd(d))
=============================================================================
