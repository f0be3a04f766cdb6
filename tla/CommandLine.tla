---------------------------- MODULE CommandLine ----------------------------
(***************************************************************************)
(* What the shells of exercises 4 and 5 have in common: the person at the  *)
(* terminal, the programs they can name, and the cutting of a line into    *)
(* arguments.  A line is the sequence of its words, one space between any  *)
(* two; the word "" stands between two spaces, or beside one at an end.    *)
(***************************************************************************)
EXTENDS Integers, Sequences, SequencesExt, FiniteSetsExt

CONSTANTS
  Lines,        (* the lines a person may type                              *)
  MaxTyped      (* how many lines, or Ctrl+C in AlarmPhases, are typed       *)

(* The programs there are: ls writes and ends; cat reads its standard      *)
(* input to the end; head reads one piece of it.  Other words name none.   *)
Programs == {"ls", "cat", "head"}

ASSUME CommandLineAssumption ==
  /\ Lines \subseteq Seq(Programs \cup {"nope", "=>", ""}) /\ <<>> \notin Lines
  /\ MaxTyped \in Nat

VARIABLE typed   (* how many have been typed so far                        *)

TypeLine(ws) ==
  /\ typed < MaxTyped /\ typed' = typed + 1
  /\ ws \in Lines

(* strtok on " ": the words that are not empty.                            *)
parse2(ws) == SelectSeq(ws, LAMBDA w : w # "")

(* execvp: without a first argument it follows a NULL pointer.             *)
Execvp(args) ==
  IF args = <<>> THEN "crash"
  ELSE IF Head(args) \in Programs THEN "command" ELSE "failed"

(* A mutation of AfterSigint: the shell ignores SIGINT, and so does all    *)
(* that it starts.                                                         *)
AfterSigint_Ignored(pc) == pc

(* Ctrl+C sends SIGINT to the shell and to all its descendants.  A handler *)
(* stays with a fork and prints; execvp puts the default action back, and  *)
(* a program dies of it.  Handlers set by signal restart fgets and wait.   *)
AfterSigint(pc) == IF pc = "command" THEN "zombie" ELSE pc
=============================================================================
