----------------------------- MODULE FileTools -----------------------------
(***************************************************************************)
(* The programs of exercises 1 to 3 at work in one directory: a file f, a  *)
(* link l to it, and new_file, which the editor makes.  A process runs one *)
(* program after another, and may be killed at any moment.                 *)
(***************************************************************************)
EXTENDS LineEditor, ModeChanger, LastLines, Tee

CONSTANTS
  Texts,      (* the bytes of f at first                                    *)
  Modes,      (* and its mode                                               *)
  MaxRuns, MaxKills

(* A text may be any bytes; a mode, also one that nobody has passed, is    *)
(* made of the twelve bits there are.                                      *)
ASSUME FilesAssumption ==
  /\ IsFiniteSet(Procs) /\ MaxTyped \in Nat
  /\ Numbers \subseteq Int /\ Counts \subseteq Int
  /\ Modes \cup WildModes \cup Octals \subseteq SUBSET Bits
  /\ \A text \in Texts : text \in Seq(ToSet(text))
  /\ Chunk \in Nat \ {0}

VARIABLES
  runs, kills,   (* the programs started, and killed, so far                *)
  disturbed      (* history: see Disturbs                                   *)

vars == <<disk, proc, printed, shown, runs, kills, disturbed>>

NoRow == [mode |-> {}, text |-> <<"none">>]

Init ==
  /\ \E text \in Texts, mode \in Modes :
       disk = [entry |-> [x \in Names |-> CASE x = "f" -> 1 [] x = "l" -> 2 [] OTHER -> 0],
               inode |-> [i \in Inodes |-> CASE i = 1 -> File(text, mode)
                            [] i = 2 -> Link("f") [] OTHER -> File(<<>>, {})]]
  /\ proc = [p \in Procs |-> Idle]
  /\ printed = [p \in Procs |-> NoRow] /\ shown = [p \in Procs |-> Nothing]
  /\ runs = 0 /\ kills = 0 /\ disturbed = FALSE

Kill(p) ==
  /\ proc[p].pc # "idle" /\ kills < MaxKills
  /\ kills' = kills + 1 /\ proc' = [proc EXCEPT ![p] = Idle] /\ Forget(p)
  /\ UNCHANGED <<disk, printed, runs, disturbed>>

Writing(r) == r.pc \notin {"idle", "scan", "closeRep", "list"}

(* A program gets into the way of another one that writes, or of what a    *)
(* killed one has left: no f, or a new_file with the mode of another file, *)
(* which O_TRUNC keeps.  And mojChmod takes the mode of a link for that of *)
(* the file it leads to.                                                   *)
Disturbs(r, others) ==
  /\ Writing(r)
  /\ \/ \E o \in others : Writing(o)
     \/ disk.entry["f"] = 0
     \/ r.pc = "openNew" /\ disk.entry["new_file"] # 0 /\
        Unprivileged(disk.inode[disk.entry["new_file"]].mode)
          # Unprivileged(r.mode \ Umask)
     \/ r.pc = "chmod" /\ r.text = <<"l">>

Start(p) ==
  /\ runs < MaxRuns /\ runs' = runs + 1
  /\ \/ (EditorStarts(p) \/ ModeStarts(p) \/ TeeStarts(p)) /\ UNCHANGED shown
     \/ RepStarts(p)
  /\ printed' = [printed EXCEPT ![p] = NoRow]
  /\ disturbed' = (disturbed \/ Disturbs(proc'[p], {proc[q] : q \in Procs \ {p}}))
  /\ UNCHANGED kills

Step(p) ==
  /\ \/ EditorStep(p) /\ UNCHANGED <<printed, shown>>
     \/ ModeStep(p) /\ UNCHANGED shown
     \/ RepStep(p) /\ UNCHANGED printed
     \/ TeeStep(p) /\ UNCHANGED <<printed, shown>>
  /\ UNCHANGED <<runs, kills, disturbed>>

Done == runs = MaxRuns /\ (\A p \in Procs : proc[p] = Idle) /\ UNCHANGED vars

Next == (\E p \in Procs : Start(p) \/ Step(p) \/ Kill(p)) \/ Done

Spec == Init /\ [][Next]_vars

-----------------------------------------------------------------------------
(* Properties *)

(* What there is of f: between unlink and rename (kamned.c:70-71) only     *)
(* new_file, which is complete by then.                                    *)
Whereabouts ==
  disk.inode[IF disk.entry["f"] # 0 THEN disk.entry["f"]
             ELSE IF disk.entry["new_file"] # 0 THEN disk.entry["new_file"] ELSE 1]

(* As long as no two programs that write get into each other's way, every  *)
(* edit of f and every change of its mode happens as a whole or not at     *)
(* all, killed programs and the new_file they leave behind included; the   *)
(* moment of an edit is the unlink.                                        *)
Promise ==
  INSTANCE EditedFile
    WITH Bytes <- Procs \cup {"LF", "NUL"} \cup UNION {ToSet(t) : t \in Texts},
         Typed <- {Line(p) : p \in Procs},
         text <- Whereabouts.text, mode <- Whereabouts.mode, chaos <- disturbed
FileSpec == Promise!Spec

(* What rep has printed when it comes to its end, of a file that has only  *)
(* grown since it was opened.  It stops at the n-th newline from the end,  *)
(* the last byte being the first it meets: that is a line less than asked  *)
(* for, unless the last line has no newline.  When there are not so many,  *)
(* it has come to the beginning, lseek fails, and it counts on forwards    *)
(* (rep.c:44) from the second byte.                                        *)
RepShows ==
  \A p \in Procs :
    LET s    == shown[p]
        size == Len(s.before)
        met  == Newlines(s.before, 1, size)
    IN proc[p].pc = "closeRep" /\ s # Nothing =>
         \E q \in 0..Len(s.seen) :
           /\ s.out = SubSeq(s.seen, q + 1, Len(s.seen))
           /\ s.n <= 0 => q = size
           /\ s.n > 0 =>
                /\ q > 0 /\ s.seen[q] = "LF"
                /\ IF s.n <= met
                     THEN q <= size /\ Newlines(s.before, q, size) = s.n
                     ELSE Newlines(s.seen, IF size = 0 THEN 1 ELSE 2, q) = s.n - met

(* README.md:7 of exercise 1: rep "izpise zadnjih n vrstic", prints the    *)
(* last n lines, of a file that nobody changes.                            *)
RepPrintsAsAsked ==
  \A p \in Procs :
    LET s     == shown[p]
        text  == s.before
        lines == Newlines(text, 1, Len(text))
                   + (IF text = <<>> \/ Last(text) = "LF" THEN 0 ELSE 1)
    IN proc[p].pc = "closeRep" /\ s.seen = text /\ s.n >= 0 =>
         s.out = From(text, lines - s.n + 1)

(* Two rows with the same nine letters stand for the same mode, except for *)
(* the sticky bit, and for an x below an s (mojChmod.c:97, list.c:67).     *)
RowsTell ==
  \A p, q \in Procs :
    LET m == printed[p].mode
        k == printed[q].mode
    IN Tail(printed[p].text) = Tail(printed[q].text) =>
         (m \ k) \subseteq {"S_ISVTX"}
           \cup (IF "S_ISUID" \in m \cap k THEN {"S_IXUSR"} ELSE {})
           \cup (IF "S_ISGID" \in m \cap k THEN {"S_IXGRP"} ELSE {})
=============================================================================
