----------------------------- MODULE EditedFile -----------------------------
(***************************************************************************)
(* What the file programs promise of one file: every edit happens at one   *)
(* moment and as a whole.  Once two programs that write have got into each *)
(* other's way nothing is promised any more.                               *)
(***************************************************************************)
EXTENDS Integers, Sequences

CONSTANTS
  Bytes,
  Typed,    (* the lines that may be typed, sequences of bytes              *)
  Bits, Umask, Octals

VARIABLES
  text,     (* its bytes                                                    *)
  mode,     (* its mode                                                     *)
  chaos     (* nothing is promised any more                                 *)

Init == text \in Seq(Bytes) /\ ~chaos /\ mode \subseteq Bits

(* A line may end with byte i, and the next one start after it.            *)
IsEnd(i) == i \in {0, Len(text)} \/ text[i] = "LF"

UpTo(i) == SubSeq(text, 1, i)
Rest(i) == SubSeq(text, i + 1, Len(text))

(* What a write leaves of a mode.                                          *)
Unprivileged(m) ==
  m \ ({"S_ISUID"} \cup IF "S_IXGRP" \in m THEN {"S_ISGID"} ELSE {})

(* kamned -a and tee1: a line at the end; tee1 without -a: all bytes go.   *)
Add ==
  /\ text' = <<>> \/ \E x \in Typed : text' = text \o x
  /\ mode' = Unprivileged(mode)

(* -d and -i: one line goes, or comes; beyond the end, none or the last.   *)
Rewrite ==
  /\ \/ text' = text
     \/ \E i, j \in 0..Len(text) :
          /\ IsEnd(i) /\ IsEnd(j) /\ \A k \in (i + 1)..(j - 1) : ~IsEnd(k)
          /\ text' = UpTo(i) \o Rest(j)
     \/ \E i \in 0..Len(text), x \in Typed :
          IsEnd(i) /\ text' = UpTo(i) \o x \o Rest(i)
  /\ mode' \in {mode \ Umask, Unprivileged(mode \ Umask)}

(* mojChmod: one bit, or all of them.                                      *)
SetMode ==
  /\ UNCHANGED text
  /\ \/ \E bit \in {"S_ISUID", "S_ISGID"} : mode' \in {mode \cup {bit}, mode \ {bit}}
     \/ mode' \in Octals

Next ==
  \/ ~chaos /\ chaos' = chaos /\ (Add \/ Rewrite \/ SetMode)
  \/ chaos'

Spec == Init /\ [][Next]_<<text, mode, chaos>>
=============================================================================
