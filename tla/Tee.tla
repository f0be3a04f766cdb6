-------------------------------- MODULE Tee --------------------------------
(***************************************************************************)
(* tee1 of exercise 1: what is typed goes into a file, a line with every   *)
(* read, and to the screen.  The screen is left out: printf is given a     *)
(* buffer that nothing ends with a zero, so that after a shorter line the  *)
(* end of a longer one may appear again.                                   *)
(***************************************************************************)
EXTENDS Directory

CONSTANT
  WildModes   (* what may lie where open looks for a mode                   *)

CreateMode == {"S_IRUSR", "S_IWUSR", "S_IRGRP", "S_IROTH"}

(* Without -a the file is emptied at once, or made with 0644.  With -a a   *)
(* file that is made gets a mode nobody has passed.                        *)
TeeOpen(p, name, a) ==
  LET i == Follow(name) IN
  /\ Writable(i)
  /\ Goto(p, "idle", [Idle EXCEPT !.pc = IF a THEN "tee_a" ELSE "tee",
                        !.left = MaxTyped, !.old = IF i = 0 THEN FreeInode ELSE i])
  /\ IF i # 0 THEN disk' = IF a THEN disk ELSE Emptied(i)
     ELSE \E mode \in IF a THEN WildModes ELSE {CreateMode} : disk' = Created(name, mode)

(* Without -a the lines go where this process is, whatever others have     *)
(* written there, or taken away.                                           *)
TeeLine(p) ==
  LET r == proc[p] IN
  /\ r.left > 0
  /\ \/ /\ Goto(p, "tee_a", [r EXCEPT !.left = @ - 1])
        /\ disk' = Written(r.old, Line(p))
     \/ /\ Goto(p, "tee", [r EXCEPT !.left = @ - 1, !.pos = @ + Len(Line(p))])
        /\ disk' = Overwritten(r.old, r.pos, Line(p))

TeeEnd(p) ==
  /\ Goto(p, "tee", Idle) \/ Goto(p, "tee_a", Idle)
  /\ UNCHANGED disk

TeeStarts(p) == \E name \in Names, a \in BOOLEAN : TeeOpen(p, name, a)
TeeStep(p) == TeeLine(p) \/ TeeEnd(p)
=============================================================================
