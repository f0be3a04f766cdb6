----------------------------- MODULE LastLines -----------------------------
(***************************************************************************)
(* rep of exercise 1, which prints the end of a file: it reads backwards,  *)
(* a byte at a time, until it has seen n newlines, and prints from there.  *)
(***************************************************************************)
EXTENDS Directory

CONSTANTS
  Counts,   (* the numbers of lines asked for                               *)
  Chunk     (* the bytes of a read that prints, 32 in the program           *)

VARIABLE shown    (* history: what each process has printed, and what of:   *)
                  (* n, and the file when it was opened and when it was     *)
                  (* read last; nothing once it did more than grow          *)

Nothing == [out |-> <<>>, n |-> 0, before |-> <<>>, seen |-> <<"none">>]

Forget(p) == shown' = [shown EXCEPT ![p] = Nothing]

(* p reads its file, and prints some of what it finds.                     *)
Look(p, out) ==
  LET s   == shown[p]
      now == disk.inode[proc[p].old].text
  IN shown' = [shown EXCEPT ![p] =
       IF s # Nothing /\ IsPrefix(s.seen, now)
       THEN [s EXCEPT !.out = @ \o out, !.seen = now] ELSE Nothing]

RepOpen(p, name, n) ==
  LET text == disk.inode[Follow(name)].text IN
  /\ Readable(Follow(name))
  /\ Goto(p, "idle",
       [Idle EXCEPT !.pc = "scan", !.old = Follow(name), !.left = n,
                    !.offset = Len(text) - 1, !.pos = Len(text)])
  /\ shown' = [shown EXCEPT ![p] =
       [out |-> <<>>, n |-> n, before |-> text, seen |-> text]]
  /\ UNCHANGED disk

(* A mutation of More: while (n >= 0).                                     *)
More_Equal(n) == n >= 0

More(n) == n > 0

(* One round: lseek, which leaves the position alone when the offset is    *)
(* negative, and read of one byte.                                         *)
RepScan(p) ==
  LET r    == proc[p]
      text == disk.inode[r.old].text
      at   == IF r.offset >= 0 THEN r.offset ELSE r.pos
      left == IF text[at + 1] = "LF" THEN r.left - 1 ELSE r.left
  IN /\ r.pc = "scan" /\ More(r.left) /\ at < Len(text)
     /\ Goto(p, "scan", [r EXCEPT !.left = left, !.offset = @ - 1, !.pos = at + 1])
     /\ Look(p, <<>>)
     /\ UNCHANGED disk

(* Nothing is left to read: "read failed".                                 *)
RepFails(p) ==
  LET r == proc[p] IN
  /\ r.pc = "scan" /\ More(r.left)
  /\ (IF r.offset >= 0 THEN r.offset ELSE r.pos) >= Len(disk.inode[r.old].text)
  /\ Goto(p, "scan", Idle) /\ Forget(p)
  /\ UNCHANGED disk

(* The second loop: a read, and what it gives is printed.                  *)
RepPrints(p) ==
  LET r    == proc[p]
      text == disk.inode[r.old].text
      end  == Min({r.pos + Chunk, Len(text)})
  IN /\ r.pc = "scan" /\ ~More(r.left) /\ r.pos < Len(text)
     /\ Goto(p, "scan", [r EXCEPT !.pos = end])
     /\ Look(p, SubSeq(text, r.pos + 1, end))
     /\ UNCHANGED disk

(* The last read gives nothing.                                            *)
RepEnd(p) ==
  LET r == proc[p] IN
  /\ r.pc = "scan" /\ ~More(r.left) /\ r.pos >= Len(disk.inode[r.old].text)
  /\ Goto(p, "scan", [r EXCEPT !.pc = "closeRep"])
  /\ Look(p, <<>>)
  /\ UNCHANGED disk

RepClose(p) ==
  Goto(p, "closeRep", Idle) /\ Forget(p) /\ UNCHANGED disk

RepStarts(p) == \E name \in Names, n \in Counts : RepOpen(p, name, n)
RepStep(p) ==
  RepScan(p) \/ RepFails(p) \/ RepPrints(p) \/ RepEnd(p) \/ RepClose(p)
=============================================================================
