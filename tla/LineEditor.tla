----------------------------- MODULE LineEditor -----------------------------
(***************************************************************************)
(* kamned, the line editor of exercise 3: -a adds typed lines to a file,   *)
(* -d and -i copy it to new_file without or with a line, and put that file *)
(* in its place.  Printing the result at the end changes nothing and is    *)
(* left out.  A text fits into one block of stdio, so it is read by one    *)
(* read and written by one write, which waits for fclose.                  *)
(***************************************************************************)
EXTENDS Directory

CONSTANT
  Numbers   (* the line numbers given; atoi makes 0 of what is none         *)

AppendMode == ReadWrite   (* the 0666 that fopen asks for *)

-----------------------------------------------------------------------------
(* -a *)

AppendOpen(p, name) ==
  LET made == Follow(name) = 0 IN
  /\ Writable(Follow(name))
  /\ Goto(p, "idle", [Idle EXCEPT !.pc = "append", !.left = MaxTyped,
                        !.old = IF made THEN FreeInode ELSE Follow(name)])
  /\ disk' = IF made THEN Created(name, AppendMode) ELSE disk

(* The stream is line buffered: a line is in the file at once.             *)
AppendLine(p) ==
  /\ proc[p].left > 0
  /\ Goto(p, "append", [proc[p] EXCEPT !.left = @ - 1])
  /\ disk' = Written(proc[p].old, Line(p))

AppendEnd(p) == Goto(p, "append", Idle) /\ UNCHANGED disk

-----------------------------------------------------------------------------
(* -d and -i *)

(* The bytes that k calls of fgets read: up to the k-th newline, or all of *)
(* them.                                                                   *)
Newlines(text, i, j) == Cardinality({k \in i..j : text[k] = "LF"})
Lead(text, k) ==
  Min({i \in 0..Len(text) : i = Len(text) \/ Newlines(text, 1, i) >= k})

(* The loops: n - 1 lines are copied, or fewer; then one is left out, or   *)
(* one put in.  A number below 1 means the first line, one beyond the end  *)
(* no line, or the end.                                                    *)
Before(text, n) == SubSeq(text, 1, Lead(text, n - 1))
From(text, n)   == SubSeq(text, Lead(text, n - 1) + 1, Len(text))

Deleted(text, n) == Before(text, n) \o From(text, IF n < 1 THEN 2 ELSE n + 1)
Inserted(text, n, line) == Before(text, n) \o line \o From(text, n)

(* The line to insert is the process's own; <<>> is for -d.                *)
Stat(p, name, n, line) ==
  /\ Follow(name) # 0
  /\ Goto(p, "idle",
       [Idle EXCEPT !.pc = "openNew", !.name = name, !.n = n, !.text = line,
                    !.mode = disk.inode[Follow(name)].mode])
  /\ UNCHANGED disk

(* A mutation of Opened: there is no O_TRUNC.                              *)
Opened_Kept(i) == disk

(* open("new_file", O_CREAT | O_TRUNC) of a file that is there.            *)
Opened(i) == Emptied(i)

OpenNew(p) ==
  LET i == disk.entry["new_file"] IN
  /\ Writable(i)
  /\ Goto(p, "openNew", [proc[p] EXCEPT !.pc = "openOld",
                           !.new = IF i = 0 THEN FreeInode ELSE i])
  /\ disk' = IF i = 0 THEN Created("new_file", proc[p].mode) ELSE Opened(i)

(* A new_file is there that may not be written: nothing has happened yet.  *)
NewFails(p) ==
  /\ Goto(p, "openNew", Idle)
  /\ ~Writable(disk.entry["new_file"]) /\ UNCHANGED disk

OpenOld(p) ==
  LET i == Follow(proc[p].name) IN
  /\ Goto(p, "openOld", [proc[p] EXCEPT !.pc = "copy", !.old = i])
  /\ Readable(i) /\ UNCHANGED disk

(* The file may not be read, or somebody has taken it away since stat:     *)
(* new_file is left behind.                                                *)
OpenFails(p) ==
  LET i == Follow(proc[p].name) IN
  /\ Goto(p, "openOld", Idle)
  /\ ~Readable(i) /\ UNCHANGED disk

Copy(p) ==
  LET r == proc[p]
      text == disk.inode[r.old].text
  IN /\ Goto(p, "copy", [r EXCEPT !.pc = "close",
          !.text = IF r.text = <<>> THEN Deleted(text, r.n)
                   ELSE Inserted(text, r.n, r.text)])
     /\ UNCHANGED disk

(* fclose(new_file), which fdopen has set to append.                       *)
CloseNew(p) ==
  /\ Goto(p, "close", [proc[p] EXCEPT !.pc = "unlink", !.old = 0, !.new = 0])
  /\ disk' = Written(proc[p].new, proc[p].text)

(* That either of the next two may fail is nowhere looked at.              *)
Unlink(p) ==
  /\ Goto(p, "unlink", [proc[p] EXCEPT !.pc = "rename"])
  /\ disk' = Unlinked(proc[p].name)

Rename(p) ==
  /\ Goto(p, "rename", Idle)
  /\ disk' = Renamed("new_file", proc[p].name)

EditorStarts(p) ==
  \E name \in Names : \/ AppendOpen(p, name)
                      \/ \E n \in Numbers, line \in {<<>>, Line(p)} :
                           Stat(p, name, n, line)

EditorStep(p) ==
  \/ AppendLine(p) \/ AppendEnd(p)
  \/ OpenNew(p) \/ NewFails(p) \/ OpenOld(p) \/ OpenFails(p) \/ Copy(p)
  \/ CloseNew(p) \/ Unlink(p) \/ Rename(p)
=============================================================================
