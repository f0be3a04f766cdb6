----------------------------- MODULE Directory -----------------------------
(***************************************************************************)
(* One directory, as the file programs of exercises 1 to 3 see it, and the *)
(* processes that run them.  The kernel is not part of the repository;     *)
(* this module says what its calls do to names and inodes.                 *)
(*                                                                         *)
(* A text is a sequence of bytes, "LF" the newline and "NUL" the zero; its *)
(* lines are shorter than the programs' buffers.  A mode is the set of its *)
(* bits.  The processes are one user's, not root's, and the files are this *)
(* user's.                                                                 *)
(***************************************************************************)
EXTENDS Integers, Sequences, SequencesExt, FiniteSets

CONSTANTS
  Procs,     (* the processes                                               *)
  Umask,     (* the bits a new file does not get                            *)
  MaxTyped   (* the lines typed in one run of a program                     *)

Bits ==
  {"S_ISUID", "S_ISGID", "S_ISVTX", "S_IRUSR", "S_IWUSR", "S_IXUSR",
   "S_IRGRP", "S_IWGRP", "S_IXGRP", "S_IROTH", "S_IWOTH", "S_IXOTH"}

ReadWrite == {"S_IRUSR", "S_IWUSR", "S_IRGRP", "S_IWGRP", "S_IROTH", "S_IWOTH"}

Names  == {"f", "l", "new_file"}
Inodes == 1..(Cardinality(Names) + 2 * Cardinality(Procs))

VARIABLES
  disk,     (* entry: the inode of a name, 0 for none; inode: the text, the *)
            (* mode, and for a symbolic link the name it leads to           *)
  proc      (* what each process is at, its variables and open files        *)

(* name, n: arguments; left: what is still to be counted; mode: from stat; *)
(* old, new: inodes of open files; text: what is on its way; offset, pos:  *)
(* places in a file.                                                       *)
Idle ==
  [pc |-> "idle", name |-> "", n |-> 0, left |-> 0, mode |-> {}, old |-> 0,
   new |-> 0, text |-> <<>>, offset |-> 0, pos |-> 0]

Goto(p, from, r) == proc[p].pc = from /\ proc' = [proc EXCEPT ![p] = r]

File(text, mode) == [text |-> text, mode |-> mode, link |-> ""]
Link(name) ==
  [text |-> <<>>, link |-> name,
   mode |-> ReadWrite \cup {"S_IXUSR", "S_IXGRP", "S_IXOTH"}]

(* What a process types: a byte of its own, and a newline.                 *)
Line(p) == <<p, "LF">>

(* The name a path leads to, and the inode there, which stat, open and     *)
(* chmod use; lstat, unlink and rename use the entry itself.               *)
Target(name) ==
  LET i == disk.entry[name] IN
  IF i # 0 /\ disk.inode[i].link # "" THEN disk.inode[i].link ELSE name
Follow(name) == disk.entry[Target(name)]

(* May inode i be opened to read; may it be opened to write, or, with      *)
(* O_CREAT, be made.                                                       *)
Readable(i) == i # 0 /\ "S_IRUSR" \in disk.inode[i].mode
Writable(i) == i # 0 => "S_IWUSR" \in disk.inode[i].mode

FreeInode ==
  CHOOSE i \in Inodes :
    /\ \A x \in Names : disk.entry[x] # i
    /\ \A p \in Procs : i \notin {proc[p].old, proc[p].new}

(* open with O_CREAT of a name that is not there: d and the inode made.    *)
Created(name, mode) ==
  [disk EXCEPT !.entry[Target(name)] = FreeInode,
               !.inode[FreeInode] = File(<<>>, mode \ Umask)]

(* A write, and a truncation, take the set-user-ID bit away, and the       *)
(* set-group-ID bit of a file that the group may execute.                  *)
Unprivileged(m) ==
  m \ ({"S_ISUID"} \cup IF "S_IXGRP" \in m THEN {"S_ISGID"} ELSE {})
Stored(file, text) ==
  [file EXCEPT !.text = text, !.mode = Unprivileged(@)]
Emptied(i) == [disk EXCEPT !.inode[i] = Stored(@, <<>>)]
Written(i, bytes) ==
  IF bytes = <<>> THEN disk
  ELSE [disk EXCEPT !.inode[i] = Stored(@, @.text \o bytes)]

(* A write at a place; beyond the end of the file it leaves zeros before.  *)
Padded(text, at) == text \o [k \in 1..(at - Len(text)) |-> "NUL"]
Over(text, at, bytes) ==
  SubSeq(Padded(text, at), 1, at) \o bytes
    \o SubSeq(text, at + Len(bytes) + 1, Len(text))
Overwritten(i, at, bytes) ==
  [disk EXCEPT !.inode[i] = Stored(@, Over(@.text, at, bytes))]

Unlinked(name) == [disk EXCEPT !.entry[name] = 0]
Renamed(a, b) ==
  IF disk.entry[a] = 0 \/ a = b THEN disk
  ELSE [disk EXCEPT !.entry[b] = disk.entry[a], !.entry[a] = 0]
=============================================================================
