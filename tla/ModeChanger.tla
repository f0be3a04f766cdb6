---------------------------- MODULE ModeChanger ----------------------------
(***************************************************************************)
(* The two programs of exercise 2: mojChmod, which looks at a mode and     *)
(* then changes it, and list, which prints the modes in the directory.     *)
(***************************************************************************)
EXTENDS Directory

CONSTANT Octals   (* the modes given as numbers *)

SymbolicModes == {"u+s", "u-s", "g+s", "g-s"}

VARIABLE printed  (* each process's last row: the mode and its text         *)

(* vrniDovoljenja: the type and nine letters.  A set-ID bit prints as s    *)
(* whether or not there is an x below it; S_ISVTX is not printed.          *)
Letter(mode, bit, c) == IF bit \in mode THEN c ELSE "-"

(* A mutation of Execute: x is looked at first.                            *)
Execute_XFirst(mode, x, setid) ==
  IF x \in mode THEN "x" ELSE Letter(mode, setid, "s")

Execute(mode, x, setid) ==
  IF setid \in mode THEN "s" ELSE Letter(mode, x, "x")

vrniDovoljenja(type, mode) ==
  <<type,
    Letter(mode, "S_IRUSR", "r"), Letter(mode, "S_IWUSR", "w"),
    Execute(mode, "S_IXUSR", "S_ISUID"),
    Letter(mode, "S_IRGRP", "r"), Letter(mode, "S_IWGRP", "w"),
    Execute(mode, "S_IXGRP", "S_ISGID"),
    Letter(mode, "S_IROTH", "r"), Letter(mode, "S_IWOTH", "w"),
    Letter(mode, "S_IXOTH", "x")>>

Type(name) == IF disk.inode[disk.entry[name]].link = "" THEN "-" ELSE "l"
LstatMode(name) == disk.inode[disk.entry[name]].mode

Row(type, mode) == [mode |-> mode, text |-> vrniDovoljenja(type, mode)]
Prints(p, row) == printed' = [printed EXCEPT ![p] = row]

-----------------------------------------------------------------------------
(* mojChmod *)

(* The mode that arithmetic on the one lstat has found gives.              *)
Changed(mode, change) ==
  CASE change = "u+s" -> mode \cup {"S_ISUID"}
    [] change = "u-s" -> mode \ {"S_ISUID"}
    [] change = "g+s" -> mode \cup {"S_ISGID"}
    [] change = "g-s" -> mode \ {"S_ISGID"}

(* lstat, of a link itself: all its permissions are set.                   *)
Lstat(p, name, pc, mode) ==
  /\ disk.entry[name] # 0
  /\ Goto(p, "idle", [Idle EXCEPT !.pc = pc, !.name = name,
                        !.text = <<Type(name)>>, !.mode = mode])
  /\ UNCHANGED disk

ChangeMode(p) ==
  disk' = [disk EXCEPT !.inode[Follow(proc[p].name)].mode = proc[p].mode]

(* chmod, of what the link leads to.  The text is that of the new mode.    *)
SymbolicChmod(p) ==
  /\ Goto(p, "chmod", Idle)
  /\ Follow(proc[p].name) # 0 /\ ChangeMode(p)
  /\ Prints(p, Row(proc[p].text[1], proc[p].mode))

OctalChmod(p) ==
  /\ Goto(p, "octal", [proc[p] EXCEPT !.pc = "lstat"])
  /\ Follow(proc[p].name) # 0 /\ ChangeMode(p) /\ UNCHANGED printed

ChmodFails(p) ==
  /\ Goto(p, "chmod", Idle) \/ Goto(p, "octal", Idle)
  /\ Follow(proc[p].name) = 0
  /\ UNCHANGED <<disk, printed>>

(* With a number, the text is that of what lstat then finds.               *)
LstatAgain(p) ==
  LET name == proc[p].name IN
  /\ Goto(p, "lstat", Idle)
  /\ IF disk.entry[name] = 0 THEN UNCHANGED printed
     ELSE Prints(p, Row(Type(name), LstatMode(name)))
  /\ UNCHANGED disk

-----------------------------------------------------------------------------
(* list *)

(* readdir gives the names there are, from one block read at the start.    *)
ListOpen(p) ==
  /\ Goto(p, "idle", [Idle EXCEPT !.pc = "list",
       !.text = SetToSeq({x \in Names : disk.entry[x] # 0})])
  /\ UNCHANGED disk

(* A name that has gone since ends the program; so does the last one.      *)
ListRow(p) ==
  LET names == proc[p].text IN
  /\ proc[p].pc = "list" /\ UNCHANGED disk
  /\ IF names = <<>> \/ disk.entry[Head(names)] = 0
     THEN Goto(p, "list", Idle) /\ UNCHANGED printed
     ELSE /\ Goto(p, "list", [proc[p] EXCEPT !.text = Tail(@)])
          /\ Prints(p, Row(Type(Head(names)), LstatMode(Head(names))))

ModeStarts(p) ==
  \/ ListOpen(p)
  \/ \E name \in Names :
       \/ \E change \in SymbolicModes :
            Lstat(p, name, "chmod", Changed(LstatMode(name), change))
       \/ \E mode \in Octals : Lstat(p, name, "octal", mode)

ModeStep(p) ==
  SymbolicChmod(p) \/ OctalChmod(p) \/ ChmodFails(p) \/ LstatAgain(p) \/ ListRow(p)
=============================================================================
