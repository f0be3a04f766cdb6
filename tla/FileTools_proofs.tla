-------------------------- MODULE FileTools_proofs --------------------------
(***************************************************************************)
(* Proofs about the file programs, for any processes, texts, modes and     *)
(* arguments, and any number of runs and kills.                            *)
(***************************************************************************)
EXTENDS FileTools, FiniteSetTheorems, SequenceTheorems, WellFoundedInduction,
        TLAPS

-----------------------------------------------------------------------------
(* Types                                                                   *)

AllBytes == Procs \cup {"LF", "NUL"} \cup UNION {ToSet(t) : t \in Texts}
Words    == AllBytes \cup Names \cup {"-"}
FileType == [text : Seq(AllBytes), mode : SUBSET Bits, link : {"", "f"}]

(* Neither f nor new_file is ever a link, nor are both the same file.      *)
DiskOK ==
  /\ disk \in [entry : [Names -> Inodes \cup {0}], inode : [Inodes -> FileType]]
  /\ \A x \in {"f", "new_file"} :
       disk.entry[x] # 0 => disk.inode[disk.entry[x]].link = ""
  /\ disk.entry["f"] # 0 => disk.entry["f"] # disk.entry["new_file"]

HasName == {"openNew", "openOld", "copy", "close", "unlink", "rename",
            "chmod", "octal", "lstat"}
HasOld  == {"append", "tee", "tee_a", "copy", "scan"}
HasNew  == {"openOld", "copy", "close"}
HasText == {"openNew", "openOld", "copy", "close"}
HasLine == {"openNew", "openOld", "copy"}
LineOrNone == {<<>>} \cup {Line(q) : q \in Procs}

ProcType ==
  [pc : {"idle", "append", "list", "closeRep"} \cup HasName \cup HasOld,
   name : Names \cup {""}, n : Int, left : Int, mode : SUBSET Bits,
   old : Inodes \cup {0}, new : Inodes \cup {0}, text : Seq(Words),
   offset : Int, pos : Nat]

(* What a process needs it has.                                            *)
Equipped(r) ==
  /\ r.pc \in HasName => r.name \in Names
  /\ r.pc \in HasOld  => r.old \in Inodes
  /\ r.pc \in HasNew  => r.new \in Inodes
  /\ r.pc \in HasText => r.text \in Seq(AllBytes)
  /\ r.pc \in HasLine => r.text \in LineOrNone
  /\ r.pc = "list"    => r.text \in Seq(Names)
  /\ r.pc = "chmod"   => \E type \in {"-", "l"} : r.text = <<type>>

ProcOK == proc \in [Procs -> ProcType] /\ \A p \in Procs : Equipped(proc[p])

IsRow(row) ==
  row.mode \in SUBSET Bits /\ \E type \in Words : row = Row(type, row.mode)
PrintedOK ==
  /\ printed = [p \in Procs |-> printed[p]]
  /\ \A p \in Procs : printed[p] = NoRow \/ IsRow(printed[p])

TypeInv == DiskOK /\ ProcOK

-----------------------------------------------------------------------------
(* Edits                                                                   *)

(* The texts that an edit of text may give, and the modes.                 *)
EndOf(text, i) == i \in {0, Len(text)} \/ text[i] = "LF"
IsEdit(text, new) ==
  \/ new = text
  \/ \E i, j \in 0..Len(text) :
       /\ EndOf(text, i) /\ EndOf(text, j) /\ \A k \in (i + 1)..(j - 1) : ~EndOf(text, k)
       /\ new = SubSeq(text, 1, i) \o SubSeq(text, j + 1, Len(text))
  \/ \E i \in 0..Len(text), p \in Procs :
       /\ EndOf(text, i)
       /\ new = SubSeq(text, 1, i) \o Line(p) \o SubSeq(text, i + 1, Len(text))
EditModes(mode) == {mode \ Umask, Unprivileged(mode \ Umask)}

(* What a process that writes undisturbed has looked at is still so.       *)
f_file   == disk.inode[disk.entry["f"]]
new_file == disk.inode[disk.entry["new_file"]]

EditsF(r) ==
  /\ r.pc \in {"openNew", "openOld", "copy", "close"} => r.mode = f_file.mode
  /\ r.pc = "openNew" /\ disk.entry["new_file"] # 0 =>
       Unprivileged(new_file.mode) = Unprivileged(r.mode \ Umask)
  /\ r.pc \in {"openOld", "copy", "close"} =>
       /\ new_file.text = <<>> /\ new_file.mode \in EditModes(r.mode)
  /\ r.pc = "copy" => r.old = disk.entry["f"]
  /\ r.pc = "close" => IsEdit(f_file.text, r.text)
  /\ r.pc = "unlink" =>
       /\ disk.entry["new_file"] # 0
       /\ IsEdit(f_file.text, new_file.text)
       /\ new_file.mode \in EditModes(f_file.mode)
  /\ r.pc = "rename" => disk.entry["f"] = 0 /\ disk.entry["new_file"] # 0

BitChanged(mode) ==
  {mode \cup {bit} : bit \in {"S_ISUID", "S_ISGID"}}
    \cup {mode \ {bit} : bit \in {"S_ISUID", "S_ISGID"}}

UpToDate(r) ==
  /\ ~(r.pc = "rename" /\ r.name = "f") => disk.entry["f"] # 0
  /\ r.pc \in HasNew => r.new = disk.entry["new_file"]
  /\ r.name = "f" => EditsF(r)
  /\ r.pc = "chmod" =>
       LET i == disk.entry[r.name] IN
       /\ i # 0 /\ disk.inode[i].link = ""
       /\ r.mode \in BitChanged(disk.inode[i].mode)
  /\ r.pc = "octal" => r.mode \in Octals
  /\ r.pc = "tee" => r.pos = Len(disk.inode[r.old].text)

Alone ==
  ~disturbed =>
    /\ \A p, q \in Procs : Writing(proc[p]) /\ Writing(proc[q]) => p = q
    /\ \A p \in Procs : Writing(proc[p]) => UpToDate(proc[p])

-----------------------------------------------------------------------------
(* Inodes                                                                  *)

(* The values of a function on a finite set.                               *)
LEMMA FewValues ==
  ASSUME NEW S, IsFiniteSet(S), NEW f
  PROVE  LET T == {f[x] : x \in S} IN
         IsFiniteSet(T) /\ Cardinality(T) <= Cardinality(S)
<1> DEFINE T == {f[x] : x \in S}
           g == [x \in S |-> f[x]]
<1>1. g \in Surjection(S, T)
  BY DEF Surjection
<1> QED
  BY <1>1, FS_Surjection

(* There are three names.                                                  *)
LEMMA ThreeNames == IsFiniteSet(Names) /\ Cardinality(Names) = 3
<1>1. IsFiniteSet({"f"}) /\ Cardinality({"f"}) = 1
  BY FS_Singleton
<1>2. /\ IsFiniteSet({"f"} \cup {"l"})
      /\ Cardinality({"f"} \cup {"l"}) = 2
  BY <1>1, FS_AddElement
<1>3. /\ IsFiniteSet(({"f"} \cup {"l"}) \cup {"new_file"})
      /\ Cardinality(({"f"} \cup {"l"}) \cup {"new_file"}) = 3
  BY <1>2, FS_AddElement
<1>4. Names = ({"f"} \cup {"l"}) \cup {"new_file"}
  BY DEF Names
<1> QED
  BY <1>3, <1>4

(* Names and processes use fewer inodes than there are.                    *)
LEMMA FreeInodes ==
  ASSUME TypeInv, NEW x \in Names, disk.entry[x] = 0
  PROVE  /\ FreeInode \in Inodes
         /\ \A y \in Names : disk.entry[y] # FreeInode
         /\ \A p \in Procs : FreeInode \notin {proc[p].old, proc[p].new}
<1> DEFINE old == [p \in Procs |-> proc[p].old]
           new == [p \in Procs |-> proc[p].new]
           entry == disk.entry
           E == {entry[y] : y \in Names}
           O == {old[p] : p \in Procs}
           N == {new[p] : p \in Procs}
           U == E \cup O \cup N
           k == Cardinality(Procs)
<1>1. IsFiniteSet(Procs) /\ k \in Nat
  BY FilesAssumption, FS_CardinalityType
<1>2. IsFiniteSet(E) /\ Cardinality(E) <= 3 /\ Cardinality(E) \in Nat
  <2> HIDE DEF entry
  <2>1. IsFiniteSet(E) /\ Cardinality(E) <= Cardinality(Names)
    BY ThreeNames, FewValues
  <2> QED
    BY <2>1, ThreeNames, FS_CardinalityType
<1>3. IsFiniteSet(O) /\ Cardinality(O) <= k /\ Cardinality(O) \in Nat
  BY <1>1, FewValues, FS_CardinalityType
<1>4. IsFiniteSet(N) /\ Cardinality(N) <= k /\ Cardinality(N) \in Nat
  BY <1>1, FewValues, FS_CardinalityType
<1>5. 0 \in E
  OBVIOUS
<1> HIDE DEF E, O, N, k
<1>6. /\ IsFiniteSet(E \cup O)
      /\ Cardinality(E \cup O) <= 3 + k /\ Cardinality(E \cup O) \in Nat
  <2>1. Cardinality(E \cap O) \in Nat
    BY <1>2, FS_Intersection, FS_CardinalityType
  <2>2. /\ IsFiniteSet(E \cup O) /\ Cardinality(E \cup O) \in Nat
        /\ Cardinality(E \cup O) =
             Cardinality(E) + Cardinality(O) - Cardinality(E \cap O)
    BY <1>2, <1>3, FS_Union, FS_CardinalityType
  <2> QED
    BY <1>1, <1>2, <1>3, <2>1, <2>2
<1>7. /\ IsFiniteSet(U)
      /\ Cardinality(U) <= 3 + 2 * k /\ Cardinality(U) \in Nat
  <2>1. Cardinality((E \cup O) \cap N) \in Nat
    BY <1>6, FS_Intersection, FS_CardinalityType
  <2>2. /\ IsFiniteSet(U) /\ Cardinality(U) \in Nat
        /\ Cardinality(U) = Cardinality(E \cup O) + Cardinality(N)
                              - Cardinality((E \cup O) \cap N)
    BY <1>4, <1>6, FS_Union, FS_CardinalityType
  <2> QED
    BY <1>1, <1>4, <1>6, <2>1, <2>2
<1>8. Cardinality(Inodes) = 3 + 2 * k
  <2>1. Inodes = 1..(3 + 2 * k)
    BY ThreeNames DEF Inodes, k
  <2> QED
    BY <1>1, <2>1, FS_Interval
<1>9. IsFiniteSet(U \ {0}) /\ Cardinality(U \ {0}) < 3 + 2 * k
  <2>1. 0 \in U
    BY <1>5
  <2> HIDE DEF U
  <2>2. IsFiniteSet(U \ {0}) /\ Cardinality(U \ {0}) = Cardinality(U) - 1
    BY <1>7, <2>1, FS_RemoveElement
  <2> QED
    BY <1>1, <1>7, <2>1, <2>2
<1>10. ~(Inodes \subseteq U)
  <2>1. 0 \notin Inodes
    BY DEF Inodes
  <2>2. SUFFICES ASSUME Inodes \subseteq U \ {0} PROVE FALSE
    BY <2>1
  <2>3. Cardinality(Inodes) <= Cardinality(U \ {0})
    BY <1>9, <2>2, FS_Subset
  <2>4. Cardinality(U \ {0}) \in Nat
    BY <1>9, FS_CardinalityType
  <2> QED
    BY <1>1, <1>8, <1>9, <2>3, <2>4
<1>11. \E i \in Inodes :
         /\ \A y \in Names : disk.entry[y] # i
         /\ \A p \in Procs : i \notin {proc[p].old, proc[p].new}
  <2>1. PICK i \in Inodes : i \notin U
    BY <1>10
  <2> QED
    BY <2>1 DEF E, O, N
<1> QED
  BY <1>11 DEF FreeInode

-----------------------------------------------------------------------------
(* What the kernel's calls do                                              *)

(* Inode i becomes file, and nothing else changes.                         *)
SetInode(i, file) == disk' = [disk EXCEPT !.inode[i] = file]

(* The entries stay, the inode is the new file.                            *)
LEMMA SetInodeIs ==
  ASSUME DiskOK, NEW i \in Inodes, NEW file, SetInode(i, file)
  PROVE  disk' = [entry |-> disk.entry,
                  inode |-> [disk.inode EXCEPT ![i] = file]]
<1>1. PICK e \in [Names -> Inodes \cup {0}], n \in [Inodes -> FileType] :
        disk = [entry |-> e, inode |-> n]
  BY DEF DiskOK
<1>2. disk' = [[entry |-> e, inode |-> n] EXCEPT !.inode[i] = file]
  BY <1>1 DEF SetInode
<1> QED
  BY <1>1, <1>2

(* It keeps the types, if the file stays a link or none.                   *)
LEMMA SetInodeKeeps ==
  ASSUME DiskOK, NEW i \in Inodes, NEW file \in FileType, SetInode(i, file),
         file.link = disk.inode[i].link
  PROVE  DiskOK' /\ disk'.entry = disk.entry
           /\ disk'.inode = [disk.inode EXCEPT ![i] = file]
<1>1. PICK e \in [Names -> Inodes \cup {0}], n \in [Inodes -> FileType] :
        disk = [entry |-> e, inode |-> n]
  BY DEF DiskOK
<1>2. disk' = [entry |-> e, inode |-> [n EXCEPT ![i] = file]]
  BY <1>1, SetInodeIs
<1>3. [n EXCEPT ![i] = file] \in [Inodes -> FileType]
  OBVIOUS
<1>4. \A j \in Inodes : [n EXCEPT ![i] = file][j].link = n[j].link
  BY <1>1
<1>5. \A x \in {"f", "new_file"} : e[x] # 0 => e[x] \in Inodes
  BY DEF Names
<1> QED
  BY <1>1, <1>2, <1>3, <1>4, <1>5 DEF DiskOK

(* A file with a new text, as truncation and writes leave it.              *)
LEMMA StoredType ==
  ASSUME NEW file \in FileType, NEW text \in Seq(AllBytes)
  PROVE  /\ Stored(file, text) \in FileType
         /\ Stored(file, text).text = text
         /\ Stored(file, text).mode = Unprivileged(file.mode)
         /\ Stored(file, text).link = file.link
BY DEF Stored, FileType, Unprivileged

(* Every inode holds a file.                                               *)
LEMMA InodeType ==
  ASSUME DiskOK, NEW i \in Inodes
  PROVE  /\ disk.inode[i] \in FileType
         /\ disk.inode[i].text \in Seq(AllBytes)
         /\ disk.inode[i].mode \in SUBSET Bits
<1>1. disk.inode[i] \in FileType
  BY DEF DiskOK
<1> QED
  BY <1>1 DEF FileType

(* open with O_TRUNC.                                                      *)
LEMMA EmptiedKeeps ==
  ASSUME DiskOK, NEW i \in Inodes, disk' = Emptied(i)
  PROVE  /\ DiskOK' /\ disk'.entry = disk.entry
         /\ disk'.inode = [disk.inode EXCEPT ![i] = Stored(@, <<>>)]
<1>1. disk.inode[i] \in FileType /\ <<>> \in Seq(AllBytes)
  BY InodeType
<1>2. SetInode(i, Stored(disk.inode[i], <<>>))
  BY DEF SetInode, Emptied
<1> QED
  BY <1>1, <1>2, StoredType, SetInodeKeeps

(* A write at the end of a file.                                           *)
LEMMA WrittenKeeps ==
  ASSUME DiskOK, NEW i \in Inodes, NEW lines \in Seq(AllBytes), lines # <<>>,
         disk' = Written(i, lines)
  PROVE  /\ DiskOK' /\ disk'.entry = disk.entry
         /\ disk'.inode = [disk.inode EXCEPT ![i] = Stored(@, @.text \o lines)]
<1>1. disk.inode[i] \in FileType
  BY DEF DiskOK
<1>2. disk.inode[i].text \o lines \in Seq(AllBytes)
  BY <1>1, ConcatProperties DEF FileType
<1>3. SetInode(i, Stored(disk.inode[i], disk.inode[i].text \o lines))
  BY DEF SetInode, Written
<1> QED
  BY <1>1, <1>2, <1>3, StoredType, SetInodeKeeps

(* The zeros that a write beyond the end of a file leaves.                 *)
LEMMA Zeros ==
  ASSUME NEW n \in Nat
  PROVE  LET z == [k \in 1..n |-> "NUL"] IN z \in Seq(AllBytes) /\ Len(z) = n
<1> DEFINE z == [k \in 1..n |-> "NUL"]
<1>1. z \in [1..n -> AllBytes]
  BY DEF AllBytes
<1>2. z \in Seq(AllBytes)
  BY <1>1, SeqDef
<1>3. 1..Len(z) = 1..n /\ Len(z) \in Nat
  <2>1. DOMAIN z = 1..Len(z) /\ Len(z) \in Nat
    BY <1>2, LenProperties
  <2> QED
    BY <2>1
<1>4. Len(z) = n
  <2> HIDE DEF z
  <2> QED
    BY <1>3
<1> QED
  BY <1>2, <1>4

(* A write at a place: in the middle, right at the end, or beyond it.      *)
LEMMA OverText ==
  ASSUME NEW text \in Seq(AllBytes), NEW at \in Nat, NEW bytes \in Seq(AllBytes)
  PROVE  /\ Over(text, at, bytes) \in Seq(AllBytes)
         /\ at = Len(text) => Over(text, at, bytes) = text \o bytes
<1> DEFINE m == Len(text)
           z == [k \in 1..(at - m) |-> "NUL"]
           pad == text \o z
           a == SubSeq(pad, 1, at)
           c == SubSeq(text, at + Len(bytes) + 1, m)
<1>1. m \in Nat /\ Len(bytes) \in Nat /\ \A i \in 1..m : text[i] \in AllBytes
  BY LenProperties
<1>2. z \in Seq(AllBytes) /\ Len(z) = IF at > m THEN at - m ELSE 0
  <2>1. CASE at > m
    <3>1. at - m \in Nat
      BY <1>1, <2>1
    <3> QED
      BY <2>1, <3>1, Zeros
  <2>2. CASE ~(at > m)
    <3>1. 1..(at - m) = 1..0
      BY <1>1, <2>2
    <3>2. z = [k \in 1..0 |-> "NUL"]
      BY <3>1
    <3> QED
      BY <2>2, <3>2, Zeros
  <2> QED
    BY <2>1, <2>2
<1>3. pad \in Seq(AllBytes) /\ Len(pad) = m + Len(z)
  BY <1>2, ConcatProperties
<1>4. \A i \in 1..at : pad[i] \in AllBytes
  BY <1>1, <1>2, <1>3, LenProperties
<1>5. a \in Seq(AllBytes)
  BY <1>4, SubSeqProperties
<1>6. c \in Seq(AllBytes)
  <2>1. \A i \in (at + Len(bytes) + 1)..m : text[i] \in AllBytes
    BY <1>1
  <2>2. at + Len(bytes) + 1 \in Int /\ m \in Int
    BY <1>1
  <2> QED
    BY <2>1, <2>2, SubSeqProperties
<1>7. Over(text, at, bytes) = a \o bytes \o c
  BY DEF Over, Padded
<1> HIDE DEF a, c
<1>8. a \o bytes \o c \in Seq(AllBytes) /\ a \o bytes \in Seq(AllBytes)
  BY <1>5, <1>6, ConcatProperties
<1>9. ASSUME at = m PROVE a \o bytes \o c = text \o bytes
  <2>1. z = <<>>
    BY <1>1, <1>2, <1>9, EmptySeq
  <2>2. pad = text
    <3> HIDE DEF z
    <3> QED
      BY <2>1, ConcatEmptySeq
  <2>3. a = text
    BY <1>1, <1>9, <2>2 DEF a
  <2>4. c = <<>>
    <3>1. m < at + Len(bytes) + 1 /\ at + Len(bytes) + 1 \in Int
      BY <1>1, <1>9
    <3> QED
      BY <1>1, <3>1, SubSeqEmpty DEF c
  <2> QED
    BY <1>8, <2>3, <2>4, ConcatEmptySeq
<1> QED
  BY <1>7, <1>8, <1>9

(* Such a write.                                                           *)
LEMMA OverwrittenKeeps ==
  ASSUME DiskOK, NEW i \in Inodes, NEW bytes \in Seq(AllBytes),
         NEW at \in Nat, disk' = Overwritten(i, at, bytes)
  PROVE  \E text \in Seq(AllBytes) :
           /\ DiskOK' /\ disk'.entry = disk.entry
           /\ disk'.inode = [disk.inode EXCEPT ![i] = Stored(@, text)]
           /\ at = Len(disk.inode[i].text) =>
                text = disk.inode[i].text \o bytes
<1> DEFINE old == disk.inode[i].text
           new == Over(old, at, bytes)
<1>1. disk.inode[i] \in FileType /\ old \in Seq(AllBytes)
  BY DEF DiskOK, FileType
<1>2. SetInode(i, Stored(disk.inode[i], new))
  BY DEF SetInode, Overwritten
<1>3. new \in Seq(AllBytes) /\ (at = Len(old) => new = old \o bytes)
  <2> HIDE DEF old
  <2> QED
    BY <1>1, OverText
<1> HIDE DEF new
<1>4. DiskOK' /\ disk'.entry = disk.entry
      /\ disk'.inode = [disk.inode EXCEPT ![i] = Stored(@, new)]
  BY <1>1, <1>2, <1>3, StoredType, SetInodeKeeps
<1> QED
  BY <1>3, <1>4

(* chmod.                                                                  *)
LEMMA ChmodKeeps ==
  ASSUME DiskOK, NEW i \in Inodes, NEW mode \in SUBSET Bits,
         disk' = [disk EXCEPT !.inode[i].mode = mode]
  PROVE  /\ DiskOK' /\ disk'.entry = disk.entry
         /\ disk'.inode = [disk.inode EXCEPT ![i] = [@ EXCEPT !.mode = mode]]
<1> DEFINE file == [disk.inode[i] EXCEPT !.mode = mode]
<1>1. SetInode(i, file)
  BY DEF SetInode
<1>2. file \in FileType /\ file.link = disk.inode[i].link
  BY InodeType DEF FileType
<1> QED
  BY <1>1, <1>2, SetInodeKeeps

(* Paths lead to names.                                                    *)
LEMMA PathType ==
  ASSUME DiskOK, NEW name \in Names
  PROVE  /\ Target(name) \in Names /\ Follow(name) \in Inodes \cup {0}
         /\ disk.entry[name] \in Inodes \cup {0}
         /\ name \in {"f", "new_file"} => Target(name) = name
         /\ Follow(name) = disk.entry[Target(name)]
         /\ Target(name) \in {name, "f"}
<1>1. disk.entry \in [Names -> Inodes \cup {0}]
  BY DEF DiskOK
<1>2. disk.entry[name] # 0 => disk.inode[disk.entry[name]].link \in {"", "f"}
  <2>1. \A i \in Inodes : disk.inode[i].link \in {"", "f"}
    BY InodeType DEF FileType
  <2> QED
    BY <1>1, <2>1
<1>3. Target(name) \in Names /\ Target(name) \in {name, "f"}
  BY <1>1, <1>2 DEF Target, Names
<1> QED
  BY <1>1, <1>3 DEF DiskOK, Target, Follow

(* open with O_CREAT of a name that is not there.                          *)
LEMMA CreatedKeeps ==
  ASSUME TypeInv, NEW name \in Names, Follow(name) = 0,
         NEW mode \in SUBSET Bits, disk' = Created(name, mode)
  PROVE  /\ DiskOK'
         /\ disk'.entry = [disk.entry EXCEPT ![Target(name)] = FreeInode]
         /\ disk'.inode = [disk.inode EXCEPT ![FreeInode] = File(<<>>, mode \ Umask)]
         /\ FreeInode \in Inodes
         /\ \A y \in Names : disk.entry[y] # FreeInode
<1>1. Target(name) \in Names /\ disk.entry[Target(name)] = 0
  BY PathType DEF TypeInv
<1>2. FreeInode \in Inodes /\ \A y \in Names : disk.entry[y] # FreeInode
  BY <1>1, FreeInodes
<1> DEFINE x == Target(name)
           free == FreeInode
           file == File(<<>>, mode \ Umask)
<1> HIDE DEF x, free
<1>3. file \in FileType /\ file.link = ""
  BY DEF File, FileType
<1>4. PICK e \in [Names -> Inodes \cup {0}], n \in [Inodes -> FileType] :
        disk = [entry |-> e, inode |-> n]
  BY DEF DiskOK, TypeInv
<1> HIDE DEF file
<1>5. disk' = [disk EXCEPT !.entry[x] = free, !.inode[free] = file]
  BY DEF Created, x, free, file
<1>6. disk' = [entry |-> [e EXCEPT ![x] = free], inode |-> [n EXCEPT ![free] = file]]
  BY <1>4, <1>5
<1>7. x \in Names /\ free \in Inodes /\ \A y \in Names : e[y] # free
  BY <1>1, <1>2, <1>4 DEF x, free
<1>8. free # 0
  BY <1>7 DEF Inodes
<1>9. /\ [e EXCEPT ![x] = free] \in [Names -> Inodes \cup {0}]
      /\ [n EXCEPT ![free] = file] \in [Inodes -> FileType]
  BY <1>3, <1>7
<1>10. \A y \in {"f", "new_file"} : [e EXCEPT ![x] = free][y] # 0 =>
         [n EXCEPT ![free] = file][[e EXCEPT ![x] = free][y]].link = ""
  <2>1. \A y \in {"f", "new_file"} : e[y] # 0 => e[y] \in Inodes /\ n[e[y]].link = ""
    BY <1>4 DEF TypeInv, DiskOK, Names
  <2> QED
    BY <1>3, <1>7, <2>1 DEF Names
<1>11. [e EXCEPT ![x] = free]["f"] # 0 =>
         [e EXCEPT ![x] = free]["f"] # [e EXCEPT ![x] = free]["new_file"]
  <2>1. e["f"] # 0 => e["f"] # e["new_file"]
    BY <1>4 DEF TypeInv, DiskOK
  <2>2. "f" \in Names /\ "new_file" \in Names
    BY DEF Names
  <2> QED
    BY <1>7, <1>8, <2>1, <2>2
<1>12. DiskOK'
  <2> DEFINE e2 == [e EXCEPT ![x] = free]
             n2 == [n EXCEPT ![free] = file]
  <2> HIDE DEF e2, n2
  <2>1. disk' = [entry |-> e2, inode |-> n2]
    BY <1>6 DEF e2, n2
  <2>2. e2 \in [Names -> Inodes \cup {0}] /\ n2 \in [Inodes -> FileType]
    BY <1>9 DEF e2, n2
  <2>3. \A y \in {"f", "new_file"} : e2[y] # 0 => n2[e2[y]].link = ""
    BY <1>10 DEF e2, n2
  <2>4. e2["f"] # 0 => e2["f"] # e2["new_file"]
    BY <1>11 DEF e2
  <2>5. disk'.entry = e2 /\ disk'.inode = n2
    BY <2>1
  <2>6. disk' \in [entry : [Names -> Inodes \cup {0}], inode : [Inodes -> FileType]]
    BY <2>1, <2>2
  <2> QED
    BY <2>3, <2>4, <2>5, <2>6 DEF DiskOK
<1> QED
  BY <1>2, <1>4, <1>6, <1>12 DEF x, free, file

(* Entries may change, as long as new_file and f remain files of their own.*)
LEMMA EntriesKeep ==
  ASSUME DiskOK, NEW e \in [Names -> Inodes \cup {0}],
         disk' = [disk EXCEPT !.entry = e],
         \A x \in {"f", "new_file"} :
           e[x] # 0 => \E y \in {"f", "new_file"} : e[x] = disk.entry[y],
         e["f"] # 0 => e["f"] # e["new_file"]
  PROVE  DiskOK' /\ disk'.entry = e /\ disk'.inode = disk.inode
<1>1. PICK d \in [Names -> Inodes \cup {0}], n \in [Inodes -> FileType] :
        disk = [entry |-> d, inode |-> n]
  BY DEF DiskOK
<1>2. disk' = [entry |-> e, inode |-> n]
  BY <1>1
<1>3. \A x \in {"f", "new_file"} : e[x] # 0 => n[e[x]].link = ""
  <2>1. \A y \in {"f", "new_file"} : d[y] # 0 => n[d[y]].link = ""
    BY <1>1 DEF DiskOK
  <2>2. \A x \in {"f", "new_file"} :
          e[x] # 0 => \E y \in {"f", "new_file"} : e[x] = d[y]
    BY <1>1
  <2> QED
    BY <2>1, <2>2
<1>4. DiskOK'
  BY <1>2, <1>3 DEF DiskOK
<1> QED
  BY <1>1, <1>2, <1>4

(* unlink.                                                                 *)
LEMMA UnlinkedKeeps ==
  ASSUME DiskOK, NEW name \in Names, disk' = Unlinked(name)
  PROVE  /\ DiskOK' /\ disk'.inode = disk.inode
         /\ disk'.entry = [disk.entry EXCEPT ![name] = 0]
<1> DEFINE e == [disk.entry EXCEPT ![name] = 0]
<1>1. e \in [Names -> Inodes \cup {0}]
  BY DEF DiskOK
<1>2. disk' = [disk EXCEPT !.entry = e]
  BY DEF Unlinked
<1>3. /\ \A x \in {"f", "new_file"} :
           e[x] # 0 => \E y \in {"f", "new_file"} : e[x] = disk.entry[y]
      /\ e["f"] # 0 => e["f"] # e["new_file"]
  BY DEF DiskOK, Names
<1> HIDE DEF e
<1>4. DiskOK' /\ disk'.inode = disk.inode /\ disk'.entry = e
  BY <1>1, <1>2, <1>3, EntriesKeep
<1> QED
  BY <1>4 DEF e

(* rename of new_file, which does nothing when there is no such file.      *)
LEMMA RenamedKeeps ==
  ASSUME DiskOK, NEW name \in Names, disk' = Renamed("new_file", name)
  PROVE  /\ DiskOK' /\ disk'.inode = disk.inode
         /\ disk'.entry =
              IF disk.entry["new_file"] = 0 \/ name = "new_file" THEN disk.entry
              ELSE [disk.entry EXCEPT ![name] = disk.entry["new_file"],
                                      !["new_file"] = 0]
<1>1. CASE disk.entry["new_file"] = 0 \/ name = "new_file"
  <2>1. disk' = disk
    BY <1>1 DEF Renamed
  <2> QED
    BY <1>1, <2>1 DEF DiskOK
<1>2. CASE ~(disk.entry["new_file"] = 0 \/ name = "new_file")
  <2> DEFINE e == [disk.entry EXCEPT ![name] = disk.entry["new_file"],
                                     !["new_file"] = 0]
  <2>1. e \in [Names -> Inodes \cup {0}]
    BY DEF DiskOK, Names
  <2>2. disk' = [disk EXCEPT !.entry = e]
    BY <1>2 DEF Renamed
  <2>3. /\ \A x \in {"f", "new_file"} :
             e[x] # 0 => \E y \in {"f", "new_file"} : e[x] = disk.entry[y]
        /\ e["f"] # 0 => e["f"] # e["new_file"]
    BY DEF DiskOK, Names
  <2> HIDE DEF e
  <2>4. DiskOK' /\ disk'.inode = disk.inode /\ disk'.entry = e
    BY <2>1, <2>2, <2>3, EntriesKeep
  <2> QED
    BY <1>2, <2>4 DEF e
<1> QED
  BY <1>1, <1>2

(* A set of numbers that is not empty has a least one.                     *)
LEMMA LeastNumber ==
  ASSUME NEW T \in SUBSET Nat, T # {}
  PROVE  \E m \in T : \A n \in T : m <= n
<1> DEFINE F == {0..n : n \in T}
<1>1. F \subseteq FiniteSubsetsOf(Nat) /\ F # {}
  <2>1. ASSUME NEW n \in T PROVE IsFiniteSet(0..n) /\ 0..n \subseteq Nat
    BY FS_Interval
  <2> QED
    BY <2>1 DEF FiniteSubsetsOf
<1>2. PICK X \in F : \A Y \in F : <<Y, X>> \notin StrictSubsetOrdering(Nat)
  <2> HIDE DEF F
  <2> QED
    BY <1>1, FS_StrictSubsetOrderingWellFounded, WFMin
<1>3. PICK m \in T : X = 0..m
  OBVIOUS
<1>4. ASSUME NEW n \in T, n < m
      PROVE  <<0..n, 0..m>> \in StrictSubsetOrdering(Nat)
  <2>1. m \in 0..m /\ m \notin 0..n
    BY <1>4
  <2>2. 0..n \subseteq 0..m /\ 0..m \subseteq Nat
    BY <1>4
  <2> QED
    BY <2>1, <2>2 DEF StrictSubsetOrdering
<1>5. \A n \in T : ~(n < m)
  BY <1>2, <1>3, <1>4
<1> QED
  BY <1>5

(* The newlines in a stretch of a text: each place counts by itself.       *)
LEMMA Counting ==
  ASSUME NEW text, NEW i \in Int, NEW j \in Int
  PROVE  /\ Newlines(text, i, j) \in Nat
         /\ j < i => Newlines(text, i, j) = 0
         /\ i <= j + 1 =>
              Newlines(text, i, j + 1)
                = Newlines(text, i, j) + (IF text[j + 1] = "LF" THEN 1 ELSE 0)
         /\ i - 1 <= j =>
              Newlines(text, i - 1, j)
                = Newlines(text, i, j) + (IF text[i - 1] = "LF" THEN 1 ELSE 0)
<1> DEFINE N(a, b) == {k \in a..b : text[k] = "LF"}
<1>1. \A a \in Int, b \in Int :
        IsFiniteSet(N(a, b)) /\ Cardinality(N(a, b)) \in Nat
  <2>1. \A a \in Int, b \in Int : IsFiniteSet(a..b)
    BY FS_Interval
  <2> QED
    BY <2>1, FS_Subset, FS_CardinalityType
<1>2. \A a \in Int, b \in Int : Newlines(text, a, b) = Cardinality(N(a, b))
  BY DEF Newlines
<1>3. ASSUME j < i PROVE Newlines(text, i, j) = 0
  <2>1. N(i, j) = {}
    BY <1>3
  <2> QED
    BY <1>2, <2>1, FS_EmptySet
<1>4. ASSUME i <= j + 1
      PROVE  Newlines(text, i, j + 1)
               = Newlines(text, i, j) + (IF text[j + 1] = "LF" THEN 1 ELSE 0)
  <2>1. j + 1 \notin N(i, j) /\ j + 1 \in Int
    OBVIOUS
  <2>2. CASE text[j + 1] = "LF"
    <3>1. N(i, j + 1) = N(i, j) \cup {j + 1}
      BY <1>4, <2>2
    <3> HIDE DEF N
    <3>2. IsFiniteSet(N(i, j))
      BY <1>1
    <3>3. Cardinality(N(i, j + 1)) = Cardinality(N(i, j)) + 1
      BY <2>1, <3>1, <3>2, FS_AddElement
    <3>4. j + 1 \in Int
      OBVIOUS
    <3> QED
      BY <1>2, <2>2, <3>3, <3>4
  <2>3. CASE text[j + 1] # "LF"
    <3>1. N(i, j + 1) = N(i, j)
      BY <1>4, <2>3
    <3> HIDE DEF N
    <3> QED
      BY <1>1, <1>2, <2>1, <2>3, <3>1
  <2> QED
    BY <2>2, <2>3
<1>5. ASSUME i - 1 <= j
      PROVE  Newlines(text, i - 1, j)
               = Newlines(text, i, j) + (IF text[i - 1] = "LF" THEN 1 ELSE 0)
  <2>1. i - 1 \notin N(i, j) /\ i - 1 \in Int
    OBVIOUS
  <2>2. CASE text[i - 1] = "LF"
    <3>1. N(i - 1, j) = N(i, j) \cup {i - 1}
      BY <1>5, <2>2
    <3> HIDE DEF N
    <3>2. IsFiniteSet(N(i, j))
      BY <1>1
    <3>3. Cardinality(N(i - 1, j)) = Cardinality(N(i, j)) + 1
      BY <2>1, <3>1, <3>2, FS_AddElement
    <3>4. i - 1 \in Int
      OBVIOUS
    <3> QED
      BY <1>2, <2>2, <3>3, <3>4
  <2>3. CASE text[i - 1] # "LF"
    <3>1. N(i - 1, j) = N(i, j)
      BY <1>5, <2>3
    <3> HIDE DEF N
    <3> QED
      BY <1>1, <1>2, <2>1, <2>3, <3>1
  <2> QED
    BY <2>2, <2>3
<1> QED
  BY <1>1, <1>2, <1>3, <1>4, <1>5

(* A newline further on is one more.                                       *)
LEMMA CountsUp ==
  ASSUME NEW text, NEW i \in Int, NEW j \in Int, NEW k \in Int, j <= k,
         NEW q \in (j + 1)..k, text[q] = "LF", i <= q
  PROVE  Newlines(text, i, j) < Newlines(text, i, k)
<1> DEFINE A == {x \in i..j : text[x] = "LF"}
           B == {x \in i..k : text[x] = "LF"}
<1>1. IsFiniteSet(B)
  <2>1. IsFiniteSet(i..k)
    BY FS_Interval
  <2> QED
    BY <2>1, FS_Subset
<1>2. A \subseteq B /\ A # B
  <2>1. q \in B /\ q \notin A
    OBVIOUS
  <2> QED
    BY <2>1
<1>3. Cardinality(A) < Cardinality(B)
  <2>1. Cardinality(A) <= Cardinality(B) /\ IsFiniteSet(A)
    BY <1>1, <1>2, FS_Subset
  <2>2. Cardinality(A) # Cardinality(B)
    BY <1>1, <1>2, FS_Subset
  <2>3. Cardinality(A) \in Nat /\ Cardinality(B) \in Nat
    BY <1>1, <2>1, FS_CardinalityType
  <2> QED
    BY <2>1, <2>2, <2>3
<1> QED
  BY <1>3 DEF Newlines

(* What k calls of fgets have read ends with a line.                       *)
LEMMA LeadIs ==
  ASSUME NEW text \in Seq(AllBytes), NEW k \in Int
  PROVE  LET i == Lead(text, k) IN
         /\ i \in 0..Len(text) /\ EndOf(text, i)
         /\ i = Len(text) \/ Newlines(text, 1, i) >= k
         /\ \A j \in 0..(i - 1) : Newlines(text, 1, j) < k
<1> DEFINE m == Len(text)
           T == {i \in 0..m : i = m \/ Newlines(text, 1, i) >= k}
           i == Lead(text, k)
<1>1. m \in Nat
  BY LenProperties
<1> HIDE DEF m
<1>2. T \in SUBSET Nat /\ m \in T
  BY <1>1
<1>3. i \in T /\ \A n \in T : i <= n
  <2>1. \E x \in T : \A n \in T : x <= n
    BY <1>2, LeastNumber
  <2>2. i = Min(T)
    BY DEF Lead, m
  <2> HIDE DEF T, i
  <2> QED
    BY <2>1, <2>2 DEF Min
<1> HIDE DEF i
<1>4. ASSUME NEW j \in 0..(i - 1) PROVE Newlines(text, 1, j) < k
  <2>1. j \in 0..m /\ ~(i <= j) /\ j # m /\ j \in Int
    BY <1>1, <1>3
  <2>2. j \notin T
    BY <1>3, <2>1
  <2>3. Newlines(text, 1, j) \in Nat
    <3>1. 1 \in Int /\ j \in Int
      BY <2>1
    <3> QED
      BY <3>1, Counting
  <2> QED
    BY <2>1, <2>2, <2>3
<1>5. ASSUME i # 0, i # m PROVE text[i] = "LF"
  <2>1. i \in Int /\ i - 1 \in 0..(i - 1) /\ Newlines(text, 1, i) >= k /\ (i - 1) + 1 = i
    BY <1>1, <1>3, <1>5
  <2>2. Newlines(text, 1, i - 1) < k
    BY <1>4, <2>1
  <2>3. Newlines(text, 1, i)
          = Newlines(text, 1, i - 1) + (IF text[i] = "LF" THEN 1 ELSE 0)
    <3>1. i - 1 \in Int /\ 1 <= (i - 1) + 1 /\ 1 \in Int
      BY <2>1
    <3>2. \A b \in Int : 1 <= b + 1 =>
            Newlines(text, 1, b + 1)
              = Newlines(text, 1, b) + (IF text[b + 1] = "LF" THEN 1 ELSE 0)
      BY <3>1, Counting
    <3> QED
      BY <2>1, <3>1, <3>2
  <2>4. Newlines(text, 1, i - 1) \in Nat
    <3>1. 1 \in Int /\ i - 1 \in Int
      BY <2>1
    <3> QED
      BY <3>1, Counting
  <2> QED
    BY <2>1, <2>2, <2>3, <2>4
<1> QED
  BY <1>3, <1>4, <1>5 DEF EndOf, m, i

(* The two pieces that an edit cuts a text into.                           *)
LEMMA Cuts ==
  ASSUME NEW text \in Seq(AllBytes), NEW i \in 0..Len(text)
  PROVE  /\ SubSeq(text, 1, i) \in Seq(AllBytes)
         /\ SubSeq(text, i + 1, Len(text)) \in Seq(AllBytes)
<1>1. Len(text) \in Nat /\ i \in Nat /\ \A x \in 1..Len(text) : text[x] \in AllBytes
  BY LenProperties
<1>2. /\ \A x \in 1..i : text[x] \in AllBytes
      /\ \A x \in (i + 1)..Len(text) : text[x] \in AllBytes
  BY <1>1
<1> QED
  BY <1>1, <1>2, SubSeqProperties

(* The loop of -d leaves out one line, or none.                            *)
LEMMA DeletedIsEdit ==
  ASSUME NEW text \in Seq(AllBytes), NEW n \in Int
  PROVE  Deleted(text, n) \in Seq(AllBytes) /\ IsEdit(text, Deleted(text, n))
<1> DEFINE k == IF n < 1 THEN 1 ELSE n
           i == Lead(text, n - 1)
           j == Lead(text, k)
<1>1. Deleted(text, n) = SubSeq(text, 1, i) \o SubSeq(text, j + 1, Len(text))
  <2>1. (IF n < 1 THEN 2 ELSE n + 1) - 1 = k
    OBVIOUS
  <2> QED
    BY <2>1 DEF Deleted, Before, From
<1>2. /\ i \in 0..Len(text) /\ EndOf(text, i)
      /\ i = Len(text) \/ Newlines(text, 1, i) >= n - 1
  BY LeadIs
<1>3. /\ j \in 0..Len(text) /\ EndOf(text, j)
      /\ \A x \in 0..(j - 1) : Newlines(text, 1, x) < k
  <2>1. k \in Int
    OBVIOUS
  <2> HIDE DEF k
  <2> QED
    BY <2>1, LeadIs
<1>4. Len(text) \in Nat
  BY LenProperties
<1> HIDE DEF i, j
<1>5. ASSUME NEW x \in (i + 1)..(j - 1), text[x] = "LF" PROVE FALSE
  <2>1. x \in Int /\ i \in Int /\ i < x /\ x <= j - 1 /\ i # Len(text) /\ x >= 1
    BY <1>2, <1>3, <1>4
  <2>2. Newlines(text, 1, i) < Newlines(text, 1, x)
    BY <1>5, <2>1, CountsUp
  <2>3. Newlines(text, 1, x) < k
    BY <1>3, <2>1
  <2>4. Newlines(text, 1, i) \in Nat /\ Newlines(text, 1, x) \in Nat
    BY <2>1, Counting
  <2> QED
    BY <1>2, <2>1, <2>2, <2>3, <2>4
<1>6. \A x \in (i + 1)..(j - 1) : ~EndOf(text, x)
  BY <1>2, <1>3, <1>4, <1>5 DEF EndOf
<1>7. IsEdit(text, SubSeq(text, 1, i) \o SubSeq(text, j + 1, Len(text)))
  BY <1>2, <1>3, <1>6 DEF IsEdit
<1> QED
  BY <1>1, <1>2, <1>3, <1>7, Cuts, ConcatProperties

(* The loop of -i puts in one line, after the last one at the latest.      *)
LEMMA InsertedIsEdit ==
  ASSUME NEW text \in Seq(AllBytes), NEW n \in Int, NEW p \in Procs
  PROVE  /\ Inserted(text, n, Line(p)) \in Seq(AllBytes)
         /\ IsEdit(text, Inserted(text, n, Line(p)))
<1> DEFINE i == Lead(text, n - 1)
           a == SubSeq(text, 1, i)
           c == SubSeq(text, i + 1, Len(text))
<1>1. Inserted(text, n, Line(p)) = a \o Line(p) \o c
  BY DEF Inserted, Before, From
<1>2. i \in 0..Len(text) /\ EndOf(text, i)
  BY LeadIs
<1> HIDE DEF i
<1>3. a \in Seq(AllBytes) /\ c \in Seq(AllBytes) /\ Line(p) \in Seq(AllBytes)
  BY <1>2, Cuts DEF Line, AllBytes
<1>4. IsEdit(text, a \o Line(p) \o c)
  BY <1>2 DEF IsEdit
<1> HIDE DEF a, c
<1> QED
  BY <1>1, <1>3, <1>4, ConcatProperties

-----------------------------------------------------------------------------
(* Types are kept                                                          *)

(* A step of one process puts a record in its place.                       *)
LEMMA GotoKeeps ==
  ASSUME ProcOK, NEW p \in Procs, NEW r \in ProcType, Equipped(r),
         proc' = [proc EXCEPT ![p] = r]
  PROVE  ProcOK'
BY DEF ProcOK, Equipped

(* A process that runs nothing.                                            *)
LEMMA IdleType == Idle \in ProcType /\ Equipped(Idle) /\ ~Writing(Idle)
<1>1. <<>> \in Seq(Words)
  OBVIOUS
<1> QED
  BY <1>1 DEF Idle, ProcType, Equipped, HasName, HasOld, HasNew, HasText, HasLine, Writing

(* Lines are words, and a process may type its own.                        *)
LEMMA WordTypes ==
  /\ AllBytes \subseteq Words /\ Names \subseteq Words /\ Procs \subseteq AllBytes
  /\ \A t \in Seq(AllBytes) : t \in Seq(Words)
  /\ \A t \in Seq(Names) : t \in Seq(Words)
  /\ \A p \in Procs :
       Line(p) \in Seq(AllBytes) /\ Line(p) # <<>> /\ Len(Line(p)) = 2
  /\ <<>> \in Seq(AllBytes)
<1>1. AllBytes \subseteq Words /\ Names \subseteq Words /\ Procs \subseteq AllBytes
  BY DEF AllBytes, Words
<1>2. ASSUME NEW S, NEW t \in Seq(S), S \subseteq Words PROVE t \in Seq(Words)
  BY <1>2
<1>3. \A p \in Procs : Line(p) \in Seq(AllBytes) /\ Line(p) # <<>> /\ Len(Line(p)) = 2
  <2>1. "LF" \in AllBytes
    BY DEF AllBytes
  <2> QED
    BY <1>1, <2>1 DEF Line
<1> QED
  BY <1>1, <1>2, <1>3

(* Every start and step of kamned keeps the types.                         *)
LEMMA EditorStartTypes ==
  ASSUME TypeInv, NEW p \in Procs, EditorStarts(p)
  PROVE  TypeInv'
<1> USE DEF TypeInv
<1>1. ASSUME NEW name \in Names, AppendOpen(p, name) PROVE TypeInv'
  <2> DEFINE i == IF Follow(name) = 0 THEN FreeInode ELSE Follow(name)
             r == [Idle EXCEPT !.pc = "append", !.left = MaxTyped, !.old = i]
  <2>1. proc' = [proc EXCEPT ![p] = r]
    BY <1>1 DEF AppendOpen, Goto
  <2>2. DiskOK' /\ i \in Inodes
    <3>1. CASE Follow(name) = 0
      <4>1. disk' = Created(name, AppendMode)
        BY <1>1, <3>1 DEF AppendOpen
      <4>2. AppendMode \in SUBSET Bits
        BY DEF AppendMode, ReadWrite, Bits
      <4> QED
        BY <3>1, <4>1, <4>2, CreatedKeeps
    <3>2. CASE Follow(name) # 0
      <4>1. disk' = disk
        BY <1>1, <3>2 DEF AppendOpen
      <4> QED
        BY <3>2, <4>1, PathType DEF DiskOK
    <3> QED
      BY <3>1, <3>2
  <2> HIDE DEF i
  <2>4. MaxTyped \in Int
    BY FilesAssumption
  <2>3. r \in ProcType /\ Equipped(r)
    BY <2>2, <2>4, IdleType
       DEF Idle, ProcType, Equipped, HasName, HasOld, HasNew, HasText, HasLine
  <2> QED
    BY <2>1, <2>2, <2>3, GotoKeeps
<1>2. ASSUME NEW name \in Names, NEW n \in Numbers, NEW line \in {<<>>, Line(p)},
             Stat(p, name, n, line)
      PROVE  TypeInv'
  <2> DEFINE mode == disk.inode[Follow(name)].mode
             r == [Idle EXCEPT !.pc = "openNew", !.name = name, !.n = n,
                               !.text = line, !.mode = mode]
  <2>1. proc' = [proc EXCEPT ![p] = r] /\ disk' = disk
    BY <1>2 DEF Stat, Goto
  <2>2. mode \in SUBSET Bits
    BY <1>2, PathType, InodeType DEF Stat
  <2>3. line \in Seq(AllBytes) /\ line \in Seq(Words) /\ line \in LineOrNone /\ n \in Int
    BY WordTypes, FilesAssumption DEF LineOrNone
  <2> HIDE DEF mode
  <2>4. r \in ProcType /\ Equipped(r)
    BY <2>2, <2>3, IdleType
       DEF Idle, ProcType, Equipped, HasName, HasOld, HasNew, HasText, HasLine
  <2> QED
    BY <2>1, <2>4, GotoKeeps DEF DiskOK
<1> QED
  BY <1>1, <1>2 DEF EditorStarts

(* So does every step of it.                                               *)
LEMMA EditorStepTypes ==
  ASSUME TypeInv, NEW p \in Procs, EditorStep(p)
  PROVE  TypeInv'
<1> USE DEF TypeInv
<1> DEFINE r == proc[p]
<1>1. r \in ProcType /\ Equipped(r)
  BY DEF ProcOK
<1>2. ASSUME disk' = disk PROVE DiskOK'
  BY <1>2 DEF DiskOK
<1>3. ASSUME proc' = [proc EXCEPT ![p] = Idle] PROVE ProcOK'
  BY <1>3, IdleType, GotoKeeps
<1> USE DEF ProcType, Equipped, HasName, HasOld, HasNew, HasText, HasLine
<1>4. CASE AppendLine(p)
  <2>1. /\ proc' = [proc EXCEPT ![p] = [r EXCEPT !.left = @ - 1]]
        /\ r.pc = "append" /\ disk' = Written(r.old, Line(p))
    BY <1>4 DEF AppendLine, Goto
  <2>2. DiskOK'
    BY <1>1, <2>1, WordTypes, WrittenKeeps
  <2>3. \A n \in Int : [r EXCEPT !.left = n] \in ProcType
                         /\ Equipped([r EXCEPT !.left = n])
    BY <1>1
  <2>4. r.left - 1 \in Int
    <3>1. r.left \in Int
      BY <1>1
    <3> HIDE DEF r
    <3> QED
      BY <3>1
  <2> DEFINE new == [r EXCEPT !.left = @ - 1]
  <2>5. new \in ProcType /\ Equipped(new)
    BY <2>3, <2>4
  <2> HIDE DEF new, Equipped
  <2>6. proc' = [proc EXCEPT ![p] = new]
    BY <2>1 DEF new
  <2> QED
    BY <2>2, <2>5, <2>6, GotoKeeps
<1>5. CASE AppendEnd(p)
  BY <1>2, <1>3, <1>5 DEF AppendEnd, Goto
<1>6. CASE OpenNew(p)
  <2> DEFINE i == disk.entry["new_file"]
             new == IF i = 0 THEN FreeInode ELSE i
  <2>1. /\ proc' = [proc EXCEPT ![p] = [r EXCEPT !.pc = "openOld", !.new = new]]
        /\ r.pc = "openNew"
        /\ disk' = IF i = 0 THEN Created("new_file", r.mode) ELSE Emptied(i)
    BY <1>6 DEF OpenNew, Opened, Goto
  <2>2. "new_file" \in Names /\ Follow("new_file") = i /\ i \in Inodes \cup {0}
    BY PathType DEF Names
  <2>3. DiskOK' /\ new \in Inodes
    <3>1. CASE i = 0
      BY <1>1, <2>1, <2>2, <3>1, CreatedKeeps
    <3>2. CASE i # 0
      BY <2>1, <2>2, <3>2, EmptiedKeeps
    <3> QED
      BY <3>1, <3>2
  <2> HIDE DEF new
  <2>4. [r EXCEPT !.pc = "openOld", !.new = new] \in ProcType
        /\ Equipped([r EXCEPT !.pc = "openOld", !.new = new])
    BY <1>1, <2>1, <2>3
  <2> QED
    BY <2>1, <2>3, <2>4, GotoKeeps
<1>7. CASE OpenOld(p)
  <2> DEFINE old == Follow(r.name)
  <2>1. /\ proc' = [proc EXCEPT ![p] = [r EXCEPT !.pc = "copy", !.old = old]]
        /\ r.pc = "openOld" /\ old # 0 /\ disk' = disk
    BY <1>7 DEF OpenOld, Goto, Readable
  <2>2. old \in Inodes
    BY <1>1, <2>1, PathType
  <2> HIDE DEF old
  <2>3. [r EXCEPT !.pc = "copy", !.old = old] \in ProcType
        /\ Equipped([r EXCEPT !.pc = "copy", !.old = old])
    BY <1>1, <2>1, <2>2
  <2> QED
    BY <1>2, <2>1, <2>3, GotoKeeps
<1>8. CASE OpenFails(p)
  BY <1>2, <1>3, <1>8 DEF OpenFails, Goto
<1>9. CASE Copy(p)
  <2> DEFINE text == disk.inode[r.old].text
             new == IF r.text = <<>> THEN Deleted(text, r.n)
                    ELSE Inserted(text, r.n, r.text)
  <2>1. /\ proc' = [proc EXCEPT ![p] = [r EXCEPT !.pc = "close", !.text = new]]
        /\ r.pc = "copy" /\ disk' = disk
    BY <1>9 DEF Copy, Goto
  <2>2. text \in Seq(AllBytes) /\ r.n \in Int
    BY <1>1, <2>1, InodeType
  <2>3. r.text # <<>> => \E q \in Procs : r.text = Line(q)
    BY <1>1, <2>1 DEF LineOrNone
  <2> HIDE DEF text
  <2>4. new \in Seq(AllBytes) /\ new \in Seq(Words)
    BY <2>2, <2>3, DeletedIsEdit, InsertedIsEdit, WordTypes
  <2> HIDE DEF new
  <2>5. [r EXCEPT !.pc = "close", !.text = new] \in ProcType
        /\ Equipped([r EXCEPT !.pc = "close", !.text = new])
    BY <1>1, <2>1, <2>4
  <2> QED
    BY <1>2, <2>1, <2>5, GotoKeeps
<1>10. CASE CloseNew(p)
  <2>1. /\ proc' = [proc EXCEPT ![p] = [r EXCEPT !.pc = "unlink", !.old = 0, !.new = 0]]
        /\ r.pc = "close" /\ disk' = Written(r.new, r.text)
    BY <1>10 DEF CloseNew, Goto
  <2>2. r.text = <<>> => disk' = disk
    BY <2>1 DEF Written
  <2>3. DiskOK'
    BY <1>1, <1>2, <2>1, <2>2, WrittenKeeps
  <2>4. [r EXCEPT !.pc = "unlink", !.old = 0, !.new = 0] \in ProcType
        /\ Equipped([r EXCEPT !.pc = "unlink", !.old = 0, !.new = 0])
    BY <1>1, <2>1
  <2> QED
    BY <2>1, <2>3, <2>4, GotoKeeps
<1>11. CASE Unlink(p)
  <2>1. /\ proc' = [proc EXCEPT ![p] = [r EXCEPT !.pc = "rename"]]
        /\ r.pc = "unlink" /\ disk' = Unlinked(r.name)
    BY <1>11 DEF Unlink, Goto
  <2>2. DiskOK'
    BY <1>1, <2>1, UnlinkedKeeps
  <2>3. [r EXCEPT !.pc = "rename"] \in ProcType /\ Equipped([r EXCEPT !.pc = "rename"])
    BY <1>1, <2>1
  <2> QED
    BY <2>1, <2>2, <2>3, GotoKeeps
<1>12. CASE Rename(p)
  <2>1. r.pc = "rename" /\ disk' = Renamed("new_file", r.name)
    BY <1>12 DEF Rename, Goto
  <2>2. DiskOK'
    BY <1>1, <2>1, RenamedKeeps
  <2> QED
    BY <1>3, <1>12, <2>2 DEF Rename, Goto
<1>13. CASE NewFails(p)
  BY <1>2, <1>3, <1>13 DEF NewFails, Goto
<1> QED
  BY <1>4, <1>5, <1>6, <1>7, <1>8, <1>9, <1>10, <1>11, <1>12, <1>13 DEF EditorStep

(* The names there are, in some order.                                     *)
LEMMA ListType ==
  ASSUME NEW S \in SUBSET Names
  PROVE  SetToSeq(S) \in Seq(Names)
<1> DEFINE n == Cardinality(S)
<1>1. IsFiniteSet(S) /\ n \in Nat
  BY ThreeNames, FS_Subset, FS_CardinalityType
<1>2. ExistsBijection(1..n, S)
  BY <1>1, FS_CardinalityType
<1>3. \E f \in [1..n -> S] : IsInjective(f)
  BY <1>2, Zenon DEF ExistsBijection, Bijection, Injection
<1>4. SetToSeq(S) \in [1..n -> S]
  BY <1>3, Zenon DEF SetToSeq
<1> QED
  BY <1>1, <1>4

(* What lstat says of a name that is there.                                *)
LEMMA LstatType ==
  ASSUME DiskOK, NEW name \in Names, disk.entry[name] # 0
  PROVE  Type(name) \in {"-", "l"} /\ LstatMode(name) \in SUBSET Bits
BY PathType, InodeType DEF Type, LstatMode

(* A printed row.                                                          *)
LEMMA PrintsKeeps ==
  ASSUME PrintedOK, NEW p \in Procs, NEW type \in {"-", "l"},
         NEW mode \in SUBSET Bits, Prints(p, Row(type, mode))
  PROVE  PrintedOK'
<1>1. Row(type, mode).mode = mode
  BY DEF Row
<1>2. IsRow(Row(type, mode))
  BY <1>1 DEF IsRow, Words, Names
<1>3. /\ DOMAIN printed = Procs
      /\ printed' = [printed EXCEPT ![p] = Row(type, mode)]
  BY DEF PrintedOK, Prints
<1> QED
  BY <1>2, <1>3 DEF PrintedOK, IsRow

(* Starts of mojChmod and list.                                            *)
LEMMA ModeStartTypes ==
  ASSUME TypeInv, NEW p \in Procs, ModeStarts(p)
  PROVE  TypeInv'
<1> USE DEF TypeInv
<1>1. disk' = disk /\ DiskOK'
  BY DEF ModeStarts, ListOpen, Lstat, DiskOK
<1>2. CASE ListOpen(p)
  <2> DEFINE names == SetToSeq({x \in Names : disk.entry[x] # 0})
             r == [Idle EXCEPT !.pc = "list", !.text = names]
  <2>1. proc' = [proc EXCEPT ![p] = r]
    BY <1>2 DEF ListOpen, Goto
  <2>2. names \in Seq(Names) /\ names \in Seq(Words)
    BY ListType, WordTypes
  <2> HIDE DEF names
  <2>3. r \in ProcType /\ Equipped(r)
    BY <2>2, IdleType
       DEF Idle, ProcType, Equipped, HasName, HasOld, HasNew, HasText, HasLine
  <2> QED
    BY <1>1, <2>1, <2>3, GotoKeeps
<1>3. ASSUME NEW name \in Names, NEW pc \in {"chmod", "octal"},
             NEW mode \in SUBSET Bits, Lstat(p, name, pc, mode)
      PROVE  TypeInv'
  <2> DEFINE type == Type(name)
             r == [Idle EXCEPT !.pc = pc, !.name = name, !.text = <<type>>,
                               !.mode = mode]
  <2>1. proc' = [proc EXCEPT ![p] = r] /\ disk.entry[name] # 0
    BY <1>3 DEF Lstat, Goto
  <2>2. type \in {"-", "l"}
    BY <2>1, LstatType
  <2> HIDE DEF type
  <2>3. <<type>> \in Seq(Words)
    BY <2>2 DEF Words, Names
  <2>4. r \in ProcType /\ Equipped(r)
    BY <2>2, <2>3, IdleType
       DEF Idle, ProcType, Equipped, HasName, HasOld, HasNew, HasText, HasLine
  <2> QED
    BY <1>1, <2>1, <2>4, GotoKeeps
<1>4. ASSUME NEW name \in Names, NEW change \in SymbolicModes,
             disk.entry[name] # 0
      PROVE  Changed(LstatMode(name), change) \in SUBSET Bits
  BY <1>4, LstatType DEF Changed, SymbolicModes, Bits
<1>5. Octals \subseteq SUBSET Bits
  BY FilesAssumption
<1> QED
  BY <1>2, <1>3, <1>4, <1>5 DEF ModeStarts, Lstat

(* Steps of mojChmod and list.                                             *)
LEMMA ModeStepTypes ==
  ASSUME TypeInv, PrintedOK, NEW p \in Procs, ModeStep(p)
  PROVE  TypeInv' /\ PrintedOK'
<1> USE DEF TypeInv
<1> DEFINE r == proc[p]
<1>1. r \in ProcType /\ Equipped(r)
  BY DEF ProcOK
<1>2. ASSUME disk' = disk PROVE DiskOK'
  BY <1>2 DEF DiskOK
<1>3. ASSUME proc' = [proc EXCEPT ![p] = Idle] PROVE ProcOK'
  BY <1>3, IdleType, GotoKeeps
<1>4. ASSUME printed' = printed PROVE PrintedOK'
  BY <1>4 DEF PrintedOK, IsRow
<1>5. ASSUME r.pc \in {"chmod", "octal"}, Follow(r.name) # 0, ChangeMode(p)
      PROVE  DiskOK'
  <2>1. r.name \in Names /\ r.mode \in SUBSET Bits
    BY <1>1, <1>5 DEF Equipped, HasName, ProcType
  <2>2. Follow(r.name) \in Inodes
    BY <1>5, <2>1, PathType
  <2> QED
    BY <1>5, <2>1, <2>2, ChmodKeeps DEF ChangeMode
<1>6. CASE SymbolicChmod(p)
  <2>1. r.pc = "chmod" /\ Follow(r.name) # 0 /\ ChangeMode(p)
    BY <1>6 DEF SymbolicChmod, Goto
  <2>2. r.text[1] \in {"-", "l"} /\ r.mode \in SUBSET Bits
    <3>1. r.mode \in SUBSET Bits
      BY <1>1 DEF ProcType
    <3>2. PICK type \in {"-", "l"} : r.text = <<type>>
      BY <1>1, <2>1 DEF Equipped
    <3>3. <<type>>[1] = type
      OBVIOUS
    <3> QED
      BY <3>1, <3>2, <3>3
  <2>3. PrintedOK'
    BY <1>6, <2>2, PrintsKeeps DEF SymbolicChmod
  <2> QED
    BY <1>3, <1>5, <1>6, <2>1, <2>3 DEF SymbolicChmod, Goto
<1>7. CASE OctalChmod(p)
  <2>1. /\ r.pc = "octal" /\ Follow(r.name) # 0 /\ ChangeMode(p)
        /\ proc' = [proc EXCEPT ![p] = [r EXCEPT !.pc = "lstat"]]
        /\ printed' = printed
    BY <1>7 DEF OctalChmod, Goto
  <2>2. [r EXCEPT !.pc = "lstat"] \in ProcType /\ Equipped([r EXCEPT !.pc = "lstat"])
    BY <1>1, <2>1 DEF ProcType, Equipped, HasName, HasOld, HasNew, HasText, HasLine
  <2> QED
    BY <1>4, <1>5, <2>1, <2>2, GotoKeeps
<1>8. CASE ChmodFails(p)
  BY <1>2, <1>3, <1>4, <1>8 DEF ChmodFails, Goto
<1>9. CASE LstatAgain(p)
  <2>1. r.pc = "lstat" /\ disk' = disk /\ proc' = [proc EXCEPT ![p] = Idle]
    BY <1>9 DEF LstatAgain, Goto
  <2>2. r.name \in Names
    BY <1>1, <2>1 DEF Equipped, HasName
  <2>3. CASE disk.entry[r.name] = 0
    BY <1>2, <1>3, <1>4, <1>9, <2>1, <2>3 DEF LstatAgain
  <2>4. CASE disk.entry[r.name] # 0
    <3>1. Prints(p, Row(Type(r.name), LstatMode(r.name)))
      BY <1>9, <2>4 DEF LstatAgain
    <3>2. PrintedOK'
      BY <2>2, <2>4, <3>1, LstatType, PrintsKeeps
    <3> QED
      BY <1>2, <1>3, <2>1, <3>2
  <2> QED
    BY <2>3, <2>4
<1>10. CASE ListRow(p)
  <2>1. r.pc = "list" /\ disk' = disk
    BY <1>10 DEF ListRow
  <2>2. r.text \in Seq(Names)
    BY <1>1, <2>1 DEF Equipped
  <2>3. CASE r.text = <<>> \/ disk.entry[Head(r.text)] = 0
    BY <1>2, <1>3, <1>4, <1>10, <2>1, <2>3 DEF ListRow, Goto
  <2>4. CASE ~(r.text = <<>> \/ disk.entry[Head(r.text)] = 0)
    <3> DEFINE name == Head(r.text)
               new == [r EXCEPT !.text = Tail(r.text)]
    <3>1. /\ proc' = [proc EXCEPT ![p] = new]
          /\ Prints(p, Row(Type(name), LstatMode(name)))
      BY <1>10, <2>4 DEF ListRow, Goto
    <3>2. name \in Names /\ Tail(r.text) \in Seq(Names)
      BY <2>2, <2>4, HeadTailProperties
    <3>3. PrintedOK'
      BY <2>4, <3>1, <3>2, LstatType, PrintsKeeps
    <3>4. Tail(r.text) \in Seq(Words)
      BY <3>2, WordTypes
    <3>5. new \in ProcType /\ Equipped(new)
      BY <1>1, <2>1, <3>2, <3>4
         DEF ProcType, Equipped, HasName, HasOld, HasNew, HasText, HasLine
    <3> QED
      BY <1>2, <2>1, <3>1, <3>3, <3>5, GotoKeeps
  <2> QED
    BY <2>3, <2>4
<1> QED
  BY <1>6, <1>7, <1>8, <1>9, <1>10 DEF ModeStep

(* The smaller of two numbers.                                             *)
LEMMA Smaller ==
  ASSUME NEW a \in Int, NEW b \in Int
  PROVE  Min({a, b}) = IF a <= b THEN a ELSE b
BY DEF Min

(* rep.                                                                    *)
LEMMA RepTypes ==
  ASSUME TypeInv, NEW p \in Procs, RepStarts(p) \/ RepStep(p)
  PROVE  TypeInv' /\ disk' = disk
<1> USE DEF TypeInv
<1> DEFINE r == proc[p]
<1>1. r \in ProcType /\ Equipped(r)
  BY DEF ProcOK
<1>2. disk' = disk /\ DiskOK'
  BY DEF RepStarts, RepStep, RepOpen, RepScan, RepFails, RepPrints, RepEnd,
         RepClose, DiskOK
<1>3. ASSUME proc' = [proc EXCEPT ![p] = Idle] PROVE ProcOK'
  BY <1>3, IdleType, GotoKeeps
<1>4. ASSUME NEW name \in Names, NEW n \in Counts, RepOpen(p, name, n)
      PROVE  TypeInv'
  <2> DEFINE old  == Follow(name)
             size == Len(disk.inode[old].text)
             new == [Idle EXCEPT !.pc = "scan", !.old = old, !.left = n,
                       !.offset = size - 1, !.pos = size]
  <2>1. proc' = [proc EXCEPT ![p] = new] /\ old # 0
    BY <1>4 DEF RepOpen, Goto, Readable
  <2>2. old \in Inodes /\ n \in Int
    BY <2>1, PathType, FilesAssumption
  <2>3. size \in Nat /\ size - 1 \in Int
    BY <2>2, InodeType, LenProperties
  <2> HIDE DEF old, size
  <2>4. new \in ProcType /\ Equipped(new)
    BY <2>2, <2>3, IdleType
       DEF Idle, ProcType, Equipped, HasName, HasOld, HasNew, HasText, HasLine
  <2> QED
    BY <1>2, <2>1, <2>4, GotoKeeps
<1>5. ASSUME r.pc = "scan", NEW pc \in {"scan", "closeRep"}, NEW left \in Int,
             NEW offset \in Int, NEW pos \in Nat
      PROVE  LET x == [r EXCEPT !.pc = pc, !.left = left, !.offset = offset,
                                !.pos = pos]
             IN  x \in ProcType /\ Equipped(x)
  <2> DEFINE x == [r EXCEPT !.pc = pc, !.left = left, !.offset = offset,
                            !.pos = pos]
  <2>1. x \in ProcType
    BY <1>1 DEF ProcType, HasOld
  <2>2. x.pc = pc /\ x.old = r.old
    BY <1>1 DEF ProcType
  <2>3. r.old \in Inodes
    BY <1>1, <1>5 DEF Equipped, HasOld
  <2> HIDE DEF x, r
  <2>4. Equipped(x)
    BY <2>2, <2>3 DEF Equipped, HasName, HasNew, HasText, HasLine
  <2> QED
    BY <2>1, <2>4 DEF x
<1>6. r.offset \in Int /\ r.pos \in Nat /\ r.left \in Int
  BY <1>1 DEF ProcType
<1>7. CASE RepScan(p)
  <2> DEFINE at == IF r.offset >= 0 THEN r.offset ELSE r.pos
             left == IF disk.inode[r.old].text[at + 1] = "LF"
                     THEN r.left - 1 ELSE r.left
             new == [r EXCEPT !.pc = "scan", !.left = left,
                              !.offset = r.offset - 1, !.pos = at + 1]
  <2>1. proc' = [proc EXCEPT ![p] = new] /\ r.pc = "scan"
    <3>1. proc' = [proc EXCEPT ![p] =
            [r EXCEPT !.left = left, !.offset = @ - 1, !.pos = at + 1]]
          /\ r.pc = "scan"
      BY <1>7 DEF RepScan, Goto
    <3> HIDE DEF left, at
    <3> QED
      BY <1>1, <3>1 DEF ProcType
  <2>2. r.offset - 1 \in Int /\ at + 1 \in Nat /\ left \in Int
    <3> HIDE DEF r
    <3> QED
      BY <1>6
  <2>3. new \in ProcType /\ Equipped(new)
    <3> HIDE DEF left, at
    <3> QED
      BY <1>5, <2>1, <2>2
  <2> HIDE DEF new
  <2> QED
    BY <1>2, <2>1, <2>3, GotoKeeps
<1>8. CASE RepPrints(p)
  <2> DEFINE end == Min({r.pos + Chunk, Len(disk.inode[r.old].text)})
             new == [r EXCEPT !.pc = "scan", !.left = r.left,
                              !.offset = r.offset, !.pos = end]
  <2>1. proc' = [proc EXCEPT ![p] = [r EXCEPT !.pos = end]] /\ r.pc = "scan"
    BY <1>8 DEF RepPrints, Goto
  <2>2. end \in Nat
    <3>1. r.old \in Inodes
      BY <1>1, <2>1 DEF Equipped, HasOld
    <3>2. Len(disk.inode[r.old].text) \in Nat
      BY <3>1, InodeType, LenProperties
    <3> HIDE DEF r
    <3>3. r.pos + Chunk \in Nat
      BY <1>6, FilesAssumption
    <3> QED
      BY <3>2, <3>3, Smaller
  <2> HIDE DEF end
  <2>3. proc' = [proc EXCEPT ![p] = new]
    BY <1>1, <2>1 DEF ProcType
  <2>4. new \in ProcType /\ Equipped(new)
    BY <1>5, <1>6, <2>1, <2>2
  <2> HIDE DEF new
  <2> QED
    BY <1>2, <2>3, <2>4, GotoKeeps
<1>9. CASE RepEnd(p)
  <2> DEFINE new == [r EXCEPT !.pc = "closeRep", !.left = r.left,
                              !.offset = r.offset, !.pos = r.pos]
  <2>1. proc' = [proc EXCEPT ![p] = [r EXCEPT !.pc = "closeRep"]] /\ r.pc = "scan"
    BY <1>9 DEF RepEnd, Goto
  <2>2. proc' = [proc EXCEPT ![p] = new]
    BY <1>1, <2>1 DEF ProcType
  <2>3. new \in ProcType /\ Equipped(new)
    BY <1>5, <1>6, <2>1
  <2> HIDE DEF new
  <2> QED
    BY <1>2, <2>2, <2>3, GotoKeeps
<1>10. CASE RepFails(p) \/ RepClose(p)
  BY <1>2, <1>3, <1>10 DEF RepFails, RepClose, Goto
<1> QED
  BY <1>2, <1>4, <1>7, <1>8, <1>9, <1>10 DEF RepStarts, RepStep

(* tee1.                                                                   *)
LEMMA TeeStartTypes ==
  ASSUME TypeInv, NEW p \in Procs, NEW name \in Names, NEW a \in BOOLEAN,
         TeeOpen(p, name, a)
  PROVE  TypeInv'
<1> USE DEF TypeInv
<1> DEFINE i == Follow(name)
           old == IF i = 0 THEN FreeInode ELSE i
           pc == IF a THEN "tee_a" ELSE "tee"
           r == [Idle EXCEPT !.pc = pc, !.left = MaxTyped, !.old = old]
<1>1. proc' = [proc EXCEPT ![p] = r]
  BY DEF TeeOpen, Goto
<1>2. DiskOK' /\ old \in Inodes
  <2>1. CASE i = 0
    <3>1. PICK mode \in IF a THEN WildModes ELSE {CreateMode} : disk' = Created(name, mode)
      BY <2>1 DEF TeeOpen
    <3>2. mode \in SUBSET Bits
      BY FilesAssumption DEF CreateMode, Bits
    <3> QED
      BY <2>1, <3>1, <3>2, CreatedKeeps
  <2>2. CASE i # 0
    <3>1. disk' = disk \/ disk' = Emptied(i)
      BY <2>2 DEF TeeOpen
    <3>2. i \in Inodes
      BY <2>2, PathType
    <3>3. disk' = disk => DiskOK'
      BY DEF DiskOK
    <3> QED
      BY <2>2, <3>1, <3>2, <3>3, EmptiedKeeps
  <2> QED
    BY <2>1, <2>2
<1> HIDE DEF old
<1>3. MaxTyped \in Int
  BY FilesAssumption
<1>4. r \in ProcType /\ Equipped(r)
  BY <1>2, <1>3, IdleType
     DEF Idle, ProcType, Equipped, HasName, HasOld, HasNew, HasText, HasLine
<1> HIDE DEF r
<1> QED
  BY <1>1, <1>2, <1>4, GotoKeeps

(* Its steps.                                                              *)
LEMMA TeeStepTypes ==
  ASSUME TypeInv, NEW p \in Procs, TeeStep(p)
  PROVE  TypeInv'
<1> USE DEF TypeInv
<1> DEFINE r == proc[p]
<1>1. r \in ProcType /\ Equipped(r)
  BY DEF ProcOK
<1>2. CASE TeeEnd(p)
  <2>1. disk' = disk /\ proc' = [proc EXCEPT ![p] = Idle]
    BY <1>2 DEF TeeEnd, Goto
  <2> QED
    BY <2>1, IdleType, GotoKeeps DEF DiskOK
<1>3. r.left \in Int /\ r.pos \in Nat
  BY <1>1 DEF ProcType
<1>4. r.left - 1 \in Int /\ r.pos + 2 \in Nat
  <2> HIDE DEF r
  <2> QED
    BY <1>3
<1>5. ASSUME r.pc \in {"tee", "tee_a"}, NEW l \in Int, NEW k \in Nat
      PROVE  LET x == [r EXCEPT !.left = l, !.pos = k]
             IN  x \in ProcType /\ Equipped(x)
  <2> DEFINE x == [r EXCEPT !.left = l, !.pos = k]
  <2>1. x \in ProcType
    BY <1>1 DEF ProcType
  <2>2. x.pc \in {"tee", "tee_a"} /\ x.old = r.old
    BY <1>1, <1>5 DEF ProcType
  <2>3. r.old \in Inodes
    BY <1>1, <1>5 DEF Equipped, HasOld
  <2> HIDE DEF x, r
  <2>4. Equipped(x)
    BY <2>2, <2>3 DEF Equipped, HasName, HasNew, HasText, HasLine
  <2> QED
    BY <2>1, <2>4 DEF x
<1>6. ASSUME r.pc = "tee_a", disk' = Written(r.old, Line(p)),
             proc' = [proc EXCEPT ![p] = [r EXCEPT !.left = @ - 1]]
      PROVE  TypeInv'
  <2> DEFINE new == [r EXCEPT !.left = r.left - 1, !.pos = r.pos]
  <2>1. DiskOK'
    BY <1>1, <1>6, WordTypes, WrittenKeeps DEF Equipped, HasOld
  <2>2. new \in ProcType /\ Equipped(new)
    BY <1>3, <1>4, <1>5, <1>6
  <2>3. proc' = [proc EXCEPT ![p] = new]
    BY <1>1, <1>6 DEF ProcType
  <2> HIDE DEF new
  <2> QED
    BY <2>1, <2>2, <2>3, GotoKeeps
<1>7. ASSUME r.pc = "tee", disk' = Overwritten(r.old, r.pos, Line(p)),
             proc' = [proc EXCEPT ![p] =
                        [r EXCEPT !.left = @ - 1, !.pos = @ + Len(Line(p))]]
      PROVE  TypeInv'
  <2> DEFINE new == [r EXCEPT !.left = r.left - 1, !.pos = r.pos + 2]
  <2>1. r.old \in Inodes
    BY <1>1, <1>7 DEF Equipped, HasOld
  <2>2. DiskOK'
    BY <1>3, <1>7, <2>1, WordTypes, OverwrittenKeeps
  <2>3. new \in ProcType /\ Equipped(new)
    BY <1>4, <1>5, <1>7
  <2>4. proc' = [proc EXCEPT ![p] = new]
    BY <1>7, WordTypes
  <2> HIDE DEF new
  <2> QED
    BY <2>2, <2>3, <2>4, GotoKeeps
<1> QED
  BY <1>2, <1>6, <1>7 DEF TeeStep, TeeLine, Goto

(* The directory at first: f, and the link to it.                          *)
LEMMA InitTypes == Init => TypeInv /\ PrintedOK
<1> SUFFICES ASSUME Init PROVE TypeInv /\ PrintedOK
  OBVIOUS
<1>1. PICK text \in Texts, mode \in Modes :
        disk = [entry |-> [x \in Names |-> CASE x = "f" -> 1 [] x = "l" -> 2 [] OTHER -> 0],
                inode |-> [i \in Inodes |-> CASE i = 1 -> File(text, mode)
                             [] i = 2 -> Link("f") [] OTHER -> File(<<>>, {})]]
  BY DEF Init
<1>2. text \in Seq(AllBytes) /\ mode \in SUBSET Bits
  <2>1. text \in Seq(ToSet(text)) /\ ToSet(text) \subseteq AllBytes
    BY FilesAssumption DEF AllBytes
  <2> QED
    BY <2>1, FilesAssumption
<1>3. 1 \in Inodes /\ 2 \in Inodes
  <2> DEFINE k == Cardinality(Procs)
  <2>1. k \in Nat /\ Inodes = 1..(3 + 2 * k)
    BY ThreeNames, FilesAssumption, FS_CardinalityType DEF Inodes
  <2> HIDE DEF k
  <2> QED
    BY <2>1
<1>4. File(text, mode) \in FileType /\ File(<<>>, {}) \in FileType
  BY <1>2 DEF File, FileType
<1>5. Link("f") \in FileType
  BY DEF Link, ReadWrite, FileType, Bits
<1> DEFINE e == [x \in Names |-> CASE x = "f" -> 1 [] x = "l" -> 2 [] OTHER -> 0]
           n == [i \in Inodes |-> CASE i = 1 -> File(text, mode)
                   [] i = 2 -> Link("f") [] OTHER -> File(<<>>, {})]
<1>6. /\ e \in [Names -> Inodes \cup {0}] /\ n \in [Inodes -> FileType]
      /\ e["f"] = 1 /\ e["new_file"] = 0 /\ n[1].link = ""
  <2>1. e \in [Names -> Inodes \cup {0}] /\ e["f"] = 1 /\ e["new_file"] = 0
    BY <1>3 DEF Names
  <2>2. n \in [Inodes -> FileType]
    BY <1>4, <1>5
  <2>3. n[1].link = ""
    <3>1. n[1] = File(text, mode)
      BY <1>3
    <3>2. File(text, mode).link = ""
      BY DEF File
    <3> HIDE DEF n
    <3> QED
      BY <3>1, <3>2
  <2> HIDE DEF e, n
  <2> QED
    BY <2>1, <2>2, <2>3
<1> HIDE DEF e, n
<1>7. DiskOK
  BY <1>1, <1>6 DEF DiskOK, e, n
<1>8. ProcOK
  BY IdleType DEF Init, ProcOK
<1>9. PrintedOK
  BY DEF Init, PrintedOK
<1> QED
  BY <1>7, <1>8, <1>9 DEF TypeInv

(* Every step keeps the types.                                             *)
LEMMA StepTypes ==
  ASSUME TypeInv, PrintedOK, [Next]_vars
  PROVE  TypeInv' /\ PrintedOK'
<1>1. ASSUME printed' = printed PROVE PrintedOK'
  BY <1>1 DEF PrintedOK, IsRow
<1>2. ASSUME NEW p \in Procs, Start(p) PROVE TypeInv' /\ PrintedOK'
  <2>1. printed' = [printed EXCEPT ![p] = NoRow]
    BY <1>2 DEF Start
  <2>2. PrintedOK'
    BY <2>1 DEF PrintedOK, IsRow
  <2> QED
    BY <1>2, <2>2, EditorStartTypes, ModeStartTypes, RepTypes, TeeStartTypes
       DEF Start, TeeStarts
<1>3. ASSUME NEW p \in Procs, Step(p) PROVE TypeInv' /\ PrintedOK'
  BY <1>1, <1>3, EditorStepTypes, ModeStepTypes, RepTypes, TeeStepTypes DEF Step
<1>4. ASSUME NEW p \in Procs, Kill(p) PROVE TypeInv' /\ PrintedOK'
  <2>1. /\ disk' = disk /\ printed' = printed
        /\ proc' = [proc EXCEPT ![p] = Idle]
    BY <1>4 DEF Kill
  <2> QED
    BY <1>1, <2>1, IdleType, GotoKeeps DEF TypeInv, DiskOK
<1>5. CASE UNCHANGED vars
  BY <1>1, <1>5 DEF vars, TypeInv, DiskOK, ProcOK
<1> QED
  BY <1>2, <1>3, <1>4, <1>5 DEF Next, Done

(* What the programs of exercises 1 to 3 leave in the directory is always  *)
(* files: f and new_file are files of their own and not links, every name  *)
(* has a file, and every process works on files that are there.            *)
THEOREM FileTypes == Spec => [](TypeInv /\ PrintedOK)
BY InitTypes, StepTypes, PTL DEF Spec

-----------------------------------------------------------------------------
(* Rows                                                                    *)

(* Nine letters of a row stand for eleven bits, but for two of them.       *)
LEMMA LettersTell ==
  ASSUME NEW m \in SUBSET Bits, NEW k \in SUBSET Bits, NEW t, NEW u,
         Tail(vrniDovoljenja(t, m)) = Tail(vrniDovoljenja(u, k))
  PROVE  (m \ k) \subseteq {"S_ISVTX"}
           \cup (IF "S_ISUID" \in m \cap k THEN {"S_IXUSR"} ELSE {})
           \cup (IF "S_ISGID" \in m \cap k THEN {"S_IXGRP"} ELSE {})
<1> DEFINE a == vrniDovoljenja(t, m)
           b == vrniDovoljenja(u, k)
<1>1. \A i \in 1..9 : Tail(a)[i] = a[i + 1] /\ Tail(b)[i] = b[i + 1]
  BY DEF vrniDovoljenja
<1>2. \A i \in 1..9 : a[i + 1] = b[i + 1]
  BY <1>1
<1>3. /\ a[2] = b[2] /\ a[3] = b[3] /\ a[4] = b[4] /\ a[5] = b[5]
      /\ a[6] = b[6] /\ a[7] = b[7] /\ a[8] = b[8] /\ a[9] = b[9]
      /\ a[10] = b[10]
  <2>1. /\ 1 \in 1..9 /\ 2 \in 1..9 /\ 3 \in 1..9 /\ 4 \in 1..9 /\ 5 \in 1..9
        /\ 6 \in 1..9 /\ 7 \in 1..9 /\ 8 \in 1..9 /\ 9 \in 1..9
    OBVIOUS
  <2> HIDE DEF a, b
  <2> QED
    BY <1>2, <2>1
<1>4. /\ Letter(m, "S_IRUSR", "r") = Letter(k, "S_IRUSR", "r")
      /\ Letter(m, "S_IWUSR", "w") = Letter(k, "S_IWUSR", "w")
      /\ Execute(m, "S_IXUSR", "S_ISUID") = Execute(k, "S_IXUSR", "S_ISUID")
      /\ Letter(m, "S_IRGRP", "r") = Letter(k, "S_IRGRP", "r")
      /\ Letter(m, "S_IWGRP", "w") = Letter(k, "S_IWGRP", "w")
      /\ Execute(m, "S_IXGRP", "S_ISGID") = Execute(k, "S_IXGRP", "S_ISGID")
      /\ Letter(m, "S_IROTH", "r") = Letter(k, "S_IROTH", "r")
      /\ Letter(m, "S_IWOTH", "w") = Letter(k, "S_IWOTH", "w")
      /\ Letter(m, "S_IXOTH", "x") = Letter(k, "S_IXOTH", "x")
  BY <1>3 DEF vrniDovoljenja
<1> HIDE DEF a, b
<1>5. \A bit \in {"S_IRUSR", "S_IWUSR", "S_IRGRP", "S_IWGRP", "S_IROTH",
                  "S_IWOTH", "S_IXOTH"} : bit \in m => bit \in k
  BY <1>4 DEF Letter
<1>6. /\ "S_ISUID" \in m <=> "S_ISUID" \in k
      /\ "S_ISUID" \notin m => ("S_IXUSR" \in m <=> "S_IXUSR" \in k)
  BY <1>4 DEF Execute, Letter
<1>7. /\ "S_ISGID" \in m <=> "S_ISGID" \in k
      /\ "S_ISGID" \notin m => ("S_IXGRP" \in m <=> "S_IXGRP" \in k)
  BY <1>4 DEF Execute, Letter
<1> QED
  BY <1>5, <1>6, <1>7 DEF Bits

(* mojChmod.c:97, list.c:67: two rows with the same nine letters stand for *)
(* the same mode, but for the sticky bit and an x below an s, whatever the *)
(* modes of the files and whoever has changed them meanwhile.              *)
THEOREM RowsAreTold == Spec => []RowsTell
<1>1. PrintedOK => RowsTell
  <2> SUFFICES ASSUME PrintedOK, NEW p \in Procs, NEW q \in Procs,
                      Tail(printed[p].text) = Tail(printed[q].text)
               PROVE  LET m == printed[p].mode
                          k == printed[q].mode
                      IN  (m \ k) \subseteq {"S_ISVTX"}
                            \cup (IF "S_ISUID" \in m \cap k THEN {"S_IXUSR"} ELSE {})
                            \cup (IF "S_ISGID" \in m \cap k THEN {"S_IXGRP"} ELSE {})
    BY DEF RowsTell
  <2>1. CASE printed[p] = NoRow
    BY <2>1 DEF NoRow
  <2>2. CASE IsRow(printed[p]) /\ printed[q] = NoRow
    <3>1. PICK t : printed[p].text = vrniDovoljenja(t, printed[p].mode)
      BY <2>2 DEF IsRow, Row
    <3> DEFINE len == Len(Tail(printed[p].text))
    <3>2. len = 9
      BY <3>1 DEF vrniDovoljenja
    <3>3. len = 0
      <4>1. Len(Tail(printed[q].text)) = 0
        BY <2>2 DEF NoRow
      <4> QED
        BY <4>1, Zenon
    <3> HIDE DEF len
    <3> QED
      BY <3>2, <3>3
  <2>3. CASE IsRow(printed[p]) /\ IsRow(printed[q])
    <3>1. PICK t : printed[p].text = vrniDovoljenja(t, printed[p].mode)
      BY <2>3 DEF IsRow, Row
    <3>2. PICK u : printed[q].text = vrniDovoljenja(u, printed[q].mode)
      BY <2>3 DEF IsRow, Row
    <3>3. printed[p].mode \in SUBSET Bits /\ printed[q].mode \in SUBSET Bits
      BY <2>3 DEF IsRow
    <3> DEFINE m == printed[p].mode
               k == printed[q].mode
    <3>4. m \in SUBSET Bits /\ k \in SUBSET Bits
      BY <3>3
    <3>5. Tail(vrniDovoljenja(t, m)) = Tail(vrniDovoljenja(u, k))
      BY <3>1, <3>2
    <3> HIDE DEF m, k
    <3>6. (m \ k) \subseteq {"S_ISVTX"}
            \cup (IF "S_ISUID" \in m \cap k THEN {"S_IXUSR"} ELSE {})
            \cup (IF "S_ISGID" \in m \cap k THEN {"S_IXGRP"} ELSE {})
      BY <3>4, <3>5, LettersTell
    <3> QED
      BY <3>6 DEF m, k
  <2> QED
    BY <2>1, <2>2, <2>3 DEF PrintedOK
<1> QED
  BY <1>1, FileTypes, PTL

-----------------------------------------------------------------------------
(* Every edit as a whole                                                   *)

(* A step that EditedFile allows, or that does not show in f.              *)
Moves == [Promise!Next]_<<Whereabouts.text, Whereabouts.mode, disturbed>>

(* f is where its name leads, or, for a moment, in new_file.               *)
LEMMA WhereIs ==
  ASSUME DiskOK
  PROVE  /\ disk.entry["f"] # 0 => Whereabouts = f_file
         /\ disk.entry["f"] = 0 /\ disk.entry["new_file"] # 0 => Whereabouts = new_file
         /\ disk.entry["f"] \in Inodes \cup {0} /\ disk.entry["new_file"] \in Inodes \cup {0}
         /\ disk.entry["l"] \in Inodes \cup {0}
         /\ disk.entry["f"] # 0 => f_file \in FileType
         /\ disk.entry["new_file"] # 0 => new_file \in FileType
<1>1. \A x \in Names : disk.entry[x] \in Inodes \cup {0}
  BY DEF DiskOK
<1> QED
  BY <1>1, InodeType DEF Whereabouts, f_file, new_file, Names

(* What does not touch f does not show.                                    *)
LEMMA Untouched ==
  ASSUME DiskOK, disk.entry["f"] # 0, disk'.entry["f"] = disk.entry["f"],
         disk'.inode[disk.entry["f"]] = disk.inode[disk.entry["f"]]
  PROVE  Whereabouts' = Whereabouts /\ f_file' = f_file
BY DEF Whereabouts, f_file

(* What does not change f does not show.                                   *)
LEMMA Unseen ==
  ASSUME Whereabouts' = Whereabouts, disturbed' = disturbed
  PROVE  Moves
BY DEF Moves

(* A write or a truncation.                                                *)
LEMMA AddMoves ==
  ASSUME ~disturbed, disturbed' = disturbed, Whereabouts \in FileType, NEW text \in Seq(AllBytes),
         Whereabouts' = Stored(Whereabouts, text),
         text = <<>> \/ \E x \in Procs : text = Whereabouts.text \o Line(x)
  PROVE  Moves
<1>1. /\ Whereabouts'.text = text
      /\ Whereabouts'.mode = Unprivileged(Whereabouts.mode)
  BY StoredType
<1>2. Unprivileged(Whereabouts.mode) = Promise!Unprivileged(Whereabouts.mode)
  BY DEF Unprivileged, Promise!Unprivileged
<1>3. \/ Whereabouts'.text = <<>>
      \/ \E x \in {Line(q) : q \in Procs} :
           Whereabouts'.text = Whereabouts.text \o x
  BY <1>1
<1>4. Promise!Add
  BY <1>1, <1>2, <1>3 DEF Promise!Add
<1> QED
  BY <1>4 DEF Moves, Promise!Next

(* -d and -i.                                                              *)
LEMMA RewriteMoves ==
  ASSUME ~disturbed, disturbed' = disturbed,
         IsEdit(Whereabouts.text, Whereabouts'.text),
         Whereabouts'.mode \in EditModes(Whereabouts.mode)
  PROVE  Moves
<1> DEFINE text == Whereabouts.text
           mode == Whereabouts.mode \ Umask
<1>1. Whereabouts'.mode \in {mode, Promise!Unprivileged(mode)}
  BY DEF EditModes, Unprivileged, Promise!Unprivileged
<1>2. \/ Whereabouts'.text = text
      \/ \E i, j \in 0..Len(text) :
           /\ Promise!IsEnd(i) /\ Promise!IsEnd(j)
           /\ \A k \in (i + 1)..(j - 1) : ~Promise!IsEnd(k)
           /\ Whereabouts'.text = Promise!UpTo(i) \o Promise!Rest(j)
      \/ \E i \in 0..Len(text), x \in {Line(q) : q \in Procs} :
           /\ Promise!IsEnd(i)
           /\ Whereabouts'.text = Promise!UpTo(i) \o x \o Promise!Rest(i)
  <2>1. \A i : Promise!IsEnd(i) <=> EndOf(text, i)
    BY DEF Promise!IsEnd, EndOf
  <2>2. \A i : /\ Promise!UpTo(i) = SubSeq(text, 1, i)
               /\ Promise!Rest(i) = SubSeq(text, i + 1, Len(text))
    BY DEF Promise!UpTo, Promise!Rest
  <2>3. CASE \E i, j \in 0..Len(text) :
               /\ EndOf(text, i) /\ EndOf(text, j)
               /\ \A k \in (i + 1)..(j - 1) : ~EndOf(text, k)
               /\ Whereabouts'.text = SubSeq(text, 1, i) \o SubSeq(text, j + 1, Len(text))
    BY <2>1, <2>2, <2>3, Zenon
  <2>4. CASE \E i \in 0..Len(text), q \in Procs :
               /\ EndOf(text, i)
               /\ Whereabouts'.text = SubSeq(text, 1, i) \o Line(q)
                                        \o SubSeq(text, i + 1, Len(text))
    <3>1. PICK i \in 0..Len(text), q \in Procs :
               /\ EndOf(text, i)
               /\ Whereabouts'.text = SubSeq(text, 1, i) \o Line(q)
                                        \o SubSeq(text, i + 1, Len(text))
      BY <2>4, Zenon
    <3>2. Promise!IsEnd(i) /\ Line(q) \in {Line(x) : x \in Procs}
      BY <2>1, <3>1, Zenon
    <3>3. Whereabouts'.text = Promise!UpTo(i) \o Line(q) \o Promise!Rest(i)
      BY <2>2, <3>1, Zenon
    <3> QED
      BY <3>2, <3>3, Zenon
  <2>5. CASE Whereabouts'.text = text
    BY <2>5
  <2> QED
    BY <2>3, <2>4, <2>5, Zenon DEF IsEdit
<1>3. Promise!Rewrite
  BY <1>1, <1>2, Zenon DEF Promise!Rewrite
<1> QED
  BY <1>3 DEF Moves, Promise!Next

(* mojChmod.                                                               *)
LEMMA ModeMoves ==
  ASSUME ~disturbed, disturbed' = disturbed,
         Whereabouts'.text = Whereabouts.text,
         Whereabouts'.mode \in BitChanged(Whereabouts.mode) \cup Octals
  PROVE  Moves
<1>1. Promise!SetMode
  BY DEF Promise!SetMode, BitChanged
<1> QED
  BY <1>1 DEF Moves, Promise!Next

(* Once disturbed, anything may happen.                                    *)
LEMMA ChaosMoves == disturbed' => Moves
BY DEF Moves, Promise!Next

(* A step of one process leaves the writer up to date: the process itself, *)
(* which then is the only one, or one that has not noticed.                *)
LEMMA AloneKeeps ==
  ASSUME Alone, ~disturbed, NEW p \in Procs, ProcOK,
         \A q \in Procs \ {p} : proc'[q] = proc[q],
         \/ disk' = disk /\ ~Writing(proc'[p])
         \/ /\ \A q \in Procs \ {p} : ~Writing(proc[q])
            /\ Writing(proc'[p]) => UpToDate(proc[p])'
  PROVE  Alone'
<1>1. CASE disk' = disk /\ ~Writing(proc'[p])
  <2>1. ASSUME NEW q \in Procs, Writing(proc'[q])
        PROVE  q # p /\ proc'[q] = proc[q] /\ UpToDate(proc[q])'
    <3>1. q # p /\ proc'[q] = proc[q] /\ Writing(proc[q])
      BY <1>1, <2>1
    <3>2. UpToDate(proc[q])
      BY <3>1 DEF Alone
    <3> QED
      BY <1>1, <3>1, <3>2 DEF UpToDate, EditsF, f_file, new_file
  <2> QED
    BY <2>1 DEF Alone, Writing
<1>2. CASE /\ \A q \in Procs \ {p} : ~Writing(proc[q])
           /\ Writing(proc'[p]) => UpToDate(proc[p])'
  <2>1. \A q \in Procs : Writing(proc'[q]) => q = p
    BY <1>2
  <2> QED
    BY <1>2, <2>1 DEF Alone, Writing
<1> QED
  BY <1>1, <1>2

(* A step of process p that keeps to EditedFile and stays up to date.      *)
Kept(p) == Moves /\ (Writing(proc[p])' => UpToDate(proc[p])')

(* The record put in place.                                                *)
LEMMA GotoIs ==
  ASSUME ProcOK, NEW p \in Procs, NEW from, NEW r, Goto(p, from, r)
  PROVE  /\ proc[p].pc = from /\ proc'[p] = r
         /\ \A q \in Procs \ {p} : proc'[q] = proc[q]
BY DEF ProcOK, Goto

(* What the only writer may rely on.                                       *)
LEMMA WriterHas ==
  ASSUME TypeInv, Alone, ~disturbed, NEW p \in Procs, Writing(proc[p])
  PROVE  /\ proc[p] \in ProcType /\ Equipped(proc[p]) /\ UpToDate(proc[p])
         /\ \A q \in Procs \ {p} : ~Writing(proc[q])
         /\ ~(proc[p].pc = "rename" /\ proc[p].name = "f") =>
              /\ disk.entry["f"] \in Inodes /\ disk.entry["f"] # 0
              /\ Whereabouts = f_file /\ f_file \in FileType
<1>1. proc[p] \in ProcType /\ Equipped(proc[p])
  BY DEF TypeInv, ProcOK
<1>2. UpToDate(proc[p]) /\ \A q \in Procs \ {p} : ~Writing(proc[q])
  BY DEF Alone
<1>3. ASSUME ~(proc[p].pc = "rename" /\ proc[p].name = "f")
      PROVE  disk.entry["f"] # 0
  BY <1>2, <1>3 DEF UpToDate
<1> QED
  BY <1>1, <1>2, <1>3, WhereIs DEF TypeInv

(* The end of a program.                                                   *)
LEMMA EndKeeps ==
  ASSUME disk' = disk, disturbed' = disturbed, NEW p \in Procs, proc'[p] = Idle
  PROVE  Kept(p)
<1>1. Whereabouts' = Whereabouts
  BY DEF Whereabouts
<1> QED
  BY <1>1, Unseen, IdleType DEF Kept

(* A change of one inode shows only in f.                                  *)
LEMMA InodeShows ==
  ASSUME DiskOK, disk.entry["f"] # 0, NEW i \in Inodes, NEW file,
         disk'.entry = disk.entry,
         disk'.inode = [disk.inode EXCEPT ![i] = file]
  PROVE  /\ Whereabouts = f_file /\ Whereabouts' = f_file'
         /\ disk.entry["f"] \in Inodes
         /\ i = disk.entry["f"] => f_file' = file
         /\ i # disk.entry["f"] => f_file' = f_file
         /\ disk'.inode[i] = file
<1>1. disk.entry["f"] \in Inodes
  BY WhereIs
<1>2. disk.inode \in [Inodes -> FileType]
  BY DEF DiskOK
<1>3. Whereabouts = f_file /\ Whereabouts' = f_file'
  BY DEF Whereabouts, f_file
<1> QED
  BY <1>1, <1>2, <1>3 DEF f_file

(* A file written to at its end, or emptied.                               *)
LEMMA StoringMoves ==
  ASSUME DiskOK, ~disturbed, disturbed' = disturbed, disk.entry["f"] # 0,
         NEW i \in Inodes, NEW text \in Seq(AllBytes),
         disk'.entry = disk.entry,
         disk'.inode = [disk.inode EXCEPT ![i] = Stored(@, text)],
         text = <<>> \/ \E x \in Procs : text = disk.inode[i].text \o Line(x)
  PROVE  Moves /\ disk'.inode[i].text = text
<1>1. disk'.inode = [disk.inode EXCEPT ![i] = Stored(disk.inode[i], text)]
  OBVIOUS
<1>2. /\ Whereabouts = f_file /\ Whereabouts' = f_file'
      /\ i = disk.entry["f"] => f_file' = Stored(disk.inode[i], text)
      /\ i # disk.entry["f"] => f_file' = f_file
      /\ disk'.inode[i] = Stored(disk.inode[i], text)
  BY <1>1, InodeShows
<1>3. Moves
  <2>1. CASE i = disk.entry["f"]
    <3>1. Whereabouts = disk.inode[i] /\ Whereabouts' = Stored(Whereabouts, text)
      BY <1>2, <2>1 DEF f_file
    <3>2. Whereabouts \in FileType
      BY <3>1, InodeType
    <3> QED
      BY <3>1, <3>2, AddMoves
  <2>2. CASE i # disk.entry["f"]
    BY <1>2, <2>2, Unseen
  <2> QED
    BY <2>1, <2>2
<1>4. Stored(disk.inode[i], text).text = text
  BY InodeType, StoredType
<1> QED
  BY <1>2, <1>3, <1>4

(* What a start that disturbs nobody finds.                                *)
LEMMA StartsClear ==
  ASSUME NEW p \in Procs, Start(p), ~disturbed, ~disturbed', Writing(proc'[p])
  PROVE  /\ \A q \in Procs \ {p} : ~Writing(proc[q])
         /\ disk.entry["f"] # 0
         /\ proc'[p].pc = "openNew" /\ disk.entry["new_file"] # 0 =>
              Unprivileged(new_file.mode) = Unprivileged(proc'[p].mode \ Umask)
         /\ proc'[p].pc = "chmod" => proc'[p].text # <<"l">>
BY DEF Start, Disturbs, new_file

(* A file made where there was none does not show: f is there.             *)
LEMMA CreatedShows ==
  ASSUME TypeInv, disk.entry["f"] # 0, NEW name \in Names, Follow(name) = 0,
         NEW mode \in SUBSET Bits, disk' = Created(name, mode)
  PROVE  /\ disk'.entry["f"] = disk.entry["f"] /\ disk'.entry["f"] # 0
         /\ Whereabouts' = Whereabouts /\ f_file' = f_file
         /\ FreeInode \in Inodes
         /\ disk'.entry[Target(name)] = FreeInode
         /\ disk'.inode[FreeInode] = File(<<>>, mode \ Umask)
<1> DEFINE x == Target(name)
           i == FreeInode
<1>1. /\ disk'.entry = [disk.entry EXCEPT ![x] = i]
      /\ disk'.inode = [disk.inode EXCEPT ![i] = File(<<>>, mode \ Umask)]
      /\ i \in Inodes /\ \A y \in Names : disk.entry[y] # i
  BY CreatedKeeps
<1>2. x \in Names /\ disk.entry[x] = 0 /\ "f" \in Names
  BY PathType DEF TypeInv, Names
<1>3. /\ DOMAIN disk.entry = Names /\ DOMAIN disk.inode = Inodes
      /\ disk.entry["f"] \in Inodes
  BY WhereIs DEF TypeInv, DiskOK
<1>4. disk.entry["f"] # i
  BY <1>1, <1>2
<1> HIDE DEF x, i
<1>5. /\ disk'.entry["f"] = disk.entry["f"]
      /\ disk'.inode[disk.entry["f"]] = disk.inode[disk.entry["f"]]
  BY <1>1, <1>2, <1>3, <1>4
<1>6. disk'.entry[x] = i /\ disk'.inode[i] = File(<<>>, mode \ Umask)
  BY <1>1, <1>2, <1>3
<1>7. Whereabouts' = Whereabouts /\ f_file' = f_file
  BY <1>5, Untouched DEF TypeInv
<1> QED
  BY <1>1, <1>5, <1>6, <1>7 DEF x, i

(* kamned starts.                                                          *)
LEMMA EditorStartKeeps ==
  ASSUME TypeInv, ~disturbed, disturbed' = disturbed,
         NEW p \in Procs, Start(p), EditorStarts(p)
  PROVE  Kept(p) /\ Writing(proc'[p])
<1>1. DiskOK /\ ProcOK
  BY DEF TypeInv
<1>2. ASSUME NEW name \in Names, AppendOpen(p, name)
      PROVE  Kept(p) /\ Writing(proc'[p])
  <2>1. proc'[p].pc = "append" /\ proc'[p].name = ""
    <3> DEFINE i == IF Follow(name) = 0 THEN FreeInode ELSE Follow(name)
    <3>1. proc'[p] = [Idle EXCEPT !.pc = "append", !.left = MaxTyped, !.old = i]
      BY <1>1, <1>2, GotoIs DEF AppendOpen
    <3> HIDE DEF i
    <3> QED
      BY <3>1 DEF Idle
  <2>2. disk.entry["f"] # 0
    BY <2>1, StartsClear DEF Writing
  <2>3. disk'.entry["f"] # 0 /\ Whereabouts' = Whereabouts
    <3>1. CASE Follow(name) = 0
      <4>1. disk' = Created(name, AppendMode) /\ AppendMode \in SUBSET Bits
        BY <1>2, <3>1 DEF AppendOpen, AppendMode, ReadWrite, Bits
      <4> QED
        BY <2>2, <3>1, <4>1, CreatedShows
    <3>2. CASE Follow(name) # 0
      <4>1. disk' = disk
        BY <1>2, <3>2 DEF AppendOpen
      <4> QED
        BY <2>2, <4>1 DEF Whereabouts
    <3> QED
      BY <3>1, <3>2
  <2>4. UpToDate(proc[p])'
    BY <2>1, <2>3 DEF UpToDate, HasNew
  <2> QED
    BY <2>1, <2>3, <2>4, Unseen DEF Kept, Writing
<1>3. ASSUME NEW name \in Names, NEW n \in Numbers, NEW line \in {<<>>, Line(p)},
             Stat(p, name, n, line)
      PROVE  Kept(p) /\ Writing(proc'[p])
  <2>1. /\ proc'[p].pc = "openNew" /\ proc'[p].name = name /\ disk' = disk
        /\ proc'[p].mode = disk.inode[Follow(name)].mode
    <3>1. /\ disk' = disk
          /\ proc'[p] = [Idle EXCEPT !.pc = "openNew", !.name = name, !.n = n,
                           !.text = line, !.mode = disk.inode[Follow(name)].mode]
      BY <1>1, <1>3, GotoIs DEF Stat
    <3> QED
      BY <3>1 DEF Idle
  <2>2. /\ disk.entry["f"] # 0
        /\ disk.entry["new_file"] # 0 =>
             Unprivileged(new_file.mode) = Unprivileged(proc'[p].mode \ Umask)
    BY <2>1, StartsClear DEF Writing
  <2>3. Whereabouts' = Whereabouts /\ f_file' = f_file /\ new_file' = new_file
    BY <2>1 DEF Whereabouts, f_file, new_file
  <2>4. name = "f" => proc'[p].mode = f_file.mode
    <3>1. name = "f" => Follow(name) = disk.entry["f"]
      BY <1>1, PathType
    <3> QED
      BY <2>1, <3>1 DEF f_file
  <2>5. EditsF(proc[p])' \/ name # "f"
    BY <2>1, <2>2, <2>3, <2>4 DEF EditsF
  <2>6. UpToDate(proc[p])'
    BY <2>1, <2>2, <2>5 DEF UpToDate, HasNew
  <2> QED
    BY <2>1, <2>3, <2>6, Unseen DEF Kept, Writing
<1> QED
  BY <1>2, <1>3 DEF EditorStarts

(* mojChmod and list start.                                                *)
LEMMA ModeStartKeeps ==
  ASSUME TypeInv, ~disturbed, disturbed' = disturbed,
         NEW p \in Procs, Start(p), ModeStarts(p)
  PROVE  Kept(p) /\ disk' = disk
<1>1. DiskOK /\ ProcOK
  BY DEF TypeInv
<1>2. disk' = disk /\ Whereabouts' = Whereabouts
  BY DEF ModeStarts, ListOpen, Lstat, Whereabouts
<1>3. CASE ListOpen(p)
  <2>1. proc'[p].pc = "list"
    <3> DEFINE t == SetToSeq({x \in Names : disk.entry[x] # 0})
    <3>1. proc'[p] = [Idle EXCEPT !.pc = "list", !.text = t]
      BY <1>1, <1>3, GotoIs DEF ListOpen
    <3> HIDE DEF t
    <3> QED
      BY <3>1 DEF Idle
  <2> QED
    BY <1>2, <2>1, Unseen DEF Kept, Writing
<1>4. ASSUME NEW name \in Names, NEW pc \in {"chmod", "octal"}, NEW mode,
             Lstat(p, name, pc, mode),
             pc = "chmod" => mode \in BitChanged(LstatMode(name)),
             pc = "octal" => mode \in Octals
      PROVE  Kept(p)
  <2>1. /\ proc'[p].pc = pc /\ proc'[p].name = name /\ proc'[p].mode = mode
        /\ proc'[p].text = <<Type(name)>> /\ disk.entry[name] # 0
    <3>1. /\ disk.entry[name] # 0
          /\ proc'[p] = [Idle EXCEPT !.pc = pc, !.name = name,
                           !.text = <<Type(name)>>, !.mode = mode]
      BY <1>1, <1>4, GotoIs DEF Lstat
    <3> QED
      BY <3>1 DEF Idle
  <2>2. disk.entry["f"] # 0 /\ (pc = "chmod" => proc'[p].text # <<"l">>)
    BY <2>1, StartsClear DEF Writing
  <2>3. pc = "chmod" => disk.inode[disk.entry[name]].link = ""
    BY <2>1, <2>2 DEF Type
  <2>4. proc'[p].name = "f" => EditsF(proc[p])'
    BY <2>1 DEF EditsF
  <2>5. UpToDate(proc[p])'
    BY <1>2, <1>4, <2>1, <2>2, <2>3, <2>4 DEF UpToDate, LstatMode, HasNew
  <2> QED
    BY <1>2, <2>5, Unseen DEF Kept
<1>5. ASSUME NEW name \in Names, NEW change \in SymbolicModes
      PROVE  Changed(LstatMode(name), change) \in BitChanged(LstatMode(name))
  BY DEF Changed, SymbolicModes, BitChanged
<1> QED
  BY <1>2, <1>3, <1>4, <1>5 DEF ModeStarts

(* tee1 starts.                                                            *)
LEMMA TeeStartKeeps ==
  ASSUME TypeInv, ~disturbed, disturbed' = disturbed,
         NEW p \in Procs, Start(p), TeeStarts(p)
  PROVE  Kept(p) /\ Writing(proc'[p])
<1>1. DiskOK /\ ProcOK
  BY DEF TypeInv
<1>2. PICK name \in Names, a \in BOOLEAN : TeeOpen(p, name, a)
  BY DEF TeeStarts
<1> DEFINE i == Follow(name)
           old == IF i = 0 THEN FreeInode ELSE i
<1>3. /\ proc'[p].pc \in {"tee", "tee_a"} /\ proc'[p].name = ""
      /\ proc'[p].old = old /\ proc'[p].pos = 0
      /\ proc'[p].pc = "tee" => ~a
  <2>1. proc'[p] = [Idle EXCEPT !.pc = IF a THEN "tee_a" ELSE "tee",
                                !.left = MaxTyped, !.old = old]
    BY <1>1, <1>2, GotoIs DEF TeeOpen
  <2> HIDE DEF old
  <2> QED
    BY <2>1 DEF Idle
<1>4. disk.entry["f"] # 0
  BY <1>3, StartsClear DEF Writing
<1>5. /\ Moves /\ disk'.entry["f"] # 0
      /\ ~a => disk'.inode[old].text = <<>>
  <2>1. CASE i = 0
    <3>1. PICK mode \in IF a THEN WildModes ELSE {CreateMode} : disk' = Created(name, mode)
      BY <1>2, <2>1 DEF TeeOpen
    <3>2. mode \in SUBSET Bits
      BY FilesAssumption DEF CreateMode, Bits
    <3>3. /\ disk'.entry["f"] # 0 /\ Whereabouts' = Whereabouts
          /\ disk'.inode[FreeInode] = File(<<>>, mode \ Umask)
      BY <1>4, <2>1, <3>1, <3>2, CreatedShows
    <3>4. \A m : File(<<>>, m).text = <<>>
      BY DEF File
    <3> QED
      BY <2>1, <3>3, <3>4, Unseen, Zenon
  <2>2. CASE i # 0 /\ a
    <3>1. disk' = disk
      BY <1>2, <2>2 DEF TeeOpen
    <3>2. Whereabouts' = Whereabouts
      BY <3>1 DEF Whereabouts
    <3> QED
      BY <1>4, <2>2, <3>1, <3>2, Unseen
  <2>3. CASE i # 0 /\ ~a
    <3>1. disk' = Emptied(i) /\ i \in Inodes
      BY <1>1, <1>2, <2>3, PathType DEF TeeOpen
    <3>2. /\ disk'.entry = disk.entry
          /\ disk'.inode = [disk.inode EXCEPT ![i] = Stored(@, <<>>)]
      BY <1>1, <3>1, EmptiedKeeps
    <3> HIDE DEF i
    <3>3. <<>> \in Seq(AllBytes)
      OBVIOUS
    <3>4. Moves /\ disk'.inode[i].text = <<>>
      BY <1>1, <1>4, <3>1, <3>2, <3>3, StoringMoves
    <3> QED
      BY <1>4, <2>3, <3>2, <3>4
  <2> QED
    BY <2>1, <2>2, <2>3
<1>6. UpToDate(proc[p])'
  <2>1. Len(<<>>) = 0
    OBVIOUS
  <2> QED
    BY <1>3, <1>5, <2>1 DEF UpToDate, HasNew
<1> QED
  BY <1>3, <1>5, <1>6 DEF Kept, Writing

(* Adding lines asks for nothing but f itself.                             *)
LEMMA PlainUpToDate ==
  ASSUME NEW p \in Procs, proc'[p].pc \in {"append", "tee_a", "lstat"},
         disk'.entry["f"] # 0
  PROVE  UpToDate(proc[p])'
BY DEF UpToDate, EditsF, HasNew

(* A line added at the end of a file shows as one, or not at all.          *)
LEMMA LineMoves ==
  ASSUME DiskOK, ~disturbed, disturbed' = disturbed, disk.entry["f"] # 0,
         NEW i \in Inodes, NEW p \in Procs, disk' = Written(i, Line(p))
  PROVE  Moves /\ disk'.entry["f"] # 0
<1> DEFINE old == disk.inode[i].text
           text == old \o Line(p)
<1>1. old \in Seq(AllBytes) /\ Line(p) \in Seq(AllBytes) /\ Line(p) # <<>>
  BY InodeType, WordTypes
<1>2. /\ disk'.entry = disk.entry
      /\ disk'.inode = [disk.inode EXCEPT ![i] = Stored(@, text)]
  BY <1>1, WrittenKeeps
<1>3. text \in Seq(AllBytes) /\ text = disk.inode[i].text \o Line(p)
  BY <1>1, ConcatProperties
<1> HIDE DEF text
<1>4. Moves
  BY <1>1, <1>2, <1>3, StoringMoves
<1> QED
  BY <1>2, <1>4

(* kamned -a.                                                              *)
LEMMA AppendKeeps ==
  ASSUME TypeInv, Alone, ~disturbed, disturbed' = disturbed,
         NEW p \in Procs, AppendLine(p)
  PROVE  Kept(p)
<1> DEFINE r == proc[p]
<1>1. r.pc = "append" /\ proc'[p] = [r EXCEPT !.left = @ - 1]
  BY GotoIs DEF AppendLine, TypeInv
<1>2. /\ r \in ProcType /\ Equipped(r) /\ disk.entry["f"] # 0
  BY <1>1, WriterHas DEF Writing
<1>3. r.old \in Inodes
  BY <1>1, <1>2 DEF Equipped, HasOld
<1>4. Moves /\ disk'.entry["f"] # 0
  BY <1>2, <1>3, LineMoves DEF AppendLine, TypeInv
<1>5. proc'[p].pc = "append"
  BY <1>1, <1>2 DEF ProcType
<1> QED
  BY <1>4, <1>5, PlainUpToDate DEF Kept

(* tee1, whose next line goes where the last one has ended.                *)
LEMMA TeeKeeps ==
  ASSUME TypeInv, Alone, ~disturbed, disturbed' = disturbed,
         NEW p \in Procs, TeeLine(p)
  PROVE  Kept(p)
<1> DEFINE r == proc[p]
<1>1. CASE /\ Goto(p, "tee_a", [r EXCEPT !.left = @ - 1])
           /\ disk' = Written(r.old, Line(p))
  <2>1. r.pc = "tee_a" /\ proc'[p] = [r EXCEPT !.left = @ - 1]
    BY <1>1, GotoIs DEF TypeInv
  <2>2. r \in ProcType /\ Equipped(r) /\ disk.entry["f"] # 0
    BY <2>1, WriterHas DEF Writing
  <2>3. r.old \in Inodes
    BY <2>1, <2>2 DEF Equipped, HasOld
  <2>4. Moves /\ disk'.entry["f"] # 0
    BY <1>1, <2>2, <2>3, LineMoves DEF TypeInv
  <2>5. proc'[p].pc = "tee_a"
    BY <2>1, <2>2 DEF ProcType
  <2> QED
    BY <2>4, <2>5, PlainUpToDate DEF Kept
<1>2. CASE /\ Goto(p, "tee", [r EXCEPT !.left = @ - 1, !.pos = @ + Len(Line(p))])
           /\ disk' = Overwritten(r.old, r.pos, Line(p))
  <2> DEFINE i == r.old
             text == disk.inode[i].text
  <2>1. r.pc = "tee" /\ proc'[p] = [r EXCEPT !.left = @ - 1, !.pos = @ + 2]
    <3>1. Len(Line(p)) = 2
      BY WordTypes
    <3>2. Goto(p, "tee", [r EXCEPT !.left = @ - 1, !.pos = @ + 2])
      BY <1>2, <3>1
    <3> QED
      BY <3>2, GotoIs DEF TypeInv
  <2>2. /\ r \in ProcType /\ Equipped(r) /\ UpToDate(r) /\ disk.entry["f"] # 0
    BY <2>1, WriterHas DEF Writing
  <2>3. i \in Inodes
    BY <2>1, <2>2 DEF Equipped, HasOld
  <2>4. r.pos = Len(text)
    BY <2>1, <2>2 DEF UpToDate
  <2>5. /\ text \in Seq(AllBytes) /\ Line(p) \in Seq(AllBytes)
        /\ Len(text) \in Nat /\ Len(Line(p)) = 2
    <3> HIDE DEF i
    <3>1. text \in Seq(AllBytes) /\ Line(p) \in Seq(AllBytes) /\ Len(Line(p)) = 2
      BY <2>3, InodeType, WordTypes DEF TypeInv
    <3> HIDE DEF text
    <3> QED
      BY <3>1, LenProperties
  <2>7. PICK new \in Seq(AllBytes) :
          /\ disk'.entry = disk.entry
          /\ disk'.inode = [disk.inode EXCEPT ![i] = Stored(@, new)]
          /\ new = text \o Line(p)
    BY <1>2, <2>3, <2>4, <2>5, OverwrittenKeeps DEF TypeInv
  <2>8. Moves /\ disk'.inode[i].text = new
    <3> HIDE DEF i
    <3> QED
      BY <2>2, <2>3, <2>5, <2>7, StoringMoves DEF TypeInv
  <2>9. /\ proc'[p].pc = "tee" /\ proc'[p].old = i /\ proc'[p].name = r.name
        /\ proc'[p].pos = r.pos + 2
    BY <2>1, <2>2 DEF ProcType
  <2>10. proc'[p].pos = Len(new)
    <3> HIDE DEF text, r
    <3>1. new = text \o Line(p)
      BY <2>7
    <3>2. Len(new) = Len(text) + Len(Line(p))
      BY <2>5, <3>1, ConcatProperties
    <3> QED
      BY <2>4, <2>5, <2>9, <3>2
  <2>11. EditsF(proc[p])'
    BY <2>9 DEF EditsF
  <2> HIDE DEF r, text
  <2>12. UpToDate(proc[p])'
    BY <2>2, <2>7, <2>8, <2>9, <2>10, <2>11 DEF UpToDate, HasNew
  <2> QED
    BY <2>8, <2>12 DEF Kept
<1> QED
  BY <1>1, <1>2 DEF TeeLine

(* new_file is made, or emptied: nothing of f.                             *)
LEMMA OpenNewKeeps ==
  ASSUME TypeInv, Alone, ~disturbed, disturbed' = disturbed,
         NEW p \in Procs, OpenNew(p)
  PROVE  Kept(p)
<1> DEFINE r == proc[p]
           i == disk.entry["new_file"]
           new == IF i = 0 THEN FreeInode ELSE i
<1>1. /\ r.pc = "openNew"
      /\ proc'[p] = [r EXCEPT !.pc = "openOld", !.new = new]
      /\ disk' = IF i = 0 THEN Created("new_file", r.mode) ELSE Emptied(i)
  BY GotoIs DEF OpenNew, Opened, TypeInv
<1>2. /\ r \in ProcType /\ Equipped(r) /\ UpToDate(r) /\ disk.entry["f"] # 0
      /\ r.mode \in SUBSET Bits
  BY <1>1, WriterHas DEF Writing, ProcType
<1>3. /\ proc'[p].pc = "openOld" /\ proc'[p].new = new
      /\ proc'[p].name = r.name /\ proc'[p].mode = r.mode
  <2> HIDE DEF new
  <2> QED
    BY <1>1, <1>2 DEF ProcType
<1>4. /\ "new_file" \in Names /\ Target("new_file") = "new_file"
      /\ Follow("new_file") = i
      /\ i \in Inodes \cup {0} /\ i # disk.entry["f"]
  BY <1>2, PathType DEF TypeInv, DiskOK, Names
<1>5. r.name = "f" =>
        /\ r.mode = f_file.mode
        /\ i # 0 => Unprivileged(new_file.mode) = Unprivileged(r.mode \ Umask)
  BY <1>1, <1>2 DEF UpToDate, EditsF
<1>6. /\ disk'.entry["f"] = disk.entry["f"] /\ Whereabouts' = Whereabouts
      /\ f_file' = f_file /\ disk'.entry["new_file"] = new
      /\ new_file'.text = <<>>
      /\ r.name = "f" => new_file'.mode \in EditModes(r.mode)
  <2>1. CASE i = 0
    <3>1. /\ disk'.entry["f"] = disk.entry["f"] /\ Whereabouts' = Whereabouts
          /\ f_file' = f_file /\ disk'.entry["new_file"] = FreeInode
          /\ disk'.inode[FreeInode] = File(<<>>, r.mode \ Umask)
      BY <1>1, <1>2, <1>4, <2>1, CreatedShows
    <3>2. new_file' = File(<<>>, r.mode \ Umask)
      BY <3>1 DEF new_file
    <3>3. new_file'.text = <<>> /\ new_file'.mode = r.mode \ Umask
      BY <3>2 DEF File
    <3> QED
      BY <2>1, <3>1, <3>3 DEF EditModes
  <2>2. CASE i # 0
    <3>1. i \in Inodes /\ disk' = Emptied(i)
      BY <1>1, <1>4, <2>2
    <3>2. /\ disk'.entry = disk.entry
          /\ disk'.inode = [disk.inode EXCEPT ![i] = Stored(disk.inode[i], <<>>)]
      BY <3>1, EmptiedKeeps DEF TypeInv
    <3>3. /\ Whereabouts' = Whereabouts /\ f_file' = f_file
          /\ disk'.inode[i] = Stored(disk.inode[i], <<>>)
      BY <1>2, <1>4, <3>1, <3>2, InodeShows DEF TypeInv
    <3>4. new_file' = Stored(new_file, <<>>)
      BY <3>2, <3>3 DEF new_file
    <3>5. new_file \in FileType /\ <<>> \in Seq(AllBytes)
      BY <3>1, InodeType DEF TypeInv, new_file
    <3>6. new_file'.text = <<>> /\ new_file'.mode = Unprivileged(new_file.mode)
      BY <3>4, <3>5, StoredType
    <3> QED
      BY <1>5, <2>2, <3>2, <3>3, <3>6 DEF EditModes
  <2> QED
    BY <2>1, <2>2
<1> HIDE DEF r, new
<1>7. r.name = "f" => EditsF(proc[p])'
  BY <1>3, <1>5, <1>6 DEF EditsF
<1>8. UpToDate(proc[p])'
  BY <1>2, <1>3, <1>6, <1>7 DEF UpToDate
<1> QED
  BY <1>6, <1>8, Unseen DEF Kept

(* The old file is opened, and copied in memory.                           *)
LEMMA CopyKeeps ==
  ASSUME TypeInv, Alone, ~disturbed, disturbed' = disturbed,
         NEW p \in Procs, OpenOld(p) \/ Copy(p)
  PROVE  Kept(p)
<1> DEFINE r == proc[p]
<1>1. r.pc \in {"openOld", "copy"} /\ disk' = disk
  BY DEF OpenOld, Copy, Goto
<1>2. r \in ProcType /\ Equipped(r) /\ UpToDate(r) /\ disk.entry["f"] # 0
  BY <1>1, WriterHas DEF Writing
<1>3. Whereabouts' = Whereabouts /\ f_file' = f_file /\ new_file' = new_file
  BY <1>1 DEF Whereabouts, f_file, new_file
<1>4. r.name = "f" => /\ r.mode = f_file.mode
                      /\ new_file.text = <<>> /\ new_file.mode \in EditModes(r.mode)
                      /\ r.pc = "copy" => r.old = disk.entry["f"]
  BY <1>1, <1>2 DEF UpToDate, EditsF
<1>5. r.new = disk.entry["new_file"]
  BY <1>1, <1>2 DEF UpToDate, HasNew
<1>6. CASE OpenOld(p)
  <2> DEFINE old == Follow(r.name)
  <2>1. r.pc = "openOld" /\ proc'[p] = [r EXCEPT !.pc = "copy", !.old = old]
    BY <1>6, GotoIs DEF OpenOld, TypeInv
  <2>2. r.name = "f" => old = disk.entry["f"]
    BY PathType DEF TypeInv, Names
  <2> HIDE DEF old
  <2>3. /\ proc'[p].pc = "copy" /\ proc'[p].old = old /\ proc'[p].name = r.name
        /\ proc'[p].mode = r.mode /\ proc'[p].new = r.new
    BY <1>2, <2>1 DEF ProcType
  <2> HIDE DEF r
  <2>4. r.name = "f" => EditsF(proc[p])'
    BY <1>1, <1>3, <1>4, <2>2, <2>3 DEF EditsF
  <2>5. UpToDate(proc[p])'
    BY <1>1, <1>2, <1>5, <2>3, <2>4 DEF UpToDate
  <2> QED
    BY <1>3, <2>5, Unseen DEF Kept
<1>7. CASE Copy(p)
  <2> DEFINE text == disk.inode[r.old].text
             new == IF r.text = <<>> THEN Deleted(text, r.n)
                    ELSE Inserted(text, r.n, r.text)
  <2>1. r.pc = "copy" /\ proc'[p] = [r EXCEPT !.pc = "close", !.text = new]
    BY <1>7, GotoIs DEF Copy, TypeInv
  <2>2. r.old \in Inodes /\ r.n \in Int /\ r.text \in Seq(AllBytes)
    BY <1>2, <2>1 DEF Equipped, HasOld, HasText, ProcType
  <2>3. text \in Seq(AllBytes)
    BY <2>2, InodeType DEF TypeInv
  <2>4. r.text # <<>> => \E q \in Procs : r.text = Line(q)
    BY <1>2, <2>1 DEF Equipped, HasLine, LineOrNone
  <2>5. r.name = "f" => text = f_file.text
    BY <1>4, <2>1 DEF f_file
  <2> HIDE DEF text
  <2>6. IsEdit(text, new)
    BY <2>2, <2>3, <2>4, DeletedIsEdit, InsertedIsEdit
  <2> HIDE DEF new
  <2>7. /\ proc'[p].pc = "close" /\ proc'[p].text = new /\ proc'[p].name = r.name
        /\ proc'[p].mode = r.mode /\ proc'[p].new = r.new
    BY <1>2, <2>1 DEF ProcType
  <2> HIDE DEF r
  <2>8. r.name = "f" => EditsF(proc[p])'
    <3>1. ASSUME r.name = "f" PROVE IsEdit(f_file'.text, proc'[p].text)
      BY <1>3, <2>5, <2>6, <2>7, <3>1
    <3> QED
      BY <1>1, <1>3, <1>4, <2>7, <3>1 DEF EditsF
  <2>9. UpToDate(proc[p])'
    BY <1>1, <1>2, <1>5, <2>7, <2>8 DEF UpToDate
  <2> QED
    BY <1>3, <2>9, Unseen DEF Kept
<1> QED
  BY <1>6, <1>7

(* fclose writes the edited lines to new_file: nothing of f.               *)
LEMMA CloseKeeps ==
  ASSUME TypeInv, Alone, ~disturbed, disturbed' = disturbed,
         NEW p \in Procs, CloseNew(p)
  PROVE  Kept(p)
<1> DEFINE r == proc[p]
           i == disk.entry["new_file"]
<1>1. /\ r.pc = "close" /\ disk' = Written(r.new, r.text)
      /\ proc'[p] = [r EXCEPT !.pc = "unlink", !.old = 0, !.new = 0]
  BY GotoIs DEF CloseNew, TypeInv
<1>2. r \in ProcType /\ Equipped(r) /\ UpToDate(r) /\ disk.entry["f"] # 0
  BY <1>1, WriterHas DEF Writing
<1>3. proc'[p].pc = "unlink" /\ proc'[p].name = r.name
  BY <1>1, <1>2 DEF ProcType
<1>4. /\ r.text \in Seq(AllBytes) /\ r.new = i /\ i \in Inodes
      /\ i # disk.entry["f"]
  <2>1. r.text \in Seq(AllBytes) /\ r.new \in Inodes
    BY <1>1, <1>2 DEF Equipped, HasText, HasNew
  <2>2. r.new = i
    BY <1>1, <1>2 DEF UpToDate, HasNew
  <2> QED
    BY <1>2, <2>1, <2>2 DEF TypeInv, DiskOK
<1>5. r.name = "f" =>
        /\ r.mode = f_file.mode /\ new_file.text = <<>>
        /\ new_file.mode \in EditModes(r.mode) /\ IsEdit(f_file.text, r.text)
  BY <1>1, <1>2 DEF UpToDate, EditsF
<1> DEFINE lines == r.text
<1>6. i # 0
  BY <1>4 DEF Inodes
<1> HIDE DEF r
<1>7. /\ disk'.entry = disk.entry /\ Whereabouts' = Whereabouts /\ f_file' = f_file
      /\ new_file.text = <<>> => new_file'.text = lines
      /\ new_file'.mode \in {new_file.mode, Unprivileged(new_file.mode)}
  <2>1. CASE lines = <<>>
    <3>1. disk' = disk
      BY <1>1, <2>1 DEF Written
    <3> QED
      BY <2>1, <3>1 DEF Whereabouts, f_file, new_file
  <2>2. CASE lines # <<>>
    <3> DEFINE text == disk.inode[i].text \o lines
    <3>1. /\ disk'.entry = disk.entry
          /\ disk'.inode = [disk.inode EXCEPT ![i] = Stored(disk.inode[i], text)]
      BY <1>1, <1>4, <2>2, WrittenKeeps DEF TypeInv
    <3>2. /\ Whereabouts' = Whereabouts /\ f_file' = f_file
          /\ disk'.inode[i] = Stored(disk.inode[i], text)
      BY <1>2, <1>4, <3>1, InodeShows DEF TypeInv
    <3>3. new_file' = Stored(new_file, text)
      BY <3>1, <3>2 DEF new_file
    <3>4. new_file \in FileType /\ new_file.text \in Seq(AllBytes)
      BY <1>4, InodeType DEF TypeInv, new_file
    <3>5. text \in Seq(AllBytes)
      BY <1>4, <3>4, ConcatProperties DEF new_file
    <3>6. new_file'.text = text /\ new_file'.mode = Unprivileged(new_file.mode)
      BY <3>3, <3>4, <3>5, StoredType
    <3>7. new_file.text = <<>> => text = lines
      BY <1>4 DEF new_file
    <3> QED
      BY <3>1, <3>2, <3>6, <3>7
  <2> QED
    BY <2>1, <2>2
<1>8. r.name = "f" => EditsF(proc[p])'
  <2>1. \A m : m \in EditModes(r.mode) => Unprivileged(m) \in EditModes(r.mode)
    BY DEF EditModes, Unprivileged
  <2>2. ASSUME r.name = "f" PROVE new_file'.mode \in EditModes(f_file'.mode)
    BY <1>5, <1>7, <2>1, <2>2
  <2>3. ASSUME r.name = "f" PROVE IsEdit(f_file'.text, new_file'.text)
    BY <1>5, <1>7, <2>3
  <2> QED
    BY <1>3, <1>6, <1>7, <2>2, <2>3 DEF EditsF, EditModes
<1>9. UpToDate(proc[p])'
  BY <1>2, <1>3, <1>7, <1>8 DEF UpToDate, HasNew
<1> QED
  BY <1>7, <1>9, Unseen DEF Kept

(* unlink is the moment of an edit: from now on f is what new_file holds.  *)
LEMMA UnlinkKeeps ==
  ASSUME TypeInv, Alone, ~disturbed, disturbed' = disturbed,
         NEW p \in Procs, Unlink(p)
  PROVE  Kept(p)
<1> DEFINE r == proc[p]
<1>1. /\ r.pc = "unlink" /\ disk' = Unlinked(r.name)
      /\ proc'[p] = [r EXCEPT !.pc = "rename"]
  BY GotoIs DEF Unlink, TypeInv
<1>2. /\ r \in ProcType /\ Equipped(r) /\ UpToDate(r) /\ disk.entry["f"] # 0
      /\ Whereabouts = f_file
  BY <1>1, WriterHas DEF Writing
<1>3. proc'[p].pc = "rename" /\ proc'[p].name = r.name
  BY <1>1, <1>2 DEF ProcType
<1>4. r.name \in Names /\ "f" \in Names /\ "new_file" \in Names
  BY <1>1, <1>2 DEF Equipped, HasName, Names
<1>5. DiskOK' /\ disk'.inode = disk.inode
      /\ disk'.entry = [disk.entry EXCEPT ![r.name] = 0]
  BY <1>1, <1>4, UnlinkedKeeps DEF TypeInv
<1>6. DOMAIN disk.entry = Names
  BY DEF TypeInv, DiskOK
<1>7. CASE r.name = "f"
  <2>1. /\ disk.entry["new_file"] # 0
        /\ IsEdit(f_file.text, new_file.text)
        /\ new_file.mode \in EditModes(f_file.mode)
    BY <1>1, <1>2, <1>7 DEF UpToDate, EditsF
  <2>2. disk'.entry["f"] = 0 /\ disk'.entry["new_file"] = disk.entry["new_file"]
    BY <1>4, <1>5, <1>6, <1>7
  <2>3. Whereabouts' = new_file
    BY <1>5, <2>1, <2>2 DEF Whereabouts, new_file
  <2>4. Moves
    BY <1>2, <2>1, <2>3, RewriteMoves
  <2>5. UpToDate(proc[p])'
    BY <1>3, <1>7, <2>1, <2>2 DEF UpToDate, EditsF, HasNew
  <2> QED
    BY <2>4, <2>5 DEF Kept
<1>8. CASE r.name # "f"
  <2>1. disk'.entry["f"] = disk.entry["f"]
    BY <1>4, <1>5, <1>6, <1>8
  <2>2. Whereabouts' = Whereabouts
    BY <1>2, <1>5, <2>1, Untouched DEF TypeInv
  <2>3. UpToDate(proc[p])'
    BY <1>2, <1>3, <1>8, <2>1 DEF UpToDate, HasNew
  <2> QED
    BY <2>2, <2>3, Unseen DEF Kept
<1> QED
  BY <1>7, <1>8

(* rename gives new_file the name of f.                                    *)
LEMMA RenameKeeps ==
  ASSUME TypeInv, Alone, ~disturbed, disturbed' = disturbed,
         NEW p \in Procs, Rename(p)
  PROVE  Kept(p)
<1> DEFINE r == proc[p]
<1>1. /\ r.pc = "rename" /\ disk' = Renamed("new_file", r.name)
      /\ proc'[p] = Idle
  BY GotoIs DEF Rename, TypeInv
<1>2. r \in ProcType /\ Equipped(r) /\ UpToDate(r)
  BY <1>1, WriterHas DEF Writing
<1>3. r.name \in Names /\ "f" \in Names /\ "new_file" \in Names
  BY <1>1, <1>2 DEF Equipped, HasName, Names
<1>4. /\ disk'.inode = disk.inode
      /\ disk'.entry =
           IF disk.entry["new_file"] = 0 \/ r.name = "new_file" THEN disk.entry
           ELSE [disk.entry EXCEPT ![r.name] = disk.entry["new_file"],
                                   !["new_file"] = 0]
  BY <1>1, <1>3, RenamedKeeps DEF TypeInv
<1>5. DOMAIN disk.entry = Names
  BY DEF TypeInv, DiskOK
<1> HIDE DEF r
<1>6. Whereabouts' = Whereabouts
  <2>1. CASE r.name = "f"
    <3>1. disk.entry["f"] = 0 /\ disk.entry["new_file"] # 0
      BY <1>1, <1>2, <2>1 DEF UpToDate, EditsF
    <3>2. disk'.entry["f"] = disk.entry["new_file"]
      BY <1>3, <1>4, <1>5, <2>1, <3>1
    <3> QED
      BY <1>4, <3>1, <3>2 DEF Whereabouts
  <2>2. CASE r.name # "f"
    <3>1. disk'.entry["f"] = disk.entry["f"]
      BY <1>3, <1>4, <1>5, <2>2
    <3>2. disk.entry["f"] # 0
      BY <1>2, <2>2 DEF UpToDate
    <3> QED
      BY <1>4, <3>1, <3>2 DEF Whereabouts
  <2> QED
    BY <2>1, <2>2
<1> QED
  BY <1>1, <1>6, Unseen, IdleType DEF Kept

(* chmod, through a link as well.                                          *)
LEMMA ChmodMoves ==
  ASSUME TypeInv, Alone, ~disturbed, disturbed' = disturbed,
         NEW p \in Procs, proc[p].pc \in {"chmod", "octal"},
         Follow(proc[p].name) # 0, ChangeMode(p)
  PROVE  Moves /\ disk'.entry["f"] # 0
<1> DEFINE r == proc[p]
           i == Follow(r.name)
           file == [disk.inode[i] EXCEPT !.mode = r.mode]
<1>1. /\ r \in ProcType /\ Equipped(r) /\ UpToDate(r) /\ disk.entry["f"] # 0
      /\ r.mode \in SUBSET Bits
  BY WriterHas DEF Writing, ProcType
<1>2. r.name \in Names /\ i \in Inodes
  <2>1. r.name \in Names
    BY <1>1 DEF Equipped, HasName
  <2> QED
    BY <2>1, PathType DEF TypeInv
<1>3. r.pc = "chmod" => r.mode \in BitChanged(disk.inode[i].mode)
  <2>1. ASSUME r.pc = "chmod" PROVE Target(r.name) = r.name
    BY <1>1, <2>1 DEF UpToDate, Target
  <2> QED
    BY <1>1, <2>1 DEF UpToDate, Follow
<1>4. r.pc = "octal" => r.mode \in Octals
  BY <1>1 DEF UpToDate
<1> HIDE DEF i
<1>5. /\ disk'.entry = disk.entry
      /\ disk'.inode = [disk.inode EXCEPT ![i] = file]
  BY <1>1, <1>2, ChmodKeeps DEF ChangeMode, TypeInv, i
<1>6. file.text = disk.inode[i].text /\ file.mode = r.mode
  BY <1>2, InodeType DEF FileType, TypeInv
<1> HIDE DEF file
<1>7. /\ Whereabouts = f_file /\ Whereabouts' = f_file'
      /\ i = disk.entry["f"] => f_file' = file
      /\ i # disk.entry["f"] => f_file' = f_file
  BY <1>1, <1>2, <1>5, InodeShows DEF TypeInv
<1>8. CASE i = disk.entry["f"]
  <2>1. Whereabouts = disk.inode[i] /\ Whereabouts' = file
    BY <1>7, <1>8 DEF f_file
  <2> QED
    BY <1>1, <1>3, <1>4, <1>5, <1>6, <2>1, ModeMoves
<1>9. CASE i # disk.entry["f"]
  BY <1>1, <1>5, <1>7, <1>9, Unseen
<1> QED
  BY <1>8, <1>9

(* Steps of mojChmod and list; those of list write nothing.                *)
LEMMA ModeStepKeeps ==
  ASSUME TypeInv, Alone, ~disturbed, disturbed' = disturbed,
         NEW p \in Procs, ModeStep(p)
  PROVE  Kept(p) /\ (~Writing(proc[p]) => disk' = disk /\ ~Writing(proc'[p]))
<1> DEFINE r == proc[p]
<1>1. CASE SymbolicChmod(p)
  <2>1. /\ r.pc = "chmod" /\ Follow(r.name) # 0 /\ ChangeMode(p) /\ proc'[p] = Idle
    BY <1>1, GotoIs DEF SymbolicChmod, TypeInv
  <2> QED
    BY <2>1, ChmodMoves, IdleType DEF Kept, Writing
<1>2. CASE OctalChmod(p)
  <2>1. /\ r.pc = "octal" /\ Follow(r.name) # 0 /\ ChangeMode(p)
        /\ proc'[p] = [r EXCEPT !.pc = "lstat"]
    BY <1>2, GotoIs DEF OctalChmod, TypeInv
  <2>2. Moves /\ disk'.entry["f"] # 0
    BY <2>1, ChmodMoves
  <2>3. proc'[p].pc = "lstat"
    BY <2>1 DEF TypeInv, ProcOK, ProcType
  <2> QED
    BY <2>1, <2>2, <2>3, PlainUpToDate DEF Kept, Writing
<1>3. CASE ChmodFails(p) \/ LstatAgain(p)
  <2>1. disk' = disk /\ proc'[p] = Idle /\ r.pc \in {"chmod", "octal", "lstat"}
    BY <1>3, GotoIs DEF ChmodFails, LstatAgain, TypeInv
  <2> QED
    BY <2>1, EndKeeps DEF Writing
<1>4. CASE ListRow(p)
  <2>1. r.pc = "list" /\ disk' = disk
    BY <1>4 DEF ListRow
  <2>2. ~Writing(proc'[p])
    <3>1. CASE Goto(p, "list", Idle)
      BY <3>1, GotoIs, IdleType DEF TypeInv
    <3>2. CASE Goto(p, "list", [r EXCEPT !.text = Tail(@)])
      <4>1. proc'[p] = [r EXCEPT !.text = Tail(@)] /\ r \in ProcType
        BY <3>2, GotoIs DEF TypeInv, ProcOK
      <4>2. proc'[p].pc = "list"
        BY <2>1, <4>1 DEF ProcType
      <4> QED
        BY <4>2 DEF Writing
    <3> QED
      BY <1>4, <3>1, <3>2 DEF ListRow
  <2>3. Whereabouts' = Whereabouts
    BY <2>1 DEF Whereabouts
  <2> QED
    BY <2>1, <2>2, <2>3, Unseen DEF Kept
<1> QED
  BY <1>1, <1>2, <1>3, <1>4 DEF ModeStep

(* rep writes nothing.                                                     *)
LEMMA RepKeeps ==
  ASSUME TypeInv, disturbed' = disturbed, NEW p \in Procs, RepStarts(p) \/ RepStep(p)
  PROVE  Kept(p) /\ disk' = disk /\ ~Writing(proc'[p])
<1> DEFINE r == proc[p]
<1>1. disk' = disk
  BY RepTypes
<1>2. ~Writing(proc'[p])
  <2>1. ASSUME NEW name \in Names, NEW n \in Counts, RepOpen(p, name, n)
        PROVE  proc'[p].pc = "scan"
    <3> DEFINE old  == Follow(name)
               size == Len(disk.inode[old].text)
               last == size - 1
    <3>1. proc'[p] = [Idle EXCEPT !.pc = "scan", !.old = old, !.left = n,
                        !.offset = last, !.pos = size]
      BY <2>1, GotoIs DEF RepOpen, TypeInv
    <3> HIDE DEF size, last, old
    <3> QED
      BY <3>1 DEF Idle
  <2>2. CASE RepScan(p)
    <3> DEFINE at == IF r.offset >= 0 THEN r.offset ELSE r.pos
               left == IF disk.inode[r.old].text[at + 1] = "LF"
                       THEN r.left - 1 ELSE r.left
               last == r.offset - 1
               next == at + 1
    <3>3. Goto(p, "scan", [r EXCEPT !.left = left, !.offset = last, !.pos = next])
      BY <2>2 DEF RepScan
    <3> HIDE DEF left, last, next
    <3>1. /\ proc'[p] = [r EXCEPT !.left = left, !.offset = last, !.pos = next]
          /\ r.pc = "scan" /\ r \in ProcType
      BY <3>3, GotoIs DEF TypeInv, ProcOK
    <3>2. proc'[p].pc = "scan"
      BY <3>1 DEF ProcType
    <3> QED
      BY <3>2 DEF Writing
  <2>3. CASE RepPrints(p) \/ RepEnd(p)
    <3>1. proc[p] \in ProcType /\ r.pc = "scan"
      BY <2>3 DEF TypeInv, ProcOK, RepPrints, RepEnd, Goto
    <3>2. \A end : [r EXCEPT !.pos = end].pc = "scan"
      BY <3>1 DEF ProcType
    <3>3. [r EXCEPT !.pc = "closeRep"].pc = "closeRep"
      BY <3>1 DEF ProcType
    <3>4. PICK new \in ProcType :
            new.pc \in {"scan", "closeRep"} /\ proc'[p] = new
      <4>1. \/ Goto(p, "scan", [r EXCEPT !.pc = "closeRep"])
            \/ \E end : Goto(p, "scan", [r EXCEPT !.pos = end])
        BY <2>3 DEF RepPrints, RepEnd
      <4>2. proc'[p] \in ProcType
        BY <2>3, RepTypes DEF TypeInv, ProcOK, RepStep
      <4>3. proc' = [proc EXCEPT ![p] = [r EXCEPT !.pc = "closeRep"]]
              \/ \E end : proc' = [proc EXCEPT ![p] = [r EXCEPT !.pos = end]]
        BY <4>1 DEF Goto
      <4>4. \A new : proc' = [proc EXCEPT ![p] = new] => proc'[p] = new
        BY DEF TypeInv, ProcOK
      <4> QED
        BY <3>2, <3>3, <4>2, <4>3, <4>4
    <3> QED
      BY <3>4 DEF Writing
  <2>4. CASE RepFails(p) \/ RepClose(p)
    BY <2>4, GotoIs, IdleType DEF RepFails, RepClose, TypeInv
  <2> QED
    BY <2>1, <2>2, <2>3, <2>4 DEF RepStarts, RepStep, Writing
<1>3. Whereabouts' = Whereabouts
  BY <1>1 DEF Whereabouts
<1> QED
  BY <1>1, <1>2, <1>3, Unseen DEF Kept

(* Steps of kamned.                                                        *)
LEMMA EditorStepKeeps ==
  ASSUME TypeInv, Alone, ~disturbed, disturbed' = disturbed,
         NEW p \in Procs, EditorStep(p)
  PROVE  Kept(p) /\ Writing(proc[p])
<1>1. Writing(proc[p])
  BY DEF EditorStep, AppendLine, AppendEnd, OpenNew, NewFails, OpenOld, OpenFails,
         Copy, CloseNew, Unlink, Rename, Goto, Writing
<1>2. CASE AppendEnd(p) \/ NewFails(p) \/ OpenFails(p)
  <2>1. disk' = disk /\ proc'[p] = Idle
    BY <1>2, GotoIs DEF AppendEnd, NewFails, OpenFails, TypeInv
  <2> QED
    BY <1>1, <2>1, EndKeeps
<1> QED
  BY <1>1, <1>2, AppendKeeps, OpenNewKeeps, CopyKeeps, CloseKeeps, UnlinkKeeps,
     RenameKeeps DEF EditorStep

(* Steps of tee1.                                                          *)
LEMMA TeeStepKeeps ==
  ASSUME TypeInv, Alone, ~disturbed, disturbed' = disturbed,
         NEW p \in Procs, TeeStep(p)
  PROVE  Kept(p) /\ Writing(proc[p])
<1>1. Writing(proc[p])
  BY DEF TeeStep, TeeLine, TeeEnd, Goto, Writing
<1>2. CASE TeeEnd(p)
  <2>1. disk' = disk /\ proc'[p] = Idle
    BY <1>2, GotoIs DEF TeeEnd, TypeInv
  <2> QED
    BY <1>1, <2>1, EndKeeps
<1> QED
  BY <1>1, <1>2, TeeKeeps DEF TeeStep

(* The inductive invariant.                                                *)
FileInv == TypeInv /\ PrintedOK /\ Alone /\ disturbed \in BOOLEAN

(* As long as nobody is disturbed, whoever writes writes alone, and every  *)
(* step of it is one of EditedFile, or does not show.                      *)
LEMMA UndisturbedKeeps ==
  ASSUME FileInv, ~disturbed, disturbed' = disturbed, [Next]_vars
  PROVE  Alone' /\ Moves
<1>1. TypeInv /\ ProcOK /\ Alone
  BY DEF FileInv, TypeInv
<1>2. ASSUME NEW p \in Procs, Start(p) PROVE Alone' /\ Moves
  <2>1. /\ Kept(p)
        /\ Writing(proc'[p]) \/ disk' = disk
    BY <1>1, <1>2, EditorStartKeeps, ModeStartKeeps, RepKeeps, TeeStartKeeps DEF Start
  <2>2. \A q \in Procs \ {p} : proc'[q] = proc[q]
    BY <1>2, GotoIs, <1>1
       DEF Start, EditorStarts, AppendOpen, Stat, ModeStarts, ListOpen, Lstat,
           RepStarts, RepOpen, TeeStarts, TeeOpen
  <2>3. Writing(proc'[p]) => \A q \in Procs \ {p} : ~Writing(proc[q])
    BY <1>2, StartsClear
  <2> QED
    BY <1>1, <2>1, <2>2, <2>3, AloneKeeps DEF Kept
<1>3. ASSUME NEW p \in Procs, Step(p) PROVE Alone' /\ Moves
  <2>1. /\ Kept(p)
        /\ Writing(proc[p]) \/ (disk' = disk /\ ~Writing(proc'[p]))
    BY <1>1, <1>3, EditorStepKeeps, ModeStepKeeps, RepKeeps, TeeStepKeeps DEF Step
  <2>2. \A q \in Procs \ {p} : proc'[q] = proc[q]
    BY <1>3, GotoIs, <1>1
       DEF Step, EditorStep, AppendLine, AppendEnd, OpenNew, NewFails, OpenOld,
           OpenFails, Copy, CloseNew, Unlink, Rename, ModeStep, SymbolicChmod,
           OctalChmod, ChmodFails, LstatAgain, ListRow, RepStep, RepScan, RepFails,
           RepPrints, RepEnd, RepClose, TeeStep, TeeLine, TeeEnd
  <2>3. Writing(proc[p]) => \A q \in Procs \ {p} : ~Writing(proc[q])
    BY <1>1, WriterHas
  <2> QED
    BY <1>1, <2>1, <2>2, <2>3, AloneKeeps DEF Kept
<1>4. ASSUME NEW p \in Procs, Kill(p) PROVE Alone' /\ Moves
  <2>1. /\ disk' = disk /\ proc'[p] = Idle
        /\ \A q \in Procs \ {p} : proc'[q] = proc[q]
    BY <1>1, <1>4 DEF Kill, ProcOK
  <2> QED
    BY <1>1, <2>1, EndKeeps, IdleType, AloneKeeps DEF Kept
<1>5. CASE UNCHANGED vars
  <2>1. disk' = disk /\ proc' = proc
    BY <1>5 DEF vars
  <2>2. Alone'
    BY <1>1, <2>1 DEF Alone, UpToDate, EditsF, f_file, new_file
  <2>3. Whereabouts' = Whereabouts
    BY <2>1 DEF Whereabouts
  <2> QED
    BY <2>2, <2>3, Unseen
<1> QED
  BY <1>2, <1>3, <1>4, <1>5 DEF Next, Done

(* Every step keeps it, and is one of EditedFile.                          *)
LEMMA StepKeeps ==
  ASSUME FileInv, [Next]_vars
  PROVE  FileInv' /\ Moves
<1>1. TypeInv' /\ PrintedOK'
  BY StepTypes DEF FileInv
<1>2. disturbed' \in BOOLEAN /\ (disturbed => disturbed')
  <2>1. ASSUME NEW p \in Procs, Start(p)
        PROVE  disturbed' \in BOOLEAN /\ (disturbed => disturbed')
    BY <2>1 DEF Start, Disturbs, FileInv
  <2> QED
    BY <2>1 DEF Next, Step, Kill, Done, vars, FileInv
<1>3. CASE disturbed'
  BY <1>1, <1>2, <1>3, ChaosMoves DEF FileInv, Alone
<1>4. CASE ~disturbed'
  <2>1. ~disturbed /\ disturbed' = disturbed
    BY <1>2, <1>4 DEF FileInv
  <2> QED
    BY <1>1, <1>2, <2>1, UndisturbedKeeps DEF FileInv
<1> QED
  BY <1>3, <1>4

(* At first f is whole.                                                    *)
LEMMA FileInit == Init => FileInv /\ Promise!Init
<1> SUFFICES ASSUME Init PROVE FileInv /\ Promise!Init
  OBVIOUS
<1>1. TypeInv /\ PrintedOK
  BY InitTypes
<1>2. Alone /\ disturbed = FALSE
  BY IdleType DEF Init, Alone
<1>3. disk.entry["f"] # 0
  BY DEF Init, Names
<1>4. Whereabouts \in FileType
  BY <1>1, <1>3, WhereIs DEF TypeInv
<1>5. Whereabouts.text \in Seq(AllBytes) /\ Whereabouts.mode \subseteq Bits
  BY <1>4 DEF FileType
<1> QED
  BY <1>1, <1>2, <1>5 DEF FileInv, Promise!Init, AllBytes

(* kamned.c, tee1.c, mojChmod.c: as long as no two programs that write are *)
(* at work together, every edit of f and every change of its mode happens  *)
(* as a whole or not at all (FileSpec), although kamned writes it to       *)
(* another file, unlinks f and renames, and may be killed in between.      *)
THEOREM EditsAreWhole == Spec => FileSpec
<1>1. Init => FileInv /\ Promise!Init
  BY FileInit
<1>2. FileInv /\ [Next]_vars => FileInv' /\ Moves
  BY StepKeeps
<1> QED
  BY <1>1, <1>2, PTL DEF Spec, FileSpec, Promise!Spec, Moves

-----------------------------------------------------------------------------
(* rep                                                                     *)

ShownType ==
  [out : Seq(AllBytes), n : Int, before : Seq(AllBytes), seen : Seq(AllBytes)]

(* Text s has only grown into t.                                           *)
Grown(s, t) == Len(s) <= Len(t) /\ \A i \in 1..Len(s) : t[i] = s[i]

(* The newlines there were when the file was opened, and the byte that rep *)
(* counts from when it goes forwards.                                      *)
Met(s)   == Newlines(s.before, 1, Len(s.before))
First(s) == IF Len(s.before) = 0 THEN 1 ELSE 2

(* On the way back; then forwards, as lseek fails; then it prints, from q. *)
Back(r, s) ==
  /\ r.left > 0 /\ s.out = <<>> /\ r.offset \in -1..(Len(s.before) - 1)
  /\ r.left = s.n - Newlines(s.before, r.offset + 2, Len(s.before))
  /\ r.pos = IF r.offset = Len(s.before) - 1 THEN Len(s.before) ELSE r.offset + 2

Forth(r, s) ==
  /\ r.left > 0 /\ s.out = <<>> /\ r.offset < 0
  /\ r.pos \in (First(s) - 1)..Len(s.seen)
  /\ r.left = s.n - Met(s) - Newlines(s.seen, First(s), r.pos)

Found(s, q) ==
  /\ s.n <= 0 => q = Len(s.before)
  /\ s.n > 0 =>
       /\ q > 0 /\ s.seen[q] = "LF"
       /\ IF s.n <= Met(s)
            THEN q <= Len(s.before) /\ Newlines(s.before, q, Len(s.before)) = s.n
            ELSE Newlines(s.seen, First(s), q) = s.n - Met(s)

Printing(r, s) ==
  /\ r.left <= 0 /\ r.pos <= Len(s.seen)
  /\ \E q \in 0..r.pos : Found(s, q) /\ s.out = SubSeq(s.seen, q + 1, r.pos)

Shown(r, s) ==
  /\ s \in ShownType /\ Grown(s.before, s.seen)
  /\ \/ r.pc = "scan" /\ (Back(r, s) \/ Forth(r, s) \/ Printing(r, s))
     \/ r.pc = "closeRep" /\ Printing(r, s) /\ r.pos = Len(s.seen)

RepInv ==
  /\ shown = [p \in Procs |-> shown[p]]
  /\ \A p \in Procs : shown[p] = Nothing \/ Shown(proc[p], shown[p])

(* What has the same bytes has the same newlines.                          *)
LEMMA SameCount ==
  ASSUME NEW text, NEW other, NEW i \in Int, NEW j \in Int,
         \A k \in i..j : text[k] = other[k]
  PROVE  Newlines(text, i, j) = Newlines(other, i, j)
<1>1. {k \in i..j : text[k] = "LF"} = {k \in i..j : other[k] = "LF"}
  OBVIOUS
<1> QED
  BY <1>1 DEF Newlines

(* A part of a text has no more newlines than the text.                    *)
LEMMA FewerCount ==
  ASSUME NEW text, NEW i \in Int, NEW j \in Int, NEW q \in Int, i <= q
  PROVE  Newlines(text, q, j) <= Newlines(text, i, j)
<1> DEFINE A == {k \in q..j : text[k] = "LF"}
           B == {k \in i..j : text[k] = "LF"}
<1>1. IsFiniteSet(B)
  <2>1. IsFiniteSet(i..j)
    BY FS_Interval
  <2> QED
    BY <2>1, FS_Subset
<1>2. A \subseteq B
  OBVIOUS
<1>3. Cardinality(A) <= Cardinality(B)
  BY <1>1, <1>2, FS_Subset
<1> QED
  BY <1>3 DEF Newlines

(* A prefix of a text, byte for byte.                                      *)
LEMMA PrefixGrows ==
  ASSUME NEW s \in Seq(AllBytes), NEW t \in Seq(AllBytes), IsPrefix(s, t)
  PROVE  Grown(s, t)
<1>1. Len(s) \in Nat /\ Len(t) \in Nat /\ Len(s) <= Len(t)
  BY LenProperties DEF IsPrefix
<1>2. SubSeq(s, 1, Len(s)) = SubSeq(t, 1, Len(s))
  BY DEF IsPrefix
<1>3. /\ \A i \in 1..Len(s) : s[i] \in AllBytes
      /\ \A i \in 1..Len(s) : t[i] \in AllBytes
  BY <1>1, LenProperties
<1>4. /\ \A i \in 1..Len(s) : SubSeq(s, 1, Len(s))[i] = s[i]
      /\ \A i \in 1..Len(s) : SubSeq(t, 1, Len(s))[i] = t[i]
  <2>1. \A x : (\A i \in 1..Len(s) : x[i] \in AllBytes) =>
          \A i \in 1..(Len(s) - 1 + 1) : SubSeq(x, 1, Len(s))[i] = x[1 + i - 1]
    BY <1>1, SubSeqProperties
  <2>2. Len(s) - 1 + 1 = Len(s) /\ \A i \in 1..Len(s) : 1 + i - 1 = i
    BY <1>1
  <2> QED
    BY <1>3, <2>1, <2>2
<1> QED
  BY <1>1, <1>2, <1>4 DEF Grown

(* What is cut from the start of a text is the same when it has grown.     *)
LEMMA SameCut ==
  ASSUME NEW s \in Seq(AllBytes), NEW t \in Seq(AllBytes), Grown(s, t),
         NEW a \in Nat, NEW b \in Nat, a <= b, b <= Len(s)
  PROVE  SubSeq(s, a + 1, b) = SubSeq(t, a + 1, b)
<1>1. /\ Len(s) \in Nat /\ Len(t) \in Nat /\ Len(s) <= Len(t)
      /\ \A i \in 1..Len(s) : s[i] \in AllBytes /\ t[i] = s[i]
  BY LenProperties DEF Grown
<1>2. \A i \in (a + 1)..b : s[i] \in AllBytes /\ t[i] = s[i]
  BY <1>1
<1>3. \A x : (\A i \in (a + 1)..b : x[i] \in AllBytes) =>
        /\ SubSeq(x, a + 1, b) \in Seq(AllBytes)
        /\ Len(SubSeq(x, a + 1, b)) = b - a
        /\ \A i \in 1..(b - a) : SubSeq(x, a + 1, b)[i] = x[a + i]
  <2>1. ASSUME NEW x, \A i \in (a + 1)..b : x[i] \in AllBytes
        PROVE  /\ SubSeq(x, a + 1, b) \in Seq(AllBytes)
               /\ Len(SubSeq(x, a + 1, b)) = IF a + 1 <= b THEN b - (a + 1) + 1 ELSE 0
               /\ \A i \in 1..(b - (a + 1) + 1) :
                    SubSeq(x, a + 1, b)[i] = x[(a + 1) + i - 1]
    <3>1. a + 1 \in Int /\ b \in Int
      OBVIOUS
    <3> QED
      BY <2>1, <3>1, SubSeqProperties
  <2>2. /\ b - (a + 1) + 1 = b - a
        /\ (IF a + 1 <= b THEN b - (a + 1) + 1 ELSE 0) = b - a
        /\ \A i \in Int : (a + 1) + i - 1 = a + i
    OBVIOUS
  <2> QED
    BY <2>1, <2>2
<1>4. \A i \in 1..(b - a) : a + i \in (a + 1)..b
  OBVIOUS
<1>5. /\ SubSeq(s, a + 1, b) \in Seq(AllBytes) /\ SubSeq(t, a + 1, b) \in Seq(AllBytes)
      /\ Len(SubSeq(s, a + 1, b)) = b - a /\ Len(SubSeq(t, a + 1, b)) = b - a
      /\ \A i \in 1..(b - a) : SubSeq(s, a + 1, b)[i] = SubSeq(t, a + 1, b)[i]
  BY <1>2, <1>3, <1>4
<1> QED
  BY <1>5, SeqEqual

(* The place to print from is the same when the file has grown.            *)
LEMMA FoundStays ==
  ASSUME NEW s \in ShownType, NEW t \in ShownType, t.n = s.n, t.before = s.before,
         Grown(s.seen, t.seen), NEW q \in 0..Len(s.seen), Found(s, q)
  PROVE  Found(t, q)
<1>1. Len(s.seen) \in Nat /\ q \in Int /\ First(s) \in {1, 2}
  BY LenProperties DEF ShownType, First
<1>2. \A k \in 1..Len(s.seen) : s.seen[k] = t.seen[k]
  BY DEF Grown
<1>3. \A k \in First(s)..q : s.seen[k] = t.seen[k]
  BY <1>1, <1>2
<1>4. Newlines(s.seen, First(s), q) = Newlines(t.seen, First(s), q)
  BY <1>1, <1>3, SameCount
<1>5. Met(t) = Met(s) /\ First(t) = First(s)
  BY DEF Met, First
<1>6. q > 0 => t.seen[q] = s.seen[q]
  BY <1>1, <1>2
<1> QED
  BY <1>4, <1>5, <1>6 DEF Found

(* A byte on the way forwards.                                             *)
LEMMA ForthGoesOn ==
  ASSUME NEW r, NEW s \in ShownType, NEW u, NEW t \in ShownType,
         r.offset \in Int, r.pos \in Nat, r.left \in Int,
         Grown(s.seen, t.seen), t.out = <<>>, t.n = s.n, t.before = s.before,
         Forth(r, s), r.pos < Len(t.seen),
         u.left = IF t.seen[r.pos + 1] = "LF" THEN r.left - 1 ELSE r.left,
         u.offset = r.offset - 1, u.pos = r.pos + 1
  PROVE  Forth(u, t) \/ Printing(u, t)
<1> DEFINE F == First(s)
           k == r.pos + 1
           new == t.seen
<1>1. /\ Len(s.seen) \in Nat /\ Len(new) \in Nat /\ F \in {1, 2} /\ s.n \in Int
      /\ k \in Nat /\ r.pos \in (F - 1)..Len(s.seen)
  BY LenProperties DEF ShownType, First, Forth
<1>2. F \in Int /\ r.pos \in Int /\ F <= r.pos + 1
  BY <1>1
<1>3. /\ r.left = s.n - Met(s) - Newlines(s.seen, F, r.pos)
       /\ r.left > 0 /\ r.offset < 0
  BY DEF Forth
<1> HIDE DEF F, new
<1>4. Newlines(s.seen, F, r.pos) = Newlines(new, F, r.pos)
  <2>1. \A i \in F..r.pos : i \in 1..Len(s.seen)
    BY <1>1
  <2>2. \A i \in F..r.pos : s.seen[i] = new[i]
    BY <2>1 DEF Grown, new
  <2> QED
    BY <1>2, <2>2, SameCount
<1>5. Newlines(new, F, k) = Newlines(new, F, r.pos) + (IF new[k] = "LF" THEN 1 ELSE 0)
  BY <1>2, Counting
<1>6. Newlines(new, F, r.pos) \in Nat
  BY <1>2, Counting
<1>7. Met(s) \in Nat
  <2>1. Len(s.before) \in Int
    BY LenProperties DEF ShownType
  <2> QED
    BY <2>1, Counting DEF Met
<1>8. u.left = IF new[k] = "LF" THEN r.left - 1 ELSE r.left
  BY DEF new
<1>9. u.left = s.n - Met(s) - Newlines(new, F, k) /\ u.left \in Int
  <2> HIDE DEF k
  <2>2. CASE new[k] = "LF"
    <3>1. u.left = r.left - 1 /\ Newlines(new, F, k) = Newlines(new, F, r.pos) + 1
      BY <1>5, <1>8, <2>2
    <3>2. r.left = s.n - Met(s) - Newlines(new, F, r.pos) /\ s.n \in Int
      BY <1>1, <1>4, <1>3
    <3>3. \A a, c, l \in Int : (a - c - l) - 1 = a - c - (l + 1) /\ (a - c - l) - 1 \in Int
      OBVIOUS
    <3>4. Met(s) \in Int /\ Newlines(new, F, r.pos) \in Int
      BY <1>6, <1>7
    <3>5. (s.n - Met(s) - Newlines(new, F, r.pos)) - 1
            = s.n - Met(s) - (Newlines(new, F, r.pos) + 1)
          /\ (s.n - Met(s) - Newlines(new, F, r.pos)) - 1 \in Int
      BY <3>2, <3>3, <3>4
    <3> QED
      BY <3>1, <3>2, <3>5, Zenon
  <2>3. CASE new[k] # "LF"
    BY <1>1, <1>4, <1>5, <1>6, <1>7, <1>3, <1>8, <2>3
  <2> QED
    BY <2>2, <2>3
<1>10. Met(t) = Met(s) /\ First(t) = F
  BY DEF Met, First, F
<1>11. CASE u.left > 0
  <2>1. u.pos \in (F - 1)..Len(new) /\ u.offset < 0
    BY <1>1, <1>3 DEF new
  <2> QED
    BY <1>9, <1>10, <1>11, <2>1 DEF Forth, new
<1>12. CASE ~(u.left > 0)
  <2>1. new[k] = "LF" /\ u.left = 0
    BY <1>9, <1>12, <1>3, <1>8
  <2>2. Newlines(new, F, k) \in Nat
    BY <1>1, <1>2, Counting
  <2>3. s.n > Met(s) /\ s.n > 0 /\ Newlines(new, F, k) = s.n - Met(s)
    <3> HIDE DEF k
    <3>1. Newlines(new, F, k) = s.n - Met(s)
      <4>1. s.n - Met(s) - Newlines(new, F, k) = 0 /\ s.n \in Int
        BY <1>1, <1>9, <2>1
      <4> QED
        BY <1>7, <2>2, <4>1
    <3>2. s.n - Met(s) >= r.left
      BY <1>1, <1>4, <1>6, <1>7, <1>3
    <3> QED
      BY <1>1, <1>7, <1>3, <3>1, <3>2
  <2>4. Found(t, k)
    BY <1>1, <1>7, <1>10, <2>1, <2>3 DEF Found, new
  <2>5. SubSeq(new, k + 1, k) = <<>>
    BY <1>1, SubSeqEmpty
  <2>6. k \in 0..u.pos /\ u.pos = k /\ u.pos <= Len(new) /\ u.left <= 0
    BY <1>1, <2>1 DEF new
  <2> QED
    BY <2>4, <2>5, <2>6 DEF Printing, new
<1> QED
  BY <1>11, <1>12

(* At the beginning of the file the way back becomes one forwards.         *)
LEMMA BackTurns ==
  ASSUME NEW r, NEW s \in ShownType, Grown(s.before, s.seen),
         Back(r, s), r.offset < 0
  PROVE  Forth(r, s)
<1> DEFINE m == Len(s.before)
<1>1. m \in Nat /\ Len(s.seen) \in Nat /\ m <= Len(s.seen) /\ s.n \in Int
  BY LenProperties DEF ShownType, Grown
<1>2. r.offset = -1 /\ r.left = s.n - Newlines(s.before, 1, m)
  BY <1>1 DEF Back
<1>3. r.pos = First(s) - 1 /\ First(s) \in {1, 2} /\ First(s) - 1 <= m
  BY <1>1, <1>2 DEF Back, First
<1>4. Newlines(s.seen, First(s), r.pos) = 0
  BY <1>3, Counting
<1>5. Newlines(s.before, 1, m) \in Nat
  BY <1>1, Counting
<1> QED
  BY <1>1, <1>2, <1>3, <1>4, <1>5 DEF Back, Forth, Met

(* A byte on the way back.                                                 *)
LEMMA BackGoesOn ==
  ASSUME NEW r, NEW s \in ShownType, NEW u, NEW t \in ShownType,
         Grown(s.before, t.seen), t.out = <<>>, t.n = s.n, t.before = s.before,
         Back(r, s), r.offset >= 0,
         u.left = IF t.seen[r.offset + 1] = "LF" THEN r.left - 1 ELSE r.left,
         u.offset = r.offset - 1, u.pos = r.offset + 1
  PROVE  Back(u, t) \/ Printing(u, t)
<1> DEFINE b == s.before
           m == Len(b)
           k == r.offset + 1
<1>1. m \in Nat /\ Len(t.seen) \in Nat /\ m <= Len(t.seen) /\ s.n \in Int
  BY LenProperties DEF ShownType, Grown
<1>2. r.offset \in Int /\ r.offset <= m - 1
  BY <1>1 DEF Back
<1>3. k \in 1..m /\ t.seen[k] = b[k] /\ r.offset + 2 = k + 1 /\ u.offset + 2 = k
  <2>1. k \in 1..m /\ r.offset + 2 = k + 1 /\ u.offset + 2 = k
    BY <1>1, <1>2
  <2> QED
    BY <2>1 DEF Grown
<1>4. Newlines(b, k, m) = Newlines(b, k + 1, m) + (IF b[k] = "LF" THEN 1 ELSE 0)
  <2>1. \A i \in Int : i - 1 <= m =>
          Newlines(b, i - 1, m) = Newlines(b, i, m) + (IF b[i - 1] = "LF" THEN 1 ELSE 0)
    <3>1. m \in Int
      BY <1>1
    <3> HIDE DEF m, b
    <3> QED
      BY <3>1, Counting
  <2>2. k + 1 \in Int /\ (k + 1) - 1 = k /\ k <= m
    BY <1>1, <1>3
  <2> QED
    BY <2>1, <2>2
<1>5. Newlines(b, k + 1, m) \in Nat
  BY <1>1, <1>3, Counting
<1>6. r.left = s.n - Newlines(b, k + 1, m) /\ r.left > 0
  BY <1>3 DEF Back
<1>7. u.left = s.n - Newlines(b, k, m) /\ u.left \in Int
  BY <1>1, <1>3, <1>4, <1>5, <1>6
<1>8. CASE u.left > 0
  <2>1. u.offset \in -1..(m - 1) /\ u.offset # m - 1
    BY <1>1, <1>3, <1>2
  <2> QED
    BY <1>3, <1>7, <1>8, <2>1 DEF Back
<1>9. CASE ~(u.left > 0)
  <2>1. b[k] = "LF" /\ Newlines(b, k, m) = s.n /\ s.n > 0 /\ u.left <= 0
    BY <1>1, <1>3, <1>4, <1>5, <1>6, <1>7, <1>9
  <2>2. s.n <= Met(t)
    <3>1. k \in Int /\ 1 <= k
      BY <1>3
    <3> QED
      BY <1>1, <2>1, <3>1, FewerCount DEF Met
  <2>3. Found(t, k)
    BY <1>1, <1>3, <2>1, <2>2 DEF Found
  <2>4. SubSeq(t.seen, k + 1, k) = <<>>
    BY <1>1, <1>3, SubSeqEmpty
  <2> QED
    BY <1>1, <1>3, <2>1, <2>3, <2>4 DEF Printing
<1> QED
  BY <1>8, <1>9

(* A read that prints, or that finds the end.                              *)
LEMMA PrintingGoesOn ==
  ASSUME NEW r, NEW s \in ShownType, NEW u, NEW t \in ShownType, r.pos \in Nat,
         Grown(s.seen, t.seen), t.n = s.n, t.before = s.before,
         Printing(r, s), u.left = r.left,
         u.pos \in r.pos..Len(t.seen),
         t.out = s.out \o SubSeq(t.seen, r.pos + 1, u.pos)
  PROVE  Printing(u, t)
<1>1. PICK q \in 0..r.pos : Found(s, q) /\ s.out = SubSeq(s.seen, q + 1, r.pos)
  BY DEF Printing
<1>2. /\ Len(s.seen) \in Nat /\ Len(t.seen) \in Nat /\ r.pos <= Len(s.seen)
      /\ Len(s.seen) <= Len(t.seen) /\ t.seen \in Seq(AllBytes) /\ s.seen \in Seq(AllBytes)
  BY LenProperties DEF ShownType, Printing, Grown
<1>3. Found(t, q)
  BY <1>1, <1>2, FoundStays
<1>4. s.out = SubSeq(t.seen, q + 1, r.pos)
  <2>1. q \in Nat /\ q <= r.pos
    OBVIOUS
  <2> QED
    BY <1>1, <1>2, <2>1, SameCut
<1>5. /\ q + 1 \in 1..(Len(t.seen) + 1) /\ r.pos \in (q + 1) - 1..Len(t.seen)
      /\ u.pos \in r.pos..Len(t.seen)
  BY <1>1, <1>2
<1>6. t.out = SubSeq(t.seen, q + 1, u.pos)
  BY <1>2, <1>4, <1>5, ConcatAdjacentSubSeq
<1>7. q \in 0..u.pos /\ u.pos <= Len(t.seen) /\ u.left <= 0
  BY <1>2, <1>5 DEF Printing
<1> QED
  BY <1>3, <1>6, <1>7 DEF Printing

(* What the history holds after rep has read its file.                     *)
LEMMA LookIs ==
  ASSUME TypeInv, RepInv, NEW p \in Procs, proc[p].old \in Inodes,
         NEW out \in Seq(AllBytes), Look(p, out)
  PROVE  LET now == disk.inode[proc[p].old].text IN
         /\ now \in Seq(AllBytes)
         /\ shown' = [q \in Procs |-> shown'[q]]
         /\ \A q \in Procs \ {p} : shown'[q] = shown[q]
         /\ \/ shown'[p] = Nothing
            \/ /\ Shown(proc[p], shown[p]) /\ shown'[p] \in ShownType
               /\ Grown(shown[p].seen, now) /\ Grown(shown[p].before, now)
               /\ shown'[p].out = shown[p].out \o out /\ shown'[p].seen = now
               /\ shown'[p].n = shown[p].n /\ shown'[p].before = shown[p].before
<1> DEFINE now == disk.inode[proc[p].old].text
           s == shown[p]
           t == [s EXCEPT !.out = @ \o out, !.seen = now]
<1>1. now \in Seq(AllBytes)
  BY InodeType DEF TypeInv
<1>2. shown' = [shown EXCEPT ![p] =
        IF s # Nothing /\ IsPrefix(s.seen, now) THEN t ELSE Nothing]
  BY DEF Look
<1> HIDE DEF now, t
<1>3. /\ shown' = [q \in Procs |-> shown'[q]]
      /\ \A q \in Procs \ {p} : shown'[q] = shown[q]
      /\ shown'[p] = IF s # Nothing /\ IsPrefix(s.seen, now) THEN t ELSE Nothing
  BY <1>2 DEF RepInv
<1>4. ASSUME s # Nothing, IsPrefix(s.seen, now)
      PROVE  /\ Shown(proc[p], s) /\ shown'[p] = t
             /\ t \in ShownType /\ t.out = s.out \o out /\ t.seen = now
             /\ t.n = s.n /\ t.before = s.before
             /\ Grown(s.seen, now) /\ Grown(s.before, now)
  <2>1. Shown(proc[p], s)
    BY <1>4 DEF RepInv
  <2>2. s \in ShownType /\ Grown(s.before, s.seen)
    BY <2>1 DEF Shown
  <2>3. /\ s.out \in Seq(AllBytes) /\ s.before \in Seq(AllBytes)
        /\ s.seen \in Seq(AllBytes)
    BY <2>2 DEF ShownType
  <2>4. s.out \o out \in Seq(AllBytes)
    BY <2>3, ConcatProperties
  <2>5. /\ t \in ShownType /\ t.out = s.out \o out /\ t.seen = now
        /\ t.n = s.n /\ t.before = s.before
    BY <1>1, <2>2, <2>4 DEF ShownType, t
  <2>6. Grown(s.seen, now)
    BY <1>1, <1>4, <2>3, PrefixGrows
  <2>7. Grown(s.before, now)
    <3>1. Len(s.before) \in Nat /\ Len(s.seen) \in Nat /\ Len(now) \in Nat
      BY <1>1, <2>3, LenProperties
    <3> QED
      BY <2>2, <2>6, <3>1 DEF Grown
  <2> QED
    BY <1>3, <1>4, <2>1, <2>5, <2>6, <2>7
<1> QED
  BY <1>1, <1>3, <1>4 DEF now

(* A step of rep that looks at its file leaves the history as it should.   *)
LEMMA RepLooks ==
  ASSUME TypeInv, RepInv, NEW p \in Procs, RepScan(p) \/ RepPrints(p) \/ RepEnd(p)
  PROVE  /\ shown' = [q \in Procs |-> shown'[q]]
         /\ \A q \in Procs \ {p} : shown'[q] = shown[q]
         /\ shown'[p] = Nothing \/ Shown(proc'[p], shown'[p])
<1> DEFINE r == proc[p]
           u == proc'[p]
           s == shown[p]
           t == shown'[p]
           now == disk.inode[r.old].text
<1>1. r \in ProcType /\ Equipped(r) /\ r.pc = "scan"
  BY DEF TypeInv, ProcOK, RepScan, RepPrints, RepEnd, Goto
<1>2. /\ r.old \in Inodes /\ r.left \in Int /\ r.offset \in Int /\ r.pos \in Nat
  BY <1>1 DEF ProcType, Equipped, HasOld
<1>3. now \in Seq(AllBytes) /\ Len(now) \in Nat
  BY <1>2, InodeType, LenProperties DEF TypeInv
<1> HIDE DEF now
<1>4. CASE RepScan(p)
  <2> DEFINE at == IF r.offset >= 0 THEN r.offset ELSE r.pos
             left == IF now[at + 1] = "LF" THEN r.left - 1 ELSE r.left
  <2>1. /\ r.left > 0 /\ at < Len(now) /\ Look(p, <<>>)
        /\ Goto(p, "scan", [r EXCEPT !.left = left, !.offset = @ - 1, !.pos = at + 1])
    BY <1>4 DEF RepScan, More, now
  <2>2. u = [r EXCEPT !.left = left, !.offset = @ - 1, !.pos = at + 1]
    <3> HIDE DEF left, at
    <3> QED
      BY <2>1, GotoIs DEF TypeInv
  <2>3. u.left = left /\ u.offset = r.offset - 1 /\ u.pos = at + 1 /\ u.pc = "scan"
    <3> HIDE DEF left, at
    <3> QED
      BY <1>1, <2>2 DEF ProcType
  <2>4. /\ shown' = [q \in Procs |-> shown'[q]]
        /\ \A q \in Procs \ {p} : shown'[q] = shown[q]
        /\ \/ t = Nothing
           \/ /\ Shown(r, s) /\ t \in ShownType
              /\ Grown(s.seen, now) /\ Grown(s.before, now)
              /\ t.out = s.out \o <<>> /\ t.seen = now
              /\ t.n = s.n /\ t.before = s.before
    <3>1. <<>> \in Seq(AllBytes)
      OBVIOUS
    <3> QED
      BY <1>2, <2>1, <3>1, LookIs DEF now
  <2>5. ASSUME t # Nothing PROVE Shown(u, t)
    <3>1. /\ Shown(r, s) /\ t \in ShownType /\ Grown(s.seen, now)
          /\ Grown(s.before, now) /\ t.out = s.out \o <<>> /\ t.seen = now
          /\ t.n = s.n /\ t.before = s.before
      BY <2>4, <2>5
    <3>2. s \in ShownType /\ Grown(s.before, s.seen) /\ (Back(r, s) \/ Forth(r, s))
      BY <1>1, <1>2, <2>1, <3>1 DEF Shown, Printing
    <3>3. t.out = <<>>
      BY <3>1, <3>2 DEF Back, Forth
    <3> HIDE DEF r, s, t, u
    <3>4. CASE Back(r, s) /\ r.offset >= 0
      <4>1. at = r.offset
        BY <3>4
      <4>2. Back(u, t) \/ Printing(u, t)
        BY <2>3, <3>1, <3>2, <3>3, <3>4, <4>1, BackGoesOn
      <4> QED
        BY <2>3, <3>1, <4>2 DEF Shown
    <3>5. CASE ~(Back(r, s) /\ r.offset >= 0)
      <4>1. Forth(r, s)
        <5>1. CASE Forth(r, s)
          BY <5>1
        <5>2. CASE Back(r, s)
          <6>1. r.offset < 0
            BY <1>2, <3>5, <5>2
          <6> QED
            BY <3>2, <5>2, <6>1, BackTurns
        <5> QED
          BY <3>2, <5>1, <5>2
      <4>2. at = r.pos
        BY <1>2, <4>1 DEF Forth
      <4>3. Forth(u, t) \/ Printing(u, t)
        BY <1>2, <2>1, <2>3, <3>1, <3>2, <3>3, <4>1, <4>2, ForthGoesOn
      <4> QED
        BY <2>3, <3>1, <4>3 DEF Shown
    <3> QED
      BY <3>4, <3>5
  <2> QED
    BY <2>4, <2>5
<1>5. CASE RepPrints(p)
  <2> DEFINE end == Min({r.pos + Chunk, Len(now)})
             out == SubSeq(now, r.pos + 1, end)
  <2>1. /\ r.left <= 0 /\ r.pos < Len(now) /\ Look(p, out)
        /\ Goto(p, "scan", [r EXCEPT !.pos = end])
    BY <1>2, <1>5 DEF RepPrints, More, now
  <2>2. end \in r.pos..Len(now) /\ end \in Nat
    <3>1. r.pos + Chunk \in Int /\ r.pos + Chunk >= r.pos
      BY <1>2, FilesAssumption
    <3>2. end = IF r.pos + Chunk <= Len(now) THEN r.pos + Chunk ELSE Len(now)
      <4>1. Len(now) \in Int
        BY <1>3
      <4> QED
        BY <3>1, <4>1, Smaller
    <3> HIDE DEF end
    <3> QED
      BY <1>2, <1>3, <2>1, <3>1, <3>2
  <2> HIDE DEF end
  <2>3. out \in Seq(AllBytes)
    <3>1. \A i \in (r.pos + 1)..end : now[i] \in AllBytes
      BY <1>2, <1>3, <2>2, LenProperties
    <3>2. r.pos + 1 \in Int /\ end \in Int
      BY <1>2, <2>2
    <3> QED
      BY <3>1, <3>2, SubSeqProperties
  <2>4. u.left = r.left /\ u.pos = end /\ u.pc = "scan"
    <3>1. u = [r EXCEPT !.pos = end]
      BY <2>1, GotoIs DEF TypeInv
    <3> QED
      BY <1>1, <3>1 DEF ProcType
  <2> HIDE DEF out
  <2>5. /\ shown' = [q \in Procs |-> shown'[q]]
        /\ \A q \in Procs \ {p} : shown'[q] = shown[q]
        /\ \/ t = Nothing
           \/ /\ Shown(r, s) /\ t \in ShownType
              /\ Grown(s.seen, now) /\ Grown(s.before, now)
              /\ t.out = s.out \o out /\ t.seen = now
              /\ t.n = s.n /\ t.before = s.before
    BY <1>2, <2>1, <2>3, LookIs DEF now
  <2>6. ASSUME t # Nothing PROVE Shown(u, t)
    <3>1. /\ Shown(r, s) /\ t \in ShownType /\ Grown(s.seen, now)
          /\ Grown(s.before, now) /\ t.out = s.out \o out /\ t.seen = now
          /\ t.n = s.n /\ t.before = s.before
      BY <2>5, <2>6
    <3>2. s \in ShownType /\ Printing(r, s)
      BY <1>1, <1>2, <2>1, <3>1 DEF Shown, Back, Forth
    <3> HIDE DEF r, s, t, u
    <3>3. Printing(u, t)
      BY <1>2, <2>2, <2>4, <3>1, <3>2, PrintingGoesOn DEF out
    <3> QED
      BY <2>4, <3>1, <3>3 DEF Shown
  <2> QED
    BY <2>5, <2>6
<1>6. CASE RepEnd(p)
  <2>1. /\ r.left <= 0 /\ r.pos >= Len(now) /\ Look(p, <<>>)
        /\ Goto(p, "scan", [r EXCEPT !.pc = "closeRep"])
    BY <1>2, <1>6 DEF RepEnd, More, now
  <2>2. u.left = r.left /\ u.pos = r.pos /\ u.pc = "closeRep"
    <3>1. u = [r EXCEPT !.pc = "closeRep"]
      BY <2>1, GotoIs DEF TypeInv
    <3> QED
      BY <1>1, <3>1 DEF ProcType
  <2>3. /\ shown' = [q \in Procs |-> shown'[q]]
        /\ \A q \in Procs \ {p} : shown'[q] = shown[q]
        /\ \/ t = Nothing
           \/ /\ Shown(r, s) /\ t \in ShownType
              /\ Grown(s.seen, now) /\ Grown(s.before, now)
              /\ t.out = s.out \o <<>> /\ t.seen = now
              /\ t.n = s.n /\ t.before = s.before
    <3>1. <<>> \in Seq(AllBytes)
      OBVIOUS
    <3> QED
      BY <1>2, <2>1, <3>1, LookIs DEF now
  <2>4. ASSUME t # Nothing PROVE Shown(u, t)
    <3>1. /\ Shown(r, s) /\ t \in ShownType /\ Grown(s.seen, now)
          /\ Grown(s.before, now) /\ t.out = s.out \o <<>> /\ t.seen = now
          /\ t.n = s.n /\ t.before = s.before
      BY <2>3, <2>4
    <3>2. s \in ShownType /\ Printing(r, s)
      BY <1>1, <1>2, <2>1, <3>1 DEF Shown, Back, Forth
    <3> HIDE DEF r, s, t, u
    <3>3. r.pos = Len(now)
      <4>1. r.pos <= Len(s.seen) /\ Len(s.seen) <= Len(now) /\ Len(s.seen) \in Nat
        BY <3>1, <3>2, LenProperties DEF Printing, Grown, ShownType
      <4> QED
        BY <1>2, <1>3, <2>1, <4>1
    <3>4. SubSeq(now, r.pos + 1, r.pos) = <<>>
      BY <1>2, SubSeqEmpty
    <3>5. Printing(u, t)
      <4>1. u.pos \in r.pos..Len(t.seen) /\ u.left = r.left
        BY <1>3, <2>2, <3>1, <3>3
      <4>2. t.out = s.out \o SubSeq(t.seen, r.pos + 1, u.pos)
        BY <2>2, <3>1, <3>4
      <4> QED
        BY <1>2, <3>1, <3>2, <4>1, <4>2, PrintingGoesOn
    <3> QED
      BY <2>2, <3>1, <3>3, <3>5 DEF Shown
  <2> QED
    BY <2>3, <2>4
<1> QED
  BY <1>4, <1>5, <1>6

(* rep opens a file.                                                       *)
LEMMA RepBegins ==
  ASSUME TypeInv, RepInv, NEW p \in Procs, NEW name \in Names, NEW n \in Counts,
         RepOpen(p, name, n)
  PROVE  /\ shown' = [q \in Procs |-> shown'[q]]
         /\ \A q \in Procs \ {p} : shown'[q] = shown[q]
         /\ Shown(proc'[p], shown'[p])
<1> DEFINE old == Follow(name)
           text == disk.inode[old].text
           m == Len(text)
           u == proc'[p]
           t == [out |-> <<>>, n |-> n, before |-> text, seen |-> text]
<1>1. old \in Inodes /\ n \in Int
  BY PathType, FilesAssumption DEF RepOpen, Readable, TypeInv
<1>2. text \in Seq(AllBytes) /\ m \in Nat
  <2> HIDE DEF old
  <2> QED
    BY <1>1, InodeType, LenProperties DEF TypeInv
<1>3. /\ shown' = [shown EXCEPT ![p] = t]
      /\ Goto(p, "idle", [Idle EXCEPT !.pc = "scan", !.old = old, !.left = n,
                            !.offset = m - 1, !.pos = m])
  BY DEF RepOpen
<1> HIDE DEF text, old
<1>4. u.pc = "scan" /\ u.left = n /\ u.offset = m - 1 /\ u.pos = m
  <2>1. u = [Idle EXCEPT !.pc = "scan", !.old = old, !.left = n,
               !.offset = m - 1, !.pos = m]
    BY <1>3, GotoIs DEF TypeInv
  <2> HIDE DEF m
  <2> QED
    BY <2>1 DEF Idle
<1>5. t \in ShownType
  BY <1>1, <1>2 DEF ShownType
<1>6. t.out = <<>> /\ t.n = n /\ t.before = text /\ t.seen = text
  OBVIOUS
<1> HIDE DEF t, m, u
<1>7. Grown(text, text)
  BY <1>2 DEF Grown, m
<1>8. CASE n > 0
  <2>1. Newlines(text, m + 1, m) = 0
    BY <1>2, Counting
  <2>2. u.offset + 2 = m + 1 /\ u.offset \in -1..(m - 1)
    BY <1>2, <1>4
  <2>3. Back(u, t)
    BY <1>1, <1>2, <1>4, <1>6, <1>8, <2>1, <2>2 DEF Back, m
  <2> QED
    BY <1>3, <1>4, <1>5, <1>6, <1>7, <2>3 DEF Shown, RepInv, u
<1>9. CASE ~(n > 0)
  <2>1. Found(t, m)
    BY <1>1, <1>6, <1>9 DEF Found, m
  <2>2. SubSeq(text, m + 1, m) = <<>>
    BY <1>2, SubSeqEmpty
  <2>3. Printing(u, t)
    BY <1>1, <1>2, <1>4, <1>6, <1>9, <2>1, <2>2 DEF Printing, m
  <2> QED
    BY <1>3, <1>4, <1>5, <1>6, <1>7, <2>3 DEF Shown, RepInv, u
<1> QED
  BY <1>8, <1>9

(* A step of one process leaves the others where they are.                 *)
LEMMA OthersStay ==
  ASSUME TypeInv, NEW p \in Procs,
         \/ EditorStarts(p) \/ ModeStarts(p) \/ RepStarts(p) \/ TeeStarts(p)
         \/ EditorStep(p) \/ ModeStep(p) \/ RepStep(p) \/ TeeStep(p)
  PROVE  \A q \in Procs \ {p} : proc'[q] = proc[q]
<1>1. \E from, r : Goto(p, from, r)
  <2>1. CASE EditorStarts(p) \/ ModeStarts(p) \/ RepStarts(p) \/ TeeStarts(p)
    BY <2>1 DEF EditorStarts, AppendOpen, Stat, ModeStarts, ListOpen, Lstat,
                RepStarts, RepOpen, TeeStarts, TeeOpen
  <2>2. CASE EditorStep(p)
    BY <2>2 DEF EditorStep, AppendLine, AppendEnd, OpenNew, NewFails, OpenOld,
                OpenFails, Copy, CloseNew, Unlink, Rename
  <2>3. CASE ModeStep(p)
    BY <2>3 DEF ModeStep, SymbolicChmod, OctalChmod, ChmodFails, LstatAgain, ListRow
  <2>4. CASE RepStep(p) \/ TeeStep(p)
    BY <2>4 DEF RepStep, RepScan, RepFails, RepPrints, RepEnd, RepClose,
                TeeStep, TeeLine, TeeEnd
  <2> QED
    BY <2>1, <2>2, <2>3, <2>4
<1> QED
  BY <1>1, GotoIs DEF TypeInv

(* No other program is where rep would have something to show.             *)
LEMMA OthersShowNothing ==
  ASSUME RepInv, NEW p \in Procs,
         \/ EditorStarts(p) \/ ModeStarts(p) \/ TeeStarts(p)
         \/ EditorStep(p) \/ ModeStep(p) \/ TeeStep(p)
  PROVE  shown[p] = Nothing
<1>1. proc[p].pc \notin {"scan", "closeRep"}
  <2>1. CASE EditorStarts(p) \/ ModeStarts(p) \/ TeeStarts(p)
    BY <2>1 DEF EditorStarts, AppendOpen, Stat, ModeStarts, ListOpen, Lstat,
                TeeStarts, TeeOpen, Goto
  <2>2. CASE EditorStep(p)
    BY <2>2 DEF EditorStep, AppendLine, AppendEnd, OpenNew, NewFails, OpenOld,
                OpenFails, Copy, CloseNew, Unlink, Rename, Goto
  <2>3. CASE ModeStep(p)
    BY <2>3 DEF ModeStep, SymbolicChmod, OctalChmod, ChmodFails, LstatAgain,
                ListRow, Goto
  <2>4. CASE TeeStep(p)
    BY <2>4 DEF TeeStep, TeeLine, TeeEnd, Goto
  <2> QED
    BY <2>1, <2>2, <2>3, <2>4
<1> QED
  BY <1>1 DEF RepInv, Shown

(* What one process does about its own history is enough.                  *)
LEMMA HistoryKeeps ==
  ASSUME RepInv, NEW p \in Procs, \A q \in Procs \ {p} : proc'[q] = proc[q],
         shown' = [q \in Procs |-> shown'[q]],
         \A q \in Procs \ {p} : shown'[q] = shown[q],
         shown'[p] = Nothing \/ Shown(proc'[p], shown'[p])
  PROVE  RepInv'
<1>1. ASSUME NEW q \in Procs
      PROVE  shown'[q] = Nothing \/ Shown(proc'[q], shown'[q])
  <2>1. CASE q = p
    BY <2>1
  <2>2. CASE q # p
    BY <2>2 DEF RepInv
  <2> QED
    BY <2>1, <2>2
<1> QED
  BY <1>1 DEF RepInv, Shown, Back, Forth, Printing, Found, Met, First, Grown,
              ShownType

(* A process that forgets what it has shown.                               *)
LEMMA ForgetKeeps ==
  ASSUME RepInv, NEW p \in Procs, \A q \in Procs \ {p} : proc'[q] = proc[q],
         Forget(p)
  PROVE  RepInv'
<1>1. /\ shown' = [q \in Procs |-> shown'[q]]
      /\ \A q \in Procs \ {p} : shown'[q] = shown[q]
      /\ shown'[p] = Nothing
  BY DEF RepInv, Forget
<1> QED
  BY <1>1, HistoryKeeps

(* Every step keeps it.                                                    *)
LEMMA RepInvKeeps ==
  ASSUME TypeInv, RepInv, [Next]_vars
  PROVE  RepInv'
<1>1. ASSUME NEW p \in Procs, shown' = shown,
             \/ EditorStarts(p) \/ ModeStarts(p) \/ TeeStarts(p)
             \/ EditorStep(p) \/ ModeStep(p) \/ TeeStep(p)
      PROVE  RepInv'
  <2>1. \A q \in Procs \ {p} : proc'[q] = proc[q]
    BY <1>1, OthersStay
  <2>2. shown[p] = Nothing
    BY <1>1, OthersShowNothing
  <2>3. /\ shown' = [q \in Procs |-> shown'[q]]
        /\ \A q \in Procs \ {p} : shown'[q] = shown[q]
        /\ shown'[p] = Nothing
    BY <1>1, <2>2 DEF RepInv
  <2> QED
    BY <2>1, <2>3, HistoryKeeps
<1>2. ASSUME NEW p \in Procs, RepStarts(p) PROVE RepInv'
  BY <1>2, OthersStay, RepBegins, HistoryKeeps DEF RepStarts
<1>3. ASSUME NEW p \in Procs, RepStep(p) PROVE RepInv'
  <2>1. \A q \in Procs \ {p} : proc'[q] = proc[q]
    BY <1>3, OthersStay
  <2>2. CASE RepScan(p) \/ RepPrints(p) \/ RepEnd(p)
    BY <2>1, <2>2, RepLooks, HistoryKeeps
  <2>3. CASE RepFails(p) \/ RepClose(p)
    BY <2>1, <2>3, ForgetKeeps DEF RepFails, RepClose
  <2> QED
    BY <1>3, <2>2, <2>3 DEF RepStep
<1>4. ASSUME NEW p \in Procs, Kill(p) PROVE RepInv'
  <2>1. \A q \in Procs \ {p} : proc'[q] = proc[q]
    BY <1>4 DEF Kill, TypeInv, ProcOK
  <2> QED
    BY <1>4, <2>1, ForgetKeeps DEF Kill
<1>5. CASE UNCHANGED vars
  BY <1>5 DEF vars, RepInv, Shown, Back, Forth, Printing, Found, Met, First,
              Grown, ShownType
<1> QED
  BY <1>1, <1>2, <1>3, <1>4, <1>5 DEF Next, Start, Step, Done

(* rep.c:36-60: what rep has printed of a file that has only grown is its  *)
(* end, from the place that counting back, and then forwards from the      *)
(* second byte, has led to, for every number and every text; and it has    *)
(* all been printed when rep comes to its end.                             *)
THEOREM RepPrintsLines == Spec => []RepShows
<1>1. Init => RepInv
  BY DEF Init, RepInv
<1>2. TypeInv /\ RepInv /\ [Next]_vars => RepInv'
  BY RepInvKeeps
<1>3. RepInv => RepShows
  <2> SUFFICES ASSUME RepInv, NEW p \in Procs, proc[p].pc = "closeRep",
                      shown[p] # Nothing
               PROVE  LET s == shown[p] IN
                      \E q \in 0..Len(s.seen) :
                        Found(s, q) /\ s.out = SubSeq(s.seen, q + 1, Len(s.seen))
    BY DEF RepShows, Found, Met, First
  <2>1. Shown(proc[p], shown[p])
    BY DEF RepInv
  <2> QED
    BY <2>1 DEF Shown, Printing
<1> QED
  BY <1>1, <1>2, <1>3, FileTypes, PTL DEF Spec
=============================================================================
