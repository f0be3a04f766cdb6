----------------------------- MODULE QSetDriver -----------------------------
(***************************************************************************)
(* The character device of exercise 11: the bytes written to it live in    *)
(* quanta of Q bytes, allocated on demand, behind an array of S pointers.  *)
(* Any number of users have it open, each with a position of its own, and  *)
(* no lock of any kind keeps their calls apart.                            *)
(*                                                                         *)
(* The values of bytes are left out: filled says which positions of the    *)
(* quanta in use have been written since they were allocated.  oops is the *)
(* state after the kernel has used a pointer that is NULL or was never     *)
(* set, an entry outside the array, or code that is no longer loaded;      *)
(* nothing is said of what comes after it.                                 *)
(***************************************************************************)
EXTENDS Integers

CONSTANTS
  Users,      (* the processes, each with at most one open file             *)
  Q, S,       (* QUANTUM_SIZE and QSET_SIZE                                 *)
  MaxCount,   (* the largest count of one call                              *)
  Half,       (* an int goes from -Half to Half - 1: 2^31                   *)
  Offsets,    (* the positions pread and pwrite may bring                   *)
  Junk        (* what kmalloc may leave in dev_ptr->size                    *)

ASSUME QSetAssumption ==
  /\ Q \in Nat \ {0} /\ S \in Nat \ {0}
  /\ MaxCount \in Nat /\ Offsets \subseteq Nat
  /\ Half \in Nat /\ S < Half /\ Q * S < 2 * Half
  /\ Junk \subseteq 0..(2 * Half - 1) /\ 0 \in Junk

VARIABLES
  data,       (* dev->data: NULL, never set, set but not cleared, cleared   *)
  quanta,     (* the slots of the array that point to a quantum             *)
  filled,     (* the positions that have been written                       *)
  size,       (* dev->size                                                  *)
  upc,        (* where each user is in its call                             *)
  f_pos,      (* file->f_pos of each user                                   *)
  call,       (* *f_pos and count of the call, the count asked for, and     *)
              (* whether the position is the file's own                     *)
  oops,       (* the kernel has gone wrong                                  *)
  leaked,     (* nothing points to some memory that was not freed           *)
  zeroed,     (* history: init's kmalloc returned zeros, which it need not  *)
  raced,      (* history: two writes have overlapped                        *)
  jumped,     (* history: a pwrite has started beyond the end               *)
  stale,      (* history: a read has returned bytes nobody wrote            *)
  over,       (* history: a read has returned more than it was asked for    *)
  regrown     (* history: size was set between the two looks a read takes   *)
              (* at it                                                      *)

device  == <<data, quanta, filled, size>>
faults  == <<oops, leaked>>
history == <<zeroed, raced, jumped, stale, over, regrown>>
vars    == <<device, upc, f_pos, call, faults, history>>

(* What an int and an unsigned keep of a larger number.                    *)
Signed(n)   == ((n + Half) % (2 * Half)) - Half
Unsigned(n) == n % (2 * Half)

Positions == 0..(Q * S - 1)
SPos(p)   == Signed(call[p].pos \div Q)
QPos(p)   == call[p].pos % Q
InSlot(s) == {b \in Positions : b \div Q = s}

(* Where the first n bytes of the call go to, and the count as write and   *)
(* read limit it: to the end of the quantum.                               *)
Place(p)     == Q * SPos(p) + QPos(p)
Span(p, n)   == {b \in Positions : Place(p) <= b /\ b < Place(p) + n}
Lesser(a, b) == IF a < b THEN a ELSE b
(* A mutation of Limited: the count is not limited to the quantum.         *)
Limited_Not(p, n) == n

Limited(p, n) == Lesser(n, Q - QPos(p))

Goto(p, from, to) == ~oops /\ upc[p] = from /\ upc' = [upc EXCEPT ![p] = to]
Idle == [pos |-> 0, count |-> 0, asked |-> 0, own |-> TRUE]
EndCall(p) == call' = [call EXCEPT ![p] = Idle]

Reading(p) == upc[p] \in {"limit", "shorten", "read"}
Gone       == {"unloaded", "orphan"}
Writing(p) == ~Reading(p) /\ upc[p] \notin {"closed", "idle"} \cup Gone

(* init: the structure comes from kmalloc, and only Q and S are set in it. *)
Init ==
  /\ data \in {"null", "wild"} /\ size \in Junk
  /\ zeroed = (data = "null" /\ size = 0)
  /\ quanta = {} /\ filled = {}
  /\ upc = [p \in Users |-> "closed"]
  /\ f_pos = [p \in Users |-> 0]
  /\ call = [p \in Users |-> Idle]
  /\ oops = FALSE /\ leaked = FALSE
  /\ raced = FALSE /\ jumped = FALSE /\ stale = FALSE
  /\ over = FALSE /\ regrown = FALSE

(* A mutation of Trim: it counts to S, but from 1.                         *)
Trim_FromOne ==
  /\ data' = "null" /\ quanta' = {} /\ filled' = {} /\ size' = 0
  /\ oops' \in {data = "wild", data \notin {"null", "array"}}
  /\ leaked' = (leaked \/ 0 \in quanta)

(* trim frees the first Q entries of an array that has S of them: it frees *)
(* what lies behind the array, or forgets quanta; in an array not yet      *)
(* cleared an entry may look like a pointer.                               *)
Trim ==
  /\ data' = "null" /\ quanta' = {} /\ filled' = {} /\ size' = 0
  /\ oops' \in {data = "wild",
                data # "null" /\ (data = "array" => Q > S)}
  /\ leaked' = (leaked \/ \E s \in quanta : s >= Q)

(* The condition in open is f_flags & (O_ACCMODE == O_WRONLY).             *)
O_WRONLY  == 1
O_ACCMODE == 3
(* A mutation of Truncates: (f_flags & O_ACCMODE) == O_WRONLY, as probably *)
(* meant.                                                                  *)
Truncates_Parenthesised(flags) == flags % (O_ACCMODE + 1) = O_WRONLY

Truncates(flags) == (IF O_ACCMODE = O_WRONLY THEN flags % 2 ELSE 0) # 0

Open(p) ==
  /\ Goto(p, "closed", "idle")
  /\ f_pos' = [f_pos EXCEPT ![p] = 0]
  /\ \E flags \in 0..2 :
       IF Truncates(flags) THEN Trim ELSE UNCHANGED <<device, faults>>
  /\ UNCHANGED <<call, history>>

(* The position goes with the file.                                        *)
Release(p) ==
  /\ Goto(p, "idle", "closed")
  /\ f_pos' = [f_pos EXCEPT ![p] = 0]
  /\ UNCHANGED <<device, call, faults, history>>

(* A call is for the file's own position, or brings another.               *)
Targets(p, own) == IF own THEN {f_pos[p]} ELSE Offsets

Aim(p, n, at, own) ==
  call' = [call EXCEPT ![p] =
             [pos |-> at, count |-> n, asked |-> n, own |-> own]]

-----------------------------------------------------------------------------
(* write *)

(* The test at the start sees the int: of a position from Q * Half on it   *)
(* may be negative.                                                        *)
BeginWrite(p) ==
  /\ \E n \in 0..MaxCount, own \in BOOLEAN : \E at \in Targets(p, own) :
       /\ Signed(at \div Q) < S   (* else -ENOMEM, and nothing changes *)
       /\ Aim(p, n, at, own)
       /\ jumped' = (jumped \/ (at > size /\ ~own))
  /\ Goto(p, "idle", "array")
  /\ raced' = (raced \/ \E o \in Users : Writing(o))
  /\ UNCHANGED <<device, f_pos, faults, zeroed, stale, over, regrown>>

CheckArray(p) ==
  /\ Goto(p, "array", IF data = "null" THEN "newArray" ELSE "quantum")
  /\ UNCHANGED <<device, f_pos, call, faults, history>>

(* kmalloc's result is stored over whatever data has become meanwhile.     *)
Replace(d) ==
  /\ data' = d /\ quanta' = {} /\ filled' = {}
  /\ leaked' = (leaked \/ data # "null")
  /\ UNCHANGED <<size, oops, f_pos, history>>

NewArray(p) ==
  /\ Replace("uncleared")
  /\ Goto(p, "newArray", "clear")
  /\ UNCHANGED call

NoArray(p) ==
  /\ Replace("null")
  /\ Goto(p, "newArray", "idle")
  /\ EndCall(p)

ClearArray(p) ==
  /\ Goto(p, "clear", "quantum")
  /\ oops' = (data = "null")
  /\ data' = IF data = "null" THEN data ELSE "array"
  /\ quanta' = {} /\ filled' = {}
  /\ leaked' = (leaked \/ quanta # {})
  /\ UNCHANGED <<size, f_pos, call, history>>

(* data[s_pos] may lie before the array, and in an array not yet cleared   *)
(* it may look like a pointer.                                             *)
CheckQuantum(p) ==
  LET wrong == data \in {"null", "wild"} \/ SPos(p) < 0 IN
  /\ Goto(p, "quantum", IF SPos(p) \in quanta THEN "copy" ELSE "newQuantum")
  /\ oops' \in {wrong, wrong \/ (data = "uncleared" /\ SPos(p) \notin quanta)}
  /\ UNCHANGED <<device, f_pos, call, leaked, history>>

(* What data[s_pos] pointed to by now is forgotten.                        *)
PutQuantum(p, qs) ==
  /\ oops' = (data \in {"null", "wild"})
  /\ quanta' = (quanta \ {SPos(p)}) \cup qs
  /\ filled' = filled \ InSlot(SPos(p))
  /\ leaked' = (leaked \/ SPos(p) \in quanta)
  /\ UNCHANGED <<data, size, f_pos, history>>

NewQuantum(p) ==
  /\ PutQuantum(p, {SPos(p)})
  /\ Goto(p, "newQuantum", "copy")
  /\ UNCHANGED call

NoQuantum(p) ==
  /\ PutQuantum(p, {})
  /\ Goto(p, "newQuantum", "idle")
  /\ EndCall(p)

Copy(p) ==
  LET n == Limited(p, call[p].count) IN
  /\ Goto(p, "copy", "size")
  /\ oops' = (SPos(p) \notin quanta)
  /\ filled' = filled \cup Span(p, n)
  /\ call' = [call EXCEPT ![p].pos = @ + n]
  /\ f_pos' = IF call[p].own THEN [f_pos EXCEPT ![p] = @ + n] ELSE f_pos
  /\ UNCHANGED <<data, quanta, size, leaked, history>>

(* -EFAULT: part of the bytes may have arrived.                            *)
CopyFails(p) ==
  /\ Goto(p, "copy", "idle")
  /\ \E n \in 0..Limited(p, call[p].count) : filled' = filled \cup Span(p, n)
  /\ oops' = (SPos(p) \notin quanta)
  /\ EndCall(p)
  /\ UNCHANGED <<data, quanta, size, f_pos, leaked, history>>

(* A mutation of CheckSize: size is set whatever it is.                    *)
CheckSize_Always(p) ==
  /\ Goto(p, "size", "setSize")
  /\ UNCHANGED <<device, f_pos, call, faults, history>>

CheckSize(p) ==
  /\ size < call[p].pos
  /\ Goto(p, "size", "setSize")
  /\ UNCHANGED <<device, f_pos, call, faults, history>>

SizeIsFine(p) ==
  /\ size >= call[p].pos
  /\ Goto(p, "size", "idle")
  /\ EndCall(p)
  /\ UNCHANGED <<device, f_pos, faults, history>>

(* The position is squeezed into an unsigned.                              *)
SetSize(p) ==
  /\ Goto(p, "setSize", "idle")
  /\ size' = Unsigned(call[p].pos)
  /\ EndCall(p)
  /\ regrown' = (regrown \/ \E o \in Users : upc[o] = "shorten")
  /\ UNCHANGED <<data, quanta, filled, f_pos, faults, zeroed, raced, jumped,
                 stale, over>>

Write(p) ==
  \/ BeginWrite(p) \/ CheckArray(p) \/ NewArray(p) \/ NoArray(p)
  \/ ClearArray(p) \/ CheckQuantum(p) \/ NewQuantum(p) \/ NoQuantum(p)
  \/ Copy(p) \/ CopyFails(p) \/ CheckSize(p) \/ SizeIsFine(p) \/ SetSize(p)

-----------------------------------------------------------------------------
(* read *)

(* A mutation of BeginRead: *f_pos > size in place of *f_pos >= size.      *)
BeginRead_OffByOne(p) ==
  /\ \E n \in 0..MaxCount, own \in BOOLEAN : \E at \in Targets(p, own) :
       at <= size /\ Aim(p, n, at, own)
  /\ Goto(p, "idle", "limit")
  /\ UNCHANGED <<device, f_pos, faults, history>>

BeginRead(p) ==
  /\ \E n \in 0..MaxCount, own \in BOOLEAN : \E at \in Targets(p, own) :
       at < size /\ Aim(p, n, at, own)   (* else 0, and nothing changes *)
  /\ Goto(p, "idle", "limit")
  /\ UNCHANGED <<device, f_pos, faults, history>>

(* The count is compared with what is left of size, which is read again;   *)
(* had it shrunk below the position, the subtraction would wrap and not    *)
(* limit the count.                                                        *)
CheckCount(p) ==
  LET at == call[p].pos IN
  /\ Goto(p, "limit", IF at <= size /\ call[p].count > size - at
                      THEN "shorten" ELSE "read")
  /\ UNCHANGED <<device, f_pos, call, faults, history>>

(* And read once more: it may have become larger than what the count was   *)
(* compared with.                                                          *)
LimitCount(p) ==
  LET at == call[p].pos IN
  /\ Goto(p, "shorten", "read")
  /\ call' = [call EXCEPT ![p].count = IF at <= size THEN size - at ELSE Q]
  /\ UNCHANGED <<device, f_pos, faults, history>>

EndRead(p) ==
  LET n == Limited(p, call[p].count) IN
  /\ Goto(p, "read", "idle")
  /\ oops' = (SPos(p) \notin quanta)
  /\ \/ /\ f_pos' = IF call[p].own THEN [f_pos EXCEPT ![p] = @ + n] ELSE f_pos
        /\ stale' = (stale \/ ~(Span(p, n) \subseteq filled))
        /\ over' = (over \/ n > call[p].asked)
     \/ UNCHANGED <<f_pos, stale, over>>   (* -EFAULT *)
  /\ EndCall(p)
  /\ UNCHANGED <<device, leaked, zeroed, raced, jumped, regrown>>

Read(p) == BeginRead(p) \/ CheckCount(p) \/ LimitCount(p) \/ EndRead(p)

-----------------------------------------------------------------------------
(* cleanup: nothing keeps the module loaded while the device is open, fops *)
(* has no owner                                                            *)

Cleanup ==
  /\ ~oops /\ \E p \in Users : upc[p] \notin Gone
  /\ upc' = [p \in Users |-> IF upc[p] = "closed" THEN "unloaded" ELSE "orphan"]
  /\ Trim
  /\ UNCHANGED <<f_pos, call, history>>

(* Whatever is done next with a file that is still open runs code that is  *)
(* gone, the rest of a call that was under way included.                   *)
UseOrphan(p) ==
  /\ Goto(p, "orphan", "orphan")
  /\ oops' = TRUE
  /\ UNCHANGED <<device, f_pos, call, leaked, history>>

Stopped ==
  /\ oops \/ \A p \in Users : upc[p] = "unloaded"
  /\ UNCHANGED vars

Next ==
  \/ \E p \in Users :
       Open(p) \/ Release(p) \/ Write(p) \/ Read(p) \/ UseOrphan(p)
  \/ Cleanup \/ Stopped

Spec == Init /\ [][Next]_vars

-----------------------------------------------------------------------------
(* Properties *)

UPCs == {"closed", "idle", "array", "newArray", "clear", "quantum",
         "newQuantum", "copy", "size", "setSize", "limit", "shorten", "read",
         "unloaded", "orphan"}

(* Every variable stays in its domain.                                     *)
TypeOK ==
  /\ data \in {"null", "wild", "uncleared", "array"}
  /\ quanta \subseteq 0..(S - 1) /\ filled \subseteq Positions
  /\ size \in 0..(2 * Half - 1)
  /\ upc \in [Users -> UPCs] /\ f_pos \in [Users -> Nat]
  /\ call \in [Users -> [pos : Nat, count : Nat, asked : Nat, own : BOOLEAN]]
  /\ oops \in BOOLEAN /\ leaked \in BOOLEAN /\ zeroed \in BOOLEAN
  /\ raced \in BOOLEAN /\ jumped \in BOOLEAN /\ stale \in BOOLEAN
  /\ over \in BOOLEAN /\ regrown \in BOOLEAN

(* Whatever races there are and whatever positions the calls bring: as     *)
(* long as no pointer outside the array has been used, no file passes the  *)
(* Q * S bytes the quanta can hold, and the device does not claim to hold  *)
(* more (gonilnik.c:145-178), for all that s_pos is an int and size an     *)
(* unsigned.  What kmalloc leaves in size may be more (gonilnik.c:54).     *)
WithinCapacity ==
  ~oops => /\ zeroed => size <= Q * S
           /\ \A p \in Users : f_pos[p] <= Q * S

(* What the device can be relied on for: memory was zero, writes do not    *)
(* overlap, none starts beyond the end.                                    *)
WellUsed == zeroed /\ ~raced /\ ~jumped

Loaded == \E p \in Users : upc[p] \notin Gone

(* Then every byte below size has been written and lies in a quantum, so   *)
(* that read needs no check of the pointers it follows (gonilnik.c:127),   *)
(* wherever the positions of other open files are.                         *)
NoHole ==
  WellUsed => \A b \in 0..(size - 1) : b \in filled /\ b \div Q \in quanta

(* And no read returns bytes that nobody wrote, and no call goes wrong     *)
(* while the driver is loaded, failed allocations and failed copies        *)
(* included.  Whoever the users are, a read returns more than it was asked *)
(* for only if size is set between the two looks it takes at it            *)
(* (gonilnik.c:116-117), which no lock prevents.                           *)
ReadsWhatWasWritten ==
  /\ WellUsed => ~stale /\ (Loaded => ~oops)
  /\ over => regrown

(* And the bytes written stay: size never shrinks while the driver is      *)
(* loaded.                                                                 *)
SizeNeverShrinks ==
  [][WellUsed' /\ Loaded' => size' >= size]_vars

(* trim counts to Q in an array of S (gonilnik.c:79): with Q >= S, as with *)
(* the program's 10 and 5, unloading at any time forgets no quantum.       *)
UnloadFreesAll ==
  WellUsed /\ Q >= S => ~leaked
=============================================================================
