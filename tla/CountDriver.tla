---------------------------- MODULE CountDriver ----------------------------
(***************************************************************************)
(* The character device of exercise 10, which tells how often it has been  *)
(* opened, and the helper program that reads it to the end.  Nothing keeps *)
(* opens apart from each other or from reads, and the text is made anew at *)
(* every read.  A text is the sequence of its pieces: what comes before    *)
(* the number, its digits, what comes after.                               *)
(***************************************************************************)
EXTENDS Integers, Sequences, SequencesExt, FiniteSets

CONSTANTS
  Users,       (* processes that open the device and read it as they like   *)
  Helpers,     (* processes that run pomozni_program                        *)
  Base,        (* of the number: 10 in the driver                           *)
  MaxOpens,    (* how often the device is opened in all                     *)
  MaxSize,     (* the largest size of a user's read                         *)
  Stack        (* what may stand in a helper's memory behind what was read  *)

Procs == Users \cup Helpers

ASSUME CountAssumption ==
  /\ Users \cap Helpers = {}
  /\ Base \in Nat \ {0, 1} /\ MaxOpens \in Nat /\ MaxSize \in Nat

VARIABLES
  open_count,  (* the driver's counter                                      *)
  opens,       (* history: how often open was called                        *)
  overlapped,  (* history: an increment has begun inside another one        *)
  pc,          (* where each process is                                     *)
  loaded,      (* the counter as its open has found it                      *)
  file,        (* its open file: the position and, history, what was read   *)
               (* from it and at which values of the counter                *)
  buffer,      (* what the helper's buffer is known to hold                 *)
  printed      (* what the helper has printed                               *)

vars == <<open_count, opens, overlapped, pc, loaded, file, buffer, printed>>

Width(n) == 1 + Cardinality({k \in 1..n : Base^k <= n})
Digits(n) ==
  [i \in 1..Width(n) |-> ToString((n \div Base^(Width(n) - i)) % Base)]

(* What snprintf makes of the counter; 256 bytes are more than enough.     *)
Msg(n) == <<"opened">> \o Digits(n) \o <<"times">>

(* What printf may print behind the bytes it was given: all up to the next *)
(* zero, which may come at once.                                           *)
Spills == {<<>>} \cup {<<x>> : x \in Stack}

Fresh == [f_pos |-> 0, got |-> <<>>, counts |-> {}]

Init ==
  /\ open_count = 0 /\ opens = 0 /\ overlapped = FALSE
  /\ pc = [p \in Procs |-> "closed"] /\ loaded = [p \in Procs |-> 0]
  /\ file = [p \in Procs |-> Fresh]
  /\ buffer = [p \in Procs |-> <<>>] /\ printed = [p \in Procs |-> <<>>]

Goto(p, from, to) == pc[p] = from /\ pc' = [pc EXCEPT ![p] = to]

-----------------------------------------------------------------------------
(* device_open, whose increment loads and stores, and device_release *)

Open(p) ==
  /\ Goto(p, "closed", "opening")
  /\ opens < MaxOpens /\ opens' = opens + 1
  /\ loaded' = [loaded EXCEPT ![p] = open_count]
  /\ overlapped' = (overlapped \/ \E q \in Procs : pc[q] = "opening")
  /\ file' = [file EXCEPT ![p] = Fresh]
  /\ buffer' = [buffer EXCEPT ![p] = <<>>]
  /\ printed' = [printed EXCEPT ![p] = <<>>]
  /\ UNCHANGED open_count

Incremented_Lost(n) == n   (* a mutation of Incremented: nothing is added *)

Incremented(n) == n + 1

OpenStores(p) ==
  /\ Goto(p, "opening", "open")
  /\ open_count' = Incremented(loaded[p])
  /\ UNCHANGED <<opens, overlapped, loaded, file, buffer, printed>>

Release(p) ==
  /\ p \in Users /\ Goto(p, "open", "closed")
  /\ UNCHANGED <<open_count, opens, overlapped, loaded, file, buffer, printed>>

-----------------------------------------------------------------------------
(* device_read *)

Advance_NotMoved(pos, n) == pos   (* a mutation: *offset stays as it is *)

Advance(pos, n) == pos + n

(* What a read of size bytes brings, nothing at the end.                   *)
Chunk(p, size) ==
  LET msg  == Msg(open_count)
      pos  == file[p].f_pos
      last == IF pos + size > Len(msg) THEN Len(msg) ELSE pos + size
  IN SubSeq(msg, pos + 1, last)

device_read(p, chunk) ==
  file' = [file EXCEPT ![p] =
    [f_pos  |-> Advance(@.f_pos, Len(chunk)),
     got    |-> @.got \o chunk,
     counts |-> @.counts \cup {open_count}]]

(* A read into memory that is not there returns -EFAULT and changes        *)
(* nothing.                                                                *)
Read(p) ==
  /\ p \in Users /\ Goto(p, "open", "open")
  /\ \E size \in 1..MaxSize : device_read(p, Chunk(p, size))
  /\ UNCHANGED <<open_count, opens, overlapped, loaded, buffer, printed>>

-----------------------------------------------------------------------------
(* pomozni_program: reads 256 bytes at a time and prints the buffer, which *)
(* nothing ends with a zero: all of it is printed that was ever read into  *)
(* it, and then what else the stack holds up to the next zero, whatever    *)
(* that is.                                                                *)

(* A mutation of GoesOn: the loop ends unless the buffer is full.          *)
GoesOn_Full(chunk) == Len(chunk) = 256

GoesOn(chunk) == chunk # <<>>

HelperReads(h) ==
  LET chunk == Chunk(h, 256) IN
  /\ GoesOn(chunk) /\ Goto(h, "open", "open")
  /\ device_read(h, chunk)
  /\ buffer' = [buffer EXCEPT ![h] =
                  chunk \o SubSeq(@, Len(chunk) + 1, Len(@))]
  /\ \E spill \in Spills :
       printed' = [printed EXCEPT ![h] = @ \o (buffer'[h] \o spill)]
  /\ UNCHANGED <<open_count, opens, overlapped, loaded>>

(* At the end its write fails, for the driver has none, and it closes.     *)
HelperEnds(h) ==
  /\ ~GoesOn(Chunk(h, 256)) /\ Goto(h, "open", "closed")
  /\ UNCHANGED <<open_count, opens, overlapped, loaded, file, buffer, printed>>

Idle ==
  opens = MaxOpens /\ (\A p \in Procs : pc[p] = "closed") /\ UNCHANGED vars

Next ==
  \/ \E p \in Procs : Open(p) \/ OpenStores(p)
  \/ \E p \in Users : Release(p) \/ Read(p)
  \/ \E h \in Helpers : HelperReads(h) \/ HelperEnds(h)
  \/ Idle

(* What a process has begun the kernel brings to its end; users may leave  *)
(* the device open for ever.                                               *)
Fairness ==
  \A p \in Procs : WF_vars(OpenStores(p))
    /\ (p \in Helpers => WF_vars(HelperReads(p) \/ HelperEnds(p)))

Spec == Init /\ [][Next]_vars /\ Fairness

-----------------------------------------------------------------------------
(* Properties *)

(* Every variable stays in its domain.                                     *)
TypeOK ==
  /\ open_count \in Nat /\ opens \in 0..MaxOpens /\ overlapped \in BOOLEAN
  /\ pc \in [Procs -> {"closed", "opening", "open"}]
  /\ loaded \in [Procs -> Nat]

(* The counter never says more than there were opens, and nothing less as  *)
(* long as no two increments overlap (gonilnik.c:46).                      *)
CountsEveryOpen ==
  LET opening == {p \in Procs : pc[p] = "opening"} IN
  /\ open_count <= opens
  /\ ~overlapped => open_count = opens - Cardinality(opening)

(* However a text is cut into reads and whoever opens the device between   *)
(* two of them, each place of what a process has read comes from the same  *)
(* place of one of the texts there were (gonilnik.c:60-74).                *)
ReadsTexts ==
  \A p \in Procs :
    LET got == file[p].got IN
    /\ Len(got) = file[p].f_pos
    /\ \A i \in DOMAIN got : \E c \in file[p].counts :
         i <= Len(Msg(c)) /\ got[i] = Msg(c)[i]

(* The helper comes to its end, though others keep opening the device, and *)
(* has printed the whole text of one count first (pomozni_program.c:18-20).*)
(* When the counter stood still between its reads it has printed once:     *)
(* nothing follows but what the stack held behind the text.                *)
HelperSays ==
  \A h \in Helpers :
    pc[h] = "open" ~>
      /\ pc[h] = "closed"
      /\ \E c \in file[h].counts :
           /\ IsPrefix(Msg(c), printed[h])
           /\ Cardinality(file[h].counts) = 1 =>
                printed[h] \in {Msg(c) \o spill : spill \in Spills}
=============================================================================
