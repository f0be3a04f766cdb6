--------------------------- MODULE Drivers_proofs ---------------------------
(***************************************************************************)
(* Proofs about the counting driver, for any processes, any base of the    *)
(* number and any number of opens; and about the LED driver, for any       *)
(* number of writers and any two intervals.                                *)
(***************************************************************************)
EXTENDS CountDriver, BlinkDriver, FiniteSetTheorems, SequenceTheorems, TLAPS

(* Nobody between load and store has found a counter that is up to date;   *)
(* and as long as no increments overlap one process at most is there, and  *)
(* what it has found is what the others still see.                         *)
Counting ==
  /\ open_count <= opens
  /\ \A p \in Procs : pc[p] = "opening" => loaded[p] < opens
  /\ ~overlapped =>
       /\ \A p, q \in Procs : pc[p] = "opening" /\ pc[q] = "opening" => p = q
       /\ \A p \in Procs : pc[p] = "opening" =>
            loaded[p] = open_count /\ opens = open_count + 1
       /\ (\A p \in Procs : pc[p] # "opening") => opens = open_count

CountInv == TypeOK /\ Counting

(* The driver is loaded with a counter of 0 and no file open.              *)
LEMMA InitCount == Init => CountInv
<1> SUFFICES ASSUME Init PROVE CountInv
  OBVIOUS
<1>1. open_count \in Nat /\ opens \in 0..MaxOpens
  BY CountAssumption DEF Init
<1>2. overlapped \in BOOLEAN
  BY DEF Init
<1>3. /\ pc \in [Procs -> {"closed", "opening", "open"}]
      /\ loaded \in [Procs -> Nat]
  BY DEF Init
<1>4. Counting
  BY DEF Init, Counting
<1> QED
  BY <1>1, <1>2, <1>3, <1>4 DEF CountInv, TypeOK

(* No step of a process breaks it.                                         *)
LEMMA StepCount == CountInv /\ [Next]_vars => CountInv'
<1> SUFFICES ASSUME CountInv, [Next]_vars PROVE CountInv'
  OBVIOUS
<1> USE DEF CountInv, TypeOK, Goto
<1>1. ASSUME NEW p \in Procs, Open(p) PROVE CountInv'
  <2>1. overlapped' \in BOOLEAN
    BY <1>1 DEF Open
  <2>2. /\ open_count' \in Nat /\ opens' \in 0..MaxOpens
        /\ pc' \in [Procs -> {"closed", "opening", "open"}]
        /\ loaded' \in [Procs -> Nat]
    BY <1>1, CountAssumption DEF Open
  <2>3. Counting'
    <3>1. ~overlapped' => ~overlapped /\ \A q \in Procs : pc[q] # "opening"
      BY <1>1 DEF Open
    <3> QED
      BY <1>1, <3>1, CountAssumption DEF Open, Counting
  <2> QED
    BY <2>1, <2>2, <2>3
<1>2. ASSUME NEW p \in Procs, OpenStores(p) PROVE CountInv'
  BY <1>2 DEF OpenStores, Incremented, Counting
<1>3. ASSUME NEW p \in Procs, pc[p] = "open",
             pc' = [pc EXCEPT ![p] = "open"] \/ pc' = [pc EXCEPT ![p] = "closed"],
             UNCHANGED <<open_count, opens, overlapped, loaded>>
      PROVE  CountInv'
  BY <1>3 DEF Counting
<1>4. ASSUME NEW p \in Users, Release(p) \/ Read(p) PROVE CountInv'
  BY <1>3, <1>4 DEF Release, Read, Procs
<1>5. ASSUME NEW h \in Helpers, HelperReads(h) PROVE CountInv'
  BY <1>3, <1>5 DEF HelperReads, Procs
<1>6. ASSUME NEW h \in Helpers, HelperEnds(h) PROVE CountInv'
  BY <1>3, <1>6 DEF HelperEnds, Procs
<1>7. CASE UNCHANGED vars
  BY <1>7 DEF vars, Counting
<1> QED
  BY <1>1, <1>2, <1>4, <1>5, <1>6, <1>7 DEF Next, Idle

(* gonilnik.c:46: the counter never says more than there were opens, and,  *)
(* as long as no two increments overlap, nothing less than those that have *)
(* stored it, for any number of processes.                                 *)
THEOREM OpensAreCounted == Spec => []CountsEveryOpen
<1>1. CountInv => CountsEveryOpen
  <2> DEFINE opening == {p \in Procs : pc[p] = "opening"}
  <2> SUFFICES ASSUME CountInv, ~overlapped
               PROVE  open_count = opens - Cardinality(opening)
    BY DEF CountInv, Counting, CountsEveryOpen
  <2>1. CASE opening = {}
    BY <2>1, FS_EmptySet DEF CountInv, Counting, TypeOK
  <2>2. CASE opening # {}
    <3>1. PICK p \in Procs : pc[p] = "opening"
      BY <2>2
    <3>2. opening = {p}
      BY <3>1 DEF CountInv, Counting
    <3>3. Cardinality({p}) = 1
      BY FS_Singleton
    <3>4. open_count = opens - 1
      BY <3>1 DEF CountInv, Counting, TypeOK
    <3> QED
      BY <3>2, <3>3, <3>4
  <2> QED
    BY <2>1, <2>2
<1> QED
  BY <1>1, InitCount, StepCount, PTL DEF Spec

(* What a text is made of, and what printf may print behind it.            *)
Pieces ==
  {"opened", "times"} \cup Stack
    \cup UNION {{Digits(n)[i] : i \in 1..Width(n)} : n \in Nat}

(* The text of a count is a sequence, and never empty.                     *)
LEMMA MsgType ==
  ASSUME NEW n \in Nat
  PROVE  Msg(n) \in Seq(Pieces) /\ Msg(n) # <<>>
<1> DEFINE long == {k \in 1..n : Base^k <= n}
<1>1. IsFiniteSet(1..n)
  BY FS_Interval
<1>2. Cardinality(long) \in Nat
  <2> DEFINE P(k) == Base^k <= n
  <2>1. long \subseteq 1..n
    OBVIOUS
  <2> HIDE DEF long
  <2> QED
    BY <1>1, <2>1, FS_Subset, FS_CardinalityType
<1>3. Width(n) \in Nat
  <2> HIDE DEF long
  <2>1. Width(n) = 1 + Cardinality(long)
    BY Zenon DEF Width, long
  <2> QED
    BY <1>2, <2>1
<1>4. Digits(n) \in [1..Width(n) -> Pieces]
  <2> DEFINE D(i) == ToString((n \div Base^(Width(n) - i)) % Base)
  <2>1. Digits(n) = [i \in 1..Width(n) |-> D(i)]
    BY Zenon DEF Digits
  <2>2. {Digits(n)[i] : i \in 1..Width(n)} \subseteq Pieces
    BY Zenon DEF Pieces
  <2>3. \A i \in 1..Width(n) :
          Digits(n)[i] \in {Digits(n)[j] : j \in 1..Width(n)}
    BY Zenon
  <2> HIDE DEF D
  <2> QED
    BY <2>1, <2>2, <2>3
<1>5. Digits(n) \in Seq(Pieces)
  BY <1>3, <1>4
<1>6. <<"opened">> \in Seq(Pieces) /\ <<"times">> \in Seq(Pieces)
  BY DEF Pieces
<1> HIDE DEF long
<1>7. PICK d \in Seq(Pieces), s \in Seq(Pieces), t \in Seq(Pieces) :
        d = Digits(n) /\ s = <<"opened">> /\ t = <<"times">>
  BY <1>5, <1>6
<1>8. t # <<>>
  BY <1>7
<1>9. s \o d \in Seq(Pieces) /\ (s \o d) \o t \in Seq(Pieces) /\ (s \o d) \o t # <<>>
  BY <1>8, ConcatProperties, ConcatEqualIffEmpty
<1> QED
  BY <1>7, <1>9 DEF Msg

(* Every place of what was read comes from that place of a text that was   *)
(* one in the meantime, and the position tells how much was read.          *)
Reading ==
  /\ file \in [Procs -> [f_pos : Nat, got : Seq(Pieces), counts : SUBSET Nat]]
  /\ ReadsTexts

(* A read of any size keeps it.                                            *)
LEMMA ReadKeeps ==
  ASSUME CountInv, Reading, NEW p \in Procs, NEW size \in Nat,
         device_read(p, Chunk(p, size))
  PROVE  Reading'
<1> DEFINE msg   == Msg(open_count)
           pos   == file[p].f_pos
           got   == file[p].got
           last  == IF pos + size > Len(msg) THEN Len(msg) ELSE pos + size
           chunk == Chunk(p, size)
           r     == [f_pos |-> pos + Len(chunk), got |-> got \o chunk,
                     counts |-> file[p].counts \cup {open_count}]
<1>1. msg \in Seq(Pieces) /\ Len(msg) \in Nat /\ open_count \in Nat
  BY MsgType, LenProperties DEF CountInv, TypeOK
<1>2. /\ pos \in Nat /\ got \in Seq(Pieces) /\ Len(got) = pos
      /\ file[p].counts \in SUBSET Nat
  BY DEF Reading, ReadsTexts
<1>3. last \in Int /\ last <= Len(msg)
  BY <1>1, <1>2
<1>4. chunk = SubSeq(msg, pos + 1, last)
  BY DEF Chunk
<1>5. file' = [file EXCEPT ![p] = r]
  BY DEF device_read, Advance
<1> HIDE DEF last, msg, chunk
<1>6. /\ chunk \in Seq(Pieces)
      /\ Len(chunk) = IF pos + 1 <= last THEN last - pos ELSE 0
      /\ \A i \in 1..Len(chunk) : chunk[i] = msg[pos + i]
  <2>1. \A i \in (pos + 1)..last : msg[i] \in Pieces
    BY <1>1, <1>2, <1>3, LenProperties
  <2>2. pos + 1 \in Int
    BY <1>2
  <2>3. /\ SubSeq(msg, pos + 1, last) \in Seq(Pieces)
        /\ Len(SubSeq(msg, pos + 1, last)) =
             IF pos + 1 <= last THEN last - (pos + 1) + 1 ELSE 0
        /\ \A i \in 1..(last - (pos + 1) + 1) :
             SubSeq(msg, pos + 1, last)[i] = msg[pos + 1 + i - 1]
    BY <1>3, <2>1, <2>2, SubSeqProperties
  <2>4. last - (pos + 1) + 1 = last - pos
    BY <1>2, <1>3
  <2>5. \A i \in Int : pos + 1 + i - 1 = pos + i
    BY <1>2
  <2>6. \A i \in 1..(last - pos) : chunk[i] = msg[pos + i]
    <3>1. ASSUME NEW i \in 1..(last - pos) PROVE chunk[i] = msg[pos + i]
      <4>1. i \in 1..(last - (pos + 1) + 1) /\ i \in Int
        BY <2>4
      <4>2. chunk[i] = msg[pos + 1 + i - 1]
        BY <1>4, <2>3, <4>1
      <4> QED
        BY <2>5, <4>1, <4>2
    <3> QED
      BY <3>1
  <2>7. chunk \in Seq(Pieces) /\ Len(chunk) = IF pos + 1 <= last THEN last - pos ELSE 0
    BY <1>4, <2>3, <2>4
  <2>8. \A i \in 1..Len(chunk) : i \in 1..(last - pos)
    BY <1>2, <1>3, <2>7
  <2> QED
    BY <2>6, <2>7, <2>8
<1>7. /\ got \o chunk \in Seq(Pieces)
      /\ Len(got \o chunk) = pos + Len(chunk)
      /\ \A i \in 1..Len(got \o chunk) :
           (got \o chunk)[i] = IF i <= pos THEN got[i] ELSE chunk[i - pos]
  <2>1. /\ got \o chunk \in Seq(Pieces)
        /\ Len(got \o chunk) = Len(got) + Len(chunk)
        /\ \A i \in 1..(Len(got) + Len(chunk)) :
             (got \o chunk)[i] =
               IF i <= Len(got) THEN got[i] ELSE chunk[i - Len(got)]
    <3> HIDE DEF got
    <3> QED
      BY <1>2, <1>6, ConcatProperties
  <2>2. Len(got) = pos
    BY <1>2
  <2> HIDE DEF got, pos
  <2> QED
    BY <2>1, <2>2
<1>8. r \in [f_pos : Nat, got : Seq(Pieces), counts : SUBSET Nat]
  <2>1. pos + Len(chunk) \in Nat
    BY <1>2, <1>6, LenProperties
  <2> QED
    BY <1>1, <1>2, <1>7, <2>1
<1>9. file' \in [Procs -> [f_pos : Nat, got : Seq(Pieces), counts : SUBSET Nat]]
  BY <1>5, <1>8 DEF Reading
<1>10. file'[p] = r /\ \A q \in Procs \ {p} : file'[q] = file[q]
  BY <1>5 DEF Reading
<1>11. ASSUME NEW q \in Procs, q # p
       PROVE  /\ Len(file'[q].got) = file'[q].f_pos
              /\ \A i \in DOMAIN file'[q].got : \E c \in file'[q].counts :
                   i <= Len(Msg(c)) /\ file'[q].got[i] = Msg(c)[i]
  BY <1>10, <1>11 DEF Reading, ReadsTexts
<1>12. Len(r.got) = r.f_pos
  BY <1>7
<1>13. ASSUME NEW i \in DOMAIN (got \o chunk)
       PROVE  \E c \in file[p].counts \cup {open_count} :
                i <= Len(Msg(c)) /\ (got \o chunk)[i] = Msg(c)[i]
  <2>1. i \in 1..(pos + Len(chunk))
    BY <1>7, LenProperties
  <2>2. CASE i <= pos
    <3>1. i \in DOMAIN got
      BY <1>2, <2>1, <2>2, LenProperties
    <3>2. PICK c \in file[p].counts : i <= Len(Msg(c)) /\ got[i] = Msg(c)[i]
      BY <3>1 DEF Reading, ReadsTexts
    <3> QED
      BY <1>7, <2>1, <2>2, <3>2
  <2>3. CASE i > pos
    <3>1. i - pos \in 1..Len(chunk) /\ Len(chunk) = last - pos
      <4>1. Len(chunk) \in Nat
        BY <1>6, LenProperties
      <4> HIDE DEF pos
      <4> QED
        BY <1>2, <1>3, <1>6, <2>1, <2>3, <4>1
    <3>2. chunk[i - pos] = msg[i] /\ i <= Len(msg)
      <4>1. pos + (i - pos) = i /\ i <= last
        <5> HIDE DEF pos
        <5> QED
          BY <1>2, <1>3, <2>1, <3>1
      <4>2. chunk[i - pos] = msg[pos + (i - pos)]
        BY <1>6, <3>1
      <4> HIDE DEF pos
      <4> QED
        BY <1>1, <1>3, <2>1, <4>1, <4>2
    <3>3. (got \o chunk)[i] = msg[i]
      BY <1>2, <1>7, <2>1, <2>3, <3>2
    <3> QED
      BY <3>2, <3>3 DEF msg
  <2> QED
    BY <1>2, <2>1, <2>2, <2>3
<1>14. ASSUME NEW i \in DOMAIN r.got
       PROVE  \E c \in r.counts : i <= Len(Msg(c)) /\ r.got[i] = Msg(c)[i]
  BY <1>13
<1>15. ReadsTexts'
  <2> SUFFICES ASSUME NEW q \in Procs
               PROVE  /\ Len(file'[q].got) = file'[q].f_pos
                      /\ \A i \in DOMAIN file'[q].got : \E c \in file'[q].counts :
                           i <= Len(Msg(c)) /\ file'[q].got[i] = Msg(c)[i]
    BY DEF ReadsTexts
  <2> HIDE DEF r
  <2> QED
    BY <1>10, <1>11, <1>12, <1>14
<1> QED
  BY <1>9, <1>15 DEF Reading

(* Nobody has read anything at first, nor after an open.                   *)
LEMMA FreshIsRead ==
  /\ Fresh \in [f_pos : Nat, got : Seq(Pieces), counts : SUBSET Nat]
  /\ Len(Fresh.got) = Fresh.f_pos /\ DOMAIN Fresh.got = {}
<1>1. <<>> \in Seq(Pieces) /\ Len(<<>>) = 0 /\ DOMAIN <<>> = {}
  OBVIOUS
<1> QED
  BY <1>1 DEF Fresh

LEMMA InitReading == Init => Reading
<1> SUFFICES ASSUME Init PROVE Reading
  OBVIOUS
<1>1. file = [p \in Procs |-> Fresh]
  BY DEF Init
<1> QED
  BY <1>1, FreshIsRead DEF Reading, ReadsTexts

(* Every step of users and helpers keeps it.                               *)
LEMMA StepReading == CountInv /\ Reading /\ [Next]_vars => Reading'
<1> SUFFICES ASSUME CountInv, Reading, [Next]_vars PROVE Reading'
  OBVIOUS
<1>1. ASSUME NEW p \in Procs, Open(p) PROVE Reading'
  <2>1. file' = [file EXCEPT ![p] = Fresh]
    BY <1>1 DEF Open
  <2> QED
    BY <2>1, FreshIsRead DEF Reading, ReadsTexts
<1>2. ASSUME UNCHANGED file PROVE Reading'
  BY <1>2 DEF Reading, ReadsTexts
<1>3. ASSUME NEW p \in Users, Read(p) PROVE Reading'
  <2>1. PICK size \in 1..MaxSize : device_read(p, Chunk(p, size))
    BY <1>3 DEF Read
  <2>2. size \in Nat
    BY CountAssumption
  <2> QED
    BY <2>1, <2>2, ReadKeeps DEF Procs
<1>4. ASSUME NEW h \in Helpers, HelperReads(h) PROVE Reading'
  <2>1. device_read(h, Chunk(h, 256))
    BY <1>4 DEF HelperReads
  <2> QED
    BY <2>1, ReadKeeps DEF Procs
<1> QED
  BY <1>1, <1>2, <1>3, <1>4
     DEF Next, vars, OpenStores, Release, HelperEnds, Idle

(* gonilnik.c:60-74: however reads, opens and counts interleave, what was  *)
(* read is made of the texts there were, every piece in its place, for any *)
(* processes and sizes.                                                    *)
THEOREM TextsAreRead == Spec => []ReadsTexts
<1>1. Reading => ReadsTexts
  BY DEF Reading
<1> QED
  BY <1>1, InitReading, InitCount, StepCount, StepReading, PTL DEF Spec

(* What the helper prints *)

(* What a helper has printed begins with the whole text of one count, and  *)
(* when it has met no other count nothing follows that text but what stood *)
(* behind it in memory.                                                    *)
Says(h) ==
  \E c \in file[h].counts :
    /\ IsPrefix(Msg(c), printed[h])
    /\ Cardinality(file[h].counts) = 1 =>
         printed[h] \in {Msg(c) \o spill : spill \in Spills}

(* What makes it so: who has read the text of the only count it has met is *)
(* at its end, and who has read nothing holds nothing.                     *)
Told(h) ==
  IF file[h].counts = {}
  THEN file[h].f_pos = 0 /\ buffer[h] = <<>> /\ printed[h] = <<>>
  ELSE \E c \in file[h].counts :
         /\ IsPrefix(Msg(c), printed[h])
         /\ file[h].counts = {c} =>
              /\ printed[h] \in {Msg(c) \o spill : spill \in Spills}
              /\ file[h].f_pos >= Len(Msg(c))

Telling ==
  /\ buffer \in [Procs -> Seq(Pieces)] /\ printed \in [Procs -> Seq(Pieces)]
  /\ \A h \in Helpers : IsFiniteSet(file[h].counts) /\ Told(h)

(* No text is longer than the helper's buffer (pomozni_program.c:10): 254  *)
(* digits.                                                                 *)
ShortTexts == \A n \in 0..MaxOpens : Len(Msg(n)) <= 256

(* A read at the start brings it all, and one behind the end nothing.      *)
LEMMA WholeChunk ==
  ASSUME CountInv, Reading, ShortTexts, NEW h \in Procs
  PROVE  /\ Chunk(h, 256) \in Seq(Pieces)
         /\ file[h].f_pos = 0 => Chunk(h, 256) = Msg(open_count)
         /\ file[h].f_pos >= Len(Msg(open_count)) => Chunk(h, 256) = <<>>
<1>1. PICK msg : msg = Msg(open_count)
  OBVIOUS
<1>2. PICK pos \in Nat : pos = file[h].f_pos
  BY DEF Reading
<1>3. open_count \in Nat /\ open_count \in 0..MaxOpens
  BY CountAssumption DEF CountInv, TypeOK, Counting
<1>4. PICK len \in Nat : len = Len(msg) /\ len <= 256
  BY <1>1, <1>3, MsgType, LenProperties DEF ShortTexts
<1>5. PICK last \in Int : /\ last = IF pos + 256 > len THEN len ELSE pos + 256
                          /\ last <= len /\ (pos = 0 => last = len)
                          /\ (pos >= len => last < pos + 1)
  BY <1>4
<1>6. Chunk(h, 256) = SubSeq(msg, pos + 1, last)
  BY <1>1, <1>2, <1>4, <1>5 DEF Chunk
<1>7. msg \in Seq(Pieces)
  BY <1>1, <1>3, MsgType
<1>8. Chunk(h, 256) \in Seq(Pieces)
  <2>1. \A i \in (pos + 1)..last : i \in 1..Len(msg)
    BY <1>4, <1>5
  <2>2. \A i \in (pos + 1)..last : msg[i] \in Pieces
    BY <1>7, <2>1, ElementOfSeq
  <2>3. pos + 1 \in Int
    OBVIOUS
  <2> QED
    BY <1>6, <2>2, <2>3, SubSeqProperties
<1>9. ASSUME pos = 0 PROVE Chunk(h, 256) = msg
  <2>1. Chunk(h, 256) = SubSeq(msg, 1, Len(msg))
    <3>1. pos + 1 = 1 /\ last = Len(msg)
      BY <1>4, <1>5, <1>9
    <3> QED
      BY <1>6, <3>1
  <2>2. SubSeq(msg, 1, Len(msg)) = msg
    BY <1>7, SubSeqFull
  <2> QED
    BY <2>1, <2>2
<1>10. ASSUME pos >= len PROVE Chunk(h, 256) = <<>>
  <2>1. pos + 1 \in Int /\ last < pos + 1
    BY <1>5, <1>10
  <2> QED
    BY <1>6, <2>1, SubSeqEmpty
<1> QED
  BY <1>1, <1>2, <1>4, <1>8, <1>9, <1>10

(* What begins so goes on so, whatever is printed after it.                *)
LEMMA PrefixStays ==
  ASSUME NEW s \in Seq(Pieces), NEW t \in Seq(Pieces), NEW u \in Seq(Pieces),
         IsPrefix(s, t)
  PROVE  IsPrefix(s, t \o u)
<1>1. Len(s) \in Nat /\ Len(t) \in Nat /\ Len(u) \in Nat /\ Len(s) <= Len(t)
  BY LenProperties DEF IsPrefix
<1>2. /\ t \o u \in Seq(Pieces) /\ Len(t \o u) = Len(t) + Len(u)
      /\ \A i \in 1..(Len(t) + Len(u)) :
           (t \o u)[i] = IF i <= Len(t) THEN t[i] ELSE u[i - Len(t)]
  BY ConcatProperties
<1>3. SubSeq(t \o u, 1, Len(s)) = SubSeq(t, 1, Len(s))
  <2>1. PICK v : v = t \o u
    OBVIOUS
  <2>2. \A i \in 1..Len(s) : v[i] = t[i] /\ t[i] \in Pieces
    <3>1. ASSUME NEW i \in 1..Len(s) PROVE v[i] = t[i] /\ t[i] \in Pieces
      <4>1. i \in 1..(Len(t) + Len(u)) /\ i <= Len(t) /\ i \in 1..Len(t)
        BY <1>1
      <4> QED
        BY <1>2, <2>1, <4>1, ElementOfSeq
    <3> QED
      BY <3>1
  <2>3. /\ SubSeq(v, 1, Len(s)) \in Seq(Pieces)
        /\ Len(SubSeq(v, 1, Len(s))) = IF 1 <= Len(s) THEN Len(s) - 1 + 1 ELSE 0
        /\ \A i \in 1..(Len(s) - 1 + 1) : SubSeq(v, 1, Len(s))[i] = v[1 + i - 1]
    BY <1>1, <2>2, SubSeqProperties
  <2>4. /\ SubSeq(t, 1, Len(s)) \in Seq(Pieces)
        /\ Len(SubSeq(t, 1, Len(s))) = IF 1 <= Len(s) THEN Len(s) - 1 + 1 ELSE 0
        /\ \A i \in 1..(Len(s) - 1 + 1) : SubSeq(t, 1, Len(s))[i] = t[1 + i - 1]
    BY <1>1, <2>2, SubSeqProperties
  <2>5. PICK a, b : a = SubSeq(v, 1, Len(s)) /\ b = SubSeq(t, 1, Len(s))
    OBVIOUS
  <2>6. Len(a) = Len(b) /\ Len(a) = Len(s)
    BY <1>1, <2>3, <2>4, <2>5
  <2>7. \A i \in 1..Len(a) : a[i] = b[i]
    <3>1. ASSUME NEW i \in 1..Len(a) PROVE a[i] = b[i]
      <4>1. i \in 1..(Len(s) - 1 + 1) /\ 1 + i - 1 = i /\ i \in 1..Len(s)
        BY <1>1, <2>6
      <4> QED
        BY <2>2, <2>3, <2>4, <2>5, <4>1
    <3> QED
      BY <3>1
  <2> QED
    BY <2>1, <2>3, <2>4, <2>5, <2>6, <2>7, SeqEqual
<1> QED
  BY <1>1, <1>2, <1>3 DEF IsPrefix

(* The helper's read (pomozni_program.c:18-20).                            *)
LEMMA HelperTells ==
  ASSUME CountInv, Reading, Reading', ShortTexts, Telling,
         NEW h \in Helpers, HelperReads(h)
  PROVE  Telling'
<1>1. PICK chunk : chunk = Chunk(h, 256)
  OBVIOUS
<1>2. PICK b : b = chunk \o SubSeq(buffer[h], Len(chunk) + 1, Len(buffer[h]))
  OBVIOUS
<1>3. /\ h \in Procs /\ chunk # <<>> /\ open_count \in Nat
      /\ buffer' = [buffer EXCEPT ![h] = b]
      /\ file'[h].counts = file[h].counts \cup {open_count}
      /\ file'[h].f_pos = file[h].f_pos + Len(chunk)
      /\ \A q \in Procs \ {h} : file'[q] = file[q]
  <2>1. h \in Procs
    BY DEF Procs
  <2> QED
    BY <1>1, <1>2, <2>1
       DEF HelperReads, GoesOn, device_read, Advance, Reading, CountInv, TypeOK
<1>4. /\ chunk \in Seq(Pieces) /\ Len(chunk) \in Nat
      /\ file[h].f_pos = 0 => chunk = Msg(open_count)
      /\ file[h].f_pos >= Len(Msg(open_count)) => chunk = <<>>
  BY <1>1, <1>3, WholeChunk, LenProperties
<1>5. /\ buffer[h] \in Seq(Pieces) /\ printed[h] \in Seq(Pieces)
      /\ IsFiniteSet(file[h].counts) /\ Told(h)
  BY <1>3 DEF Telling
<1>6. b \in Seq(Pieces) /\ (buffer[h] = <<>> => b = chunk)
  <2>1. PICK old \in Seq(Pieces) : old = buffer[h]
    BY <1>5
  <2>2. PICK len \in Nat, m \in Nat : len = Len(old) /\ m = Len(chunk)
    BY <1>4, LenProperties
  <2>3. PICK rest : rest = SubSeq(old, m + 1, len)
    OBVIOUS
  <2>4. rest \in Seq(Pieces)
    <3>1. \A i \in (m + 1)..len : i \in 1..Len(old)
      BY <2>2
    <3>2. \A i \in (m + 1)..len : old[i] \in Pieces
      BY <3>1, ElementOfSeq
    <3>3. m + 1 \in Int /\ len \in Int
      OBVIOUS
    <3> QED
      BY <2>3, <3>2, <3>3, SubSeqProperties
  <2>5. b = chunk \o rest
    BY <1>2, <2>1, <2>2, <2>3
  <2>6. old = <<>> => rest = <<>>
    <3>1. old = <<>> => len < m + 1
      BY <2>2
    <3>2. m + 1 \in Int /\ len \in Int
      OBVIOUS
    <3> QED
      BY <2>3, <3>1, <3>2, SubSeqEmpty
  <2> QED
    BY <1>4, <2>1, <2>4, <2>5, <2>6, ConcatProperties, ConcatEmptySeq
<1>7. PICK spill \in Spills :
        /\ buffer'[h] = b /\ buffer' \in [Procs -> Seq(Pieces)]
        /\ printed' = [printed EXCEPT ![h] = printed[h] \o (b \o spill)]
  <2>1. buffer'[h] = b /\ buffer' \in [Procs -> Seq(Pieces)]
    BY <1>3, <1>6 DEF Telling
  <2>2. PICK spill \in Spills :
          printed' = [printed EXCEPT ![h] = printed[h] \o (buffer'[h] \o spill)]
    BY DEF HelperReads
  <2> QED
    BY <2>1, <2>2
<1>8. /\ spill \in Seq(Pieces) /\ b \o spill \in Seq(Pieces)
      /\ printed[h] \o (b \o spill) \in Seq(Pieces)
  <2>1. spill \in Seq(Pieces)
    <3>1. CASE spill = <<>>
      BY <3>1
    <3>2. ASSUME NEW x \in Stack, spill = <<x>> PROVE spill \in Seq(Pieces)
      <4>1. x \in Pieces
        BY Zenon DEF Pieces
      <4> QED
        BY <3>2, <4>1
    <3> QED
      BY <3>1, <3>2 DEF Spills
  <2>2. b \o spill \in Seq(Pieces)
    BY <1>6, <2>1, ConcatProperties
  <2> QED
    BY <1>5, <2>1, <2>2, ConcatProperties
<1>9. /\ printed' \in [Procs -> Seq(Pieces)]
      /\ printed'[h] = printed[h] \o (b \o spill)
  BY <1>3, <1>7, <1>8 DEF Telling
<1>10. Told(h)'
  <2>1. CASE file[h].counts = {}
    <3>1. printed[h] = <<>> /\ b = chunk /\ chunk = Msg(open_count) /\ file[h].f_pos = 0
      BY <1>4, <1>5, <1>6, <2>1 DEF Told
    <3>2. printed'[h] = Msg(open_count) \o spill
      BY <1>8, <1>9, <3>1, ConcatEmptySeq
    <3>3. file'[h].f_pos >= Len(Msg(open_count)) /\ file'[h].counts = {open_count}
      BY <1>3, <1>4, <2>1, <3>1
    <3>4. IsPrefix(Msg(open_count), Msg(open_count) \o spill)
      <4>1. IsPrefix(chunk, chunk)
        BY <1>4 DEF IsPrefix
      <4> QED
        BY <1>4, <1>8, <3>1, <4>1, PrefixStays
    <3> QED
      BY <3>2, <3>3, <3>4 DEF Told
  <2>2. CASE file[h].counts # {}
    <3>1. PICK c \in file[h].counts :
            /\ IsPrefix(Msg(c), printed[h])
            /\ file[h].counts = {c} =>
                 /\ printed[h] \in {Msg(c) \o spill0 : spill0 \in Spills}
                 /\ file[h].f_pos >= Len(Msg(c))
      BY <1>5, <2>2 DEF Told
    <3>2. c \in file'[h].counts /\ c \in Nat
      BY <1>3, <3>1 DEF Reading
    <3>3. IsPrefix(Msg(c), printed'[h])
      BY <1>5, <1>8, <1>9, <3>1, <3>2, MsgType, PrefixStays
    <3>4. file'[h].counts # {c}
      <4>1. SUFFICES ASSUME file'[h].counts = {c} PROVE FALSE
        OBVIOUS
      <4>2. file[h].counts = {c} /\ open_count = c
        BY <1>3, <3>1, <4>1
      <4> QED
        BY <1>3, <1>4, <3>1, <4>2
    <3> QED
      BY <3>2, <3>3, <3>4 DEF Told
  <2> QED
    BY <2>1, <2>2
<1>11. IsFiniteSet(file'[h].counts)
  <2>1. IsFiniteSet(file[h].counts \cup {open_count})
    BY <1>5, FS_AddElement
  <2> QED
    BY <1>3, <2>1
<1>12. ASSUME NEW g \in Helpers, g # h
       PROVE  IsFiniteSet(file'[g].counts) /\ Told(g)'
  <2>1. g \in Procs /\ g # h
    BY <1>12 DEF Procs
  <2>2. file'[g] = file[g] /\ buffer'[g] = buffer[g] /\ printed'[g] = printed[g]
    BY <1>3, <1>7, <2>1 DEF Telling
  <2>3. IsFiniteSet(file[g].counts) /\ Told(g)
    BY DEF Telling
  <2> QED
    BY <2>2, <2>3 DEF Told
<1> QED
  BY <1>7, <1>9, <1>10, <1>11, <1>12 DEF Telling

(* An open starts afresh, and what users do is no matter to the helpers.   *)
LEMMA StepTelling ==
  ASSUME CountInv, Reading, Reading', ShortTexts, Telling, [Next]_vars
  PROVE  Telling'
<1>1. ASSUME NEW p \in Procs, Open(p) PROVE Telling'
  <2>1. /\ file' = [file EXCEPT ![p] = Fresh]
        /\ buffer' = [buffer EXCEPT ![p] = <<>>]
        /\ printed' = [printed EXCEPT ![p] = <<>>]
    BY <1>1 DEF Open
  <2>2. <<>> \in Seq(Pieces)
    OBVIOUS
  <2>3. buffer' \in [Procs -> Seq(Pieces)] /\ printed' \in [Procs -> Seq(Pieces)]
    BY <2>1, <2>2 DEF Telling
  <2>4. ASSUME NEW h \in Helpers PROVE IsFiniteSet(file'[h].counts) /\ Told(h)'
    <3>1. /\ h \in Procs
          /\ file \in [Procs -> [f_pos : Nat, got : Seq(Pieces), counts : SUBSET Nat]]
      BY DEF Procs, Reading
    <3>2. CASE h = p
      <4>1. file'[h] = Fresh /\ buffer'[h] = <<>> /\ printed'[h] = <<>>
        BY <2>1, <3>1, <3>2 DEF Telling
      <4>2. Fresh.counts = {} /\ Fresh.f_pos = 0
        BY DEF Fresh
      <4> QED
        BY <4>1, <4>2, FS_EmptySet DEF Told
    <3>3. CASE h # p
      <4>1. file'[h] = file[h] /\ buffer'[h] = buffer[h] /\ printed'[h] = printed[h]
        BY <2>1, <3>1, <3>3 DEF Telling
      <4> QED
        BY <4>1 DEF Told, Telling
    <3> QED
      BY <3>2, <3>3
  <2> QED
    BY <2>3, <2>4 DEF Telling
<1>2. ASSUME UNCHANGED <<file, buffer, printed>> PROVE Telling'
  BY <1>2 DEF Telling, Told
<1>3. ASSUME NEW p \in Users, Read(p) PROVE Telling'
  <2>1. /\ buffer' = buffer /\ printed' = printed
        /\ \A h \in Procs \ {p} : file'[h] = file[h]
    BY <1>3 DEF Read, device_read, Reading
  <2>2. \A h \in Helpers : h \in Procs \ {p}
    BY CountAssumption DEF Procs
  <2> QED
    BY <2>1, <2>2 DEF Telling, Told
<1> QED
  BY <1>1, <1>2, <1>3, HelperTells
     DEF Next, vars, OpenStores, Release, HelperEnds, Idle

(* The safety half of HelperSays: a helper that has read anything has      *)
(* printed a whole text first, and when the counter stood still between    *)
(* its reads nothing else but what its memory held behind that text        *)
(* (pomozni_program.c:18-20); and it does not come to its end before that. *)
THEOREM HelperPrintsAText ==
  ShortTexts =>
    (Spec => [](\A h \in Helpers :
                  /\ file[h].counts # {} => Says(h)
                  /\ ~GoesOn(Chunk(h, 256)) => file[h].counts # {}))
<1> DEFINE Prints == \A h \in Helpers :
                       /\ file[h].counts # {} => Says(h)
                       /\ ~GoesOn(Chunk(h, 256)) => file[h].counts # {}
<1> SUFFICES ASSUME ShortTexts PROVE Spec => []Prints
  OBVIOUS
<1>1. Init => Telling
  <2> SUFFICES ASSUME Init PROVE Telling
    OBVIOUS
  <2>1. /\ file = [p \in Procs |-> Fresh] /\ buffer = [p \in Procs |-> <<>>]
        /\ printed = [p \in Procs |-> <<>>] /\ <<>> \in Seq(Pieces)
    BY DEF Init
  <2>2. Fresh.counts = {} /\ Fresh.f_pos = 0
    BY DEF Fresh
  <2>3. \A h \in Helpers : h \in Procs
    BY DEF Procs
  <2> QED
    BY <2>1, <2>2, <2>3, FS_EmptySet DEF Telling, Told
<1>2. CountInv /\ Reading /\ Telling => Prints
  <2> SUFFICES ASSUME CountInv, Reading, Telling, NEW h \in Helpers
               PROVE  /\ file[h].counts # {} => Says(h)
                      /\ ~GoesOn(Chunk(h, 256)) => file[h].counts # {}
    OBVIOUS
  <2>1. h \in Procs /\ Told(h) /\ IsFiniteSet(file[h].counts)
    BY DEF Procs, Telling
  <2>2. ASSUME file[h].counts # {} PROVE Says(h)
    <3>1. PICK c \in file[h].counts :
            /\ IsPrefix(Msg(c), printed[h])
            /\ file[h].counts = {c} =>
                 /\ printed[h] \in {Msg(c) \o spill0 : spill0 \in Spills}
                 /\ file[h].f_pos >= Len(Msg(c))
      BY <2>1, <2>2 DEF Told
    <3>2. Cardinality(file[h].counts) = 1 => file[h].counts = {c}
      BY <2>1, <3>1, FS_Singleton
    <3> QED
      BY <3>1, <3>2 DEF Says
  <2>3. ASSUME file[h].counts = {} PROVE GoesOn(Chunk(h, 256))
    <3>1. Chunk(h, 256) = Msg(open_count)
      BY <2>1, <2>3, WholeChunk DEF Told
    <3>2. Msg(open_count) # <<>>
      BY MsgType DEF CountInv, TypeOK
    <3> QED
      BY <3>1, <3>2 DEF GoesOn
  <2> QED
    BY <2>2, <2>3
<1>3. Telling /\ CountInv /\ Reading /\ Reading' /\ [Next]_vars => Telling'
  BY StepTelling
<1>4. Init => Reading
  BY InitReading
<1> HIDE DEF Prints
<1> QED
  BY <1>1, <1>2, <1>3, <1>4, InitCount, StepCount, StepReading, PTL DEF Spec

-----------------------------------------------------------------------------
(* The LED driver of exercise 12                                           *)

(* Late toggles: none is counted while the switch is on, nor before the    *)
(* callback that saw it on has toggled.                                    *)
LateIsCounted ==
  /\ SWITCHon = 1 => late = 0
  /\ cpc = "toggle" => late = 0

(* Runs after the exit: the one that follows a callback caught by it sees  *)
(* a switch that is off and leaves the timer alone.                        *)
AfterIsCounted ==
  /\ inserted => after = 0
  /\ ~inserted /\ SWITCHon = 0 /\ after = 1 => timer = None /\ cpc \in {"idle", "check"}

(* Nobody is writing once the module is gone.                              *)
ExitAlone == ~inserted => \A w \in Writers : wpc[w] = "closed"

BlinkInv ==
  /\ LedTypes
  /\ OnIsArmed
  /\ AtMostOneLateToggle /\ LateIsCounted
  /\ AtMostOneRunAfterExit /\ AfterIsCounted /\ ExitAlone

(* The driver starts with the switch off, the timer at rest and the module *)
(* loaded.                                                                 *)
LEMMA InitBlink ==
  ASSUME LedInit
  PROVE  BlinkInv
<1>1. LedTypes
  <2>1. caught \in BOOLEAN /\ inserted \in BOOLEAN
    BY DEF LedInit
  <2>2. /\ LEDon \in {0, 1} /\ SWITCHon \in {0, 1}
        /\ user_interval \in {0, Short, Default} /\ timer \in {None} \cup Nat
        /\ cpc \in {"idle", "check", "toggle", "rearm"}
        /\ wpc \in [Writers -> {"closed", "open", "check", "arm"}]
        /\ late \in Nat /\ after \in 0..MaxAfter
    BY BlinkAssumption DEF MaxAfter, LedInit
  <2> QED
    BY <2>1, <2>2 DEF LedTypes
<1>2. OnIsArmed /\ AtMostOneRunAfterExit /\ AfterIsCounted
  BY DEF LedInit, OnIsArmed, AtMostOneRunAfterExit, AfterIsCounted
<1>3. AtMostOneLateToggle /\ LateIsCounted /\ ExitAlone
  BY DEF LedInit, AtMostOneLateToggle, LateIsCounted, ExitAlone
<1> QED
  BY <1>1, <1>2, <1>3 DEF BlinkInv

(* No step of a writer, the callback, the clock or rmmod breaks it.        *)
LEMMA StepBlink ==
  ASSUME BlinkInv, [LedNext]_ledVars
  PROVE  BlinkInv'
<1> USE BlinkAssumption DEF BlinkInv, LedTypes, OnIsArmed,
            AtMostOneLateToggle, LateIsCounted, AtMostOneRunAfterExit,
            AfterIsCounted, MaxAfter, ExitAlone, None, module, history,
            ModTimer, WriterGoes
<1>1. ASSUME NEW w \in Writers, OpenLed(w) PROVE BlinkInv'
  BY <1>1 DEF OpenLed
<1>2. ASSUME NEW w \in Writers, Close(w) PROVE BlinkInv'
  BY <1>2 DEF Close
<1>3. ASSUME NEW w \in Writers, SetInterval(w) PROVE BlinkInv'
  BY <1>3 DEF SetInterval
<1>4. ASSUME NEW w \in Writers, SetSwitch(w) PROVE BlinkInv'
  BY <1>4 DEF SetSwitch
<1>5. ASSUME NEW w \in Writers, CheckSwitch(w) PROVE BlinkInv'
  BY <1>5 DEF CheckSwitch
<1>6. ASSUME NEW w \in Writers, Arm(w) PROVE BlinkInv'
  BY <1>6 DEF Arm
<1>7. CASE Expire
  BY <1>7 DEF Expire
<1>8. CASE CallbackCheck
  BY <1>8 DEF CallbackCheck
<1>9. CASE Toggle
  BY <1>9 DEF Toggle
<1>10. CASE Rearm
  BY <1>10 DEF Rearm
<1>11. CASE Tick
  BY <1>11 DEF Tick
<1>12. CASE Exit
  <2>1. caught' \in BOOLEAN /\ caught' = (cpc # "idle")
    BY <1>12 DEF Exit
  <2>2. LedTypes'
    BY <1>12, <2>1 DEF Exit
  <2>3. OnIsArmed' /\ AtMostOneLateToggle' /\ LateIsCounted' /\ ExitAlone' /\ AfterIsCounted'
    BY <1>12 DEF Exit
  <2>4. AtMostOneRunAfterExit'
    <3>1. timer' = None /\ cpc' = cpc /\ after' = 0
      BY <1>12 DEF Exit
    <3>2. ~caught' => cpc' = "idle"
      BY <2>1, <3>1, Zenon
    <3> QED
      BY <3>1, <3>2
  <2> QED
    BY <2>2, <2>3, <2>4
<1>13. CASE UNCHANGED ledVars
  BY <1>13 DEF ledVars
<1> QED
  BY <1>1, <1>2, <1>3, <1>4, <1>5, <1>6, <1>7, <1>8, <1>9, <1>10, <1>11,
     <1>12, <1>13 DEF LedNext, InWrite, Callback, Unloaded

(* The inductive invariant holds in every state of the driver.             *)
THEOREM BlinkInvariant == LedSpec => []BlinkInv
BY InitBlink, StepBlink, PTL DEF LedSpec

(* malinaSW.c:21-23, 52-53: with the switch on there is always a pending   *)
(* timer, a callback or a writer that will set it, whatever the number of  *)
(* writers.                                                                *)
THEOREM AlwaysArmed == LedSpec => []OnIsArmed
<1>1. BlinkInv => OnIsArmed
  BY DEF BlinkInv
<1> QED
  BY <1>1, BlinkInvariant, PTL

(* malinaSW.c:21: after the switch goes off the LED changes at most once.  *)
THEOREM OneLateToggle == LedSpec => []AtMostOneLateToggle
<1>1. BlinkInv => AtMostOneLateToggle
  BY DEF BlinkInv
<1> QED
  BY <1>1, BlinkInvariant, PTL

(* malinaSW.c:79: after a modul_exit that met no running callback, no      *)
(* timer is pending and no callback runs; and after one that met one while *)
(* the switch was off it runs at most once more.                           *)
THEOREM QuietAfterExit == LedSpec => []AtMostOneRunAfterExit
<1>1. BlinkInv => AtMostOneRunAfterExit
  BY DEF BlinkInv
<1> QED
  BY <1>1, BlinkInvariant, PTL
=============================================================================
