----------------------- MODULE MessagePipeline_proofs -----------------------
(***************************************************************************)
(* Proofs about exercise 6, for any number of texts, any capacity of the   *)
(* queue, any lengths of the sleeps and any number of times the generator  *)
(* is killed and started again.                                            *)
(***************************************************************************)
EXTENDS MessagePipeline, SequenceTheorems, TLAPS

-----------------------------------------------------------------------------
(* The invariant *)

PStarting == {"off", "setval", "shmget", "msgget"}
PEnding   == {"unlockEnd", "sendEnd", "sendAgain", "rmSem", "rmShm", "done"}

SemObjects == [now : {0, 1, 2}, made : {0, 1, 2}, val : [Ids -> Nat]]
ShmObjects == [now : {0, 1, 2}, made : {0, 1, 2}, seg : [Ids -> Content]]
MsqObjects == [now : {0, 1}, made : {0, 1}, msgs : Seq(Content)]

Domains ==
  /\ sem \in SemObjects /\ shm \in ShmObjects /\ msq \in MsqObjects
  /\ gpc \in GPCs /\ gi \in 1..(Messages + 1)
  /\ gsem \in {0, 1, 2} /\ gshm \in {0, 1, 2}
  /\ ppc \in PPCs /\ psem \in {0, 1} /\ pshm \in {0, 1} /\ pmsq \in {0, 1}
  /\ zpc \in ZPCs /\ zmsq \in {0, 1} /\ zbuf \in Content /\ zprev \in Content
  /\ file \in Seq(Nat)
  /\ kills \in Nat

(* Who has found which object.  posrednik alone removes the semaphore and  *)
(* the segment, the last thing it does; only a generator that comes later  *)
(* makes a second one.                                                     *)
Semaphore ==
  /\ gsem = 0 <=> gpc = "off"
  /\ psem = IF ppc = "off" THEN 0 ELSE 1
  /\ gsem <= sem.made /\ psem <= sem.made
  /\ ppc \notin {"rmShm", "done"} => sem.made < 2 /\ sem.now = sem.made
  /\ ppc \in {"rmShm", "done"} => sem.now = IF sem.made = 2 THEN 2 ELSE 0

Segment ==
  /\ gshm = 0 <=> gpc \in {"off", "setval", "shmget"}
  /\ pshm = IF ppc \in {"off", "setval", "shmget"} THEN 0 ELSE 1
  /\ gshm <= shm.made /\ pshm <= shm.made
  /\ ppc # "done" => shm.made < 2 /\ shm.now = shm.made
  /\ ppc = "done" => shm.now = IF shm.made = 2 THEN 2 ELSE 0

Queue ==
  /\ pmsq = IF ppc \in PStarting THEN 0 ELSE 1
  /\ msq.made = pmsq /\ zmsq <= pmsq
  /\ zpc = "off" => zmsq = 0 /\ file = <<>>
  /\ msq.now = IF zpc = "done" /\ zmsq = 1 THEN 0 ELSE msq.made
  /\ pmsq = 0 => msq.msgs = <<>>

Objects == Semaphore /\ Segment /\ Queue

(* As soon as one of them has set the semaphore its unit is in it or with  *)
(* the one that holds it.                                                  *)
Unit ==
  ~broken /\ kills = 0 /\ sem.now = 1
  /\ (gpc \notin {"off", "setval"} \/ ppc \notin {"off", "setval"})
  => sem.val[1] + (IF GHolds THEN 1 ELSE 0) + (IF PHolds THEN 1 ELSE 0) = 1

(* Outside the generator's sprintf a segment is as the kernel made it, or  *)
(* has a whole text.                                                       *)
Whole ==
  kills = 0 =>
    \A i \in Ids : \/ gpc = "printing" /\ gshm = i
                   \/ shm.seg[i] = Blank \/ shm.seg[i].id # 0

(* What generator is about to print is never older than what is there.     *)
Counting ==
  /\ gpc \in {"off", "setval", "shmget"} => gi = 1
  /\ gpc \in {"lock", "print", "printing", "unlock"} => gi <= Messages
  /\ kills = 0 /\ ~leftover /\ gshm = 0 => shm.seg[1] = Blank
  /\ kills = 0 /\ gshm = 1 /\ (~leftover \/ gi > 1 \/ gpc = "unlock") =>
       shm.seg[1].id <= gi
  /\ ordered /\ kills = 0 /\ (gi > 1 \/ gpc = "unlock") => shm.seg[1].id # 0

(* What is passed on is whole, as long as posrednik is in its loop or the  *)
(* programs are started in order.                                          *)
Passing ==
  ~broken /\ kills = 0 =>
    /\ pprev # Blank => pprev.id # 0
    /\ ordered \/ ppc \in PLoop =>
         /\ \A i \in 1..Len(msq.msgs) : msq.msgs[i].id # 0
         /\ zmsq # 0 =>
              /\ zpc = "handle" => zbuf.id # 0
              /\ \A i \in 1..Len(file) : file[i] # 0

(* The numbers only grow on their way from the segment to the file.        *)
Stream ==
  kills = 0 /\ (leftover => ordered) =>
    /\ \A i, j \in 1..Len(file) : i < j => file[i] < file[j]
    /\ file # <<>> => zprev = Text(file[Len(file)])
    /\ zprev.id <= zbuf.id /\ zbuf.id <= shm.seg[1].id
    /\ \A i \in 1..Len(msq.msgs) :
         zbuf.id <= msq.msgs[i].id /\ msq.msgs[i].id <= shm.seg[1].id
    /\ \A i, j \in 1..Len(msq.msgs) : i < j => msq.msgs[i].id <= msq.msgs[j].id
    /\ pmsq = 0 => zbuf.id = 0

(* Started in order, posrednik finds the end only when there is one.       *)
Started ==
  ordered /\ kills = 0 =>
    /\ ppc # "off" => gi > 1
    /\ sem.made < 2 /\ shm.made < 2
    /\ shm.seg[1].nul = TRUE /\ (gi > 1 \/ gpc \in {"printing", "unlock"}) => gpc = "done"
    /\ ppc \in PEnding => gpc = "done"
    /\ gpc # "failed"
    /\ zpc # "off" => zmsq = 1

PipeInv ==
  /\ Domains /\ Objects /\ Unit /\ Whole /\ Passing
  /\ Counting /\ Stream /\ Started

-----------------------------------------------------------------------------
(* What the calls of the kernel do to the objects *)

(* semop changes one value of one semaphore.                               *)
LEMMA SemAdded ==
  ASSUME sem \in SemObjects, NEW id \in Ids, NEW n \in Int, sem.val[id] + n \in Nat,
         SemAdd(id, n)
  PROVE  /\ sem' \in SemObjects /\ sem'.now = sem.now /\ sem'.made = sem.made
         /\ \A i \in Ids : sem'.val[i] = IF i = id THEN sem.val[i] + n ELSE sem.val[i]
BY DEF SemObjects, SemAdd

(* sprintf changes one segment.                                            *)
LEMMA Stored ==
  ASSUME shm \in ShmObjects, NEW id \in Ids, NEW c \in Content, Store(id, c)
  PROVE  /\ shm' \in ShmObjects /\ shm'.now = shm.now /\ shm'.made = shm.made
         /\ \A i \in Ids : shm'.seg[i] = IF i = id THEN c ELSE shm.seg[i]
BY DEF ShmObjects, Store

(* semget finds the live object or makes the next one, and touches no      *)
(* values.                                                                 *)
LEMMA SemGot ==
  ASSUME sem \in SemObjects, sem.now = 0 => sem.made < 2, sem' = Get(sem)
  PROVE  /\ sem' \in SemObjects /\ sem'.val = sem.val
         /\ sem'.now = Got(sem) /\ Got(sem) \in {1, 2}
         /\ sem'.made = IF sem.now = 0 THEN sem.made + 1 ELSE sem.made
<1>1. CASE sem.now # 0
  BY <1>1 DEF SemObjects, Get, Got
<1>2. CASE sem.now = 0
  <2>1. Got(sem) = sem.made + 1 /\ sem.made + 1 \in {1, 2}
    BY <1>2 DEF SemObjects, Got
  <2>2. sem' = [sem EXCEPT !.made = sem.made + 1, !.now = sem.made + 1]
    BY <1>2 DEF Get
  <2> QED
    BY <1>2, <2>1, <2>2 DEF SemObjects
<1> QED
  BY <1>1, <1>2

(* shmget does the same for the segment.                                   *)
LEMMA ShmGot ==
  ASSUME shm \in ShmObjects, shm.now = 0 => shm.made < 2, shm' = Get(shm)
  PROVE  /\ shm' \in ShmObjects /\ shm'.seg = shm.seg
         /\ shm'.now = Got(shm) /\ Got(shm) \in {1, 2}
         /\ shm'.made = IF shm.now = 0 THEN shm.made + 1 ELSE shm.made
<1>1. CASE shm.now # 0
  BY <1>1 DEF ShmObjects, Get, Got
<1>2. CASE shm.now = 0
  <2>1. Got(shm) = shm.made + 1 /\ shm.made + 1 \in {1, 2}
    BY <1>2 DEF ShmObjects, Got
  <2>2. shm' = [shm EXCEPT !.made = shm.made + 1, !.now = shm.made + 1]
    BY <1>2 DEF Get
  <2> QED
    BY <1>2, <2>1, <2>2 DEF ShmObjects
<1> QED
  BY <1>1, <1>2

(* What a segment can hold.                                                *)
LEMMA Contents ==
  /\ Blank \in Content /\ \A i \in Nat : Text(i) \in Content
  /\ \A c \in Content : c.id \in Nat /\ Cut(c) \in Content
  /\ \A c \in Content : Cut(c).id = c.id /\ Cut(c).nul = TRUE
  /\ \A c, d \in Content : c.id = d.id /\ c.nul = d.nul => c = d
<1>1. Blank \in Content /\ \A i \in Nat : Text(i) \in Content
  BY DEF Content, Blank, Text
<1>2. \A c \in Content : /\ c.id \in Nat /\ Cut(c) \in Content
                         /\ Cut(c).id = c.id /\ Cut(c).nul = TRUE
  BY DEF Content, Cut
<1>3. \A c, d \in Content : c.id = d.id /\ c.nul = d.nul => c = d
  BY DEF Content
<1> QED
  BY <1>1, <1>2, <1>3

-----------------------------------------------------------------------------
(* The start, and the steps of each program *)

(* Whatever an earlier generator has left behind.                          *)
LEMMA InitPipe == Init => PipeInv
<1> SUFFICES ASSUME Init PROVE PipeInv
  OBVIOUS
<1> USE GeneratorAssumption
<1> USE DEF Init, GInit, PInit, ZInit
<1>1. /\ sem \in SemObjects /\ sem.made \in {0, 1} /\ sem.now = sem.made
      /\ shm \in ShmObjects /\ shm.made \in {0, 1} /\ shm.now = shm.made
      /\ msq \in MsqObjects /\ msq.made = 0 /\ msq.now = 0 /\ msq.msgs = <<>>
      /\ \A i \in Ids : shm.seg[i] = Blank \/ (leftover /\ shm.seg[i].id # 0)
  <2>1. CASE ~leftover
    <3>1. sem = [now |-> 0, made |-> 0, val |-> [i \in Ids |-> 0]]
      BY <2>1 DEF NoIPC
    <3>2. shm = [now |-> 0, made |-> 0, seg |-> [i \in Ids |-> Blank]]
      BY <2>1 DEF NoIPC
    <3>3. msq = [now |-> 0, made |-> 0, msgs |-> <<>>]
      BY <2>1 DEF NoIPC
    <3>4. sem \in SemObjects /\ sem.made = 0 /\ sem.now = 0
      BY <3>1 DEF SemObjects
    <3>5. /\ shm \in ShmObjects /\ shm.made = 0 /\ shm.now = 0
          /\ \A i \in Ids : shm.seg[i] = Blank
      BY <3>2, Contents DEF ShmObjects
    <3>6. msq \in MsqObjects /\ msq.made = 0 /\ msq.now = 0 /\ msq.msgs = <<>>
      BY <3>3 DEF MsqObjects
    <3> QED
      BY <3>4, <3>5, <3>6
  <2>2. CASE leftover
    <3>1. PICK v \in {0, 1}, c \in {Cut(Text(Messages)), Text(1)} : LeftBehind(v, c)
      BY <2>2 DEF Leftovers
    <3>2. c \in Content /\ c.id # 0
      BY Contents DEF Text, Cut
    <3>3. v \in Nat
      OBVIOUS
    <3> QED
      BY <2>2, <3>1, <3>2, <3>3, Contents
      DEF LeftBehind, SemObjects, ShmObjects, MsqObjects
  <2> QED
    BY <2>1, <2>2
<1>2. Domains
  <2>1. zbuf \in Content /\ zprev \in Content /\ zbuf.id = 0 /\ zprev.id = 0
    <3>1. Text(0) \in Content /\ Blank \in Content /\ Text(0).id = 0 /\ Blank.id = 0
      BY Contents DEF Blank, Text
    <3> QED
      BY <3>1
  <2> QED
    BY <1>1, <2>1 DEF Domains, GPCs, PPCs, ZPCs
<1>3. Objects
  BY <1>1 DEF Objects, Semaphore, Segment, Queue, PStarting
<1>4. Unit
  BY DEF Unit
<1>5. Whole /\ Passing
  BY <1>1 DEF Whole, Passing
<1>6. Counting
  BY <1>1 DEF Counting, Ids
<1>7. Stream
  <2>1. zbuf.id = 0 /\ zprev.id = 0 /\ shm.seg[1].id \in Nat
    BY <1>1 DEF Blank, Text, ShmObjects, Content, Ids
  <2> QED
    BY <1>1, <2>1 DEF Stream
<1>8. Started
  BY <1>1 DEF Started, PEnding
<1> QED
  BY <1>2, <1>3, <1>4, <1>5, <1>6, <1>7, <1>8 DEF PipeInv

(* Every statement of generator keeps the invariant.                       *)
LEMMA StepGenerator ==
  ASSUME PipeInv, Generate
  PROVE  PipeInv'
<1>1. /\ UNCHANGED <<pvars, zvars, ordered, prompt, kills, leftover>>
      /\ broken => broken'
      /\ gpc = "setval" /\ PHolds /\ psem = gsem => broken'
  BY DEF Generate
<1>2. msq' = msq /\ GNext
  BY DEF Generate, GNext, GSemGet, GSetVal, GShmGet, GLock, GPrintPart, GPrint,
         GUnlock, GFail, GCut, ipc
<1>3. Queue' /\ Passing'
  BY <1>1, <1>2
  DEF PipeInv, Objects, Queue, Passing, pvars, zvars
<1>4. Domains /\ Semaphore /\ Segment /\ Unit /\ Whole /\ Counting /\ Stream /\ Started
  BY DEF PipeInv, Objects
<1> SUFFICES Domains' /\ Semaphore' /\ Segment' /\ Unit' /\ Whole' /\ Counting'
             /\ Stream' /\ Started'
  BY <1>3 DEF PipeInv, Objects
<1> USE GeneratorAssumption DEF GGoto, pvars, zvars
<1>5. CASE GSemGet
  <2>1. /\ gpc = "off" /\ gpc' = "setval" /\ gsem' = Got(sem) /\ sem' = Get(sem)
        /\ UNCHANGED <<shm, gi, gshm>>
    BY <1>5 DEF GSemGet
  <2>2. /\ sem' \in SemObjects /\ sem'.val = sem.val
        /\ sem'.now = Got(sem) /\ Got(sem) \in {1, 2}
        /\ sem'.made = IF sem.now = 0 THEN sem.made + 1 ELSE sem.made
    BY <1>4, <2>1, SemGot DEF Domains, Semaphore, SemObjects
  <2>3. Domains'
    BY <1>1, <1>2, <1>4, <2>1, <2>2 DEF Domains, GPCs
  <2>4. Semaphore' /\ Segment'
    BY <1>1, <1>4, <2>1, <2>2 DEF Domains, Semaphore, Segment, SemObjects, Got
  <2>5. Unit'
    BY <1>1, <1>4, <2>1, <2>2
    DEF Domains, Semaphore, Unit, SemObjects, Got, GHolds, PHolds
  <2>6. Whole' /\ Counting'
    BY <1>1, <1>4, <2>1 DEF Whole, Counting, Segment
  <2>7. Stream'
    BY <1>1, <1>2, <1>4, <2>1 DEF Stream
  <2>8. Started'
    BY <1>1, <1>2, <1>4, <2>1, <2>2
    DEF Domains, Semaphore, Counting, Started, PEnding
  <2> QED
    BY <2>3, <2>4, <2>5, <2>6, <2>7, <2>8
<1>6. CASE GSetVal
  <2>1. /\ gpc = "setval" /\ gpc' = "shmget" /\ SetVal(gsem)
        /\ UNCHANGED <<shm, gi, gsem, gshm>>
    BY <1>6 DEF GSetVal
  <2>2. /\ sem' \in SemObjects /\ sem'.now = sem.now /\ sem'.made = sem.made
        /\ SemLive(gsem) => sem'.val[gsem] = 1
    <3>1. CASE SemLive(gsem)
      BY <1>4, <2>1, <3>1 DEF Domains, SemObjects, SetVal, SemLive, Ids
    <3>2. CASE ~SemLive(gsem)
      BY <1>4, <2>1, <3>2 DEF Domains, SetVal
    <3> QED
      BY <3>1, <3>2
  <2>3. Domains'
    BY <1>1, <1>2, <1>4, <2>1, <2>2 DEF Domains, GPCs
  <2>4. Semaphore' /\ Segment'
    BY <1>1, <1>4, <2>1, <2>2 DEF Semaphore, Segment
  <2>5. Unit'
    BY <1>1, <1>4, <2>1, <2>2
    DEF Domains, Semaphore, Unit, SemObjects, SemLive, GHolds, PHolds
  <2>6. Whole' /\ Counting'
    BY <1>1, <1>4, <2>1 DEF Whole, Counting
  <2>7. Stream' /\ Started'
    BY <1>1, <1>2, <1>4, <2>1, <2>2 DEF Counting, Stream, Started, PEnding
  <2> QED
    BY <2>3, <2>4, <2>5, <2>6, <2>7
<1>7. CASE GShmGet
  <2>1. /\ gpc = "shmget" /\ gpc' = "lock" /\ gshm' = Got(shm) /\ shm' = Get(shm)
        /\ UNCHANGED <<sem, gi, gsem>>
    BY <1>7 DEF GShmGet
  <2>2. /\ shm' \in ShmObjects /\ shm'.seg = shm.seg
        /\ shm'.now = Got(shm) /\ Got(shm) \in {1, 2}
        /\ shm'.made = IF shm.now = 0 THEN shm.made + 1 ELSE shm.made
    BY <1>4, <2>1, ShmGot DEF Domains, Segment, ShmObjects
  <2>3. Domains'
    BY <1>1, <1>2, <1>4, <2>1, <2>2 DEF Domains, GPCs
  <2>4. Semaphore' /\ Segment'
    BY <1>1, <1>4, <2>1, <2>2 DEF Domains, Semaphore, Segment, ShmObjects, Got
  <2>5. Unit'
    BY <1>1, <1>4, <2>1 DEF Unit, GHolds, PHolds
  <2>6. Whole' /\ Counting'
    BY <1>1, <1>4, <2>1, <2>2 DEF Domains, Whole, Counting, Segment, Blank
  <2>7. Stream' /\ Started'
    BY <1>1, <1>2, <1>4, <2>1, <2>2
    DEF Domains, Segment, Counting, Stream, Started, PEnding
  <2> QED
    BY <2>3, <2>4, <2>5, <2>6, <2>7
<1>8. CASE GLock
  <2>1. /\ gpc = "lock" /\ gpc' = "print" /\ SemLive(gsem) /\ sem.val[gsem] > 0
        /\ SemAdd(gsem, -1) /\ UNCHANGED <<shm, gi, gsem, gshm>>
    BY <1>8 DEF GLock, Down
  <2>2. /\ sem' \in SemObjects /\ sem'.now = sem.now /\ sem'.made = sem.made
        /\ sem'.val[gsem] = sem.val[gsem] - 1
    <3>1. gsem \in Ids /\ sem.val[gsem] \in Nat
      BY <1>4, <2>1 DEF Domains, SemObjects, SemLive, Ids
    <3>2. sem.val[gsem] + (-1) \in Nat /\ sem.val[gsem] + (-1) = sem.val[gsem] - 1
      BY <2>1, <3>1
    <3> QED
      BY <1>4, <2>1, <3>1, <3>2, SemAdded DEF Domains
  <2>3. Domains'
    BY <1>1, <1>2, <1>4, <2>1, <2>2 DEF Domains, GPCs
  <2>4. Semaphore' /\ Segment'
    BY <1>1, <1>4, <2>1, <2>2 DEF Semaphore, Segment
  <2>5. Unit'
    BY <1>1, <1>4, <2>1, <2>2
    DEF Domains, Semaphore, Unit, SemObjects, SemLive, Ids, GHolds, PHolds
  <2>6. Whole' /\ Counting'
    BY <1>1, <1>4, <2>1 DEF Whole, Counting
  <2>7. Stream' /\ Started'
    BY <1>1, <1>2, <1>4, <2>1, <2>2 DEF Counting, Stream, Started, PEnding
  <2> QED
    BY <2>3, <2>4, <2>5, <2>6, <2>7
<1>9. CASE GPrintPart
  <2>1. /\ gpc = "print" /\ gpc' = "printing" /\ Store(gshm, Text(shm.seg[gshm].id))
        /\ UNCHANGED <<sem, gi, gsem, gshm>>
    BY <1>9 DEF GPrintPart
  <2>2. gshm \in Ids /\ shm.seg[gshm].id \in Nat
    BY <1>4, <2>1 DEF Domains, Segment, ShmObjects, Content, Ids
  <2>3. /\ shm' \in ShmObjects /\ shm'.now = shm.now /\ shm'.made = shm.made
        /\ \A i \in Ids :
             shm'.seg[i] = IF i = gshm THEN Text(shm.seg[gshm].id) ELSE shm.seg[i]
    BY <1>4, <2>1, <2>2, Contents, Stored DEF Domains
  <2>4. \A i \in Ids : shm'.seg[i].id = shm.seg[i].id
    BY <2>3 DEF Text
  <2>5. Domains'
    BY <1>1, <1>2, <1>4, <2>1, <2>3 DEF Domains, GPCs
  <2>6. Semaphore' /\ Segment'
    BY <1>1, <1>4, <2>1, <2>3 DEF Semaphore, Segment
  <2>7. Unit'
    BY <1>1, <1>4, <2>1 DEF Unit, GHolds, PHolds
  <2>8. Whole' /\ Counting'
    BY <1>1, <1>4, <2>1, <2>2, <2>3, <2>4 DEF Whole, Counting, Ids
  <2>9. Stream'
    BY <1>1, <1>2, <1>4, <2>4 DEF Stream, Ids
  <2>10. Started'
    <3>1. ordered /\ kills = 0 => gshm = 1
      BY <1>4, <2>2 DEF Domains, Segment, Started, ShmObjects, Ids
    <3>2. shm'.seg[gshm].nul = FALSE
      BY <2>2, <2>3 DEF Text
    <3> QED
      BY <1>1, <1>4, <2>1, <2>3, <3>1, <3>2 DEF Started, PEnding
  <2> QED
    BY <2>5, <2>6, <2>7, <2>8, <2>9, <2>10
<1>10. CASE GPrint
  <2>1. /\ gpc = "printing" /\ gpc' = "unlock" /\ Store(gshm, Text(gi))
        /\ UNCHANGED <<sem, gi, gsem, gshm>>
    BY <1>10 DEF GPrint
  <2>2. gshm \in Ids /\ gi \in Nat /\ gi > 0
    BY <1>4, <2>1 DEF Domains, Segment, Ids
  <2>3. /\ shm' \in ShmObjects /\ shm'.now = shm.now /\ shm'.made = shm.made
        /\ \A i \in Ids : shm'.seg[i] = IF i = gshm THEN Text(gi) ELSE shm.seg[i]
    <3>1. Text(gi) \in Content
      BY <2>2, Contents
    <3> QED
      BY <1>4, <2>1, <2>2, <3>1, Stored DEF Domains
  <2>4. shm'.seg[gshm].id = gi /\ shm'.seg[gshm].nul = FALSE
    BY <2>2, <2>3 DEF Text
  <2>5. Domains'
    BY <1>1, <1>2, <1>4, <2>1, <2>3 DEF Domains, GPCs
  <2>6. Semaphore' /\ Segment'
    BY <1>1, <1>4, <2>1, <2>3 DEF Semaphore, Segment
  <2>7. Unit'
    BY <1>1, <1>4, <2>1 DEF Unit, GHolds, PHolds
  <2>8. Whole' /\ Counting'
    <3>1. ordered /\ kills = 0 => gshm = 1
      BY <1>4, <2>1, <2>2 DEF Domains, Segment, Started, ShmObjects, Ids
    <3> QED
      BY <1>1, <1>4, <2>1, <2>2, <2>3, <2>4, <3>1 DEF Whole, Counting, Ids
  <2>9. Stream'
    <3>1. CASE gshm = 1 /\ (~leftover \/ gi > 1)
      <4>1. kills = 0 => shm.seg[1].id <= gi /\ shm'.seg[1].id = gi
        BY <1>4, <2>4, <3>1 DEF Counting
      <4>2. /\ zbuf.id \in Nat /\ shm.seg[1].id \in Nat
            /\ \A i \in 1..Len(msq.msgs) : msq.msgs[i].id \in Nat
        <5>1. /\ msq.msgs \in Seq(Content) /\ zbuf \in Content
              /\ shm.seg[1] \in Content
          BY <1>4 DEF Domains, MsqObjects, ShmObjects, Ids
        <5>2. \A i \in 1..Len(msq.msgs) : msq.msgs[i] \in Content
          BY <5>1, ElementOfSeq
        <5> QED
          BY <5>1, <5>2, Contents
      <4> QED
        BY <1>1, <1>2, <1>4, <2>2, <4>1, <4>2 DEF Stream
    <3>2. CASE gshm = 1 /\ leftover /\ gi = 1
      <4>1. kills = 0 /\ ordered => ppc = "off"
        BY <1>4, <3>2 DEF Started
      <4>2. ppc = "off" => pmsq = 0 /\ msq.msgs = <<>>
        BY <1>4 DEF PipeInv, Objects, Queue, PStarting
      <4> QED
        BY <1>1, <1>2, <1>4, <2>2, <2>4, <3>2, <4>1, <4>2 DEF Stream
    <3>3. CASE gshm = 2
      BY <1>1, <1>2, <1>4, <2>3, <3>3 DEF Stream, Ids
    <3> QED
      BY <2>2, <3>1, <3>2, <3>3 DEF Ids
  <2>10. Started'
    <3>1. ordered /\ kills = 0 => gshm = 1
      BY <1>4, <2>2 DEF Domains, Segment, Started, ShmObjects, Ids
    <3> QED
      BY <1>1, <1>4, <2>1, <2>3, <2>4, <3>1 DEF Started, PEnding
  <2> QED
    BY <2>5, <2>6, <2>7, <2>8, <2>9, <2>10
<1>11. CASE GUnlock
  <2>1. /\ gpc = "unlock" /\ gpc' = (IF gi < Messages THEN "lock" ELSE "cut")
        /\ SemLive(gsem) /\ SemAdd(gsem, 1) /\ gi' = gi + 1
        /\ UNCHANGED <<shm, gsem, gshm>>
    BY <1>11 DEF GUnlock, Up
  <2>2. /\ sem' \in SemObjects /\ sem'.now = sem.now /\ sem'.made = sem.made
        /\ sem'.val[gsem] = sem.val[gsem] + 1
    <3>1. gsem \in Ids /\ sem.val[gsem] \in Nat
      BY <1>4, <2>1 DEF Domains, SemObjects, SemLive, Ids
    <3> QED
      BY <1>4, <2>1, <3>1, SemAdded DEF Domains
  <2>3. gi \in 1..Messages
    BY <1>4, <2>1 DEF Domains, Counting
  <2>4. Domains'
    BY <1>1, <1>2, <1>4, <2>1, <2>2, <2>3 DEF Domains, GPCs
  <2>5. Semaphore' /\ Segment'
    BY <1>1, <1>4, <2>1, <2>2 DEF Semaphore, Segment
  <2>6. Unit'
    BY <1>1, <1>4, <2>1, <2>2
    DEF Domains, Semaphore, Unit, SemObjects, SemLive, Ids, GHolds, PHolds
  <2>7. Whole' /\ Counting'
    <3>1. shm.seg[1].id \in Nat
      BY <1>4 DEF Domains, ShmObjects, Content, Ids
    <3> QED
      BY <1>1, <1>4, <2>1, <2>3, <3>1 DEF Whole, Counting
  <2>8. Stream' /\ Started'
    BY <1>1, <1>2, <1>4, <2>1, <2>2, <2>3 DEF Stream, Started, PEnding
  <2> QED
    BY <2>4, <2>5, <2>6, <2>7, <2>8
<1>12. CASE GFail
  <2>1. /\ gpc \in {"lock", "unlock"} /\ ~SemLive(gsem) /\ gpc' = "failed"
        /\ UNCHANGED <<sem, shm, gi, gsem, gshm>>
    BY <1>12 DEF GFail, ipc
  <2>2. Domains'
    BY <1>1, <1>2, <1>4, <2>1 DEF Domains, GPCs
  <2>3. Semaphore' /\ Segment'
    BY <1>1, <1>4, <2>1 DEF Semaphore, Segment
  <2>4. Unit'
    BY <1>1, <1>4, <2>1
    DEF Domains, Semaphore, Unit, SemObjects, SemLive, GHolds, PHolds
  <2>5. Whole' /\ Counting'
    BY <1>1, <1>4, <2>1 DEF Whole, Counting
  <2>6. Stream'
    BY <1>1, <1>2, <1>4, <2>1 DEF Stream
  <2>7. Started'
    <3>1. ~(ordered /\ kills = 0)
      BY <1>4, <2>1 DEF Domains, Semaphore, Started, SemObjects, SemLive, PEnding
    <3> QED
      BY <1>1, <3>1 DEF Started
  <2> QED
    BY <2>2, <2>3, <2>4, <2>5, <2>6, <2>7
<1>13. CASE GCut
  <2>1. /\ gpc = "cut" /\ gpc' = "done" /\ Store(gshm, Cut(shm.seg[gshm]))
        /\ UNCHANGED <<sem, gi, gsem, gshm>>
    BY <1>13 DEF GCut
  <2>2. gshm \in Ids /\ shm.seg[gshm] \in Content
    BY <1>4, <2>1 DEF Domains, Segment, ShmObjects, Ids
  <2>3. /\ shm' \in ShmObjects /\ shm'.now = shm.now /\ shm'.made = shm.made
        /\ \A i \in Ids :
             shm'.seg[i] = IF i = gshm THEN Cut(shm.seg[gshm]) ELSE shm.seg[i]
    BY <1>4, <2>1, <2>2, Contents, Stored DEF Domains
  <2>4. \A i \in Ids : shm'.seg[i].id = shm.seg[i].id
    BY <2>2, <2>3, Contents
  <2>5. Domains'
    BY <1>1, <1>2, <1>4, <2>1, <2>3 DEF Domains, GPCs
  <2>6. Semaphore' /\ Segment'
    BY <1>1, <1>4, <2>1, <2>3 DEF Semaphore, Segment
  <2>7. Unit'
    BY <1>1, <1>4, <2>1 DEF Unit, GHolds, PHolds
  <2>8. Whole' /\ Counting'
    <3>1. Cut(Blank) = Blank
      BY Contents DEF Blank
    <3> QED
      BY <1>1, <1>4, <2>1, <2>2, <2>3, <2>4, <3>1 DEF Whole, Counting, Ids
  <2>9. Stream'
    BY <1>1, <1>2, <1>4, <2>4 DEF Stream, Ids
  <2>10. Started'
    BY <1>1, <1>4, <2>1, <2>3 DEF Started, PEnding
  <2> QED
    BY <2>5, <2>6, <2>7, <2>8, <2>9, <2>10
<1> QED
  BY <1>2, <1>5, <1>6, <1>7, <1>8, <1>9, <1>10, <1>11, <1>12, <1>13 DEF GNext

(* msgsnd adds at most the content it is given, at the end of the queue.   *)
LEMMA SentOne ==
  ASSUME msq \in MsqObjects, NEW id, NEW c \in Content, msq' = Sent(id, c)
  PROVE  /\ msq' \in MsqObjects /\ msq'.now = msq.now /\ msq'.made = msq.made
         /\ \/ msq'.msgs = msq.msgs
            \/ c # Blank /\ msq'.msgs = Append(msq.msgs, c)
<1>1. CASE Sendable(id, c)
  <2>1. msq' = [msq EXCEPT !.msgs = Append(msq.msgs, c)] /\ c # Blank
    BY <1>1 DEF Sent, Sendable
  <2>2. msq.msgs \in Seq(Content) /\ Append(msq.msgs, c) \in Seq(Content)
    BY AppendProperties DEF MsqObjects
  <2> QED
    BY <2>1, <2>2 DEF MsqObjects
<1>2. CASE ~Sendable(id, c)
  BY <1>2 DEF Sent
<1> QED
  BY <1>1, <1>2

(* What is sent is not older than what was sent before.                    *)
LEMMA StreamGoesOn ==
  ASSUME Domains, Stream, pmsq = 1, pmsq' = 1, msq' = Sent(pmsq, shm.seg[1]),
         UNCHANGED <<shm, zvars, kills, leftover, ordered>>
  PROVE  Stream'
<1>1. shm.seg[1] \in Content /\ msq.msgs \in Seq(Content) /\ zbuf \in Content
  BY DEF Domains, ShmObjects, MsqObjects, Ids
<1>2. \/ msq'.msgs = msq.msgs
      \/ msq'.msgs = Append(msq.msgs, shm.seg[1])
  BY <1>1, SentOne DEF Domains
<1>3. CASE msq'.msgs = msq.msgs
  BY <1>3 DEF Stream, zvars
<1>4. CASE msq'.msgs = Append(msq.msgs, shm.seg[1])
  <2> DEFINE old == msq.msgs
             new == msq'.msgs
  <2>1. /\ Len(old) \in Nat /\ Len(new) = Len(old) + 1
        /\ \A i \in 1..Len(old) : new[i] = old[i]
        /\ new[Len(old) + 1] = shm.seg[1]
    BY <1>1, <1>4, AppendProperties, LenProperties
  <2>2. shm.seg[1].id \in Nat
    BY <1>1, Contents
  <2>3. SUFFICES ASSUME kills = 0, leftover => ordered
                 PROVE  /\ \A i \in 1..Len(new) :
                             zbuf.id <= new[i].id /\ new[i].id <= shm.seg[1].id
                        /\ \A i, j \in 1..Len(new) : i < j => new[i].id <= new[j].id
    BY DEF Stream, zvars
  <2>4. /\ zbuf.id <= shm.seg[1].id
        /\ \A i \in 1..Len(old) :
             zbuf.id <= old[i].id /\ old[i].id <= shm.seg[1].id
        /\ \A i, j \in 1..Len(old) : i < j => old[i].id <= old[j].id
    BY <2>3 DEF Stream
  <2> HIDE DEF old, new
  <2>5. \A i \in 1..Len(new) : i \in 1..Len(old) \/ i = Len(old) + 1
    BY <2>1
  <2> QED
    BY <2>1, <2>2, <2>4, <2>5
<1> QED
  BY <1>2, <1>3, <1>4

(* Every statement of posrednik keeps the invariant.                       *)
LEMMA StepPosrednik ==
  ASSUME PipeInv, Forward
  PROVE  PipeInv'
<1>1. /\ UNCHANGED <<gvars, zvars, ordered, prompt, kills, leftover>>
      /\ broken => broken'
      /\ ppc = "setval" /\ GHolds /\ gsem = psem => broken'
      /\ ppc = "off" /\ ordered => gi > 1
  BY DEF Forward, PMayStart
<1>2. PNext
  BY DEF Forward
<1>3. Domains /\ Semaphore /\ Segment /\ Queue /\ Unit /\ Whole /\ Passing
      /\ Counting /\ Stream /\ Started
  BY DEF PipeInv, Objects
<1> USE DEF PGoto, gvars, zvars
<1>4. shm'.seg = shm.seg
  BY <1>2, <1>3
  DEF PNext, PSemGet, PSetVal, PShmGet, PMsgGet, PLock, PCheck, PShow, PSend, PUnlock,
      PUnlockEnd, PSendEnd, PRmSem, PRmShm, ipc, Domains, ShmObjects, Get, Rmid
<1>5. Whole' /\ Counting'
  BY <1>1, <1>3, <1>4 DEF Whole, Counting
<1> SUFFICES Domains' /\ Semaphore' /\ Segment' /\ Queue' /\ Unit' /\ Passing'
             /\ Stream' /\ Started'
  BY <1>5 DEF PipeInv, Objects
<1>6. CASE PSemGet
  <2>1. /\ ppc = "off" /\ ppc' = "setval" /\ psem' = Got(sem) /\ sem' = Get(sem)
        /\ UNCHANGED <<shm, msq, pshm, pmsq, pprev>>
    BY <1>6 DEF PSemGet
  <2>2. /\ sem' \in SemObjects /\ sem'.val = sem.val
        /\ sem'.now = 1 /\ sem'.made = 1 /\ psem' = 1
    BY <1>3, <2>1, SemGot DEF Domains, Semaphore, SemObjects, Got
  <2>3. Domains'
    BY <1>1, <1>3, <2>1, <2>2 DEF Domains, PPCs
  <2>4. Semaphore' /\ Segment' /\ Queue'
    <3>1. Semaphore'
      BY <1>1, <1>3, <2>1, <2>2 DEF Domains, Semaphore, SemObjects
    <3> QED
      BY <1>1, <1>3, <2>1, <3>1 DEF Segment, Queue, PStarting
  <2>5. Unit'
    BY <1>1, <1>3, <2>1, <2>2 DEF Domains, Semaphore, Unit, SemObjects, GHolds, PHolds
  <2>6. Passing' /\ Stream'
    BY <1>1, <1>3, <2>1 DEF Passing, PLoop, Stream
  <2>7. Started'
    BY <1>1, <1>3, <2>1, <2>2 DEF Started, PEnding
  <2> QED
    BY <2>3, <2>4, <2>5, <2>6, <2>7
<1>7. CASE PSetVal
  <2>1. /\ ppc = "setval" /\ ppc' = "shmget" /\ SetVal(psem)
        /\ UNCHANGED <<shm, msq, psem, pshm, pmsq, pprev>>
    BY <1>7 DEF PSetVal
  <2>2. psem = 1 /\ sem.now = 1
    BY <1>3, <2>1 DEF Domains, Semaphore, SemObjects
  <2>3. /\ sem' \in SemObjects /\ sem'.now = 1 /\ sem'.made = sem.made
        /\ sem'.val[1] = 1
    BY <1>3, <2>1, <2>2 DEF Domains, SemObjects, SetVal, SemLive, Ids
  <2>4. Domains'
    BY <1>1, <1>3, <2>1, <2>3 DEF Domains, PPCs
  <2>5. Semaphore' /\ Segment' /\ Queue'
    BY <1>1, <1>3, <2>1, <2>2, <2>3
    DEF Domains, Semaphore, Segment, Queue, PStarting, SemObjects
  <2>6. Unit'
    <3>1. GHolds => gsem = psem
      BY <1>3, <2>1, <2>2 DEF Domains, Semaphore, SemObjects, GHolds
    <3> QED
      BY <1>1, <1>3, <2>1, <2>3, <3>1 DEF Unit, GHolds, PHolds
  <2>7. Passing' /\ Stream'
    BY <1>1, <1>3, <2>1 DEF Passing, PLoop, Stream
  <2>8. Started'
    BY <1>1, <1>3, <2>1, <2>3 DEF Started, PEnding
  <2> QED
    BY <2>4, <2>5, <2>6, <2>7, <2>8
<1>8. CASE PShmGet
  <2>1. /\ ppc = "shmget" /\ ppc' = "msgget" /\ pshm' = Got(shm) /\ shm' = Get(shm)
        /\ UNCHANGED <<sem, msq, psem, pmsq, pprev>>
    BY <1>8 DEF PShmGet
  <2>2. /\ shm' \in ShmObjects /\ shm'.now = 1 /\ shm'.made = 1 /\ pshm' = 1
    BY <1>3, <2>1, ShmGot DEF Domains, Segment, ShmObjects, Got
  <2>3. Domains'
    BY <1>1, <1>3, <2>1, <2>2 DEF Domains, PPCs
  <2>4. Semaphore' /\ Segment' /\ Queue'
    BY <1>1, <1>3, <2>1, <2>2
    DEF Domains, Semaphore, Segment, Queue, PStarting, ShmObjects
  <2>5. Unit'
    BY <1>1, <1>3, <2>1 DEF Unit, GHolds, PHolds
  <2>6. Passing' /\ Stream'
    BY <1>1, <1>3, <1>4, <2>1 DEF Passing, PLoop, Stream
  <2>7. Started'
    BY <1>1, <1>3, <1>4, <2>1, <2>2 DEF Started, PEnding
  <2> QED
    BY <2>3, <2>4, <2>5, <2>6, <2>7
<1>9. CASE PMsgGet
  <2>1. /\ ppc = "msgget" /\ ppc' = "lock" /\ pmsq' = Got(msq) /\ msq' = Get(msq)
        /\ UNCHANGED <<sem, shm, psem, pshm, pprev>>
    BY <1>9 DEF PMsgGet
  <2>2. msq.now = 0 /\ msq.made = 0 /\ msq.msgs = <<>> /\ pmsq = 0 /\ zmsq = 0
    BY <1>3, <2>1 DEF Domains, Queue, PStarting
  <2>3. /\ msq' \in MsqObjects /\ msq'.now = 1 /\ msq'.made = 1 /\ msq'.msgs = <<>>
        /\ pmsq' = 1
    <3>1. Got(msq) = 1 /\ msq' = [msq EXCEPT !.made = 1, !.now = 1]
      BY <2>1, <2>2 DEF Get, Got
    <3> QED
      BY <1>3, <2>1, <2>2, <3>1 DEF Domains, MsqObjects
  <2>4. Domains'
    BY <1>1, <1>3, <2>1, <2>3 DEF Domains, PPCs
  <2>5. Semaphore' /\ Segment' /\ Queue'
    BY <1>1, <1>3, <2>1, <2>2, <2>3 DEF Semaphore, Segment, Queue, PStarting
  <2>6. Unit'
    BY <1>1, <1>3, <2>1 DEF Unit, GHolds, PHolds
  <2>7. Passing' /\ Stream'
    BY <1>1, <1>3, <2>1, <2>3 DEF Passing, PLoop, Stream
  <2>8. Started'
    BY <1>1, <1>3, <2>1 DEF Started, PEnding
  <2> QED
    BY <2>4, <2>5, <2>6, <2>7, <2>8
<1>10. CASE PLock
  <2>1. /\ ppc = "lock" /\ ppc' = "check" /\ SemLive(psem) /\ sem.val[psem] > 0
        /\ SemAdd(psem, -1) /\ UNCHANGED <<shm, msq, psem, pshm, pmsq, pprev>>
    BY <1>10 DEF PLock, Down
  <2>2. psem = 1 /\ sem.now = 1
    BY <1>3, <2>1 DEF Domains, Semaphore, SemLive
  <2>3. /\ sem' \in SemObjects /\ sem'.now = sem.now /\ sem'.made = sem.made
        /\ sem'.val[1] = sem.val[1] - 1 /\ sem.val[1] \in Nat
    <3>1. 1 \in Ids /\ sem.val[1] \in Nat
      BY <1>3 DEF Domains, SemObjects, Ids
    <3>2. sem.val[1] + (-1) \in Nat /\ sem.val[1] + (-1) = sem.val[1] - 1
      BY <2>1, <2>2, <3>1
    <3> QED
      BY <1>3, <2>1, <2>2, <3>1, <3>2, SemAdded DEF Domains
  <2>4. Domains'
    BY <1>1, <1>3, <2>1, <2>3 DEF Domains, PPCs
  <2>5. Semaphore' /\ Segment' /\ Queue'
    BY <1>1, <1>3, <2>1, <2>3 DEF Semaphore, Segment, Queue, PStarting
  <2>6. Unit'
    BY <1>1, <1>3, <2>1, <2>2, <2>3 DEF Unit, GHolds, PHolds
  <2>7. Passing' /\ Stream'
    BY <1>1, <1>3, <2>1 DEF Passing, PLoop, Stream
  <2>8. Started'
    BY <1>1, <1>3, <2>1, <2>3 DEF Started, PEnding
  <2> QED
    BY <2>4, <2>5, <2>6, <2>7, <2>8
<1>11. CASE PCheck
  <2>1. /\ ppc = "check" /\ ppc' = (IF Seen.nul THEN "unlockEnd" ELSE "show")
        /\ UNCHANGED <<sem, shm, msq, psem, pshm, pmsq, pprev>>
    BY <1>11 DEF PCheck, ipc
  <2>2. Seen = shm.seg[1]
    BY <1>3, <2>1 DEF Segment, Seen
  <2>3. Domains'
    BY <1>1, <1>3, <2>1 DEF Domains, PPCs
  <2>4. Semaphore' /\ Segment' /\ Queue'
    BY <1>1, <1>3, <2>1 DEF Semaphore, Segment, Queue, PStarting
  <2>5. Unit'
    BY <1>1, <1>3, <2>1 DEF Unit, GHolds, PHolds
  <2>6. Passing' /\ Stream'
    BY <1>1, <1>3, <2>1 DEF Passing, PLoop, Stream
  <2>7. Started'
    BY <1>1, <1>3, <2>1, <2>2 DEF Started, PEnding
  <2> QED
    BY <2>3, <2>4, <2>5, <2>6, <2>7
<1>12. CASE PShow
  <2>1. /\ ppc = "show" /\ ppc' = "send"
        /\ UNCHANGED <<sem, shm, msq, psem, pshm, pmsq>>
    BY <1>12 DEF PShow, ipc
  <2>2. Domains'
    BY <1>1, <1>3, <2>1 DEF Domains, PPCs
  <2>3. Semaphore' /\ Segment' /\ Queue'
    BY <1>1, <1>3, <2>1 DEF Semaphore, Segment, Queue, PStarting
  <2>4. Unit'
    BY <1>1, <1>3, <2>1 DEF Unit, GHolds, PHolds
  <2>5. Passing'
    <3>1. SUFFICES ASSUME ~broken, kills = 0, pprev' # Blank
                   PROVE  pprev'.id # 0
      BY <1>1, <1>3, <2>1 DEF Passing, PLoop
    <3>2. psem = 1 /\ pshm = 1 /\ sem.now = 1 /\ pprev' = shm.seg[1]
      BY <1>3, <1>12, <2>1 DEF PShow, Domains, Semaphore, Segment, Seen, SemObjects
    <3>3. ~GHolds
      BY <1>3, <2>1, <3>1, <3>2 DEF Domains, Unit, PHolds, SemObjects, Ids
    <3> QED
      BY <1>3, <3>1, <3>2, <3>3 DEF Whole, GHolds, Ids
  <2>6. Stream' /\ Started'
    BY <1>1, <1>3, <2>1 DEF Stream, Started, PEnding
  <2> QED
    BY <2>2, <2>3, <2>4, <2>5, <2>6
<1>13. CASE PSend
  <2>1. /\ ppc = "send" /\ ppc' = "unlock" /\ msq' = Sent(pmsq, Seen)
        /\ UNCHANGED <<sem, shm, psem, pshm, pmsq, pprev>>
    BY <1>13 DEF PSend
  <2>2. /\ psem = 1 /\ pshm = 1 /\ pmsq = 1 /\ sem.now = 1
        /\ Seen = shm.seg[1] /\ shm.seg[1] \in Content /\ msq.msgs \in Seq(Content)
    BY <1>3, <2>1
    DEF Domains, Semaphore, Segment, Queue, PStarting, Seen, SemObjects, ShmObjects,
        MsqObjects, Ids
  <2>3. /\ msq' \in MsqObjects /\ msq'.now = msq.now /\ msq'.made = msq.made
        /\ \/ msq'.msgs = msq.msgs
           \/ shm.seg[1] # Blank /\ msq'.msgs = Append(msq.msgs, shm.seg[1])
    BY <1>3, <2>1, <2>2, SentOne DEF Domains
  <2>4. Domains'
    BY <1>1, <1>3, <2>1, <2>3 DEF Domains, PPCs
  <2>5. Semaphore' /\ Segment' /\ Queue'
    BY <1>1, <1>3, <2>1, <2>2, <2>3 DEF Semaphore, Segment, Queue, PStarting
  <2>6. Unit'
    BY <1>1, <1>3, <2>1 DEF Unit, GHolds, PHolds
  <2>7. Passing'
    <3>1. SUFFICES ASSUME ~broken, kills = 0
                   PROVE  \A i \in 1..Len(msq'.msgs) : msq'.msgs[i].id # 0
      BY <1>1, <1>3, <2>1 DEF Passing, PLoop
    <3>2. \A i \in 1..Len(msq.msgs) : msq.msgs[i].id # 0
      BY <1>3, <2>1, <3>1 DEF Passing, PLoop
    <3>3. ~GHolds
      BY <1>3, <2>1, <2>2, <3>1 DEF Domains, Unit, PHolds, SemObjects, Ids
    <3>4. shm.seg[1] # Blank => shm.seg[1].id # 0
      BY <1>3, <3>1, <3>3 DEF Whole, GHolds, Ids
    <3>5. CASE msq'.msgs = msq.msgs
      BY <3>2, <3>5
    <3>6. CASE shm.seg[1] # Blank /\ msq'.msgs = Append(msq.msgs, shm.seg[1])
      BY <2>2, <3>2, <3>4, <3>6, AppendProperties, LenProperties
    <3> QED
      BY <2>3, <3>5, <3>6
  <2>8. Stream'
    BY <1>1, <1>3, <2>1, <2>2, StreamGoesOn
  <2>9. Started'
    BY <1>1, <1>3, <2>1 DEF Started, PEnding
  <2> QED
    BY <2>4, <2>5, <2>6, <2>7, <2>8, <2>9
<1>14. CASE PUnlock \/ PUnlockEnd
  <2>1. /\ \/ ppc = "unlock" /\ ppc' = "lock"
           \/ ppc = "unlockEnd" /\ ppc' = "sendEnd"
        /\ SemLive(psem) /\ SemAdd(psem, 1)
        /\ UNCHANGED <<shm, msq, psem, pshm, pmsq, pprev>>
    BY <1>14 DEF PUnlock, PUnlockEnd, Up
  <2>2. psem = 1 /\ sem.now = 1
    BY <1>3, <2>1 DEF Domains, Semaphore, SemLive
  <2>3. /\ sem' \in SemObjects /\ sem'.now = sem.now /\ sem'.made = sem.made
        /\ sem'.val[1] = sem.val[1] + 1 /\ sem.val[1] \in Nat
    <3>1. 1 \in Ids /\ sem.val[1] \in Nat
      BY <1>3 DEF Domains, SemObjects, Ids
    <3> QED
      BY <1>3, <2>1, <2>2, <3>1, SemAdded DEF Domains
  <2>4. Domains'
    BY <1>1, <1>3, <2>1, <2>3 DEF Domains, PPCs
  <2>5. Semaphore' /\ Segment' /\ Queue'
    BY <1>1, <1>3, <2>1, <2>3 DEF Semaphore, Segment, Queue, PStarting
  <2>6. Unit'
    BY <1>1, <1>3, <2>1, <2>2, <2>3 DEF Unit, GHolds, PHolds
  <2>7. Passing' /\ Stream'
    BY <1>1, <1>3, <2>1 DEF Passing, PLoop, Stream
  <2>8. Started'
    BY <1>1, <1>3, <2>1, <2>3 DEF Started, PEnding
  <2> QED
    BY <2>4, <2>5, <2>6, <2>7, <2>8
<1>15. CASE PSendEnd
  <2>1. /\ \/ ppc = "sendEnd" /\ ppc' = "sendAgain"
           \/ ppc = "sendAgain" /\ ppc' = "rmSem"
        /\ msq' = Sent(pmsq, Seen)
        /\ UNCHANGED <<sem, shm, psem, pshm, pmsq, pprev>>
    BY <1>15 DEF PSendEnd
  <2>2. /\ pshm = 1 /\ pmsq = 1 /\ Seen = shm.seg[1] /\ shm.seg[1] \in Content
    BY <1>3, <2>1 DEF Domains, Segment, Queue, PStarting, Seen, ShmObjects, Ids
  <2>3. /\ msq' \in MsqObjects /\ msq'.now = msq.now /\ msq'.made = msq.made
        /\ \/ msq'.msgs = msq.msgs
           \/ shm.seg[1] # Blank /\ msq'.msgs = Append(msq.msgs, shm.seg[1])
        /\ msq.msgs \in Seq(Content)
    BY <1>3, <2>1, <2>2, SentOne DEF Domains, MsqObjects
  <2>4. Domains'
    BY <1>1, <1>3, <2>1, <2>3 DEF Domains, PPCs
  <2>5. Semaphore' /\ Segment' /\ Queue'
    BY <1>1, <1>3, <2>1, <2>2, <2>3 DEF Semaphore, Segment, Queue, PStarting
  <2>6. Unit'
    BY <1>1, <1>3, <2>1 DEF Unit, GHolds, PHolds
  <2>7. Passing'
    <3>1. SUFFICES ASSUME ~broken, kills = 0, ordered
                   PROVE  \A i \in 1..Len(msq'.msgs) : msq'.msgs[i].id # 0
      BY <1>1, <1>3, <2>1 DEF Passing, PLoop
    <3>2. \A i \in 1..Len(msq.msgs) : msq.msgs[i].id # 0
      BY <1>3, <3>1 DEF Passing
    <3>3. shm.seg[1].id # 0
      BY <1>3, <2>1, <3>1 DEF Counting, Started
    <3>4. CASE msq'.msgs = msq.msgs
      BY <3>2, <3>4
    <3>5. CASE msq'.msgs = Append(msq.msgs, shm.seg[1])
      BY <2>2, <2>3, <3>2, <3>3, <3>5, AppendProperties, LenProperties
    <3> QED
      BY <2>3, <3>4, <3>5
  <2>8. Stream'
    BY <1>1, <1>3, <2>1, <2>2, StreamGoesOn
  <2>9. Started'
    BY <1>1, <1>3, <2>1 DEF Started, PEnding
  <2> QED
    BY <2>4, <2>5, <2>6, <2>7, <2>8, <2>9
<1>16. CASE PRmSem
  <2>1. /\ ppc = "rmSem" /\ ppc' = "rmShm" /\ sem' = Rmid(sem, psem)
        /\ UNCHANGED <<shm, msq, psem, pshm, pmsq, pprev>>
    BY <1>16 DEF PRmSem
  <2>2. psem = 1 /\ sem.now = 1 /\ sem.made = 1
    BY <1>3, <2>1 DEF Domains, Semaphore, SemObjects
  <2>3. sem' \in SemObjects /\ sem'.now = 0 /\ sem'.made = 1
    BY <1>3, <2>1, <2>2 DEF Domains, SemObjects, Rmid
  <2>4. Domains'
    BY <1>1, <1>3, <2>1, <2>3 DEF Domains, PPCs
  <2>5. Semaphore' /\ Segment' /\ Queue'
    BY <1>1, <1>3, <2>1, <2>2, <2>3 DEF Semaphore, Segment, Queue, PStarting
  <2>6. Unit' /\ Passing' /\ Stream'
    BY <1>1, <1>3, <2>1, <2>3 DEF Unit, Passing, PLoop, Stream
  <2>7. Started'
    BY <1>1, <1>3, <2>1, <2>3 DEF Started, PEnding
  <2> QED
    BY <2>4, <2>5, <2>6, <2>7
<1>17. CASE PRmShm
  <2>1. /\ ppc = "rmShm" /\ ppc' = "done" /\ shm' = Rmid(shm, pshm)
        /\ UNCHANGED <<sem, msq, psem, pshm, pmsq, pprev>>
    BY <1>17 DEF PRmShm
  <2>2. pshm = 1 /\ shm.now = 1 /\ shm.made = 1
    BY <1>3, <2>1 DEF Domains, Segment, ShmObjects
  <2>3. shm' \in ShmObjects /\ shm'.now = 0 /\ shm'.made = 1
    BY <1>3, <2>1, <2>2 DEF Domains, ShmObjects, Rmid
  <2>4. Domains'
    BY <1>1, <1>3, <2>1, <2>3 DEF Domains, PPCs
  <2>5. Semaphore' /\ Segment' /\ Queue'
    BY <1>1, <1>3, <2>1, <2>2, <2>3 DEF Semaphore, Segment, Queue, PStarting
  <2>6. Unit' /\ Passing' /\ Stream'
    BY <1>1, <1>3, <1>4, <2>1 DEF Unit, GHolds, PHolds, Passing, PLoop, Stream
  <2>7. Started'
    BY <1>1, <1>3, <1>4, <2>1, <2>3 DEF Started, PEnding
  <2> QED
    BY <2>4, <2>5, <2>6, <2>7
<1> QED
  BY <1>2, <1>6, <1>7, <1>8, <1>9, <1>10, <1>11, <1>12, <1>13, <1>14, <1>15, <1>16, <1>17
  DEF PNext

(* Every statement of zapisovalec keeps the invariant.                     *)
LEMMA StepZapisovalec ==
  ASSUME PipeInv, Record
  PROVE  PipeInv'
<1>1. /\ UNCHANGED <<gvars, pvars, ordered, prompt, kills, leftover, broken>>
      /\ zpc = "off" /\ ordered => pmsq # 0
  BY DEF Record, ZMayStart
<1>2. ZNext
  BY DEF Record
<1>3. UNCHANGED <<sem, shm>>
  BY <1>2 DEF ZNext, ZMsgGet, ZRecv, ZRecvFails, ZEnd, ZSkip, ZWrite, ZRemove, ipc
<1>4. Domains /\ Semaphore /\ Segment /\ Queue /\ Unit /\ Whole /\ Passing
      /\ Counting /\ Stream /\ Started
  BY DEF PipeInv, Objects
<1> USE DEF ZGoto, gvars, pvars
<1>5. Semaphore' /\ Segment' /\ Unit' /\ Whole' /\ Counting'
  BY <1>1, <1>3, <1>4 DEF Semaphore, Segment, Unit, GHolds, PHolds, Whole, Counting
<1> SUFFICES Domains' /\ Queue' /\ Passing' /\ Stream' /\ Started'
  BY <1>5 DEF PipeInv, Objects
<1>6. CASE ZMsgGet
  <2>1. /\ zpc = "off" /\ zpc' = "recv" /\ zmsq' = msq.now
        /\ UNCHANGED <<msq, zbuf, zprev, file>>
    BY <1>6 DEF ZMsgGet, ipc
  <2>2. zmsq' = pmsq
    BY <1>4, <2>1 DEF Queue
  <2>3. Domains'
    BY <1>1, <1>3, <1>4, <2>1, <2>2 DEF Domains, ZPCs
  <2>4. Queue'
    BY <1>1, <1>4, <2>1, <2>2 DEF Domains, Queue, PStarting
  <2>5. Passing'
    BY <1>1, <1>4, <2>1 DEF Queue, Passing
  <2>6. Stream' /\ Started'
    BY <1>1, <1>3, <1>4, <2>1, <2>2 DEF Domains, Stream, Started
  <2> QED
    BY <2>3, <2>4, <2>5, <2>6
<1>7. CASE ZRecv
  <2>1. /\ zpc = "recv" /\ zpc' = "handle" /\ msq.msgs # <<>>
        /\ zbuf' = Head(msq.msgs) /\ msq' = [msq EXCEPT !.msgs = Tail(@)]
        /\ UNCHANGED <<zmsq, zprev, file>>
    BY <1>7 DEF ZRecv
  <2> DEFINE old == msq.msgs
             new == msq'.msgs
  <2>2. /\ old \in Seq(Content) /\ new = Tail(old) /\ msq' \in MsqObjects
        /\ msq'.now = msq.now /\ msq'.made = msq.made
    BY <1>4, <2>1, HeadTailProperties DEF Domains, MsqObjects
  <2>3. /\ Len(new) = Len(old) - 1 /\ Len(old) \in Nat /\ Len(old) > 0
        /\ \A i \in 1..Len(new) : new[i] = old[i + 1]
        /\ zbuf' = old[1] /\ zbuf' \in Content
    BY <2>1, <2>2, HeadTailProperties, LenProperties, EmptySeq
  <2>4. /\ zprev.id \in Nat /\ zbuf.id \in Nat
        /\ \A i \in 1..Len(old) : old[i].id \in Nat
    BY <1>4, <2>2, ElementOfSeq, Contents DEF Domains
  <2>5. pmsq # 0
    BY <1>4, <2>1 DEF Queue
  <2>6. Domains'
    BY <1>1, <1>3, <1>4, <2>1, <2>2, <2>3 DEF Domains, ZPCs
  <2>7. Queue'
    BY <1>1, <1>4, <2>1, <2>2, <2>5 DEF Queue, PStarting
  <2> HIDE DEF old, new
  <2>8. Passing'
    <3>1. SUFFICES ASSUME ~broken, kills = 0, ordered \/ ppc \in PLoop
                   PROVE  /\ \A i \in 1..Len(new) : new[i].id # 0
                          /\ zbuf'.id # 0
      BY <1>1, <1>4, <2>1 DEF Passing, new
    <3>2. \A i \in 1..Len(old) : old[i].id # 0
      BY <1>4, <3>1 DEF Passing, old
    <3>3. \A i \in 1..Len(new) : new[i] = old[i + 1] /\ i + 1 \in 1..Len(old)
      BY <2>3
    <3>4. zbuf' = old[1] /\ 1 \in 1..Len(old)
      BY <2>3
    <3> QED
      BY <3>2, <3>3, <3>4
  <2>9. Stream'
    <3>1. SUFFICES ASSUME kills = 0, leftover => ordered
                   PROVE  /\ zprev.id <= zbuf'.id /\ zbuf'.id <= shm.seg[1].id
                          /\ \A i \in 1..Len(new) :
                               zbuf'.id <= new[i].id /\ new[i].id <= shm.seg[1].id
                          /\ \A i, j \in 1..Len(new) : i < j => new[i].id <= new[j].id
      BY <1>1, <1>3, <1>4, <2>1, <2>5 DEF Stream, new
    <3>2. /\ zprev.id <= zbuf.id
          /\ \A i \in 1..Len(old) : zbuf.id <= old[i].id /\ old[i].id <= shm.seg[1].id
          /\ \A i, j \in 1..Len(old) : i < j => old[i].id <= old[j].id
      BY <1>4, <3>1 DEF Stream, old
    <3>3. 1 \in 1..Len(old) /\ \A i \in 1..Len(new) : i + 1 \in 1..Len(old) /\ 1 < i + 1
      BY <2>3
    <3>4. zprev.id <= zbuf'.id /\ zbuf'.id <= shm.seg[1].id
      BY <2>3, <2>4, <3>2, <3>3
    <3>5. \A i \in 1..Len(new) : zbuf'.id <= new[i].id /\ new[i].id <= shm.seg[1].id
      BY <2>3, <3>2, <3>3
    <3>6. \A i, j \in 1..Len(new) : i < j => new[i].id <= new[j].id
      BY <2>3, <3>2, <3>3
    <3> QED
      BY <3>4, <3>5, <3>6
  <2>10. Started'
    BY <1>1, <1>3, <1>4, <2>1 DEF Started
  <2> QED
    BY <2>6, <2>7, <2>8, <2>9, <2>10
<1>8. CASE ZRecvFails \/ ZEnd \/ ZSkip
  <2>1. /\ zpc \in {"recv", "handle"} /\ zpc' \in {"recv", "handle", "remove"}
        /\ zpc' = "handle" => zmsq = 0
        /\ UNCHANGED <<msq, zmsq, zbuf, zprev, file>>
    BY <1>8 DEF ZRecvFails, ZEnd, ZSkip, ipc
  <2>2. Domains'
    BY <1>1, <1>3, <1>4, <2>1 DEF Domains, ZPCs
  <2>3. Queue' /\ Passing'
    BY <1>1, <1>4, <2>1 DEF Queue, PStarting, Passing
  <2>4. Stream' /\ Started'
    BY <1>1, <1>3, <1>4, <2>1 DEF Stream, Started
  <2> QED
    BY <2>2, <2>3, <2>4
<1>9. CASE ZWrite
  <2>1. /\ zpc = "handle" /\ zpc' = "recv" /\ ~zbuf.nul /\ zbuf # zprev
        /\ file' = Append(file, zbuf.id) /\ zprev' = zbuf
        /\ UNCHANGED <<msq, zmsq, zbuf>>
    BY <1>9 DEF ZWrite, ipc
  <2>2. /\ file \in Seq(Nat) /\ zbuf \in Content /\ zprev \in Content
        /\ zbuf.id \in Nat /\ zprev.id \in Nat /\ zbuf.nul = FALSE
    BY <1>4, <2>1, Contents DEF Domains, Content
  <2>3. /\ Len(file) \in Nat /\ Len(file') = Len(file) + 1 /\ file' \in Seq(Nat)
        /\ \A i \in 1..Len(file) : file'[i] = file[i] /\ file[i] \in Nat
        /\ file'[Len(file) + 1] = zbuf.id
    BY <2>1, <2>2, AppendProperties, LenProperties, ElementOfSeq
  <2>4. Domains'
    BY <1>1, <1>3, <1>4, <2>1, <2>2, <2>3 DEF Domains, ZPCs
  <2>5. Queue' /\ Passing'
    <3>1. Queue'
      BY <1>1, <1>4, <2>1 DEF Queue, PStarting
    <3>2. \A i \in 1..Len(file') : i \in 1..Len(file) \/ i = Len(file) + 1
      BY <2>3
    <3>3. Passing'
      BY <1>1, <1>4, <2>1, <2>3, <3>2 DEF Passing
    <3> QED
      BY <3>1, <3>3
  <2>6. Stream'
    <3>1. SUFFICES ASSUME kills = 0, leftover => ordered
                   PROVE  /\ \A i, j \in 1..Len(file') : i < j => file'[i] < file'[j]
                          /\ zbuf = Text(file'[Len(file')])
      BY <1>1, <1>3, <1>4, <2>1, <2>2 DEF Stream
    <3>2. zbuf = Text(zbuf.id)
      <4>1. Text(zbuf.id) \in Content
        BY <2>2, Contents
      <4>2. Text(zbuf.id).id = zbuf.id /\ Text(zbuf.id).nul = FALSE
        BY DEF Text
      <4> QED
        BY <2>2, <4>1, <4>2, Contents
    <3>3. /\ \A i, j \in 1..Len(file) : i < j => file[i] < file[j]
          /\ file # <<>> => zprev = Text(file[Len(file)])
          /\ zprev.id <= zbuf.id
      BY <1>4, <3>1 DEF Stream
    <3>4. \A i \in 1..Len(file) : file[i] < zbuf.id
      <4>1. SUFFICES ASSUME NEW i \in 1..Len(file) PROVE file[i] < zbuf.id
        OBVIOUS
      <4>2. file # <<>>
        BY <4>1, EmptySeq
      <4>3. zprev = Text(file[Len(file)]) /\ zprev.id = file[Len(file)]
        BY <3>3, <4>2 DEF Text
      <4>4. zprev.id # zbuf.id
        BY <2>1, <3>2, <4>3
      <4>5. Len(file) \in 1..Len(file) /\ i <= Len(file)
        BY <2>3, <4>1
      <4>6. file[i] <= file[Len(file)]
        BY <2>3, <3>3, <4>1, <4>5
      <4> QED
        BY <2>2, <2>3, <3>3, <4>1, <4>3, <4>4, <4>5, <4>6
    <3>5. \A i \in 1..Len(file') : i \in 1..Len(file) \/ i = Len(file) + 1
      BY <2>3
    <3>6. \A i, j \in 1..Len(file') : i < j => file'[i] < file'[j]
      <4>1. SUFFICES ASSUME NEW i \in 1..Len(file'), NEW j \in 1..Len(file'), i < j
                     PROVE  file'[i] < file'[j]
        OBVIOUS
      <4>2. i \in 1..Len(file)
        BY <2>3, <4>1
      <4>3. CASE j \in 1..Len(file)
        BY <2>3, <3>3, <4>1, <4>2, <4>3
      <4>4. CASE j = Len(file) + 1
        BY <2>3, <3>4, <4>2, <4>4
      <4> QED
        BY <3>5, <4>3, <4>4
    <3> QED
      BY <2>3, <3>2, <3>6
  <2>7. Started'
    BY <1>1, <1>3, <1>4, <2>1 DEF Started
  <2> QED
    BY <2>4, <2>5, <2>6, <2>7
<1>10. CASE ZRemove
  <2>1. /\ zpc = "remove" /\ zpc' = "done"
        /\ msq' = (IF zmsq # 0 THEN [Rmid(msq, zmsq) EXCEPT !.msgs = <<>>] ELSE msq)
        /\ UNCHANGED <<zmsq, zbuf, zprev, file>>
    BY <1>10 DEF ZRemove
  <2>2. /\ msq' \in MsqObjects /\ msq'.made = msq.made
        /\ msq'.now = (IF zmsq # 0 THEN 0 ELSE msq.now)
        /\ msq'.msgs = (IF zmsq # 0 THEN <<>> ELSE msq.msgs)
    <3>1. CASE zmsq = 0
      BY <1>4, <2>1, <3>1 DEF Domains
    <3>2. CASE zmsq # 0
      <4>1. zmsq = 1 /\ msq.now = 1
        BY <1>4, <2>1, <3>2 DEF Domains, Queue
      <4>2. Rmid(msq, zmsq) = [msq EXCEPT !.now = 0]
        BY <4>1 DEF Rmid
      <4> QED
        <5>1. msq' = [[msq EXCEPT !.now = 0] EXCEPT !.msgs = <<>>]
          BY <2>1, <3>2, <4>2
        <5>2. <<>> \in Seq(Content) /\ msq \in MsqObjects
          BY <1>4, EmptySeq DEF Domains
        <5>3. msq' = [now |-> 0, made |-> msq.made, msgs |-> <<>>]
          BY <5>1, <5>2 DEF MsqObjects
        <5>4. msq.made \in {0, 1}
          BY <5>2 DEF MsqObjects
        <5> QED
          BY <3>2, <5>2, <5>3, <5>4 DEF MsqObjects
    <3> QED
      BY <3>1, <3>2
  <2>3. Domains'
    BY <1>1, <1>3, <1>4, <2>1, <2>2 DEF Domains, ZPCs
  <2>4. Queue' /\ Passing'
    BY <1>1, <1>4, <2>1, <2>2 DEF Domains, Queue, PStarting, Passing
  <2>5. Stream'
    BY <1>1, <1>3, <1>4, <2>1, <2>2 DEF Stream
  <2>6. Started'
    BY <1>1, <1>3, <1>4, <2>1 DEF Started
  <2> QED
    BY <2>3, <2>4, <2>5, <2>6
<1> QED
  BY <1>2, <1>6, <1>7, <1>8, <1>9, <1>10 DEF ZNext

(* A generator that is killed keeps what it took and forgets the rest; the *)
(* invariant says nothing more of a pipeline in which that has happened.   *)
LEMMA StepKill ==
  ASSUME PipeInv, Kill
  PROVE  PipeInv'
<1>1. /\ gpc' = "off" /\ gi' = 1 /\ gsem' = 0 /\ gshm' = 0 /\ kills' = kills + 1
      /\ UNCHANGED <<sem, shm, msq, pvars, zvars, ordered, leftover, broken>>
  BY DEF Kill, ipc
<1>2. Domains' /\ kills' # 0
  BY <1>1, GeneratorAssumption DEF PipeInv, Domains, GPCs, pvars, zvars
<1>3. Objects'
  BY <1>1 DEF PipeInv, Domains, Objects, Semaphore, Segment, Queue, PStarting,
     SemObjects, ShmObjects, pvars, zvars
<1>4. Unit' /\ Whole' /\ Passing' /\ Counting' /\ Stream' /\ Started'
  BY <1>1, <1>2, GeneratorAssumption
  DEF Unit, Whole, Passing, Counting, Stream, Started
<1> QED
  BY <1>2, <1>3, <1>4 DEF PipeInv

(* The invariant holds in every state.                                     *)
LEMMA PipeInvariant == Spec => []PipeInv
<1>1. ASSUME PipeInv, [Next]_vars
      PROVE  PipeInv'
  <2>1. CASE Tick \/ Terminated \/ UNCHANGED vars
    <3>1. UNCHANGED <<sem, shm, msq, gpc, gi, gsem, gshm, ppc, psem, pshm, pmsq, pprev,
                      zpc, zmsq, zbuf, zprev, file, ordered, kills, leftover, broken>>
      BY <2>1 DEF Tick, Terminated, vars, ipc, gvars, pvars, zvars
    <3> QED
      BY <1>1, <3>1
      DEF PipeInv, Domains, Objects, Semaphore, Segment, Queue, Unit, GHolds, PHolds,
          Whole, Passing, Counting, Stream, Started
  <2> QED
    BY <1>1, <2>1, StepGenerator, StepPosrednik, StepZapisovalec, StepKill DEF Next
<1> QED
  BY InitPipe, <1>1, PTL DEF Spec

-----------------------------------------------------------------------------
(* What follows for the pipeline *)

(* UnitConserved: one process at a time is between lock and unlock         *)
(* (generator.c:55-63, posrednik.c:66-87), unless one of the two SETVALs   *)
(* (generator.c:40, posrednik.c:51) ran while the other program was there. *)
THEOREM OneUnit == Spec => []UnitConserved
<1>1. PipeInv => UnitConserved
  BY DEF PipeInv, Domains, Objects, Semaphore, Unit, UnitConserved, SemLive
<1> QED
  BY PipeInvariant, <1>1, PTL

(* OnlyWholeTexts: as long as no SETVAL broke the semaphore and no         *)
(* generator was killed, what posrednik shows is never half printed        *)
(* (posrednik.c:84-86); nor is what it sends inside its loop, and what     *)
(* zapisovalec has written by then (zapisovalec.c:55); and programs        *)
(* started in order send and write whole texts even after the loop         *)
(* (posrednik.c:79, 95).                                                   *)
THEOREM WholeTexts == Spec => []OnlyWholeTexts
<1>1. PipeInv => OnlyWholeTexts
  BY DEF PipeInv, Passing, OnlyWholeTexts
<1> QED
  BY <1>1, PipeInvariant, PTL

(* FileInOrder: zapisovalec writes each text at most once and the texts in *)
(* their order, however often each is forwarded (zapisovalec.c:43-47).     *)
THEOREM TextsInOrder == Spec => []FileInOrder
<1>1. PipeInv => FileInOrder
  BY DEF PipeInv, Stream, FileInOrder
<1> QED
  BY PipeInvariant, <1>1, PTL

(* CleanEnd: started in order, generator never finds its semaphore         *)
(* removed, and nothing of the kernel's objects is left at the end         *)
(* (posrednik.c:97-104, zapisovalec.c:52).                                 *)
THEOREM NothingLeftBehind == Spec => []CleanEnd
<1>1. PipeInv => CleanEnd
  BY DEF PipeInv, Domains, Objects, Semaphore, Segment, Queue, Started, CleanEnd,
     SemObjects, ShmObjects
<1> QED
  BY PipeInvariant, <1>1, PTL
-----------------------------------------------------------------------------
(* Texts in time: what holds besides when the programs are started in      *)
(* order on a prompt machine and none is killed                            *)

Timed == ordered /\ prompt /\ kills = 0

(* generator has printed all its numbers but the next.                     *)
Printed ==
  /\ gnap \in 0..GSleep /\ pnap \in 0..PSleep
  /\ pnap > 0 => ppc = "lock"
  /\ ~broken
  /\ gi > 1 \/ gpc = "unlock" =>
       shm.seg[1].id = IF gpc = "unlock" THEN gi ELSE gi - 1
  /\ gpc \in {"cut", "done"} <=> gi > Messages

(* The text posrednik has forwarded last is the one in the segment, or the *)
(* one before it; then there is time to forward the new one before         *)
(* generator comes back to the semaphore.                                  *)
LastId == IF msq.msgs = <<>> THEN zbuf.id ELSE msq.msgs[Len(msq.msgs)].id

Forwarded ==
  /\ ppc \in PStarting =>
       \/ gi = 1
       \/ gi = 2 /\ (Messages = 1 \/ (gpc = "lock" /\ gnap = GSleep))
  /\ ppc \notin PStarting =>
       \/ LastId = gi - 1
       \/ LastId = gi - 2 /\ gi > Messages
       \/ /\ LastId = gi - 2 /\ gpc = "lock"
          /\ \/ ppc = "lock" /\ pnap < gnap
             \/ ppc \in {"check", "show", "send"}

(* No number is missing between the file and what was forwarded last.      *)
Before(i) == IF i = 1 THEN zbuf.id ELSE msq.msgs[i - 1].id

Contiguous ==
  /\ Len(file) = zprev.id /\ \A i \in 1..Len(file) : file[i] = i
  /\ zbuf.id <= zprev.id + 1
  /\ zpc \in {"off", "recv"} => zbuf.id = zprev.id
  /\ \A i \in 1..Len(msq.msgs) :
       /\ 0 < msq.msgs[i].id /\ msq.msgs[i].id <= Before(i) + 1
       /\ msq.msgs[i].nul = TRUE => msq.msgs[i].id = Messages
  /\ zpc = "handle" => zbuf.id > 0
  /\ zpc = "handle" /\ zbuf.nul = TRUE => zbuf.id = Messages
  /\ zpc \in {"remove", "done"} => zbuf.id = Messages

InTime == Printed /\ Forwarded /\ Contiguous

(* What the invariants say of the objects then: each program works on the  *)
(* first of its kind, and the semaphore's unit is with one of them.        *)
LEMMA TimedFacts ==
  ASSUME PipeInv, Timed, InTime
  PROVE  /\ gi \in Nat /\ gi > 0 /\ gi <= Messages + 1
         /\ gpc # "off" => gsem = 1 /\ sem.val[1] \in Nat
         /\ gpc \notin {"off", "setval", "shmget"} => gshm = 1
         /\ ppc # "off" => psem = 1 /\ gi > 1
         /\ ppc \notin PStarting => pshm = 1 /\ pmsq = 1
         /\ zpc # "off" => zmsq = 1 /\ ppc \notin PStarting
         /\ zbuf.id \in Nat /\ LastId \in Nat /\ zbuf.id <= LastId
         /\ LastId <= shm.seg[1].id /\ shm.seg[1] \in Content
         /\ gi <= Messages => zbuf.id # Messages
         /\ ~(GHolds /\ PHolds)
         /\ gpc = "lock" /\ ppc = "lock" => SemLive(1) /\ sem.val[1] = 1
         /\ gpc = "lock" /\ PHolds => sem.val[1] = 0
<1> USE GeneratorAssumption
<1>1. Domains /\ Semaphore /\ Segment /\ Queue /\ Unit /\ Counting /\ Stream /\ Started
      /\ kills = 0 /\ ordered /\ ~broken
  BY DEF PipeInv, Objects, Timed, InTime, Printed
<1>2. gi \in Nat /\ gi > 0 /\ gi <= Messages + 1
  BY <1>1 DEF Domains
<1>3. /\ gpc # "off" => gsem = 1 /\ sem.val[1] \in Nat
      /\ gpc \notin {"off", "setval", "shmget"} => gshm = 1
      /\ ppc # "off" => psem = 1 /\ gi > 1
      /\ ppc \notin PStarting => pshm = 1 /\ pmsq = 1
      /\ zpc # "off" => zmsq = 1 /\ ppc \notin PStarting
  BY <1>1 DEF Domains, Semaphore, Segment, Queue, Started, SemObjects, ShmObjects, Ids,
     PStarting
<1>4. /\ zbuf.id \in Nat /\ LastId \in Nat /\ zbuf.id <= LastId
      /\ LastId <= shm.seg[1].id /\ shm.seg[1] \in Content
  <2>1. zbuf \in Content /\ shm.seg[1] \in Content /\ msq.msgs \in Seq(Content)
    BY <1>1 DEF Domains, ShmObjects, MsqObjects, Ids
  <2>2. msq.msgs # <<>> => Len(msq.msgs) \in 1..Len(msq.msgs)
                           /\ msq.msgs[Len(msq.msgs)] \in Content
    BY <2>1, EmptySeq, LenProperties, ElementOfSeq
  <2>3. zbuf.id \in Nat /\ shm.seg[1].id \in Nat /\ zbuf.id <= shm.seg[1].id
    BY <1>1, <2>1, Contents DEF Stream
  <2>4. CASE msq.msgs = <<>>
    BY <2>1, <2>3, <2>4 DEF LastId
  <2>5. CASE msq.msgs # <<>>
    <3>1. PICK n \in 1..Len(msq.msgs) : n = Len(msq.msgs) /\ msq.msgs[n] \in Content
      BY <2>2, <2>5
    <3>2. LastId = msq.msgs[n].id
      BY <2>5, <3>1 DEF LastId
    <3>3. zbuf.id <= msq.msgs[n].id /\ msq.msgs[n].id <= shm.seg[1].id
      BY <1>1, <3>1 DEF Stream
    <3> QED
      BY <2>1, <2>3, <3>1, <3>2, <3>3, Contents
  <2> QED
    BY <2>4, <2>5
<1>5. gi <= Messages => zbuf.id # Messages
  <2>1. CASE ppc \in PStarting
    BY <1>1, <2>1 DEF Queue, Stream
  <2>2. CASE ppc \notin PStarting
    BY <1>2, <1>4, <2>2 DEF InTime, Forwarded
  <2> QED
    BY <2>1, <2>2
<1>6. PHolds \/ ppc = "lock" => sem.now = 1
  BY <1>1 DEF Domains, Semaphore, SemObjects, PHolds
<1>7. /\ ~(GHolds /\ PHolds)
      /\ gpc = "lock" /\ ppc = "lock" => SemLive(1) /\ sem.val[1] = 1
      /\ gpc = "lock" /\ PHolds => sem.val[1] = 0
  BY <1>1, <1>3, <1>6 DEF Unit, GHolds, PHolds, SemLive
<1> QED
  BY <1>2, <1>3, <1>4, <1>5, <1>7

(* generator's statements keep it.  Its second sleep (generator.c:64) is   *)
(* why it meets the semaphore only after posrednik has.                    *)
LEMMA TimedGenerator ==
  ASSUME PSleep < GSleep, PipeInv, PipeInv', Timed, InTime, Generate
  PROVE  InTime'
<1> USE GeneratorAssumption, PosrednikAssumption DEF GGoto
<1>1. /\ UNCHANGED <<msq, ppc, pnap, zpc, zbuf, zprev, file, kills, ordered>> /\ GNext
      /\ broken' = (broken \/ (gpc = "setval" /\ PHolds /\ psem = gsem))
  BY DEF Generate, pvars, zvars, GNext, GSemGet, GSetVal, GShmGet, GLock, GPrintPart, GPrint,
     GUnlock, GFail, GCut, ipc
<1>2. Printed /\ Forwarded /\ Contiguous /\ Counting /\ Started /\ Started'
      /\ kills = 0 /\ ordered /\ ~broken
      /\ gnap \in 0..GSleep /\ pnap \in 0..PSleep /\ LastId \in Nat
      /\ gi \in Nat /\ gi > 0 /\ gi <= Messages + 1
  BY TimedFacts DEF PipeInv, Timed, InTime, Printed
<1>3. ~broken' /\ Contiguous' /\ LastId' = LastId
  <2>1. gpc = "setval" => ~PHolds
    BY <1>2 DEF Counting, Started, PHolds
  <2> QED
    BY <1>1, <1>2, <2>1 DEF Contiguous, Before, LastId
<1> SUFFICES Printed' /\ Forwarded'
  BY <1>3 DEF InTime
<1>4. CASE GSemGet \/ GSetVal \/ GShmGet
  <2>1. /\ gpc \in {"off", "setval", "shmget"} /\ gpc' \in {"setval", "shmget", "lock"}
        /\ gi' = gi /\ gnap' \in 0..GSleep
    BY <1>2, <1>4 DEF GSemGet, GSetVal, GShmGet
  <2>2. gi = 1 /\ ppc = "off"
    BY <1>2, <2>1 DEF Counting, Started
  <2> QED
    BY <1>1, <1>2, <1>3, <2>1, <2>2 DEF Printed, Forwarded, PStarting
<1>5. CASE GLock
  <2>1. /\ gpc = "lock" /\ gpc' = "print" /\ gnap = 0 /\ UNCHANGED <<shm, gi, gnap>>
        /\ sem.val[gsem] > 0
    BY <1>5 DEF GLock, Down
  <2>2. ~PHolds
    BY <2>1, TimedFacts
  <2>3. LastId # gi - 2 \/ gi > Messages \/ ppc \in PStarting
    BY <1>2, <2>1, <2>2 DEF Forwarded, PHolds
  <2> QED
    BY <1>1, <1>2, <1>3, <2>1, <2>3 DEF Printed, Forwarded
<1>6. CASE GPrintPart
  <2>1. /\ gpc = "print" /\ gpc' = "printing" /\ Store(gshm, Text(shm.seg[gshm].id))
        /\ UNCHANGED <<gi, gnap>>
    BY <1>6 DEF GPrintPart
  <2>2. shm'.seg[1].id = shm.seg[1].id
    <3>1. gshm = 1 /\ shm \in ShmObjects
      BY <2>1, TimedFacts DEF PipeInv, Domains
    <3> QED
      BY <2>1, <3>1 DEF Store, ShmObjects, Text, Ids
  <2> QED
    BY <1>1, <1>2, <1>3, <2>1, <2>2 DEF Printed, Forwarded
<1>7. CASE GPrint
  <2>1. /\ gpc = "printing" /\ gpc' = "unlock" /\ Store(gshm, Text(gi))
        /\ gi' = gi /\ gnap' = GSleep
    BY <1>7 DEF GPrint
  <2>2. shm'.seg[1].id = gi
    <3>1. gshm = 1 /\ shm \in ShmObjects
      BY <2>1, TimedFacts DEF PipeInv, Domains
    <3> QED
      BY <2>1, <3>1 DEF Store, ShmObjects, Text, Ids
  <2> QED
    BY <1>1, <1>2, <1>3, <2>1, <2>2 DEF Printed, Forwarded
<1>8. CASE GUnlock
  <2>1. /\ gpc = "unlock" /\ gpc' = (IF gi < Messages THEN "lock" ELSE "cut")
        /\ gi' = gi + 1 /\ gnap' = (IF gi < Messages THEN GSleep ELSE 0)
        /\ UNCHANGED shm
    BY <1>8 DEF GUnlock
  <2>2. gi <= Messages /\ ~PHolds
    BY <1>2, <2>1, TimedFacts DEF Counting, GHolds
  <2>3. Printed'
    BY <1>1, <1>2, <1>3, <2>1, <2>2 DEF Printed
  <2>4. ppc \in PStarting \/ ppc = "lock"
    <3>1. ppc \notin PEnding
      BY <1>2, <2>1 DEF Started
    <3>2. ppc \in PPCs
      BY DEF PipeInv, Domains
    <3> QED
      BY <2>2, <3>1, <3>2 DEF PStarting, PEnding, PPCs, PHolds
  <2>5. CASE ppc \in PStarting
    <3>1. gi = 1
      BY <1>2, <2>1, <2>2, <2>5 DEF Forwarded
    <3> QED
      BY <1>1, <1>2, <2>1, <2>3, <2>5, <3>1 DEF Forwarded
  <2>6. CASE ppc = "lock"
    <3>1. LastId = gi - 1
      BY <1>2, <2>1, <2>2, <2>6 DEF Forwarded, PStarting
    <3>2. LastId' = gi' - 2
      BY <1>2, <1>3, <2>1, <3>1
    <3>3. gi' > Messages \/ (gpc' = "lock" /\ pnap' < gnap')
      BY <1>1, <1>2, <2>1
    <3> QED
      BY <1>1, <2>3, <2>6, <3>2, <3>3 DEF Forwarded, PStarting
  <2> QED
    BY <2>4, <2>5, <2>6
<1>9. CASE GFail
  <2>1. gpc' = "failed"
    BY <1>9 DEF GFail
  <2> QED
    BY <1>1, <1>2, <2>1 DEF Started
<1>10. CASE GCut
  <2>1. /\ gpc = "cut" /\ gpc' = "done" /\ Store(gshm, Cut(shm.seg[gshm]))
        /\ UNCHANGED <<gi, gnap>>
    BY <1>10 DEF GCut
  <2>2. shm'.seg[1].id = shm.seg[1].id
    <3>1. gshm = 1 /\ shm \in ShmObjects /\ shm.seg[1] \in Content
      BY <2>1, TimedFacts DEF PipeInv, Domains
    <3>2. shm'.seg[1] = Cut(shm.seg[1])
      BY <2>1, <3>1 DEF Store, ShmObjects, Ids
    <3> QED
      BY <3>1, <3>2, Contents
  <2> QED
    BY <1>1, <1>2, <1>3, <2>1, <2>2 DEF Printed, Forwarded
<1> QED
  BY <1>1, <1>4, <1>5, <1>6, <1>7, <1>8, <1>9, <1>10 DEF GNext

(* What is sent follows what was sent last.                                *)
LEMMA SentNext ==
  ASSUME PipeInv, Contiguous, LastId \in Nat,
         NEW c \in Content, 0 < c.id, c.id <= LastId + 1, c.nul = TRUE => c.id = Messages,
         msq' = Sent(1, c), msq.now = 1, UNCHANGED zvars
  PROVE  Contiguous' /\ LastId' = c.id
<1> DEFINE old == msq.msgs
           new == msq'.msgs
           k   == Len(old)
<1>1. old \in Seq(Content) /\ msq \in MsqObjects
  BY DEF PipeInv, Domains, MsqObjects
<1>2. c # Blank
  BY DEF Blank
<1>3. new = Append(old, c)
  BY <1>1, <1>2 DEF Sent, Sendable, MsqObjects
<1>4. /\ k \in Nat /\ Len(new) = k + 1 /\ new[k + 1] = c /\ new # <<>>
      /\ \A i \in 1..k : new[i] = old[i]
  BY <1>1, <1>3, AppendProperties, LenProperties, EmptySeq
<1>5. LastId' = c.id
  BY <1>4 DEF LastId
<1>6. LastId = IF k = 0 THEN zbuf.id ELSE old[k].id
  BY <1>1, EmptySeq, LenProperties DEF LastId
<1>7. \A i \in 1..Len(new) : /\ 0 < new[i].id /\ new[i].id <= Before(i)' + 1
                             /\ new[i].nul = TRUE => new[i].id = Messages
  <2>1. SUFFICES ASSUME NEW i \in 1..Len(new)
                 PROVE  /\ 0 < new[i].id
                        /\ new[i].id <= (IF i = 1 THEN zbuf.id ELSE new[i - 1].id) + 1
                        /\ new[i].nul = TRUE => new[i].id = Messages
    BY DEF Before, zvars
  <2>2. CASE i \in 1..k
    <3>1. /\ 0 < old[i].id /\ old[i].id <= Before(i) + 1
          /\ old[i].nul = TRUE => old[i].id = Messages
      BY <2>2 DEF Contiguous
    <3>2. i # 1 => i - 1 \in 1..k
      BY <1>4, <2>2
    <3> QED
      BY <1>4, <2>2, <3>1, <3>2 DEF Before
  <2>3. CASE i = k + 1
    BY <1>4, <1>6, <2>3
  <2>4. i \in 1..k \/ i = k + 1
    BY <1>4, <2>1
  <2> QED
    BY <2>2, <2>3, <2>4
<1> QED
  BY <1>5, <1>7 DEF Contiguous, zvars

(* posrednik's statements keep it: it forwards the text it finds within    *)
(* one hold of the semaphore, and sleeps only after it (posrednik.c:66-89).*)
LEMMA TimedForward ==
  ASSUME PSleep < GSleep, PipeInv, PipeInv', Timed, InTime, Forward
  PROVE  InTime'
<1> USE GeneratorAssumption, PosrednikAssumption DEF PGoto
<1>1. /\ UNCHANGED <<gpc, gi, gnap, zpc, zmsq, zbuf, zprev, file, kills, ordered>> /\ PNext
      /\ broken' = (broken \/ (ppc = "setval" /\ GHolds /\ gsem = psem))
      /\ ppc = "off" => gi > 1
  BY DEF Forward, PMayStart, Timed, gvars, zvars
<1>2. Printed /\ Forwarded /\ Contiguous /\ Started /\ Started' /\ Queue /\ Queue'
      /\ kills = 0 /\ ordered /\ ~broken
      /\ gnap \in 0..GSleep /\ pnap \in 0..PSleep /\ LastId \in Nat
      /\ gi \in Nat /\ gi > 0 /\ gi <= Messages + 1
      /\ zbuf.id \in Nat /\ zbuf.id <= LastId
      /\ (ppc \notin PStarting => pshm = 1 /\ pmsq = 1) /\ shm.seg[1] \in Content
      /\ (gi <= Messages => zbuf.id # Messages)
  BY TimedFacts DEF PipeInv, Objects, Timed, InTime, Printed
<1>3. ~broken'
  <2>1. ppc = "setval" => ~GHolds
    <3>1. SUFFICES ASSUME ppc = "setval" PROVE ~GHolds
      OBVIOUS
    <3>2. gi = 2 /\ (Messages = 1 \/ gpc = "lock")
      BY <1>2, <3>1 DEF Started, Forwarded, PStarting
    <3>3. gpc \in {"cut", "done", "lock"}
      BY <1>2, <3>2 DEF Printed
    <3> QED
      BY <3>3 DEF GHolds
  <2> QED
    BY <1>1, <1>2, <2>1
<1>4. shm'.seg = shm.seg
  BY <1>1
  DEF PipeInv, Domains, PNext, PSemGet, PSetVal, PShmGet, PMsgGet, PLock, PCheck, PShow, PSend,
      PUnlock, PUnlockEnd, PSendEnd, PRmSem, PRmShm, ipc, ShmObjects, Get, Rmid
<1>5. Printed'
  <2>1. pnap' \in 0..PSleep /\ (pnap' > 0 => ppc' = "lock")
    BY <1>1, <1>2
    DEF PNext, PSemGet, PSetVal, PShmGet, PMsgGet, PLock, PCheck, PShow, PSend, PUnlock,
        PUnlockEnd, PSendEnd, PRmSem, PRmShm
  <2> QED
    BY <1>1, <1>2, <1>3, <1>4, <2>1 DEF Printed
<1> SUFFICES Forwarded' /\ Contiguous'
  BY <1>5 DEF InTime
<1>6. msq'.msgs = msq.msgs => Contiguous' /\ LastId' = LastId
  BY <1>1, <1>2 DEF Contiguous, Before, LastId
<1>7. CASE PSemGet \/ PSetVal \/ PShmGet
  <2>1. msq' = msq /\ ppc \in PStarting /\ ppc' \in PStarting
    BY <1>7 DEF PSemGet, PSetVal, PShmGet, PStarting
  <2> QED
    BY <1>1, <1>2, <1>6, <2>1 DEF Forwarded
<1>8. CASE PMsgGet
  <2>1. ppc = "msgget" /\ ppc' = "lock" /\ pnap = 0 /\ pnap' = 0 /\ msq' = Get(msq)
    BY <1>8 DEF PMsgGet
  <2>2. gi = 2 /\ (Messages = 1 \/ (gpc = "lock" /\ gnap = GSleep))
    BY <1>2, <2>1 DEF Started, Forwarded, PStarting
  <2>3. msq.msgs = <<>> /\ zbuf.id = 0
    BY <1>2, <2>1 DEF PipeInv, Queue, Stream, PStarting
  <2>4. msq'.msgs = msq.msgs
    BY <2>1 DEF PipeInv, Domains, MsqObjects, Get
  <2>5. LastId' = 0
    BY <1>6, <2>3, <2>4 DEF LastId
  <2> QED
    BY <1>1, <1>2, <1>6, <2>1, <2>2, <2>4, <2>5 DEF Forwarded, PStarting
<1>9. CASE PLock \/ PShow
  <2>1. /\ msq' = msq /\ pnap' = pnap
        /\ \/ ppc = "lock" /\ ppc' = "check"
           \/ ppc = "show" /\ ppc' = "send"
    BY <1>9 DEF PLock, PShow, ipc
  <2> QED
    BY <1>1, <1>2, <1>6, <2>1 DEF Forwarded, PStarting
<1>10. CASE PCheck
  <2>1. /\ ppc = "check" /\ ppc' = (IF Seen.nul THEN "unlockEnd" ELSE "show")
        /\ msq' = msq
    BY <1>10 DEF PCheck, ipc
  <2>2. Seen = shm.seg[1]
    BY <1>2, <2>1 DEF Seen, PStarting
  <2>3. ~Seen.nul \/ gi > Messages
    BY <1>2, <2>1, <2>2 DEF Started, Printed
  <2> QED
    BY <1>1, <1>2, <1>6, <2>1, <2>3 DEF Forwarded, PStarting
<1>11. CASE PSend \/ PSendEnd
  <2>1. /\ ppc \in {"send", "sendEnd", "sendAgain"}
        /\ ppc' \in {"unlock", "sendAgain", "rmSem"} /\ msq' = Sent(pmsq, Seen)
    BY <1>11 DEF PSend, PSendEnd
  <2>2. pshm = 1 /\ pmsq = 1 /\ Seen = shm.seg[1] /\ gi > 1
    BY <1>2, <2>1 DEF Seen, PStarting, Started
  <2>3. ~GHolds
    <3>1. ppc = "send" => PHolds
      BY DEF PHolds
    <3>2. ppc # "send" => gpc = "done"
      BY <1>2, <2>1 DEF Started, PEnding
    <3> QED
      BY <3>1, <3>2, TimedFacts DEF GHolds
  <2>4. Seen.id = gi - 1
    BY <1>2, <2>2, <2>3 DEF Printed, GHolds
  <2>5. Seen.nul = TRUE => Seen.id = Messages
    BY <1>2, <2>2, <2>4 DEF Started, Printed
  <2>6. Seen.id <= LastId + 1 /\ 0 < Seen.id
    BY <1>2, <2>1, <2>2, <2>4 DEF Forwarded, PStarting
  <2>7. CASE msq.now = 1
    <3>1. Contiguous' /\ LastId' = gi - 1
      <4>1. msq' = Sent(1, Seen) /\ Seen \in Content
        BY <1>2, <2>1, <2>2
      <4>2. UNCHANGED zvars
        BY DEF Forward
      <4>3. Contiguous' /\ LastId' = Seen.id
        BY <1>2, <2>5, <2>6, <2>7, <4>1, <4>2, SentNext
      <4> QED
        BY <2>4, <4>3
    <3> QED
      BY <1>1, <2>1, <3>1 DEF Forwarded, PStarting
  <2>8. CASE msq.now # 1
    <3>1. zpc = "done"
      BY <1>2, <2>2, <2>8 DEF Queue
    <3>2. gi > Messages
      BY <1>2, <3>1 DEF Contiguous
    <3>3. msq' = msq
      BY <2>1, <2>2, <2>8 DEF Sent, Sendable
    <3> QED
      BY <1>1, <1>2, <1>6, <2>1, <3>2, <3>3 DEF Forwarded, PStarting
  <2> QED
    BY <2>7, <2>8
<1>12. CASE PUnlock \/ PUnlockEnd \/ PRmSem \/ PRmShm
  <2>1. /\ msq' = msq /\ ppc \in {"unlock", "unlockEnd", "rmSem", "rmShm"}
        /\ ppc' \notin PStarting
    BY <1>12 DEF PUnlock, PUnlockEnd, PRmSem, PRmShm, PStarting
  <2> QED
    BY <1>1, <1>2, <1>6, <2>1 DEF Forwarded, PStarting
<1> QED
  BY <1>1, <1>7, <1>8, <1>9, <1>10, <1>11, <1>12 DEF PNext

(* zapisovalec's statements keep it.                                       *)
LEMMA TimedRecord ==
  ASSUME PipeInv, PipeInv', Timed, InTime, Record
  PROVE  InTime'
<1> USE GeneratorAssumption DEF ZGoto
<1>1. /\ UNCHANGED <<sem, shm, gpc, gi, gnap, ppc, pnap, kills, ordered, broken>> /\ ZNext
  BY DEF Record, gvars, pvars, ZNext, ZMsgGet, ZRecv, ZRecvFails, ZEnd, ZSkip, ZWrite, ZRemove,
     ipc
<1>2. Printed /\ Forwarded /\ Contiguous
      /\ LastId \in Nat /\ zbuf.id \in Nat /\ zbuf.id <= LastId
      /\ (zpc # "off" => zmsq = 1 /\ ppc \notin PStarting)
      /\ gi \in Nat /\ gi > 0 /\ gi <= Messages + 1
      /\ (gi <= Messages => zbuf.id # Messages)
      /\ zprev \in Content /\ zprev.id \in Nat /\ zbuf \in Content /\ file \in Seq(Nat)
  <2>1. zprev \in Content /\ zbuf \in Content /\ file \in Seq(Nat)
    BY DEF PipeInv, Domains
  <2> QED
    BY <2>1, TimedFacts, Contents DEF InTime
<1>3. Printed' /\ (LastId' = LastId => Forwarded')
  BY <1>1, <1>2 DEF Printed, Forwarded
<1> SUFFICES LastId' = LastId /\ Contiguous'
  BY <1>3 DEF InTime
<1>4. CASE ZMsgGet
  <2>1. /\ zpc = "off" /\ zpc' = "recv" /\ UNCHANGED <<msq, zbuf, zprev, file>>
    BY <1>4 DEF ZMsgGet, ipc
  <2> QED
    BY <1>2, <2>1 DEF Contiguous, Before, LastId
<1>5. CASE ZRecv
  <2> DEFINE old == msq.msgs
             new == msq'.msgs
  <2>1. /\ zpc = "recv" /\ zpc' = "handle" /\ old # <<>>
        /\ zbuf' = Head(old) /\ msq' = [msq EXCEPT !.msgs = Tail(@)]
        /\ UNCHANGED <<zprev, file>>
    BY <1>5 DEF ZRecv
  <2>2. old \in Seq(Content) /\ new = Tail(old) /\ new \in Seq(Content)
    BY <2>1, HeadTailProperties DEF PipeInv, Domains, MsqObjects
  <2>3. /\ Len(new) = Len(old) - 1 /\ Len(old) \in Nat /\ Len(old) > 0
        /\ \A i \in 1..Len(new) : new[i] = old[i + 1]
        /\ zbuf' = old[1]
    BY <2>1, <2>2, HeadTailProperties, LenProperties, EmptySeq
  <2>4. new = <<>> <=> Len(old) = 1
    <3>1. new = <<>> <=> Len(new) = 0
      BY <2>2, EmptySeq
    <3> QED
      BY <2>3, <3>1
  <2>5. LastId = old[Len(old)].id
    BY <2>1 DEF LastId
  <2>6. LastId' = IF Len(old) = 1 THEN old[1].id ELSE new[Len(new)].id
    BY <2>3, <2>4 DEF LastId
  <2>7. LastId' = LastId
    <3>1. CASE Len(old) = 1
      BY <2>5, <2>6, <3>1
    <3>2. CASE Len(old) # 1
      <4>1. Len(new) \in 1..Len(new) /\ Len(new) + 1 = Len(old)
        <5>1. Len(new) = Len(old) - 1 /\ Len(old) \in Nat /\ Len(old) > 0
          BY <2>3
        <5> HIDE DEF old, new
        <5> QED
          BY <3>2, <5>1
      <4>2. new[Len(new)] = old[Len(old)]
        BY <2>3, <4>1
      <4> QED
        BY <2>5, <2>6, <3>2, <4>2
    <3> QED
      BY <3>1, <3>2
  <2>8. \A i \in 1..Len(new) : new[i].id <= Before(i)' + 1
    <3>1. SUFFICES ASSUME NEW i \in 1..Len(new)
                   PROVE  new[i].id <= (IF i = 1 THEN zbuf'.id ELSE new[i - 1].id) + 1
      BY DEF Before
    <3>2. i + 1 \in 1..Len(old) /\ i + 1 # 1 /\ (i + 1) - 1 = i
      BY <2>3, <3>1
    <3>3. new[i].id <= old[i].id + 1
      BY <1>2, <2>3, <3>1, <3>2 DEF Contiguous, Before
    <3>4. i # 1 => i - 1 \in 1..Len(new) /\ new[i - 1] = old[i]
      BY <2>3, <3>1
    <3> QED
      BY <2>3, <3>3, <3>4
  <2>9. /\ 0 < zbuf'.id /\ zbuf'.id <= zprev.id + 1
        /\ zbuf'.nul = TRUE => zbuf'.id = Messages
    <3>1. 1 \in 1..Len(old)
      BY <2>3
    <3>2. zbuf.id = zprev.id
      BY <1>2, <2>1 DEF Contiguous
    <3> QED
      BY <1>2, <2>3, <3>1, <3>2 DEF Contiguous, Before
  <2>10. \A i \in 1..Len(new) : 0 < new[i].id /\ (new[i].nul = TRUE => new[i].id = Messages)
    <3>1. SUFFICES ASSUME NEW i \in 1..Len(new)
                   PROVE  0 < new[i].id /\ (new[i].nul = TRUE => new[i].id = Messages)
      OBVIOUS
    <3>2. i + 1 \in 1..Len(old) /\ new[i] = old[i + 1]
      BY <2>3, <3>1
    <3> QED
      BY <1>2, <3>2 DEF Contiguous
  <2> HIDE DEF old, new
  <2>11. Contiguous'
    BY <1>2, <2>1, <2>8, <2>9, <2>10 DEF Contiguous, new
  <2> QED
    BY <2>7, <2>11
<1>6. CASE ZRecvFails
  BY <1>2, <1>6 DEF ZRecvFails
<1>7. CASE ZEnd
  <2>1. /\ zpc = "handle" /\ zpc' = "remove" /\ zbuf.nul = TRUE
        /\ UNCHANGED <<msq, zbuf, zprev, file>>
    BY <1>2, <1>7 DEF ZEnd, ipc, Content
  <2> QED
    BY <1>2, <2>1 DEF Contiguous, Before, LastId
<1>8. CASE ZSkip
  <2>1. /\ zpc = "handle" /\ zpc' = "recv" /\ zbuf = zprev
        /\ UNCHANGED <<msq, zbuf, zprev, file>>
    BY <1>8 DEF ZSkip, ipc
  <2> QED
    BY <1>2, <2>1 DEF Contiguous, Before, LastId
<1>9. CASE ZWrite
  <2>1. /\ zpc = "handle" /\ zpc' = "recv" /\ ~zbuf.nul /\ zbuf # zprev
        /\ file' = Append(file, zbuf.id) /\ zprev' = zbuf
        /\ UNCHANGED <<msq, zbuf>>
    BY <1>9 DEF ZWrite, ipc
  <2>2. LastId' = LastId
    BY <2>1 DEF LastId
  <2>3. zbuf.id = zprev.id + 1
    <3>1. /\ zprev.id <= zbuf.id /\ zbuf.id <= zprev.id + 1 /\ zbuf.id > 0
          /\ file # <<>> => zprev = Text(file[Len(file)])
          /\ Len(file) = zprev.id
      BY <1>2, <2>1 DEF PipeInv, Stream, Timed, Contiguous
    <3>2. zbuf.nul = FALSE
      BY <1>2, <2>1 DEF Content
    <3>3. zbuf.id # zprev.id
      <4>1. SUFFICES ASSUME zbuf.id = zprev.id PROVE FALSE
        OBVIOUS
      <4>2. file # <<>>
        BY <1>2, <3>1, <4>1, EmptySeq
      <4>3. zprev.nul = FALSE
        BY <3>1, <4>2 DEF Text
      <4>4. zbuf = zprev
        <5>1. zbuf \in Content /\ zprev \in Content /\ zbuf.nul = zprev.nul
          BY <1>2, <3>2, <4>3
        <5>2. \A c, d \in Content : c.id = d.id /\ c.nul = d.nul => c = d
          BY Contents
        <5> QED
          BY <4>1, <5>1, <5>2
      <4> QED
        BY <2>1, <4>4
    <3> QED
      BY <1>2, <3>1, <3>3
  <2>4. Len(file') = zbuf.id /\ \A i \in 1..Len(file') : file'[i] = i
    <3>1. /\ Len(file) = zprev.id /\ Len(file) \in Nat /\ Len(file') = Len(file) + 1
          /\ \A i \in 1..Len(file) : file[i] = i /\ file'[i] = file[i]
          /\ file'[Len(file) + 1] = zbuf.id
      BY <1>2, <2>1, AppendProperties, LenProperties DEF Contiguous
    <3>2. \A i \in 1..Len(file') : i \in 1..Len(file) \/ i = Len(file) + 1
      BY <3>1
    <3> QED
      BY <2>3, <3>1, <3>2
  <2> QED
    BY <1>2, <2>1, <2>2, <2>4 DEF Contiguous, Before
<1>10. CASE ZRemove
  <2>1. /\ zpc = "remove" /\ zpc' = "done" /\ UNCHANGED <<zbuf, zprev, file>>
        /\ msq' = [Rmid(msq, zmsq) EXCEPT !.msgs = <<>>]
    BY <1>2, <1>10 DEF ZRemove
  <2>2. msq'.msgs = <<>>
    BY <2>1 DEF PipeInv, Domains, MsqObjects, Rmid
  <2>3. Contiguous' /\ LastId' = zbuf.id
    <3>1. LastId' = zbuf.id
      BY <2>1, <2>2 DEF LastId
    <3>2. Len(msq'.msgs) = 0
      BY <2>2, EmptySeq
    <3> QED
      BY <1>2, <2>1, <3>1, <3>2 DEF Contiguous
  <2>4. LastId = zbuf.id
    <3>1. zbuf.id = Messages /\ gi > Messages /\ ppc \notin PStarting
      BY <1>2, <2>1 DEF Contiguous
    <3>2. LastId <= Messages
      BY <1>2, <3>1 DEF Forwarded
    <3> QED
      BY <1>2, <3>1, <3>2
  <2> QED
    BY <2>3, <2>4
<1> QED
  BY <1>1, <1>4, <1>5, <1>6, <1>7, <1>8, <1>9, <1>10 DEF ZNext

(* Time passes only when everything else waits for it, and posrednik's     *)
(* sleep is the shorter one.                                               *)
LEMMA TimedTick ==
  ASSUME PSleep < GSleep, PipeInv, Timed, InTime, Tick
  PROVE  InTime'
<1> USE GeneratorAssumption, PosrednikAssumption
<1>1. /\ GIdle /\ PIdle /\ ~(ppc = "off" /\ PMayStart)
      /\ gnap' = PrevTick(gnap) /\ pnap' = PrevTick(pnap)
      /\ UNCHANGED <<sem, shm, msq, gpc, gi, ppc, zpc, zbuf, zprev, file, ordered, broken>>
  BY DEF Tick, Timed, ipc, zvars
<1>2. Printed /\ Forwarded /\ Contiguous /\ gnap \in 0..GSleep /\ pnap \in 0..PSleep
      /\ gi \in Nat /\ gi > 0 /\ ordered
      /\ (ppc # "off" => psem = 1)
  BY TimedFacts DEF InTime, Printed, Timed
<1>3. /\ gnap' \in 0..GSleep /\ pnap' \in 0..PSleep
      /\ gnap = 0 => gnap' = 0
      /\ pnap < gnap /\ pnap > 0 => pnap' < gnap'
      /\ pnap = 0 => pnap' = 0
  BY <1>1, <1>2 DEF PrevTick
<1>4. Printed' /\ Contiguous' /\ LastId' = LastId
  <2>1. pnap' > 0 => pnap > 0
    BY <1>2, <1>3
  <2>2. Printed'
    BY <1>1, <1>2, <1>3, <2>1 DEF Printed
  <2>3. Contiguous' /\ LastId' = LastId
    BY <1>1, <1>2 DEF Contiguous, Before, LastId
  <2> QED
    BY <2>2, <2>3
<1>5. CASE ppc \in PStarting
  <2>1. ppc = "off"
    BY <1>1, <1>2, <1>5 DEF PIdle, Printed, PStarting
  <2>2. gi = 1
    BY <1>1, <1>2, <2>1 DEF PMayStart
  <2> QED
    BY <1>1, <1>4, <1>5, <2>2 DEF InTime, Forwarded
<1>6. CASE ppc \notin PStarting
  <2>1. gpc = "lock" /\ ppc = "lock" => pnap > 0
    BY <1>1, <1>2, TimedFacts DEF PIdle
  <2> QED
    BY <1>1, <1>2, <1>3, <1>4, <1>6, <2>1 DEF InTime, Forwarded
<1> QED
  BY <1>5, <1>6

(* OnlyLastMayBeLost: every text but perhaps the last reaches the file     *)
(* when posrednik sleeps less than generator (posrednik.c:89 sleeps one    *)
(* second, generator.c:60 and 64 two).                                     *)
THEOREM EveryTextInTime ==
  ASSUME PSleep < GSleep
  PROVE  Spec => []OnlyLastMayBeLost
<1> USE GeneratorAssumption, PosrednikAssumption
<1> DEFINE TimedInv == Timed => InTime
<1>1. Init => TimedInv
  <2> SUFFICES ASSUME Init PROVE InTime
    OBVIOUS
  <2>1. msq.msgs = <<>>
    BY DEF Init, Leftovers, LeftBehind, NoIPC
  <2>2. zbuf.id = 0 /\ zprev.id = 0 /\ Len(file) = 0 /\ Len(msq.msgs) = 0
    BY <2>1, EmptySeq DEF Init, ZInit, Blank, Text
  <2>3. Printed
    BY DEF Init, GInit, PInit, Printed
  <2>4. Forwarded
    BY DEF Init, GInit, PInit, Forwarded, PStarting
  <2>5. Contiguous
    BY <2>2 DEF Init, ZInit, Contiguous
  <2> QED
    BY <2>3, <2>4, <2>5 DEF InTime
<1>2. TimedInv /\ PipeInv /\ PipeInv' /\ [Next]_vars => TimedInv'
  <2> SUFFICES ASSUME TimedInv, PipeInv, PipeInv', [Next]_vars, Timed' PROVE InTime'
    OBVIOUS
  <2>1. CASE Kill
    BY <2>1 DEF Kill, Timed, PipeInv, Domains
  <2>2. CASE Terminated \/ UNCHANGED vars
    <3>1. UNCHANGED vars
      BY <2>2 DEF Terminated
    <3>2. Timed /\ InTime
      BY <3>1 DEF vars, Timed
    <3> QED
      BY <3>1, <3>2 DEF vars, ipc, gvars, pvars, zvars, InTime, Printed, Forwarded, LastId,
         Contiguous, Before
  <2>3. CASE Generate \/ Forward \/ Record \/ Tick
    <3>1. Timed /\ InTime
      BY <2>3 DEF Timed, Generate, Forward, Record, Tick
    <3> QED
      BY <2>3, <3>1, TimedGenerator, TimedForward, TimedRecord, TimedTick
  <2> QED
    BY <2>1, <2>2, <2>3 DEF Next
<1>3. TimedInv /\ PipeInv => OnlyLastMayBeLost
  <2> SUFFICES ASSUME TimedInv, PipeInv, ordered, prompt, kills = 0, zpc = "done"
               PROVE  file \in {[i \in 1..n |-> i] : n \in {Messages - 1, Messages}}
    BY DEF OnlyLastMayBeLost
  <2>1. Contiguous /\ zprev.id <= zbuf.id
    BY DEF Timed, InTime, PipeInv, Stream
  <2>2. zprev.id \in Nat /\ file \in Seq(Nat)
    BY Contents DEF PipeInv, Domains
  <2>3. zprev.id \in {Messages - 1, Messages}
    BY <2>1, <2>2 DEF Contiguous
  <2>4. file = [i \in 1..zprev.id |-> i]
    BY <2>1, <2>2, LenProperties DEF Contiguous
  <2> QED
    BY <2>3, <2>4
<1> HIDE DEF TimedInv
<1> QED
  BY PipeInvariant, <1>1, <1>2, <1>3, PTL DEF Spec
=============================================================================
