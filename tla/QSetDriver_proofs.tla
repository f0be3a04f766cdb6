------------------------- MODULE QSetDriver_proofs -------------------------
(***************************************************************************)
(* Proofs about the quantum set driver, for any quantum size, any number   *)
(* of quanta, any number of users and any counts.                          *)
(***************************************************************************)
EXTENDS QSetDriver, TLAPS

-----------------------------------------------------------------------------
(* Positions and quanta *)

(* A position is that of its quantum plus the place in it, f_pos / Q and   *)
(* f_pos % Q (gonilnik.c:120-121, 145-146).                                *)
LEMMA DivMod ==
  ASSUME NEW n \in Nat, NEW b \in Nat \ {0}
  PROVE  /\ n \div b \in Nat
         /\ n % b \in 0..(b - 1)
         /\ n = b * (n \div b) + (n % b)
<1>1. n \div b \in Nat
  OBVIOUS
<1>2. n % b \in 0..(b - 1)
  OBVIOUS
<1>3. n = b * (n \div b) + (n % b)
  OBVIOUS
<1>4. QED
  BY <1>1, <1>2, <1>3

(* Quotient and remainder are determined by the number they make up.       *)
LEMMA DivModUnique ==
  ASSUME NEW b \in Nat \ {0},
         NEW q \in Int, NEW r \in 0..(b - 1),
         NEW p \in Int, NEW s \in 0..(b - 1),
         b * q + r = b * p + s
  PROVE  q = p /\ r = s
<1>1. b * (q - p) = s - r
  OBVIOUS
<1>2. q - p >= 1 => b * (q - p) >= b
  OBVIOUS
<1>3. q - p <= -1 => b * (q - p) <= -b
  OBVIOUS
<1>4. q - p = 0
  BY <1>1, <1>2, <1>3
<1>5. QED
  BY <1>4

(* A number below the divisor is its own remainder.                        *)
LEMMA SmallMod ==
  ASSUME NEW b \in Nat \ {0}, NEW n \in 0..(b - 1) PROVE n % b = n
<1> DEFINE r == n % b
           q == n \div b
<1>1. q \in Int /\ r \in 0..(b - 1) /\ b * 0 + n = b * q + r
  BY DivMod
<1> HIDE DEF q, r
<1>2. r = n
  BY <1>1, DivModUnique
<1> QED
  BY <1>2 DEF r

(* Moving a position forward inside its quantum keeps it in that quantum.  *)
LEMMA SameQuantum ==
  ASSUME NEW n \in Nat, NEW b \in Nat \ {0},
         NEW i \in Nat, i < b - (n % b)
  PROVE  (n + i) \div b = n \div b
<1> DEFINE q == (n + i) \div b
           r == (n + i) % b
           p == n \div b
           s == (n % b) + i
<1>1. q \in Int /\ r \in 0..(b - 1) /\ n + i = b * q + r
  <2>1. n + i \in Nat
    OBVIOUS
  <2>2. QED
    BY <2>1, DivMod
<1>2. p \in Int /\ s \in 0..(b - 1)
  BY DivMod
<1>3. n + i = b * p + s
  <2>1. n = b * p + (n % b) /\ b * p \in Int /\ n % b \in Int
    BY DivMod
  <2>2. QED
    BY <2>1
<1>4. b * q + r = b * p + s
  BY <1>1, <1>3
<1>5. q = p
  <2> HIDE DEF q, r, p, s
  <2>1. QED
    BY <1>1, <1>2, <1>4, DivModUnique
<1>6. QED
  BY <1>5

-----------------------------------------------------------------------------
(* Bounds of the calls *)

BeforeCopy == {"array", "newArray", "clear", "quantum", "newQuantum", "copy"}

(* A position in a quantum of the array, moved to at most the end of that  *)
(* quantum, stays within the capacity (gonilnik.c:148, 167).               *)
LEMMA EndOfQuantum ==
  ASSUME NEW at \in Nat, at \div Q < S, NEW n \in Nat, n <= Q - (at % Q)
  PROVE  at + n <= Q * S
<1> DEFINE s == at \div Q
<1>1. s \in Nat /\ at % Q \in Nat /\ at = Q * s + (at % Q)
  BY QSetAssumption, DivMod
<1>2. s + 1 <= S
  BY <1>1, QSetAssumption
<1> HIDE DEF s
<1>3. Q * (S - (s + 1)) >= 0
  BY <1>1, <1>2, QSetAssumption
<1>4. Q * S = Q * s + Q + Q * (S - (s + 1))
  BY <1>1, QSetAssumption
<1>5. Q * s \in Int /\ Q * S \in Int /\ Q * (S - (s + 1)) \in Int
  BY <1>1, QSetAssumption
<1>6. at + n <= Q * s + Q
  BY <1>1, <1>5, QSetAssumption
<1> QED
  BY <1>3, <1>4, <1>5, <1>6, QSetAssumption

(* A position below the capacity lies in one of the S quanta.              *)
LEMMA SlotOfPosition ==
  ASSUME NEW at \in Nat, at < Q * S
  PROVE  at \div Q \in 0..(S - 1)
<1> DEFINE s == at \div Q
<1>1. s \in Nat /\ at % Q \in Nat /\ at = Q * s + (at % Q)
  BY QSetAssumption, DivMod
<1> HIDE DEF s
<1>2. s < S
  <2> SUFFICES ASSUME s >= S PROVE FALSE
    BY <1>1, QSetAssumption
  <2>1. Q * (s - S) >= 0
    BY <1>1, QSetAssumption
  <2>2. Q * s = Q * S + Q * (s - S)
    BY <1>1, QSetAssumption
  <2>3. Q * s \in Int /\ Q * S \in Int /\ Q * (s - S) \in Int
    BY <1>1, QSetAssumption
  <2> QED
    BY <1>1, <2>1, <2>2, <2>3
<1> QED
  BY <1>1, <1>2, QSetAssumption DEF s

(* An int keeps a slot of the array, and the one behind the last, as it is *)
(* (gonilnik.c:120, 145).                                                  *)
LEMMA SignedSmall ==
  ASSUME NEW k \in 0..S PROVE Signed(k) = k
<1>1. 2 * Half \in Nat \ {0} /\ k + Half \in 0..(2 * Half - 1)
  BY QSetAssumption
<1>2. (k + Half) % (2 * Half) = k + Half
  BY <1>1, SmallMod
<1> QED
  BY <1>2, QSetAssumption DEF Signed

(* What an int keeps of a larger number is off by a multiple of 2 * Half.  *)
LEMMA SignedOff ==
  ASSUME NEW k \in Nat
  PROVE  /\ Signed(k) \in Int
         /\ \E j \in Nat : k = 2 * Half * j + Signed(k)
<1> DEFINE b == 2 * Half
           n == k + Half
           j == n \div b
<1>1. b \in Nat \ {0} /\ n \in Nat
  BY QSetAssumption
<1>2. j \in Nat /\ n % b \in 0..(b - 1) /\ n = b * j + (n % b)
  BY <1>1, DivMod
<1>3. Signed(k) = (n % b) - Half
  BY DEF Signed
<1> HIDE DEF j
<1>4. k = b * j + Signed(k)
  BY <1>2, <1>3, QSetAssumption
<1> QED
  BY <1>2, <1>3, <1>4, QSetAssumption

(* Wherever a call of write has come from: if its slot is one of the       *)
(* array, what an unsigned keeps of the position it ends at is at most     *)
(* Q * S (gonilnik.c:145-148, 167, 178).                                   *)
LEMMA EndInSlot ==
  ASSUME NEW at \in Nat, Signed(at \div Q) \in 0..(S - 1),
         NEW n \in Nat, n <= Q - (at % Q)
  PROVE  Unsigned(at + n) <= Q * S
<1> DEFINE k == at \div Q
           x == Signed(k)
           b == 2 * Half
           m == at % Q
           y == Q * x + m + n
<1>1. k \in Nat /\ m \in 0..(Q - 1) /\ at = Q * k + m
  BY QSetAssumption, DivMod
<1>2. PICK j \in Nat : k = b * j + x
  BY <1>1, SignedOff
<1>3. x \in 0..(S - 1)
  OBVIOUS
<1> HIDE DEF x, k, m
<1>4. b \in Nat \ {0} /\ Q * S < b /\ Q * S \in Nat
  BY QSetAssumption
<1>5. y \in 0..(Q * S)
  <2>1. Q * x \in Nat /\ Q * (x + 1) <= Q * S /\ Q * (x + 1) = Q * x + Q
    BY <1>3, QSetAssumption
  <2>2. n <= Q - m
    BY DEF m
  <2> QED
    BY <1>1, <1>4, <2>1, <2>2, QSetAssumption
<1>6. at + n = b * (Q * j) + y
  <2>1. Q * k = b * (Q * j) + Q * x
    <3>1. Q * (b * j + x) = Q * (b * j) + Q * x
      BY <1>2, <1>3, <1>4, QSetAssumption
    <3>2. Q * (b * j) = b * (Q * j)
      BY <1>2, <1>4, QSetAssumption
    <3> QED
      BY <1>2, <3>1, <3>2
  <2>2. Q * k \in Int /\ Q * x \in Int /\ b * (Q * j) \in Int
    BY <1>1, <1>2, <1>3, <1>4, QSetAssumption
  <2> QED
    BY <1>1, <2>1, <2>2
<1>7. (at + n) % b = y
  <2> DEFINE r == (at + n) % b
             q == (at + n) \div b
  <2>1. q \in Int /\ r \in 0..(b - 1) /\ at + n = b * q + r
    <3>1. at + n \in Nat /\ b \in Nat \ {0}
      BY <1>4
    <3> DEFINE e == at + n
    <3> HIDE DEF b, e
    <3>2. e \div b \in Nat /\ e % b \in 0..(b - 1) /\ e = b * (e \div b) + (e % b)
      BY <3>1, DivMod DEF e
    <3> QED
      BY <3>2 DEF e
  <2>2. Q * j \in Int /\ y \in 0..(b - 1)
    BY <1>2, <1>4, <1>5, QSetAssumption
  <2>3. b * q + r = b * (Q * j) + y
    BY <1>6, <2>1
  <2> HIDE DEF q, r, y, b
  <2>4. r = y
    BY <1>4, <2>1, <2>2, <2>3, DivModUnique
  <2> QED
    BY <2>4 DEF r
<1> QED
  BY <1>5, <1>7 DEF Unsigned

(* A position up to Q * S is the one it stands for: neither its slot nor   *)
(* itself is squeezed.                                                     *)
LEMMA Exact ==
  ASSUME NEW at \in Nat, at <= Q * S
  PROVE  /\ Signed(at \div Q) = at \div Q /\ at \div Q \in 0..S
         /\ Unsigned(at) = at
         /\ Q * (at \div Q) + (at % Q) = at
<1> DEFINE s == at \div Q
<1>1. s \in Nat /\ at % Q \in 0..(Q - 1) /\ at = Q * s + (at % Q)
  BY QSetAssumption, DivMod
<1> HIDE DEF s
<1>2. s <= S
  <2> SUFFICES ASSUME s >= S + 1 PROVE FALSE
    BY <1>1, QSetAssumption
  <2>1. Q * (s - (S + 1)) >= 0
    BY <1>1, QSetAssumption
  <2>2. Q * s = Q * S + Q + Q * (s - (S + 1))
    BY <1>1, QSetAssumption
  <2>3. Q * s \in Int /\ Q * S \in Int /\ Q * (s - (S + 1)) \in Int
    BY <1>1, QSetAssumption
  <2> QED
    BY <1>1, <2>1, <2>2, <2>3, QSetAssumption
<1>3. Signed(s) = s
  BY <1>1, <1>2, SignedSmall, QSetAssumption
<1>4. Unsigned(at) = at
  <2>1. 2 * Half \in Nat \ {0} /\ at \in 0..(2 * Half - 1)
    BY QSetAssumption
  <2> QED
    BY <2>1, SmallMod DEF Unsigned
<1> QED
  BY <1>1, <1>2, <1>3, <1>4, QSetAssumption DEF s

Readers == {"limit", "shorten", "read"}

(* A write is past its test of the slot, finds out before it uses it that  *)
(* it lies before the array, and otherwise ends where the array does.  Of  *)
(* its own file it knows the position.                                     *)
CallBounds ==
  \A p \in Users :
    /\ upc[p] \in BeforeCopy => SPos(p) < S
    /\ upc[p] \in BeforeCopy \cup Readers /\ call[p].own => f_pos[p] = call[p].pos
    /\ ~oops /\ upc[p] \in {"newQuantum", "copy"} => SPos(p) >= 0
    /\ ~oops /\ upc[p] \in {"size", "setSize"} => Unsigned(call[p].pos) <= Q * S

(* The module is gone for everybody at once.                               *)
AllGone == \A p, q \in Users : upc[p] \in Gone => upc[q] \in Gone

(* What holds whatever the users do.                                       *)
AnyUse == TypeOK /\ CallBounds /\ AllGone /\ WithinCapacity

(* Nothing is allocated and nobody has the device open.                    *)
LEMMA InitAnyUse == Init => AnyUse
<1> SUFFICES ASSUME Init PROVE AnyUse
  OBVIOUS
<1>1. Q * S \in Nat
  BY QSetAssumption
<1>2. TypeOK
  <2>1. zeroed \in BOOLEAN
    BY Zenon DEF Init
  <2>2. Idle \in [pos : Nat, count : Nat, asked : Nat, own : BOOLEAN]
    BY QSetAssumption DEF Idle
  <2>3. upc \in [Users -> UPCs]
    BY DEF Init, UPCs
  <2>4. call \in [Users -> [pos : Nat, count : Nat, asked : Nat, own : BOOLEAN]]
    BY <2>2 DEF Init
  <2>5. f_pos \in [Users -> Nat] /\ size \in 0..(2 * Half - 1)
    BY QSetAssumption DEF Init
  <2> QED
    BY <2>1, <2>3, <2>4, <2>5 DEF Init, TypeOK
<1>3. CallBounds /\ AllGone
  <2>1. \A p \in Users : upc[p] = "closed"
    <3> SUFFICES ASSUME NEW p \in Users PROVE upc[p] = "closed"
      BY Zenon
    <3> QED
      BY Zenon DEF Init
  <2> QED
    BY <2>1 DEF CallBounds, AllGone, BeforeCopy, Readers, Gone
<1>4. WithinCapacity
  <2>1. (zeroed => size = 0) /\ \A p \in Users : f_pos[p] = 0
    BY Zenon DEF Init
  <2> QED
    BY <1>1, <2>1 DEF WithinCapacity
<1> QED
  BY <1>2, <1>3, <1>4 DEF AnyUse

(* The count that is copied, and where it ends (gonilnik.c:123, 167).      *)
LEMMA LimitedFits ==
  ASSUME AnyUse, NEW p \in Users, NEW n \in Nat, SPos(p) \in 0..(S - 1)
  PROVE  /\ Limited(p, n) \in Nat
         /\ Limited(p, n) <= n
         /\ Limited(p, n) <= Q - QPos(p)
         /\ Unsigned(call[p].pos + Limited(p, n)) <= Q * S
         /\ call[p].pos <= Q * S => call[p].pos + Limited(p, n) <= Q * S
<1>1. call[p].pos \in Nat
  BY DEF AnyUse, TypeOK
<1>2. QPos(p) \in 0..(Q - 1)
  BY <1>1, DivMod, QSetAssumption DEF QPos
<1>3. /\ Limited(p, n) \in Nat
      /\ Limited(p, n) <= n
      /\ Limited(p, n) <= Q - QPos(p)
  BY <1>2, QSetAssumption DEF Limited, Lesser
<1>4. Unsigned(call[p].pos + Limited(p, n)) <= Q * S
  BY <1>1, <1>3, EndInSlot DEF SPos, QPos
<1>5. ASSUME call[p].pos <= Q * S PROVE call[p].pos + Limited(p, n) <= Q * S
  <2>1. call[p].pos \div Q = SPos(p)
    BY <1>1, <1>5, Exact DEF SPos
  <2>2. call[p].pos \div Q < S
    BY <2>1, QSetAssumption
  <2> QED
    BY <1>1, <1>3, <2>2, EndOfQuantum DEF QPos
<1> QED
  BY <1>3, <1>4, <1>5

(* A call that ends, well or not, leaves its position behind.              *)
LEMMA EndOfCall ==
  ASSUME AnyUse, NEW p \in Users, EndCall(p), upc[p] \notin Gone, ~oops,
         upc' = [upc EXCEPT ![p] = "idle"],
         \A q \in Users \ {p} : f_pos'[q] = f_pos[q]
  PROVE  /\ CallBounds' /\ AllGone'
         /\ call' \in [Users -> [pos : Nat, count : Nat, asked : Nat, own : BOOLEAN]]
         /\ upc' \in [Users -> UPCs]
<1>1. Idle \in [pos : Nat, count : Nat, asked : Nat, own : BOOLEAN]
  BY DEF Idle
<1>2. call' = [call EXCEPT ![p] = Idle]
  BY DEF EndCall
<1>3. /\ call' \in [Users -> [pos : Nat, count : Nat, asked : Nat, own : BOOLEAN]]
      /\ upc' \in [Users -> UPCs]
  BY <1>1, <1>2 DEF AnyUse, TypeOK, UPCs
<1>4. CallBounds' /\ AllGone'
  <2>1. upc'[p] = "idle"
    BY DEF AnyUse, TypeOK
  <2>2. \A q \in Users \ {p} : call'[q] = call[q] /\ upc'[q] = upc[q]
    BY <1>2 DEF AnyUse, TypeOK
  <2>3. CallBounds'
    BY <2>1, <2>2 DEF AnyUse, CallBounds, SPos, BeforeCopy, Readers
  <2>4. AllGone'
    BY <2>1, <2>2 DEF AnyUse, AllGone, Gone
  <2> QED
    BY <2>3, <2>4
<1> QED
  BY <1>3, <1>4

(* A call that goes on keeps to its bounds if it does so itself: it        *)
(* touches no other call and no other file (gonilnik.c:103-183).           *)
LEMMA CallMoves ==
  ASSUME AnyUse, NEW p \in Users, NEW to \in UPCs \ Gone, upc[p] \notin Gone, ~oops,
         upc' = [upc EXCEPT ![p] = to],
         \A q \in Users \ {p} : f_pos'[q] = f_pos[q] /\ call'[q] = call[q],
         to \in BeforeCopy => SPos(p)' < S,
         to \in BeforeCopy \cup Readers /\ call'[p].own => f_pos'[p] = call'[p].pos,
         ~oops' /\ to \in {"newQuantum", "copy"} => SPos(p)' >= 0,
         ~oops' /\ to \in {"size", "setSize"} => Unsigned(call'[p].pos) <= Q * S
  PROVE  CallBounds' /\ AllGone' /\ upc' \in [Users -> UPCs]
<1>1. upc'[p] = to /\ \A q \in Users \ {p} : upc'[q] = upc[q]
  BY DEF AnyUse, TypeOK
<1>2. CallBounds'
  <2> SUFFICES ASSUME NEW q \in Users
      PROVE /\ upc'[q] \in BeforeCopy => SPos(q)' < S
            /\ upc'[q] \in BeforeCopy \cup Readers /\ call'[q].own => f_pos'[q] = call'[q].pos
            /\ ~oops' /\ upc'[q] \in {"newQuantum", "copy"} => SPos(q)' >= 0
            /\ ~oops' /\ upc'[q] \in {"size", "setSize"} => Unsigned(call'[q].pos) <= Q * S
    BY DEF CallBounds
  <2>1. CASE q = p
    BY <1>1, <2>1
  <2>2. CASE q # p
    BY <1>1, <2>2 DEF AnyUse, CallBounds, SPos
  <2> QED
    BY <2>1, <2>2
<1>3. AllGone'
  BY <1>1 DEF AnyUse, AllGone, Gone
<1>4. upc' \in [Users -> UPCs]
  BY DEF AnyUse, TypeOK
<1> QED
  BY <1>2, <1>3, <1>4

(* A step within a call that leaves its position, its file and size alone. *)
LEMMA CallGoesOn ==
  ASSUME AnyUse, NEW p \in Users, NEW from \in UPCs \ Gone, NEW to \in UPCs \ Gone,
         Goto(p, from, to), UNCHANGED <<size, f_pos, zeroed>>,
         \A q \in Users \ {p} : call'[q] = call[q],
         call'[p].pos = call[p].pos, call'[p].own = call[p].own,
         to \in BeforeCopy => from \in BeforeCopy,
         to \in BeforeCopy \cup Readers => from \in BeforeCopy \cup Readers,
         to = "newQuantum" /\ ~oops' => SPos(p) >= 0,
         to = "copy" /\ ~oops' => SPos(p) >= 0,
         to \in {"size", "setSize"} => from \in {"size", "setSize"}
  PROVE  CallBounds' /\ AllGone' /\ WithinCapacity' /\ upc' \in [Users -> UPCs]
<1>1. upc[p] = from /\ ~oops /\ upc' = [upc EXCEPT ![p] = to]
  BY DEF Goto
<1>2. /\ from \in BeforeCopy => SPos(p) < S
      /\ from \in BeforeCopy \cup Readers /\ call[p].own => f_pos[p] = call[p].pos
      /\ from \in {"size", "setSize"} => Unsigned(call[p].pos) <= Q * S
  BY <1>1 DEF AnyUse, CallBounds
<1>3. SPos(p)' = SPos(p)
  BY DEF SPos
<1>4. CallBounds' /\ AllGone' /\ upc' \in [Users -> UPCs]
  BY <1>1, <1>2, <1>3, CallMoves
<1>5. WithinCapacity'
  BY <1>1 DEF AnyUse, WithinCapacity
<1> QED
  BY <1>4, <1>5

(* No step of any user breaks it: not one of them relies on another being  *)
(* out of the way.                                                         *)
LEMMA StepAnyUse == AnyUse /\ [Next]_vars => AnyUse'
<1> SUFFICES ASSUME AnyUse, [Next]_vars PROVE AnyUse'
  OBVIOUS
<1>0. /\ Q * S \in Nat /\ Q \in Nat \ {0}
      /\ upc \in [Users -> UPCs] /\ f_pos \in [Users -> Nat]
      /\ call \in [Users -> [pos : Nat, count : Nat, asked : Nat, own : BOOLEAN]]
      /\ size \in 0..(2 * Half - 1) /\ size \in Nat
  BY QSetAssumption DEF AnyUse, TypeOK
<1> DEFINE Typed == call' \in [Users -> [pos : Nat, count : Nat, asked : Nat, own : BOOLEAN]]
                    /\ f_pos' \in [Users -> Nat]
<1>1. ASSUME NEW p \in Users, Open(p) PROVE AnyUse'
  <2>1. UNCHANGED <<device, call, faults, history>>
    BY <1>1 DEF Open, Truncates, O_ACCMODE, O_WRONLY
  <2>2. /\ upc' = [upc EXCEPT ![p] = "idle"] /\ f_pos' = [f_pos EXCEPT ![p] = 0]
        /\ upc[p] = "closed" /\ ~oops
    BY <1>1 DEF Open, Goto
  <2> USE DEF device, faults, history
  <2>3. CallBounds' /\ AllGone' /\ upc' \in [Users -> UPCs]
    BY <1>0, <2>1, <2>2, CallMoves DEF BeforeCopy, Readers, UPCs, Gone
  <2>4. TypeOK'
    BY <1>0, <2>1, <2>2, <2>3 DEF AnyUse, TypeOK
  <2>5. WithinCapacity'
    BY <1>0, <2>1, <2>2 DEF AnyUse, WithinCapacity
  <2> QED
    BY <2>3, <2>4, <2>5 DEF AnyUse
<1>2. ASSUME NEW p \in Users, Release(p) PROVE AnyUse'
  <2>1. /\ UNCHANGED <<device, call, faults, history>>
        /\ upc' = [upc EXCEPT ![p] = "closed"] /\ f_pos' = [f_pos EXCEPT ![p] = 0]
        /\ upc[p] = "idle" /\ ~oops
    BY <1>2 DEF Release, Goto
  <2> USE DEF device, faults, history
  <2>3. CallBounds' /\ AllGone' /\ upc' \in [Users -> UPCs]
    BY <1>0, <2>1, CallMoves DEF BeforeCopy, Readers, UPCs, Gone
  <2>4. TypeOK'
    BY <1>0, <2>1, <2>3 DEF AnyUse, TypeOK
  <2>5. WithinCapacity'
    BY <1>0, <2>1 DEF AnyUse, WithinCapacity
  <2> QED
    BY <2>3, <2>4, <2>5 DEF AnyUse
<1>3. ASSUME NEW p \in Users, BeginWrite(p) PROVE AnyUse'
  <2>1. PICK n \in 0..MaxCount, own \in BOOLEAN : \E at \in Targets(p, own) :
          /\ Signed(at \div Q) < S
          /\ Aim(p, n, at, own)
          /\ jumped' = (jumped \/ (at > size /\ ~own))
    BY <1>3 DEF BeginWrite
  <2>2. PICK at \in Targets(p, own) :
          /\ Signed(at \div Q) < S
          /\ Aim(p, n, at, own)
          /\ jumped' = (jumped \/ (at > size /\ ~own))
    BY <2>1
  <2>3. /\ upc' = [upc EXCEPT ![p] = "array"] /\ upc[p] = "idle" /\ ~oops
        /\ UNCHANGED <<device, f_pos, faults, zeroed, stale, over, regrown>>
    BY <1>3 DEF BeginWrite, Goto
  <2>4. raced' \in BOOLEAN /\ jumped' \in BOOLEAN
    BY <1>3, <2>2, Zenon DEF BeginWrite
  <2>5. /\ call' = [call EXCEPT ![p] = [pos |-> at, count |-> n, asked |-> n, own |-> own]]
        /\ at \in Nat /\ (own => at = f_pos[p])
    BY <1>0, <2>2, QSetAssumption DEF Aim, Targets
  <2>6. Typed /\ call'[p].pos = at /\ call'[p].own = own
        /\ \A q \in Users \ {p} : call'[q] = call[q]
    BY <1>0, <2>3, <2>5, QSetAssumption
  <2>7. SPos(p)' < S
    BY <2>2, <2>6 DEF SPos
  <2>8. CallBounds' /\ AllGone' /\ upc' \in [Users -> UPCs]
    BY <1>0, <2>3, <2>5, <2>6, <2>7, CallMoves DEF BeforeCopy, UPCs, Gone
  <2>9. TypeOK' /\ WithinCapacity'
    BY <2>3, <2>4, <2>6, <2>8 DEF AnyUse, TypeOK, WithinCapacity, device, faults
  <2> QED
    BY <2>8, <2>9 DEF AnyUse
<1>4. ASSUME NEW p \in Users, CheckArray(p) PROVE AnyUse'
  <2>1. UNCHANGED <<device, f_pos, call, faults, history>>
    BY <1>4 DEF CheckArray
  <2>2. PICK to \in {"newArray", "quantum"} : Goto(p, "array", to)
    BY <1>4 DEF CheckArray
  <2>3. CallBounds' /\ AllGone' /\ WithinCapacity' /\ upc' \in [Users -> UPCs]
    BY <2>1, <2>2, CallGoesOn DEF UPCs, Gone, BeforeCopy, Readers, device, history
  <2> QED
    BY <2>1, <2>3 DEF AnyUse, TypeOK, device, faults, history
<1>5. ASSUME NEW p \in Users, NewArray(p) PROVE AnyUse'
  <2>1. /\ UNCHANGED <<size, oops, f_pos, call, history>>
        /\ data' = "uncleared" /\ quanta' = {} /\ filled' = {}
        /\ Goto(p, "newArray", "clear")
    BY <1>5 DEF NewArray, Replace
  <2>2. leaked' \in BOOLEAN
    BY <1>5, Zenon DEF NewArray, Replace
  <2>3. CallBounds' /\ AllGone' /\ WithinCapacity' /\ upc' \in [Users -> UPCs]
    BY <2>1, CallGoesOn DEF UPCs, Gone, BeforeCopy, Readers, history
  <2> QED
    BY <2>1, <2>2, <2>3 DEF AnyUse, TypeOK, history
<1>6. ASSUME NEW p \in Users, NoArray(p) PROVE AnyUse'
  <2>1. /\ EndCall(p) /\ upc' = [upc EXCEPT ![p] = "idle"]
        /\ upc[p] = "newArray" /\ ~oops
        /\ data' = "null" /\ quanta' = {} /\ filled' = {}
        /\ UNCHANGED <<size, oops, f_pos, history>>
    BY <1>6 DEF NoArray, Replace, Goto
  <2>2. leaked' \in BOOLEAN
    BY <1>6, Zenon DEF NoArray, Replace
  <2>3. CallBounds' /\ AllGone' /\ call' \in [Users -> [pos : Nat, count : Nat, asked : Nat, own : BOOLEAN]]
        /\ upc' \in [Users -> UPCs]
    BY <2>1, EndOfCall DEF Gone
  <2> QED
    BY <2>1, <2>2, <2>3 DEF AnyUse, TypeOK, WithinCapacity, history
<1>7. ASSUME NEW p \in Users, ClearArray(p) PROVE AnyUse'
  <2>1. /\ UNCHANGED <<size, f_pos, call, history>>
        /\ data' \in {"null", "wild", "uncleared", "array"}
        /\ quanta' = {} /\ filled' = {} /\ oops' \in BOOLEAN
        /\ Goto(p, "clear", "quantum")
    BY <1>7 DEF ClearArray, AnyUse, TypeOK
  <2>2. leaked' \in BOOLEAN
    BY <1>7, Zenon DEF ClearArray
  <2>3. CallBounds' /\ AllGone' /\ WithinCapacity' /\ upc' \in [Users -> UPCs]
    BY <2>1, CallGoesOn DEF UPCs, Gone, BeforeCopy, Readers, history
  <2> QED
    BY <2>1, <2>2, <2>3 DEF AnyUse, TypeOK, history
<1>8. ASSUME NEW p \in Users, CheckQuantum(p) PROVE AnyUse'
  <2>1. UNCHANGED <<device, f_pos, call, leaked, history>>
    BY <1>8 DEF CheckQuantum
  <2>2. PICK to \in {"copy", "newQuantum"} : Goto(p, "quantum", to)
    BY <1>8 DEF CheckQuantum
  <2>3. oops' \in BOOLEAN /\ (~oops' => ~(SPos(p) < 0))
    BY <1>8 DEF CheckQuantum
  <2>4. ~oops' => SPos(p) >= 0
    <3>1. call[p].pos \div Q \in Nat
      BY <1>0, DivMod
    <3>2. SPos(p) \in Int
      BY <3>1, SignedOff DEF SPos
    <3> QED
      BY <2>3, <3>2
  <2>5. CallBounds' /\ AllGone' /\ WithinCapacity' /\ upc' \in [Users -> UPCs]
    BY <2>1, <2>2, <2>4, CallGoesOn DEF UPCs, Gone, BeforeCopy, Readers, device, history
  <2> QED
    BY <2>1, <2>3, <2>5 DEF AnyUse, TypeOK, device, history
<1>9. ASSUME NEW p \in Users, NewQuantum(p) \/ NoQuantum(p)
      PROVE  /\ SPos(p) \in 0..(S - 1)
             /\ oops' \in BOOLEAN /\ leaked' \in BOOLEAN
             /\ quanta' \subseteq 0..(S - 1) /\ filled' \subseteq Positions
             /\ UNCHANGED <<data, size, f_pos, history>>
  <2>1. upc[p] = "newQuantum" /\ ~oops
    BY <1>9 DEF NewQuantum, NoQuantum, Goto
  <2>2. SPos(p) \in 0..(S - 1)
    <3>1. SPos(p) \in Int
      <4>1. call[p].pos \div Q \in Nat
        BY <1>0, DivMod
      <4> QED
        BY <4>1, SignedOff DEF SPos
    <3>2. SPos(p) < S /\ SPos(p) >= 0
      BY <2>1 DEF AnyUse, CallBounds, BeforeCopy
    <3> QED
      BY <3>1, <3>2, QSetAssumption
  <2>3. PICK qs \in SUBSET {SPos(p)} : PutQuantum(p, qs)
    BY <1>9 DEF NewQuantum, NoQuantum
  <2>4. oops' \in BOOLEAN
    BY <2>3 DEF PutQuantum
  <2>5. leaked' \in BOOLEAN
    BY <2>3, Zenon DEF PutQuantum
  <2>6. quanta' \subseteq 0..(S - 1) /\ filled' \subseteq Positions
    BY <2>2, <2>3 DEF PutQuantum, AnyUse, TypeOK
  <2> QED
    BY <2>2, <2>3, <2>4, <2>5, <2>6 DEF PutQuantum
<1>10. ASSUME NEW p \in Users, NewQuantum(p) PROVE AnyUse'
  <2>1. Goto(p, "newQuantum", "copy") /\ UNCHANGED call
    BY <1>10 DEF NewQuantum
  <2>2. SPos(p) >= 0
    BY <1>9, <1>10, QSetAssumption
  <2>3. UNCHANGED <<data, size, f_pos, history>>
    BY <1>9, <1>10
  <2>4. CallBounds' /\ AllGone' /\ WithinCapacity' /\ upc' \in [Users -> UPCs]
    BY <2>1, <2>2, <2>3, CallGoesOn DEF UPCs, Gone, BeforeCopy, Readers, history
  <2> QED
    BY <1>9, <1>10, <2>1, <2>3, <2>4 DEF AnyUse, TypeOK, history
<1>11. ASSUME NEW p \in Users, NoQuantum(p) PROVE AnyUse'
  <2>1. /\ EndCall(p) /\ upc' = [upc EXCEPT ![p] = "idle"]
        /\ upc[p] = "newQuantum" /\ ~oops
    BY <1>11 DEF NoQuantum, Goto
  <2>2. UNCHANGED <<data, size, f_pos, history>>
    BY <1>9, <1>11
  <2>3. CallBounds' /\ AllGone' /\ call' \in [Users -> [pos : Nat, count : Nat, asked : Nat, own : BOOLEAN]]
        /\ upc' \in [Users -> UPCs]
    BY <2>1, <2>2, EndOfCall DEF Gone
  <2> QED
    BY <1>9, <1>11, <2>1, <2>2, <2>3 DEF AnyUse, TypeOK, WithinCapacity, history
<1>12. ASSUME NEW p \in Users, upc[p] = "copy", ~oops PROVE SPos(p) \in 0..(S - 1)
  <2>1. SPos(p) \in Int
    <3>1. call[p].pos \div Q \in Nat
      BY <1>0, DivMod
    <3> QED
      BY <3>1, SignedOff DEF SPos
  <2>2. SPos(p) < S /\ SPos(p) >= 0
    BY <1>12 DEF AnyUse, CallBounds, BeforeCopy
  <2> QED
    BY <2>1, <2>2, QSetAssumption
<1>13. ASSUME NEW p \in Users, Copy(p) PROVE AnyUse'
  <2> DEFINE n == Limited(p, call[p].count)
  <2>1. /\ upc[p] = "copy" /\ ~oops /\ upc' = [upc EXCEPT ![p] = "size"]
        /\ call' = [call EXCEPT ![p].pos = @ + n]
        /\ f_pos' = IF call[p].own THEN [f_pos EXCEPT ![p] = @ + n] ELSE f_pos
        /\ filled' = filled \cup Span(p, n)
        /\ oops' \in BOOLEAN
        /\ UNCHANGED <<data, quanta, size, leaked, history>>
    BY <1>13 DEF Copy, Goto
  <2>2. /\ n \in Nat /\ Unsigned(call[p].pos + n) <= Q * S
        /\ call[p].pos <= Q * S => call[p].pos + n <= Q * S
    <3>1. call[p].count \in Nat
      BY <1>0
    <3> QED
      BY <1>12, <2>1, <3>1, LimitedFits
  <2>3. Span(p, n) \subseteq Positions
    BY DEF Span
  <2>4. call[p].own => f_pos[p] = call[p].pos
    BY <2>1 DEF AnyUse, CallBounds, BeforeCopy
  <2> HIDE DEF n
  <2>5. /\ Typed /\ call'[p].pos = call[p].pos + n
        /\ \A q \in Users \ {p} : f_pos'[q] = f_pos[q] /\ call'[q] = call[q]
    BY <1>0, <2>1, <2>2
  <2>6. CallBounds' /\ AllGone' /\ upc' \in [Users -> UPCs]
    BY <2>1, <2>2, <2>5, CallMoves DEF UPCs, Gone, BeforeCopy, Readers
  <2>7. WithinCapacity'
    <3>1. ASSUME NEW q \in Users PROVE f_pos'[q] <= Q * S
      <4>1. f_pos[q] <= Q * S
        BY <2>1 DEF AnyUse, WithinCapacity
      <4>2. CASE q = p /\ call[p].own
        BY <1>0, <2>1, <2>2, <2>4, <4>1, <4>2
      <4>3. CASE ~(q = p /\ call[p].own)
        BY <2>1, <2>5, <4>1, <4>3
      <4> QED
        BY <4>2, <4>3
    <3> QED
      BY <2>1, <3>1 DEF AnyUse, WithinCapacity, history
  <2>8. TypeOK'
    BY <2>1, <2>3, <2>5, <2>6 DEF AnyUse, TypeOK, history
  <2> QED
    BY <2>6, <2>7, <2>8 DEF AnyUse
<1>14. ASSUME NEW p \in Users, CopyFails(p) PROVE AnyUse'
  <2>1. filled' \subseteq Positions
    BY <1>14 DEF CopyFails, Span, AnyUse, TypeOK
  <2>2. /\ EndCall(p) /\ upc' = [upc EXCEPT ![p] = "idle"]
        /\ upc[p] = "copy" /\ ~oops
        /\ oops' \in BOOLEAN
        /\ UNCHANGED <<data, quanta, size, f_pos, leaked, history>>
    BY <1>14 DEF CopyFails, Goto
  <2>3. CallBounds' /\ AllGone' /\ call' \in [Users -> [pos : Nat, count : Nat, asked : Nat, own : BOOLEAN]]
        /\ upc' \in [Users -> UPCs]
    BY <2>2, EndOfCall DEF Gone
  <2> QED
    BY <2>1, <2>2, <2>3 DEF AnyUse, TypeOK, WithinCapacity, history
<1>15. ASSUME NEW p \in Users, CheckSize(p) PROVE AnyUse'
  <2>1. UNCHANGED <<device, f_pos, call, faults, history>> /\ Goto(p, "size", "setSize")
    BY <1>15 DEF CheckSize
  <2>2. CallBounds' /\ AllGone' /\ WithinCapacity' /\ upc' \in [Users -> UPCs]
    BY <2>1, CallGoesOn DEF UPCs, Gone, BeforeCopy, Readers, device, history
  <2> QED
    BY <2>1, <2>2 DEF AnyUse, TypeOK, device, faults, history
<1>16. ASSUME NEW p \in Users, SizeIsFine(p) PROVE AnyUse'
  <2>1. /\ EndCall(p) /\ upc' = [upc EXCEPT ![p] = "idle"]
        /\ upc[p] = "size" /\ ~oops
        /\ UNCHANGED <<device, f_pos, faults, history>>
    BY <1>16 DEF SizeIsFine, Goto
  <2>2. CallBounds' /\ AllGone' /\ call' \in [Users -> [pos : Nat, count : Nat, asked : Nat, own : BOOLEAN]]
        /\ upc' \in [Users -> UPCs]
    BY <2>1, EndOfCall DEF Gone
  <2> QED
    BY <2>1, <2>2 DEF AnyUse, TypeOK, WithinCapacity, device, faults, history
<1>17. ASSUME NEW p \in Users, SetSize(p) PROVE AnyUse'
  <2>1. /\ EndCall(p) /\ upc' = [upc EXCEPT ![p] = "idle"]
        /\ upc[p] = "setSize" /\ ~oops
        /\ size' = Unsigned(call[p].pos)
        /\ UNCHANGED <<data, quanta, filled, f_pos, faults, zeroed, raced, jumped,
                       stale, over>>
    BY <1>17 DEF SetSize, Goto
  <2>2. regrown' \in BOOLEAN
    BY <1>17, Zenon DEF SetSize, AnyUse, TypeOK
  <2>3. size' \in 0..(2 * Half - 1) /\ size' <= Q * S
    <3>1. 2 * Half \in Nat \ {0} /\ call[p].pos \in Nat
      BY <1>0, QSetAssumption
    <3>2. call[p].pos % (2 * Half) \in 0..(2 * Half - 1)
      BY <3>1, DivMod
    <3> QED
      BY <2>1, <3>2 DEF AnyUse, CallBounds, Unsigned
  <2>4. CallBounds' /\ AllGone' /\ call' \in [Users -> [pos : Nat, count : Nat, asked : Nat, own : BOOLEAN]]
        /\ upc' \in [Users -> UPCs]
    BY <2>1, EndOfCall DEF Gone
  <2> QED
    BY <2>1, <2>2, <2>3, <2>4 DEF AnyUse, TypeOK, WithinCapacity, faults
<1>18. ASSUME NEW p \in Users, BeginRead(p) PROVE AnyUse'
  <2>1. PICK n \in 0..MaxCount, own \in BOOLEAN : \E at \in Targets(p, own) :
          at < size /\ Aim(p, n, at, own)
    BY <1>18 DEF BeginRead
  <2>2. PICK at \in Targets(p, own) : at < size /\ Aim(p, n, at, own)
    BY <2>1
  <2>3. /\ upc' = [upc EXCEPT ![p] = "limit"] /\ upc[p] = "idle" /\ ~oops
        /\ UNCHANGED <<device, f_pos, faults, history>>
    BY <1>18 DEF BeginRead, Goto
  <2>4. /\ call' = [call EXCEPT ![p] = [pos |-> at, count |-> n, asked |-> n, own |-> own]]
        /\ at \in Nat /\ (own => at = f_pos[p])
    BY <1>0, <2>2, QSetAssumption DEF Aim, Targets
  <2>5. Typed /\ call'[p].pos = at /\ call'[p].own = own
        /\ \A q \in Users \ {p} : call'[q] = call[q]
    BY <1>0, <2>3, <2>4, QSetAssumption
  <2>6. CallBounds' /\ AllGone' /\ upc' \in [Users -> UPCs]
    BY <1>0, <2>3, <2>4, <2>5, CallMoves DEF BeforeCopy, Readers, UPCs, Gone
  <2> QED
    BY <2>3, <2>5, <2>6 DEF AnyUse, TypeOK, WithinCapacity, device, faults, history
<1>19. ASSUME NEW p \in Users, CheckCount(p) PROVE AnyUse'
  <2>1. UNCHANGED <<device, f_pos, call, faults, history>>
    BY <1>19 DEF CheckCount
  <2>2. PICK to \in {"shorten", "read"} : Goto(p, "limit", to)
    BY <1>19 DEF CheckCount
  <2>3. CallBounds' /\ AllGone' /\ WithinCapacity' /\ upc' \in [Users -> UPCs]
    BY <2>1, <2>2, CallGoesOn DEF UPCs, Gone, BeforeCopy, Readers, device, history
  <2> QED
    BY <2>1, <2>3 DEF AnyUse, TypeOK, device, faults, history
<1>20. ASSUME NEW p \in Users, LimitCount(p) PROVE AnyUse'
  <2> DEFINE c == IF call[p].pos <= size THEN size - call[p].pos ELSE Q
  <2>1. /\ UNCHANGED <<device, f_pos, faults, history>> /\ Goto(p, "shorten", "read")
        /\ call' = [call EXCEPT ![p].count = c]
    BY <1>20 DEF LimitCount
  <2>2. c \in Nat
    BY <1>0
  <2> HIDE DEF c
  <2>3. /\ Typed /\ call'[p].pos = call[p].pos /\ call'[p].own = call[p].own
        /\ \A q \in Users \ {p} : call'[q] = call[q]
    BY <1>0, <2>1, <2>2
  <2>4. CallBounds' /\ AllGone' /\ WithinCapacity' /\ upc' \in [Users -> UPCs]
    BY <2>1, <2>3, CallGoesOn DEF UPCs, Gone, BeforeCopy, Readers, device, history
  <2> QED
    BY <2>1, <2>3, <2>4 DEF AnyUse, TypeOK, device, faults, history
<1>21. ASSUME NEW p \in Users, EndRead(p) PROVE AnyUse'
  <2> DEFINE n == Limited(p, call[p].count)
  <2>1. /\ upc[p] = "read" /\ ~oops /\ upc' = [upc EXCEPT ![p] = "idle"] /\ EndCall(p)
        /\ \/ f_pos' = IF call[p].own THEN [f_pos EXCEPT ![p] = @ + n] ELSE f_pos
           \/ UNCHANGED f_pos
        /\ oops' = (SPos(p) \notin quanta)
        /\ UNCHANGED <<device, leaked, zeroed, raced, jumped, regrown>>
    BY <1>21 DEF EndRead, Goto
  <2>2. stale' \in BOOLEAN /\ over' \in BOOLEAN
    BY <1>21, Zenon DEF EndRead, AnyUse, TypeOK
  <2>3. n \in Nat
    <3>1. QPos(p) \in 0..(Q - 1)
      BY <1>0, DivMod DEF QPos
    <3> QED
      BY <1>0, <3>1 DEF Limited, Lesser
  <2>4. ~oops' /\ call[p].pos <= Q * S => call[p].pos + n <= Q * S
    <3>1. ~oops' => SPos(p) \in 0..(S - 1)
      BY <2>1 DEF AnyUse, TypeOK
    <3>2. call[p].count \in Nat
      BY <1>0
    <3> QED
      BY <3>1, <3>2, LimitedFits
  <2>5. call[p].own => f_pos[p] = call[p].pos
    BY <2>1 DEF AnyUse, CallBounds, Readers
  <2> HIDE DEF n
  <2>6. f_pos' \in [Users -> Nat] /\ \A q \in Users \ {p} : f_pos'[q] = f_pos[q]
    BY <1>0, <2>1, <2>3
  <2>7. CallBounds' /\ AllGone' /\ call' \in [Users -> [pos : Nat, count : Nat, asked : Nat, own : BOOLEAN]]
        /\ upc' \in [Users -> UPCs]
    BY <2>1, <2>6, EndOfCall DEF Gone
  <2>8. WithinCapacity'
    <3>1. ASSUME NEW q \in Users, ~oops' PROVE f_pos'[q] <= Q * S
      <4>1. f_pos[q] <= Q * S /\ f_pos[p] <= Q * S
        BY <2>1 DEF AnyUse, WithinCapacity
      <4>2. CASE q = p /\ call[p].own
        <5>1. f_pos[p] = call[p].pos /\ call[p].pos + n <= Q * S
          BY <2>4, <2>5, <3>1, <4>1, <4>2
        <5>2. f_pos'[p] \in {f_pos[p], f_pos[p] + n}
          BY <1>0, <2>1
        <5> QED
          BY <4>1, <4>2, <5>1, <5>2
      <4>3. CASE ~(q = p /\ call[p].own)
        BY <1>0, <2>1, <2>6, <4>1, <4>3
      <4> QED
        BY <4>2, <4>3
    <3> QED
      BY <2>1, <3>1 DEF AnyUse, WithinCapacity, device
  <2>9. TypeOK'
    BY <2>1, <2>2, <2>6, <2>7 DEF AnyUse, TypeOK, device
  <2> QED
    BY <2>7, <2>8, <2>9 DEF AnyUse
<1>22. ASSUME NEW p \in Users, UseOrphan(p) PROVE AnyUse'
  <2>1. /\ upc[p] = "orphan" /\ upc' = [upc EXCEPT ![p] = "orphan"] /\ oops' = TRUE
        /\ UNCHANGED <<device, f_pos, call, leaked, history>>
    BY <1>22 DEF UseOrphan, Goto
  <2>2. upc' = upc
    BY <1>0, <2>1
  <2> QED
    BY <2>1, <2>2 DEF AnyUse, TypeOK, CallBounds, AllGone, WithinCapacity, SPos, device, history
<1>23. CASE Cleanup
  <2>1. /\ size' = 0 /\ data' = "null" /\ quanta' = {} /\ filled' = {} /\ ~oops
        /\ upc' = [p \in Users |-> IF upc[p] = "closed" THEN "unloaded" ELSE "orphan"]
        /\ UNCHANGED <<f_pos, call, history>>
    BY <1>23 DEF Cleanup, Trim
  <2>2. oops' \in BOOLEAN
    BY <1>23 DEF Cleanup, Trim
  <2>3. leaked' \in BOOLEAN
    BY <1>23, Zenon DEF Cleanup, Trim
  <2>4. upc' \in [Users -> UPCs] /\ \A p \in Users : upc'[p] \in Gone
    BY <2>1 DEF UPCs, Gone
  <2>5. CallBounds' /\ AllGone'
    BY <2>4 DEF CallBounds, AllGone, BeforeCopy, Readers, Gone
  <2>6. WithinCapacity'
    BY <1>0, <2>1 DEF AnyUse, WithinCapacity
  <2>7. TypeOK'
    BY <2>1, <2>2, <2>3, <2>4, QSetAssumption DEF AnyUse, TypeOK, history
  <2> QED
    BY <2>5, <2>6, <2>7 DEF AnyUse
<1>24. CASE UNCHANGED vars
  BY <1>24 DEF AnyUse, vars, TypeOK, CallBounds, AllGone, SPos, WithinCapacity,
               device, faults, history
<1> QED
  BY <1>1, <1>2, <1>3, <1>4, <1>5, <1>6, <1>7, <1>8, <1>10, <1>11, <1>13,
     <1>14, <1>15, <1>16, <1>17, <1>18, <1>19, <1>20, <1>21, <1>22, <1>23, <1>24
  DEF Next, Write, Read, Stopped

(* The invariant that asks nothing of the users of the device holds in     *)
(* every state, whatever their calls do to each other                      *)
(* (gonilnik.c:103-183).                                                   *)
THEOREM AnyUseInvariant == Spec => []AnyUse
BY InitAnyUse, StepAnyUse, PTL DEF Spec

(* gonilnik.c:145-178: with any number of unsynchronised writers, at any   *)
(* positions, no position in a file passes the Q * S bytes of the array,   *)
(* and on cleared memory the device does not claim to hold more, as long   *)
(* as no pointer outside the array has been used.                          *)
THEOREM StaysWithinCapacity == Spec => []WithinCapacity
<1>1. AnyUse => WithinCapacity
  BY DEF AnyUse
<1> QED
  BY <1>1, AnyUseInvariant, PTL

-----------------------------------------------------------------------------
(* From here on: what holds for users that do not overlap their writes.    *)

(* Until two writes overlap there is one writer at a time.                 *)
OneWriter ==
  ~raced => \A p, q \in Users : Writing(p) /\ Writing(q) => p = q

(* Every position below x is written and has its quantum.                  *)
Below(x) == \A b \in 0..(x - 1) : b \in filled /\ b \div Q \in quanta

(* Nothing is in the array before it is cleared, nothing is filled without *)
(* a quantum, and no hole is below the end.                                *)
StoreSound ==
  /\ ~oops /\ data # "wild"
  /\ data # "array" => size = 0 /\ quanta = {} /\ filled = {}
  /\ data = "uncleared" => \E p \in Users : upc[p] = "clear"
  /\ \A b \in filled : b \div Q \in quanta
  /\ Below(size)

(* What a call has found out about the store is still so.                  *)
CallSound(p) ==
  /\ upc[p] = "newArray" => data = "null"
  /\ upc[p] = "clear" => data = "uncleared"
  /\ upc[p] \in {"quantum", "newQuantum", "copy", "size", "setSize"} =>
       data = "array"
  /\ upc[p] = "newQuantum" => SPos(p) \notin quanta
  /\ upc[p] = "copy" => SPos(p) \in quanta
  /\ upc[p] \in BeforeCopy => call[p].pos <= size
  /\ upc[p] \in {"size", "setSize"} => Below(call[p].pos) /\ call[p].pos <= Q * S
  /\ upc[p] = "setSize" => size < call[p].pos
  /\ upc[p] \in Readers => call[p].pos < size
  /\ upc[p] = "read" => call[p].pos + call[p].count <= size
  /\ \/ f_pos[p] <= size
     \/ upc[p] \in {"size", "setSize"} /\ f_pos[p] <= call[p].pos

Sound ==
  WellUsed =>
    /\ ~stale
    /\ Loaded => StoreSound /\ \A p \in Users : CallSound(p)
    /\ ~Loaded => size = 0

(* What a read has been told of size is still so, or size has been set in  *)
(* between (gonilnik.c:112-117).                                           *)
CountKept ==
  /\ over => regrown
  /\ \A p \in Users :
       /\ upc[p] \in {"limit", "shorten"} => call[p].count = call[p].asked
       /\ upc[p] = "shorten" /\ ~regrown =>
            call[p].pos <= size /\ size - call[p].pos < call[p].asked
       /\ upc[p] = "read" /\ ~regrown => call[p].count <= call[p].asked

IInv == AnyUse /\ OneWriter /\ Sound /\ CountKept

(* A store with nothing in it, and no call under way.                      *)
LEMMA InitIInv == Init => IInv
<1> SUFFICES ASSUME Init PROVE IInv
  OBVIOUS
<1>1. AnyUse
  BY InitAnyUse
<1>2. \A p \in Users : upc[p] = "closed" /\ f_pos[p] = 0
  <2> SUFFICES ASSUME NEW p \in Users PROVE upc[p] = "closed" /\ f_pos[p] = 0
    BY Zenon
  <2> QED
    BY Zenon DEF Init
<1>3. OneWriter
  BY <1>2 DEF OneWriter, Writing
<1>4. WellUsed => data = "null" /\ size = 0
  BY Zenon DEF Init, WellUsed
<1>5. quanta = {} /\ filled = {} /\ oops = FALSE /\ stale = FALSE /\ over = FALSE
  BY DEF Init
<1>6. \A p \in Users : WellUsed => CallSound(p)
  BY <1>2, <1>4 DEF CallSound, BeforeCopy, Readers
<1>7. WellUsed => StoreSound
  BY <1>4, <1>5 DEF StoreSound, Below
<1>8. CountKept
  BY <1>2, <1>5 DEF CountKept
<1> QED
  BY <1>1, <1>3, <1>4, <1>5, <1>6, <1>7, <1>8 DEF IInv, Sound

(* A step of p leaves the others where they are.                           *)
Step(p) == Open(p) \/ Release(p) \/ Write(p) \/ Read(p)

(* open, release, read and write touch no other file, nor what kmalloc     *)
(* returned at the start (gonilnik.c:91-183).                              *)
LEMMA OnlyP ==
  ASSUME AnyUse, NEW p \in Users, Step(p)
  PROVE  /\ upc[p] \in UPCs \ Gone
         /\ upc'[p] \in UPCs \ Gone
         /\ ~oops
         /\ \A q \in Users \ {p} :
              upc'[q] = upc[q] /\ call'[q] = call[q] /\ f_pos'[q] = f_pos[q]
<1> USE DEF AnyUse, TypeOK, Gone, UPCs
<1>1. CASE Open(p)
  BY <1>1 DEF Open, Goto
<1>2. CASE Release(p)
  BY <1>2 DEF Release, Goto
<1>3. CASE BeginWrite(p)
  BY <1>3 DEF BeginWrite, Goto, Aim
<1>4. CASE CheckArray(p) \/ CheckQuantum(p) \/ CheckSize(p)
  BY <1>4 DEF CheckArray, CheckQuantum, CheckSize, Goto
<1>5. CASE NewArray(p) \/ NoArray(p) \/ ClearArray(p)
  BY <1>5 DEF NewArray, NoArray, ClearArray, Replace, Goto, EndCall
<1>6. CASE NewQuantum(p) \/ NoQuantum(p)
  BY <1>6 DEF NewQuantum, NoQuantum, PutQuantum, Goto, EndCall
<1>7. CASE Copy(p)
  BY <1>7 DEF Copy, Goto
<1>8. CASE CopyFails(p) \/ SizeIsFine(p) \/ SetSize(p)
  BY <1>8 DEF CopyFails, SizeIsFine, SetSize, Goto, EndCall
<1>9. CASE BeginRead(p)
  BY <1>9 DEF BeginRead, Goto, Aim
<1>10. CASE CheckCount(p) \/ LimitCount(p)
  BY <1>10 DEF CheckCount, LimitCount, Goto
<1>11. CASE EndRead(p)
  BY <1>11 DEF EndRead, Goto, EndCall
<1> QED
  BY <1>1, <1>2, <1>3, <1>4, <1>5, <1>6, <1>7, <1>8, <1>9, <1>10, <1>11
  DEF Step, Write, Read

(* What kmalloc returned does not change, and what has happened has        *)
(* happened (gonilnik.c:91-183).                                           *)
LEMMA HistoryGrows ==
  ASSUME NEW p \in Users, Step(p)
  PROVE  /\ zeroed' = zeroed
         /\ ~raced' => ~raced
         /\ ~jumped' => ~jumped
<1>1. CASE Open(p) \/ Release(p)
  BY <1>1 DEF Open, Release, history
<1>2. CASE BeginWrite(p)
  BY <1>2, Zenon DEF BeginWrite
<1>3. CASE CheckArray(p) \/ CheckQuantum(p) \/ CheckSize(p) \/ SizeIsFine(p)
  BY <1>3 DEF CheckArray, CheckQuantum, CheckSize, SizeIsFine, history
<1>4. CASE NewArray(p) \/ NoArray(p) \/ ClearArray(p)
  BY <1>4 DEF NewArray, NoArray, ClearArray, Replace, history
<1>5. CASE NewQuantum(p) \/ NoQuantum(p) \/ Copy(p) \/ CopyFails(p)
  BY <1>5 DEF NewQuantum, NoQuantum, PutQuantum, Copy, CopyFails, history
<1>6. CASE SetSize(p)
  BY <1>6, Zenon DEF SetSize
<1>7. CASE BeginRead(p) \/ CheckCount(p) \/ LimitCount(p) \/ EndRead(p)
  BY <1>7 DEF BeginRead, CheckCount, LimitCount, EndRead, history
<1> QED
  BY <1>1, <1>2, <1>3, <1>4, <1>5, <1>6, <1>7, Zenon DEF Step, Write, Read

(* Only a write that begins while another is under way makes a second      *)
(* writer, and it is recorded.                                             *)
LEMMA StepOneWriter ==
  ASSUME IInv, NEW p \in Users, Step(p), ~raced'
  PROVE  /\ ~raced
         /\ OneWriter'
         /\ Writing(p) \/ BeginWrite(p) => \A q \in Users \ {p} : ~Writing(q)
<1>1. ~raced
  BY HistoryGrows
<1>2. BeginWrite(p) => \A q \in Users : ~Writing(q)
  BY Zenon DEF BeginWrite
<1>3. Writing(p) => \A q \in Users \ {p} : ~Writing(q)
  BY <1>1 DEF IInv, OneWriter
<1>4. \A q \in Users \ {p} : Writing(q)' => Writing(q)
  BY OnlyP DEF IInv, Writing, Reading
<1>5. Writing(p)' => Writing(p) \/ BeginWrite(p)
  <2> USE DEF Writing, Reading, Gone, UPCs
  <2>0. upc \in [Users -> UPCs]
    BY DEF IInv, AnyUse, TypeOK
  <2>1. CASE Open(p) \/ Release(p)
    BY <2>0, <2>1 DEF Open, Release, Goto
  <2>2. CASE Write(p)
    BY <2>0, <2>2 DEF Write, CheckArray, NewArray, NoArray, ClearArray, CheckQuantum,
              NewQuantum, NoQuantum, Copy, CopyFails, CheckSize, SizeIsFine,
              SetSize, Goto
  <2>3. CASE Read(p)
    BY <2>0, <2>3 DEF Read, BeginRead, CheckCount, LimitCount, EndRead, Goto
  <2> QED
    BY <2>1, <2>2, <2>3 DEF Step
<1>6. OneWriter'
  BY <1>2, <1>3, <1>4, <1>5, <1>1 DEF IInv, OneWriter
<1> QED
  BY <1>1, <1>2, <1>3, <1>6

(* Users that are not writing do not mind that the store grows.            *)
LEMMA ReadersSound ==
  ASSUME IInv, NEW q \in Users, CallSound(q), ~Writing(q),
         upc'[q] = upc[q], call'[q] = call[q], f_pos'[q] = f_pos[q],
         size' \in Nat, size <= size'
  PROVE  CallSound(q)'
<1>1. /\ upc[q] \in {"closed", "idle", "limit", "shorten", "read", "unloaded", "orphan"}
      /\ call[q].pos \in Nat /\ call[q].count \in Nat /\ f_pos[q] \in Nat /\ size \in Nat
  BY DEF Writing, Reading, Gone, IInv, AnyUse, TypeOK, UPCs
<1>2. /\ f_pos[q] <= size
      /\ upc[q] \in Readers => call[q].pos < size
      /\ upc[q] = "read" => call[q].pos + call[q].count <= size
  BY <1>1 DEF CallSound
<1>3. /\ f_pos'[q] <= size'
      /\ upc'[q] \in Readers => call'[q].pos < size'
      /\ upc'[q] = "read" => call'[q].pos + call'[q].count <= size'
  BY <1>1, <1>2
<1> QED
  BY <1>1, <1>3 DEF CallSound, BeforeCopy

(* And nobody minds a step that leaves the store alone.                    *)
LEMMA SameStore ==
  ASSUME NEW q \in Users, CallSound(q), UNCHANGED device,
         upc'[q] = upc[q], call'[q] = call[q], f_pos'[q] = f_pos[q]
  PROVE  CallSound(q)'
BY DEF CallSound, device, Below, SPos

(* A position up to Q * S is the place its bytes go to, and what a call    *)
(* copies lies in the quantum of its position (gonilnik.c:120-127).        *)
LEMMA SpanInSlot ==
  ASSUME AnyUse, NEW p \in Users, call[p].pos <= Q * S
  PROVE  /\ SPos(p) = call[p].pos \div Q /\ Place(p) = call[p].pos
         /\ \A n \in Nat : n <= Q - QPos(p) => \A b \in Span(p, n) : b \div Q = SPos(p)
<1>1. call[p].pos \in Nat
  BY DEF AnyUse, TypeOK
<1>2. QPos(p) \in 0..(Q - 1)
  BY <1>1, DivMod, QSetAssumption DEF QPos
<1>3. SPos(p) = call[p].pos \div Q /\ Place(p) = call[p].pos
  BY <1>1, Exact DEF SPos, QPos, Place
<1>4. ASSUME NEW n \in Nat, n <= Q - QPos(p), NEW b \in Span(p, n)
      PROVE  b \div Q = SPos(p)
  <2>1. b \in Int /\ call[p].pos <= b /\ b < call[p].pos + n
    BY <1>3, QSetAssumption DEF Span, Positions
  <2> DEFINE i == b - call[p].pos
  <2>2. i \in Nat /\ i < Q - (call[p].pos % Q) /\ b = call[p].pos + i
    BY <1>1, <1>2, <1>4, <2>1, QSetAssumption DEF QPos
  <2> HIDE DEF i
  <2>3. (call[p].pos + i) \div Q = call[p].pos \div Q
    BY <1>1, <2>2, QSetAssumption, SameQuantum
  <2> QED
    BY <1>3, <2>2, <2>3
<1> QED
  BY <1>3, <1>4

(* A history in which the users behave has been one up to now: what is     *)
(* sound then is sound before the step.                                    *)
LEMMA BehavedSoFar ==
  ASSUME IInv, NEW p \in Users, Step(p), WellUsed'
  PROVE  /\ WellUsed /\ Loaded /\ Loaded'
         /\ ~stale /\ StoreSound /\ \A q \in Users : CallSound(q)
         /\ Writing(p) \/ BeginWrite(p) => \A q \in Users \ {p} : ~Writing(q)
<1>1. zeroed' = zeroed /\ (~jumped' => ~jumped)
  BY HistoryGrows
<1>2. zeroed' /\ ~jumped' /\ ~raced'
  BY Zenon DEF WellUsed
<1>3. /\ WellUsed
      /\ Writing(p) \/ BeginWrite(p) => \A q \in Users \ {p} : ~Writing(q)
  BY <1>1, <1>2, StepOneWriter DEF WellUsed
<1>4. Loaded /\ Loaded'
  BY OnlyP DEF IInv, Loaded
<1> QED
  BY <1>3, <1>4 DEF IInv, Sound

(* A step of one user, in a history in which the users behave.             *)
LEMMA StepSound ==
  ASSUME IInv, NEW p \in Users, Step(p), WellUsed'
  PROVE  Sound'
<1>1. Writing(p) \/ BeginWrite(p) => \A q \in Users \ {p} : ~Writing(q)
  BY BehavedSoFar
<1>2. WellUsed /\ Loaded /\ Loaded'
  BY BehavedSoFar
<1>3. ~stale /\ StoreSound /\ \A q \in Users : CallSound(q)
  BY BehavedSoFar
<1>4. /\ size \in Nat /\ upc \in [Users -> UPCs]
      /\ f_pos[p] \in Nat /\ call[p].pos \in Nat /\ call[p].count \in Nat
      /\ call \in [Users -> [pos : Nat, count : Nat, asked : Nat, own : BOOLEAN]]
      /\ f_pos \in [Users -> Nat]
      /\ filled \subseteq Positions
  BY DEF IInv, AnyUse, TypeOK
<1>27. size <= Q * S /\ Q * S \in Nat /\ size' \in Nat
  <2>1. zeroed /\ ~oops
    BY <1>2, <1>3, Zenon DEF WellUsed, StoreSound
  <2>2. [Next]_vars
    BY DEF Next, Step
  <2>3. AnyUse'
    BY <2>2, StepAnyUse DEF IInv
  <2> QED
    BY <2>1, <2>3, QSetAssumption DEF IInv, AnyUse, WithinCapacity, TypeOK
<1>28. call[p].pos <= size => call[p].pos <= Q * S
  BY <1>4, <1>27
<1>5. SUFFICES /\ ~stale'
               /\ StoreSound'
               /\ CallSound(p)'
               /\ \A q \in Users \ {p} : CallSound(q)'
  BY <1>2 DEF Sound
<1>6. UNCHANGED device => \A q \in Users \ {p} : CallSound(q)'
  BY <1>3, OnlyP, SameStore DEF IInv
<1>7. (Writing(p) \/ BeginWrite(p)) /\ size' \in Nat /\ size <= size'
        => \A q \in Users \ {p} : CallSound(q)'
  BY <1>1, <1>3, OnlyP, ReadersSound DEF IInv
<1>8. /\ UNCHANGED device /\ ~oops'
      /\ upc[p] # "clear"
      => StoreSound'
  <2> SUFFICES ASSUME UNCHANGED device, ~oops', upc[p] # "clear" PROVE StoreSound'
    OBVIOUS
  <2>1. \A q \in Users : upc[q] = "clear" => upc'[q] = "clear"
    BY OnlyP DEF IInv
  <2> QED
    BY <1>3, <2>1 DEF StoreSound, Below, device
<1>9. CASE Open(p)
  <2>1. /\ UNCHANGED <<device, call, faults, history>>
        /\ upc[p] = "closed" /\ upc'[p] = "idle" /\ f_pos'[p] = 0
    BY <1>4, <1>9 DEF Open, Goto, Truncates, O_ACCMODE, O_WRONLY
  <2>2. CallSound(p)'
    BY <1>4, <2>1 DEF CallSound, BeforeCopy, Readers, device
  <2> QED
    BY <1>3, <1>6, <1>8, <2>1, <2>2, OnlyP DEF faults, history, IInv
<1>10. CASE Release(p)
  <2>1. /\ UNCHANGED <<device, call, faults, history>>
        /\ upc[p] = "idle" /\ upc'[p] = "closed" /\ f_pos'[p] = 0
    BY <1>4, <1>10 DEF Release, Goto
  <2>2. CallSound(p)'
    BY <1>4, <2>1 DEF CallSound, BeforeCopy, Readers, device
  <2> QED
    BY <1>3, <1>6, <1>8, <2>1, <2>2, OnlyP DEF faults, history, IInv
<1>11. CASE BeginWrite(p)
  <2>0. PICK n \in 0..MaxCount, own \in BOOLEAN : \E at \in Targets(p, own) :
          /\ Aim(p, n, at, own)
          /\ jumped' = (jumped \/ (at > size /\ ~own))
    BY <1>11 DEF BeginWrite
  <2>1. PICK at \in Targets(p, own) :
          /\ Aim(p, n, at, own)
          /\ jumped' = (jumped \/ (at > size /\ ~own))
    BY <2>0
  <2>2. /\ UNCHANGED <<device, f_pos, faults, stale>>
        /\ upc[p] = "idle" /\ upc'[p] = "array"
    BY <1>4, <1>11 DEF BeginWrite, Goto
  <2>3. at > size => own
    BY <1>2, <2>1, Zenon DEF WellUsed
  <2>4. at \in Nat /\ at <= size /\ call'[p].pos = at
    <3>1. own => at = f_pos[p]
      BY DEF Targets
    <3>2. f_pos[p] <= size
      BY <1>3, <2>2 DEF CallSound
    <3>3. at \in Nat
      BY <1>4, QSetAssumption DEF Targets
    <3>4. call'[p].pos = at
      BY <1>4, <2>1 DEF Aim
    <3> QED
      BY <1>4, <2>3, <3>1, <3>2, <3>3, <3>4, QSetAssumption
  <2>5. CallSound(p)'
    BY <1>3, <2>2, <2>4 DEF CallSound, BeforeCopy, Readers, device
  <2> QED
    BY <1>3, <1>6, <1>8, <2>2, <2>5, OnlyP DEF faults, IInv
<1>12. CASE CheckArray(p)
  <2>1. /\ UNCHANGED <<device, call, f_pos, faults, history>>
        /\ upc[p] = "array"
        /\ upc'[p] = IF data = "null" THEN "newArray" ELSE "quantum"
    BY <1>4, <1>12 DEF CheckArray, Goto
  <2>2. Writing(p)
    BY <2>1 DEF Writing, Reading, Gone
  <2>3. data # "null" => data = "array"
    <3>1. \A q \in Users : upc[q] # "clear"
      BY <1>1, <2>1, <2>2 DEF Writing, Reading, Gone
    <3>2. data \in {"null", "wild", "uncleared", "array"}
      BY DEF IInv, AnyUse, TypeOK
    <3> QED
      BY <1>3, <3>1, <3>2 DEF StoreSound
  <2>4. CallSound(p)'
    BY <1>3, <2>1, <2>3 DEF CallSound, BeforeCopy, Readers, device
  <2> QED
    BY <1>3, <1>6, <1>8, <2>1, <2>4, OnlyP DEF faults, history, IInv
<1>13. CASE NewArray(p)
  <2>1. /\ upc[p] = "newArray" /\ upc'[p] = "clear"
        /\ data' = "uncleared" /\ quanta' = {} /\ filled' = {}
        /\ UNCHANGED <<size, oops, f_pos, call, history>>
    BY <1>4, <1>13 DEF NewArray, Replace, Goto
  <2>2. Writing(p) /\ data = "null" /\ size = 0 /\ ~oops
    BY <1>3, <2>1 DEF Writing, Reading, Gone, CallSound, StoreSound
  <2>3. StoreSound'
    BY <2>1, <2>2 DEF StoreSound, Below
  <2>4. CallSound(p)'
    BY <1>3, <2>1 DEF CallSound, BeforeCopy, Readers
  <2> QED
    BY <1>3, <1>4, <1>7, <2>1, <2>2, <2>3, <2>4 DEF history
<1>14. CASE NoArray(p)
  <2>1. /\ upc[p] = "newArray" /\ upc'[p] = "idle"
        /\ data' = "null" /\ quanta' = {} /\ filled' = {}
        /\ UNCHANGED <<size, oops, f_pos, history>>
    BY <1>4, <1>14 DEF NoArray, Replace, Goto
  <2>2. Writing(p) /\ data = "null" /\ size = 0 /\ ~oops
    BY <1>3, <2>1 DEF Writing, Reading, Gone, CallSound, StoreSound
  <2>3. StoreSound'
    BY <2>1, <2>2 DEF StoreSound, Below
  <2>4. CallSound(p)'
    BY <1>3, <2>1 DEF CallSound, BeforeCopy, Readers
  <2> QED
    BY <1>3, <1>4, <1>7, <2>1, <2>2, <2>3, <2>4 DEF history
<1>15. CASE ClearArray(p)
  <2>1. upc[p] = "clear" /\ data = "uncleared" /\ size = 0 /\ Writing(p)
    BY <1>3, <1>15 DEF ClearArray, Goto, CallSound, StoreSound, Writing, Reading, Gone
  <2>2. /\ upc'[p] = "quantum"
        /\ data' = "array" /\ quanta' = {} /\ filled' = {} /\ oops' = FALSE
        /\ UNCHANGED <<size, f_pos, call, history>>
    BY <1>4, <1>15, <2>1 DEF ClearArray, Goto
  <2>3. StoreSound'
    BY <2>1, <2>2 DEF StoreSound, Below
  <2>4. CallSound(p)'
    BY <1>3, <2>1, <2>2 DEF CallSound, BeforeCopy, Readers
  <2> QED
    BY <1>3, <1>4, <1>7, <2>1, <2>2, <2>3, <2>4 DEF history
<1>16. CASE CheckQuantum(p)
  <2>0. ~(SPos(p) < 0)
    <3>1. call[p].pos <= Q * S
      BY <1>3, <1>4, <1>16, <1>28 DEF CheckQuantum, Goto, CallSound, BeforeCopy
    <3> QED
      BY <1>4, <3>1, Exact DEF SPos
  <2>1. /\ UNCHANGED <<device, call, f_pos, leaked, history>>
        /\ upc[p] = "quantum" /\ data = "array"
        /\ upc'[p] = IF SPos(p) \in quanta THEN "copy" ELSE "newQuantum"
        /\ ~oops'
    BY <1>3, <1>4, <1>16, <2>0 DEF CheckQuantum, Goto, CallSound
  <2>2. CallSound(p)'
    BY <1>3, <2>1 DEF CallSound, BeforeCopy, Readers, device, SPos
  <2> QED
    BY <1>3, <1>6, <1>8, <2>1, <2>2 DEF history
<1>17. CASE NewQuantum(p)
  <2>1. upc[p] = "newQuantum" /\ data = "array" /\ SPos(p) \notin quanta /\ Writing(p)
    BY <1>3, <1>17 DEF NewQuantum, Goto, CallSound, Writing, Reading, Gone
  <2>2. filled \ InSlot(SPos(p)) = filled
    BY <1>3, <2>1 DEF StoreSound, InSlot
  <2>3. /\ upc'[p] = "copy"
        /\ quanta' = quanta \cup {SPos(p)} /\ filled' = filled /\ ~oops'
        /\ UNCHANGED <<data, size, f_pos, call, history>>
    <3>1. ~oops'
      BY <1>17, <2>1 DEF NewQuantum, PutQuantum
    <3>2. quanta' = (quanta \ {SPos(p)}) \cup {SPos(p)}
      BY <1>17 DEF NewQuantum, PutQuantum
    <3>3. quanta' = quanta \cup {SPos(p)}
      BY <2>1, <3>2
    <3>4. upc'[p] = "copy"
      BY <1>4, <1>17 DEF NewQuantum, Goto
    <3> QED
      BY <1>17, <2>2, <3>1, <3>3, <3>4 DEF NewQuantum, PutQuantum
  <2>4. StoreSound'
    BY <1>3, <2>1, <2>3 DEF StoreSound, Below
  <2>5. CallSound(p)'
    BY <1>3, <2>1, <2>3 DEF CallSound, BeforeCopy, Readers, SPos
  <2> QED
    BY <1>3, <1>4, <1>7, <2>1, <2>3, <2>4, <2>5 DEF history
<1>18. CASE NoQuantum(p)
  <2>1. upc[p] = "newQuantum" /\ data = "array" /\ SPos(p) \notin quanta /\ Writing(p)
    BY <1>3, <1>18 DEF NoQuantum, Goto, CallSound, Writing, Reading, Gone
  <2>2. filled \ InSlot(SPos(p)) = filled
    BY <1>3, <2>1 DEF StoreSound, InSlot
  <2>3. /\ upc'[p] = "idle"
        /\ quanta' = quanta /\ filled' = filled /\ ~oops'
        /\ UNCHANGED <<data, size, f_pos, history>>
    <3>1. ~oops'
      BY <1>18, <2>1 DEF NoQuantum, PutQuantum
    <3>2. quanta' = (quanta \ {SPos(p)}) \cup {}
      BY <1>18 DEF NoQuantum, PutQuantum
    <3>3. quanta' = quanta
      BY <2>1, <3>2
    <3>4. upc'[p] = "idle"
      BY <1>4, <1>18 DEF NoQuantum, Goto
    <3> QED
      BY <1>18, <2>2, <3>1, <3>3, <3>4 DEF NoQuantum, PutQuantum
  <2>4. StoreSound'
    BY <1>3, <2>1, <2>3 DEF StoreSound, Below
  <2>5. CallSound(p)'
    BY <1>3, <2>1, <2>3 DEF CallSound, BeforeCopy, Readers
  <2> QED
    BY <1>3, <1>4, <1>7, <2>1, <2>3, <2>4, <2>5 DEF history
<1>19. CASE Copy(p)
  <2> DEFINE n == Limited(p, call[p].count)
  <2>1. upc[p] = "copy" /\ data = "array" /\ SPos(p) \in quanta /\ Writing(p)
    BY <1>3, <1>19 DEF Copy, Goto, CallSound, Writing, Reading, Gone
  <2>0. call[p].pos <= Q * S
    BY <1>3, <1>28, <2>1 DEF CallSound, BeforeCopy
  <2>2. n \in Nat /\ n <= Q - QPos(p) /\ call[p].pos + n <= Q * S
    <3>1. SPos(p) \in 0..(S - 1)
      BY <2>1 DEF IInv, AnyUse, TypeOK
    <3> QED
      BY <1>4, <2>0, <3>1, LimitedFits DEF IInv
  <2>3. /\ upc'[p] = "size" /\ oops' = FALSE
        /\ filled' = filled \cup Span(p, n)
        /\ call'[p].pos = call[p].pos + n
        /\ f_pos'[p] \in {f_pos[p], f_pos[p] + n}
        /\ call[p].own \/ f_pos'[p] = f_pos[p]
        /\ UNCHANGED <<data, quanta, size, leaked, history>>
    BY <1>4, <1>19, <2>1 DEF Copy, Goto
  <2> HIDE DEF n
  <2>4. \A b \in Span(p, n) : b \div Q = SPos(p)
    BY <2>0, <2>2, SpanInSlot DEF IInv
  <2>5. StoreSound'
    BY <1>3, <2>1, <2>3, <2>4 DEF StoreSound, Below
  <2>6. \A b \in 0..(call[p].pos + n - 1) : b \in filled' /\ b \div Q \in quanta'
    <3> SUFFICES ASSUME NEW b \in 0..(call[p].pos + n - 1)
                 PROVE  b \in filled' /\ b \div Q \in quanta'
      OBVIOUS
    <3>1. CASE b < call[p].pos
      <4>1. call[p].pos <= size
        BY <1>3, <2>1 DEF CallSound, BeforeCopy, Readers
      <4>2. b \in 0..(size - 1)
        BY <1>4, <2>2, <3>1, <4>1
      <4> QED
        BY <1>3, <2>3, <4>2 DEF StoreSound, Below
    <3>2. CASE call[p].pos <= b
      <4>0. Place(p) = call[p].pos
        BY <2>0, SpanInSlot DEF IInv
      <4>1. b \in Span(p, n)
        BY <1>4, <2>2, <3>2, <4>0, QSetAssumption DEF Span, Positions
      <4> QED
        BY <2>1, <2>3, <2>4, <4>1
    <3> QED
      BY <1>4, <2>2, <3>1, <3>2
  <2>7. f_pos'[p] <= size' \/ f_pos'[p] <= call'[p].pos
    <3>1. f_pos[p] <= size
      BY <1>3, <2>1 DEF CallSound
    <3>2. call[p].own => f_pos[p] = call[p].pos
      BY <2>1 DEF IInv, AnyUse, CallBounds, BeforeCopy
    <3> QED
      BY <1>4, <2>2, <2>3, <3>1, <3>2
  <2>8. CallSound(p)'
    <3>1. Below(call[p].pos)'
      <4>1. \A b \in 0..(call'[p].pos - 1) : b \in filled' /\ b \div Q \in quanta'
        <5>1. call'[p].pos = call[p].pos + n /\ call[p].pos \in Nat /\ n \in Nat
          BY <1>4, <2>2, <2>3
        <5>2. call'[p].pos \in Nat
          BY <5>1
        <5> QED
          BY <2>6, <5>1, <5>2
      <4> QED
        BY <4>1, Zenon DEF Below
    <3>2. upc'[p] = "size" /\ data' = "array" /\ call'[p].pos <= Q * S
      BY <2>1, <2>2, <2>3
    <3> QED
      BY <2>7, <3>1, <3>2 DEF CallSound, BeforeCopy, Readers
  <2> QED
    BY <1>3, <1>4, <1>7, <2>1, <2>3, <2>5, <2>8 DEF history
<1>20. CASE CopyFails(p)
  <2>1. upc[p] = "copy" /\ data = "array" /\ SPos(p) \in quanta /\ Writing(p)
    BY <1>3, <1>20 DEF CopyFails, Goto, CallSound, Writing, Reading, Gone
  <2>0. call[p].pos <= Q * S
    BY <1>3, <1>28, <2>1 DEF CallSound, BeforeCopy
  <2>2. PICK k \in 0..Limited(p, call[p].count) : filled' = filled \cup Span(p, k)
    BY <1>20 DEF CopyFails
  <2>3. /\ upc'[p] = "idle" /\ oops' = FALSE
        /\ UNCHANGED <<data, quanta, size, f_pos, leaked, history>>
    BY <1>4, <1>20, <2>1 DEF CopyFails, Goto
  <2>4. k \in Nat /\ k <= Q - QPos(p)
    <3>1. SPos(p) \in 0..(S - 1)
      BY <2>1 DEF IInv, AnyUse, TypeOK
    <3>2. QPos(p) \in Int
      BY <1>4, DivMod, QSetAssumption DEF QPos
    <3> QED
      BY <1>4, <3>1, <3>2, LimitedFits, QSetAssumption DEF IInv
  <2>5. \A b \in Span(p, k) : b \div Q = SPos(p)
    BY <2>0, <2>4, SpanInSlot DEF IInv
  <2>6. StoreSound'
    BY <1>3, <2>1, <2>2, <2>3, <2>5 DEF StoreSound, Below
  <2>7. CallSound(p)'
    BY <1>3, <2>1, <2>3 DEF CallSound, BeforeCopy, Readers
  <2> QED
    BY <1>3, <1>4, <1>7, <2>1, <2>3, <2>6, <2>7 DEF history
<1>21. CASE CheckSize(p)
  <2>1. /\ UNCHANGED <<device, call, f_pos, faults, history>>
        /\ upc[p] = "size" /\ upc'[p] = "setSize" /\ size < call[p].pos
    BY <1>4, <1>21 DEF CheckSize, Goto
  <2>2. CallSound(p)'
    BY <1>3, <2>1 DEF CallSound, BeforeCopy, Readers, device, Below
  <2> QED
    BY <1>3, <1>6, <1>8, <2>1, <2>2 DEF faults, history, StoreSound
<1>22. CASE SizeIsFine(p)
  <2>1. /\ UNCHANGED <<device, f_pos, faults, history>>
        /\ upc[p] = "size" /\ upc'[p] = "idle" /\ size >= call[p].pos
    BY <1>4, <1>22 DEF SizeIsFine, Goto
  <2>2. f_pos[p] <= size
    BY <1>3, <1>4, <2>1 DEF CallSound
  <2>3. CallSound(p)'
    BY <2>1, <2>2 DEF CallSound, BeforeCopy, Readers, device
  <2> QED
    BY <1>3, <1>6, <1>8, <2>1, <2>3 DEF faults, history, StoreSound
<1>23. CASE SetSize(p)
  <2>0. upc[p] = "setSize" /\ call[p].pos <= Q * S
    BY <1>3, <1>23 DEF SetSize, Goto, CallSound
  <2>1. /\ upc[p] = "setSize" /\ upc'[p] = "idle" /\ size' = call[p].pos
        /\ UNCHANGED <<data, quanta, filled, f_pos, faults, stale>>
    BY <1>4, <1>23, <2>0, Exact DEF SetSize, Goto
  <2>2. /\ Writing(p) /\ size < call[p].pos /\ Below(call[p].pos)
        /\ data = "array" /\ f_pos[p] <= call[p].pos
    BY <1>3, <1>4, <2>1 DEF Writing, Reading, Gone, CallSound
  <2>3. StoreSound'
    BY <1>3, <2>1, <2>2 DEF StoreSound, Below, faults
  <2>4. CallSound(p)'
    BY <2>1, <2>2 DEF CallSound, BeforeCopy, Readers
  <2> QED
    BY <1>3, <1>4, <1>7, <2>1, <2>2, <2>3, <2>4
<1>24. CASE BeginRead(p)
  <2>1. PICK n \in 0..MaxCount, own \in BOOLEAN : \E at \in Targets(p, own) :
          at < size /\ Aim(p, n, at, own)
    BY <1>24 DEF BeginRead
  <2>2. PICK at \in Targets(p, own) : at < size /\ Aim(p, n, at, own)
    BY <2>1
  <2>3. /\ UNCHANGED <<device, f_pos, faults, history>>
        /\ upc[p] = "idle" /\ upc'[p] = "limit" /\ call'[p].pos = at
    BY <1>4, <1>24, <2>2 DEF BeginRead, Goto, Aim
  <2>4. CallSound(p)'
    BY <1>3, <2>2, <2>3 DEF CallSound, BeforeCopy, Readers, device
  <2> QED
    BY <1>3, <1>6, <1>8, <2>3, <2>4 DEF faults, history, StoreSound
<1>25. CASE CheckCount(p)
  <2>1. /\ UNCHANGED <<device, f_pos, call, faults, history>>
        /\ upc[p] = "limit" /\ upc'[p] \in {"shorten", "read"}
        /\ upc'[p] = "read" =>
             ~(call[p].pos <= size /\ call[p].count > size - call[p].pos)
    BY <1>4, <1>25 DEF CheckCount, Goto
  <2>2. call[p].pos < size
    BY <1>3, <2>1 DEF CallSound, Readers
  <2>3. upc'[p] = "read" => call[p].pos + call[p].count <= size
    BY <1>4, <2>1, <2>2
  <2>4. CallSound(p)'
    BY <1>3, <2>1, <2>2, <2>3 DEF CallSound, BeforeCopy, Readers, device
  <2> QED
    BY <1>3, <1>6, <1>8, <2>1, <2>4 DEF faults, history, StoreSound
<1>29. CASE LimitCount(p)
  <2>1. /\ UNCHANGED <<device, f_pos, faults, history>>
        /\ upc[p] = "shorten" /\ upc'[p] = "read"
        /\ call'[p].pos = call[p].pos
        /\ call'[p].count = IF call[p].pos <= size THEN size - call[p].pos ELSE Q
    BY <1>4, <1>29 DEF LimitCount, Goto
  <2>2. call[p].pos < size
    BY <1>3, <2>1 DEF CallSound, Readers
  <2>3. call'[p].pos + call'[p].count <= size
    BY <1>4, <2>1, <2>2
  <2>4. CallSound(p)'
    BY <1>3, <2>1, <2>2, <2>3 DEF CallSound, BeforeCopy, Readers, device
  <2> QED
    BY <1>3, <1>6, <1>8, <2>1, <2>4 DEF faults, history, StoreSound
<1>26. CASE EndRead(p)
  <2> DEFINE at == call[p].pos
             n  == Limited(p, call[p].count)
  <2>1. /\ upc[p] = "read" /\ upc'[p] = "idle"
        /\ UNCHANGED <<device, leaked, zeroed, raced, jumped, regrown>>
        /\ oops' = (SPos(p) \notin quanta)
        /\ \/ /\ f_pos'[p] \in {f_pos[p], f_pos[p] + n}
              /\ call[p].own \/ f_pos'[p] = f_pos[p]
              /\ stale' = (stale \/ ~(Span(p, n) \subseteq filled))
           \/ UNCHANGED <<f_pos, stale>>
    BY <1>3, <1>4, <1>26 DEF EndRead, Goto
  <2>2. at < size /\ at + call[p].count <= size
    BY <1>3, <2>1 DEF CallSound, Readers
  <2>3. n \in Nat /\ at + n <= size
    <3>1. QPos(p) \in 0..(Q - 1)
      BY <1>4, DivMod, QSetAssumption DEF QPos
    <3> QED
      BY <1>4, <2>2, <3>1, QSetAssumption DEF Limited, Lesser
  <2> HIDE DEF n
  <2>4. SPos(p) = at \div Q /\ Place(p) = at
    BY <1>28, <1>4, <2>2, SpanInSlot DEF IInv
  <2>5. ~oops'
    <3>1. at \in 0..(size - 1)
      BY <1>4, <2>2
    <3>2. SPos(p) \in quanta
      BY <1>3, <2>4, <3>1 DEF StoreSound, Below
    <3> QED
      BY <2>1, <3>2
  <2>6. Span(p, n) \subseteq filled
    <3>1. ASSUME NEW b \in Span(p, n) PROVE b \in 0..(size - 1)
      BY <1>4, <2>3, <2>4, QSetAssumption DEF Span, Positions
    <3> QED
      BY <1>3, <3>1 DEF StoreSound, Below
  <2>7. ~stale'
    BY <1>3, <2>1, <2>6
  <2>8. f_pos'[p] <= size
    <3>1. f_pos[p] <= size
      BY <1>3, <2>1 DEF CallSound
    <3>2. call[p].own => f_pos[p] = at
      BY <2>1 DEF IInv, AnyUse, CallBounds, Readers
    <3> QED
      BY <1>4, <2>1, <2>3, <3>1, <3>2
  <2>9. CallSound(p)'
    BY <2>1, <2>8 DEF CallSound, BeforeCopy, Readers, device
  <2> QED
    BY <1>6, <1>8, <2>1, <2>5, <2>7, <2>9
<1> QED
  BY <1>9, <1>10, <1>11, <1>12, <1>13, <1>14, <1>15, <1>16, <1>17, <1>18,
     <1>19, <1>20, <1>21, <1>22, <1>23, <1>24, <1>25, <1>26, <1>29 DEF Step, Write, Read

(* A read returns more than it was asked for only if size was set while it *)
(* looked at it twice (gonilnik.c:116-117).                                *)
LEMMA StepCountKept ==
  ASSUME IInv, NEW p \in Users, Step(p) PROVE CountKept'
<1>1. /\ size \in Nat /\ upc \in [Users -> UPCs] /\ Q \in Nat \ {0}
      /\ call \in [Users -> [pos : Nat, count : Nat, asked : Nat, own : BOOLEAN]]
      /\ upc[p] \notin Gone /\ upc'[p] \notin Gone
      /\ \A q \in Users \ {p} : upc'[q] = upc[q] /\ call'[q] = call[q]
  BY OnlyP, QSetAssumption DEF IInv, AnyUse, TypeOK
<1>2. CountKept
  BY DEF IInv
<1> DEFINE Kept(q) ==
      /\ upc[q] \in {"limit", "shorten"} => call[q].count = call[q].asked
      /\ upc[q] = "shorten" /\ ~regrown =>
           call[q].pos <= size /\ size - call[q].pos < call[q].asked
      /\ upc[q] = "read" /\ ~regrown => call[q].count <= call[q].asked
<1>3. \A q \in Users : Kept(q)
  BY <1>2 DEF CountKept
<1>4. ASSUME regrown' = regrown, size' = size, over' => regrown', Kept(p)'
      PROVE  CountKept'
  <2>1. \A q \in Users \ {p} : Kept(q)'
    BY <1>1, <1>3, <1>4
  <2> HIDE DEF Kept
  <2>2. \A q \in Users : Kept(q)'
    BY <1>4, <2>1
  <2> QED
    BY <1>4, <2>2 DEF CountKept, Kept
<1>5. CASE Open(p)
  <2>1. UNCHANGED <<device, history>> /\ upc'[p] = "idle"
    BY <1>1, <1>5 DEF Open, Goto, Truncates, O_ACCMODE, O_WRONLY
  <2> QED
    BY <1>2, <1>4, <2>1 DEF device, history, CountKept
<1>6. CASE Release(p)
  <2>1. UNCHANGED <<device, history>> /\ upc'[p] = "closed"
    BY <1>1, <1>6 DEF Release, Goto
  <2> QED
    BY <1>2, <1>4, <2>1 DEF device, history, CountKept
<1>7. CASE BeginWrite(p)
  <2>1. UNCHANGED <<device, over, regrown>> /\ upc'[p] = "array"
    BY <1>1, <1>7 DEF BeginWrite, Goto
  <2> QED
    BY <1>2, <1>4, <2>1 DEF device, CountKept
<1>8. CASE CheckArray(p) \/ CheckQuantum(p) \/ CheckSize(p) \/ SizeIsFine(p)
  <2>1. UNCHANGED <<device, history>> /\ upc'[p] \notin Readers
    BY <1>1, <1>8 DEF CheckArray, CheckQuantum, CheckSize, SizeIsFine, Goto, Readers
  <2> QED
    BY <1>2, <1>4, <2>1 DEF device, history, CountKept, Readers
<1>9. CASE NewArray(p) \/ NoArray(p) \/ ClearArray(p) \/ NewQuantum(p) \/ NoQuantum(p)
  <2>1. UNCHANGED <<size, history>> /\ upc'[p] \notin Readers
    BY <1>1, <1>9 DEF NewArray, NoArray, ClearArray, NewQuantum, NoQuantum, Replace,
                      PutQuantum, Goto, Readers
  <2> QED
    BY <1>2, <1>4, <2>1 DEF history, CountKept, Readers
<1>10. CASE Copy(p) \/ CopyFails(p)
  <2>1. UNCHANGED <<size, history>> /\ upc'[p] \notin Readers
    BY <1>1, <1>10 DEF Copy, CopyFails, Goto, Readers
  <2> QED
    BY <1>2, <1>4, <2>1 DEF history, CountKept, Readers
<1>11. CASE SetSize(p)
  <2>1. /\ upc'[p] = "idle" /\ upc[p] = "setSize" /\ UNCHANGED over
        /\ regrown \/ (\E o \in Users : upc[o] = "shorten") => regrown'
        /\ ~regrown' => ~regrown /\ \A o \in Users : upc[o] # "shorten"
    <3>1. regrown' = (regrown \/ \E o \in Users : upc[o] = "shorten") /\ UNCHANGED over
      BY <1>11, Zenon DEF SetSize
    <3>2. /\ regrown \/ (\E o \in Users : upc[o] = "shorten") => regrown'
          /\ ~regrown' => ~regrown /\ \A o \in Users : upc[o] # "shorten"
      BY <3>1, Zenon
    <3>3. upc'[p] = "idle" /\ upc[p] = "setSize"
      BY <1>1, <1>11 DEF SetSize, Goto
    <3> QED
      BY <3>1, <3>2, <3>3
  <2>2. \A q \in Users : Kept(q)'
    <3> SUFFICES ASSUME NEW q \in Users PROVE Kept(q)'
      OBVIOUS
    <3>1. CASE q = p
      BY <2>1, <3>1
    <3>2. CASE q # p
      BY <1>1, <1>3, <2>1, <3>2
    <3> QED
      BY <3>1, <3>2
  <2>3. over' => regrown'
    BY <1>2, <2>1 DEF CountKept
  <2> HIDE DEF Kept
  <2> QED
    BY <2>2, <2>3 DEF CountKept, Kept
<1>12. CASE BeginRead(p)
  <2>1. PICK n \in 0..MaxCount, own \in BOOLEAN, at \in Targets(p, FALSE) \cup Targets(p, TRUE) :
          Aim(p, n, at, own)
    BY <1>12 DEF BeginRead, Targets
  <2>2. /\ UNCHANGED <<device, history>> /\ upc'[p] = "limit"
        /\ call'[p].count = call'[p].asked
    BY <1>1, <1>12, <2>1 DEF BeginRead, Goto, Aim
  <2> QED
    BY <1>2, <1>4, <2>2 DEF device, history, CountKept
<1>13. CASE CheckCount(p)
  <2>1. /\ UNCHANGED <<device, call, history>> /\ upc[p] = "limit"
        /\ upc'[p] = IF call[p].pos <= size /\ call[p].count > size - call[p].pos
                     THEN "shorten" ELSE "read"
    BY <1>1, <1>13 DEF CheckCount, Goto
  <2>2. call[p].count = call[p].asked
    BY <1>3, <2>1
  <2>3. Kept(p)'
    BY <1>1, <2>1, <2>2 DEF device
  <2> QED
    BY <1>2, <1>4, <2>1, <2>3 DEF device, history, CountKept
<1>14. CASE LimitCount(p)
  <2>1. /\ UNCHANGED <<device, history>> /\ upc[p] = "shorten" /\ upc'[p] = "read"
        /\ call'[p].asked = call[p].asked
        /\ call'[p].count = IF call[p].pos <= size THEN size - call[p].pos ELSE Q
    BY <1>1, <1>14 DEF LimitCount, Goto
  <2>2. ~regrown => call[p].pos <= size /\ size - call[p].pos < call[p].asked
    BY <1>3, <2>1
  <2>3. Kept(p)'
    BY <1>1, <2>1, <2>2 DEF history
  <2> QED
    BY <1>2, <1>4, <2>1, <2>3 DEF device, history, CountKept
<1>15. CASE EndRead(p)
  <2> DEFINE n == Limited(p, call[p].count)
  <2>1. /\ UNCHANGED <<device, regrown>> /\ upc[p] = "read" /\ upc'[p] = "idle"
        /\ over' = (over \/ n > call[p].asked) \/ over' = over
    BY <1>1, <1>15 DEF EndRead, Goto
  <2>2. n <= call[p].count
    <3>1. QPos(p) \in 0..(Q - 1)
      BY <1>1, DivMod DEF QPos
    <3> QED
      BY <1>1, <3>1 DEF Limited, Lesser
  <2>3. n > call[p].asked => regrown
    <3>1. ~regrown => call[p].count <= call[p].asked
      BY <1>3, <2>1
    <3>2. n \in Int
      <4>1. QPos(p) \in 0..(Q - 1)
        BY <1>1, DivMod DEF QPos
      <4> QED
        BY <1>1, <4>1 DEF Limited, Lesser
    <3> QED
      BY <1>1, <2>2, <3>1, <3>2
  <2> HIDE DEF n
  <2>4. over' => regrown'
    BY <1>2, <2>1, <2>3 DEF CountKept
  <2> QED
    BY <1>4, <2>1, <2>4 DEF device
<1> QED
  BY <1>5, <1>6, <1>7, <1>8, <1>9, <1>10, <1>11, <1>12, <1>13, <1>14, <1>15
  DEF Step, Write, Read

(* No step of any user, nor the unloading, breaks it.                      *)
LEMMA StepIInv == IInv /\ [Next]_vars => IInv'
<1> SUFFICES ASSUME IInv, [Next]_vars PROVE IInv'
  OBVIOUS
<1>1. AnyUse'
  BY StepAnyUse DEF IInv
<1>2. ASSUME NEW p \in Users, Step(p) PROVE OneWriter' /\ Sound' /\ CountKept'
  <2>1. OneWriter'
    BY <1>2, StepOneWriter DEF OneWriter
  <2>2. Sound'
    BY <1>2, StepSound DEF Sound
  <2> QED
    BY <1>2, <2>1, <2>2, StepCountKept
<1>3. ASSUME Cleanup PROVE OneWriter' /\ Sound' /\ CountKept'
  <2>1. /\ size' = 0 /\ UNCHANGED history
        /\ upc' = [p \in Users |-> IF upc[p] = "closed" THEN "unloaded" ELSE "orphan"]
    BY <1>3 DEF Cleanup, Trim
  <2>2. \A p \in Users : upc'[p] \in Gone
    BY <2>1 DEF Gone
  <2>3. OneWriter'
    BY <2>2 DEF OneWriter, Writing
  <2>4. ~Loaded'
    BY <2>2 DEF Loaded
  <2>5. WellUsed' => WellUsed /\ stale' = stale
    BY <2>1 DEF WellUsed, history
  <2>6. Sound'
    BY <2>1, <2>4, <2>5 DEF Sound, IInv
  <2>7. CountKept'
    BY <2>1, <2>2 DEF IInv, CountKept, Gone, history
  <2> QED
    BY <2>3, <2>6, <2>7
<1>4. ASSUME NEW p \in Users, UseOrphan(p) PROVE OneWriter' /\ Sound' /\ CountKept'
  <2>1. /\ UNCHANGED <<device, f_pos, call, leaked, history>>
        /\ upc' = upc /\ upc[p] = "orphan"
    BY <1>4 DEF UseOrphan, Goto, IInv, AnyUse, TypeOK
  <2>2. ~Loaded
    BY <2>1 DEF Loaded, IInv, AnyUse, AllGone, Gone
  <2>3. OneWriter' /\ CountKept'
    BY <2>1 DEF IInv, OneWriter, CountKept, Writing, Reading, device, history
  <2>4. Sound'
    BY <2>1, <2>2 DEF IInv, Sound, WellUsed, Loaded, device, history
  <2> QED
    BY <2>3, <2>4
<1>5. ASSUME UNCHANGED vars PROVE OneWriter' /\ Sound' /\ CountKept'
  <2>1. OneWriter' /\ CountKept'
    BY <1>5 DEF IInv, OneWriter, CountKept, Writing, Reading, vars, device, history
  <2>2. Sound'
    BY <1>5 DEF IInv, Sound, WellUsed, Loaded, StoreSound, CallSound, Below,
                SPos, vars, device, faults, history
  <2> QED
    BY <2>1, <2>2
<1> QED
  BY <1>1, <1>2, <1>3, <1>4, <1>5 DEF IInv, Next, Step, Stopped

(* The whole inductive invariant: what any use leaves intact, and what     *)
(* use without overlapping writes adds to it (gonilnik.c:76-183).          *)
THEOREM InductiveInvariant == Spec => []IInv
BY InitIInv, StepIInv, PTL DEF Spec

(* gonilnik.c:127: read follows dev->data[s_pos] unchecked, and may: for   *)
(* users whose writes do not overlap, every position below size has a      *)
(* quantum and has been written, whatever allocations have failed.         *)
THEOREM NeverAHole == Spec => []NoHole
<1>1. IInv => NoHole
  <2>1. IInv /\ WellUsed /\ Loaded => Below(size)
    BY DEF IInv, Sound, StoreSound
  <2>2. IInv /\ WellUsed /\ ~Loaded => size = 0
    BY DEF IInv, Sound
  <2>3. size = 0 => Below(size)
    BY DEF Below
  <2> QED
    BY <2>1, <2>2, <2>3 DEF NoHole, Below
<1> QED
  BY <1>1, InductiveInvariant, PTL

(* gonilnik.c:103-134: for such users no read returns a byte nobody wrote, *)
(* and no call uses a bad pointer while the driver is loaded; for any      *)
(* users, a read returns more than it was asked for only if size was set   *)
(* between lines 116 and 117.                                              *)
THEOREM NoStaleReads == Spec => []ReadsWhatWasWritten
<1>1. IInv => ReadsWhatWasWritten
  BY DEF IInv, Sound, StoreSound, CountKept, ReadsWhatWasWritten
<1> QED
  BY <1>1, InductiveInvariant, PTL

-----------------------------------------------------------------------------
(* What the bytes written, and the memory behind them, come to. *)

(* A step of one user leaves size alone or finds it too small.             *)
LEMMA StepSize ==
  ASSUME IInv, NEW p \in Users, Step(p), WellUsed'
  PROVE  size' >= size
<1>1. size \in Nat /\ CallSound(p) /\ call[p].pos \in Nat
  BY BehavedSoFar DEF IInv, AnyUse, TypeOK
<1>2. CASE SetSize(p)
  <2>1. upc[p] = "setSize" /\ size' = Unsigned(call[p].pos)
    BY <1>2 DEF SetSize, Goto
  <2> QED
    BY <1>1, <2>1, Exact DEF CallSound
<1>3. CASE Open(p)
  BY <1>1, <1>3 DEF Open, Truncates, O_ACCMODE, O_WRONLY, device
<1>4. CASE Release(p) \/ BeginWrite(p) \/ CheckArray(p) \/ CheckQuantum(p) \/ CheckSize(p)
           \/ SizeIsFine(p) \/ BeginRead(p) \/ CheckCount(p) \/ LimitCount(p) \/ EndRead(p)
  <2>1. UNCHANGED device
    BY <1>4 DEF Release, BeginWrite, CheckArray, CheckQuantum, CheckSize, SizeIsFine,
                BeginRead, CheckCount, LimitCount, EndRead
  <2> QED
    BY <1>1, <2>1 DEF device
<1>5. CASE NewArray(p) \/ NoArray(p) \/ ClearArray(p) \/ NewQuantum(p) \/ NoQuantum(p)
           \/ Copy(p) \/ CopyFails(p)
  <2>1. size' = size
    BY <1>5 DEF NewArray, NoArray, ClearArray, NewQuantum, NoQuantum, Copy, CopyFails,
                Replace, PutQuantum
  <2> QED
    BY <1>1, <2>1
<1> QED
  BY <1>2, <1>3, <1>4, <1>5 DEF Step, Write, Read

(* gonilnik.c:93, 177: the bytes written stay, whatever order the calls of *)
(* the users come in and whatever fails: while the driver is loaded no     *)
(* step makes size smaller.                                                *)
THEOREM BytesStay == Spec => SizeNeverShrinks
<1>1. IInv /\ [Next]_vars => [WellUsed' /\ Loaded' => size' >= size]_vars
  <2> SUFFICES ASSUME IInv, [Next]_vars, WellUsed', Loaded'
               PROVE  size' >= size
    OBVIOUS
  <2>1. ASSUME NEW p \in Users, Step(p) PROVE size' >= size
    BY <2>1, StepSize
  <2>2. ~Cleanup
    BY DEF Cleanup, Loaded, Gone
  <2>3. CASE UNCHANGED vars \/ \E p \in Users : UseOrphan(p)
    BY <2>3 DEF UseOrphan, vars, device, IInv, AnyUse, TypeOK
  <2> QED
    BY <2>1, <2>2, <2>3 DEF Next, Step, Stopped
<1> QED
  BY <1>1, InductiveInvariant, PTL DEF Spec, SizeNeverShrinks

Orphaned == \E p \in Users : upc[p] = "orphan"

(* What trim finds when the module is unloaded: an array of its own, and   *)
(* nothing lost yet.                                                       *)
Kept ==
  WellUsed =>
    /\ Q >= S => ~leaked
    /\ Q <= S /\ ~Orphaned => ~oops

(* A device that is loaded with its memory zeroed has leaked nothing.      *)
LEMMA InitKept == Init => Kept
<1> SUFFICES ASSUME Init PROVE ~leaked /\ ~oops
  BY DEF Kept
<1> QED
  BY Zenon DEF Init

(* A step of one user forgets no memory: what it replaces is not there.    *)
LEMMA StepKeeps ==
  ASSUME IInv, NEW p \in Users, Step(p), WellUsed'
  PROVE  ~oops' /\ (leaked' => leaked)
<1>1. /\ StoreSound /\ CallSound(p)
      /\ IInv' /\ Loaded'
  <2>1. [Next]_vars
    BY DEF Next, Step
  <2> QED
    BY <2>1, BehavedSoFar, StepIInv
<1>2. ~oops'
  BY <1>1 DEF IInv, Sound, StoreSound
<1>3. ASSUME NewArray(p) \/ NoArray(p) PROVE leaked' => leaked
  <2>1. data = "null"
    BY <1>1, <1>3 DEF NewArray, NoArray, Goto, CallSound
  <2> QED
    BY <1>3, <2>1, Zenon DEF NewArray, NoArray, Replace
<1>4. ASSUME ClearArray(p) PROVE leaked' => leaked
  <2>1. quanta = {}
    BY <1>1, <1>4 DEF ClearArray, Goto, CallSound, StoreSound
  <2> QED
    BY <1>4, <2>1, Zenon DEF ClearArray
<1>5. ASSUME NewQuantum(p) \/ NoQuantum(p) PROVE leaked' => leaked
  <2>1. SPos(p) \notin quanta
    BY <1>1, <1>5 DEF NewQuantum, NoQuantum, Goto, CallSound
  <2> QED
    BY <1>5, <2>1, Zenon DEF NewQuantum, NoQuantum, PutQuantum
<1>6. ASSUME Open(p) PROVE leaked' => leaked
  <2>1. UNCHANGED faults
    BY <1>6 DEF Open, Truncates, O_ACCMODE, O_WRONLY
  <2> QED
    BY <2>1 DEF faults
<1>7. ASSUME Release(p) \/ BeginWrite(p) \/ CheckArray(p) \/ CheckQuantum(p)
             \/ Copy(p) \/ CopyFails(p) \/ CheckSize(p) \/ SizeIsFine(p)
             \/ SetSize(p) \/ Read(p)
      PROVE  leaked' => leaked
  BY <1>7, Zenon
  DEF Release, BeginWrite, CheckArray, CheckQuantum, Copy, CopyFails, CheckSize,
      SizeIsFine, SetSize, Read, BeginRead, CheckCount, LimitCount, EndRead, faults
<1> QED
  BY <1>2, <1>3, <1>4, <1>5, <1>6, <1>7 DEF Step, Write

(* What unloading, or using the module afterwards, adds to that.           *)
LEMMA StepKept == IInv /\ Kept /\ [Next]_vars => Kept'
<1> SUFFICES ASSUME IInv, Kept, [Next]_vars, WellUsed'
             PROVE  (Q >= S => ~leaked') /\ (Q <= S /\ ~Orphaned' => ~oops')
  BY DEF Kept
<1>1. ASSUME NEW p \in Users, Step(p)
      PROVE  ~oops' /\ (leaked' => leaked) /\ WellUsed
  BY <1>1, StepKeeps, BehavedSoFar
<1>2. ASSUME Cleanup
      PROVE  (Q >= S => ~leaked') /\ (Q <= S /\ ~Orphaned' => ~oops')
  <2>1. WellUsed /\ Loaded
    BY <1>2, Zenon DEF Cleanup, Loaded, WellUsed, history
  <2>2. data # "wild" /\ quanta \subseteq 0..(S - 1) /\ StoreSound
    BY <2>1 DEF IInv, Sound, StoreSound, AnyUse, TypeOK
  <2>3. ASSUME Q >= S PROVE ~leaked'
    <3>1. ~\E s \in quanta : s >= Q
      BY <2>2, <2>3, QSetAssumption
    <3>2. ~leaked
      BY <2>1, <2>3 DEF Kept
    <3> QED
      BY <1>2, <3>1, <3>2, Zenon DEF Cleanup, Trim
  <2>4. ASSUME Q <= S, ~Orphaned' PROVE ~oops'
    <3>1. \A p \in Users : upc[p] = "closed"
      <4>1. upc' = [p \in Users |-> IF upc[p] = "closed" THEN "unloaded" ELSE "orphan"]
        BY <1>2 DEF Cleanup
      <4> QED
        BY <2>4, <4>1 DEF Orphaned
    <3>2. data # "uncleared"
      BY <2>2, <3>1 DEF StoreSound
    <3>3. data \in {"null", "array"} /\ ~(Q > S)
      BY <2>2, <2>4, <3>2, QSetAssumption DEF IInv, AnyUse, TypeOK
    <3> QED
      BY <1>2, <3>3 DEF Cleanup, Trim
  <2> QED
    BY <2>3, <2>4
<1>3. ASSUME NEW p \in Users, UseOrphan(p)
      PROVE  Orphaned' /\ UNCHANGED leaked /\ WellUsed
  <2>1. UNCHANGED <<leaked, history>> /\ upc'[p] = "orphan"
    BY <1>3 DEF UseOrphan, Goto, IInv, AnyUse, TypeOK
  <2> QED
    BY <2>1, Zenon DEF Orphaned, WellUsed, history
<1>4. CASE UNCHANGED vars
  <2>1. UNCHANGED <<leaked, oops, upc, zeroed, raced, jumped>>
    BY <1>4 DEF vars, faults, history
  <2> QED
    BY <2>1 DEF Kept, WellUsed, Orphaned
<1> QED
  BY <1>1, <1>2, <1>3, <1>4 DEF Next, Step, Stopped, Kept

(* The invariant of what unloading does (gonilnik.c:67-89).                *)
THEOREM KeptInvariant == Spec => []Kept
BY InitKept, StepKept, InductiveInvariant, PTL DEF Spec

(* gonilnik.c:79: trim counts to Q where the array has S entries, so that  *)
(* unloading, at any moment, loses no quantum if Q >= S.                   *)
THEOREM UnloadingFreesAll == Spec => []UnloadFreesAll
<1>1. Kept => UnloadFreesAll
  BY DEF Kept, UnloadFreesAll
<1> QED
  BY <1>1, KeptInvariant, PTL

(* Nothing goes wrong for users who behave and have closed the device.     *)
UnloadsInBounds == WellUsed /\ Q <= S /\ ~Orphaned => ~oops

(* gonilnik.c:79: and it frees nothing it must not free if Q <= S, which   *)
(* the program's 10 and 5 are not, and nobody has the device open.         *)
THEOREM UnloadingInBounds == Spec => []UnloadsInBounds
<1>1. Kept => UnloadsInBounds
  BY DEF Kept, UnloadsInBounds
<1> QED
  BY <1>1, KeptInvariant, PTL
=============================================================================
