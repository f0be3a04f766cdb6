---------------------------- MODULE MCQSetDriver ----------------------------
(***************************************************************************)
(* The driver for TLC: nothing tells its users apart.                      *)
(***************************************************************************)
EXTENDS QSetDriver, TLC

Alike == Permutations(Users)

(* Either the users behave; or, on cleared memory, calls that have begun   *)
(* overlap, each writing at its own position and as much as a call may     *)
(* bring, or one writer at a time starts anywhere; or size is what kmalloc *)
(* left there, more than fits, until there is a quantum.                   *)
Overlapping ==
  /\ raced /\ ~jumped
  /\ \A p \in Users : call[p].own /\ (Writing(p) => call[p].count = MaxCount)
  /\ \/ \A p \in Users : Writing(p)
     \/ \E p \in Users : upc[p] \in {"copy", "size", "setSize"}

Jumping == jumped /\ ~raced /\ \E p \in Users : Writing(p)

Uncleared == ~zeroed /\ ~raced /\ ~jumped /\ size > Q * S /\ quanta = {}

Explored == WellUsed \/ (zeroed /\ (Overlapping \/ Jumping)) \/ Uncleared
=============================================================================
