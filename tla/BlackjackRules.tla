--------------------------- MODULE BlackjackRules ---------------------------
(***************************************************************************)
(* What both programs of exercise 8 promise: game after game of a simple   *)
(* blackjack between one player and the house.  An ace is worth 1; 21      *)
(* ends the game at once for whoever draws it; the house draws to 17.      *)
(***************************************************************************)
EXTENDS Integers

CONSTANT Values   (* what cards are worth, 1..10 in the programs            *)

VARIABLES
  player, house,  (* the totals on the table, 0 between games               *)
  phase,          (* whose turn it is                                       *)
  said            (* how the last game ended, "none" when it was abandoned  *)

vars == <<player, house, phase, said>>

Pairs == {a + b : a, b \in Values}

Verdict(p, h) ==
  IF h > 21 \/ p > h THEN "WIN" ELSE IF p = h THEN "SPLIT" ELSE "LOSS"

Over(end) ==
  phase' = "over" /\ said' = end /\ player' = 0 /\ house' = 0

Init == player = 0 /\ house = 0 /\ phase = "over" /\ said = "none"

DealPlayer ==
  /\ phase = "over" /\ phase' = "dealt"
  /\ player' \in Pairs
  /\ house' = 0 /\ said' = "none"

DealHouse ==
  /\ phase = "dealt" /\ phase' = "player"
  /\ house' \in Pairs
  /\ UNCHANGED <<player, said>>

Hit ==
  /\ phase = "player"
  /\ \E v \in Values :
       \/ player + v > 21 /\ Over("BUST")
       \/ player + v = 21 /\ Over("BLACKJACK")
       \/ player + v < 21 /\ player' = player + v /\ UNCHANGED <<house, phase, said>>

Stand ==
  /\ phase = "player" /\ phase' = "house"
  /\ UNCHANGED <<player, house, said>>

Draw ==
  /\ phase = "house" /\ house < 17
  /\ \E v \in Values :
       \/ house + v = 21 /\ Over("HOUSE BLACKJACK")
       \/ house + v # 21 /\ house' = house + v /\ UNCHANGED <<player, phase, said>>

Settle ==
  /\ phase = "house" /\ house >= 17
  /\ Over(Verdict(player, house))

(* The player has gone away, perhaps before a card was dealt.              *)
Abandon == Over("none")

Next ==
  DealPlayer \/ DealHouse \/ Hit \/ Stand \/ Draw \/ Settle \/ Abandon

Spec == Init /\ [][Next]_vars
=============================================================================
