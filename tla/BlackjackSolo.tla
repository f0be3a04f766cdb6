---------------------------- MODULE BlackjackSolo ----------------------------
(***************************************************************************)
(* blackjack.c of exercise 8: the game at one terminal, over and over.     *)
(* The totals are global and live from game to game; whoever draws 21 ends *)
(* not the game but the program.                                           *)
(***************************************************************************)
EXTENDS Integers

CONSTANT Values   (* vrednosti_kart                                         *)

VARIABLES
  igralec, hisa,  (* the totals                                             *)
  pc,             (* the next statement of blackjack                        *)
  said            (* history: how the last game ended                       *)

vars == <<igralec, hisa, pc, said>>

Init == igralec = 0 /\ hisa = 0 /\ pc = "deal" /\ said = "none"

(* A mutation of DealPlayer: the total of the last game is still in it.    *)
DealPlayer_Adds ==
  /\ pc = "deal" /\ pc' = "dealHouse"
  /\ \E a, b \in Values : igralec' = igralec + a + b
  /\ said' = "none" /\ UNCHANGED hisa

DealPlayer ==
  /\ pc = "deal" /\ pc' = "dealHouse"
  /\ \E a, b \in Values : igralec' = a + b
  /\ said' = "none" /\ UNCHANGED hisa

DealHouse ==
  /\ pc = "dealHouse" /\ pc' = "while"
  /\ \E a, b \in Values : hisa' = a + b
  /\ UNCHANGED <<igralec, said>>

(* "da"                                                                    *)
Hit ==
  /\ pc = "while" /\ igralec <= 21
  /\ \E v \in Values : igralec' = igralec + v
  /\ pc' = IF igralec' = 21 THEN "exited" ELSE IF igralec' > 21 THEN "deal" ELSE pc
  /\ said' = IF igralec' = 21 THEN "BLACKJACK"
             ELSE IF igralec' > 21 THEN "BUST" ELSE said
  /\ UNCHANGED hisa

(* Anything else.  A player past 21 never gets here: Hit has returned.     *)
Stand ==
  /\ pc = "while" /\ igralec <= 21 /\ pc' = "house"
  /\ UNCHANGED <<igralec, hisa, said>>

Draw ==
  /\ pc = "house" /\ hisa < 17
  /\ \E v \in Values : hisa' = hisa + v
  /\ pc' = IF hisa' = 21 THEN "exited" ELSE pc
  /\ said' = IF hisa' = 21 THEN "HOUSE BLACKJACK" ELSE said
  /\ UNCHANGED igralec

Settle ==
  /\ pc = "house" /\ hisa >= 17 /\ pc' = "deal"
  /\ said' = IF hisa > 21 \/ igralec > hisa THEN "WIN"
             ELSE IF igralec = hisa THEN "SPLIT" ELSE "LOSS"
  /\ UNCHANGED <<igralec, hisa>>

Exited == pc = "exited" /\ UNCHANGED vars

Next == DealPlayer \/ DealHouse \/ Hit \/ Stand \/ Draw \/ Settle \/ Exited

Spec == Init /\ [][Next]_vars

-----------------------------------------------------------------------------
(* Properties *)

(* Every variable stays in its domain; no total passes what the rules of   *)
(* drawing allow.                                                          *)
TypeOK ==
  /\ igralec \in 0..30 /\ hisa \in 0..26
  /\ pc \in {"deal", "dealHouse", "while", "house", "exited"}
  /\ said \in {"none", "BLACKJACK", "BUST", "HOUSE BLACKJACK", "WIN", "SPLIT",
               "LOSS"}

(* The program plays by the same rules as the server of the exercise,      *)
(* though its loop asks up to 21 where the server's asks below 21          *)
(* (blackjack.c:32, server.c:90), and though nothing resets its totals     *)
(* between games but the deal.                                             *)
TableOver == pc \in {"deal", "exited"}
Rules ==
  INSTANCE BlackjackRules
    WITH player <- IF TableOver THEN 0 ELSE igralec,
         house  <- IF TableOver \/ pc = "dealHouse" THEN 0 ELSE hisa,
         phase  <- CASE TableOver        -> "over"
                     [] pc = "dealHouse" -> "dealt"
                     [] pc = "while"     -> "player"
                     [] pc = "house"     -> "house"
RulesSpec == Rules!Spec
=============================================================================
