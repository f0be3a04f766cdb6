------------------------------ MODULE Blackjack ------------------------------
(***************************************************************************)
(* Exercise 8: the game over the network or the one at a terminal.  The    *)
(* two share nothing but the rules.                                        *)
(***************************************************************************)
EXTENDS BlackjackTable

CONSTANT Deck     (* vrednosti_kart of the game at the terminal             *)

ASSUME DeckAssumption == Deck \subseteq 1..10

VARIABLES
  game,           (* the game that is looked at: "network" or "terminal"    *)
  mine, its, saidHere, pc   (* the variables of BlackjackSolo               *)

Solo ==
  INSTANCE BlackjackSolo
    WITH Values <- Deck, igralec <- mine, hisa <- its, said <- saidHere

soloVars == <<mine, its, saidHere, pc>>
gameVars == <<vars, soloVars, game>>

GameInit == Init /\ Solo!Init /\ game \in {"network", "terminal"}

GameNext ==
  \/ game = "network"  /\ Next      /\ UNCHANGED <<soloVars, game>>
  \/ game = "terminal" /\ Solo!Next /\ UNCHANGED <<vars, game>>

GameSpec ==
  /\ GameInit /\ [][GameNext]_gameVars
  /\ (game = "network" => Fairness)

-----------------------------------------------------------------------------
(* Properties *)

(* AllEnd of the clients at the network's table (client.c:12-36): only the *)
(* game at the terminal goes on for ever (blackjack.c:22).                 *)
TableEnds == game = "network" => AllEnd

(* RulesSpec of BlackjackSolo (blackjack.c:11-14, 32).                     *)
SoloRulesSpec == Solo!RulesSpec
=============================================================================
