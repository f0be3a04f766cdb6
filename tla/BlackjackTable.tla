--------------------------- MODULE BlackjackTable ---------------------------
(***************************************************************************)
(* Exercise 8 over the network: the server and its clients.                *)
(***************************************************************************)
EXTENDS BlackjackServer, BlackjackClient

vars == <<net, svars, cvars>>

Init == NoConnections /\ SInit /\ CInit

Serve   == SNext /\ UNCHANGED cvars
Play(c) == Client(c, spc # "dead") /\ UNCHANGED svars

(* The server waits for clients for ever.                                  *)
Quiet ==
  /\ \A c \in Clients : cpc[c] \in {"done", "left"}
  /\ spc = "dead" \/ (spc = "accept" /\ queue = <<>>)
  /\ UNCHANGED vars

Next == Serve \/ (\E c \in Clients : Play(c)) \/ Quiet

(* Both programs run.  Whoever sits at a terminal answers in the end, and  *)
(* not for ever with something that is neither H nor S.  The reset of a    *)
(* broken connection arrives between two questions in the end.             *)
Fairness ==
  /\ WF_vars(Serve) /\ SF_vars(Sigpipe /\ UNCHANGED cvars)
  /\ \A c \in Clients :
       /\ WF_vars(Play(c) /\ cpc'[c] # "left")
       /\ SF_vars((Answer(c, "H") \/ Answer(c, "S")) /\ UNCHANGED svars)

Spec     == Init /\ [][Next]_vars
FairSpec == Spec /\ Fairness

-----------------------------------------------------------------------------
(* Properties *)

Pieces == [what : {"igralec", "hisa"}, worth : Values]
          \cup {Text(t) : t \in {"ask", "ask?", "BLACKJACK", "BUST", "WIN",
                                 "SPLIT", "LOSS", "HOUSE BLACKJACK"}}

(* Every variable stays in its domain, the totals within what the rules    *)
(* allow.                                                                  *)
TypeOK ==
  /\ queue \in Seq(Clients) /\ Len(queue) <= Backlog
  /\ toServer \in [Clients -> Seq({"H", "S", "other"})]
  /\ toClient \in [Clients -> Seq(Pieces)]
  /\ ended \subseteq Clients
  /\ left \in [Clients -> {"no", "fin", "rst", "broken"}]
  /\ spc \in {"accept", "deal", "dealHouse", "while", "read", "hit", "house",
              "dead"}
  /\ fd \in Clients \cup {NoOne}
  /\ igralec \in 0..30 /\ hisa \in 0..26
  /\ cpc \in [Clients -> {"connect", "read", "answer", "done", "left"}]
  /\ split \in [Clients -> BOOLEAN]

(* The game as the rules have it.  It is over as soon as the descriptor is *)
(* closed, whatever the server still computes; with a player who has left  *)
(* it is abandoned.                                                        *)
TableOver == fd = NoOne
Rules ==
  INSTANCE BlackjackRules
    WITH player <- IF TableOver \/ spc = "deal" THEN 0 ELSE igralec,
         house  <- IF TableOver THEN 0 ELSE hisa,
         phase  <- IF TableOver \/ spc = "deal" THEN "over"
                   ELSE CASE spc = "dealHouse" -> "dealt"
                          [] spc = "house"     -> "house"
                          [] OTHER             -> "player",
         said   <- said
RulesSpec == Rules!Spec

(* What a client's screen says at the end is one ending, the one that the  *)
(* cards on the same screen add up to: the texts the server still writes   *)
(* after its first close (server.c:198, 240) never get there.  Only a      *)
(* server that has died leaves a client without an ending.                 *)
Referee(screen) ==
  IF screen.igralec > 21 THEN "BUST"
  ELSE IF screen.igralec = 21 THEN "BLACKJACK"
  ELSE IF screen.hisa = 21 THEN "HOUSE BLACKJACK"
  ELSE Rules!Verdict(screen.igralec, screen.hisa)

ScreenAddsUp ==
  \A c \in Clients :
    cpc[c] = "done" =>
      \/ told[c].ends = <<Referee(told[c])>>
      \/ spc = "dead" /\ told[c].ends = <<>>

(* The server never closes a connection with an answer unread: the close   *)
(* would become a reset and could take the ending away from the client.    *)
NothingUnread ==
  \A c \in ended : left[c] = "no" => toServer[c] = <<>>

(* server.c:94 and client.c:24: the two wait for each other only when a    *)
(* read of the client has ended inside the question.                       *)
NoMutualWait ==
  spc = "read" /\ cpc[fd] = "read" /\ toServer[fd] = <<>> /\ toClient[fd] = <<>>
    => split[fd]

(* Every client comes to an end, those that wait while another one plays   *)
(* included, also when the server dies of a client that has left: unless a *)
(* question is split, for then the two wait for each other for ever.       *)
AllEnd ==
  <>(\/ \A c \in Clients : cpc[c] \in {"done", "left"}
     \/ \E c \in Clients : split[c])
=============================================================================
