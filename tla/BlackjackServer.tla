--------------------------- MODULE BlackjackServer ---------------------------
(***************************************************************************)
(* server.c of exercise 8: one client after the other is accepted and      *)
(* plays one game.  A total of 21 closes the connection inside the deal_   *)
(* function, and the game goes on: its writes and its second close fail on *)
(* a descriptor that is not open, and nobody looks at the error.           *)
(***************************************************************************)
EXTENDS TableNet

CONSTANT Values   (* vrednosti_kart                                         *)

NoOne == "no one"

ASSUME ServerAssumption == Values \subseteq 1..10 /\ NoOne \notin Clients

VARIABLES
  spc,            (* the next statement of main or blackjack                *)
  fd,             (* the connection sockfd refers to, NoOne when closed     *)
  igralec, hisa,  (* the totals                                             *)
  said            (* history: the end of the game the server has announced  *)

svars == <<spc, fd, igralec, hisa, said>>

SInit ==
  /\ spc = "accept" /\ fd = NoOne
  /\ igralec = 0 /\ hisa = 0
  /\ said = "none"

SGoto(from, to) == spc = from /\ spc' = to

(* The texts go out, and perhaps the descriptor is closed after them.      *)
Send(pieces) ==
  IF fd = NoOne THEN UNCHANGED <<toClient, left>> ELSE Arrive(fd, pieces)
Keep  == UNCHANGED <<fd, ended>>
(* A mutation of Close: the connection stays open, unused.                 *)
Close_Forgotten == fd' = NoOne /\ UNCHANGED ended

Close == fd' = NoOne /\ ended' = IF fd = NoOne THEN ended ELSE ended \cup {fd}

(* What is announced on a closed descriptor nobody hears.                  *)
Announce(end) == said' = IF fd = NoOne THEN said ELSE end

Accept ==
  /\ SGoto("accept", "deal")
  /\ queue # <<>>
  /\ fd' = Head(queue) /\ queue' = Tail(queue)
  /\ igralec' = 0 /\ hisa' = 0
  /\ UNCHANGED <<toServer, toClient, ended, left, said>>

(* accept cannot give it the connection that waits: the server exits.      *)
AcceptFails ==
  /\ SGoto("accept", "dead")
  /\ queue # <<>>
  /\ ended' = Clients /\ queue' = <<>>
  /\ UNCHANGED <<toServer, toClient, left, fd, igralec, hisa, said>>

DealPlayer ==
  /\ SGoto("deal", "dealHouse")
  /\ \E a, b \in Values :
       igralec' = a + b /\ Send(<<Card("igralec", a), Card("igralec", b)>>)
  /\ said' = "none" /\ Keep
  /\ UNCHANGED <<queue, toServer, hisa>>

DealHouse ==
  /\ SGoto("dealHouse", "while")
  /\ \E a, b \in Values :
       hisa' = a + b /\ Send(<<Card("hisa", a), Card("hisa", b)>>)
  /\ Keep
  /\ UNCHANGED <<queue, toServer, igralec, said>>

Ask ==
  /\ SGoto("while", "read")
  /\ igralec < 21
  /\ Send(Question) /\ Keep
  /\ UNCHANGED <<queue, toServer, igralec, hisa, said>>

Enough ==
  /\ SGoto("while", "house")
  /\ igralec >= 21
  /\ UNCHANGED <<net, fd, igralec, hisa, said>>

ReadAnswer ==
  /\ spc = "read" /\ toServer[fd] # <<>>
  /\ spc' = CASE Head(toServer[fd]) = "H" -> "hit"
              [] Head(toServer[fd]) = "S" -> "house"
              [] OTHER -> "while"
  /\ toServer' = [toServer EXCEPT ![fd] = Tail(@)]
  /\ UNCHANGED <<queue, toClient, ended, left, fd, igralec, hisa, said>>

(* read returns 0, which is taken for an answer like any other.            *)
ReadEnd ==
  /\ SGoto("read", "while")
  /\ toServer[fd] = <<>> /\ left[fd] \in {"fin", "broken"}
  /\ UNCHANGED <<net, fd, igralec, hisa, said>>

(* read returns -1.                                                        *)
ReadFails ==
  /\ SGoto("read", "accept")
  /\ toServer[fd] = <<>> /\ left[fd] = "rst"
  /\ Close /\ said' = "none"
  /\ UNCHANGED <<queue, toServer, toClient, left, igralec, hisa>>

Hit ==
  /\ spc = "hit"
  /\ UNCHANGED <<queue, toServer, hisa>>
  /\ \E v \in Values :
       /\ igralec' = igralec + v
       /\ \/ /\ igralec' < 21
             /\ Send(<<Card("igralec", v)>>) /\ Keep
             /\ spc' = "while" /\ UNCHANGED said
          \/ /\ igralec' = 21
             /\ Send(<<Card("igralec", v), Text("BLACKJACK")>>) /\ Close
             /\ spc' = "while" /\ Announce("BLACKJACK")
          \/ /\ igralec' > 21
             /\ Send(<<Card("igralec", v), Text("BUST")>>) /\ Close
             /\ spc' = "accept" /\ Announce("BUST")

(* A mutation of Draw: the house's 21 leaves the connection open.          *)
Draw_KeepsOpen ==
  /\ SGoto("house", "house")
  /\ hisa < 17
  /\ UNCHANGED <<queue, toServer, igralec>>
  /\ \E v \in Values :
       /\ hisa' = hisa + v
       /\ IF hisa' = 21
            THEN /\ Send(<<Card("hisa", v), Text("HOUSE BLACKJACK")>>) /\ Keep
                 /\ Announce("HOUSE BLACKJACK")
            ELSE Send(<<Card("hisa", v)>>) /\ Keep /\ UNCHANGED said

Draw ==
  /\ SGoto("house", "house")
  /\ hisa < 17
  /\ UNCHANGED <<queue, toServer, igralec>>
  /\ \E v \in Values :
       /\ hisa' = hisa + v
       /\ IF hisa' = 21
            THEN /\ Send(<<Card("hisa", v), Text("HOUSE BLACKJACK")>>) /\ Close
                 /\ Announce("HOUSE BLACKJACK")
            ELSE Send(<<Card("hisa", v)>>) /\ Keep /\ UNCHANGED said

(* A mutation of Outcome: a tie is a win.                                  *)
Outcome_TieWins == IF hisa > 21 \/ igralec >= hisa THEN "WIN" ELSE "LOSS"

Outcome ==
  IF hisa > 21 \/ igralec > hisa THEN "WIN"
  ELSE IF igralec = hisa THEN "SPLIT" ELSE "LOSS"

Settle ==
  /\ SGoto("house", "accept")
  /\ hisa >= 17
  /\ Send(<<Text(Outcome)>>) /\ Close /\ Announce(Outcome)
  /\ UNCHANGED <<queue, toServer, igralec, hisa>>

(* SIGPIPE has its default action.  With the process go the connection and *)
(* the listening socket, and the connections that wait are reset.          *)
Writes == IF spc = "while" /\ igralec < 21 THEN 1
          ELSE IF spc \in {"deal", "dealHouse", "hit", "house"} THEN 2 ELSE 0

Sigpipe ==
  /\ fd # NoOne /\ Writes > 0 /\ MaySigpipe(fd, Writes)
  /\ spc' = "dead" /\ fd' = NoOne
  /\ ended' = Clients /\ queue' = <<>>
  /\ said' = "none"
  /\ UNCHANGED <<toServer, toClient, left, igralec, hisa>>

SNext ==
  \/ Accept \/ AcceptFails \/ DealPlayer \/ DealHouse \/ Ask \/ Enough
  \/ ReadAnswer \/ ReadEnd \/ ReadFails \/ Hit \/ Draw \/ Settle \/ Sigpipe
=============================================================================
