-------------------------- MODULE Blackjack_proofs --------------------------
(***************************************************************************)
(* Proofs about the blackjack of exercise 8, for any values of cards up to *)
(* 10, any number of clients and of waiting connections, and whether or    *)
(* not a read may split the question: first that the server plays by the   *)
(* rules, then what the two programs say to each other, then that the game *)
(* at one terminal plays by the same rules.                                *)
(***************************************************************************)
EXTENDS Blackjack, SequenceTheorems, FiniteSetTheorems, WellFoundedInduction,
        TLAPS

-----------------------------------------------------------------------------
(* The server and the rules *)

(* Between games nobody is at the table, and the house has no cards before *)
(* they are dealt; a game that goes on with the connection closed is one   *)
(* with 21.                                                                *)
AtTable ==
  /\ fd \in Clients \cup {NoOne}
  /\ spc \in {"accept", "deal", "dealHouse", "while", "read", "hit", "house",
              "dead"}
  /\ igralec \in 0..30 /\ hisa \in 0..26
  /\ spc \in {"accept", "dead"} => fd = NoOne
  /\ spc \in {"deal", "dealHouse", "read", "hit"} => fd # NoOne
  /\ spc \in {"deal", "dealHouse"} => hisa = 0
  /\ spc \in {"dealHouse", "while", "read", "hit"} /\ fd # NoOne => igralec < 21
  /\ spc = "while" /\ fd = NoOne => igralec = 21
  /\ queue \in Seq(Clients)

(* Before the first client nobody is at the table and there are no cards.  *)
LEMMA InitAtTable == Init => AtTable /\ Rules!Init
BY DEF Init, NoConnections, SInit, AtTable, Rules!Init, TableOver

(* Every statement of the server keeps AtTable, and is a move of the rules *)
(* or none.                                                                *)
LEMMA StepRules ==
  ASSUME AtTable, SNext
  PROVE  AtTable' /\ [Rules!Next]_Rules!vars
<1> USE ServerAssumption DEF AtTable, SGoto, Keep, Close, Announce, net
<1> USE DEF TableOver, Rules!vars
<1>1. CASE Accept
  BY <1>1, HeadTailProperties DEF Accept
<1>2. CASE DealPlayer
  <2>1. PICK a \in Values, b \in Values : igralec' = a + b
    BY <1>2 DEF DealPlayer
  <2>2. a + b \in 2..20 /\ a + b \in Rules!Pairs
    BY DEF Rules!Pairs
  <2>3. /\ spc = "deal" /\ spc' = "dealHouse" /\ fd' = fd /\ fd # NoOne
        /\ hisa = 0 /\ hisa' = 0 /\ said' = "none" /\ queue' = queue
    BY <1>2 DEF DealPlayer
  <2>4. AtTable'
    BY <2>1, <2>2, <2>3
  <2>5. Rules!DealPlayer
    BY <2>1, <2>2, <2>3 DEF Rules!DealPlayer
  <2> QED
    BY <2>4, <2>5 DEF Rules!Next
<1>3. CASE DealHouse
  <2>1. PICK a \in Values, b \in Values : hisa' = a + b
    BY <1>3 DEF DealHouse
  <2>2. a + b \in 2..20 /\ a + b \in Rules!Pairs
    BY DEF Rules!Pairs
  <2>3. /\ spc = "dealHouse" /\ spc' = "while" /\ fd' = fd /\ fd # NoOne
        /\ igralec' = igralec /\ said' = said /\ queue' = queue
    BY <1>3 DEF DealHouse
  <2>4. AtTable'
    BY <2>1, <2>2, <2>3
  <2>5. Rules!DealHouse
    BY <2>1, <2>2, <2>3 DEF Rules!DealHouse
  <2> QED
    BY <2>4, <2>5 DEF Rules!Next
<1>4. CASE Ask
  BY <1>4 DEF Ask
<1>5. CASE Enough
  BY <1>5 DEF Enough, Rules!Next, Rules!Stand
<1>6. CASE ReadAnswer
  BY <1>6 DEF ReadAnswer, Rules!Next, Rules!Stand
<1>7. CASE ReadEnd
  BY <1>7 DEF ReadEnd
<1>8. CASE ReadFails
  BY <1>8 DEF ReadFails, Rules!Next, Rules!Abandon, Rules!Over
<1>9. CASE Hit
  <2>1. PICK v \in Values :
          /\ igralec' = igralec + v
          /\ \/ igralec' < 21 /\ fd' = fd /\ spc' = "while" /\ said' = said
             \/ igralec' = 21 /\ fd' = NoOne /\ spc' = "while" /\ said' = "BLACKJACK"
             \/ igralec' > 21 /\ fd' = NoOne /\ spc' = "accept" /\ said' = "BUST"
    BY <1>9 DEF Hit
  <2>2. /\ spc = "hit" /\ fd # NoOne /\ hisa' = hisa /\ queue' = queue
        /\ igralec < 21 /\ v \in 1..10 /\ igralec + v \in 0..30
    BY <1>9 DEF Hit
  <2>3. AtTable'
    BY <2>1, <2>2
  <2>4. Rules!Hit
    BY <2>1, <2>2 DEF Rules!Hit, Rules!Over
  <2> QED
    BY <2>3, <2>4 DEF Rules!Next
<1>10. CASE Draw
  <2>1. PICK v \in Values :
          /\ hisa' = hisa + v
          /\ \/ hisa' = 21 /\ fd' = NoOne
                /\ said' = (IF fd = NoOne THEN said ELSE "HOUSE BLACKJACK")
             \/ hisa' # 21 /\ fd' = fd /\ said' = said
    BY <1>10 DEF Draw
  <2>2. /\ spc = "house" /\ spc' = "house" /\ igralec' = igralec /\ queue' = queue
        /\ hisa < 17
    BY <1>10 DEF Draw
  <2>3. hisa + v \in 0..26 /\ v \in 1..10
    BY <2>2
  <2>4. AtTable'
    BY <2>1, <2>2, <2>3
  <2>5. CASE fd = NoOne
    <3>1. fd' = NoOne /\ said' = said
      BY <2>1, <2>5
    <3>2. UNCHANGED Rules!vars
      BY <2>5, <3>1
    <3> QED
      BY <2>4, <3>2
  <2>6. CASE fd # NoOne
    <3>1. Rules!Draw
      BY <2>1, <2>2, <2>6 DEF Rules!Draw, Rules!Over
    <3> QED
      BY <2>4, <3>1 DEF Rules!Next
  <2> QED
    BY <2>5, <2>6
<1>11. CASE Settle
  <2>1. /\ spc = "house" /\ hisa >= 17 /\ spc' = "accept" /\ fd' = NoOne
        /\ said' = (IF fd = NoOne THEN said ELSE Outcome)
        /\ igralec' = igralec /\ hisa' = hisa /\ queue' = queue
    BY <1>11 DEF Settle
  <2>2. AtTable'
    BY <2>1
  <2>3. CASE fd = NoOne
    BY <2>1, <2>2, <2>3
  <2>4. CASE fd # NoOne
    <3>1. Rules!Settle
      BY <2>1, <2>4 DEF Rules!Settle, Rules!Over, Rules!Verdict, Outcome
    <3> QED
      BY <2>2, <3>1 DEF Rules!Next
  <2> QED
    BY <2>3, <2>4
<1>12. CASE Sigpipe
  BY <1>12 DEF Sigpipe, Rules!Next, Rules!Abandon, Rules!Over
<1>13. CASE AcceptFails
  BY <1>13, EmptySeq DEF AcceptFails
<1> QED
  BY <1>1, <1>2, <1>3, <1>4, <1>5, <1>6, <1>7, <1>8, <1>9, <1>10, <1>11, <1>12, <1>13
  DEF SNext

(* What a client does is not the server's business, except that it stands  *)
(* in the queue.                                                           *)
LEMMA PlayRules ==
  ASSUME AtTable, NEW c \in Clients, Play(c)
  PROVE  AtTable' /\ UNCHANGED Rules!vars
<1>1. queue' \in Seq(Clients)
  BY AppendProperties DEF AtTable, Play, Client, Connect, Refused, Read,
     ReadEof, Leave, Answer, net
<1>2. UNCHANGED svars
  BY DEF Play
<1> QED
  BY <1>1, <1>2 DEF AtTable, svars, Rules!vars, TableOver

(* RulesSpec: everything the server announces, and every card it draws, is *)
(* a move of the rules, game after game, though it closes the connection   *)
(* in three functions and goes on after two of them (server.c:90-240).     *)
THEOREM ServerPlaysByTheRules == Spec => RulesSpec
<1>1. ASSUME AtTable, [Next]_vars
      PROVE  AtTable' /\ [Rules!Next]_Rules!vars
  <2>1. CASE Serve
    BY <1>1, <2>1, StepRules DEF Serve
  <2>2. CASE \E c \in Clients : Play(c)
    BY <1>1, <2>2, PlayRules
  <2>3. CASE UNCHANGED vars
    BY <1>1, <2>3 DEF AtTable, vars, net, svars, Rules!vars, TableOver
  <2> QED
    BY <1>1, <2>1, <2>2, <2>3 DEF Next, Quiet
<1> QED
  BY InitAtTable, <1>1, PTL DEF Spec, RulesSpec, Rules!Spec

-----------------------------------------------------------------------------
(* What the two programs say to each other *)

Halves == {Text("ask"), Text("ask?")}

NoQuestion(pieces) == \A i \in 1..Len(pieces) : pieces[i] \notin Halves

EndsAsking(pieces) ==
  /\ Len(pieces) > 1
  /\ pieces[Len(pieces) - 1] = Text("ask") /\ pieces[Len(pieces)] = Text("ask?")
  /\ \A i \in 1..(Len(pieces) - 2) : pieces[i] \notin Halves

(* The server stops at read() with the question sent and not answered: it  *)
(* is on its way, being answered, or answered; or it was split, and then   *)
(* nobody answers it.  Everywhere else neither question nor answer is on   *)
(* its way.                                                                *)
Dialogue(c) ==
  IF spc = "read" /\ fd = c
    THEN \/ cpc[c] = "read" /\ toServer[c] = <<>> /\ EndsAsking(toClient[c])
         \/ cpc[c] = "answer" /\ toServer[c] = <<>> /\ toClient[c] = <<>>
         \/ cpc[c] = "read" /\ Len(toServer[c]) = 1 /\ toClient[c] = <<>>
         \/ /\ cpc[c] = "read" /\ split[c] = TRUE /\ toServer[c] = <<>>
            /\ toClient[c] \in {<<>>, <<Text("ask?")>>}
    ELSE cpc[c] # "answer" /\ toServer[c] = <<>> /\ NoQuestion(toClient[c])

Dialogues == \A c \in Clients : left[c] = "no" => Dialogue(c)

(* Who is where: nobody waits twice, or waits and plays, or is over and    *)
(* waits or plays; who has not connected does neither.                     *)
Seats ==
  /\ \A i, j \in 1..Len(queue) : queue[i] = queue[j] => i = j
  /\ \A i \in 1..Len(queue) :
       queue[i] # fd /\ queue[i] \notin ended /\ cpc[queue[i]] # "connect"
  /\ fd \in Clients => fd \notin ended /\ cpc[fd] # "connect"
  /\ \A c \in Clients : cpc[c] = "done" => c \in ended
  /\ \A c \in ended : cpc[c] = "connect" => spc = "dead"
  /\ spc = "dead" => queue = <<>> /\ ended = Clients
  /\ \A c \in Clients : left[c] = "no" <=> cpc[c] # "left"

(* What AtTable leaves of TypeOK: the connections and the clients.         *)
Wires ==
  /\ Len(queue) <= Backlog
  /\ toServer \in [Clients -> Seq({"H", "S", "other"})]
  /\ toClient \in [Clients -> Seq(Pieces)]
  /\ ended \subseteq Clients
  /\ left \in [Clients -> {"no", "fin", "rst", "broken"}]
  /\ cpc \in [Clients -> {"connect", "read", "answer", "done", "left"}]
  /\ split \in [Clients -> BOOLEAN]

TableInv == AtTable /\ Wires /\ Seats /\ Dialogues

(* At the start nobody is connected.                                       *)
LEMMA InitTable == Init => TableInv
<1> SUFFICES ASSUME Init PROVE TableInv
  OBVIOUS
<1> USE DEF Init, NoConnections, SInit, CInit
<1>1. AtTable
  BY InitAtTable
<1>2. Wires
  BY TableNetAssumption DEF Wires
<1>3. Seats
  BY ServerAssumption DEF Seats
<1>4. Dialogues
  BY DEF Dialogues, Dialogue, NoQuestion
<1> QED
  BY <1>1, <1>2, <1>3, <1>4 DEF TableInv

(* No card and no ending is taken for a half of the question.              *)
LEMMA Sayings ==
  /\ \A v \in Values : /\ Card("igralec", v) \in Pieces \ Halves
                       /\ Card("hisa", v) \in Pieces \ Halves
  /\ \A t \in {"BLACKJACK", "BUST", "WIN", "SPLIT", "LOSS", "HOUSE BLACKJACK"} :
       Text(t) \in Pieces \ Halves
  /\ Question \in Seq(Pieces)
<1>1. ASSUME NEW v \in Values, NEW who \in {"igralec", "hisa"}
      PROVE  Card(who, v) \in Pieces \ Halves
  <2>1. Card(who, v) \in Pieces
    BY DEF Card, Pieces
  <2>2. Card(who, v).what = who
    BY DEF Card
  <2>3. Text("ask").what = "ask" /\ Text("ask?").what = "ask?"
    BY DEF Text
  <2>4. Card(who, v) # Text("ask") /\ Card(who, v) # Text("ask?")
    BY <2>2, <2>3
  <2> QED
    BY <2>1, <2>4 DEF Halves
<1>2. \A t \in {"ask", "ask?", "BLACKJACK", "BUST", "WIN", "SPLIT", "LOSS",
                "HOUSE BLACKJACK"} : Text(t) \in Pieces
  BY DEF Pieces
<1>3. ASSUME NEW t \in {"BLACKJACK", "BUST", "WIN", "SPLIT", "LOSS",
                       "HOUSE BLACKJACK"}
      PROVE  Text(t) \notin Halves
  BY DEF Text, Halves
<1>4. Question \in Seq(Pieces)
  <2>1. Text("ask") \in Pieces /\ Text("ask?") \in Pieces
    BY <1>2
  <2> QED
    BY <2>1 DEF Question
<1> QED
  BY <1>1, <1>2, <1>3, <1>4

(* A text without a question leaves a connection without one.              *)
LEMMA NoQuestionAdded ==
  ASSUME NEW s \in Seq(Pieces), NEW t \in Seq(Pieces), NoQuestion(s), NoQuestion(t)
  PROVE  NoQuestion(s \o t)
BY ConcatProperties, LenProperties DEF NoQuestion

(* write(): what is sent gets to the client that plays, unless it is gone. *)
LEMMA SendArrives ==
  ASSUME AtTable, Wires, NEW pieces \in Seq(Pieces), Send(pieces)
  PROVE  /\ toClient' \in [Clients -> Seq(Pieces)]
         /\ left' \in [Clients -> {"no", "fin", "rst", "broken"}]
         /\ \A c \in Clients : left'[c] = "no" <=> left[c] = "no"
         /\ \A c \in Clients : left'[c] = "no" =>
              toClient'[c] = IF c = fd THEN toClient[c] \o pieces ELSE toClient[c]
<1> USE ServerAssumption DEF AtTable, Wires, Send, Arrive
<1>1. CASE fd = NoOne
  BY <1>1
<1>2. CASE fd \in Clients /\ left[fd] = "no"
  <2>1. toClient[fd] \o pieces \in Seq(Pieces)
    BY <1>2, ConcatProperties
  <2> QED
    BY <1>2, <2>1
<1>3. CASE fd \in Clients /\ left[fd] # "no"
  <2>1. left' = [left EXCEPT ![fd] = "broken"] /\ toClient' = toClient
    BY <1>3
  <2>2. \A c \in Clients : left'[c] = IF c = fd THEN "broken" ELSE left[c]
    BY <2>1
  <2> QED
    BY <1>3, <2>1, <2>2
<1> QED
  BY <1>1, <1>2, <1>3

(* The five statements of the server that send cards and endings: with the *)
(* text the connection may be closed.                                      *)
LEMMA Talk ==
  ASSUME TableInv, UNCHANGED <<queue, toServer, cvars>>,
         NEW pieces \in Seq(Pieces), NoQuestion(pieces), Send(pieces),
         Keep \/ Close,
         spc \notin {"read", "dead"}, spc' \notin {"read", "dead"}
  PROVE  Wires' /\ Seats' /\ Dialogues'
<1> USE ServerAssumption DEF TableInv, AtTable, cvars
<1>1. /\ toClient' \in [Clients -> Seq(Pieces)]
      /\ left' \in [Clients -> {"no", "fin", "rst", "broken"}]
      /\ \A c \in Clients : left'[c] = "no" <=> left[c] = "no"
      /\ \A c \in Clients : left'[c] = "no" =>
           toClient'[c] = IF c = fd THEN toClient[c] \o pieces ELSE toClient[c]
  BY SendArrives
<1>2. Wires'
  BY <1>1 DEF Wires, Keep, Close
<1>3. Seats'
  <2>1. CASE Keep
    BY <1>1, <2>1 DEF Seats, Keep
  <2>2. CASE Close
    <3>1. fd' = NoOne /\ ended' = (IF fd = NoOne THEN ended ELSE ended \cup {fd})
      BY <2>2 DEF Close
    <3>2. \A i \in 1..Len(queue) : queue[i] \in Clients
      BY ElementOfSeq
    <3> QED
      BY <1>1, <3>1, <3>2 DEF Seats
  <2> QED
    BY <2>1, <2>2
<1>4. Dialogues'
  <2>1. SUFFICES ASSUME NEW c \in Clients, left'[c] = "no"
                 PROVE  Dialogue(c)'
    BY DEF Dialogues
  <2>2. cpc[c] # "answer" /\ toServer[c] = <<>> /\ NoQuestion(toClient[c])
    BY <1>1, <2>1 DEF Dialogues, Dialogue
  <2>3. NoQuestion(toClient'[c])
    <3>1. toClient[c] \in Seq(Pieces)
      BY DEF Wires
    <3>2. NoQuestion(toClient[c] \o pieces)
      BY <2>2, <3>1, NoQuestionAdded
    <3>3. toClient'[c] = toClient[c] \o pieces \/ toClient'[c] = toClient[c]
      BY <1>1, <2>1
    <3> QED
      BY <2>2, <3>2, <3>3
  <2> QED
    BY <2>2, <2>3 DEF Dialogue, NoQuestion
<1> QED
  BY <1>2, <1>3, <1>4

(* Every statement of the server keeps the invariant.                      *)
LEMMA StepServer ==
  ASSUME TableInv, SNext, UNCHANGED cvars
  PROVE  TableInv'
<1> USE ServerAssumption DEF SGoto
<1>0. AtTable'
  BY StepRules DEF TableInv
<1>1. CASE Accept
  <2>1. /\ queue \in Seq(Clients) /\ queue # <<>> /\ fd' = Head(queue)
        /\ queue' = Tail(queue) /\ spc = "accept" /\ spc' = "deal"
        /\ UNCHANGED <<toServer, toClient, ended, left, cpc, split>>
    BY <1>1 DEF TableInv, AtTable, Accept, cvars
  <2>2. /\ Len(queue') = Len(queue) - 1 /\ Len(queue) \in Nat /\ Len(queue) > 0
        /\ \A i \in 1..Len(queue') : queue'[i] = queue[i + 1]
    BY <2>1, HeadTailProperties, LenProperties, EmptySeq
  <2>3. fd' = queue[1]
    BY <2>1, <2>2
  <2>4. Wires'
    BY <2>1, <2>2, TableNetAssumption DEF TableInv, Wires
  <2>5. Seats'
    BY <2>1, <2>2, <2>3 DEF TableInv, Seats
  <2>6. Dialogues'
    BY <2>1 DEF TableInv, Dialogues, Dialogue, NoQuestion
  <2> QED
    BY <1>0, <2>4, <2>5, <2>6 DEF TableInv
<1>2. CASE DealPlayer
  <2>1. PICK a \in Values, b \in Values :
          Send(<<Card("igralec", a), Card("igralec", b)>>)
    BY <1>2 DEF DealPlayer
  <2>2. /\ Card("igralec", a) \in Pieces \ Halves
        /\ Card("igralec", b) \in Pieces \ Halves
    BY Sayings
  <2>3. /\ <<Card("igralec", a), Card("igralec", b)>> \in Seq(Pieces)
        /\ NoQuestion(<<Card("igralec", a), Card("igralec", b)>>)
    BY <2>2 DEF NoQuestion
  <2>4. Wires' /\ Seats' /\ Dialogues'
    BY <1>2, <2>1, <2>3, Talk DEF DealPlayer
  <2> QED
    BY <1>0, <2>4 DEF TableInv
<1>3. CASE DealHouse
  <2>1. PICK a \in Values, b \in Values :
          Send(<<Card("hisa", a), Card("hisa", b)>>)
    BY <1>3 DEF DealHouse
  <2>2. /\ Card("hisa", a) \in Pieces \ Halves
        /\ Card("hisa", b) \in Pieces \ Halves
    BY Sayings
  <2>3. /\ <<Card("hisa", a), Card("hisa", b)>> \in Seq(Pieces)
        /\ NoQuestion(<<Card("hisa", a), Card("hisa", b)>>)
    BY <2>2 DEF NoQuestion
  <2>4. Wires' /\ Seats' /\ Dialogues'
    BY <1>3, <2>1, <2>3, Talk DEF DealHouse
  <2> QED
    BY <1>0, <2>4 DEF TableInv
<1>4. CASE Ask
  <2>1. /\ spc = "while" /\ spc' = "read" /\ Send(Question)
        /\ UNCHANGED <<queue, toServer, fd, ended, cpc, split>>
    BY <1>4 DEF Ask, Keep, cvars
  <2>2. fd \in Clients
    BY <1>4 DEF TableInv, AtTable, Ask
  <2>3. /\ toClient' \in [Clients -> Seq(Pieces)]
        /\ left' \in [Clients -> {"no", "fin", "rst", "broken"}]
        /\ \A c \in Clients : left'[c] = "no" <=> left[c] = "no"
        /\ \A c \in Clients : left'[c] = "no" =>
             toClient'[c] = IF c = fd THEN toClient[c] \o Question ELSE toClient[c]
    BY <2>1, Sayings, SendArrives DEF TableInv
  <2>4. Wires'
    BY <2>1, <2>3 DEF TableInv, Wires
  <2>5. Seats'
    BY <2>1, <2>2, <2>3 DEF TableInv, Seats
  <2>6. Dialogues'
    <3>1. SUFFICES ASSUME NEW c \in Clients, left'[c] = "no"
                   PROVE  Dialogue(c)'
      BY DEF Dialogues
    <3>2. /\ cpc[c] # "answer" /\ toServer[c] = <<>> /\ NoQuestion(toClient[c])
          /\ left[c] = "no"
      BY <2>1, <2>3, <3>1 DEF TableInv, Dialogues, Dialogue
    <3>3. CASE c = fd
      <4>1. cpc[c] = "read"
        BY <2>2, <3>2, <3>3 DEF TableInv, Wires, Seats
      <4>2. toClient[c] \in Seq(Pieces) /\ toClient'[c] = toClient[c] \o Question
        BY <2>3, <3>1, <3>3 DEF TableInv, Wires
      <4>3. EndsAsking(toClient[c] \o Question)
        <5> DEFINE s == toClient[c]
        <5>1. /\ Len(Question) = 2
              /\ Question[1] = Text("ask") /\ Question[2] = Text("ask?")
          BY DEF Question
        <5>2. /\ Len(s \o Question) = Len(s) + 2 /\ Len(s) \in Nat
              /\ \A i \in 1..(Len(s) + 2) : (s \o Question)[i] =
                   IF i <= Len(s) THEN s[i] ELSE Question[i - Len(s)]
          <6>1. s \in Seq(Pieces) /\ Question \in Seq(Pieces)
            BY <4>2, Sayings
          <6> HIDE DEF s
          <6> QED
            <7>1. /\ Len(s \o Question) = Len(s) + Len(Question)
                  /\ \A i \in 1..(Len(s) + Len(Question)) : (s \o Question)[i] =
                       IF i <= Len(s) THEN s[i] ELSE Question[i - Len(s)]
              BY <6>1, ConcatProperties
            <7>2. Len(s) \in Nat
              BY <6>1, LenProperties
            <7> QED
              BY <5>1, <7>1, <7>2
        <5>3. \A i \in 1..Len(s) : s[i] \notin Halves
          BY <3>2 DEF NoQuestion
        <5> HIDE DEF s
        <5>4. /\ (s \o Question)[Len(s) + 1] = Text("ask")
              /\ (s \o Question)[Len(s) + 2] = Text("ask?")
          BY <5>1, <5>2
        <5>5. \A i \in 1..Len(s) : (s \o Question)[i] \notin Halves
          BY <5>2, <5>3
        <5>6. EndsAsking(s \o Question)
          BY <5>2, <5>4, <5>5 DEF EndsAsking
        <5> QED
          BY <5>6 DEF s
      <4> QED
        BY <2>1, <3>2, <3>3, <4>1, <4>2, <4>3 DEF Dialogue, EndsAsking
    <3>4. CASE c # fd
      BY <2>1, <2>3, <3>1, <3>2, <3>4 DEF Dialogue, NoQuestion
    <3> QED
      BY <3>3, <3>4
  <2> QED
    BY <1>0, <2>4, <2>5, <2>6 DEF TableInv
<1>5. CASE Enough
  <2>1. /\ spc = "while" /\ spc' = "house"
        /\ UNCHANGED <<queue, toServer, toClient, ended, left, fd, cpc, split>>
    BY <1>5 DEF Enough, net, cvars
  <2>2. Wires' /\ Seats'
    BY <2>1 DEF TableInv, Wires, Seats
  <2>3. Dialogues'
    BY <2>1 DEF TableInv, Dialogues, Dialogue, NoQuestion
  <2> QED
    BY <1>0, <2>2, <2>3 DEF TableInv
<1>6. CASE ReadAnswer
  <2>1. /\ spc = "read" /\ spc' \in {"hit", "house", "while"}
        /\ toServer[fd] # <<>> /\ toServer' = [toServer EXCEPT ![fd] = Tail(@)]
        /\ UNCHANGED <<queue, toClient, ended, left, fd, cpc, split>>
    BY <1>6 DEF ReadAnswer, cvars
  <2>2. fd \in Clients
    BY <2>1 DEF TableInv, AtTable
  <2>3. /\ Tail(toServer[fd]) \in Seq({"H", "S", "other"})
        /\ Len(Tail(toServer[fd])) = Len(toServer[fd]) - 1
    BY <2>1, <2>2, HeadTailProperties DEF TableInv, Wires
  <2>4. Wires'
    BY <2>1, <2>2, <2>3 DEF TableInv, Wires
  <2>5. Seats'
    BY <2>1 DEF TableInv, Seats
  <2>6. Dialogues'
    <3>1. SUFFICES ASSUME NEW c \in Clients, left[c] = "no"
                   PROVE  Dialogue(c)'
      BY <2>1 DEF Dialogues
    <3>2. CASE c = fd
      <4>1. cpc[c] = "read" /\ Len(toServer[c]) = 1 /\ toClient[c] = <<>>
        BY <2>1, <3>1, <3>2 DEF TableInv, Dialogues, Dialogue
      <4>2. toServer'[c] = <<>>
        <5> DEFINE rest == Tail(toServer[fd])
        <5>1. rest \in Seq({"H", "S", "other"}) /\ Len(rest) = 0
          BY <2>3, <3>2, <4>1
        <5>2. toServer'[c] = rest
          BY <2>1, <2>2, <3>2 DEF TableInv, Wires
        <5> HIDE DEF rest
        <5> QED
          BY <5>1, <5>2, EmptySeq
      <4> QED
        BY <2>1, <4>1, <4>2 DEF Dialogue, NoQuestion
    <3>3. CASE c # fd
      BY <2>1, <3>1, <3>3 DEF TableInv, Wires, Dialogues, Dialogue, NoQuestion
    <3> QED
      BY <3>2, <3>3
  <2> QED
    BY <1>0, <2>4, <2>5, <2>6 DEF TableInv
<1>7. CASE ReadEnd
  <2>1. /\ spc = "read" /\ spc' = "while" /\ left[fd] # "no"
        /\ UNCHANGED <<queue, toServer, toClient, ended, left, fd, cpc, split>>
    BY <1>7 DEF ReadEnd, net, cvars
  <2>2. Wires' /\ Seats'
    BY <2>1 DEF TableInv, Wires, Seats
  <2>3. Dialogues'
    BY <2>1 DEF TableInv, Dialogues, Dialogue, NoQuestion
  <2> QED
    BY <1>0, <2>2, <2>3 DEF TableInv
<1>8. CASE ReadFails
  <2>1. /\ spc = "read" /\ spc' = "accept" /\ left[fd] # "no"
        /\ fd' = NoOne /\ ended' = ended \cup {fd}
        /\ UNCHANGED <<queue, toServer, toClient, left, cpc, split>>
    BY <1>8 DEF TableInv, AtTable, ReadFails, Close, cvars
  <2>2. fd \in Clients /\ \A i \in 1..Len(queue) : queue[i] \in Clients
    BY <2>1, ElementOfSeq DEF TableInv, AtTable
  <2>3. Wires'
    BY <2>1, <2>2 DEF TableInv, Wires
  <2>4. Seats'
    BY <2>1, <2>2 DEF TableInv, Seats
  <2>5. Dialogues'
    BY <2>1 DEF TableInv, Dialogues, Dialogue, NoQuestion
  <2> QED
    BY <1>0, <2>3, <2>4, <2>5 DEF TableInv
<1>9. CASE Hit
  <2>1. PICK v \in Values :
          \/ Send(<<Card("igralec", v)>>) /\ Keep
          \/ Send(<<Card("igralec", v), Text("BLACKJACK")>>) /\ Close
          \/ Send(<<Card("igralec", v), Text("BUST")>>) /\ Close
    BY <1>9 DEF Hit
  <2>2. /\ Card("igralec", v) \in Pieces \ Halves
        /\ Text("BLACKJACK") \in Pieces \ Halves /\ Text("BUST") \in Pieces \ Halves
    BY Sayings
  <2>3. /\ <<Card("igralec", v)>> \in Seq(Pieces)
        /\ <<Card("igralec", v), Text("BLACKJACK")>> \in Seq(Pieces)
        /\ <<Card("igralec", v), Text("BUST")>> \in Seq(Pieces)
        /\ NoQuestion(<<Card("igralec", v)>>)
        /\ NoQuestion(<<Card("igralec", v), Text("BLACKJACK")>>)
        /\ NoQuestion(<<Card("igralec", v), Text("BUST")>>)
    BY <2>2 DEF NoQuestion
  <2>4. Wires' /\ Seats' /\ Dialogues'
    BY <1>9, <2>1, <2>3, Talk DEF Hit
  <2> QED
    BY <1>0, <2>4 DEF TableInv
<1>10. CASE Draw
  <2>1. PICK card \in Pieces \ Halves, end \in Pieces \ Halves :
          \/ Send(<<card>>) /\ Keep
          \/ Send(<<card, end>>) /\ Close
    <3>1. PICK v \in Values :
            \/ Send(<<Card("hisa", v)>>) /\ Keep
            \/ Send(<<Card("hisa", v), Text("HOUSE BLACKJACK")>>) /\ Close
      BY <1>10 DEF Draw
    <3>2. /\ Card("hisa", v) \in Pieces \ Halves
          /\ Text("HOUSE BLACKJACK") \in Pieces \ Halves
      BY Sayings
    <3> QED
      BY <3>1, <3>2, Zenon
  <2>2. /\ <<card>> \in Seq(Pieces) /\ NoQuestion(<<card>>)
        /\ <<card, end>> \in Seq(Pieces) /\ NoQuestion(<<card, end>>)
    BY DEF NoQuestion
  <2>3. spc = "house" /\ spc' = "house" /\ UNCHANGED <<queue, toServer, cvars>>
    BY <1>10 DEF Draw
  <2>4. Wires' /\ Seats' /\ Dialogues'
    BY <2>1, <2>2, <2>3, Talk
  <2> QED
    BY <1>0, <2>4 DEF TableInv
<1>11. CASE Settle
  <2>1. Outcome \in {"WIN", "SPLIT", "LOSS"}
    BY DEF Outcome
  <2>2. Text(Outcome) \in Pieces \ Halves
    BY <2>1, Sayings
  <2>3. <<Text(Outcome)>> \in Seq(Pieces) /\ NoQuestion(<<Text(Outcome)>>)
    BY <2>2 DEF NoQuestion
  <2>4. Wires' /\ Seats' /\ Dialogues'
    BY <1>11, <2>3, Talk DEF Settle
  <2> QED
    BY <1>0, <2>4 DEF TableInv
<1>12. CASE Sigpipe
  <2>1. /\ fd \in Clients /\ left[fd] # "no"
        /\ spc' = "dead" /\ fd' = NoOne /\ ended' = Clients /\ queue' = <<>>
        /\ UNCHANGED <<toServer, toClient, left, cpc, split>>
    BY <1>12 DEF TableInv, AtTable, Sigpipe, MaySigpipe, cvars
  <2>2. Wires'
    BY <2>1, TableNetAssumption DEF TableInv, Wires
  <2>3. Seats'
    BY <2>1 DEF TableInv, Seats
  <2>4. Dialogues'
    BY <2>1 DEF TableInv, Dialogues, Dialogue, NoQuestion
  <2> QED
    BY <1>0, <2>2, <2>3, <2>4 DEF TableInv
<1>13. CASE AcceptFails
  <2>1. /\ fd = NoOne /\ spc = "accept"
        /\ spc' = "dead" /\ fd' = NoOne /\ ended' = Clients /\ queue' = <<>>
        /\ UNCHANGED <<toServer, toClient, left, cpc, split>>
    BY <1>13 DEF TableInv, AtTable, AcceptFails, cvars
  <2>2. Wires'
    BY <2>1, TableNetAssumption DEF TableInv, Wires
  <2>3. Seats'
    BY <2>1 DEF TableInv, Seats
  <2>4. Dialogues'
    BY <2>1 DEF TableInv, Dialogues, Dialogue, NoQuestion
  <2> QED
    BY <1>0, <2>2, <2>3, <2>4 DEF TableInv
<1> QED
  BY <1>1, <1>2, <1>3, <1>4, <1>5, <1>6, <1>7, <1>8, <1>9, <1>10, <1>11, <1>12, <1>13
  DEF SNext

(* read() of the client: however much of what has arrived it takes, it     *)
(* finds the question, or nothing of it, or has split it.                  *)
LEMMA ReadQuestion ==
  ASSUME NEW s \in Seq(Pieces), NEW n \in 1..Len(s)
  PROVE  /\ SubSeq(s, n + 1, Len(s)) \in Seq(Pieces)
         /\ NoQuestion(s) => /\ ~Asked(SubSeq(s, 1, n))
                             /\ NoQuestion(SubSeq(s, n + 1, Len(s)))
         /\ EndsAsking(s) =>
              \/ ~Asked(SubSeq(s, 1, n)) /\ EndsAsking(SubSeq(s, n + 1, Len(s)))
              \/ /\ ~Asked(SubSeq(s, 1, n)) /\ EndsInside(SubSeq(s, 1, n))
                 /\ SubSeq(s, n + 1, Len(s)) = <<Text("ask?")>>
              \/ Asked(SubSeq(s, 1, n)) /\ SubSeq(s, n + 1, Len(s)) = <<>>
<1> DEFINE p == SubSeq(s, 1, n)
           r == SubSeq(s, n + 1, Len(s))
<1>1. Len(s) \in Nat /\ n \in Nat /\ n > 0 /\ n <= Len(s)
      /\ \A i \in 1..Len(s) : s[i] \in Pieces
  BY LenProperties, ElementOfSeq
<1>2. Len(p) = n /\ \A i \in 1..n : p[i] = s[i]
  BY <1>1, SubSeqProperties
<1>3. /\ r \in Seq(Pieces) /\ Len(r) = Len(s) - n
      /\ \A i \in 1..(Len(s) - n) : r[i] = s[n + i]
  BY <1>1, SubSeqProperties
<1> HIDE DEF p, r
<1>4. Text("ask") \in Halves /\ Text("ask?") \in Halves /\ Text("ask") # Text("ask?")
  BY DEF Halves, Text
<1>5. NoQuestion(s) => ~Asked(p) /\ NoQuestion(r)
  <2>1. SUFFICES ASSUME NoQuestion(s) PROVE ~Asked(p) /\ NoQuestion(r)
    OBVIOUS
  <2>2. \A i \in 1..n : p[i] \notin Halves
    BY <1>1, <1>2, <2>1 DEF NoQuestion
  <2>3. ~Asked(p)
    BY <1>2, <1>4, <2>2 DEF Asked
  <2>4. NoQuestion(r)
    BY <1>1, <1>3, <2>1 DEF NoQuestion
  <2> QED
    BY <2>3, <2>4
<1>6. ASSUME EndsAsking(s)
      PROVE  \/ ~Asked(p) /\ EndsAsking(r)
             \/ ~Asked(p) /\ EndsInside(p) /\ r = <<Text("ask?")>>
             \/ Asked(p) /\ r = <<>>
  <2>1. /\ Len(s) > 1
        /\ s[Len(s) - 1] = Text("ask") /\ s[Len(s)] = Text("ask?")
        /\ \A i \in 1..(Len(s) - 2) : s[i] \notin Halves
    BY <1>6 DEF EndsAsking
  <2>2. CASE n < Len(s) - 1
    <3>1. \A i \in 1..n : p[i] \notin Halves
      BY <1>1, <1>2, <2>1, <2>2
    <3>2. ~Asked(p)
      BY <1>2, <1>4, <3>1 DEF Asked
    <3>3. EndsAsking(r)
      <4>1. Len(r) > 1 /\ \A i \in 1..(Len(r) - 2) : r[i] \notin Halves
        BY <1>1, <1>3, <2>1, <2>2
      <4>2. r[Len(r) - 1] = s[Len(s) - 1] /\ r[Len(r)] = s[Len(s)]
        BY <1>1, <1>3, <2>2
      <4> QED
        BY <2>1, <4>1, <4>2 DEF EndsAsking
    <3> QED
      BY <3>2, <3>3
  <2>3. CASE n = Len(s) - 1
    <3>1. \A i \in 1..n : p[i] # Text("ask?")
      BY <1>1, <1>2, <1>4, <2>1, <2>3
    <3>2. ~Asked(p)
      BY <1>2, <3>1 DEF Asked
    <3>3. EndsInside(p)
      BY <1>1, <1>2, <2>1, <2>3 DEF EndsInside
    <3>4. Len(r) = 1 /\ r[1] = Text("ask?")
      BY <1>1, <1>3, <2>1, <2>3
    <3>5. r = <<Text("ask?")>>
      BY <1>3, <3>4, LenProperties
    <3> QED
      BY <3>2, <3>3, <3>5
  <2>4. CASE n = Len(s)
    <3>1. Asked(p)
      BY <1>1, <1>2, <2>1, <2>4 DEF Asked
    <3>2. r = <<>>
      BY <1>1, <1>3, <2>4, EmptySeq
    <3> QED
      BY <3>1, <3>2
  <2> QED
    BY <1>1, <2>2, <2>3, <2>4
<1> QED
  BY <1>3, <1>5, <1>6 DEF p, r

(* Every step of a client keeps the invariant.                             *)
LEMMA StepClient ==
  ASSUME TableInv, NEW c \in Clients, Play(c)
  PROVE  TableInv'
<1>0. AtTable' /\ UNCHANGED <<spc, fd>>
  BY PlayRules DEF TableInv, Play, svars
<1> USE ServerAssumption DEF TableInv, Goto
<1>1. CASE Connect(c, spc # "dead")
  <2>1. /\ spc # "dead" /\ Len(queue) < Backlog /\ cpc[c] = "connect"
        /\ cpc' = [cpc EXCEPT ![c] = "read"] /\ queue' = Append(queue, c)
        /\ UNCHANGED <<toServer, toClient, ended, left, split>>
    BY <1>1 DEF Connect
  <2>2. /\ Len(queue) \in Nat /\ Len(queue') = Len(queue) + 1
        /\ \A i \in 1..Len(queue) : queue[i] \in Clients /\ queue'[i] = queue[i]
        /\ queue'[Len(queue) + 1] = c
    BY <2>1, AppendProperties, LenProperties, ElementOfSeq DEF AtTable
  <2>3. Wires'
    BY <2>1, <2>2, TableNetAssumption DEF Wires
  <2>4. c # fd /\ c \notin ended /\ \A i \in 1..Len(queue) : queue[i] # c
    BY <2>1, <2>2 DEF Seats
  <2>5. \A d \in Clients : cpc'[d] = IF d = c THEN "read" ELSE cpc[d]
    BY <2>1 DEF Wires
  <2>6. Seats'
    <3>1. \A i \in 1..Len(queue') : i \in 1..Len(queue) \/ i = Len(queue) + 1
      BY <2>2
    <3>2. \A i, j \in 1..Len(queue') : queue'[i] = queue'[j] => i = j
      BY <2>2, <2>4, <3>1 DEF Seats
    <3>3. \A i \in 1..Len(queue') :
            queue'[i] # fd /\ queue'[i] \notin ended /\ cpc'[queue'[i]] # "connect"
      BY <2>2, <2>4, <2>5, <3>1 DEF Seats
    <3> QED
      BY <1>0, <2>1, <2>4, <2>5, <3>2, <3>3 DEF Seats, Wires
  <2>7. Dialogues'
    BY <1>0, <2>1, <2>4, <2>5 DEF Dialogues, Dialogue, NoQuestion, EndsAsking
  <2> QED
    BY <1>0, <2>3, <2>6, <2>7
<1>2. CASE Refused(c, spc # "dead")
  <2>1. /\ spc = "dead" /\ cpc[c] = "connect" /\ cpc' = [cpc EXCEPT ![c] = "done"]
        /\ UNCHANGED <<queue, toServer, toClient, ended, left, split>>
    BY <1>2 DEF Refused, net
  <2>2. \A d \in Clients : cpc'[d] = IF d = c THEN "done" ELSE cpc[d]
    BY <2>1 DEF Wires
  <2>3. Wires'
    BY <2>1 DEF Wires
  <2>4. Seats'
    BY <1>0, <2>1, <2>2, EmptySeq DEF Seats, Wires
  <2>5. Dialogues'
    BY <1>0, <2>1, <2>2 DEF Dialogues, Dialogue, NoQuestion, EndsAsking
  <2> QED
    BY <1>0, <2>3, <2>4, <2>5
<1>3. CASE ReadEof(c)
  <2>1. /\ cpc[c] = "read" /\ c \in ended /\ cpc' = [cpc EXCEPT ![c] = "done"]
        /\ UNCHANGED <<queue, toServer, toClient, ended, left, split>>
    BY <1>3 DEF ReadEof, net
  <2>2. \A d \in Clients : cpc'[d] = IF d = c THEN "done" ELSE cpc[d]
    BY <2>1 DEF Wires
  <2>3. Wires'
    BY <2>1 DEF Wires
  <2>4. Seats'
    <3>1. \A i \in 1..Len(queue) : queue[i] \in Clients
      BY ElementOfSeq DEF AtTable
    <3> QED
      BY <1>0, <2>1, <2>2, <3>1 DEF Seats, Wires
  <2>5. c # fd
    BY <2>1 DEF Seats
  <2>6. Dialogues'
    BY <1>0, <2>1, <2>2, <2>5 DEF Dialogues, Dialogue, NoQuestion, EndsAsking
  <2> QED
    BY <1>0, <2>3, <2>4, <2>6
<1>4. CASE Leave(c)
  <2>1. /\ cpc[c] \in {"read", "answer"} /\ cpc' = [cpc EXCEPT ![c] = "left"]
        /\ left' = [left EXCEPT ![c] = IF toClient[c] = <<>> THEN "fin" ELSE "rst"]
        /\ UNCHANGED <<queue, toServer, toClient, ended, split>>
    BY <1>4 DEF Leave
  <2>2. /\ \A d \in Clients : cpc'[d] = IF d = c THEN "left" ELSE cpc[d]
        /\ left'[c] # "no" /\ \A d \in Clients \ {c} : left'[d] = left[d]
    BY <2>1 DEF Wires
  <2>3. Wires'
    BY <2>1 DEF Wires
  <2>4. Seats'
    <3>1. \A i \in 1..Len(queue) : queue[i] \in Clients
      BY ElementOfSeq DEF AtTable
    <3> QED
      BY <1>0, <2>1, <2>2, <3>1 DEF Seats, Wires
  <2>5. Dialogues'
    BY <1>0, <2>1, <2>2 DEF Dialogues, Dialogue, NoQuestion, EndsAsking
  <2> QED
    BY <1>0, <2>3, <2>4, <2>5
<1>5. CASE \E word \in {"H", "S", "other"} : Answer(c, word)
  <2>1. PICK word \in {"H", "S", "other"} : Answer(c, word)
    BY <1>5
  <2>2. /\ cpc[c] = "answer" /\ cpc' = [cpc EXCEPT ![c] = "read"]
        /\ UNCHANGED <<queue, toClient, ended, left, split>>
    BY <2>1 DEF Answer
  <2>3. \A d \in Clients : cpc'[d] = IF d = c THEN "read" ELSE cpc[d]
    BY <2>2 DEF Wires
  <2>4. /\ left[c] = "no" /\ spc = "read" /\ fd = c
        /\ toServer[c] = <<>> /\ toClient[c] = <<>> /\ c \notin ended
    BY <2>2 DEF Seats, Dialogues, Dialogue
  <2>5. toServer' = [toServer EXCEPT ![c] = <<word>>]
    <3>1. Append(<<>>, word) = <<word>>
      OBVIOUS
    <3> QED
      BY <2>1, <2>4, <3>1 DEF Answer
  <2>6. /\ toServer' \in [Clients -> Seq({"H", "S", "other"})]
        /\ Len(toServer'[c]) = 1
        /\ \A d \in Clients \ {c} : toServer'[d] = toServer[d]
    BY <2>5 DEF Wires
  <2>7. Wires'
    BY <2>2, <2>6 DEF Wires
  <2>8. Seats'
    <3>1. \A i \in 1..Len(queue) : queue[i] \in Clients
      BY ElementOfSeq DEF AtTable
    <3> QED
      BY <1>0, <2>2, <2>3, <3>1 DEF Seats, Wires
  <2>9. Dialogues'
    BY <1>0, <2>2, <2>3, <2>4, <2>6 DEF Dialogues, Dialogue, NoQuestion
  <2> QED
    BY <1>0, <2>7, <2>8, <2>9
<1>6. CASE Read(c)
  <2>1. PICK n \in 1..Len(toClient[c]) :
          /\ cpc' = [cpc EXCEPT ![c] =
                       IF Asked(SubSeq(toClient[c], 1, n)) THEN "answer" ELSE "read"]
          /\ split' = [split EXCEPT ![c] =
                         @ \/ EndsInside(SubSeq(toClient[c], 1, n))]
          /\ toClient' = [toClient EXCEPT ![c] = SubSeq(@, n + 1, Len(@))]
    BY <1>6 DEF Read
  <2> DEFINE s == toClient[c]
             p == SubSeq(s, 1, n)
             r == SubSeq(s, n + 1, Len(s))
  <2>2. /\ cpc[c] = "read" /\ UNCHANGED <<queue, toServer, ended, left>>
        /\ s \in Seq(Pieces)
    BY <1>6 DEF Read, Wires
  <2>3. /\ r \in Seq(Pieces)
        /\ NoQuestion(s) => ~Asked(p) /\ NoQuestion(r)
        /\ EndsAsking(s) => \/ ~Asked(p) /\ EndsAsking(r)
                            \/ ~Asked(p) /\ EndsInside(p) /\ r = <<Text("ask?")>>
                            \/ Asked(p) /\ r = <<>>
    BY <2>2, ReadQuestion
  <2>4. /\ cpc' = [cpc EXCEPT ![c] = IF Asked(p) THEN "answer" ELSE "read"]
        /\ toClient' = [toClient EXCEPT ![c] = r]
    BY <2>1
  <2>5. /\ split' \in [Clients -> BOOLEAN]
        /\ split[c] = TRUE \/ EndsInside(p) => split'[c] = TRUE
    BY <2>1 DEF Wires
  <2>6. s = <<Text("ask?")>> => ~Asked(p) /\ r = <<>>
    <3>1. SUFFICES ASSUME s = <<Text("ask?")>> PROVE ~Asked(p) /\ r = <<>>
      OBVIOUS
    <3>2. Len(s) = 1 /\ n = 1 /\ s[1] \in Pieces
      BY <2>2, <3>1, ElementOfSeq
    <3>3. Len(p) = 1 /\ Len(r) = 0
      BY <3>2, SubSeqProperties
    <3> HIDE DEF p, r
    <3> QED
      BY <2>3, <3>3, EmptySeq DEF Asked
  <2>7. s # <<>>
    BY <2>1
  <2> HIDE DEF s, p, r
  <2>8. /\ \A d \in Clients : cpc'[d] =
             IF d = c THEN IF Asked(p) THEN "answer" ELSE "read" ELSE cpc[d]
        /\ toClient'[c] = r /\ \A d \in Clients \ {c} : toClient'[d] = toClient[d]
        /\ \A d \in Clients \ {c} : split'[d] = split[d]
    BY <2>1, <2>4 DEF Wires
  <2>9. Wires'
    BY <2>2, <2>3, <2>4, <2>5 DEF Wires
  <2>10. Seats'
    <3>1. \A i \in 1..Len(queue) : queue[i] \in Clients
      BY ElementOfSeq DEF AtTable
    <3>2. \A d \in Clients :
            /\ cpc'[d] = "connect" => cpc[d] = "connect"
            /\ cpc'[d] = "done" => cpc[d] = "done"
            /\ cpc'[d] = "left" <=> cpc[d] = "left"
      BY <2>2, <2>8
    <3> QED
      BY <1>0, <2>2, <3>1, <3>2 DEF Seats, Wires
  <2>11. Dialogue(c)'
    <3>1. Dialogue(c)
      BY <2>2 DEF Seats, Dialogues
    <3>2. CASE ~(spc = "read" /\ fd = c)
      BY <1>0, <2>2, <2>3, <2>8, <3>1, <3>2 DEF Dialogue, NoQuestion, s
    <3>3. CASE spc = "read" /\ fd = c
      <4>1. \/ toServer[c] = <<>> /\ EndsAsking(s)
            \/ toServer[c] = <<>> /\ split[c] = TRUE /\ s = <<Text("ask?")>>
        BY <2>2, <2>7, <3>1, <3>3 DEF Dialogue, s
      <4>2. CASE toServer[c] = <<>> /\ EndsAsking(s)
        <5>1. CASE ~Asked(p) /\ EndsAsking(r)
          BY <1>0, <2>2, <2>8, <3>3, <4>2, <5>1 DEF Dialogue, EndsAsking
        <5>2. CASE ~Asked(p) /\ EndsInside(p) /\ r = <<Text("ask?")>>
          BY <1>0, <2>2, <2>5, <2>8, <3>3, <4>2, <5>2 DEF Dialogue
        <5>3. CASE Asked(p) /\ r = <<>>
          BY <1>0, <2>2, <2>8, <3>3, <4>2, <5>3 DEF Dialogue
        <5> QED
          BY <2>3, <4>2, <5>1, <5>2, <5>3
      <4>3. CASE toServer[c] = <<>> /\ split[c] = TRUE /\ s = <<Text("ask?")>>
        BY <1>0, <2>2, <2>5, <2>6, <2>8, <3>3, <4>3 DEF Dialogue
      <4> QED
        BY <4>1, <4>2, <4>3
    <3> QED
      BY <3>2, <3>3
  <2>12. Dialogues'
    <3>1. ASSUME NEW d \in Clients, d # c, left'[d] = "no"
          PROVE  Dialogue(d)'
      BY <1>0, <2>2, <2>8, <3>1 DEF Dialogues, Dialogue, NoQuestion, EndsAsking
    <3> QED
      BY <2>11, <3>1 DEF Dialogues
  <2> QED
    BY <1>0, <2>9, <2>10, <2>12
<1> QED
  BY <1>1, <1>2, <1>6, <1>3, <1>4, <1>5 DEF Play, Client

(* The invariant holds in every state.                                     *)
LEMMA TableInvariant == Spec => []TableInv
<1>1. ASSUME TableInv, [Next]_vars PROVE TableInv'
  <2>1. CASE Serve
    BY <1>1, <2>1, StepServer DEF Serve
  <2>2. CASE \E c \in Clients : Play(c)
    BY <1>1, <2>2, StepClient
  <2>3. CASE UNCHANGED vars
    BY <1>1, <2>3 DEF vars, net, svars, cvars, TableInv, AtTable, Wires, Seats,
       Dialogues, Dialogue, NoQuestion, EndsAsking
  <2> QED
    BY <1>1, <2>1, <2>2, <2>3 DEF Next, Quiet
<1> QED
  BY InitTable, <1>1, PTL DEF Spec

(* Every variable of the server, the clients and what is between them      *)
(* keeps its domain; no total passes what drawing up to 21 and to 17       *)
(* allows.                                                                 *)
THEOREM TypesHold == Spec => []TypeOK
<1>1. TableInv => TypeOK
  BY DEF TableInv, AtTable, Wires, TypeOK
<1> QED
  BY TableInvariant, <1>1, PTL

(* NothingUnread: when the server closes a connection it has read every    *)
(* answer the client has sent (server.c:94), so that close() is no reset.  *)
THEOREM NoAnswerLost == Spec => []NothingUnread
<1>1. TableInv => NothingUnread
  BY DEF TableInv, Wires, Seats, Dialogues, Dialogue, NothingUnread
<1> QED
  BY TableInvariant, <1>1, PTL

(* NoMutualWait: the server in read() and its client in read(), with       *)
(* nothing on its way, only after a split question (server.c:94,           *)
(* client.c:24).                                                           *)
THEOREM TheyWaitOnlyWhenSplit == Spec => []NoMutualWait
<1>1. TableInv => NoMutualWait
  <2>1. SUFFICES ASSUME TableInv, spc = "read", cpc[fd] = "read",
                        toServer[fd] = <<>>, toClient[fd] = <<>>
                 PROVE  split[fd]
    BY DEF NoMutualWait
  <2>2. fd \in Clients
    BY <2>1 DEF TableInv, AtTable
  <2>3. Dialogue(fd) /\ left[fd] = "no"
    BY <2>1, <2>2 DEF TableInv, Seats, Dialogues
  <2> QED
    BY <2>1, <2>2, <2>3, EmptySeq DEF Dialogue, EndsAsking
<1> QED
  BY TableInvariant, <1>1, PTL

-----------------------------------------------------------------------------
(* What a screen says *)

(* A set of numbers that is not empty has a least one.                     *)
LEMMA LeastNumber ==
  ASSUME NEW T \in SUBSET Nat, T # {}
  PROVE  \E m \in T : \A n \in T : m <= n
<1> DEFINE F == {0..n : n \in T}
<1>1. F \subseteq FiniteSubsetsOf(Nat) /\ F # {}
  <2>1. ASSUME NEW n \in T PROVE IsFiniteSet(0..n) /\ 0..n \subseteq Nat
    BY FS_Interval
  <2> QED
    BY <2>1 DEF FiniteSubsetsOf
<1>2. PICK X \in F : \A Y \in F : <<Y, X>> \notin StrictSubsetOrdering(Nat)
  <2> HIDE DEF F
  <2> QED
    BY <1>1, FS_StrictSubsetOrderingWellFounded, WFMin
<1>3. PICK m \in T : X = 0..m
  OBVIOUS
<1>4. ASSUME NEW n \in T, n < m
      PROVE  <<0..n, 0..m>> \in StrictSubsetOrdering(Nat)
  <2>1. m \in 0..m /\ m \notin 0..n
    BY <1>4
  <2>2. 0..n \subseteq 0..m /\ 0..m \subseteq Nat
    BY <1>4
  <2> QED
    BY <2>1, <2>2 DEF StrictSubsetOrdering
<1>5. \A n \in T : ~(n < m)
  BY <1>2, <1>3, <1>4
<1> QED
  BY <1>5

(* What holds of 0, and with every number of the next, holds of all.       *)
LEMMA Induction ==
  ASSUME NEW T, 0 \in T, \A n \in T \cap Nat : n + 1 \in T
  PROVE  Nat \subseteq T
<1> SUFFICES ASSUME Nat \ T # {} PROVE FALSE
  OBVIOUS
<1>1. PICK m \in Nat \ T : \A n \in Nat \ T : m <= n
  BY LeastNumber
<1>2. m - 1 \in Nat /\ m - 1 \in T /\ m - 1 + 1 = m
  BY <1>1
<1> QED
  BY <1>1, <1>2

(* f says what the screen shows after every number of pieces.              *)
After(f, screen, pieces) ==
  f = [i \in 0..Len(pieces) |->
         IF i = 0 THEN screen ELSE Show(f[i - 1], pieces[i])]

(* There is such a function for any pieces,                                *)
LEMMA AfterExists ==
  ASSUME NEW screen, NEW pieces, Len(pieces) \in Nat
  PROVE  \E f : After(f, screen, pieces)
<1> DEFINE Up(f, n) == f = [i \in 0..n |->
                              IF i = 0 THEN screen ELSE Show(f[i - 1], pieces[i])]
           T == {n \in Nat : \E f : Up(f, n)}
<1>1. 0 \in T
  <2> DEFINE f == [i \in 0..0 |-> screen]
  <2>1. Up(f, 0)
    OBVIOUS
  <2> QED
    BY <2>1
<1>2. ASSUME NEW n \in T PROVE n + 1 \in T
  <2>1. PICK f : Up(f, n)
    OBVIOUS
  <2> DEFINE g == [i \in 0..(n + 1) |->
                     IF i = n + 1 THEN Show(f[n], pieces[n + 1]) ELSE f[i]]
  <2>2. \A i \in 0..(n + 1) :
          g[i] = IF i = 0 THEN screen ELSE Show(g[i - 1], pieces[i])
    <3>1. SUFFICES ASSUME NEW i \in 0..(n + 1)
                   PROVE  g[i] = IF i = 0 THEN screen ELSE Show(g[i - 1], pieces[i])
      OBVIOUS
    <3>2. CASE i = n + 1
      <4>1. i # 0 /\ i - 1 = n /\ n \in 0..(n + 1) /\ n # n + 1
        BY <3>2
      <4>2. g[n] = f[n] /\ g[i] = Show(f[n], pieces[n + 1])
        BY <3>2, <4>1
      <4> QED
        BY <3>2, <4>1, <4>2
    <3>3. CASE i # n + 1
      <4>1. i \in 0..n /\ g[i] = f[i]
        BY <3>3
      <4>2. i # 0 => i - 1 \in 0..n /\ i - 1 # n + 1 /\ g[i - 1] = f[i - 1]
        BY <4>1
      <4>3. f[i] = IF i = 0 THEN screen ELSE Show(f[i - 1], pieces[i])
        BY <2>1, <4>1
      <4> QED
        BY <4>1, <4>2, <4>3
    <3> QED
      BY <3>2, <3>3
  <2>3. Up(g, n + 1)
    BY <2>2
  <2> HIDE DEF g
  <2>4. \E h : Up(h, n + 1)
    BY <2>3
  <2> HIDE DEF Up
  <2> QED
    BY <2>4
<1> HIDE DEF T
<1>3. Nat \subseteq T
  BY <1>1, <1>2, Induction
<1> QED
  BY <1>3 DEF T, After

(* and only one: what a screen shows depends on what it has got so far.    *)
LEMMA AfterAgree ==
  ASSUME NEW screen, NEW p, NEW q, NEW f, NEW g, Len(p) \in Nat, Len(q) \in Nat,
         After(f, screen, p), After(g, screen, q),
         NEW n \in Nat, n <= Len(p), n <= Len(q), \A i \in 1..n : p[i] = q[i]
  PROVE  f[n] = g[n]
<1> DEFINE T == {i \in Nat : i <= n => f[i] = g[i]}
<1>1. /\ \A i \in 0..n : f[i] = IF i = 0 THEN screen ELSE Show(f[i - 1], p[i])
      /\ \A i \in 0..n : g[i] = IF i = 0 THEN screen ELSE Show(g[i - 1], q[i])
  <2>1. \A i \in 0..n : i \in 0..Len(p) /\ i \in 0..Len(q)
    OBVIOUS
  <2>2. \A i \in 0..Len(p) : f[i] = IF i = 0 THEN screen ELSE Show(f[i - 1], p[i])
    BY DEF After
  <2>3. \A i \in 0..Len(q) : g[i] = IF i = 0 THEN screen ELSE Show(g[i - 1], q[i])
    BY DEF After
  <2> QED
    BY <2>1, <2>2, <2>3
<1>2. 0 \in T
  BY <1>1
<1>3. ASSUME NEW i \in T, i + 1 <= n PROVE f[i + 1] = g[i + 1]
  <2>1. i + 1 \in 1..n /\ i + 1 - 1 = i /\ i + 1 # 0 /\ f[i] = g[i]
    BY <1>3
  <2>2. f[i + 1] = Show(f[i], p[i + 1]) /\ g[i + 1] = Show(g[i], q[i + 1])
    BY <1>1, <2>1
  <2> QED
    BY <2>1, <2>2
<1>4. \A i \in T : i + 1 \in T
  BY <1>3
<1> HIDE DEF T
<1>5. Nat \subseteq T
  BY <1>2, <1>4, Induction
<1> QED
  BY <1>5 DEF T

(* Shown is what this function says at the last piece.                     *)
LEMMA ShownIs ==
  ASSUME NEW screen, NEW pieces, Len(pieces) \in Nat
  PROVE  \E f : After(f, screen, pieces) /\ Shown(screen, pieces) = f[Len(pieces)]
<1> DEFINE f == CHOOSE f : After(f, screen, pieces)
<1>1. After(f, screen, pieces)
  BY AfterExists
<1>2. Shown(screen, pieces) = f[Len(pieces)]
  BY DEF Shown, After
<1> HIDE DEF f
<1> QED
  BY <1>1, <1>2

(* Nothing, or one or two pieces at a time.                                *)
LEMMA ShownFew ==
  /\ \A screen : Shown(screen, <<>>) = screen
  /\ \A screen, x : Shown(screen, <<x>>) = Show(screen, x)
  /\ \A screen, x, y : Shown(screen, <<x, y>>) = Show(Show(screen, x), y)
<1>1. ASSUME NEW screen PROVE Shown(screen, <<>>) = screen
  <2>1. Len(<<>>) = 0
    OBVIOUS
  <2>2. PICK f : After(f, screen, <<>>) /\ Shown(screen, <<>>) = f[0]
    BY <2>1, ShownIs
  <2>3. f[0] = screen
    BY <2>1, <2>2 DEF After
  <2> QED
    BY <2>2, <2>3
<1>2. ASSUME NEW screen, NEW x PROVE Shown(screen, <<x>>) = Show(screen, x)
  <2> DEFINE s == <<x>>
  <2>1. Len(s) = 1 /\ s[1] = x
    OBVIOUS
  <2> HIDE DEF s
  <2>2. PICK f : After(f, screen, s) /\ Shown(screen, s) = f[1]
    BY <2>1, ShownIs
  <2>3. f[0] = screen /\ f[1] = Show(f[0], s[1])
    BY <2>1, <2>2 DEF After
  <2> QED
    BY <2>1, <2>2, <2>3 DEF s
<1>3. ASSUME NEW screen, NEW x, NEW y
      PROVE  Shown(screen, <<x, y>>) = Show(Show(screen, x), y)
  <2> DEFINE s == <<x, y>>
  <2>1. Len(s) = 2 /\ s[1] = x /\ s[2] = y
    OBVIOUS
  <2> HIDE DEF s
  <2>2. PICK f : After(f, screen, s) /\ Shown(screen, s) = f[Len(s)]
    <3>1. Len(s) \in Nat
      BY <2>1
    <3> QED
      BY <3>1, ShownIs
  <2>3. f[0] = screen /\ f[1] = Show(f[0], s[1]) /\ f[2] = Show(f[1], s[2])
    BY <2>1, <2>2 DEF After
  <2> QED
    BY <2>1, <2>2, <2>3 DEF s
<1> QED
  BY <1>1, <1>2, <1>3

(* It makes no difference where a read() cuts the stream.                  *)
LEMMA ShownParts ==
  ASSUME NEW screen, NEW p \in Seq(Pieces), NEW q \in Seq(Pieces)
  PROVE  Shown(screen, p \o q) = Shown(Shown(screen, p), q)
<1> DEFINE r == p \o q
           m == Len(p)
           k == Len(q)
<1>1. /\ m \in Nat /\ k \in Nat /\ Len(r) = m + k
      /\ \A i \in 1..(m + k) : r[i] = IF i <= m THEN p[i] ELSE q[i - m]
  BY ConcatProperties, LenProperties
<1> HIDE DEF r, m, k
<1>2. PICK f : After(f, screen, r) /\ Shown(screen, r) = f[m + k]
  BY <1>1, ShownIs
<1>3. PICK g : After(g, screen, p) /\ Shown(screen, p) = g[m]
  BY <1>1, ShownIs DEF m
<1>4. f[m] = g[m]
  BY <1>1, <1>2, <1>3, AfterAgree DEF m
<1>5. PICK h : After(h, f[m], q) /\ Shown(f[m], q) = h[k]
  BY <1>1, ShownIs DEF k
<1>6. PICK e : e = [i \in 0..k |-> f[m + i]]
  OBVIOUS
<1>7. After(e, f[m], q)
  <2>1. ASSUME NEW i \in 0..k
        PROVE  e[i] = IF i = 0 THEN f[m] ELSE Show(e[i - 1], q[i])
    <3>1. CASE i = 0
      BY <1>1, <1>6, <3>1
    <3>2. CASE i # 0
      <4>1. /\ m + i \in 0..(m + k) /\ m + i # 0 /\ m + i - 1 = m + (i - 1)
            /\ i - 1 \in 0..k /\ ~(m + i <= m) /\ m + i - m = i /\ m + i \in 1..(m + k)
        BY <1>1, <3>2
      <4>2. f[m + i] = Show(f[m + i - 1], r[m + i])
        BY <1>1, <1>2, <4>1 DEF After
      <4>3. r[m + i] = q[i]
        BY <1>1, <4>1
      <4>4. e[i] = f[m + i] /\ e[i - 1] = f[m + (i - 1)]
        BY <1>6, <4>1
      <4> QED
        BY <3>2, <4>1, <4>2, <4>3, <4>4
    <3> QED
      BY <3>1, <3>2
  <2>2. e = [i \in 0..k |-> IF i = 0 THEN f[m] ELSE Show(e[i - 1], q[i])]
    BY <1>6, <2>1
  <2> QED
    BY <2>2 DEF After, k
<1>8. e[k] = h[k]
  BY <1>1, <1>5, <1>7, AfterAgree DEF k
<1>9. e[k] = f[m + k]
  BY <1>1, <1>6
<1> QED
  BY <1>2, <1>3, <1>4, <1>5, <1>8, <1>9 DEF r

Endings == {"BLACKJACK", "BUST", "WIN", "SPLIT", "LOSS", "HOUSE BLACKJACK"}

Screens == [igralec : Int, hisa : Int, ends : Seq(Endings)]

(* What one piece does to a screen (client.c:19).                          *)
LEMMA ShowIs ==
  ASSUME NEW screen \in Screens
  PROVE  /\ \A v \in Values :
              /\ Show(screen, Card("igralec", v)) \in Screens
              /\ Show(screen, Card("igralec", v))
                   = [screen EXCEPT !.igralec = screen.igralec + v]
              /\ Show(screen, Card("hisa", v)) \in Screens
              /\ Show(screen, Card("hisa", v))
                   = [screen EXCEPT !.hisa = screen.hisa + v]
         /\ \A t \in Endings :
              /\ Show(screen, Text(t)) \in Screens
              /\ Show(screen, Text(t))
                   = [screen EXCEPT !.ends = Append(screen.ends, t)]
         /\ \A x \in Halves : Show(screen, x) = screen
<1>1. ASSUME NEW v \in Values
      PROVE  /\ Show(screen, Card("igralec", v)) \in Screens
             /\ Show(screen, Card("igralec", v))
                   = [screen EXCEPT !.igralec = screen.igralec + v]
             /\ Show(screen, Card("hisa", v)) \in Screens
             /\ Show(screen, Card("hisa", v))
                   = [screen EXCEPT !.hisa = screen.hisa + v]
  <2>1. v \in Int
    BY ServerAssumption
  <2>2. /\ Card("igralec", v).what = "igralec" /\ Card("igralec", v).worth = v
        /\ Card("hisa", v).what = "hisa" /\ Card("hisa", v).worth = v
    BY DEF Card
  <2>3. Show(screen, Card("igralec", v)) = [screen EXCEPT !.igralec = screen.igralec + v]
    BY <2>2 DEF Show, Screens
  <2>4. Show(screen, Card("hisa", v)) = [screen EXCEPT !.hisa = screen.hisa + v]
    BY <2>2 DEF Show, Screens
  <2> QED
    BY <2>1, <2>3, <2>4 DEF Screens
<1>2. ASSUME NEW t \in Endings
      PROVE  /\ Show(screen, Text(t)) \in Screens
             /\ Show(screen, Text(t)) = [screen EXCEPT !.ends = Append(screen.ends, t)]
  <2>1. Text(t).what = t /\ t \notin {"igralec", "hisa", "ask", "ask?"}
    BY DEF Text, Endings
  <2>2. Show(screen, Text(t)) = [screen EXCEPT !.ends = Append(screen.ends, t)]
    BY <2>1 DEF Show
  <2>3. Append(screen.ends, t) \in Seq(Endings)
    BY AppendProperties DEF Screens
  <2> QED
    BY <2>2, <2>3 DEF Screens
<1>3. ASSUME NEW x \in Halves PROVE Show(screen, x) = screen
  <2>1. x.what \in {"ask", "ask?"} /\ x.what \notin {"igralec", "hisa"}
    BY DEF Halves, Text
  <2> QED
    BY <2>1 DEF Show
<1> QED
  BY <1>1, <1>2, <1>3

(* A screen stays one, whatever has been read.                             *)
LEMMA ShownTypes ==
  ASSUME NEW screen \in Screens, NEW p \in Seq(Pieces)
  PROVE  Shown(screen, p) \in Screens
<1>1. Len(p) \in Nat /\ \A i \in 1..Len(p) : p[i] \in Pieces
  BY LenProperties, ElementOfSeq
<1>2. PICK f : After(f, screen, p) /\ Shown(screen, p) = f[Len(p)]
  BY <1>1, ShownIs
<1> DEFINE T == {i \in Nat : i <= Len(p) => f[i] \in Screens}
<1>3. ASSUME NEW s \in Screens, NEW x \in Pieces PROVE Show(s, x) \in Screens
  <2>1. CASE \E v \in Values : x \in {Card("igralec", v), Card("hisa", v)}
    BY <2>1, ShowIs
  <2>2. CASE \E t \in Endings : x = Text(t)
    BY <2>2, ShowIs
  <2>3. CASE x \in Halves
    BY <2>3, ShowIs
  <2>4. \/ \E v \in Values : x \in {Card("igralec", v), Card("hisa", v)}
        \/ \E t \in Endings : x = Text(t)
        \/ x \in Halves
    <3>1. CASE x \in [what : {"igralec", "hisa"}, worth : Values]
      BY <3>1 DEF Card
    <3>2. CASE x \notin [what : {"igralec", "hisa"}, worth : Values]
      BY <3>2 DEF Pieces, Endings, Halves
    <3> QED
      BY <3>1, <3>2
  <2> QED
    BY <2>1, <2>2, <2>3, <2>4
<1>4. 0 \in T
  BY <1>1, <1>2 DEF After
<1>5. ASSUME NEW i \in T, i + 1 <= Len(p) PROVE f[i + 1] \in Screens
  <2>1. i + 1 \in 1..Len(p) /\ i + 1 \in 0..Len(p) /\ i + 1 # 0 /\ i + 1 - 1 = i /\ f[i] \in Screens
    BY <1>1, <1>5
  <2>2. f[i + 1] = Show(f[i], p[i + 1])
    BY <1>2, <2>1 DEF After
  <2> QED
    BY <1>1, <1>3, <2>1, <2>2
<1>6. \A i \in T : i + 1 \in T
  BY <1>5
<1> HIDE DEF T
<1>7. Nat \subseteq T
  BY <1>4, <1>6, Induction
<1> QED
  BY <1>1, <1>2, <1>7 DEF T

(* What has been sent to a client, shown on its screen, is the game: no    *)
(* cards before it plays, then the totals the server holds, and the ending *)
(* those add up to once the connection is closed.                          *)
Sent(c) == Shown(told[c], toClient[c])

ScreenOf(i, h, e) == [igralec |-> i, hisa |-> h, ends |-> e]

Totals(c) ==
  ScreenOf(IF c = fd THEN igralec ELSE 0, IF c = fd THEN hisa ELSE 0, <<>>)

OnScreen(c) ==
  /\ cpc[c] \in {"connect", "done"} => toClient[c] = <<>>
  /\ IF c \notin ended THEN Sent(c) = Totals(c)
     ELSE \/ Sent(c).ends = <<Referee(Sent(c))>>
          \/ spc = "dead" /\ Sent(c).ends = <<>>

(* A connection that is still open has a game that is not decided.         *)
ScreenInv ==
  /\ TableInv
  /\ told \in [Clients -> Screens]
  /\ fd \in Clients => /\ hisa # 21
                       /\ spc = "deal" => igralec = 0
                       /\ spc = "house" => igralec < 21
  /\ \A c \in Clients : left[c] = "no" => OnScreen(c)

(* Nobody is connected, and nothing is on a screen.                        *)
LEMMA InitScreen == Init => ScreenInv
<1> SUFFICES ASSUME Init PROVE ScreenInv
  OBVIOUS
<1>1. TableInv
  BY InitTable
<1>2. /\ fd = NoOne /\ NoOne \notin Clients /\ ended = {}
      /\ told = [c \in Clients |-> Nothing] /\ toClient = [c \in Clients |-> <<>>]
  BY ServerAssumption DEF Init, NoConnections, SInit, CInit
<1>3. Nothing \in Screens
  BY DEF Nothing, Screens
<1>4. ASSUME NEW c \in Clients PROVE OnScreen(c)
  <2>1. Sent(c) = Nothing /\ toClient[c] = <<>>
    BY <1>2, ShownFew DEF Sent
  <2>2. Totals(c) = Nothing
    BY <1>2 DEF Totals, ScreenOf, Nothing
  <2> QED
    BY <1>2, <2>1, <2>2 DEF OnScreen
<1> QED
  BY <1>1, <1>2, <1>3, <1>4 DEF ScreenInv

(* A text goes to the one who plays, and nobody else sees a difference.    *)
LEMMA SendShows ==
  ASSUME ScreenInv, NEW pieces \in Seq(Pieces), Send(pieces), UNCHANGED cvars
  PROVE  \A c \in Clients : left'[c] = "no" =>
           /\ left[c] = "no" /\ OnScreen(c) /\ Sent(c) \in Screens
           /\ c # fd => toClient'[c] = toClient[c] /\ Sent(c)' = Sent(c)
           /\ c = fd => /\ cpc[c] \notin {"connect", "done"} /\ c \notin ended
                        /\ Sent(c) = Totals(c)
                        /\ Sent(c)' = Shown(Totals(c), pieces)
<1>1. ASSUME NEW c \in Clients, left'[c] = "no"
      PROVE  /\ left[c] = "no"
             /\ toClient'[c] = IF c = fd THEN toClient[c] \o pieces ELSE toClient[c]
             /\ told'[c] = told[c]
  BY <1>1, SendArrives DEF ScreenInv, TableInv, cvars
<1>2. ASSUME NEW c \in Clients, left'[c] = "no"
      PROVE  /\ left[c] = "no" /\ OnScreen(c) /\ Sent(c) \in Screens
             /\ c # fd => toClient'[c] = toClient[c] /\ Sent(c)' = Sent(c)
             /\ c = fd => /\ cpc[c] \notin {"connect", "done"} /\ c \notin ended
                          /\ Sent(c) = Totals(c)
                          /\ Sent(c)' = Shown(Totals(c), pieces)
  <2>1. left[c] = "no" /\ OnScreen(c)
    BY <1>1, <1>2 DEF ScreenInv
  <2>2. toClient[c] \in Seq(Pieces) /\ told[c] \in Screens
    BY DEF ScreenInv, TableInv, Wires
  <2>3. Sent(c) \in Screens
    BY <2>2, ShownTypes DEF Sent
  <2>4. ASSUME c # fd PROVE toClient'[c] = toClient[c] /\ Sent(c)' = Sent(c)
    BY <1>1, <1>2, <2>4 DEF Sent
  <2>5. ASSUME c = fd
        PROVE  /\ cpc[c] \notin {"connect", "done"} /\ c \notin ended
               /\ Sent(c) = Totals(c)
               /\ Sent(c)' = Shown(Totals(c), pieces)
    <3>1. cpc[c] \notin {"connect", "done"} /\ c \notin ended
      BY <2>5 DEF ScreenInv, TableInv, Seats
    <3>2. Sent(c) = Totals(c)
      BY <2>1, <3>1 DEF OnScreen
    <3>3. Sent(c)' = Shown(told[c], toClient[c] \o pieces)
      BY <1>1, <1>2, <2>5 DEF Sent
    <3>4. Sent(c)' = Shown(Sent(c), pieces)
      BY <2>2, <3>3, ShownParts DEF Sent
    <3> QED
      BY <3>1, <3>2, <3>4
  <2> QED
    BY <2>1, <2>3, <2>4, <2>5
<1> QED
  BY <1>2

(* What a statement that sends has to show: that the totals of the one who *)
(* plays are what the server now holds, or that its ending is the one its  *)
(* cards add up to.                                                        *)
LEMMA SendKeeps ==
  ASSUME ScreenInv, TableInv', NEW pieces \in Seq(Pieces), Send(pieces),
         UNCHANGED cvars, Keep \/ Close, spc # "dead",
         fd \in Clients => IF fd' = fd THEN Shown(Totals(fd), pieces) = Totals(fd)'
                           ELSE LET s == Shown(Totals(fd), pieces)
                                IN s.ends = <<Referee(s)>>,
         fd' \in Clients => /\ hisa' # 21 /\ spc' # "deal"
                            /\ spc' = "house" => igralec' < 21
  PROVE  ScreenInv'
<1>1. fd \in Clients \cup {NoOne} /\ NoOne \notin Clients
  BY ServerAssumption DEF ScreenInv, TableInv, AtTable
<1>2. \/ fd' = fd /\ ended' = ended
      \/ fd' = NoOne /\ ended' = (IF fd = NoOne THEN ended ELSE ended \cup {fd})
  <2>1. CASE Keep
    BY <2>1 DEF Keep
  <2>2. CASE Close
    BY <2>2 DEF Close
  <2> QED
    BY <2>1, <2>2
<1>3. ASSUME NEW c \in Clients, left'[c] = "no" PROVE OnScreen(c)'
  <2>1. /\ OnScreen(c)
        /\ c # fd => toClient'[c] = toClient[c] /\ Sent(c)' = Sent(c)
        /\ c = fd => /\ cpc[c] \notin {"connect", "done"} /\ c \notin ended
                     /\ Sent(c)' = Shown(Totals(c), pieces)
    BY <1>3, SendShows
  <2>2. cpc'[c] = cpc[c]
    BY DEF cvars
  <2>3. CASE c # fd
    <3>1. Totals(c)' = Totals(c)
      BY <1>1, <1>2, <2>3 DEF Totals
    <3>2. c \in ended' <=> c \in ended
      BY <1>2, <2>3
    <3>3. Referee(Sent(c))' = Referee(Sent(c))
      BY <2>1, <2>3 DEF Referee, Rules!Verdict
    <3> QED
      BY <2>1, <2>2, <2>3, <3>1, <3>2, <3>3 DEF OnScreen
  <2>4. CASE c = fd /\ fd' = fd
    <3>1. c \notin ended'
      BY <1>1, <1>2, <2>1, <2>4
    <3>2. Sent(c)' = Totals(c)'
      BY <2>1, <2>4
    <3> QED
      BY <2>1, <2>2, <2>4, <3>1, <3>2 DEF OnScreen
  <2>5. CASE c = fd /\ fd' # fd
    <3>1. c \in ended'
      BY <1>1, <1>2, <2>5
    <3>2. PICK s : s = Shown(Totals(fd), pieces)
      OBVIOUS
    <3>3. Sent(c)' = s /\ s.ends = <<Referee(s)>>
      BY <2>1, <2>5, <3>2
    <3>4. Referee(Sent(c))' = Referee(s)
      BY <3>3 DEF Referee, Rules!Verdict
    <3> QED
      BY <2>1, <2>2, <2>5, <3>1, <3>3, <3>4 DEF OnScreen
  <2> QED
    BY <2>3, <2>4, <2>5
<1> QED
  BY <1>3 DEF ScreenInv, cvars

(* What the server sends in one go.                                        *)
LEMMA Texts ==
  ASSUME NEW who \in {"igralec", "hisa"}
  PROVE  /\ \A v \in Values : <<Card(who, v)>> \in Seq(Pieces)
         /\ \A e \in Endings : <<Text(e)>> \in Seq(Pieces)
         /\ \A v \in Values, e \in Endings : <<Card(who, v), Text(e)>> \in Seq(Pieces)
         /\ \A v, w \in Values : <<Card(who, v), Card(who, w)>> \in Seq(Pieces)
<1>1. \A w \in Values : Card(who, w) \in Pieces
  BY Sayings
<1>2. \A e \in Endings : Text(e) \in Pieces
  BY Sayings DEF Endings
<1>3. \A x, y \in Pieces : <<x>> \in Seq(Pieces) /\ <<x, y>> \in Seq(Pieces)
  OBVIOUS
<1> QED
  BY <1>1, <1>2, <1>3

(* What one piece does to totals without an ending.                        *)
LEMMA ShowOn ==
  ASSUME NEW a \in Int, NEW b \in Int
  PROVE  /\ ScreenOf(a, b, <<>>) \in Screens
         /\ \A w \in Values :
              /\ Show(ScreenOf(a, b, <<>>), Card("igralec", w)) = ScreenOf(a + w, b, <<>>)
              /\ Show(ScreenOf(a, b, <<>>), Card("hisa", w)) = ScreenOf(a, b + w, <<>>)
         /\ \A e \in Endings : Show(ScreenOf(a, b, <<>>), Text(e)) = ScreenOf(a, b, <<e>>)
         /\ \A x \in Halves : Show(ScreenOf(a, b, <<>>), x) = ScreenOf(a, b, <<>>)
<1> DEFINE s == ScreenOf(a, b, <<>>)
<1>1. s \in Screens
  BY DEF ScreenOf, Screens
<1>2. s.igralec = a /\ s.hisa = b /\ s.ends = <<>>
  BY DEF ScreenOf
<1>3. \A x : [s EXCEPT !.igralec = x] = ScreenOf(x, b, <<>>)
  BY DEF ScreenOf
<1>4. \A x : [s EXCEPT !.hisa = x] = ScreenOf(a, x, <<>>)
  BY DEF ScreenOf
<1>5. \A x : [s EXCEPT !.ends = x] = ScreenOf(a, b, x)
  BY DEF ScreenOf
<1>6. \A x : Append(<<>>, x) = <<x>>
  OBVIOUS
<1> HIDE DEF s
<1>7. ASSUME NEW w \in Values
      PROVE  /\ Show(s, Card("igralec", w)) = ScreenOf(a + w, b, <<>>)
             /\ Show(s, Card("hisa", w)) = ScreenOf(a, b + w, <<>>)
  <2>1. /\ Show(s, Card("igralec", w)) = [s EXCEPT !.igralec = s.igralec + w]
        /\ Show(s, Card("hisa", w)) = [s EXCEPT !.hisa = s.hisa + w]
    BY <1>1, ShowIs
  <2> QED
    BY <1>2, <1>3, <1>4, <2>1
<1>8. ASSUME NEW e \in Endings PROVE Show(s, Text(e)) = ScreenOf(a, b, <<e>>)
  <2>1. Show(s, Text(e)) = [s EXCEPT !.ends = Append(s.ends, e)]
    BY <1>1, ShowIs
  <2>2. Append(s.ends, e) = <<e>>
    BY <1>2, <1>6, Zenon
  <2> QED
    BY <1>5, <2>1, <2>2, Zenon
<1>9. \A x \in Halves : Show(s, x) = s
  BY <1>1, ShowIs
<1> QED
  BY <1>1, <1>7, <1>8, <1>9 DEF s

(* What it sends does to totals.                                           *)
LEMMA ShownOn ==
  ASSUME NEW i \in Int, NEW h \in Int
  PROVE  /\ \A v \in Values :
              /\ Shown(ScreenOf(i, h, <<>>), <<Card("igralec", v)>>) = ScreenOf(i + v, h, <<>>)
              /\ Shown(ScreenOf(i, h, <<>>), <<Card("hisa", v)>>) = ScreenOf(i, h + v, <<>>)
         /\ \A e \in Endings :
              Shown(ScreenOf(i, h, <<>>), <<Text(e)>>) = ScreenOf(i, h, <<e>>)
         /\ \A v \in Values, e \in Endings :
              /\ Shown(ScreenOf(i, h, <<>>), <<Card("igralec", v), Text(e)>>)
                   = ScreenOf(i + v, h, <<e>>)
              /\ Shown(ScreenOf(i, h, <<>>), <<Card("hisa", v), Text(e)>>)
                   = ScreenOf(i, h + v, <<e>>)
         /\ \A v \in Values, w \in Values :
              /\ Shown(ScreenOf(i, h, <<>>), <<Card("igralec", v), Card("igralec", w)>>)
                   = ScreenOf(i + v + w, h, <<>>)
              /\ Shown(ScreenOf(i, h, <<>>), <<Card("hisa", v), Card("hisa", w)>>)
                   = ScreenOf(i, h + v + w, <<>>)
         /\ Shown(ScreenOf(i, h, <<>>), Question) = ScreenOf(i, h, <<>>)
<1> DEFINE s == ScreenOf(i, h, <<>>)
<1>1. /\ \A w \in Values : /\ Show(s, Card("igralec", w)) = ScreenOf(i + w, h, <<>>)
                          /\ Show(s, Card("hisa", w)) = ScreenOf(i, h + w, <<>>)
      /\ \A e \in Endings : Show(s, Text(e)) = ScreenOf(i, h, <<e>>)
      /\ \A x \in Halves : Show(s, x) = s
  BY ShowOn
<1>2. ASSUME NEW v \in Values
      PROVE  /\ Shown(s, <<Card("igralec", v)>>) = ScreenOf(i + v, h, <<>>)
             /\ Shown(s, <<Card("hisa", v)>>) = ScreenOf(i, h + v, <<>>)
             /\ \A e \in Endings :
                  /\ Shown(s, <<Card("igralec", v), Text(e)>>) = ScreenOf(i + v, h, <<e>>)
                  /\ Shown(s, <<Card("hisa", v), Text(e)>>) = ScreenOf(i, h + v, <<e>>)
             /\ \A w \in Values :
                  /\ Shown(s, <<Card("igralec", v), Card("igralec", w)>>)
                       = ScreenOf(i + v + w, h, <<>>)
                  /\ Shown(s, <<Card("hisa", v), Card("hisa", w)>>)
                       = ScreenOf(i, h + v + w, <<>>)
  <2>1. PICK a \in Int, b \in Int : a = i + v /\ b = h + v
    BY ServerAssumption
  <2>2. Show(s, Card("igralec", v)) = ScreenOf(a, h, <<>>)
        /\ Show(s, Card("hisa", v)) = ScreenOf(i, b, <<>>)
    BY <1>1, <2>1
  <2>3. /\ \A w \in Values : Show(ScreenOf(a, h, <<>>), Card("igralec", w)) = ScreenOf(a + w, h, <<>>)
        /\ \A e \in Endings : Show(ScreenOf(a, h, <<>>), Text(e)) = ScreenOf(a, h, <<e>>)
    BY ShowOn
  <2>4. /\ \A w \in Values : Show(ScreenOf(i, b, <<>>), Card("hisa", w)) = ScreenOf(i, b + w, <<>>)
        /\ \A e \in Endings : Show(ScreenOf(i, b, <<>>), Text(e)) = ScreenOf(i, b, <<e>>)
    BY ShowOn
  <2> HIDE DEF s
  <2>5. \A x, y : Shown(s, <<x, y>>) = Show(Show(s, x), y)
    BY ShownFew
  <2>6. Shown(s, <<Card("igralec", v)>>) = ScreenOf(a, h, <<>>)
        /\ Shown(s, <<Card("hisa", v)>>) = ScreenOf(i, b, <<>>)
    BY <2>2, ShownFew, Zenon
  <2>7. ASSUME NEW e \in Endings
        PROVE  /\ Shown(s, <<Card("igralec", v), Text(e)>>) = ScreenOf(a, h, <<e>>)
               /\ Shown(s, <<Card("hisa", v), Text(e)>>) = ScreenOf(i, b, <<e>>)
    <3>1. /\ Shown(s, <<Card("igralec", v), Text(e)>>) = Show(Show(s, Card("igralec", v)), Text(e))
          /\ Shown(s, <<Card("hisa", v), Text(e)>>) = Show(Show(s, Card("hisa", v)), Text(e))
      BY <2>5
    <3> QED
      BY <2>2, <2>3, <2>4, <3>1
  <2>8. ASSUME NEW w \in Values
        PROVE  /\ Shown(s, <<Card("igralec", v), Card("igralec", w)>>) = ScreenOf(a + w, h, <<>>)
               /\ Shown(s, <<Card("hisa", v), Card("hisa", w)>>) = ScreenOf(i, b + w, <<>>)
    <3>1. /\ Shown(s, <<Card("igralec", v), Card("igralec", w)>>)
               = Show(Show(s, Card("igralec", v)), Card("igralec", w))
          /\ Shown(s, <<Card("hisa", v), Card("hisa", w)>>)
               = Show(Show(s, Card("hisa", v)), Card("hisa", w))
      BY <2>5
    <3> QED
      BY <2>2, <2>3, <2>4, <3>1
  <2> QED
    BY <2>1, <2>6, <2>7, <2>8
<1> HIDE DEF s
<1>3. \A e \in Endings : Shown(s, <<Text(e)>>) = ScreenOf(i, h, <<e>>)
  BY <1>1, ShownFew
<1>4. Shown(s, Question) = s
  <2>1. Text("ask") \in Halves /\ Text("ask?") \in Halves
    BY DEF Halves
  <2>2. Show(s, Text("ask")) = s /\ Show(s, Text("ask?")) = s
    BY <1>1, <2>1
  <2> QED
    BY <2>2, ShownFew DEF Question
<1> QED
  BY <1>2, <1>3, <1>4 DEF s

(* Every statement of the server keeps the screens in step.                *)
LEMMA ServerScreen ==
  ASSUME ScreenInv, SNext, UNCHANGED cvars
  PROVE  ScreenInv'
<1> USE ServerAssumption DEF SGoto
<1>1. TableInv'
  BY StepServer DEF ScreenInv
<1>2. /\ fd \in Clients \cup {NoOne} /\ igralec \in Int /\ hisa \in Int
      /\ spc \in {"deal", "dealHouse"} => hisa = 0 /\ fd \in Clients
      /\ spc \in {"dealHouse", "while", "read", "hit"} /\ fd # NoOne => igralec < 21
      /\ spc \in {"accept", "dead"} => fd = NoOne
  BY DEF ScreenInv, TableInv, AtTable
<1>3. "BLACKJACK" \in Endings /\ "BUST" \in Endings /\ "HOUSE BLACKJACK" \in Endings
  BY DEF Endings
<1>4. fd \in Clients =>
        /\ Totals(fd) = ScreenOf(igralec, hisa, <<>>)
        /\ fd' = fd => Totals(fd)' = ScreenOf(igralec', hisa', <<>>)
  BY DEF Totals
<1> DEFINE scr == ScreenOf(igralec, hisa, <<>>)
<1>5. /\ \A v \in Values :
           /\ Shown(scr, <<Card("igralec", v)>>) = ScreenOf(igralec + v, hisa, <<>>)
           /\ Shown(scr, <<Card("hisa", v)>>) = ScreenOf(igralec, hisa + v, <<>>)
      /\ \A e \in Endings : Shown(scr, <<Text(e)>>) = ScreenOf(igralec, hisa, <<e>>)
      /\ \A v \in Values, e \in Endings :
           /\ Shown(scr, <<Card("igralec", v), Text(e)>>) = ScreenOf(igralec + v, hisa, <<e>>)
           /\ Shown(scr, <<Card("hisa", v), Text(e)>>) = ScreenOf(igralec, hisa + v, <<e>>)
      /\ \A v \in Values, w \in Values :
           /\ Shown(scr, <<Card("igralec", v), Card("igralec", w)>>)
                = ScreenOf(igralec + v + w, hisa, <<>>)
           /\ Shown(scr, <<Card("hisa", v), Card("hisa", w)>>)
                = ScreenOf(igralec, hisa + v + w, <<>>)
      /\ Shown(scr, Question) = scr
  BY <1>2, ShownOn
<1>6. fd \in Clients =>
        /\ Totals(fd) = scr
        /\ fd' = fd => Totals(fd)' = ScreenOf(igralec', hisa', <<>>)
  BY <1>4
<1> HIDE DEF scr
<1>7. CASE Accept
  <2>1. /\ spc = "accept" /\ spc' = "deal" /\ igralec' = 0 /\ hisa' = 0
        /\ queue # <<>> /\ fd' = Head(queue)
        /\ UNCHANGED <<toClient, ended, left, cpc, told>>
    BY <1>7 DEF Accept, cvars
  <2>2. ASSUME NEW c \in Clients, left'[c] = "no" PROVE OnScreen(c)'
    <3>1. OnScreen(c) /\ Sent(c)' = Sent(c)
      BY <2>1, <2>2 DEF ScreenInv, Sent
    <3>2. Totals(c)' = Totals(c)
      BY <1>2, <2>1 DEF Totals
    <3> QED
      BY <2>1, <3>1, <3>2 DEF OnScreen, Referee, Rules!Verdict
  <2> QED
    BY <1>1, <2>1, <2>2 DEF ScreenInv
<1>8. CASE DealPlayer
  <2>1. PICK a \in Values, b \in Values :
          /\ igralec' = a + b /\ Send(<<Card("igralec", a), Card("igralec", b)>>)
    BY <1>8 DEF DealPlayer
  <2>2. /\ spc = "deal" /\ spc' = "dealHouse" /\ Keep /\ fd' = fd /\ hisa' = hisa
        /\ igralec = 0 /\ hisa # 21
    BY <1>2, <1>8 DEF DealPlayer, Keep, ScreenInv
  <2>3. <<Card("igralec", a), Card("igralec", b)>> \in Seq(Pieces)
    BY <1>3, Texts
  <2>4. Shown(Totals(fd), <<Card("igralec", a), Card("igralec", b)>>) = Totals(fd)'
    <3>1. Shown(scr, <<Card("igralec", a), Card("igralec", b)>>)
            = ScreenOf(igralec + a + b, hisa, <<>>)
      BY <1>5
    <3>2. igralec + a + b = igralec'
      BY <2>1, <2>2
    <3> QED
      BY <1>2, <1>6, <2>2, <3>1, <3>2
  <2> QED
    BY <1>1, <2>1, <2>2, <2>3, <2>4, SendKeeps
<1>9. CASE DealHouse
  <2>1. PICK a \in Values, b \in Values :
          /\ hisa' = a + b /\ Send(<<Card("hisa", a), Card("hisa", b)>>)
    BY <1>9 DEF DealHouse
  <2>2. /\ spc = "dealHouse" /\ spc' = "while" /\ Keep /\ fd' = fd /\ igralec' = igralec
        /\ hisa = 0 /\ fd \in Clients
    BY <1>2, <1>9 DEF DealHouse, Keep
  <2>3. <<Card("hisa", a), Card("hisa", b)>> \in Seq(Pieces)
    BY <1>3, Texts
  <2>4. Shown(Totals(fd), <<Card("hisa", a), Card("hisa", b)>>) = Totals(fd)'
    <3>1. Shown(scr, <<Card("hisa", a), Card("hisa", b)>>)
            = ScreenOf(igralec, hisa + a + b, <<>>)
      BY <1>5
    <3>2. hisa + a + b = hisa'
      BY <2>1, <2>2
    <3> QED
      BY <1>6, <2>2, <3>1, <3>2
  <2>5. hisa' # 21
    BY <2>1
  <2> QED
    BY <1>1, <2>1, <2>2, <2>3, <2>4, <2>5, SendKeeps
<1>10. CASE Ask
  <2>1. /\ spc = "while" /\ spc' = "read" /\ Send(Question) /\ Keep
        /\ fd' = fd /\ hisa' = hisa /\ igralec' = igralec
    BY <1>10 DEF Ask, Keep
  <2>2. fd \in Clients => Shown(Totals(fd), Question) = Totals(fd)'
    <3>1. Shown(scr, Question) = scr
      BY <1>5
    <3> QED
      BY <1>6, <2>1, <3>1 DEF scr
  <2>3. fd \in Clients => hisa # 21
    BY DEF ScreenInv
  <2> QED
    BY <1>1, <2>1, <2>2, <2>3, Sayings, SendKeeps
<1>11. CASE Enough \/ ReadAnswer \/ ReadEnd
  <2>1. /\ UNCHANGED <<toClient, ended, left, cpc, told, fd, igralec, hisa>>
        /\ spc' \in {"hit", "house", "while"} /\ spc # "dead"
        /\ fd \in Clients => igralec < 21
    BY <1>2, <1>11 DEF Enough, ReadAnswer, ReadEnd, net, cvars
  <2>2. ASSUME NEW c \in Clients, left'[c] = "no" PROVE OnScreen(c)'
    <3>1. OnScreen(c) /\ Sent(c)' = Sent(c) /\ Totals(c)' = Totals(c)
      BY <2>1, <2>2 DEF ScreenInv, Sent, Totals
    <3> QED
      BY <2>1, <3>1 DEF OnScreen, Referee, Rules!Verdict
  <2> QED
    BY <1>1, <2>1, <2>2 DEF ScreenInv
<1>12. CASE ReadFails \/ Sigpipe
  <2>1. /\ UNCHANGED <<toClient, left, cpc, told>> /\ fd' = NoOne
        /\ fd \in Clients /\ left[fd] # "no" /\ spc # "dead"
        /\ \/ ended' = ended \cup {fd}
           \/ ended' = Clients /\ spc' = "dead"
    BY <1>2, <1>12 DEF ReadFails, Sigpipe, MaySigpipe, Close, cvars,
       ScreenInv, TableInv, AtTable
  <2>2. ASSUME NEW c \in Clients, left'[c] = "no" PROVE OnScreen(c)'
    <3>1. OnScreen(c) /\ Sent(c)' = Sent(c) /\ c # fd
      BY <2>1, <2>2 DEF ScreenInv, Sent
    <3>2. Totals(c)' = Totals(c) /\ Totals(c).ends = <<>>
      BY <2>1, <3>1 DEF Totals, ScreenOf
    <3> QED
      BY <2>1, <3>1, <3>2 DEF OnScreen, Referee, Rules!Verdict
  <2> QED
    BY <1>1, <2>1, <2>2 DEF ScreenInv
<1>13. CASE Hit
  <2>1. PICK v \in Values :
          /\ igralec' = igralec + v
          /\ \/ igralec' < 21 /\ Send(<<Card("igralec", v)>>) /\ Keep
             \/ /\ igralec' = 21 /\ Close
                /\ Send(<<Card("igralec", v), Text("BLACKJACK")>>)
             \/ /\ igralec' > 21 /\ Close
                /\ Send(<<Card("igralec", v), Text("BUST")>>)
    BY <1>13 DEF Hit
  <2>2. /\ spc = "hit" /\ spc' \in {"while", "accept"} /\ hisa' = hisa
        /\ fd \in Clients /\ hisa # 21
    <3>1. spc = "hit" /\ spc' \in {"while", "accept"} /\ hisa' = hisa
      BY <1>13 DEF Hit
    <3> QED
      BY <3>1 DEF ScreenInv, TableInv, AtTable
  <2>3. CASE igralec' < 21 /\ Send(<<Card("igralec", v)>>) /\ Keep
    <3>1. fd' = fd
      BY <2>3 DEF Keep
    <3>2. /\ Shown(scr, <<Card("igralec", v)>>)
               = ScreenOf(igralec + v, hisa, <<>>)
          /\ <<Card("igralec", v)>> \in Seq(Pieces)
      BY <1>5, <1>3, Texts
    <3>3. Shown(Totals(fd), <<Card("igralec", v)>>) = Totals(fd)'
      BY <1>6, <2>1, <2>2, <3>1, <3>2
    <3> QED
      BY <1>1, <2>2, <2>3, <3>1, <3>2, <3>3, SendKeeps
  <2>4. ASSUME NEW e \in Endings, Close, Send(<<Card("igralec", v), Text(e)>>),
               e = IF igralec' > 21 THEN "BUST" ELSE "BLACKJACK", igralec' >= 21
        PROVE  ScreenInv'
    <3>1. PICK u : u = ScreenOf(igralec', hisa, <<e>>)
      OBVIOUS
    <3>2. /\ Shown(scr, <<Card("igralec", v), Text(e)>>)
               = ScreenOf(igralec + v, hisa, <<e>>)
          /\ <<Card("igralec", v), Text(e)>> \in Seq(Pieces)
      BY <1>5, Texts
    <3>3. u.igralec = igralec' /\ u.ends = <<e>>
      BY <3>1 DEF ScreenOf
    <3>4. Referee(u) = e
      <4>1. igralec' \in Int
        BY <1>2, <2>1, ServerAssumption
      <4>2. CASE igralec' > 21
        BY <2>4, <3>3, <4>2 DEF Referee
      <4>3. CASE ~(igralec' > 21)
        <5>1. igralec' = 21 /\ e = "BLACKJACK"
          BY <2>4, <4>1, <4>3
        <5>2. ~(u.igralec > 21) /\ u.igralec = 21
          BY <3>3, <4>3, <5>1
        <5> QED
          BY <5>1, <5>2 DEF Referee
      <4> QED
        BY <4>2, <4>3
    <3>5. fd' = NoOne /\ fd' # fd
      BY <2>2, <2>4 DEF Close
    <3>6. Shown(Totals(fd), <<Card("igralec", v), Text(e)>>) = u
      BY <1>6, <2>1, <2>2, <3>1, <3>2
    <3> QED
      BY <1>1, <2>2, <2>4, <3>2, <3>3, <3>4, <3>5, <3>6, SendKeeps
  <2>5. igralec' \in Int
    BY <1>2, <2>1
  <2>6. CASE igralec' = 21 /\ Close /\ Send(<<Card("igralec", v), Text("BLACKJACK")>>)
    <3>1. PICK e \in Endings : e = "BLACKJACK"
      BY <1>3
    <3>2. e = (IF igralec' > 21 THEN "BUST" ELSE "BLACKJACK") /\ igralec' >= 21
      BY <2>5, <2>6, <3>1
    <3> QED
      BY <2>4, <2>6, <3>1, <3>2
  <2>7. CASE igralec' > 21 /\ Close /\ Send(<<Card("igralec", v), Text("BUST")>>)
    <3>1. PICK e \in Endings : e = "BUST"
      BY <1>3
    <3>2. e = (IF igralec' > 21 THEN "BUST" ELSE "BLACKJACK") /\ igralec' >= 21
      BY <2>5, <2>7, <3>1
    <3> QED
      BY <2>4, <2>7, <3>1, <3>2
  <2> QED
    BY <2>1, <2>3, <2>6, <2>7
<1>14. CASE Draw
  <2>1. PICK v \in Values :
          /\ hisa' = hisa + v
          /\ \/ /\ hisa' = 21 /\ Close
                /\ Send(<<Card("hisa", v), Text("HOUSE BLACKJACK")>>)
             \/ hisa' # 21 /\ Send(<<Card("hisa", v)>>) /\ Keep
    BY <1>14 DEF Draw
  <2>2. /\ spc = "house" /\ spc' = "house" /\ igralec' = igralec
        /\ fd \in Clients => igralec < 21
    BY <1>14 DEF Draw, ScreenInv
  <2>3. /\ Shown(scr, <<Card("hisa", v)>>)
             = ScreenOf(igralec, hisa + v, <<>>)
        /\ Shown(scr, <<Card("hisa", v), Text("HOUSE BLACKJACK")>>)
             = ScreenOf(igralec, hisa + v, <<"HOUSE BLACKJACK">>)
        /\ <<Card("hisa", v)>> \in Seq(Pieces)
        /\ <<Card("hisa", v), Text("HOUSE BLACKJACK")>> \in Seq(Pieces)
    BY <1>5, <1>3, Texts
  <2>4. CASE hisa' # 21 /\ Send(<<Card("hisa", v)>>) /\ Keep
    <3>1. fd' = fd
      BY <2>4 DEF Keep
    <3>2. fd \in Clients => Shown(Totals(fd), <<Card("hisa", v)>>) = Totals(fd)'
      BY <1>6, <2>1, <2>2, <2>3, <3>1
    <3> QED
      BY <1>1, <2>2, <2>3, <2>4, <3>1, <3>2, SendKeeps
  <2>5. CASE /\ hisa' = 21 /\ Close
             /\ Send(<<Card("hisa", v), Text("HOUSE BLACKJACK")>>)
    <3>1. fd' = NoOne
      BY <2>5 DEF Close
    <3>2. PICK u : u = ScreenOf(igralec, hisa', <<"HOUSE BLACKJACK">>)
      OBVIOUS
    <3>3. u.igralec = igralec /\ u.hisa = 21 /\ u.ends = <<"HOUSE BLACKJACK">>
      BY <2>5, <3>2 DEF ScreenOf
    <3>4. ASSUME igralec < 21 PROVE Referee(u) = "HOUSE BLACKJACK"
      <4>1. \A i \in Int : i < 21 => ~(i > 21) /\ ~(i = 21)
        OBVIOUS
      <4>2. ~(u.igralec > 21) /\ ~(u.igralec = 21) /\ u.hisa = 21
        BY <1>2, <3>3, <3>4, <4>1, Zenon
      <4> QED
        BY <4>2 DEF Referee
    <3>5. fd \in Clients =>
            Shown(Totals(fd), <<Card("hisa", v), Text("HOUSE BLACKJACK")>>) = u
      BY <1>6, <2>1, <2>3, <3>2
    <3> QED
      BY <1>1, <2>2, <2>3, <2>5, <3>1, <3>3, <3>4, <3>5, SendKeeps
  <2> QED
    BY <2>1, <2>4, <2>5
<1>15. CASE Settle
  <2>1. /\ spc = "house" /\ spc' = "accept" /\ fd' = NoOne /\ Close
        /\ Send(<<Text(Outcome)>>)
    BY <1>15 DEF Settle, Close
  <2>2. fd \in Clients => igralec < 21 /\ hisa # 21
    BY <2>1 DEF ScreenInv
  <2>3. PICK e \in Endings : e = Outcome
    BY DEF Outcome, Endings
  <2>4. Shown(scr, <<Text(e)>>) = ScreenOf(igralec, hisa, <<e>>) /\ <<Text(e)>> \in Seq(Pieces)
    BY <1>5, Texts
  <2>5. PICK u : u = ScreenOf(igralec, hisa, <<e>>)
    OBVIOUS
  <2>6. u.igralec = igralec /\ u.hisa = hisa /\ u.ends = <<e>>
    BY <2>5 DEF ScreenOf
  <2>7. fd \in Clients => Referee(u) = e
    BY <1>2, <2>2, <2>3, <2>6 DEF Referee, Rules!Verdict, Outcome
  <2>8. Send(<<Text(e)>>) /\ <<Text(e)>> \in Seq(Pieces) /\ Shown(scr, <<Text(e)>>) = u
    BY <2>1, <2>3, <2>4, <2>5
  <2>9. fd \in Clients => Shown(Totals(fd), <<Text(e)>>) = u
    BY <1>6, <2>8
  <2> QED
    BY <1>1, <2>1, <2>6, <2>7, <2>8, <2>9, SendKeeps
<1>16. CASE AcceptFails
  <2>1. /\ UNCHANGED <<toClient, left, cpc, told>> /\ fd = NoOne /\ fd' = NoOne
        /\ spc = "accept" /\ spc' = "dead" /\ ended' = Clients
    BY <1>2, <1>16 DEF AcceptFails, cvars
  <2>2. ASSUME NEW c \in Clients, left'[c] = "no" PROVE OnScreen(c)'
    <3>1. OnScreen(c) /\ Sent(c)' = Sent(c) /\ c # fd
      BY <2>1, <2>2, ServerAssumption DEF ScreenInv, Sent
    <3>2. Totals(c)' = Totals(c) /\ Totals(c).ends = <<>>
      BY <2>1, <3>1 DEF Totals, ScreenOf
    <3> QED
      BY <2>1, <3>1, <3>2 DEF OnScreen, Referee, Rules!Verdict
  <2> QED
    BY <1>1, <2>1, <2>2 DEF ScreenInv
<1> QED
  BY <1>7, <1>8, <1>9, <1>10, <1>11, <1>12, <1>13, <1>14, <1>15, <1>16 DEF SNext

(* So does every step of a client: a read() moves pieces from the stream   *)
(* to the screen.                                                          *)
LEMMA ClientScreen ==
  ASSUME ScreenInv, NEW c \in Clients, Play(c)
  PROVE  ScreenInv'
<1>1. TableInv' /\ UNCHANGED svars
  BY StepClient DEF ScreenInv, Play
<1>2. UNCHANGED <<spc, fd, igralec, hisa>>
  BY <1>1 DEF svars
<1>3. /\ cpc \in [Clients -> {"connect", "read", "answer", "done", "left"}]
      /\ toClient \in [Clients -> Seq(Pieces)] /\ told \in [Clients -> Screens]
  BY DEF ScreenInv, TableInv, Wires
<1>4. ended' = ended
  BY DEF Play, Client, Connect, Refused, Read, ReadEof, Leave, Answer, net
<1>5. \A d \in Clients : left'[d] = "no" => left[d] = "no"
  <2>1. ASSUME NEW d \in Clients, left'[d] = "no" PROVE left[d] = "no"
    <3>1. CASE Leave(c)
      <4>1. PICK x \in {"fin", "rst"} : left' = [left EXCEPT ![c] = x]
        BY <3>1 DEF Leave
      <4> QED
        BY <2>1, <4>1 DEF ScreenInv, TableInv, Wires
    <3>2. CASE ~Leave(c)
      BY <2>1, <3>2 DEF Play, Client, Connect, Refused, Read, ReadEof, Answer, net
    <3> QED
      BY <3>1, <3>2
  <2> QED
    BY <2>1
<1>6. SUFFICES /\ told' \in [Clients -> Screens]
               /\ \A d \in Clients : left[d] = "no" =>
                    /\ Sent(d)' = Sent(d)
                    /\ cpc'[d] \in {"connect", "done"} => toClient'[d] = <<>>
  <2>1. SUFFICES ASSUME NEW d \in Clients, left[d] = "no", Sent(d)' = Sent(d),
                        cpc'[d] \in {"connect", "done"} => toClient'[d] = <<>>
                 PROVE  OnScreen(d)'
    BY <1>1, <1>2, <1>5 DEF ScreenInv
  <2>2. OnScreen(d)
    BY <2>1 DEF ScreenInv
  <2>3. Totals(d)' = Totals(d) /\ Referee(Sent(d))' = Referee(Sent(d))
    BY <1>2, <2>1 DEF Totals, Referee, Rules!Verdict
  <2> QED
    BY <1>2, <1>4, <2>1, <2>2, <2>3 DEF OnScreen
<1>7. CASE Read(c)
  <2>1. PICK n \in 1..Len(toClient[c]) :
          /\ cpc'[c] \in {"answer", "read"} /\ cpc' = [cpc EXCEPT ![c] = cpc'[c]]
          /\ told' = [told EXCEPT ![c] = Shown(told[c], SubSeq(toClient[c], 1, n))]
          /\ toClient' = [toClient EXCEPT
                            ![c] = SubSeq(toClient[c], n + 1, Len(toClient[c]))]
    BY <1>3, <1>7 DEF Read
  <2> DEFINE s == toClient[c]
             p == SubSeq(s, 1, n)
             r == SubSeq(s, n + 1, Len(s))
  <2>2. s \in Seq(Pieces) /\ told[c] \in Screens /\ Len(s) \in Nat
    BY <1>3, LenProperties
  <2>3. p \in Seq(Pieces) /\ r \in Seq(Pieces) /\ p \o r = s
    <3>1. n \in Nat /\ n > 0 /\ n <= Len(s) /\ 1 \in 1..(Len(s) + 1)
          /\ n \in (1 - 1)..Len(s) /\ Len(s) \in n..Len(s)
      BY <2>2
    <3>2. p \o r = SubSeq(s, 1, Len(s))
      BY <2>2, <3>1, ConcatAdjacentSubSeq
    <3>3. p \in Seq(Pieces) /\ r \in Seq(Pieces)
      BY <2>2, <3>1, SubSeqProperties
    <3> QED
      BY <2>2, <3>2, <3>3, SubSeqFull
  <2>4. told'[c] = Shown(told[c], p) /\ toClient'[c] = r
    BY <1>3, <2>1
  <2>5. \A d \in Clients \ {c} : told'[d] = told[d] /\ toClient'[d] = toClient[d] /\ cpc'[d] = cpc[d]
    BY <1>3, <2>1
  <2> HIDE DEF s, p, r
  <2>6. Shown(told[c], p) \in Screens /\ Shown(Shown(told[c], p), r) = Shown(told[c], s)
    BY <2>2, <2>3, ShownTypes, ShownParts
  <2>7. told' \in [Clients -> Screens]
    BY <1>3, <2>1, <2>6 DEF s, p
  <2>8. ASSUME NEW d \in Clients, left[d] = "no"
        PROVE  /\ Sent(d)' = Sent(d)
               /\ cpc'[d] \in {"connect", "done"} => toClient'[d] = <<>>
    <3>1. CASE d = c
      BY <2>1, <2>4, <2>6, <3>1 DEF Sent, s
    <3>2. CASE d # c
      BY <2>5, <2>8, <3>2 DEF Sent, ScreenInv, OnScreen
    <3> QED
      BY <3>1, <3>2
  <2> QED
    BY <2>7, <2>8
<1>8. CASE ~Read(c)
  <2>1. UNCHANGED <<told, toClient>>
    BY <1>8 DEF Play, Client, Connect, Refused, ReadEof, Leave, Answer, net
  <2>2. ASSUME NEW d \in Clients, cpc'[d] \in {"connect", "done"}
        PROVE  cpc[d] \in {"connect", "done"} \/ toClient[d] = <<>>
    <3>1. CASE ReadEof(c)
      BY <1>3, <2>2, <3>1 DEF ReadEof, Goto
    <3>2. CASE Refused(c, spc # "dead")
      BY <1>3, <2>2, <3>2 DEF Refused, Goto
    <3>3. CASE Connect(c, spc # "dead") \/ Leave(c) \/ \E w \in {"H", "S", "other"} : Answer(c, w)
      BY <1>3, <2>2, <3>3 DEF Connect, Leave, Answer, Goto
    <3> QED
      BY <1>8, <3>1, <3>2, <3>3 DEF Play, Client
  <2>3. ASSUME NEW d \in Clients, left[d] = "no"
        PROVE  Sent(d)' = Sent(d) /\ (cpc'[d] \in {"connect", "done"} => toClient'[d] = <<>>)
    BY <2>1, <2>2, <2>3 DEF Sent, ScreenInv, OnScreen
  <2> QED
    BY <1>3, <2>1, <2>3
<1> QED
  BY <1>7, <1>8

(* ScreenAddsUp: every client that has come to its end has been told one   *)
(* ending, the one the cards on its screen add up to (server.c:198, 240),  *)
(* unless the server has died before.                                      *)
THEOREM ScreensAddUp == Spec => []ScreenAddsUp
<1>1. ASSUME ScreenInv, [Next]_vars PROVE ScreenInv'
  <2>1. CASE Serve
    BY <1>1, <2>1, ServerScreen DEF Serve
  <2>2. CASE \E c \in Clients : Play(c)
    BY <1>1, <2>2, ClientScreen
  <2>3. CASE UNCHANGED vars
    <3>1. TableInv'
      BY <1>1, <2>3 DEF vars, net, svars, cvars, ScreenInv, TableInv, AtTable, Wires, Seats,
         Dialogues, Dialogue, NoQuestion, EndsAsking
    <3> QED
      BY <1>1, <2>3, <3>1 DEF vars, net, svars, cvars, ScreenInv, OnScreen, Sent, Totals,
         Referee, Rules!Verdict
  <2> QED
    BY <1>1, <2>1, <2>2, <2>3 DEF Next, Quiet
<1>2. ScreenInv => ScreenAddsUp
  <2>1. SUFFICES ASSUME ScreenInv, NEW c \in Clients, cpc[c] = "done"
                 PROVE  \/ told[c].ends = <<Referee(told[c])>>
                        \/ spc = "dead" /\ told[c].ends = <<>>
    BY DEF ScreenAddsUp
  <2>2. left[c] = "no" /\ c \in ended
    BY <2>1 DEF ScreenInv, TableInv, Seats
  <2>3. OnScreen(c) /\ toClient[c] = <<>>
    BY <2>1, <2>2 DEF ScreenInv, OnScreen
  <2>4. Sent(c) = told[c]
    BY <2>3, ShownFew DEF Sent
  <2> QED
    BY <2>2, <2>3, <2>4 DEF OnScreen
<1> QED
  BY InitScreen, <1>1, <1>2, PTL DEF Spec

-----------------------------------------------------------------------------
(* The game at one terminal *)

(* What the totals are when the player is asked and when the house draws;  *)
(* the loop that asks up to 21 never asks at 21, because whoever draws it  *)
(* has ended the program (blackjack.c:32).                                 *)
SoloInv ==
  /\ mine \in 0..30 /\ its \in 0..26
  /\ pc \in {"deal", "dealHouse", "while", "house", "exited"}
  /\ pc = "dealHouse" => mine < 21
  /\ pc \in {"while", "house"} => mine < 21 /\ its # 21

(* The totals are 0 and nothing is dealt when the program starts.          *)
LEMMA InitSolo == Solo!Init => SoloInv /\ Solo!Rules!Init
BY DEF Solo!Init, SoloInv, Solo!Rules!Init, Solo!TableOver

(* Every statement of the program keeps SoloInv, and is a move of the      *)
(* rules or none.                                                          *)
LEMMA StepSolo ==
  ASSUME SoloInv, Solo!Next
  PROVE  SoloInv' /\ [Solo!Rules!Next]_Solo!Rules!vars
<1> USE DeckAssumption DEF SoloInv, Solo!TableOver, Solo!Rules!vars
<1>1. CASE Solo!DealPlayer
  <2>1. PICK a \in Deck, b \in Deck : mine' = a + b
    BY <1>1 DEF Solo!DealPlayer
  <2>2. a + b \in 2..20 /\ a + b \in Solo!Rules!Pairs
    BY DEF Solo!Rules!Pairs
  <2>3. pc = "deal" /\ pc' = "dealHouse" /\ its' = its /\ saidHere' = "none"
    BY <1>1 DEF Solo!DealPlayer
  <2>4. SoloInv'
    BY <2>1, <2>2, <2>3
  <2>5. Solo!Rules!DealPlayer
    BY <2>1, <2>2, <2>3 DEF Solo!Rules!DealPlayer
  <2> QED
    BY <2>4, <2>5 DEF Solo!Rules!Next
<1>2. CASE Solo!DealHouse
  <2>1. PICK a \in Deck, b \in Deck : its' = a + b
    BY <1>2 DEF Solo!DealHouse
  <2>2. a + b \in 2..20 /\ a + b \in Solo!Rules!Pairs
    BY DEF Solo!Rules!Pairs
  <2>3. /\ pc = "dealHouse" /\ pc' = "while" /\ UNCHANGED <<mine, saidHere>>
    BY <1>2 DEF Solo!DealHouse
  <2>4. SoloInv'
    BY <2>1, <2>2, <2>3
  <2>5. Solo!Rules!DealHouse
    BY <2>1, <2>2, <2>3 DEF Solo!Rules!DealHouse
  <2> QED
    BY <2>4, <2>5 DEF Solo!Rules!Next
<1>3. CASE Solo!Hit
  <2>1. PICK v \in Deck : mine' = mine + v
    BY <1>3 DEF Solo!Hit
  <2>2. /\ pc = "while" /\ its' = its
        /\ pc' = IF mine' = 21 THEN "exited" ELSE IF mine' > 21 THEN "deal" ELSE pc
        /\ saidHere' = IF mine' = 21 THEN "BLACKJACK"
                   ELSE IF mine' > 21 THEN "BUST" ELSE saidHere
    BY <1>3 DEF Solo!Hit
  <2>3. mine + v \in 0..30 /\ v \in 1..10
    BY <2>2
  <2>4. SoloInv'
    BY <2>1, <2>2, <2>3
  <2>5. Solo!Rules!Hit
    BY <2>1, <2>2, <2>3 DEF Solo!Rules!Hit, Solo!Rules!Over
  <2> QED
    BY <2>4, <2>5 DEF Solo!Rules!Next
<1>4. CASE Solo!Stand
  <2>1. Solo!Rules!Stand
    BY <1>4 DEF Solo!Stand, Solo!Rules!Stand
  <2> QED
    BY <1>4, <2>1 DEF Solo!Stand, Solo!Rules!Next
<1>5. CASE Solo!Draw
  <2>1. PICK v \in Deck : its' = its + v
    BY <1>5 DEF Solo!Draw
  <2>2. /\ pc = "house" /\ mine' = mine /\ its < 17
        /\ pc' = IF its' = 21 THEN "exited" ELSE pc
    BY <1>5 DEF Solo!Draw
  <2>3. its + v \in 0..26 /\ v \in 1..10
    BY <2>2
  <2>4. SoloInv'
    BY <2>1, <2>2, <2>3
  <2>5. Solo!Rules!Draw
    BY <1>5, <2>1, <2>2, <2>3 DEF Solo!Draw, Solo!Rules!Draw, Solo!Rules!Over
  <2> QED
    BY <2>4, <2>5 DEF Solo!Rules!Next
<1>6. CASE Solo!Settle
  <2>1. SoloInv'
    BY <1>6 DEF Solo!Settle
  <2>2. Solo!Rules!Settle
    BY <1>6 DEF Solo!Settle, Solo!Rules!Settle, Solo!Rules!Over, Solo!Rules!Verdict
  <2> QED
    BY <2>1, <2>2 DEF Solo!Rules!Next
<1>7. CASE Solo!Exited
  BY <1>7 DEF Solo!Exited, Solo!vars
<1> QED
  BY <1>1, <1>2, <1>3, <1>4, <1>5, <1>6, <1>7 DEF Solo!Next

(* RulesSpec of BlackjackSolo: the game at the terminal plays by the same  *)
(* rules, though its totals are global and nothing but the deal resets     *)
(* them (blackjack.c:11-14, 32).                                           *)
THEOREM SoloPlaysByTheRules == Solo!Spec => SoloRulesSpec
<1>1. ASSUME SoloInv, [Solo!Next]_Solo!vars
      PROVE  SoloInv' /\ [Solo!Rules!Next]_Solo!Rules!vars
  <2>1. CASE UNCHANGED Solo!vars
    BY <1>1, <2>1 DEF SoloInv, Solo!vars, Solo!Rules!vars, Solo!TableOver
  <2> QED
    BY <1>1, <2>1, StepSolo
<1> QED
  BY InitSolo, <1>1, PTL DEF Solo!Spec, SoloRulesSpec, Solo!RulesSpec, Solo!Rules!Spec
=============================================================================
