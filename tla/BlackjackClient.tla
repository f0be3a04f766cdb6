--------------------------- MODULE BlackjackClient ---------------------------
(***************************************************************************)
(* client.c of exercise 8: prints what it reads, and whenever one read     *)
(* holds the whole question sends one word from the terminal.  A person    *)
(* may also end the program, at most MaxLeaves of them.                    *)
(***************************************************************************)
EXTENDS TableNet, FiniteSets

CONSTANT MaxLeaves

ASSUME ClientAssumption == MaxLeaves \in Nat

VARIABLES
  cpc,    (* where each client is                                           *)
  told,   (* what its screen says: the totals of the cards, the ends        *)
  split   (* history: a read of it has ended inside the question            *)

cvars == <<cpc, told, split>>

Nothing == [igralec |-> 0, hisa |-> 0, ends |-> <<>>]

CInit ==
  /\ cpc = [c \in Clients |-> "connect"]
  /\ told = [c \in Clients |-> Nothing]
  /\ split = [c \in Clients |-> FALSE]

Goto(c, from, to) == cpc[c] = from /\ cpc' = [cpc EXCEPT ![c] = to]

(* With the queue full the kernel keeps trying.                            *)
Connect(c, listening) ==
  /\ listening /\ Len(queue) < Backlog
  /\ Goto(c, "connect", "read")
  /\ queue' = Append(queue, c)
  /\ UNCHANGED <<toServer, toClient, ended, left, told, split>>

Refused(c, listening) ==
  /\ ~listening
  /\ Goto(c, "connect", "done")
  /\ UNCHANGED <<net, told, split>>

Show(screen, piece) ==
  CASE piece.what \in {"igralec", "hisa"} ->
         [screen EXCEPT ![piece.what] = @ + piece.worth]
    [] piece.what \in {"ask", "ask?"} -> screen
    [] OTHER -> [screen EXCEPT !.ends = Append(@, piece.what)]

(* The screen after some pieces in a row.                                  *)
Shown(screen, pieces) ==
  LET after[i \in 0..Len(pieces)] ==
        IF i = 0 THEN screen ELSE Show(after[i - 1], pieces[i])
  IN after[Len(pieces)]

(* Mutations of Asked: the question must come first; anything is taken for *)
(* a question.                                                             *)
Asked_First(pieces)  == Len(pieces) > 1 /\ pieces[1] = Text("ask")
Asked_Always(pieces) == TRUE

(* strstr looks for the question in this read alone.                       *)
Asked(pieces) ==
  \E i \in 2..Len(pieces) : pieces[i] = Text("ask?") /\ pieces[i - 1] = Text("ask")
EndsInside(pieces) == pieces[Len(pieces)] = Text("ask")

Read(c) ==
  /\ cpc[c] = "read"
  /\ \E n \in 1..Len(toClient[c]) :
       LET pieces == SubSeq(toClient[c], 1, n) IN
       /\ EndsInside(pieces) => Splits
       /\ cpc' = [cpc EXCEPT ![c] = IF Asked(pieces) THEN "answer" ELSE "read"]
       /\ told' = [told EXCEPT ![c] = Shown(@, pieces)]
       /\ split' = [split EXCEPT ![c] = @ \/ EndsInside(pieces)]
       /\ toClient' = [toClient EXCEPT ![c] = SubSeq(@, n + 1, Len(@))]
  /\ UNCHANGED <<queue, toServer, ended, left>>

Answer(c, word) ==
  /\ Goto(c, "answer", "read")
  /\ toServer' = IF c \in ended THEN toServer
                 ELSE [toServer EXCEPT ![c] = Append(@, word)]
  /\ UNCHANGED <<queue, toClient, ended, left, told, split>>

(* read returns 0, or -1 after a reset.                                    *)
ReadEof(c) ==
  /\ Goto(c, "read", "done")
  /\ toClient[c] = <<>> /\ c \in ended
  /\ UNCHANGED <<net, told, split>>

(* A process that ends with bytes unread resets the connection.            *)
Leave(c) ==
  /\ cpc[c] \in {"read", "answer"} /\ c \notin ended
  /\ Cardinality({d \in Clients : cpc[d] = "left"}) < MaxLeaves
  /\ cpc' = [cpc EXCEPT ![c] = "left"]
  /\ left' = [left EXCEPT ![c] = IF toClient[c] = <<>> THEN "fin" ELSE "rst"]
  /\ UNCHANGED <<queue, toServer, toClient, ended, told, split>>
Client(c, listening) ==
  \/ Connect(c, listening) \/ Refused(c, listening)
  \/ Read(c) \/ ReadEof(c) \/ Leave(c)
  \/ \E word \in {"H", "S", "other"} : Answer(c, word)
=============================================================================
