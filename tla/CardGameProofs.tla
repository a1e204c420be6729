--------------------------- MODULE CardGameProofs ---------------------------
(***************************************************************************)
(* Theorems about CardGame, for every number of clients, every deck, every *)
(* hand size and every number of messages a read may return.               *)
(*                                                                         *)
(* TypeOK and RoundCardAgreement have one inductive invariant, IInv: the   *)
(* types, with the cards in LoadGame messages narrowed, wherever such a    *)
(* message may be, to the card on top of the green deck at the start; and, *)
(* as the reason why there is no other, that the deck is untouched as long *)
(* as fewer players have been counted than are expected.                   *)
(***************************************************************************)
EXTENDS CardGame, TextsProofs

USE DeckAssumption, RulesAssumption, NoJudgeAssumption, MissingFilesAssumption,
    HandSizeAssumption, QuittersAssumption, ReadMaxAssumption, CardAssumption
DEF historyVars

\* The messages of the host in which a green card is the first of the deck.
ShownMessage == {m \in ServerMessage : m.rpc = "LoadGame" =>
                                         GreenDeck # <<>> /\ m.card = Head(GreenDeck)}
ShownEvent   == {e \in ClientEventMessage : e.msg \in ShownMessage}
ShownItem    == [to : Client, msg : ShownMessage]

ShownCard == {NoCard, Spoiled} \cup (IF GreenDeck # <<>> THEN {Head(GreenDeck)} ELSE {})

\* What the host's own variables satisfy.
HostInv ==
  /\ hostUp \in BOOLEAN
  /\ callbackSet \in BOOLEAN
  /\ clients \in Seq(Client)
  /\ reading \subseteq Client
  /\ playerData \subseteq Client
  /\ eventQueue \in Seq(HostEventMessage)
  /\ clientCount \in Nat
  /\ redDeck \in Seq(RedCard)
  /\ greenDeck \in Seq(GreenCard)
  /\ clientCount < ExpectedPlayers => greenDeck \in {GreenDeck, <<>>}
  /\ judge \in Client \cup {NoJudge}
  /\ outbox \in Seq(ShownItem)
  /\ loaded \subseteq Client
  /\ dealt \in [Client -> Seq(RedCard)]

NetworkInv ==
  /\ process \in [Client -> {"off", "up", "gone"}]
  /\ backlog \in Seq(Client)
  /\ toServer \in [Client -> Seq(ClientMessage)]
  /\ toClient \in [Client -> Seq(ShownMessage)]

PlayerInv ==
  /\ pstate \in [Client -> {"Waiting", "Playing", "Judge"}]
  /\ hand \in [Client -> Seq(RedCard \cup {Spoiled})]
  /\ roundCard \in [Client -> ShownCard]
  /\ inbox \in [Client -> Seq(ShownEvent)]
  /\ missed \subseteq Client

IInv == HostInv /\ NetworkInv /\ PlayerInv

-----------------------------------------------------------------------------
(* Sequences *)

\* The first element of a queue and the rest of it have the queue's types.
LEMMA HeadAndTail ==
  ASSUME NEW S, NEW q \in Seq(S), q # <<>>
  PROVE  Head(q) \in S /\ Tail(q) \in Seq(S)
  BY HeadTailProperties

\* What a read takes from a stream and what it leaves have the stream's types.
LEMMA ReadOfStream ==
  ASSUME NEW S, NEW stream \in Seq(S), NEW k \in ReadSizes(stream)
  PROVE  /\ Deserialize(SubSeq(stream, 1, k)).msg \in S
         /\ Deserialize(SubSeq(stream, 1, k)).spoiled \in BOOLEAN
         /\ Unread(stream, k) \in Seq(S)
<1>1. Len(stream) \in Nat /\ 1 \in 1..Len(stream) /\ k \in 1..Len(stream)
  BY LenProperties DEF ReadSizes
<1>2. Head(SubSeq(stream, 1, k)) = stream[1]
  BY <1>1, HeadTailOfSubSeq
<1>3. stream[1] \in S
  BY <1>1, ElementOfSeq
<1>4. Unread(stream, k) \in Seq(S)
  <2>1. \A i \in k + 1 .. Len(stream) : stream[i] \in S
    BY <1>1, ElementOfSeq
  <2> QED BY <1>1, <2>1, SubSeqProperties DEF Unread
<1>5. Deserialize(SubSeq(stream, 1, k)).msg \in S
  BY <1>2, <1>3 DEF Deserialize
<1>6. Deserialize(SubSeq(stream, 1, k)).spoiled \in BOOLEAN
  <2>1. (Len(SubSeq(stream, 1, k)) > 1) \in BOOLEAN
    OBVIOUS
  <2> QED BY <2>1 DEF Deserialize
<1> QED BY <1>4, <1>5, <1>6

\* A part of a deck is a sequence of its cards.
LEMMA PartOfSeq ==
  ASSUME NEW S, NEW s \in Seq(S), NEW a \in Nat \ {0}, NEW b \in Int, b <= Len(s)
  PROVE  SubSeq(s, a, b) \in Seq(S)
<1>1. \A i \in a .. b : s[i] \in S
  BY LenProperties, ElementOfSeq
<1> QED BY <1>1, SubSeqProperties

\* A broadcast has one item for each client.
LEMMA BroadcastType ==
  ASSUME clients \in Seq(Client), NEW M, NEW msgs \in [Client -> M]
  PROVE  ToEachClient(msgs) \in Seq([to : Client, msg : M])
<1>1. Len(clients) \in Nat /\ \A i \in 1..Len(clients) : clients[i] \in Client
  BY LenProperties, ElementOfSeq
<1> DEFINE Item == [to : Client, msg : M]
<1>2. ToEachClient(msgs) \in [1..Len(clients) -> Item]
  BY <1>1 DEF ToEachClient
<1> HIDE DEF Item
<1>3. ToEachClient(msgs) \in Seq(Item)
  <2>1. PICK n \in Nat : n = Len(clients)
    BY <1>1
  <2>2. ToEachClient(msgs) \in [1..n -> Item]
    BY <1>2, <2>1
  <2> QED BY <2>2, SeqDef, SMTT(30)
<1> QED BY <1>3 DEF Item

\* Writing a message keeps the streams to the clients well-typed.
LEMMA SentType ==
  ASSUME NEW M, toClient \in [Client -> Seq(M)], NEW c \in Client, NEW m \in M
  PROVE  Sent(c, m) \in [Client -> Seq(M)]
  BY AppendProperties DEF Sent

-----------------------------------------------------------------------------
(* The texts of cards *)

\* What is in a text: cards, delimiters, and what is neither.
Alphabet == RedCard \cup {Spoiled, Slash}

\* The text of a card is one of the alphabet.
LEMMA TextOfType == \A card \in RedCard : TextOf(card) \in Seq(Alphabet)
<1> SUFFICES ASSUME NEW card \in RedCard PROVE TextOf(card) \in Seq(Alphabet)
  OBVIOUS
<1>1. CASE Slashes[card] = 0
  BY <1>1 DEF TextOf, Alphabet
<1>2. CASE Slashes[card] # 0
  <2>1. PICK n \in Nat : n = 2 * Slashes[card] + 1
    BY TextAssumption
  <2>2. TextOf(card) = [i \in 1..n |-> IF i % 2 = 0 THEN Slash ELSE Spoiled]
    BY <1>2, <2>1 DEF TextOf
  <2>3. [i \in 1..n |-> IF i % 2 = 0 THEN Slash ELSE Spoiled] \in [1..n -> Alphabet]
    BY DEF Alphabet
  <2> QED BY <2>2, <2>3, SeqDef
<1> QED BY <1>1, <1>2

\* So is a payload,
LEMMA PayloadType ==
  ASSUME NEW deal, deal.cards \in Seq(RedCard), deal.tail \in Tails
  PROVE  Payload(deal) \in Seq(Alphabet)
<1>1. PICK tail : tail = deal.tail
  OBVIOUS
<1>2. tail \in Seq(Alphabet)
  <2>1. {Spoiled, Slash} \subseteq Alphabet /\ tail \in Seq({Spoiled, Slash})
    BY <1>1, TextAssumption DEF Alphabet
  <2> QED BY <2>1, SeqMonotonic
<1>3. PICK vec : vec = [i \in 1..Len(deal.cards) |-> TextOf(deal.cards[i])]
  OBVIOUS
<1>4. vec \in Seq(Seq(Alphabet))
  <2>1. Len(deal.cards) \in Nat /\ \A i \in 1..Len(deal.cards) : deal.cards[i] \in RedCard
    BY LenProperties, ElementOfSeq
  <2>2. \A i \in 1..Len(deal.cards) : TextOf(deal.cards[i]) \in Seq(Alphabet)
    BY <2>1, TextOfType
  <2>3. PICK T : T = Seq(Alphabet)
    OBVIOUS
  <2>4. vec \in [1..Len(deal.cards) -> T]
    BY <1>3, <2>2, <2>3
  <2>5. vec \in Seq(T)
    BY <2>1, <2>4, SeqDef
  <2> QED BY <2>3, <2>5
<1>5. Payload(deal) = JoinStrings(vec, tail)
  BY <1>1, <1>3, Zenon DEF Payload
<1>6. CASE vec = <<>>
  <2>1. JoinStrings(<<>>, tail) = <<>>
    BY JoinNone
  <2>2. Payload(deal) = <<>>
    BY <1>5, <1>6, <2>1
  <2> QED BY <2>2, EmptySeq
<1>7. CASE vec # <<>>
  <2>1. Slash \in Alphabet
    BY DEF Alphabet
  <2>2. PICK a \in Seq(Alphabet) : Unpopped(vec, tail) = a \o <<Slash>> \o tail
    BY <1>2, <1>4, <1>7, <2>1, JoinedTexts
  <2>3. Popped(Alphabet, a, tail, vec)
    BY <1>2, <2>1, <2>2, JoinedFront
  <2> QED BY <1>5, <2>3 DEF Popped
<1> QED BY <1>6, <1>7

\* and a payload with something glued to its end.
LEMMA TextInType ==
  ASSUME NEW received, received.msg.cards \in Seq(RedCard), received.msg.tail \in Tails
  PROVE  TextIn(received) \in Seq(Alphabet)
<1>1. Payload(received.msg) \in Seq(Alphabet)
  BY PayloadType
<1>2. (IF received.spoiled THEN <<Spoiled>> ELSE <<>>) \in Seq(Alphabet)
  <2>1. Spoiled \in Alphabet
    BY DEF Alphabet
  <2>2. <<Spoiled>> \in Seq(Alphabet) /\ <<>> \in Seq(Alphabet)
    BY <2>1, EmptySeq
  <2> QED BY <2>2
<1> QED BY <1>1, <1>2, ConcatTexts DEF TextIn

\* What split_string leaves of the tokens are those before the last, and the last one
\* if there is anything in it.
LEMMA SplitParts ==
  ASSUME NEW text \in Seq(Alphabet)
  PROVE  /\ Tokens(text) \in TextsOver(Alphabet)
         /\ Len(Tokens(text)) \in Nat \ {0}
         /\ SplitString(text) \in Seq(Seq(Alphabet))
         /\ Len(SplitString(text)) \in {Len(Tokens(text)) - 1, Len(Tokens(text))}
         /\ \A i \in 1..Len(SplitString(text)) : SplitString(text)[i] = Tokens(text)[i]
         /\ Len(SplitString(text)) < Len(Tokens(text)) =>
              Tokens(text)[Len(Tokens(text))] = <<>>
<1>1. Slash \in Alphabet
  BY DEF Alphabet
<1>2. PICK texts : texts = Tokens(text)
  OBVIOUS
<1>3. texts \in TextsOver(Alphabet)
  BY <1>1, <1>2, TokensType
<1>4. texts \in Seq(Seq(Alphabet)) /\ texts # <<>>
  BY <1>3 DEF TextsOver
<1>5. Len(texts) \in Nat \ {0}
  BY <1>4, LenProperties, EmptySeq
<1>6. PICK T : T = Seq(Alphabet)
  OBVIOUS
<1>7. /\ Front(texts) \in Seq(T)
      /\ Len(Front(texts)) = Len(texts) - 1
      /\ \A i \in 1..Len(texts) - 1 : Front(texts)[i] = texts[i]
      /\ Last(texts) = texts[Len(texts)]
  BY <1>4, <1>6, FrontLast
<1>8. SplitString(text) = IF Last(texts) = <<>> THEN Front(texts) ELSE texts
  BY <1>2, Zenon DEF SplitString, WithoutLastEmpty
<1>9. CASE Last(texts) = <<>>
  <2>1. SplitString(text) = Front(texts)
    BY <1>8, <1>9
  <2> QED BY <1>2, <1>3, <1>5, <1>6, <1>7, <1>9, <2>1
<1>10. CASE Last(texts) # <<>>
  <2>1. SplitString(text) = texts
    BY <1>8, <1>10
  <2> QED BY <1>2, <1>3, <1>4, <1>5, <2>1
<1> QED BY <1>9, <1>10

\* What is taken into a hand are red cards and texts that are none.
LEMMA CardsInType ==
  ASSUME NEW text \in Seq(Alphabet)
  PROVE  /\ CardsIn(text) \in Seq(RedCard \cup {Spoiled})
         /\ Len(CardsIn(text)) = Len(SplitString(text))
         /\ \A i \in 1..Len(CardsIn(text)) : CardsIn(text)[i] = CardOf(SplitString(text)[i])
<1>1. PICK texts \in Seq(Seq(Alphabet)) : texts = SplitString(text)
  BY SplitParts
<1>2. CardsIn(text) = [i \in 1..Len(texts) |-> CardOf(texts[i])]
  BY <1>1 DEF CardsIn
<1>3. \A word : CardOf(word) \in RedCard \cup {Spoiled}
  BY DEF CardOf
<1>4. Len(texts) \in Nat
  BY LenProperties
<1>5. [i \in 1..Len(texts) |-> CardOf(texts[i])] \in [1..Len(texts) -> RedCard \cup {Spoiled}]
  BY <1>3
<1>6. CardsIn(text) \in Seq(RedCard \cup {Spoiled})
  <2>1. PICK T : T = RedCard \cup {Spoiled}
    OBVIOUS
  <2>2. PICK n \in Nat : n = Len(texts)
    BY <1>4
  <2>3. CardsIn(text) \in [1..n -> T]
    BY <1>2, <1>5, <2>1, <2>2
  <2>4. CardsIn(text) \in Seq(T)
    BY <2>3, SeqDef
  <2> QED BY <2>1, <2>4
<1>7. Len(CardsIn(text)) = Len(texts)
  BY <1>2, <1>4, <1>6, LenProperties
<1> QED BY <1>1, <1>2, <1>6, <1>7

-----------------------------------------------------------------------------
\* The narrowed types are types.
LEMMA IInvTypeOK == IInv => TypeOK
<1> SUFFICES ASSUME IInv PROVE TypeOK
  OBVIOUS
<1>1. NetworkTypeOK
  <2>1. ShownMessage \subseteq ServerMessage
    BY DEF ShownMessage
  <2>2. \A c \in Client : toClient[c] \in Seq(ServerMessage)
    BY <2>1, SeqMonotonic DEF IInv, NetworkInv
  <2> QED BY <2>2 DEF IInv, NetworkInv, NetworkTypeOK
<1>2. HostTypeOK
  <2> DEFINE Item == [to : Client, msg : ServerMessage]
  <2>1. ShownItem \subseteq Item
    BY DEF ShownItem, ShownMessage
  <2>2. outbox \in Seq(ShownItem)
    BY DEF IInv, HostInv
  <2> HIDE DEF Item
  <2>3. outbox \in Seq(Item)
    BY <2>1, <2>2, SeqMonotonic
  <2> QED BY <2>3 DEF IInv, HostInv, HostTypeOK, Item
<1>3. PlayerTypeOK
  <2>1. ShownEvent \subseteq ClientEventMessage
    BY DEF ShownEvent
  <2>2. \A c \in Client : inbox[c] \in Seq(ClientEventMessage)
    BY <2>1, SeqMonotonic DEF IInv, PlayerInv
  <2>3. GreenDeck # <<>> => Head(GreenDeck) \in GreenCard
    BY HeadTailProperties
  <2>4. ShownCard \subseteq GreenCard \cup {NoCard, Spoiled}
    BY <2>3 DEF ShownCard
  <2> QED BY <2>2, <2>4 DEF IInv, PlayerInv, PlayerTypeOK
<1> QED BY <1>1, <1>2, <1>3 DEF TypeOK

\* The initial states satisfy the invariant.
LEMMA InitIInv == Init => IInv
<1> SUFFICES ASSUME Init PROVE IInv
  OBVIOUS
<1>1. NetworkInv
  BY DEF Init, NetworkInit, NetworkInv
<1>2. HostInv
  <2>1. redDeck \in Seq(RedCard) /\ greenDeck \in {GreenDeck, <<>>}
    BY EmptySeq DEF Init, HostInit
  <2>2. greenDeck \in Seq(GreenCard)
    BY <2>1, EmptySeq
  <2>3. /\ clients \in Seq(Client)
        /\ eventQueue \in Seq(HostEventMessage)
        /\ outbox \in Seq(ShownItem)
        /\ dealt \in [Client -> Seq(RedCard)]
    BY EmptySeq DEF Init, HostInit
  <2> QED BY <2>1, <2>2, <2>3 DEF Init, HostInit, HostInv
<1>3. PlayerInv
  BY DEF Init, PlayerInit, PlayerInv, ShownCard
<1> QED BY <1>1, <1>2, <1>3 DEF IInv

-----------------------------------------------------------------------------
(* The steps of the host *)

\* The messages the host makes.
LEMMA MessagesShown ==
  /\ \A n \in Nat : NewConnection(n) \in ShownMessage
  /\ \A cards \in Seq(RedCard), tail \in Tails : DealCard(cards, tail) \in ShownMessage
  /\ \A role \in {"Judge", "Playing"} : StartGame(role) \in ShownMessage
  /\ GreenDeck # <<>> => LoadGame(Head(GreenDeck)) \in ShownMessage
<1>1. GreenDeck # <<>> => Head(GreenDeck) \in GreenCard
  BY HeadTailProperties
<1> QED BY <1>1 DEF ShownMessage, ServerMessage, NewConnection, DealCard,
                    StartGame, LoadGame

\* Taking the event at the front off leaves a queue.
LEMMA DispatchType ==
  ASSUME HostInv, NEW event, Dispatch(event)
  PROVE  /\ Head(eventQueue) \in HostEventMessage
         /\ Head(eventQueue).event = event
         /\ eventQueue' \in Seq(HostEventMessage)
  BY HeadAndTail DEF HostInv, Dispatch

\* The handler of async_accept: one more client, and at most one more event.
LEMMA AcceptInv ==
  ASSUME IInv, Accept, UNCHANGED playerVars
  PROVE  IInv'
<1> DEFINE c == Head(backlog)
           e == [event |-> "PlayerJoined", msg |-> DontCare]
<1>1. c \in Client /\ backlog' \in Seq(Client)
  BY HeadAndTail DEF IInv, NetworkInv, Accept
<1>2. clients' \in Seq(Client)
  BY <1>1, AppendProperties DEF IInv, HostInv, Accept
<1>3. e \in HostEventMessage
  BY DEF HostEventMessage
<1>4. /\ eventQueue' \in {Append(eventQueue, e), eventQueue}
      /\ playerData' \subseteq Client
  BY <1>1 DEF IInv, HostInv, Accept, ConnectionEvent
<1> HIDE DEF e
<1>5. eventQueue \in Seq(HostEventMessage)
  BY DEF IInv, HostInv
<1>6. Append(eventQueue, e) \in Seq(HostEventMessage)
  BY <1>3, <1>5, AppendProperties
<1>7. eventQueue' \in Seq(HostEventMessage)
  BY <1>4, <1>5, <1>6
<1> QED BY <1>1, <1>2, <1>4, <1>7
        DEF IInv, HostInv, NetworkInv, PlayerInv, Accept, playerVars

\* A read of the host decodes one message, which raises the event of its type.
LEMMA ReadInv ==
  ASSUME IInv, NEW c \in Client, Read(c), UNCHANGED playerVars
  PROVE  IInv'
<1>1. PICK k \in ReadSizes(toServer[c]) :
        LET msg == Deserialize(SubSeq(toServer[c], 1, k)).msg
        IN  /\ toServer' = [toServer EXCEPT ![c] = Unread(@, k)]
            /\ eventQueue' = IF msg.rpc \in DOMAIN HostEvent
                             THEN Append(eventQueue, [event |-> HostEvent[msg.rpc],
                                                      msg |-> msg])
                             ELSE eventQueue
  BY DEF Read
<1> DEFINE msg == Deserialize(SubSeq(toServer[c], 1, k)).msg
           e == [event |-> HostEvent[msg.rpc], msg |-> msg]
<1>2. toServer[c] \in Seq(ClientMessage)
  BY DEF IInv, NetworkInv
<1>3. msg \in ClientMessage /\ Unread(toServer[c], k) \in Seq(ClientMessage)
  BY <1>2, ReadOfStream
<1>4. e \in HostEventMessage
  BY <1>3 DEF ClientMessage, HostEvent, HostEventMessage
<1> HIDE DEF e
<1>5. eventQueue' \in Seq(HostEventMessage)
  BY <1>1, <1>4, AppendProperties DEF IInv, HostInv, e
<1>6. toServer' \in [Client -> Seq(ClientMessage)]
  BY <1>1, <1>3 DEF IInv, NetworkInv
<1> QED BY <1>5, <1>6
        DEF IInv, HostInv, NetworkInv, PlayerInv, Read, playerVars

\* A session that ends only empties its stream.
LEMMA ReadEndInv ==
  ASSUME IInv, NEW c \in Client, ReadEnd(c), UNCHANGED playerVars
  PROVE  IInv'
<1>1. toServer' \in [Client -> Seq(ClientMessage)]
  BY EmptySeq DEF IInv, NetworkInv, ReadEnd
<1> QED BY <1>1 DEF IInv, HostInv, NetworkInv, PlayerInv, ReadEnd, playerVars

\* A count other than the expected one stays on the side of it where it was.
LEMMA PlayerJoinedUpdateInv ==
  ASSUME IInv, PlayerJoinedUpdate, UNCHANGED playerVars
  PROVE  IInv'
<1>1. eventQueue' \in Seq(HostEventMessage)
  BY DispatchType DEF IInv, PlayerJoinedUpdate
<1>2. /\ clientCount' = clientCount + 1
      /\ clientCount' \in Nat
      /\ clientCount' < ExpectedPlayers => clientCount < ExpectedPlayers
  BY DEF IInv, HostInv, PlayerJoinedUpdate
<1>3. [c \in Client |-> NewConnection(clientCount')] \in [Client -> ShownMessage]
  BY <1>2, MessagesShown
<1>4. outbox' \in Seq(ShownItem)
  BY <1>3, BroadcastType DEF IInv, HostInv, PlayerJoinedUpdate, ShownItem
<1> QED BY <1>1, <1>2, <1>4 DEF IInv, HostInv, NetworkInv, PlayerInv,
                                PlayerJoinedUpdate, networkVars, playerVars

\* The count reaches the expected number from below, so the deck is untouched and
\* the card taken is its first.
LEMMA PlayerJoinedLoadGameInv ==
  ASSUME IInv, PlayerJoinedLoadGame, UNCHANGED playerVars
  PROVE  IInv'
<1>1. eventQueue' \in Seq(HostEventMessage)
  BY DispatchType DEF IInv, PlayerJoinedLoadGame
<1>2. /\ clientCount < ExpectedPlayers
      /\ clientCount' \in Nat
      /\ ~(clientCount' < ExpectedPlayers)
  BY DEF IInv, HostInv, PlayerJoinedLoadGame
<1>3. greenDeck' \in Seq(GreenCard)
  <2>1. greenDeck \in Seq(GreenCard)
    BY DEF IInv, HostInv
  <2>2. greenDeck' = greenDeck \/ (greenDeck # <<>> /\ greenDeck' = Tail(greenDeck))
    BY DEF PlayerJoinedLoadGame
  <2> QED BY <2>1, <2>2, HeadAndTail
<1>4. outbox' \in Seq(ShownItem)
  <2>1. CASE greenDeck = <<>>
    BY <2>1 DEF IInv, HostInv, PlayerJoinedLoadGame
  <2>2. CASE greenDeck # <<>>
    <3>1. greenDeck = GreenDeck /\ GreenDeck # <<>>
      BY <1>2, <2>2 DEF IInv, HostInv
    <3>2. LoadGame(Head(greenDeck)) \in ShownMessage
      BY <3>1, MessagesShown
    <3>3. [c \in Client |-> LoadGame(Head(greenDeck))] \in [Client -> ShownMessage]
      BY <3>2
    <3>4. outbox' = ToEachClient([c \in Client |-> LoadGame(Head(greenDeck))])
      BY <2>2 DEF PlayerJoinedLoadGame
    <3> QED BY <3>3, <3>4, BroadcastType DEF IInv, HostInv, ShownItem
  <2> QED BY <2>1, <2>2
<1>5. loaded' \subseteq Client
  <2>1. Range(clients) \subseteq Client
    BY ElementOfSeq, LenProperties DEF IInv, HostInv, Range
  <2> QED BY <2>1 DEF PlayerJoinedLoadGame, IInv, HostInv
<1> QED BY <1>1, <1>2, <1>3, <1>4, <1>5 DEF IInv, HostInv, NetworkInv, PlayerInv,
                                PlayerJoinedLoadGame, networkVars, playerVars

\* What is dealt is the front of the deck, and what is left is the rest of it.
LEMMA CardRequestEventInv ==
  ASSUME IInv, CardRequestEvent, UNCHANGED playerVars
  PROVE  IInv'
<1> DEFINE request == Head(eventQueue).msg
           n == IF request.amount > 0 THEN request.amount ELSE 0
<1>1. /\ eventQueue' \in Seq(HostEventMessage)
      /\ request.id \in Client
      /\ request.amount \in Int
  BY DispatchType DEF IInv, CardRequestEvent, HostEventMessage
<1>2. n \in Nat /\ DealCards(request.id, n)
  BY <1>1 DEF CardRequestEvent
<1> HIDE DEF n, request
<1>3. Len(redDeck) \in Nat /\ redDeck \in Seq(RedCard)
  BY LenProperties DEF IInv, HostInv
<1>4. n <= Len(redDeck) => /\ SubSeq(redDeck, n + 1, Len(redDeck)) \in Seq(RedCard)
                           /\ SubSeq(redDeck, 1, n) \in Seq(RedCard)
  BY <1>2, <1>3, PartOfSeq
<1>5. redDeck' \in Seq(RedCard)
  BY <1>2, <1>3, <1>4 DEF DealCards
<1> DEFINE cards == SubSeq(redDeck, 1, n)
<1>6. \/ n <= Len(redDeck) /\ Deal(request.id, cards)
      \/ UNCHANGED <<toClient, dealt>>
  BY <1>2 DEF DealCards
<1>7. n <= Len(redDeck) => cards \in Seq(RedCard)
  BY <1>4
<1> HIDE DEF cards
<1>8. toClient' \in [Client -> Seq(ShownMessage)] /\ dealt' \in [Client -> Seq(RedCard)]
  <2>1. CASE n <= Len(redDeck) /\ Deal(request.id, cards)
    <3>1. PICK tail \in Tails : toClient' = Sent(request.id, DealCard(cards, tail))
      BY <2>1 DEF Deal
    <3>2. DealCard(cards, tail) \in ShownMessage
      BY <1>7, <2>1, MessagesShown
    <3>3. toClient' \in [Client -> Seq(ShownMessage)]
      BY <1>1, <3>1, <3>2, SentType DEF IInv, NetworkInv
    <3>4. dealt \in [Client -> Seq(RedCard)] /\ cards \in Seq(RedCard)
      BY <1>7, <2>1 DEF IInv, HostInv
    <3>5. dealt[request.id] \o cards \in Seq(RedCard)
      BY <1>1, <3>4, ConcatProperties
    <3>6. dealt' = [dealt EXCEPT ![request.id] = @ \o cards]
      BY <2>1 DEF Deal
    <3> QED BY <3>3, <3>4, <3>5, <3>6
  <2>2. CASE UNCHANGED <<toClient, dealt>>
    BY <2>2 DEF IInv, NetworkInv, HostInv
  <2> QED BY <1>6, <2>1, <2>2
<1>9. hostUp' \in BOOLEAN
  BY <1>2 DEF DealCards, IInv, HostInv
<1> QED BY <1>1, <1>5, <1>8, <1>9
        DEF IInv, HostInv, NetworkInv, PlayerInv, CardRequestEvent, playerVars

\* The judge is one of the clients, and each client is told one of the two roles.
LEMMA StartGameMessageInv ==
  ASSUME IInv, StartGameMessage, UNCHANGED playerVars
  PROVE  IInv'
<1>1. eventQueue' \in Seq(HostEventMessage)
  BY DispatchType DEF IInv, StartGameMessage
<1>2. judge' \in Client
  BY ElementOfSeq DEF StartGameMessage, PickJudge, IInv, HostInv
<1>3. [c \in Client |-> StartGame(IF c = judge' THEN "Judge" ELSE "Playing")]
        \in [Client -> ShownMessage]
  BY MessagesShown
<1>4. outbox' \in Seq(ShownItem)
  BY <1>3, BroadcastType DEF StartGameMessage, IInv, HostInv, ShownItem
<1> QED BY <1>1, <1>2, <1>4 DEF IInv, HostInv, NetworkInv, PlayerInv,
                                StartGameMessage, networkVars, playerVars

\* A turn of a broadcast moves a message from the host to a stream.
LEMMA WriteToClientInv ==
  ASSUME IInv, WriteToClient, UNCHANGED playerVars
  PROVE  IInv'
<1>1. Head(outbox) \in ShownItem /\ outbox' \in Seq(ShownItem)
  BY HeadAndTail DEF IInv, HostInv, WriteToClient
<1>2. toClient' \in [Client -> Seq(ShownMessage)]
  BY <1>1, SentType DEF IInv, NetworkInv, WriteToClient, ShownItem
<1> QED BY <1>1, <1>2
        DEF IInv, HostInv, NetworkInv, PlayerInv, WriteToClient, playerVars

\* Registering the callbacks, and the end of the process, change a flag each.
LEMMA FlagsInv ==
  ASSUME IInv, SetupHostCallbacks \/ HostTerminates, UNCHANGED playerVars
  PROVE  IInv'
  BY DEF IInv, HostInv, NetworkInv, PlayerInv, SetupHostCallbacks,
         HostTerminates, networkVars, playerVars

-----------------------------------------------------------------------------
(* The steps of a player *)

\* A client that connects is the last of those waiting to be accepted.
LEMMA JoinInv ==
  ASSUME IInv, NEW c \in Client, Join(c), UNCHANGED hostVars
  PROVE  IInv'
<1>1. backlog' \in Seq(Client)
  BY AppendProperties DEF IInv, NetworkInv, Join, Connect
<1> QED BY <1>1 DEF IInv, HostInv, NetworkInv, PlayerInv, Join, Connect,
                    hostVars, playerVars

\* A process that ends, whatever the reason, only empties its stream.
LEMMA EndInv ==
  ASSUME IInv, NEW c \in Client, End(c), UNCHANGED hostVars
  PROVE  IInv'
<1>1. toClient' \in [Client -> Seq(ShownMessage)]
  BY EmptySeq DEF IInv, NetworkInv, End
<1> QED BY <1>1 DEF IInv, HostInv, NetworkInv, PlayerInv, End,
                    hostVars, playerVars

\* A message of the host and the event it raises belong together.
LEMMA EventOfMessage ==
  ASSUME NEW m \in ShownMessage, NEW spoiled \in BOOLEAN
  PROVE  [event |-> ClientEvent[m.rpc], msg |-> m, spoiled |-> spoiled] \in ShownEvent
<1>1. CASE m.rpc = "NewConnection"
  BY <1>1 DEF ShownMessage, ServerMessage, ClientEvent, ShownEvent, ClientEventMessage
<1>2. CASE m.rpc = "LoadGame"
  BY <1>2 DEF ShownMessage, ServerMessage, ClientEvent, ShownEvent, ClientEventMessage
<1>3. CASE m.rpc = "DealCard"
  BY <1>3 DEF ShownMessage, ServerMessage, ClientEvent, ShownEvent, ClientEventMessage
<1>4. CASE m.rpc = "StartGame"
  BY <1>4 DEF ShownMessage, ServerMessage, ClientEvent, ShownEvent, ClientEventMessage
<1> QED BY <1>1, <1>2, <1>3, <1>4 DEF ShownMessage, ServerMessage

\* A read of a player decodes one message, which becomes one event.
LEMMA ClientReadInv ==
  ASSUME IInv, NEW c \in Client, ClientRead(c), UNCHANGED hostVars
  PROVE  IInv'
<1>1. PICK k \in ReadSizes(toClient[c]) :
        LET read == Deserialize(SubSeq(toClient[c], 1, k))
        IN  /\ toClient' = [toClient EXCEPT ![c] = Unread(@, k)]
            /\ inbox' = [inbox EXCEPT ![c] =
                           Append(@, [event |-> ClientEvent[read.msg.rpc],
                                      msg |-> read.msg,
                                      spoiled |-> read.spoiled])]
  BY DEF ClientRead
<1> DEFINE read == Deserialize(SubSeq(toClient[c], 1, k))
           e == [event |-> ClientEvent[read.msg.rpc], msg |-> read.msg,
                 spoiled |-> read.spoiled]
<1>2. toClient[c] \in Seq(ShownMessage)
  BY DEF IInv, NetworkInv
<1>3. /\ read.msg \in ShownMessage
      /\ read.spoiled \in BOOLEAN
      /\ Unread(toClient[c], k) \in Seq(ShownMessage)
  BY <1>2, ReadOfStream
<1>4. e \in ShownEvent
  BY <1>3, EventOfMessage
<1> HIDE DEF e
<1>5. inbox' \in [Client -> Seq(ShownEvent)]
  <2>1. inbox[c] \in Seq(ShownEvent)
    BY DEF IInv, PlayerInv
  <2>2. Append(inbox[c], e) \in Seq(ShownEvent)
    BY <1>4, <2>1, AppendProperties
  <2> QED BY <1>1, <2>2 DEF IInv, PlayerInv, e
<1>6. toClient' \in [Client -> Seq(ShownMessage)]
  BY <1>1, <1>3 DEF IInv, NetworkInv
<1> QED BY <1>5, <1>6
        DEF IInv, HostInv, NetworkInv, PlayerInv, ClientRead, hostVars

\* The event a player takes off is one of its own, and the rest stays a queue.
LEMMA ReceiveType ==
  ASSUME IInv, NEW c \in Client, NEW event, Receive(c, event)
  PROVE  /\ Head(inbox[c]) \in ShownEvent
         /\ Head(inbox[c]).event = event
         /\ inbox' \in [Client -> Seq(ShownEvent)]
<1>1. inbox[c] \in Seq(ShownEvent) /\ inbox[c] # <<>>
  BY DEF IInv, PlayerInv, Receive
<1>2. Head(inbox[c]) \in ShownEvent /\ Tail(inbox[c]) \in Seq(ShownEvent)
  BY <1>1, HeadAndTail
<1> QED BY <1>2 DEF IInv, PlayerInv, Receive

\* The count is printed.
LEMMA PlayerJoinedUpdatedInv ==
  ASSUME IInv, NEW c \in Client, PlayerJoinedUpdated(c), UNCHANGED hostVars
  PROVE  IInv'
<1>1. inbox' \in [Client -> Seq(ShownEvent)]
  BY ReceiveType DEF PlayerJoinedUpdated
<1> QED BY <1>1 DEF IInv, HostInv, NetworkInv, PlayerInv, PlayerJoinedUpdated,
                    Receive, networkVars, hostVars

\* The round card is the card that was sent, unless more than it was read.
LEMMA SynchronizeGameInv ==
  ASSUME IInv, NEW c \in Client, SynchronizeGame(c), UNCHANGED hostVars
  PROVE  IInv'
<1> DEFINE received == Head(inbox[c])
           replies == <<CardRequest(c, RequestAmount(c)), Ready(c)>>
<1>1. /\ received \in ShownEvent
      /\ received.event = "SynchronizeGame"
      /\ inbox' \in [Client -> Seq(ShownEvent)]
  BY ReceiveType DEF SynchronizeGame
<1>2. roundCard' \in [Client -> ShownCard]
  <2>1. received.spoiled \in BOOLEAN /\ received.msg.card \in ShownCard
    BY <1>1 DEF ShownEvent, ClientEventMessage, ShownMessage, ShownCard
  <2>2. (IF received.spoiled THEN Spoiled ELSE received.msg.card) \in ShownCard
    BY <2>1 DEF ShownCard
  <2> QED BY <2>2 DEF IInv, PlayerInv, SynchronizeGame
<1>3. toServer' \in [Client -> Seq(ClientMessage)]
  <2>1. hand[c] \in Seq(RedCard \cup {Spoiled})
    BY DEF IInv, PlayerInv
  <2>2. RequestAmount(c) \in Int
    BY <2>1, LenProperties DEF RequestAmount
  <2>3. CardRequest(c, RequestAmount(c)) \in ClientMessage /\ Ready(c) \in ClientMessage
    BY <2>2 DEF CardRequest, Ready, ClientMessage
  <2>4. replies \in Seq(ClientMessage)
    BY <2>3
  <2>5. toServer[c] \in Seq(ClientMessage)
    BY DEF IInv, NetworkInv
  <2> HIDE DEF replies
  <2>6. toServer[c] \o replies \in Seq(ClientMessage)
    BY <2>4, <2>5, ConcatProperties
  <2> QED BY <2>6 DEF IInv, NetworkInv, SynchronizeGame, replies
<1> QED BY <1>1, <1>2, <1>3
        DEF IInv, HostInv, NetworkInv, PlayerInv, SynchronizeGame, Receive,
            hostVars

\* What is taken into the hand are red cards, and texts that are none.
LEMMA CardsResponseInv ==
  ASSUME IInv, NEW c \in Client, CardsResponse(c), UNCHANGED hostVars
  PROVE  IInv'
<1> DEFINE received == Head(inbox[c])
           Text == RedCard \cup {Spoiled}
<1>1. /\ received \in ShownEvent
      /\ received.event = "CardReceived"
      /\ inbox' \in [Client -> Seq(ShownEvent)]
  BY ReceiveType DEF CardsResponse
<1>2. received.msg.cards \in Seq(RedCard) /\ received.msg.tail \in Tails
  BY <1>1 DEF ShownEvent, ClientEventMessage
<1>3. PICK text \in Seq(Alphabet) : text = TextIn(received)
  BY <1>2, TextInType
<1>4. CardsIn(text) \in Seq(Text)
  BY CardsInType
<1>5. hand' = [hand EXCEPT ![c] = @ \o CardsIn(text)]
  BY <1>3 DEF CardsResponse
<1>6. hand \in [Client -> Seq(Text)]
  BY DEF IInv, PlayerInv, Text
<1> HIDE DEF Text
<1>7. hand[c] \o CardsIn(text) \in Seq(Text)
  BY <1>4, <1>6, ConcatProperties
<1>8. hand' \in [Client -> Seq(Text)]
  BY <1>5, <1>6, <1>7
<1> QED BY <1>1, <1>8
        DEF IInv, HostInv, NetworkInv, PlayerInv, CardsResponse, Receive, networkVars,
            hostVars, Text

\* The state is one that the host names, or the one before.
LEMMA GameStartedInv ==
  ASSUME IInv, NEW c \in Client, GameStarted(c), UNCHANGED hostVars
  PROVE  IInv'
<1>1. /\ Head(inbox[c]) \in ShownEvent
      /\ Head(inbox[c]).event = "GameStarted"
      /\ inbox' \in [Client -> Seq(ShownEvent)]
  BY ReceiveType DEF GameStarted
<1>2. Head(inbox[c]).msg.state \in {"Judge", "Playing"}
  BY <1>1 DEF ShownEvent, ClientEventMessage
<1>3. pstate' \in [Client -> {"Waiting", "Playing", "Judge"}]
  BY <1>2 DEF IInv, PlayerInv, GameStarted
<1> QED BY <1>1, <1>3 DEF IInv, HostInv, NetworkInv, PlayerInv, GameStarted,
                          Receive, networkVars, hostVars

-----------------------------------------------------------------------------
\* Every step keeps the invariant.
LEMMA NextIInv == IInv /\ [Next]_vars => IInv'
<1> SUFFICES ASSUME IInv, [Next]_vars PROVE IInv'
  OBVIOUS
<1>1. CASE Accept /\ UNCHANGED playerVars
  BY <1>1, AcceptInv
<1>2. CASE (SetupHostCallbacks \/ HostTerminates) /\ UNCHANGED playerVars
  BY <1>2, FlagsInv
<1>3. CASE PlayerJoinedUpdate /\ UNCHANGED playerVars
  BY <1>3, PlayerJoinedUpdateInv
<1>4. CASE PlayerJoinedLoadGame /\ UNCHANGED playerVars
  BY <1>4, PlayerJoinedLoadGameInv
<1>5. CASE CardRequestEvent /\ UNCHANGED playerVars
  BY <1>5, CardRequestEventInv
<1>6. CASE StartGameMessage /\ UNCHANGED playerVars
  BY <1>6, StartGameMessageInv
<1>7. CASE WriteToClient /\ UNCHANGED playerVars
  BY <1>7, WriteToClientInv
<1>8. ASSUME NEW c \in Client, Read(c) \/ ReadEnd(c), UNCHANGED playerVars
      PROVE  IInv'
  BY <1>8, ReadInv, ReadEndInv
<1>9. ASSUME NEW c \in Client, UNCHANGED hostVars,
             Join(c) \/ Quit(c) \/ HostLost(c) \/ ClientRead(c)
      PROVE  IInv'
  BY <1>9, JoinInv, EndInv, ClientReadInv DEF Quit, HostLost
<1>10. ASSUME NEW c \in Client, UNCHANGED hostVars,
              PlayerJoinedUpdated(c) \/ SynchronizeGame(c) \/ CardsResponse(c)
                \/ GameStarted(c)
       PROVE  IInv'
  BY <1>10, PlayerJoinedUpdatedInv, SynchronizeGameInv, CardsResponseInv,
     GameStartedInv
<1>11. CASE UNCHANGED vars
  BY <1>11 DEF vars, networkVars, hostVars, playerVars, IInv, HostInv,
               NetworkInv, PlayerInv
<1> QED BY <1>1, <1>2, <1>3, <1>4, <1>5, <1>6, <1>7, <1>8, <1>9, <1>10, <1>11
        DEF Next

\* The invariant holds in every reachable state.
LEMMA IInvAlways == Spec => []IInv
  BY InitIInv, NextIInv, PTL DEF Spec

\* The types of the variables of all processes, whatever the network does.
THEOREM TypeCorrect == Spec => []TypeOK
  BY IInvAlways, IInvTypeOK, PTL

\* However many players come and whenever: no two of them are shown different
\* green cards, because the only one ever taken off the deck is its first.
THEOREM RoundCardAgreementHolds == Spec => []RoundCardAgreement
<1>1. IInv => RoundCardAgreement
  BY DEF IInv, PlayerInv, RoundCardAgreement, ShownCard
<1> QED BY <1>1, IInvAlways, PTL

-----------------------------------------------------------------------------
(* Sessions                                                                *)
(*                                                                         *)
(* Why a request is always of a client with a session: only sessions read, *)
(* a session reads what its own client wrote, and no session is ever taken *)
(* off the list, not even when its client is gone.                         *)

FromClient(c) == {m \in ClientMessage : m.id = c}
Answerable(e) == e.event = "CardRequest" => e.msg.id \in Range(clients)
AnswerableEvent == {e \in HostEventMessage : Answerable(e)}

SessionInv ==
  /\ reading \subseteq Range(clients)
  /\ \A c \in Client : toServer[c] \in Seq(FromClient(c))
  /\ eventQueue \in Seq(AnswerableEvent)

\* Initially there is no session, and nothing to answer.
LEMMA InitSession == Init => SessionInv
  BY EmptySeq DEF Init, HostInit, NetworkInit, SessionInv

\* A new session takes no other one's place.
LEMMA AcceptSession ==
  ASSUME IInv, SessionInv, Accept
  PROVE  SessionInv'
<1> DEFINE c == Head(backlog)
           e == [event |-> "PlayerJoined", msg |-> DontCare]
<1>1. c \in Client /\ clients \in Seq(Client) /\ clients' = Append(clients, c)
  BY HeadAndTail DEF IInv, HostInv, NetworkInv, Accept
<1>2. Range(clients') = Range(clients) \cup {c}
  <2>1. Len(clients) \in Nat
    BY <1>1, LenProperties
  <2>2. /\ DOMAIN clients = 1..Len(clients)
        /\ DOMAIN clients' = 1..Len(clients) + 1
        /\ clients'[Len(clients) + 1] = c
        /\ \A i \in 1..Len(clients) : clients'[i] = clients[i]
    BY <1>1, LenProperties, AppendProperties
  <2> HIDE DEF c
  <2> QED BY <2>1, <2>2 DEF Range
<1>3. AnswerableEvent \subseteq AnswerableEvent'
  BY <1>2 DEF AnswerableEvent, Answerable, HostEventMessage
<1>4. e \in AnswerableEvent'
  BY DEF AnswerableEvent, Answerable, HostEventMessage
<1>5. eventQueue' \in Seq(AnswerableEvent')
  <2>1. eventQueue' \in {Append(eventQueue, e), eventQueue}
    BY DEF Accept, ConnectionEvent
  <2> DEFINE Old == AnswerableEvent
             New == AnswerableEvent'
  <2>2. eventQueue \in Seq(Old) /\ Old \subseteq New /\ e \in New
    BY <1>3, <1>4 DEF SessionInv
  <2> HIDE DEF e, Old, New
  <2>3. eventQueue \in Seq(New)
    BY <2>2, SeqMonotonic
  <2>4. Append(eventQueue, e) \in Seq(New)
    BY <2>2, <2>3, AppendProperties
  <2>5. eventQueue' \in Seq(New)
    BY <2>1, <2>3, <2>4
  <2> QED BY <2>5 DEF New
<1>6. reading' \subseteq Range(clients')
  BY <1>2 DEF SessionInv, Accept
<1>7. \A d \in Client : toServer'[d] \in Seq(FromClient(d))
  BY DEF SessionInv, Accept
<1> QED BY <1>5, <1>6, <1>7 DEF SessionInv, FromClient

\* A session reads what its own client wrote.
LEMMA ReadSession ==
  ASSUME IInv, SessionInv, NEW c \in Client, Read(c)
  PROVE  SessionInv'
<1>1. PICK k \in ReadSizes(toServer[c]) :
        LET msg == Deserialize(SubSeq(toServer[c], 1, k)).msg
        IN  /\ toServer' = [toServer EXCEPT ![c] = Unread(@, k)]
            /\ eventQueue' = IF msg.rpc \in DOMAIN HostEvent
                             THEN Append(eventQueue, [event |-> HostEvent[msg.rpc],
                                                      msg |-> msg])
                             ELSE eventQueue
  BY DEF Read
<1> DEFINE msg == Deserialize(SubSeq(toServer[c], 1, k)).msg
           e == [event |-> HostEvent[msg.rpc], msg |-> msg]
<1>2. toServer[c] \in Seq(FromClient(c))
  BY DEF SessionInv
<1>3. msg \in FromClient(c) /\ Unread(toServer[c], k) \in Seq(FromClient(c))
  BY <1>2, ReadOfStream
<1>4. e \in HostEventMessage /\ e.msg.id = c
  BY <1>3 DEF FromClient, ClientMessage, HostEvent, HostEventMessage
<1>5. c \in Range(clients)
  BY DEF Read, SessionInv
<1>6. e \in AnswerableEvent
  BY <1>4, <1>5 DEF AnswerableEvent, Answerable
<1> HIDE DEF e
<1>7. eventQueue' \in Seq(AnswerableEvent)
  <2> DEFINE Old == AnswerableEvent
  <2>1. eventQueue \in Seq(Old) /\ e \in Old
    BY <1>6 DEF SessionInv
  <2> HIDE DEF Old
  <2>2. Append(eventQueue, e) \in Seq(Old)
    BY <2>1, AppendProperties
  <2>3. eventQueue' \in Seq(Old)
    BY <1>1, <2>1, <2>2 DEF e
  <2> QED BY <2>3 DEF Old
<1>8. \A d \in Client : toServer'[d] \in Seq(FromClient(d))
  BY <1>1, <1>3 DEF SessionInv, IInv, NetworkInv
<1> QED BY <1>7, <1>8
        DEF Read, SessionInv, AnswerableEvent, Answerable, FromClient

\* A session that stops reading stays on the list.
LEMMA ReadEndSession ==
  ASSUME IInv, SessionInv, NEW c \in Client, ReadEnd(c)
  PROVE  SessionInv'
<1>1. \A d \in Client : toServer'[d] \in Seq(FromClient(d))
  BY EmptySeq DEF SessionInv, IInv, NetworkInv, ReadEnd
<1> QED BY <1>1 DEF ReadEnd, SessionInv, AnswerableEvent, Answerable, FromClient

\* The main thread of the host only takes events off.
LEMMA DispatchSession ==
  ASSUME IInv, SessionInv, NEW event, Dispatch(event),
         UNCHANGED <<clients, reading, toServer>>
  PROVE  SessionInv'
<1>1. eventQueue' \in Seq(AnswerableEvent)
  BY HeadAndTail DEF SessionInv, Dispatch
<1> QED BY <1>1 DEF SessionInv, AnswerableEvent, Answerable, FromClient

\* A player names itself in what it sends.
LEMMA SynchronizeGameSession ==
  ASSUME IInv, SessionInv, NEW c \in Client, SynchronizeGame(c), UNCHANGED hostVars
  PROVE  SessionInv'
<1> DEFINE request == CardRequest(c, RequestAmount(c))
           replies == <<request, Ready(c)>>
           S == FromClient(c)
<1>1. request \in S /\ Ready(c) \in S
  <2>1. RequestAmount(c) \in Int
    BY LenProperties DEF RequestAmount, IInv, PlayerInv
  <2> QED BY <2>1 DEF FromClient, CardRequest, Ready, ClientMessage
<1>2. replies \in Seq(S)
  BY <1>1
<1>3. toServer[c] \in Seq(S)
  BY DEF SessionInv
<1>4. toServer' = [toServer EXCEPT ![c] = @ \o replies]
  BY DEF SynchronizeGame
<1> HIDE DEF replies, S
<1>5. toServer[c] \o replies \in Seq(S)
  BY <1>2, <1>3, ConcatProperties
<1>6. \A d \in Client : toServer'[d] \in Seq(FromClient(d))
  BY <1>4, <1>5 DEF SessionInv, IInv, NetworkInv, S
<1> QED BY <1>6 DEF hostVars, SessionInv, AnswerableEvent, Answerable, FromClient

\* Whatever changes neither the sessions nor what they read keeps the invariant.
LEMMA OtherSession ==
  ASSUME SessionInv, UNCHANGED <<clients, reading, toServer, eventQueue>>
  PROVE  SessionInv'
  BY DEF SessionInv, AnswerableEvent, Answerable, FromClient

\* Every step keeps the sessions in order.
LEMMA NextSession == IInv /\ SessionInv /\ [Next]_vars => SessionInv'
<1> SUFFICES ASSUME IInv, SessionInv, [Next]_vars PROVE SessionInv'
  OBVIOUS
<1>1. CASE Accept
  BY <1>1, AcceptSession
<1>2. CASE SetupHostCallbacks \/ HostTerminates \/ WriteToClient
  BY <1>2, OtherSession
     DEF SetupHostCallbacks, HostTerminates, WriteToClient, networkVars
<1>3. CASE PlayerJoinedUpdate
  BY <1>3, DispatchSession DEF PlayerJoinedUpdate, networkVars
<1>4. CASE PlayerJoinedLoadGame
  BY <1>4, DispatchSession DEF PlayerJoinedLoadGame, networkVars
<1>5. CASE CardRequestEvent
  BY <1>5, DispatchSession DEF CardRequestEvent
<1>6. CASE StartGameMessage
  BY <1>6, DispatchSession DEF StartGameMessage, networkVars
<1>7. ASSUME NEW c \in Client, Read(c) \/ ReadEnd(c) PROVE SessionInv'
  BY <1>7, ReadSession, ReadEndSession
<1>8. ASSUME NEW c \in Client, UNCHANGED hostVars,
             \/ Join(c) \/ Quit(c) \/ HostLost(c) \/ ClientRead(c)
             \/ PlayerJoinedUpdated(c) \/ CardsResponse(c) \/ GameStarted(c)
      PROVE  SessionInv'
  BY <1>8, OtherSession
     DEF Join, Connect, Quit, HostLost, End, ClientRead, PlayerJoinedUpdated,
         CardsResponse, GameStarted, networkVars, hostVars
<1>9. ASSUME NEW c \in Client, SynchronizeGame(c), UNCHANGED hostVars
      PROVE  SessionInv'
  BY <1>9, SynchronizeGameSession
<1>10. CASE UNCHANGED vars
  BY <1>10, OtherSession DEF vars, networkVars, hostVars
<1> QED BY <1>1, <1>2, <1>3, <1>4, <1>5, <1>6, <1>7, <1>8, <1>9, <1>10 DEF Next

\* A card request that waits to be handled is of a client with a session, however
\* many come and go: deal_cards never calls through the null pointer.
THEOREM ReplyTargetExistsHolds == Spec => []ReplyTargetExists
<1>1. Spec => []SessionInv
  BY InitSession, IInvAlways, NextSession, PTL DEF Spec
<1>2. SessionInv => ReplyTargetExists
  BY ElementOfSeq DEF SessionInv, AnswerableEvent, Answerable, ReplyTargetExists
<1> QED BY <1>1, <1>2, PTL
=============================================================================
