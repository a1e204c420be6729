---------------------------- MODULE CardsProofs ----------------------------
(***************************************************************************)
(* Theorems about the red cards of CardGame, for every number of clients,  *)
(* every deck and hand, and whatever the reads lose.                       *)
(*                                                                         *)
(* A player is dealt to once, because the game is loaded once: what brings *)
(* a deal about is first a LoadGame in the broadcast, then in the stream   *)
(* to the player and in its queue, then the request in the stream to the   *)
(* host and in the host's queue; what is dealt is in the stream, then in   *)
(* the queue, then in the hand.  Of all these a player never has more than *)
(* one (DealtOnceInv), so its hand is still empty when it asks, it asks    *)
(* for a whole hand (HandsInv) and has been dealt nothing before           *)
(* (RecordInv), whatever the cards it was dealt turn into when they        *)
(* arrive.  Then the deck has a hand for each player that is still to be   *)
(* dealt to, if it had one for each client at first (DeckInv), and a card  *)
(* that was dealt has left the deck and has one owner (OwnerInv), in whose *)
(* hand it is once, because it is in the text of its deal once.            *)
(***************************************************************************)
EXTENDS StartProofs

USE DEF historyVars

\* How many elements of a queue are in S.
Count(queue, S) == Cardinality({i \in 1..Len(queue) : queue[i] \in S})

DealMessage     == {m \in ShownMessage : m.rpc = "DealCard"}
DealEvent       == {e \in ShownEvent : e.event = "CardReceived"}
RequestOf(c)    == {m \in ClientMessage : m.rpc = "DealCard" /\ m.id = c}
RequestEvent(c) == {e \in HostEventMessage : e.event = "CardRequest" /\ e.msg.id = c}

\* The deals that c still has to come, and those that have been made.
ToCome(c) ==
  Count(outbox, Item(c, LoadMessage)) + Count(toClient[c], LoadMessage)
    + Count(inbox[c], LoadEvent) + Count(toServer[c], RequestOf(c))
    + Count(eventQueue, RequestEvent(c))
Made(c) ==
  Count(toClient[c], DealMessage) + Count(inbox[c], DealEvent)
    + (IF hand[c] = <<>> THEN 0 ELSE 1)

\* Nobody has two sessions.
SeatInv == \A i, j \in 1..Len(clients) : clients[i] = clients[j] => i = j

DealtOnceInv ==
  \A c \in Client : /\ ToCome(c) + Made(c) <= 1
                    /\ clientCount < ExpectedPlayers => ToCome(c) + Made(c) = 0

\* A request is for a whole hand, and a deal is one; what is broadcast is no deal.
HandRequest  == {m \in ClientMessage : m.rpc = "DealCard" => m.amount = HandSize}
HandEvent    == {e \in HostEventMessage : e.event = "CardRequest" => e.msg.amount = HandSize}
HandMessage  == {m \in ShownMessage : m.rpc = "DealCard" => Len(m.cards) = HandSize}
HandReceived == {e \in ShownEvent : e.msg \in HandMessage}
OtherMessage == {m \in ShownMessage : m.rpc # "DealCard"}
OtherItem    == [to : Client, msg : OtherMessage]

HandsInv ==
  /\ outbox \in Seq(OtherItem)
  /\ eventQueue \in Seq(HandEvent)
  /\ \A c \in Client : /\ toServer[c] \in Seq(HandRequest)
                       /\ toClient[c] \in Seq(HandMessage)
                       /\ inbox[c] \in Seq(HandReceived)

\* No card is dealt twice in one hand.
Distinct(cards) ==
  \A i, j \in 1..Len(cards) : cards[i] = cards[j] /\ cards[i] # Spoiled => i = j
RepeatMessage == {m \in DealMessage : ~Distinct(m.cards)}

\* On its way to c, in its stream or in its queue, is one of the deals in M.
DealsOf(M)    == {e \in DealEvent : e.msg \in M}
Carries(c, M) == Has(inbox[c], DealsOf(M)) \/ Has(toClient[c], M)

\* The red cards that c has or is to have.
InHand(c, card) == \E i \in 1..Len(hand[c]) : hand[c][i] = card
DealWith(card)  == {m \in DealMessage : \E i \in 1..Len(m.cards) : m.cards[i] = card}
Holds(c, card)  == InHand(c, card) \/ Carries(c, DealWith(card))

OwnerInv ==
  /\ IsInjective(redDeck)
  /\ \A c \in Client : Distinct(hand[c]) /\ ~Carries(c, RepeatMessage)
  /\ \A c \in Client : \A card \in RedCard :
       Holds(c, card) => /\ card \notin Range(redDeck)
                         /\ \A d \in Client \ {c} : ~Holds(d, card)

\* The players that are still to be dealt to.
Waiting == {c \in Client : clientCount < ExpectedPlayers \/ ToCome(c) > 0}

DeckInv == HandSize * Cardinality(Waiting) <= Len(redDeck)

\* They have been dealt nothing so far; the others one hand, or nothing.
RecordInv ==
  \A c \in Client : /\ dealt[c] \in Seq(RedCard)
                    /\ dealt[c] # <<>> => Len(dealt[c]) = HandSize
                    /\ c \in Waiting => dealt[c] = <<>>

-----------------------------------------------------------------------------
(* Counting in queues *)

\* It is a number, and the places are a finite set.
LEMMA CountType ==
  ASSUME NEW A, NEW q \in Seq(A), NEW S
  PROVE  /\ IsFiniteSet({i \in 1..Len(q) : q[i] \in S})
         /\ Count(q, S) \in Nat
<1>1. Len(q) \in Nat
  BY LenProperties
<1>2. IsFiniteSet(1..Len(q))
  BY <1>1, FS_Interval
<1>3. IsFiniteSet({i \in 1..Len(q) : q[i] \in S})
  BY <1>2, FS_Subset
<1> QED BY <1>3, FS_CardinalityType DEF Count

\* Nothing is counted where there is nothing of the kind.
LEMMA CountNone ==
  ASSUME NEW q, NEW S, \A i \in 1..Len(q) : q[i] \notin S
  PROVE  Count(q, S) = 0
<1>1. {i \in 1..Len(q) : q[i] \in S} = {}
  OBVIOUS
<1> QED BY <1>1, FS_EmptySet DEF Count

\* Nothing is in an empty queue.
LEMMA CountEmpty ==
  ASSUME NEW S
  PROVE  Count(<<>>, S) = 0
<1>1. {i \in 1..Len(<<>>) : <<>>[i] \in S} = {}
  OBVIOUS
<1> QED BY <1>1, FS_EmptySet DEF Count

\* An element that is added counts for itself.
LEMMA CountAppend ==
  ASSUME NEW A, NEW q \in Seq(A), NEW x \in A, NEW S
  PROVE  /\ Count(Append(q, x), S) = Count(q, S) + (IF x \in S THEN 1 ELSE 0)
         /\ Count(q, S) \in Nat /\ Count(Append(q, x), S) \in Nat
<1> DEFINE Old == {i \in 1..Len(q) : q[i] \in S}
           New == {i \in 1..Len(Append(q, x)) : Append(q, x)[i] \in S}
<1>1. /\ Len(q) \in Nat
      /\ Len(Append(q, x)) = Len(q) + 1
      /\ Append(q, x)[Len(q) + 1] = x
      /\ \A i \in 1..Len(q) : Append(q, x)[i] = q[i]
  BY LenProperties, AppendProperties
<1>2. IsFiniteSet(Old) /\ Cardinality(Old) \in Nat
  BY CountType, FS_CardinalityType
<1> SUFFICES Count(Append(q, x), S) = Count(q, S) + (IF x \in S THEN 1 ELSE 0)
  <2>1. Count(q, S) \in Nat
    BY CountType
  <2>2. \A n \in Nat : n + (IF x \in S THEN 1 ELSE 0) \in Nat
    OBVIOUS
  <2> QED BY <2>1, <2>2
<1>3. CASE x \in S
  <2>1. New = Old \cup {Len(q) + 1} /\ Len(q) + 1 \notin Old
    BY <1>1, <1>3
  <2> HIDE DEF Old, New
  <2>2. Cardinality(New) = Cardinality(Old) + 1
    BY <1>2, <2>1, FS_AddElement
  <2> QED BY <1>3, <2>2 DEF Count, Old, New
<1>4. CASE x \notin S
  <2>1. New = Old
    BY <1>1, <1>4
  <2> HIDE DEF Old, New
  <2>2. Cardinality(New) = Cardinality(Old) + 0
    BY <1>2, <2>1
  <2> QED BY <1>4, <2>2 DEF Count, Old, New
<1> QED BY <1>3, <1>4

\* When the first k elements are gone, the others are counted as before; the first
\* of them was counted if it is in S.
LEMMA CountUnread ==
  ASSUME NEW A, NEW q \in Seq(A), NEW k \in 1..Len(q), NEW S
  PROVE  /\ Count(SubSeq(q, k + 1, Len(q)), S) + (IF q[1] \in S THEN 1 ELSE 0) <= Count(q, S)
         /\ Count(q, S) \in Nat /\ Count(SubSeq(q, k + 1, Len(q)), S) \in Nat
<1> DEFINE rest == SubSeq(q, k + 1, Len(q))
           Old == {i \in 1..Len(q) : q[i] \in S}
           New == {i \in 1..Len(rest) : rest[i] \in S}
           shift == [i \in New |-> i + k]
<1>1. Len(q) \in Nat /\ k \in Nat /\ 1 <= k /\ k <= Len(q)
  BY LenProperties
<1>2. /\ Len(rest) = Len(q) - k
      /\ \A i \in 1..Len(rest) : rest[i] = q[i + k]
  <2>1. \A i \in k + 1 .. Len(q) : q[i] \in A
    BY <1>1, ElementOfSeq
  <2>2. /\ Len(rest) = IF k + 1 <= Len(q) THEN Len(q) - (k + 1) + 1 ELSE 0
        /\ \A i \in 1 .. Len(q) - (k + 1) + 1 : rest[i] = q[(k + 1) + i - 1]
    BY <1>1, <2>1, SubSeqProperties
  <2> HIDE DEF rest
  <2>3. Len(rest) = Len(q) - k
    BY <1>1, <2>2
  <2>4. \A i \in 1..Len(rest) : i \in 1 .. Len(q) - (k + 1) + 1 /\ (k + 1) + i - 1 = i + k
    BY <1>1, <2>3
  <2> QED BY <2>2, <2>3, <2>4
<1> HIDE DEF rest
<1>3. /\ shift \in [New -> Old \ {1}]
      /\ \A i, j \in New : shift[i] = shift[j] => i = j
  BY <1>1, <1>2
<1>4. IsFiniteSet(Old) /\ Cardinality(Old) \in Nat
  BY CountType, FS_CardinalityType
<1>5. /\ IsFiniteSet(Old \ {1})
      /\ Cardinality(Old \ {1}) = IF 1 \in Old THEN Cardinality(Old) - 1 ELSE Cardinality(Old)
  BY <1>4, FS_RemoveElement
<1>6. 1 \in Old <=> q[1] \in S
  BY <1>1
<1> HIDE DEF Old, New, shift
<1>7. shift \in Injection(New, Old \ {1})
  BY <1>3, Fun_IsInj
<1>8. IsFiniteSet(New) /\ Cardinality(New) <= Cardinality(Old \ {1})
  BY <1>5, <1>7, FS_Injection
<1>9. Cardinality(New) \in Nat
  BY <1>8, FS_CardinalityType
<1>10. Cardinality(New) + (IF q[1] \in S THEN 1 ELSE 0) <= Cardinality(Old)
  BY <1>4, <1>5, <1>6, <1>8, <1>9
<1> QED BY <1>4, <1>9, <1>10 DEF Count, Old, New, rest

\* The same for a queue that loses its head.
LEMMA CountTail ==
  ASSUME NEW A, NEW q \in Seq(A), q # <<>>, NEW S
  PROVE  /\ Count(Tail(q), S) + (IF Head(q) \in S THEN 1 ELSE 0) <= Count(q, S)
         /\ Count(q, S) \in Nat /\ Count(Tail(q), S) \in Nat
<1>1. /\ Len(q) \in Nat /\ 1 \in 1..Len(q)
      /\ Tail(q) = SubSeq(q, 2, Len(q))
      /\ Head(q) = q[1]
  BY LenProperties, EmptySeq
<1>2. /\ Count(SubSeq(q, 1 + 1, Len(q)), S) + (IF q[1] \in S THEN 1 ELSE 0) <= Count(q, S)
      /\ Count(q, S) \in Nat /\ Count(SubSeq(q, 1 + 1, Len(q)), S) \in Nat
  BY <1>1, CountUnread
<1>3. SubSeq(q, 1 + 1, Len(q)) = Tail(q)
  BY <1>1
<1> QED BY <1>1, <1>2, <1>3

\* What is somewhere is counted; and if it is counted only once, it is in one place.
LEMMA CountPlaces ==
  ASSUME NEW A, NEW q \in Seq(A), NEW S, NEW i \in 1..Len(q), q[i] \in S
  PROVE  /\ Count(q, S) >= 1
         /\ Count(q, S) <= 1 => \A j \in 1..Len(q) : q[j] \in S => j = i
<1> DEFINE Places == {j \in 1..Len(q) : q[j] \in S}
<1>1. IsFiniteSet(Places) /\ Cardinality(Places) \in Nat /\ Count(q, S) = Cardinality(Places)
  BY CountType, FS_CardinalityType DEF Count
<1>2. i \in Places
  OBVIOUS
<1>3. \A j \in 1..Len(q) : q[j] \in S => j \in Places
  OBVIOUS
<1> HIDE DEF Places
<1>4. Cardinality(Places) # 0
  BY <1>1, <1>2, FS_EmptySet
<1>5. ASSUME Cardinality(Places) <= 1 PROVE \A j \in Places : j = i
  <2>1. Cardinality(Places) = 1
    BY <1>1, <1>4, <1>5
  <2>2. PICK x : Places = {x}
    BY <1>1, <2>1, FS_Singleton
  <2> QED BY <1>2, <2>2
<1> QED BY <1>1, <1>3, <1>4, <1>5

\* What is counted is somewhere.
LEMMA CountPositive ==
  ASSUME NEW A, NEW q \in Seq(A), NEW S, Count(q, S) > 0
  PROVE  \E i \in 1..Len(q) : q[i] \in S
  BY CountNone

-----------------------------------------------------------------------------
(* Sessions *)

\* Who is accepted has been waiting, and so had no session.
LEMMA NextSeat == IInv /\ OnceInv /\ SeatInv /\ [Next]_vars => SeatInv'
<1> SUFFICES ASSUME IInv, OnceInv, SeatInv, [Next]_vars PROVE SeatInv'
  OBVIOUS
<1>1. CASE Accept
  <2>1. /\ backlog \in Seq(Client) /\ backlog # <<>> /\ clients \in Seq(Client)
        /\ clients' = Append(clients, Head(backlog))
    BY <1>1 DEF IInv, NetworkInv, HostInv, Accept
  <2>2. 1 \in 1..Len(backlog) /\ Head(backlog) = backlog[1]
    BY <2>1, LenProperties, EmptySeq
  <2>3. Head(backlog) \notin Range(clients) /\ Head(backlog) \in Client
    BY <2>1, <2>2, HeadAndTail DEF OnceInv
  <2>4. /\ Len(clients) \in Nat /\ DOMAIN clients = 1..Len(clients)
        /\ Len(clients') = Len(clients) + 1
        /\ clients'[Len(clients) + 1] = Head(backlog)
        /\ \A i \in 1..Len(clients) : clients'[i] = clients[i]
    BY <2>1, <2>3, LenProperties, AppendProperties
  <2>5. \A i \in 1..Len(clients) : clients[i] # Head(backlog)
    BY <2>3, <2>4 DEF Range
  <2>6. \A i \in 1..Len(clients') : i \in 1..Len(clients) \/ i = Len(clients) + 1
    BY <2>4
  <2> QED BY <2>4, <2>5, <2>6 DEF SeatInv
<1>2. CASE UNCHANGED clients
  BY <1>2 DEF SeatInv
<1>3. CASE SetupHostCallbacks \/ HostTerminates \/ WriteToClient \/ PlayerJoinedUpdate
           \/ PlayerJoinedLoadGame \/ CardRequestEvent \/ StartGameMessage
           \/ \E c \in Client : Read(c) \/ ReadEnd(c)
  BY <1>2, <1>3 DEF SetupHostCallbacks, HostTerminates, WriteToClient,
     PlayerJoinedUpdate, PlayerJoinedLoadGame, CardRequestEvent, StartGameMessage,
     Read, ReadEnd
<1>4. CASE UNCHANGED hostVars
  BY <1>2, <1>4 DEF hostVars
<1>5. CASE UNCHANGED vars
  BY <1>4, <1>5 DEF vars
<1> QED BY <1>1, <1>3, <1>4, <1>5 DEF Next

\* A broadcast has one item for each client, at most.
LEMMA BroadcastOnce ==
  ASSUME IInv, SeatInv, NEW msgs, outbox' = ToEachClient(msgs), NEW c, NEW S
  PROVE  /\ Count(outbox', Item(c, S)) \in Nat
         /\ Count(outbox', Item(c, S)) <= 1
<1> DEFINE Places == {i \in 1..Len(outbox') : outbox'[i] \in Item(c, S)}
<1>1. Len(clients) \in Nat /\ DOMAIN clients = 1..Len(clients)
  BY LenProperties DEF IInv, HostInv
<1>2. /\ DOMAIN outbox' = 1..Len(clients)
      /\ \A i \in 1..Len(clients) : outbox'[i].to = clients[i]
  BY DEF ToEachClient
<1>3. outbox' \in [1..Len(clients) -> {outbox'[i] : i \in 1..Len(clients)}]
  BY <1>2 DEF ToEachClient
<1>4. Len(outbox') = Len(clients)
  BY <1>1, <1>2, <1>3, SeqDef, LenProperties
<1>5. \A i, j \in Places : i = j
  BY <1>2, <1>4 DEF Item, SeatInv
<1>6. IsFiniteSet(Places) /\ Cardinality(Places) <= 1 /\ Cardinality(Places) \in Nat
  <2>1. CASE Places = {}
    BY <2>1, FS_EmptySet
  <2>2. CASE Places # {}
    <3>1. PICK x : x \in Places
      BY <2>2
    <3>2. Places = {x}
      BY <1>5, <3>1
    <3>3. IsFiniteSet({x}) /\ Cardinality({x}) = 1
      BY FS_Singleton
    <3> HIDE DEF Places
    <3> QED BY <3>2, <3>3
  <2> QED BY <2>1, <2>2
<1> QED BY <1>6 DEF Count

-----------------------------------------------------------------------------
(* Dealt to once *)

\* A step that brings a player no deal that was not to come to it before.
NoMoreTo(c) == /\ ToCome(c)' \in Nat /\ Made(c)' \in Nat
               /\ ToCome(c)' <= ToCome(c)
               /\ ToCome(c)' + Made(c)' <= ToCome(c) + Made(c)
NoMore == \A c \in Client : NoMoreTo(c)

\* The queues are queues, so these are numbers.
LEMMA CountsType ==
  ASSUME IInv, NEW c \in Client
  PROVE  /\ Count(outbox, Item(c, LoadMessage)) \in Nat
         /\ Count(toClient[c], LoadMessage) \in Nat
         /\ Count(inbox[c], LoadEvent) \in Nat
         /\ Count(toServer[c], RequestOf(c)) \in Nat
         /\ Count(eventQueue, RequestEvent(c)) \in Nat
         /\ Count(toClient[c], DealMessage) \in Nat
         /\ Count(inbox[c], DealEvent) \in Nat
         /\ ToCome(c) \in Nat /\ Made(c) \in Nat
<1>1. /\ outbox \in Seq(ShownItem)
      /\ toClient[c] \in Seq(ShownMessage)
      /\ inbox[c] \in Seq(ShownEvent)
      /\ toServer[c] \in Seq(ClientMessage)
      /\ eventQueue \in Seq(HostEventMessage)
  BY DEF IInv, HostInv, NetworkInv, PlayerInv
<1>2. /\ Count(outbox, Item(c, LoadMessage)) \in Nat
      /\ Count(toClient[c], LoadMessage) \in Nat
      /\ Count(inbox[c], LoadEvent) \in Nat
      /\ Count(toServer[c], RequestOf(c)) \in Nat
      /\ Count(eventQueue, RequestEvent(c)) \in Nat
      /\ Count(toClient[c], DealMessage) \in Nat
      /\ Count(inbox[c], DealEvent) \in Nat
  BY <1>1, CountType
<1> QED BY <1>2 DEF ToCome, Made

\* What is made of a deal, when the hand stays as it is.
LEMMA MadeSum ==
  ASSUME NEW c \in Client, hand'[c] = hand[c]
  PROVE  \E h \in 0..1 :
           /\ Made(c) = Count(toClient[c], DealMessage) + Count(inbox[c], DealEvent) + h
           /\ Made(c)' = Count(toClient'[c], DealMessage) + Count(inbox'[c], DealEvent) + h
<1>1. PICK h : h = IF hand[c] = <<>> THEN 0 ELSE 1
  OBVIOUS
<1>2. h \in 0..1
  BY <1>1
<1>3. Made(c) = Count(toClient[c], DealMessage) + Count(inbox[c], DealEvent) + h
  BY <1>1 DEF Made
<1>4. Made(c)' = Count(toClient'[c], DealMessage) + Count(inbox'[c], DealEvent) + h
  BY <1>1 DEF Made
<1> QED BY <1>2, <1>3, <1>4

\* A player whose messages stay where they are, or are lost with its process or with
\* its session.
LEMMA LostNoMore ==
  ASSUME IInv, NEW c \in Client,
         outbox' = outbox, eventQueue' = eventQueue,
         toServer'[c] \in {toServer[c], <<>>}, toClient'[c] \in {toClient[c], <<>>},
         inbox'[c] = inbox[c], hand'[c] = hand[c]
  PROVE  NoMoreTo(c)
<1>0. /\ Count(outbox, Item(c, LoadMessage)) \in Nat
      /\ Count(toClient[c], LoadMessage) \in Nat
      /\ Count(inbox[c], LoadEvent) \in Nat
      /\ Count(toServer[c], RequestOf(c)) \in Nat
      /\ Count(eventQueue, RequestEvent(c)) \in Nat
      /\ Count(toClient[c], DealMessage) \in Nat
      /\ Count(inbox[c], DealEvent) \in Nat
  BY CountsType
<1>1. /\ Count(toServer'[c], RequestOf(c)) \in {Count(toServer[c], RequestOf(c)), 0}
      /\ Count(toClient'[c], LoadMessage) \in {Count(toClient[c], LoadMessage), 0}
      /\ Count(toClient'[c], DealMessage) \in {Count(toClient[c], DealMessage), 0}
  BY CountEmpty
<1>2. Made(c)' \in Nat /\ Made(c)' <= Made(c) /\ Made(c) \in Nat
  BY <1>0, <1>1 DEF Made
<1>3. ToCome(c)' \in Nat /\ ToCome(c)' <= ToCome(c) /\ ToCome(c) \in Nat
  <2>1. /\ Count(toServer'[c], RequestOf(c)) <= Count(toServer[c], RequestOf(c))
        /\ Count(toServer'[c], RequestOf(c)) \in Nat
        /\ Count(toClient'[c], LoadMessage) <= Count(toClient[c], LoadMessage)
        /\ Count(toClient'[c], LoadMessage) \in Nat
    BY <1>0, <1>1
  <2>2. PICK i \in Nat, m \in Nat, n \in Nat, r \in Nat, q \in Nat :
          /\ i = Count(outbox, Item(c, LoadMessage))
          /\ m = Count(toClient[c], LoadMessage)
          /\ n = Count(inbox[c], LoadEvent)
          /\ r = Count(toServer[c], RequestOf(c))
          /\ q = Count(eventQueue, RequestEvent(c))
    BY <1>0
  <2>3. PICK mm \in Nat, rr \in Nat : /\ mm = Count(toClient'[c], LoadMessage)
                                     /\ rr = Count(toServer'[c], RequestOf(c))
    BY <2>1
  <2>4. ToCome(c) = i + m + n + r + q
    BY <2>2 DEF ToCome
  <2>5. ToCome(c)' = i + mm + n + rr + q
    BY <2>2, <2>3 DEF ToCome
  <2>6. mm <= m /\ rr <= r
    BY <2>1, <2>2, <2>3
  <2> QED BY <2>4, <2>5, <2>6
<1> QED BY <1>2, <1>3 DEF NoMoreTo

\* A new session brings the event that someone has joined, at most.
LEMMA AcceptNoMore ==
  ASSUME IInv, Accept, UNCHANGED playerVars
  PROVE  NoMore
<1> SUFFICES ASSUME NEW c \in Client PROVE NoMoreTo(c)
  BY DEF NoMore
<1> DEFINE e == [event |-> "PlayerJoined", msg |-> DontCare]
<1>1. /\ e \in HostEventMessage /\ e \notin RequestEvent(c)
      /\ eventQueue \in Seq(HostEventMessage)
  BY DEF IInv, HostInv, HostEventMessage, RequestEvent
<1>2. eventQueue' \in {Append(eventQueue, e), eventQueue}
  BY DEF Accept, ConnectionEvent
<1> HIDE DEF e
<1>3. Count(eventQueue', RequestEvent(c)) = Count(eventQueue, RequestEvent(c))
  <2>1. Count(Append(eventQueue, e), RequestEvent(c)) =
          Count(eventQueue, RequestEvent(c)) + (IF e \in RequestEvent(c) THEN 1 ELSE 0)
    BY <1>1, CountAppend
  <2>2. Count(eventQueue, RequestEvent(c)) \in Nat
    BY CountsType
  <2>3. Count(Append(eventQueue, e), RequestEvent(c)) = Count(eventQueue, RequestEvent(c))
    BY <1>1, <2>1, <2>2
  <2> QED BY <1>2, <2>3
<1>4. ToCome(c)' = ToCome(c) /\ Made(c)' = Made(c)
  BY <1>3 DEF ToCome, Made, Accept, playerVars
<1> QED BY <1>4, CountsType DEF NoMoreTo

\* The main thread of the host starts a broadcast that loads no game.
LEMMA BroadcastNoMore ==
  ASSUME IInv, NEW event, Dispatch(event), UNCHANGED <<networkVars, playerVars>>,
         NEW msgs, outbox' = ToEachClient(msgs),
         \A c \in Client : msgs[c] \notin LoadMessage
  PROVE  NoMore
<1> SUFFICES ASSUME NEW c \in Client PROVE NoMoreTo(c)
  BY DEF NoMore
<1>1. outbox = <<>> /\ eventQueue # <<>> /\ eventQueue' = Tail(eventQueue)
  BY DEF Dispatch
<1>2. Count(outbox', Item(c, LoadMessage)) = 0
  <2>1. \A i \in 1..Len(outbox') : outbox'[i] \notin Item(c, LoadMessage)
    BY BroadcastItem DEF Item
  <2> QED BY <2>1, CountNone
<1>3. /\ Count(eventQueue', RequestEvent(c)) <= Count(eventQueue, RequestEvent(c))
      /\ Count(eventQueue', RequestEvent(c)) \in Nat
  <2>1. eventQueue \in Seq(HostEventMessage)
    BY DEF IInv, HostInv
  <2>2. /\ Count(Tail(eventQueue), RequestEvent(c))
             + (IF Head(eventQueue) \in RequestEvent(c) THEN 1 ELSE 0)
             <= Count(eventQueue, RequestEvent(c))
        /\ Count(Tail(eventQueue), RequestEvent(c)) \in Nat
        /\ Count(eventQueue, RequestEvent(c)) \in Nat
    BY <1>1, <2>1, CountTail
  <2> QED BY <1>1, <2>2
<1>4. UNCHANGED <<toServer, toClient, inbox, hand>>
  BY DEF networkVars, playerVars
<1>5. /\ Count(outbox, Item(c, LoadMessage)) \in Nat
      /\ Count(toClient[c], LoadMessage) \in Nat
      /\ Count(inbox[c], LoadEvent) \in Nat
      /\ Count(toServer[c], RequestOf(c)) \in Nat
      /\ Count(eventQueue, RequestEvent(c)) \in Nat
      /\ Count(toClient[c], DealMessage) \in Nat
      /\ Count(inbox[c], DealEvent) \in Nat
  BY CountsType
<1>6. Made(c)' = Made(c) /\ Made(c) \in Nat
  BY <1>4, CountsType DEF Made
<1>7. ToCome(c)' \in Nat /\ ToCome(c)' <= ToCome(c) /\ ToCome(c) \in Nat
  BY <1>2, <1>3, <1>4, <1>5 DEF ToCome
<1> QED BY <1>6, <1>7 DEF NoMoreTo

\* A turn of a broadcast, which deals no cards.
LEMMA WriteToClientNoMore ==
  ASSUME IInv, HandsInv, WriteToClient, UNCHANGED playerVars
  PROVE  NoMore
<1> SUFFICES ASSUME NEW c \in Client PROVE NoMoreTo(c)
  BY DEF NoMore
<1>1. outbox \in Seq(OtherItem) /\ outbox # <<>> /\ outbox' = Tail(outbox)
  BY DEF HandsInv, WriteToClient
<1>2. PICK d \in Client, m \in ShownMessage :
        Head(outbox) = [to |-> d, msg |-> m] /\ m \notin DealMessage
  <2>1. Head(outbox) \in OtherItem
    BY <1>1, HeadAndTail
  <2> QED BY <2>1 DEF OtherItem, OtherMessage, DealMessage
<1>3. /\ Count(outbox', Item(c, LoadMessage))
           + (IF Head(outbox) \in Item(c, LoadMessage) THEN 1 ELSE 0)
           <= Count(outbox, Item(c, LoadMessage))
      /\ Count(outbox', Item(c, LoadMessage)) \in Nat
  BY <1>1, CountTail
<1>4. Head(outbox) \in Item(c, LoadMessage) <=> d = c /\ m \in LoadMessage
  BY <1>2 DEF Item, ShownItem, LoadMessage
<1>5. UNCHANGED <<toServer, eventQueue, inbox, hand>>
  BY DEF WriteToClient, playerVars
<1>6. \/ toClient'[c] = toClient[c]
      \/ d = c /\ toClient'[c] = Append(toClient[c], m)
  BY <1>2 DEF WriteToClient, Sent, IInv, NetworkInv
<1>7. toClient[c] \in Seq(ShownMessage)
  BY DEF IInv, NetworkInv
<1>8. /\ Count(Append(toClient[c], m), LoadMessage) =
           Count(toClient[c], LoadMessage) + (IF m \in LoadMessage THEN 1 ELSE 0)
      /\ Count(Append(toClient[c], m), DealMessage) =
           Count(toClient[c], DealMessage) + (IF m \in DealMessage THEN 1 ELSE 0)
  BY <1>2, <1>7, CountAppend
<1>0. /\ Count(outbox, Item(c, LoadMessage)) \in Nat
      /\ Count(toClient[c], LoadMessage) \in Nat
      /\ Count(inbox[c], LoadEvent) \in Nat
      /\ Count(toServer[c], RequestOf(c)) \in Nat
      /\ Count(eventQueue, RequestEvent(c)) \in Nat
      /\ Count(toClient[c], DealMessage) \in Nat
      /\ Count(inbox[c], DealEvent) \in Nat
  BY CountsType
<1>9. CASE toClient'[c] = toClient[c]
  <2>1. Count(outbox', Item(c, LoadMessage)) <= Count(outbox, Item(c, LoadMessage))
    BY <1>0, <1>3
  <2>2. Made(c)' = Made(c) /\ Made(c) \in Nat
    BY <1>0, <1>5, <1>9 DEF Made
  <2>3. ToCome(c)' \in Nat /\ ToCome(c)' <= ToCome(c) /\ ToCome(c) \in Nat
    BY <1>0, <1>3, <1>5, <1>9, <2>1 DEF ToCome
  <2> QED BY <2>2, <2>3 DEF NoMoreTo
<1>10. CASE d = c /\ toClient'[c] = Append(toClient[c], m)
  <2>1. Made(c)' = Made(c) /\ Made(c) \in Nat
    BY <1>0, <1>2, <1>5, <1>8, <1>10 DEF Made
  <2>2. Count(outbox', Item(c, LoadMessage)) + Count(toClient'[c], LoadMessage)
          <= Count(outbox, Item(c, LoadMessage)) + Count(toClient[c], LoadMessage)
    <3>1. CASE m \in LoadMessage
      <4>1. Count(outbox', Item(c, LoadMessage)) + 1 <= Count(outbox, Item(c, LoadMessage))
        BY <1>3, <1>4, <1>10, <3>1
      <4>2. Count(toClient'[c], LoadMessage) = Count(toClient[c], LoadMessage) + 1
        BY <1>8, <1>10, <3>1
      <4> QED BY <1>0, <1>3, <4>1, <4>2
    <3>2. CASE m \notin LoadMessage
      <4>1. Count(outbox', Item(c, LoadMessage)) <= Count(outbox, Item(c, LoadMessage))
        BY <1>0, <1>3
      <4>2. Count(toClient'[c], LoadMessage) = Count(toClient[c], LoadMessage)
        BY <1>0, <1>8, <1>10, <3>2
      <4> QED BY <1>0, <1>3, <4>1, <4>2
    <3> QED BY <3>1, <3>2
  <2>3. Count(toClient'[c], LoadMessage) \in Nat
    BY <1>0, <1>8, <1>10
  <2>4. ToCome(c)' \in Nat /\ ToCome(c)' <= ToCome(c) /\ ToCome(c) \in Nat
    BY <1>0, <1>3, <1>5, <2>2, <2>3 DEF ToCome
  <2> QED BY <2>1, <2>4 DEF NoMoreTo
<1> QED BY <1>6, <1>9, <1>10 DEF NoMoreTo

\* A read takes what it decodes from what is counted.
LEMMA CountRead ==
  ASSUME NEW A, NEW q \in Seq(A), NEW k \in ReadSizes(q), NEW S
  PROVE  /\ Count(Unread(q, k), S)
              + (IF Deserialize(SubSeq(q, 1, k)).msg \in S THEN 1 ELSE 0) <= Count(q, S)
         /\ Count(q, S) \in Nat /\ Count(Unread(q, k), S) \in Nat
<1>1. 1 \in 1..Len(q) /\ k \in 1..Len(q)
  BY LenProperties DEF ReadSizes
<1>2. Deserialize(SubSeq(q, 1, k)).msg = q[1]
  BY <1>1, HeadTailOfSubSeq DEF Deserialize
<1> QED BY <1>1, <1>2, CountUnread DEF Unread

\* A request is answered with a deal, or not at all.
LEMMA CardRequestNoMore ==
  ASSUME IInv, CardRequestEvent, UNCHANGED playerVars
  PROVE  /\ NoMore
         /\ \A c \in Client : Head(eventQueue).msg.id = c => ToCome(c)' + 1 <= ToCome(c)
<1> SUFFICES ASSUME NEW c \in Client
             PROVE  /\ NoMoreTo(c)
                    /\ Head(eventQueue).msg.id = c => ToCome(c)' + 1 <= ToCome(c)
  BY DEF NoMore
<1> DEFINE e == Head(eventQueue)
           n == IF e.msg.amount > 0 THEN e.msg.amount ELSE 0
           cards == SubSeq(redDeck, 1, n)
<1>1. /\ UNCHANGED <<outbox, toServer, inbox, hand>>
      /\ DealCards(e.msg.id, n)
      /\ eventQueue \in Seq(HostEventMessage) /\ eventQueue # <<>>
      /\ eventQueue' = Tail(eventQueue)
      /\ toClient[c] \in Seq(ShownMessage)
  BY DEF CardRequestEvent, Dispatch, playerVars, IInv, HostInv, NetworkInv
<1>2. e \in HostEventMessage /\ e.event = "CardRequest" /\ e.msg.id \in Client /\ n \in Nat
  BY DispatchType DEF IInv, CardRequestEvent, HostEventMessage
<1>3. e \in RequestEvent(c) <=> e.msg.id = c
  BY <1>2 DEF RequestEvent
<1>4. /\ Count(eventQueue', RequestEvent(c)) + (IF e \in RequestEvent(c) THEN 1 ELSE 0)
           <= Count(eventQueue, RequestEvent(c))
      /\ Count(eventQueue', RequestEvent(c)) \in Nat
  BY <1>1, CountTail
<1>5. \/ toClient'[c] = toClient[c]
      \/ e.msg.id = c /\ \E m \in DealMessage : toClient'[c] = Append(toClient[c], m)
  <2>1. CASE UNCHANGED toClient
    BY <2>1
  <2>2. CASE n <= Len(redDeck) /\ Deal(e.msg.id, cards)
    <3>1. redDeck \in Seq(RedCard)
      BY DEF IInv, HostInv
    <3>2. cards \in Seq(RedCard)
      BY <1>2, <2>2, <3>1, PartOfSeq
    <3> HIDE DEF cards, n, e
    <3>3. PICK tail \in Tails : toClient' = Sent(e.msg.id, DealCard(cards, tail))
      BY <2>2 DEF Deal
    <3>4. PICK m \in DealMessage : m = DealCard(cards, tail)
      <4>1. DealCard(cards, tail) \in ShownMessage
        BY <3>2, MessagesShown
      <4> QED BY <4>1 DEF DealMessage, DealCard
    <3>5. toClient' = Sent(e.msg.id, m)
      BY <3>3, <3>4
    <3> QED BY <1>2, <3>5 DEF Sent, IInv, NetworkInv
  <2> QED BY <1>1, <2>1, <2>2 DEF DealCards
<1>6. \A m \in DealMessage : m \notin LoadMessage /\ m \in ShownMessage
  BY DEF LoadMessage, DealMessage
<1> HIDE DEF e, n, cards
<1>0. /\ Count(outbox, Item(c, LoadMessage)) \in Nat
      /\ Count(toClient[c], LoadMessage) \in Nat
      /\ Count(inbox[c], LoadEvent) \in Nat
      /\ Count(toServer[c], RequestOf(c)) \in Nat
      /\ Count(eventQueue, RequestEvent(c)) \in Nat
      /\ Count(toClient[c], DealMessage) \in Nat
      /\ Count(inbox[c], DealEvent) \in Nat
  BY CountsType
<1>7. Count(eventQueue', RequestEvent(c)) <= Count(eventQueue, RequestEvent(c))
  BY <1>0, <1>4
<1>10. ASSUME Count(toClient'[c], LoadMessage) = Count(toClient[c], LoadMessage)
       PROVE  \E s \in Nat : /\ ToCome(c) = s + Count(eventQueue, RequestEvent(c))
                             /\ ToCome(c)' = s + Count(eventQueue', RequestEvent(c))
                             /\ ToCome(c) \in Nat /\ ToCome(c)' \in Nat
  <2>1. PICK s : s = Count(outbox, Item(c, LoadMessage)) + Count(toClient[c], LoadMessage)
                       + Count(inbox[c], LoadEvent) + Count(toServer[c], RequestOf(c))
    OBVIOUS
  <2>2. s \in Nat
    BY <1>0, <2>1
  <2>3. ToCome(c) = s + Count(eventQueue, RequestEvent(c))
    BY <2>1 DEF ToCome
  <2>4. outbox' = outbox /\ toServer'[c] = toServer[c] /\ inbox'[c] = inbox[c]
    BY <1>1
  <2>5. ToCome(c)' = s + Count(eventQueue', RequestEvent(c))
    BY <1>10, <2>1, <2>4 DEF ToCome
  <2>6. /\ Count(eventQueue, RequestEvent(c)) \in Nat
        /\ Count(eventQueue', RequestEvent(c)) \in Nat
    BY <1>0, <1>4
  <2> QED BY <2>2, <2>3, <2>5, <2>6
<1>8. CASE toClient'[c] = toClient[c]
  <2>1. Made(c)' = Made(c) /\ Made(c) \in Nat
    BY <1>0, <1>1, <1>8 DEF Made
  <2>2. ToCome(c)' \in Nat /\ ToCome(c)' <= ToCome(c) /\ ToCome(c) \in Nat
    <3>1. PICK s \in Nat : /\ ToCome(c) = s + Count(eventQueue, RequestEvent(c))
                           /\ ToCome(c)' = s + Count(eventQueue', RequestEvent(c))
                           /\ ToCome(c) \in Nat /\ ToCome(c)' \in Nat
      BY <1>8, <1>10
    <3> QED BY <1>0, <1>4, <1>7, <3>1
  <2>3. ASSUME e.msg.id = c PROVE ToCome(c)' + 1 <= ToCome(c)
    <3>1. Count(eventQueue', RequestEvent(c)) + 1 <= Count(eventQueue, RequestEvent(c))
      BY <1>3, <1>4, <2>3
    <3>2. PICK s \in Nat : /\ ToCome(c) = s + Count(eventQueue, RequestEvent(c))
                           /\ ToCome(c)' = s + Count(eventQueue', RequestEvent(c))
                           /\ ToCome(c) \in Nat /\ ToCome(c)' \in Nat
      BY <1>8, <1>10
    <3> QED BY <1>0, <1>4, <3>1, <3>2
  <2> QED BY <2>1, <2>2, <2>3 DEF NoMoreTo, e
<1>9. ASSUME e.msg.id = c, NEW m \in DealMessage, toClient'[c] = Append(toClient[c], m)
      PROVE  NoMoreTo(c) /\ ToCome(c)' + 1 <= ToCome(c)
  <2>0. m \in ShownMessage /\ m \notin LoadMessage
    BY <1>6
  <2>1. /\ Count(toClient'[c], LoadMessage) = Count(toClient[c], LoadMessage)
        /\ Count(toClient'[c], DealMessage) \in Nat
        /\ Count(toClient'[c], DealMessage) <= Count(toClient[c], DealMessage) + 1
    <3>1. Count(Append(toClient[c], m), LoadMessage) =
            Count(toClient[c], LoadMessage) + (IF m \in LoadMessage THEN 1 ELSE 0)
      BY <1>1, <2>0, CountAppend
    <3>2. Count(Append(toClient[c], m), DealMessage) =
            Count(toClient[c], DealMessage) + (IF m \in DealMessage THEN 1 ELSE 0)
      BY <1>1, <2>0, CountAppend
    <3> QED BY <1>0, <1>9, <2>0, <3>1, <3>2
  <2>2. Count(eventQueue', RequestEvent(c)) + 1 <= Count(eventQueue, RequestEvent(c))
    BY <1>3, <1>4, <1>9
  <2>3. Made(c)' \in Nat /\ Made(c)' <= Made(c) + 1 /\ Made(c) \in Nat
    <3>1. PICK h \in 0..1 :
               /\ Made(c) = Count(toClient[c], DealMessage) + Count(inbox[c], DealEvent) + h
               /\ Made(c)' = Count(toClient'[c], DealMessage) + Count(inbox'[c], DealEvent) + h
      BY <1>1, MadeSum
    <3>2. Count(inbox'[c], DealEvent) = Count(inbox[c], DealEvent)
      BY <1>1
    <3> QED BY <1>0, <2>1, <3>1, <3>2
  <2>4. Count(eventQueue', RequestEvent(c)) \in Nat
    BY <1>4
  <2>6. ToCome(c)' \in Nat /\ ToCome(c)' + 1 <= ToCome(c) /\ ToCome(c) \in Nat
    <3>1. PICK s \in Nat : /\ ToCome(c) = s + Count(eventQueue, RequestEvent(c))
                           /\ ToCome(c)' = s + Count(eventQueue', RequestEvent(c))
                           /\ ToCome(c) \in Nat /\ ToCome(c)' \in Nat
      BY <1>10, <2>1
    <3> QED BY <1>0, <2>2, <2>4, <3>1
  <2> QED BY <2>3, <2>6 DEF NoMoreTo
<1> QED BY <1>5, <1>8, <1>9 DEF e

\* A read of the host takes a request from the stream, and it is one of the player
\* whose stream it is.
LEMMA ReadNoMore ==
  ASSUME IInv, SessionInv, NEW d \in Client, Read(d), UNCHANGED playerVars
  PROVE  NoMore
<1> SUFFICES ASSUME NEW c \in Client PROVE NoMoreTo(c)
  BY DEF NoMore
<1>1. PICK k \in ReadSizes(toServer[d]) :
        LET msg == Deserialize(SubSeq(toServer[d], 1, k)).msg
        IN  /\ toServer' = [toServer EXCEPT ![d] = Unread(@, k)]
            /\ eventQueue' = IF msg.rpc \in DOMAIN HostEvent
                             THEN Append(eventQueue, [event |-> HostEvent[msg.rpc],
                                                      msg |-> msg])
                             ELSE eventQueue
  BY DEF Read
<1> DEFINE msg == Deserialize(SubSeq(toServer[d], 1, k)).msg
           e == [event |-> HostEvent[msg.rpc], msg |-> msg]
<1>2. msg \in FromClient(d)
  <2>1. toServer[d] \in Seq(FromClient(d))
    BY DEF SessionInv
  <2> QED BY <2>1, ReadOfStream
<1>3. msg \in ClientMessage /\ msg.id = d
  BY <1>2 DEF FromClient
<1>4. e \in HostEventMessage /\ (e \in RequestEvent(c) => d = c /\ msg \in RequestOf(c))
  BY <1>3 DEF ClientMessage, HostEvent, HostEventMessage, RequestEvent, RequestOf
<1>5. /\ eventQueue' \in {Append(eventQueue, e), eventQueue}
      /\ eventQueue \in Seq(HostEventMessage)
      /\ toServer[d] \in Seq(ClientMessage)
  BY <1>1 DEF IInv, HostInv, NetworkInv
<1>6. toServer'[d] = Unread(toServer[d], k) /\ \A b \in Client \ {d} : toServer'[b] = toServer[b]
  BY <1>1 DEF IInv, NetworkInv
<1>7. /\ Count(toServer'[d], RequestOf(d)) + (IF msg \in RequestOf(d) THEN 1 ELSE 0)
           <= Count(toServer[d], RequestOf(d))
      /\ Count(toServer'[d], RequestOf(d)) \in Nat
  BY <1>5, <1>6, CountRead
<1> HIDE DEF e, msg
<1>8. Count(Append(eventQueue, e), RequestEvent(c)) =
        Count(eventQueue, RequestEvent(c)) + (IF e \in RequestEvent(c) THEN 1 ELSE 0)
  BY <1>4, <1>5, CountAppend
<1>0. /\ Count(outbox, Item(c, LoadMessage)) \in Nat
      /\ Count(toClient[c], LoadMessage) \in Nat
      /\ Count(inbox[c], LoadEvent) \in Nat
      /\ Count(toServer[c], RequestOf(c)) \in Nat
      /\ Count(eventQueue, RequestEvent(c)) \in Nat
      /\ Count(toClient[c], DealMessage) \in Nat
      /\ Count(inbox[c], DealEvent) \in Nat
      /\ Count(toServer[d], RequestOf(d)) \in Nat
  BY CountsType
<1>9. UNCHANGED <<outbox, toClient, inbox, hand>>
  BY DEF Read, playerVars
<1>10. /\ Count(toServer'[c], RequestOf(c)) \in Nat
       /\ Count(eventQueue', RequestEvent(c)) \in Nat
       /\ Count(toServer'[c], RequestOf(c)) + Count(eventQueue', RequestEvent(c))
            <= Count(toServer[c], RequestOf(c)) + Count(eventQueue, RequestEvent(c))
  <2>1. CASE e \in RequestEvent(c)
    <3>1. /\ Count(toServer'[c], RequestOf(c)) + 1 <= Count(toServer[c], RequestOf(c))
          /\ Count(toServer'[c], RequestOf(c)) \in Nat
      BY <1>4, <1>7, <2>1
    <3>2. Count(Append(eventQueue, e), RequestEvent(c)) = Count(eventQueue, RequestEvent(c)) + 1
      BY <1>8, <2>1
    <3>3. \/ Count(eventQueue', RequestEvent(c)) = Count(eventQueue, RequestEvent(c)) + 1
          \/ Count(eventQueue', RequestEvent(c)) = Count(eventQueue, RequestEvent(c))
      BY <1>5, <3>2
    <3> QED BY <1>0, <3>1, <3>3
  <2>2. CASE e \notin RequestEvent(c)
    <3>1. /\ Count(toServer'[c], RequestOf(c)) <= Count(toServer[c], RequestOf(c))
          /\ Count(toServer'[c], RequestOf(c)) \in Nat
      BY <1>0, <1>6, <1>7
    <3>2. Count(eventQueue', RequestEvent(c)) = Count(eventQueue, RequestEvent(c))
      <4>1. Count(Append(eventQueue, e), RequestEvent(c)) = Count(eventQueue, RequestEvent(c))
        BY <1>0, <1>8, <2>2
      <4> QED BY <1>5, <4>1
    <3> QED BY <1>0, <3>1, <3>2
  <2> QED BY <2>1, <2>2
<1>11. Made(c)' = Made(c) /\ Made(c) \in Nat
  BY <1>0, <1>9 DEF Made
<1>12. ToCome(c)' \in Nat /\ ToCome(c)' <= ToCome(c) /\ ToCome(c) \in Nat
  BY <1>0, <1>9, <1>10 DEF ToCome
<1> QED BY <1>11, <1>12 DEF NoMoreTo

\* A read of a player takes a message from its stream and makes its event of it.
LEMMA ClientReadNoMore ==
  ASSUME IInv, NEW c \in Client, ClientRead(c), UNCHANGED hostVars
  PROVE  NoMore
<1>1. PICK k \in ReadSizes(toClient[c]) :
        LET read == Deserialize(SubSeq(toClient[c], 1, k))
        IN  /\ toClient' = [toClient EXCEPT ![c] = Unread(@, k)]
            /\ inbox' = [inbox EXCEPT ![c] =
                           Append(@, [event |-> ClientEvent[read.msg.rpc],
                                      msg |-> read.msg,
                                      spoiled |-> read.spoiled])]
  BY DEF ClientRead
<1> DEFINE m == Deserialize(SubSeq(toClient[c], 1, k)).msg
           e == [event |-> ClientEvent[m.rpc], msg |-> m,
                 spoiled |-> Deserialize(SubSeq(toClient[c], 1, k)).spoiled]
<1>2. toClient[c] \in Seq(ShownMessage) /\ inbox[c] \in Seq(ShownEvent)
  BY DEF IInv, NetworkInv, PlayerInv
<1>3. m \in ShownMessage /\ e \in ShownEvent
  BY <1>2, ReadOfStream, EventOfMessage
<1>4. (e \in LoadEvent <=> m \in LoadMessage) /\ (e \in DealEvent <=> m \in DealMessage)
  BY <1>3 DEF LoadEvent, LoadMessage, DealEvent, DealMessage, ShownMessage,
              ServerMessage, ClientEvent
<1>5. /\ toClient'[c] = Unread(toClient[c], k)
      /\ inbox'[c] = Append(inbox[c], e)
      /\ \A d \in Client \ {c} : inbox'[d] = inbox[d] /\ toClient'[d] = toClient[d]
  BY <1>1 DEF IInv, NetworkInv, PlayerInv
<1>6. UNCHANGED <<outbox, eventQueue, toServer, hand>>
  BY DEF ClientRead, hostVars
<1>7. /\ Count(toClient'[c], LoadMessage) + (IF m \in LoadMessage THEN 1 ELSE 0)
           <= Count(toClient[c], LoadMessage)
      /\ Count(toClient'[c], LoadMessage) \in Nat
      /\ Count(toClient'[c], DealMessage) + (IF m \in DealMessage THEN 1 ELSE 0)
           <= Count(toClient[c], DealMessage)
      /\ Count(toClient'[c], DealMessage) \in Nat
  BY <1>2, <1>5, CountRead
<1> HIDE DEF m, e
<1>8. /\ Count(inbox'[c], LoadEvent) =
           Count(inbox[c], LoadEvent) + (IF e \in LoadEvent THEN 1 ELSE 0)
      /\ Count(inbox'[c], LoadEvent) \in Nat
      /\ Count(inbox'[c], DealEvent) =
           Count(inbox[c], DealEvent) + (IF e \in DealEvent THEN 1 ELSE 0)
      /\ Count(inbox'[c], DealEvent) \in Nat
  <2>1. PICK q : q = inbox[c]
    OBVIOUS
  <2>2. q \in Seq(ShownEvent)
    BY <1>2, <2>1
  <2>3. e \in ShownEvent
    BY <1>3
  <2>4. /\ Count(Append(q, e), LoadEvent) =
             Count(q, LoadEvent) + (IF e \in LoadEvent THEN 1 ELSE 0)
        /\ Count(Append(q, e), LoadEvent) \in Nat
    BY <2>2, <2>3, CountAppend
  <2>5. /\ Count(Append(q, e), DealEvent) =
             Count(q, DealEvent) + (IF e \in DealEvent THEN 1 ELSE 0)
        /\ Count(Append(q, e), DealEvent) \in Nat
    BY <2>2, <2>3, CountAppend
  <2> QED BY <1>5, <2>1, <2>4, <2>5
<1>0. /\ Count(outbox, Item(c, LoadMessage)) \in Nat
      /\ Count(toClient[c], LoadMessage) \in Nat
      /\ Count(inbox[c], LoadEvent) \in Nat
      /\ Count(toServer[c], RequestOf(c)) \in Nat
      /\ Count(eventQueue, RequestEvent(c)) \in Nat
      /\ Count(toClient[c], DealMessage) \in Nat
      /\ Count(inbox[c], DealEvent) \in Nat
  BY CountsType
<1>9. Count(toClient'[c], LoadMessage) + Count(inbox'[c], LoadEvent)
        <= Count(toClient[c], LoadMessage) + Count(inbox[c], LoadEvent)
  BY <1>0, <1>4, <1>7, <1>8
<1>10. Count(toClient'[c], DealMessage) + Count(inbox'[c], DealEvent)
         <= Count(toClient[c], DealMessage) + Count(inbox[c], DealEvent)
  BY <1>0, <1>4, <1>7, <1>8
<1>11. /\ Count(toClient'[c], LoadMessage) \in Nat /\ Count(inbox'[c], LoadEvent) \in Nat
       /\ Count(toClient'[c], DealMessage) \in Nat /\ Count(inbox'[c], DealEvent) \in Nat
  BY <1>7, <1>8
<1>12. Made(c)' \in Nat /\ Made(c)' <= Made(c) /\ Made(c) \in Nat
  <2>1. PICK h \in 0..1 :
             /\ Made(c) = Count(toClient[c], DealMessage) + Count(inbox[c], DealEvent) + h
             /\ Made(c)' = Count(toClient'[c], DealMessage) + Count(inbox'[c], DealEvent) + h
    BY <1>6, MadeSum
  <2> QED BY <1>0, <1>10, <1>11, <2>1
<1>13. ToCome(c)' \in Nat /\ ToCome(c)' <= ToCome(c) /\ ToCome(c) \in Nat
  BY <1>0, <1>6, <1>9, <1>11 DEF ToCome
<1>14. NoMoreTo(c)
  BY <1>12, <1>13 DEF NoMoreTo
<1>15. \A d \in Client \ {c} : NoMoreTo(d)
  BY <1>5, <1>6, LostNoMore
<1> QED BY <1>14, <1>15 DEF NoMore

\* An event that a player takes off its queue is counted no more.
LEMMA ReceiveCounts ==
  ASSUME IInv, NEW c \in Client, NEW event, Receive(c, event)
  PROVE  /\ Count(inbox'[c], LoadEvent) \in Nat
         /\ Count(inbox'[c], DealEvent) \in Nat
         /\ Count(inbox'[c], LoadEvent) <= Count(inbox[c], LoadEvent)
         /\ Count(inbox'[c], DealEvent) <= Count(inbox[c], DealEvent)
         /\ event = "SynchronizeGame" =>
              Count(inbox'[c], LoadEvent) + 1 <= Count(inbox[c], LoadEvent)
         /\ event = "CardReceived" =>
              Count(inbox'[c], DealEvent) + 1 <= Count(inbox[c], DealEvent)
         /\ \A d \in Client \ {c} : inbox'[d] = inbox[d]
<1>1. /\ inbox[c] \in Seq(ShownEvent) /\ inbox[c] # <<>>
      /\ inbox'[c] = Tail(inbox[c])
      /\ \A d \in Client \ {c} : inbox'[d] = inbox[d]
  BY DEF Receive, IInv, PlayerInv
<1>2. Head(inbox[c]) \in ShownEvent /\ Head(inbox[c]).event = event
  BY <1>1, HeadAndTail DEF Receive
<1>3. /\ event = "SynchronizeGame" => Head(inbox[c]) \in LoadEvent
      /\ event = "CardReceived" => Head(inbox[c]) \in DealEvent
  BY <1>2 DEF LoadEvent, DealEvent
<1>4. /\ Count(inbox'[c], LoadEvent) + (IF Head(inbox[c]) \in LoadEvent THEN 1 ELSE 0)
           <= Count(inbox[c], LoadEvent)
      /\ Count(inbox[c], LoadEvent) \in Nat /\ Count(inbox'[c], LoadEvent) \in Nat
      /\ Count(inbox'[c], DealEvent) + (IF Head(inbox[c]) \in DealEvent THEN 1 ELSE 0)
           <= Count(inbox[c], DealEvent)
      /\ Count(inbox[c], DealEvent) \in Nat /\ Count(inbox'[c], DealEvent) \in Nat
  BY <1>1, CountTail
<1> QED BY <1>1, <1>3, <1>4

\* Events that neither ask for cards nor bring some.
LEMMA OtherEventNoMore ==
  ASSUME IInv, NEW c \in Client, UNCHANGED hostVars, PlayerJoinedUpdated(c) \/ GameStarted(c)
  PROVE  NoMore
<1>1. UNCHANGED <<outbox, eventQueue, toServer, toClient, hand>>
  BY DEF PlayerJoinedUpdated, GameStarted, networkVars, hostVars
<1>2. PICK event : Receive(c, event)
  BY DEF PlayerJoinedUpdated, GameStarted
<1>3. /\ Count(inbox'[c], LoadEvent) \in Nat
      /\ Count(inbox'[c], DealEvent) \in Nat
      /\ Count(inbox'[c], LoadEvent) <= Count(inbox[c], LoadEvent)
      /\ Count(inbox'[c], DealEvent) <= Count(inbox[c], DealEvent)
      /\ \A d \in Client \ {c} : inbox'[d] = inbox[d]
  BY <1>2, ReceiveCounts
<1>0. /\ Count(outbox, Item(c, LoadMessage)) \in Nat
      /\ Count(toClient[c], LoadMessage) \in Nat
      /\ Count(inbox[c], LoadEvent) \in Nat
      /\ Count(toServer[c], RequestOf(c)) \in Nat
      /\ Count(eventQueue, RequestEvent(c)) \in Nat
      /\ Count(toClient[c], DealMessage) \in Nat
      /\ Count(inbox[c], DealEvent) \in Nat
  BY CountsType
<1>4. Made(c)' \in Nat /\ Made(c)' <= Made(c) /\ Made(c) \in Nat
  BY <1>0, <1>1, <1>3 DEF Made
<1>5. ToCome(c)' \in Nat /\ ToCome(c)' <= ToCome(c) /\ ToCome(c) \in Nat
  BY <1>0, <1>1, <1>3 DEF ToCome
<1>6. NoMoreTo(c)
  BY <1>4, <1>5 DEF NoMoreTo
<1>7. \A d \in Client \ {c} : NoMoreTo(d)
  BY <1>1, <1>3, LostNoMore
<1> QED BY <1>6, <1>7 DEF NoMore

\* Loading the game asks for cards once.
LEMMA SynchronizeGameNoMore ==
  ASSUME IInv, NEW c \in Client, UNCHANGED hostVars, SynchronizeGame(c)
  PROVE  NoMore
<1> DEFINE request == CardRequest(c, RequestAmount(c))
<1>1. UNCHANGED <<outbox, eventQueue, toClient, hand>> /\ Receive(c, "SynchronizeGame")
  BY DEF SynchronizeGame, hostVars
<1>2. /\ request \in ClientMessage /\ Ready(c) \in ClientMessage
      /\ Ready(c) \notin RequestOf(c)
  <2>1. RequestAmount(c) \in Int
    BY LenProperties, HandSizeAssumption DEF RequestAmount, IInv, PlayerInv
  <2> QED BY <2>1 DEF CardRequest, Ready, ClientMessage, RequestOf
<1>3. toServer[c] \in Seq(ClientMessage)
  BY DEF IInv, NetworkInv
<1>4. /\ toServer'[c] = toServer[c] \o <<request, Ready(c)>>
      /\ \A d \in Client \ {c} : toServer'[d] = toServer[d]
  BY DEF SynchronizeGame, IInv, NetworkInv
<1> HIDE DEF request
<1>5. /\ toServer'[c] = Append(Append(toServer[c], request), Ready(c))
      /\ Append(toServer[c], request) \in Seq(ClientMessage)
  <2>1. toServer[c] \o <<request, Ready(c)>> = Append(Append(toServer[c], request), Ready(c))
    BY <1>2, <1>3
  <2> QED BY <1>2, <1>3, <1>4, <2>1, AppendProperties
<1>6. /\ Count(Append(toServer[c], request), RequestOf(c)) =
           Count(toServer[c], RequestOf(c)) + (IF request \in RequestOf(c) THEN 1 ELSE 0)
      /\ Count(toServer[c], RequestOf(c)) \in Nat
  BY <1>2, <1>3, CountAppend
<1>7. Count(Append(toServer[c], request), RequestOf(c)) \in Nat
  BY <1>2, <1>3, CountAppend
<1>8. Count(toServer'[c], RequestOf(c)) =
        Count(Append(toServer[c], request), RequestOf(c))
          + (IF Ready(c) \in RequestOf(c) THEN 1 ELSE 0)
  <2> DEFINE q == Append(toServer[c], request)
             ready == Ready(c)
  <2>1. q \in Seq(ClientMessage) /\ ready \in ClientMessage
    BY <1>2, <1>5
  <2> HIDE DEF q, ready
  <2>2. Count(Append(q, ready), RequestOf(c)) =
          Count(q, RequestOf(c)) + (IF ready \in RequestOf(c) THEN 1 ELSE 0)
    BY <2>1, CountAppend
  <2> QED BY <1>5, <2>2 DEF q, ready
<1>9. /\ Count(toServer'[c], RequestOf(c)) \in Nat
      /\ Count(toServer'[c], RequestOf(c)) <= Count(toServer[c], RequestOf(c)) + 1
  <2>1. Count(toServer'[c], RequestOf(c)) = Count(Append(toServer[c], request), RequestOf(c))
    BY <1>2, <1>7, <1>8
  <2> QED BY <1>6, <1>7, <2>1
<1>10. /\ Count(inbox'[c], LoadEvent) \in Nat
       /\ Count(inbox'[c], DealEvent) \in Nat
       /\ Count(inbox'[c], LoadEvent) + 1 <= Count(inbox[c], LoadEvent)
       /\ Count(inbox'[c], DealEvent) <= Count(inbox[c], DealEvent)
       /\ \A d \in Client \ {c} : inbox'[d] = inbox[d]
  BY <1>1, ReceiveCounts
<1>0. /\ Count(outbox, Item(c, LoadMessage)) \in Nat
      /\ Count(toClient[c], LoadMessage) \in Nat
      /\ Count(inbox[c], LoadEvent) \in Nat
      /\ Count(toServer[c], RequestOf(c)) \in Nat
      /\ Count(eventQueue, RequestEvent(c)) \in Nat
      /\ Count(toClient[c], DealMessage) \in Nat
      /\ Count(inbox[c], DealEvent) \in Nat
  BY CountsType
<1>11. Made(c)' \in Nat /\ Made(c)' <= Made(c) /\ Made(c) \in Nat
  <2>1. PICK h \in 0..1 :
             /\ Made(c) = Count(toClient[c], DealMessage) + Count(inbox[c], DealEvent) + h
             /\ Made(c)' = Count(toClient'[c], DealMessage) + Count(inbox'[c], DealEvent) + h
    BY <1>1, MadeSum
  <2> QED BY <1>0, <1>1, <1>10, <2>1
<1>12. ToCome(c)' \in Nat /\ ToCome(c)' <= ToCome(c) /\ ToCome(c) \in Nat
  BY <1>0, <1>1, <1>9, <1>10 DEF ToCome
<1>13. NoMoreTo(c)
  BY <1>11, <1>12 DEF NoMoreTo
<1>14. \A d \in Client \ {c} : NoMoreTo(d)
  BY <1>1, <1>4, <1>10, LostNoMore
<1> QED BY <1>13, <1>14 DEF NoMore

\* What has been dealt is still dealt when it is in the hand.
LEMMA CardsResponseNoMore ==
  ASSUME IInv, NEW c \in Client, UNCHANGED hostVars, CardsResponse(c)
  PROVE  NoMore
<1>1. /\ UNCHANGED <<outbox, eventQueue, toServer, toClient>>
      /\ Receive(c, "CardReceived")
      /\ \A d \in Client \ {c} : hand'[d] = hand[d]
  BY DEF CardsResponse, networkVars, hostVars, IInv, PlayerInv
<1>2. /\ Count(inbox'[c], LoadEvent) \in Nat
      /\ Count(inbox'[c], DealEvent) \in Nat
      /\ Count(inbox'[c], LoadEvent) <= Count(inbox[c], LoadEvent)
      /\ Count(inbox'[c], DealEvent) + 1 <= Count(inbox[c], DealEvent)
      /\ \A d \in Client \ {c} : inbox'[d] = inbox[d]
  BY <1>1, ReceiveCounts
<1>0. /\ Count(outbox, Item(c, LoadMessage)) \in Nat
      /\ Count(toClient[c], LoadMessage) \in Nat
      /\ Count(inbox[c], LoadEvent) \in Nat
      /\ Count(toServer[c], RequestOf(c)) \in Nat
      /\ Count(eventQueue, RequestEvent(c)) \in Nat
      /\ Count(toClient[c], DealMessage) \in Nat
      /\ Count(inbox[c], DealEvent) \in Nat
  BY CountsType
<1>3. Made(c)' \in Nat /\ Made(c)' <= Made(c) /\ Made(c) \in Nat
  <2>1. PICK h \in 0..1 : h = IF hand[c] = <<>> THEN 0 ELSE 1
    OBVIOUS
  <2>2. PICK hh \in 0..1 : hh = IF hand'[c] = <<>> THEN 0 ELSE 1
    OBVIOUS
  <2>3. Made(c) = Count(toClient[c], DealMessage) + Count(inbox[c], DealEvent) + h
    BY <2>1 DEF Made
  <2>4. Made(c)' = Count(toClient[c], DealMessage) + Count(inbox'[c], DealEvent) + hh
    BY <1>1, <2>2 DEF Made
  <2>5. Count(inbox'[c], DealEvent) \in Nat
    BY <1>2
  <2>6. Count(inbox'[c], DealEvent) + 1 <= Count(inbox[c], DealEvent)
    BY <1>2
  <2> QED BY <1>0, <2>1, <2>2, <2>3, <2>4, <2>5, <2>6
<1>4. ToCome(c)' \in Nat /\ ToCome(c)' <= ToCome(c) /\ ToCome(c) \in Nat
  BY <1>0, <1>1, <1>2 DEF ToCome
<1>5. NoMoreTo(c)
  BY <1>3, <1>4 DEF NoMoreTo
<1>6. \A d \in Client \ {c} : NoMoreTo(d)
  BY <1>1, <1>2, LostNoMore
<1> QED BY <1>5, <1>6 DEF NoMore

\* Sessions and processes that come and go bring no deals.
LEMMA FrameNoMore ==
  ASSUME IInv, NEW d \in Client,
         \/ (SetupHostCallbacks \/ HostTerminates \/ ReadEnd(d)) /\ UNCHANGED playerVars
         \/ (Join(d) \/ End(d)) /\ UNCHANGED hostVars
         \/ UNCHANGED vars
  PROVE  NoMore
<1> SUFFICES ASSUME NEW c \in Client PROVE NoMoreTo(c)
  BY DEF NoMore
<1>1. UNCHANGED <<outbox, eventQueue, inbox, hand>>
  BY DEF SetupHostCallbacks, HostTerminates, ReadEnd, Join, Connect, End,
         hostVars, playerVars, vars
<1>2. toServer'[c] \in {toServer[c], <<>>}
  BY DEF SetupHostCallbacks, HostTerminates, ReadEnd, Join, Connect, End,
         networkVars, vars, IInv, NetworkInv
<1>3. toClient'[c] \in {toClient[c], <<>>}
  BY DEF SetupHostCallbacks, HostTerminates, ReadEnd, Join, Connect, End,
         networkVars, vars, IInv, NetworkInv
<1> QED BY <1>1, <1>2, <1>3, LostNoMore

\* The game is loaded when nobody has been dealt to and no deal is to come, and
\* everyone is told to load it once.
LEMMA PlayerJoinedLoadGameOnce ==
  ASSUME IInv, SeatInv, DealtOnceInv, PlayerJoinedLoadGame, UNCHANGED playerVars
  PROVE  /\ DealtOnceInv'
         /\ \A c \in Client : ToCome(c)' \in Nat
<1>1. clientCount < ExpectedPlayers /\ ~(clientCount' < ExpectedPlayers)
  BY RulesAssumption DEF PlayerJoinedLoadGame, IInv, HostInv
<1> SUFFICES ASSUME NEW c \in Client
             PROVE  ToCome(c)' \in Nat /\ ToCome(c)' + Made(c)' <= 1
  BY <1>1 DEF DealtOnceInv
<1>0. /\ Count(outbox, Item(c, LoadMessage)) \in Nat
      /\ Count(toClient[c], LoadMessage) \in Nat
      /\ Count(inbox[c], LoadEvent) \in Nat
      /\ Count(toServer[c], RequestOf(c)) \in Nat
      /\ Count(eventQueue, RequestEvent(c)) \in Nat
      /\ Count(toClient[c], DealMessage) \in Nat
      /\ Count(inbox[c], DealEvent) \in Nat
  BY CountsType
<1>2. ToCome(c) + Made(c) = 0 /\ ToCome(c) \in Nat /\ Made(c) \in Nat
  BY <1>1, CountsType DEF DealtOnceInv
<1>3. ToCome(c) = 0 /\ Made(c) = 0
  BY <1>2
<1>4. /\ Count(toClient[c], LoadMessage) = 0
      /\ Count(inbox[c], LoadEvent) = 0
      /\ Count(toServer[c], RequestOf(c)) = 0
      /\ Count(eventQueue, RequestEvent(c)) = 0
      /\ Count(outbox, Item(c, LoadMessage)) = 0
  BY <1>0, <1>3 DEF ToCome
<1>5. /\ UNCHANGED <<toServer, toClient, inbox, hand>>
      /\ eventQueue # <<>> /\ eventQueue' = Tail(eventQueue)
  BY DEF PlayerJoinedLoadGame, Dispatch, networkVars, playerVars
<1>6. Count(eventQueue', RequestEvent(c)) = 0
  <2>1. /\ Count(Tail(eventQueue), RequestEvent(c))
             + (IF Head(eventQueue) \in RequestEvent(c) THEN 1 ELSE 0)
             <= Count(eventQueue, RequestEvent(c))
        /\ Count(Tail(eventQueue), RequestEvent(c)) \in Nat
    BY <1>5, CountTail DEF IInv, HostInv
  <2> QED BY <1>4, <1>5, <2>1
<1>7. /\ Count(outbox', Item(c, LoadMessage)) \in Nat
      /\ Count(outbox', Item(c, LoadMessage)) <= 1
  <2>1. CASE outbox' = outbox
    BY <1>4, <2>1
  <2>2. CASE outbox' = ToEachClient([d \in Client |-> LoadGame(Head(greenDeck))])
    BY <2>2, BroadcastOnce
  <2> QED BY <2>1, <2>2 DEF PlayerJoinedLoadGame
<1>8. Made(c)' = 0
  BY <1>3, <1>5 DEF Made
<1>9. ToCome(c)' \in Nat /\ ToCome(c)' <= 1
  BY <1>4, <1>5, <1>6, <1>7 DEF ToCome
<1> QED BY <1>8, <1>9

\* Other broadcasts load no game.
LEMMA OtherBroadcastNoMore ==
  ASSUME IInv, PlayerJoinedUpdate \/ StartGameMessage, UNCHANGED playerVars
  PROVE  NoMore
<1>1. CASE PlayerJoinedUpdate
  <2> DEFINE msgs == [c \in Client |-> NewConnection(clientCount')]
  <2>1. \A c \in Client : msgs[c] \notin LoadMessage
    BY DEF NewConnection, LoadMessage
  <2>2. /\ Dispatch("PlayerJoined") /\ UNCHANGED <<networkVars, playerVars>>
        /\ outbox' = ToEachClient(msgs)
    BY <1>1 DEF PlayerJoinedUpdate
  <2> HIDE DEF msgs
  <2> QED BY <2>1, <2>2, BroadcastNoMore
<1>2. CASE StartGameMessage
  <2> DEFINE msgs == [c \in Client |-> StartGame(IF c = judge' THEN "Judge" ELSE "Playing")]
  <2>1. \A c \in Client : msgs[c] \notin LoadMessage
    BY DEF StartGame, LoadMessage
  <2>2. /\ Dispatch("GameStarted") /\ UNCHANGED <<networkVars, playerVars>>
        /\ outbox' = ToEachClient(msgs)
    BY <1>2 DEF StartGameMessage
  <2> HIDE DEF msgs
  <2> QED BY <2>1, <2>2, BroadcastNoMore
<1> QED BY <1>1, <1>2

\* Every step but the one that loads the game.
LEMMA NextNoMore ==
  ASSUME IInv, SessionInv, HandsInv, [Next]_vars
  PROVE  NoMore \/ (PlayerJoinedLoadGame /\ UNCHANGED playerVars)
<1>1. CASE Accept /\ UNCHANGED playerVars
  BY <1>1, AcceptNoMore
<1>2. CASE (SetupHostCallbacks \/ HostTerminates) /\ UNCHANGED playerVars
  <2>1. \A c \in Client : NoMore
    BY <1>2, FrameNoMore
  <2> QED BY <2>1 DEF NoMore
<1>3. CASE (PlayerJoinedUpdate \/ StartGameMessage) /\ UNCHANGED playerVars
  BY <1>3, OtherBroadcastNoMore
<1>4. CASE CardRequestEvent /\ UNCHANGED playerVars
  BY <1>4, CardRequestNoMore
<1>5. CASE WriteToClient /\ UNCHANGED playerVars
  BY <1>5, WriteToClientNoMore
<1>6. ASSUME NEW c \in Client, Read(c), UNCHANGED playerVars PROVE NoMore
  BY <1>6, ReadNoMore
<1>7. ASSUME NEW c \in Client,
             \/ ReadEnd(c) /\ UNCHANGED playerVars
             \/ (Join(c) \/ Quit(c) \/ HostLost(c)) /\ UNCHANGED hostVars
      PROVE  NoMore
  BY <1>7, FrameNoMore DEF Quit, HostLost
<1>8. ASSUME NEW c \in Client, ClientRead(c), UNCHANGED hostVars PROVE NoMore
  BY <1>8, ClientReadNoMore
<1>9. ASSUME NEW c \in Client, PlayerJoinedUpdated(c) \/ GameStarted(c), UNCHANGED hostVars
      PROVE  NoMore
  BY <1>9, OtherEventNoMore
<1>10. ASSUME NEW c \in Client, SynchronizeGame(c), UNCHANGED hostVars PROVE NoMore
  BY <1>10, SynchronizeGameNoMore
<1>11. ASSUME NEW c \in Client, CardsResponse(c), UNCHANGED hostVars PROVE NoMore
  BY <1>11, CardsResponseNoMore
<1>12. CASE UNCHANGED vars
  <2>1. \A c \in Client : NoMore
    BY <1>12, FrameNoMore
  <2> QED BY <2>1 DEF NoMore
<1> QED BY <1>1, <1>2, <1>3, <1>4, <1>5, <1>6, <1>7, <1>8, <1>9, <1>10, <1>11, <1>12
        DEF Next

\* Nobody is dealt to twice.
LEMMA NextDealtOnce ==
  ASSUME IInv, SessionInv, SeatInv, HandsInv, DealtOnceInv, [Next]_vars
  PROVE  DealtOnceInv'
<1>1. CASE PlayerJoinedLoadGame /\ UNCHANGED playerVars
  BY <1>1, PlayerJoinedLoadGameOnce
<1>2. CASE NoMore
  <2>1. clientCount' < ExpectedPlayers => clientCount < ExpectedPlayers
    BY CountGrows, RulesAssumption DEF IInv, HostInv
  <2> SUFFICES ASSUME NEW c \in Client
               PROVE  /\ ToCome(c)' + Made(c)' <= 1
                      /\ clientCount' < ExpectedPlayers => ToCome(c)' + Made(c)' = 0
    BY DEF DealtOnceInv
  <2>2. ToCome(c) \in Nat /\ Made(c) \in Nat
    BY CountsType
  <2>3. /\ ToCome(c)' \in Nat /\ Made(c)' \in Nat
        /\ ToCome(c)' + Made(c)' <= ToCome(c) + Made(c)
    BY <1>2 DEF NoMore, NoMoreTo
  <2>4. /\ ToCome(c) + Made(c) <= 1
        /\ clientCount < ExpectedPlayers => ToCome(c) + Made(c) = 0
    BY DEF DealtOnceInv
  <2> QED BY <2>1, <2>2, <2>3, <2>4
<1> QED BY <1>1, <1>2, NextNoMore

\* Initially there is nothing anywhere.
LEMMA InitDealtOnce == Init => SeatInv /\ DealtOnceInv
<1> SUFFICES ASSUME Init PROVE SeatInv /\ DealtOnceInv
  OBVIOUS
<1>1. /\ outbox = <<>> /\ eventQueue = <<>> /\ clients = <<>>
      /\ \A c \in Client : /\ toServer[c] = <<>> /\ toClient[c] = <<>>
                           /\ inbox[c] = <<>> /\ hand[c] = <<>>
  BY DEF Init, HostInit, NetworkInit, PlayerInit
<1>2. ASSUME NEW c \in Client PROVE ToCome(c) = 0 /\ Made(c) = 0
  <2>1. /\ Count(outbox, Item(c, LoadMessage)) = 0
        /\ Count(toClient[c], LoadMessage) = 0
        /\ Count(inbox[c], LoadEvent) = 0
        /\ Count(toServer[c], RequestOf(c)) = 0
        /\ Count(eventQueue, RequestEvent(c)) = 0
        /\ Count(toClient[c], DealMessage) = 0
        /\ Count(inbox[c], DealEvent) = 0
    BY <1>1, CountEmpty
  <2>2. Made(c) = 0
    BY <1>1, <2>1 DEF Made
  <2>3. ToCome(c) = 0
    BY <2>1 DEF ToCome
  <2> QED BY <2>2, <2>3
<1>3. SeatInv
  BY <1>1 DEF SeatInv
<1> QED BY <1>2, <1>3 DEF DealtOnceInv

-----------------------------------------------------------------------------
(* Whole hands *)

\* Who has a deal to come, or one on its way to it, has no cards in its hand.
LEMMA HandStillEmpty ==
  ASSUME IInv, DealtOnceInv, NEW c \in Client,
         \/ ToCome(c) >= 1
         \/ Count(inbox[c], DealEvent) >= 1
         \/ Count(toClient[c], DealMessage) >= 1
  PROVE  hand[c] = <<>>
<1>1. /\ Count(toClient[c], DealMessage) \in Nat
      /\ Count(inbox[c], DealEvent) \in Nat
      /\ ToCome(c) \in Nat
      /\ ToCome(c) + Made(c) <= 1
  BY CountsType DEF DealtOnceInv
<1> QED BY <1>1 DEF Made

\* An event at the front of a queue is counted.
LEMMA ReceiveCounted ==
  ASSUME IInv, NEW c \in Client, NEW event, Receive(c, event)
  PROVE  /\ event = "SynchronizeGame" => ToCome(c) >= 1
         /\ event = "CardReceived" => Count(inbox[c], DealEvent) >= 1
<1>1. /\ Count(outbox, Item(c, LoadMessage)) \in Nat
      /\ Count(toClient[c], LoadMessage) \in Nat
      /\ Count(inbox[c], LoadEvent) \in Nat
      /\ Count(toServer[c], RequestOf(c)) \in Nat
      /\ Count(eventQueue, RequestEvent(c)) \in Nat
      /\ Count(inbox[c], DealEvent) \in Nat
  BY CountsType
<1>2. /\ Count(inbox'[c], LoadEvent) \in Nat
      /\ Count(inbox'[c], DealEvent) \in Nat
      /\ event = "SynchronizeGame" =>
           Count(inbox'[c], LoadEvent) + 1 <= Count(inbox[c], LoadEvent)
      /\ event = "CardReceived" =>
           Count(inbox'[c], DealEvent) + 1 <= Count(inbox[c], DealEvent)
  BY ReceiveCounts
<1>3. event = "SynchronizeGame" => Count(inbox[c], LoadEvent) >= 1
  BY <1>1, <1>2
<1>4. event = "CardReceived" => Count(inbox[c], DealEvent) >= 1
  BY <1>1, <1>2
<1>5. Count(inbox[c], LoadEvent) >= 1 => ToCome(c) >= 1
  BY <1>1 DEF ToCome
<1> QED BY <1>3, <1>4, <1>5

\* A step that leaves a player's messages alone, or takes some of them.
LEMMA LessHands ==
  ASSUME HandsInv,
         outbox' \in Seq(OtherItem), eventQueue' \in Seq(HandEvent),
         \A c \in Client : /\ toServer'[c] \in Seq(HandRequest)
                           /\ toClient'[c] \in Seq(HandMessage)
                           /\ inbox'[c] \in Seq(HandReceived)
  PROVE  HandsInv'
  BY DEF HandsInv, HandRequest, HandEvent, HandMessage, HandReceived, OtherItem,
         OtherMessage, DealMessage

\* A new session brings news of a join, and no cards.
LEMMA AcceptHands ==
  ASSUME IInv, HandsInv, Accept, UNCHANGED playerVars
  PROVE  HandsInv'
<1> DEFINE e == [event |-> "PlayerJoined", msg |-> DontCare]
           S == HandEvent
<1>1. e \in S /\ eventQueue \in Seq(S)
  BY DEF HandEvent, HostEventMessage, HandsInv
<1>2. eventQueue' \in {Append(eventQueue, e), eventQueue}
  BY DEF Accept, ConnectionEvent
<1>3. UNCHANGED <<outbox, toServer, toClient, inbox, hand>>
  BY DEF Accept, playerVars
<1> HIDE DEF e, S
<1>4. eventQueue' \in Seq(S)
  BY <1>1, <1>2, AppendProperties
<1> QED BY <1>3, <1>4, LessHands DEF HandsInv, S

\* What the host reads of a player's stream is what the player asked for.
LEMMA ReadHands ==
  ASSUME IInv, HandsInv, NEW c \in Client, Read(c), UNCHANGED playerVars
  PROVE  HandsInv'
<1>1. PICK k \in ReadSizes(toServer[c]) :
        LET msg == Deserialize(SubSeq(toServer[c], 1, k)).msg
        IN  /\ toServer' = [toServer EXCEPT ![c] = Unread(@, k)]
            /\ eventQueue' = IF msg.rpc \in DOMAIN HostEvent
                             THEN Append(eventQueue, [event |-> HostEvent[msg.rpc],
                                                      msg |-> msg])
                             ELSE eventQueue
  BY DEF Read
<1> DEFINE msg == Deserialize(SubSeq(toServer[c], 1, k)).msg
           e == [event |-> HostEvent[msg.rpc], msg |-> msg]
           S == HandEvent
<1>2. toServer[c] \in Seq(HandRequest) /\ eventQueue \in Seq(S)
  BY DEF HandsInv
<1>3. msg \in HandRequest /\ Unread(toServer[c], k) \in Seq(HandRequest)
  BY <1>2, ReadOfStream
<1>4. e \in S
  BY <1>3 DEF HandRequest, ClientMessage, HostEvent, HandEvent, HostEventMessage
<1>5. eventQueue' \in {Append(eventQueue, e), eventQueue}
  BY <1>1
<1> HIDE DEF e, S
<1>6. eventQueue' \in Seq(S)
  BY <1>2, <1>4, <1>5, AppendProperties
<1>7. \A d \in Client : toServer'[d] \in Seq(HandRequest)
  BY <1>1, <1>3 DEF HandsInv, IInv, NetworkInv
<1>8. UNCHANGED <<outbox, toClient, inbox, hand>>
  BY DEF Read, playerVars
<1> QED BY <1>6, <1>7, <1>8, LessHands DEF HandsInv, S

\* Sessions and processes that come and go.
LEMMA FrameHands ==
  ASSUME IInv, HandsInv, NEW d \in Client,
         \/ (SetupHostCallbacks \/ HostTerminates \/ ReadEnd(d)) /\ UNCHANGED playerVars
         \/ (Join(d) \/ End(d)) /\ UNCHANGED hostVars
         \/ UNCHANGED vars
  PROVE  HandsInv'
<1>1. UNCHANGED <<outbox, eventQueue, inbox, hand>>
  BY DEF SetupHostCallbacks, HostTerminates, ReadEnd, Join, Connect, End,
         hostVars, playerVars, vars
<1>2. \A c \in Client : toServer'[c] \in {toServer[c], <<>>}
  BY DEF SetupHostCallbacks, HostTerminates, ReadEnd, Join, Connect, End,
         networkVars, vars, IInv, NetworkInv
<1>3. \A c \in Client : toClient'[c] \in {toClient[c], <<>>}
  BY DEF SetupHostCallbacks, HostTerminates, ReadEnd, Join, Connect, End,
         networkVars, vars, IInv, NetworkInv
<1>4. \A c \in Client : toServer'[c] \in Seq(HandRequest) /\ toClient'[c] \in Seq(HandMessage)
  BY <1>2, <1>3, EmptySeq DEF HandsInv
<1> QED BY <1>1, <1>4, LessHands DEF HandsInv

\* Cards are not broadcast.
LEMMA BroadcastHands ==
  ASSUME IInv, HandsInv, PlayerJoinedUpdate \/ PlayerJoinedLoadGame \/ StartGameMessage,
         UNCHANGED playerVars
  PROVE  HandsInv'
<1>1. eventQueue # <<>> /\ eventQueue' = Tail(eventQueue)
  BY DEF PlayerJoinedUpdate, PlayerJoinedLoadGame, StartGameMessage, Dispatch
<1>2. eventQueue' \in Seq(HandEvent)
  BY <1>1, HeadAndTail DEF HandsInv
<1>3. UNCHANGED <<toServer, toClient, inbox, hand>>
  BY DEF PlayerJoinedUpdate, PlayerJoinedLoadGame, StartGameMessage, networkVars, playerVars
<1>4. outbox' = outbox \/ \E msgs \in [Client -> OtherMessage] : outbox' = ToEachClient(msgs)
  <2>1. CASE PlayerJoinedUpdate
    <3>1. NewConnection(clientCount') \in OtherMessage
      BY <2>1, MessagesShown DEF PlayerJoinedUpdate, IInv, HostInv, OtherMessage, NewConnection
    <3>2. [c \in Client |-> NewConnection(clientCount')] \in [Client -> OtherMessage]
      BY <3>1
    <3> QED BY <2>1, <3>2 DEF PlayerJoinedUpdate
  <2>2. CASE PlayerJoinedLoadGame /\ greenDeck # <<>>
    <3>1. clientCount < ExpectedPlayers
      BY <2>2, RulesAssumption DEF PlayerJoinedLoadGame, IInv, HostInv
    <3>2. greenDeck = GreenDeck
      BY <2>2, <3>1 DEF IInv, HostInv
    <3>3. LoadGame(Head(greenDeck)) \in OtherMessage
      BY <2>2, <3>2, MessagesShown DEF OtherMessage, LoadGame
    <3>4. [c \in Client |-> LoadGame(Head(greenDeck))] \in [Client -> OtherMessage]
      BY <3>3
    <3> QED BY <2>2, <3>4 DEF PlayerJoinedLoadGame
  <2>3. CASE PlayerJoinedLoadGame /\ greenDeck = <<>>
    BY <2>3 DEF PlayerJoinedLoadGame
  <2>4. CASE StartGameMessage
    <3>1. \A role \in {"Judge", "Playing"} : StartGame(role) \in OtherMessage
      BY MessagesShown DEF OtherMessage, StartGame
    <3>2. [c \in Client |-> StartGame(IF c = judge' THEN "Judge" ELSE "Playing")]
            \in [Client -> OtherMessage]
      BY <3>1
    <3> QED BY <2>4, <3>2 DEF StartGameMessage
  <2> QED BY <2>1, <2>2, <2>3, <2>4
<1>5. outbox' \in Seq(OtherItem)
  <2>1. clients \in Seq(Client)
    BY DEF IInv, HostInv
  <2>2. \A msgs \in [Client -> OtherMessage] :
          ToEachClient(msgs) \in Seq([to : Client, msg : OtherMessage])
    BY <2>1, BroadcastType
  <2> QED BY <1>4, <2>2 DEF OtherItem, HandsInv
<1> QED BY <1>2, <1>3, <1>5, LessHands DEF HandsInv

\* A turn of a broadcast.
LEMMA WriteToClientHands ==
  ASSUME IInv, HandsInv, WriteToClient, UNCHANGED playerVars
  PROVE  HandsInv'
<1>1. outbox \in Seq(OtherItem) /\ outbox # <<>> /\ outbox' = Tail(outbox)
  BY DEF HandsInv, WriteToClient
<1>2. Head(outbox) \in OtherItem /\ outbox' \in Seq(OtherItem)
  BY <1>1, HeadAndTail
<1>3. Head(outbox).to \in Client /\ Head(outbox).msg \in HandMessage
  BY <1>2 DEF OtherItem, OtherMessage, HandMessage
<1>4. toClient \in [Client -> Seq(HandMessage)]
  BY DEF HandsInv, IInv, NetworkInv
<1>5. toClient' \in [Client -> Seq(HandMessage)]
  BY <1>3, <1>4, SentType DEF WriteToClient
<1>6. UNCHANGED <<eventQueue, toServer, inbox, hand>>
  BY DEF WriteToClient, playerVars
<1> QED BY <1>2, <1>5, <1>6, LessHands DEF HandsInv

\* A request is answered with as many cards as it asks for, or not at all.
LEMMA CardRequestHands ==
  ASSUME IInv, HandsInv, CardRequestEvent, UNCHANGED playerVars
  PROVE  HandsInv'
<1> DEFINE e == Head(eventQueue)
           n == IF e.msg.amount > 0 THEN e.msg.amount ELSE 0
<1>1. /\ UNCHANGED <<outbox, toServer, inbox, hand>>
      /\ DealCards(e.msg.id, n)
      /\ eventQueue # <<>> /\ eventQueue' = Tail(eventQueue)
      /\ e.event = "CardRequest"
  BY DEF CardRequestEvent, Dispatch, playerVars
<1>2. e \in HandEvent /\ eventQueue' \in Seq(HandEvent)
  <2>1. eventQueue \in Seq(HandEvent)
    BY DEF HandsInv
  <2> QED BY <1>1, <2>1, HeadAndTail
<1>3. n = HandSize /\ e.msg.id \in Client
  BY <1>1, <1>2, HandSizeAssumption DEF HandEvent, HostEventMessage
<1> HIDE DEF e, n
<1>4. \A c \in Client : toClient'[c] \in Seq(HandMessage)
  <2>1. CASE UNCHANGED toClient
    BY <2>1 DEF HandsInv
  <2>2. CASE n <= Len(redDeck) /\ Deal(e.msg.id, SubSeq(redDeck, 1, n))
    <3>1. redDeck \in Seq(RedCard) /\ n \in Nat /\ Len(redDeck) \in Nat
      BY <1>3, HandSizeAssumption, LenProperties DEF IInv, HostInv
    <3>2. SubSeq(redDeck, 1, n) \in Seq(RedCard) /\ Len(SubSeq(redDeck, 1, n)) = n
      BY <2>2, <3>1, PartOfSeq
    <3>3. PICK tail \in Tails : toClient' = Sent(e.msg.id, DealCard(SubSeq(redDeck, 1, n), tail))
      BY <2>2 DEF Deal
    <3>4. DealCard(SubSeq(redDeck, 1, n), tail) \in HandMessage
      BY <1>3, <3>2, MessagesShown DEF HandMessage, DealCard
    <3>5. toClient \in [Client -> Seq(HandMessage)]
      BY DEF HandsInv, IInv, NetworkInv
    <3> QED BY <1>3, <3>3, <3>4, <3>5, SentType
  <2> QED BY <1>1, <2>1, <2>2 DEF DealCards
<1> QED BY <1>1, <1>2, <1>4, LessHands DEF HandsInv

\* A read of a player.
LEMMA ClientReadHands ==
  ASSUME IInv, HandsInv, NEW c \in Client, ClientRead(c), UNCHANGED hostVars
  PROVE  HandsInv'
<1>1. PICK k \in ReadSizes(toClient[c]) :
        LET read == Deserialize(SubSeq(toClient[c], 1, k))
        IN  /\ toClient' = [toClient EXCEPT ![c] = Unread(@, k)]
            /\ inbox' = [inbox EXCEPT ![c] =
                           Append(@, [event |-> ClientEvent[read.msg.rpc],
                                      msg |-> read.msg,
                                      spoiled |-> read.spoiled])]
  BY DEF ClientRead
<1> DEFINE m == Deserialize(SubSeq(toClient[c], 1, k)).msg
           e == [event |-> ClientEvent[m.rpc], msg |-> m,
                 spoiled |-> Deserialize(SubSeq(toClient[c], 1, k)).spoiled]
<1>2. toClient[c] \in Seq(HandMessage) /\ inbox[c] \in Seq(HandReceived)
  BY DEF HandsInv
<1>3. /\ m \in HandMessage /\ Unread(toClient[c], k) \in Seq(HandMessage)
      /\ Deserialize(SubSeq(toClient[c], 1, k)).spoiled \in BOOLEAN
  BY <1>2, ReadOfStream
<1>4. e \in HandReceived
  BY <1>3, EventOfMessage DEF HandReceived, HandMessage
<1>5. /\ toClient'[c] = Unread(toClient[c], k)
      /\ inbox'[c] = Append(inbox[c], e)
      /\ \A d \in Client \ {c} : inbox'[d] = inbox[d] /\ toClient'[d] = toClient[d]
  BY <1>1 DEF IInv, NetworkInv, PlayerInv
<1> HIDE DEF m, e
<1>6. inbox'[c] \in Seq(HandReceived)
  BY <1>2, <1>4, <1>5, AppendProperties
<1>7. UNCHANGED <<outbox, eventQueue, toServer, hand>>
  BY DEF ClientRead, hostVars
<1> QED BY <1>3, <1>5, <1>6, <1>7, LessHands DEF HandsInv

\* The front of a player's queue.
LEMMA ReceiveHands ==
  ASSUME IInv, HandsInv, NEW c \in Client, NEW event, Receive(c, event)
  PROVE  /\ Head(inbox[c]) \in HandReceived
         /\ \A d \in Client : inbox'[d] \in Seq(HandReceived)
<1>1. /\ inbox[c] \in Seq(HandReceived) /\ inbox[c] # <<>>
      /\ inbox'[c] = Tail(inbox[c])
      /\ \A d \in Client \ {c} : inbox'[d] = inbox[d]
  BY DEF Receive, IInv, PlayerInv, HandsInv
<1>2. Head(inbox[c]) \in HandReceived /\ inbox'[c] \in Seq(HandReceived)
  BY <1>1, HeadAndTail
<1>3. \A d \in Client \ {c} : inbox'[d] \in Seq(HandReceived)
  BY <1>1 DEF HandsInv
<1> QED BY <1>2, <1>3

\* Events that neither ask for cards nor bring some.
LEMMA OtherEventHands ==
  ASSUME IInv, HandsInv, NEW c \in Client, UNCHANGED hostVars,
         PlayerJoinedUpdated(c) \/ GameStarted(c)
  PROVE  HandsInv'
<1>1. UNCHANGED <<outbox, eventQueue, toServer, toClient, hand>>
  BY DEF PlayerJoinedUpdated, GameStarted, networkVars, hostVars
<1>2. PICK event : Receive(c, event)
  BY DEF PlayerJoinedUpdated, GameStarted
<1> QED BY <1>1, <1>2, ReceiveHands, LessHands DEF HandsInv

\* The hand is empty when the cards are asked for, so a whole hand is.
LEMMA SynchronizeGameHands ==
  ASSUME IInv, HandsInv, DealtOnceInv, NEW c \in Client, UNCHANGED hostVars,
         SynchronizeGame(c)
  PROVE  HandsInv'
<1> DEFINE request == CardRequest(c, RequestAmount(c))
           replies == <<request, Ready(c)>>
           S == HandRequest
<1>1. UNCHANGED <<outbox, eventQueue, toClient, hand>> /\ Receive(c, "SynchronizeGame")
  BY DEF SynchronizeGame, hostVars
<1>2. hand[c] = <<>>
  BY <1>1, ReceiveCounted, HandStillEmpty
<1>3. RequestAmount(c) = HandSize
  BY <1>2, HandSizeAssumption DEF RequestAmount
<1>4. request \in S /\ Ready(c) \in S
  BY <1>3, HandSizeAssumption DEF HandRequest, CardRequest, Ready, ClientMessage
<1>5. replies \in Seq(S) /\ toServer[c] \in Seq(S)
  BY <1>4 DEF HandsInv
<1>6. /\ toServer'[c] = toServer[c] \o replies
      /\ \A d \in Client \ {c} : toServer'[d] = toServer[d]
  BY DEF SynchronizeGame, IInv, NetworkInv
<1> HIDE DEF replies, S
<1>7. toServer'[c] \in Seq(S)
  BY <1>5, <1>6, ConcatProperties
<1>8. \A d \in Client : inbox'[d] \in Seq(HandReceived)
  BY <1>1, ReceiveHands
<1> QED BY <1>1, <1>6, <1>7, <1>8, LessHands DEF HandsInv, S

\* A deal comes to an empty hand, which then has what is found in its text.
LEMMA CardsResponseHands ==
  ASSUME IInv, HandsInv, DealtOnceInv, NEW c \in Client, UNCHANGED hostVars,
         CardsResponse(c)
  PROVE  /\ HandsInv'
         /\ Head(inbox[c]) \in HandReceived /\ Head(inbox[c]).event = "CardReceived"
         /\ hand'[c] = CardsIn(TextIn(Head(inbox[c])))
         /\ \A d \in Client \ {c} : hand'[d] = hand[d]
<1>1. /\ UNCHANGED <<outbox, eventQueue, toServer, toClient>>
      /\ Receive(c, "CardReceived")
      /\ \A d \in Client \ {c} : hand'[d] = hand[d]
      /\ hand'[c] = hand[c] \o CardsIn(TextIn(Head(inbox[c])))
  BY DEF CardsResponse, networkVars, hostVars, IInv, PlayerInv
<1>2. hand[c] = <<>>
  BY <1>1, ReceiveCounted, HandStillEmpty
<1>3. /\ Head(inbox[c]) \in HandReceived /\ Head(inbox[c]).event = "CardReceived"
      /\ \A d \in Client : inbox'[d] \in Seq(HandReceived)
  BY <1>1, ReceiveHands, ReceiveType
<1>4. CardsIn(TextIn(Head(inbox[c]))) \in Seq(RedCard \cup {Spoiled})
  <2>1. /\ Head(inbox[c]).msg.cards \in Seq(RedCard)
        /\ Head(inbox[c]).msg.tail \in Tails
    BY <1>3 DEF HandReceived, ShownEvent, ClientEventMessage
  <2> QED BY <2>1, TextInType, CardsInType
<1>5. hand'[c] = CardsIn(TextIn(Head(inbox[c])))
  BY <1>1, <1>2, <1>4, ConcatEmptySeq
<1>6. outbox' \in Seq(OtherItem) /\ eventQueue' \in Seq(HandEvent)
  BY <1>1 DEF HandsInv
<1>7. \A d \in Client : toServer'[d] \in Seq(HandRequest) /\ toClient'[d] \in Seq(HandMessage)
  BY <1>1 DEF HandsInv
<1>8. HandsInv'
  BY <1>3, <1>6, <1>7, LessHands
<1> QED BY <1>1, <1>3, <1>5, <1>8

\* Nobody has cards at first.
LEMMA InitHands == Init => HandsInv
  BY EmptySeq DEF Init, HostInit, NetworkInit, PlayerInit, HandsInv

\* Every step keeps the hands whole.
LEMMA NextHands ==
  ASSUME IInv, DealtOnceInv, HandsInv, [Next]_vars
  PROVE  HandsInv'
<1>1. CASE Accept /\ UNCHANGED playerVars
  BY <1>1, AcceptHands
<1>2. CASE (SetupHostCallbacks \/ HostTerminates) /\ UNCHANGED playerVars
  <2>1. UNCHANGED <<outbox, eventQueue, toServer, toClient, inbox, hand>>
    BY <1>2 DEF SetupHostCallbacks, HostTerminates, networkVars, playerVars
  <2> QED BY <2>1, LessHands DEF HandsInv
<1>3. CASE (PlayerJoinedUpdate \/ PlayerJoinedLoadGame \/ StartGameMessage)
             /\ UNCHANGED playerVars
  BY <1>3, BroadcastHands
<1>4. CASE CardRequestEvent /\ UNCHANGED playerVars
  BY <1>4, CardRequestHands
<1>5. CASE WriteToClient /\ UNCHANGED playerVars
  BY <1>5, WriteToClientHands
<1>6. ASSUME NEW c \in Client, Read(c), UNCHANGED playerVars PROVE HandsInv'
  BY <1>6, ReadHands
<1>7. ASSUME NEW c \in Client,
             \/ ReadEnd(c) /\ UNCHANGED playerVars
             \/ (Join(c) \/ Quit(c) \/ HostLost(c)) /\ UNCHANGED hostVars
      PROVE  HandsInv'
  BY <1>7, FrameHands DEF Quit, HostLost
<1>8. ASSUME NEW c \in Client, ClientRead(c), UNCHANGED hostVars PROVE HandsInv'
  BY <1>8, ClientReadHands
<1>9. ASSUME NEW c \in Client, PlayerJoinedUpdated(c) \/ GameStarted(c), UNCHANGED hostVars
      PROVE  HandsInv'
  BY <1>9, OtherEventHands
<1>10. ASSUME NEW c \in Client, SynchronizeGame(c), UNCHANGED hostVars PROVE HandsInv'
  BY <1>10, SynchronizeGameHands
<1>11. ASSUME NEW c \in Client, CardsResponse(c), UNCHANGED hostVars PROVE HandsInv'
  BY <1>11, CardsResponseHands
<1>12. CASE UNCHANGED vars
  <2>1. UNCHANGED <<outbox, eventQueue, toServer, toClient, inbox, hand>>
    BY <1>12 DEF vars, networkVars, hostVars, playerVars
  <2> QED BY <2>1, LessHands DEF HandsInv
<1> QED BY <1>1, <1>2, <1>3, <1>4, <1>5, <1>6, <1>7, <1>8, <1>9, <1>10, <1>11, <1>12
        DEF Next

-----------------------------------------------------------------------------
(* One hand and no more *)

\* A function over the first n places is a sequence.
LEMMA MapType ==
  ASSUME NEW T, NEW n \in Nat, NEW f \in [1..n -> T]
  PROVE  f \in Seq(T) /\ Len(f) = n
<1>1. f \in Seq(T)
  BY SeqDef
<1>2. DOMAIN f = 1..Len(f) /\ Len(f) \in Nat /\ DOMAIN f = 1..n
  BY <1>1, LenProperties
<1> QED BY <1>1, <1>2

\* Two sequences, one after the other.
LEMMA ConcatPlaces ==
  ASSUME NEW T, NEW s \in Seq(T), NEW t \in Seq(T)
  PROVE  /\ Len(s) \in Nat /\ Len(t) \in Nat
         /\ s \o t \in Seq(T)
         /\ Len(s \o t) = Len(s) + Len(t)
         /\ \A i \in 1..Len(s \o t) : \/ i \in 1..Len(s) /\ (s \o t)[i] = s[i]
                                      \/ /\ i > Len(s) /\ i - Len(s) \in 1..Len(t)
                                         /\ (s \o t)[i] = t[i - Len(s)]
<1>1. /\ Len(s) \in Nat /\ Len(t) \in Nat
      /\ s \o t \in Seq(T)
      /\ Len(s \o t) = Len(s) + Len(t)
      /\ \A i \in 1..Len(s) + Len(t) :
           (s \o t)[i] = IF i <= Len(s) THEN s[i] ELSE t[i - Len(s)]
  BY LenProperties, ConcatProperties
<1> SUFFICES ASSUME NEW i \in 1..Len(s) + Len(t)
             PROVE  \/ i \in 1..Len(s) /\ (s \o t)[i] = s[i]
                    \/ /\ i > Len(s) /\ i - Len(s) \in 1..Len(t)
                       /\ (s \o t)[i] = t[i - Len(s)]
  BY <1>1
<1>2. CASE i <= Len(s)
  BY <1>1, <1>2
<1>3. CASE ~(i <= Len(s))
  BY <1>1, <1>3
<1> QED BY <1>2, <1>3

\* A set of places in one row of n.
LEMMA OneRow ==
  ASSUME NEW S, NEW n \in Nat, NEW x, S \subseteq {x} \X (1..n)
  PROVE  IsFiniteSet(S) /\ Cardinality(S) \in Nat /\ Cardinality(S) <= n
<1> DEFINE Row == {x} \X (1..n)
<1>1. IsFiniteSet({x}) /\ Cardinality({x}) = 1
  BY FS_Singleton
<1>2. IsFiniteSet(1..n) /\ Cardinality(1..n) = n
  BY FS_Interval
<1>3. IsFiniteSet(Row) /\ Cardinality(Row) = n
  <2>1. PICK A, B : A = {x} /\ B = 1..n
    OBVIOUS
  <2>2. /\ IsFiniteSet(A) /\ Cardinality(A) = 1
        /\ IsFiniteSet(B) /\ Cardinality(B) = n
    BY <1>1, <1>2, <2>1
  <2>3. IsFiniteSet(A \X B) /\ Cardinality(A \X B) = 1 * n
    BY <2>2, FS_Product
  <2> QED BY <2>1, <2>3
<1> HIDE DEF Row
<1>4. IsFiniteSet(S) /\ Cardinality(S) <= Cardinality(Row)
  BY <1>3, FS_Subset DEF Row
<1> QED BY <1>3, <1>4, FS_CardinalityType

\* Where the packs of a player are.
LEMMA PackPlaces ==
  ASSUME IInv, NEW c \in Client
  PROVE  /\ Len(inbox[c]) \in Nat /\ Len(toClient[c]) \in Nat
         /\ Len(Packs(c)) = 1 + Len(inbox[c]) + Len(toClient[c])
         /\ \A i \in 1..Len(Packs(c)) :
              \/ i = 1 /\ Packs(c)[i] = hand[c]
              \/ /\ i > 1 /\ i - 1 \in 1..Len(inbox[c])
                 /\ Packs(c)[i] = CardsOf(inbox[c][i - 1].msg)
              \/ /\ i > 1 + Len(inbox[c])
                 /\ i - 1 - Len(inbox[c]) \in 1..Len(toClient[c])
                 /\ Packs(c)[i] = CardsOf(toClient[c][i - 1 - Len(inbox[c])])
<1> DEFINE T == Seq(RedCard \cup {Spoiled})
           a == [i \in 1..Len(inbox[c]) |-> CardsOf(inbox[c][i].msg)]
           b == [i \in 1..Len(toClient[c]) |-> CardsOf(toClient[c][i])]
           h == <<hand[c]>>
<1>1. \A m \in ShownMessage : CardsOf(m) \in T
  <2>1. RedCard \subseteq RedCard \cup {Spoiled}
    OBVIOUS
  <2>2. Seq(RedCard) \subseteq T /\ <<>> \in T
    BY <2>1, SeqMonotonic, EmptySeq
  <2> HIDE DEF T
  <2> QED BY <2>2 DEF ShownMessage, ServerMessage, CardsOf
<1>2. Len(inbox[c]) \in Nat /\ \A i \in 1..Len(inbox[c]) : inbox[c][i].msg \in ShownMessage
  <2>1. inbox[c] \in Seq(ShownEvent)
    BY DEF IInv, PlayerInv
  <2>2. Len(inbox[c]) \in Nat /\ \A i \in 1..Len(inbox[c]) : inbox[c][i] \in ShownEvent
    BY <2>1, LenProperties, ElementOfSeq
  <2> QED BY <2>2 DEF ShownEvent
<1>3. Len(toClient[c]) \in Nat /\ \A i \in 1..Len(toClient[c]) : toClient[c][i] \in ShownMessage
  BY LenProperties, ElementOfSeq DEF IInv, NetworkInv
<1>4. hand[c] \in T
  BY DEF IInv, PlayerInv
<1> HIDE DEF T
<1>5. h \in Seq(T) /\ Len(h) = 1 /\ h[1] = hand[c]
  BY <1>4
<1>6. a \in Seq(T) /\ Len(a) = Len(inbox[c])
  <2>1. a \in [1..Len(inbox[c]) -> T]
    BY <1>1, <1>2
  <2> HIDE DEF a
  <2> QED BY <1>2, <2>1, MapType
<1>7. b \in Seq(T) /\ Len(b) = Len(toClient[c])
  <2>1. b \in [1..Len(toClient[c]) -> T]
    BY <1>1, <1>3
  <2> HIDE DEF b
  <2> QED BY <1>3, <2>1, MapType
<1>8. /\ \A i \in 1..Len(inbox[c]) : a[i] = CardsOf(inbox[c][i].msg)
      /\ \A i \in 1..Len(toClient[c]) : b[i] = CardsOf(toClient[c][i])
      /\ Packs(c) = (h \o a) \o b
  BY DEF Packs
<1> HIDE DEF a, b, h
<1>9. /\ h \o a \in Seq(T) /\ Len(h \o a) = 1 + Len(inbox[c])
      /\ \A i \in 1..Len(h \o a) : \/ i \in 1..Len(h) /\ (h \o a)[i] = h[i]
                                   \/ /\ i > Len(h) /\ i - Len(h) \in 1..Len(a)
                                      /\ (h \o a)[i] = a[i - Len(h)]
  BY <1>5, <1>6, ConcatPlaces
<1>10. /\ Len(Packs(c)) = 1 + Len(inbox[c]) + Len(toClient[c])
       /\ \A i \in 1..Len(Packs(c)) :
            \/ i \in 1..Len(h \o a) /\ Packs(c)[i] = (h \o a)[i]
            \/ /\ i > Len(h \o a) /\ i - Len(h \o a) \in 1..Len(b)
               /\ Packs(c)[i] = b[i - Len(h \o a)]
  <2> DEFINE ha == h \o a
  <2>1. ha \in Seq(T) /\ Len(ha) = 1 + Len(inbox[c]) /\ Packs(c) = ha \o b
    BY <1>8, <1>9
  <2> HIDE DEF ha
  <2>2. /\ Len(ha \o b) = Len(ha) + Len(b)
        /\ \A i \in 1..Len(ha \o b) :
             \/ i \in 1..Len(ha) /\ (ha \o b)[i] = ha[i]
             \/ i > Len(ha) /\ i - Len(ha) \in 1..Len(b) /\ (ha \o b)[i] = b[i - Len(ha)]
    <3>1. ha \in Seq(T) /\ b \in Seq(T)
      BY <1>7, <2>1
    <3> QED BY <3>1, ConcatPlaces
  <2>3. Len(Packs(c)) = 1 + Len(inbox[c]) + Len(toClient[c])
    BY <1>7, <2>1, <2>2
  <2> QED BY <2>1, <2>2, <2>3 DEF ha
<1>11. ASSUME NEW i \in 1..Len(Packs(c))
       PROVE  \/ i = 1 /\ Packs(c)[i] = hand[c]
              \/ /\ i > 1 /\ i - 1 \in 1..Len(inbox[c])
                 /\ Packs(c)[i] = CardsOf(inbox[c][i - 1].msg)
              \/ /\ i > 1 + Len(inbox[c])
                 /\ i - 1 - Len(inbox[c]) \in 1..Len(toClient[c])
                 /\ Packs(c)[i] = CardsOf(toClient[c][i - 1 - Len(inbox[c])])
  <2>1. CASE i \in 1..Len(h \o a) /\ Packs(c)[i] = (h \o a)[i]
    <3>1. \/ i \in 1..Len(h) /\ Packs(c)[i] = h[i]
          \/ /\ i > Len(h) /\ i - Len(h) \in 1..Len(a)
             /\ Packs(c)[i] = a[i - Len(h)]
      BY <1>9, <2>1
    <3>2. CASE i \in 1..Len(h) /\ Packs(c)[i] = h[i]
      <4>1. i = 1
        BY <1>5, <3>2
      <4> QED BY <1>5, <3>2, <4>1
    <3>3. CASE i > Len(h) /\ i - Len(h) \in 1..Len(a) /\ Packs(c)[i] = a[i - Len(h)]
      BY <1>5, <1>6, <1>8, <3>3
    <3> QED BY <3>1, <3>2, <3>3
  <2>2. CASE i > Len(h \o a) /\ i - Len(h \o a) \in 1..Len(b)
               /\ Packs(c)[i] = b[i - Len(h \o a)]
    <3>1. Len(h \o a) = 1 + Len(inbox[c]) /\ Len(inbox[c]) \in Nat
      BY <1>2, <1>9
    <3>2. i - Len(h \o a) = i - 1 - Len(inbox[c])
      BY <1>2, <1>3, <1>10, <3>1
    <3> QED BY <1>7, <1>8, <2>2, <3>1, <3>2
  <2> QED BY <1>10, <2>1, <2>2
<1> QED BY <1>2, <1>3, <1>10, <1>11

\* A pack that has cards is the hand or a deal.
LEMMA PackOfDeal ==
  ASSUME IInv, HandsInv, NEW c \in Client, NEW i \in 1..Len(Packs(c)), Len(Packs(c)[i]) # 0
  PROVE  \/ i = 1 /\ hand[c] # <<>> /\ Packs(c)[i] = hand[c]
         \/ /\ i > 1 /\ i - 1 \in 1..Len(inbox[c])
            /\ inbox[c][i - 1] \in DealEvent
            /\ Packs(c)[i] = inbox[c][i - 1].msg.cards
         \/ /\ i > 1 + Len(inbox[c])
            /\ i - 1 - Len(inbox[c]) \in 1..Len(toClient[c])
            /\ toClient[c][i - 1 - Len(inbox[c])] \in DealMessage
            /\ Packs(c)[i] = toClient[c][i - 1 - Len(inbox[c])].cards
<1>1. CASE i = 1 /\ Packs(c)[i] = hand[c]
  <2>1. hand[c] # <<>>
    BY <1>1
  <2> QED BY <1>1, <2>1
<1>2. ASSUME NEW j \in 1..Len(inbox[c]), Packs(c)[i] = CardsOf(inbox[c][j].msg)
      PROVE  /\ inbox[c][j] \in DealEvent
             /\ Packs(c)[i] = inbox[c][j].msg.cards
  <2>1. inbox[c][j] \in HandReceived
    BY ElementOfSeq DEF HandsInv
  <2>2. inbox[c][j].msg.rpc = "DealCard"
    BY <1>2 DEF CardsOf
  <2> QED BY <1>2, <2>1, <2>2 DEF CardsOf, HandReceived, HandMessage, DealEvent,
                                  ShownEvent, ClientEventMessage
<1>3. ASSUME NEW j \in 1..Len(toClient[c]), Packs(c)[i] = CardsOf(toClient[c][j])
      PROVE  /\ toClient[c][j] \in DealMessage
             /\ Packs(c)[i] = toClient[c][j].cards
  <2>1. toClient[c][j] \in HandMessage
    BY ElementOfSeq DEF HandsInv
  <2>2. toClient[c][j].rpc = "DealCard"
    BY <1>3 DEF CardsOf
  <2> QED BY <1>3, <2>1, <2>2 DEF CardsOf, HandMessage, DealMessage
<1> QED BY <1>1, <1>2, <1>3, PackPlaces

\* There is only one, and then nothing is to come.
LEMMA OnePack ==
  ASSUME IInv, HandsInv, DealtOnceInv, NEW c \in Client,
         NEW i \in 1..Len(Packs(c)), Len(Packs(c)[i]) # 0
  PROVE  /\ ToCome(c) = 0
         /\ \A j \in 1..Len(Packs(c)) : Len(Packs(c)[j]) # 0 => j = i
<1>0. /\ Count(toClient[c], DealMessage) \in Nat
      /\ Count(inbox[c], DealEvent) \in Nat
      /\ ToCome(c) \in Nat
      /\ ToCome(c) + Made(c) <= 1
      /\ Len(inbox[c]) \in Nat
  BY CountsType, PackPlaces DEF DealtOnceInv
<1>1. inbox[c] \in Seq(ShownEvent) /\ toClient[c] \in Seq(ShownMessage)
  BY DEF IInv, NetworkInv, PlayerInv
<1>2. \A k \in 1..Len(inbox[c]) : inbox[c][k] \in DealEvent =>
        /\ Count(inbox[c], DealEvent) >= 1
        /\ Count(inbox[c], DealEvent) <= 1 =>
             \A l \in 1..Len(inbox[c]) : inbox[c][l] \in DealEvent => l = k
  BY <1>1, CountPlaces
<1>3. \A k \in 1..Len(toClient[c]) : toClient[c][k] \in DealMessage =>
        /\ Count(toClient[c], DealMessage) >= 1
        /\ Count(toClient[c], DealMessage) <= 1 =>
             \A l \in 1..Len(toClient[c]) : toClient[c][l] \in DealMessage => l = k
  BY <1>1, CountPlaces
<1>4. ASSUME NEW j \in 1..Len(Packs(c)), Len(Packs(c)[j]) # 0
      PROVE  \/ j = 1 /\ hand[c] # <<>>
             \/ /\ j > 1 /\ j - 1 \in 1..Len(inbox[c])
                /\ inbox[c][j - 1] \in DealEvent
             \/ /\ j > 1 + Len(inbox[c])
                /\ j - 1 - Len(inbox[c]) \in 1..Len(toClient[c])
                /\ toClient[c][j - 1 - Len(inbox[c])] \in DealMessage
  BY <1>4, PackOfDeal
<1>5. CASE hand[c] # <<>>
  <2>1. ToCome(c) = 0 /\ Count(inbox[c], DealEvent) = 0 /\ Count(toClient[c], DealMessage) = 0
    BY <1>0, <1>5 DEF Made
  <2>2. /\ \A k \in 1..Len(inbox[c]) : inbox[c][k] \notin DealEvent
        /\ \A k \in 1..Len(toClient[c]) : toClient[c][k] \notin DealMessage
    BY <1>2, <1>3, <2>1
  <2>3. ASSUME NEW j \in 1..Len(Packs(c)), Len(Packs(c)[j]) # 0 PROVE j = 1
    BY <1>4, <2>2, <2>3
  <2> QED BY <2>1, <2>3
<1>6. CASE hand[c] = <<>> /\ i - 1 \in 1..Len(inbox[c]) /\ inbox[c][i - 1] \in DealEvent
  <2>1. Count(inbox[c], DealEvent) >= 1
    BY <1>2, <1>6
  <2>2. ToCome(c) = 0 /\ Count(inbox[c], DealEvent) <= 1 /\ Count(toClient[c], DealMessage) = 0
    BY <1>0, <1>6, <2>1 DEF Made
  <2>3. /\ \A k \in 1..Len(inbox[c]) : inbox[c][k] \in DealEvent => k = i - 1
        /\ \A k \in 1..Len(toClient[c]) : toClient[c][k] \notin DealMessage
    BY <1>2, <1>3, <1>6, <2>2
  <2>4. ASSUME NEW j \in 1..Len(Packs(c)), Len(Packs(c)[j]) # 0 PROVE j = i
    <3>1. j - 1 = i - 1
      BY <1>4, <1>6, <2>3, <2>4
    <3> QED BY <3>1
  <2> QED BY <2>2, <2>4
<1>7. CASE /\ hand[c] = <<>> /\ i - 1 - Len(inbox[c]) \in 1..Len(toClient[c])
           /\ toClient[c][i - 1 - Len(inbox[c])] \in DealMessage
  <2>0. PICK l \in 1..Len(toClient[c]) : /\ l = i - 1 - Len(inbox[c])
                                         /\ toClient[c][l] \in DealMessage
    BY <1>7
  <2>1. Count(toClient[c], DealMessage) >= 1
    BY <1>3, <2>0
  <2>2. ToCome(c) = 0 /\ Count(toClient[c], DealMessage) <= 1 /\ Count(inbox[c], DealEvent) = 0
    BY <1>0, <1>7, <2>1 DEF Made
  <2>3. \A k \in 1..Len(toClient[c]) : toClient[c][k] \in DealMessage => k = l
    BY <1>3, <2>0, <2>2
  <2>4. \A k \in 1..Len(inbox[c]) : inbox[c][k] \notin DealEvent
    BY <1>2, <2>2
  <2>5. ASSUME NEW j \in 1..Len(Packs(c)), Len(Packs(c)[j]) # 0 PROVE j = i
    <3>1. j - 1 - Len(inbox[c]) = l
      BY <1>4, <1>7, <2>3, <2>4, <2>5
    <3>2. i \in Int /\ j \in Int /\ l \in Int
      OBVIOUS
    <3> QED BY <1>0, <2>0, <3>1, <3>2
  <2> QED BY <2>2, <2>5
<1> QED BY <1>4, <1>5, <1>6, <1>7

\* What a player asks for is one hand, at one place, or nothing.
LEMMA AskedRow ==
  ASSUME IInv, HandsInv, DealtOnceInv, NEW c \in Client
  PROVE  /\ IsFiniteSet(Asked(c)) /\ Cardinality(Asked(c)) \in Nat
         /\ Cardinality(Asked(c)) <= HandSize
         /\ \A p, q \in Asked(c) : p[1] = q[1]
         /\ \A p \in Asked(c) : p = <<p[1], p[2]>> /\ p[2] \in 1..HandSize
         /\ Asked(c) # {} => ToCome(c) > 0
<1> DEFINE T == ClientMessage \cup {DontCare}
           events == [i \in 1..Len(eventQueue) |-> eventQueue[i].msg]
           requests == {i \in 1..Len(Unanswered(c)) : /\ Unanswered(c)[i].rpc = "DealCard"
                                                      /\ Unanswered(c)[i].id = c}
<1>0. /\ Count(outbox, Item(c, LoadMessage)) \in Nat
      /\ Count(toClient[c], LoadMessage) \in Nat
      /\ Count(inbox[c], LoadEvent) \in Nat
      /\ Count(toServer[c], RequestOf(c)) \in Nat
      /\ Count(eventQueue, RequestEvent(c)) \in Nat
      /\ ToCome(c) \in Nat /\ Made(c) \in Nat
      /\ ToCome(c) + Made(c) <= 1
  BY CountsType DEF DealtOnceInv
<1>1. /\ eventQueue \in Seq(HostEventMessage) /\ eventQueue \in Seq(HandEvent)
      /\ toServer[c] \in Seq(ClientMessage) /\ toServer[c] \in Seq(HandRequest)
      /\ Len(eventQueue) \in Nat /\ Len(toServer[c]) \in Nat
  BY LenProperties DEF IInv, HostInv, NetworkInv, HandsInv
<1>2. \A i \in 1..Len(eventQueue) :
        /\ eventQueue[i].msg \in T
        /\ eventQueue[i].msg.rpc = "DealCard" /\ eventQueue[i].msg.id = c =>
             eventQueue[i] \in RequestEvent(c) /\ eventQueue[i].msg.amount = HandSize
  <2> SUFFICES ASSUME NEW i \in 1..Len(eventQueue)
               PROVE  /\ eventQueue[i].msg \in T
                      /\ eventQueue[i].msg.rpc = "DealCard" /\ eventQueue[i].msg.id = c =>
                           /\ eventQueue[i] \in RequestEvent(c)
                           /\ eventQueue[i].msg.amount = HandSize
    OBVIOUS
  <2>1. eventQueue[i] \in HandEvent /\ eventQueue[i] \in HostEventMessage
    BY <1>1, ElementOfSeq
  <2> HIDE DEF events, requests
  <2> QED BY <2>1 DEF HandEvent, HostEventMessage, RequestEvent, ClientMessage, DontCare
<1>3. \A i \in 1..Len(toServer[c]) :
        /\ toServer[c][i] \in T
        /\ toServer[c][i].rpc = "DealCard" /\ toServer[c][i].id = c =>
             toServer[c][i] \in RequestOf(c) /\ toServer[c][i].amount = HandSize
  <2>1. \A i \in 1..Len(toServer[c]) : toServer[c][i] \in HandRequest
    BY <1>1, ElementOfSeq
  <2> QED BY <2>1 DEF HandRequest, RequestOf
<1>4. events \in Seq(T) /\ Len(events) = Len(eventQueue)
  <2>1. events \in [1..Len(eventQueue) -> T]
    BY <1>2
  <2> HIDE DEF events
  <2> QED BY <1>1, <2>1, MapType
<1>5. toServer[c] \in Seq(T)
  <2>1. ClientMessage \subseteq T
    OBVIOUS
  <2> HIDE DEF T
  <2> QED BY <1>1, <2>1, SeqMonotonic
<1>6. /\ \A i \in 1..Len(eventQueue) : events[i] = eventQueue[i].msg
      /\ Unanswered(c) = toServer[c] \o events
  BY DEF Unanswered
<1> HIDE DEF events, T
<1>7. \A i \in 1..Len(Unanswered(c)) :
        \/ i \in 1..Len(toServer[c]) /\ Unanswered(c)[i] = toServer[c][i]
        \/ /\ i > Len(toServer[c]) /\ i - Len(toServer[c]) \in 1..Len(events)
           /\ Unanswered(c)[i] = events[i - Len(toServer[c])]
  BY <1>4, <1>5, <1>6, ConcatPlaces
<1>8. \A i \in requests :
        \/ i \in 1..Len(toServer[c]) /\ toServer[c][i] \in RequestOf(c)
             /\ Unanswered(c)[i].amount = HandSize
        \/ /\ i > Len(toServer[c]) /\ i - Len(toServer[c]) \in 1..Len(eventQueue)
           /\ eventQueue[i - Len(toServer[c])] \in RequestEvent(c)
           /\ Unanswered(c)[i].amount = HandSize
  <2> SUFFICES ASSUME NEW i \in requests
               PROVE  \/ i \in 1..Len(toServer[c]) /\ toServer[c][i] \in RequestOf(c)
                           /\ Unanswered(c)[i].amount = HandSize
                      \/ /\ i > Len(toServer[c])
                         /\ i - Len(toServer[c]) \in 1..Len(eventQueue)
                         /\ eventQueue[i - Len(toServer[c])] \in RequestEvent(c)
                         /\ Unanswered(c)[i].amount = HandSize
    OBVIOUS
  <2>1. /\ i \in 1..Len(Unanswered(c))
        /\ Unanswered(c)[i].rpc = "DealCard" /\ Unanswered(c)[i].id = c
    OBVIOUS
  <2> HIDE DEF requests
  <2>2. CASE i \in 1..Len(toServer[c]) /\ Unanswered(c)[i] = toServer[c][i]
    BY <1>3, <2>1, <2>2
  <2>3. CASE /\ i > Len(toServer[c]) /\ i - Len(toServer[c]) \in 1..Len(events)
             /\ Unanswered(c)[i] = events[i - Len(toServer[c])]
    <3>1. PICK k \in 1..Len(eventQueue) : /\ k = i - Len(toServer[c])
                                         /\ Unanswered(c)[i] = events[k]
      BY <1>4, <2>3
    <3>2. Unanswered(c)[i] = eventQueue[k].msg
      BY <1>6, <3>1
    <3> QED BY <1>2, <2>1, <2>3, <3>1, <3>2
  <2> QED BY <1>7, <2>1, <2>2, <2>3
<1>9. /\ \A i \in 1..Len(toServer[c]) : toServer[c][i] \in RequestOf(c) =>
           /\ Count(toServer[c], RequestOf(c)) >= 1
           /\ Count(toServer[c], RequestOf(c)) <= 1 =>
                \A j \in 1..Len(toServer[c]) : toServer[c][j] \in RequestOf(c) => j = i
      /\ \A i \in 1..Len(eventQueue) : eventQueue[i] \in RequestEvent(c) =>
           /\ Count(eventQueue, RequestEvent(c)) >= 1
           /\ Count(eventQueue, RequestEvent(c)) <= 1 =>
                \A j \in 1..Len(eventQueue) : eventQueue[j] \in RequestEvent(c) => j = i
  BY <1>1, CountPlaces
<1>10. Count(toServer[c], RequestOf(c)) + Count(eventQueue, RequestEvent(c)) <= ToCome(c)
  BY <1>0 DEF ToCome
<1>11. ToCome(c) <= 1
  BY <1>0
<1>12. Asked(c) = UNION {{i} \X (1..Unanswered(c)[i].amount) : i \in requests}
  BY DEF Asked
<1> HIDE DEF requests
<1>13. CASE requests = {}
  <2>1. Asked(c) = {}
    BY <1>12, <1>13
  <2> QED BY <2>1, FS_EmptySet, HandSizeAssumption
<1>14. CASE requests # {}
  <2>1. PICK i : i \in requests
    BY <1>14
  <2>2. \A j \in requests : j = i
    <3> SUFFICES ASSUME NEW j \in requests PROVE j = i
      OBVIOUS
    <3>1. CASE i \in 1..Len(toServer[c]) /\ toServer[c][i] \in RequestOf(c)
      <4>1. Count(toServer[c], RequestOf(c)) >= 1
        BY <1>9, <3>1
      <4>2. Count(toServer[c], RequestOf(c)) <= 1 /\ ~(Count(eventQueue, RequestEvent(c)) >= 1)
        BY <1>0, <1>10, <1>11, <4>1
      <4> QED BY <1>8, <1>9, <3>1, <4>2
    <3>2. CASE /\ i > Len(toServer[c]) /\ i - Len(toServer[c]) \in 1..Len(eventQueue)
               /\ eventQueue[i - Len(toServer[c])] \in RequestEvent(c)
      <4>1. Count(eventQueue, RequestEvent(c)) >= 1
        BY <1>9, <3>2
      <4>2. Count(eventQueue, RequestEvent(c)) <= 1 /\ ~(Count(toServer[c], RequestOf(c)) >= 1)
        BY <1>0, <1>10, <1>11, <4>1
      <4>3. /\ j > Len(toServer[c]) /\ j - Len(toServer[c]) \in 1..Len(eventQueue)
            /\ eventQueue[j - Len(toServer[c])] \in RequestEvent(c)
        BY <1>8, <1>9, <4>2
      <4>4. j - Len(toServer[c]) = i - Len(toServer[c])
        BY <1>9, <3>2, <4>2, <4>3
      <4>5. i \in Int /\ j \in Int
        BY <2>1 DEF requests
      <4> QED BY <1>1, <4>4, <4>5
    <3> QED BY <1>8, <2>1, <3>1, <3>2
  <2>3. Unanswered(c)[i].amount = HandSize
    BY <1>8, <2>1
  <2>4. Asked(c) = {i} \X (1..HandSize)
    BY <1>12, <2>1, <2>2, <2>3
  <2>5. ToCome(c) > 0
    <3>1. \/ Count(toServer[c], RequestOf(c)) >= 1
          \/ Count(eventQueue, RequestEvent(c)) >= 1
      BY <1>8, <1>9, <2>1
    <3> QED BY <1>0, <1>10, <3>1
  <2>6. IsFiniteSet(Asked(c)) /\ Cardinality(Asked(c)) \in Nat /\ Cardinality(Asked(c)) <= HandSize
    BY <2>4, OneRow, HandSizeAssumption
  <2> QED BY <2>4, <2>5, <2>6
<1> QED BY <1>13, <1>14

\* What is known of the players' cards, whatever the deck is.
CardsInv == SessionInv /\ OnceInv /\ SeatInv /\ DealtOnceInv /\ HandsInv

\* One deal for each player, of a whole hand, always.
LEMMA CardsInvAlways == Spec => [](IInv /\ CardsInv)
<1>1. Init => CardsInv
  BY InitSession, InitOnce, InitDealtOnce, InitHands DEF CardsInv
<1>2. IInv /\ CardsInv /\ [Next]_vars => CardsInv'
  BY NextSession, NextOnce, NextSeat, NextDealtOnce, NextHands DEF CardsInv
<1> QED BY <1>1, <1>2, IInvAlways, PTL DEF Spec

-----------------------------------------------------------------------------
(* The deck lasts *)

\* What a request does to the deck and to the streams.
LEMMA CardRequestStep ==
  ASSUME IInv, HandsInv, CardRequestEvent
  PROVE  /\ Head(eventQueue).msg.id \in Client
         /\ \/ UNCHANGED <<redDeck, toClient, dealt>>
            \/ /\ HandSize <= Len(redDeck)
               /\ redDeck' = SubSeq(redDeck, HandSize + 1, Len(redDeck))
               /\ dealt' = [dealt EXCEPT ![Head(eventQueue).msg.id] =
                              @ \o SubSeq(redDeck, 1, HandSize)]
               /\ \E tail \in Tails :
                    toClient' = Sent(Head(eventQueue).msg.id,
                                     DealCard(SubSeq(redDeck, 1, HandSize), tail))
<1> DEFINE e == Head(eventQueue)
           n == IF e.msg.amount > 0 THEN e.msg.amount ELSE 0
<1>1. /\ DealCards(e.msg.id, n)
      /\ eventQueue # <<>>
      /\ e.event = "CardRequest"
  BY DEF CardRequestEvent, Dispatch
<1>2. e \in HandEvent
  <2>1. eventQueue \in Seq(HandEvent)
    BY DEF HandsInv
  <2> QED BY <1>1, <2>1, HeadAndTail
<1>3. n = HandSize /\ e.msg.id \in Client
  BY <1>1, <1>2, HandSizeAssumption DEF HandEvent, HostEventMessage
<1> HIDE DEF n
<1> QED BY <1>1, <1>3 DEF DealCards, Deal

\* The deck changes only when a request is answered, and so does what was dealt.
LEMMA DeckKept ==
  ASSUME [Next]_vars, ~(CardRequestEvent /\ UNCHANGED playerVars)
  PROVE  redDeck' = redDeck /\ dealt' = dealt
<1>1. CASE UNCHANGED <<redDeck, dealt>>
  BY <1>1
<1>2. CASE Accept \/ SetupHostCallbacks \/ PlayerJoinedUpdate \/ PlayerJoinedLoadGame
           \/ StartGameMessage \/ WriteToClient \/ HostTerminates
           \/ \E c \in Client : Read(c) \/ ReadEnd(c)
  BY <1>2 DEF Accept, SetupHostCallbacks, PlayerJoinedUpdate, PlayerJoinedLoadGame,
              StartGameMessage, WriteToClient, HostTerminates, Read, ReadEnd
<1>3. CASE UNCHANGED hostVars
  BY <1>3 DEF hostVars
<1>4. CASE UNCHANGED vars
  BY <1>4 DEF vars, hostVars
<1> QED BY <1>2, <1>3, <1>4 DEF Next

\* Nobody comes to wait for cards; who is answered waits no more.
LEMMA WaitingShrinks ==
  ASSUME IInv, CardsInv, [Next]_vars
  PROVE  /\ Waiting' \subseteq Waiting
         /\ CardRequestEvent /\ UNCHANGED playerVars =>
              /\ Head(eventQueue).msg.id \in Waiting
              /\ Head(eventQueue).msg.id \notin Waiting'
<1>1. clientCount' < ExpectedPlayers => clientCount < ExpectedPlayers
  BY CountGrows, RulesAssumption DEF IInv, HostInv
<1>2. CASE PlayerJoinedLoadGame /\ UNCHANGED playerVars
  <2>1. clientCount < ExpectedPlayers
    BY <1>2, RulesAssumption DEF PlayerJoinedLoadGame, IInv, HostInv
  <2>2. ~CardRequestEvent
    BY <1>2 DEF PlayerJoinedLoadGame, CardRequestEvent, Dispatch
  <2> QED BY <2>1, <2>2 DEF Waiting
<1>3. CASE NoMore
  <2>1. \A c \in Client : ToCome(c) \in Nat /\ ToCome(c)' \in Nat /\ ToCome(c)' <= ToCome(c)
    BY <1>3, CountsType DEF NoMore, NoMoreTo
  <2>2. Waiting' \subseteq Waiting
    BY <1>1, <2>1 DEF Waiting
  <2>3. ASSUME CardRequestEvent, UNCHANGED playerVars
        PROVE  /\ Head(eventQueue).msg.id \in Waiting
               /\ Head(eventQueue).msg.id \notin Waiting'
    <3>1. PICK c \in Client : c = Head(eventQueue).msg.id
      BY <2>3, CardRequestStep DEF CardsInv
    <3>2. ToCome(c)' + 1 <= ToCome(c)
      BY <2>3, <3>1, CardRequestNoMore
    <3>3. /\ ToCome(c) + Made(c) <= 1 /\ Made(c) \in Nat
          /\ clientCount < ExpectedPlayers => ToCome(c) + Made(c) = 0
      BY CountsType DEF CardsInv, DealtOnceInv
    <3>4. ToCome(c) > 0 /\ ToCome(c)' = 0 /\ ~(clientCount < ExpectedPlayers)
      BY <2>1, <3>2, <3>3
    <3>5. c \in Waiting
      BY <3>4 DEF Waiting
    <3>6. c \notin Waiting'
      BY <1>1, <3>4 DEF Waiting
    <3> QED BY <3>1, <3>5, <3>6
  <2> QED BY <2>2, <2>3
<1> QED BY <1>2, <1>3, NextNoMore DEF CardsInv

\* Who is dealt to waits for its cards, and has been dealt nothing before.
LEMMA NextRecord ==
  ASSUME IInv, CardsInv, RecordInv, [Next]_vars
  PROVE  RecordInv'
<1>1. Waiting' \subseteq Waiting
  BY WaitingShrinks
<1>2. CASE dealt' = dealt
  BY <1>1, <1>2 DEF RecordInv
<1>3. CASE /\ CardRequestEvent /\ UNCHANGED playerVars
           /\ HandSize <= Len(redDeck)
           /\ dealt' = [dealt EXCEPT ![Head(eventQueue).msg.id] =
                          @ \o SubSeq(redDeck, 1, HandSize)]
  <2>1. PICK d : d = Head(eventQueue).msg.id
    OBVIOUS
  <2>2. d \in Client /\ d \in Waiting /\ d \notin Waiting'
    BY <1>3, <2>1, WaitingShrinks DEF Waiting
  <2>3. PICK first : first = SubSeq(redDeck, 1, HandSize)
    OBVIOUS
  <2>4. first \in Seq(RedCard) /\ Len(first) = HandSize
    <3>1. /\ Len(redDeck) \in Nat /\ HandSize \in Nat
          /\ \A i \in 1..Len(redDeck) : redDeck[i] \in RedCard
      BY LenProperties, ElementOfSeq, HandSizeAssumption DEF IInv, HostInv
    <3> QED BY <1>3, <2>3, <3>1, SubSeqProperties
  <2>5. dealt[d] = <<>>
    BY <2>2 DEF RecordInv
  <2>6. dealt[d] \o first = first
    BY <2>4, <2>5, ConcatEmptySeq
  <2>7. dealt \in [Client -> Seq(RedCard)]
    BY DEF IInv, HostInv
  <2>8. dealt'[d] = first /\ \A c \in Client \ {d} : dealt'[c] = dealt[c]
    BY <1>3, <2>1, <2>2, <2>3, <2>6, <2>7
  <2> QED BY <1>1, <2>2, <2>4, <2>8 DEF RecordInv
<1> QED BY <1>2, <1>3, DeckKept, CardRequestStep DEF CardsInv

\* What the host has dealt to a player and what the player has still asked for is never
\* more than a hand, although the player counts the cards that have arrived when it asks,
\* not those it has asked for, and whatever the cards turn into on their way.
THEOREM DealtWithinLimitHolds == Spec => []DealtWithinLimit
<1>1. Init => RecordInv
  <2> SUFFICES ASSUME Init PROVE RecordInv
    OBVIOUS
  <2>1. \A c \in Client : dealt[c] = <<>>
    BY DEF Init, HostInit
  <2> QED BY <2>1, EmptySeq DEF RecordInv
<1>2. IInv /\ CardsInv /\ RecordInv /\ [Next]_vars => RecordInv'
  BY NextRecord
<1>3. IInv /\ CardsInv /\ RecordInv => DealtWithinLimit
  <2> SUFFICES ASSUME IInv, CardsInv, RecordInv, NEW c \in Client
               PROVE  Len(dealt[c]) + Cardinality(Asked(c)) <= HandSize
    BY DEF DealtWithinLimit
  <2>1. /\ Cardinality(Asked(c)) \in Nat /\ Cardinality(Asked(c)) <= HandSize
        /\ Asked(c) # {} => ToCome(c) > 0
    BY AskedRow, CountsType DEF CardsInv
  <2>2. CASE Asked(c) = {}
    <3>1. Cardinality(Asked(c)) = 0
      BY <2>2, FS_EmptySet
    <3>2. Len(dealt[c]) = 0 \/ Len(dealt[c]) = HandSize
      BY DEF RecordInv
    <3> QED BY <3>1, <3>2, HandSizeAssumption
  <2>3. CASE Asked(c) # {}
    <3>1. c \in Waiting
      BY <2>1, <2>3 DEF Waiting
    <3>2. dealt[c] = <<>>
      BY <3>1 DEF RecordInv
    <3>3. Len(dealt[c]) = 0
      BY <3>2
    <3> QED BY <2>1, <3>3
  <2> QED BY <2>2, <2>3
<1> QED BY <1>1, <1>2, <1>3, CardsInvAlways, PTL DEF Spec

\* There are never fewer cards in the deck than those who wait need.
LEMMA NextDeck ==
  ASSUME IsFiniteSet(Client), IInv, CardsInv, DeckInv, [Next]_vars
  PROVE  DeckInv'
<1>1. /\ Waiting' \subseteq Waiting
      /\ IsFiniteSet(Waiting) /\ Cardinality(Waiting) \in Nat
      /\ IsFiniteSet(Waiting') /\ Cardinality(Waiting') \in Nat
  <2>1. Waiting \subseteq Client /\ Waiting' \subseteq Client
    BY DEF Waiting
  <2>2. IsFiniteSet(Waiting) /\ IsFiniteSet(Waiting')
    BY <2>1, FS_Subset
  <2> QED BY <2>2, WaitingShrinks, FS_CardinalityType
<1>2. Len(redDeck) \in Nat /\ HandSize \in Nat
  BY LenProperties, HandSizeAssumption DEF IInv, HostInv
<1>3. HandSize * Cardinality(Waiting) <= Len(redDeck)
  BY DEF DeckInv
<1>4. CASE redDeck' = redDeck
  <2>1. Cardinality(Waiting') <= Cardinality(Waiting)
    BY <1>1, FS_Subset
  <2>2. \A k, l \in Nat : k <= l => HandSize * k <= HandSize * l
    BY <1>2
  <2>3. HandSize * Cardinality(Waiting') <= HandSize * Cardinality(Waiting)
    BY <1>1, <2>1, <2>2
  <2>4. /\ HandSize * Cardinality(Waiting') \in Nat
        /\ HandSize * Cardinality(Waiting) \in Nat
    BY <1>1, <1>2
  <2>5. HandSize * Cardinality(Waiting') <= Len(redDeck)
    BY <1>2, <1>3, <2>3, <2>4
  <2> QED BY <1>4, <2>5 DEF DeckInv
<1>5. CASE /\ CardRequestEvent /\ UNCHANGED playerVars
           /\ HandSize <= Len(redDeck)
           /\ redDeck' = SubSeq(redDeck, HandSize + 1, Len(redDeck))
  <2> DEFINE c == Head(eventQueue).msg.id
             rest == Waiting \ {c}
  <2>1. c \in Waiting /\ Waiting' \subseteq rest
    BY <1>1, <1>5, WaitingShrinks
  <2>2. /\ IsFiniteSet(rest)
        /\ Cardinality(rest) = Cardinality(Waiting) - 1
    BY <1>1, <2>1, FS_RemoveElement
  <2> HIDE DEF rest, c
  <2>3. Cardinality(Waiting') <= Cardinality(Waiting) - 1
    BY <2>1, <2>2, FS_Subset
  <2>4. \A k, l \in Nat : k <= l - 1 => HandSize * k <= HandSize * l - HandSize
    BY <1>2
  <2>5. HandSize * Cardinality(Waiting') <= HandSize * Cardinality(Waiting) - HandSize
    BY <1>1, <2>3, <2>4
  <2>6. /\ HandSize * Cardinality(Waiting') \in Nat
        /\ HandSize * Cardinality(Waiting) \in Nat
    BY <1>1, <1>2
  <2>7. Len(redDeck') = Len(redDeck) - HandSize
    BY <1>2, <1>5 DEF IInv, HostInv
  <2>8. HandSize * Cardinality(Waiting') <= Len(redDeck')
    BY <1>2, <1>3, <2>5, <2>6, <2>7
  <2> QED BY <2>8 DEF DeckInv
<1>6. redDeck' = redDeck \/
        /\ CardRequestEvent /\ UNCHANGED playerVars
        /\ HandSize <= Len(redDeck)
        /\ redDeck' = SubSeq(redDeck, HandSize + 1, Len(redDeck))
  BY DeckKept, CardRequestStep DEF CardsInv
<1> QED BY <1>4, <1>5, <1>6

\* The cards asked for are at different places of the hands of those who wait.
LEMMA AskedOfWaiting ==
  ASSUME IsFiniteSet(Client), IInv, CardsInv, DeckInv
  PROVE  DeckSuffices
<1> DEFINE AllAsked == UNION {{c} \X Asked(c) : c \in Client}
           Places == Waiting \X (1..HandSize)
           place == [p \in AllAsked |-> <<p[1], p[2][2]>>]
<1>0. HandSize \in Nat /\ Len(redDeck) \in Nat
  BY LenProperties, HandSizeAssumption DEF IInv, HostInv
<1>1. ASSUME NEW p \in AllAsked
      PROVE  /\ p[1] \in Waiting /\ p[2] \in Asked(p[1])
             /\ p = <<p[1], <<p[2][1], p[2][2]>>>>
             /\ p[2][2] \in 1..HandSize
  <2>1. PICK c \in Client : p \in {c} \X Asked(c)
    OBVIOUS
  <2>2. p = <<c, p[2]>> /\ p[1] = c /\ p[2] \in Asked(c)
    BY <2>1
  <2>3. /\ p[2] = <<p[2][1], p[2][2]>> /\ p[2][2] \in 1..HandSize
        /\ ToCome(c) > 0
    BY <2>2, AskedRow DEF CardsInv
  <2>4. c \in Waiting
    BY <2>3 DEF Waiting
  <2> QED BY <2>2, <2>3, <2>4
<1>2. \A c \in Client : \A x, y \in Asked(c) : x[1] = y[1]
  BY AskedRow DEF CardsInv
<1>3. \A p, q \in AllAsked : place[p] = place[q] => p = q
  <2> SUFFICES ASSUME NEW p \in AllAsked, NEW q \in AllAsked,
                      p[1] = q[1], p[2][2] = q[2][2]
               PROVE  p = q
    OBVIOUS
  <2>1. p[1] \in Client /\ p[2] \in Asked(p[1]) /\ q[2] \in Asked(p[1])
    BY <1>1 DEF Waiting
  <2>2. p[2][1] = q[2][1]
    BY <1>2, <2>1
  <2>3. p = <<p[1], <<p[2][1], p[2][2]>>>> /\ q = <<q[1], <<q[2][1], q[2][2]>>>>
    BY <1>1
  <2> HIDE DEF AllAsked
  <2> QED BY <2>2, <2>3
<1>4. place \in [AllAsked -> Places]
  BY <1>1
<1>5. IsFiniteSet(Waiting) /\ Cardinality(Waiting) \in Nat
  BY FS_Subset, FS_CardinalityType DEF Waiting
<1>6. IsFiniteSet(1..HandSize) /\ Cardinality(1..HandSize) = HandSize
  BY <1>0, FS_Interval
<1>7. IsFiniteSet(Places) /\ Cardinality(Places) = Cardinality(Waiting) * HandSize
  BY <1>5, <1>6, FS_Product
<1> HIDE DEF AllAsked, Places, place
<1>8. place \in Injection(AllAsked, Places)
  BY <1>3, <1>4, Fun_IsInj
<1>9. IsFiniteSet(AllAsked) /\ Cardinality(AllAsked) <= Cardinality(Places)
  BY <1>7, <1>8, FS_Injection
<1>10. Cardinality(AllAsked) \in Nat
  BY <1>9, FS_CardinalityType
<1>11. Cardinality(Waiting) * HandSize = HandSize * Cardinality(Waiting)
  BY <1>0, <1>5
<1>12. HandSize * Cardinality(Waiting) \in Nat
  BY <1>0, <1>5
<1>13. Cardinality(AllAsked) <= Len(redDeck)
  BY <1>0, <1>7, <1>9, <1>10, <1>11, <1>12 DEF DeckInv
<1> QED BY <1>13 DEF DeckSuffices, AllAsked

\* If there is a hand for every client in the deck, it never runs out, whatever is
\* asked for and whatever is lost: deal_cards never takes a card from an empty one.
THEOREM DeckSufficesHolds ==
  ASSUME IsFiniteSet(Client), ~MissingFiles,
         Len(RedDeck) >= HandSize * Cardinality(Client)
  PROVE  Spec => []DeckSuffices
<1>1. Init => DeckInv
  <2> SUFFICES ASSUME Init PROVE DeckInv
    OBVIOUS
  <2>1. redDeck = RedDeck /\ clientCount = 0
    BY DEF Init, HostInit
  <2>2. Waiting = Client
    BY <2>1, RulesAssumption DEF Waiting
  <2> QED BY <2>1, <2>2 DEF DeckInv
<1>2. IInv /\ CardsInv /\ DeckInv /\ [Next]_vars => DeckInv'
  BY NextDeck
<1>3. IInv /\ CardsInv /\ DeckInv => DeckSuffices
  BY AskedOfWaiting
<1> QED BY <1>1, <1>2, <1>3, CardsInvAlways, PTL DEF Spec

-----------------------------------------------------------------------------
(* Every card has one owner *)

\* The host answers c with the first cards of the deck.
Deals(c) ==
  /\ CardRequestEvent /\ UNCHANGED playerVars
  /\ c = Head(eventQueue).msg.id
  /\ HandSize <= Len(redDeck)
  /\ redDeck' = SubSeq(redDeck, HandSize + 1, Len(redDeck))
DealtNow(tail) == DealCard(SubSeq(redDeck, 1, HandSize), tail)

\* A message that comes to c for the first time is one it is dealt.
Comes(c, M) ==
  Carries(c, M)' => Carries(c, M) \/ (Deals(c) /\ \E tail \in Tails : DealtNow(tail) \in M)

\* What is left of a stream after a read was in it before, and so was what is read.
LEMMA UnreadHas ==
  ASSUME NEW S, NEW q \in Seq(S), NEW k \in ReadSizes(q), NEW M
  PROVE  /\ Has(Unread(q, k), M) => Has(q, M)
         /\ Deserialize(SubSeq(q, 1, k)).msg \in M => Has(q, M)
<1>1. Len(q) \in Nat /\ 1 \in 1..Len(q) /\ k \in 1..Len(q)
  BY LenProperties DEF ReadSizes
<1>2. Head(SubSeq(q, 1, k)) = q[1]
  BY <1>1, HeadTailOfSubSeq
<1>3. Deserialize(SubSeq(q, 1, k)).msg \in M => Has(q, M)
  BY <1>1, <1>2 DEF Deserialize, Has
<1>4. \A i \in k + 1 .. Len(q) : q[i] \in S
  BY <1>1, ElementOfSeq
<1>5. /\ Len(Unread(q, k)) = Len(q) - k
      /\ \A i \in 1..Len(q) - k : Unread(q, k)[i] = q[k + i]
  BY <1>1, <1>4, SubSeqProperties DEF Unread
<1>6. \A i \in 1..Len(Unread(q, k)) : Unread(q, k)[i] = q[k + i] /\ k + i \in 1..Len(q)
  BY <1>1, <1>5
<1> QED BY <1>3, <1>6 DEF Has

\* A read of a player takes a message from its stream to its queue.
LEMMA ClientReadComes ==
  ASSUME IInv, NEW d \in Client, ClientRead(d), NEW c \in Client, NEW M
  PROVE  Carries(c, M)' => Carries(c, M)
<1>1. PICK k \in ReadSizes(toClient[d]) :
        LET read == Deserialize(SubSeq(toClient[d], 1, k))
        IN  /\ toClient' = [toClient EXCEPT ![d] = Unread(@, k)]
            /\ inbox' = [inbox EXCEPT ![d] =
                           Append(@, [event |-> ClientEvent[read.msg.rpc],
                                      msg |-> read.msg,
                                      spoiled |-> read.spoiled])]
  BY DEF ClientRead
<1> DEFINE m == Deserialize(SubSeq(toClient[d], 1, k)).msg
           e == [event |-> ClientEvent[m.rpc], msg |-> m,
                 spoiled |-> Deserialize(SubSeq(toClient[d], 1, k)).spoiled]
<1>2. toClient[d] \in Seq(ShownMessage) /\ inbox[d] \in Seq(ShownEvent)
  BY DEF IInv, NetworkInv, PlayerInv
<1>3. m \in ShownMessage /\ Deserialize(SubSeq(toClient[d], 1, k)).spoiled \in BOOLEAN
  BY <1>2, ReadOfStream
<1>4. e \in ShownEvent /\ e.msg = m
  BY <1>3, EventOfMessage
<1>5. /\ toClient'[d] = Unread(toClient[d], k)
      /\ inbox'[d] = Append(inbox[d], e)
      /\ \A b \in Client \ {d} : inbox'[b] = inbox[b] /\ toClient'[b] = toClient[b]
  BY <1>1 DEF IInv, NetworkInv, PlayerInv
<1>6. /\ Has(Unread(toClient[d], k), M) => Has(toClient[d], M)
      /\ m \in M => Has(toClient[d], M)
  BY <1>2, UnreadHas
<1> HIDE DEF m, e
<1>7. Has(inbox'[d], DealsOf(M)) <=> Has(inbox[d], DealsOf(M)) \/ e \in DealsOf(M)
  BY <1>2, <1>4, <1>5, AppendHas
<1>8. e \in DealsOf(M) => m \in M
  BY <1>4 DEF DealsOf
<1>9. Carries(d, M)' => Carries(d, M)
  BY <1>5, <1>6, <1>7, <1>8 DEF Carries
<1>10. c # d => (Carries(c, M)' => Carries(c, M))
  BY <1>5 DEF Carries
<1> QED BY <1>9, <1>10

\* An event that is taken off the queue is one less.
LEMMA ReceiveComes ==
  ASSUME IInv, NEW d \in Client, NEW event, Receive(d, event), toClient' = toClient,
         NEW c \in Client, NEW M
  PROVE  /\ Carries(c, M)' => Carries(c, M)
         /\ Head(inbox[d]) \in DealsOf(M) => Carries(d, M)
<1>1. /\ inbox[d] \in Seq(ShownEvent) /\ inbox[d] # <<>>
      /\ inbox'[d] = Tail(inbox[d])
      /\ \A b \in Client \ {d} : inbox'[b] = inbox[b]
  BY DEF Receive, IInv, PlayerInv
<1>2. Has(inbox[d], DealsOf(M)) <=> Head(inbox[d]) \in DealsOf(M) \/ Has(inbox'[d], DealsOf(M))
  BY <1>1, TailHas
<1>3. Carries(d, M)' => Carries(d, M)
  BY <1>2 DEF Carries
<1>4. c # d => (Carries(c, M)' => Carries(c, M))
  BY <1>1 DEF Carries
<1> QED BY <1>2, <1>3, <1>4 DEF Carries

\* What is written to a player comes to it, and to nobody else.
LEMMA SentComes ==
  ASSUME IInv, NEW d \in Client, NEW m \in ShownMessage, toClient' = Sent(d, m),
         inbox' = inbox, NEW c \in Client, NEW M
  PROVE  Carries(c, M)' => Carries(c, M) \/ (c = d /\ m \in M)
<1>1. toClient[d] \in Seq(ShownMessage)
  BY DEF IInv, NetworkInv
<1>2. /\ toClient'[d] \in {toClient[d], Append(toClient[d], m)}
      /\ \A b \in Client \ {d} : toClient'[b] = toClient[b]
  BY DEF Sent, IInv, NetworkInv
<1>3. Has(toClient'[d], M) => Has(toClient[d], M) \/ m \in M
  BY <1>1, <1>2, AppendHas
<1> QED BY <1>2, <1>3 DEF Carries

\* No step but an answer to a request brings anybody a deal it did not have.
LEMMA NextComes ==
  ASSUME IInv, CardsInv, [Next]_vars, NEW c \in Client, NEW M \in SUBSET DealMessage
  PROVE  Comes(c, M)
<1>1. CASE UNCHANGED <<toClient, inbox>>
  BY <1>1 DEF Carries, Comes
<1>2. CASE WriteToClient /\ UNCHANGED playerVars
  <2>1. outbox \in Seq(OtherItem) /\ outbox # <<>>
    BY <1>2 DEF WriteToClient, CardsInv, HandsInv
  <2>2. Head(outbox) \in OtherItem
    BY <2>1, HeadAndTail
  <2>3. /\ Head(outbox).to \in Client /\ Head(outbox).msg \in ShownMessage
        /\ Head(outbox).msg \notin M
    BY <2>2 DEF OtherItem, OtherMessage, DealMessage
  <2>4. toClient' = Sent(Head(outbox).to, Head(outbox).msg) /\ inbox' = inbox
    BY <1>2 DEF WriteToClient, playerVars
  <2> QED BY <2>3, <2>4, SentComes DEF Comes
<1>3. CASE CardRequestEvent /\ UNCHANGED playerVars
  <2>1. Head(eventQueue).msg.id \in Client
    BY <1>3, CardRequestStep DEF CardsInv
  <2>2. inbox' = inbox
    BY <1>3 DEF playerVars
  <2>3. CASE /\ HandSize <= Len(redDeck)
             /\ redDeck' = SubSeq(redDeck, HandSize + 1, Len(redDeck))
             /\ \E tail \in Tails :
                  toClient' = Sent(Head(eventQueue).msg.id, DealtNow(tail))
    <3>0. PICK tail \in Tails : toClient' = Sent(Head(eventQueue).msg.id, DealtNow(tail))
      BY <2>3
    <3>1. redDeck \in Seq(RedCard) /\ HandSize \in Int
      BY HandSizeAssumption DEF IInv, HostInv
    <3>2. SubSeq(redDeck, 1, HandSize) \in Seq(RedCard)
      BY <2>3, <3>1, PartOfSeq
    <3>3. DealtNow(tail) \in ShownMessage
      BY <3>2, MessagesShown DEF DealtNow
    <3>4. Carries(c, M)' =>
            Carries(c, M) \/ (c = Head(eventQueue).msg.id /\ DealtNow(tail) \in M)
      BY <2>1, <2>2, <3>0, <3>3, SentComes
    <3> QED BY <1>3, <2>3, <3>4 DEF Comes, Deals
  <2> QED BY <1>1, <1>3, <2>2, <2>3, CardRequestStep DEF CardsInv, DealtNow
<1>4. CASE \E d \in Client : ClientRead(d)
  BY <1>4, ClientReadComes DEF Comes
<1>5. CASE \E d \in Client : End(d)
  <2>1. PICK d \in Client : End(d)
    BY <1>5
  <2>2. inbox' = inbox /\ toClient'[c] \in {toClient[c], <<>>}
    BY <2>1 DEF End, playerVars, IInv, NetworkInv
  <2> QED BY <2>2, EmptyOrder DEF Carries, Comes
<1>6. CASE \E d \in Client : PlayerLoop(d)
  <2>1. PICK d \in Client : PlayerLoop(d)
    BY <1>6
  <2>2. (\E event : Receive(d, event)) /\ toClient' = toClient
    BY <2>1 DEF PlayerLoop, PlayerJoinedUpdated, SynchronizeGame, CardsResponse,
                GameStarted, networkVars
  <2> QED BY <2>2, ReceiveComes DEF Comes
<1>7. CASE (\/ Accept \/ SetupHostCallbacks \/ PlayerJoinedUpdate \/ PlayerJoinedLoadGame
            \/ StartGameMessage \/ HostTerminates
            \/ \E d \in Client : Read(d) \/ ReadEnd(d)) /\ UNCHANGED playerVars
  <2>1. UNCHANGED <<toClient, inbox>>
    BY <1>7 DEF Accept, SetupHostCallbacks, PlayerJoinedUpdate, PlayerJoinedLoadGame,
                StartGameMessage, HostTerminates, Read, ReadEnd, networkVars, playerVars
  <2> QED BY <1>1, <2>1
<1>8. CASE \E d \in Client : Join(d)
  BY <1>1, <1>8 DEF Join, Connect, playerVars
<1>9. CASE UNCHANGED vars
  BY <1>1, <1>9 DEF vars, networkVars, playerVars
<1> QED BY <1>2, <1>3, <1>4, <1>5, <1>6, <1>7, <1>8, <1>9 DEF Next, Quit, HostLost, PlayerLoop

\* A hand changes when a deal comes into it, and then it is that deal.
LEMMA NextHand ==
  ASSUME IInv, CardsInv, [Next]_vars, NEW c \in Client
  PROVE  \/ hand'[c] = hand[c]
         \/ /\ Head(inbox[c]) \in HandReceived /\ Head(inbox[c]).event = "CardReceived"
            /\ hand'[c] = CardsIn(TextIn(Head(inbox[c])))
            /\ \A M : Head(inbox[c]).msg \in M => Carries(c, M)
<1>1. CASE hand' = hand
  BY <1>1
<1>2. ASSUME NEW d \in Client, CardsResponse(d), UNCHANGED hostVars
      PROVE  \/ hand'[c] = hand[c]
             \/ /\ Head(inbox[c]) \in HandReceived /\ Head(inbox[c]).event = "CardReceived"
                /\ hand'[c] = CardsIn(TextIn(Head(inbox[c])))
                /\ \A M : Head(inbox[c]).msg \in M => Carries(c, M)
  <2>1. /\ Head(inbox[d]) \in HandReceived /\ Head(inbox[d]).event = "CardReceived"
        /\ hand'[d] = CardsIn(TextIn(Head(inbox[d])))
        /\ \A b \in Client \ {d} : hand'[b] = hand[b]
    BY <1>2, CardsResponseHands DEF CardsInv
  <2>2. Receive(d, "CardReceived") /\ toClient' = toClient
    BY <1>2 DEF CardsResponse, networkVars
  <2>3. \A M : Head(inbox[d]) \in DealsOf(M) => Carries(d, M)
    BY <2>2, ReceiveComes
  <2>4. \A M : Head(inbox[d]).msg \in M => Head(inbox[d]) \in DealsOf(M)
    BY <2>1 DEF DealsOf, DealEvent, HandReceived
  <2> QED BY <2>1, <2>3, <2>4
<1>3. CASE UNCHANGED playerVars \/ UNCHANGED vars
  BY <1>1, <1>3 DEF playerVars, vars
<1>4. CASE \E d \in Client : \/ Join(d) \/ Quit(d) \/ HostLost(d) \/ ClientRead(d)
                             \/ PlayerJoinedUpdated(d) \/ SynchronizeGame(d) \/ GameStarted(d)
  BY <1>1, <1>4 DEF Join, Connect, Quit, HostLost, End, ClientRead, PlayerJoinedUpdated,
                    SynchronizeGame, GameStarted, playerVars
<1> QED BY <1>2, <1>3, <1>4 DEF Next

\* The deck without its first cards, and those cards.
LEMMA DealtCards ==
  ASSUME NEW deck \in Seq(RedCard), IsInjective(deck), HandSize <= Len(deck)
  PROVE  /\ SubSeq(deck, 1, HandSize) \in Seq(RedCard)
         /\ Distinct(SubSeq(deck, 1, HandSize))
         /\ IsInjective(SubSeq(deck, HandSize + 1, Len(deck)))
         /\ Range(SubSeq(deck, HandSize + 1, Len(deck))) \subseteq Range(deck)
         /\ \A i \in 1..Len(SubSeq(deck, 1, HandSize)) :
              /\ SubSeq(deck, 1, HandSize)[i] \in Range(deck)
              /\ SubSeq(deck, 1, HandSize)[i]
                   \notin Range(SubSeq(deck, HandSize + 1, Len(deck)))
<1> DEFINE first == SubSeq(deck, 1, HandSize)
           rest == SubSeq(deck, HandSize + 1, Len(deck))
<1>1. /\ Len(deck) \in Nat /\ HandSize \in Nat /\ DOMAIN deck = 1..Len(deck)
      /\ \A i \in 1..Len(deck) : deck[i] \in RedCard
  BY LenProperties, ElementOfSeq, HandSizeAssumption
<1>2. \A i, j \in 1..Len(deck) : deck[i] = deck[j] => i = j
  BY <1>1 DEF IsInjective
<1>3. /\ first \in Seq(RedCard) /\ Len(first) = HandSize
      /\ \A i \in 1..HandSize : first[i] = deck[i]
  BY <1>1, SubSeqProperties
<1>4. /\ rest \in Seq(RedCard) /\ Len(rest) = Len(deck) - HandSize
      /\ \A i \in 1..Len(deck) - HandSize : rest[i] = deck[HandSize + i]
  <2>1. \A i \in HandSize + 1 .. Len(deck) : deck[i] \in RedCard
    BY <1>1
  <2>2. HandSize + 1 \in Int /\ Len(deck) \in Int
    BY <1>1
  <2> DEFINE m == HandSize + 1
             n == Len(deck)
  <2> HIDE DEF rest
  <2>3. /\ rest \in Seq(RedCard)
        /\ Len(rest) = IF m <= n THEN n - m + 1 ELSE 0
        /\ \A i \in 1 .. n - m + 1 : rest[i] = deck[m + i - 1]
    BY <2>1, <2>2, SubSeqProperties DEF rest
  <2>4. Len(rest) = Len(deck) - HandSize
    <3>1. CASE HandSize < Len(deck)
      <4>1. HandSize + 1 <= Len(deck) /\ Len(deck) - (HandSize + 1) + 1 = Len(deck) - HandSize
        BY <1>1, <3>1
      <4> QED BY <2>3, <4>1
    <3>2. CASE HandSize = Len(deck)
      <4>1. ~(HandSize + 1 <= Len(deck)) /\ Len(deck) - HandSize = 0
        BY <1>1, <3>2
      <4> QED BY <2>3, <4>1
    <3>3. \A k, l \in Nat : k <= l => k < l \/ k = l
      OBVIOUS
    <3>4. HandSize < Len(deck) \/ HandSize = Len(deck)
      BY <1>1, <3>3
    <3> QED BY <3>1, <3>2, <3>4
  <2>5. ASSUME NEW i \in 1..Len(deck) - HandSize PROVE rest[i] = deck[HandSize + i]
    <3>1. i \in 1 .. n - m + 1 /\ m + i - 1 = HandSize + i
      BY <1>1
    <3> QED BY <2>3, <3>1
  <2> QED BY <2>3, <2>4, <2>5
<1>5. DOMAIN rest = 1..Len(deck) - HandSize
  BY <1>4, LenProperties
<1> HIDE DEF first, rest
<1>6. \A i \in 1..Len(deck) - HandSize : HandSize + i \in 1..Len(deck)
  BY <1>1
<1>7. \A i \in 1..HandSize : i \in 1..Len(deck)
  BY <1>1
<1>8. Distinct(first)
  BY <1>2, <1>3, <1>7 DEF Distinct
<1>9. IsInjective(rest)
  <2> SUFFICES ASSUME NEW i \in 1..Len(deck) - HandSize, NEW j \in 1..Len(deck) - HandSize,
                      rest[i] = rest[j]
               PROVE  i = j
    BY <1>5 DEF IsInjective
  <2>1. HandSize + i = HandSize + j
    BY <1>2, <1>4, <1>6
  <2> QED BY <1>1, <2>1
<1>10. Range(rest) \subseteq Range(deck)
  BY <1>1, <1>4, <1>5, <1>6 DEF Range
<1>11. ASSUME NEW i \in 1..Len(first)
       PROVE  first[i] \in Range(deck) /\ first[i] \notin Range(rest)
  <2>1. i \in 1..HandSize /\ first[i] = deck[i] /\ i \in 1..Len(deck)
    BY <1>3, <1>7, <1>11
  <2>2. \A j \in 1..Len(deck) - HandSize : rest[j] # first[i]
    <3> SUFFICES ASSUME NEW j \in 1..Len(deck) - HandSize, rest[j] = first[i]
                 PROVE  FALSE
      OBVIOUS
    <3>1. i = HandSize + j
      BY <1>2, <1>4, <1>6, <2>1
    <3> QED BY <1>1, <2>1, <3>1
  <2> QED BY <1>1, <1>5, <2>1, <2>2 DEF Range
<1> QED BY <1>3, <1>8, <1>9, <1>10, <1>11 DEF first, rest

\* A card is in no text but its own, and there once.
LEMMA CardOccurs ==
  ASSUME NEW x \in RedCard, NEW card \in RedCard, NEW tail \in Tails
  PROVE  /\ TextOf(card) \o <<Slash>> \o tail \in Seq(Alphabet)
         /\ Occurs(x, TextOf(card) \o <<Slash>> \o tail) => card = x
         /\ Once(x, TextOf(card) \o <<Slash>> \o tail)
<1>1. x # Slash /\ x # Spoiled
  BY CardAssumption, TextAssumption
<1>2. PICK s \in Seq(Alphabet) : s = TextOf(card)
  BY TextOfType
<1>3. (Occurs(x, s) => card = x) /\ Once(x, s)
  <2>1. CASE Slashes[card] = 0
    <3>1. Len(s) = 1 /\ s[1] = card
      BY <1>2, <2>1 DEF TextOf
    <3> QED BY <3>1 DEF Occurs, Once
  <2>2. CASE Slashes[card] # 0
    <3>1. PICK n \in Nat : n = 2 * Slashes[card] + 1
      BY TextAssumption
    <3>2. s = [i \in 1..n |-> IF i % 2 = 0 THEN Slash ELSE Spoiled]
      BY <1>2, <2>2, <3>1 DEF TextOf
    <3>3. Len(s) = n /\ \A i \in 1..n : s[i] = Slash \/ s[i] = Spoiled
      BY <3>2
    <3> QED BY <1>1, <3>3 DEF Occurs, Once
  <2> QED BY <2>1, <2>2
<1>4. PICK d \in Seq(Alphabet) : d = <<Slash>>
  <2>1. Slash \in Alphabet
    BY DEF Alphabet
  <2>2. <<Slash>> \in Seq(Alphabet)
    BY <2>1
  <2> QED BY <2>2
<1>5. ~Occurs(x, d) /\ Once(x, d)
  <2>1. Len(d) = 1 /\ d[1] = Slash
    BY <1>4
  <2> QED BY <1>1, <2>1 DEF Occurs, Once
<1>6. tail \in Seq(Alphabet) /\ ~Occurs(x, tail) /\ Once(x, tail)
  <2>1. {Spoiled, Slash} \subseteq Alphabet /\ tail \in Seq({Spoiled, Slash})
    BY TextAssumption DEF Alphabet
  <2>2. tail \in Seq(Alphabet)
    BY <2>1, SeqMonotonic
  <2>3. \A i \in 1..Len(tail) : tail[i] \in {Spoiled, Slash}
    BY <2>1, ElementOfSeq
  <2> QED BY <1>1, <2>2, <2>3 DEF Occurs, Once
<1>7. PICK u \in Seq(Alphabet) : u = s \o d
  BY ConcatTexts
<1>8. (Occurs(x, u) => card = x) /\ Once(x, u)
  BY <1>3, <1>5, <1>7, ConcatOccurs
<1>9. PICK v \in Seq(Alphabet) : v = u \o tail
  BY <1>6, ConcatTexts
<1>10. (Occurs(x, v) => card = x) /\ Once(x, v)
  BY <1>6, <1>8, <1>9, ConcatOccurs
<1> QED BY <1>2, <1>4, <1>7, <1>9, <1>10

\* The cards in a payload are those that were dealt, each of them once.
LEMMA PayloadOccurs ==
  ASSUME NEW deal, deal.cards \in Seq(RedCard), deal.tail \in Tails, NEW x \in RedCard
  PROVE  /\ Occurs(x, Payload(deal)) => \E k \in 1..Len(deal.cards) : deal.cards[k] = x
         /\ Distinct(deal.cards) => Once(x, Payload(deal))
<1>1. PICK cards \in Seq(RedCard), tail \in Tails : cards = deal.cards /\ tail = deal.tail
  OBVIOUS
<1>2. PICK N \in Nat : N = Len(cards)
  BY LenProperties
<1>3. \A i \in 1..N : cards[i] \in RedCard
  BY <1>2, ElementOfSeq
<1>4. PICK vec : vec = [i \in 1..N |-> TextOf(cards[i])]
  OBVIOUS
<1>5. Len(vec) = N /\ \A i \in 1..N : vec[i] = TextOf(cards[i])
  BY <1>2, <1>4
<1>6. PICK words : words = [i \in 1..Len(vec) |-> vec[i] \o <<Slash>> \o tail]
  OBVIOUS
<1>7. ASSUME NEW i \in 1..N
      PROVE  /\ words[i] = TextOf(cards[i]) \o <<Slash>> \o tail
             /\ words[i] \in Seq(Alphabet)
             /\ Occurs(x, words[i]) => cards[i] = x
             /\ Once(x, words[i])
  <2>1. words[i] = TextOf(cards[i]) \o <<Slash>> \o tail
    BY <1>5, <1>6, Zenon
  <2>2. /\ TextOf(cards[i]) \o <<Slash>> \o tail \in Seq(Alphabet)
        /\ Occurs(x, TextOf(cards[i]) \o <<Slash>> \o tail) => cards[i] = x
        /\ Once(x, TextOf(cards[i]) \o <<Slash>> \o tail)
    BY <1>3, CardOccurs
  <2> QED BY <2>1, <2>2, Zenon
<1>8. words \in Seq(Seq(Alphabet)) /\ Len(words) = N
  <2>1. PICK T : T = Seq(Alphabet)
    OBVIOUS
  <2>2. words \in [1..N -> T]
    BY <1>5, <1>6, <1>7, <2>1
  <2>3. words \in Seq(T) /\ Len(words) = N
    BY <2>2, SeqDef
  <2> QED BY <2>1, <2>3
<1>9. PICK all \in Seq(Alphabet) : all = FlattenSeq(words)
  <2>1. PICK g \in [0..Len(words) -> Seq(Alphabet)] : FlattenSeq(words) = g[Len(words)]
    BY <1>8, FlattenSteps
  <2> QED BY <1>8, <2>1
<1>10. /\ Occurs(x, all) => \E k \in 1..N : cards[k] = x
       /\ Distinct(cards) => Once(x, all)
  <2>1. /\ Occurs(x, all) => \E i \in 1..Len(words) : Occurs(x, words[i])
        /\ OnceInAll(x, words) => Once(x, all)
    BY <1>8, <1>9, FlattenOccurs
  <2>2. Distinct(cards) => OnceInAll(x, words)
    <3>1. x # Spoiled
      BY CardAssumption
    <3> QED BY <1>2, <1>7, <1>8, <3>1 DEF Distinct, OnceInAll
  <2> QED BY <1>7, <1>8, <2>1, <2>2
<1>11. Payload(deal) = IF all = <<>> THEN <<>> ELSE Front(all)
  <2>1. Payload(deal) = JoinStrings(vec, tail)
    BY <1>1, <1>2, <1>4, Zenon DEF Payload
  <2> QED BY <1>6, <1>9, <2>1, Zenon DEF JoinStrings
<1>12. CASE all = <<>>
  BY <1>1, <1>2, <1>10, <1>11, <1>12
<1>13. CASE all # <<>>
  <2>1. /\ Occurs(x, Front(all)) => Occurs(x, all)
        /\ Once(x, all) => Once(x, Front(all))
    BY <1>13, FrontOccurs
  <2> QED BY <1>1, <1>2, <1>10, <1>11, <1>13, <2>1
<1> QED BY <1>12, <1>13

\* A hand has cards of the deal, each once, and parts that are no cards.
LEMMA HandOfDeal ==
  ASSUME NEW received \in HandReceived, received.event = "CardReceived"
  PROVE  /\ received.msg \in DealMessage
         /\ Distinct(received.msg.cards) => Distinct(CardsIn(TextIn(received)))
         /\ \A i \in 1..Len(CardsIn(TextIn(received))) :
              CardsIn(TextIn(received))[i] # Spoiled =>
                \E k \in 1..Len(received.msg.cards) :
                  received.msg.cards[k] = CardsIn(TextIn(received))[i]
<1>1. received.msg \in DealMessage
  BY DEF HandReceived, ShownEvent, ClientEventMessage, DealMessage
<1>2. PICK deal : deal = received.msg
  OBVIOUS
<1>3. deal.cards \in Seq(RedCard) /\ deal.tail \in Tails
  BY <1>1, <1>2 DEF DealMessage, ShownMessage, ServerMessage
<1>4. PICK text \in Seq(Alphabet) : text = TextIn(received)
  BY <1>2, <1>3, TextInType
<1>5. ASSUME NEW x \in RedCard
      PROVE  /\ Occurs(x, text) => \E k \in 1..Len(deal.cards) : deal.cards[k] = x
             /\ Distinct(deal.cards) => Once(x, text)
  <2>1. PICK p \in Seq(Alphabet) : p = Payload(deal)
    BY <1>3, PayloadType
  <2>2. PICK glued : glued = IF received.spoiled THEN <<Spoiled>> ELSE <<>>
    OBVIOUS
  <2>3. glued \in Seq(Alphabet)
    <3>1. Spoiled \in Alphabet
      BY DEF Alphabet
    <3>2. <<Spoiled>> \in Seq(Alphabet) /\ <<>> \in Seq(Alphabet)
      BY <3>1, EmptySeq
    <3> QED BY <2>2, <3>2
  <2>4. ~Occurs(x, glued) /\ Once(x, glued)
    <3>1. x # Spoiled
      BY CardAssumption
    <3>2. \A i \in 1..Len(glued) : glued[i] = Spoiled
      <4>1. CASE glued = <<Spoiled>>
        BY <4>1
      <4>2. CASE glued = <<>>
        BY <4>2
      <4> QED BY <2>2, <4>1, <4>2
    <3> QED BY <3>1, <3>2 DEF Occurs, Once
  <2>5. text = p \o glued
    BY <1>2, <1>4, <2>1, <2>2, Zenon DEF TextIn
  <2>6. /\ Occurs(x, p \o glued) => Occurs(x, p) \/ Occurs(x, glued)
        /\ Once(x, p) /\ Once(x, glued) /\ ~(Occurs(x, p) /\ Occurs(x, glued))
             => Once(x, p \o glued)
    BY <2>3, ConcatOccurs
  <2>7. /\ Occurs(x, p) => \E k \in 1..Len(deal.cards) : deal.cards[k] = x
        /\ Distinct(deal.cards) => Once(x, p)
    BY <1>3, <2>1, PayloadOccurs
  <2> QED BY <2>4, <2>5, <2>6, <2>7
<1>6. PICK new : new = CardsIn(text)
  OBVIOUS
<1>7. PICK tokens : tokens = Tokens(text)
  OBVIOUS
<1>8. ASSUME NEW i \in 1..Len(new), new[i] # Spoiled
      PROVE  /\ new[i] \in RedCard
             /\ i \in 1..Len(tokens) /\ Occurs(new[i], tokens[i])
  <2>1. /\ Len(new) = Len(SplitString(text))
        /\ new[i] = CardOf(SplitString(text)[i])
    BY <1>6, CardsInType
  <2>2. /\ i \in 1..Len(tokens)
        /\ SplitString(text)[i] = tokens[i]
    <3>1. /\ Len(tokens) \in Nat
          /\ Len(SplitString(text)) \in {Len(tokens) - 1, Len(tokens)}
          /\ \A j \in 1..Len(SplitString(text)) : SplitString(text)[j] = tokens[j]
      BY <1>7, SplitParts
    <3> QED BY <2>1, <3>1
  <2>3. new[i] = CardOf(tokens[i])
    BY <2>1, <2>2
  <2>4. PICK r \in RedCard : tokens[i] = <<r>> /\ new[i] = r
    BY <1>8, <2>3 DEF CardOf
  <2>5. Len(tokens[i]) = 1 /\ tokens[i][1] = r
    BY <2>4
  <2>6. Occurs(r, tokens[i])
    BY <2>5 DEF Occurs
  <2> QED BY <2>2, <2>4, <2>6
<1>9. ASSUME NEW x \in RedCard PROVE Kept(x, text, tokens)
  <2>1. x # Slash /\ Slash \in Alphabet
    BY TextAssumption DEF Alphabet
  <2> QED BY <1>7, <2>1, TokensOccur
<1>10. ASSUME NEW i \in 1..Len(new), new[i] # Spoiled
       PROVE  \E k \in 1..Len(deal.cards) : deal.cards[k] = new[i]
  BY <1>5, <1>8, <1>9, <1>10 DEF Kept
<1>11. ASSUME Distinct(deal.cards), NEW i \in 1..Len(new), NEW j \in 1..Len(new),
              new[i] = new[j], new[i] # Spoiled
       PROVE  i = j
  <2>1. PICK x \in RedCard : x = new[i]
    BY <1>8, <1>11
  <2>2. /\ i \in 1..Len(tokens) /\ Occurs(x, tokens[i])
        /\ j \in 1..Len(tokens) /\ Occurs(x, tokens[j])
    BY <1>8, <1>11, <2>1
  <2>3. Once(x, text)
    BY <1>5, <1>11
  <2> QED BY <1>9, <2>2, <2>3 DEF Kept
<1>12. Distinct(deal.cards) => Distinct(new)
  BY <1>11 DEF Distinct
<1> QED BY <1>1, <1>2, <1>4, <1>6, <1>10, <1>12, Zenon

\* Who comes to hold a card is dealt it now, from the top of the deck.
LEMMA NextHolds ==
  ASSUME IInv, CardsInv, OwnerInv, [Next]_vars, NEW c \in Client, NEW card \in RedCard,
         Holds(c, card)'
  PROVE  \/ Holds(c, card)
         \/ Deals(c) /\ \E i \in 1..Len(SubSeq(redDeck, 1, HandSize)) :
                           SubSeq(redDeck, 1, HandSize)[i] = card
<1>1. Carries(c, DealWith(card))' =>
        \/ Carries(c, DealWith(card))
        \/ Deals(c) /\ \E tail \in Tails : DealtNow(tail) \in DealWith(card)
  <2>1. DealWith(card) \in SUBSET DealMessage
    BY DEF DealWith
  <2> QED BY <2>1, NextComes DEF Comes
<1>2. ASSUME NEW tail \in Tails, DealtNow(tail) \in DealWith(card)
      PROVE  \E i \in 1..Len(SubSeq(redDeck, 1, HandSize)) : SubSeq(redDeck, 1, HandSize)[i] = card
  BY <1>2 DEF DealWith, DealtNow, DealCard
<1>3. ASSUME NEW i \in 1..Len(hand'[c]), hand'[c][i] = card
      PROVE  Holds(c, card)
  <2>1. CASE hand'[c] = hand[c]
    BY <1>3, <2>1 DEF Holds, InHand
  <2>2. CASE /\ Head(inbox[c]) \in HandReceived /\ Head(inbox[c]).event = "CardReceived"
             /\ hand'[c] = CardsIn(TextIn(Head(inbox[c])))
             /\ \A M : Head(inbox[c]).msg \in M => Carries(c, M)
    <3>1. card # Spoiled
      BY CardAssumption
    <3>2. /\ Head(inbox[c]).msg \in DealMessage
          /\ \E k \in 1..Len(Head(inbox[c]).msg.cards) : Head(inbox[c]).msg.cards[k] = card
      BY <1>3, <2>2, <3>1, HandOfDeal
    <3>3. Head(inbox[c]).msg \in DealWith(card)
      BY <3>2 DEF DealWith
    <3> QED BY <2>2, <3>3 DEF Holds
  <2> QED BY <2>1, <2>2, NextHand
<1>4. Holds(c, card)' => (\E i \in 1..Len(hand'[c]) : hand'[c][i] = card)
                           \/ Carries(c, DealWith(card))'
  BY DEF Holds, InHand
<1> QED BY <1>1, <1>2, <1>3, <1>4 DEF Holds

\* No step gives a card a second owner, nor one that is still in the deck.
LEMMA NextOwner ==
  ASSUME IInv, CardsInv, OwnerInv, [Next]_vars
  PROVE  OwnerInv'
<1> DEFINE first == SubSeq(redDeck, 1, HandSize)
           Top(card) == \E i \in 1..Len(first) : first[i] = card
<1>1. redDeck \in Seq(RedCard) /\ IsInjective(redDeck)
  BY DEF IInv, HostInv, OwnerInv
<1>2. HandSize <= Len(redDeck) =>
        /\ first \in Seq(RedCard) /\ Distinct(first)
        /\ IsInjective(SubSeq(redDeck, HandSize + 1, Len(redDeck)))
        /\ Range(SubSeq(redDeck, HandSize + 1, Len(redDeck))) \subseteq Range(redDeck)
        /\ \A i \in 1..Len(first) :
             /\ first[i] \in Range(redDeck)
             /\ first[i] \notin Range(SubSeq(redDeck, HandSize + 1, Len(redDeck)))
  BY <1>1, DealtCards
<1>3. \/ redDeck' = redDeck
      \/ /\ HandSize <= Len(redDeck)
         /\ redDeck' = SubSeq(redDeck, HandSize + 1, Len(redDeck))
  BY DeckKept, CardRequestStep DEF CardsInv
<1>4. IsInjective(redDeck') /\ Range(redDeck') \subseteq Range(redDeck)
  BY <1>1, <1>2, <1>3
<1>5. ASSUME NEW c \in Client
      PROVE  Distinct(hand'[c]) /\ ~Carries(c, RepeatMessage)'
  <2>1. Distinct(hand[c]) /\ ~Carries(c, RepeatMessage)
    BY DEF OwnerInv
  <2>2. Distinct(hand'[c])
    <3>1. CASE hand'[c] = hand[c]
      BY <2>1, <3>1
    <3>2. CASE /\ Head(inbox[c]) \in HandReceived /\ Head(inbox[c]).event = "CardReceived"
               /\ hand'[c] = CardsIn(TextIn(Head(inbox[c])))
               /\ \A M : Head(inbox[c]).msg \in M => Carries(c, M)
      <4>1. /\ Head(inbox[c]).msg \in DealMessage
            /\ Distinct(Head(inbox[c]).msg.cards) => Distinct(hand'[c])
        BY <3>2, HandOfDeal
      <4>2. Head(inbox[c]).msg \notin RepeatMessage
        BY <2>1, <3>2
      <4> QED BY <4>1, <4>2 DEF RepeatMessage
    <3> QED BY <3>1, <3>2, NextHand
  <2>3. \A tail \in Tails : Deals(c) => DealtNow(tail) \notin RepeatMessage
    BY <1>2 DEF Deals, DealtNow, DealCard, RepeatMessage
  <2>4. Comes(c, RepeatMessage)
    <3>1. RepeatMessage \in SUBSET DealMessage
      BY DEF RepeatMessage
    <3> QED BY <3>1, NextComes
  <2> QED BY <2>1, <2>2, <2>3, <2>4 DEF Comes
<1>6. \A c \in Client, card \in RedCard :
        Holds(c, card)' => Holds(c, card) \/ (Deals(c) /\ Top(card))
  BY NextHolds
<1>7. \A c \in Client, card \in RedCard :
        Holds(c, card) => /\ card \notin Range(redDeck)
                          /\ \A d \in Client \ {c} : ~Holds(d, card)
  BY DEF OwnerInv
<1>8. ASSUME NEW c \in Client, Deals(c), NEW card \in RedCard, Top(card)
      PROVE  card \in Range(redDeck) /\ card \notin Range(redDeck')
  BY <1>2, <1>8 DEF Deals
<1>9. \A c, d \in Client : Deals(c) /\ Deals(d) => c = d
  BY DEF Deals
<1> HIDE DEF Top
<1>10. ASSUME NEW c \in Client, NEW card \in RedCard, Holds(c, card)'
       PROVE  /\ card \notin Range(redDeck')
              /\ \A d \in Client \ {c} : ~Holds(d, card)'
  <2>1. card \notin Range(redDeck')
    BY <1>4, <1>6, <1>7, <1>8, <1>10
  <2>2. ASSUME NEW d \in Client \ {c}, Holds(d, card)'
        PROVE  FALSE
    <3>1. Holds(c, card) \/ (Deals(c) /\ Top(card))
      BY <1>6, <1>10
    <3>2. Holds(d, card) \/ (Deals(d) /\ Top(card))
      BY <1>6, <2>2
    <3> QED BY <1>7, <1>8, <1>9, <3>1, <3>2
  <2> QED BY <2>1, <2>2
<1> QED BY <1>4, <1>5, <1>10 DEF OwnerInv

\* Where there is a dealt card, and that its player holds it.
LEMMA DealtHeld ==
  ASSUME IInv, CardsInv, OwnerInv, NEW c \in Client, NEW p \in Held(c)
  PROVE  /\ p = <<p[1], p[2]>>
         /\ p[1] \in 1..Len(Packs(c)) /\ p[2] \in 1..Len(Packs(c)[p[1]])
         /\ Len(Packs(c)[p[1]]) # 0
         /\ Distinct(Packs(c)[p[1]])
         /\ \/ CardAt(c, p) = Spoiled
            \/ CardAt(c, p) \in RedCard /\ Holds(c, CardAt(c, p))
<1>1. PICK i \in 1..Len(Packs(c)) : p \in {i} \X (1..Len(Packs(c)[i]))
  BY DEF Held
<1>2. p = <<i, p[2]>> /\ p[1] = i /\ p[2] \in 1..Len(Packs(c)[i])
  BY <1>1
<1>3. PICK pack : pack = Packs(c)[i]
  OBVIOUS
<1>4. PICK j : j = p[2]
  OBVIOUS
<1>5. CardAt(c, p) = pack[j] /\ j \in 1..Len(pack) /\ Len(pack) # 0
  BY <1>2, <1>3, <1>4 DEF CardAt
<1>6. Distinct(hand[c]) /\ ~Carries(c, RepeatMessage)
  BY DEF OwnerInv
<1>7. Distinct(pack) /\ (pack[j] = Spoiled \/ (pack[j] \in RedCard /\ Holds(c, pack[j])))
  <2>1. CASE pack = hand[c]
    <3>1. hand[c] \in Seq(RedCard \cup {Spoiled})
      BY DEF IInv, PlayerInv
    <3>2. pack[j] \in RedCard \cup {Spoiled}
      BY <1>5, <2>1, <3>1, ElementOfSeq
    <3>3. Holds(c, pack[j])
      BY <1>5, <2>1 DEF Holds, InHand
    <3> QED BY <1>6, <2>1, <3>2, <3>3
  <2>2. ASSUME NEW m \in DealMessage, pack = m.cards, \A M : m \in M => Carries(c, M)
        PROVE  Distinct(pack) /\ pack[j] \in RedCard /\ Holds(c, pack[j])
    <3>1. Distinct(pack)
      BY <1>6, <2>2 DEF RepeatMessage
    <3>2. pack \in Seq(RedCard)
      BY <2>2 DEF DealMessage, ShownMessage, ServerMessage
    <3>3. pack[j] \in RedCard
      BY <1>5, <3>2, ElementOfSeq
    <3>4. m \in DealWith(pack[j])
      BY <1>5, <2>2 DEF DealWith
    <3> QED BY <2>2, <3>1, <3>3, <3>4 DEF Holds
  <2>3. ASSUME NEW k \in 1..Len(inbox[c]), inbox[c][k] \in DealEvent,
               pack = inbox[c][k].msg.cards
        PROVE  Distinct(pack) /\ pack[j] \in RedCard /\ Holds(c, pack[j])
    <3>1. inbox[c][k].msg \in DealMessage
      BY <2>3 DEF DealEvent, ShownEvent, ClientEventMessage, DealMessage
    <3>2. \A M : inbox[c][k].msg \in M => Carries(c, M)
      BY <2>3 DEF Carries, Has, DealsOf
    <3> QED BY <2>2, <2>3, <3>1, <3>2
  <2>4. ASSUME NEW k \in 1..Len(toClient[c]), toClient[c][k] \in DealMessage,
               pack = toClient[c][k].cards
        PROVE  Distinct(pack) /\ pack[j] \in RedCard /\ Holds(c, pack[j])
    <3>1. \A M : toClient[c][k] \in M => Carries(c, M)
      BY DEF Carries, Has
    <3> QED BY <2>2, <2>4, <3>1
  <2> QED BY <1>2, <1>3, <1>5, <2>1, <2>3, <2>4, PackOfDeal DEF CardsInv
<1> QED BY <1>1, <1>2, <1>3, <1>5, <1>7

\* If the cards in the file are all different, no card is ever in two places.
THEOREM CardsUniqueHolds ==
  ASSUME IsInjective(RedDeck)
  PROVE  Spec => []CardsUnique
<1>1. Init => OwnerInv
  <2> SUFFICES ASSUME Init PROVE OwnerInv
    OBVIOUS
  <2>1. IsInjective(redDeck)
    BY DEF Init, HostInit, IsInjective
  <2>2. \A c \in Client : hand[c] = <<>> /\ inbox[c] = <<>> /\ toClient[c] = <<>>
    BY DEF Init, NetworkInit, PlayerInit
  <2>3. \A c \in Client : \A M : ~Carries(c, M)
    BY <2>2, EmptyOrder DEF Carries
  <2>4. ASSUME NEW c \in Client PROVE Distinct(hand[c]) /\ \A card : ~InHand(c, card)
    <3>1. 1..Len(hand[c]) = {}
      BY <2>2
    <3> QED BY <3>1 DEF Distinct, InHand
  <2> QED BY <2>1, <2>3, <2>4 DEF OwnerInv, Holds
<1>2. IInv /\ CardsInv /\ OwnerInv /\ [Next]_vars => OwnerInv'
  BY NextOwner
<1>3. IInv /\ CardsInv /\ OwnerInv => CardsUnique
  <2> SUFFICES ASSUME IInv, CardsInv, OwnerInv, NEW c \in Client, NEW p \in Held(c)
               PROVE  /\ CardAt(c, p) \notin Range(redDeck)
                      /\ \A d \in Client : \A q \in Held(d) :
                           CardAt(c, p) = CardAt(d, q) /\ CardAt(c, p) # Spoiled
                             => c = d /\ p = q
    BY DEF CardsUnique, OwnerInv
  <2>1. \/ CardAt(c, p) = Spoiled
        \/ CardAt(c, p) \in RedCard /\ Holds(c, CardAt(c, p))
    BY DealtHeld
  <2>2. Range(redDeck) \subseteq RedCard
    <3>1. DOMAIN redDeck = 1..Len(redDeck) /\ \A i \in 1..Len(redDeck) : redDeck[i] \in RedCard
      BY LenProperties, ElementOfSeq DEF IInv, HostInv
    <3> QED BY <3>1 DEF Range
  <2>3. CardAt(c, p) \notin Range(redDeck)
    BY <2>1, <2>2, CardAssumption DEF OwnerInv
  <2>4. ASSUME NEW d \in Client, NEW q \in Held(d),
               CardAt(c, p) = CardAt(d, q), CardAt(c, p) # Spoiled
        PROVE  c = d /\ p = q
    <3>1. /\ CardAt(c, p) \in RedCard
          /\ Holds(c, CardAt(c, p)) /\ Holds(d, CardAt(c, p))
      BY <2>4, DealtHeld
    <3>2. c = d
      BY <3>1 DEF OwnerInv
    <3>3. /\ p = <<p[1], p[2]>> /\ q = <<q[1], q[2]>>
          /\ p[1] \in 1..Len(Packs(c)) /\ p[2] \in 1..Len(Packs(c)[p[1]])
          /\ q[1] \in 1..Len(Packs(c)) /\ q[2] \in 1..Len(Packs(c)[q[1]])
          /\ Len(Packs(c)[p[1]]) # 0 /\ Len(Packs(c)[q[1]]) # 0
          /\ Distinct(Packs(c)[p[1]])
      BY <3>2, DealtHeld
    <3>4. p[1] = q[1]
      BY <3>3, OnePack DEF CardsInv
    <3>5. Packs(c)[p[1]][p[2]] = Packs(c)[p[1]][q[2]] /\ Packs(c)[p[1]][p[2]] # Spoiled
      BY <2>4, <3>2, <3>4 DEF CardAt
    <3>6. p[2] = q[2]
      BY <3>3, <3>4, <3>5 DEF Distinct
    <3> QED BY <3>2, <3>3, <3>4, <3>6
  <2> QED BY <2>3, <2>4
<1> QED BY <1>1, <1>2, <1>3, CardsInvAlways, PTL DEF Spec
=============================================================================
