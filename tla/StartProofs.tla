---------------------------- MODULE StartProofs ----------------------------
(***************************************************************************)
(* Theorems about the start of CardGame, for every number of clients and   *)
(* of expected players, however many messages a read returns, and whoever  *)
(* joins or ends meanwhile: of the players that are attentive (they were   *)
(* at the table when the game was loaded, and no read returned more than   *)
(* one message to them) nobody starts without a round card, and at most    *)
(* one is a judge.  Nothing is assumed of the others: they lose messages,  *)
(* start in the wrong order and take any role, and the host hears of it.   *)
(*                                                                         *)
(* On its way to a player a message is in the broadcast, then in the       *)
(* stream, then in the player's queue.  In each of these a StartGame comes *)
(* only after the LoadGame, or after the LoadGame has gone further; and    *)
(* the first broadcast that reaches a player after the lobby is LoadGame,  *)
(* because everyone who is there is told when the game is loaded.          *)
(*                                                                         *)
(* The host picks a judge for every player that reports ready, but         *)
(* everyone takes its role from the first StartGame that reaches it, and   *)
(* for everyone that is the one of the first start.  So a StartGame with a *)
(* role that is wrong for a certain judge j comes only after one with the  *)
(* right role, in the same three places.  As long as nobody has been       *)
(* picked that is so for every j, and j is then the first that is picked.  *)
(***************************************************************************)
EXTENDS JoiningProofs

USE DEF historyVars

\* The messages and events that load the game, and those that start it.
LoadMessage  == {m \in ShownMessage : m.rpc = "LoadGame"}
StartMessage == {m \in ShownMessage : m.rpc = "StartGame"}
LoadEvent    == {e \in ShownEvent : e.event = "SynchronizeGame"}
StartEvent   == {e \in ShownEvent : e.event = "GameStarted"}

Has(queue, Load) == \E i \in 1..Len(queue) : queue[i] \in Load
LoadsFirst(queue, Load, Start) ==
  \A i \in 1..Len(queue) :
    queue[i] \in Start => \E j \in 1..Len(queue) : j < i /\ queue[j] \in Load

\* How far the LoadGame of a player has come.
LoadedQueue(c)  == roundCard[c] # NoCard \/ Has(inbox[c], LoadEvent)
LoadedStream(c) == LoadedQueue(c) \/ Has(toClient[c], LoadMessage)

Item(c, Messages) == {item \in ShownItem : item.to = c /\ item.msg \in Messages}

QueueOrder(c)  == roundCard[c] = NoCard => LoadsFirst(inbox[c], LoadEvent, StartEvent)
StreamOrder(c) == ~LoadedQueue(c) => LoadsFirst(toClient[c], LoadMessage, StartMessage)
OutboxOrder(c) ==
  ~LoadedStream(c) =>
    /\ ~Has(outbox, Item(c, StartMessage))
    /\ hostUp => Has(outbox, Item(c, LoadMessage))

\* What is broadcast goes to clients with a session.
OutboxInv == \A i \in 1..Len(outbox) : outbox[i].to \in Range(clients)

Ordered(c) == QueueOrder(c) /\ StreamOrder(c) /\ OutboxOrder(c)

\* The attentive players whose process has not ended.
Present(c) == c \in Attentive /\ process[c] # "gone"

OrderInv == \A c \in Client : Present(c) => Ordered(c)

StartInv == OutboxInv /\ OrderInv /\ StartedInOrder

\* Who is at the table when the game is loaded has a session, and it is loaded by
\* the last of those expected.
LoadedInv == /\ loaded \subseteq Range(clients)
             /\ clientCount < ExpectedPlayers => loaded = {}

\* What has been shown before, or is at once.
Known == IInv /\ LobbyInv /\ OnceInv /\ LoadedInv

-----------------------------------------------------------------------------
(* Sequences *)

\* A queue that is empty.
LEMMA EmptyOrder ==
  ASSUME NEW Load, NEW Start
  PROVE  ~Has(<<>>, Load) /\ LoadsFirst(<<>>, Load, Start)
  BY DEF Has, LoadsFirst

\* What a queue that gets longer has.
LEMMA AppendHas ==
  ASSUME NEW S, NEW q \in Seq(S), NEW x \in S, NEW Load
  PROVE  Has(Append(q, x), Load) <=> Has(q, Load) \/ x \in Load
<1>1. /\ Len(q) \in Nat
      /\ Len(Append(q, x)) = Len(q) + 1
      /\ Append(q, x)[Len(q) + 1] = x
      /\ \A i \in 1..Len(q) : Append(q, x)[i] = q[i]
  BY LenProperties, AppendProperties
<1>2. 1..Len(q) + 1 = (1..Len(q)) \cup {Len(q) + 1}
  BY <1>1
<1> QED BY <1>1, <1>2 DEF Has

\* A queue that gets longer stays in order.
LEMMA AppendOrder ==
  ASSUME NEW S, NEW q \in Seq(S), NEW x \in S, NEW Load, NEW Start,
         LoadsFirst(q, Load, Start), x \in Start => Has(q, Load)
  PROVE  LoadsFirst(Append(q, x), Load, Start)
<1>1. /\ Len(q) \in Nat
      /\ Len(Append(q, x)) = Len(q) + 1
      /\ Append(q, x)[Len(q) + 1] = x
      /\ \A i \in 1..Len(q) : Append(q, x)[i] = q[i]
  BY LenProperties, AppendProperties
<1>2. 1..Len(q) + 1 = (1..Len(q)) \cup {Len(q) + 1}
  BY <1>1
<1> QED BY <1>1, <1>2 DEF LoadsFirst, Has

\* What a queue that loses its head still has.
LEMMA TailHas ==
  ASSUME NEW S, NEW q \in Seq(S), q # <<>>, NEW Load
  PROVE  Has(q, Load) <=> Head(q) \in Load \/ Has(Tail(q), Load)
<1>1. /\ Len(q) \in Nat \ {0}
      /\ Len(Tail(q)) = Len(q) - 1
      /\ Head(q) = q[1]
      /\ \A i \in 1..Len(Tail(q)) : Tail(q)[i] = q[i + 1]
  BY LenProperties, HeadTailProperties, EmptySeq
<1>2. \A i \in 1..Len(Tail(q)) : i + 1 \in 1..Len(q)
  BY <1>1
<1>3. \A i \in 1..Len(q) : i # 1 => i - 1 \in 1..Len(Tail(q)) /\ Tail(q)[i - 1] = q[i]
  BY <1>1
<1>4. ASSUME NEW i \in 1..Len(q), q[i] \in Load
      PROVE  Head(q) \in Load \/ Has(Tail(q), Load)
  BY <1>1, <1>3, <1>4 DEF Has
<1>5. Head(q) \in Load => Has(q, Load)
  BY <1>1 DEF Has
<1>6. Has(Tail(q), Load) => Has(q, Load)
  BY <1>1, <1>2 DEF Has
<1> QED BY <1>4, <1>5, <1>6 DEF Has

\* A queue that loses its head, which is no StartGame, stays in order until the
\* LoadGame itself is taken.
LEMMA TailOrder ==
  ASSUME NEW S, NEW q \in Seq(S), q # <<>>, NEW Load, NEW Start,
         LoadsFirst(q, Load, Start)
  PROVE  /\ Head(q) \notin Start
         /\ Head(q) \notin Load => LoadsFirst(Tail(q), Load, Start)
<1>1. /\ Len(q) \in Nat \ {0}
      /\ Len(Tail(q)) = Len(q) - 1
      /\ Head(q) = q[1]
      /\ \A i \in 1..Len(Tail(q)) : Tail(q)[i] = q[i + 1]
  BY LenProperties, HeadTailProperties, EmptySeq
<1>2. \A i \in 1..Len(Tail(q)) : i + 1 \in 1..Len(q)
  BY <1>1
<1>3. \A i \in 1..Len(q) : i # 1 => i - 1 \in 1..Len(Tail(q)) /\ Tail(q)[i - 1] = q[i]
  BY <1>1
<1>4. Head(q) \notin Start
  BY <1>1 DEF LoadsFirst
<1>5. ASSUME Head(q) \notin Load PROVE LoadsFirst(Tail(q), Load, Start)
  <2> SUFFICES ASSUME NEW i \in 1..Len(Tail(q)), Tail(q)[i] \in Start
               PROVE  \E j \in 1..Len(Tail(q)) : j < i /\ Tail(q)[j] \in Load
    BY DEF LoadsFirst
  <2>1. i + 1 \in 1..Len(q) /\ q[i + 1] \in Start
    BY <1>1, <1>2
  <2>2. PICK j \in 1..Len(q) : j < i + 1 /\ q[j] \in Load
    BY <2>1 DEF LoadsFirst
  <2>3. j # 1
    BY <1>1, <1>5, <2>2
  <2>4. j - 1 \in 1..Len(Tail(q)) /\ Tail(q)[j - 1] \in Load /\ j - 1 < i
    BY <1>3, <2>2, <2>3
  <2> QED BY <2>4
<1> QED BY <1>4, <1>5

-----------------------------------------------------------------------------
(* What a step leaves in order *)

\* A player whose messages stay where they are.
LEMMA SameOrder ==
  ASSUME NEW c \in Client, Ordered(c),
         inbox'[c] = inbox[c], toClient'[c] = toClient[c], roundCard'[c] = roundCard[c],
         outbox' = outbox, hostUp' => hostUp
  PROVE  Ordered(c)'
<1>1. QueueOrder(c)'
  BY DEF Ordered, QueueOrder
<1>2. (LoadedQueue(c)' <=> LoadedQueue(c)) /\ (LoadedStream(c)' <=> LoadedStream(c))
  BY DEF LoadedQueue, LoadedStream
<1>3. StreamOrder(c)'
  BY <1>2 DEF Ordered, StreamOrder
<1>4. OutboxOrder(c)'
  BY <1>2 DEF Ordered, OutboxOrder
<1> QED BY <1>1, <1>3, <1>4 DEF Ordered

\* A step that moves no message and no player that is there.
LEMMA FrameStart ==
  ASSUME StartInv, Range(clients) \subseteq Range(clients'),
         UNCHANGED <<outbox, roundCard, inbox, pstate>>,
         hostUp' => hostUp,
         UNCHANGED loaded, missed \subseteq missed',
         \A c \in Client : process'[c] # "gone" =>
                             process[c] # "gone" /\ toClient'[c] = toClient[c]
  PROVE  StartInv'
<1>1. OutboxInv'
  BY DEF StartInv, OutboxInv
<1>2. OrderInv'
  <2> SUFFICES ASSUME NEW c \in Client, Present(c)'
               PROVE  Ordered(c)'
    BY DEF OrderInv
  <2>1. /\ Present(c)
        /\ toClient'[c] = toClient[c]
    BY DEF Present, Attentive
  <2>2. Ordered(c)
    BY <2>1 DEF StartInv, OrderInv
  <2> QED BY <2>1, <2>2, SameOrder
<1>3. StartedInOrder'
  BY DEF StartInv, StartedInOrder, Started, Attentive
<1> QED BY <1>1, <1>2, <1>3 DEF StartInv

\* A message that is written to a player, and is a StartGame only if the LoadGame
\* has been written.
LEMMA SentOrder ==
  ASSUME IInv, NEW c \in Client, QueueOrder(c), StreamOrder(c),
         NEW m \in ShownMessage, m \in StartMessage => LoadedStream(c),
         toClient'[c] = Append(toClient[c], m),
         inbox'[c] = inbox[c], roundCard'[c] = roundCard[c]
  PROVE  /\ QueueOrder(c)' /\ StreamOrder(c)'
         /\ LoadedStream(c)' <=> LoadedStream(c) \/ m \in LoadMessage
<1>1. toClient[c] \in Seq(ShownMessage)
  BY DEF IInv, NetworkInv
<1>2. LoadedQueue(c)' <=> LoadedQueue(c)
  BY DEF LoadedQueue
<1>3. Has(toClient'[c], LoadMessage) <=> Has(toClient[c], LoadMessage) \/ m \in LoadMessage
  BY <1>1, AppendHas
<1>4. LoadedStream(c)' <=> LoadedStream(c) \/ m \in LoadMessage
  BY <1>2, <1>3 DEF LoadedStream
<1>5. StreamOrder(c)'
  <2> SUFFICES ASSUME ~LoadedQueue(c)
               PROVE  LoadsFirst(toClient'[c], LoadMessage, StartMessage)
    BY <1>2 DEF StreamOrder
  <2>1. m \in StartMessage => Has(toClient[c], LoadMessage)
    BY DEF LoadedStream
  <2> QED BY <1>1, <2>1, AppendOrder DEF StreamOrder
<1>6. QueueOrder(c)'
  BY DEF QueueOrder
<1> QED BY <1>4, <1>5, <1>6

-----------------------------------------------------------------------------
(* The steps of a player *)

\* A step of one player that leaves the others and the host as they were.
LEMMA StepOrder ==
  ASSUME StartInv, NEW c \in Client, UNCHANGED <<process, hostVars>>,
         missed \subseteq missed',
         \A d \in Client \ {c} : /\ inbox'[d] = inbox[d]
                                 /\ toClient'[d] = toClient[d]
                                 /\ roundCard'[d] = roundCard[d],
         Present(c)' /\ Ordered(c) => Ordered(c)'
  PROVE  OutboxInv' /\ OrderInv'
<1>1. UNCHANGED <<outbox, clients, loaded, hostUp>>
  BY DEF hostVars
<1>2. ASSUME NEW d \in Client, Present(d)' PROVE Ordered(d)'
  <2>1. Present(d)
    BY <1>1, <1>2 DEF Present, Attentive
  <2>2. Ordered(d)
    BY <2>1 DEF StartInv, OrderInv
  <2>3. CASE d = c
    BY <1>2, <2>2, <2>3
  <2>4. CASE d # c
    BY <1>1, <2>2, <2>4, SameOrder
  <2> QED BY <2>3, <2>4
<1> QED BY <1>1, <1>2 DEF StartInv, OutboxInv, OrderInv

\* A player that handles an event other than a LoadGame, before anything else has
\* been taken off its queue.
LEMMA ReceiveOrder ==
  ASSUME IInv, NEW c \in Client, Ordered(c), NEW event, Receive(c, event),
         event # "SynchronizeGame",
         UNCHANGED <<toClient, roundCard, outbox, hostUp>>
  PROVE  /\ event = "GameStarted" => roundCard[c] # NoCard
         /\ Ordered(c)'
<1>1. /\ inbox[c] \in Seq(ShownEvent)
      /\ inbox[c] # <<>>
      /\ inbox'[c] = Tail(inbox[c])
  BY DEF Receive, IInv, PlayerInv
<1>2. Head(inbox[c]) \in ShownEvent /\ Head(inbox[c]).event = event
  BY <1>1, HeadAndTail DEF Receive
<1>3. /\ Head(inbox[c]) \notin LoadEvent
      /\ event = "GameStarted" => Head(inbox[c]) \in StartEvent
  BY <1>2 DEF LoadEvent, StartEvent
<1>4. event = "GameStarted" => roundCard[c] # NoCard
  BY <1>1, <1>3, TailOrder DEF Ordered, QueueOrder
<1>5. Has(inbox'[c], LoadEvent) <=> Has(inbox[c], LoadEvent)
  BY <1>1, <1>3, TailHas
<1>6. LoadedQueue(c)' <=> LoadedQueue(c)
  BY <1>5 DEF LoadedQueue
<1>7. LoadedStream(c)' <=> LoadedStream(c)
  BY <1>6 DEF LoadedStream
<1>8. QueueOrder(c)'
  <2> SUFFICES ASSUME roundCard[c] = NoCard
               PROVE  LoadsFirst(inbox'[c], LoadEvent, StartEvent)
    BY DEF QueueOrder
  <2> QED BY <1>1, <1>3, TailOrder DEF Ordered, QueueOrder
<1>9. StreamOrder(c)'
  BY <1>6 DEF Ordered, StreamOrder
<1>10. OutboxOrder(c)'
  BY <1>7 DEF Ordered, OutboxOrder
<1> QED BY <1>4, <1>8, <1>9, <1>10 DEF Ordered

\* Events that change nothing of all this.
LEMMA OtherEventStart ==
  ASSUME IInv, StartInv, NEW c \in Client, UNCHANGED hostVars,
         PlayerJoinedUpdated(c) \/ CardsResponse(c)
  PROVE  StartInv'
<1>1. PICK event \in {"PlayerJoined", "CardReceived"} : Receive(c, event)
  BY DEF PlayerJoinedUpdated, CardsResponse
<1>2. /\ UNCHANGED <<process, toClient, roundCard, pstate, missed>>
      /\ \A d \in Client \ {c} : inbox'[d] = inbox[d]
  BY <1>1 DEF PlayerJoinedUpdated, CardsResponse, networkVars, Receive, IInv, PlayerInv
<1>3. UNCHANGED <<outbox, hostUp, loaded>>
  BY DEF hostVars
<1>4. Ordered(c) => Ordered(c)'
  BY <1>1, <1>2, <1>3, ReceiveOrder
<1>5. OutboxInv' /\ OrderInv'
  BY <1>2, <1>4, StepOrder
<1> QED BY <1>2, <1>3, <1>5 DEF StartInv, StartedInOrder, Started, Attentive

\* A StartGame is handled: the LoadGame has been.
LEMMA GameStartedStart ==
  ASSUME IInv, StartInv, NEW c \in Client, UNCHANGED hostVars, GameStarted(c)
  PROVE  StartInv'
<1>1. Receive(c, "GameStarted")
  BY DEF GameStarted
<1>2. /\ UNCHANGED <<process, toClient, roundCard, missed>>
      /\ process[c] = "up"
      /\ \A d \in Client \ {c} : inbox'[d] = inbox[d] /\ pstate'[d] = pstate[d]
  BY <1>1 DEF GameStarted, networkVars, Receive, IInv, PlayerInv
<1>3. UNCHANGED <<outbox, hostUp, loaded>>
  BY DEF hostVars
<1>4. Ordered(c) => Ordered(c)' /\ roundCard[c] # NoCard
  BY <1>1, <1>2, <1>3, ReceiveOrder
<1>5. OutboxInv' /\ OrderInv'
  BY <1>2, <1>4, StepOrder
<1>6. c \in Attentive => roundCard[c] # NoCard
  BY <1>2, <1>4 DEF StartInv, OrderInv, Present
<1>7. StartedInOrder'
  BY <1>2, <1>3, <1>6 DEF StartInv, StartedInOrder, Started, Attentive, IInv, HostInv
<1> QED BY <1>5, <1>7 DEF StartInv

\* A LoadGame is handled: whatever comes after it is in order.
LEMMA SynchronizeGameStart ==
  ASSUME IInv, StartInv, NEW c \in Client, UNCHANGED hostVars, SynchronizeGame(c)
  PROVE  StartInv'
<1>1. /\ UNCHANGED <<process, toClient, pstate, missed>>
      /\ \A d \in Client \ {c} : inbox'[d] = inbox[d] /\ roundCard'[d] = roundCard[d]
  BY DEF SynchronizeGame, Receive, IInv, PlayerInv
<1>2. roundCard'[c] # NoCard
  <2>1. /\ Head(inbox[c]) \in ShownEvent
        /\ Head(inbox[c]).event = "SynchronizeGame"
    BY ReceiveType DEF SynchronizeGame
  <2>2. Head(inbox[c]).msg.card \in GreenCard
    BY <2>1 DEF ShownEvent, ClientEventMessage
  <2> QED BY <2>2, CardAssumption DEF SynchronizeGame, IInv, PlayerInv
<1>3. Ordered(c)'
  BY <1>2 DEF Ordered, QueueOrder, StreamOrder, OutboxOrder, LoadedStream, LoadedQueue
<1>4. OutboxInv' /\ OrderInv'
  BY <1>1, <1>3, StepOrder
<1>5. StartedInOrder'
  BY <1>1, <1>2 DEF StartInv, StartedInOrder, Started, Attentive, hostVars, IInv, HostInv
<1> QED BY <1>4, <1>5 DEF StartInv

\* A player that misses nothing by a read gets one message, which is not spoiled.
LEMMA WholeRead ==
  ASSUME IInv, NEW c \in Client, ClientRead(c), c \notin missed'
  PROVE  LET m == Head(toClient[c])
             e == [event |-> ClientEvent[m.rpc], msg |-> m, spoiled |-> FALSE]
         IN  /\ toClient[c] \in Seq(ShownMessage) /\ toClient[c] # <<>>
             /\ m \in ShownMessage /\ e \in ShownEvent
             /\ toClient' = [toClient EXCEPT ![c] = Tail(toClient[c])]
             /\ inbox' = [inbox EXCEPT ![c] = Append(inbox[c], e)]
<1> DEFINE m == Head(toClient[c])
           e == [event |-> ClientEvent[m.rpc], msg |-> m, spoiled |-> FALSE]
<1>1. PICK k \in ReadSizes(toClient[c]) :
        LET read == Deserialize(SubSeq(toClient[c], 1, k))
        IN  /\ toClient' = [toClient EXCEPT ![c] = Unread(@, k)]
            /\ inbox' = [inbox EXCEPT ![c] =
                           Append(@, [event |-> ClientEvent[read.msg.rpc],
                                      msg |-> read.msg,
                                      spoiled |-> read.spoiled])]
            /\ missed' = IF k > 1 THEN missed \cup {c} ELSE missed
  BY DEF ClientRead
<1>2. toClient[c] \in Seq(ShownMessage)
  BY DEF IInv, NetworkInv
<1>3. k = 1 /\ Len(toClient[c]) \in Nat \ {0}
  BY <1>1, <1>2, LenProperties DEF ReadSizes
<1>4. toClient[c] # <<>> /\ m = toClient[c][1] /\ 1 \in 1..Len(toClient[c])
  BY <1>2, <1>3, EmptySeq
<1>5. Unread(toClient[c], k) = Tail(toClient[c])
  BY <1>2, <1>3 DEF Unread
<1>6. Deserialize(SubSeq(toClient[c], 1, k)).msg = m
  BY <1>2, <1>3, <1>4, HeadTailOfSubSeq DEF Deserialize
<1>7. Deserialize(SubSeq(toClient[c], 1, k)).spoiled = FALSE
  <2>1. Len(SubSeq(toClient[c], 1, k)) = 1
    BY <1>2, <1>3, SubSeqProperties, ElementOfSeq
  <2> DEFINE n == Len(SubSeq(toClient[c], 1, k))
  <2> HIDE DEF n
  <2>2. ~(n > 1)
    <3>1. n = 1
      BY <2>1 DEF n
    <3> QED BY <3>1
  <2>3. ~Deserialize(SubSeq(toClient[c], 1, k)).spoiled
    BY <2>2 DEF Deserialize, n
  <2>4. Deserialize(SubSeq(toClient[c], 1, k)).spoiled \in BOOLEAN
    BY <1>2, ReadOfStream
  <2> QED BY <2>3, <2>4
<1>8. m \in ShownMessage /\ e \in ShownEvent
  BY <1>2, <1>4, HeadAndTail, EventOfMessage
<1>9. toClient' = [toClient EXCEPT ![c] = Tail(toClient[c])]
  BY <1>1, <1>5
<1>10. inbox' = [inbox EXCEPT ![c] = Append(inbox[c], e)]
  BY <1>1, <1>6, <1>7
<1> QED BY <1>2, <1>4, <1>8, <1>9, <1>10

\* A message goes from the stream to the queue; one player misses some, or it is one
\* at a time.
LEMMA ClientReadStart ==
  ASSUME IInv, StartInv, NEW c \in Client, UNCHANGED hostVars, ClientRead(c)
  PROVE  StartInv'
<1>1. /\ UNCHANGED <<process, roundCard, pstate>>
      /\ missed \subseteq missed'
      /\ \A d \in Client \ {c} : inbox'[d] = inbox[d] /\ toClient'[d] = toClient[d]
  BY DEF ClientRead, IInv, NetworkInv, PlayerInv
<1>2. UNCHANGED <<outbox, hostUp, loaded>>
  BY DEF hostVars
<1>3. ASSUME Present(c)', Ordered(c) PROVE Ordered(c)'
  <2>1. c \notin missed'
    BY <1>3 DEF Present, Attentive
  <2> DEFINE m == Head(toClient[c])
             e == [event |-> ClientEvent[m.rpc], msg |-> m, spoiled |-> FALSE]
  <2>2. /\ toClient[c] \in Seq(ShownMessage) /\ toClient[c] # <<>>
        /\ m \in ShownMessage /\ e \in ShownEvent
        /\ toClient' = [toClient EXCEPT ![c] = Tail(toClient[c])]
        /\ inbox' = [inbox EXCEPT ![c] = Append(inbox[c], e)]
    BY <2>1, WholeRead
  <2>3. (e \in LoadEvent <=> m \in LoadMessage) /\ (e \in StartEvent <=> m \in StartMessage)
    BY <2>2 DEF LoadEvent, LoadMessage, StartEvent, StartMessage, ShownMessage,
                ServerMessage, ClientEvent
  <2>4. /\ inbox[c] \in Seq(ShownEvent)
        /\ toClient'[c] = Tail(toClient[c])
        /\ inbox'[c] = Append(inbox[c], e)
    BY <2>2 DEF IInv, NetworkInv, PlayerInv
  <2> HIDE DEF m, e
  <2>5. LoadedQueue(c)' <=> LoadedQueue(c) \/ m \in LoadMessage
    <3>1. Has(inbox'[c], LoadEvent) <=> Has(inbox[c], LoadEvent) \/ e \in LoadEvent
      BY <2>2, <2>4, AppendHas
    <3> QED BY <1>1, <2>3, <3>1 DEF LoadedQueue
  <2>6. LoadedStream(c)' <=> LoadedStream(c)
    <3>1. Has(toClient[c], LoadMessage) <=> m \in LoadMessage \/ Has(toClient'[c], LoadMessage)
      BY <2>2, <2>4, TailHas DEF m
    <3> QED BY <2>5, <3>1 DEF LoadedStream
  <2>7. QueueOrder(c)'
    <3> SUFFICES ASSUME roundCard[c] = NoCard
                 PROVE  LoadsFirst(inbox'[c], LoadEvent, StartEvent)
      BY <1>1 DEF QueueOrder
    <3>1. e \in StartEvent => Has(inbox[c], LoadEvent)
      <4>1. ~LoadedQueue(c) => m \notin StartMessage
        BY <1>3, <2>2, TailOrder DEF Ordered, StreamOrder, m
      <4> QED BY <2>3, <4>1 DEF LoadedQueue
    <3> QED BY <1>3, <2>2, <2>4, <3>1, AppendOrder DEF Ordered, QueueOrder
  <2>8. StreamOrder(c)'
    <3> SUFFICES ASSUME ~LoadedQueue(c), m \notin LoadMessage
                 PROVE  LoadsFirst(toClient'[c], LoadMessage, StartMessage)
      BY <2>5 DEF StreamOrder
    <3> QED BY <1>3, <2>2, <2>4, TailOrder DEF Ordered, StreamOrder, m
  <2>9. OutboxOrder(c)'
    BY <1>2, <1>3, <2>6 DEF Ordered, OutboxOrder
  <2> QED BY <2>7, <2>8, <2>9 DEF Ordered
<1>4. OutboxInv' /\ OrderInv'
  BY <1>1, <1>3, StepOrder
<1> QED BY <1>1, <1>2, <1>4 DEF StartInv, StartedInOrder, Started, Attentive

-----------------------------------------------------------------------------
(* Broadcasts *)

\* Who is written to, and what.
LEMMA BroadcastItem ==
  ASSUME IInv, NEW msgs, outbox' = ToEachClient(msgs)
  PROVE  \A i \in 1..Len(outbox') : /\ outbox'[i].to \in Range(clients) \cap Client
                                    /\ outbox'[i].msg = msgs[outbox'[i].to]
<1>1. Len(clients) \in Nat /\ DOMAIN clients = 1..Len(clients)
      /\ \A i \in 1..Len(clients) : clients[i] \in Client
  BY LenProperties, ElementOfSeq DEF IInv, HostInv
<1>2. DOMAIN outbox' = 1..Len(clients)
  BY DEF ToEachClient
<1>3. outbox' \in [1..Len(clients) -> {outbox'[i] : i \in 1..Len(clients)}]
  BY <1>2 DEF ToEachClient
<1>4. Len(outbox') = Len(clients)
  BY <1>1, <1>2, <1>3, SeqDef, LenProperties
<1> QED BY <1>1, <1>4 DEF ToEachClient, Range

\* A broadcast that starts, when the one before it is done: everyone whose LoadGame
\* is not in this one has had it, or there is none yet.
LEMMA BroadcastStart ==
  ASSUME IInv, IInv', StartInv, outbox = <<>>, NEW msgs, outbox' = ToEachClient(msgs),
         UNCHANGED <<networkVars, playerVars, clients, loaded>>,
         \A c \in Client : Present(c) /\ ~LoadedStream(c) =>
           /\ msgs[c] \notin StartMessage
           /\ hostUp' => Has(outbox', Item(c, LoadMessage))
  PROVE  StartInv'
<1>1. OutboxInv'
  BY BroadcastItem DEF OutboxInv
<1>2. ASSUME NEW c \in Client, Present(c)
      PROVE  Ordered(c)'
  <2>1. Ordered(c)
    BY <1>2 DEF StartInv, OrderInv
  <2>2. QueueOrder(c)' /\ StreamOrder(c)' /\ (LoadedStream(c)' <=> LoadedStream(c))
    BY <2>1 DEF Ordered, QueueOrder, StreamOrder, LoadedStream, LoadedQueue,
                networkVars, playerVars
  <2>3. OutboxOrder(c)'
    <3> SUFFICES ASSUME ~LoadedStream(c)
                 PROVE  /\ ~Has(outbox', Item(c, StartMessage))
                        /\ hostUp' => Has(outbox', Item(c, LoadMessage))
      BY <2>2 DEF OutboxOrder
    <3>1. msgs[c] \notin StartMessage
      BY <1>2
    <3>2. \A i \in 1..Len(outbox') : outbox'[i].to = c => outbox'[i].msg = msgs[c]
      BY BroadcastItem
    <3>3. ~Has(outbox', Item(c, StartMessage))
      BY <3>1, <3>2 DEF Has, Item
    <3> QED BY <1>2, <3>3
  <2> QED BY <2>2, <2>3 DEF Ordered
<1>3. StartedInOrder'
  BY DEF StartInv, StartedInOrder, Started, Attentive, playerVars
<1> QED BY <1>1, <1>2, <1>3 DEF StartInv, OrderInv, Present, Attentive, networkVars,
                                playerVars

\* When no broadcast is under way, everyone who is to be has been written the LoadGame.
LEMMA QuietMeansLoaded ==
  ASSUME StartInv, outbox = <<>>, hostUp, NEW c \in Client, Present(c)
  PROVE  LoadedStream(c)
<1>1. OutboxOrder(c)
  BY DEF StartInv, OrderInv, Ordered
<1> QED BY <1>1, EmptyOrder DEF OutboxOrder

\* The news of who has joined comes after the LoadGame, or to nobody who is to have it.
LEMMA PlayerJoinedUpdateStart ==
  ASSUME IInv, IInv', StartInv, PlayerJoinedUpdate, UNCHANGED playerVars
  PROVE  StartInv'
<1>1. /\ outbox = <<>> /\ hostUp
      /\ outbox' = ToEachClient([c \in Client |-> NewConnection(clientCount')])
      /\ UNCHANGED <<networkVars, clients, loaded>>
  BY DEF PlayerJoinedUpdate, Dispatch
<1>2. \A c \in Client : Present(c) => LoadedStream(c)
  BY <1>1, QuietMeansLoaded
<1> QED BY <1>1, <1>2, BroadcastStart

\* The LoadGame goes to everyone.
LEMMA LoadGameToAll ==
  ASSUME IInv, IInv', NEW c \in Client, c \in Range(clients),
         outbox' = ToEachClient([d \in Client |-> LoadGame(Head(greenDeck))])
  PROVE  Has(outbox', Item(c, LoadMessage))
<1>1. PICK i \in 1..Len(clients) : clients[i] = c
  <2>1. DOMAIN clients = 1..Len(clients)
    BY LenProperties DEF IInv, HostInv
  <2> QED BY <2>1 DEF Range
<1>2. outbox'[i] = [to |-> c, msg |-> LoadGame(Head(greenDeck))]
  BY <1>1 DEF ToEachClient
<1>3. i \in 1..Len(outbox')
  <2>1. Len(clients) \in Nat /\ DOMAIN outbox' = 1..Len(clients)
    BY LenProperties DEF ToEachClient, IInv, HostInv
  <2>2. DOMAIN outbox' = 1..Len(outbox') /\ Len(outbox') \in Nat
    BY LenProperties DEF IInv, HostInv
  <2> QED BY <1>1, <2>1, <2>2
<1>4. outbox'[i] \in ShownItem
  BY <1>3, ElementOfSeq DEF IInv, HostInv
<1>5. outbox'[i] \in Item(c, LoadMessage)
  BY <1>2, <1>4 DEF ShownItem, Item, LoadMessage, LoadGame
<1> QED BY <1>3, <1>5 DEF Has

\* Nothing of the start is anywhere while the lobby is idle.
LEMMA IdleStart ==
  ASSUME Idle, NEW c \in Client
  PROVE  /\ ~Started(c)
         /\ \A i \in 1..Len(inbox[c]) : inbox[c][i] \notin StartEvent
         /\ \A i \in 1..Len(toClient[c]) : toClient[c][i] \notin StartMessage
<1>1. /\ inbox[c] \in Seq(CountEvent)
      /\ toClient[c] \in Seq(CountMessage)
      /\ pstate[c] = "Waiting"
  BY DEF Idle, IdleStreams, IdlePlayers
<1>2. \A i \in 1..Len(inbox[c]) : inbox[c][i] \in CountEvent
  BY <1>1, ElementOfSeq
<1>3. \A i \in 1..Len(toClient[c]) : toClient[c][i] \in CountMessage
  BY <1>1, ElementOfSeq
<1>4. \A e \in CountEvent : e \notin StartEvent
  BY DEF CountEvent, StartEvent
<1>5. \A m \in CountMessage : m \notin StartMessage
  BY DEF CountMessage, StartMessage
<1> QED BY <1>1, <1>2, <1>3, <1>4, <1>5 DEF Started

\* The game is loaded while the lobby is idle, and everyone at the table is told.
LEMMA PlayerJoinedLoadGameStart ==
  ASSUME IInv, IInv', LobbyInv, StartInv, PlayerJoinedLoadGame, UNCHANGED playerVars
  PROVE  StartInv'
<1>1. /\ outbox = <<>> /\ hostUp
      /\ UNCHANGED <<networkVars, clients, inbox, roundCard, pstate, missed>>
  BY DEF PlayerJoinedLoadGame, Dispatch, playerVars
<1>2. CASE greenDeck = <<>>
  <2>1. UNCHANGED <<outbox, loaded>> /\ ~hostUp'
    BY <1>2 DEF PlayerJoinedLoadGame
  <2> QED BY <1>1, <2>1, FrameStart DEF networkVars
<1>3. CASE greenDeck # <<>>
  <2>1. /\ outbox' = ToEachClient([c \in Client |-> LoadGame(Head(greenDeck))])
        /\ loaded' = Range(clients)
    BY <1>3 DEF PlayerJoinedLoadGame
  <2>2. Idle
    <3>1. clientCount < ExpectedPlayers
      BY RulesAssumption DEF PlayerJoinedLoadGame, IInv, HostInv
    <3> QED BY <3>1 DEF LobbyInv
  <2>3. OutboxInv'
    BY <1>1, <2>1, BroadcastItem DEF OutboxInv
  <2>4. ASSUME NEW c \in Client, Present(c)' PROVE Ordered(c)'
    <3>1. c \in Range(clients)
      BY <2>1, <2>4 DEF Present, Attentive
    <3>2. QueueOrder(c)' /\ StreamOrder(c)'
      BY <1>1, <2>2, IdleStart DEF QueueOrder, StreamOrder, LoadsFirst, networkVars
    <3>3. Has(outbox', Item(c, LoadMessage))
      BY <2>1, <3>1, LoadGameToAll
    <3>4. ~Has(outbox', Item(c, StartMessage))
      <4>1. \A i \in 1..Len(outbox') :
              outbox'[i].to = c => outbox'[i].msg = LoadGame(Head(greenDeck))
        BY <2>1, BroadcastItem
      <4>2. LoadGame(Head(greenDeck)) \notin StartMessage
        BY DEF StartMessage, LoadGame
      <4> QED BY <4>1, <4>2 DEF Has, Item
    <3> QED BY <3>2, <3>3, <3>4 DEF Ordered, OutboxOrder
  <2>5. StartedInOrder'
    BY <1>1, <2>2, IdleStart DEF StartedInOrder, Started, Attentive, IInv, HostInv
  <2> QED BY <2>3, <2>4, <2>5 DEF StartInv, OrderInv
<1> QED BY <1>2, <1>3

\* The roles are sent to players that have been written the LoadGame.
LEMMA StartGameMessageStart ==
  ASSUME IInv, IInv', StartInv, StartGameMessage, UNCHANGED playerVars
  PROVE  StartInv'
<1>1. outbox = <<>> /\ hostUp /\ UNCHANGED <<networkVars, clients, loaded>>
  BY DEF StartGameMessage, Dispatch
<1>2. \A c \in Client : Present(c) => LoadedStream(c)
  BY <1>1, QuietMeansLoaded
<1>3. outbox' = ToEachClient([c \in Client |->
                                 StartGame(IF c = judge' THEN "Judge" ELSE "Playing")])
  BY DEF StartGameMessage
<1> QED BY <1>1, <1>2, <1>3, BroadcastStart

\* One turn of a broadcast: the message goes from it to the stream.
LEMMA WriteToClientStart ==
  ASSUME IInv, OnceInv, StartInv, WriteToClient, UNCHANGED playerVars
  PROVE  StartInv'
<1>0. outbox \in Seq(ShownItem) /\ outbox # <<>>
  BY DEF WriteToClient, IInv, HostInv
<1>1. PICK c \in Client, m \in ShownMessage : Head(outbox) = [to |-> c, msg |-> m]
  <2>1. Head(outbox) \in ShownItem
    BY <1>0, HeadAndTail
  <2> QED BY <2>1 DEF ShownItem
<1>2. /\ outbox' = Tail(outbox)
      /\ toClient' = Sent(c, m)
      /\ UNCHANGED <<process, inbox, roundCard, pstate, missed, clients, loaded, hostUp>>
  BY <1>1 DEF WriteToClient, playerVars
<1>3. OutboxInv' /\ c \in Range(clients)
  <2>1. /\ Len(outbox) \in Nat \ {0}
        /\ Len(outbox') = Len(outbox) - 1
        /\ Head(outbox) = outbox[1]
        /\ \A i \in 1..Len(outbox') : outbox'[i] = outbox[i + 1]
    BY <1>0, <1>2, LenProperties, HeadTailProperties, EmptySeq
  <2>2. \A i \in 1..Len(outbox') : i + 1 \in 1..Len(outbox)
    BY <2>1
  <2>3. 1 \in 1..Len(outbox)
    BY <2>1
  <2> QED BY <1>1, <1>2, <2>1, <2>2, <2>3 DEF StartInv, OutboxInv
<1>4. process[c] # "off"
  BY <1>3 DEF OnceInv
<1>5. \A d \in Client \ {c} : toClient'[d] = toClient[d]
  BY <1>2 DEF Sent, IInv, NetworkInv
<1>6. Present(c) => toClient'[c] = Append(toClient[c], m)
  BY <1>2, <1>4 DEF Present, Sent, IInv, NetworkInv
<1>7. ASSUME Present(c) PROVE Ordered(c)'
  <2>1. Ordered(c)
    BY <1>7 DEF StartInv, OrderInv
  <2>2. /\ m \in StartMessage => Head(outbox) \in Item(c, StartMessage)
        /\ m \in LoadMessage <=> Head(outbox) \in Item(c, LoadMessage)
    BY <1>1 DEF Item, ShownItem, StartMessage, LoadMessage
  <2>3. /\ Has(outbox, Item(c, StartMessage))
             <=> \/ Head(outbox) \in Item(c, StartMessage)
                 \/ Has(outbox', Item(c, StartMessage))
        /\ Has(outbox, Item(c, LoadMessage))
             <=> \/ Head(outbox) \in Item(c, LoadMessage)
                 \/ Has(outbox', Item(c, LoadMessage))
    BY <1>0, <1>2, TailHas
  <2>4. m \in StartMessage => LoadedStream(c)
    BY <2>1, <2>2, <2>3 DEF Ordered, OutboxOrder
  <2>5. /\ QueueOrder(c)' /\ StreamOrder(c)'
        /\ LoadedStream(c)' <=> LoadedStream(c) \/ m \in LoadMessage
    BY <1>2, <1>6, <1>7, <2>1, <2>4, SentOrder DEF Ordered
  <2>6. OutboxOrder(c)'
    <3> SUFFICES ASSUME ~LoadedStream(c), m \notin LoadMessage
                 PROVE  /\ ~Has(outbox', Item(c, StartMessage))
                        /\ hostUp => Has(outbox', Item(c, LoadMessage))
      BY <1>2, <2>5 DEF OutboxOrder
    <3> QED BY <2>1, <2>2, <2>3 DEF Ordered, OutboxOrder
  <2> QED BY <2>5, <2>6 DEF Ordered
<1>8. ASSUME NEW d \in Client \ {c}, Present(d) PROVE Ordered(d)'
  <2>1. Ordered(d)
    BY <1>8 DEF StartInv, OrderInv
  <2>2. Head(outbox) \notin Item(d, StartMessage) /\ Head(outbox) \notin Item(d, LoadMessage)
    BY <1>1 DEF Item
  <2>3. /\ Has(outbox, Item(d, StartMessage)) <=> Has(outbox', Item(d, StartMessage))
        /\ Has(outbox, Item(d, LoadMessage)) <=> Has(outbox', Item(d, LoadMessage))
    BY <1>0, <1>2, <2>2, TailHas
  <2>4. QueueOrder(d)' /\ StreamOrder(d)' /\ (LoadedStream(d)' <=> LoadedStream(d))
    BY <1>2, <1>5, <2>1 DEF Ordered, QueueOrder, StreamOrder, LoadedStream, LoadedQueue
  <2>5. OutboxOrder(d)'
    BY <1>2, <2>1, <2>3, <2>4 DEF Ordered, OutboxOrder
  <2> QED BY <2>4, <2>5 DEF Ordered
<1>9. StartedInOrder'
  BY <1>2 DEF StartInv, StartedInOrder, Started, Attentive
<1> QED BY <1>2, <1>3, <1>7, <1>8, <1>9 DEF StartInv, OrderInv, Present, Attentive

\* What is dealt is written to one player, unless the host has ended.
LEMMA DealtMessage ==
  ASSUME IInv, CardRequestEvent
  PROVE  \/ UNCHANGED toClient /\ (hostUp' => hostUp)
         \/ \E c \in Client, m \in ShownMessage :
              /\ m.rpc = "DealCard"
              /\ UNCHANGED hostUp
              /\ \A d \in Client : \/ toClient'[d] = toClient[d]
                                   \/ d = c /\ toClient'[d] = Append(toClient[d], m)
<1> DEFINE c == Head(eventQueue).msg.id
           n == IF Head(eventQueue).msg.amount > 0 THEN Head(eventQueue).msg.amount ELSE 0
           cards == SubSeq(redDeck, 1, n)
<1>1. hostUp /\ DealCards(c, n)
  BY DEF CardRequestEvent, Dispatch
<1>2. \/ Deal(c, cards) /\ UNCHANGED hostUp /\ n <= Len(redDeck)
      \/ UNCHANGED toClient /\ ~hostUp'
  BY <1>1 DEF DealCards
<1>3. CASE Deal(c, cards) /\ UNCHANGED hostUp /\ n <= Len(redDeck)
  <2>1. Head(eventQueue) \in HostEventMessage /\ Head(eventQueue).event = "CardRequest"
    BY DispatchType DEF IInv, CardRequestEvent
  <2>2. c \in Client /\ n \in Nat
    BY <2>1 DEF HostEventMessage
  <2>3. redDeck \in Seq(RedCard)
    BY DEF IInv, HostInv
  <2>4. cards \in Seq(RedCard)
    BY <1>3, <2>2, <2>3, PartOfSeq
  <2> HIDE DEF c, n, cards
  <2>5. PICK tail \in Tails : toClient' = Sent(c, DealCard(cards, tail))
    BY <1>3 DEF Deal
  <2>6. DealCard(cards, tail) \in ShownMessage
    BY <2>4, MessagesShown
  <2>7. PICK m \in ShownMessage : m = DealCard(cards, tail)
    BY <2>6
  <2>8. m.rpc = "DealCard"
    BY <2>7 DEF DealCard
  <2>9. \A d \in Client : \/ toClient'[d] = toClient[d]
                          \/ d = c /\ toClient'[d] = Append(toClient[d], m)
    BY <2>2, <2>5, <2>7 DEF Sent, IInv, NetworkInv
  <2> QED BY <1>3, <2>2, <2>8, <2>9
<1> QED BY <1>1, <1>2, <1>3

\* The cards that are dealt are no message of the start.
LEMMA CardRequestEventStart ==
  ASSUME IInv, IInv', StartInv, CardRequestEvent, UNCHANGED playerVars
  PROVE  StartInv'
<1>1. UNCHANGED <<process, inbox, roundCard, pstate, missed, clients, loaded, outbox>>
  BY DEF CardRequestEvent, Dispatch, playerVars
<1>2. CASE UNCHANGED toClient /\ (hostUp' => hostUp)
  BY <1>1, <1>2, FrameStart
<1>3. ASSUME NEW c \in Client, NEW m \in ShownMessage, m.rpc = "DealCard", UNCHANGED hostUp,
             \A d \in Client : \/ toClient'[d] = toClient[d]
                               \/ d = c /\ toClient'[d] = Append(toClient[d], m)
      PROVE  StartInv'
  <2>1. m \notin StartMessage /\ m \notin LoadMessage
    BY <1>3 DEF StartMessage, LoadMessage
  <2>2. ASSUME NEW d \in Client, Present(d) PROVE Ordered(d)'
    <3>1. Ordered(d)
      BY <2>2 DEF StartInv, OrderInv
    <3>2. CASE toClient'[d] = toClient[d]
      BY <1>1, <1>3, <3>1, <3>2, SameOrder
    <3>3. CASE toClient'[d] = Append(toClient[d], m)
      <4>1. QueueOrder(d)' /\ StreamOrder(d)' /\ (LoadedStream(d)' <=> LoadedStream(d))
        BY <1>1, <2>1, <3>1, <3>3, SentOrder DEF Ordered
      <4>2. OutboxOrder(d)'
        BY <1>1, <1>3, <3>1, <4>1 DEF Ordered, OutboxOrder
      <4> QED BY <4>1, <4>2 DEF Ordered
    <3> QED BY <1>3, <3>2, <3>3
  <2> QED BY <1>1, <2>2 DEF StartInv, OutboxInv, OrderInv, StartedInOrder, Started,
                            Present, Attentive
<1> QED BY <1>2, <1>3, DealtMessage

-----------------------------------------------------------------------------
\* Initially nothing is anywhere.
LEMMA InitStart == Init => StartInv
<1> SUFFICES ASSUME Init PROVE StartInv
  OBVIOUS
<1>1. /\ outbox = <<>>
      /\ Attentive = {}
      /\ \A c \in Client : inbox[c] = <<>> /\ toClient[c] = <<>> /\ pstate[c] = "Waiting"
  BY DEF Attentive, Init, HostInit, NetworkInit, PlayerInit
<1> QED BY <1>1 DEF StartInv, OutboxInv, OrderInv, Present, StartedInOrder

\* Initially the game has not been loaded.
LEMMA InitLoaded == Init => LoadedInv
  BY DEF Init, HostInit, LoadedInv

\* A session that there is stays on the list.
LEMMA SessionsStay ==
  ASSUME IInv, [Next]_vars
  PROVE  Range(clients) \subseteq Range(clients')
<1>1. CASE Accept
  <2>1. Head(backlog) \in Client /\ clients \in Seq(Client)
    BY <1>1, HeadAndTail DEF Accept, IInv, NetworkInv, HostInv
  <2>2. Range(clients') = Range(clients) \cup {Head(backlog)}
    BY <1>1, <2>1, RangeOfAppend DEF Accept
  <2> QED BY <2>2
<1>2. CASE UNCHANGED clients
  BY <1>2
<1> QED BY <1>1, <1>2
        DEF Next, vars, hostVars, SetupHostCallbacks, HostTerminates, Read, ReadEnd,
            PlayerJoinedUpdate, PlayerJoinedLoadGame, CardRequestEvent,
            StartGameMessage, WriteToClient

\* The game is loaded by the step that counts the last of those expected.
LEMMA NextLoaded == IInv /\ LoadedInv /\ [Next]_vars => LoadedInv'
<1> SUFFICES ASSUME IInv, LoadedInv, [Next]_vars PROVE LoadedInv'
  OBVIOUS
<1>1. Range(clients) \subseteq Range(clients')
  BY SessionsStay
<1>2. CASE UNCHANGED loaded
  <2>1. clientCount' < ExpectedPlayers => clientCount < ExpectedPlayers
    BY CountGrows, RulesAssumption DEF IInv, HostInv
  <2> QED BY <1>1, <1>2, <2>1 DEF LoadedInv
<1>3. CASE PlayerJoinedLoadGame /\ ~UNCHANGED loaded
  <2>1. loaded' = Range(clients) /\ clientCount' = ExpectedPlayers
    BY <1>3 DEF PlayerJoinedLoadGame
  <2> QED BY <1>1, <2>1, RulesAssumption DEF LoadedInv
<1> QED BY <1>2, <1>3
        DEF Next, vars, hostVars, Accept, SetupHostCallbacks, HostTerminates, Read,
            ReadEnd, PlayerJoinedUpdate, CardRequestEvent, StartGameMessage,
            WriteToClient

\* A step that moves no message and no player that is there: sessions and processes
\* come and go.
NetworkStep ==
  \/ /\ \/ Accept \/ SetupHostCallbacks \/ HostTerminates
        \/ \E c \in Client : Read(c) \/ ReadEnd(c)
     /\ UNCHANGED playerVars
  \/ (\E c \in Client : Join(c) \/ Quit(c) \/ HostLost(c)) /\ UNCHANGED hostVars

LEMMA NetworkFrame ==
  ASSUME IInv, NetworkStep
  PROVE  /\ UNCHANGED <<outbox, judge, loaded, missed, roundCard, inbox, pstate>>
         /\ hostUp' => hostUp
         /\ \A d \in Client : process'[d] # "gone" =>
                                process[d] # "gone" /\ toClient'[d] = toClient[d]
<1>1. UNCHANGED <<outbox, judge, loaded, missed, roundCard, inbox, pstate>>
  BY DEF NetworkStep, Accept, SetupHostCallbacks, HostTerminates, Read, ReadEnd, Join,
         Connect, Quit, HostLost, End, hostVars, playerVars
<1>2. hostUp' => hostUp
  BY DEF NetworkStep, Accept, SetupHostCallbacks, HostTerminates, Read, ReadEnd, hostVars
<1>3. \A d \in Client : process'[d] # "gone" =>
                          process[d] # "gone" /\ toClient'[d] = toClient[d]
  <2>1. CASE UNCHANGED <<process, toClient>>
    BY <2>1
  <2>2. ASSUME NEW c \in Client, Join(c)
        PROVE  \A d \in Client : process'[d] # "gone" =>
                                   process[d] # "gone" /\ toClient'[d] = toClient[d]
    BY <2>2 DEF Join, Connect, IInv, NetworkInv
  <2>3. ASSUME NEW c \in Client, Quit(c) \/ HostLost(c)
        PROVE  \A d \in Client : process'[d] # "gone" =>
                                   process[d] # "gone" /\ toClient'[d] = toClient[d]
    BY <2>3 DEF Quit, HostLost, End, IInv, NetworkInv
  <2> QED BY <2>1, <2>2, <2>3 DEF NetworkStep, Accept, SetupHostCallbacks,
                                  HostTerminates, Read, ReadEnd, networkVars
<1> QED BY <1>1, <1>2, <1>3

\* Every step keeps the order.
LEMMA NextStart == Known /\ StartInv /\ [Next]_vars => StartInv'
<1> SUFFICES ASSUME Known, StartInv, [Next]_vars PROVE StartInv'
  OBVIOUS
<1>1. IInv /\ IInv' /\ LobbyInv /\ OnceInv
  BY NextIInv DEF Known
<1>2. CASE NetworkStep
  BY <1>1, <1>2, NetworkFrame, SessionsStay, FrameStart
<1>3. CASE PlayerJoinedUpdate /\ UNCHANGED playerVars
  BY <1>1, <1>3, PlayerJoinedUpdateStart
<1>4. CASE PlayerJoinedLoadGame /\ UNCHANGED playerVars
  BY <1>1, <1>4, PlayerJoinedLoadGameStart
<1>5. CASE CardRequestEvent /\ UNCHANGED playerVars
  BY <1>1, <1>5, CardRequestEventStart
<1>6. CASE StartGameMessage /\ UNCHANGED playerVars
  BY <1>1, <1>6, StartGameMessageStart
<1>7. CASE WriteToClient /\ UNCHANGED playerVars
  BY <1>1, <1>7, WriteToClientStart
<1>8. ASSUME NEW c \in Client, ClientRead(c), UNCHANGED hostVars PROVE StartInv'
  BY <1>1, <1>8, ClientReadStart
<1>9. ASSUME NEW c \in Client, PlayerJoinedUpdated(c) \/ CardsResponse(c),
             UNCHANGED hostVars
      PROVE  StartInv'
  BY <1>1, <1>9, OtherEventStart
<1>10. ASSUME NEW c \in Client, SynchronizeGame(c), UNCHANGED hostVars PROVE StartInv'
  BY <1>1, <1>10, SynchronizeGameStart
<1>11. ASSUME NEW c \in Client, GameStarted(c), UNCHANGED hostVars PROVE StartInv'
  BY <1>1, <1>11, GameStartedStart
<1>12. CASE UNCHANGED vars
  BY <1>12, FrameStart DEF vars, networkVars, hostVars, playerVars
<1> QED BY <1>2, <1>3, <1>4, <1>5, <1>6, <1>7, <1>8, <1>9, <1>10, <1>11, <1>12
        DEF Next, NetworkStep

\* All of these hold in every reachable state.
LEMMA StartAlways == Spec => [](Known /\ StartInv)
<1>1. Init => LobbyInv /\ OnceInv /\ LoadedInv
  BY InitIdle, InitOnce, InitLoaded DEF LobbyInv
<1>2. Spec => []LobbyInv
  BY <1>1, IInvAlways, NextLobby, PTL DEF Spec
<1>3. Spec => []OnceInv
  BY <1>1, IInvAlways, NextOnce, PTL DEF Spec
<1>4. Spec => []LoadedInv
  BY <1>1, IInvAlways, NextLoaded, PTL DEF Spec
<1>5. IInv /\ LobbyInv /\ OnceInv /\ LoadedInv => Known
  BY DEF Known
<1>6. Known /\ StartInv /\ [Next]_vars => StartInv'
  BY NextStart
<1> QED BY <1>2, <1>3, <1>4, <1>5, <1>6, IInvAlways, InitStart, PTL DEF Spec

\* Nobody who was at the table when the game was loaded, and has lost no message to a
\* glued read, starts the round before it has been shown the round card and has asked
\* for its cards, whoever joins or ends, and whatever the roles are.
THEOREM StartedInOrderHolds == Spec => []StartedInOrder
<1>1. Known /\ StartInv => StartedInOrder
  BY DEF StartInv
<1> QED BY <1>1, StartAlways, PTL

-----------------------------------------------------------------------------
(* One judge *)

Role(c, j) == IF c = j THEN "Judge" ELSE "Playing"

\* The messages and events that give c its role under the judge j, and those that
\* give it the other.
RightMessage(c, j) == {m \in StartMessage : m.state = Role(c, j)}
WrongMessage(c, j) == StartMessage \ RightMessage(c, j)
RightEvent(c, j)   == {e \in StartEvent : ~e.spoiled /\ e.msg.state = Role(c, j)}
WrongEvent(c, j)   == StartEvent \ RightEvent(c, j)

\* How far the right role has come.
RoleQueue(c, j)  == Started(c) \/ Has(inbox[c], RightEvent(c, j))
RoleStream(c, j) == RoleQueue(c, j) \/ Has(toClient[c], RightMessage(c, j))

QueueRoles(c, j) ==
  ~Started(c) => LoadsFirst(inbox[c], RightEvent(c, j), WrongEvent(c, j))
StreamRoles(c, j) ==
  ~RoleQueue(c, j) => LoadsFirst(toClient[c], RightMessage(c, j), WrongMessage(c, j))
OutboxRoles(c, j) ==
  ~RoleStream(c, j) =>
    /\ ~Has(outbox, Item(c, WrongMessage(c, j)))
    /\ hostUp /\ judge # NoJudge => Has(outbox, Item(c, RightMessage(c, j)))

Roles(c, j) == QueueRoles(c, j) /\ StreamRoles(c, j) /\ OutboxRoles(c, j)

RoleInv(j) ==
  /\ \A c \in Attentive : Started(c) => pstate[c] = Role(c, j)
  /\ \A c \in Client : Present(c) => Roles(c, j)

FirstJudgeInv ==
  /\ judge = NoJudge => \A j \in Client : RoleInv(j)
  /\ judge # NoJudge => \E j \in Range(clients) : RoleInv(j)

-----------------------------------------------------------------------------
(* What a step leaves as it was *)

\* A player whose messages stay where they are.
LEMMA SameRoles ==
  ASSUME NEW c \in Client, NEW j \in Client, Roles(c, j),
         inbox'[c] = inbox[c], toClient'[c] = toClient[c], pstate'[c] = pstate[c],
         UNCHANGED <<outbox, judge>>, hostUp' => hostUp
  PROVE  Roles(c, j)'
<1>1. Started(c)' <=> Started(c)
  BY DEF Started
<1>2. QueueRoles(c, j)'
  BY <1>1 DEF Roles, QueueRoles
<1>3. /\ RoleQueue(c, j)' <=> RoleQueue(c, j)
      /\ RoleStream(c, j)' <=> RoleStream(c, j)
  BY <1>1 DEF RoleQueue, RoleStream
<1>4. StreamRoles(c, j)'
  BY <1>3 DEF Roles, StreamRoles
<1>5. OutboxRoles(c, j)'
  BY <1>3 DEF Roles, OutboxRoles
<1> QED BY <1>2, <1>4, <1>5 DEF Roles

\* A step that moves no message and no player that is there.
LEMMA FrameRoles ==
  ASSUME NEW j \in Client, RoleInv(j), UNCHANGED <<outbox, judge, inbox, pstate>>,
         hostUp' => hostUp,
         UNCHANGED loaded, missed \subseteq missed',
         \A c \in Client : process'[c] # "gone" =>
                             process[c] # "gone" /\ toClient'[c] = toClient[c]
  PROVE  RoleInv(j)'
<1>1. \A c \in Attentive' : Started(c)' => pstate'[c] = Role(c, j)
  BY DEF RoleInv, Started, Attentive
<1>2. ASSUME NEW c \in Client, Present(c)' PROVE Roles(c, j)'
  <2>1. /\ Present(c)
        /\ toClient'[c] = toClient[c]
    BY <1>2 DEF Present, Attentive
  <2>2. Roles(c, j)
    BY <2>1 DEF RoleInv
  <2> QED BY <2>1, <2>2, SameRoles
<1> QED BY <1>1, <1>2 DEF RoleInv

\* A message that is written to a player, with a role that is wrong only if the
\* right one has been written.
LEMMA SentRoles ==
  ASSUME IInv, NEW c \in Client, NEW j \in Client, QueueRoles(c, j), StreamRoles(c, j),
         NEW m \in ShownMessage, m \in WrongMessage(c, j) => RoleStream(c, j),
         toClient'[c] = Append(toClient[c], m),
         inbox'[c] = inbox[c], pstate'[c] = pstate[c]
  PROVE  /\ QueueRoles(c, j)' /\ StreamRoles(c, j)'
         /\ RoleStream(c, j)' <=> RoleStream(c, j) \/ m \in RightMessage(c, j)
<1>1. toClient[c] \in Seq(ShownMessage)
  BY DEF IInv, NetworkInv
<1>2. (Started(c)' <=> Started(c)) /\ (RoleQueue(c, j)' <=> RoleQueue(c, j))
  BY DEF RoleQueue, Started
<1>3. Has(toClient'[c], RightMessage(c, j))
        <=> Has(toClient[c], RightMessage(c, j)) \/ m \in RightMessage(c, j)
  BY <1>1, AppendHas
<1>4. RoleStream(c, j)' <=> RoleStream(c, j) \/ m \in RightMessage(c, j)
  BY <1>2, <1>3 DEF RoleStream
<1>5. StreamRoles(c, j)'
  <2> SUFFICES ASSUME ~RoleQueue(c, j)
               PROVE  LoadsFirst(toClient'[c], RightMessage(c, j), WrongMessage(c, j))
    BY <1>2 DEF StreamRoles
  <2>1. m \in WrongMessage(c, j) => Has(toClient[c], RightMessage(c, j))
    BY DEF RoleStream
  <2> QED BY <1>1, <2>1, AppendOrder DEF StreamRoles
<1>6. QueueRoles(c, j)'
  BY <1>2 DEF QueueRoles
<1> QED BY <1>4, <1>5, <1>6

-----------------------------------------------------------------------------
(* The steps of a player *)

\* A step of one player that leaves the others and the host as they were.
LEMMA StepRoles ==
  ASSUME IInv, NEW j \in Client, RoleInv(j), NEW c \in Client,
         UNCHANGED <<process, hostVars>>, missed \subseteq missed',
         \A d \in Client \ {c} : /\ inbox'[d] = inbox[d]
                                 /\ toClient'[d] = toClient[d]
                                 /\ pstate'[d] = pstate[d],
         c \in Attentive' /\ Started(c)' => pstate'[c] = Role(c, j),
         Present(c)' /\ Roles(c, j) => Roles(c, j)'
  PROVE  RoleInv(j)'
<1>1. UNCHANGED <<outbox, judge, loaded, hostUp>>
  BY DEF hostVars
<1>2. ASSUME NEW d \in Client, Present(d)' PROVE Roles(d, j)'
  <2>1. Present(d)
    BY <1>1, <1>2 DEF Present, Attentive
  <2>2. Roles(d, j)
    BY <2>1 DEF RoleInv
  <2>3. CASE d = c
    BY <1>2, <2>2, <2>3
  <2>4. CASE d # c
    BY <1>1, <2>2, <2>4, SameRoles
  <2> QED BY <2>3, <2>4
<1>3. ASSUME NEW d \in Attentive', Started(d)' PROVE pstate'[d] = Role(d, j)
  <2>1. d \in Client /\ d \in Attentive
    BY <1>1 DEF Attentive, IInv, HostInv
  <2>2. CASE d = c
    BY <1>3, <2>2
  <2>3. CASE d # c
    BY <1>3, <2>1, <2>3 DEF RoleInv, Started
  <2> QED BY <2>2, <2>3
<1> QED BY <1>2, <1>3 DEF RoleInv

\* A player that handles an event, before it has started.
LEMMA ReceiveRoles ==
  ASSUME IInv, NEW j \in Client, RoleInv(j), NEW c \in Client, NEW event,
         Receive(c, event), event # "GameStarted",
         UNCHANGED <<process, toClient, pstate, hostVars>>
  PROVE  RoleInv(j)'
<1>1. /\ inbox[c] \in Seq(ShownEvent)
      /\ inbox[c] # <<>>
      /\ inbox'[c] = Tail(inbox[c])
      /\ \A d \in Client \ {c} : inbox'[d] = inbox[d]
      /\ UNCHANGED missed
      /\ pstate[c] = "Waiting"
  BY DEF Receive, IInv, PlayerInv
<1>2. Head(inbox[c]).event = event
  BY DEF Receive
<1>3. Head(inbox[c]) \notin RightEvent(c, j) /\ Head(inbox[c]) \notin WrongEvent(c, j)
  BY <1>2 DEF RightEvent, WrongEvent, StartEvent
<1>4. (Started(c)' <=> Started(c)) /\ ~Started(c)
  BY <1>1 DEF Started
<1>5. Has(inbox'[c], RightEvent(c, j)) <=> Has(inbox[c], RightEvent(c, j))
  BY <1>1, <1>3, TailHas
<1>6. /\ RoleQueue(c, j)' <=> RoleQueue(c, j)
      /\ RoleStream(c, j)' <=> RoleStream(c, j)
  BY <1>4, <1>5 DEF RoleQueue, RoleStream
<1>7. ASSUME Roles(c, j) PROVE Roles(c, j)'
  <2>1. QueueRoles(c, j)'
    <3> SUFFICES LoadsFirst(inbox'[c], RightEvent(c, j), WrongEvent(c, j))
      BY DEF QueueRoles
    <3> QED BY <1>1, <1>3, <1>4, <1>7, TailOrder DEF Roles, QueueRoles
  <2>2. StreamRoles(c, j)'
    BY <1>6, <1>7 DEF Roles, StreamRoles
  <2>3. OutboxRoles(c, j)'
    BY <1>6, <1>7 DEF Roles, OutboxRoles, hostVars
  <2> QED BY <2>1, <2>2, <2>3 DEF Roles
<1> QED BY <1>1, <1>4, <1>7, StepRoles

\* The first role that a player takes is the right one.
LEMMA GameStartedRoles ==
  ASSUME IInv, NEW j \in Client, RoleInv(j), NEW c \in Client, GameStarted(c),
         UNCHANGED hostVars
  PROVE  RoleInv(j)'
<1>1. /\ inbox[c] \in Seq(ShownEvent)
      /\ inbox[c] # <<>>
      /\ process[c] = "up"
      /\ ~Started(c)
      /\ UNCHANGED <<process, toClient, missed, loaded>>
      /\ \A d \in Client \ {c} : inbox'[d] = inbox[d] /\ pstate'[d] = pstate[d]
  BY DEF GameStarted, Receive, IInv, PlayerInv, Started, networkVars, hostVars
<1>2. Head(inbox[c]) \in ShownEvent /\ Head(inbox[c]).event = "GameStarted"
  BY <1>1, HeadAndTail DEF GameStarted, Receive
<1>3. Head(inbox[c]) \in StartEvent
  BY <1>2 DEF StartEvent
<1>4. ASSUME Roles(c, j) PROVE pstate'[c] = Role(c, j)
  <2>1. Head(inbox[c]) \notin WrongEvent(c, j)
    BY <1>1, <1>4, TailOrder DEF Roles, QueueRoles
  <2>2. ~Head(inbox[c]).spoiled /\ Head(inbox[c]).msg.state = Role(c, j)
    BY <1>3, <2>1 DEF WrongEvent, RightEvent
  <2> QED BY <2>2 DEF GameStarted, IInv, PlayerInv
<1>5. ASSUME Roles(c, j) PROVE Roles(c, j)'
  <2>1. Started(c)'
    BY <1>4, <1>5 DEF Started, Role
  <2> QED BY <2>1 DEF Roles, QueueRoles, StreamRoles, OutboxRoles, RoleStream, RoleQueue
<1>6. c \in Attentive' => Roles(c, j)
  BY <1>1 DEF RoleInv, Present, Attentive
<1> QED BY <1>1, <1>4, <1>5, <1>6, StepRoles

\* A message goes from the stream to the queue; one player misses some, or it is one
\* at a time.
LEMMA ClientReadRoles ==
  ASSUME IInv, NEW j \in Client, RoleInv(j), NEW c \in Client,
         ClientRead(c), UNCHANGED hostVars
  PROVE  RoleInv(j)'
<1>1. /\ UNCHANGED <<process, pstate>>
      /\ missed \subseteq missed'
      /\ \A d \in Client \ {c} : inbox'[d] = inbox[d] /\ toClient'[d] = toClient[d]
  BY DEF ClientRead, IInv, NetworkInv, PlayerInv
<1>2. UNCHANGED <<outbox, judge, hostUp, loaded>>
  BY DEF hostVars
<1>3. ASSUME Present(c)', Roles(c, j) PROVE Roles(c, j)'
  <2>1. c \notin missed'
    BY <1>3 DEF Present, Attentive
  <2> DEFINE m == Head(toClient[c])
             e == [event |-> ClientEvent[m.rpc], msg |-> m, spoiled |-> FALSE]
  <2>2. /\ toClient[c] \in Seq(ShownMessage) /\ toClient[c] # <<>>
        /\ m \in ShownMessage /\ e \in ShownEvent
        /\ toClient' = [toClient EXCEPT ![c] = Tail(toClient[c])]
        /\ inbox' = [inbox EXCEPT ![c] = Append(inbox[c], e)]
    BY <2>1, WholeRead
  <2>3. /\ (e \in RightEvent(c, j) <=> m \in RightMessage(c, j))
        /\ (e \in WrongEvent(c, j) <=> m \in WrongMessage(c, j))
    <3>1. e \in StartEvent <=> m \in StartMessage
      BY <2>2 DEF StartEvent, StartMessage, ShownMessage, ServerMessage, ClientEvent
    <3> QED BY <3>1 DEF RightEvent, RightMessage, WrongEvent, WrongMessage
  <2>4. /\ inbox[c] \in Seq(ShownEvent)
        /\ toClient'[c] = Tail(toClient[c])
        /\ inbox'[c] = Append(inbox[c], e)
    BY <2>2 DEF IInv, NetworkInv, PlayerInv
  <2> HIDE DEF m, e
  <2>5. Started(c)' <=> Started(c)
    BY <1>1 DEF Started
  <2>6. RoleQueue(c, j)' <=> RoleQueue(c, j) \/ m \in RightMessage(c, j)
    <3>1. Has(inbox'[c], RightEvent(c, j))
            <=> Has(inbox[c], RightEvent(c, j)) \/ e \in RightEvent(c, j)
      BY <2>2, <2>4, AppendHas
    <3> QED BY <2>3, <2>5, <3>1 DEF RoleQueue
  <2>7. RoleStream(c, j)' <=> RoleStream(c, j)
    <3>1. Has(toClient[c], RightMessage(c, j))
            <=> m \in RightMessage(c, j) \/ Has(toClient'[c], RightMessage(c, j))
      BY <2>2, <2>4, TailHas DEF m
    <3> QED BY <2>6, <3>1 DEF RoleStream
  <2>8. QueueRoles(c, j)'
    <3> SUFFICES ASSUME ~Started(c)
                 PROVE  LoadsFirst(inbox'[c], RightEvent(c, j), WrongEvent(c, j))
      BY <2>5 DEF QueueRoles
    <3>1. e \in WrongEvent(c, j) => Has(inbox[c], RightEvent(c, j))
      <4>1. ~RoleQueue(c, j) => m \notin WrongMessage(c, j)
        BY <1>3, <2>2, TailOrder DEF Roles, StreamRoles, m
      <4> QED BY <2>3, <4>1 DEF RoleQueue
    <3> QED BY <1>3, <2>2, <2>4, <3>1, AppendOrder DEF Roles, QueueRoles
  <2>9. StreamRoles(c, j)'
    <3> SUFFICES ASSUME ~RoleQueue(c, j), m \notin RightMessage(c, j)
                 PROVE  LoadsFirst(toClient'[c], RightMessage(c, j), WrongMessage(c, j))
      BY <2>6 DEF StreamRoles
    <3> QED BY <1>3, <2>2, <2>4, TailOrder DEF Roles, StreamRoles, m
  <2>10. OutboxRoles(c, j)'
    BY <1>2, <1>3, <2>7 DEF Roles, OutboxRoles
  <2> QED BY <2>8, <2>9, <2>10 DEF Roles
<1>4. c \in Attentive' /\ Started(c)' => pstate'[c] = Role(c, j)
  BY <1>1, <1>2 DEF RoleInv, Started, Attentive
<1> QED BY <1>1, <1>3, <1>4, StepRoles

-----------------------------------------------------------------------------
(* The steps of the host *)

\* When no broadcast is under way and a judge has been picked, everyone has been
\* written the role that judge gives it.
LEMMA QuietMeansRole ==
  ASSUME NEW j \in Client, RoleInv(j), outbox = <<>>, hostUp, judge # NoJudge,
         NEW c \in Client, Present(c)
  PROVE  RoleStream(c, j)
<1>1. OutboxRoles(c, j)
  BY DEF RoleInv, Roles
<1> QED BY <1>1, EmptyOrder DEF OutboxRoles

\* A broadcast that starts with no wrong roles in it, or after everyone has been
\* written the right one.
LEMMA BroadcastRoles ==
  ASSUME IInv, NEW j \in Client, RoleInv(j), NEW msgs, outbox' = ToEachClient(msgs),
         UNCHANGED <<networkVars, playerVars, loaded>>,
         \A c \in Client : Present(c) /\ ~RoleStream(c, j) =>
           /\ msgs[c] \notin WrongMessage(c, j)
           /\ hostUp' /\ judge' # NoJudge => Has(outbox', Item(c, RightMessage(c, j)))
  PROVE  RoleInv(j)'
<1>1. ASSUME NEW c \in Client, Present(c)
      PROVE  Roles(c, j)'
  <2>1. Roles(c, j)
    BY <1>1 DEF RoleInv
  <2>2. (Started(c)' <=> Started(c)) /\ UNCHANGED <<inbox, toClient>>
    BY DEF Started, networkVars, playerVars
  <2>3. QueueRoles(c, j)'
    BY <2>1, <2>2 DEF Roles, QueueRoles
  <2>4. /\ RoleQueue(c, j)' <=> RoleQueue(c, j)
        /\ RoleStream(c, j)' <=> RoleStream(c, j)
    BY <2>2 DEF RoleQueue, RoleStream
  <2>5. StreamRoles(c, j)'
    BY <2>1, <2>2, <2>4 DEF Roles, StreamRoles
  <2>6. OutboxRoles(c, j)'
    <3> SUFFICES ASSUME ~RoleStream(c, j)
                 PROVE  /\ ~Has(outbox', Item(c, WrongMessage(c, j)))
                        /\ hostUp' /\ judge' # NoJudge
                             => Has(outbox', Item(c, RightMessage(c, j)))
      BY <2>4 DEF OutboxRoles
    <3>1. msgs[c] \notin WrongMessage(c, j)
      BY <1>1
    <3>2. \A i \in 1..Len(outbox') : outbox'[i].to = c => outbox'[i].msg = msgs[c]
      BY BroadcastItem
    <3>3. ~Has(outbox', Item(c, WrongMessage(c, j)))
      BY <3>1, <3>2 DEF Has, Item
    <3> QED BY <1>1, <3>3
  <2> QED BY <2>3, <2>5, <2>6 DEF Roles
<1>2. \A c \in Attentive' : Started(c)' => pstate'[c] = Role(c, j)
  BY DEF RoleInv, Started, Attentive, playerVars
<1> QED BY <1>1, <1>2 DEF RoleInv, Present, Attentive, networkVars, playerVars

\* One turn of a broadcast: the message goes from it to the stream.
LEMMA WriteToClientRoles ==
  ASSUME IInv, OnceInv, StartInv, NEW j \in Client, RoleInv(j),
         WriteToClient, UNCHANGED playerVars
  PROVE  RoleInv(j)'
<1>0. outbox \in Seq(ShownItem) /\ outbox # <<>>
  BY DEF WriteToClient, IInv, HostInv
<1>1. PICK c \in Client, m \in ShownMessage : Head(outbox) = [to |-> c, msg |-> m]
  <2>1. Head(outbox) \in ShownItem
    BY <1>0, HeadAndTail
  <2> QED BY <2>1 DEF ShownItem
<1>2. /\ outbox' = Tail(outbox)
      /\ toClient' = Sent(c, m)
      /\ UNCHANGED <<process, inbox, pstate, missed, loaded, judge, hostUp>>
  BY <1>1 DEF WriteToClient, playerVars
<1>3. process[c] # "off"
  <2>1. 1 \in 1..Len(outbox) /\ outbox[1] = Head(outbox)
    BY <1>0, LenProperties, EmptySeq
  <2> QED BY <1>1, <2>1 DEF StartInv, OutboxInv, OnceInv
<1>4. \A d \in Client \ {c} : toClient'[d] = toClient[d]
  BY <1>2 DEF Sent, IInv, NetworkInv
<1>5. Present(c) => toClient'[c] = Append(toClient[c], m)
  BY <1>2, <1>3 DEF Present, Sent, IInv, NetworkInv
<1>6. ASSUME Present(c) PROVE Roles(c, j)'
  <2>1. Roles(c, j)
    BY <1>6 DEF RoleInv
  <2>2. /\ m \in WrongMessage(c, j) => Head(outbox) \in Item(c, WrongMessage(c, j))
        /\ m \in RightMessage(c, j) <=> Head(outbox) \in Item(c, RightMessage(c, j))
    BY <1>1 DEF Item, ShownItem
  <2>3. /\ Has(outbox, Item(c, WrongMessage(c, j)))
             <=> \/ Head(outbox) \in Item(c, WrongMessage(c, j))
                 \/ Has(outbox', Item(c, WrongMessage(c, j)))
        /\ Has(outbox, Item(c, RightMessage(c, j)))
             <=> \/ Head(outbox) \in Item(c, RightMessage(c, j))
                 \/ Has(outbox', Item(c, RightMessage(c, j)))
    BY <1>0, <1>2, TailHas
  <2>4. m \in WrongMessage(c, j) => RoleStream(c, j)
    BY <2>1, <2>2, <2>3 DEF Roles, OutboxRoles
  <2>5. /\ QueueRoles(c, j)' /\ StreamRoles(c, j)'
        /\ RoleStream(c, j)' <=> RoleStream(c, j) \/ m \in RightMessage(c, j)
    BY <1>2, <1>5, <1>6, <2>1, <2>4, SentRoles DEF Roles
  <2>6. OutboxRoles(c, j)'
    <3> SUFFICES ASSUME ~RoleStream(c, j), m \notin RightMessage(c, j)
                 PROVE  /\ ~Has(outbox', Item(c, WrongMessage(c, j)))
                        /\ hostUp /\ judge # NoJudge
                             => Has(outbox', Item(c, RightMessage(c, j)))
      BY <1>2, <2>5 DEF OutboxRoles
    <3> QED BY <2>1, <2>2, <2>3 DEF Roles, OutboxRoles
  <2> QED BY <2>5, <2>6 DEF Roles
<1>7. ASSUME NEW d \in Client \ {c}, Present(d) PROVE Roles(d, j)'
  <2>1. Roles(d, j)
    BY <1>7 DEF RoleInv
  <2>2. /\ Head(outbox) \notin Item(d, WrongMessage(d, j))
        /\ Head(outbox) \notin Item(d, RightMessage(d, j))
    BY <1>1 DEF Item
  <2>3. /\ Has(outbox, Item(d, WrongMessage(d, j)))
             <=> Has(outbox', Item(d, WrongMessage(d, j)))
        /\ Has(outbox, Item(d, RightMessage(d, j)))
             <=> Has(outbox', Item(d, RightMessage(d, j)))
    BY <1>0, <1>2, <2>2, TailHas
  <2>4. Started(d)' <=> Started(d)
    BY <1>2 DEF Started
  <2>5. QueueRoles(d, j)' /\ StreamRoles(d, j)' /\ (RoleStream(d, j)' <=> RoleStream(d, j))
    BY <1>2, <1>4, <2>1, <2>4 DEF Roles, QueueRoles, StreamRoles, RoleStream, RoleQueue
  <2>6. OutboxRoles(d, j)'
    BY <1>2, <2>1, <2>3, <2>5 DEF Roles, OutboxRoles
  <2> QED BY <2>5, <2>6 DEF Roles
<1>8. \A d \in Attentive' : Started(d)' => pstate'[d] = Role(d, j)
  BY <1>2 DEF RoleInv, Started, Attentive
<1> QED BY <1>2, <1>6, <1>7, <1>8 DEF RoleInv, Present, Attentive

\* The cards that are dealt give nobody a role.
LEMMA CardRequestEventRoles ==
  ASSUME IInv, NEW j \in Client, RoleInv(j), CardRequestEvent, UNCHANGED playerVars
  PROVE  RoleInv(j)'
<1>1. UNCHANGED <<process, inbox, pstate, missed, loaded, judge, outbox>>
  BY DEF CardRequestEvent, Dispatch, playerVars
<1>2. CASE UNCHANGED toClient /\ (hostUp' => hostUp)
  BY <1>1, <1>2, FrameRoles
<1>3. ASSUME NEW c \in Client, NEW m \in ShownMessage, m.rpc = "DealCard", UNCHANGED hostUp,
             \A d \in Client : \/ toClient'[d] = toClient[d]
                               \/ d = c /\ toClient'[d] = Append(toClient[d], m)
      PROVE  RoleInv(j)'
  <2>1. m \notin StartMessage
    BY <1>3 DEF StartMessage
  <2>2. ASSUME NEW d \in Client, Present(d) PROVE Roles(d, j)'
    <3>1. Roles(d, j)
      BY <2>2 DEF RoleInv
    <3>2. CASE toClient'[d] = toClient[d]
      BY <1>1, <1>3, <3>1, <3>2, SameRoles
    <3>3. CASE toClient'[d] = Append(toClient[d], m)
      <4>1. m \notin WrongMessage(d, j) /\ m \notin RightMessage(d, j)
        BY <2>1 DEF WrongMessage, RightMessage
      <4>2. QueueRoles(d, j)' /\ StreamRoles(d, j)' /\ (RoleStream(d, j)' <=> RoleStream(d, j))
        BY <1>1, <3>1, <3>3, <4>1, SentRoles DEF Roles
      <4>3. OutboxRoles(d, j)'
        BY <1>1, <1>3, <3>1, <4>2 DEF Roles, OutboxRoles
      <4> QED BY <4>2, <4>3 DEF Roles
    <3> QED BY <1>3, <3>2, <3>3
  <2>3. \A d \in Attentive' : Started(d)' => pstate'[d] = Role(d, j)
    BY <1>1 DEF RoleInv, Started, Attentive
  <2> QED BY <1>1, <2>2, <2>3 DEF RoleInv, Present, Attentive
<1> QED BY <1>2, <1>3, DealtMessage

\* The news of who has joined gives nobody a role.
LEMMA PlayerJoinedUpdateRoles ==
  ASSUME IInv, NEW j \in Client, RoleInv(j), PlayerJoinedUpdate, UNCHANGED playerVars
  PROVE  RoleInv(j)'
<1>1. /\ outbox = <<>> /\ hostUp /\ UNCHANGED <<networkVars, judge, loaded>>
      /\ outbox' = ToEachClient([c \in Client |-> NewConnection(clientCount')])
  BY DEF PlayerJoinedUpdate, Dispatch
<1>2. \A c \in Client : Present(c) /\ ~RoleStream(c, j) => judge = NoJudge
  BY <1>1, QuietMeansRole
<1>3. PICK msgs : msgs = [c \in Client |-> NewConnection(clientCount')]
  OBVIOUS
<1>4. \A c \in Client : msgs[c] \notin WrongMessage(c, j)
  BY <1>3 DEF WrongMessage, StartMessage, NewConnection
<1>5. outbox' = ToEachClient(msgs)
  BY <1>1, <1>3
<1> QED BY <1>1, <1>2, <1>4, <1>5, BroadcastRoles

\* When the game is loaded no judge has been picked, and no role is anywhere.
LEMMA PlayerJoinedLoadGameRoles ==
  ASSUME IInv, LobbyInv, NEW j \in Client, RoleInv(j), PlayerJoinedLoadGame,
         UNCHANGED playerVars
  PROVE  RoleInv(j)'
<1>1. /\ outbox = <<>> /\ hostUp
      /\ UNCHANGED <<networkVars, judge, inbox, pstate, missed>>
  BY DEF PlayerJoinedLoadGame, Dispatch, playerVars
<1>2. CASE greenDeck = <<>>
  <2>1. UNCHANGED <<outbox, loaded>> /\ ~hostUp'
    BY <1>2 DEF PlayerJoinedLoadGame
  <2> QED BY <1>1, <2>1, FrameRoles DEF networkVars
<1>3. CASE greenDeck # <<>>
  <2>1. /\ outbox' = ToEachClient([c \in Client |-> LoadGame(Head(greenDeck))])
        /\ loaded' = Range(clients)
    BY <1>3 DEF PlayerJoinedLoadGame
  <2>2. Idle
    <3>1. clientCount < ExpectedPlayers
      BY RulesAssumption DEF PlayerJoinedLoadGame, IInv, HostInv
    <3> QED BY <3>1 DEF LobbyInv
  <2>3. judge' = NoJudge
    BY <1>1, <2>2 DEF Idle, IdleHost
  <2>4. ASSUME NEW c \in Client PROVE Roles(c, j)'
    <3>1. QueueRoles(c, j)' /\ StreamRoles(c, j)'
      BY <1>1, <2>2, IdleStart
         DEF QueueRoles, StreamRoles, LoadsFirst, WrongEvent, WrongMessage, networkVars
    <3>2. ~Has(outbox', Item(c, WrongMessage(c, j)))
      <4>1. \A i \in 1..Len(outbox') :
              outbox'[i].to = c => outbox'[i].msg = LoadGame(Head(greenDeck))
        BY <2>1, BroadcastItem
      <4>2. LoadGame(Head(greenDeck)) \notin WrongMessage(c, j)
        BY DEF WrongMessage, StartMessage, LoadGame
      <4> QED BY <4>1, <4>2 DEF Has, Item
    <3> QED BY <2>3, <3>1, <3>2 DEF Roles, OutboxRoles
  <2>5. \A c \in Attentive' : ~Started(c)'
    BY <1>1, <2>1, <2>2, IdleStart DEF Started, Attentive, IInv, HostInv, Range
  <2> QED BY <2>4, <2>5 DEF RoleInv
<1> QED BY <1>2, <1>3

\* The roles under j are sent to everyone.
LEMMA BroadcastOfRoles ==
  ASSUME IInv, IInv', NEW j \in Client, NEW c \in Client, c \in Range(clients),
         outbox' = ToEachClient([d \in Client |-> StartGame(Role(d, j))])
  PROVE  Has(outbox', Item(c, RightMessage(c, j)))
<1>1. PICK i \in 1..Len(clients) : clients[i] = c
  <2>1. DOMAIN clients = 1..Len(clients)
    BY LenProperties DEF IInv, HostInv
  <2> QED BY <2>1 DEF Range
<1>2. outbox'[i] = [to |-> c, msg |-> StartGame(Role(c, j))]
  BY <1>1 DEF ToEachClient
<1>3. i \in 1..Len(outbox')
  <2>1. Len(clients) \in Nat /\ DOMAIN outbox' = 1..Len(clients)
    BY LenProperties DEF ToEachClient, IInv, HostInv
  <2>2. DOMAIN outbox' = 1..Len(outbox') /\ Len(outbox') \in Nat
    BY LenProperties DEF IInv, HostInv
  <2> QED BY <1>1, <2>1, <2>2
<1>4. outbox'[i] \in ShownItem
  BY <1>3, ElementOfSeq DEF IInv, HostInv
<1>5. outbox'[i] \in Item(c, RightMessage(c, j))
  BY <1>2, <1>4 DEF ShownItem, Item, RightMessage, StartMessage, StartGame
<1> QED BY <1>3, <1>5 DEF Has

\* The roles that are sent are right for the judge that was picked with them.
LEMMA StartGamePicks ==
  ASSUME IInv, StartGameMessage
  PROVE  \E k \in Client \cap Range(clients) :
           /\ judge' = k
           /\ outbox' = ToEachClient([d \in Client |-> StartGame(Role(d, k))])
<1>1. PICK i \in 1..Len(clients) : judge' = clients[i]
  BY DEF StartGameMessage, PickJudge
<1>2. clients[i] \in Client \cap Range(clients)
  BY ElementOfSeq, LenProperties DEF IInv, HostInv, Range
<1>3. outbox' = ToEachClient([d \in Client |-> StartGame(Role(d, clients[i]))])
  BY <1>1 DEF StartGameMessage, Role
<1> QED BY <1>1, <1>2, <1>3

\* A judge picked after the first one sends its roles to players that have been
\* written theirs.
LEMMA StartGameAgainRoles ==
  ASSUME IInv, NEW j \in Client, RoleInv(j), judge # NoJudge,
         StartGameMessage, UNCHANGED playerVars
  PROVE  RoleInv(j)'
<1>1. outbox = <<>> /\ hostUp /\ UNCHANGED <<networkVars, loaded>>
  BY DEF StartGameMessage, Dispatch
<1>2. \A c \in Client : Present(c) => RoleStream(c, j)
  BY <1>1, QuietMeansRole
<1>3. PICK k \in Client : outbox' = ToEachClient([d \in Client |-> StartGame(Role(d, k))])
  BY StartGamePicks
<1> DEFINE msgs == [d \in Client |-> StartGame(Role(d, k))]
<1>4. outbox' = ToEachClient(msgs)
  BY <1>3
<1> HIDE DEF msgs
<1> QED BY <1>1, <1>2, <1>4, BroadcastRoles

\* The first judge that is picked is the judge for everyone.
LEMMA StartGameFirstRoles ==
  ASSUME IInv, IInv', LoadedInv, judge = NoJudge,
         \A j \in Client : RoleInv(j), StartGameMessage, UNCHANGED playerVars
  PROVE  \E k \in Range(clients) : judge' = k /\ k \in Client /\ RoleInv(k)'
<1>1. UNCHANGED <<networkVars, loaded>>
  BY DEF StartGameMessage
<1>2. PICK k \in Client \cap Range(clients) :
        /\ judge' = k
        /\ outbox' = ToEachClient([d \in Client |-> StartGame(Role(d, k))])
  BY StartGamePicks
<1>3. RoleInv(k)
  OBVIOUS
<1> DEFINE msgs == [d \in Client |-> StartGame(Role(d, k))]
<1>4. ASSUME NEW c \in Client, Present(c)
      PROVE  /\ msgs[c] \notin WrongMessage(c, k)
             /\ Has(outbox', Item(c, RightMessage(c, k)))
  <2>1. msgs[c] \notin WrongMessage(c, k)
    BY DEF WrongMessage, RightMessage, StartGame
  <2>2. c \in Range(clients)
    BY <1>4 DEF Present, Attentive, LoadedInv
  <2> QED BY <1>2, <2>1, <2>2, BroadcastOfRoles
<1>5. outbox' = ToEachClient(msgs)
  BY <1>2
<1> HIDE DEF msgs
<1>6. RoleInv(k)'
  BY <1>1, <1>3, <1>4, <1>5, BroadcastRoles
<1> QED BY <1>2, <1>6

-----------------------------------------------------------------------------
\* Initially nobody has a role, nor is one on the way.
LEMMA InitRoles == Init => FirstJudgeInv
<1> SUFFICES ASSUME Init PROVE FirstJudgeInv
  OBVIOUS
<1>1. Attentive = {} /\ judge = NoJudge
  BY DEF Attentive, Init, HostInit
<1>2. \A j \in Client : RoleInv(j)
  BY <1>1 DEF RoleInv, Present
<1> QED BY <1>1, <1>2 DEF FirstJudgeInv

\* Every step but the first start keeps what holds for a judge.
LEMMA NextRoles ==
  ASSUME Known, StartInv, [Next]_vars, NEW j \in Client, RoleInv(j),
         StartGameMessage /\ UNCHANGED playerVars => judge # NoJudge
  PROVE  RoleInv(j)'
<1>1. IInv /\ LobbyInv /\ OnceInv
  BY DEF Known
<1>2. CASE NetworkStep
  BY <1>1, <1>2, NetworkFrame, FrameRoles
<1>3. CASE PlayerJoinedUpdate /\ UNCHANGED playerVars
  BY <1>1, <1>3, PlayerJoinedUpdateRoles
<1>4. CASE PlayerJoinedLoadGame /\ UNCHANGED playerVars
  BY <1>1, <1>4, PlayerJoinedLoadGameRoles
<1>5. CASE CardRequestEvent /\ UNCHANGED playerVars
  BY <1>1, <1>5, CardRequestEventRoles
<1>6. CASE StartGameMessage /\ UNCHANGED playerVars
  BY <1>1, <1>6, StartGameAgainRoles
<1>7. CASE WriteToClient /\ UNCHANGED playerVars
  BY <1>1, <1>7, WriteToClientRoles
<1>8. ASSUME NEW c \in Client, ClientRead(c), UNCHANGED hostVars PROVE RoleInv(j)'
  BY <1>1, <1>8, ClientReadRoles
<1>9. ASSUME NEW c \in Client, UNCHANGED hostVars,
             PlayerJoinedUpdated(c) \/ SynchronizeGame(c) \/ CardsResponse(c)
      PROVE  RoleInv(j)'
  <2>1. PICK event \in {"PlayerJoined", "SynchronizeGame", "CardReceived"} :
          Receive(c, event)
    BY <1>9 DEF PlayerJoinedUpdated, SynchronizeGame, CardsResponse
  <2>2. UNCHANGED <<process, toClient, pstate>>
    BY <1>9 DEF PlayerJoinedUpdated, SynchronizeGame, CardsResponse, networkVars
  <2> QED BY <1>1, <1>9, <2>1, <2>2, ReceiveRoles
<1>10. ASSUME NEW c \in Client, GameStarted(c), UNCHANGED hostVars PROVE RoleInv(j)'
  BY <1>1, <1>10, GameStartedRoles
<1>11. CASE UNCHANGED vars
  BY <1>11, FrameRoles DEF vars, networkVars, hostVars, playerVars
<1> QED BY <1>2, <1>3, <1>4, <1>5, <1>6, <1>7, <1>8, <1>9, <1>10, <1>11
        DEF Next, NetworkStep

\* The judge that the host has in mind changes with a start only.
LEMMA OnlyStartPicks ==
  ASSUME [Next]_vars
  PROVE  (StartGameMessage /\ UNCHANGED playerVars) \/ UNCHANGED judge
  BY DEF Next, vars, hostVars, Accept, SetupHostCallbacks, HostTerminates, Read, ReadEnd,
         PlayerJoinedUpdate, PlayerJoinedLoadGame, CardRequestEvent, WriteToClient

\* Every step keeps a judge that is the judge for everyone.
LEMMA NextFirstJudge ==
  Known /\ StartInv /\ FirstJudgeInv /\ [Next]_vars => FirstJudgeInv'
<1> SUFFICES ASSUME Known, StartInv, FirstJudgeInv, [Next]_vars
             PROVE  FirstJudgeInv'
  OBVIOUS
<1> DEFINE Start == StartGameMessage /\ UNCHANGED playerVars
<1>1. /\ IInv /\ IInv' /\ LoadedInv
      /\ Range(clients) \subseteq Range(clients')
      /\ Range(clients) \subseteq Client
  <2>1. IInv /\ LoadedInv
    BY DEF Known
  <2>2. Range(clients) \subseteq Client
    BY <2>1, ElementOfSeq, LenProperties DEF IInv, HostInv, Range
  <2> QED BY <2>1, <2>2, NextIInv, SessionsStay
<1>2. CASE Start /\ judge = NoJudge
  <2>1. \A j \in Client : RoleInv(j)
    BY <1>2 DEF FirstJudgeInv
  <2>2. PICK k \in Range(clients) : judge' = k /\ k \in Client /\ RoleInv(k)'
    BY <1>1, <1>2, <2>1, StartGameFirstRoles
  <2>3. judge' # NoJudge
    BY <2>2, NoJudgeAssumption
  <2> QED BY <1>1, <2>2, <2>3 DEF FirstJudgeInv
<1>3. CASE Start => judge # NoJudge
  <2>1. ASSUME NEW j \in Client, RoleInv(j) PROVE RoleInv(j)'
    BY <1>3, <2>1, NextRoles
  <2>2. judge' = NoJudge <=> judge = NoJudge
    <3>1. CASE Start
      <4>1. judge' \in Client
        BY <1>1, <3>1, StartGamePicks
      <4> QED BY <1>3, <3>1, <4>1, NoJudgeAssumption
    <3>2. CASE ~Start
      BY <3>2, OnlyStartPicks
    <3> QED BY <3>1, <3>2
  <2>3. CASE judge = NoJudge
    BY <2>1, <2>2, <2>3 DEF FirstJudgeInv
  <2>4. CASE judge # NoJudge
    BY <1>1, <2>1, <2>2, <2>4 DEF FirstJudgeInv
  <2> QED BY <2>3, <2>4
<1> QED BY <1>2, <1>3

\* With a judge that is the judge for everyone there is one judge.
LEMMA FirstJudgeIsOne == IInv /\ FirstJudgeInv => OneJudge
<1> SUFFICES ASSUME IInv, FirstJudgeInv PROVE OneJudge
  OBVIOUS
<1>1. Range(clients) \subseteq Client
  BY ElementOfSeq, LenProperties DEF IInv, HostInv, Range
<1>2. ASSUME NEW j \in Client, RoleInv(j)
      PROVE  Cardinality(Judges \cap Attentive) <= 1
  <2>1. Judges \cap Attentive \subseteq {j}
    BY <1>2 DEF RoleInv, Judges, Started, Role
  <2>2. IsFiniteSet({j}) /\ Cardinality({j}) = 1
    BY FS_Singleton
  <2>3. /\ Cardinality(Judges \cap Attentive) <= Cardinality({j})
        /\ Cardinality(Judges \cap Attentive) \in Nat
    BY <2>1, <2>2, FS_Subset, FS_CardinalityType
  <2> QED BY <2>2, <2>3
<1>3. Cardinality(Judges \cap Attentive) <= 1
  <2>1. CASE Client = {}
    <3>1. Judges \cap Attentive = {}
      BY <2>1 DEF Judges
    <3> QED BY <3>1, FS_EmptySet
  <2>2. CASE Client # {}
    BY <1>1, <1>2, <2>2 DEF FirstJudgeInv
  <2> QED BY <2>1, <2>2
<1>4. ASSUME clients # <<>>, Range(clients) \subseteq Attentive,
             \A c \in Range(clients) : Started(c)
      PROVE  Judges # {}
  <2>1. PICK j \in Range(clients) : RoleInv(j)
    <3>1. CASE judge = NoJudge
      <4>1. 1 \in DOMAIN clients
        BY <1>4, LenProperties, EmptySeq DEF IInv, HostInv
      <4>2. clients[1] \in Range(clients)
        BY <4>1 DEF Range
      <4> QED BY <1>1, <3>1, <4>2 DEF FirstJudgeInv
    <3>2. CASE judge # NoJudge
      BY <3>2 DEF FirstJudgeInv
    <3> QED BY <3>1, <3>2
  <2>2. j \in Client /\ pstate[j] = "Judge"
    BY <1>1, <1>4, <2>1 DEF RoleInv, Role
  <2> QED BY <2>2 DEF Judges
<1> QED BY <1>3, <1>4 DEF OneJudge

\* Of the players that were at the table when the game was loaded, and have lost no
\* message to a glued read, never two are judges; and if nobody else is there, one is
\* when all have started, although a judge is picked again for every player that
\* reports ready.
THEOREM OneJudgeHolds == Spec => []OneJudge
<1>1. Known /\ StartInv /\ FirstJudgeInv /\ [Next]_vars => FirstJudgeInv'
  BY NextFirstJudge
<1>2. Spec => []FirstJudgeInv
  BY <1>1, InitRoles, StartAlways, PTL DEF Spec
<1>3. IInv /\ FirstJudgeInv => OneJudge
  BY FirstJudgeIsOne
<1> QED BY <1>2, <1>3, IInvAlways, PTL
=============================================================================
