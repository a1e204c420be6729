--------------------------- MODULE JoiningProofs ---------------------------
(***************************************************************************)
(* Theorems about the lobby of CardGame, for every number of clients and   *)
(* of expected players.                                                    *)
(*                                                                         *)
(* JoinAccounting: what the io thread records and what the main thread     *)
(* counts agree, once the events between them are added.  The reason is    *)
(* that nobody is accepted twice: a client connects once and is then       *)
(* either waiting to be accepted or on the list of sessions, in one place. *)
(*                                                                         *)
(* LobbyFirst: until the expected number has been counted, the only thing  *)
(* that is queued, sent or received anywhere is news of who has joined,    *)
(* and no player has anything to answer it with.                           *)
(***************************************************************************)
EXTENDS CardGameProofs, FunctionTheorems, FiniteSetTheorems

\* Where in a queue the events of players that joined are.
Joined(queue) == {i \in 1..Len(queue) : queue[i].event = "PlayerJoined"}

OnceInv ==
  /\ \A i, j \in 1..Len(backlog) : backlog[i] = backlog[j] => i = j
  /\ \A i \in 1..Len(backlog) : /\ backlog[i] \notin Range(clients)
                                /\ process[backlog[i]] # "off"
  /\ \A c \in Range(clients) : process[c] # "off"

CountInv ==
  /\ playerData \subseteq Range(clients)
  /\ IsFiniteSet(playerData)
  /\ clientCount + Cardinality(Joined(eventQueue)) = Cardinality(playerData)

-----------------------------------------------------------------------------
(* Sequences and cardinalities *)

\* The elements of a sequence with one more at its end.
LEMMA RangeOfAppend ==
  ASSUME NEW S, NEW q \in Seq(S), NEW x \in S
  PROVE  Range(Append(q, x)) = Range(q) \cup {x}
<1>1. /\ Len(q) \in Nat
      /\ DOMAIN q = 1..Len(q)
      /\ DOMAIN Append(q, x) = 1..Len(q) + 1
      /\ Append(q, x)[Len(q) + 1] = x
      /\ \A i \in 1..Len(q) : Append(q, x)[i] = q[i]
  BY LenProperties, AppendProperties
<1> QED BY <1>1 DEF Range

\* The joins in a queue can be counted.
LEMMA JoinedFinite ==
  ASSUME NEW S, NEW q \in Seq(S)
  PROVE  IsFiniteSet(Joined(q)) /\ Cardinality(Joined(q)) \in Nat
<1>1. Len(q) \in Nat
  BY LenProperties
<1>2. IsFiniteSet(1..Len(q)) /\ Joined(q) \in SUBSET (1..Len(q))
  BY <1>1, FS_Interval DEF Joined
<1>3. IsFiniteSet(Joined(q))
  BY <1>2, FS_Subset
<1> QED BY <1>3, FS_CardinalityType

\* An event that is stored counts for itself.
LEMMA JoinedAppend ==
  ASSUME NEW S, NEW q \in Seq(S), NEW x \in S
  PROVE  Cardinality(Joined(Append(q, x))) =
           Cardinality(Joined(q)) + (IF x.event = "PlayerJoined" THEN 1 ELSE 0)
<1>1. /\ Len(q) \in Nat
      /\ Len(Append(q, x)) = Len(q) + 1
      /\ Append(q, x)[Len(q) + 1] = x
      /\ \A i \in 1..Len(q) : Append(q, x)[i] = q[i]
  BY LenProperties, AppendProperties
<1>2. IsFiniteSet(Joined(q)) /\ Cardinality(Joined(q)) \in Nat
  BY JoinedFinite
<1>3. CASE x.event = "PlayerJoined"
  <2>1. Joined(Append(q, x)) = Joined(q) \cup {Len(q) + 1}
    BY <1>1, <1>3 DEF Joined
  <2>2. Len(q) + 1 \notin Joined(q)
    BY <1>1 DEF Joined
  <2>3. Cardinality(Joined(q) \cup {Len(q) + 1}) = Cardinality(Joined(q)) + 1
    BY <1>2, <2>2, FS_AddElement
  <2> QED BY <1>3, <2>1, <2>3
<1>4. CASE x.event # "PlayerJoined"
  <2>1. Joined(Append(q, x)) = Joined(q)
    BY <1>1, <1>4 DEF Joined
  <2> QED BY <1>2, <1>4, <2>1
<1> QED BY <1>3, <1>4

\* An event that is taken off leaves the others to be counted.
LEMMA JoinedTail ==
  ASSUME NEW S, NEW q \in Seq(S), q # <<>>
  PROVE  Cardinality(Joined(q)) =
           Cardinality(Joined(Tail(q))) + (IF Head(q).event = "PlayerJoined" THEN 1 ELSE 0)
<1>1. /\ Len(q) \in Nat \ {0}
      /\ Tail(q) \in Seq(S)
      /\ Len(Tail(q)) = Len(q) - 1
      /\ Head(q) = q[1]
      /\ \A i \in 1..Len(Tail(q)) : Tail(q)[i] = q[i + 1]
  BY LenProperties, HeadTailProperties, EmptySeq
<1>2. /\ IsFiniteSet(Joined(q)) /\ Cardinality(Joined(q)) \in Nat
      /\ IsFiniteSet(Joined(Tail(q))) /\ Cardinality(Joined(Tail(q))) \in Nat
  BY <1>1, JoinedFinite
<1> DEFINE Later == Joined(q) \ {1}
           shift == [i \in Joined(Tail(q)) |-> i + 1]
<1>3. shift \in [Joined(Tail(q)) -> Later]
  BY <1>1 DEF Joined
<1>4. \A i, j \in Joined(Tail(q)) : shift[i] = shift[j] => i = j
  BY <1>1 DEF Joined
<1>5. \A k \in Later : \E i \in Joined(Tail(q)) : shift[i] = k
  <2> SUFFICES ASSUME NEW k \in Later
               PROVE  \E i \in Joined(Tail(q)) : shift[i] = k
    OBVIOUS
  <2>1. k \in Int /\ 1 < k /\ k <= Len(q) /\ q[k].event = "PlayerJoined"
    BY <1>1 DEF Joined
  <2>2. k - 1 \in 1..Len(Tail(q)) /\ Tail(q)[k - 1] = q[k]
    BY <1>1, <2>1
  <2>3. k - 1 \in Joined(Tail(q)) /\ shift[k - 1] = k
    BY <2>1, <2>2 DEF Joined
  <2> QED BY <2>3
<1> HIDE DEF Later, shift
<1>6. shift \in Bijection(Joined(Tail(q)), Later)
  BY <1>3, <1>4, <1>5, Fun_IsBij
<1>7. Cardinality(Later) = Cardinality(Joined(Tail(q)))
  BY <1>2, <1>6, FS_Bijection, Fun_ExistsBij
<1>8. Cardinality(Later) = IF 1 \in Joined(q) THEN Cardinality(Joined(q)) - 1
                                              ELSE Cardinality(Joined(q))
  BY <1>2, FS_RemoveElement DEF Later
<1>9. 1 \in Joined(q) <=> Head(q).event = "PlayerJoined"
  BY <1>1 DEF Joined
<1> QED BY <1>2, <1>7, <1>8, <1>9

-----------------------------------------------------------------------------
(* Nobody is accepted twice *)

\* Initially nobody has connected.
LEMMA InitOnce == Init => OnceInv
  BY DEF Init, NetworkInit, HostInit, OnceInv, Range

\* The first of those waiting becomes the last of the sessions.
LEMMA AcceptOnce ==
  ASSUME IInv, OnceInv, Accept
  PROVE  OnceInv'
<1>1. backlog \in Seq(Client) /\ backlog # <<>> /\ clients \in Seq(Client)
  BY DEF IInv, NetworkInv, HostInv, Accept
<1>2. /\ Len(backlog) \in Nat \ {0}
      /\ Len(backlog') = Len(backlog) - 1
      /\ Head(backlog) = backlog[1]
      /\ \A i \in 1..Len(backlog') : backlog'[i] = backlog[i + 1]
  BY <1>1, LenProperties, HeadTailProperties, EmptySeq DEF Accept
<1>3. Range(clients') = Range(clients) \cup {backlog[1]}
  BY <1>1, <1>2, HeadAndTail, RangeOfAppend DEF Accept
<1>4. \A i \in 1..Len(backlog') : i + 1 \in 1..Len(backlog) /\ i + 1 # 1
  BY <1>2
<1>5. 1 \in 1..Len(backlog) /\ UNCHANGED process
  BY <1>2 DEF Accept
<1>6. \A i, j \in 1..Len(backlog') : backlog'[i] = backlog'[j] => i = j
  BY <1>2, <1>4 DEF OnceInv
<1>7. \A i \in 1..Len(backlog') : /\ backlog'[i] \notin Range(clients')
                                  /\ process'[backlog'[i]] # "off"
  BY <1>2, <1>3, <1>4, <1>5 DEF OnceInv
<1>8. \A c \in Range(clients') : process'[c] # "off"
  BY <1>3, <1>5 DEF OnceInv
<1> QED BY <1>6, <1>7, <1>8 DEF OnceInv

\* A client that connects was off, so it neither waits nor has a session.
LEMMA JoinOnce ==
  ASSUME IInv, OnceInv, NEW c \in Client, Join(c), UNCHANGED hostVars
  PROVE  OnceInv'
<1>1. backlog \in Seq(Client) /\ process \in [Client -> {"off", "up", "gone"}]
  BY DEF IInv, NetworkInv
<1>2. /\ process[c] = "off"
      /\ process' = [process EXCEPT ![c] = "up"]
      /\ backlog' = Append(backlog, c)
      /\ UNCHANGED clients
  BY DEF Join, Connect, hostVars
<1>3. /\ Len(backlog) \in Nat
      /\ Len(backlog') = Len(backlog) + 1
      /\ backlog'[Len(backlog) + 1] = c
      /\ \A i \in 1..Len(backlog) : backlog'[i] = backlog[i] /\ backlog[i] \in Client
  BY <1>1, <1>2, LenProperties, AppendProperties, ElementOfSeq
<1>4. \A i \in 1..Len(backlog) : backlog[i] # c
  BY <1>2 DEF OnceInv
<1>5. c \notin Range(clients)
  BY <1>2 DEF OnceInv
<1>6. \A i \in 1..Len(backlog') : i \in 1..Len(backlog) \/ i = Len(backlog) + 1
  BY <1>3
<1>7. \A d \in Range(clients) : d # c /\ process'[d] # "off"
  <2>1. clients \in Seq(Client)
    BY DEF IInv, HostInv
  <2>2. DOMAIN clients = 1..Len(clients)
    BY <2>1, LenProperties
  <2>3. \A i \in 1..Len(clients) : clients[i] \in Client
    BY <2>1, ElementOfSeq
  <2>4. Range(clients) \subseteq Client
    BY <2>2, <2>3 DEF Range
  <2> QED BY <1>1, <1>2, <1>5, <2>4 DEF OnceInv
<1>8. \A i, j \in 1..Len(backlog') : backlog'[i] = backlog'[j] => i = j
  BY <1>3, <1>4, <1>6 DEF OnceInv
<1>9. \A i \in 1..Len(backlog') : /\ backlog'[i] \notin Range(clients)
                                  /\ process'[backlog'[i]] # "off"
  BY <1>1, <1>2, <1>3, <1>4, <1>5, <1>6 DEF OnceInv
<1> QED BY <1>2, <1>7, <1>8, <1>9 DEF OnceInv

\* A process that ends is not off again: it never comes back.
LEMMA EndOnce ==
  ASSUME IInv, OnceInv, NEW c \in Client, End(c), UNCHANGED hostVars
  PROVE  OnceInv'
<1>1. \A d : d \in DOMAIN process /\ process[d] # "off" => process'[d] # "off"
  BY DEF End
<1>2. /\ DOMAIN process = Client
      /\ \A i \in 1..Len(backlog) : backlog[i] \in Client
      /\ Range(clients) \subseteq Client
  <2>1. process \in [Client -> {"off", "up", "gone"}] /\ backlog \in Seq(Client)
    BY DEF IInv, NetworkInv
  <2>2. clients \in Seq(Client)
    BY DEF IInv, HostInv
  <2>3. DOMAIN clients = 1..Len(clients)
    BY <2>2, LenProperties
  <2>4. \A i \in 1..Len(clients) : clients[i] \in Client
    BY <2>2, ElementOfSeq
  <2>5. Range(clients) \subseteq Client
    BY <2>3, <2>4 DEF Range
  <2>6. \A i \in 1..Len(backlog) : backlog[i] \in Client
    BY <2>1, ElementOfSeq
  <2> QED BY <2>1, <2>5, <2>6
<1>3. UNCHANGED <<backlog, clients>>
  BY DEF End, hostVars
<1> QED BY <1>1, <1>2, <1>3 DEF OnceInv

\* Every other step leaves the processes and who waits alone.
LEMMA NextOnce == IInv /\ OnceInv /\ [Next]_vars => OnceInv'
<1> SUFFICES ASSUME IInv, OnceInv, [Next]_vars PROVE OnceInv'
  OBVIOUS
<1>1. CASE Accept
  BY <1>1, AcceptOnce
<1>2. ASSUME NEW c \in Client, UNCHANGED hostVars, Join(c) PROVE OnceInv'
  BY <1>2, JoinOnce
<1>3. ASSUME NEW c \in Client, UNCHANGED hostVars, Quit(c) \/ HostLost(c)
      PROVE  OnceInv'
  BY <1>3, EndOnce DEF Quit, HostLost
<1>4. CASE UNCHANGED <<process, backlog, clients>>
  BY <1>4 DEF OnceInv
<1>5. CASE SetupHostCallbacks \/ HostTerminates \/ WriteToClient
           \/ PlayerJoinedUpdate \/ PlayerJoinedLoadGame \/ CardRequestEvent
           \/ StartGameMessage
  BY <1>4, <1>5 DEF SetupHostCallbacks, HostTerminates, WriteToClient,
     PlayerJoinedUpdate, PlayerJoinedLoadGame, CardRequestEvent, StartGameMessage,
     networkVars
<1>6. ASSUME NEW c \in Client, Read(c) \/ ReadEnd(c) PROVE OnceInv'
  BY <1>4, <1>6 DEF Read, ReadEnd
<1>7. ASSUME NEW c \in Client, UNCHANGED hostVars,
             \/ ClientRead(c) \/ PlayerJoinedUpdated(c) \/ SynchronizeGame(c)
             \/ CardsResponse(c) \/ GameStarted(c)
      PROVE  OnceInv'
  BY <1>4, <1>7 DEF ClientRead, PlayerJoinedUpdated, SynchronizeGame,
     CardsResponse, GameStarted, networkVars, hostVars
<1>8. CASE UNCHANGED vars
  BY <1>4, <1>8 DEF vars, networkVars, hostVars
<1> QED BY <1>1, <1>2, <1>3, <1>5, <1>6, <1>7, <1>8 DEF Next

-----------------------------------------------------------------------------
(* The count *)

\* Initially there is nobody to count.
LEMMA InitCount == Init => CountInv
<1> SUFFICES ASSUME Init PROVE CountInv
  OBVIOUS
<1>1. /\ playerData = {} /\ eventQueue = <<>> /\ clientCount = 0
  BY DEF Init, HostInit
<1>2. Joined(eventQueue) = {}
  BY <1>1 DEF Joined
<1> QED BY <1>1, <1>2, FS_EmptySet DEF CountInv

\* Whoever is accepted is new, so its record and its event count for one each; or
\* it gets neither, when the callback is not registered yet.
LEMMA AcceptCount ==
  ASSUME IInv, OnceInv, CountInv, Accept
  PROVE  CountInv'
<1> DEFINE c == Head(backlog)
           e == [event |-> "PlayerJoined", msg |-> DontCare]
<1>1. /\ c \in Client
      /\ clients \in Seq(Client)
      /\ eventQueue \in Seq(HostEventMessage)
      /\ clientCount \in Nat
      /\ e \in HostEventMessage
  BY HeadAndTail DEF IInv, HostInv, NetworkInv, Accept, HostEventMessage
<1>2. Range(clients') = Range(clients) \cup {c}
  BY <1>1, RangeOfAppend DEF Accept
<1>3. c \notin Range(clients)
  <2>1. backlog # <<>> /\ backlog \in Seq(Client)
    BY DEF Accept, IInv, NetworkInv
  <2>2. c = backlog[1] /\ 1 \in 1..Len(backlog)
    BY <2>1, LenProperties, EmptySeq
  <2> QED BY <2>2 DEF OnceInv
<1>4. UNCHANGED clientCount
  BY DEF Accept
<1> HIDE DEF c
<1>5. CASE playerData' = playerData \cup {c} /\ eventQueue' = Append(eventQueue, e)
  <2>1. c \notin playerData
    BY <1>3 DEF CountInv
  <2>2. IsFiniteSet(playerData') /\ Cardinality(playerData') = Cardinality(playerData) + 1
    BY <1>5, <2>1, FS_AddElement DEF CountInv
  <2>3. e.event = "PlayerJoined"
    OBVIOUS
  <2>4. Cardinality(Joined(Append(eventQueue, e))) =
          Cardinality(Joined(eventQueue)) + (IF e.event = "PlayerJoined" THEN 1 ELSE 0)
    BY <1>1, JoinedAppend
  <2>5. Cardinality(Joined(eventQueue)) \in Nat
    BY <1>1, JoinedFinite
  <2> HIDE DEF e
  <2>6. Cardinality(Joined(eventQueue')) = Cardinality(Joined(eventQueue)) + 1
    BY <1>5, <2>3, <2>4
  <2>7. clientCount' + Cardinality(Joined(eventQueue')) = Cardinality(playerData')
    <3>1. clientCount + Cardinality(Joined(eventQueue)) = Cardinality(playerData)
      BY DEF CountInv
    <3> QED BY <1>1, <1>4, <2>2, <2>5, <2>6, <3>1
  <2>8. playerData' \subseteq Range(clients')
    BY <1>2, <1>5 DEF CountInv
  <2> QED BY <2>2, <2>7, <2>8 DEF CountInv
<1>6. CASE UNCHANGED <<playerData, eventQueue>>
  BY <1>2, <1>4, <1>6 DEF CountInv
<1>7. \/ playerData' = playerData \cup {c} /\ eventQueue' = Append(eventQueue, e)
      \/ UNCHANGED <<playerData, eventQueue>>
  BY DEF Accept, ConnectionEvent, c
<1> QED BY <1>5, <1>6, <1>7

\* A message that is read raises an event of another kind, if any.
LEMMA ReadCount ==
  ASSUME IInv, CountInv, NEW c \in Client, Read(c)
  PROVE  CountInv'
<1>1. PICK k \in ReadSizes(toServer[c]) :
        LET msg == Deserialize(SubSeq(toServer[c], 1, k)).msg
        IN  eventQueue' = IF msg.rpc \in DOMAIN HostEvent
                          THEN Append(eventQueue, [event |-> HostEvent[msg.rpc],
                                                   msg |-> msg])
                          ELSE eventQueue
  BY DEF Read
<1> DEFINE msg == Deserialize(SubSeq(toServer[c], 1, k)).msg
           e == [event |-> HostEvent[msg.rpc], msg |-> msg]
<1>2. msg \in ClientMessage
  BY ReadOfStream DEF IInv, NetworkInv
<1>3. e \in HostEventMessage /\ e.event # "PlayerJoined"
  BY <1>2 DEF ClientMessage, HostEvent, HostEventMessage
<1>4. eventQueue' \in {Append(eventQueue, e), eventQueue}
  BY <1>1
<1>5. eventQueue \in Seq(HostEventMessage)
  BY DEF IInv, HostInv
<1> HIDE DEF e
<1>6. Cardinality(Joined(eventQueue)) \in Nat
  BY <1>5, JoinedFinite
<1>7. Cardinality(Joined(Append(eventQueue, e))) = Cardinality(Joined(eventQueue))
  BY <1>3, <1>5, <1>6, JoinedAppend
<1>8. Cardinality(Joined(eventQueue')) = Cardinality(Joined(eventQueue))
  BY <1>4, <1>7
<1> QED BY <1>8 DEF Read, CountInv

\* An event that is handled is counted if a player joined, and only then.
LEMMA DispatchCount ==
  ASSUME IInv, CountInv, NEW event, Dispatch(event), UNCHANGED <<clients, playerData>>,
         clientCount' = clientCount + (IF event = "PlayerJoined" THEN 1 ELSE 0)
  PROVE  CountInv'
<1>1. /\ eventQueue \in Seq(HostEventMessage)
      /\ eventQueue # <<>>
      /\ eventQueue' = Tail(eventQueue)
      /\ Head(eventQueue).event = event
      /\ clientCount \in Nat
  BY DEF Dispatch, IInv, HostInv
<1>2. Cardinality(Joined(eventQueue)) =
        Cardinality(Joined(eventQueue')) + (IF event = "PlayerJoined" THEN 1 ELSE 0)
  BY <1>1, JoinedTail
<1>3. Cardinality(Joined(eventQueue')) \in Nat
  BY <1>1, HeadAndTail, JoinedFinite
<1> QED BY <1>1, <1>2, <1>3 DEF CountInv

\* Every step keeps the count.
LEMMA NextCount == IInv /\ OnceInv /\ CountInv /\ [Next]_vars => CountInv'
<1> SUFFICES ASSUME IInv, OnceInv, CountInv, [Next]_vars PROVE CountInv'
  OBVIOUS
<1>1. CASE Accept
  BY <1>1, AcceptCount
<1>2. CASE UNCHANGED <<clients, playerData, eventQueue, clientCount>>
  BY <1>2 DEF CountInv
<1>3. CASE SetupHostCallbacks \/ HostTerminates \/ WriteToClient
  BY <1>2, <1>3 DEF SetupHostCallbacks, HostTerminates, WriteToClient
<1>4. CASE PlayerJoinedUpdate \/ PlayerJoinedLoadGame
  BY <1>4, DispatchCount DEF PlayerJoinedUpdate, PlayerJoinedLoadGame
<1>5. CASE CardRequestEvent \/ StartGameMessage
  <2>1. PICK event \in {"CardRequest", "GameStarted"} : Dispatch(event)
    BY <1>5 DEF CardRequestEvent, StartGameMessage
  <2>2. UNCHANGED <<clients, playerData, clientCount>> /\ clientCount \in Nat
    BY <1>5 DEF CardRequestEvent, StartGameMessage, IInv, HostInv
  <2>3. clientCount' = clientCount + (IF event = "PlayerJoined" THEN 1 ELSE 0)
    BY <2>1, <2>2
  <2> QED BY <2>1, <2>2, <2>3, DispatchCount
<1>6. ASSUME NEW c \in Client, Read(c) PROVE CountInv'
  BY <1>6, ReadCount
<1>7. ASSUME NEW c \in Client, ReadEnd(c) PROVE CountInv'
  BY <1>2, <1>7 DEF ReadEnd
<1>8. CASE UNCHANGED hostVars
  BY <1>2, <1>8 DEF hostVars
<1>9. CASE UNCHANGED vars
  BY <1>2, <1>9 DEF vars, hostVars
<1> QED BY <1>1, <1>3, <1>4, <1>5, <1>6, <1>7, <1>8, <1>9 DEF Next

\* What the connection callback records and what playerjoined_event counts agree
\* once the events on the way are added, whoever connects, ends or is reset, and
\* whenever; and every player on record has a session.
THEOREM JoinAccountingHolds == Spec => []JoinAccounting
<1>1. Spec => []OnceInv
  BY InitOnce, IInvAlways, NextOnce, PTL DEF Spec
<1>2. Spec => []CountInv
  BY <1>1, InitCount, IInvAlways, NextCount, PTL DEF Spec
<1>3. CountInv => JoinAccounting
  BY DEF CountInv, Joined, PlayerJoinedQueued, JoinAccounting
<1> QED BY <1>2, <1>3, PTL

-----------------------------------------------------------------------------
(* The lobby *)

\* The messages, broadcasts and events there are before the game is loaded.
CountMessage == [rpc : {"NewConnection"}, count : Nat]
CountItem    == [to : Client, msg : CountMessage]
CountEvent   == [event : {"PlayerJoined"}, spoiled : BOOLEAN, msg : CountMessage]
JoinedEvent  == [event : {"PlayerJoined"}, msg : {DontCare}]

IdleHost ==
  /\ judge = NoJudge
  /\ outbox \in Seq(CountItem)
  /\ eventQueue \in Seq(JoinedEvent)

IdleStreams ==
  /\ \A c \in Client : toServer[c] = <<>>
  /\ \A c \in Client : toClient[c] \in Seq(CountMessage)

IdlePlayers ==
  \A c \in Client : /\ inbox[c] \in Seq(CountEvent)
                    /\ pstate[c] = "Waiting"
                    /\ hand[c] = <<>>
                    /\ roundCard[c] = NoCard

Idle == IdleHost /\ IdleStreams /\ IdlePlayers

LobbyInv == clientCount < ExpectedPlayers => Idle

-----------------------------------------------------------------------------
\* Initially nothing is queued, sent or received at all.
LEMMA InitIdle == Init => Idle
  BY EmptySeq DEF Init, NetworkInit, HostInit, PlayerInit, Idle, IdleHost,
                  IdleStreams, IdlePlayers

\* A new session brings at most the event that someone has joined.
LEMMA AcceptIdle ==
  ASSUME Idle, Accept, UNCHANGED playerVars
  PROVE  Idle'
<1> DEFINE e == [event |-> "PlayerJoined", msg |-> DontCare]
<1>1. e \in JoinedEvent
  BY DEF JoinedEvent
<1>2. eventQueue' \in {Append(eventQueue, e), eventQueue}
  BY DEF Accept, ConnectionEvent
<1>3. eventQueue \in Seq(JoinedEvent)
  BY DEF Idle, IdleHost
<1> HIDE DEF e
<1>4. Append(eventQueue, e) \in Seq(JoinedEvent)
  BY <1>1, <1>3, AppendProperties
<1>5. eventQueue' \in Seq(JoinedEvent)
  BY <1>2, <1>3, <1>4
<1> QED BY <1>5 DEF Accept, playerVars, Idle, IdleHost, IdleStreams, IdlePlayers

\* No player has written anything that could be read.
LEMMA ReadNotIdle ==
  ASSUME Idle, NEW c \in Client, Read(c)
  PROVE  FALSE
<1>1. toServer[c] = <<>>
  BY DEF Idle, IdleStreams
<1>2. ReadSizes(toServer[c]) = {}
  BY <1>1, ReadMaxAssumption DEF ReadSizes
<1> QED BY <1>2 DEF Read

\* A session that ends has nothing left to lose.
LEMMA ReadEndIdle ==
  ASSUME IInv, Idle, NEW c \in Client, ReadEnd(c), UNCHANGED playerVars
  PROVE  Idle'
<1>1. \A d \in Client : toServer'[d] = <<>>
  BY DEF ReadEnd, IInv, NetworkInv, Idle, IdleStreams
<1> QED BY <1>1 DEF ReadEnd, playerVars, Idle, IdleHost, IdleStreams, IdlePlayers

\* Only the event that someone has joined can be handled.
LEMMA DispatchIdle ==
  ASSUME Idle, NEW event, Dispatch(event)
  PROVE  event = "PlayerJoined" /\ eventQueue' \in Seq(JoinedEvent)
<1>1. Head(eventQueue) \in JoinedEvent /\ Tail(eventQueue) \in Seq(JoinedEvent)
  BY HeadAndTail DEF Idle, IdleHost, Dispatch
<1> QED BY <1>1 DEF Dispatch, JoinedEvent

\* What is broadcast while players are missing is how many have been counted.
LEMMA PlayerJoinedUpdateIdle ==
  ASSUME IInv, Idle, PlayerJoinedUpdate, UNCHANGED playerVars
  PROVE  Idle'
<1>1. eventQueue' \in Seq(JoinedEvent)
  BY DispatchIdle DEF PlayerJoinedUpdate
<1>2. clients \in Seq(Client) /\ clientCount' \in Nat
  BY DEF IInv, HostInv, PlayerJoinedUpdate
<1>3. [c \in Client |-> NewConnection(clientCount')] \in [Client -> CountMessage]
  BY <1>2 DEF NewConnection, CountMessage
<1>4. outbox' \in Seq(CountItem)
  BY <1>2, <1>3, BroadcastType DEF PlayerJoinedUpdate, CountItem
<1> QED BY <1>1, <1>4 DEF PlayerJoinedUpdate, networkVars, playerVars,
                          Idle, IdleHost, IdleStreams, IdlePlayers

\* A turn of that broadcast.
LEMMA WriteToClientIdle ==
  ASSUME IInv, Idle, WriteToClient, UNCHANGED playerVars
  PROVE  Idle'
<1>1. Head(outbox) \in CountItem /\ outbox' \in Seq(CountItem)
  BY HeadAndTail DEF Idle, IdleHost, WriteToClient
<1>2. toClient \in [Client -> Seq(CountMessage)]
  BY DEF IInv, NetworkInv, Idle, IdleStreams
<1>3. toClient' \in [Client -> Seq(CountMessage)]
  BY <1>1, <1>2, SentType DEF WriteToClient, CountItem
<1> QED BY <1>1, <1>3 DEF WriteToClient, playerVars, Idle, IdleHost,
                          IdleStreams, IdlePlayers

\* A player that connects, and one that ends.
LEMMA ProcessIdle ==
  ASSUME IInv, Idle, NEW c \in Client, Join(c) \/ End(c), UNCHANGED hostVars
  PROVE  Idle'
<1>1. \A d \in Client : toClient'[d] \in {toClient[d], <<>>}
  BY DEF Join, Connect, End, IInv, NetworkInv
<1>2. \A d \in Client : toClient'[d] \in Seq(CountMessage)
  BY <1>1, EmptySeq DEF Idle, IdleStreams
<1> QED BY <1>2 DEF Join, Connect, End, hostVars, playerVars, Idle, IdleHost,
                    IdleStreams, IdlePlayers

\* What a player reads is such a count, however many of them come at once.
LEMMA ClientReadIdle ==
  ASSUME IInv, Idle, NEW c \in Client, ClientRead(c), UNCHANGED hostVars
  PROVE  Idle'
<1>1. PICK k \in ReadSizes(toClient[c]) :
        LET read == Deserialize(SubSeq(toClient[c], 1, k))
        IN  /\ toClient' = [toClient EXCEPT ![c] = Unread(@, k)]
            /\ inbox' = [inbox EXCEPT ![c] =
                           Append(@, [event |-> ClientEvent[read.msg.rpc],
                                      msg |-> read.msg,
                                      spoiled |-> read.spoiled])]
  BY DEF ClientRead
<1> DEFINE read == Deserialize(SubSeq(toClient[c], 1, k))
           e == [event |-> ClientEvent[read.msg.rpc], msg |-> read.msg,
                 spoiled |-> read.spoiled]
<1>2. toClient[c] \in Seq(CountMessage) /\ inbox[c] \in Seq(CountEvent)
  BY DEF Idle, IdleStreams, IdlePlayers
<1>3. /\ read.msg \in CountMessage
      /\ read.spoiled \in BOOLEAN
      /\ Unread(toClient[c], k) \in Seq(CountMessage)
  BY <1>2, ReadOfStream
<1>4. e \in CountEvent
  BY <1>3 DEF CountMessage, CountEvent, ClientEvent
<1> HIDE DEF e
<1>5. Append(inbox[c], e) \in Seq(CountEvent)
  BY <1>2, <1>4, AppendProperties
<1>6. \A d \in Client : inbox'[d] \in Seq(CountEvent)
  BY <1>1, <1>5 DEF IInv, PlayerInv, Idle, IdlePlayers, e
<1>7. \A d \in Client : toClient'[d] \in Seq(CountMessage)
  BY <1>1, <1>3 DEF IInv, NetworkInv, Idle, IdleStreams
<1> QED BY <1>6, <1>7 DEF ClientRead, hostVars, Idle, IdleHost, IdleStreams,
                          IdlePlayers

\* The only event a player can take off its queue is such a count.
LEMMA ReceiveIdle ==
  ASSUME IInv, Idle, NEW c \in Client, NEW event, Receive(c, event)
  PROVE  /\ event = "PlayerJoined"
         /\ \A d \in Client : inbox'[d] \in Seq(CountEvent)
<1>1. inbox[c] \in Seq(CountEvent) /\ inbox[c] # <<>>
  BY DEF Idle, IdlePlayers, Receive
<1>2. Head(inbox[c]) \in CountEvent /\ Tail(inbox[c]) \in Seq(CountEvent)
  BY <1>1, HeadAndTail
<1>3. event = "PlayerJoined"
  BY <1>2 DEF Receive, CountEvent
<1> QED BY <1>2, <1>3 DEF Receive, IInv, PlayerInv, Idle, IdlePlayers

\* The count is printed, and nothing else happens.
LEMMA PlayerJoinedUpdatedIdle ==
  ASSUME IInv, Idle, NEW c \in Client, PlayerJoinedUpdated(c), UNCHANGED hostVars
  PROVE  Idle'
<1>1. \A d \in Client : inbox'[d] \in Seq(CountEvent)
  BY ReceiveIdle DEF PlayerJoinedUpdated
<1> QED BY <1>1 DEF PlayerJoinedUpdated, networkVars, hostVars, Idle, IdleHost,
                    IdleStreams, IdlePlayers

-----------------------------------------------------------------------------
\* The count only grows, and only by a step that broadcasts it or loads the game.
LEMMA CountGrows ==
  ASSUME IInv, [Next]_vars
  PROVE  clientCount' \in {clientCount, clientCount + 1}
<1>1. CASE UNCHANGED hostVars
  BY <1>1 DEF hostVars
<1>2. CASE PlayerJoinedUpdate \/ PlayerJoinedLoadGame
  BY <1>2 DEF PlayerJoinedUpdate, PlayerJoinedLoadGame
<1>3. CASE Accept \/ SetupHostCallbacks \/ CardRequestEvent \/ StartGameMessage
           \/ WriteToClient \/ HostTerminates \/ \E c \in Client : Read(c) \/ ReadEnd(c)
  BY <1>3 DEF Accept, SetupHostCallbacks, CardRequestEvent, StartGameMessage,
              WriteToClient, HostTerminates, Read, ReadEnd
<1> QED BY <1>1, <1>2, <1>3 DEF Next, vars

\* Every step keeps the lobby idle, or is the one that ends it.
LEMMA NextLobby == IInv /\ LobbyInv /\ [Next]_vars => LobbyInv'
<1> SUFFICES ASSUME IInv, LobbyInv, [Next]_vars, (clientCount < ExpectedPlayers)'
             PROVE  Idle'
  BY DEF LobbyInv
<1>1. Idle
  <2>1. clientCount' \in {clientCount, clientCount + 1}
    BY CountGrows
  <2>2. clientCount \in Nat /\ ExpectedPlayers \in Nat
    BY RulesAssumption DEF IInv, HostInv
  <2>3. clientCount < ExpectedPlayers
    BY <2>1, <2>2
  <2> QED BY <2>3 DEF LobbyInv
<1>2. CASE Accept /\ UNCHANGED playerVars
  BY <1>1, <1>2, AcceptIdle
<1>3. CASE (SetupHostCallbacks \/ HostTerminates) /\ UNCHANGED playerVars
  BY <1>1, <1>3 DEF SetupHostCallbacks, HostTerminates, networkVars, playerVars,
                    Idle, IdleHost, IdleStreams, IdlePlayers
<1>4. CASE PlayerJoinedUpdate /\ UNCHANGED playerVars
  BY <1>1, <1>4, PlayerJoinedUpdateIdle
<1>5. CASE PlayerJoinedLoadGame
  BY <1>5 DEF PlayerJoinedLoadGame
<1>6. CASE CardRequestEvent \/ StartGameMessage
  BY <1>1, <1>6, DispatchIdle DEF CardRequestEvent, StartGameMessage
<1>7. CASE WriteToClient /\ UNCHANGED playerVars
  BY <1>1, <1>7, WriteToClientIdle
<1>8. ASSUME NEW c \in Client, Read(c) \/ ReadEnd(c), UNCHANGED playerVars
      PROVE  Idle'
  BY <1>1, <1>8, ReadNotIdle, ReadEndIdle
<1>9. ASSUME NEW c \in Client, UNCHANGED hostVars,
             Join(c) \/ Quit(c) \/ HostLost(c) \/ ClientRead(c)
      PROVE  Idle'
  BY <1>1, <1>9, ProcessIdle, ClientReadIdle DEF Quit, HostLost
<1>10. ASSUME NEW c \in Client, UNCHANGED hostVars, PlayerJoinedUpdated(c)
       PROVE  Idle'
  BY <1>1, <1>10, PlayerJoinedUpdatedIdle
<1>11. ASSUME NEW c \in Client,
              SynchronizeGame(c) \/ CardsResponse(c) \/ GameStarted(c)
       PROVE  Idle'
  <2>1. PICK event \in {"SynchronizeGame", "CardReceived", "GameStarted"} :
          Receive(c, event)
    BY <1>11 DEF SynchronizeGame, CardsResponse, GameStarted
  <2> QED BY <1>1, <2>1, ReceiveIdle
<1>12. CASE UNCHANGED vars
  BY <1>1, <1>12 DEF vars, networkVars, hostVars, playerVars, Idle, IdleHost,
                     IdleStreams, IdlePlayers
<1> QED BY <1>2, <1>3, <1>4, <1>5, <1>6, <1>7, <1>8, <1>9, <1>10, <1>11, <1>12
        DEF Next

\* Until playerjoined_event has counted the expected number of players, no judge
\* is picked, no card is shown or dealt, and nobody starts, whatever is sent and
\* however it is read.
THEOREM LobbyFirstHolds == Spec => []LobbyFirst
<1>1. Init => LobbyInv
  BY InitIdle DEF LobbyInv
<1>2. Spec => []LobbyInv
  BY <1>1, IInvAlways, NextLobby, PTL DEF Spec
<1>3. LobbyInv => LobbyFirst
  BY DEF LobbyInv, Idle, IdleHost, IdlePlayers, LobbyFirst, Started
<1> QED BY <1>2, <1>3, PTL
=============================================================================
