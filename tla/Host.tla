-------------------------------- MODULE Host --------------------------------
(***************************************************************************)
(* The host process: Core::Host with its Network::Server, the session of   *)
(* each client (SessionConnection), and the game loop.                     *)
(*                                                                         *)
(* Two threads.  The io thread accepts connections and reads the sockets;  *)
(* it starts before the callbacks are registered (Game::create_session).   *)
(* The main thread registers the callbacks and then loops, handing the     *)
(* event at the front of the queue to its callback.  EventHandler.tla      *)
(* shows that taking an event is as good as atomic, so a callback is one   *)
(* action here, except that a broadcast writes to one client per step.     *)
(***************************************************************************)
EXTENDS Network

CONSTANTS RedDeck,          \* the lines of redApples.txt, as shuffled
          GreenDeck,        \* the lines of greenApples.txt, as shuffled
          MissingFiles,     \* TRUE: the card files may fail to open
          ExpectedPlayers,  \* GameRules::expected_players
          NoJudge           \* judge_idx_iter before the first pick

ASSUME DeckAssumption == /\ RedDeck \in Seq(RedCard)
                         /\ GreenDeck \in Seq(GreenCard)
ASSUME RulesAssumption == ExpectedPlayers \in Nat \ {0}
ASSUME NoJudgeAssumption == NoJudge \notin Client
ASSUME MissingFilesAssumption == MissingFiles \in BOOLEAN

VARIABLES hostUp,        \* the process has not been terminated
          callbackSet,   \* setup_host_callbacks has run
          clients,       \* Server::clients, in the order of accept
          reading,       \* the clients whose session has a read pending
          playerData,    \* the keys of GameState::player_data
          eventQueue,    \* EventHandler::eventmsg_queue of the host
          clientCount,   \* Host::client_count
          redDeck,       \* Host::red_deck
          greenDeck,     \* Host::green_deck
          judge,         \* the client judge_idx_iter points to
          outbox,        \* what is left of the range-for that broadcasts
          loaded,        \* history: the clients there were when the game was loaded
          dealt          \* history: the cards dealt to each client, in order

historyVars == <<loaded, dealt>>
hostVars == <<hostUp, callbackSet, clients, reading, playerData, eventQueue,
              clientCount, redDeck, greenDeck, judge, outbox, historyVars>>

HostEventMessage ==
       [event : {"PlayerJoined"}, msg : {DontCare}]
  \cup [event : {"CardRequest"}, msg : [rpc : {"DealCard"}, id : Client, amount : Int]]
  \cup [event : {"GameStarted"}, msg : [rpc : {"StartGame"}, id : Client]]

HostTypeOK ==
  /\ hostUp \in BOOLEAN
  /\ callbackSet \in BOOLEAN
  /\ clients \in Seq(Client)
  /\ reading \subseteq Client
  /\ playerData \subseteq Client
  /\ eventQueue \in Seq(HostEventMessage)
  /\ clientCount \in Nat
  /\ redDeck \in Seq(RedCard)
  /\ greenDeck \in Seq(GreenCard)
  /\ judge \in Client \cup {NoJudge}
  /\ outbox \in Seq([to : Client, msg : ServerMessage])
  /\ loaded \subseteq Client
  /\ dealt \in [Client -> Seq(RedCard)]

\* The server listens before anything else can happen.  A card file that does
\* not open is only logged and leaves its deck empty.
HostInit ==
  /\ hostUp = TRUE
  /\ callbackSet = FALSE
  /\ clients = <<>>
  /\ reading = {}
  /\ playerData = {}
  /\ eventQueue = <<>>
  /\ clientCount = 0
  /\ redDeck \in {RedDeck} \cup (IF MissingFiles THEN {<<>>} ELSE {})
  /\ greenDeck \in {GreenDeck} \cup (IF MissingFiles THEN {<<>>} ELSE {})
  /\ judge = NoJudge
  /\ outbox = <<>>
  /\ loaded = {}
  /\ dealt = [c \in Client |-> <<>>]

-----------------------------------------------------------------------------
(* io thread *)

\* Mutant: the record is made whether or not the callback is set.
ConnectionEventUnchecked(c) ==
  /\ playerData' = playerData \cup {c}
  /\ eventQueue' = IF callbackSet
                   THEN Append(eventQueue,
                               [event |-> "PlayerJoined", msg |-> DontCare])
                   ELSE eventQueue

\* The connection callback: a record for the player and an event for the loop.
ConnectionEvent(c) ==
  \/ /\ callbackSet
     /\ playerData' = playerData \cup {c}
     /\ eventQueue' = Append(eventQueue,
                             [event |-> "PlayerJoined", msg |-> DontCare])
  \/ /\ ~callbackSet
     /\ UNCHANGED <<playerData, eventQueue>>

\* The handler of async_accept.
Accept ==
  /\ hostUp
  /\ backlog # <<>>
  /\ clients' = Append(clients, Head(backlog))
  /\ backlog' = Tail(backlog)
  /\ ConnectionEvent(Head(backlog))
  /\ reading' = reading \cup {Head(backlog)}
  /\ UNCHANGED <<process, toServer, toClient, hostUp, callbackSet, clientCount,
                 redDeck, greenDeck, judge, outbox, historyVars>>

\* The handler of async_read_some: k messages came in, one is decoded, and it
\* raises its event, if it has one.
Read(c) ==
  /\ hostUp
  /\ c \in reading
  /\ \E k \in ReadSizes(toServer[c]) :
       LET msg == Deserialize(SubSeq(toServer[c], 1, k)).msg
       IN  /\ toServer' = [toServer EXCEPT ![c] = Unread(@, k)]
           /\ eventQueue' = IF msg.rpc \in DOMAIN HostEvent
                            THEN Append(eventQueue, [event |-> HostEvent[msg.rpc],
                                                     msg |-> msg])
                            ELSE eventQueue
  /\ UNCHANGED <<process, backlog, toClient, hostUp, callbackSet, clients,
                 reading, playerData, clientCount, redDeck, greenDeck, judge,
                 outbox, historyVars>>

\* Mutant: it also forgets the session.
ReadEndErase(c) ==
  /\ hostUp
  /\ c \in reading
  /\ process[c] = "gone"
  /\ reading' = reading \ {c}
  /\ clients' = SelectSeq(clients, LAMBDA d : d # c)
  /\ toServer' = [toServer EXCEPT ![c] = <<>>]
  /\ UNCHANGED <<process, backlog, toClient, hostUp, callbackSet, playerData,
                 eventQueue, clientCount, redDeck, greenDeck, judge, outbox, historyVars>>

\* The same handler on end of file or an error (which may come before all that
\* was written has been read): the session stops reading.  Its client stays in
\* clients and in client_count.
ReadEnd(c) ==
  /\ hostUp
  /\ c \in reading
  /\ process[c] = "gone"
  /\ reading' = reading \ {c}
  /\ toServer' = [toServer EXCEPT ![c] = <<>>]
  /\ UNCHANGED <<process, backlog, toClient, hostUp, callbackSet, clients,
                 playerData, eventQueue, clientCount, redDeck, greenDeck, judge,
                 outbox, historyVars>>

-----------------------------------------------------------------------------
(* main thread *)

\* setup_host_callbacks; the game loop starts right after it.
SetupHostCallbacks ==
  /\ hostUp
  /\ ~callbackSet
  /\ callbackSet' = TRUE
  /\ UNCHANGED <<networkVars, hostUp, clients, reading, playerData, eventQueue,
                 clientCount, redDeck, greenDeck, judge, outbox, historyVars>>

\* process_events finds event at the front and its callback takes it off.
Dispatch(event) ==
  /\ hostUp
  /\ callbackSet
  /\ outbox = <<>>
  /\ eventQueue # <<>>
  /\ Head(eventQueue).event = event
  /\ eventQueue' = Tail(eventQueue)

\* for (auto& client : server->get_clients()) client->write_to_client(...)
ToEachClient(msgs) ==
  [i \in 1..Len(clients) |-> [to |-> clients[i], msg |-> msgs[clients[i]]]]

\* playerjoined_event while the number of players is not the expected one.
PlayerJoinedUpdate ==
  /\ Dispatch("PlayerJoined")
  /\ clientCount' = clientCount + 1
  /\ clientCount' # ExpectedPlayers
  /\ outbox' = ToEachClient([c \in Client |-> NewConnection(clientCount')])
  /\ UNCHANGED <<networkVars, hostUp, callbackSet, clients, reading, playerData,
                 redDeck, greenDeck, judge, historyVars>>

\* Mutant: any number from the expected one on.
PlayerJoinedLoadGameAgain ==
  /\ Dispatch("PlayerJoined")
  /\ clientCount' = clientCount + 1
  /\ clientCount' >= ExpectedPlayers
  /\ greenDeck # <<>>
  /\ greenDeck' = Tail(greenDeck)
  /\ outbox' = ToEachClient([c \in Client |-> LoadGame(Head(greenDeck))])
  /\ loaded' = Range(clients)
  /\ UNCHANGED <<networkVars, hostUp, callbackSet, clients, reading, playerData,
                 redDeck, judge, dealt>>

\* Mutant: only the client that joined last is told to load the game.
PlayerJoinedLoadGameLast ==
  /\ Dispatch("PlayerJoined")
  /\ clientCount' = clientCount + 1
  /\ clientCount' = ExpectedPlayers
  /\ greenDeck # <<>>
  /\ greenDeck' = Tail(greenDeck)
  /\ outbox' = <<[to |-> clients[Len(clients)], msg |-> LoadGame(Head(greenDeck))]>>
  /\ loaded' = Range(clients)
  /\ UNCHANGED <<networkVars, hostUp, callbackSet, clients, reading, playerData,
                 redDeck, judge, dealt>>

\* Mutant: the sessions are counted instead of the players.
PlayerJoinedLoadGameSessions ==
  /\ Dispatch("PlayerJoined")
  /\ clientCount' = clientCount + 1
  /\ Len(clients) = ExpectedPlayers
  /\ greenDeck # <<>>
  /\ greenDeck' = Tail(greenDeck)
  /\ outbox' = ToEachClient([c \in Client |-> LoadGame(Head(greenDeck))])
  /\ loaded' = Range(clients)
  /\ UNCHANGED <<networkVars, hostUp, callbackSet, clients, reading, playerData,
                 redDeck, judge, dealt>>

\* playerjoined_event when it is: GameReady, whose callback is loadgame_request.
\* Taking a card from an empty deck reads through a null pointer.
PlayerJoinedLoadGame ==
  /\ Dispatch("PlayerJoined")
  /\ clientCount' = clientCount + 1
  /\ clientCount' = ExpectedPlayers
  /\ \/ /\ greenDeck # <<>>
        /\ greenDeck' = Tail(greenDeck)
        /\ outbox' = ToEachClient([c \in Client |-> LoadGame(Head(greenDeck))])
        /\ loaded' = Range(clients)
        /\ UNCHANGED hostUp
     \/ /\ greenDeck = <<>>
        /\ hostUp' = FALSE
        /\ UNCHANGED <<greenDeck, outbox, loaded>>
  /\ UNCHANGED <<networkVars, callbackSet, clients, reading, playerData,
                 redDeck, judge, dealt>>

\* What is dealt to c, with what follows the delimiter in memory; it is recorded even
\* if c has ended.
Deal(c, cards) ==
  /\ \E tail \in Tails : toClient' = Sent(c, DealCard(cards, tail))
  /\ dealt' = [dealt EXCEPT ![c] = @ \o cards]

\* Mutant: the cards dealt stay in the deck.
DealCardsKept(c, n) ==
  /\ n <= Len(redDeck)
  /\ Deal(c, SubSeq(redDeck, 1, n))
  /\ UNCHANGED <<hostUp, redDeck>>

\* Mutant: i <= request_amount.
DealCardsOneMore(c, n) ==
  /\ n < Len(redDeck)
  /\ redDeck' = SubSeq(redDeck, n + 2, Len(redDeck))
  /\ Deal(c, SubSeq(redDeck, 1, n + 1))
  /\ UNCHANGED hostUp

\* deal_cards: the first n cards leave the deck for the client that asked (none
\* if n is negative).  Taking one from an empty deck ends the process, and so
\* does a client that get_target_client does not find.
DealCards(c, n) ==
  \/ /\ n <= Len(redDeck)
     /\ \E i \in 1..Len(clients) : clients[i] = c
     /\ redDeck' = SubSeq(redDeck, n + 1, Len(redDeck))
     /\ Deal(c, SubSeq(redDeck, 1, n))
     /\ UNCHANGED hostUp
  \/ /\ \/ n > Len(redDeck)
        \/ \A i \in 1..Len(clients) : clients[i] # c
     /\ hostUp' = FALSE
     /\ UNCHANGED <<redDeck, toClient, dealt>>

CardRequestEvent ==
  /\ Dispatch("CardRequest")
  /\ LET request == Head(eventQueue).msg
     IN  DealCards(request.id, IF request.amount > 0 THEN request.amount ELSE 0)
  /\ UNCHANGED <<process, backlog, toServer, callbackSet, clients, reading,
                 playerData, clientCount, greenDeck, judge, outbox, loaded>>

\* pick_judge: any of the clients there are, at random.
PickJudge == \E i \in 1..Len(clients) : judge' = clients[i]

\* Mutant: the roles are sent by the judge of before.
StartGameMessageLate ==
  /\ Dispatch("GameStarted")
  /\ PickJudge
  /\ outbox' = ToEachClient([c \in Client |->
                  StartGame(IF c = judge THEN "Judge" ELSE "Playing")])
  /\ UNCHANGED <<networkVars, hostUp, callbackSet, clients, reading, playerData,
                 clientCount, redDeck, greenDeck, historyVars>>

\* Mutant: the callback returns before it takes the message off when there is a
\* judge already.
StartGameMessageOnce ==
  /\ judge = NoJudge
  /\ Dispatch("GameStarted")
  /\ PickJudge
  /\ outbox' = ToEachClient([c \in Client |->
                  StartGame(IF c = judge' THEN "Judge" ELSE "Playing")])
  /\ UNCHANGED <<networkVars, hostUp, callbackSet, clients, reading, playerData,
                 clientCount, redDeck, greenDeck, historyVars>>

\* startgame_message, run for every client that reports ready: a judge is picked,
\* and each client is told which of the two roles it has.
StartGameMessage ==
  /\ Dispatch("GameStarted")
  /\ PickJudge
  /\ outbox' = ToEachClient([c \in Client |->
                  StartGame(IF c = judge' THEN "Judge" ELSE "Playing")])
  /\ UNCHANGED <<networkVars, hostUp, callbackSet, clients, reading, playerData,
                 clientCount, redDeck, greenDeck, historyVars>>

\* One turn of a broadcast.
WriteToClient ==
  /\ hostUp
  /\ outbox # <<>>
  /\ toClient' = Sent(Head(outbox).to, Head(outbox).msg)
  /\ outbox' = Tail(outbox)
  /\ UNCHANGED <<process, backlog, toServer, hostUp, callbackSet, clients,
                 reading, playerData, eventQueue, clientCount, redDeck,
                 greenDeck, judge, historyVars>>

-----------------------------------------------------------------------------
(* What may terminate the process *)

\* push_back is about to move a vector that is not empty to a larger block.
Reallocates ==
  /\ backlog # <<>>
  /\ \E e \in 0..Len(clients) : Len(clients) = 2 ^ e

\* The main thread is in a callback that iterates over clients, or may be.
IteratesClients == callbackSet /\ (outbox # <<>> \/ eventQueue # <<>>)

\* push_back moves the vector under the main thread's loop over it (it may also
\* survive, in the old block: that is Accept).
PushBackUnderIteration == Reallocates /\ IteratesClients

\* remote_endpoint throws in the handler of a read or of an accept when the
\* peer has reset the connection, and nothing catches it.
EndpointOfGonePeer ==
  \/ \E c \in reading : process[c] = "gone"
  \/ backlog # <<>> /\ process[Head(backlog)] = "gone"

HostTerminates ==
  /\ hostUp
  /\ PushBackUnderIteration \/ EndpointOfGonePeer
  /\ hostUp' = FALSE
  /\ UNCHANGED <<networkVars, callbackSet, clients, reading, playerData,
                 eventQueue, clientCount, redDeck, greenDeck, judge, outbox, historyVars>>

-----------------------------------------------------------------------------
(* What the main thread does once the callbacks are registered *)
HostLoop == PlayerJoinedUpdate \/ PlayerJoinedLoadGame \/ CardRequestEvent
            \/ StartGameMessage \/ WriteToClient
=============================================================================
