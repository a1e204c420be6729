------------------------------- MODULE Player -------------------------------
(***************************************************************************)
(* The player processes: Core::Player with its Network::Client, its state  *)
(* (JoinGameState, PlayingState or JudgeState) and the game loop.          *)
(*                                                                         *)
(* Each has an io thread, which reads the socket, and a main thread, which *)
(* hands the event at the front of the queue to the current state.  Only   *)
(* JoinGameState does anything with an event: the other two states leave   *)
(* it at the front, and the loop spins on it, which is no step here.       *)
(***************************************************************************)
EXTENDS Network

CONSTANTS HandSize,    \* the cards a player asks for: 7 in player.cpp
          Quitters     \* the clients whose user may end the process

ASSUME HandSizeAssumption == HandSize \in Nat \ {0}
ASSUME QuittersAssumption == Quitters \subseteq Client

VARIABLES pstate,      \* the active state of the context
          hand,        \* Player::red_cards
          roundCard,   \* Player::round_card
          inbox,       \* EventHandler::eventmsg_queue of the player
          missed       \* history: who had more than one message in a read

playerVars == <<pstate, hand, roundCard, inbox, missed>>

ClientEventMessage ==
       [event : {"PlayerJoined"}, spoiled : BOOLEAN,
        msg : [rpc : {"NewConnection"}, count : Nat]]
  \cup [event : {"SynchronizeGame"}, spoiled : BOOLEAN,
        msg : [rpc : {"LoadGame"}, card : GreenCard]]
  \cup [event : {"CardReceived"}, spoiled : BOOLEAN,
        msg : [rpc : {"DealCard"}, cards : Seq(RedCard), tail : Tails]]
  \cup [event : {"GameStarted"}, spoiled : BOOLEAN,
        msg : [rpc : {"StartGame"}, state : {"Judge", "Playing"}]]

PlayerTypeOK ==
  /\ pstate \in [Client -> {"Waiting", "Playing", "Judge"}]
  /\ hand \in [Client -> Seq(RedCard \cup {Spoiled})]
  /\ roundCard \in [Client -> GreenCard \cup {NoCard, Spoiled}]
  /\ inbox \in [Client -> Seq(ClientEventMessage)]
  /\ missed \subseteq Client

PlayerInit ==
  /\ pstate = [c \in Client |-> "Waiting"]
  /\ hand = [c \in Client |-> <<>>]
  /\ roundCard = [c \in Client |-> NoCard]
  /\ inbox = [c \in Client |-> <<>>]
  /\ missed = {}

-----------------------------------------------------------------------------
(* The process and its io thread *)

\* The constructor of Network::Client connects.
Connect(c) ==
  /\ process[c] = "off"
  /\ process' = [process EXCEPT ![c] = "up"]
  /\ backlog' = Append(backlog, c)
  /\ UNCHANGED <<toServer, toClient, playerVars>>

\* The handler of async_read_some: k messages came in, one is decoded.
ClientRead(c) ==
  /\ process[c] = "up"
  /\ \E k \in ReadSizes(toClient[c]) :
       LET read == Deserialize(SubSeq(toClient[c], 1, k))
       IN  /\ toClient' = [toClient EXCEPT ![c] = Unread(@, k)]
           /\ inbox' = [inbox EXCEPT ![c] =
                          Append(@, [event |-> ClientEvent[read.msg.rpc],
                                     msg |-> read.msg,
                                     spoiled |-> read.spoiled])]
           /\ missed' = IF k > 1 THEN missed \cup {c} ELSE missed
  /\ UNCHANGED <<process, backlog, toServer, pstate, hand, roundCard>>

\* The process ends: nothing that is sent to it from now on arrives.
End(c) ==
  /\ process[c] = "up"
  /\ process' = [process EXCEPT ![c] = "gone"]
  /\ toClient' = [toClient EXCEPT ![c] = <<>>]
  /\ UNCHANGED <<backlog, toServer, playerVars>>

-----------------------------------------------------------------------------
(* main thread *)

\* process_events finds event at the front, the state lets its callback run,
\* and the callback takes it off.
Receive(c, event) ==
  /\ process[c] = "up"
  /\ pstate[c] = "Waiting"
  /\ inbox[c] # <<>>
  /\ Head(inbox[c]).event = event
  /\ inbox' = [inbox EXCEPT ![c] = Tail(@)]
  /\ UNCHANGED missed

\* playerjoined_update: the count is printed.
PlayerJoinedUpdated(c) ==
  /\ Receive(c, "PlayerJoined")
  /\ UNCHANGED <<networkVars, pstate, hand, roundCard>>

\* request_cards counts down from HandSize to what the hand has room for.
RequestAmount(c) == HandSize - Len(hand[c])

\* Mutant: GameReady is not triggered.
SynchronizeGameSilent(c) ==
  /\ Receive(c, "SynchronizeGame")
  /\ LET received == Head(inbox[c])
     IN  roundCard' = [roundCard EXCEPT ![c] =
                         IF received.spoiled THEN Spoiled ELSE received.msg.card]
  /\ toServer' = [toServer EXCEPT ![c] =
                    Append(@, CardRequest(c, RequestAmount(c)))]
  /\ UNCHANGED <<process, backlog, toClient, pstate, hand>>

\* update_round_card and synchronize_game: ask for cards and, without waiting
\* for them, report ready.
SynchronizeGame(c) ==
  /\ Receive(c, "SynchronizeGame")
  /\ LET received == Head(inbox[c])
     IN  roundCard' = [roundCard EXCEPT ![c] =
                         IF received.spoiled THEN Spoiled ELSE received.msg.card]
  /\ toServer' = [toServer EXCEPT ![c] =
                    @ \o <<CardRequest(c, RequestAmount(c)), Ready(c)>>]
  /\ UNCHANGED <<process, backlog, toClient, pstate, hand>>

\* The card a text is.
CardOf(text) == IF \E card \in RedCard : text = <<card>> THEN text[1] ELSE Spoiled

\* A payload with the bytes glued to its end, which have no slash in them: they are a
\* header and a role or a count.
TextIn(received) ==
  Payload(received.msg) \o (IF received.spoiled THEN <<Spoiled>> ELSE <<>>)

\* The cards among what split_string finds in a text: nothing in an empty one.
CardsIn(text) ==
  LET texts == SplitString(text) IN [i \in 1..Len(texts) |-> CardOf(texts[i])]

\* cards_response: the cards are put behind those in the hand.
CardsResponse(c) ==
  /\ Receive(c, "CardReceived")
  /\ \E text \in {TextIn(Head(inbox[c]))} :
       hand' = [hand EXCEPT ![c] = @ \o CardsIn(text)]
  /\ UNCHANGED <<networkVars, pstate, roundCard>>

\* set_state, unless the payload names no state.
GameStarted(c) ==
  /\ Receive(c, "GameStarted")
  /\ pstate' = [pstate EXCEPT ![c] =
                  IF Head(inbox[c]).spoiled THEN @ ELSE Head(inbox[c]).msg.state]
  /\ UNCHANGED <<networkVars, hand, roundCard>>

PlayerLoop(c) == PlayerJoinedUpdated(c) \/ SynchronizeGame(c)
                 \/ CardsResponse(c) \/ GameStarted(c)

=============================================================================
