------------------------------ MODULE Messages ------------------------------
(***************************************************************************)
(* The messages of Network::Message that the host and the players send     *)
(* each other, and the events the two ends turn them into.                 *)
(*                                                                         *)
(* A message is an RPC type and a payload; only the fields that some       *)
(* handler reads are kept (nobody reads Message::type, and only the host   *)
(* reads Message::id).  Payloads are kept as what they encode: a card, a   *)
(* sequence of cards, a count, the name of a state.                        *)
(*                                                                         *)
(* Cards are values, but not all of them come out of a payload as the card *)
(* that went in: join_strings and split_string are those of Texts, over an *)
(* alphabet in which the text of a card is one character, the card itself, *)
(* unless there is a slash in it; and whatever no card is made of is one   *)
(* character as well, Spoiled.                                             *)
(***************************************************************************)
EXTENDS Texts

CONSTANTS Client,     \* the client processes, by connection id (the port)
          RedCard,    \* lines of redApples.txt
          GreenCard,  \* lines of greenApples.txt
          NoCard,     \* Player::round_card before any update: ""
          Spoiled,    \* what no card is: a part of a card that was split, what
                      \* follows a delimiter in memory, a payload with the bytes
                      \* of the next message glued to its end
          Slashes,    \* how many delimiters are in the text of a card
          Tails       \* what may follow the delimiter of join_strings in memory

ASSUME CardAssumption == /\ NoCard \notin RedCard \cup GreenCard
                         /\ Spoiled \notin RedCard \cup GreenCard
                         /\ NoCard # Spoiled

ASSUME TextAssumption == /\ Slashes \in [RedCard -> Nat]
                         /\ Tails \subseteq Seq({Spoiled, Slash})
                         /\ Slash \notin RedCard \cup {Spoiled}

-----------------------------------------------------------------------------
\* host to player

NewConnection(n)  == [rpc |-> "NewConnection", count |-> n]
LoadGame(card)    == [rpc |-> "LoadGame", card |-> card]
StartGame(state)  == [rpc |-> "StartGame", state |-> state]

\* The payload is what join_strings makes of the cards; see Payload.
DealCard(cards, tail) == [rpc |-> "DealCard", cards |-> cards, tail |-> tail]

ServerMessage == [rpc : {"NewConnection"}, count : Nat]
            \cup [rpc : {"LoadGame"}, card : GreenCard]
            \cup [rpc : {"DealCard"}, cards : Seq(RedCard), tail : Tails]
            \cup [rpc : {"StartGame"}, state : {"Judge", "Playing"}]

\* The text of a card: the parts between its slashes are not cards.
TextOf(card) ==
  IF Slashes[card] = 0 THEN <<card>>
  ELSE [i \in 1..2 * Slashes[card] + 1 |-> IF i % 2 = 0 THEN Slash ELSE Spoiled]

Payload(deal) ==
  JoinStrings([i \in 1..Len(deal.cards) |-> TextOf(deal.cards[i])], deal.tail)

\* player to host

CardRequest(c, n) == [rpc |-> "DealCard", id |-> c, amount |-> n]
Ready(c)          == [rpc |-> "StartGame", id |-> c]

ClientMessage == [rpc : {"DealCard"}, id : Client, amount : Int]
            \cup [rpc : {"StartGame"}, id : Client]

\* the message that goes with an event nobody needs a message for
DontCare == [rpc |-> "DontCare"]

-----------------------------------------------------------------------------
\* RPC type to event, at the host and at a player; the types left out raise
\* no event.

\* Mutant: two of the cases exchanged.
HostEventSwapped ==
             [StartGame |-> "CardRequest",     NewRound |-> "NextRound",
              DealCard  |-> "GameStarted",     LoadGame |-> "SynchronizeGame",
              PlayCard  |-> "CardPlayed",      Vote     |-> "JudgeVoted"]

HostEvent == [StartGame |-> "GameStarted",     NewRound |-> "NextRound",
              DealCard  |-> "CardRequest",     LoadGame |-> "SynchronizeGame",
              PlayCard  |-> "CardPlayed",      Vote     |-> "JudgeVoted"]

ClientEvent == [NewConnection |-> "PlayerJoined", StartGame |-> "GameStarted",
                NewRound |-> "NextRound",         DealCard  |-> "CardReceived",
                LoadGame |-> "SynchronizeGame",   Vote      |-> "StartVote",
                DontCare |-> "NetworkMessage"]

\* One read of the socket is decoded as one message, whatever it holds: the
\* header of the first message that was in it, and everything after that
\* header as the payload.  Messages behind the first are lost as messages.
Deserialize(chunk) == [msg |-> Head(chunk), spoiled |-> Len(chunk) > 1]
=============================================================================
