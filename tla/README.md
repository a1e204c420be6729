# CardGame: models, checks and proofs

CardGame is a C++ terminal version of *Apples to Apples*: one process hosts a
game over TCP (Boost.Asio), the other processes join it as players. This
directory holds TLA+ models of that program, TLC configurations that check them
on small instances, and TLAPS proofs of what holds on every instance. Paths are
relative to the repository (`src/...`).

## 1. The system

What the code plays today is the lobby and the start of the first round:

```
player                              host
  connect                 -->       PlayerJoined: client_count + 1
                          <--       NewConnection(n)     while n is not the expected number
                          <--       LoadGame(green card) when it is, to every client
  SynchronizeGame:
    DealCard(7), StartGame "Ready, ..." -->
                          <--       CardRequest: DealCard(7 red cards)
                          <--       GameStarted: pick a judge, StartGame(role) to every client
  GameStarted: become Judge or Playing
```

No message is sent after that: no player plays a card. The host could handle one
(`card_played_event`), and has a function for the change of the round that nothing
calls (`next_round_transition`, with `update_judge`). Before all that, `setup_game`
makes the rules of the game out of the command line.

### Components

| Component | Source | State | Operations |
|---|---|---|---|
| Event queue, game loop | `src/src/events.cpp`, `src/src/game.cpp:256-337` | `eventmsg_queue` and its mutex, the callback map | `store_eventmessage` (io thread); `eventmsg_empty`, `read_latest_event`, `trigger_event`, `get_eventmessage`/`pop_eventmessage` (main thread) |
| Host logic | `src/src/host.cpp` | red and green decks, `client_count`, `judge_idx_iter`, `player_data`, `round_deck` | the connection callback, `playerjoined_event`, `loadgame_request`, `card_request_event`/`deal_cards`, `startgame_message`/`pick_judge`, `card_played_event`; called by nothing: `next_round_transition`, `update_judge` |
| Server, sessions | `src/src/network/server.cpp`, `session_connections.cpp` | the vector `clients`, the connection callback, a buffer per session | `listen` (accept), `start_reading`/`handle_request`, `write_to_client`, `get_target_client` |
| Player logic, states | `src/src/player.cpp`, `joingame_state.cpp`, `play_state.cpp`, `judge_state.cpp` | `red_cards`, `round_card`, the active state | `playerjoined_update`, `synchronize_game`, `request_cards`, `cards_response`, `set_state` |
| Client connection | `src/src/network/client.cpp` | socket, buffer | connect, `start_reading`/`handle_message`, send |
| Messages | `src/src/network/message.cpp` | none | `serialize_message`, `deserialize_message`, `join_strings`, `split_string` |
| Setup and rules | `src/src/game.cpp:33-194` | `GameRules`, decks | `setup_game`, `new_gamerules`, `create_session`, `load_config_to` |
| Command line, terminal | `src/src/game_cli.cpp`, `render_game`, `process_input` | parsed options | pure input and output |

### How they interact

Every process has two threads. The **io thread** runs `io_context::run`: it
accepts connections, reads sockets, decodes what it read and stores an event
message. The **main thread** runs `start_gameloop`: it looks at the event at the
front of the queue and calls the callback registered for it (host), or asks the
active state to (player); the callback itself takes the message off the queue,
works, and writes to sockets. Only the queue is protected by a lock. The list of
sessions, which the io thread extends and the main thread loops over, is not, and
neither is the connection callback, which the main thread sets after the io
thread has started.

### What is hard

* Two threads and three critical sections for one event.
* Clients may be accepted before the callbacks exist, after the game was loaded,
  and during a broadcast (a vector reallocated under the loop over it).
* TCP may return several messages in one read, or a part of one, and a read is
  decoded as one message whatever it holds.
* The judge is an iterator into the vector that the other thread makes longer.
* A round is complete when a counter equals a number that grows while it counts.
* The cards of a deal are joined with a delimiter that no zero terminates, and some
  card texts contain it.
* A player asks for cards and reports ready without waiting for an answer; each
  report restarts the game.
* Only one of the player's three states handles events; an event nobody takes
  blocks everything behind it.
* Players quit; the host keeps their session and goes on counting them.
* Decks run out or were never loaded, and nothing looks before taking a card.

What would make the parts correct: the queue hands every message, in order, to the
callback of its own event; the two records of who joined agree; no card is dealt
twice, no hand has more than seven, the deck covers what is asked, and the cards that
arrive are those that were dealt; every player is shown the same round card; there is
one judge, and the host knows who it is; the game starts once enough players came, and
nothing of it happens before; host and players get through their events; whatever a
read begins with is delivered as it was written; the judge is one of the clients the
start comes by; every round is voted on, with the cards of that round; the rules fit
the number of players. Not all of this holds of the code: section 3 has what does, and
the runs that show what does not.

`PROJECT.json` lists the hazards at their lines with the properties that would
catch them.

## 2. The modules

| Module | Models |
|---|---|
| `EventDispatch` | what the queue promises: store, and take-with-its-callback as one step |
| `EventHandler` | `EventHandler` and `process_events`, one action per critical section; implements `EventDispatch` |
| `Texts` | `join_strings`, `split_string`, as operators on sequences of characters |
| `Messages` | RPC types, the payloads some handler reads, the text of a card and of a deal, RPC type to event, decoding of one read |
| `Network` | processes, connections waiting to be accepted, a stream each way per client |
| `Host` | the host's two threads, up to the start of the round |
| `Player` | the players' two threads and the end of a process |
| `CardGame` | host and players together; `Spec`, `FairSpec`, all properties of the game |
| `Codec` | messages as bytes: `serialize_message`, `deserialize_message`, as operators |
| `MessageStream` | what a connection promises in terms of messages |
| `ByteStream` | one direction of a connection byte by byte, with reads of any size; implements `MessageStream` |
| `Rules` | `setup_game` and `new_gamerules`, and the rules of the game they are to come to |
| `Rounds` | the host in the rounds: the vector of clients and the iterators into it, the judge, the played cards, the vote |
| `EventHandlerProofs` | theorems about the queue |
| `CardGameProofs` <- `JoiningProofs` <- `StartProofs` <- `CardsProofs` | theorems about the game: types, round card and sessions; lobby and joins; start and judge; the red cards |
| `TextsProofs` | theorems about joining and splitting; `CardGameProofs` and `ByteStreamProofs` extend it |
| `ByteStreamProofs` | theorems about one message in bytes, and about the bytes on the wire |
| `RoundsProofs` | theorems about the rounds |
| `MCEventHandler`, `MCCardGame`, `MCByteStream`, `MCRounds` | small instances for TLC |

There are four families.

* `EventDispatch` and `EventHandler` stand alone.
* `Texts` <- `Messages` <- `Network` <- `Host` and `Player` <- `CardGame`: an action of
  `Host` fixes the host's and the network's variables, an action of `Player` the players'
  and the network's, and `Next` adds that the other side does not change.
* `Texts` <- `Codec` <- `ByteStream`, with `MessageStream` as what it implements. `Network` is
  `MessageStream` without reads that end inside a message, and `Messages!Deserialize`
  is what `Codec!Deserialize` comes to for such reads (`GluedDecoding`).
* `Rules` <- `Rounds`. `Host` has the lobby and the messages in full and takes the
  vector of clients as a sequence; `Rounds` has the vector, the iterators and the
  cards, and leaves the messages out.

### State and actions against the code

**EventHandler.** `pc` is where the main thread is in `process_events`: about to
test, to read, or to trigger. The io thread may store before each.
`get_eventmessage` is the callback of an event in `Popping`, `trigger_event` an
event without a callback, or with one that takes nothing off (the host's
`SynchronizeGame`, `host.cpp:84`). `handled` is a history of what was handed over.

**Host.** io thread: `Accept` (push_back, connection callback, first read of the
session), `Read` (one read decoded and stored), `ReadEnd` (end of file or error:
the session stops reading and stays in `clients`). Main thread:
`SetupHostCallbacks`; then `PlayerJoinedUpdate`, `PlayerJoinedLoadGame`,
`CardRequestEvent`, `StartGameMessage`, each the whole callback from taking the
event off to the last change of state, except that a loop which broadcasts leaves
its turns in `outbox`, and each turn is a `WriteToClient`. `Dispatch` waits for
`outbox` to be empty: it is the same thread. `HostTerminates` collects what ends
the process from the io thread: the vector moved under the loop, and
`remote_endpoint` throwing for a peer that has reset its connection. Taking a card
from an empty deck, or answering a client that is not found, ends the process in
the callback. `loaded` (who was there when the game was loaded) and `dealt` (what was
dealt to whom) are histories.

**Player.** `Connect`, `ClientRead` and `End` (io thread and process);
`PlayerJoinedUpdated`, `SynchronizeGame`, `CardsResponse`, `GameStarted` (main
thread) are the callbacks. `Receive` has the condition `pstate = "Waiting"`
because only `JoinGameState::on_event` triggers callbacks. `CardsResponse` runs the
payload of the deal (`Payload`, what `join_strings` makes of it), with what was glued
to it, through `SplitString`. `missed` is a history: who had more than one message in
a read.

**ByteStream.** `wire` is everything ever written and `consumed` how much of it has
been read. `Write` and `Deal` are `write_to_client` with a message of a fixed set and
with the one `deal_cards` makes; `Read(n)` is the handler of `async_read_some` for a
read that returned n bytes, up to the size of the buffer. The decoding throws when
there are fewer bytes than a header has (nothing catches it: the process ends), and
may or may not end the process when the header declares more than was read. `sent`,
`ends` and `last` are histories.

**Rounds.** io thread: `Accept` (with `push_back`), `ReadReady`, `ReadPlayCard`. Main
thread: `PlayerJoinedEvent`; `pick_judge` and `StartGameLoop`, the two halves of
`startgame_message` (the io thread may come in between); `NextTurn` and `EndLoop` of a
loop over the clients; `card_played_event`; `next_round_transition` with
`update_judge`. `doing` is where the main thread is, `judge_idx_iter` and `loop` are
positions in the vector, or `Stale` once a `push_back` has moved it: what happens then
is undefined, and the host ends (`ReadFreed`) or the loop ends in any way (`EndLoop`).
The code makes a Vote message and drops it, so `votes` is a history, with what was
counted when it was made; `began` is one of how many cards had been played when the
round began.

### Abstractions

* *A callback is one step.* In the code an event is tested, read and taken in
  three critical sections. `EventHandler` checks, and `ImplementsEventDispatch`
  proves, that this implements the atomic take.
* *Broadcasts are not one step*: one write per step, so accepts, reads and other
  processes come in between.
* *A stream is a sequence of messages*, delivered in order and without loss as TCP
  does. One read returns any number up to `ReadMax`; the first is decoded, the rest
  is lost as messages and glued to the payload of the first. The glued text is
  `Spoiled`: behind the text of a card it makes that no card, as a state it names none,
  and as a number it still parses as the number. That reads end with a message is an abstraction of
  `CardGame`; what other reads do is in `ByteStream`. A write is complete when it
  returns.
* *Bytes.* A message of `Codec` has any values its fields can hold. The size of a
  payload is 32 bits, written as two halves so that no number in the module is beyond
  TLC's integers; payloads too long for it are excluded (`Fits`). `Tails` is what may
  follow the delimiter in memory up to a zero.
* *Rounds.* That clients send PlayCard and GameStarted whenever they like, and that
  the host changes the round whenever its main thread is free, is external: this
  program's players send no PlayCard and nothing calls `next_round_transition`. Ready
  reports, loads and counts are taken from `Host` in outline. The module begins when
  the callbacks are registered, with no client accepted before: such a client is not
  counted (`early_join`) and could play all the same, so that the count of cards may
  pass the number expected. The sum of clients and bots is a `size_t`; rules that were
  not initialised may make it wrap, to a number no count reaches, as a negative one.
* *Cards are values, deals are texts.* The text of a card is one character, the card
  itself, or, if the constant `Slashes` says that there are slashes in it, parts that are
  no card (`Spoiled`) with slashes between them; `Tails` is what may follow the
  delimiter in memory, of which the model keeps where the slashes are and that nothing
  else there is a card. `JoinStrings` and `SplitString` are the same operators as on
  bytes. So the number of entries a deal becomes is that of the code, and only what
  they read is abstract. Ten lines of `redApples.txt` have slashes, none at its
  beginning or end. The red deck is in a fixed order because the names of red cards are
  interchangeable (in `late_joiner` the second one has a slash).
* *Undefined behaviour.* A `push_back` that reallocates while the main thread may
  be looping over the vector either ends the host (`HostTerminates`) or goes well
  (`Accept`). Taking a card from an empty deck ends it: one never loaded is read
  through a null pointer, and erasing from one used up destroys what lies before the
  vector's block. In `Rounds`
  the moment of the move is exact (a full block, doubled), in `Host` it is the same
  computed from the length. Setting the connection callback while the io thread reads
  it is taken as atomic.
* *Ids.* A client's id is its port, taken to be the same at both ends and distinct
  for all clients; that is so on one machine. A process that quits does not come back
  as the same client.
* *Retrying reads.* A player that reads the end of its stream reads again at once
  for ever; that changes nothing and is no step.
* *Idle loops.* The game loop spins when there is nothing to do. That is no step
  either, so a state in which everybody spins has no successor: it is no deadlock,
  and the configurations say `CHECK_DEADLOCK FALSE`. Progress is stated by
  liveness properties.

## 3. The runs

Passing:

| Run | Instance | Shows |
|---|---|---|
| `events` | 3 events, one of them not taken off, 2 messages, 4 stores | `RefinesEventDispatch`, `ReadIsFront`; `EventuallyDrained`: the loop gets through what can be taken; `HeadOfLineBlocks`: an event that is not taken stops it for good |
| `two_players` | 2 clients, 2 expected, one message per read | with fairness: `GameStarts`, `HostKeepsUp`; `LobbyFirst`: nothing of the game before both are counted; `OneJudge` although the judge is picked once per player; `StartedInOrder`, `DeckSuffices` |
| `late_joiner` | 2 clients, 1 expected, reads of up to 2 messages, both may quit, card files may be missing, a slash in one card, two characters behind every delimiter | what stays safe: `RoundCardAgreement`, `CardsUnique`, `DealtWithinLimit`, `JoinAccounting`, `ReplyTargetExists`, `TypeOK`; and for whom: `OneJudge`, `StartedInOrder` |
| `byte_stream` | 2 messages of 2 plain ones and 4 deals, 4 tails, a buffer of 18 bytes | `WholeReadsDeliver`: a read that begins with a message and has all of it is decoded as it, also after reads that were split; `DealArrives`: exactly when the cards of a deal come out as they were dealt; `RefinesMessageStream` |
| `rounds` | 0 to 8 players or no option, 4 clients, 5 cards, 3 events waiting | `RulesMatchReference`; `JudgeIsTold`: the start comes by the judge unless the vector has moved; `VoteWhenComplete`, `VoteIsWhole`: in the first round the vote is not passed by, and is on a card for each client and bot |

*Whom `OneJudge` and `StartedInOrder` are about.* Every report starts the game again,
with another judge, but the first of these broadcasts reaches everyone who was there
when the game was loaded before the second does, and each acts on the first it gets.
Only those who came later, or lost a message because a read returned two, may miss the
LoadGame or the first role. So the two properties speak of the `Attentive` players,
`loaded \ missed`, at any table and with reads of any size; nothing is assumed of the
others, who are there all the same, start and report. Of the players
that are not attentive, one that comes late is started without a round card
(`card_shown`), and one that loses its first role to a glued read takes the second, so
that there may be two judges.

*Hands.* `DealtWithinLimit` counts what the host has dealt and what is still asked of
it. It says nothing of what a player finds in its hand: that can be more
(`hand_limit`), as a deal need not come out of `split_string` as the cards that went
in. `DealArrives` says exactly when it does: no card has a slash in it, and a zero
happens to follow the delimiter (or there is one card, and one character before the
zero, which is popped off). Neither
fault makes one card appear twice: `CardsUnique` is checked and proved with both.
`CardsUnique` and `RoundCardAgreement` are about cards: what is no card any more
(`Spoiled`) is left out of them, and an empty deck has nothing to repeat.

*Votes.* `VoteWhenComplete` and `VoteIsWhole` are about the first round, and count what
the code counts, the judge and the bots included. From the second round on the code
cannot be right: neither count nor deck is reset, although `host.hpp:78` has the deck
discarded, so no vote is made any more (`vote_every_round`). The shortest trace of that
run has loops that outlive a move of the vector and a change of the round with a stale
judge; neither is needed for it. The change of the round also moves the judge past the
last client, as `update_judge` compares with the end of a copy (`host.cpp:325`).

*Split reads.* A read that begins inside a message is decoded all the same, with
whatever bytes stand there as its type and its RPC type (`message.cpp:82`), if the size
they give does not end the process. `WholeReadsDeliver` and `RefinesMessageStream` say
that the damage ends there.

*Events nobody takes.* `HeadOfLineBlocks` states what the code does with an event whose
callback takes nothing off, and `EventuallyDrained` that everything else is got through;
that such an event blocks the queue is shown, not excluded.

`GameStarts` needs one message per read: a player's card request and report that the
host reads at once are one message, and the report is lost; with one player expected
nobody starts the game then. `GameStarts` and `HostKeepsUp` are stated up to the end
of the host.

Violations, each a disagreement between the code and what it says of itself
(quoted in `PROJECT.json`, "findings"):

| Run | Property | What happens |
|---|---|---|
| `early_join` | `EveryJoinRecorded` | a client accepted before `setup_host_callbacks` ran is in `clients` and never recorded or counted |
| `cards_at_start` | `StartedPlayersGetCards` | a player that reported ready before its cards came is started by another player's report, and never takes the cards |
| `player_keeps_up` | `PlayerKeepsUp` | a started player leaves the second StartGame at the front of its queue for ever |
| `judge_known` | `HostKnowsJudge` | the host picks again for the second report; the players keep the first roles |
| `card_shown` | `RoundCardShown` | a player that joins after the load is started without a round card |
| `hand_limit` | `HandWithinLimit` | a card with a slash in it becomes two, and the hand has more than was asked for |
| `vote_every_round` | `VoteEveryRound` | after a round with a vote everybody plays again, the count is above the number it is compared with, and no vote is made |

### Bounds

`Client`: two. Every interaction of the lobby is between the host and one client,
or between the host and a pair (two joins, two reports, two requests to one deck,
a client accepted while the other is served). Three clients give 5 million states
with `ExpectedPlayers = 3`; such a run was made once without a violation and is too
slow to keep. `HandSize = 2` with four red cards: a hand can be part full and the
deck just covers two hands, so that one card too many is noticed. `ReadMax = 2`: a
second message is glued to a first; a third would only lengthen the tail.
`MaxStored = 4`: a store can fall into each gap of the loop with others queued.
`late_joiner` uses the symmetry of the clients (all may quit, none is named);
it has no liveness property. The green deck has two cards, one more than is taken.
Behind every delimiter of `late_joiner` are two characters, so that one is popped and
one stays behind the last card, and `r2` has a slash: with the glued reads every way
in which a card is lost occurs. (Tails of different lengths in one run multiply the
states and give no other kind of entry.)

`MaxMessages = 2` on the wire: a read can have a part of a message, one, both, the end
of one and the beginning of the other; after a split read there is a whole one to be
delivered. `BufferSize = 18` holds two short messages and not a long deal, so that the
buffer splits messages too. The cards are texts of one to three letters, one with a
slash; tails have up to two characters, as one is popped off and the other stays.
`MaxClients = 4`: the vector grows with a move (to 1, 2 and 4) and without one (the
fourth client), before and during a loop. `MaxCards = 5` passes the four that a table
of at least four needs. `MaxQueue = 3`: a join, a report and a card can wait for each
other. `vote_every_round` has a game of four, eight cards and one waiting event
(`MCFourPlayers`): four cards for each of two rounds. Numbers of players up to 8 reach every case of `new_gamerules`.

### Fairness

`FairSpec` has weak fairness of each of the host's main-loop steps (the loop is
infinite and waits for nothing but the queue), of `SetupHostCallbacks`, of the
accept and read handlers (the kernel reports what is ready, and each handler starts
the next operation), and of each player's main loop and reads. Connecting, quitting
and the end of the host are never forced. `EventHandler!Spec` has weak fairness of
`process_events` alone: stores are never forced.

`ByteStream` and `Rounds` have safety properties only: the sizes of reads and the
steps of the clients are up to others.

## 4. The theorems

| Theorem | States | For every |
|---|---|---|
| `EventHandlerProofs!TypeCorrect` | `Spec => []TypeOK` | set of events and messages, number of stores |
| `EventHandlerProofs!ReadIsFrontAlways` | `Spec => [](TypeOK /\ ReadIsFront)` | the same |
| `EventHandlerProofs!ImplementsEventDispatch` | `Spec => RefinesEventDispatch` | the same |
| `CardGameProofs!TypeCorrect` | `Spec => []TypeOK` | number of clients, decks, hand size, read size, expected number |
| `CardGameProofs!RoundCardAgreementHolds` | `Spec => []RoundCardAgreement` | the same |
| `CardGameProofs!ReplyTargetExistsHolds` | `Spec => []ReplyTargetExists` | the same |
| `JoiningProofs!LobbyFirstHolds` | `Spec => []LobbyFirst` | the same |
| `JoiningProofs!JoinAccountingHolds` | `Spec => []JoinAccounting` | the same |
| `StartProofs!StartedInOrderHolds` | `Spec => []StartedInOrder` | the same |
| `StartProofs!OneJudgeHolds` | `Spec => []OneJudge` | the same |
| `CardsProofs!DealtWithinLimitHolds` | `Spec => []DealtWithinLimit` | the same, and slashes and tails |
| `CardsProofs!DeckSufficesHolds` | `Spec => []DeckSuffices` | the same, with finitely many clients, the files there, and a hand for each client in the deck |
| `CardsProofs!CardsUniqueHolds` | `Spec => []CardsUnique` | the same as `DealtWithinLimitHolds`, with a deck in which no card is repeated |
| `TextsProofs!SplitUndoesJoin` | `SplitString(JoinStrings(vec, tail)) = vec` if and only if no text has a slash and `tail` is empty, or is one character and there is one text | alphabet, texts that are not empty, tail |
| `ByteStreamProofs!GluedDecoding` | decoding a message with anything behind it gives the message with that behind its payload | message that fits, bytes |
| `ByteStreamProofs!TypeCorrect` | `Spec => []TypeOK` | buffer, messages, tails, number of messages |
| `ByteStreamProofs!WholeReadsDeliverHolds` | `Spec => []WholeReadsDeliver` | the same |
| `ByteStreamProofs!DealArrivesHolds` | `Spec => []DealArrives` | the same |
| `ByteStreamProofs!RefinesMessageStreamHolds` | `Spec => RefinesMessageStream` | the same |
| `RoundsProofs!SetupMatchesReference` | `setup_game` comes to the rules of the game | number of players from one on |
| `RoundsProofs!TypeCorrect` | `Spec => []TypeOK` | option, number of clients, cards and events |
| `RoundsProofs!RulesMatchReferenceHolds` | `Spec => []RulesMatchReference` | the same |
| `RoundsProofs!JudgeIsToldHolds` | `Spec => []JudgeIsTold` | the same |
| `RoundsProofs!VoteWhenCompleteHolds` | `Spec => []VoteWhenComplete` | the same |
| `RoundsProofs!VoteIsWholeHolds` | `Spec => []VoteIsWhole` | the same |

The assumptions are the ones the modules name for their constants: decks are
sequences of cards, `ExpectedPlayers`, `HandSize`, `ReadMax` and `BufferSize` are
positive, the messages on the wire are messages that fit their header, the cards of a
deal and what follows a delimiter are bytes, no card is empty (no line of the files is), `Slashes` gives each red card a number and `Tails` are of the alphabet, bounds are numbers, and `NoCard`,
`Spoiled`, `NoJudge`, `Stale`, `NoMessage`, `NoRead` and `NoOption` are what they are
not to be confused with.

The theorems about the start have no other premise: whom they speak of is in the
properties (`Attentive`). Two theorems about the red deck have as premises what the code
relies on: `redApples.txt` has 1826 cards, all different, of which a client gets 7; with
the file missing, or with more clients than it has hands for, the host takes a card
from an empty deck.

* *Events.* `ReadIsFront` with the types is inductive: the other thread only
  appends, and appending to a queue that is not empty leaves its front alone. Under
  it a take is a step of `EventDispatch`, and every other step of the loop is
  invisible to it.
* *Round card.* `RoundCardAgreement` alone says nothing of the messages under way.
  `IInv` narrows the type of every place a LoadGame message can be (the broadcast,
  the streams, the players' queues) to the first card of the deck, and adds why it
  is always that one: while `client_count` is below `ExpectedPlayers` the green deck
  is untouched, and the one step that takes from it is the one that reaches the
  number.
* *Sessions.* `SessionInv`: only clients with a session are read, a stream holds
  only what its client wrote, and no step removes a session.
* *Lobby.* `Idle` says of every queue and stream what it holds before the expected
  number is counted: news of joins and nothing else. A player has nothing to answer
  that with, so the host has nothing to read; the only event it can take is a join,
  and the join that ends the lobby needs no proof, as the invariant is about what is
  before.
* *Joining.* `OnceInv`: a client is at one place of the backlog or of the sessions,
  and not both, because it connects once. So an accepted client is new to
  `player_data`, and the record and the event for it count for one each. The lemmas
  on `Joined` count the events of a queue that gets longer or loses its head (by a
  bijection that shifts the places).
* *Start.* A LoadGame is in the broadcast, then in the stream, then in the queue,
  then shown. `QueueOrder`, `StreamOrder` and `OutboxOrder` say for each attentive
  player that has not ended, and each of these places, that a StartGame comes only
  behind a LoadGame, or after the LoadGame has gone further. The load goes to everyone
  in `loaded`, whatever the table; a read of an attentive player takes one message, as
  one that takes more puts it into `missed`. No StartGame is broadcast before, because
  nobody can be ready in the lobby (`Idle`), and the next broadcast begins only when the
  one before is done. Nothing is said of the other players' streams and queues.
* *The judge.* A judge is picked, and roles are broadcast, for every player that
  reports ready; a player takes the first role that it reads and handles none after
  it. `RoleInv(j)` says that every attentive player that has started has its role under
  the judge `j`, and follows the StartGame messages to these players through broadcast,
  stream and queue as in *Start*: a role that is wrong under `j` comes only behind the
  right one. `FirstJudgeInv` says that there is such a `j`, and that every `j` is one as
  long as nobody has been picked; the first pick is then the judge for good, as far as
  they are concerned. Its broadcast goes to every session, so to all of `loaded`
  (`LoadedInv`), and those after it begin when it is done.
* *Red cards.* A player is dealt to once. `ToCome` counts what brings about a deal for
  it: a LoadGame in the broadcast, its stream or its queue, a request in its stream or
  in the host's queue; `Made` counts deals in its stream and queue, and its hand.
  `DealtOnceInv` says that the sum is at most one, and none in the lobby: every step
  moves such a thing on, or loses it, and the load that adds one for each client comes
  when the lobby ends. So the hand is empty when the player asks, and it asks for a
  whole hand (`HandsInv`); with `RecordInv`, by which nothing is dealt to a player to
  whom a request is still to come, that is `DealtWithinLimit`. `DeckInv`: the deck has a
  hand for each client that nothing has been made for yet. `OwnerInv`: each red card is
  in the deck or has one owner. In the owner's deal it is once; that it is at most once
  in the hand is about texts: a card is one character, which is once in the text of its
  deal if the card has no slash and not at all if it has, whatever stands between the
  cards and is glued to them (`Occurs`, `Once`), and splitting a text puts each of its
  characters into one piece (`TokensOccur`).
* *Texts.* What a recursive function computes is proved by induction over a set: the
  numbers up to which it is right have 0 and with each its successor (`SetInduction`,
  from the cardinality of intervals), and the functions exist by the same argument
  (`Recursion`). A slash divides the texts before it from those behind it
  (`TokensSplit`), so each text that is joined can be followed on its own. For the other
  direction of `SplitUndoesJoin`, no piece of a split text has a slash in it
  (`TokensApart`), so the texts had none; and what was split is known from its pieces
  (`TokensInjective`), so the joined text is the one with an empty tail, or that and one
  slash more, while the tail was put behind every text (`JoinedLength`): it is empty, or
  one character behind one text.
* *Bytes.* `IInv` (`WireLayout`) ties `wire` to the histories: between two boundaries
  lies the serialised message. The boundaries grow, so bytes once written stay where
  they are, and a read over them is the message with what lies behind
  (`GluedDecoding`); the numbers in the header come out as they went in
  (`BytesMakeNumber`). For the refinement: every message is longer than nothing, so the
  boundaries are in order (`OrderInv`) and the messages read to their end are the first
  ones, as many as are counted (`TakenInv`); at most one begins where a read does, so
  what was read last is that one or no message (`GotInv`). A write is then a write of
  `MessageStream`; a read that begins with a message and has all of it is its
  `ReadMessages`, and any other its `ReadParts`. A deal keeps its cards on
  record (`DealInv`), and `WholeReadsDeliver` with `SplitUndoesJoin` is `DealArrives`.
* *Rounds.* The rules are computed case by case and never change. A judge just picked
  is within the vector and the vector only grows, so the loop that begins later goes
  at least as far. For the vote of the first round, `VoteWhenComplete` itself is inductive except where a
  card would be handled before anyone is counted: `QueueInv` says that what waits
  first is then a join. A join raises the expected number, which only takes the count
  further from it, and a card adds one to a count below or at it.

## 5. What is only model-checked, and what is not modelled

Only checked:

* all liveness, which is out of the prover's reach: `GameStarts`, `HostKeepsUp`,
  `EventuallyDrained`, `HeadOfLineBlocks`;
* the violations.

Every other property of a passing run, the invariants and the two refinements, is
stated by a theorem.

Not modelled, and why:

* the command line: parsing by a vendored library. `--number-players` is in `Rules`;
  `--number-bots`, `--port` and `--player-id` are parsed and used by nothing.
* the terminal: `render_game`, the print functions, and `process_input`, which is not
  called, are input and output.
* `add_bots` is empty; `create_endpoint` turns an address into an endpoint;
  `test_logic` and the other queues of `EventHandler`, `discard_deck`,
  `client_reference` and `lookup_judge` are used by nothing.
* the tests, which are commented out; build files, most of them generated; libraries.
* a torn assignment of the connection callback, two clients with one port, and a write
  that does not complete at once: hazards in `PROJECT.json` without a property, as the
  code gives no promise to check them against.

In the model, but with no property that could catch them: the exceptions of the two read
handlers (`HostTerminates`, `HostLost`), the card taken from a deck that was not loaded,
and `update_judge`, which nothing calls. Every property is checked with these steps.

## 6. The order of the work, and what is left

The modules were written in this order, each checked before the next and proved about
once TLC agreed: the event queue; messages, network, host, player and the game; the
bytes; the rules and the rounds; the proofs of types, refinement, round card and
sessions, then of the bytes, the rounds, the lobby, the joins, the start and the judge,
then of the red cards, the stream of messages and the texts of a deal; last, the texts of
cards in the game's own modules, with the theorems for every table and every read.

What is left is what the code has not got yet: players that play cards and vote, a
round that changes, bots. When `next_round_transition` gets a caller and the Vote is
sent, the external part of `Rounds` becomes actions of `Host` and `Player`.
