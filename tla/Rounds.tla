------------------------------- MODULE Rounds -------------------------------
(***************************************************************************)
(* The host's part in the rounds: the rules it counts by, the vector of    *)
(* clients that the io thread makes longer, the judge, which is an         *)
(* iterator into that vector, the broadcasts, which iterate over it, and   *)
(* the cards that have been played.  Neither thread takes a lock for the   *)
(* vector.                                                                 *)
(*                                                                         *)
(* The host handles PlayCard and GameStarted; that a client sends them     *)
(* whenever it likes is the external part (Player shows what this          *)
(* program's players send).  No code calls next_round_transition; here     *)
(* the main thread may call it whenever it is free.                        *)
(*                                                                         *)
(* The module begins when the callbacks have been registered, with no      *)
(* client accepted before: one that was would not be counted, as the run   *)
(* early_join of CardGame shows, and could play all the same.              *)
(***************************************************************************)
EXTENDS Rules, Sequences

CONSTANTS NumberPlayers,    \* the values of --number-players
          NoJudge,          \* the iterator has not been assigned yet
          Stale,            \* an iterator or a loop whose block has been freed
          MaxClients,       \* bound: clients
          MaxCards,         \* bound: cards played
          MaxQueue          \* bound: events that wait

ASSUME BoundsAssumption == MaxClients \in Nat /\ MaxCards \in Nat /\ MaxQueue \in Nat
ASSUME NumberPlayersAssumption == NumberPlayers \subseteq Int \cup {NoOption}
ASSUME IteratorAssumption == NoJudge \notin Nat /\ Stale \notin Nat /\ NoJudge # Stale

VARIABLES
  number_players,    \* the option
  rules,             \* Game::rules
  size, capacity,    \* of the vector of clients
  queue,             \* eventmsg_queue
  client_count,
  judge_idx_iter,    \* a position in the vector, from 1 on
  doing,             \* where the main thread is in a callback
  loop,              \* its loop over clients: the position and the last one
  round_deck, cardplayed_count,
  votes,             \* history: the Vote messages made (none is sent)
  began,             \* history: cardplayed_count when the round began
  played,            \* history: how many cards the clients have played
  up

lobbyVars == <<number_players, rules>>
vectorVars == <<size, capacity>>
judgeVars == <<judge_idx_iter, doing, loop>>
roundVars == <<round_deck, cardplayed_count, votes, began>>
vars == <<lobbyVars, vectorVars, queue, client_count, judgeVars, roundVars, played, up>>

Event == [event : {"PlayerJoined", "GameStarted"}] \cup [event : {"CardPlayed"}, card : Nat]

Init ==
  /\ number_players \in NumberPlayers
  /\ rules \in setup_game(number_players)
  /\ size = 0
  /\ capacity = 0
  /\ queue = <<>>
  /\ client_count = 0
  /\ judge_idx_iter = NoJudge
  /\ doing = "nothing"
  /\ loop = Stale
  /\ round_deck = <<>>
  /\ cardplayed_count = 0
  /\ votes = <<>>
  /\ began = 0
  /\ played = 0
  /\ up = TRUE

-----------------------------------------------------------------------------
(* The io thread *)

Store(event) ==
  /\ up
  /\ Len(queue) < MaxQueue
  /\ queue' = Append(queue, event)

\* The vector grows; a full one moves to a block of twice the size, and what
\* pointed into the old one is stale.
push_back ==
  /\ size' = size + 1
  /\ IF size < capacity
     THEN UNCHANGED <<capacity, judge_idx_iter, loop>>
     ELSE /\ capacity' = IF capacity = 0 THEN 1 ELSE 2 * capacity
          /\ judge_idx_iter' = IF judge_idx_iter = NoJudge THEN NoJudge ELSE Stale
          /\ loop' = Stale

\* listen accepts a client, and the connection callback tells of it.
Accept ==
  /\ size < MaxClients
  /\ Store([event |-> "PlayerJoined"])
  /\ push_back
  /\ UNCHANGED <<lobbyVars, client_count, doing, roundVars, played, up>>

\* A client reports ready.
ReadReady ==
  /\ size > 0
  /\ Store([event |-> "GameStarted"])
  /\ UNCHANGED <<lobbyVars, vectorVars, client_count, judgeVars, roundVars, played, up>>

\* A client plays a card.  (Cards are numbered in the order they are played.)
ReadPlayCard ==
  /\ size > 0
  /\ played < MaxCards
  /\ played' = played + 1
  /\ Store([event |-> "CardPlayed", card |-> played'])
  /\ UNCHANGED <<lobbyVars, vectorVars, client_count, judgeVars, roundVars, up>>

-----------------------------------------------------------------------------
(* The main thread *)

Dispatch(event) ==
  /\ up
  /\ doing = "nothing"
  /\ queue # <<>>
  /\ Head(queue).event = event
  /\ queue' = Tail(queue)

\* A loop over clients takes its range when it begins.
BeginLoop(what) ==
  /\ doing' = what
  /\ loop' = [at |-> 1, last |-> size]

\* playerjoined_event, with the broadcast of loadgame_request or send_update.
PlayerJoinedEvent ==
  /\ Dispatch("PlayerJoined")
  /\ client_count' = client_count + 1
  /\ BeginLoop("updating")
  /\ UNCHANGED <<lobbyVars, vectorVars, judge_idx_iter, roundVars, played, up>>

\* Mutant: the distribution goes up to clients.size().
pick_judge_past ==
  /\ Dispatch("GameStarted")
  /\ judge_idx_iter' \in 1..size + 1
  /\ doing' = "picked"
  /\ UNCHANGED <<lobbyVars, vectorVars, client_count, loop, roundVars, played, up>>

\* startgame_message up to the loop: pick_judge
pick_judge ==
  /\ Dispatch("GameStarted")
  /\ judge_idx_iter' \in 1..size
  /\ doing' = "picked"
  /\ UNCHANGED <<lobbyVars, vectorVars, client_count, loop, roundVars, played, up>>

\* The loop of startgame_message, that compares each client with the judge.
StartGameLoop ==
  /\ up
  /\ doing = "picked"
  /\ BeginLoop("starting")
  /\ UNCHANGED <<lobbyVars, vectorVars, queue, client_count, judge_idx_iter, roundVars, played, up>>

\* The next turn of a loop.  One over a block that was freed may survive.
NextTurn ==
  /\ up
  /\ doing \in {"updating", "starting"}
  /\ loop # Stale
  /\ loop.at < loop.last
  /\ loop' = [loop EXCEPT !.at = @ + 1]
  /\ UNCHANGED <<lobbyVars, vectorVars, queue, client_count, judge_idx_iter, doing,
                 roundVars, played, up>>

EndLoop ==
  /\ up
  /\ doing \in {"updating", "starting"}
  /\ loop # Stale => loop.at = loop.last
  /\ doing' = "nothing"
  /\ loop' = Stale
  /\ UNCHANGED <<lobbyVars, vectorVars, queue, client_count, judge_idx_iter, roundVars, played, up>>

\* Reading what was freed ends the process.
ReadFreed ==
  /\ up
  /\ \/ doing \in {"updating", "starting"} /\ loop = Stale
     \/ doing = "starting" /\ judge_idx_iter = Stale
  /\ up' = FALSE
  /\ UNCHANGED <<lobbyVars, vectorVars, queue, client_count, judgeVars, roundVars, played>>

\* As size_t; a negative sum is no number of cards there either.
Expected == client_count + rules.num_bots

\* A Vote on these cards, with how many clients there were, when the round had
\* begun and how many cards had been played.
Vote(cards, at) ==
  [cards |-> cards, counted |-> client_count, from |-> began, at |-> at]

\* Mutant: the cards are counted before this one is added.
card_played_event_before ==
  /\ Dispatch("CardPlayed")
  /\ cardplayed_count' = cardplayed_count + 1
  /\ round_deck' = Append(round_deck, Head(queue).card)
  /\ votes' = IF cardplayed_count = Expected
              THEN Append(votes, Vote(round_deck', cardplayed_count')) ELSE votes
  /\ UNCHANGED <<lobbyVars, vectorVars, client_count, judgeVars, began, played, up>>

\* Mutant: the vote is made of the deck before this card is added to it.
card_played_event_added_late ==
  /\ Dispatch("CardPlayed")
  /\ cardplayed_count' = cardplayed_count + 1
  /\ round_deck' = Append(round_deck, Head(queue).card)
  /\ votes' = IF cardplayed_count' = Expected
              THEN Append(votes, Vote(round_deck, cardplayed_count')) ELSE votes
  /\ UNCHANGED <<lobbyVars, vectorVars, client_count, judgeVars, began, played, up>>

\* card_played_event: the card is added (nothing ever takes it off again), and
\* when as many were played as are expected, a Vote with all of them is made.
card_played_event ==
  /\ Dispatch("CardPlayed")
  /\ cardplayed_count' = cardplayed_count + 1
  /\ round_deck' = Append(round_deck, Head(queue).card)
  /\ votes' = IF cardplayed_count' = Expected
              THEN Append(votes, Vote(round_deck', cardplayed_count')) ELSE votes
  /\ UNCHANGED <<lobbyVars, vectorVars, client_count, judgeVars, began, played, up>>

\* Mutant: the judge moves to the left, as the comment on the declaration has it.
update_judge_left ==
  judge_idx_iter' = IF judge_idx_iter = Stale THEN Stale ELSE judge_idx_iter - 1

\* update_judge: the end it compares with is that of a copy of the vector, so a
\* judge in the vector is different from it and is moved on.  A stale one may
\* happen to be equal, as the copy may lie where it points, and becomes the
\* begin of the copy; it is stale either way, as the copy is gone.
update_judge ==
  judge_idx_iter' = IF judge_idx_iter = Stale THEN Stale ELSE judge_idx_iter + 1

\* The round changes: neither the deck nor the count is touched.  The id of the new
\* judge is read, which may end the process when there is none at the iterator, and
\* does when it is null.
next_round_transition ==
  /\ up
  /\ doing = "nothing"
  /\ began' = cardplayed_count
  /\ \/ /\ judge_idx_iter = NoJudge
        /\ up' = FALSE
        /\ UNCHANGED judge_idx_iter
     \/ /\ judge_idx_iter # NoJudge
        /\ judge_idx_iter # Stale => judge_idx_iter <= MaxClients
        /\ update_judge
        /\ up' \in IF judge_idx_iter' \in 1..size THEN {TRUE} ELSE BOOLEAN
  /\ UNCHANGED <<lobbyVars, vectorVars, queue, client_count, doing, loop, round_deck,
                 cardplayed_count, votes, played>>

Next ==
  \/ Accept
  \/ ReadReady
  \/ ReadPlayCard
  \/ PlayerJoinedEvent
  \/ pick_judge
  \/ StartGameLoop
  \/ NextTurn
  \/ EndLoop
  \/ ReadFreed
  \/ card_played_event
  \/ next_round_transition

Spec == Init /\ [][Next]_vars

-----------------------------------------------------------------------------
(* Types *)

\* The types; the clients are within the block of the vector, and the judge, if the
\* iterator was assigned, is not before its begin.
TypeOK ==
  /\ number_players \in Int \cup {NoOption}
  /\ rules \in GameRules
  /\ size \in Nat
  /\ capacity \in Nat
  /\ size <= capacity
  /\ queue \in Seq(Event)
  /\ client_count \in Nat
  /\ judge_idx_iter \in (Nat \ {0}) \cup {NoJudge, Stale}
  /\ doing \in {"nothing", "updating", "picked", "starting"}
  /\ loop = Stale \/ loop \in [at : Nat, last : Nat]
  /\ round_deck \in Seq(Nat)
  /\ cardplayed_count \in Nat
  /\ votes \in Seq([cards : Seq(Nat), counted : Nat, from : Nat, at : Nat])
  /\ began \in Nat
  /\ played \in Nat
  /\ up \in BOOLEAN

-----------------------------------------------------------------------------
(* The rules *)

\* The rules that the host plays by are those of the game, for every number of
\* players that the game can be played with.
RulesMatchReference ==
  Playable(number_players) => IsReferenceRules(rules, number_players)

-----------------------------------------------------------------------------
(* The judge *)

\* A start that goes through the clients comes by the judge: it is one of them,
\* although clients are added between its being picked and the loop, and in the
\* loop, unless that moved the vector.
JudgeIsTold ==
  /\ doing = "starting"
  /\ loop # Stale
  /\ judge_idx_iter # Stale
  => judge_idx_iter \in 1..loop.last

-----------------------------------------------------------------------------
(* The vote *)

\* If one card was played for each client and bot since the round began, a vote has
\* been made since.
VoteMade ==
  /\ cardplayed_count > began
  /\ cardplayed_count - began >= Expected
  => \E i \in 1..Len(votes) : votes[i].at > began

\* That is so in the first round: the count, which is compared for equality when a
\* card is handled, is not passed by, although every join raises what it is compared
\* with.  (Of clients that are counted, that is; see above.)
VoteWhenComplete == Playable(number_players) /\ began = 0 => VoteMade

\* Each vote of the first round is on as many cards as there were clients and bots,
\* those that were played first, in the order the clients played them.
VoteIsWhole ==
  \A i \in 1..Len(votes) :
    votes[i].from = 0 =>
      /\ Len(votes[i].cards) = votes[i].counted + rules.num_bots
      /\ \A j \in 1..Len(votes[i].cards) : votes[i].cards[j] = j

-----------------------------------------------------------------------------
(* What the comments of the code say, and the code does not do *)

\* "If all have played, send RPC message to judge iterator to perform voting event
\* action ... and repeat", says next_round_transition of the rounds: after one that
\* ended with a vote, a vote is made again when all have played, the players being
\* the same and all there.
VoteEveryRound ==
  /\ client_count >= rules.expected_players
  /\ \E i \in 1..Len(votes) : votes[i].at = began /\ votes[i].counted = client_count
  => VoteMade
=============================================================================
