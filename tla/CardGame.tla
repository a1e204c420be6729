------------------------------ MODULE CardGame ------------------------------
(***************************************************************************)
(* The whole game as far as the code plays it: one host and its players,   *)
(* from the first connection to the start of the first round.              *)
(*                                                                         *)
(*   player                          host                                  *)
(*     connect            -->          PlayerJoined, client_count + 1      *)
(*                        <--          NewConnection(n)    n # expected    *)
(*                        <--          LoadGame(green card)  n = expected  *)
(*     SynchronizeGame: DealCard(7), StartGame "Ready"  -->                *)
(*                        <--          CardRequest: DealCard(7 red cards)  *)
(*                        <--          GameStarted: StartGame(role) to all *)
(*     GameStarted: Judge or Playing                                       *)
(*                                                                         *)
(* Nothing in the code sends a message after that.                         *)
(***************************************************************************)
EXTENDS Host, Player, SequencesExt

vars == <<networkVars, hostVars, playerVars>>

TypeOK == NetworkTypeOK /\ HostTypeOK /\ PlayerTypeOK

Init == NetworkInit /\ HostInit /\ PlayerInit

\* A player that finds no host listening ends at once, which is as if it had
\* never been started.
Join(c) == hostUp /\ Connect(c)

\* The user ends the process.
Quit(c) == c \in Quitters /\ End(c)

\* The host is gone: the read handler of the player throws on a reset, and
\* nothing catches it.  (On an end of file it reads again, and spins.)
HostLost(c) == ~hostUp /\ End(c)

\* A step of one of the host's two threads, or of the players' processes.
Next ==
  \/ Accept                /\ UNCHANGED playerVars
  \/ SetupHostCallbacks    /\ UNCHANGED playerVars
  \/ PlayerJoinedUpdate    /\ UNCHANGED playerVars
  \/ PlayerJoinedLoadGame  /\ UNCHANGED playerVars
  \/ CardRequestEvent      /\ UNCHANGED playerVars
  \/ StartGameMessage      /\ UNCHANGED playerVars
  \/ WriteToClient         /\ UNCHANGED playerVars
  \/ HostTerminates        /\ UNCHANGED playerVars
  \/ \E c \in Client :
       \/ Read(c)                 /\ UNCHANGED playerVars
       \/ ReadEnd(c)              /\ UNCHANGED playerVars
       \/ Join(c)                 /\ UNCHANGED hostVars
       \/ Quit(c)                 /\ UNCHANGED hostVars
       \/ HostLost(c)             /\ UNCHANGED hostVars
       \/ ClientRead(c)           /\ UNCHANGED hostVars
       \/ PlayerJoinedUpdated(c)  /\ UNCHANGED hostVars
       \/ SynchronizeGame(c)      /\ UNCHANGED hostVars
       \/ CardsResponse(c)        /\ UNCHANGED hostVars
       \/ GameStarted(c)          /\ UNCHANGED hostVars

\* Each thread is scheduled, and the kernel reports each socket that is ready.
\* Nobody has to connect, to quit, or to crash.
Fairness ==
  /\ WF_vars(SetupHostCallbacks /\ UNCHANGED playerVars)
  /\ WF_vars(HostLoop /\ UNCHANGED playerVars)
  /\ WF_vars(Accept /\ UNCHANGED playerVars)
  /\ \A c \in Client : /\ WF_vars(Read(c) /\ UNCHANGED playerVars)
                       /\ WF_vars(ReadEnd(c) /\ UNCHANGED playerVars)
                       /\ WF_vars(ClientRead(c) /\ UNCHANGED hostVars)
                       /\ WF_vars(PlayerLoop(c) /\ UNCHANGED hostVars)

Spec == Init /\ [][Next]_vars

FairSpec == Spec /\ Fairness

-----------------------------------------------------------------------------
(* The round card *)

\* No two players are shown different green cards, whoever joins and however
\* late: client_count passes expected_players once, so loadgame_request, which
\* takes a green card off the deck, runs once.
RoundCardAgreement ==
  \A c, d \in Client :
    roundCard[c] \in GreenCard /\ roundCard[d] \in GreenCard
      => roundCard[c] = roundCard[d]

-----------------------------------------------------------------------------
(* The red cards *)

CardsOf(msg) == IF msg.rpc = "DealCard" THEN msg.cards ELSE <<>>

\* The packs of red cards that c has and is to have: its hand, then what was dealt and
\* is in its queue and in the stream to it.
Packs(c) == <<hand[c]>>
            \o [i \in 1..Len(inbox[c]) |-> CardsOf(inbox[c][i].msg)]
            \o [i \in 1..Len(toClient[c]) |-> CardsOf(toClient[c][i])]

\* Where in these packs there is a card, and which.
Held(c) == UNION {{i} \X (1..Len(Packs(c)[i])) : i \in 1..Len(Packs(c))}
CardAt(c, place) == Packs(c)[place[1]][place[2]]

\* No red card is in two places: not twice in the deck, in the deck and dealt,
\* dealt twice to one player, nor to two of them.  (What split_string leaves of a
\* card with a slash in it is no card any more.)
CardsUnique ==
  /\ IsInjective(redDeck)
  /\ \A c \in Client : \A p \in Held(c) :
       /\ CardAt(c, p) \notin Range(redDeck)
       /\ \A d \in Client : \A q \in Held(d) :
            CardAt(c, p) = CardAt(d, q) /\ CardAt(c, p) # Spoiled => c = d /\ p = q

\* What c has written that the host has not handled, and the cards that are
\* asked for in it.
Unanswered(c) == toServer[c] \o [i \in 1..Len(eventQueue) |-> eventQueue[i].msg]
Asked(c) ==
  UNION {{i} \X (1..Unanswered(c)[i].amount) :
           i \in {i \in 1..Len(Unanswered(c)) : /\ Unanswered(c)[i].rpc = "DealCard"
                                                /\ Unanswered(c)[i].id = c}}

\* What the host has dealt to a player and what the player has still asked for add up
\* to no more than one hand, although a player computes what it asks for from the
\* cards that have already arrived, and from as many as it takes them for.
DealtWithinLimit ==
  \A c \in Client : Len(dealt[c]) + Cardinality(Asked(c)) <= HandSize

\* All that is asked for and not yet dealt is in the deck: deal_cards, which
\* does not look, never takes a card from an empty one.
DeckSuffices == Cardinality(UNION {{c} \X Asked(c) : c \in Client}) <= Len(redDeck)

-----------------------------------------------------------------------------
(* Joining *)

PlayerJoinedQueued ==
  Cardinality({i \in 1..Len(eventQueue) : eventQueue[i].event = "PlayerJoined"})

\* The two records of who has joined, written by the io thread and by the main
\* thread, agree once the events between them are accounted for; and every
\* player on record has a session.
JoinAccounting ==
  /\ clientCount + PlayerJoinedQueued = Cardinality(playerData)
  /\ playerData \subseteq Range(clients)

\* The host answers a request only to a client it has a session with, so
\* get_target_client never returns the nullptr that deal_cards would call.
ReplyTargetExists ==
  \A i \in 1..Len(eventQueue) :
    eventQueue[i].event = "CardRequest" => eventQueue[i].msg.id \in Range(clients)

-----------------------------------------------------------------------------
(* The roles *)

Started(c) == pstate[c] # "Waiting"
Judges == {c \in Client : pstate[c] = "Judge"}

\* The clients that had a session when the game was loaded, and have not lost a message
\* to a read that returned more than one.
Attentive == loaded \ missed

\* Of these never two are judges; and if nobody else is at the table, one of them is
\* the judge once everyone has started, although the host picks again every time a
\* player reports ready, among all the clients there are then.
OneJudge ==
  /\ Cardinality(Judges \cap Attentive) <= 1
  /\ /\ clients # <<>>
     /\ Range(clients) \subseteq Attentive
     /\ \A c \in Range(clients) : Started(c)
     => Judges # {}

\* None of them starts without having been shown the round card and without having
\* asked for its cards.
StartedInOrder ==
  \A c \in Attentive : Started(c) => roundCard[c] # NoCard

\* Nothing of the game happens before the expected number of players has been
\* counted: until then no judge is picked, no card shown, none dealt and nobody
\* started, whatever the players send and in whatever order it arrives.
LobbyFirst ==
  clientCount < ExpectedPlayers =>
    /\ judge = NoJudge
    /\ \A c \in Client : ~Started(c) /\ hand[c] = <<>> /\ roundCard[c] = NoCard

-----------------------------------------------------------------------------
(* Liveness *)

\* Once the expected number of players has been counted, every player starts,
\* unless the host has been terminated.
GameStarts ==
  (clientCount = ExpectedPlayers) ~>
    (~hostUp \/ \A c \in Client : Started(c))

\* The host gets through its events, whatever the players do.
HostKeepsUp == []<>(~hostUp \/ (eventQueue = <<>> /\ outbox = <<>>))

-----------------------------------------------------------------------------
(* What the comments and texts of the code say, and the code does not do      *)

\* "This callback is invoked whenever a new client has joined!", says the
\* connection callback: every client with a session is on record.
EveryJoinRecorded == Range(clients) \subseteq playerData

\* "Ready, and have received my cards!", says the message that reports a player
\* ready: a player that takes part in the round comes to hold its cards.
StartedPlayersGetCards ==
  \A c \in Client : Started(c) ~> (hand[c] # <<>> \/ ~hostUp)

\* "Its important to pop the event message queue, to mark it as handle[d] ... To
\* prevent infinite loops!": a player gets through its events.
PlayerKeepsUp ==
  \A c \in Client : []<>(inbox[c] = <<>> \/ ~hostUp)

\* Nothing is being sent or handled any more.
Quiet == /\ outbox = <<>>
         /\ eventQueue = <<>>
         /\ \A c \in Client : /\ toServer[c] = <<>>
                              /\ toClient[c] = <<>>

\* "send RPC message to judge iterator to perform voting event action": when the
\* round has started, the judge iterator points to a player that is the judge.
HostKnowsJudge ==
  Quiet /\ (\A c \in Client : Started(c)) => judge \in Judges

\* "This is the green card shown to everyone, each round": whoever takes part in
\* the round has been shown it.
RoundCardShown == \A c \in Client : Started(c) => roundCard[c] \in GreenCard

\* "Whenever in player state, a red apple card is drawn from the pile if less than 7
\* cards", says PlayingState: nobody comes to hold more.
HandWithinLimit == \A c \in Client : Len(hand[c]) <= HandSize
=============================================================================
