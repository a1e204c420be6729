---------------------------- MODULE RoundsProofs ----------------------------
(***************************************************************************)
(* Theorems about the rounds, for every option, every content of rules     *)
(* that were not initialised, and any number of clients, cards and events. *)
(*                                                                         *)
(* The invariant has a part for each of the properties.  What the vote     *)
(* needs beyond its own variables is that no card is handled before the    *)
(* first client has been counted, which follows from the order of the      *)
(* queue (QueueInv), and that the cards that wait in the queue are those   *)
(* that were played and not handled, in order (CardsWait); what the judge  *)
(* needs is that clients only ever get more (JudgeInv).                    *)
(***************************************************************************)
EXTENDS Rounds, SequenceTheorems, TLAPS

-----------------------------------------------------------------------------
(* The rules *)

\* Whatever setup_game comes to has the type of the rules.
LEMMA RulesType ==
  ASSUME NEW n \in Int \cup {NoOption}, NEW r \in setup_game(n)
  PROVE  r \in GameRules
<1>1. \A u \in Undetermined : u \in GameRules /\ u.points_to_win \in Int
  BY UndeterminedAssumption DEF GameRules
<1>2. \A total \in Int : PointsToWin(total) \subseteq Int
  BY <1>1 DEF PointsToWin
<1>3. \A players \in Int, bots \in Int : new_gamerules(players, bots) \subseteq GameRules
  BY <1>2 DEF new_gamerules, GameRules
<1>4. \/ r \in Undetermined
      \/ \E players \in Int, bots \in Int : r \in new_gamerules(players, bots)
  BY NoOptionAssumption DEF setup_game
<1> QED BY <1>1, <1>3, <1>4

\* The rules that setup_game computes are those of the game (new_gamerules and
\* the bots that fill the table), for every number of players from one on.
THEOREM SetupMatchesReference ==
  ASSUME NEW n \in Int \cup {NoOption}, Playable(n), NEW r \in setup_game(n)
  PROVE  IsReferenceRules(r, n)
<1>1. \A players \in Int, bots \in Int :
        players + bots = 4 => new_gamerules(players, bots) =
          {[expected_players |-> players, num_bots |-> bots, points_to_win |-> 8]}
  BY DEF new_gamerules, PointsToWin
<1>2. CASE n = NoOption
  <2>1. r \in new_gamerules(1, 3)
    BY <1>2, NoOptionAssumption DEF setup_game
  <2>2. r = [expected_players |-> 1, num_bots |-> 3, points_to_win |-> 8]
    BY <1>1, <2>1
  <2> QED BY <1>2, <2>2 DEF IsReferenceRules
<1>3. CASE n \in Int /\ n < 4
  <2>1. n \in Int /\ n # NoOption /\ n \in 1..3
    BY <1>3, NoOptionAssumption DEF Playable
  <2>2. r \in new_gamerules(n, 4 - n)
    BY <2>1 DEF setup_game
  <2> QED BY <1>1, <2>1, <2>2 DEF IsReferenceRules
<1>4. CASE n \in Int /\ n >= 4
  <2>1. n \in Int /\ n # NoOption /\ n >= 4
    BY <1>4, NoOptionAssumption
  <2>2. r \in new_gamerules(n, 0)
    BY <2>1 DEF setup_game
  <2>3. PICK points \in PointsToWin(n) :
          r = [expected_players |-> n, num_bots |-> 0, points_to_win |-> points]
    BY <2>1, <2>2 DEF new_gamerules
  <2>4. points = IF n >= 8 THEN 4 ELSE 12 - n
    BY <2>1, <2>3 DEF PointsToWin
  <2> QED BY <2>1, <2>3, <2>4 DEF IsReferenceRules
<1> QED BY <1>2, <1>3, <1>4

-----------------------------------------------------------------------------
(* The invariant *)

RulesInv ==
  /\ number_players \in NumberPlayers
  /\ rules \in setup_game(number_players)

\* A judge just picked is within the vector, and so is the last client that a
\* loop takes.
JudgeInv ==
  /\ doing = "picked" /\ judge_idx_iter # Stale => judge_idx_iter \in 1..size
  /\ JudgeIsTold

\* What waits first is the first client's joining, until it has been counted.
QueueInv ==
  /\ size = 0 => queue = <<>>
  /\ client_count = 0 /\ queue # <<>> => Head(queue).event = "PlayerJoined"
  /\ client_count = 0 /\ size > 0 => queue # <<>>

IsCard(event) == event.event = "CardPlayed"

\* The cards in q are those after the handled up to the last one, in order.
CardsWaiting(q, handled, last) ==
  /\ handled <= last
  /\ \A i \in 1..Len(q) : IsCard(q[i]) => q[i].card \in handled + 1..last
  /\ \A i, k \in 1..Len(q) : i < k /\ IsCard(q[i]) /\ IsCard(q[k]) => q[i].card < q[k].card
  /\ \A n \in handled + 1..last : \E i \in 1..Len(q) : IsCard(q[i]) /\ q[i].card = n

CardsWait == CardsWaiting(queue, cardplayed_count, played)

\* A round begins with a card that was played; before the first that ends,
\* nothing but the cards, which are in the deck in order, matters to the votes.
VoteInv ==
  /\ Len(round_deck) = cardplayed_count
  /\ \A j \in 1..Len(round_deck) : round_deck[j] = j
  /\ began <= cardplayed_count
  /\ VoteWhenComplete
  /\ VoteIsWhole

IInv == TypeOK /\ RulesInv /\ JudgeInv /\ QueueInv /\ CardsWait /\ VoteInv

\* The parts of Next that Store, Dispatch and the others have in common.
LEMMA StoreFacts ==
  ASSUME TypeOK, NEW event \in Event, Store(event)
  PROVE  /\ queue' \in Seq(Event)
         /\ queue' # <<>>
         /\ queue # <<>> => Head(queue') = Head(queue)
         /\ queue = <<>> => Head(queue') = event
<1>1. queue \in Seq(Event) /\ queue' = Append(queue, event)
  BY DEF TypeOK, Store
<1>2. /\ queue' \in Seq(Event) /\ Len(queue') = Len(queue) + 1 /\ Len(queue) \in Nat
      /\ \A i \in 1..Len(queue) : queue'[i] = queue[i]
      /\ queue'[Len(queue) + 1] = event
  BY <1>1, AppendProperties, LenProperties
<1>3. queue' # <<>> /\ Head(queue') = queue'[1]
  BY <1>2, EmptySeq, HeadTailProperties
<1>4. queue # <<>> => Head(queue) = queue[1] /\ Len(queue) >= 1
  BY <1>1, <1>2, EmptySeq, HeadTailProperties
<1>5. queue = <<>> => Len(queue) = 0
  BY EmptySeq
<1> QED BY <1>2, <1>3, <1>4, <1>5

\* What an event that is taken off the queue leaves of it.
LEMMA DispatchFacts ==
  ASSUME TypeOK, NEW event, Dispatch(event)
  PROVE  /\ queue # <<>>
         /\ Head(queue) \in Event
         /\ Head(queue).event = event
         /\ queue' \in Seq(Event)
         /\ doing = "nothing"
<1>1. queue \in Seq(Event) /\ queue # <<>> /\ queue' = Tail(queue)
      /\ Head(queue).event = event /\ doing = "nothing"
  BY DEF TypeOK, Dispatch
<1> QED BY <1>1, HeadTailProperties

\* A card that is stored is the next one; another event changes nothing for the
\* cards.
LEMMA StoreWaiting ==
  ASSUME TypeOK, NEW event \in Event, Store(event), NEW a \in Nat, NEW b \in Nat,
         CardsWaiting(queue, a, b)
  PROVE  /\ ~IsCard(event) => CardsWaiting(queue', a, b)
         /\ IsCard(event) /\ event.card = b + 1 => CardsWaiting(queue', a, b + 1)
<1>1. queue \in Seq(Event) /\ queue' = Append(queue, event)
  BY DEF TypeOK, Store
<1>2. PICK n \in Nat : n = Len(queue)
  BY <1>1, LenProperties
<1>3. /\ Len(queue') = n + 1
      /\ \A i \in 1..n : queue'[i] = queue[i]
      /\ queue'[n + 1] = event
  BY <1>1, <1>2, AppendProperties
<1>4. \A i \in 1..n : queue[i] \in Event
  BY <1>1, <1>2, ElementOfSeq
<1>5. \A i \in 1..n + 1 : i \in 1..n \/ i = n + 1
  BY <1>2
<1>6. /\ a <= b
      /\ \A i \in 1..n : IsCard(queue[i]) => queue[i].card \in a + 1..b
      /\ \A i, k \in 1..n : i < k /\ IsCard(queue[i]) /\ IsCard(queue[k]) =>
                            queue[i].card < queue[k].card
      /\ \A m \in a + 1..b : \E i \in 1..n : IsCard(queue[i]) /\ queue[i].card = m
  BY <1>2 DEF CardsWaiting
<1>7. ASSUME ~IsCard(event) PROVE CardsWaiting(queue', a, b)
  <2>1. \A i \in 1..n + 1 : IsCard(queue'[i]) => i \in 1..n
    BY <1>3, <1>5, <1>7
  <2>2. \A i \in 1..n + 1 : IsCard(queue'[i]) => queue'[i].card \in a + 1..b
    BY <1>3, <1>6, <2>1
  <2>3. \A i, k \in 1..n + 1 : i < k /\ IsCard(queue'[i]) /\ IsCard(queue'[k]) =>
                               queue'[i].card < queue'[k].card
    BY <1>3, <1>6, <2>1
  <2>4. \A m \in a + 1..b : \E i \in 1..n + 1 : IsCard(queue'[i]) /\ queue'[i].card = m
    <3>1. 1..n \subseteq 1..n + 1
      BY <1>2
    <3> QED BY <1>3, <1>6, <3>1
  <2> QED BY <1>3, <1>6, <2>2, <2>3, <2>4 DEF CardsWaiting
<1>8. ASSUME IsCard(event), event.card = b + 1 PROVE CardsWaiting(queue', a, b + 1)
  <2>1. \A i \in 1..n : IsCard(queue'[i]) => queue'[i].card \in a + 1..b
    BY <1>3, <1>6
  <2>2. \A i \in 1..n + 1 : IsCard(queue'[i]) => queue'[i].card \in a + 1..b + 1
    BY <1>3, <1>5, <1>6, <1>8, <2>1
  <2>3. \A i, k \in 1..n + 1 : i < k /\ IsCard(queue'[i]) /\ IsCard(queue'[k]) =>
                               queue'[i].card < queue'[k].card
    <3> SUFFICES ASSUME NEW i \in 1..n + 1, NEW k \in 1..n + 1, i < k,
                        IsCard(queue'[i]), IsCard(queue'[k])
                 PROVE  queue'[i].card < queue'[k].card
      OBVIOUS
    <3>1. i \in 1..n /\ (k \in 1..n \/ k = n + 1)
      BY <1>2
    <3>2. CASE k \in 1..n
      BY <1>3, <1>6, <3>1, <3>2
    <3>3. CASE k = n + 1
      <4>1. queue'[i].card \in a + 1..b /\ queue'[k].card = b + 1
        BY <1>3, <1>8, <2>1, <3>1, <3>3
      <4> QED BY <4>1
    <3> QED BY <3>1, <3>2, <3>3
  <2>4. \A m \in a + 1..b + 1 :
          \E i \in 1..n + 1 : IsCard(queue'[i]) /\ queue'[i].card = m
    <3> SUFFICES ASSUME NEW m \in a + 1..b + 1
                 PROVE  \E i \in 1..n + 1 : IsCard(queue'[i]) /\ queue'[i].card = m
      OBVIOUS
    <3>1. CASE m = b + 1
      <4>1. n + 1 \in 1..n + 1
        BY <1>2
      <4> QED BY <1>3, <1>8, <3>1, <4>1
    <3>2. CASE m # b + 1
      <4>1. m \in a + 1..b
        BY <3>2
      <4>2. PICK i \in 1..n : IsCard(queue[i]) /\ queue[i].card = m
        BY <1>6, <4>1
      <4>3. i \in 1..n + 1
        BY <1>2
      <4> QED BY <1>3, <4>2, <4>3
    <3> QED BY <3>1, <3>2
  <2>5. a <= b + 1
    BY <1>6
  <2> QED BY <1>3, <2>2, <2>3, <2>4, <2>5 DEF CardsWaiting
<1> QED BY <1>7, <1>8

\* The card that is handled is the next one; what follows it still waits.
LEMMA DispatchWaiting ==
  ASSUME TypeOK, NEW event, Dispatch(event), NEW a \in Nat, NEW b \in Nat,
         CardsWaiting(queue, a, b)
  PROVE  /\ event # "CardPlayed" => CardsWaiting(queue', a, b)
         /\ event = "CardPlayed" => Head(queue).card = a + 1 /\ CardsWaiting(queue', a + 1, b)
<1>1. queue \in Seq(Event) /\ queue # <<>> /\ queue' = Tail(queue) /\ Head(queue).event = event
  BY DEF TypeOK, Dispatch
<1>2. PICK n \in Nat : Len(queue) = n + 1
  <2>1. Len(queue) \in Nat /\ Len(queue) # 0
    BY <1>1, EmptySeq, LenProperties
  <2>2. Len(queue) - 1 \in Nat /\ Len(queue) = (Len(queue) - 1) + 1
    BY <2>1
  <2> QED BY <2>2
<1>3. /\ Len(queue') = n
      /\ \A i \in 1..n : queue'[i] = queue[i + 1]
      /\ Head(queue) = queue[1]
  BY <1>1, <1>2, HeadTailProperties
<1>4. /\ a <= b
      /\ \A i \in 1..n + 1 : IsCard(queue[i]) => queue[i].card \in a + 1..b
      /\ \A i, k \in 1..n + 1 : i < k /\ IsCard(queue[i]) /\ IsCard(queue[k]) =>
                                queue[i].card < queue[k].card
      /\ \A m \in a + 1..b : \E i \in 1..n + 1 : IsCard(queue[i]) /\ queue[i].card = m
  BY <1>2 DEF CardsWaiting
<1>5. \A i \in 1..n : i + 1 \in 1..n + 1
  BY <1>2
<1>6. \A i \in 1..n + 1 : i = 1 \/ (i - 1 \in 1..n /\ queue'[i - 1] = queue[i])
  BY <1>2, <1>3
<1>7. \A i, k \in 1..n : i < k /\ IsCard(queue'[i]) /\ IsCard(queue'[k]) =>
                         queue'[i].card < queue'[k].card
  <2> SUFFICES ASSUME NEW i \in 1..n, NEW k \in 1..n, i < k,
                      IsCard(queue'[i]), IsCard(queue'[k])
               PROVE  queue'[i].card < queue'[k].card
    OBVIOUS
  <2>1. i + 1 \in 1..n + 1 /\ k + 1 \in 1..n + 1 /\ i + 1 < k + 1
    BY <1>2
  <2>2. queue'[i] = queue[i + 1] /\ queue'[k] = queue[k + 1]
    BY <1>3
  <2> QED BY <1>4, <2>1, <2>2
<1>8. ASSUME event # "CardPlayed" PROVE CardsWaiting(queue', a, b)
  <2>1. \A i \in 1..n : IsCard(queue'[i]) => queue'[i].card \in a + 1..b
    BY <1>3, <1>4, <1>5
  <2>2. \A m \in a + 1..b : \E i \in 1..n : IsCard(queue'[i]) /\ queue'[i].card = m
    <3> SUFFICES ASSUME NEW m \in a + 1..b
                 PROVE  \E i \in 1..n : IsCard(queue'[i]) /\ queue'[i].card = m
      OBVIOUS
    <3>1. PICK i \in 1..n + 1 : IsCard(queue[i]) /\ queue[i].card = m
      BY <1>4
    <3>2. i # 1
      BY <1>1, <1>3, <1>8, <3>1 DEF IsCard
    <3> QED BY <1>6, <3>1, <3>2
  <2> QED BY <1>3, <1>4, <1>7, <2>1, <2>2 DEF CardsWaiting
<1>9. ASSUME event = "CardPlayed"
      PROVE  Head(queue).card = a + 1 /\ CardsWaiting(queue', a + 1, b)
  <2>0. 1 \in 1..n + 1 /\ IsCard(queue[1])
    BY <1>1, <1>2, <1>3, <1>9 DEF IsCard
  <2>1. PICK c \in a + 1..b : c = queue[1].card
    BY <1>4, <2>0
  <2>2. \A i \in 1..n + 1 : i # 1 /\ IsCard(queue[i]) => c < queue[i].card
    BY <1>2, <1>4, <2>0, <2>1
  <2>3. c = a + 1
    <3>1. a + 1 \in a + 1..b
      BY <2>1
    <3>2. PICK i \in 1..n + 1 : IsCard(queue[i]) /\ queue[i].card = a + 1
      BY <1>4, <3>1
    <3>3. CASE i = 1
      BY <2>1, <3>2, <3>3
    <3>4. CASE i # 1
      <4>1. c < a + 1
        BY <2>2, <3>2, <3>4
      <4> QED BY <2>1, <4>1
    <3> QED BY <3>3, <3>4
  <2>4. \A i \in 1..n : IsCard(queue'[i]) => queue'[i].card \in (a + 1) + 1..b
    <3> SUFFICES ASSUME NEW i \in 1..n, IsCard(queue'[i])
                 PROVE  queue'[i].card \in (a + 1) + 1..b
      OBVIOUS
    <3>1. queue'[i] = queue[i + 1] /\ i + 1 \in 1..n + 1 /\ i + 1 # 1
      BY <1>2, <1>3
    <3>2. PICK m \in a + 1..b : m = queue[i + 1].card
      BY <1>4, <3>1
    <3>3. c < m
      BY <2>2, <3>1, <3>2
    <3>4. m \in (a + 1) + 1..b
      BY <2>3, <3>3
    <3> QED BY <3>1, <3>2, <3>4
  <2>5. \A m \in (a + 1) + 1..b : \E i \in 1..n : IsCard(queue'[i]) /\ queue'[i].card = m
    <3> SUFFICES ASSUME NEW m \in (a + 1) + 1..b
                 PROVE  \E i \in 1..n : IsCard(queue'[i]) /\ queue'[i].card = m
      OBVIOUS
    <3>1. m \in a + 1..b /\ m # a + 1
      OBVIOUS
    <3>2. PICK i \in 1..n + 1 : IsCard(queue[i]) /\ queue[i].card = m
      BY <1>4, <3>1
    <3>3. i # 1
      BY <2>1, <2>3, <3>1, <3>2
    <3> QED BY <1>6, <3>2, <3>3
  <2>6. a + 1 <= b
    BY <2>1
  <2> QED BY <1>3, <1>7, <2>1, <2>3, <2>4, <2>5, <2>6 DEF CardsWaiting
<1> QED BY <1>8, <1>9

\* The initial states satisfy the invariant.
LEMMA InitIInv == Init => IInv
<1> SUFFICES ASSUME Init PROVE IInv
  OBVIOUS
<1>1. /\ number_players \in Int \cup {NoOption} /\ rules \in GameRules
  BY NumberPlayersAssumption, RulesType DEF Init
<1>2. /\ size = 0 /\ capacity = 0 /\ queue = <<>> /\ client_count = 0 /\ doing = "nothing"
      /\ judge_idx_iter = NoJudge /\ loop = Stale /\ round_deck = <<>>
      /\ cardplayed_count = 0 /\ votes = <<>> /\ began = 0 /\ played = 0 /\ up = TRUE
  BY DEF Init
<1>3. Len(round_deck) = 0 /\ Len(votes) = 0
  BY <1>2, EmptySeq
<1>4. TypeOK
  BY <1>1, <1>2, EmptySeq DEF TypeOK
<1>5. RulesInv
  BY DEF Init, RulesInv
<1>6. JudgeInv /\ QueueInv
  BY <1>2 DEF JudgeInv, JudgeIsTold, QueueInv
<1>7. VoteInv
  BY <1>2, <1>3 DEF VoteInv, VoteWhenComplete, VoteMade, VoteIsWhole
<1>8. CardsWait
  BY <1>2, EmptySeq DEF CardsWait, CardsWaiting
<1> QED BY <1>4, <1>5, <1>6, <1>7, <1>8 DEF IInv

-----------------------------------------------------------------------------
(* Steps *)

\* A playable game has no negative number of bots.
LEMMA BotsNotNegative ==
  ASSUME RulesInv, Playable(number_players)
  PROVE  rules.num_bots \in Nat
<1>1. number_players \in Int \cup {NoOption}
  BY NumberPlayersAssumption DEF RulesInv
<1>2. IsReferenceRules(rules, number_players)
  BY <1>1, SetupMatchesReference DEF RulesInv
<1>3. CASE number_players = NoOption
  BY <1>2, <1>3 DEF IsReferenceRules
<1>4. CASE number_players # NoOption
  <2>1. number_players \in Int
    BY <1>1, <1>4
  <2> QED BY <1>2, <1>4, <2>1 DEF IsReferenceRules
<1> QED BY <1>3, <1>4

\* A step that leaves the cards, the votes and the number of clients counted
\* alone.
LEMMA VoteInvKept ==
  ASSUME VoteInv, UNCHANGED <<lobbyVars, client_count, roundVars>>
  PROVE  VoteInv'
BY DEF VoteInv, VoteWhenComplete, VoteMade, VoteIsWhole, Expected, lobbyVars, roundVars

\* An event taken off that is no card leaves the cards that wait as they are.
LEMMA OtherEventWaiting ==
  ASSUME IInv, NEW event, event # "CardPlayed", Dispatch(event),
         UNCHANGED <<cardplayed_count, played>>
  PROVE  CardsWait'
<1>1. cardplayed_count \in Nat /\ played \in Nat
  BY DEF IInv, TypeOK
<1>2. CardsWaiting(queue', cardplayed_count, played)
  BY <1>1, DispatchWaiting DEF IInv, CardsWait
<1> QED BY <1>2 DEF CardsWait

\* One more client: the vector may move, and what pointed into it is stale then.
LEMMA AcceptIInv == ASSUME IInv, Accept PROVE IInv'
<1>1. /\ UNCHANGED <<lobbyVars, client_count, doing, roundVars, played, up>>
      /\ size' = size + 1
      /\ IF size < capacity
         THEN UNCHANGED <<capacity, judge_idx_iter, loop>>
         ELSE /\ capacity' = IF capacity = 0 THEN 1 ELSE 2 * capacity
              /\ judge_idx_iter' = IF judge_idx_iter = NoJudge THEN NoJudge ELSE Stale
              /\ loop' = Stale
      /\ Store([event |-> "PlayerJoined"])
  BY DEF Accept, push_back
<1>2. /\ queue' \in Seq(Event)
      /\ queue' # <<>>
      /\ queue # <<>> => Head(queue') = Head(queue)
      /\ queue = <<>> => Head(queue') = [event |-> "PlayerJoined"]
  <2>1. [event |-> "PlayerJoined"] \in Event
    BY DEF Event
  <2> QED BY <1>1, <2>1, StoreFacts DEF IInv
<1>3. size \in Nat /\ capacity \in Nat /\ size <= capacity
  BY DEF IInv, TypeOK
<1>4. TypeOK'
  <2>1. capacity' \in Nat /\ size' \in Nat /\ size' <= capacity'
    BY <1>1, <1>3
  <2>2. /\ judge_idx_iter' \in (Nat \ {0}) \cup {NoJudge, Stale}
        /\ loop' = Stale \/ loop' \in [at : Nat, last : Nat]
    BY <1>1 DEF IInv, TypeOK
  <2> QED BY <1>1, <1>2, <2>1, <2>2 DEF IInv, TypeOK, lobbyVars, roundVars
<1>5. RulesInv'
  BY <1>1 DEF IInv, RulesInv, lobbyVars
<1>6. JudgeInv'
  <2>1. CASE size < capacity
    BY <1>1, <1>3, <2>1 DEF IInv, JudgeInv, JudgeIsTold
  <2>2. CASE ~(size < capacity)
    <3>1. CASE judge_idx_iter = NoJudge
      <4>1. doing # "picked"
        BY <3>1, IteratorAssumption, <1>3 DEF IInv, JudgeInv
      <4> QED BY <1>1, <2>2, <4>1 DEF JudgeInv, JudgeIsTold
    <3>2. CASE judge_idx_iter # NoJudge
      BY <1>1, <2>2, <3>2 DEF JudgeInv, JudgeIsTold
    <3> QED BY <3>1, <3>2
  <2> QED BY <2>1, <2>2
<1>7. QueueInv'
  BY <1>1, <1>2, <1>3 DEF IInv, QueueInv
<1>8. VoteInv'
  BY <1>1, VoteInvKept DEF IInv
<1>9. CardsWait'
  <2>1. [event |-> "PlayerJoined"] \in Event /\ ~IsCard([event |-> "PlayerJoined"])
    BY DEF Event, IsCard
  <2>2. cardplayed_count \in Nat /\ played \in Nat
    BY DEF IInv, TypeOK
  <2>3. CardsWaiting(queue', cardplayed_count, played)
    BY <1>1, <2>1, <2>2, StoreWaiting DEF IInv, CardsWait
  <2> QED BY <1>1, <2>3 DEF CardsWait, roundVars
<1> QED BY <1>4, <1>5, <1>6, <1>7, <1>8, <1>9 DEF IInv

\* Storing an event of a client, of which there is one.
LEMMA ReadIInv ==
  ASSUME IInv, NEW event \in Event, Store(event), size > 0, played' \in Nat,
         IF IsCard(event) THEN event.card = played + 1 /\ played' = played + 1
                          ELSE played' = played,
         UNCHANGED <<lobbyVars, vectorVars, client_count, judgeVars, roundVars, up>>
  PROVE  IInv'
<1>1. /\ queue' \in Seq(Event)
      /\ queue' # <<>>
      /\ queue # <<>> => Head(queue') = Head(queue)
  BY StoreFacts DEF IInv
<1>2. TypeOK'
  BY <1>1 DEF IInv, TypeOK, lobbyVars, vectorVars, judgeVars, roundVars
<1>3. RulesInv' /\ JudgeInv'
  BY DEF IInv, RulesInv, JudgeInv, JudgeIsTold, lobbyVars, vectorVars, judgeVars
<1>4. QueueInv'
  <2>1. size \in Nat /\ size' = size /\ client_count' = client_count
    BY DEF IInv, TypeOK, vectorVars
  <2> QED BY <1>1, <2>1 DEF IInv, QueueInv
<1>5. VoteInv'
  BY VoteInvKept DEF IInv
<1>6. CardsWait'
  <2>1. cardplayed_count \in Nat /\ played \in Nat /\ cardplayed_count' = cardplayed_count
    BY DEF IInv, TypeOK, roundVars
  <2>2. CardsWaiting(queue', cardplayed_count, played')
    BY <2>1, StoreWaiting DEF IInv, CardsWait
  <2> QED BY <2>1, <2>2 DEF CardsWait
<1> QED BY <1>2, <1>3, <1>4, <1>5, <1>6 DEF IInv

\* One more client is counted: one more card is expected from now on.
LEMMA PlayerJoinedIInv == ASSUME IInv, PlayerJoinedEvent PROVE IInv'
<1>1. /\ UNCHANGED <<lobbyVars, vectorVars, judge_idx_iter, roundVars, played, up>>
      /\ client_count' = client_count + 1
      /\ doing' = "updating" /\ loop' = [at |-> 1, last |-> size]
      /\ Dispatch("PlayerJoined")
  BY DEF PlayerJoinedEvent, BeginLoop
<1>2. queue' \in Seq(Event) /\ queue # <<>>
  BY <1>1, DispatchFacts DEF IInv
<1>3. client_count \in Nat /\ size \in Nat
  BY DEF IInv, TypeOK
<1>4. TypeOK'
  <2>1. client_count' \in Nat /\ loop' \in [at : Nat, last : Nat]
    BY <1>1, <1>3
  <2> QED BY <1>1, <1>2, <2>1 DEF IInv, TypeOK, lobbyVars, vectorVars, roundVars
<1>5. RulesInv' /\ JudgeInv'
  BY <1>1 DEF IInv, RulesInv, JudgeInv, JudgeIsTold, lobbyVars
<1>6. QueueInv'
  BY <1>1, <1>2, <1>3 DEF IInv, QueueInv, vectorVars
<1>7. VoteInv'
  <2>1. /\ VoteIsWhole' /\ Len(round_deck') = cardplayed_count'
        /\ began' <= cardplayed_count'
        /\ \A j \in 1..Len(round_deck') : round_deck'[j] = j
    BY <1>1 DEF IInv, VoteInv, VoteIsWhole, lobbyVars, roundVars
  <2>2. VoteWhenComplete'
    <3>1. SUFFICES ASSUME Playable(number_players), began = 0, cardplayed_count > began,
                          cardplayed_count - began >= (client_count + 1) + rules.num_bots
                   PROVE  \E i \in 1..Len(votes) : votes[i].at > began
      BY <1>1 DEF VoteWhenComplete, VoteMade, Expected, lobbyVars, roundVars
    <3>2. rules.num_bots \in Nat /\ cardplayed_count \in Nat
      BY <3>1, BotsNotNegative DEF IInv, TypeOK
    <3>3. cardplayed_count - began >= Expected
      BY <1>3, <3>1, <3>2 DEF Expected
    <3> QED BY <3>1, <3>3 DEF IInv, VoteInv, VoteWhenComplete, VoteMade
  <2> QED BY <2>1, <2>2 DEF VoteInv
<1>8. CardsWait'
  BY <1>1, OtherEventWaiting DEF IInv, roundVars
<1> QED BY <1>4, <1>5, <1>6, <1>7, <1>8 DEF IInv

\* The judge picked is one of the clients there are.
LEMMA PickJudgeIInv == ASSUME IInv, pick_judge PROVE IInv'
<1>1. /\ UNCHANGED <<lobbyVars, vectorVars, client_count, loop, roundVars, played, up>>
      /\ judge_idx_iter' \in 1..size
      /\ doing' = "picked"
      /\ Dispatch("GameStarted")
  BY DEF pick_judge
<1>2. queue' \in Seq(Event) /\ queue # <<>> /\ Head(queue).event = "GameStarted"
  BY <1>1, DispatchFacts DEF IInv
<1>3. size \in Nat /\ client_count \in Nat
  BY DEF IInv, TypeOK
<1>4. TypeOK'
  BY <1>1, <1>2, <1>3 DEF IInv, TypeOK, lobbyVars, vectorVars, roundVars
<1>5. RulesInv' /\ JudgeInv'
  BY <1>1 DEF IInv, RulesInv, JudgeInv, JudgeIsTold, lobbyVars, vectorVars
<1>6. QueueInv'
  BY <1>1, <1>2 DEF IInv, QueueInv, vectorVars
<1>7. VoteInv'
  BY <1>1, VoteInvKept DEF IInv
<1>8. CardsWait'
  BY <1>1, OtherEventWaiting DEF IInv, roundVars
<1> QED BY <1>4, <1>5, <1>6, <1>7, <1>8 DEF IInv

\* The steps of the loops, which write neither the queue nor the cards.
LEMMA LoopIInv ==
  ASSUME IInv, StartGameLoop \/ NextTurn \/ EndLoop \/ ReadFreed
  PROVE  IInv'
<1>1. /\ UNCHANGED <<lobbyVars, vectorVars, queue, client_count, judge_idx_iter,
                     roundVars, played>>
      /\ up' \in BOOLEAN
  BY DEF StartGameLoop, NextTurn, EndLoop, ReadFreed, judgeVars, IInv, TypeOK
<1>2. size \in Nat
  BY DEF IInv, TypeOK
<1>3. /\ doing' \in {"nothing", "updating", "picked", "starting"}
      /\ loop' = Stale \/ loop' \in [at : Nat, last : Nat]
      /\ JudgeInv'
  <2>1. CASE StartGameLoop
    <3>1. doing = "picked" /\ doing' = "starting" /\ loop' = [at |-> 1, last |-> size]
      BY <2>1 DEF StartGameLoop, BeginLoop
    <3> QED BY <1>1, <1>2, <3>1 DEF IInv, JudgeInv, JudgeIsTold
  <2>2. CASE NextTurn
    <3>1. /\ doing' = doing /\ doing \in {"updating", "starting"} /\ loop # Stale
          /\ loop' = [loop EXCEPT !.at = @ + 1]
      BY <2>2 DEF NextTurn
    <3>2. loop \in [at : Nat, last : Nat]
      BY <3>1 DEF IInv, TypeOK
    <3>3. loop' \in [at : Nat, last : Nat] /\ loop'.last = loop.last
      BY <3>1, <3>2
    <3> QED BY <1>1, <3>1, <3>3 DEF IInv, JudgeInv, JudgeIsTold
  <2>3. CASE EndLoop
    BY <2>3 DEF EndLoop, JudgeInv, JudgeIsTold
  <2>4. CASE ReadFreed
    BY <1>1, <2>4 DEF ReadFreed, judgeVars, vectorVars, IInv, TypeOK, JudgeInv, JudgeIsTold
  <2> QED BY <2>1, <2>2, <2>3, <2>4
<1>4. TypeOK'
  BY <1>1, <1>3 DEF IInv, TypeOK, lobbyVars, vectorVars, roundVars
<1>5. RulesInv' /\ QueueInv'
  BY <1>1 DEF IInv, RulesInv, QueueInv, lobbyVars, vectorVars
<1>6. VoteInv'
  BY <1>1, VoteInvKept DEF IInv
<1>7. CardsWait'
  BY <1>1 DEF IInv, CardsWait, roundVars
<1> QED BY <1>3, <1>4, <1>5, <1>6, <1>7 DEF IInv

\* The judge moves on, in the vector or past its end; the round that begins is the
\* first one no more, unless no card has been played.
LEMMA NextRoundIInv == ASSUME IInv, next_round_transition PROVE IInv'
<1>1. /\ UNCHANGED <<lobbyVars, vectorVars, queue, client_count, doing, loop,
                     round_deck, cardplayed_count, votes, played>>
      /\ began' = cardplayed_count
      /\ doing = "nothing"
      /\ up' \in BOOLEAN
  BY DEF next_round_transition
<1>2. judge_idx_iter' \in (Nat \ {0}) \cup {NoJudge, Stale}
  <2>1. judge_idx_iter \in (Nat \ {0}) \cup {NoJudge, Stale}
    BY DEF IInv, TypeOK
  <2>2. \/ judge_idx_iter' = judge_idx_iter
        \/ judge_idx_iter = Stale /\ judge_idx_iter' = Stale
        \/ /\ judge_idx_iter \notin {NoJudge, Stale}
           /\ judge_idx_iter' = judge_idx_iter + 1
    BY DEF next_round_transition, update_judge
  <2> QED BY <2>1, <2>2
<1>3. cardplayed_count \in Nat
  BY DEF IInv, TypeOK
<1>4. TypeOK'
  BY <1>1, <1>2, <1>3 DEF IInv, TypeOK, lobbyVars, vectorVars
<1>5. RulesInv' /\ QueueInv' /\ JudgeInv' /\ CardsWait'
  BY <1>1 DEF IInv, RulesInv, QueueInv, JudgeInv, JudgeIsTold, CardsWait, lobbyVars, vectorVars
<1>6. VoteInv'
  <2>1. /\ Len(round_deck') = cardplayed_count'
        /\ \A j \in 1..Len(round_deck') : round_deck'[j] = j
        /\ VoteIsWhole'
    BY <1>1 DEF IInv, VoteInv, VoteIsWhole, lobbyVars
  <2>2. began' <= cardplayed_count' /\ ~(cardplayed_count' > began')
    BY <1>1, <1>3
  <2>3. VoteWhenComplete'
    BY <2>2 DEF VoteWhenComplete, VoteMade
  <2> QED BY <2>1, <2>2, <2>3 DEF VoteInv
<1> QED BY <1>4, <1>5, <1>6 DEF IInv

\* One more card: the vote is made when it is the last one expected.
LEMMA CardPlayedIInv == ASSUME IInv, card_played_event PROVE IInv'
<1> DEFINE Votes == [cards : Seq(Nat), counted : Nat, from : Nat, at : Nat]
           vote == Vote(round_deck', cardplayed_count')
<1>1. /\ UNCHANGED <<lobbyVars, vectorVars, client_count, judgeVars, began, played, up>>
      /\ cardplayed_count' = cardplayed_count + 1
      /\ round_deck' = Append(round_deck, Head(queue).card)
      /\ votes' = IF cardplayed_count' = Expected THEN Append(votes, vote) ELSE votes
      /\ Dispatch("CardPlayed")
  BY DEF card_played_event
<1>2. /\ queue' \in Seq(Event) /\ queue # <<>> /\ Head(queue) \in Event
      /\ Head(queue).event = "CardPlayed"
  BY <1>1, DispatchFacts DEF IInv
<1>3. /\ size \in Nat /\ client_count \in Nat /\ cardplayed_count \in Nat
      /\ round_deck \in Seq(Nat) /\ began \in Nat /\ played \in Nat
      /\ votes \in Seq(Votes)
      /\ Len(round_deck) = cardplayed_count
      /\ \A j \in 1..Len(round_deck) : round_deck[j] = j
      /\ began <= cardplayed_count
      /\ rules.num_bots \in Int
  BY DEF IInv, TypeOK, VoteInv, GameRules
<1>4. client_count > 0
  BY <1>2, <1>3 DEF IInv, QueueInv
<1>5. /\ Head(queue).card = cardplayed_count + 1
      /\ CardsWaiting(queue', cardplayed_count + 1, played)
  BY <1>1, <1>3, DispatchWaiting DEF IInv, CardsWait
<1>6. /\ round_deck' \in Seq(Nat)
      /\ Len(round_deck') = cardplayed_count'
      /\ \A j \in 1..Len(round_deck') : round_deck'[j] = j
  <2>1. cardplayed_count + 1 \in Nat
    BY <1>3
  <2>2. /\ round_deck' \in Seq(Nat)
        /\ Len(round_deck') = cardplayed_count + 1
        /\ \A j \in 1..cardplayed_count : round_deck'[j] = round_deck[j]
        /\ round_deck'[cardplayed_count + 1] = cardplayed_count + 1
    BY <1>1, <1>3, <1>5, <2>1, AppendProperties
  <2> QED BY <1>1, <1>3, <2>2
<1>7. /\ vote \in Votes
      /\ vote.cards = round_deck' /\ vote.counted = client_count
      /\ vote.from = began /\ vote.at = cardplayed_count + 1
  BY <1>1, <1>3, <1>6 DEF Vote
<1> HIDE DEF vote, Votes
<1>8. /\ votes' \in Seq(Votes)
      /\ Len(votes) \in Nat
      /\ Len(votes') \in {Len(votes), Len(votes) + 1}
      /\ \A i \in 1..Len(votes) : votes'[i] = votes[i]
      /\ Len(votes') # Len(votes) =>
           cardplayed_count' = Expected /\ votes'[Len(votes) + 1] = vote
      /\ cardplayed_count' = Expected =>
           Len(votes') = Len(votes) + 1 /\ votes'[Len(votes) + 1] = vote
  <2>1. /\ Append(votes, vote) \in Seq(Votes)
        /\ Len(Append(votes, vote)) = Len(votes) + 1
        /\ \A i \in 1..Len(votes) : Append(votes, vote)[i] = votes[i]
        /\ Append(votes, vote)[Len(votes) + 1] = vote
    <3>1. votes \in Seq(Votes) /\ vote \in Votes
      BY <1>3, <1>7
    <3>2. /\ Append(votes, vote) \in Seq(Votes)
          /\ Append(votes, vote) # <<>>
          /\ Len(Append(votes, vote)) = Len(votes) + 1
          /\ \A i \in 1..Len(votes) : Append(votes, vote)[i] = votes[i]
          /\ Append(votes, vote)[Len(votes) + 1] = vote
      BY <3>1, AppendProperties, Zenon
    <3> QED BY <3>2
  <2>2. Len(votes) \in Nat
    BY <1>3, LenProperties
  <2>3. CASE cardplayed_count' = Expected
    <3>1. votes' = Append(votes, vote)
      BY <1>1, <2>3
    <3> QED BY <2>1, <2>2, <2>3, <3>1
  <2>4. CASE cardplayed_count' # Expected
    <3>1. votes' = votes
      BY <1>1, <2>4
    <3> QED BY <1>3, <2>2, <2>4, <3>1
  <2> QED BY <2>3, <2>4
<1>9. TypeOK'
  <2>1. cardplayed_count' \in Nat
    BY <1>1, <1>3
  <2> QED BY <1>1, <1>2, <1>6, <1>8, <2>1
          DEF IInv, TypeOK, lobbyVars, vectorVars, judgeVars, Votes
<1>10. RulesInv' /\ JudgeInv'
  BY <1>1 DEF IInv, RulesInv, JudgeInv, JudgeIsTold, lobbyVars, vectorVars, judgeVars
<1>11. QueueInv' /\ CardsWait'
  BY <1>1, <1>2, <1>4, <1>5 DEF IInv, QueueInv, CardsWait, vectorVars
<1>12. VoteWhenComplete'
  <2>1. SUFFICES ASSUME Playable(number_players), began = 0,
                        cardplayed_count' >= Expected
                 PROVE  \E i \in 1..Len(votes') : votes'[i].at > began
    BY <1>1, <1>3 DEF VoteWhenComplete, VoteMade, Expected, lobbyVars
  <2>2. rules.num_bots \in Nat
    BY <2>1, BotsNotNegative DEF IInv
  <2>3. CASE cardplayed_count' = Expected
    <3>1. votes'[Len(votes) + 1].at > began /\ Len(votes) + 1 \in 1..Len(votes')
      BY <1>3, <1>7, <1>8, <2>3
    <3> QED BY <3>1
  <2>4. CASE cardplayed_count' # Expected
    <3>1. cardplayed_count > began /\ cardplayed_count - began >= Expected
      BY <1>1, <1>3, <1>4, <2>1, <2>2, <2>4 DEF Expected
    <3>2. PICK i \in 1..Len(votes) : votes[i].at > began
      BY <2>1, <3>1 DEF IInv, VoteInv, VoteWhenComplete, VoteMade
    <3>3. i \in 1..Len(votes') /\ votes'[i] = votes[i]
      BY <1>8
    <3> QED BY <3>2, <3>3
  <2> QED BY <2>3, <2>4
<1>13. VoteIsWhole'
  <2>1. SUFFICES ASSUME NEW i \in 1..Len(votes'), votes'[i].from = 0
                 PROVE  /\ Len(votes'[i].cards) = votes'[i].counted + rules.num_bots
                        /\ \A j \in 1..Len(votes'[i].cards) : votes'[i].cards[j] = j
    BY <1>1 DEF VoteIsWhole, lobbyVars
  <2>2. CASE i \in 1..Len(votes)
    <3>1. votes'[i] = votes[i]
      BY <1>8, <2>2
    <3> QED BY <2>1, <2>2, <3>1 DEF IInv, VoteInv, VoteIsWhole
  <2>3. CASE i \notin 1..Len(votes)
    <3>1. cardplayed_count' = Expected /\ i = Len(votes) + 1 /\ votes'[i] = vote
      BY <1>8, <2>1, <2>3
    <3> QED BY <1>6, <1>7, <3>1 DEF Expected
  <2> QED BY <2>2, <2>3
<1>14. began' <= cardplayed_count'
  BY <1>1, <1>3
<1> QED BY <1>6, <1>9, <1>10, <1>11, <1>12, <1>13, <1>14 DEF IInv, VoteInv

\* Every step preserves the invariant.
LEMMA NextIInv == IInv /\ [Next]_vars => IInv'
<1> SUFFICES ASSUME IInv, [Next]_vars PROVE IInv'
  OBVIOUS
<1>1. ASSUME ReadReady PROVE IInv'
  <2>1. /\ [event |-> "GameStarted"] \in Event /\ ~IsCard([event |-> "GameStarted"])
        /\ played \in Nat
    BY DEF Event, IsCard, IInv, TypeOK
  <2> QED BY <1>1, <2>1, ReadIInv DEF ReadReady
<1>2. ASSUME ReadPlayCard PROVE IInv'
  <2>1. played' \in Nat /\ played' = played + 1
    BY <1>2 DEF ReadPlayCard, IInv, TypeOK
  <2>2. /\ [event |-> "CardPlayed", card |-> played'] \in Event
        /\ IsCard([event |-> "CardPlayed", card |-> played'])
        /\ [event |-> "CardPlayed", card |-> played'].card = played + 1
    BY <2>1 DEF Event, IsCard
  <2> QED BY <1>2, <2>1, <2>2, ReadIInv DEF ReadPlayCard
<1>3. CASE UNCHANGED vars
  <2>1. UNCHANGED <<lobbyVars, client_count, roundVars>>
    BY <1>3 DEF vars
  <2>2. VoteInv'
    BY <2>1, VoteInvKept DEF IInv
  <2> QED BY <1>3, <2>2 DEF IInv, TypeOK, RulesInv, JudgeInv, JudgeIsTold, QueueInv,
                            CardsWait, vars, lobbyVars, vectorVars, judgeVars, roundVars
<1> QED BY <1>1, <1>2, <1>3, AcceptIInv, PlayerJoinedIInv, PickJudgeIInv, LoopIInv,
           CardPlayedIInv, NextRoundIInv DEF Next

-----------------------------------------------------------------------------
(* Theorems *)

\* The inductive invariant: types, the rules of the option, where the judge points,
\* what waits first, and what the votes made are on.
THEOREM Invariance == Spec => []IInv
<1>1. IInv /\ [Next]_vars => IInv'
  BY NextIInv
<1> QED BY <1>1, InitIInv, PTL DEF Spec

\* The types of the host's variables in the rounds, whatever the clients send; and
\* the clients are always within the block that push_back keeps them in.
THEOREM TypeCorrect == Spec => []TypeOK
<1>1. IInv => TypeOK
  BY DEF IInv
<1> QED BY <1>1, Invariance, PTL

\* The rules that setup_game left in the host are those of the game, in every
\* state and for every number of players from one on.
THEOREM RulesMatchReferenceHolds == Spec => []RulesMatchReference
<1>1. IInv => RulesMatchReference
  <2> SUFFICES ASSUME IInv, Playable(number_players)
               PROVE  IsReferenceRules(rules, number_players)
    BY DEF RulesMatchReference
  <2>1. number_players \in Int \cup {NoOption}
    BY DEF IInv, TypeOK
  <2> QED BY <2>1, SetupMatchesReference DEF IInv, RulesInv
<1> QED BY <1>1, Invariance, PTL

\* The loop of startgame_message comes by the judge that pick_judge picked, however
\* many clients the io thread pushes in between, unless the vector has moved.
THEOREM JudgeIsToldHolds == Spec => []JudgeIsTold
<1>1. IInv => JudgeIsTold
  BY DEF IInv, JudgeInv
<1> QED BY <1>1, Invariance, PTL

\* In the first round, card_played_event never counts past the number of cards it
\* waits for without having made a Vote, although clients join, and raise that
\* number, meanwhile.  (In a later round it does: the run vote_every_round.)
THEOREM VoteWhenCompleteHolds == Spec => []VoteWhenComplete
<1>1. IInv => VoteWhenComplete
  BY DEF IInv, VoteInv
<1> QED BY <1>1, Invariance, PTL

\* Every Vote that card_played_event makes in the first round is on as many cards as
\* were expected then, the first ones that the clients played, in their order.
THEOREM VoteIsWholeHolds == Spec => []VoteIsWhole
<1>1. IInv => VoteIsWhole
  BY DEF IInv, VoteInv
<1> QED BY <1>1, Invariance, PTL
=============================================================================
