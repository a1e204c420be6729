------------------------------- MODULE Rules -------------------------------
(***************************************************************************)
(* The rules of a game: what setup_game makes of --number-players, the one *)
(* option it looks at (--number-bots is parsed and not used).              *)
(***************************************************************************)
EXTENDS Integers

CONSTANTS NoOption,       \* --number-players was not given
          Undetermined    \* what a GameRules nobody has initialised may hold

GameRules == [expected_players : Int, num_bots : Int, points_to_win : Int]

ASSUME NoOptionAssumption == NoOption \notin Int
ASSUME UndeterminedAssumption == Undetermined \subseteq GameRules

\* Mutant: one point less for the six.
PointsToWinSix(total_players) ==
  CASE total_players = 4 -> {8}
    [] total_players = 5 -> {7}
    [] total_players = 6 -> {5}
    [] total_players = 7 -> {5}
    [] total_players > 7 -> {4}
    [] OTHER -> {rules.points_to_win : rules \in Undetermined}

\* new_gamerules leaves the points uninitialised for fewer than four.
PointsToWin(total_players) ==
  CASE total_players = 4 -> {8}
    [] total_players = 5 -> {7}
    [] total_players = 6 -> {6}
    [] total_players = 7 -> {5}
    [] total_players > 7 -> {4}
    [] OTHER -> {rules.points_to_win : rules \in Undetermined}

new_gamerules(num_player, num_bots) ==
  {[expected_players |-> num_player, num_bots |-> num_bots, points_to_win |-> points] :
     points \in PointsToWin(num_player + num_bots)}

\* The rules that setup_game may come to.
setup_game(number_players) ==
  CASE number_players = NoOption -> new_gamerules(1, 3)
    [] number_players = 1 -> new_gamerules(1, 3)
    [] number_players = 2 -> new_gamerules(2, 2)
    [] number_players = 3 -> new_gamerules(3, 1)
    [] number_players # NoOption /\ number_players >= 4 -> new_gamerules(number_players, 0)
    [] OTHER -> Undetermined

-----------------------------------------------------------------------------
(* The rules of the game that the code implements *)

\* A number of players that the game can be played with.
Playable(number_players) ==
  number_players = NoOption \/ (number_players \in Int /\ number_players >= 1)

\* Bots make up for the players missing to four, and the game is won with as
\* many points as there are players less than twelve, but no fewer than four.
IsReferenceRules(rules, number_players) ==
  LET players == IF number_players = NoOption THEN 1 ELSE number_players
      total   == IF players < 4 THEN 4 ELSE players
  IN  rules = [expected_players |-> players,
               num_bots |-> total - players,
               points_to_win |-> IF total >= 8 THEN 4 ELSE 12 - total]
=============================================================================
