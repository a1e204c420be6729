------------------------------ MODULE MCRounds ------------------------------
(* Small instance of Rounds: every number of players up to one that takes no  *)
(* bots and gets the fewest points, and rules that were not initialised.      *)
EXTENDS Rounds

MCNumberPlayers == {NoOption} \cup 0..8

\* "0 players and bots", and as many as make the sum with two clients zero.
MCUndetermined == {[expected_players |-> 0, num_bots |-> 0, points_to_win |-> 0],
                   [expected_players |-> 1, num_bots |-> -2, points_to_win |-> 32767]}

\* a game of four, in which nobody plays for a bot
MCFourPlayers == {4}
=============================================================================
