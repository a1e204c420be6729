CONSTANTS
  NoOption = NoOption
  Undetermined <- MCUndetermined
  NumberPlayers <- MCFourPlayers
  NoJudge = NoJudge
  Stale = Stale
  MaxClients = 4
  MaxCards = 8
  MaxQueue = 1
SPECIFICATION Spec
INVARIANT VoteEveryRound
CHECK_DEADLOCK FALSE
