CONSTANTS
  NoOption = NoOption
  Undetermined <- MCUndetermined
  NumberPlayers <- MCNumberPlayers
  NoJudge = NoJudge
  Stale = Stale
  MaxClients = 4
  MaxCards = 5
  MaxQueue = 3
SPECIFICATION Spec
INVARIANTS TypeOK RulesMatchReference JudgeIsTold VoteWhenComplete VoteIsWhole
CHECK_DEADLOCK FALSE
