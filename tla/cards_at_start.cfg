CONSTANTS
  Client = {c1, c2}
  r1 = r1
  r2 = r2
  r3 = r3
  r4 = r4
  g1 = g1
  g2 = g2
  RedCard <- MCRedCard
  RedDeck <- MCRedDeck
  GreenCard <- MCGreenCard
  GreenDeck <- MCGreenDeck
  NoCard = NoCard
  Spoiled = Spoiled
  Slashes <- MCNoSlashes
  Tails <- MCNoTail
  NoJudge = NoJudge
  ReadMax = 1
  HandSize = 2
  ExpectedPlayers = 2
  MissingFiles = FALSE
  Quitters = {}
SPECIFICATION FairSpec
PROPERTY StartedPlayersGetCards
CHECK_DEADLOCK FALSE
