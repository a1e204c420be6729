CONSTANTS
  Client = {c1, c2}
  r1 = r1
  r2 = r2
  r3 = r3
  r4 = r4
  g1 = g1
  g2 = g2
  RedCard <- MCRedCard
  RedDeck <- MCRedDeck
  GreenCard <- MCGreenCard
  GreenDeck <- MCGreenDeck
  NoCard = NoCard
  Spoiled = Spoiled
  Slashes <- MCOneSlash
  Tails <- MCTail
  NoJudge = NoJudge
  ReadMax = 2
  HandSize = 2
  ExpectedPlayers = 1
  MissingFiles = TRUE
  Quitters = {c1, c2}
SPECIFICATION Spec
INVARIANTS TypeOK RoundCardAgreement CardsUnique DealtWithinLimit OneJudge StartedInOrder JoinAccounting ReplyTargetExists
CHECK_DEADLOCK FALSE
SYMMETRY MCSymmetry
