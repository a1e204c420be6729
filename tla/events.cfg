\* Two events whose callbacks take the message off, and one whose callback
\* does not (the host's SynchronizeGame).
CONSTANTS
  PlayerJoined = PlayerJoined
  CardRequest = CardRequest
  SynchronizeGame = SynchronizeGame
  m1 = m1
  m2 = m2
  Event <- MCEvent
  Popping <- MCPopping
  Message <- MCMessage
  Nothing = Nothing
  MaxStored = 4
SPECIFICATION Spec
INVARIANTS TypeOK ReadIsFront
PROPERTIES RefinesEventDispatch HeadOfLineBlocks EventuallyDrained
CHECK_DEADLOCK FALSE
