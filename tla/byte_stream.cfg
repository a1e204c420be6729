CONSTANTS
  BufferSize = 18
  Plain <- MCPlain
  Deals <- MCDeals
  Tails <- MCTails
  NoMessage = NoMessage
  NoRead = NoRead
  MaxMessages = 2
SPECIFICATION Spec
INVARIANTS TypeOK WholeReadsDeliver DealArrives
PROPERTY RefinesMessageStream
CHECK_DEADLOCK FALSE
