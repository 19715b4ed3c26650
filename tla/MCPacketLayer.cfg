SPECIFICATION Spec
CONSTANTS
  MTU_SIZE = 25
  MaxIhl = 9
  Quote = 3
  PlSize = 12
  Packets <- MCPackets
  MaxPackets = 2
INVARIANTS
  InBounds
  QuoteIsOriginal
  ReplyIsFinal
  SynAckValid
CHECK_DEADLOCK FALSE
