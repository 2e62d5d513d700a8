CONSTANTS
  Bytes <- MCBytes
  Depth <- MCDepth
SPECIFICATION FairSpec
INVARIANTS
  QuietBetweenCalls
PROPERTIES
  AnswerOfThisByte
  TransferEnds
