CONSTANTS
  Top = 9
  FrameSize = 3
  Sps <- MCSps
  MscratchAtReset <- MCMscratch
  Values <- MCValues
  MaxPc = 5
SPECIFICATION Spec
INVARIANTS
  StackReturned
PROPERTIES
  ContextKept
CHECK_DEADLOCK FALSE
