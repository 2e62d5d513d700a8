CONSTANTS
  LastLba <- MCLastLba
  MaxCount <- MCMaxCount
  Faults <- Stall
SPECIFICATION Spec
INVARIANTS
  ReadTruth
