CONSTANTS
  LastLba <- MCLastLba
  MaxCount <- MCMaxCount
  Faults <- AllFaults
SPECIFICATION FairSpec
INVARIANTS
  ReadSound
  InitSound
  NoFailureWithoutTrouble
  Deselected
PROPERTIES
  CallsEnd
  DiskContract
