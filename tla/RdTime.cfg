CONSTANTS
  Word <- MCWord
  MaxHigh <- MCMaxHigh
SPECIFICATION FairSpec
INVARIANTS
  ResultInCall
PROPERTIES
  CallReturns
