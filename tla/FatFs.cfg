CONSTANTS
  SS <- MCSS
  SZDIRE <- MCSzDirE
  MAX_DIR <- MCMaxDir
  Volumes <- MCVolumes
  Requests <- MCRequests
  MaxMounts = 2
  Faults <- AllFaults
SPECIFICATION FairSpec
INVARIANTS
  TypeOK
  BuffersTrue
  CursorsAgree
  DriveReady
  ErrorsHaveCause
PROPERTIES
  KeepsContract
  CallReturns
