CONSTANTS
  SS <- MCSS
  SZDIRE <- MCSzDirE
  MAX_DIR = 16
  Width = 8
  MAX_FAT12 = 3
  MAX_FAT16 = 6
  MAX_FAT32 = 12
  MinTot16 = 6
  MinTot32 = 16
  Drives <- MCDrives
  Body = 3
  Ext = 2
SPECIFICATION OpenSpec
INVARIANTS
  OpenTypeOK
  GeometryHolds
  FirstReadable
  NameIsEightThree
\* The calls return.
CHECK_DEADLOCK FALSE
