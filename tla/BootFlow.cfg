CONSTANTS
  DTB_ADDR <- MCDtb
  OPENSBI_ADDR <- MCOpensbi
  KERNEL_ADDR <- MCKernel
  VDP_B0_BASE <- MCFrame
  LOAD_SIZE <- MCLoad
  MaxSize <- MCMaxSize
  Cards <- MCCards
  Faults <- AllFaults
SPECIFICATION FairSpec
INVARIANTS
  IntactAtJump
  StopsForCause
PROPERTIES
  BootEnds
CHECK_DEADLOCK FALSE
