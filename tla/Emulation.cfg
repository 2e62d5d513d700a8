CONSTANTS
  ByteSize = 2
  WordBytes = 4
  Regs <- MCRegs
  Instrs <- MCInstrs
  Places = 3
  MSp = 12
  Stale = {13}
  Values <- MCValues
  Maps <- MCMaps
SPECIFICATION Spec
INVARIANTS
  TypeOK
  VectorRestored
PROPERTIES
  EmulatesIsa
