CONSTANTS
  Size <- MCSize
  UXTOA_MAX <- MCUXTOA_MAX
  FTOA_MAX <- MCFTOA_MAX
  Programs <- MCPrograms
SPECIFICATION Spec
INVARIANTS TypeOK NothingLost
PROPERTIES ImplementsInOrderOutput
