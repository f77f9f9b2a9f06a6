CONSTANTS
  Programs <- MCPrograms
  Sizes <- MCSizes
  Guard <- MCGuard
  MaxRepeats <- MCMaxRepeats
  Variants <- MCHosted
  Times <- MCTimes
  Stale <- MCStale
  StopCycles <- MCStopCycles
  Configs <- MCNone
  FixedPrograms <- MCNone
  InstructionPrograms <- MCNone
  Memories <- MCNone
  Addresses <- MCAddresses
  Displacements <- MCDisplacements
SPECIFICATION Spec
INVARIANTS ErrorIsFailure
