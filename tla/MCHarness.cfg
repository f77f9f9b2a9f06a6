CONSTANTS
  Programs <- MCPrograms
  Sizes <- MCSizes
  Guard <- MCGuard
  MaxRepeats <- MCMaxRepeats
  Variants <- MCVariants
  Times <- MCTimes
  Stale <- MCStale
  StopCycles <- MCStopCycles
  Configs <- MCConfigs
  FixedPrograms <- MCFixedPrograms
  InstructionPrograms <- MCInstructionPrograms
  Memories <- MCMemories
  Addresses <- MCAddresses
  Displacements <- MCDisplacements
SPECIFICATION Spec
INVARIANTS TypeOK ComparisonExact SamplesSound BuffersInside
PROPERTIES ImplementsInOrderOutput
