CONSTANTS
  VLMAX <- MCVLMAX
  Vlmax16 <- MCVlmax16
  MaxLen <- MCMaxLen
  Block <- MCBlock
  Behind <- MCBehind
  BeforeOutput <- MCBefore
  Inputs <- MCInputs
SPECIFICATION Spec
INVARIANTS TypeOK InputIntact DestMatchesSrc
PROPERTIES ImplementsInOrderOutput
