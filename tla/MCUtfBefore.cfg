CONSTANTS
  VLMAX <- MCVLMAX
  Vlmax16 <- MCVlmax16
  MaxLen <- MCNoLen
  Block <- MCBlock
  Behind <- MCBehind
  BeforeOutput <- MCBeforeSurrogate
  Inputs <- MCFewInputs
SPECIFICATION Spec
PROPERTIES ImplementsInOrderOutput
