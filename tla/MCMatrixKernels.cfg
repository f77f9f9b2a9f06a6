CONSTANTS
  T <- MCT
  Shapes <- EvenShapes
  RvvShapes <- MCRvvShapes
  VlmaxM4 <- MCVlmaxM4
  Regs <- MCRegs
  Calls <- MCCalls
SPECIFICATION Spec
INVARIANTS TypeOK ResultIsProduct OperandInTile OffsetsInside ResultIsTransposed OneMeaning VerdictRight
PROPERTIES NoFinishedRowLost ImplementsGemm
