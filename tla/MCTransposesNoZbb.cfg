CONSTANTS
  T <- MCT
  Shapes <- NoShapes
  RvvShapes <- NoShapes
  VlmaxM4 <- MCVlmaxM4
  Regs <- MCRegs
  Calls <- MCNoZbbCalls
SPECIFICATION Spec
INVARIANTS ResultIsTransposed
