CONSTANTS
  T <- MCT
  Shapes <- OddShapes
  RvvShapes <- NoShapes
  VlmaxM4 <- MCVlmaxM4
  Regs <- MCRegs
  Calls <- NoShapes
SPECIFICATION Spec
INVARIANTS ResultIsProduct
