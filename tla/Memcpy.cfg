\* A register group of 4 bytes, copies of up to 13 bytes (more than three
\* groups), a cap of half a group and a hybrid threshold of two groups: with
\* these every way a chunk can be chosen occurs, and so do the lengths for
\* which vsetvli has a choice (5, 6 and 7 bytes left).
CONSTANTS
  VLMAX = 4
  MaxLen = 13
  CapBytes = 2
  HybridGroups = 2
SPECIFICATION Spec
INVARIANTS TypeOK InBounds PrefixCopied FullChunksAligned
PROPERTIES ImplementsBlockCopy
