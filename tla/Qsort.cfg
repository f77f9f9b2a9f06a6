\* All arrays of up to 6 elements of three values: parts of each length,
\* with the pivot at the end, in the middle, and equal to other elements.
CONSTANTS
  Values = {0, 1, 2}
  MaxLen = 6
  Word = 16
SPECIFICATION Spec
INVARIANTS TypeOK ScansInside RestInOrder
PROPERTIES ImplementsSorting
