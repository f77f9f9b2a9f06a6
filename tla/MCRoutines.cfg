CONSTANTS
  Called <- MCCalled
  VLMAX <- MCVLMAX
  MaxLen <- MCMaxLen
  CapBytes <- MCCapBytes
  Word <- MCWord
  MemsetMaxLen <- MCMemsetMaxLen
  MemcpyMaxLen <- MCMemcpyMaxLen
  PageSize <- MCPageSize
  MaxString <- MCMaxString
  Modulus <- MCModulus
  MaxSquare <- MCMaxSquare
  Variants <- MCVariants
  Lanes <- MCLanes
  GroupLanes <- MCGroupLanes
  Last <- MCLast
  HistMaxLen <- MCHistMaxLen
  MaxNumber <- MCMaxNumber
  Scale <- MCScale
  MaxPrec <- MCMaxPrec
  UXTOA_MAX <- MCUXTOA_MAX
  TablesMaxLen <- MCTablesMaxLen
  Machines <- MCMachines
  EncodeMaxLen <- MCEncodeMaxLen
SPECIFICATION Spec
INVARIANTS TypeOK AccessesAligned InPlace ReadsInPages ResultRight LanesApart ConflictsOnlyLose
PROPERTIES StoresFilled ImplementsEachOnce ImplementsHistogram
