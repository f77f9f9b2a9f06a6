CONSTANTS
  Called <- HistOnly
  VLMAX <- MCVLMAX
  MaxLen <- MCMaxLen
  CapBytes <- MCCapBytes
  Word <- MCWord
  MemsetMaxLen <- MCMemsetMaxLen
  MemcpyMaxLen <- MCMemcpyMaxLen
  PageSize <- MCPageSize
  MaxString <- MCMaxString
  Modulus <- MCModulus
  MaxSquare <- MCMaxSquare
  Variants <- FourRegisters
  Lanes <- MCLanes
  GroupLanes <- MCGroupLanes
  Last <- MCLast
  HistMaxLen <- MCHistMaxLen
  MaxNumber <- MCMaxNumber
  Scale <- MCScale
  MaxPrec <- MCMaxPrec
  UXTOA_MAX <- MCUXTOA_MAX
  TablesMaxLen <- MCTablesMaxLen
  Machines <- MCMachines
  EncodeMaxLen <- MCEncodeMaxLen
SPECIFICATION Spec
INVARIANTS CountsAreExact
