SPECIFICATION FairDiscover
CONSTANTS
  GenMod = 2
  IdxMod = 2
  MaxFrees = 4
  Char = {"/", "a", "b"}
  Names <- MCNames
  Listed <- MCListed
  Unbound <- MCUnbound
  Asked <- MCAsked
  ClientLimit = 4
  ServerLimit = 2
  Scenes <- MCScenes
INVARIANTS
  FreeListExact
  ValidMeansOwnAllocation
  ZeroOnlyAfterWrap
  StraysExplained
  AnswerWasBound
  ListingIsTree
PROPERTIES
  CallsEnd
  WaitReturns
CHECK_DEADLOCK FALSE
