SPECIFICATION PmmSpec
CONSTANTS
  PAGE_SIZE = 4
  MAX_FREE_LIST = 5
  MemMap <- TheMap
INVARIANTS
  PageHasOneOwner
  PagesUsable
PROPERTIES
  PagesConserved
