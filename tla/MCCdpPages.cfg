SPECIFICATION Spec
INVARIANTS
  PagesListEveryCdp
CONSTANTS
  MaxCdps = 4
  maxSize = 4
  NICRs = {1, 2}
  MAX_NICR = 9
