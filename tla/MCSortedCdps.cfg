SPECIFICATION Spec
INVARIANTS
  LinksAreConsistent
  InsertPositionIsFound
  ViewsMatchTheList
PROPERTIES
  ImplementsSequence
CONSTANTS
  MaxCdps = 5
  maxSize = 4
  NICRs = {1, 2}
  MAX_NICR = 9
