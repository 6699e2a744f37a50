SPECIFICATION Spec
CONSTANTS
  Slugs = {"sun", "book", "new", "late"}
  Tools = {t1, t2}
  Deployers = {d1, d2}
  FirstListed <- MCFirstListed
  PageSize = 2
  FirstId = 1
  LastId = 3
  BatchSize = 1
  MaxDocs = 2
  MaxBegun = 4
  MaxFaults = 1
INVARIANTS
  IdsStayOwn
  PlannedIsAccepted
PROPERTIES
  KnownIsKept
  RecordedIsNotRepeated
  PostedInOrder
CHECK_DEADLOCK FALSE
