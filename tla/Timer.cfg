SPECIFICATION FairSpec
CONSTANTS
  Half = 64
  Times <- MCTimes
INVARIANTS WaitsEnough ReturnsInTime
PROPERTIES DelayReturns SilentOnlyAfterWrap AnnouncesAgain
