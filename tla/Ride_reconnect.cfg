\* No symmetry, since two properties are temporal.
\* The system may stop: everybody connected or gone, no notices.
CONSTANTS
  MaxConns = 2
  MaxNotices = 1
  MaxFaults = 1
  Rider = {r1}
  MaxTrips = 1
  MaxRuns = 3
SPECIFICATION FairRideSpec
INVARIANTS
  GreetedUnlessReplaced
  CollidesOnlyWhenReplacing
  DriveCanBeStopped
PROPERTIES
  NoticeIsWrittenOrClosed
  GoneIsForgotten
CHECK_DEADLOCK FALSE
