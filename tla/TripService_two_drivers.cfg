\* One trip, two drivers who may both answer, report and cancel.  No symmetry, since
\* some properties are temporal.
CONSTANTS
  Trip = {t1}
  Driver = {d1, d2}
  NoDriver = NoDriver
  MaxLag = 1
SPECIFICATION FairSpec
INVARIANTS
  OutboxMatchesTable
  AnnouncedDriverIsAssigned
  UnservedTripHasNoDriver
  RatedTripIsFinished
PROPERTIES
  ImplementsContract
  SearchEnds
  OutboxIsPublished
