\* Two riders share a browser; a ride that is cut short, one that is nearly whole,
\* and one of unknown length.
\* The system may stop: every bound used up.
CONSTANTS
  Rider = {r1, r2}
  None = None
  Package = {"economy", "van"}
  Route <- OneRoute
  Driven = {None, 299, 2849}
  MaxQuotes = 1
  MaxTrips = 2
  MaxFaults = 1
  TripsAt = 2
  MaxRequests = 1
SPECIFICATION Spec
SYMMETRY Symmetry
INVARIANTS
  ShownIsStored
  ToldIsTheirs
  BilledAsAgreed
CHECK_DEADLOCK FALSE
