\* Two trips compete for two drivers, who answer in time, early, late or not at
\* all, or come back while they are asked or marked with a trip of before.
\* The system may stop: every trip over, every message consumed.
CONSTANTS
  Trip = {t1, t2}
  Driver = {d1, d2}
  Worker = {w1, w2}
  None = None
  Disturbances = {"stray", "reconnect"}
  MaxOffers = 2
  MaxWake = 1
  MaxLag = 1
SPECIFICATION Spec
SYMMETRY Symmetry
INVARIANT
  SearchHasOneCarrier
PROPERTY
  StruckByCleanUp
CHECK_DEADLOCK FALSE
