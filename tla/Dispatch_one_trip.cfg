\* Two drivers are asked for one trip; they answer in time, early, late or not
\* at all, or go offline.  No symmetry, since two properties are temporal.
\* The system may stop: every trip over, every message consumed.
CONSTANTS
  Trip = {t1}
  Driver = {d1, d2}
  Worker = {w1}
  None = None
  Disturbances = {"offline", "stray"}
  MaxOffers = 3
  MaxWake = 1
  MaxLag = 1
SPECIFICATION FairSpec
PROPERTIES
  ImplementsAsking
  OfferEnds
  SilentDriverIsFreed
CHECK_DEADLOCK FALSE
