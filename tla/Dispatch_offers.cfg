\* Two drivers compete for one trip.
\* The system may stop: every trip over, every message consumed.
CONSTANTS
  Trip = {t1}
  Driver = {d1, d2}
  Worker = {w1}
  None = None
  Disturbances = {"decline", "reconnect", "broker", "crash", "replay"}
  MaxOffers = 2
  MaxWake = 1
  MaxLag = 1
SPECIFICATION Spec
SYMMETRY Symmetry
INVARIANT
  OfferIsOwnedOnce
CHECK_DEADLOCK FALSE
