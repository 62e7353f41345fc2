\* Requests come again and the webhook is called again, by two at a time; no
\* publish fails.  No symmetry, since one property is temporal.
\* The system may stop: every bound used up, or nobody pays.
CONSTANTS
  Trip = {t1, t2}
  Session = {s1, s2}
  Amount = {5}
  Delivery = {h1, h2}
  None = None
  Faults = {"replay", "redis", "expiry", "reply"}
  MaxTries = 1
  MaxRequests = 2
SPECIFICATION FairSpec
INVARIANTS
  PaidIsPursued
  OneCheckoutPerTrip
PROPERTY
  PaymentsAreBooked
CHECK_DEADLOCK FALSE
