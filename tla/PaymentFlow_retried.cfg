\* Stripe, statements and the broker fail and both services restart while two
\* requests for a trip are handled; two calls of the webhook at a time.  A publish
\* that took effect and failed also stands for a lost answer to Stripe.
\* The system may stop: every bound used up, or nobody pays.
CONSTANTS
  Trip = {t1}
  Session = {s1, s2, s3}
  Amount = {5}
  Delivery = {h1, h2}
  None = None
  Faults = {"stripe", "db", "broker", "crash"}
  MaxTries = 1
  MaxRequests = 2
SPECIFICATION Spec
SYMMETRY Symmetry
INVARIANTS
  SuccessMeansPaid
  PaidIsBooked
PROPERTY
  PublishedOnce
CHECK_DEADLOCK FALSE
