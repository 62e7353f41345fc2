\* Two services read one topic: s1 retries up to the dead letter queue, s2, like
\* search-indexer, starts no retry consumers and may fail to write its copies.
\* No symmetry, since one property is temporal.
\* The system may stop: every message read, every bound used up.
CONSTANTS
  Service = {s1, s2}
  Retrying = {s1}
  Flaky = {s2}
  Msg = {m1}
  None = None
  MaxFailures = 5
  MaxRestarts = 1
SPECIFICATION FairSpec
INVARIANT
  NothingIsLost
PROPERTY
  EveryMessageSettles
CHECK_DEADLOCK FALSE
