\* The copy of a retry cannot be written.
\* The system may stop: every message read, every bound used up.
CONSTANTS
  Service = {s1}
  Retrying = {s1}
  Flaky = {s1}
  Msg = {m1, m2}
  None = None
  MaxFailures = 3
  MaxRestarts = 0
SPECIFICATION Spec
SYMMETRY Symmetry
INVARIANT
  SkippedComesAgain
CHECK_DEADLOCK FALSE
