\* Two tabs; three cookies are that of an earlier visit and both tabs' rotations.
\* The system may stop: every token and ticket of the bound is used up.
CONSTANTS
  Tab = {a, b}
  MaxTokens = 2
  MaxCookies = 3
  MaxTickets = 1
  MaxFaults = 1
SPECIFICATION Spec
SYMMETRY Symmetry
INVARIANTS
  TicketOpensOnce
  RevokedOpensNothing
  CookieIsValid
  CachedIsCurrent
CHECK_DEADLOCK FALSE
