-------------------------------- MODULE Breaker --------------------------------
(***************************************************************************)
(* A circuit breaker as breakers.go sets it up.  The breaker is            *)
(* sony/gobreaker; its rules are those Execute follows between two calls,  *)
(* each of which holds the breaker's lock.                                 *)
(*                                                                         *)
(* gobreaker numbers generations and ignores a result of an earlier one.   *)
(* Here a call under way carries a mark instead, "fresh", which it loses   *)
(* when a generation ends.                                                 *)
(***************************************************************************)
EXTENDS Integers

CONSTANTS
  TripsAt,     \* consecutive failures that open the breaker: 10 in the code
  MaxRequests  \* calls a half-open breaker lets through: 3 in the code

ASSUME BreakerAssumption == TripsAt \in Nat \ {0} /\ MaxRequests \in Nat \ {0}

BreakerState == [state : {"closed", "half-open", "open"},
                 requests : 0 .. MaxRequests,      \* counted while half-open
                 failures : 0 .. TripsAt - 1,      \* consecutive
                 successes : 0 .. MaxRequests - 1] \* consecutive, while half-open

\* A new generation starts with cleared counts.
Generation(state) ==
  [state |-> state, requests |-> 0, failures |-> 0, successes |-> 0]

newBreaker == Generation("closed")

\* beforeRequest refuses with ErrOpenState or ErrTooManyRequests, or counts.
Admits(b) == \/ b.state = "closed"
             \/ b.state = "half-open" /\ b.requests < MaxRequests

Admit(b) == IF b.state = "half-open" THEN [b EXCEPT !.requests = @ + 1] ELSE b

\* afterRequest; the caller has checked that the generation is the same.
OnSuccess(b) ==
  IF b.state = "half-open" /\ b.successes + 1 >= MaxRequests
  THEN Generation("closed")
  ELSE [b EXCEPT !.failures = 0,
                 !.successes = IF b.state = "half-open" THEN @ + 1 ELSE 0]

ReadyToTrip(failures) == failures >= TripsAt

OnFailure(b) ==
  IF b.state = "half-open" \/ ReadyToTrip(b.failures + 1)
  THEN Generation("open")
  ELSE [b EXCEPT !.failures = @ + 1]

\* The codes that are the caller's doing.
BusinessCode == {"InvalidArgument", "NotFound", "AlreadyExists",
                 "PermissionDenied", "Unauthenticated", "Canceled"}

IsBreakerError(code) == code # "OK" /\ code \notin BusinessCode
================================================================================
