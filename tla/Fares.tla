--------------------------------- MODULE Fares ---------------------------------
(***************************************************************************)
(* What a ride costs: the price of each package for a route, and the       *)
(* amount of a ride that was ended early.  Lengths are whole metres and    *)
(* seconds, prices cents; the code's floating point is exact arithmetic    *)
(* here.                                                                   *)
(***************************************************************************)
EXTENDS Integers

getBaseFares == [economy |-> 500, comfort |-> 800, van |-> 1000, business |-> 1500]

\* A route as Mapbox answers with it, in metres and seconds.
MapboxRouteResponse == [distance : Nat, duration : Nat]

\* Cents a kilometre and a minute.
DefaultPricingConfig == [perUnitOfDistance |-> 150, perMinute |-> 30]

\* In sixthousandths of a cent, rounded to the nearest cent.
estimateFareRoute(base, route) ==
  LET cfg == DefaultPricingConfig
  IN (6000 * base + 6 * cfg.perUnitOfDistance * route.distance
      + 100 * cfg.perMinute * route.duration + 3000) \div 6000

EstimatePackagesPriceWithRoute(packages, route) ==
  [p \in packages |-> estimateFareRoute(getBaseFares[p], route)]

\* A ride that ends at less than 95 % of its planned length costs in
\* proportion, at least a tenth; the cents are cut off.
EndedEarly(planned, actual) == planned > 0 /\ 100 * actual < 95 * planned

\* Mutant: no lower bound.
RepriceToNothing(price, planned, actual) ==
  IF ~EndedEarly(planned, actual) THEN price ELSE (price * actual) \div planned

Reprice(price, planned, actual) ==
  IF ~EndedEarly(planned, actual) THEN price
  ELSE IF 10 * actual < planned THEN price \div 10
  ELSE (price * actual) \div planned
================================================================================
