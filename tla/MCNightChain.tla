--------------------------- MODULE MCNightChain -----------------------------
(* Readings on both sides of every threshold of the cfg file.              *)
EXTENDS NightChain

Reading(e, i, c) == [exposure |-> e, iridix |-> i, colortemp |-> c]

\* Dark, bright by Eq2, bright by Eq3 only, by both, dark and by Eq3 at once,
\* one that speaks for nothing, one so close to the second that changing between
\* the two is no jitter, and a black frame: there the jitter test converts a NaN.
SomeReadings ==
  {Reading(130, 20, 50), Reading(80, 10, 50), Reading(100, 20, 20),
   Reading(80, 18, 20), Reading(130, 20, 20), Reading(100, 15, 50),
   Reading(82, 30, 50), Reading(0, 10, 50)}
=============================================================================
