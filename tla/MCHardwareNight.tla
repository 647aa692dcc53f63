--------------------------- MODULE MCHardwareNight ---------------------------
(* Readings about the default thresholds 40 and 45, and what -n may ask for. *)
EXTENDS HardwareNight

\* Below the lower threshold, at it and above the upper one; averages between
\* the two come from windows that mix them.
Readings == {39, 40, 50}

TwoReadings == {39, 50}

\* Negative, none, one, what the memory holds and one more.
AnySize == {-1, 0, 1, 5, 6}

SmallSize == {2}
=============================================================================
