---------------------------- MODULE SoftwareNight ----------------------------
(***************************************************************************)
(* The software method of autonight (src/src/autonight.c, option -S): once a *)
(* second the ISP's exposure, iridix and white balance readings decide       *)
(* between day and night mode.  Switching runs a script, which is left out;  *)
(* the light in front of the camera changes at any time.                     *)
(***************************************************************************)
EXTENDS Integers

CONSTANTS
  Readings,       \* readings of the ISP: [exposure, iridix, colortemp]
  JitterPercent,  \* -j
  SecWait,        \* -w
  Eq1Exposure,    \* -1
  Eq2Exposure, Eq2Iridix, Eq2Count,   \* -2
  Eq3Wb, Eq3Iridix, Eq3Count          \* -3

ASSUME ReadingsAssumption ==
  Readings \subseteq [exposure : Nat, iridix : Nat, colortemp : Nat]
ASSUME OptionsAssumption ==
  /\ JitterPercent \in Nat /\ SecWait \in Nat /\ Eq1Exposure \in Nat
  /\ Eq2Exposure \in Nat /\ Eq2Iridix \in Nat /\ Eq2Count \in Nat
  /\ Eq3Wb \in Nat /\ Eq3Iridix \in Nat /\ Eq3Count \in Nat

VARIABLES
  light,          \* what a successful read of isp_info returns
  lastExposure,   \* last_exposure
  night,          \* nightModeEnabled
  wait,           \* mode_switch_wait_count
  eq2, eq3,       \* eq2_wait_count, eq3_wait_count
  calm,           \* history: steady readings since the last switch, to SecWait
  run2, run3      \* history: length of the current run of readings, all of them
                  \* steady, that speak for day by Eq2 (Eq3), to the count + 1

counters == <<wait, eq2, eq3>>
history == <<calm, run2, run3>>
vars == <<light, lastExposure, night, counters, history>>

Lesser(a, b) == IF a <= b THEN a ELSE b
Distance(a, b) == IF a <= b THEN b - a ELSE a - b

\* Outcomes of the jitter test.  (int)(|e - last| / e * 100 - j) > 0 holds from
\* 1 on; for e = 0 a NaN or an infinity is converted, which is undefined.
Jitter(e) ==
  IF e = 0 THEN BOOLEAN
  ELSE {100 * Distance(e, lastExposure) >= (JitterPercent + 1) * e}

Eq2Day(r) == r.exposure < Eq2Exposure /\ r.iridix < Eq2Iridix
Eq3Day(r) == r.colortemp < Eq3Wb /\ r.iridix > Eq3Iridix

Init ==
  /\ light \in Readings
  /\ lastExposure = 0
  /\ night = FALSE
  /\ wait = SecWait          \* updateNightMode has set day mode
  /\ eq2 = 0 /\ eq3 = 0
  /\ calm = 0 /\ run2 = 0 /\ run3 = 0

LightChanges ==
  /\ light' \in Readings
  /\ UNCHANGED <<lastExposure, night, counters, history>>

\* A reading within the jitter bounds, as the history variables see it.
Observe(r) ==
  /\ lastExposure' = r.exposure
  /\ run2' = IF Eq2Day(r) THEN Lesser(run2 + 1, Eq2Count + 1) ELSE 0
  /\ run3' = IF Eq3Day(r) THEN Lesser(run3 + 1, Eq3Count + 1) ELSE 0

\* updateNightMode
SwitchTo(mode) ==
  /\ night' = mode
  /\ wait' = SecWait
  /\ calm' = 0

\* readIspInfo does not find the three values: counters stay as they are.
ReadFails == UNCHANGED vars

\* Mutant: last_exposure is only updated by steady readings.
JitterKeepsLast ==
  /\ TRUE \in Jitter(light.exposure)
  /\ eq2' = 0 /\ eq3' = 0 /\ run2' = 0 /\ run3' = 0
  /\ UNCHANGED <<light, lastExposure, night, wait, calm>>

JitterActive ==
  /\ TRUE \in Jitter(light.exposure)
  /\ eq2' = 0 /\ eq3' = 0 /\ run2' = 0 /\ run3' = 0
  /\ lastExposure' = light.exposure
  /\ UNCHANGED <<light, night, wait, calm>>

Steady ==
  /\ FALSE \in Jitter(light.exposure)
  /\ Observe(light)
  /\ UNCHANGED light

ModeSwitchWait ==
  /\ Steady
  /\ wait # 0
  /\ wait' = wait - 1
  /\ calm' = Lesser(calm + 1, SecWait)
  /\ UNCHANGED <<night, eq2, eq3>>

\* Mutant: the counters of the last night are still there in the next one.
Eq1NoReset ==
  /\ Steady
  /\ wait = 0
  /\ ~night /\ light.exposure > Eq1Exposure
  /\ SwitchTo(TRUE)
  /\ UNCHANGED <<eq2, eq3>>

Eq1 ==
  /\ Steady
  /\ wait = 0
  /\ ~night /\ light.exposure > Eq1Exposure
  /\ eq2' = 0 /\ eq3' = 0
  /\ SwitchTo(TRUE)

\* Where Eq1 did not switch: the counters after looking at a reading.
Count2 == IF night /\ Eq2Day(light) THEN eq2 + 1 ELSE 0
Count3 == IF night /\ Eq3Day(light) THEN eq3 + 1 ELSE 0

Eq2 ==
  /\ Steady
  /\ wait = 0
  /\ night \/ light.exposure <= Eq1Exposure
  /\ Count2 > Eq2Count
  /\ eq2' = Count2
  /\ SwitchTo(FALSE)
  /\ UNCHANGED eq3

\* Mutant: switching by Eq3 does not start the wait.
Eq3NoWait ==
  /\ Steady
  /\ wait = 0
  /\ night \/ light.exposure <= Eq1Exposure
  /\ Count2 <= Eq2Count
  /\ eq2' = Count2 /\ eq3' = Count3
  /\ IF Count3 > Eq3Count
     THEN night' = FALSE /\ calm' = 0 /\ UNCHANGED wait
     ELSE calm' = Lesser(calm + 1, SecWait) /\ UNCHANGED <<night, wait>>

Eq3 ==
  /\ Steady
  /\ wait = 0
  /\ night \/ light.exposure <= Eq1Exposure
  /\ Count2 <= Eq2Count
  /\ eq2' = Count2 /\ eq3' = Count3
  /\ IF Count3 > Eq3Count
     THEN SwitchTo(FALSE)
     ELSE calm' = Lesser(calm + 1, SecWait) /\ UNCHANGED <<night, wait>>

Sample == JitterActive \/ ModeSwitchWait \/ Eq1 \/ Eq2 \/ Eq3

Next == LightChanges \/ ReadFails \/ Sample

Spec == Init /\ [][Next]_vars

\* sleep(1) returns and isp_info is readable again and again.
FairSpec == Spec /\ WF_vars(Sample)
-----------------------------------------------------------------------------
\* Types; in particular no counter outgrows the option it is compared with.
TypeOK ==
  /\ light \in Readings
  /\ lastExposure \in Nat
  /\ night \in BOOLEAN
  /\ wait \in 0..SecWait
  /\ eq2 \in 0..Eq2Count + 1 /\ eq3 \in 0..Eq3Count + 1
  /\ calm \in 0..SecWait
  /\ run2 \in 0..Eq2Count + 1 /\ run3 \in 0..Eq3Count + 1

\* mode_switch_wait_count: whichever way the mode goes, sec_wait steady readings
\* lie between two switches (autonight.c:337-342), however the light changes.
SwitchesApart == [][night' # night => calm >= SecWait]_vars

\* eq2_wait_count and eq3_wait_count: day mode comes back only at the end of an
\* unbroken run of more than the configured number of steady readings that all
\* speak for day by the same equation; readings left over from an earlier night
\* never count (autonight.c:348-349, 355-382).
DayNeedsRun ==
  [][night /\ ~night' => run2' > Eq2Count \/ run3' > Eq3Count]_vars

Dark(r) == r.exposure > Eq1Exposure /\ ~Eq2Day(r) /\ ~Eq3Day(r)
Bright(r) == r.exposure \in 1..Eq1Exposure /\ (Eq2Day(r) \/ Eq3Day(r))

\* The camera ends up in night mode, and stays there, in light that is steadily
\* dark, and in day mode in light that is steadily bright.  Light that satisfies
\* Eq1 and one of the others is neither: there the mode flips forever.
FollowsLight ==
  \A r \in Readings :
    /\ Dark(r) => (<>[](light = r) => <>[]night)
    /\ Bright(r) => (<>[](light = r) => <>[]~night)
=============================================================================
