---------------------------- MODULE HardwareNight ----------------------------
(***************************************************************************)
(* The default method of autonight (src/src/autonight.c, main): a light      *)
(* sensor behind an ADC is averaged over a window; night mode goes on at or  *)
(* below one threshold and off at or above another.  A pass of the loop      *)
(* reads one averaged sample; averages are compared as sums over the window. *)
(***************************************************************************)
EXTENDS Integers, Functions

CONSTANTS
  Values,         \* averaged ADC readings
  Sizes,          \* what -n may be: atoi's result is not checked
  ThresholdOn,    \* -O
  ThresholdOff    \* -F

ASSUME ValuesAssumption == Values \subseteq Nat /\ Values # {}
ASSUME SizesAssumption == Sizes \subseteq Int /\ Sizes # {}
ASSUME ThresholdsAssumption == ThresholdOn \in Int /\ ThresholdOff \in Int

\* malloc sizes the window by the default, before -n is read.
Allocated == 5
Memory == 0..Allocated - 1

\* The cells a window of n samples is made of.
Slots(n) == 0..n - 1

VARIABLES
  level,          \* the reading a working device returns
  usable,         \* the ADC device can be opened
  windowSize,     \* set once, from the command line
  window,         \* the allocated cells
  windowIndex, windowFull,
  memory,         \* "sound", "overrun" once a sample was stored beyond the
                  \* allocated cells, "crashed" when the process died of that
  night,          \* nightModeEnabled
  blind,          \* history: the last pass could not open the device
  last, same      \* history: the last sample, and how many in a row were equal
                  \* to it, counted to windowSize + 1

samples == <<windowSize, window, windowIndex, windowFull, memory, night, blind, last, same>>
vars == <<level, usable, samples>>

Init ==
  /\ level \in Values
  /\ usable \in BOOLEAN
  /\ windowSize \in Sizes
  /\ window = [i \in Memory |-> 0]   \* malloc's garbage is never read
  /\ windowIndex = 0
  /\ windowFull = FALSE
  /\ memory = "sound"
  /\ night = FALSE
  /\ blind = FALSE
  /\ last = 0 /\ same = 0

LightChanges ==
  /\ level' \in Values
  /\ UNCHANGED <<usable, samples>>

\* The device node disappears or comes back.
DeviceChanges ==
  /\ usable' = ~usable
  /\ UNCHANGED <<level, samples>>

\* A short read: jzAuxReadSample returns 0, main sleeps and starts over.
ReadFails ==
  /\ memory # "crashed"
  /\ usable
  /\ blind' = FALSE
  /\ UNCHANGED <<level, usable, windowSize, window, windowIndex, windowFull, memory,
                 night, last, same>>

\* A store beyond the allocated cells, or what it overwrote, ends the process.
Crash ==
  /\ memory = "overrun" \/ (memory = "sound" /\ windowIndex \notin Memory)
  /\ memory' = "crashed"
  /\ UNCHANGED <<level, usable, windowSize, window, windowIndex, windowFull,
                 night, blind, last, same>>

Put(value) ==
  \/ /\ windowIndex \in Memory
     /\ window' = [window EXCEPT ![windowIndex] = value]
     /\ UNCHANGED memory
  \/ /\ windowIndex \notin Memory
     /\ memory' = "overrun"
     /\ UNCHANGED window

\* Mutant: windowIndex is not reset at the end of the window.
StoreNoWrap(value) ==
  /\ Put(value)
  /\ windowFull' = (windowFull \/ windowIndex + 1 >= windowSize)
  /\ windowIndex' = windowIndex + 1

Store(value) ==
  /\ Put(value)
  /\ windowFull' = (windowFull \/ windowIndex + 1 >= windowSize)
  /\ windowIndex' = IF windowIndex + 1 >= windowSize THEN 0 ELSE windowIndex + 1

\* The average of no samples is 0.0 / windowSize: not a number for -n 0, which
\* compares as FALSE, and 0 for a negative one.
AverageAtMost(sum, threshold) ==
  \/ windowSize > 0 /\ sum <= threshold * windowSize
  \/ windowSize < 0 /\ 0 <= threshold

AverageAtLeast(sum, threshold) ==
  \/ windowSize > 0 /\ sum >= threshold * windowSize
  \/ windowSize < 0 /\ 0 >= threshold

\* Cells that are not the window's own hold anything.
DecideFrom(cells, slots, off) ==
  LET sum == SumFunctionOnSet(cells, slots)
  IN \/ ~windowFull' /\ UNCHANGED night
     \/ windowFull' /\ memory' # "sound" /\ night' \in BOOLEAN
     \/ /\ windowFull' /\ memory' = "sound"
        /\ night' = IF night THEN ~AverageAtLeast(sum, off)
                    ELSE AverageAtMost(sum, ThresholdOn)

\* Mutant: the average is taken before the sample is stored.
DecideBeforeStore == DecideFrom(window, Slots(windowSize), ThresholdOff)

\* Mutant: the loop over the window ends one slot early.
DecideShortSum == DecideFrom(window', Slots(windowSize - 1), ThresholdOff)

\* Mutant: one threshold for both directions.
DecideOneThreshold == DecideFrom(window', Slots(windowSize), ThresholdOn)

Decide == DecideFrom(window', Slots(windowSize), ThresholdOff)

Remember(value) ==
  /\ last' = value
  /\ same' = IF value # last \/ same = 0 THEN 1
             ELSE IF same <= windowSize THEN same + 1 ELSE same

\* open fails: jzAuxReadSample returns -1, which is not 0, so the uninitialised
\* sample is averaged like a reading.
Sample ==
  /\ memory # "crashed"
  /\ \E value \in IF usable THEN {level} ELSE Values :
       Store(value) /\ Decide /\ Remember(value)
  /\ blind' = ~usable
  /\ UNCHANGED <<level, usable, windowSize>>

Next == LightChanges \/ DeviceChanges \/ ReadFails \/ Crash \/ Sample

Spec == Init /\ [][Next]_vars

\* sleep returns and the device is read again and again.
FairSpec == Spec /\ WF_vars(Sample)
-----------------------------------------------------------------------------
\* Types; in particular the index wraps inside whatever window -n asks for, and
\* leaves the memory only when -n asks for more than the default (autonight.c:127,
\* 150, 210-215).
TypeOK ==
  /\ level \in Values /\ usable \in BOOLEAN
  /\ windowSize \in Sizes
  /\ window \in [Memory -> Values \cup {0}]
  /\ windowIndex \in {0} \cup Slots(windowSize)
  /\ windowFull \in BOOLEAN /\ night \in BOOLEAN /\ blind \in BOOLEAN
  /\ memory \in {"sound", "overrun", "crashed"}
  /\ memory # "sound" => windowSize > Allocated
  /\ last \in Values \cup {0}
  /\ same \in Nat

\* The options the program does not check: a window that is not empty and fits
\* its memory, and thresholds in their order.
Sensible == windowSize \in 1..Allocated /\ ThresholdOn < ThresholdOff

\* Hysteresis: with sensible options, once the window holds nothing but the
\* current sample, more of the same never switches the mode, wherever it lies, at
\* a threshold too (autonight.c:222-229).
NoFlapping == [][Sensible /\ night' # night => same' <= windowSize]_vars

\* Settled: with sensible options, a full window whose readings are all below the
\* lower threshold means night, one whose readings are all above the upper one
\* means day, however the window came to hold them (autonight.c:117-118, 217-229).
Settled ==
  Sensible /\ windowFull =>
    /\ (\A i \in Slots(windowSize) : window[i] < ThresholdOn) => night
    /\ (\A i \in Slots(windowSize) : window[i] > ThresholdOff) => ~night

\* In light that stays beyond a threshold the mode settles on the right one,
\* whatever was in the window before, when the options are sensible.
FollowsLight ==
  \A v \in Values :
    /\ v < ThresholdOn => (Sensible /\ <>[](usable /\ level = v) => <>[]night)
    /\ v > ThresholdOff => (Sensible /\ <>[](usable /\ level = v) => <>[]~night)

\* "ERROR: jzAuxReadAverage(%d) failed" (autonight.c:205): a device that cannot
\* be read yields no sample, so it does not switch the mode.
BlindKeepsMode == [][blind' => night' = night]_vars
=============================================================================
