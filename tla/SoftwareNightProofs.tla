------------------------- MODULE SoftwareNightProofs -------------------------
(* Proofs about SoftwareNight, and about its part in NightChain, for every  *)
(* set of readings and every option.                                        *)
EXTENDS NightChain, TLAPS

\* Steady readings since the switch and the ones still to wait for add up.
WaitCountsDown == calm + wait >= SecWait

\* At night a counter is at most the length of the run it stands for; it starts
\* over with the night and stays at zero until the wait is over.
CountersBacked ==
  night => /\ eq2 <= run2 /\ eq2 <= Eq2Count
           /\ eq3 <= run3 /\ eq3 <= Eq3Count
           /\ wait # 0 => eq2 = 0 /\ eq3 = 0

IInv == TypeOK /\ WaitCountsDown /\ CountersBacked

USE ReadingsAssumption, OptionsAssumption

LEMMA InitIInv == Init => IInv
<1> SUFFICES ASSUME Init PROVE TypeOK /\ WaitCountsDown /\ CountersBacked
  BY DEF IInv
<1>1. night \in BOOLEAN /\ ~night
  BY Zenon DEF Init
<1> QED
  BY <1>1 DEF Init, TypeOK, WaitCountsDown, CountersBacked

\* A steady reading lengthens the runs it belongs to and ends the others.
LEMMA SteadyRuns ==
  ASSUME TypeOK, Steady
  PROVE  /\ light' = light /\ light' \in Readings /\ lastExposure' \in Nat
         /\ run2' \in 0..Eq2Count + 1 /\ run3' \in 0..Eq3Count + 1
         /\ Eq2Day(light) => run2' > run2 \/ run2' = Eq2Count + 1
         /\ Eq3Day(light) => run3' > run3 \/ run3' = Eq3Count + 1
  BY DEF TypeOK, Steady, Observe, Lesser

\* The counters of a reading the mode is decided by.
LEMMA CountsBounded ==
  ASSUME TypeOK, CountersBacked
  PROVE  /\ Count2 \in 0..Eq2Count + 1 /\ Count3 \in 0..Eq3Count + 1
         /\ Count2 > 0 => night /\ Eq2Day(light) /\ Count2 = eq2 + 1
         /\ Count3 > 0 => night /\ Eq3Day(light) /\ Count3 = eq3 + 1
  BY DEF TypeOK, CountersBacked, Count2, Count3

LEMMA StepIInv == IInv /\ [Next]_vars => IInv'
<1> SUFFICES ASSUME IInv, [Next]_vars PROVE IInv'
  OBVIOUS
<1> USE DEF IInv, TypeOK, WaitCountsDown, CountersBacked
<1>1. CASE LightChanges
  BY <1>1 DEF LightChanges, counters, history
<1>2. CASE ReadFails \/ UNCHANGED vars
  BY <1>2 DEF ReadFails, vars, counters, history
<1>3. CASE JitterActive
  BY <1>3 DEF JitterActive
<1>4. CASE ModeSwitchWait
  BY <1>4, SteadyRuns DEF ModeSwitchWait, Lesser
<1>5. CASE Eq1
  BY <1>5, SteadyRuns DEF Eq1, SwitchTo
<1>6. CASE Eq2
  <2>1. ~night' /\ night' \in BOOLEAN
    BY <1>6, Zenon DEF Eq2, SwitchTo
  <2> QED
    BY <1>6, <2>1, SteadyRuns, CountsBounded DEF Eq2, SwitchTo
<1>7. CASE Eq3
  <2>1. CASE Count3 > Eq3Count
    <3>1. ~night' /\ night' \in BOOLEAN
      BY <1>7, <2>1, Zenon DEF Eq3, SwitchTo
    <3> QED
      BY <1>7, <2>1, <3>1, SteadyRuns, CountsBounded DEF Eq3, SwitchTo
  <2>2. CASE ~(Count3 > Eq3Count)
    <3>1. night' = night /\ wait' = wait /\ wait = 0 /\ eq2' = Count2 /\ eq3' = Count3
          /\ calm' = Lesser(calm + 1, SecWait) /\ Count2 <= Eq2Count /\ Steady
      BY <1>7, <2>2, Zenon DEF Eq3
    <3>2. calm' \in 0..SecWait /\ calm' + wait' >= SecWait
      BY <3>1 DEF Lesser
    <3>3. Count2 <= run2' /\ Count3 <= run3' /\ Count3 <= Eq3Count
      BY <3>1, <2>2, SteadyRuns, CountsBounded
    <3> QED
      BY <3>1, <3>2, <3>3, SteadyRuns, CountsBounded
  <2> QED
    BY <2>1, <2>2
<1> QED
  BY <1>1, <1>2, <1>3, <1>4, <1>5, <1>6, <1>7 DEF Next, Sample

\* Types hold for every reading and every option of the command line: the two
\* day counters never exceed the configured counts by more than one.
THEOREM TypeCorrect == Spec => []TypeOK
<1>1. IInv => TypeOK
  BY DEF IInv
<1> QED
  BY InitIInv, StepIInv, <1>1, PTL DEF Spec

\* mode_switch_wait_count: sec_wait steady readings lie between two switches.
THEOREM SwitchesApartHolds == Spec => SwitchesApart
<1>1. IInv /\ [Next]_vars => [night' # night => calm >= SecWait]_vars
  <2> SUFFICES ASSUME IInv, Next, night' # night PROVE calm >= SecWait
    BY DEF vars
  <2>1. wait = 0
    BY DEF Next, LightChanges, ReadFails, Sample, JitterActive, ModeSwitchWait,
       Eq1, Eq2, Eq3, vars
  <2> QED
    BY <2>1 DEF IInv, TypeOK, WaitCountsDown
<1> QED
  BY InitIInv, StepIInv, <1>1, PTL DEF Spec, SwitchesApart

\* eq2_wait_count and eq3_wait_count: only an unbroken run of more readings than
\* the configured number brings day mode back.
THEOREM DayNeedsRunHolds == Spec => DayNeedsRun
<1>1. ASSUME IInv, Next, night, ~night'
      PROVE  run2' > Eq2Count \/ run3' > Eq3Count
  <2>1. CASE Eq2
    BY <1>1, <2>1, SteadyRuns, CountsBounded DEF IInv, TypeOK, CountersBacked, Eq2
  <2>2. CASE Eq3
    <3>1. Count3 > Eq3Count /\ Steady
      BY <1>1, <2>2, Zenon DEF Eq3
    <3> QED
      BY <1>1, <3>1, SteadyRuns, CountsBounded DEF IInv, TypeOK, CountersBacked
  <2>3. CASE LightChanges \/ ReadFails \/ JitterActive \/ ModeSwitchWait \/ Eq1
    BY <1>1, <2>3, Zenon DEF LightChanges, ReadFails, JitterActive,
       ModeSwitchWait, Eq1, SwitchTo, vars
  <2> QED
    BY <1>1, <2>1, <2>2, <2>3 DEF Next, Sample
<1>2. IInv /\ [Next]_vars
        => [night /\ ~night' => run2' > Eq2Count \/ run3' > Eq3Count]_vars
  BY <1>1
<1> QED
  BY InitIInv, StepIInv, <1>2, PTL DEF Spec, DayNeedsRun

-----------------------------------------------------------------------------
\* In the chain autonight still takes the steps of SoftwareNight and no others:
\* what is proved above of Spec holds of ChainSpec.
THEOREM ChainDecides == ChainSpec => Spec
<1>1. ChainInit => Init
  BY DEF ChainInit
<1>2. [ChainNext]_chainVars => [Next]_vars
  BY DEF ChainNext, ChainLight, ChainSample, Script, ScriptTruncates, ScriptWrites,
     ScriptFails, ScriptGoes, NightVision, chainVars, Next
<1> QED
  BY <1>1, <1>2, PTL DEF ChainSpec, Spec

\* Only the script writes the file, and autonight waits for it.
THEOREM FileAsDecidedHolds == ChainSpec => []FileAsDecided
<1>1. ChainInit => FileAsDecided
  BY DEF ChainInit, FileAsDecided
<1>2. FileAsDecided /\ [ChainNext]_chainVars => FileAsDecided'
  <2> SUFFICES ASSUME FileAsDecided, [ChainNext]_chainVars PROVE FileAsDecided'
    OBVIOUS
  <2>1. CASE ChainSample
    BY <2>1 DEF ChainSample, UpdateNightMode, FileAsDecided
  <2>2. CASE ScriptTruncates \/ ScriptFails
    BY <2>2 DEF ScriptTruncates, ScriptFails, ScriptGoes, FileAsDecided
  <2>3. CASE ScriptWrites
    BY <2>3 DEF ScriptWrites, ScriptGoes, FileAsDecided, vars
  <2>4. CASE ChainLight
    BY <2>4 DEF ChainLight, LightChanges, FileAsDecided
  <2>5. CASE NightVision
    <3>1. UNCHANGED <<file, script, night>>
      BY <2>5 DEF NightVision, vars, N!NightVision, N!NvTest, N!NvRead, N!NvReadRemoved,
         N!NvRunning, N!NvScene, N!NvColor, N!NvCall, N!world
    <3> QED BY <3>1 DEF FileAsDecided
  <2>6. CASE UNCHANGED chainVars
    BY <2>6 DEF chainVars, vars, FileAsDecided
  <2> QED
    BY <2>1, <2>2, <2>3, <2>4, <2>5, <2>6 DEF ChainNext, Script
<1> QED
  BY <1>1, <1>2, PTL DEF ChainSpec

-----------------------------------------------------------------------------
\* The thread of the chain, as in IspTuningProofs but with calls that succeed.
ThreadInv ==
  /\ enabled \in BOOLEAN /\ previous \in BOOLEAN
  /\ nv = "open" => previous = enabled
  /\ nv # "running" => running = N!RunningMode(enabled)

LEMMA ThreadStep ==
  ASSUME ThreadInv, N!NightVision
  PROVE  ThreadInv'
<1>1. CASE N!NvTest
  BY <1>1 DEF ThreadInv, N!NvTest, N!isp
<1>2. CASE N!NvRead
  <2>1. /\ enabled' = IF file = "empty" THEN enabled ELSE file = "1"
        /\ previous' = previous /\ running' = running /\ nv = "open"
        /\ nv' = IF previous' = enabled' THEN "test" ELSE "running"
    BY <1>2 DEF N!NvRead, N!isp
  <2>2. enabled' \in BOOLEAN
    BY <2>1, Zenon DEF ThreadInv
  <2> QED BY <2>1, <2>2 DEF ThreadInv
<1>3. CASE N!NvReadRemoved
  BY <1>3 DEF ThreadInv, N!NvReadRemoved, N!isp
<1>4. CASE N!NvRunning
  BY <1>4 DEF ThreadInv, N!NvRunning, N!NvCall, N!MayFail
<1>5. CASE N!NvScene \/ N!NvColor
  BY <1>5 DEF ThreadInv, N!NvScene, N!NvColor, N!NvCall
<1> QED BY <1>1, <1>2, <1>3, <1>4, <1>5 DEF N!NightVision

\* From autonight's decision through script, file and thread to the ISP: no
\* interleaving leaves the picture in the other mode.
THEOREM PictureAsDecidedHolds == ChainSpec => []PictureAsDecided
<1>1. ChainInit => ThreadInv
  BY DEF ChainInit, ThreadInv, N!Init, N!RunningMode
<1>2. ThreadInv /\ [ChainNext]_chainVars => ThreadInv'
  <2> SUFFICES ASSUME ThreadInv, [ChainNext]_chainVars PROVE ThreadInv'
    OBVIOUS
  <2>1. CASE NightVision
    BY <2>1, ThreadStep DEF NightVision
  <2>2. CASE ~NightVision
    <3>1. UNCHANGED <<enabled, previous, nv, running>>
      BY <2>2 DEF ChainNext, ChainLight, ChainSample, Script, ScriptTruncates, ScriptWrites,
         ScriptFails, ScriptGoes, chainVars, camera
    <3> QED BY <3>1 DEF ThreadInv, N!RunningMode
  <2> QED BY <2>1, <2>2
<1>3. ThreadInv /\ IInv /\ FileAsDecided => PictureAsDecided
  <2> SUFFICES ASSUME ThreadInv, IInv, FileAsDecided, script = "idle", nv = "test",
                      enabled = (file = "1")
               PROVE  running = IF night THEN "night" ELSE "day"
    BY DEF PictureAsDecided
  <2>1. night \in BOOLEAN /\ file = IF night THEN "1" ELSE "0"
    BY DEF IInv, TypeOK, FileAsDecided
  <2>2. enabled <=> night
    BY <2>1
  <2>3. running = IF enabled THEN "night" ELSE "day"
    BY DEF ThreadInv, N!RunningMode
  <2> QED BY <2>2, <2>3, Zenon
<1>4. Spec => []IInv
  BY InitIInv, StepIInv, PTL DEF Spec
<1> QED
  BY <1>1, <1>2, <1>3, <1>4, ChainDecides, FileAsDecidedHolds, PTL DEF ChainSpec
=============================================================================
