--------------------------- MODULE IspTuningProofs ---------------------------
(* Proofs about IspTuning for every set of profiles and every failure.      *)
EXTENDS IspTuning, TLAPS

\* Between the test and the read, the previous state is the one in force.
PreviousSaved == nv = "open" => previous = enabled

IInv == TypeOK /\ PreviousSaved /\ RunningAsRead

USE ProfilesAssumption, SwitchesAssumption

LEMMA InitIInv == Init => IInv
<1> SUFFICES ASSUME Init PROVE TypeOK /\ PreviousSaved /\ RunningAsRead
  BY DEF IInv
<1>1. ~enabled /\ enabled \in BOOLEAN /\ previous \in BOOLEAN
  BY Zenon DEF Init
<1> QED
  BY <1>1 DEF Init, TypeOK, PreviousSaved, RunningAsRead, RunningMode, Modes,
     Scenes, Colors

\* The night vision thread read the file: its flags are Booleans again.
LEMMA FlagsAfterRead ==
  ASSUME TypeOK, NvRead
  PROVE  enabled' \in BOOLEAN /\ previous' \in BOOLEAN
  BY Zenon DEF TypeOK, NvRead

LEMMA TypeStep == TypeOK /\ [Next]_vars => TypeOK'
<1> SUFFICES ASSUME TypeOK, [Next]_vars PROVE TypeOK'
  OBVIOUS
<1> USE DEF TypeOK, Modes, Scenes, Colors, world, nightVision, configuration, isp
<1>1. CASE FileTruncated \/ FileWritten \/ FileRemoved \/ ProfileSaved
  BY <1>1 DEF FileTruncated, FileWritten, FileRemoved, ProfileSaved
<1>2. CASE NvTest
  BY <1>2 DEF NvTest
<1>3. CASE NvRead
  <2>1. enabled' \in BOOLEAN /\ previous' \in BOOLEAN
    BY <1>3, FlagsAfterRead
  <2>2. nv' \in {"test", "running"}
    BY <1>3, Zenon DEF NvRead
  <2>3. UNCHANGED <<world, configuration, isp>>
    BY <1>3 DEF NvRead
  <2> QED BY <2>1, <2>2, <2>3
<1>4. CASE NvReadRemoved
  BY <1>4 DEF NvReadRemoved
<1>5. CASE NvRunning
  BY <1>5 DEF NvRunning, NvCall, RunningMode
<1>6. CASE NvScene
  BY <1>6 DEF NvScene, NvCall, SceneMode
<1>7. CASE NvColor
  BY <1>7 DEF NvColor, NvCall, ColorMode
<1>8. CASE RtcOpen \/ RtcQuery
  BY <1>8 DEF RtcOpen, RtcQuery
<1>9. CASE RtcColor
  BY <1>9 DEF RtcColor, ApplyColumn, GetSetting, Applied
<1>10. CASE RtcScene
  BY <1>10 DEF RtcScene, ApplyColumn, GetSetting, Applied
<1>11. CASE UNCHANGED vars
  BY <1>11 DEF vars
<1> QED
  BY <1>1, <1>2, <1>3, <1>4, <1>5, <1>6, <1>7, <1>8, <1>9, <1>10, <1>11
  DEF Next, NightVision, RealTimeConfiguration

LEMMA RunningStep == IInv /\ [Next]_vars => PreviousSaved' /\ RunningAsRead'
<1> SUFFICES ASSUME IInv, [Next]_vars PROVE PreviousSaved' /\ RunningAsRead'
  OBVIOUS
<1> USE DEF IInv, TypeOK, PreviousSaved, RunningAsRead, world, nightVision,
            configuration, isp
<1>1. CASE FileTruncated \/ FileWritten \/ FileRemoved \/ ProfileSaved
  BY <1>1 DEF FileTruncated, FileWritten, FileRemoved, ProfileSaved
<1>2. CASE NvTest
  BY <1>2 DEF NvTest
<1>3. CASE NvRead
  <2>1. nv' # "running" /\ ~PreviousClobbered => enabled' = enabled
    BY <1>3, Zenon DEF NvRead
  <2>2. nv' # "open" /\ running' = running /\ nv = "open"
    BY <1>3 DEF NvRead
  <2> QED
    BY <2>1, <2>2
<1>4. CASE NvReadRemoved
  BY <1>4 DEF NvReadRemoved
<1>5. CASE NvRunning
  BY <1>5 DEF NvRunning, NvCall
<1>6. CASE NvScene
  BY <1>6 DEF NvScene, NvCall
<1>7. CASE NvColor
  BY <1>7 DEF NvColor, NvCall
<1>8. CASE RealTimeConfiguration
  BY <1>8 DEF RealTimeConfiguration, RtcOpen, RtcQuery, RtcColor, RtcScene, ApplyColumn
<1>9. CASE UNCHANGED vars
  BY <1>9 DEF vars
<1> QED
  BY <1>1, <1>2, <1>3, <1>4, <1>5, <1>6, <1>7, <1>8, <1>9 DEF Next, NightVision

\* Types: the modes of the ISP are named by the thread or by some row, or are
\* what a query for a mode left that found no row or failed.
THEOREM TypeCorrect == Spec => []TypeOK
<1>1. IInv => TypeOK
  BY DEF IInv
<1>2. IInv /\ [Next]_vars => IInv'
  BY TypeStep, RunningStep DEF IInv
<1> QED
  BY InitIInv, <1>1, <1>2, PTL DEF Spec

\* night_vision_entry_start: where the call does not fail and the build does not
\* lay the flags out badly, the running mode is the one last read, whatever the
\* configuration thread does in between.
THEOREM RunningAsReadHolds == Spec => []RunningAsRead
<1>1. IInv => RunningAsRead
  BY DEF IInv
<1>2. IInv /\ [Next]_vars => IInv'
  BY TypeStep, RunningStep DEF IInv
<1> QED
  BY InitIInv, <1>1, <1>2, PTL DEF Spec

=============================================================================
