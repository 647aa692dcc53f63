------------------------- MODULE VideocaptureProofs -------------------------
(* Proofs about Videocapture for every number of encoders, every buffer     *)
(* capacity, every set of failing calls and every setting of the audio.     *)
EXTENDS Videocapture, TLAPS

(* The inductive invariant.  Each part remembers what main or a thread has  *)
(* already done, which the program counters alone do not say.               *)

StartUp == {"sensor", "audio", "parse", "groups", "general", "framesources",
            "encoders", "bindings", "enable", "spawn_audio", "spawn_osd",
            "spawn_nv", "spawn_rtc"}

\* An encoder main has not reached in its creation loop has no thread.
NotYetSpawned ==
  /\ mpc \in StartUp => \A e \in Encoders : enc[e] = "none"
  /\ mpc = "spawn" => \A e \in Encoders : e >= idx => enc[e] = "none"

\* What main has joined is over.
JoinedSoFar ==
  /\ mpc = "join" => \A e \in Encoders : e < idx => Over(enc[e])
  /\ mpc \in {"join_audio", "join_osd"} \cup Finishing =>
       \A e \in Encoders : Over(enc[e])
  /\ mpc \in {"join_osd"} \cup Finishing => Over(aux["audio"])
  /\ mpc \in Finishing => Over(aux["osd"])

\* A thread that took a frame after SIGINT is on its way out of the loop.
LateOnce ==
  \A e \in Encoders :
    \/ late[e] = 0
    \/ late[e] = 1 /\ sigint /\ enc[e] \in {"write", "test", "stop", "done"}

\* A channel receives only for a thread between StartRecvPic and StopRecvPic.
ReceivingInLoop ==
  \A e \in Encoders :
    recv[e] => \/ enc[e] \in {"test", "poll", "get", "write", "stop"}
               \/ MayFail("get") \/ MayFail("stop")

\* Where nothing fails, mpc tells which parts of the sensor are up.
SensorParts == {"isp", "sensor", "enabled", "system", "tuning"}
UpWhileRunning ==
  ~MayFail("sensor") /\ ~MayFail("cleanup") =>
    /\ mpc \in (StartUp \ {"sensor"}) \cup {"spawn", "sysexit"} \cup Joining =>
         imp = SensorParts
    /\ mpc = "disable" => imp = {"isp", "sensor", "enabled", "tuning"}
    /\ mpc = "del" => imp = {"isp", "sensor", "tuning"}
    /\ mpc = "tuningoff" => imp = {"isp", "tuning"}
    /\ mpc = "close" => imp = {"isp"}
    /\ mpc \in {"end", "exited"} => imp = {}

IInv ==
  /\ TypeOK
  /\ NotYetSpawned
  /\ JoinedSoFar
  /\ LateOnce
  /\ ReceivingInLoop
  /\ UpWhileRunning

-----------------------------------------------------------------------------
USE NumEncodersAssumption, BufCapAssumption, AudioSettingsAssumption,
    TimestampSettingsAssumption

LEMMA InitTypeOK == Init => TypeOK
<1> SUFFICES ASSUME Init PROVE TypeOK
  OBVIOUS
<1> USE DEF Init
<1>1. FlagsOK
  BY Zenon DEF FlagsOK
<1>2. MainOK
  BY DEF MainOK, MainPC
<1>3. enc \in [Encoders -> EncPC] /\ aux \in [AuxThreads -> AuxPC]
  BY DEF EncPC, AuxPC
<1>4. /\ recv \in [Encoders -> BOOLEAN]
      /\ buf \in [Encoders -> 0..BufCap]
      /\ late \in [Encoders -> 0..2]
  OBVIOUS
<1> QED
  BY <1>1, <1>2, <1>3, <1>4 DEF TypeOK, ThreadsOK

LEMMA TypeStep == TypeOK /\ [Next]_vars => TypeOK'
<1> SUFFICES ASSUME TypeOK, [Next]_vars PROVE TypeOK'
  OBVIOUS
<1> USE DEF TypeOK, FlagsOK, MainOK, ThreadsOK, config, threads
<1>1. CASE SigintHandler
  BY <1>1 DEF SigintHandler
<1>2. CASE InitializeSensor
  <2>1. mpc' \in {"failed", "audio", "crashed"} /\ (imp' = imp \/ imp' \subseteq SensorParts)
    BY <1>2 DEF InitializeSensor, SensorStack, SensorParts
  <2>2. UNCHANGED <<idx, sigint, audioLevel, enableAudio, showTimestamp, flowing, encSetup,
                    threads>>
    BY <1>2 DEF InitializeSensor
  <2> QED BY <2>1, <2>2 DEF MainPC, SensorParts
<1>3. CASE InitializeAudio
  BY <1>3 DEF InitializeAudio, MainPC
<1>4. CASE ParseJson
  BY <1>4 DEF ParseJson, Advance, MainPC
<1>5. CASE CreateGroups
  BY <1>5 DEF CreateGroups, Advance, MainPC
<1>6. CASE LoadGeneralSettings
  BY <1>6 DEF LoadGeneralSettings, MainPC
<1>7. CASE LoadFramesources
  BY <1>7 DEF LoadFramesources, LoadList, MainPC
<1>8. CASE LoadEncoders
  BY <1>8 DEF LoadEncoders, SetupEncoder, MainPC
<1>9. CASE LoadBindings
  BY <1>9 DEF LoadBindings, LoadList, MainPC
<1>10. CASE EnableFramesources
  BY <1>10 DEF EnableFramesources, MainPC
<1>11. CASE SpawnAudio
  BY <1>11 DEF SpawnAudio, SpawnAux, MainPC, AuxPC
<1>12. CASE SpawnOsd
  BY <1>12 DEF SpawnOsd, SpawnAux, MainPC, AuxPC
<1>13. CASE SpawnNightVision
  BY <1>13 DEF SpawnNightVision, SpawnAux, MainPC, AuxPC
<1>14. CASE SpawnRealTimeConfiguration
  BY <1>14 DEF SpawnRealTimeConfiguration, SpawnAux, MainPC, AuxPC
<1>15. CASE SpawnEncoder
  BY <1>15 DEF SpawnEncoder, MainPC, EncPC
<1>16. CASE SpawnDone
  BY <1>16 DEF SpawnDone, MainPC
<1>17. CASE JoinEncoder
  BY <1>17 DEF JoinEncoder, JoinResult, MainPC
<1>18. CASE JoinDone
  BY <1>18 DEF JoinDone, MainPC
<1>19. CASE JoinAudio
  BY <1>19 DEF JoinAudio, JoinAux, JoinResult, MainPC
<1>20. CASE JoinOsd
  BY <1>20 DEF JoinOsd, JoinAux, JoinResult, MainPC, Teardown
<1>21. CASE SystemExit
  BY <1>21 DEF SystemExit, MainPC, Teardown
<1>22. CASE DisableSensor
  BY <1>22 DEF DisableSensor, Release, MainPC, Teardown
<1>23. CASE DelSensor
  BY <1>23 DEF DelSensor, Release, MainPC, Teardown
<1>24. CASE DisableTuning
  BY <1>24 DEF DisableTuning, Release, MainPC, Teardown
<1>25. CASE CloseIsp
  BY <1>25 DEF CloseIsp, Release, MainPC, Teardown
<1>26. CASE MainReturn
  BY <1>26 DEF MainReturn, MainPC
<1>27. ASSUME NEW e \in Encoders, EncOpen(e) PROVE TypeOK'
  BY <1>27 DEF EncOpen, EncGoto, EncPC, main
<1>28. ASSUME NEW e \in Encoders, EncStart(e) PROVE TypeOK'
  BY <1>28 DEF EncStart, EncGoto, EncPC, main
<1>29. ASSUME NEW e \in Encoders, EncTest(e) PROVE TypeOK'
  BY <1>29 DEF EncTest, EncGoto, EncPC, main
<1>30. ASSUME NEW e \in Encoders, EncPoll(e) PROVE TypeOK'
  BY <1>30 DEF EncPoll, EncGoto, EncPC, main
<1>31. ASSUME NEW e \in Encoders, EncGet(e) PROVE TypeOK'
  BY <1>31 DEF EncGet, EncGoto, EncPC, main
<1>32. ASSUME NEW e \in Encoders, EncWrite(e) PROVE TypeOK'
  BY <1>32 DEF EncWrite, EncGoto, EncPC, main
<1>33. ASSUME NEW e \in Encoders, EncStop(e) PROVE TypeOK'
  BY <1>33 DEF EncStop, EncGoto, EncPC, main
<1>34. ASSUME NEW e \in Encoders, FrameArrives(e) PROVE TypeOK'
  BY <1>34 DEF FrameArrives, main
<1>35. CASE AudioTest
  BY <1>35 DEF AudioTest, AuxGoto, AuxPC, main
<1>36. CASE AudioPoll
  BY <1>36 DEF AudioPoll, AuxGoto, AuxPC, main
<1>37. CASE AudioWrite
  BY <1>37 DEF AudioWrite, AuxGoto, AuxPC, main, MainPC
<1>38. CASE OsdInit
  BY <1>38 DEF OsdInit, AuxGoto, AuxPC, main
<1>39. CASE OsdExit
  BY <1>39 DEF OsdExit, AuxGoto, AuxPC, main
<1>40. CASE NightVisionExit
  BY <1>40 DEF NightVisionExit, AuxGoto, AuxPC, main
<1>44. CASE NightVisionCrash
  BY <1>44 DEF NightVisionCrash, AuxPC, MainPC
<1>41. CASE RtcOpen
  BY <1>41 DEF RtcOpen, AuxGoto, AuxPC, main
<1>42. CASE RtcExit
  BY <1>42 DEF RtcExit, AuxGoto, AuxPC, main
<1>43. CASE UNCHANGED vars
  BY <1>43 DEF vars
<1> QED
  BY <1>1, <1>2, <1>3, <1>4, <1>5, <1>6, <1>7, <1>8, <1>9, <1>10, <1>11, <1>12, <1>13, <1>14, <1>15, <1>16, <1>17, <1>18, <1>19, <1>20, <1>21, <1>22, <1>23, <1>24, <1>25, <1>26, <1>27, <1>28, <1>29, <1>30, <1>31, <1>32, <1>33, <1>34, <1>35, <1>36, <1>37, <1>38, <1>39, <1>40, <1>41, <1>42, <1>43, <1>44
  DEF Next, MainStep, EncoderStep, AudioStep, OsdStep, NightVisionStep, RtcStep, Ended

\* TypeOK (Videocapture): no step of main or of a thread, under any failure,
\* leaves the steps the code has, overruns an encoder loop or a channel buffer.
THEOREM TypeCorrect == Spec => []TypeOK
  BY InitTypeOK, TypeStep, PTL DEF Spec

-----------------------------------------------------------------------------
(* Each part of IInv is preserved.                                          *)

LEMMA JoinStep ==
  TypeOK /\ NotYetSpawned /\ JoinedSoFar /\ [Next]_vars
    => NotYetSpawned' /\ JoinedSoFar'
<1> SUFFICES ASSUME TypeOK, NotYetSpawned, JoinedSoFar, [Next]_vars
             PROVE  NotYetSpawned' /\ JoinedSoFar'
  OBVIOUS
<1> USE DEF TypeOK, MainOK, ThreadsOK, NotYetSpawned, JoinedSoFar, StartUp,
            Finishing, Teardown, Over, Halted, config, threads
<1>1. CASE SigintHandler
  BY <1>1 DEF SigintHandler
<1>2. CASE InitializeSensor
  BY <1>2 DEF InitializeSensor
<1>3. CASE InitializeAudio
  BY <1>3 DEF InitializeAudio
<1>4. CASE ParseJson
  BY <1>4 DEF ParseJson, Advance
<1>5. CASE CreateGroups
  BY <1>5 DEF CreateGroups, Advance
<1>6. CASE LoadGeneralSettings
  BY <1>6 DEF LoadGeneralSettings
<1>7. CASE LoadFramesources
  BY <1>7 DEF LoadFramesources, LoadList
<1>8. CASE LoadEncoders
  BY <1>8 DEF LoadEncoders, Encoders
<1>9. CASE LoadBindings
  BY <1>9 DEF LoadBindings, LoadList
<1>10. CASE EnableFramesources
  BY <1>10 DEF EnableFramesources
<1>11. CASE SpawnAudio
  BY <1>11 DEF SpawnAudio, SpawnAux
<1>12. CASE SpawnOsd
  BY <1>12 DEF SpawnOsd, SpawnAux
<1>13. CASE SpawnNightVision
  BY <1>13 DEF SpawnNightVision, SpawnAux
<1>14. CASE SpawnRealTimeConfiguration
  BY <1>14 DEF SpawnRealTimeConfiguration, SpawnAux
<1>15. CASE SpawnEncoder
  BY <1>15 DEF SpawnEncoder, Encoders
<1>16. CASE SpawnDone
  BY <1>16 DEF SpawnDone, Encoders
<1>17. CASE JoinEncoder
  BY <1>17 DEF JoinEncoder, JoinResult, Encoders
<1>18. CASE JoinDone
  BY <1>18 DEF JoinDone, Encoders
<1>19. CASE JoinAudio
  BY <1>19 DEF JoinAudio, JoinAux, JoinResult
<1>20. CASE JoinOsd
  BY <1>20 DEF JoinOsd, JoinAux, JoinResult
<1>21. CASE SystemExit
  BY <1>21 DEF SystemExit
<1>22. CASE DisableSensor
  BY <1>22 DEF DisableSensor, Release
<1>23. CASE DelSensor
  BY <1>23 DEF DelSensor, Release
<1>24. CASE DisableTuning
  BY <1>24 DEF DisableTuning, Release
<1>25. CASE CloseIsp
  BY <1>25 DEF CloseIsp, Release
<1>26. CASE MainReturn
  BY <1>26 DEF MainReturn
<1>27. ASSUME NEW e \in Encoders, EncOpen(e)
      PROVE  NotYetSpawned' /\ JoinedSoFar'
  BY <1>27 DEF EncOpen, EncGoto, main
<1>28. ASSUME NEW e \in Encoders, EncStart(e)
      PROVE  NotYetSpawned' /\ JoinedSoFar'
  BY <1>28 DEF EncStart, EncGoto, main
<1>29. ASSUME NEW e \in Encoders, EncTest(e)
      PROVE  NotYetSpawned' /\ JoinedSoFar'
  BY <1>29 DEF EncTest, EncGoto, main
<1>30. ASSUME NEW e \in Encoders, EncPoll(e)
      PROVE  NotYetSpawned' /\ JoinedSoFar'
  BY <1>30 DEF EncPoll, EncGoto, main
<1>31. ASSUME NEW e \in Encoders, EncGet(e)
      PROVE  NotYetSpawned' /\ JoinedSoFar'
  BY <1>31 DEF EncGet, EncGoto, main
<1>32. ASSUME NEW e \in Encoders, EncWrite(e)
      PROVE  NotYetSpawned' /\ JoinedSoFar'
  BY <1>32 DEF EncWrite, EncGoto, main
<1>33. ASSUME NEW e \in Encoders, EncStop(e)
      PROVE  NotYetSpawned' /\ JoinedSoFar'
  BY <1>33 DEF EncStop, EncGoto, main
<1>34. ASSUME NEW e \in Encoders, FrameArrives(e)
      PROVE  NotYetSpawned' /\ JoinedSoFar'
  BY <1>34 DEF FrameArrives, main
<1>35. CASE AudioTest
  BY <1>35 DEF AudioTest, AuxGoto, AuxThreads, main
<1>36. CASE AudioPoll
  BY <1>36 DEF AudioPoll, AuxGoto, AuxThreads, main
<1>37. CASE AudioWrite
  BY <1>37 DEF AudioWrite, AuxGoto, AuxThreads, main
<1>38. CASE OsdInit
  BY <1>38 DEF OsdInit, AuxGoto, AuxThreads, main
<1>39. CASE OsdExit
  BY <1>39 DEF OsdExit, AuxGoto, AuxThreads, main
<1>40. CASE NightVisionExit
  BY <1>40 DEF NightVisionExit, AuxGoto, AuxThreads, main
<1>44. CASE NightVisionCrash
  BY <1>44 DEF NightVisionCrash, AuxThreads
<1>41. CASE RtcOpen
  BY <1>41 DEF RtcOpen, AuxGoto, AuxThreads, main
<1>42. CASE RtcExit
  BY <1>42 DEF RtcExit, AuxGoto, AuxThreads, main
<1>43. CASE UNCHANGED vars
  BY <1>43 DEF vars
<1> QED
  BY <1>1, <1>2, <1>3, <1>4, <1>5, <1>6, <1>7, <1>8, <1>9, <1>10, <1>11, <1>12, <1>13, <1>14, <1>15, <1>16, <1>17, <1>18, <1>19, <1>20, <1>21, <1>22, <1>23, <1>24, <1>25, <1>26, <1>27, <1>28, <1>29, <1>30, <1>31, <1>32, <1>33, <1>34, <1>35, <1>36, <1>37, <1>38, <1>39, <1>40, <1>41, <1>42, <1>43, <1>44
  DEF Next, MainStep, EncoderStep, AudioStep, OsdStep, NightVisionStep, RtcStep, Ended

\* Apart from creating an encoder thread, no step of main and none of the other
\* threads touches what an encoder's state consists of.
LEMMA EncodersUntouched ==
  MainStep \/ AudioStep \/ OsdStep \/ NightVisionStep \/ RtcStep \/ UNCHANGED vars
    => SpawnEncoder \/ UNCHANGED <<sigint, enc, recv, late>>
<1>1. MainStep => SpawnEncoder \/ UNCHANGED <<sigint, enc, recv, late>>
  BY Zenon DEF MainStep, InitializeSensor, InitializeAudio, ParseJson, CreateGroups,
     Advance, LoadGeneralSettings, LoadFramesources, LoadEncoders, LoadBindings,
     LoadList, EnableFramesources, SpawnAudio, SpawnOsd, SpawnNightVision,
     SpawnRealTimeConfiguration, SpawnAux, SpawnDone, JoinEncoder, JoinDone,
     JoinAudio, JoinOsd, JoinAux, SystemExit, DisableSensor, DelSensor,
     DisableTuning, CloseIsp, Release, MainReturn, config, threads
<1>2. AudioStep \/ OsdStep \/ NightVisionStep \/ RtcStep
        => UNCHANGED <<sigint, enc, recv, late>>
  BY DEF AudioStep, AudioTest, AudioPoll, AudioWrite, OsdStep, OsdInit, OsdExit,
     NightVisionStep, NightVisionExit, NightVisionCrash, RtcStep, RtcOpen, RtcExit, AuxGoto, main, config, threads
<1> QED
  BY <1>1, <1>2 DEF vars

LEMMA LateStep ==
  TypeOK /\ NotYetSpawned /\ LateOnce /\ [Next]_vars => LateOnce'
<1> SUFFICES ASSUME TypeOK, NotYetSpawned, LateOnce, [Next]_vars
             PROVE  LateOnce'
  OBVIOUS
<1> USE DEF TypeOK, MainOK, ThreadsOK, LateOnce, config, threads
<1>1. CASE SigintHandler
  BY <1>1 DEF SigintHandler
<1>2. CASE SpawnEncoder
  BY <1>2 DEF SpawnEncoder, NotYetSpawned, Encoders
<1>3. CASE UNCHANGED <<sigint, enc, recv, late>>
  BY <1>3
<1>4. ASSUME NEW e \in Encoders, EncoderStep(e) \/ FrameArrives(e)
      PROVE  LateOnce'
  <2>1. CASE EncOpen(e)
    BY <2>1 DEF EncOpen, EncGoto, main
  <2>2. CASE EncStart(e)
    BY <2>2 DEF EncStart, EncGoto, main
  <2>3. CASE EncTest(e)
    BY <2>3 DEF EncTest, EncGoto, main
  <2>4. CASE EncPoll(e)
    BY <2>4 DEF EncPoll, EncGoto, main
  <2>5. CASE EncGet(e)
    BY <2>5 DEF EncGet, EncGoto, main
  <2>6. CASE EncWrite(e)
    BY <2>6 DEF EncWrite, EncGoto, main
  <2>7. CASE EncStop(e)
    BY <2>7 DEF EncStop, EncGoto, main
  <2>8. CASE FrameArrives(e)
    BY <2>8 DEF FrameArrives, main
  <2> QED
    BY <1>4, <2>1, <2>2, <2>3, <2>4, <2>5, <2>6, <2>7, <2>8 DEF EncoderStep
<1> QED
  BY <1>1, <1>2, <1>3, <1>4, EncodersUntouched DEF Next, Ended

LEMMA ReceivingStep ==
  TypeOK /\ NotYetSpawned /\ ReceivingInLoop /\ [Next]_vars => ReceivingInLoop'
<1> SUFFICES ASSUME TypeOK, NotYetSpawned, ReceivingInLoop, [Next]_vars
             PROVE  ReceivingInLoop'
  OBVIOUS
<1> USE DEF TypeOK, MainOK, ThreadsOK, ReceivingInLoop, config, threads
<1>1. CASE SigintHandler
  BY <1>1 DEF SigintHandler
<1>2. CASE SpawnEncoder
  BY <1>2 DEF SpawnEncoder, NotYetSpawned, Encoders
<1>3. CASE UNCHANGED <<sigint, enc, recv, late>>
  BY <1>3
<1>4. ASSUME NEW e \in Encoders, EncoderStep(e) \/ FrameArrives(e)
      PROVE  ReceivingInLoop'
  <2>1. CASE EncOpen(e)
    BY <2>1 DEF EncOpen, EncGoto, main
  <2>2. CASE EncStart(e)
    BY <2>2 DEF EncStart, EncGoto, main
  <2>3. CASE EncTest(e)
    BY <2>3 DEF EncTest, EncGoto, main
  <2>4. CASE EncPoll(e)
    BY <2>4 DEF EncPoll, EncGoto, main
  <2>5. CASE EncGet(e)
    BY <2>5 DEF EncGet, EncGoto, main
  <2>6. CASE EncWrite(e)
    BY <2>6 DEF EncWrite, EncGoto, main
  <2>7. CASE EncStop(e)
    BY <2>7 DEF EncStop, EncGoto, main
  <2>8. CASE FrameArrives(e)
    BY <2>8 DEF FrameArrives, main
  <2> QED
    BY <1>4, <2>1, <2>2, <2>3, <2>4, <2>5, <2>6, <2>7, <2>8 DEF EncoderStep
<1> QED
  BY <1>1, <1>2, <1>3, <1>4, EncodersUntouched DEF Next, Ended

LEMMA SensorStep == TypeOK /\ UpWhileRunning /\ [Next]_vars => UpWhileRunning'
<1> SUFFICES ASSUME TypeOK, UpWhileRunning, [Next]_vars,
                    ~MayFail("sensor"), ~MayFail("cleanup")
             PROVE  UpWhileRunning'
  BY DEF UpWhileRunning
<1> USE DEF UpWhileRunning, SensorParts, StartUp, Joining, config, threads
<1>1. CASE InitializeSensor
  <2>1. mpc = "sensor" /\ mpc' = "audio" /\ imp' = {SensorStack[i] : i \in 1..5}
    BY <1>1 DEF InitializeSensor
  <2>2. 1..5 = {1, 2, 3, 4, 5}
    OBVIOUS
  <2>3. imp' = SensorParts
    BY <2>1, <2>2 DEF SensorStack
  <2> QED
    BY <2>1, <2>3
<1>2. CASE InitializeAudio \/ ParseJson \/ CreateGroups \/ LoadGeneralSettings
  BY <1>2 DEF InitializeAudio, ParseJson, CreateGroups, Advance, LoadGeneralSettings
<1>3. CASE LoadFramesources \/ LoadEncoders \/ LoadBindings \/ EnableFramesources
  BY <1>3 DEF LoadFramesources, LoadEncoders, LoadBindings, LoadList,
       EnableFramesources
<1>4. CASE SpawnAudio \/ SpawnOsd \/ SpawnNightVision \/ SpawnRealTimeConfiguration
  BY <1>4 DEF SpawnAudio, SpawnOsd, SpawnNightVision,
       SpawnRealTimeConfiguration, SpawnAux
<1>5. CASE SpawnEncoder \/ SpawnDone \/ JoinEncoder \/ JoinDone
  BY <1>5 DEF SpawnEncoder, SpawnDone, JoinEncoder, JoinDone, JoinResult
<1>6. CASE JoinAudio \/ JoinOsd
  BY <1>6 DEF JoinAudio, JoinOsd, JoinAux, JoinResult
<1>7. CASE SystemExit
  BY <1>7 DEF SystemExit
<1>8. CASE DisableSensor \/ DelSensor \/ DisableTuning \/ CloseIsp
  BY <1>8 DEF DisableSensor, DelSensor, DisableTuning, CloseIsp, Release
<1>9. CASE SigintHandler \/ MainReturn
  BY <1>9 DEF SigintHandler, MainReturn
<1>10. ASSUME NEW e \in Encoders, EncoderStep(e) \/ FrameArrives(e)
      PROVE  UpWhileRunning'
  BY <1>10 DEF EncoderStep, EncOpen, EncStart, EncTest, EncPoll, EncGet, EncWrite,
     EncStop, EncGoto, FrameArrives, main
<1>11. CASE AudioStep \/ OsdStep \/ NightVisionStep \/ RtcStep
  BY <1>11 DEF AudioStep, AudioTest, AudioPoll, AudioWrite, OsdStep, OsdInit,
     OsdExit, NightVisionStep, NightVisionExit, NightVisionCrash, RtcStep, RtcOpen, RtcExit, AuxGoto, main
<1>12. CASE UNCHANGED vars
  BY <1>12 DEF vars
<1> QED
  BY <1>1, <1>2, <1>3, <1>4, <1>5, <1>6, <1>7, <1>8, <1>9, <1>10, <1>11, <1>12
  DEF Next, MainStep, Ended

LEMMA InitIInv == Init => IInv
<1> SUFFICES ASSUME Init
             PROVE  /\ NotYetSpawned /\ JoinedSoFar /\ LateOnce
                    /\ ReceivingInLoop /\ UpWhileRunning
  BY InitTypeOK DEF IInv
<1> QED
  BY DEF Init, NotYetSpawned, JoinedSoFar, LateOnce, ReceivingInLoop,
         UpWhileRunning, StartUp, Finishing, Joining, Teardown

\* IInv holds of every reachable state; the theorems below read it off.
THEOREM Inductive == Spec => []IInv
<1>1. IInv /\ [Next]_vars => IInv'
  BY TypeStep, JoinStep, LateStep, ReceivingStep, SensorStep DEF IInv
<1> QED
  BY InitIInv, <1>1, PTL DEF Spec

\* start_frame_producer_threads and sensor_cleanup: no encoder, audio or OSD
\* thread is alive once main has begun to take the sensor down.
THEOREM JoinedBeforeTeardownHolds == Spec => []JoinedBeforeTeardown
<1>1. IInv => JoinedBeforeTeardown
  BY DEF IInv, JoinedSoFar, JoinedBeforeTeardown
<1> QED
  BY Inductive, <1>1, PTL

\* output_v4l2_frames: at most one more frame is taken after SIGINT, whichever
\* step of its loop the thread is at when the signal arrives.
THEOREM PromptStopHolds == Spec => []PromptStop
<1>1. IInv => PromptStop
  BY DEF IInv, LateOnce, PromptStop
<1> QED
  BY Inductive, <1>1, PTL

\* output_v4l2_frames: a finished thread's channel receives no more, unless
\* GetStream or StopRecvPic fails.
THEOREM ReceiverStoppedHolds == Spec => []ReceiverStopped
<1>1. IInv => ReceiverStopped
  BY DEF IInv, ReceivingInLoop, ReceiverStopped, Over
<1> QED
  BY Inductive, <1>1, PTL

\* sensor_cleanup: what initialize_sensor brought up is down again when main
\* returns, where no call of the two fails.
THEOREM CleanTeardownHolds == Spec => []CleanTeardown
<1>1. IInv => CleanTeardown
  BY DEF IInv, UpWhileRunning, CleanTeardown
<1> QED
  BY Inductive, <1>1, PTL

=============================================================================
