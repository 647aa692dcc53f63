---------------------------- MODULE Videocapture ----------------------------
(***************************************************************************)
(* The life of one videocapture process (src/src/main.c, src/src/capture.c):*)
(* main brings up the sensor, reads the settings, starts the threads, waits *)
(* for them after SIGINT and takes the sensor down again.                   *)
(*                                                                          *)
(* main runs through the values of mpc; every thread has a program counter  *)
(* of its own and interleaves with main and with the others.  A call that   *)
(* the code checks can fail only where its name is in Faults.               *)
(***************************************************************************)
EXTENDS Integers

CONSTANTS
  NumEncoders,    \* length of "encoders" in the settings file
  BufCap,         \* frames the encoder buffers before it drops new ones
  Faults,         \* names of the calls that may fail
  AudioSettings,  \* the values "enable_audio" may have in the settings file
  TimestampSettings   \* the values "show_timestamp" may have there

ASSUME NumEncodersAssumption == NumEncoders \in Nat
ASSUME BufCapAssumption == BufCap \in Nat \ {0}
ASSUME AudioSettingsAssumption == AudioSettings \subseteq BOOLEAN /\ AudioSettings # {}
ASSUME TimestampSettingsAssumption ==
  TimestampSettings \subseteq BOOLEAN /\ TimestampSettings # {}

Encoders == 1..NumEncoders
AuxThreads == {"audio", "osd", "nv", "rtc"}

VARIABLES
  mpc,            \* where main is
  idx,            \* loop variable of the encoder loops in main
  sigint,         \* sigint_received
  imp,            \* what initialize_sensor has brought up
  audioLevel,     \* how far initialize_audio got: device, channel, PCM handle
  enableAudio,    \* camera_config.enable_audio
  showTimestamp,  \* camera_config.show_timestamp
  flowing,        \* every frame source is set up and bound
  encSetup,       \* what load_encoders left for each encoder
  enc,            \* encoder threads
  recv,           \* the channel is between StartRecvPic and StopRecvPic
  buf,            \* encoded frames waiting in the channel
  late,           \* history: frames a thread took after SIGINT, counted to 2
  aux             \* audio, OSD, night vision and configuration threads

config == <<imp, audioLevel, enableAudio, showTimestamp, flowing, encSetup>>
vars == <<mpc, idx, sigint, config, enc, recv, buf, late, aux>>

MayFail(call) == call \in Faults

SensorStack == <<"isp", "sensor", "enabled", "system", "tuning">>
Teardown == {"sysexit", "disable", "del", "tuningoff", "close"}
Halted == mpc \in {"exited", "failed", "crashed"}

MainPC == {"sensor", "audio", "parse", "groups", "general", "framesources",
           "encoders", "bindings", "enable", "spawn_audio", "spawn_osd",
           "spawn_nv", "spawn_rtc", "spawn", "join", "join_audio", "join_osd",
           "end", "exited", "failed", "crashed"} \cup Teardown
EncPC == {"none", "open", "start", "test", "poll", "get", "write", "stop", "done"}
AuxPC == {"none", "init", "open", "test", "poll", "write", "loop", "done", "crashed"}

Init ==
  /\ mpc = "sensor"
  /\ idx = 1
  /\ sigint = FALSE
  /\ imp = {}
  /\ audioLevel = 0
  /\ enableAudio \in BOOLEAN       \* camera_config is an uninitialised local
  /\ showTimestamp \in BOOLEAN
  /\ flowing = TRUE
  /\ encSetup = [e \in Encoders |-> "garbage"]
  /\ enc = [e \in Encoders |-> "none"]
  /\ recv = [e \in Encoders |-> FALSE]
  /\ buf = [e \in Encoders |-> 0]
  /\ late = [e \in Encoders |-> 0]
  /\ aux = [t \in AuxThreads |-> "none"]

-----------------------------------------------------------------------------
(* main: start-up                                                          *)

threads == <<enc, recv, buf, late, aux>>

\* sigint_handler: only the flag outlives the handler.
SigintHandler ==
  /\ ~Halted /\ ~sigint
  /\ sigint' = TRUE
  /\ UNCHANGED <<mpc, idx, config, threads>>

\* A failed step leaves the earlier ones done; main ignores the result, but a
\* sensor that cannot be added ends the process, and so does a /proc file that
\* cannot be opened: fgets reads it through NULL.
InitializeSensor ==
  /\ mpc = "sensor"
  /\ \/ \E n \in 0..5 :
          /\ n < 5 => MayFail("sensor")
          /\ imp' = {SensorStack[i] : i \in 1..n}
          /\ mpc' = IF n = 1 THEN "failed" ELSE "audio"
     \/ MayFail("sensor") /\ mpc' = "crashed" /\ UNCHANGED imp
  /\ UNCHANGED <<idx, sigint, audioLevel, enableAudio, showTimestamp, flowing,
                 encSetup, threads>>

\* main tests enable_audio here, before the settings have been read into it.
InitializeAudio ==
  /\ mpc = "audio"
  /\ mpc' = "parse"
  /\ audioLevel' \in IF ~enableAudio THEN {0}
                     ELSE IF MayFail("audio") THEN 0..3 ELSE {3}
  /\ UNCHANGED <<idx, sigint, imp, enableAudio, showTimestamp, flowing,
                 encSetup, threads>>

\* cJSON_ParseWithLength, then the IVS and OSD groups: a failure returns from
\* main at once and leaves the sensor up.
Advance(call, here, next) ==
  /\ mpc = here
  /\ \/ mpc' = next
     \/ MayFail(call) /\ mpc' = "failed"
  /\ UNCHANGED <<idx, sigint, config, threads>>

ParseJson == Advance("parse", "parse", "groups")
CreateGroups == Advance("groups", "groups", "general")

\* Without the section the fields keep what the memory held; a section without
\* one of the keys that must be there is read through NULL.
LoadGeneralSettings ==
  /\ mpc = "general"
  /\ \/ /\ mpc' = "framesources"
        /\ enableAudio' \in AudioSettings /\ showTimestamp' \in TimestampSettings
     \/ /\ MayFail("general")
        /\ mpc' \in {"framesources", "crashed"}
        /\ UNCHANGED <<enableAudio, showTimestamp>>
  /\ UNCHANGED <<idx, sigint, imp, audioLevel, flowing, encSetup, threads>>

\* load_framesources and load_bindings: an entry that lacks an attribute ends the
\* loop and main goes on; one with an attribute of the wrong type is read through
\* NULL, and one the hardware refuses ends the process.
LoadList(here, next, setup) ==
  /\ mpc = here
  /\ \/ mpc' = next /\ UNCHANGED flowing
     \/ MayFail("populate") /\ mpc' = next /\ flowing' = FALSE
     \/ MayFail("populate") /\ mpc' = "crashed" /\ UNCHANGED flowing
     \/ MayFail(setup) /\ mpc' = "failed" /\ UNCHANGED flowing
  /\ UNCHANGED <<idx, sigint, imp, audioLevel, enableAudio, showTimestamp,
                 encSetup, threads>>

LoadFramesources == LoadList("framesources", "encoders", "framesource")
LoadBindings == LoadList("bindings", "enable", "bind")

\* setup_encoder creates a channel, then registers it with its group.
SetupEncoder ==
  {"ok"} \cup (IF MayFail("setup") THEN {"nochan"} ELSE {})
         \cup (IF MayFail("register") THEN {"unregistered"} ELSE {})

\* num_encoders is set before the loop, so the entries behind the first one that
\* cannot be parsed, k, stay unwritten; setup_encoder's result is dropped.  k has
\* no channel; whether the thread can open a device for it depends on what
\* populate_encoder objected to: an unknown mode is found when the path and the
\* payload type have been written, a missing attribute before anything is.
LoadEncoders ==
  /\ mpc = "encoders"
  /\ \/ /\ mpc' = "bindings"
        /\ \E k \in 1..NumEncoders + 1, half \in {"garbage", "nochan"},
               left \in [Encoders -> SetupEncoder] :
             /\ k <= NumEncoders => MayFail("populate")
             /\ encSetup' = [e \in Encoders |-> IF e > k THEN "garbage"
                                               ELSE IF e = k THEN half ELSE left[e]]
     \/ MayFail("populate") /\ mpc' = "crashed" /\ UNCHANGED encSetup
  /\ UNCHANGED <<idx, sigint, imp, audioLevel, enableAudio, showTimestamp,
                 flowing, threads>>

\* Every channel is enabled or the process exits, unparsed entries included; a
\* mutex that cannot be initialised right after it has the same effect.
EnableFramesources ==
  /\ mpc = "enable"
  /\ \/ mpc' = "spawn_audio"
     \/ (MayFail("enable") \/ ~flowing) /\ mpc' = "failed"
  /\ UNCHANGED <<idx, sigint, config, threads>>

-----------------------------------------------------------------------------
(* main: start_frame_producer_threads                                      *)

\* pthread_create reports an error as a positive number: main never notices.
SpawnAux(t, first, here, next) ==
  /\ mpc = here
  /\ mpc' = next
  /\ \/ aux' = [aux EXCEPT ![t] = first]
     \/ MayFail("create") /\ UNCHANGED aux
  /\ UNCHANGED <<idx, sigint, config, enc, recv, buf, late>>

SpawnAudio ==
  \/ enableAudio /\ SpawnAux("audio", "test", "spawn_audio", "spawn_osd")
  \/ /\ ~enableAudio
     /\ mpc = "spawn_audio" /\ mpc' = "spawn_osd"
     /\ UNCHANGED <<idx, sigint, config, threads>>
SpawnOsd == SpawnAux("osd", "init", "spawn_osd", "spawn_nv")
SpawnNightVision == SpawnAux("nv", "loop", "spawn_nv", "spawn_rtc")
SpawnRealTimeConfiguration == SpawnAux("rtc", "open", "spawn_rtc", "spawn")

\* Mutant: the loop runs once too often.
SpawnEncoderOffByOne ==
  /\ mpc = "spawn" /\ idx <= NumEncoders + 1
  /\ idx' = idx + 1
  /\ enc' = [enc EXCEPT ![idx] = "open"]
  /\ UNCHANGED <<mpc, sigint, config, recv, buf, late, aux>>

\* One thread per encoder, two seconds apart, whatever load_encoders returned.
SpawnEncoder ==
  /\ mpc = "spawn" /\ idx <= NumEncoders
  /\ idx' = idx + 1
  /\ \/ enc' = [enc EXCEPT ![idx] = "open"]
     \/ MayFail("create") /\ UNCHANGED enc
  /\ UNCHANGED <<mpc, sigint, config, recv, buf, late, aux>>

SpawnDone ==
  /\ mpc = "spawn" /\ idx > NumEncoders
  /\ mpc' = "join" /\ idx' = 1
  /\ UNCHANGED <<sigint, config, threads>>

\* Joining a thread that was never created uses an uninitialised pthread_t:
\* the call returns an error, which is dropped, or the process crashes.
JoinResult(state, next) ==
  \/ state = "done" /\ mpc' = next
  \/ state = "none" /\ mpc' \in {next, "crashed"}

JoinEncoder ==
  /\ mpc = "join" /\ idx <= NumEncoders
  /\ JoinResult(enc[idx], "join")
  /\ idx' = idx + 1
  /\ UNCHANGED <<sigint, config, threads>>

JoinDone ==
  /\ mpc = "join" /\ idx > NumEncoders
  /\ mpc' = "join_audio"
  /\ UNCHANGED <<idx, sigint, config, threads>>

JoinAux(t, here, next) ==
  /\ mpc = here
  /\ JoinResult(aux[t], next)
  /\ UNCHANGED <<idx, sigint, config, threads>>

\* Mutant: the OSD thread is not waited for.
JoinOsdSkipped ==
  /\ mpc = "join_osd" /\ mpc' = "sysexit"
  /\ UNCHANGED <<idx, sigint, config, threads>>

JoinAudio == JoinAux("audio", "join_audio", "join_osd")
JoinOsd == JoinAux("osd", "join_osd", "sysexit")

-----------------------------------------------------------------------------
(* main: sensor_cleanup and return                                         *)

\* A step that fails, also because the part never came up, skips the rest.
Release(part, here, next) ==
  /\ mpc = here
  /\ \/ part \in imp /\ imp' = imp \ {part} /\ mpc' = next
     \/ (MayFail("cleanup") \/ part \notin imp) /\ mpc' = "end" /\ UNCHANGED imp
  /\ UNCHANGED <<idx, sigint, audioLevel, enableAudio, showTimestamp, flowing,
                 encSetup, threads>>

\* The result of IMP_System_Exit is not looked at.
SystemExit ==
  /\ mpc = "sysexit"
  /\ mpc' = "disable" /\ imp' = imp \ {"system"}
  /\ UNCHANGED <<idx, sigint, audioLevel, enableAudio, showTimestamp, flowing,
                 encSetup, threads>>
\* Mutant: the sensor is disabled and closed, but not deleted.
DisableSensorOnly == Release("enabled", "disable", "tuningoff")

DisableSensor == Release("enabled", "disable", "del")
DelSensor == Release("sensor", "del", "tuningoff")
DisableTuning == Release("tuning", "tuningoff", "close")
CloseIsp == Release("isp", "close", "end")

\* Returning from main ends the threads that still run.
MainReturn ==
  /\ mpc = "end" /\ mpc' = "exited"
  /\ UNCHANGED <<idx, sigint, config, threads>>

MainStep ==
  \/ InitializeSensor \/ InitializeAudio \/ ParseJson \/ CreateGroups
  \/ LoadGeneralSettings \/ LoadFramesources \/ LoadEncoders \/ LoadBindings
  \/ EnableFramesources
  \/ SpawnAudio \/ SpawnOsd \/ SpawnNightVision \/ SpawnRealTimeConfiguration
  \/ SpawnEncoder \/ SpawnDone
  \/ JoinEncoder \/ JoinDone \/ JoinAudio \/ JoinOsd
  \/ SystemExit \/ DisableSensor \/ DelSensor \/ DisableTuning \/ CloseIsp
  \/ MainReturn

-----------------------------------------------------------------------------
(* Encoder threads: output_v4l2_frames                                     *)

main == <<mpc, idx, sigint, config>>

EncGoto(e, here, next) ==
  /\ ~Halted
  /\ enc[e] = here
  /\ enc' = [enc EXCEPT ![e] = next]

\* The hardware encodes a frame; with a full buffer it drops the frame.
FrameArrives(e) ==
  /\ ~Halted
  /\ recv[e] /\ encSetup[e] = "ok" /\ flowing /\ "system" \in imp
  /\ buf[e] < BufCap
  /\ buf' = [buf EXCEPT ![e] = @ + 1]
  /\ UNCHANGED <<main, enc, recv, late, aux>>

\* open, VIDIOC_S_FMT and VIDIOC_STREAMON on the V4L2 device.  An encoder that
\* was never parsed has no usable device path or payload type.
EncOpen(e) ==
  /\ \/ encSetup[e] # "garbage" /\ EncGoto(e, "open", "start")
     \/ (MayFail("open") \/ encSetup[e] = "garbage") /\ EncGoto(e, "open", "done")
  /\ UNCHANGED <<main, recv, buf, late, aux>>

\* Mutant: the thread enters its loop without IMP_Encoder_StartRecvPic.
EncStartSkipped(e) ==
  /\ EncGoto(e, "start", "test")
  /\ UNCHANGED <<main, recv, buf, late, aux>>

\* StartRecvPic is refused without a channel; one that is not registered may
\* start, but gets no frames.
EncStart(e) ==
  /\ \/ /\ encSetup[e] # "nochan"
        /\ EncGoto(e, "start", "test")
        /\ recv' = [recv EXCEPT ![e] = TRUE]
     \/ /\ MayFail("start") \/ encSetup[e] # "ok"
        /\ EncGoto(e, "start", "done")
        /\ UNCHANGED recv
  /\ UNCHANGED <<main, buf, late, aux>>

\* Mutant: the loop goes on as long as frames are buffered.
EncTestDrains(e) ==
  /\ EncGoto(e, "test", IF sigint /\ buf[e] = 0 THEN "stop" ELSE "poll")
  /\ UNCHANGED <<main, recv, buf, late, aux>>

EncTest(e) ==
  /\ EncGoto(e, "test", IF sigint THEN "stop" ELSE "poll")
  /\ UNCHANGED <<main, recv, buf, late, aux>>

\* Mutant: a poll that times out ends the thread, as in the audio loop.
EncPollGivesUp(e) ==
  /\ EncGoto(e, "poll", IF buf[e] > 0 THEN "get" ELSE "done")
  /\ UNCHANGED <<main, recv, buf, late, aux>>

\* Mutant: the loop only looks at sigint_received after a frame.
EncPollRetries(e) ==
  /\ EncGoto(e, "poll", IF buf[e] > 0 THEN "get" ELSE "poll")
  /\ UNCHANGED <<main, recv, buf, late, aux>>

\* PollingStream waits up to a second; on a timeout the loop starts over.
EncPoll(e) ==
  /\ EncGoto(e, "poll", IF buf[e] > 0 THEN "get" ELSE "test")
  /\ UNCHANGED <<main, recv, buf, late, aux>>

\* A failed GetStream returns without IMP_Encoder_StopRecvPic.
EncGet(e) ==
  /\ \/ /\ EncGoto(e, "get", "write") /\ buf[e] > 0
        /\ buf' = [buf EXCEPT ![e] = @ - 1]
        /\ late' = [late EXCEPT ![e] = IF sigint /\ @ < 2 THEN @ + 1 ELSE @]
     \/ MayFail("get") /\ EncGoto(e, "get", "done") /\ UNCHANGED <<buf, late>>
  /\ UNCHANGED <<main, recv, aux>>

\* write, whose result is dropped, then ReleaseStream and usleep.
EncWrite(e) ==
  /\ EncGoto(e, "write", "test")
  /\ UNCHANGED <<main, recv, buf, late, aux>>

EncStop(e) ==
  /\ EncGoto(e, "stop", "done")
  /\ \/ recv' = [recv EXCEPT ![e] = FALSE]
     \/ MayFail("stop") /\ UNCHANGED recv
  /\ UNCHANGED <<main, buf, late, aux>>

EncoderStep(e) ==
  \/ EncOpen(e) \/ EncStart(e) \/ EncTest(e) \/ EncPoll(e) \/ EncGet(e)
  \/ EncWrite(e) \/ EncStop(e)

-----------------------------------------------------------------------------
(* Audio, OSD, night vision and real time configuration threads            *)

AuxGoto(t, here, next) ==
  /\ ~Halted
  /\ aux[t] = here
  /\ aux' = [aux EXCEPT ![t] = next]
  /\ UNCHANGED <<main, enc, recv, buf, late>>

\* Unlike an encoder, the audio thread ends at the first poll that times out;
\* polling, getting and releasing the audio frame touch nothing shared.
AudioTest == AuxGoto("audio", "test", IF sigint THEN "done" ELSE "poll")
AudioPoll ==
  \/ audioLevel >= 2 /\ AuxGoto("audio", "poll", "write")
  \/ (MayFail("audioio") \/ audioLevel < 2) /\ AuxGoto("audio", "poll", "done")
\* snd_pcm_writei through a handle that was never opened ends the process.
AudioWrite ==
  \/ audioLevel = 3 /\ AuxGoto("audio", "write", "test")
  \/ /\ audioLevel < 3 /\ ~Halted /\ aux["audio"] = "write"
     /\ mpc' = "crashed"
     /\ UNCHANGED <<idx, sigint, config, threads>>

OsdInit ==
  \/ showTimestamp /\ AuxGoto("osd", "init", "loop")
  \/ (~showTimestamp \/ MayFail("osd")) /\ AuxGoto("osd", "init", "done")

\* The rounds of the three loops below (draw the time, follow the state file,
\* apply the profile) change nothing main or an encoder looks at; what remains
\* is how each loop ends.  The configuration thread does not look at
\* sigint_received: it ends only with a failed query.
OsdExit == sigint /\ AuxGoto("osd", "loop", "done")
NightVisionExit == sigint /\ AuxGoto("nv", "loop", "done")
\* The state file was there for access but fopen returns NULL, since a script has
\* removed it or no descriptor is left: fscanf(NULL) ends the process.
NightVisionCrash ==
  /\ MayFail("nvfile") /\ ~Halted
  /\ aux["nv"] = "loop"
  /\ aux' = [aux EXCEPT !["nv"] = "crashed"] /\ mpc' = "crashed"
  /\ UNCHANGED <<idx, sigint, config, enc, recv, buf, late>>
RtcOpen ==
  \/ AuxGoto("rtc", "open", "loop")
  \/ MayFail("db") /\ AuxGoto("rtc", "open", "done")
RtcExit == MayFail("db") /\ AuxGoto("rtc", "loop", "done")

AudioStep == AudioTest \/ AudioPoll \/ AudioWrite
OsdStep == OsdInit \/ OsdExit
NightVisionStep == NightVisionExit \/ NightVisionCrash
RtcStep == RtcOpen \/ RtcExit

\* The process is gone; nothing of it moves.
Ended == Halted /\ UNCHANGED vars

Next ==
  \/ SigintHandler
  \/ MainStep
  \/ \E e \in Encoders : EncoderStep(e) \/ FrameArrives(e)
  \/ AudioStep \/ OsdStep \/ NightVisionStep \/ RtcStep
  \/ Ended

Spec == Init /\ [][Next]_vars

\* The kernel schedules every runnable thread and the camera keeps producing
\* frames.  Nobody has to send SIGINT.
Fairness ==
  /\ WF_vars(MainStep)
  /\ \A e \in Encoders : WF_vars(EncoderStep(e)) /\ WF_vars(FrameArrives(e))
  /\ WF_vars(AudioStep) /\ WF_vars(OsdStep)

FairSpec == Spec /\ Fairness
-----------------------------------------------------------------------------
(* Properties                                                              *)

FlagsOK ==
  /\ sigint \in BOOLEAN
  /\ enableAudio \in BOOLEAN /\ showTimestamp \in BOOLEAN
  /\ flowing \in BOOLEAN

MainOK ==
  /\ mpc \in MainPC
  /\ idx \in 1..NumEncoders + 1
  /\ imp \subseteq {"isp", "sensor", "enabled", "system", "tuning"}
  /\ audioLevel \in 0..3
  /\ encSetup \in [Encoders -> {"ok", "nochan", "unregistered", "garbage"}]

ThreadsOK ==
  /\ enc \in [Encoders -> EncPC]
  /\ recv \in [Encoders -> BOOLEAN]
  /\ buf \in [Encoders -> 0..BufCap]
  /\ late \in [Encoders -> 0..2]
  /\ aux \in [AuxThreads -> AuxPC]

\* Every variable has its type: in particular the program counters name steps
\* of the code, main's loops stay within the encoders of the settings file
\* and a channel buffer never exceeds its capacity.
TypeOK == FlagsOK /\ MainOK /\ ThreadsOK

Over(state) == state \in {"none", "done"}
Finishing == Teardown \cup {"end", "exited"}
Joining == {"join", "join_audio", "join_osd"}

\* start_frame_producer_threads waits for the encoder, audio and OSD threads:
\* none of them is still running, and calling into the IMP libraries or the
\* OSD region, once sensor_cleanup has begun (main.c:389-398 and 560-565).
JoinedBeforeTeardown ==
  mpc \in Finishing =>
    /\ \A e \in Encoders : Over(enc[e])
    /\ Over(aux["audio"]) /\ Over(aux["osd"])

\* The while (!sigint_received) loop of output_v4l2_frames: whatever the thread
\* is doing when SIGINT arrives, it takes at most one more frame.
PromptStop == \A e \in Encoders : late[e] <= 1

\* A thread that ends leaves its channel stopped.  Only a failing GetStream or
\* StopRecvPic may leave it receiving (capture.c:1075-1079, 1109-1113).
ReceiverStopped ==
  \A e \in Encoders :
    Over(enc[e]) /\ recv[e] => MayFail("get") \/ MayFail("stop")

\* sensor_cleanup undoes all of initialize_sensor, however the threads ended:
\* after a run in which neither fails nothing of the sensor stays up.
CleanTeardown ==
  mpc = "exited" /\ ~MayFail("sensor") /\ ~MayFail("cleanup") => imp = {}

\* fscanf(NULL) in night_vision_entry_start has ended the process.
NightVisionCrashed == aux["nv"] = "crashed"

\* A process that gets SIGINT while its threads run ends through sensor_cleanup
\* and a return from main, never hanging in a join, where the settings enable
\* audio and every thread could be created (main.c:389-398, 564-575): main joins
\* the audio thread whether there is one or not.  The one way to end without the
\* cleanup is the state file's: the night vision thread, which nobody joins, can
\* crash the process up to its last step (capture.c:868-869).
CleanShutdown ==
  (sigint /\ mpc \in {"spawn"} \cup Joining) ~> (mpc = "exited" \/ NightVisionCrashed)

\* An encoder that reached its loop with a registered channel goes on writing
\* frames until SIGINT, no matter which other threads fail to start, return or
\* wait for frames that never come (capture.c:1036-1106), unless the state file
\* ends the process (868-869).
StreamKeepsFlowing ==
  \A e \in Encoders :
    enc[e] = "poll" /\ encSetup[e] = "ok" ~>
      (enc[e] = "write" \/ sigint \/ NightVisionCrashed)

\* "All threads completed. Cleaning up." (main.c:564): when main says so, none
\* of the threads it created is running any more.
AllThreadsCompleted ==
  mpc \in Teardown =>
    /\ \A e \in Encoders : Over(enc[e])
    /\ \A t \in AuxThreads : Over(aux[t])

\* "1 enable audio" (README.md, enable_audio): the audio thread finds the device
\* that initialize_audio set up, unless setting it up failed.
AudioReadyWhenEnabled ==
  aux["audio"] = "poll" /\ ~MayFail("audio") => audioLevel = 3
=============================================================================
