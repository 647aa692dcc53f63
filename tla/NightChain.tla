------------------------------ MODULE NightChain ------------------------------
(***************************************************************************)
(* From the light to the picture: autonight decides (SoftwareNight), the      *)
(* script that updateNightMode runs writes the state file, and videocapture's *)
(* night vision thread follows the file.  The thread that applies the profile *)
(* does not touch the running mode (RunningAsRead in IspTuning) and rests.    *)
(***************************************************************************)
EXTENDS SoftwareNight

VARIABLES
  script,     \* "idle", where the script is while system waits for it, or "failed"
  file, enabled, previous, nv, running, scene, color,   \* see IspTuning
  profile, row, setting, rtc   \* of the thread that applies the profile: at rest

N == INSTANCE IspTuning WITH
  Profiles <- {[color |-> "null", scene |-> "null"]},
  Faults <- {}, Removable <- FALSE, PreviousClobbered <- FALSE

camera == <<enabled, previous, nv, running, scene, color, profile, row, setting,
            rtc>>
chainVars == <<vars, script, file, camera>>

\* updateNightMode runs the script for day mode before the first reading.
ChainInit == Init /\ N!Init /\ script = "start"

ChainLight == LightChanges /\ UNCHANGED <<script, file, camera>>

\* Mutant: a switch back to day mode does not run the script.
UpdateNightModeOnlyOn == script' = IF night' /\ ~night THEN "start" ELSE script

\* Every switch runs a script, and nothing else does.
UpdateNightMode == script' = IF night' # night THEN "start" ELSE script

\* A reading, once system has returned.
ChainSample ==
  /\ script \in {"idle", "failed"}
  /\ Sample
  /\ UpdateNightMode
  /\ UNCHANGED <<file, camera>>

ScriptGoes(here, there) ==
  /\ script = here /\ script' = there
  /\ UNCHANGED <<vars, camera>>

ScriptTruncates == ScriptGoes("start", "write") /\ file' = "empty"
ScriptWrites == ScriptGoes("write", "idle") /\ file' = IF night THEN "1" ELSE "0"
\* system returns something else than 0: updateNightMode warns and goes on.
ScriptFails ==
  \E here \in {"start", "write"} : ScriptGoes(here, "failed") /\ UNCHANGED file

Script == ScriptTruncates \/ ScriptWrites \/ ScriptFails

NightVision == N!NightVision /\ UNCHANGED <<vars, script>>

ChainNext == ChainLight \/ ChainSample \/ Script \/ NightVision

ChainSpec ==
  /\ ChainInit /\ [][ChainNext]_chainVars
  /\ WF_chainVars(ChainSample) /\ WF_chainVars(Script) /\ WF_chainVars(NightVision)
-----------------------------------------------------------------------------
\* Unless its last script failed, autonight takes a reading only when the state
\* file says what it decided, although the file passes through being empty
\* (autonight.c:97): no switch overtakes the one before.
FileAsDecided == script = "idle" => file = IF night THEN "1" ELSE "0"

\* From the decision to the picture: whenever the night vision thread is through
\* with what the script has left in the file, the ISP runs in the mode autonight
\* decided on (autonight.c:97, capture.c:872-896).
PictureAsDecided ==
  script = "idle" /\ nv = "test" /\ enabled = (file = "1") =>
    running = IF night THEN "night" ELSE "day"

\* The picture follows the light: in light that is steadily dark the ISP ends up
\* and stays in night mode, in light that is steadily bright in day mode, however
\* reading the state file is interleaved with writing it.  The script is run once
\* per switch (autonight.c:86-101): if the last one failed nothing repeats it.
PictureFollowsLight ==
  \A r \in Readings :
    /\ Dark(r) => (<>[](light = r /\ script # "failed") => <>[](running = "night"))
    /\ Bright(r) => (<>[](light = r /\ script # "failed") => <>[](running = "day"))
===============================================================================
