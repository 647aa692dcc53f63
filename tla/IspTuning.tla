------------------------------ MODULE IspTuning ------------------------------
(***************************************************************************)
(* Two threads of videocapture tune the ISP side by side, without a lock     *)
(* (src/src/capture.c): night_vision_entry_start follows a state file, and   *)
(* real_time_configuration_start applies the camera profile of the database  *)
(* every five seconds.  Both set the scene and the colour mode, only the     *)
(* first sets the running mode.  Scripts write the file and the web          *)
(* application the profile, at any time.  How the loops end at SIGINT is the *)
(* business of Videocapture.                                                 *)
(***************************************************************************)
EXTENDS Integers

CONSTANTS
  Profiles,           \* rows of openmiko_cameraprofile: [color, scene]
  Faults,             \* the calls that may fail: "isp", "db"
  Removable,          \* the state file may be removed again
  PreviousClobbered   \* the build lays NIGHT_VISION_PREVIOUS_STATE out behind
                      \* NIGHT_VISION_ENABLED, a bool that "%d" scans an int into

\* A mode id in the profile names a mode, is NULL, or names no row.
Scenes == {"auto", "night", "sport"}
Colors == {"auto", "bw", "vivid"}
ASSUME ProfilesAssumption ==
  /\ Profiles # {}
  /\ Profiles \subseteq [color : Colors \cup {"null", "dangling"},
                         scene : Scenes \cup {"null", "dangling"}]
ASSUME SwitchesAssumption ==
  Removable \in BOOLEAN /\ PreviousClobbered \in BOOLEAN

VARIABLES
  file,       \* the state file: what fscanf would find in it
  enabled,    \* NIGHT_VISION_ENABLED
  previous,   \* NIGHT_VISION_PREVIOUS_STATE
  nv,         \* where the night vision thread is; "crashed": fscanf(NULL)
  profile,    \* the row in the database
  row,        \* the row the callback is working on
  setting,    \* enum_value as the last query for a mode has left it
  rtc,        \* where the configuration thread is
  running, scene, color   \* the modes of the ISP

world == <<file, profile>>
nightVision == <<nv, enabled, previous>>
configuration == <<rtc, row, setting>>
isp == <<running, scene, color>>
vars == <<world, nightVision, configuration, isp>>

MayFail(call) == call \in Faults

RunningMode(on) == IF on THEN "night" ELSE "day"
SceneMode(on) == IF on THEN "night" ELSE "auto"
ColorMode(on) == IF on THEN "bw" ELSE "auto"

Init ==
  /\ file \in {"absent", "0", "1"}
  /\ enabled = FALSE /\ previous = FALSE /\ nv = "test"
  /\ profile \in Profiles
  /\ row = profile /\ setting = "none" /\ rtc = "open"
  /\ running = "day" /\ scene = "auto" /\ color = "auto"

-----------------------------------------------------------------------------
(* Scripts and the web application                                          *)

\* "echo 1 > file" truncates the file before it writes to it.
FileTruncated ==
  /\ file' = "empty"
  /\ UNCHANGED <<profile, nightVision, configuration, isp>>

FileWritten ==
  /\ file = "empty"
  /\ file' \in {"0", "1"}
  /\ UNCHANGED <<profile, nightVision, configuration, isp>>

FileRemoved ==
  /\ Removable
  /\ file' = "absent"
  /\ UNCHANGED <<profile, nightVision, configuration, isp>>

ProfileSaved ==
  /\ profile' \in Profiles
  /\ UNCHANGED <<file, nightVision, configuration, isp>>

-----------------------------------------------------------------------------
(* night_vision_entry_start                                                 *)

NvTest ==
  /\ nv = "test"
  /\ previous' = enabled
  /\ nv' = IF file = "absent" THEN "test" ELSE "open"
  /\ UNCHANGED <<world, enabled, configuration, isp>>

\* Mutant: the previous state is saved once the file has been read.
NvReadSavesLate ==
  /\ nv = "open" /\ file # "absent"
  /\ enabled' = IF file = "empty" THEN enabled ELSE file = "1"
  /\ previous' = enabled'
  /\ nv' = IF previous' = enabled' THEN "test" ELSE "running"
  /\ UNCHANGED <<world, configuration, isp>>

\* An empty file leaves the value alone; scanning an int into the bool also
\* writes the three bytes behind it.
NvRead ==
  /\ nv = "open" /\ file # "absent"
  /\ enabled' = IF file = "empty" THEN enabled ELSE file = "1"
  /\ previous' = IF PreviousClobbered /\ file # "empty" THEN FALSE ELSE previous
  /\ nv' = IF previous' = enabled' THEN "test" ELSE "running"
  /\ UNCHANGED <<world, configuration, isp>>

\* The file has gone since access: fopen returns NULL and fscanf takes it.
NvReadRemoved ==
  /\ nv = "open" /\ file = "absent"
  /\ nv' = "crashed"
  /\ UNCHANGED <<world, enabled, previous, configuration, isp>>

\* One call after the other; a call that fails is logged and not repeated.
NvCall(here, next) ==
  /\ nv = here /\ nv' = next
  /\ UNCHANGED <<world, enabled, previous, configuration>>

NvRunning ==
  /\ NvCall("running", "scene")
  /\ running' \in {RunningMode(enabled)} \cup (IF MayFail("isp") THEN {running} ELSE {})
  /\ UNCHANGED <<scene, color>>

NvScene ==
  /\ NvCall("scene", "color")
  /\ scene' \in {SceneMode(enabled)} \cup (IF MayFail("isp") THEN {scene} ELSE {})
  /\ UNCHANGED <<running, color>>

NvColor ==
  /\ NvCall("color", "test")
  /\ color' \in {ColorMode(enabled)} \cup (IF MayFail("isp") THEN {color} ELSE {})
  /\ UNCHANGED <<running, scene>>

NightVision ==
  NvTest \/ NvRead \/ NvReadRemoved \/ NvRunning \/ NvScene \/ NvColor

-----------------------------------------------------------------------------
(* real_time_configuration_start and sql_camera_profile_callback            *)

\* fscanf(NULL) ends the process, this thread with it.
Alive == nv # "crashed"

RtcOpen ==
  /\ Alive /\ rtc = "open"
  /\ rtc' \in {"query"} \cup (IF MayFail("db") THEN {"done"} ELSE {})
  /\ UNCHANGED <<world, nightVision, row, setting, isp>>

\* Mutant: the profile is read once, before the loop.
RtcQueryOnce ==
  /\ Alive /\ rtc = "query"
  /\ rtc' = "color"
  /\ UNCHANGED <<world, nightVision, row, setting, isp>>

\* The row is read under the lock of the statement; AE is not shared.
RtcQuery ==
  /\ Alive /\ rtc = "query"
  /\ \/ rtc' = "color" /\ row' = profile
     \/ MayFail("db") /\ rtc' = "done" /\ UNCHANGED row
  /\ UNCHANGED <<world, nightVision, setting, isp>>

\* What get_setting's query leaves in the caller's enum_value: without a row its
\* callback is not called, and neither is it if the query fails, whose result is
\* dropped.  The value is then that of an uninitialised local.
GetSetting(id) ==
  {value \in {id, "garbage"} :
     IF value = id THEN id # "dangling" ELSE id = "dangling" \/ MayFail("db")}

\* The ISP takes the value or refuses it and keeps its mode.
Applied(value, mode) ==
  {value} \cup (IF value = "garbage" \/ MayFail("isp") THEN {mode} ELSE {})

\* One column of the profile; NULL is skipped.
ApplyColumn(id, mode) ==
  \/ id = "null" /\ UNCHANGED <<setting, mode>>
  \/ id # "null" /\ setting' \in GetSetting(id) /\ mode' \in Applied(setting', mode)

\* Mutant: a NULL column is converted like an id, to 0, which names no row.
RtcColorNoNullCheck ==
  /\ Alive /\ rtc = "color" /\ rtc' = "scene"
  /\ ApplyColumn(IF row.color = "null" THEN "dangling" ELSE row.color, color)
  /\ UNCHANGED <<world, nightVision, row, running, scene>>

RtcColor ==
  /\ Alive /\ rtc = "color" /\ rtc' = "scene"
  /\ ApplyColumn(row.color, color)
  /\ UNCHANGED <<world, nightVision, row, running, scene>>

\* Mutant: the value that goes to the colour mode comes from the scene again.
RtcSceneFromColor ==
  /\ Alive /\ rtc = "scene" /\ rtc' = "query"
  /\ scene' = scene
  /\ ApplyColumn(row.scene, color)
  /\ UNCHANGED <<world, nightVision, row, running>>

\* Mutant: the callback also sets the running mode, which follows the scene.
RtcSceneRunning ==
  /\ Alive /\ rtc = "scene" /\ rtc' = "query"
  /\ ApplyColumn(row.scene, scene)
  /\ running' = RunningMode(scene' = "night")
  /\ UNCHANGED <<world, nightVision, row, color>>

RtcScene ==
  /\ Alive /\ rtc = "scene" /\ rtc' = "query"
  /\ ApplyColumn(row.scene, scene)
  /\ UNCHANGED <<world, nightVision, row, running, color>>

RealTimeConfiguration == RtcOpen \/ RtcQuery \/ RtcColor \/ RtcScene

Next ==
  \/ FileTruncated \/ FileWritten \/ FileRemoved \/ ProfileSaved
  \/ NightVision \/ RealTimeConfiguration

Spec == Init /\ [][Next]_vars

\* Both threads sleep and wake up again; nobody has to write the file.
FairSpec == Spec /\ WF_vars(NightVision) /\ WF_vars(RealTimeConfiguration)
-----------------------------------------------------------------------------
Modes(set) == set \cup {"garbage"}

\* Types; in particular a mode of the ISP is one that some row or thread named, or
\* what a query without an answer left.
TypeOK ==
  /\ file \in {"absent", "empty", "0", "1"}
  /\ enabled \in BOOLEAN /\ previous \in BOOLEAN
  /\ nv \in {"test", "open", "running", "scene", "color", "crashed"}
  /\ profile \in Profiles /\ row \in Profiles
  /\ rtc \in {"open", "query", "color", "scene", "done"}
  /\ running \in {"day", "night"}
  /\ setting \in Modes(Scenes \cup Colors \cup {"none"})
  /\ scene \in Modes(Scenes) /\ color \in Modes(Colors)

\* The night vision thread sets the running mode on a change only, so nothing
\* repairs it later: unless it is about to set it, it is the one it last read.
RunningAsRead ==
  nv # "running" /\ ~MayFail("isp") /\ ~PreviousClobbered =>
    running = RunningMode(enabled)

\* A state file that is left alone ends up, and stays, in force, whatever was in
\* it before and however its writing was interleaved with reading it: "Check if
\* state has changed" (capture.c:872) misses no change.  The process must not
\* have ended at a file that was removed between access and fopen.
FollowsFile ==
  [](nv # "crashed") =>
    /\ <>[](file = "1") => <>[](running = "night")
    /\ <>[](file = "0") => <>[](running = "day")

NullProfile == profile.color = "null" /\ profile.scene = "null"

\* As long as the profile names neither a scene nor a colour, both follow the
\* state file as the running mode does (capture.c:788, 797: NULL is skipped).
LookFollowsFile ==
  [](NullProfile /\ row = profile /\ nv # "crashed") =>
    /\ <>[](file = "1") => <>[](scene = "night" /\ color = "bw")
    /\ <>[](file = "0") => <>[](scene = "auto" /\ color = "auto")

\* A profile that is left alone is applied, again and again, until the query for
\* it fails: the five-second loop takes back the colour and the scene that night
\* vision has set (capture.c:827-844), and also the arbitrary mode that a failed
\* query for a mode has set, as soon as those queries are answered again
\* (sqlqueries.c:42).
ProfileApplied ==
  [](rtc # "done" /\ nv # "crashed") =>
    \A p \in Profiles :
      <>[](profile = p /\ setting # "garbage") =>
        /\ p.color \in Colors => []<>(color = p.color)
        /\ p.scene \in Scenes => []<>(scene = p.scene)
=============================================================================
