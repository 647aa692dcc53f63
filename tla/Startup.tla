------------------------------- MODULE Startup --------------------------------
(***************************************************************************)
(* Configuration composed with OsdTimestamp: the OSD thread, which main      *)
(* starts after the settings were read, draws the timestamp as               *)
(* load_general_settings left it in camera_config.                           *)
(***************************************************************************)
EXTENDS Configuration

CONSTANTS OsdFaults, MaxRounds   \* see OsdTimestamp

VARIABLES
  sigint,   \* sigint_received
  osd, round, length, row

T == INSTANCE OsdTimestamp

osdVars == <<osd, round, length, row>>
startupVars == <<vars, sigint, osdVars>>

StartupInit == Init /\ T!OsdInit /\ sigint = FALSE

SigintHandler ==
  /\ over = "running" /\ ~sigint /\ sigint' = TRUE
  /\ UNCHANGED <<vars, osdVars>>

ConfigurationStep == Next /\ UNCHANGED <<sigint, osdVars>>

SpawnOsd ==
  /\ At("spawn_audio") /\ T!Goto("none", "init")
  /\ UNCHANGED <<vars, sigint, round, length, row>>

OsdStep ==
  /\ T!OsdStart(general.show, general.h24) \/ T!OsdTest(sigint) \/ T!OsdDraw
  /\ UNCHANGED <<vars, sigint>>

StartupNext == SigintHandler \/ ConfigurationStep \/ SpawnOsd \/ OsdStep

StartupSpec == StartupInit /\ [][StartupNext]_startupVars
-----------------------------------------------------------------------------
\* Whatever load_general_settings left, the image that is never cleared shows date
\* and time of its last round up to the second, although the pen moves on before a
\* glyph is copied and the loop runs past the end of the 24 hour text
\* (capture.c:656-701).  Its cells are enough for that text only: with the 12 hour
\* text (644) the twentieth character, a space, is copied behind the row and the
\* allocation (653, 692), and AM or PM is never drawn.
TimestampDrawn ==
  osd = "loop" /\ round > 0 =>
    /\ T!SecondShown
    /\ T!RowExceeded <=> length = 22
===============================================================================
