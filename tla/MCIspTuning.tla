----------------------------- MODULE MCIspTuning -----------------------------
(* Camera profiles, and which calls may fail, for the runs of IspTuning.    *)
EXTENDS IspTuning

Profile(c, s) == [color |-> c, scene |-> s]

\* initial.sql ships colour "vivid" and scene "auto"; an id without a row is what
\* a profile keeps when its mode is deleted behind Django's back.
SomeProfiles == {Profile("vivid", "auto"), Profile("null", "null"),
                 Profile("auto", "sport"), Profile("dangling", "null"),
                 Profile("null", "dangling")}

\* A query may fail; the calls into the ISP take effect.
DatabaseFault == {"db"}
=============================================================================
