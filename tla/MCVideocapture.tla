--------------------------- MODULE MCVideocapture ---------------------------
(* Instances of Videocapture for TLC: which calls may fail in each run.     *)
EXTENDS Videocapture

NoFaults == {}

\* Everything the code checks may fail.
AllFaults == {"sensor", "audio", "parse", "groups", "general", "populate",
              "framesource", "bind", "setup", "register", "enable", "create", "open",
              "start", "get", "stop", "audioio", "osd", "db", "cleanup",
              "nvfile"}

\* A neighbour may end before its loop, never see a frame or end the process.
NeighbourFaults == {"register", "osd", "nvfile"}

On == {TRUE}
=============================================================================
