---------------------------- MODULE Configuration ----------------------------
(***************************************************************************)
(* load_configuration and enable_framesources (src/src/main.c) with the      *)
(* populate functions of src/src/configparser.c: main works through the      *)
(* lists of the settings file entry by entry and sets up the hardware as it  *)
(* goes.  Videocapture takes each list in one step; the mapping at the end   *)
(* shows that this loses nothing.                                            *)
(*                                                                           *)
(* A list stops at its first entry that cannot be parsed.  A section that is *)
(* absent from the file is one that stops at once, and its Num... is what    *)
(* camera_config, an uninitialised local of main, held.                      *)
(***************************************************************************)
EXTENDS Integers, Sequences

CONSTANTS
  MAX_FRAMESOURCES, MAX_ENCODERS, MAX_BINDINGS,   \* sizes of the arrays
  NumSources, NumEncoders, NumBindings,   \* num_framesources and so on
  Ids,                \* frame source channels
  Garbage,            \* the id of an entry nobody has written
  SourceLists,        \* the lists "frame_sources" may hold
  BindingLists,       \* the lists "bindings" may hold
  Faults,             \* as in Videocapture
  AudioSettings, TimestampSettings

ASSUME CountsAssumption ==
  NumSources \in Nat /\ NumEncoders \in Nat /\ NumBindings \in Nat
\* Nothing in the code compares the lists with the arrays they are copied to.
ASSUME SizesAssumption ==
  NumSources <= MAX_FRAMESOURCES /\ NumEncoders <= MAX_ENCODERS /\ NumBindings <= MAX_BINDINGS
ASSUME GarbageAssumption == Garbage \notin Ids
ASSUME ListsAssumption ==
  /\ SourceLists \subseteq [1..NumSources -> Ids]
  /\ BindingLists \subseteq [1..NumBindings -> [source : Ids, output : {0, 1}]]
ASSUME SettingsAssumption ==
  /\ AudioSettings \subseteq BOOLEAN /\ AudioSettings # {}
  /\ TimestampSettings \subseteq BOOLEAN /\ TimestampSettings # {}

VARIABLES
  file,       \* the lists in the settings file
  stop,       \* list -> its first entry that cannot be parsed, behind its end if none
  pc,         \* where load_configuration or main is
  i,          \* its loop variable
  over,       \* how the process ended, if it did
  general,    \* camera_config: enable_audio, show_timestamp, timestamp_24h
  sources,    \* camera_config.frame_sources, by id
  created,    \* frame source channels that were created
  encoders,   \* what load_encoders left for each encoder
  bound,      \* sources bound with IMP_System_Bind, in order
  enabled     \* frame source channels that were enabled

settings == <<file, stop>>
hardware == <<created, bound, enabled>>
vars == <<settings, pc, i, over, general, sources, encoders, hardware>>

MayFail(call) == call \in Faults
Sources == 1..NumSources
Encoders == 1..NumEncoders
Num == [framesources |-> NumSources, encoders |-> NumEncoders, bindings |-> NumBindings]
Stopped(list) == stop[list] <= Num[list]

Init ==
  /\ file \in [sources : SourceLists, bindings : BindingLists]
  /\ stop \in [framesources : 1..NumSources + 1, encoders : 1..NumEncoders + 1,
               bindings : 1..NumBindings + 1]
  /\ \A list \in DOMAIN Num : Stopped(list) => MayFail("populate")
  /\ pc = "general" /\ i = 1 /\ over = "running"
  /\ general \in [audio : BOOLEAN, show : BOOLEAN, h24 : BOOLEAN]
  /\ sources = [s \in Sources |-> Garbage]
  /\ encoders = [e \in Encoders |-> "garbage"]
  /\ created = {} /\ bound = <<>> /\ enabled = {}

-----------------------------------------------------------------------------
At(place) == over = "running" /\ pc = place

\* exit or return from main: where it happened stays known.
Fail == over' = "failed" /\ UNCHANGED <<pc, i>>

\* Mutant: the loop variable is not reset.
EnterKeepsIndex(place) == pc' = place /\ UNCHANGED <<i, over>>

Enter(place) == pc' = place /\ i' = 1 /\ UNCHANGED over
NextEntry == i' = i + 1 /\ UNCHANGED <<pc, over>>

\* Without the section its fields keep what the memory held; timestamp_24h and
\* enable_audio have a default, while the others are read through NULL if the
\* section lacks them.
LoadGeneralSettings ==
  /\ At("general")
  /\ \/ /\ Enter("framesources")
        /\ general' \in [audio : AudioSettings, show : TimestampSettings, h24 : BOOLEAN]
     \/ MayFail("general") /\ Enter("framesources") /\ UNCHANGED general
     \/ MayFail("general") /\ over' = "crashed" /\ UNCHANGED <<pc, i, general>>
  /\ UNCHANGED <<settings, sources, encoders, hardware>>

\* A list ends behind its last entry or at the first one that cannot be parsed;
\* main goes on, unless an attribute of the wrong type was read through NULL.
ListEnds(list, next) ==
  /\ At(list) /\ i = stop[list]
  /\ \/ Enter(next)
     \/ Stopped(list) /\ over' = "crashed" /\ UNCHANGED <<pc, i>>
  /\ UNCHANGED <<settings, general, sources, hardware>>

\* populate_framesource, then setup_framesource: IMP_FrameSource_CreateChn and
\* IMP_FrameSource_SetChnAttr, either of which ends the process if it fails.
LoadFramesource ==
  /\ At("framesources") /\ i < stop["framesources"]
  /\ sources' = [sources EXCEPT ![i] = file.sources[i]]
  /\ \/ NextEntry /\ created' = created \cup {sources'[i]}
     \/ /\ MayFail("framesource") /\ Fail
        /\ created' \in {created, created \cup {sources'[i]}}
  /\ UNCHANGED <<settings, general, encoders, bound, enabled>>

\* setup_encoder creates a channel and registers it with its group; its result
\* is dropped.
SetupEncoder ==
  {"ok"} \cup (IF MayFail("setup") THEN {"nochan"} ELSE {})
         \cup (IF MayFail("register") THEN {"unregistered"} ELSE {})

\* Mutant: an encoder that cannot be set up ends the process.
LoadEncoderFatal ==
  /\ At("encoders") /\ i < stop["encoders"]
  /\ \E result \in SetupEncoder :
       /\ encoders' = [encoders EXCEPT ![i] = result]
       /\ IF result = "ok" THEN NextEntry ELSE Fail
  /\ UNCHANGED <<settings, general, sources, hardware>>

LoadEncoder ==
  /\ At("encoders") /\ i < stop["encoders"]
  /\ \E result \in SetupEncoder : encoders' = [encoders EXCEPT ![i] = result]
  /\ NextEntry
  /\ UNCHANGED <<settings, general, sources, hardware>>

\* Mutant: an entry that cannot be parsed is skipped.
LoadBindingSkips ==
  /\ At("bindings") /\ i <= NumBindings
  /\ \/ /\ NextEntry
        /\ bound' = IF i = stop["bindings"] THEN bound ELSE Append(bound, file.bindings[i])
     \/ MayFail("bind") /\ Fail /\ UNCHANGED bound
  /\ UNCHANGED <<settings, general, sources, encoders, created, enabled>>

\* populate_binding, then setup_binding, which ends the process if it fails.
LoadBinding ==
  /\ At("bindings") /\ i < stop["bindings"]
  /\ \/ NextEntry /\ bound' = Append(bound, file.bindings[i])
     \/ MayFail("bind") /\ Fail /\ UNCHANGED bound
  /\ UNCHANGED <<settings, general, sources, encoders, created, enabled>>

\* Mutant: a channel that cannot be enabled is logged and left out.
EnableFramesourceGoesOn ==
  /\ At("enable") /\ i <= NumSources
  /\ NextEntry
  /\ \/ \E id \in created : sources[i] \in {id, Garbage} /\ enabled' = enabled \cup {id}
     \/ MayFail("enable") /\ UNCHANGED enabled
  /\ UNCHANGED <<settings, general, sources, encoders, created, bound>>

\* IMP_FrameSource_EnableChn takes a channel that was created; the id of an
\* entry that was never written may happen to be one.
EnableFramesource ==
  /\ At("enable") /\ i <= NumSources
  /\ \/ /\ NextEntry
        /\ \E id \in created :
             /\ sources[i] \in {id, Garbage}
             /\ enabled' = enabled \cup {id}
     \/ /\ MayFail("enable") \/ sources[i] = Garbage
        /\ Fail
        /\ UNCHANGED enabled
  /\ UNCHANGED <<settings, general, sources, encoders, created, bound>>

\* A mutex that cannot be initialised right after it ends main, too.
FramesourcesEnabled ==
  /\ At("enable") /\ i > NumSources
  /\ Enter("spawn_audio") \/ (MayFail("enable") /\ Fail)
  /\ UNCHANGED <<settings, general, sources, encoders, hardware>>

FramesourcesEnd == ListEnds("framesources", "encoders") /\ UNCHANGED encoders
BindingsEnd == ListEnds("bindings", "enable") /\ UNCHANGED encoders

\* populate_encoder looks for missing attributes before it writes any, but for an
\* unknown payload type or mode only after it has written the path and both.  With
\* an unknown mode that leaves an entry whose thread can open its device and finds
\* no channel; with an unknown payload type, one that is no better than unwritten.
EncodersEnd ==
  /\ ListEnds("encoders", "bindings")
  /\ \/ UNCHANGED encoders
     \/ /\ Stopped("encoders") /\ over' = "running"
        /\ encoders' = [encoders EXCEPT ![i] = "nochan"]

Next ==
  \/ LoadGeneralSettings
  \/ LoadFramesource \/ FramesourcesEnd
  \/ LoadEncoder \/ EncodersEnd
  \/ LoadBinding \/ BindingsEnd
  \/ EnableFramesource \/ FramesourcesEnabled

Spec == Init /\ [][Next]_vars
-----------------------------------------------------------------------------
Places == {"general", "framesources", "encoders", "bindings", "enable", "spawn_audio"}

\* Types; in particular no loop leaves its list.
TypeOK ==
  /\ file \in [sources : SourceLists, bindings : BindingLists]
  /\ stop \in [framesources : 1..NumSources + 1, encoders : 1..NumEncoders + 1,
               bindings : 1..NumBindings + 1]
  /\ pc \in Places /\ over \in {"running", "failed", "crashed"}
  /\ i \in Nat \ {0}
  /\ pc \in DOMAIN Num => i <= stop[pc]
  /\ pc = "enable" => i <= NumSources + 1
  /\ general \in [audio : BOOLEAN, show : BOOLEAN, h24 : BOOLEAN]
  /\ sources \in [Sources -> Ids \cup {Garbage}]
  /\ encoders \in [Encoders -> {"ok", "nochan", "unregistered", "garbage"}]
  /\ created \subseteq Ids /\ enabled \subseteq Ids
  /\ bound \in Seq([source : Ids, output : {0, 1}])

\* Output 1 of a frame source comes after its output 0.
InOrder(bindings, n) ==
  \A j \in 1..n : bindings[j].output = 1 =>
    \E k \in 1..j - 1 : bindings[k] = [source |-> bindings[j].source, output |-> 0]

\* "You can't bind output ID 1 without first binding output ID 0" (main.c:196):
\* nothing checks it, but a settings file that keeps the order has it kept,
\* also when an entry in the middle cannot be parsed.
BoundInOrder == InOrder(file.bindings, NumBindings) => InOrder(bound, Len(bound))

\* When the threads start, the frame sources that deliver frames are those that
\* were created, however much of the settings file could be parsed
\* (main.c:402-417): the process does not go on with some of them missing.
EnabledAsCreated == over = "running" /\ pc = "spawn_audio" => enabled = created

-----------------------------------------------------------------------------
(* The mapping to Videocapture.                                            *)

Flowing ==
  /\ pc \in {"encoders", "bindings", "enable", "spawn_audio"} => ~Stopped("framesources")
  /\ pc \in {"enable", "spawn_audio"} => ~Stopped("bindings")
EncSetup ==
  IF pc \in {"general", "framesources", "encoders"} THEN [e \in Encoders |-> "garbage"]
                                                   ELSE encoders

V == INSTANCE Videocapture WITH
  BufCap <- 1, mpc <- IF over = "running" THEN pc ELSE over, idx <- 1, sigint <- FALSE,
  imp <- {"isp", "sensor", "enabled", "system", "tuning"}, audioLevel <- 0,
  enableAudio <- general.audio, showTimestamp <- general.show,
  flowing <- Flowing, encSetup <- EncSetup,
  enc <- [e \in Encoders |-> "none"], recv <- [e \in Encoders |-> FALSE],
  buf <- [e \in Encoders |-> 0], late <- [e \in Encoders |-> 0],
  aux <- [t \in {"audio", "osd", "nv", "rtc"} |-> "none"]

\* Entry by entry the lists leave what Videocapture says of each as a whole: which
\* encoders are garbage and whether frames can flow (main.c:118-262, 402-417).
LoadsAsVideocapture == [][V!Next]_<<pc, over, general, Flowing, EncSetup>>
===============================================================================
