---------------------------- MODULE EncoderChannel ----------------------------
(***************************************************************************)
(* The data path of one encoder thread, output_v4l2_frames in                *)
(* src/src/capture.c, once its V4L2 device is open: the hardware encodes     *)
(* frames into the slots of the channel's stream buffer, the thread polls,   *)
(* gets the oldest frame, writes it to the device and releases the slot.     *)
(* Videocapture has the threads' lives and counts frames; here they have     *)
(* contents, and slots are reused.                                           *)
(***************************************************************************)
EXTENDS Integers, Sequences

CONSTANTS
  MaxFrames,      \* bound: frames the camera produces
  Slots,          \* payload type -> slots of the stream buffer
  Packs(_, _),    \* packs that make up a frame of a payload type
  Faults          \* the calls that may fail: "start", "get", "write", "short" (a
                  \* write that takes less than it is asked to), "stop"

Payloads == {"PT_H264", "PT_JPEG"}

ASSUME MaxFramesAssumption == MaxFrames \in Nat
ASSUME SlotsAssumption == Slots \in [Payloads -> Nat \ {0}]
ASSUME PacksAssumption ==
  \A p \in Payloads, f \in 1..MaxFrames : Packs(p, f) \in Nat \ {0}

VARIABLES
  payload,    \* payload_type of the encoder
  sigint,     \* sigint_received
  next,       \* the number of the camera's next frame
  slot,       \* the frame in each slot of the stream buffer
  ready,      \* slots that hold a frame not yet released, oldest first
  recv,       \* the channel is between StartRecvPic and StopRecvPic
  pc,         \* where the thread is
  stream,     \* what GetStream returned: where the frame is, and its packCount
  late,       \* history: frames the thread took after SIGINT, counted to 2
  device      \* what write left on the V4L2 device, call by call: a frame, its first
              \* packs, and whether write took less than it was asked to

channel == <<next, slot, ready>>
taken == <<stream, late>>
vars == <<payload, sigint, channel, recv, pc, taken, device>>

MayFail(call) == call \in Faults
SlotIds == 1..Slots[payload]
Unreleased == {ready[i] : i \in 1..Len(ready)}

Init ==
  /\ payload \in Payloads
  /\ sigint = FALSE
  /\ next = 1
  /\ slot = [s \in SlotIds |-> 0]
  /\ ready = <<>>
  /\ recv = FALSE
  /\ pc = "start"
  /\ stream = [at |-> 1, packCount |-> 0]
  /\ late = 0
  /\ device = <<>>

SigintHandler ==
  /\ ~sigint
  /\ sigint' = TRUE
  /\ UNCHANGED <<payload, channel, recv, pc, taken, device>>

\* imp_encoder.h:510-513: a frame for which there is no free slot is dropped; a
\* slot is free again once it has been released.
Encode ==
  /\ recv /\ next <= MaxFrames
  /\ next' = next + 1
  /\ \/ /\ Len(ready) < Slots[payload]
        /\ \E s \in SlotIds \ Unreleased :
             /\ slot' = [slot EXCEPT ![s] = next]
             /\ ready' = Append(ready, s)
     \/ Len(ready) = Slots[payload] /\ UNCHANGED <<slot, ready>>
  /\ UNCHANGED <<payload, sigint, recv, pc, taken, device>>

-----------------------------------------------------------------------------
Goto(here, there) == pc = here /\ pc' = there

EncStart ==
  /\ \/ Goto("start", "test") /\ recv' = TRUE
     \/ MayFail("start") /\ Goto("start", "done") /\ UNCHANGED recv
  /\ UNCHANGED <<payload, sigint, channel, taken, device>>

\* Mutant: the loop goes on as long as frames are buffered.
EncTestDrains ==
  /\ Goto("test", IF sigint /\ ready = <<>> THEN "stop" ELSE "poll")
  /\ UNCHANGED <<payload, sigint, channel, recv, taken, device>>

EncTest ==
  /\ Goto("test", IF sigint THEN "stop" ELSE "poll")
  /\ UNCHANGED <<payload, sigint, channel, recv, taken, device>>

\* Mutant: a frame that is there is written without fetching it first.
EncPollSkipsGet ==
  /\ Goto("poll", IF ready # <<>> THEN "write" ELSE "test")
  /\ UNCHANGED <<payload, sigint, channel, recv, taken, device>>

EncPoll ==
  /\ Goto("poll", IF ready # <<>> THEN "get" ELSE "test")
  /\ UNCHANGED <<payload, sigint, channel, recv, taken, device>>

CountLate == late' = IF sigint /\ late < 2 THEN late + 1 ELSE late

\* Mutant: the newest frame is taken.
EncGetNewest ==
  /\ \/ /\ ready # <<>>
        /\ Goto("get", "write")
        /\ LET s == ready[Len(ready)] IN
             stream' = [at |-> s, packCount |-> Packs(payload, slot[s])]
        /\ CountLate
     \/ MayFail("get") /\ Goto("get", "done") /\ UNCHANGED taken
  /\ UNCHANGED <<payload, sigint, channel, recv, device>>

\* A frame stays in its slot while the thread works on it.
EncGet ==
  /\ \/ /\ ready # <<>>
        /\ Goto("get", "write")
        /\ stream' = [at |-> Head(ready), packCount |-> Packs(payload, slot[Head(ready)])]
        /\ CountLate
     \/ MayFail("get") /\ Goto("get", "done") /\ UNCHANGED taken
  /\ UNCHANGED <<payload, sigint, channel, recv, device>>

Written == [frame |-> slot[stream.at], packs |-> stream.packCount, short |-> FALSE]

\* Mutant: only the first pack is written.
EncWriteFirstPack ==
  /\ Goto("write", "release")
  /\ device' = Append(device, [Written EXCEPT !.packs = 1])
  /\ UNCHANGED <<payload, sigint, channel, recv, taken>>

\* The packs lie one behind the other, so one write of their total length from
\* the first pack's address takes all of them.  Its result is dropped: after an
\* error nothing is on the device, and after a short write the first packs are,
\* perhaps with a piece of the next one.
EncWrite ==
  /\ Goto("write", "release")
  /\ \/ device' = Append(device, Written)
     \/ MayFail("write") /\ UNCHANGED device
     \/ MayFail("short") /\ \E n \in 0..stream.packCount - 1 :
          device' = Append(device, [Written EXCEPT !.packs = n, !.short = TRUE])
  /\ UNCHANGED <<payload, sigint, channel, recv, taken>>

\* Mutant: a frame whose write failed is not released.
EncReleaseSkipped ==
  /\ Goto("release", "test")
  /\ ready' = IF device # <<>> /\ device[Len(device)].frame = slot[stream.at]
              THEN Tail(ready) ELSE ready
  /\ UNCHANGED <<payload, sigint, next, slot, recv, taken, device>>

\* ReleaseStream gives back the oldest slot, then usleep.  Its result is dropped as
\* well, but it only fails for a stream that is not valid (imp_encoder.h:568-570),
\* and this one was fetched from the same channel.
EncRelease ==
  /\ Goto("release", "test")
  /\ ready' = Tail(ready)
  /\ UNCHANGED <<payload, sigint, next, slot, recv, taken, device>>

EncStop ==
  /\ Goto("stop", "done")
  /\ \/ recv' = FALSE
     \/ MayFail("stop") /\ UNCHANGED recv
  /\ UNCHANGED <<payload, sigint, channel, taken, device>>

EncoderStep ==
  EncStart \/ EncTest \/ EncPoll \/ EncGet \/ EncWrite \/ EncRelease \/ EncStop

Next == SigintHandler \/ Encode \/ EncoderStep

Spec == Init /\ [][Next]_vars

\* The thread runs whenever it can; the camera may stop producing frames.
FairSpec == Spec /\ WF_vars(EncoderStep)
-----------------------------------------------------------------------------
\* Types; in particular the thread works on the oldest frame of the buffer, and
\* no slot is in the buffer twice.
TypeOK ==
  /\ payload \in Payloads
  /\ sigint \in BOOLEAN /\ recv \in BOOLEAN
  /\ next \in 1..MaxFrames + 1
  /\ slot \in [SlotIds -> 0..MaxFrames]
  /\ ready \in Seq(SlotIds) /\ Len(ready) <= Slots[payload]
  /\ \A i, j \in 1..Len(ready) : ready[i] = ready[j] => i = j
  /\ pc \in {"start", "test", "poll", "get", "write", "release", "stop", "done"}
  /\ stream \in [at : SlotIds, packCount : Nat]
  /\ late \in 0..2
  /\ device \in Seq([frame : 1..MaxFrames, packs : Nat, short : BOOLEAN])
  /\ pc \in {"write", "release"} => ready # <<>> /\ stream.at = Head(ready)

\* The camera's frames that wait for the thread; the one it is about to release
\* does not.
Buffered == [i \in 1..Len(ready) |-> slot[ready[i]]]
Waiting == IF pc = "release" THEN Tail(Buffered) ELSE Buffered
Arrived == [i \in 1..Len(device) |-> device[i].frame]

MostSlots == IF Slots["PT_H264"] < Slots["PT_JPEG"] THEN Slots["PT_JPEG"]
                                                  ELSE Slots["PT_H264"]

\* The channel and its thread implement the lossy FIFO: the slot a frame lies in
\* is not reused before write has read it (capture.c:1094-1096).  A frame of which
\* write took only the beginning has arrived, too.
Fifo == INSTANCE LossyFifo WITH
  Capacity <- MostSlots, waiting <- Waiting, arrived <- Arrived

ImplementsFifo == Fifo!Spec

\* In Videocapture a frame leaves the buffer when it is fetched, and write and
\* release are one step; here it keeps its slot until release.
InHand == pc \in {"write", "release"}

V == INSTANCE Videocapture WITH
  NumEncoders <- 1, BufCap <- MostSlots, AudioSettings <- BOOLEAN,
  TimestampSettings <- BOOLEAN, mpc <- "join", idx <- 1, imp <- {"system"},
  audioLevel <- 0, enableAudio <- FALSE, showTimestamp <- FALSE, flowing <- TRUE,
  encSetup <- [e \in 1..1 |-> "ok"],
  enc <- [e \in 1..1 |-> IF pc = "release" THEN "write" ELSE pc],
  recv <- [e \in 1..1 |-> recv],
  buf <- [e \in 1..1 |-> IF InHand THEN Len(ready) - 1 ELSE Len(ready)],
  late <- [e \in 1..1 |-> late],
  aux <- [t \in {"audio", "osd", "nv", "rtc"} |-> "none"]

\* With frames in slots the thread still takes the steps Videocapture has for an
\* encoder whose channel is set up; a frame it has fetched no longer counts
\* (capture.c:1076-1119).
StepsAsVideocapture == [][V!Next]_(V!vars)

\* "The stream packs are contiguous so we can just use the first pack's address"
\* (capture.c:1092): each write is one of a whole frame, so what reaches the device is
\* one, or where write took less than it was asked to (capture.c:1094) its beginning.
DeliveredWhole ==
  \A i \in 1..Len(device) :
    LET whole == Packs(payload, device[i].frame) IN
      IF device[i].short THEN device[i].packs < whole ELSE device[i].packs = whole

\* The buffer, into which no new frame fits when it is full (imp_encoder.h:510-513),
\* is never full for good: until SIGINT or a failing GetStream ends the thread, the
\* oldest frame gives its slot back, also when writing it fails.
NothingStuck ==
  Len(ready) = Slots[payload] ~> Len(ready) < Slots[payload] \/ pc = "done"
=============================================================================
