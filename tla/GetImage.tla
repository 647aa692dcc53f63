------------------------------- MODULE GetImage -------------------------------
(***************************************************************************)
(* getimage, src/src/getimage.c: a process takes one frame from a V4L2       *)
(* loopback device and saves it in /tmp/out.jpg.  Several may run at once,   *)
(* all on the same file.  Snapshot connects them to the encoder thread that  *)
(* writes the device.                                                        *)
(***************************************************************************)
EXTENDS Integers, Sequences

CONSTANTS
  Images,       \* the getimage processes
  ImageFaults   \* what may fail: "request", "mmap", "dequeue", "fopen", "marker",
                \* "fwrite", "fclose"

VARIABLES
  device,   \* what write left on the device (see EncoderChannel)
  img,      \* process -> where it is
  buffer,   \* process -> the frame in its mapped buffer, 0 before it has one,
            \* MapFailed if mmap failed
  file,     \* /tmp/out.jpg, the beginning of an image and its rest: the number of the
            \* frame that is from, 0 for nothing
  crowd,    \* history: the processes whose writing of the file overlapped
  cut       \* history: fwrite or fclose took less than all since the file was opened

CanFail(call) == call \in ImageFaults
MapFailed == -1
Ended == {"saved", "failed"}      \* "failed": main returned 1, or a crash
Writing == {"marker", "body", "tail"}
Empty == [body |-> 0, tail |-> 0]

ImgInit ==
  /\ img = [p \in Images |-> "request"]
  /\ buffer = [p \in Images |-> 0]
  /\ file = Empty
  /\ crowd = {} /\ cut = FALSE

Enter(p, here, there) == img[p] = here /\ img' = [img EXCEPT ![p] = there]

\* The process is over, and its buffer with it.
Leave(p, here, result) == Enter(p, here, result) /\ buffer' = [buffer EXCEPT ![p] = 0]

\* open, print_caps and init_mmap, whose mmap is not looked at; then VIDIOC_QBUF,
\* VIDIOC_STREAMON and select, which returns with a frame or, without one, after
\* two seconds: the code treats both alike.
Request(p) ==
  /\ \/ Enter(p, "request", "dequeue") /\ UNCHANGED buffer
     \/ /\ CanFail("mmap")
        /\ Enter(p, "request", "dequeue")
        /\ buffer' = [buffer EXCEPT ![p] = MapFailed]
     \/ CanFail("request") /\ Leave(p, "request", "failed")
  /\ UNCHANGED <<file, crowd, cut>>

\* Mutant: a failing dequeue is tried again from the start.
DequeueRetries(p) ==
  /\ \/ /\ device # <<>>
        /\ Enter(p, "dequeue", "open")
        /\ buffer' = [buffer EXCEPT ![p] = device[Len(device)].frame]
     \/ CanFail("dequeue") /\ Enter(p, "dequeue", "request") /\ UNCHANGED buffer
  /\ UNCHANGED <<file, crowd, cut>>

\* Mutant: the result of the dequeue is not looked at.
DequeueUnchecked(p) ==
  /\ Enter(p, "dequeue", "open")
  /\ \/ \E i \in 1..Len(device) : buffer' = [buffer EXCEPT ![p] = device[i].frame]
     \/ CanFail("dequeue") /\ UNCHANGED buffer
  /\ UNCHANGED <<file, crowd, cut>>

\* VIDIOC_DQBUF waits, also after the timeout of select, until the device has a
\* frame; which of the frames written is up to the driver.
Dequeue(p) ==
  /\ \/ /\ device # <<>>
        /\ Enter(p, "dequeue", "open")
        /\ \E i \in 1..Len(device) :
             buffer' = IF buffer[p] = MapFailed THEN buffer
                       ELSE [buffer EXCEPT ![p] = device[i].frame]
     \/ CanFail("dequeue") /\ Leave(p, "dequeue", "failed")
  /\ UNCHANGED <<file, crowd, cut>>

OthersWriting(p) == {q \in Images \ {p} : img[q] \in Writing}

\* Mutant: the file is opened for update, which keeps what it holds.
OpenUpdates(p) ==
  /\ Enter(p, "open", "marker")
  /\ crowd' = IF OthersWriting(p) = {} THEN {p} ELSE crowd \cup {p}
  /\ cut' = FALSE
  /\ UNCHANGED <<buffer, file>>

\* fopen for writing empties the file, before the frame has been looked at.  Its
\* result is not checked: without a file, memmem's failure or a crash in fwrite ends
\* the process.
Open(p) ==
  \/ /\ Enter(p, "open", "marker")
     /\ file' = Empty
     /\ crowd' = IF OthersWriting(p) = {} THEN {p} ELSE crowd \cup {p}
     /\ cut' = FALSE
     /\ UNCHANGED buffer
  \/ /\ CanFail("fopen")
     /\ Leave(p, "open", "failed")
     /\ UNCHANGED <<file, crowd, cut>>

\* A frame that is no JPEG image need not have the end marker, nor need one of which
\* the device has only the beginning; behind that an older frame's may be found.
NoMarker(f) ==
  CanFail("marker") \/ \E i \in 1..Len(device) : device[i].frame = f /\ device[i].short

\* memmem looks for the end of a JPEG image; in a buffer that was not mapped it crashes.
Marker(p) ==
  /\ \/ buffer[p] # MapFailed /\ Enter(p, "marker", "body") /\ UNCHANGED buffer
     \/ (buffer[p] = MapFailed \/ NoMarker(buffer[p])) /\ Leave(p, "marker", "failed")
  /\ UNCHANGED <<file, crowd, cut>>

\* fwrite passes on what exceeds its own buffer and keeps the rest for fclose.  Where
\* the file takes nothing, nothing is kept either, and fclose has no part in it; where
\* it takes only the beginning the outcome is that of a failing fclose.
WriteBody(p) ==
  /\ \/ /\ Enter(p, "body", "tail")
        /\ file' = [file EXCEPT !.body = buffer[p]]
        /\ UNCHANGED <<buffer, cut>>
     \/ /\ CanFail("fwrite")
        /\ Leave(p, "body", "saved")
        /\ cut' = TRUE
        /\ UNCHANGED file
  /\ UNCHANGED crowd

\* Nobody looks at the result of either: "Image saved to" follows in every case.
Close(p) ==
  /\ \/ /\ Leave(p, "tail", "saved")
        /\ file' = [file EXCEPT !.tail = buffer[p]]
        /\ UNCHANGED cut
     \/ CanFail("fclose") /\ Leave(p, "tail", "saved") /\ UNCHANGED file /\ cut' = TRUE
  /\ UNCHANGED crowd

ImgStep(p) ==
  \/ Request(p) \/ Dequeue(p)
  \/ Open(p) \/ Marker(p) \/ WriteBody(p) \/ Close(p)
-----------------------------------------------------------------------------
\* Types; a process that writes the file has, or believes to have, a frame.
ImgTypeOK ==
  /\ img \in [Images -> Ended \cup Writing \cup {"request", "dequeue", "open"}]
  /\ \A p \in Images : buffer[p] \in Nat \cup {MapFailed}
  /\ DOMAIN file = {"body", "tail"}
  /\ crowd \subseteq Images /\ cut \in BOOLEAN
  /\ \A p \in Images : img[p] \in Writing => p \in crowd /\ buffer[p] # 0
===============================================================================
