------------------------------- MODULE Snapshot -------------------------------
(***************************************************************************)
(* An encoder thread and getimage processes that read the device it writes:  *)
(* EncoderChannel composed with GetImage over the V4L2 loopback device.      *)
(***************************************************************************)
EXTENDS EncoderChannel

CONSTANTS Images, ImageFaults   \* see GetImage

VARIABLES img, buffer, file, crowd, cut

G == INSTANCE GetImage

imageVars == <<img, buffer, file, crowd, cut>>
snapshotVars == <<vars, imageVars>>

SnapshotInit == Init /\ G!ImgInit

ChannelStep == Next /\ UNCHANGED imageVars
ImageStep(p) == G!ImgStep(p) /\ UNCHANGED vars

SnapshotNext == ChannelStep \/ \E p \in Images : ImageStep(p)

\* Threads and processes run whenever they can.
SnapshotSpec ==
  /\ SnapshotInit /\ [][SnapshotNext]_snapshotVars
  /\ WF_snapshotVars(EncoderStep /\ UNCHANGED imageVars)
  /\ \A p \in Images : WF_snapshotVars(ImageStep(p))
-----------------------------------------------------------------------------
\* Types; in particular the encoder thread works on the oldest frame of the buffer,
\* and no getimage writes the file without a frame (see EncoderChannel, GetImage).
SnapshotTypeOK == TypeOK /\ G!ImgTypeOK

\* "Image saved to: /tmp/out.jpg" (getimage.c:178): unless another getimage was
\* writing at the same time (getimage.c:159), the file then holds nothing but one
\* frame of the device, all that the device has of it unless fwrite or fclose, whose
\* results nobody looks at (getimage.c:174-175), fell short, and then its beginning.
SavedOneFrame ==
  \A p \in Images : img[p] = "saved" /\ crowd = {p} =>
    \E i \in 1..Len(device) :
      LET f == device[i].frame IN
        /\ file.body \in {0, f} /\ file.tail \in {0, file.body}
        /\ ~cut => file = [body |-> f, tail |-> f]

\* fopen empties the file before the new image is known to be usable
\* (getimage.c:159-167), but never for a process that has no frame at all.
KeepsLastImage ==
  [][file # G!Empty /\ file' = G!Empty =>
       \E p \in Images : img[p] = "open" /\ buffer[p] # 0]_snapshotVars

\* Once a frame has reached the device every getimage comes to an end, whatever
\* becomes of the encoder; before that, VIDIOC_DQBUF may wait for ever although
\* select gave up after two seconds (getimage.c:139-146).
SnapshotCompletes ==
  device # <<>> ~> \A p \in Images : img[p] \in G!Ended
===============================================================================
