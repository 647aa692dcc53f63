------------------------------ MODULE MCSnapshot ------------------------------
\* Values for the run "snapshot".
EXTENDS Snapshot

\* Two slots for H264 and one for JPEG: the vendor's defaults are five and one.
MCSlots == [PT_H264 |-> 2, PT_JPEG |-> 1]

\* Every other H264 frame is a key frame of two packs.
MCPacks(p, f) == IF p = "PT_H264" /\ f % 2 = 1 THEN 2 ELSE 1

MCFaults == {"start", "get", "write", "short", "stop"}
MCImageFaults == {"request", "mmap", "dequeue", "fopen", "marker", "fwrite", "fclose"}
===============================================================================
