------------------------------ MODULE OsdTimestamp ------------------------------
(***************************************************************************)
(* The OSD thread, timestamp_osd_entry_start in src/src/capture.c: once a    *)
(* second it draws the time glyph by glyph into an image of twenty cells and *)
(* shows it.  All glyphs are one cell wide (src/src/include/bgramapinfo.h).   *)
(*                                                                           *)
(* A cell holds the character drawn there last and the round that drew it;   *)
(* what second the text names is not modelled.                               *)
(***************************************************************************)
EXTENDS Integers, SequencesExt

CONSTANTS
  OsdFaults,    \* what may fail: "osd"
  MaxRounds     \* rounds that are told apart

VARIABLES
  osd,      \* where the thread is
  round,    \* rounds begun
  length,   \* characters in a text of the chosen DateFormat
  row       \* timeStampData: cell -> character and round, <<>> before anything

Cells == 20
\* Cell 20 does not belong to the row: it is the first one of the next line of
\* pixels and, in the last line, behind the allocated memory.  What a glyph there
\* does to the heap is not modelled, only that one was copied.
OsdInit ==
  /\ osd = "none" /\ round = 0 /\ length = 0
  /\ row = [c \in 0..Cells |-> <<>>]

\* Mutant: the pen moves on after the glyph has been copied.
DrawGlyphThenAdvance(pen, char) ==
  IF char < length
  THEN [at |-> pen.at + 1, glyph |-> char, row |-> [pen.row EXCEPT ![pen.at] = <<char, round>>]]
  ELSE pen

\* The pen moves on before the glyph is copied.  The NUL behind a text has no
\* glyph: the last one is copied once more to the same place.
DrawGlyph(pen, char) ==
  LET next == IF char < length
              THEN [pen EXCEPT !.at = @ + 1, !.glyph = char]
              ELSE pen
  IN [next EXCEPT !.row[next.at] = <<next.glyph, round>>]

Drawn ==
  FoldLeft(DrawGlyph, [at |-> 0, glyph |-> 0, row |-> row],
           [k \in 1..Cells |-> k - 1]).row

Goto(here, there) == osd = here /\ osd' = there

\* The result of initialize_osd is dropped.  The 24 hour text has 19 characters,
\* the one with AM or PM three more.
OsdStart(show, h24) ==
  /\ \/ show /\ Goto("init", "loop")
     \/ (~show \/ "osd" \in OsdFaults) /\ Goto("init", "done")
  /\ length' = IF h24 THEN 19 ELSE 22
  /\ UNCHANGED <<round, row>>

\* while (!sigint_received); a second later the loop is here again.
OsdTest(sigint) ==
  /\ \/ ~sigint /\ round < MaxRounds /\ Goto("loop", "draw") /\ round' = round + 1
     \/ sigint /\ Goto("loop", "done") /\ UNCHANGED round
  /\ UNCHANGED <<length, row>>

OsdDraw == Goto("draw", "loop") /\ row' = Drawn /\ UNCHANGED <<round, length>>

\* The first nineteen characters, which name date, hour, minute and second, lie in
\* a cell of their own each, and none is left from an earlier second.
SecondShown == \A c \in 1..19 : row[c] = <<c - 1, round>>

\* Some glyph was copied to where no cell of the row is.
RowExceeded == row[Cells] # <<>>
===============================================================================
