-------------------------- MODULE ConfigurationProofs --------------------------
(***************************************************************************)
(* Proofs about Startup.  Of the timestamp: what every round draws.  Of       *)
(* Configuration, for every length of the lists, every content               *)
(* of the settings file and every set of failing calls: types, the order of  *)
(* bindings, which frame sources are enabled, and that the entries of the    *)
(* lists together do what Videocapture says each list does.                  *)
(***************************************************************************)
EXTENDS Startup, SequenceTheorems, FiniteSetTheorems, WellFoundedInduction, TLAPS

-----------------------------------------------------------------------------
(* The timestamp.  T!Drawn folds DrawGlyph over the characters from the left; *)
(* the fold is a recursive function over sets of characters.  As in           *)
(* HardwareNightProofs, that it has a solution, and what it amounts to, is    *)
(* shown by looking at a least number for which it would fail.                *)

Chars == 1..T!Cells
Latest(s) == CHOOSE x \in s : \A y \in s : x >= y
Blank == [at |-> 0, glyph |-> 0, row |-> row]

\* One step of the recursion, from what the characters before left.
After(f, s) ==
  IF s = {} THEN Blank ELSE T!DrawGlyph(f[s \ {Latest(s)}], Latest(s) - 1)

\* The sets of at most n characters.
Few(n) == {s \in SUBSET Chars : Cardinality(s) <= n}

\* f draws every set of at most n characters.
Draws(f, n) == f = [s \in Few(n) |-> After(f, s)]

LEMMA LeastNumber ==
  ASSUME NEW S, S \subseteq Nat, S # {}
  PROVE  \E n \in S : \A m \in Nat : m < n => m \notin S
<1>1. PICK n \in S : \A m \in S : <<m, n>> \notin OpToRel(<, Nat)
  BY NatLessThanWellFounded, WFMin, Zenon
<1>2. ASSUME NEW m \in Nat, m < n, m \in S
      PROVE  FALSE
  <2>1. <<m, n>> \in Nat \X Nat /\ <<m, n>>[1] < <<m, n>>[2]
    BY <1>2
  <2> QED BY <1>1, <1>2, <2>1 DEF OpToRel
<1> QED BY <1>1, <1>2

LEMMA CharsFinite ==
  /\ IsFiniteSet(Chars) /\ Cardinality(Chars) = 20 /\ Chars = 1..20
  /\ \A s \in SUBSET Chars : IsFiniteSet(s) /\ Cardinality(s) \in 0..20
<1>1. Chars = 1..20
  BY DEF Chars, T!Cells
<1>2. IsFiniteSet(Chars) /\ Cardinality(Chars) = 20
  <2>1. 1 \in Int /\ 20 \in Int
    OBVIOUS
  <2>2. IsFiniteSet(1..20) /\ Cardinality(1..20) = IF 1 > 20 THEN 0 ELSE 20 - 1 + 1
    BY <2>1, FS_Interval, Zenon
  <2>3. Cardinality(1..20) = 20
    BY <2>2
  <2> QED BY <1>1, <2>2, <2>3
<1>3. ASSUME NEW s \in SUBSET Chars
      PROVE  IsFiniteSet(s) /\ Cardinality(s) \in 0..20
  BY <1>2, FS_Subset, FS_CardinalityType
<1> QED BY <1>1, <1>2, <1>3

\* The latest character of a non-empty set, and that the others are fewer.
LEMMA LatestChar ==
  ASSUME NEW s \in SUBSET Chars, s # {}
  PROVE  /\ Latest(s) \in s /\ \A y \in s : Latest(s) >= y
         /\ s \ {Latest(s)} \in SUBSET Chars
         /\ Cardinality(s) \in 1..20
         /\ Cardinality(s \ {Latest(s)}) = Cardinality(s) - 1
<1> DEFINE Behind == {20 - y : y \in s}
<1>1. s \subseteq 1..20
  BY CharsFinite
<1>2. Behind \subseteq Nat /\ Behind # {}
  <2>1. ASSUME NEW y \in s PROVE 20 - y \in Nat
    BY <1>1
  <2>2. PICK y \in s : TRUE
    OBVIOUS
  <2>3. 20 - y \in Behind
    OBVIOUS
  <2> QED BY <2>1, <2>3
<1>3. PICK n \in Behind : \A m \in Nat : m < n => m \notin Behind
  BY <1>2, LeastNumber
<1>4. PICK x \in s : n = 20 - x
  BY <1>3
<1>5. ASSUME NEW y \in s PROVE x >= y
  <2>1. 20 - y \in Behind /\ 20 - y \in Nat /\ n \in Nat
    BY <1>1, <1>2, <1>3
  <2>2. ~(20 - y < n)
    BY <1>3, <2>1
  <2> QED BY <1>1, <1>4, <2>1, <2>2
<1>6. Latest(s) \in s /\ \A y \in s : Latest(s) >= y
  BY <1>5 DEF Latest
<1>7. IsFiniteSet(s) /\ Cardinality(s) \in 0..20
  BY CharsFinite
<1>8. Cardinality(s \ {Latest(s)}) = Cardinality(s) - 1
  BY <1>6, <1>7, FS_RemoveElement
<1>9. Cardinality(s) # 0
  BY <1>7, FS_EmptySet
<1> QED BY <1>6, <1>7, <1>8, <1>9

\* The recursion has a solution.
LEMMA DrawsExist == \E f : Draws(f, 20)
<1> DEFINE Missing == {n \in Nat : ~ \E f : Draws(f, n)}
<1> SUFFICES ASSUME Missing # {} PROVE FALSE
  OBVIOUS
<1>1. PICK n \in Missing : \A m \in Nat : m < n => m \notin Missing
  BY LeastNumber
<1>2. n # 0
  <2> SUFFICES ASSUME n = 0 PROVE FALSE
    OBVIOUS
  <2> DEFINE f == [s \in Few(0) |-> Blank]
  <2>1. ASSUME NEW s \in Few(0) PROVE s = {}
    BY CharsFinite, FS_EmptySet DEF Few
  <2>2. Draws(f, 0)
    BY <2>1, Zenon DEF Draws, After
  <2> QED BY <1>1, <2>2
<1>3. n - 1 \in Nat /\ n - 1 < n
  BY <1>2
<1>4. PICK f : Draws(f, n - 1)
  BY <1>1, <1>3
<1> DEFINE g == [s \in Few(n) |-> After(f, s)]
<1>5. ASSUME NEW s \in Few(n), s # {}
      PROVE  f[s \ {Latest(s)}] = g[s \ {Latest(s)}]
  <2> DEFINE r == s \ {Latest(s)}
  <2>1. r \in Few(n) /\ r \in Few(n - 1)
    <3>1. s \in SUBSET Chars /\ Cardinality(s) <= n
      BY DEF Few
    <3>2. /\ r \in SUBSET Chars /\ Cardinality(s) \in 1..20
          /\ Cardinality(r) = Cardinality(s) - 1
      BY <1>5, <3>1, LatestChar
    <3>3. Cardinality(r) <= n - 1 /\ Cardinality(r) <= n
      BY <3>1, <3>2
    <3> QED BY <3>2, <3>3 DEF Few
  <2>2. f[r] = After(f, r)
    BY <1>4, <2>1, Zenon DEF Draws
  <2>3. g[r] = After(f, r)
    BY <2>1, Zenon
  <2> QED BY <2>2, <2>3
<1>6. ASSUME NEW s \in Few(n)
      PROVE  After(f, s) = After(g, s)
  BY <1>5, Zenon DEF After
<1>7. Draws(g, n)
  BY <1>6, Zenon DEF Draws
<1> QED BY <1>1, <1>7

\* T!Drawn is the row that such a solution leaves after all characters.
LEMMA DrawnIsFold == \E f : Draws(f, 20) /\ T!Drawn = f[Chars].row
<1> DEFINE seq == [k \in 1..T!Cells |-> k - 1]
           Step(f, s) == IF s = {} THEN Blank
                         ELSE T!DrawGlyph(f[s \ {Latest(s)}], seq[Latest(s)])
           F == CHOOSE f : f = [s \in SUBSET Chars |-> Step(f, s)]
<1>1. DOMAIN seq = Chars
  BY DEF Chars
<1>2. T!Drawn = F[Chars].row
  BY <1>1, Zenon DEF T!Drawn, T!FoldLeft, T!MapThenFoldSet, T!Max, Latest, Blank, Chars
<1>3. ASSUME NEW f, NEW s \in SUBSET Chars
      PROVE  After(f, s) = Step(f, s)
  <2>1. CASE s # {}
    <3>1. seq[Latest(s)] = Latest(s) - 1
      BY <2>1, LatestChar DEF Chars
    <3> QED BY <3>1, Zenon DEF After
  <2> QED BY <2>1 DEF After
<1>4. Few(20) = SUBSET Chars
  BY CharsFinite DEF Few
<1>5. PICK f : f = [s \in SUBSET Chars |-> After(f, s)]
  BY DrawsExist, <1>4 DEF Draws
<1>6. f = [s \in SUBSET Chars |-> Step(f, s)]
  BY <1>3, <1>5, Zenon
<1>7. F = [s \in SUBSET Chars |-> Step(F, s)]
  BY <1>6, Zenon
<1> HIDE DEF F
<1>8. F = [s \in SUBSET Chars |-> After(F, s)]
  BY <1>3, <1>7, Zenon
<1>9. Draws(F, 20)
  BY <1>4, <1>8, Zenon DEF Draws
<1> QED BY <1>2, <1>9

\* The pen after the first k characters of the text.
Drawing(k) ==
  LET drawn == IF k < length THEN k ELSE length
  IN [at |-> drawn, glyph |-> IF k = 0 THEN 0 ELSE drawn - 1,
      row |-> [c \in 0..20 |-> IF c \in 1..drawn THEN <<c - 1, round>> ELSE row[c]]]

\* One pass of the loop, from one closed form to the next.
LEMMA DrawGlyphExtends ==
  ASSUME length \in {19, 22}, NEW k \in 0..19
  PROVE  T!DrawGlyph(Drawing(k), k) = Drawing(k + 1)
<1> DEFINE before == Drawing(k).row
           after == Drawing(k + 1).row
<1>1. CASE k < length
  <2>1. Drawing(k) = [at |-> k, glyph |-> Drawing(k).glyph, row |-> before]
    BY <1>1 DEF Drawing
  <2>2. Drawing(k + 1) = [at |-> k + 1, glyph |-> k, row |-> after]
    <3>1. k + 1 # 0 /\ (k + 1) - 1 = k
      OBVIOUS
    <3>2. (IF k + 1 < length THEN k + 1 ELSE length) = k + 1
      BY <1>1
    <3> QED BY <3>1, <3>2 DEF Drawing
  <2>3. /\ before = [c \in 0..20 |-> IF c \in 1..k THEN <<c - 1, round>> ELSE row[c]]
        /\ after = [c \in 0..20 |-> IF c \in 1..k + 1 THEN <<c - 1, round>> ELSE row[c]]
    <3>1. (IF k + 1 < length THEN k + 1 ELSE length) = k + 1
      BY <1>1
    <3> QED BY <1>1, <3>1 DEF Drawing
  <2>4. [before EXCEPT ![k + 1] = <<k, round>>] = after
    <3> HIDE DEF before, after
    <3>1. ASSUME NEW c \in 0..20
          PROVE  (IF c = k + 1 THEN <<k, round>> ELSE before[c]) = after[c]
      <4>1. CASE c = k + 1
        <5>1. after[c] = <<c - 1, round>> /\ c - 1 = k
          BY <2>3, <4>1
        <5> QED BY <4>1, <5>1
      <4>2. CASE c # k + 1
        BY <2>3, <4>2
      <4> QED BY <4>1, <4>2
    <3>2. /\ before = [c \in 0..20 |-> before[c]]
          /\ after = [c \in 0..20 |-> after[c]]
      BY <2>3
    <3>3. [before EXCEPT ![k + 1] = <<k, round>>]
            = [c \in 0..20 |-> IF c = k + 1 THEN <<k, round>> ELSE before[c]]
      BY <3>2, Zenon
    <3> QED BY <3>1, <3>2, <3>3, Zenon
  <2>5. T!DrawGlyph(Drawing(k), k) =
          LET next == [Drawing(k) EXCEPT !.at = @ + 1, !.glyph = k]
          IN [next EXCEPT !.row[next.at] = <<next.glyph, round>>]
    BY <1>1, Zenon DEF T!DrawGlyph
  <2>6. [Drawing(k) EXCEPT !.at = @ + 1, !.glyph = k] = [at |-> k + 1, glyph |-> k, row |-> before]
    <3> DEFINE char == k
               g == Drawing(k).glyph
               pen == [at |-> char, glyph |-> g, row |-> before]
               there == pen.at + 1
    <3>1. there = k + 1
      OBVIOUS
    <3>2. Drawing(k) = pen
      BY <2>1
    <3> HIDE DEF there, before, g, char
    <3>3. [pen EXCEPT !.at = there] = [at |-> there, glyph |-> g, row |-> before]
      OBVIOUS
    <3>4. [[at |-> there, glyph |-> g, row |-> before] EXCEPT !.glyph = char]
            = [at |-> there, glyph |-> char, row |-> before]
      OBVIOUS
    <3> HIDE DEF pen
    <3>5. [pen EXCEPT !.at = there, !.glyph = char]
            = [[pen EXCEPT !.at = there] EXCEPT !.glyph = char]
      BY Zenon
    <3>6. [pen EXCEPT !.at = there, !.glyph = char] = [at |-> there, glyph |-> char, row |-> before]
      BY <3>3, <3>4, <3>5, Zenon
    <3>7. [pen EXCEPT !.at = pen.at + 1, !.glyph = k] = [at |-> k + 1, glyph |-> k, row |-> before]
      BY <3>1, <3>6, Zenon DEF there, char
    <3> QED BY <3>2, <3>7, Zenon
  <2> HIDE DEF before, after
  <2>7. T!DrawGlyph(Drawing(k), k) =
          [at |-> k + 1, glyph |-> k, row |-> [before EXCEPT ![k + 1] = <<k, round>>]]
    BY <2>5, <2>6
  <2> QED BY <2>2, <2>4, <2>7
<1>2. CASE ~(k < length)
  <2>1. k = 19 /\ length = 19 /\ k + 1 = 20
    BY <1>2
  <2>2. /\ Drawing(k) = [at |-> 19, glyph |-> 18, row |-> before]
        /\ Drawing(k + 1) = [at |-> 19, glyph |-> 18, row |-> after]
    BY <2>1 DEF Drawing
  <2>3. /\ before = [c \in 0..20 |-> IF c \in 1..19 THEN <<c - 1, round>> ELSE row[c]]
        /\ after = before
    BY <2>1 DEF Drawing
  <2> HIDE DEF before, after
  <2>4. [before EXCEPT ![19] = <<18, round>>] = before
    <3>1. before[19] = <<18, round>>
      BY <2>3
    <3>2. before = [c \in 0..20 |-> before[c]]
      BY <2>3
    <3> QED BY <3>1, <3>2
  <2>5. T!DrawGlyph(Drawing(k), k) =
          [Drawing(k) EXCEPT !.row[Drawing(k).at] = <<Drawing(k).glyph, round>>]
    BY <1>2, Zenon DEF T!DrawGlyph
  <2>6. T!DrawGlyph(Drawing(k), k) =
          [at |-> 19, glyph |-> 18, row |-> [before EXCEPT ![19] = <<18, round>>]]
    BY <2>2, <2>5
  <2> QED BY <2>2, <2>3, <2>4, <2>6
<1> QED BY <1>1, <1>2

\* The fold leaves the closed form, whatever the row held before.
LEMMA FoldDraws ==
  ASSUME length \in {19, 22}, row = [c \in 0..20 |-> row[c]], NEW f, Draws(f, 20)
  PROVE  f[Chars] = Drawing(20)
<1> DEFINE Bad == {n \in Nat : n <= 20 /\ f[1..n] # Drawing(n)}
<1>1. ASSUME NEW n \in 0..20
      PROVE  1..n \in Few(20) /\ f[1..n] = After(f, 1..n)
  <2>1. 1..n \in SUBSET Chars
    BY CharsFinite
  <2>2. 1..n \in Few(20)
    <3>1. Cardinality(1..n) \in 0..20
      BY <2>1, CharsFinite, Zenon
    <3>2. Cardinality(1..n) <= 20
      BY <3>1
    <3> QED BY <2>1, <3>2, Zenon DEF Few
  <2> QED BY <2>2, Zenon DEF Draws
<1>2. ASSUME Bad # {}
      PROVE  FALSE
  <2>1. PICK n \in Bad : \A m \in Nat : m < n => m \notin Bad
    BY <1>2, LeastNumber
  <2>2. n \in 0..20
    BY <2>1
  <2>3. CASE n = 0
    <3>1. 1..0 = {}
      OBVIOUS
    <3>2. f[1..0] = Blank
      BY <1>1, <2>2, <2>3, <3>1 DEF After
    <3>3. Drawing(0) = Blank
      <4>1. (IF 0 < length THEN 0 ELSE length) = 0 /\ 1..0 = {}
        OBVIOUS
      <4>2. [c \in 0..20 |-> IF c \in 1..0 THEN <<c - 1, round>> ELSE row[c]] = row
        <5>1. ASSUME NEW c \in 0..20
              PROVE  (IF c \in 1..0 THEN <<c - 1, round>> ELSE row[c]) = row[c]
          BY <4>1, Zenon
        <5>2. [c \in 0..20 |-> IF c \in 1..0 THEN <<c - 1, round>> ELSE row[c]]
                = [c \in 0..20 |-> row[c]]
          BY <5>1, Zenon
        <5> QED BY <5>2, Zenon
      <4> QED BY <4>1, <4>2, Zenon DEF Blank, Drawing
    <3> QED BY <2>1, <2>3, <3>2, <3>3
  <2>4. CASE n # 0
    <3>1. n - 1 \in 0..19 /\ n - 1 < n /\ (n - 1) + 1 = n
      BY <2>2, <2>4
    <3>2. f[1..n - 1] = Drawing(n - 1)
      BY <2>1, <3>1
    <3>3. 1..n # {} /\ 1..n \in SUBSET Chars
      <4>1. n \in 1..20
        BY <2>2, <2>4
      <4> HIDE DEF Bad
      <4>2. 1..n # {} /\ \A y \in 1..n : y \in 1..20
        BY <4>1
      <4>3. Chars = 1..20
        BY CharsFinite
      <4> QED BY <4>2, <4>3, Zenon
    <3>4. Latest(1..n) = n
      <4>1. Latest(1..n) \in 1..n /\ \A y \in 1..n : Latest(1..n) >= y
        BY <3>3, LatestChar
      <4>2. n \in 1..n
        BY <2>2, <2>4
      <4> QED BY <2>2, <4>1, <4>2
    <3>5. (1..n) \ {n} = 1..n - 1
      BY <2>2
    <3>6. f[1..n] = T!DrawGlyph(f[1..n - 1], n - 1)
      BY <1>1, <2>2, <3>3, <3>4, <3>5 DEF After
    <3>7. f[1..n] = Drawing(n)
      BY <3>1, <3>2, <3>6, DrawGlyphExtends
    <3> QED BY <2>1, <3>7
  <2> QED BY <2>3, <2>4
<1>3. 20 \in Nat /\ 20 <= 20
  OBVIOUS
<1> QED BY <1>2, <1>3, CharsFinite, Zenon

\* What the thread shows, after any row whatever.
LEMMA DrawnShows ==
  ASSUME length \in {19, 22}, row = [c \in 0..20 |-> row[c]]
  PROVE  /\ T!Drawn = [c \in 0..20 |-> T!Drawn[c]]
         /\ \A c \in 1..19 : T!Drawn[c] = <<c - 1, round>>
         /\ T!Drawn[20] = IF length = 19 THEN row[20] ELSE <<19, round>>
<1>1. T!Drawn = Drawing(20).row
  BY DrawnIsFold, FoldDraws
<1>2. (IF 20 < length THEN 20 ELSE length) = IF length = 19 THEN 19 ELSE 20
  OBVIOUS
<1>3. Drawing(20).row =
        [c \in 0..20 |-> IF c \in 1..(IF length = 19 THEN 19 ELSE 20)
                        THEN <<c - 1, round>> ELSE row[c]]
  BY <1>2 DEF Drawing
<1>4. 20 \in 1..(IF length = 19 THEN 19 ELSE 20) <=> length # 19
  OBVIOUS
<1>5. 20 - 1 = 19
  OBVIOUS
<1> QED BY <1>1, <1>3, <1>4, <1>5

\* The row and the text fit together, and a round that is over has drawn them.
OsdInv ==
  /\ osd \in {"none", "init", "loop", "draw", "done"}
  /\ round \in Nat
  /\ row = [c \in 0..20 |-> row[c]]
  /\ osd \in {"loop", "draw"} => length \in {19, 22}
  /\ osd \in {"none", "init"} => round = 0 /\ row[20] = <<>>
  /\ length = 19 => row[20] = <<>>
  /\ TimestampDrawn

\* Whenever the thread is back at its loop the image shows date and time of the
\* second it drew last, in every round; with the 12 hour text, and with no other,
\* a glyph has gone behind the row (capture.c:656-701).
THEOREM TimestampDrawnHolds == StartupSpec => []TimestampDrawn
<1>1. StartupInit => OsdInv
  <2> SUFFICES ASSUME StartupInit PROVE OsdInv
    OBVIOUS
  <2>1. osd = "none" /\ round = 0 /\ length = 0 /\ row = [c \in 0..20 |-> <<>>]
    BY DEF StartupInit, T!OsdInit, T!Cells
  <2> QED BY <2>1 DEF OsdInv, TimestampDrawn
<1>2. OsdInv /\ [StartupNext]_startupVars => OsdInv'
  <2> SUFFICES ASSUME OsdInv, [StartupNext]_startupVars PROVE OsdInv'
    OBVIOUS
  <2> USE DEF OsdInv, TimestampDrawn, T!SecondShown, T!RowExceeded, T!Cells
  <2>1. CASE SigintHandler \/ ConfigurationStep \/ UNCHANGED startupVars
    BY <2>1 DEF SigintHandler, ConfigurationStep, startupVars, osdVars
  <2>2. CASE SpawnOsd
    BY <2>2 DEF SpawnOsd, T!Goto
  <2>3. CASE T!OsdStart(general.show, general.h24)
    BY <2>3 DEF T!OsdStart, T!Goto
  <2>4. CASE T!OsdTest(sigint)
    <3>1. /\ osd = "loop" /\ UNCHANGED <<length, row>> /\ round' \in {round, round + 1}
          /\ osd' \in {"draw", "done"}
      BY <2>4 DEF T!OsdTest, T!Goto
    <3> HIDE DEF T!SecondShown, T!RowExceeded
    <3> QED BY <3>1
  <2>5. CASE T!OsdDraw
    <3>1. /\ osd = "draw" /\ osd' = "loop" /\ row' = T!Drawn
          /\ UNCHANGED <<round, length>> /\ length \in {19, 22}
      BY <2>5 DEF T!OsdDraw, T!Goto
    <3>2. /\ T!Drawn = [c \in 0..20 |-> T!Drawn[c]]
          /\ \A c \in 1..19 : T!Drawn[c] = <<c - 1, round>>
          /\ T!Drawn[20] = IF length = 19 THEN row[20] ELSE <<19, round>>
      BY <3>1, DrawnShows
    <3>3. T!SecondShown'
      BY <3>1, <3>2
    <3>4. T!RowExceeded' <=> length' = 22
      <4>1. <<19, round>> # <<>>
        OBVIOUS
      <4>2. CASE length = 19
        BY <3>1, <3>2, <4>2
      <4>3. CASE length = 22
        BY <3>1, <3>2, <4>1, <4>3
      <4> QED BY <3>1, <4>2, <4>3
    <3> HIDE DEF T!SecondShown, T!RowExceeded
    <3>5. length' = 19 => row'[20] = <<>>
      BY <3>1, <3>2
    <3> QED BY <3>1, <3>2, <3>3, <3>4, <3>5
  <2> QED BY <2>1, <2>2, <2>3, <2>4, <2>5 DEF StartupNext, OsdStep
<1>3. OsdInv => TimestampDrawn
  BY DEF OsdInv
<1> QED BY <1>1, <1>2, <1>3, PTL DEF StartupSpec

-----------------------------------------------------------------------------
Binding == [source : Ids, output : {0, 1}]

(* The inductive invariant: what main has done of each list so far.         *)

\* Only a list with an entry that cannot be parsed is stopped.
StopsOnlyAtFaults == \A list \in DOMAIN Num : Stopped(list) => MayFail("populate")

\* The entries up to where the list stopped were written, no other was.
SourcesSoFar ==
  /\ pc \in {"general", "framesources"} /\ over = "running" =>
       \A s \in Sources : s >= i => sources[s] = Garbage
  /\ pc \notin {"general", "framesources"} =>
       \A s \in Sources : s < stop["framesources"] => sources[s] \in Ids
  /\ pc = "framesources" => \A s \in Sources : s < i => sources[s] \in Ids
  /\ pc = "general" => i = 1

\* Every channel comes from an entry; those of the entries before i are enabled.
EnabledSoFar ==
  over = "running" =>
    /\ \A c \in created : \E s \in Sources : sources[s] = c
    /\ enabled \subseteq created
    /\ pc = "enable" =>
         \A s \in Sources : s < i /\ sources[s] \in Ids => sources[s] \in enabled
    /\ pc = "spawn_audio" =>
         \A s \in Sources : sources[s] \in Ids => sources[s] \in enabled

EncodersSoFar ==
  /\ pc \in {"general", "framesources"} => \A e \in Encoders : encoders[e] = "garbage"
  /\ pc = "encoders" =>
       \A e \in Encoders : IF e < i THEN encoders[e] \in SetupEncoder
                                    ELSE encoders[e] = "garbage"

\* The bindings made are the first ones of the settings file.
BoundSoFar ==
  /\ Len(bound) <= NumBindings
  /\ \A j \in 1..Len(bound) : bound[j] = file.bindings[j]
  /\ pc \in {"general", "framesources", "encoders"} => bound = <<>>
  /\ pc = "bindings" => Len(bound) = i - 1

IInv ==
  TypeOK /\ StopsOnlyAtFaults /\ SourcesSoFar /\ EnabledSoFar /\ EncodersSoFar /\ BoundSoFar

-----------------------------------------------------------------------------
USE CountsAssumption, GarbageAssumption, ListsAssumption, SettingsAssumption

LEMMA InitIInv == Init => IInv
<1> SUFFICES ASSUME Init PROVE IInv
  OBVIOUS
<1> USE DEF Init, Sources, Encoders
<1>1. TypeOK
  BY DEF TypeOK, Num, Places
<1>2. StopsOnlyAtFaults /\ SourcesSoFar /\ EnabledSoFar /\ EncodersSoFar /\ BoundSoFar
  BY DEF StopsOnlyAtFaults, SourcesSoFar, EnabledSoFar, EncodersSoFar, BoundSoFar, Num
<1> QED BY <1>1, <1>2 DEF IInv

LEMMA ListEndsTyped ==
  ASSUME TypeOK, NEW list \in DOMAIN Num, NEW next \in Places, ListEnds(list, next),
         encoders' \in [Encoders -> {"ok", "nochan", "unregistered", "garbage"}]
  PROVE  TypeOK'
BY DEF TypeOK, ListEnds, At, Enter, settings, hardware, Num

LEMMA TypeStep == TypeOK /\ [Next]_vars => TypeOK'
<1> SUFFICES ASSUME TypeOK, [Next]_vars PROVE TypeOK'
  OBVIOUS
<1> USE DEF At, Fail, Enter, NextEntry, settings, hardware
<1>1. CASE LoadGeneralSettings
  BY <1>1 DEF TypeOK, LoadGeneralSettings, Places, Num
<1>2. CASE LoadFramesource
  <2>1. i \in Sources /\ file.sources[i] \in Ids
    BY <1>2 DEF TypeOK, LoadFramesource, Sources, Num
  <2>2. sources' \in [Sources -> Ids \cup {Garbage}] /\ created' \subseteq Ids
    BY <1>2, <2>1 DEF TypeOK, LoadFramesource
  <2> QED BY <1>2, <2>1, <2>2 DEF TypeOK, LoadFramesource, Num
<1>3. CASE LoadEncoder
  <2>1. i \in Encoders
    BY <1>3 DEF TypeOK, LoadEncoder, Encoders, Num
  <2> QED BY <1>3, <2>1 DEF TypeOK, LoadEncoder, SetupEncoder, Num
<1>4. CASE LoadBinding
  <2>1. i \in 1..NumBindings
    BY <1>4 DEF TypeOK, LoadBinding, Num
  <2>2. file.bindings[i] \in Binding
    BY <2>1 DEF TypeOK, Binding
  <2>3. bound' \in Seq(Binding)
    <3>1. bound \in Seq(Binding) /\ bound' \in {bound, Append(bound, file.bindings[i])}
      BY <1>4 DEF TypeOK, LoadBinding, Binding
    <3> HIDE DEF Binding
    <3> QED BY <2>2, <3>1
  <2> QED BY <1>4, <2>1, <2>3 DEF TypeOK, LoadBinding, Binding, Num
<1>5. CASE EnableFramesource
  BY <1>5 DEF TypeOK, EnableFramesource, Num
<1>6. CASE FramesourcesEnabled
  BY <1>6 DEF TypeOK, FramesourcesEnabled, Places, Num
<1>7. CASE FramesourcesEnd \/ EncodersEnd \/ BindingsEnd
  <2>1. encoders' \in [Encoders -> {"ok", "nochan", "unregistered", "garbage"}]
    BY <1>7 DEF FramesourcesEnd, EncodersEnd, BindingsEnd, TypeOK
  <2>2. /\ "framesources" \in DOMAIN Num /\ "encoders" \in DOMAIN Num /\ "bindings" \in DOMAIN Num
        /\ "encoders" \in Places /\ "bindings" \in Places /\ "enable" \in Places
    BY DEF Num, Places
  <2> QED BY <1>7, <2>1, <2>2, ListEndsTyped DEF FramesourcesEnd, EncodersEnd, BindingsEnd
<1>8. CASE UNCHANGED vars
  BY <1>8 DEF TypeOK, vars, Num
<1> QED BY <1>1, <1>2, <1>3, <1>4, <1>5, <1>6, <1>7, <1>8 DEF Next

LEMMA IInvStep == IInv /\ [Next]_vars => IInv'
<1> SUFFICES ASSUME IInv, [Next]_vars PROVE IInv'
  OBVIOUS
<1>1. TypeOK'
  BY TypeStep DEF IInv
<1> USE DEF At, Fail, Enter, NextEntry, settings, hardware
<1>2. StopsOnlyAtFaults'
  <2>1. stop' = stop
    BY DEF Next, vars, LoadGeneralSettings, LoadFramesource, LoadEncoder, LoadBinding,
           EnableFramesource, FramesourcesEnabled, FramesourcesEnd, EncodersEnd,
           BindingsEnd, ListEnds
  <2> QED BY <2>1 DEF IInv, StopsOnlyAtFaults, Stopped
<1> USE DEF IInv
<1>3. CASE LoadGeneralSettings
  <2>1. /\ pc = "general" /\ i = 1 /\ i' = 1 /\ over = "running"
        /\ pc' = "framesources" \/ (pc' = "general" /\ over' = "crashed")
        /\ UNCHANGED <<file, stop, sources, encoders, created, bound, enabled>>
    BY <1>3 DEF LoadGeneralSettings, SourcesSoFar
  <2>2. SourcesSoFar'
    BY <2>1 DEF SourcesSoFar, Sources
  <2>3. EnabledSoFar'
    BY <2>1 DEF EnabledSoFar
  <2>4. EncodersSoFar' /\ BoundSoFar'
    BY <2>1 DEF EncodersSoFar, BoundSoFar
  <2> QED BY <1>1, <1>2, <2>2, <2>3, <2>4
<1>4. CASE LoadFramesource
  <2>1. /\ i \in Sources /\ file.sources[i] \in Ids
        /\ sources \in [Sources -> Ids \cup {Garbage}]
        /\ sources' = [sources EXCEPT ![i] = file.sources[i]]
        /\ pc = "framesources" /\ pc' = pc
    BY <1>4 DEF TypeOK, LoadFramesource, Sources, Num
  <2>2. SourcesSoFar'
    BY <1>4, <2>1 DEF LoadFramesource, TypeOK, SourcesSoFar, Sources
  <2>3. EnabledSoFar'
    <3>1. CASE over' = "running"
      <4>1. created' = created \cup {sources'[i]} /\ enabled' = enabled /\ over = "running"
        BY <1>4, <3>1 DEF LoadFramesource
      <4>2. ASSUME NEW c \in created' PROVE \E s \in Sources : sources'[s] = c
        <5>1. CASE c \in created
          <6>1. PICK s \in Sources : sources[s] = c
            BY <4>1, <5>1 DEF EnabledSoFar
          <6>2. c # Garbage /\ sources[i] = Garbage
            BY <2>1, <4>1, <5>1 DEF TypeOK, SourcesSoFar, Sources
          <6> QED BY <2>1, <6>1, <6>2
        <5> QED BY <2>1, <4>1, <4>2, <5>1
      <4> QED BY <2>1, <4>1, <4>2 DEF EnabledSoFar
    <3> QED BY <3>1 DEF EnabledSoFar
  <2>4. EncodersSoFar' /\ BoundSoFar'
    BY <1>4, <2>1 DEF LoadFramesource, EncodersSoFar, BoundSoFar
  <2> QED BY <1>1, <1>2, <2>2, <2>3, <2>4
<1>5. CASE LoadEncoder
  <2>1. i \in Encoders /\ pc = "encoders" /\ pc' = pc /\ i' = i + 1
    BY <1>5 DEF TypeOK, LoadEncoder, Encoders, Num
  <2>2. EncodersSoFar'
    BY <1>5, <2>1 DEF LoadEncoder, TypeOK, EncodersSoFar, Encoders
  <2>3. SourcesSoFar' /\ EnabledSoFar' /\ BoundSoFar'
    BY <1>5, <2>1 DEF LoadEncoder, SourcesSoFar, EnabledSoFar, BoundSoFar
  <2> QED BY <1>1, <1>2, <2>2, <2>3
<1>6. CASE LoadBinding
  <2>1. pc = "bindings" /\ pc' = pc
    BY <1>6 DEF LoadBinding
  <2>2. SourcesSoFar' /\ EnabledSoFar' /\ EncodersSoFar'
    BY <1>6, <2>1 DEF LoadBinding, SourcesSoFar, EnabledSoFar, EncodersSoFar
  <2>3. BoundSoFar'
    <3>1. i \in 1..NumBindings /\ Len(bound) = i - 1 /\ bound \in Seq(Binding)
      BY <1>6, <2>1 DEF TypeOK, LoadBinding, BoundSoFar, Binding, Num
    <3>2. CASE bound' = Append(bound, file.bindings[i]) /\ i' = i + 1
      <4>1. file.bindings[i] \in Binding
        BY <3>1 DEF TypeOK, Binding
      <4>2. /\ Len(bound') = i
            /\ \A j \in 1..Len(bound) : bound'[j] = bound[j]
            /\ bound'[i] = file.bindings[i]
        BY <3>1, <3>2, <4>1
      <4> QED BY <1>6, <2>1, <3>1, <3>2, <4>2 DEF LoadBinding, BoundSoFar
    <3>3. CASE UNCHANGED <<bound, i>>
      BY <1>6, <2>1, <3>3 DEF LoadBinding, BoundSoFar
    <3> QED BY <1>6, <3>2, <3>3 DEF LoadBinding
  <2> QED BY <1>1, <1>2, <2>2, <2>3
<1>7. CASE EnableFramesource
  <2>1. pc = "enable" /\ pc' = pc /\ i \in Sources /\ over = "running"
    BY <1>7 DEF TypeOK, EnableFramesource, Sources
  <2>2. SourcesSoFar' /\ EncodersSoFar' /\ BoundSoFar'
    BY <1>7, <2>1 DEF EnableFramesource, SourcesSoFar, EncodersSoFar, BoundSoFar
  <2>3. EnabledSoFar'
    <3>1. CASE over' = "running"
      <4>1. PICK id \in created : sources[i] \in {id, Garbage} /\ enabled' = enabled \cup {id}
        BY <1>7, <3>1 DEF EnableFramesource
      <4>2. i' = i + 1 /\ UNCHANGED <<sources, created>>
        BY <1>7, <3>1 DEF EnableFramesource
      <4> QED BY <2>1, <4>1, <4>2 DEF EnabledSoFar, Sources
    <3> QED BY <3>1 DEF EnabledSoFar
  <2> QED BY <1>1, <1>2, <2>2, <2>3
<1>8. CASE FramesourcesEnabled
  <2>1. SourcesSoFar' /\ EncodersSoFar' /\ BoundSoFar'
    BY <1>8 DEF FramesourcesEnabled, SourcesSoFar, EncodersSoFar, BoundSoFar
  <2>2. EnabledSoFar'
    BY <1>8 DEF FramesourcesEnabled, EnabledSoFar, TypeOK, Sources
  <2> QED BY <1>1, <1>2, <2>1, <2>2
<1>9. CASE FramesourcesEnd
  <2>1. /\ pc = "framesources" /\ i = stop["framesources"] /\ over = "running"
        /\ UNCHANGED <<stop, file, sources, encoders, created, bound, enabled>>
        /\ \/ pc' = "encoders" /\ i' = 1 /\ UNCHANGED over
           \/ over' = "crashed" /\ UNCHANGED <<pc, i>>
    BY <1>9 DEF FramesourcesEnd, ListEnds
  <2>2. SourcesSoFar' /\ EnabledSoFar'
    BY <2>1 DEF SourcesSoFar, EnabledSoFar
  <2>3. EncodersSoFar' /\ BoundSoFar'
    BY <2>1 DEF EncodersSoFar, BoundSoFar, Encoders
  <2> QED BY <1>1, <1>2, <2>2, <2>3
<1>10. CASE EncodersEnd
  <2>1. /\ pc = "encoders" /\ over = "running" /\ bound = <<>>
        /\ UNCHANGED <<stop, file, sources, created, bound, enabled>>
        /\ \/ pc' = "bindings" /\ i' = 1 /\ UNCHANGED over
           \/ over' = "crashed" /\ UNCHANGED <<pc, i, encoders>>
    BY <1>10 DEF EncodersEnd, ListEnds, BoundSoFar
  <2>2. SourcesSoFar' /\ EnabledSoFar'
    BY <2>1 DEF SourcesSoFar, EnabledSoFar
  <2>3. EncodersSoFar' /\ BoundSoFar'
    BY <2>1 DEF EncodersSoFar, BoundSoFar
  <2> QED BY <1>1, <1>2, <2>2, <2>3
<1>11. CASE BindingsEnd
  <2>1. /\ pc = "bindings" /\ over = "running"
        /\ UNCHANGED <<stop, file, sources, encoders, created, bound, enabled>>
        /\ \/ pc' = "enable" /\ i' = 1 /\ UNCHANGED over
           \/ over' = "crashed" /\ UNCHANGED <<pc, i>>
    BY <1>11 DEF BindingsEnd, ListEnds
  <2>2. SourcesSoFar' /\ EncodersSoFar' /\ BoundSoFar'
    BY <2>1 DEF SourcesSoFar, EncodersSoFar, BoundSoFar
  <2>3. EnabledSoFar'
    BY <2>1 DEF EnabledSoFar, Sources
  <2> QED BY <1>1, <1>2, <2>2, <2>3
<1>12. CASE UNCHANGED vars
  BY <1>1, <1>2, <1>12 DEF vars, SourcesSoFar, EnabledSoFar, EncodersSoFar, BoundSoFar
<1> QED BY <1>3, <1>4, <1>5, <1>6, <1>7, <1>8, <1>9, <1>10, <1>11, <1>12 DEF Next

LEMMA ConfigurationInductive == Spec => []IInv
BY InitIInv, IInvStep, PTL DEF Spec

-----------------------------------------------------------------------------
\* The loops stay within their lists and the arrays, whatever the lists hold
\* and wherever they stop.
THEOREM TypeCorrect == Spec => []TypeOK
<1>1. IInv => TypeOK
  BY DEF IInv
<1> QED BY <1>1, ConfigurationInductive, PTL

\* A settings file that lists output 0 of a frame source before its output 1
\* has them bound in this order, however much of it could be parsed.
THEOREM BoundInOrderHolds == Spec => []BoundInOrder
<1>1. IInv => BoundInOrder
  <2> SUFFICES ASSUME IInv, InOrder(file.bindings, NumBindings) PROVE InOrder(bound, Len(bound))
    BY DEF BoundInOrder
  <2>1. /\ Len(bound) \in Nat /\ Len(bound) <= NumBindings
        /\ \A j \in 1..Len(bound) : bound[j] = file.bindings[j]
    BY DEF IInv, TypeOK, BoundSoFar
  <2> QED BY <2>1 DEF InOrder
<1> QED BY <1>1, ConfigurationInductive, PTL

\* The process does not start its threads with a created frame source missing.
THEOREM EnabledAsCreatedHolds == Spec => []EnabledAsCreated
<1>1. IInv => EnabledAsCreated
  <2> SUFFICES ASSUME IInv, over = "running", pc = "spawn_audio" PROVE enabled = created
    BY DEF EnabledAsCreated
  <2>1. /\ created \subseteq Ids /\ enabled \subseteq created
        /\ \A c \in created : \E s \in Sources : sources[s] = c
        /\ \A s \in Sources : sources[s] \in Ids => sources[s] \in enabled
    BY DEF IInv, TypeOK, EnabledSoFar
  <2>2. created \subseteq enabled
    BY <2>1
  <2> QED BY <2>1, <2>2
<1> QED BY <1>1, ConfigurationInductive, PTL

\* The OSD thread only reads what Configuration sets up: all of this section
\* holds of Startup, too.
THEOREM StartupConfigures == StartupSpec => Spec
<1>1. StartupInit => Init
  BY DEF StartupInit
<1>2. [StartupNext]_startupVars => [Next]_vars
  BY DEF StartupNext, ConfigurationStep, SigintHandler, SpawnOsd, OsdStep, startupVars
<1> QED BY <1>1, <1>2, PTL DEF StartupSpec, Spec

-----------------------------------------------------------------------------
(* The refinement: each list, taken entry by entry, leaves what Videocapture *)
(* says of it.                                                               *)

observed == <<pc, over, general, Flowing, EncSetup>>

\* An entry that crashes the process is one Videocapture has for its list.
LEMMA EndsCrashed ==
  ASSUME NEW list \in {"framesources", "encoders", "bindings"},
         StopsOnlyAtFaults, pc = list, over = "running", Stopped(list), over' = "crashed",
         UNCHANGED <<pc, stop, general, encoders>>
  PROVE  V!LoadFramesources \/ V!LoadEncoders \/ V!LoadBindings
<1>1. MayFail("populate")
  BY DEF StopsOnlyAtFaults, Num
<1>2. UNCHANGED <<Flowing, EncSetup>>
  BY DEF Flowing, EncSetup, Stopped
<1> QED
  BY <1>1, <1>2 DEF V!LoadFramesources, V!LoadEncoders, V!LoadBindings, V!LoadList,
     V!MayFail, MayFail, V!config, V!threads

\* Every step that is seen at all is the step of Videocapture for its list.
THEOREM LoadsAsVideocaptureHolds == Spec => LoadsAsVideocapture
<1>1. ASSUME IInv, Next PROVE V!Next \/ UNCHANGED observed
  <2> USE DEF observed, At, Fail, Enter, NextEntry, MayFail, V!MayFail, settings, hardware,
              V!config, V!threads
  <2> USE <1>1 DEF IInv
  <2>0. UNCHANGED stop
    BY DEF Next, LoadGeneralSettings, LoadFramesource, LoadEncoder, LoadBinding,
           EnableFramesource, FramesourcesEnabled, FramesourcesEnd, EncodersEnd,
           BindingsEnd, ListEnds
  <2>1. CASE LoadGeneralSettings
    <3>1. /\ pc = "general" /\ over = "running"
          /\ pc' = "framesources" \/ (pc' = "general" /\ over' = "crashed")
          /\ UNCHANGED encoders
      BY <2>1 DEF LoadGeneralSettings
    <3>2. UNCHANGED <<Flowing, EncSetup>>
      BY <2>0, <3>1 DEF Flowing, EncSetup
    <3>3. V!LoadGeneralSettings
      BY <2>1, <3>1, <3>2 DEF LoadGeneralSettings, V!LoadGeneralSettings
    <3> QED BY <3>3 DEF V!Next, V!MainStep
  <2>2. CASE LoadFramesource
    <3>1. /\ pc = "framesources" /\ over = "running" /\ UNCHANGED <<pc, general, encoders>>
          /\ UNCHANGED over \/ (MayFail("framesource") /\ over' = "failed")
      BY <2>2 DEF LoadFramesource
    <3>2. UNCHANGED <<Flowing, EncSetup>>
      BY <2>0, <3>1 DEF Flowing, EncSetup, Stopped
    <3>3. UNCHANGED observed \/ V!LoadFramesources
      BY <3>1, <3>2 DEF V!LoadFramesources, V!LoadList
    <3> QED BY <3>3 DEF V!Next, V!MainStep
  <2>3. CASE FramesourcesEnd
    <3>0. /\ pc = "framesources" /\ over = "running" /\ UNCHANGED <<general, encoders>>
          /\ \/ pc' = "encoders" /\ UNCHANGED over
             \/ Stopped("framesources") /\ over' = "crashed" /\ UNCHANGED pc
      BY <2>3 DEF FramesourcesEnd, ListEnds
    <3>6. CASE over' = "crashed"
      BY <2>0, <3>0, <3>6, EndsCrashed DEF V!Next, V!MainStep
    <3> SUFFICES ASSUME over' # "crashed" PROVE V!Next \/ UNCHANGED observed
      BY <3>6
    <3>1. /\ pc = "framesources" /\ over = "running" /\ pc' = "encoders"
          /\ UNCHANGED <<over, general, encoders>>
      BY <3>0
    <3>2. Flowing /\ Flowing' = ~Stopped("framesources") /\ UNCHANGED EncSetup
      BY <2>0, <3>1 DEF Flowing, EncSetup, Stopped
    <3>3. Stopped("framesources") => MayFail("populate")
      BY DEF StopsOnlyAtFaults, Num
    <3>4. CASE Stopped("framesources")
      <4>1. Flowing' = FALSE
        BY <3>2, <3>4
      <4> QED
        BY <3>1, <3>2, <3>3, <3>4, <4>1 DEF V!LoadFramesources, V!LoadList, V!Next, V!MainStep
    <3>5. CASE ~Stopped("framesources")
      <4>1. UNCHANGED Flowing
        BY <3>2, <3>5 DEF Flowing
      <4> QED
        BY <3>1, <3>2, <4>1 DEF V!LoadFramesources, V!LoadList, V!Next, V!MainStep
    <3> QED BY <3>4, <3>5
  <2>4. CASE LoadEncoder
    BY <2>0, <2>4 DEF LoadEncoder, Flowing, EncSetup, Stopped
  <2>5. CASE EncodersEnd
    <3>0. /\ pc = "encoders" /\ over = "running" /\ i = stop["encoders"]
          /\ UNCHANGED general
          /\ \/ /\ pc' = "bindings" /\ UNCHANGED over
                /\ \/ UNCHANGED encoders
                   \/ encoders' = [encoders EXCEPT ![i] = "nochan"]
             \/ Stopped("encoders") /\ over' = "crashed" /\ UNCHANGED <<pc, encoders>>
      BY <2>5 DEF EncodersEnd, ListEnds
    <3>10. CASE over' = "crashed"
      BY <2>0, <3>0, <3>10, EndsCrashed DEF V!Next, V!MainStep
    <3> SUFFICES ASSUME over' # "crashed" PROVE V!Next \/ UNCHANGED observed
      BY <3>10
    <3>1. pc' = "bindings" /\ UNCHANGED over
      BY <3>0
    <3>2. UNCHANGED Flowing
      BY <2>0, <3>0, <3>1 DEF Flowing, Stopped
    <3>3. Stopped("encoders") => MayFail("populate")
      BY DEF StopsOnlyAtFaults, Num
    <3> DEFINE left == [e \in Encoders |-> IF e < i THEN encoders[e] ELSE "ok"]
    <3>4. left \in [Encoders -> SetupEncoder]
      BY <3>0 DEF EncodersSoFar, SetupEncoder
    <3>5. i \in 1..NumEncoders + 1 /\ (i <= NumEncoders => MayFail("populate"))
      BY <3>0, <3>3 DEF TypeOK, Stopped, Num
    <3>6. \E half \in {"garbage", "nochan"} :
            EncSetup' = [e \in Encoders |-> IF e > i THEN "garbage"
                                           ELSE IF e = i THEN half ELSE left[e]]
      <4>1. EncSetup' = encoders' /\ encoders' = [e \in Encoders |-> encoders'[e]]
        BY <3>0, <3>1 DEF EncSetup, TypeOK
      <4>2. \A e \in Encoders : encoders[e] = IF e >= i THEN "garbage" ELSE left[e]
        BY <3>0, <3>5 DEF EncodersSoFar, Encoders
      <4>3. encoders \in [Encoders -> {"ok", "nochan", "unregistered", "garbage"}]
        BY DEF TypeOK
      <4> HIDE DEF left
      <4>4. PICK half \in {"garbage", "nochan"} :
              \A e \in Encoders : encoders'[e] = IF e > i THEN "garbage"
                                                ELSE IF e = i THEN half ELSE left[e]
        <5>1. CASE UNCHANGED encoders
          <6>1. \A e \in Encoders : encoders'[e] = IF e > i THEN "garbage"
                                                ELSE IF e = i THEN "garbage" ELSE left[e]
            BY <3>5, <4>2, <5>1 DEF Encoders
          <6> QED BY <6>1
        <5>2. CASE encoders' = [encoders EXCEPT ![i] = "nochan"]
          <6>1. \A e \in Encoders : encoders'[e] = IF e > i THEN "garbage"
                                                ELSE IF e = i THEN "nochan" ELSE left[e]
            BY <3>5, <4>2, <4>3, <5>2 DEF Encoders
          <6> QED BY <6>1
        <5> QED BY <3>0, <3>1, <5>1, <5>2
      <4>5. EncSetup' = [e \in Encoders |-> IF e > i THEN "garbage"
                                           ELSE IF e = i THEN half ELSE left[e]]
        BY <4>1, <4>4
      <4> QED BY <4>5
    <3>7. V!Encoders = Encoders /\ V!SetupEncoder = SetupEncoder
      BY DEF V!Encoders, Encoders, V!SetupEncoder, SetupEncoder
    <3> HIDE DEF left
    <3>8. \E k \in 1..NumEncoders + 1, half \in {"garbage", "nochan"},
            l \in [V!Encoders -> V!SetupEncoder] :
            /\ k <= NumEncoders => MayFail("populate")
            /\ EncSetup' = [e \in V!Encoders |-> IF e > k THEN "garbage"
                                                ELSE IF e = k THEN half ELSE l[e]]
      BY <3>4, <3>5, <3>6, <3>7
    <3>9. V!LoadEncoders
      BY <3>0, <3>1, <3>2, <3>8 DEF V!LoadEncoders
    <3> QED BY <3>9 DEF V!Next, V!MainStep
  <2>6. CASE LoadBinding
    <3>1. /\ pc = "bindings" /\ over = "running" /\ UNCHANGED <<pc, general, encoders>>
          /\ UNCHANGED over \/ (MayFail("bind") /\ over' = "failed")
      BY <2>6 DEF LoadBinding
    <3>2. UNCHANGED <<Flowing, EncSetup>>
      BY <2>0, <3>1 DEF Flowing, EncSetup, Stopped
    <3>3. UNCHANGED observed \/ V!LoadBindings
      BY <3>1, <3>2 DEF V!LoadBindings, V!LoadList
    <3> QED BY <3>3 DEF V!Next, V!MainStep
  <2>7. CASE BindingsEnd
    <3>0. /\ pc = "bindings" /\ over = "running" /\ UNCHANGED <<general, encoders>>
          /\ \/ pc' = "enable" /\ UNCHANGED over
             \/ Stopped("bindings") /\ over' = "crashed" /\ UNCHANGED pc
      BY <2>7 DEF BindingsEnd, ListEnds
    <3>6. CASE over' = "crashed"
      BY <2>0, <3>0, <3>6, EndsCrashed DEF V!Next, V!MainStep
    <3> SUFFICES ASSUME over' # "crashed" PROVE V!Next \/ UNCHANGED observed
      BY <3>6
    <3>1. /\ pc = "bindings" /\ over = "running" /\ pc' = "enable"
          /\ UNCHANGED <<over, general, encoders>>
      BY <3>0
    <3>2. UNCHANGED EncSetup /\ Flowing' = (Flowing /\ ~Stopped("bindings"))
      BY <2>0, <3>1 DEF Flowing, EncSetup, Stopped
    <3>3. Stopped("bindings") => MayFail("populate")
      BY DEF StopsOnlyAtFaults, Num
    <3>4. CASE Stopped("bindings")
      <4>1. Flowing' = FALSE
        BY <3>2, <3>4
      <4> QED
        BY <3>1, <3>2, <3>3, <3>4, <4>1 DEF V!LoadBindings, V!LoadList, V!Next, V!MainStep
    <3>5. CASE ~Stopped("bindings")
      <4>1. UNCHANGED Flowing
        BY <3>2, <3>5 DEF Flowing
      <4> QED
        BY <3>1, <3>2, <4>1 DEF V!LoadBindings, V!LoadList, V!Next, V!MainStep
    <3> QED BY <3>4, <3>5
  <2>8. CASE EnableFramesource
    <3>1. /\ pc = "enable" /\ over = "running" /\ UNCHANGED <<pc, general, encoders>>
          /\ \/ UNCHANGED over
             \/ (MayFail("enable") \/ sources[i] = Garbage) /\ over' = "failed"
      BY <2>8 DEF EnableFramesource
    <3>2. UNCHANGED <<Flowing, EncSetup>>
      BY <2>0, <3>1 DEF Flowing, EncSetup, Stopped
    <3>3. sources[i] = Garbage => ~Flowing
      <4>1. i \in Sources
        BY <2>8 DEF EnableFramesource, TypeOK, Sources
      <4> QED BY <3>1, <4>1 DEF SourcesSoFar, Flowing, Stopped, TypeOK, Num, Sources
    <3>4. UNCHANGED observed \/ V!EnableFramesources
      BY <3>1, <3>2, <3>3 DEF V!EnableFramesources
    <3> QED BY <3>4 DEF V!Next, V!MainStep
  <2>9. CASE FramesourcesEnabled
    <3>1. /\ pc = "enable" /\ over = "running" /\ UNCHANGED <<general, encoders>>
          /\ \/ pc' = "spawn_audio" /\ UNCHANGED over
             \/ MayFail("enable") /\ over' = "failed" /\ UNCHANGED pc
      BY <2>9 DEF FramesourcesEnabled
    <3>2. UNCHANGED <<Flowing, EncSetup>>
      BY <2>0, <3>1 DEF Flowing, EncSetup, Stopped
    <3>3. V!EnableFramesources
      BY <3>1, <3>2 DEF V!EnableFramesources
    <3> QED BY <3>3 DEF V!Next, V!MainStep
  <2> QED BY <2>1, <2>2, <2>3, <2>4, <2>5, <2>6, <2>7, <2>8, <2>9 DEF Next
<1>2. UNCHANGED vars => UNCHANGED observed
  BY DEF vars, settings, observed, Flowing, EncSetup, Stopped
<1>3. IInv /\ [Next]_vars => [V!Next]_observed
  BY <1>1, <1>2
<1> QED BY <1>3, ConfigurationInductive, PTL DEF Spec, LoadsAsVideocapture, observed
===============================================================================
