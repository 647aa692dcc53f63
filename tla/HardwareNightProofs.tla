-------------------------- MODULE HardwareNightProofs --------------------------
(***************************************************************************)
(* Proofs about HardwareNight for every set of readings, whatever -n, -O and *)
(* -F ask for.                                                               *)
(***************************************************************************)
EXTENDS HardwareNight, FiniteSetTheorems, WellFoundedInduction, TLAPS

USE ValuesAssumption, SizesAssumption

\* A cell outside the memory is one of a window larger than the default.
LEMMA Outside ==
  ASSUME TypeOK, windowIndex \notin Memory
  PROVE  windowSize > Allocated
<1>1. windowSize \in Int /\ windowIndex \in {0} \cup Slots(windowSize)
  BY DEF TypeOK
<1> QED BY <1>1 DEF Slots, Memory, Allocated

LEMMA StoreTyped ==
  ASSUME TypeOK, NEW value \in Values, Store(value)
  PROVE  /\ window' \in [Memory -> Values \cup {0}]
         /\ windowIndex' \in {0} \cup Slots(windowSize)
         /\ windowFull' \in BOOLEAN
         /\ memory' \in {"sound", "overrun", "crashed"}
         /\ memory' # "sound" => windowSize > Allocated
<1>1. windowSize \in Int /\ windowIndex \in {0} \cup Slots(windowSize) /\ windowIndex \in Int
  BY DEF TypeOK, Slots
<1>2. /\ window' \in [Memory -> Values \cup {0}]
      /\ memory' \in {"sound", "overrun", "crashed"}
      /\ memory' # "sound" => windowSize > Allocated
  <2>1. CASE windowIndex \in Memory
    BY <2>1 DEF TypeOK, Store, Put
  <2>2. CASE windowIndex \notin Memory
    BY <2>2, Outside DEF TypeOK, Store, Put
  <2> QED BY <2>1, <2>2
<1>3. windowIndex' \in {0} \cup Slots(windowSize)
  BY <1>1 DEF Store, Slots
<1>4. windowFull' \in BOOLEAN
  BY <1>1 DEF TypeOK, Store
<1> QED BY <1>2, <1>3, <1>4

LEMMA DecideTyped ==
  ASSUME TypeOK, Decide
  PROVE  night' \in BOOLEAN
<1> DEFINE sum == SumFunctionOnSet(window', Slots(windowSize))
           high == AverageAtLeast(sum, ThresholdOff)
           low == AverageAtMost(sum, ThresholdOn)
<1>1. night \in BOOLEAN
  BY DEF TypeOK
<1>2. high \in BOOLEAN /\ low \in BOOLEAN
  BY Zenon DEF AverageAtLeast, AverageAtMost
<1>3. \/ UNCHANGED night
      \/ night' \in BOOLEAN
      \/ night' = IF night THEN ~high ELSE low
  BY Zenon DEF Decide, DecideFrom
<1> HIDE DEF high, low
<1>4. (IF night THEN ~high ELSE low) \in BOOLEAN
  BY <1>2
<1> QED BY <1>1, <1>3, <1>4

LEMMA RememberTyped ==
  ASSUME TypeOK, NEW value \in Values, Remember(value)
  PROVE  last' \in Values \cup {0} /\ same' \in Nat
BY DEF TypeOK, Remember

LEMMA TypeInit == Init => TypeOK
<1> SUFFICES ASSUME Init PROVE TypeOK
  OBVIOUS
<1>1. windowFull \in BOOLEAN /\ night \in BOOLEAN /\ blind \in BOOLEAN
  BY Zenon DEF Init
<1>2. window \in [Memory -> Values \cup {0}] /\ memory = "sound"
  BY DEF Init
<1> QED BY <1>1, <1>2 DEF Init, TypeOK

LEMMA TypeStep == TypeOK /\ [Next]_vars => TypeOK'
<1> SUFFICES ASSUME TypeOK, [Next]_vars PROVE TypeOK'
  OBVIOUS
<1>1. CASE LightChanges \/ DeviceChanges \/ ReadFails \/ UNCHANGED vars
  BY <1>1 DEF TypeOK, LightChanges, DeviceChanges, ReadFails, vars, samples
<1>2. CASE Crash
  <2>1. windowSize > Allocated
    BY <1>2, Outside DEF Crash, TypeOK
  <2> QED BY <1>2, <2>1 DEF TypeOK, Crash
<1>3. CASE Sample
  <2>1. PICK value \in Values : Store(value) /\ Decide /\ Remember(value)
    BY <1>3 DEF Sample, TypeOK
  <2>2. blind' = ~usable /\ UNCHANGED <<level, usable, windowSize>>
    BY <1>3 DEF Sample
  <2>3. blind' \in BOOLEAN
    BY <2>2, Zenon
  <2> QED
    BY <2>1, <2>2, <2>3, StoreTyped, DecideTyped, RememberTyped DEF TypeOK
<1> QED BY <1>1, <1>2, <1>3 DEF Next

\* Whatever -n asks for, the index stays inside the window it is used for, the
\* window keeps only readings, and a sample is stored beyond the memory only by
\* a window larger than the default (autonight.c:127, 150-151, 210-215).
THEOREM TypeCorrect == Spec => []TypeOK
BY TypeInit, TypeStep, PTL DEF Spec
-----------------------------------------------------------------------------
(* The loop over the window (autonight.c:218-220).  SumFunction is a recursive *)
(* function over the subsets of the slots; Sums(w) says that f satisfies its   *)
(* equation, and what follows is proved by looking at a smallest set of slots  *)
(* for which it would fail.                                                    *)

Pick(s) == CHOOSE x \in s : TRUE

\* One step of the recursion, from the sums of smaller sets.
Added(w, f, s) == IF s = {} THEN 0 ELSE w[Pick(s)] + f[s \ {Pick(s)}]

\* The sets of at most n of the N slots.
Small(N, n) == {s \in SUBSET Slots(N) : Cardinality(s) <= n}

\* f sums w over every set of at most n slots.
Sums(N, w, f, n) == f = [s \in Small(N, n) |-> Added(w, f, s)]

LEMMA SlotsFinite ==
  ASSUME NEW N \in Nat
  PROVE
  /\ IsFiniteSet(Slots(N)) /\ Cardinality(Slots(N)) = N
  /\ \A s \in SUBSET Slots(N) : IsFiniteSet(s) /\ Cardinality(s) \in 0..N
<1>1. IsFiniteSet(Slots(N)) /\ Cardinality(Slots(N)) = N
  BY FS_Interval DEF Slots
<1>2. ASSUME NEW s \in SUBSET Slots(N)
      PROVE  IsFiniteSet(s) /\ Cardinality(s) \in 0..N
  BY <1>1, FS_Subset, FS_CardinalityType
<1> QED BY <1>1, <1>2

\* A slot taken out of a non-empty set leaves a smaller set.
LEMMA PickShrinks ==
  ASSUME NEW N \in Nat, NEW s \in SUBSET Slots(N), s # {}
  PROVE  /\ Pick(s) \in s /\ Pick(s) \in Slots(N)
         /\ s \ {Pick(s)} \in SUBSET Slots(N)
         /\ Cardinality(s) \in 1..N
         /\ Cardinality(s \ {Pick(s)}) = Cardinality(s) - 1
<1>1. Pick(s) \in s
  BY DEF Pick
<1>2. IsFiniteSet(s) /\ Cardinality(s) \in 0..N
  BY SlotsFinite
<1>3. Cardinality(s \ {Pick(s)}) = Cardinality(s) - 1
  BY <1>1, <1>2, FS_RemoveElement
<1>4. Cardinality(s) # 0
  BY <1>2, FS_EmptySet
<1> QED BY <1>1, <1>2, <1>3, <1>4

\* A non-empty set of numbers has a least one.
LEMMA LeastNumber ==
  ASSUME NEW T, T \subseteq Nat, T # {}
  PROVE  \E n \in T : \A m \in Nat : m < n => m \notin T
<1>1. PICK n \in T : \A m \in T : <<m, n>> \notin OpToRel(<, Nat)
  BY NatLessThanWellFounded, WFMin, Zenon
<1>2. ASSUME NEW m \in Nat, m < n, m \in T
      PROVE  FALSE
  <2>1. <<m, n>> \in Nat \X Nat /\ <<m, n>>[1] < <<m, n>>[2]
    BY <1>2
  <2> QED BY <1>1, <1>2, <2>1 DEF OpToRel
<1> QED BY <1>1, <1>2

\* The recursion has a solution: sums of at most n slots extend to n + 1.
LEMMA SumsExist ==
  ASSUME NEW N \in Nat, NEW w
  PROVE  \E f : Sums(N, w, f, N)
<1> DEFINE Missing == {n \in Nat : ~ \E f : Sums(N, w, f, n)}
<1> SUFFICES ASSUME Missing # {} PROVE FALSE
  OBVIOUS
<1>1. PICK n \in Missing : \A m \in Nat : m < n => m \notin Missing
  BY LeastNumber
<1>2. n # 0
  <2> SUFFICES ASSUME n = 0 PROVE FALSE
    OBVIOUS
  <2> DEFINE f == [s \in Small(N, 0) |-> 0]
  <2>1. ASSUME NEW s \in Small(N, 0) PROVE s = {}
    BY SlotsFinite, FS_EmptySet DEF Small
  <2>2. Sums(N, w, f, 0)
    BY <2>1, Zenon DEF Sums, Added
  <2> QED BY <1>1, <2>2
<1>3. n - 1 \in Nat /\ n - 1 < n
  BY <1>2
<1>4. PICK f : Sums(N, w, f, n - 1)
  BY <1>1, <1>3
<1> DEFINE g == [s \in Small(N, n) |-> Added(w, f, s)]
<1>5. ASSUME NEW s \in Small(N, n), s # {}
      PROVE  f[s \ {Pick(s)}] = g[s \ {Pick(s)}]
  <2> DEFINE t == s \ {Pick(s)}
  <2>1. t \in Small(N, n) /\ t \in Small(N, n - 1)
    BY <1>5, PickShrinks, SlotsFinite DEF Small
  <2>2. f[t] = Added(w, f, t)
    BY <1>4, <2>1, Zenon DEF Sums
  <2>3. g[t] = Added(w, f, t)
    BY <2>1, Zenon
  <2> QED BY <2>2, <2>3
<1>6. ASSUME NEW s \in Small(N, n)
      PROVE  Added(w, f, s) = Added(w, g, s)
  BY <1>5, Zenon DEF Added
<1>7. Sums(N, w, g, n)
  BY <1>6, Zenon DEF Sums
<1> QED BY <1>1, <1>7

\* Between the bounds of the readings, a set of slots sums to as much.
LEMMA SumsBetween ==
  ASSUME NEW N \in Nat, NEW w, NEW lo \in Int, NEW hi \in Int,
         \A i \in Slots(N) : w[i] \in Int /\ lo <= w[i] /\ w[i] <= hi,
         NEW f, Sums(N, w, f, N)
  PROVE  \A s \in SUBSET Slots(N) :
           /\ f[s] \in Int
           /\ lo * Cardinality(s) <= f[s] /\ f[s] <= hi * Cardinality(s)
<1> DEFINE Between(s) ==
             /\ f[s] \in Int
             /\ lo * Cardinality(s) <= f[s] /\ f[s] <= hi * Cardinality(s)
           Bad == {n \in Nat : \E s \in SUBSET Slots(N) : Cardinality(s) = n /\ ~Between(s)}
<1>1. ASSUME NEW s \in SUBSET Slots(N)
      PROVE  f[s] = Added(w, f, s)
  <2>1. s \in Small(N, N)
    BY SlotsFinite DEF Small
  <2> QED BY <2>1, Zenon DEF Sums
<1>2. Bad = {}
  <2> SUFFICES ASSUME Bad # {} PROVE FALSE
    OBVIOUS
  <2> HIDE DEF Between
  <2>1. PICK n \in Bad : \A m \in Nat : m < n => m \notin Bad
    BY LeastNumber
  <2>2. PICK s \in SUBSET Slots(N) : Cardinality(s) = n /\ ~Between(s)
    BY <2>1
  <2>3. CASE s = {}
    <3>1. f[s] = 0 /\ Cardinality(s) = 0
      BY <1>1, <2>3, FS_EmptySet, Zenon DEF Added
    <3> QED BY <2>2, <3>1 DEF Between
  <2>4. CASE s # {}
    <3> DEFINE x == Pick(s)
               t == s \ {x}
    <3>1. /\ x \in Slots(N) /\ t \in SUBSET Slots(N)
          /\ Cardinality(t) = Cardinality(s) - 1 /\ Cardinality(t) \in Nat
      BY <2>4, PickShrinks, SlotsFinite
    <3>2. Between(t)
      BY <2>1, <2>2, <3>1
    <3>3. f[s] = w[x] + f[t]
      BY <1>1, <2>4, Zenon DEF Added
    <3>4. w[x] \in Int /\ lo <= w[x] /\ w[x] <= hi
      BY <3>1
    <3> HIDE DEF x, t
    <3> DEFINE k == Cardinality(t)
    <3>5. Cardinality(s) = k + 1 /\ k \in Nat
      BY <3>1, SlotsFinite
    <3>6. f[t] \in Int /\ lo * k <= f[t] /\ f[t] <= hi * k
      BY <3>2 DEF Between
    <3> HIDE DEF k
    <3>7. lo * (k + 1) = lo * k + lo /\ hi * (k + 1) = hi * k + hi
      BY <3>5
    <3>8. lo * k \in Int /\ hi * k \in Int
      BY <3>5
    <3>9. lo * (k + 1) <= w[x] + f[t] /\ w[x] + f[t] <= hi * (k + 1)
      BY <3>4, <3>6, <3>7, <3>8
    <3>10. f[s] \in Int
      BY <3>3, <3>4, <3>6
    <3> QED BY <2>2, <3>3, <3>5, <3>9, <3>10 DEF Between
  <2> QED BY <2>3, <2>4
<1>3. ASSUME NEW s \in SUBSET Slots(N)
      PROVE  Between(s)
  <2>1. Cardinality(s) \in Nat
    BY SlotsFinite
  <2> QED BY <1>2, <2>1
<1> QED BY <1>3

\* What the loop leaves in windowAvg, times the size of the window, lies
\* between the smallest and the largest reading, times that size.
LEMMA WindowSum ==
  ASSUME NEW N \in Nat, NEW w, NEW lo \in Int, NEW hi \in Int,
         \A i \in Slots(N) : w[i] \in Int /\ lo <= w[i] /\ w[i] <= hi
  PROVE  /\ SumFunctionOnSet(w, Slots(N)) \in Int
         /\ lo * N <= SumFunctionOnSet(w, Slots(N))
         /\ SumFunctionOnSet(w, Slots(N)) <= hi * N
<1> DEFINE F == CHOOSE f : f = [s \in SUBSET Slots(N) |-> Added(w, f, s)]
<1>2. SumFunctionOnSet(w, Slots(N)) = F[Slots(N)]
  BY Zenon DEF SumFunctionOnSet, FoldFunctionOnSet,
     MapThenFoldSet, Added, Pick
<1>3. Small(N, N) = SUBSET Slots(N)
  BY SlotsFinite DEF Small
<1>4. Sums(N, w, F, N)
  <2>0. \E f : Sums(N, w, f, N)
    BY SumsExist
  <2>1. PICK f : f = [s \in SUBSET Slots(N) |-> Added(w, f, s)]
    BY <2>0, <1>3 DEF Sums
  <2>2. F = [s \in SUBSET Slots(N) |-> Added(w, F, s)]
    BY <2>1, Zenon
  <2> QED BY <2>2, <1>3 DEF Sums
<1> HIDE DEF F
<1>5. Slots(N) \in SUBSET Slots(N)
  OBVIOUS
<1> QED BY <1>2, <1>4, <1>5, SumsBetween, SlotsFinite
-----------------------------------------------------------------------------
(* What the window and the mode have to do with each other.                  *)

\* What the loop over the window compares with the thresholds.
Sum == SumFunctionOnSet(window, Slots(windowSize))

\* With a full window the mode is one that no threshold asks to leave.
Decided ==
  windowFull => /\ night => ~(Sum >= ThresholdOff * windowSize)
                /\ ~night => ~(Sum <= ThresholdOn * windowSize)

\* The slot stored k samples ago.
SlotBack(k) == IF k <= windowIndex THEN windowIndex - k
               ELSE windowIndex - k + windowSize

\* The latest samples are in the window, and as many of them are equal to the
\* last one as the history counted.
Kept ==
  /\ ~windowFull => same <= windowIndex
  /\ \A k \in 1..windowSize : k <= same => window[SlotBack(k)] = last

WindowInv == TypeOK /\ (Sensible => Decided /\ Kept)

\* With sensible options everything happens inside the memory.
LEMMA SensibleTyped ==
  ASSUME TypeOK, Sensible
  PROVE  /\ windowSize \in 1..5 /\ windowSize \in Nat /\ memory = "sound"
         /\ windowIndex \in Slots(windowSize) /\ windowIndex \in Memory
         /\ Slots(windowSize) \subseteq Memory
         /\ window \in [Memory -> Values \cup {0}]
         /\ same \in Nat /\ night \in BOOLEAN
         /\ ThresholdOn \in Int /\ ThresholdOff \in Int /\ ThresholdOn < ThresholdOff
<1>1. /\ windowSize \in 1..5 /\ windowIndex \in {0} \cup Slots(windowSize)
      /\ window \in [Memory -> Values \cup {0}] /\ same \in Nat
      /\ ThresholdOn < ThresholdOff
  BY DEF TypeOK, Sensible, Allocated
<1>2. memory = "sound"
  BY <1>1 DEF TypeOK, Allocated
<1>3. night \in BOOLEAN
  BY DEF TypeOK
<1> QED BY <1>1, <1>2, <1>3, ThresholdsAssumption DEF Slots, Memory, Allocated

\* The readings in the memory are numbers with a common bound.
LEMMA ReadingsAreNumbers ==
  ASSUME NEW w \in [Memory -> Values \cup {0}]
  PROVE  \E hi \in Int : \A i \in Memory : w[i] \in Int /\ 0 <= w[i] /\ w[i] <= hi
<1>1. ASSUME NEW i \in Memory PROVE w[i] \in Nat
  <2>1. w[i] \in Values \cup {0}
    OBVIOUS
  <2>2. 0 \in Nat
    OBVIOUS
  <2> QED BY <2>1, <2>2, Zenon DEF ValuesAssumption
<1>2. w[0] \in Nat /\ w[1] \in Nat /\ w[2] \in Nat /\ w[3] \in Nat /\ w[4] \in Nat
  BY <1>1 DEF Memory, Allocated
<1> DEFINE hi == w[0] + w[1] + w[2] + w[3] + w[4]
<1>3. ASSUME NEW i \in Memory PROVE w[i] <= hi
  BY <1>2 DEF Memory, Allocated
<1>4. hi \in Int
  BY <1>2
<1> HIDE DEF hi
<1> QED BY <1>1, <1>3, <1>4

LEMMA SumTyped ==
  ASSUME TypeOK, Sensible
  PROVE  Sum \in Int
<1>1. PICK hi \in Int :
        \A i \in Memory : window[i] \in Int /\ 0 <= window[i] /\ window[i] <= hi
  BY SensibleTyped, ReadingsAreNumbers
<1>2. \A i \in Slots(windowSize) :
        window[i] \in Int /\ 0 <= window[i] /\ window[i] <= hi
  BY <1>1, SensibleTyped
<1> QED BY <1>1, <1>2, SensibleTyped, WindowSum DEF Sum

\* With sensible options the two tests are about the sum.
LEMMA Averages ==
  ASSUME TypeOK, Sensible, NEW sum \in Int
  PROVE  /\ AverageAtLeast(sum, ThresholdOff) <=> sum >= ThresholdOff * windowSize
         /\ AverageAtMost(sum, ThresholdOn) <=> sum <= ThresholdOn * windowSize
         /\ ~(sum >= ThresholdOff * windowSize /\ sum <= ThresholdOn * windowSize)
<1>1. windowSize \in 1..5 /\ ThresholdOn \in Int /\ ThresholdOff \in Int
      /\ ThresholdOn < ThresholdOff
  BY SensibleTyped
<1>2. ThresholdOn * windowSize < ThresholdOff * windowSize
      /\ ThresholdOn * windowSize \in Int /\ ThresholdOff * windowSize \in Int
  BY <1>1
<1> QED BY <1>1, <1>2 DEF AverageAtLeast, AverageAtMost

LEMMA SensibleSum == TypeOK /\ Sensible => Sum \in Int /\ memory = "sound"
BY SumTyped, SensibleTyped

LEMMA DecideKeepsDecided ==
  ASSUME TypeOK, Sensible, TypeOK', Decide, UNCHANGED windowSize
  PROVE  Decided'
<1> DEFINE high == Sum' >= ThresholdOff * windowSize
           low == Sum' <= ThresholdOn * windowSize
<1>1. Sensible' /\ Sum' \in Int /\ memory' = "sound"
  <2>1. (TypeOK /\ Sensible)' => (Sum \in Int /\ memory = "sound")'
    BY SensibleSum, PTL
  <2> QED BY <2>1 DEF Sensible
<1>2. /\ AverageAtLeast(Sum', ThresholdOff) <=> high
      /\ AverageAtMost(Sum', ThresholdOn) <=> low
      /\ ~(high /\ low)
  BY <1>1, Averages
<1>3. Sum' = SumFunctionOnSet(window', Slots(windowSize))
  BY DEF Sum
<1>4. windowFull' => night' = IF night THEN ~AverageAtLeast(Sum', ThresholdOff)
                             ELSE AverageAtMost(Sum', ThresholdOn)
  BY <1>1, <1>3, Zenon DEF Decide, DecideFrom
<1> HIDE DEF high, low
<1>5. windowFull' => (night' => ~high) /\ (~night' => ~low)
  BY <1>2, <1>4, Zenon
<1> QED BY <1>5, Zenon DEF Decided, high, low

LEMMA StoreKeepsKept ==
  ASSUME TypeOK, Sensible, Kept, NEW value \in Values, Store(value), Remember(value),
         UNCHANGED windowSize
  PROVE  Kept'
<1>1. /\ windowIndex \in Slots(windowSize) /\ same \in Nat /\ windowSize \in 1..5
      /\ Slots(windowSize) \subseteq Memory
      /\ window' = [window EXCEPT ![windowIndex] = value]
      /\ window \in [Memory -> Values \cup {0}]
  BY SensibleTyped DEF Store, Put
<1>2. ~windowFull' => same' <= windowIndex'
  <2> SUFFICES ASSUME ~windowFull' PROVE same' <= windowIndex'
    OBVIOUS
  <2>1. ~windowFull /\ ~(windowIndex + 1 >= windowSize)
    BY Zenon DEF Store
  <2>2. same <= windowIndex /\ windowIndex' = windowIndex + 1
    BY <2>1 DEF Kept, Store
  <2> QED BY <1>1, <2>2 DEF Remember, Slots
<1>3. ASSUME NEW k \in 1..windowSize, k <= same'
      PROVE  window'[SlotBack(k)'] = last'
  <2>1. CASE k = 1
    <3>1. SlotBack(k)' = windowIndex
      BY <1>1, <2>1 DEF SlotBack, Store, Slots
    <3> QED BY <1>1, <3>1 DEF Remember
  <2>2. CASE k # 1
    <3>1. k - 1 \in 1..windowSize /\ k - 1 <= same /\ value = last
      BY <1>1, <1>3, <2>2 DEF Remember
    <3>2. SlotBack(k)' = SlotBack(k - 1) /\ SlotBack(k - 1) \in Slots(windowSize)
          /\ SlotBack(k - 1) # windowIndex
      BY <1>1, <2>2 DEF SlotBack, Store, Slots
    <3>3. window[SlotBack(k - 1)] = last
      BY <3>1 DEF Kept
    <3> QED BY <1>1, <3>1, <3>2, <3>3 DEF Remember
  <2> QED BY <2>1, <2>2
<1> QED BY <1>2, <1>3 DEF Kept

LEMMA WindowInductive ==
  ASSUME WindowInv, [Next]_vars
  PROVE  WindowInv'
<1>1. TypeOK /\ TypeOK'
  BY TypeStep DEF WindowInv
<1>2. UNCHANGED windowSize
  BY DEF Next, LightChanges, DeviceChanges, ReadFails, Crash, Sample, vars, samples
<1> SUFFICES ASSUME Sensible PROVE Decided' /\ Kept'
  BY <1>1, <1>2, Zenon DEF WindowInv, Sensible
<1>3. Decided /\ Kept
  BY DEF WindowInv
<1>4. CASE LightChanges \/ DeviceChanges \/ ReadFails \/ Crash \/ UNCHANGED vars
  <2>1. UNCHANGED <<windowSize, window, windowIndex, windowFull, night, last, same>>
    BY <1>4 DEF LightChanges, DeviceChanges, ReadFails, Crash, vars, samples
  <2> QED BY <1>3, <2>1 DEF Decided, Kept, SlotBack, Sum
<1>5. CASE Sample
  <2>1. PICK value \in Values : Store(value) /\ Decide /\ Remember(value)
    BY <1>1, <1>5 DEF Sample, TypeOK
  <2> QED BY <1>1, <1>2, <1>3, <2>1, DecideKeepsDecided, StoreKeepsKept
<1> QED BY <1>4, <1>5 DEF Next

LEMMA InitWindowInv == Init => WindowInv
<1> SUFFICES ASSUME Init PROVE WindowInv
  OBVIOUS
<1>1. TypeOK
  BY TypeInit
<1>2. ~windowFull /\ same = 0 /\ windowIndex = 0
  BY Zenon DEF Init
<1> QED BY <1>1, <1>2 DEF WindowInv, Decided, Kept

\* With thresholds in their order and a window that fits its memory, a full
\* window that lies beyond one of the thresholds has decided the mode, whatever
\* the order in which its slots were overwritten (autonight.c:217-229).
THEOREM SettledHolds == Spec => []Settled
<1>1. WindowInv => Settled
  <2> SUFFICES ASSUME WindowInv, Sensible, windowFull PROVE
        /\ (\A i \in Slots(windowSize) : window[i] < ThresholdOn) => night
        /\ (\A i \in Slots(windowSize) : window[i] > ThresholdOff) => ~night
    BY DEF Settled
  <2>1. TypeOK /\ Decided
    BY DEF WindowInv
  <2>2. /\ windowSize \in Nat /\ window \in [Memory -> Values \cup {0}]
        /\ Slots(windowSize) \subseteq Memory
        /\ ThresholdOn \in Int /\ ThresholdOff \in Int
    BY <2>1, SensibleTyped
  <2>3. PICK hi \in Int :
          \A i \in Memory : window[i] \in Int /\ 0 <= window[i] /\ window[i] <= hi
    BY <2>2, ReadingsAreNumbers
  <2>4. ASSUME \A i \in Slots(windowSize) : window[i] < ThresholdOn PROVE night
    <3>1. \A i \in Slots(windowSize) :
            window[i] \in Int /\ 0 <= window[i] /\ window[i] <= ThresholdOn
      BY <2>2, <2>3, <2>4
    <3>2. Sum <= ThresholdOn * windowSize
      BY <2>2, <3>1, WindowSum DEF Sum
    <3> QED BY <2>1, <3>2, Zenon DEF Decided
  <2>5. ASSUME \A i \in Slots(windowSize) : window[i] > ThresholdOff PROVE ~night
    <3>1. \A i \in Slots(windowSize) :
            window[i] \in Int /\ ThresholdOff <= window[i] /\ window[i] <= hi
      BY <2>2, <2>3, <2>5
    <3>2. Sum \in Int /\ ThresholdOff * windowSize <= Sum
      BY <2>2, <3>1, WindowSum DEF Sum
    <3>3. Sum >= ThresholdOff * windowSize
      BY <2>2, <3>2
    <3> QED BY <2>1, <3>3, Zenon DEF Decided
  <2> QED BY <2>4, <2>5
<1> QED BY <1>1, InitWindowInv, WindowInductive, PTL DEF Spec

\* With the current sample in every slot another one like it changes neither the
\* sum nor, therefore, the mode: with sensible options there is no reading, a
\* threshold included, at which the mode flips for ever (autonight.c:222-229).
THEOREM NoFlappingHolds == Spec => NoFlapping
<1>1. ASSUME WindowInv, [Next]_vars, Sensible, night' # night
      PROVE  same' <= windowSize
  <2> SUFFICES ASSUME ~(same' <= windowSize) PROVE FALSE
    OBVIOUS
  <2>1. Sample
    BY <1>1 DEF Next, LightChanges, DeviceChanges, ReadFails, Crash, vars, samples
  <2>2. PICK value \in Values : Store(value) /\ Decide /\ Remember(value)
    BY <1>1, <2>1 DEF Sample, WindowInv, TypeOK
  <2>3. /\ TypeOK /\ Decided /\ Kept
        /\ windowSize \in 1..5 /\ same \in Nat /\ memory = "sound"
        /\ windowIndex \in Slots(windowSize) /\ windowIndex \in Memory
        /\ window \in [Memory -> Values \cup {0}]
    BY <1>1, SensibleTyped DEF WindowInv
  <2>4. same >= windowSize /\ value = last
    BY <2>2, <2>3 DEF Remember
  <2>5. windowFull
    BY <2>3, <2>4 DEF Kept, Slots
  <2>6. ASSUME NEW k \in 1..windowSize PROVE window[SlotBack(k)] = last
    BY <2>3, <2>4 DEF Kept
  <2>7. SlotBack(windowSize) = windowIndex
    BY <2>3 DEF SlotBack, Slots
  <2>8. window[windowIndex] = value
    BY <2>3, <2>4, <2>6, <2>7
  <2>9. window' = window /\ windowFull' /\ memory' = "sound"
    BY <2>2, <2>3, <2>5, <2>8 DEF Store, Put
  <2>10. night' = night
    <3> DEFINE high == Sum >= ThresholdOff * windowSize
               low == Sum <= ThresholdOn * windowSize
    <3>1. (night => ~high) /\ (~night => ~low)
      BY <2>3, <2>5, Zenon DEF Decided
    <3>2. /\ AverageAtLeast(Sum, ThresholdOff) <=> high
          /\ AverageAtMost(Sum, ThresholdOn) <=> low
      BY <1>1, <2>3, SumTyped, Averages
    <3>3. night' = IF night THEN ~AverageAtLeast(Sum, ThresholdOff)
                   ELSE AverageAtMost(Sum, ThresholdOn)
      BY <2>2, <2>9, Zenon DEF Decide, DecideFrom, Sum
    <3> HIDE DEF high, low
    <3>4. night \in BOOLEAN /\ night' \in BOOLEAN
      BY <1>1, TypeStep DEF WindowInv, TypeOK
    <3>5. night <=> night'
      BY <3>1, <3>2, <3>3, Zenon
    <3> QED BY <3>4, <3>5
  <2> QED BY <1>1, <2>10
<1>2. WindowInv /\ [Next]_vars => [Sensible /\ night' # night => same' <= windowSize]_vars
  BY <1>1
<1> QED BY <1>2, InitWindowInv, WindowInductive, PTL DEF Spec, NoFlapping
===============================================================================
