---------------------------- MODULE SnapshotProofs ----------------------------
(***************************************************************************)
(* The channel and its thread implement LossyFifo, frames are written whole, *)
(* and a file that getimage saved undisturbed holds one of them: for any     *)
(* slots, packs, frames, processes and failing calls.                        *)
(***************************************************************************)
EXTENDS Snapshot, SequenceTheorems, TLAPS

\* A slot of the buffer holds a frame, and the thread knows all of its packs.
SlotsHoldFrames == \A i \in 1..Len(ready) : slot[ready[i]] \in 1..MaxFrames
WholeInHand ==
  pc \in {"write", "release"} => stream.packCount = Packs(payload, slot[stream.at])

IInv == TypeOK /\ SlotsHoldFrames /\ WholeInHand /\ DeliveredWhole

\* Appending to the buffer a slot that is not in it.
LEMMA AppendNewSlot ==
  ASSUME NEW S, NEW q \in Seq(S), NEW s \in S, s \notin {q[i] : i \in 1..Len(q)},
         \A i, j \in 1..Len(q) : q[i] = q[j] => i = j
  PROVE  /\ Append(q, s) \in Seq(S) /\ Len(Append(q, s)) = Len(q) + 1
         /\ \A i \in 1..Len(q) : Append(q, s)[i] = q[i] /\ q[i] # s
         /\ Append(q, s)[Len(q) + 1] = s
         /\ \A i, j \in 1..Len(Append(q, s)) : Append(q, s)[i] = Append(q, s)[j] => i = j
<1> DEFINE t == Append(q, s)
<1>1. /\ t \in Seq(S) /\ Len(q) \in Nat /\ Len(t) = Len(q) + 1
      /\ \A i \in 1..Len(q) : t[i] = q[i] /\ q[i] # s
      /\ t[Len(q) + 1] = s
  OBVIOUS
<1>2. ASSUME NEW i \in 1..Len(t), NEW j \in 1..Len(t), t[i] = t[j] PROVE i = j
  <2> HIDE DEF t
  <2>1. CASE i \in 1..Len(q) /\ j \in 1..Len(q)
    BY <1>1, <1>2, <2>1
  <2>2. CASE i = Len(q) + 1 \/ j = Len(q) + 1
    BY <1>1, <1>2, <2>2
  <2> QED BY <1>1, <2>1, <2>2
<1> QED BY <1>1, <1>2

\* Giving back the oldest slot keeps the others apart.
LEMMA TailSlots ==
  ASSUME NEW S, NEW q \in Seq(S), q # <<>>,
         \A i, j \in 1..Len(q) : q[i] = q[j] => i = j
  PROVE  /\ Tail(q) \in Seq(S) /\ Len(Tail(q)) = Len(q) - 1 /\ Len(q) \in Nat \ {0}
         /\ \A i \in 1..Len(Tail(q)) : i + 1 \in 1..Len(q) /\ Tail(q)[i] = q[i + 1]
         /\ \A i, j \in 1..Len(Tail(q)) : Tail(q)[i] = Tail(q)[j] => i = j
<1>1. /\ Tail(q) \in Seq(S) /\ Len(Tail(q)) = Len(q) - 1 /\ Len(q) \in Nat \ {0}
      /\ \A i \in 1..Len(Tail(q)) : i + 1 \in 1..Len(q) /\ Tail(q)[i] = q[i + 1]
  OBVIOUS
<1>2. ASSUME NEW i \in 1..Len(Tail(q)), NEW j \in 1..Len(Tail(q)), Tail(q)[i] = Tail(q)[j]
      PROVE  i = j
  <2>1. q[i + 1] = q[j + 1]
    BY <1>1, <1>2
  <2> QED BY <1>1, <2>1
<1> QED BY <1>1, <1>2

\* Append as a function.
LEMMA AppendIsFunction ==
  ASSUME NEW S, NEW q \in Seq(S), NEW x \in S
  PROVE  /\ Len(q) \in Nat
         /\ Append(q, x) = [i \in 1..Len(q) + 1 |-> IF i = Len(q) + 1 THEN x ELSE q[i]]
<1> DEFINE t == Append(q, x)
<1>1. /\ Len(q) \in Nat /\ t \in Seq(S) /\ Len(t) = Len(q) + 1
      /\ \A i \in 1..Len(q) : t[i] = q[i]
      /\ t[Len(q) + 1] = x
  OBVIOUS
<1> HIDE DEF t
<1>2. t = [i \in 1..Len(q) + 1 |-> t[i]]
  <2>1. t \in [1..Len(q) + 1 -> S]
    BY <1>1, LenProperties
  <2> QED BY <2>1
<1>3. \A i \in 1..Len(q) + 1 : t[i] = IF i = Len(q) + 1 THEN x ELSE q[i]
  <2> TAKE i \in 1..Len(q) + 1
  <2>1. i # Len(q) + 1 => i \in 1..Len(q)
    BY <1>1
  <2> QED BY <1>1, <2>1
<1>4. t = [i \in 1..Len(q) + 1 |-> IF i = Len(q) + 1 THEN x ELSE q[i]]
  BY <1>2, <1>3
<1> QED BY <1>1, <1>4 DEF t

\* What write is asked to take is the whole frame in the oldest slot.
LEMMA WrittenWhole ==
  ASSUME IInv, pc = "write"
  PROVE  /\ Written \in [frame : 1..MaxFrames, packs : Nat, short : BOOLEAN]
         /\ Written.packs = Packs(payload, Written.frame) /\ ~Written.short
         /\ stream.packCount = Written.packs /\ Written.packs \in Nat
<1>1. ready \in Seq(SlotIds) /\ ready # <<>> /\ stream.at = Head(ready)
  BY DEF IInv, TypeOK
<1>2. 1 \in 1..Len(ready) /\ stream.at = ready[1]
  BY <1>1
<1>3. slot[stream.at] \in 1..MaxFrames /\ stream.packCount \in Nat
  BY <1>2 DEF IInv, TypeOK, SlotsHoldFrames
<1> QED BY <1>3 DEF Written, IInv, WholeInHand

\* What a call of write may leave on the device.
Left == [frame : 1..MaxFrames, packs : Nat, short : BOOLEAN]
LeftByWrite(d) ==
  \/ d = Written
  \/ \E n \in 0..stream.packCount - 1 : d = [Written EXCEPT !.packs = n, !.short = TRUE]
WholeOrShort(d) ==
  LET whole == Packs(payload, d.frame) IN
    IF d.short THEN d.packs < whole ELSE d.packs = whole

LEMMA WriteLeaves ==
  ASSUME EncWrite
  PROVE  UNCHANGED device \/ \E d : LeftByWrite(d) /\ device' = Append(device, d)
BY DEF EncWrite, LeftByWrite

\* All of them are the frame in the oldest slot, or its beginning.
LEMMA LeftWhole ==
  ASSUME IInv, pc = "write", NEW d, LeftByWrite(d)
  PROVE  d \in Left /\ WholeOrShort(d) /\ d.frame = Written.frame
<1>1. /\ Written \in Left /\ ~Written.short
      /\ stream.packCount = Packs(payload, Written.frame) /\ stream.packCount \in Nat
      /\ Written.packs = stream.packCount
  BY WrittenWhole DEF Left
<1>2. CASE d = Written
  BY <1>1, <1>2 DEF WholeOrShort
<1>3. ASSUME NEW n \in 0..stream.packCount - 1,
             d = [Written EXCEPT !.packs = n, !.short = TRUE]
      PROVE  d \in Left /\ WholeOrShort(d) /\ d.frame = Written.frame
  <2>1. d = [frame |-> Written.frame, packs |-> n, short |-> TRUE]
    BY <1>3 DEF Written
  <2>2. /\ n \in Nat /\ n < stream.packCount
        /\ Written.frame \in 1..MaxFrames
    BY <1>1 DEF Left
  <2> QED BY <1>1, <2>1, <2>2 DEF WholeOrShort, Left
<1> QED BY <1>2, <1>3 DEF LeftByWrite

\* Every step of the channel and its thread keeps the invariant.
THEOREM ChannelInductive == Spec => []IInv
<1> USE MaxFramesAssumption, SlotsAssumption, PacksAssumption
<1>1. Init => IInv
  <2> SUFFICES ASSUME Init PROVE IInv
    OBVIOUS
  <2>1. ready = <<>> /\ device = <<>>
    BY DEF Init
  <2>2. SlotIds # {} /\ 1 \in SlotIds /\ Slots[payload] \in Nat \ {0}
    BY DEF Init, SlotIds
  <2>3. slot \in [SlotIds -> 0..MaxFrames] /\ next \in 1..MaxFrames + 1
    BY DEF Init
  <2>4. ready \in Seq(SlotIds) /\ Len(ready) = 0 /\ device \in Seq([frame : 1..MaxFrames, packs : Nat, short : BOOLEAN])
    BY <2>1
  <2>5. stream \in [at : SlotIds, packCount : Nat]
    BY <2>2 DEF Init
  <2>7. /\ Len(ready) <= Slots[payload]
        /\ \A i, j \in 1..Len(ready) : ready[i] = ready[j] => i = j
    BY <2>2, <2>4
  <2>8. late \in 0..2 /\ pc \notin {"write", "release"}
    BY DEF Init
  <2>6. TypeOK
    BY <2>3, <2>4, <2>5, <2>7, <2>8 DEF Init, TypeOK
  <2> QED BY <2>1, <2>6 DEF Init, IInv, SlotsHoldFrames, WholeInHand, DeliveredWhole
<1>2. IInv /\ [Next]_vars => IInv'
  <2> SUFFICES ASSUME IInv, [Next]_vars PROVE IInv'
    OBVIOUS
  <2>0. /\ payload \in Payloads /\ Slots[payload] \in Nat \ {0}
        /\ ready \in Seq(SlotIds) /\ Len(ready) <= Slots[payload]
        /\ \A i, j \in 1..Len(ready) : ready[i] = ready[j] => i = j
        /\ slot \in [SlotIds -> 0..MaxFrames] /\ next \in 1..MaxFrames + 1
        /\ device \in Seq([frame : 1..MaxFrames, packs : Nat, short : BOOLEAN])
    BY DEF IInv, TypeOK
  <2> DEFINE Same == UNCHANGED <<payload, next, slot, ready, device>>
  <2>1. CASE Encode
    <3>0. UNCHANGED <<payload, sigint, recv, pc, stream, late, device>> /\ next \in 1..MaxFrames
          /\ next' = next + 1 /\ SlotIds' = SlotIds
      BY <2>0, <2>1 DEF Encode, SlotIds, taken
    <3>1. CASE UNCHANGED <<slot, ready>>
      BY <2>0, <3>0, <3>1 DEF IInv, TypeOK, SlotsHoldFrames, WholeInHand, DeliveredWhole
    <3>2. ASSUME Len(ready) < Slots[payload], NEW s \in SlotIds \ Unreleased,
                 slot' = [slot EXCEPT ![s] = next], ready' = Append(ready, s)
          PROVE  IInv'
      <4>1. s \in SlotIds /\ s \notin {ready[i] : i \in 1..Len(ready)}
        BY DEF Unreleased
      <4>2. /\ ready' \in Seq(SlotIds) /\ Len(ready') = Len(ready) + 1
            /\ \A i \in 1..Len(ready) : ready'[i] = ready[i] /\ ready[i] # s
            /\ ready'[Len(ready) + 1] = s
            /\ \A i, j \in 1..Len(ready') : ready'[i] = ready'[j] => i = j
        <5>1. ready \in Seq(SlotIds) /\ \A i, j \in 1..Len(ready) : ready[i] = ready[j] => i = j
          BY <2>0
        <5> QED BY <3>2, <4>1, <5>1, AppendNewSlot
      <4>3. slot' \in [SlotIds -> 0..MaxFrames] /\ slot'[s] = next
            /\ \A x \in SlotIds : x # s => slot'[x] = slot[x]
        BY <2>0, <3>0, <3>2, <4>1
      <4>4. /\ Len(ready) \in Nat
            /\ \A i \in 1..Len(ready) : ready[i] \in SlotIds /\ slot'[ready[i]] = slot[ready[i]]
        <5>1. Len(ready) \in Nat /\ \A i \in 1..Len(ready) : ready[i] \in SlotIds
          BY <2>0
        <5> QED BY <4>2, <4>3, <5>1
      <4>5. pc \in {"write", "release"} =>
              ready # <<>> /\ stream.at = ready[1] /\ ready'[1] = ready[1] /\ ready' # <<>>
              /\ 1 \in 1..Len(ready) /\ 1 \in 1..Len(ready')
        BY <2>0, <4>2 DEF IInv, TypeOK
      <4>6. TypeOK'
        <5>1. Len(ready') <= Slots[payload] /\ next' \in 1..MaxFrames + 1
          BY <2>0, <3>0, <3>2, <4>2
        <5>2. ready' # <<>> /\ Head(ready') = ready'[1] /\ (ready # <<>> => Head(ready) = ready[1])
          BY <2>0, <4>2
        <5>3. pc \in {"write", "release"} => ready' # <<>> /\ stream.at = Head(ready')
          BY <4>5, <5>2
        <5> QED BY <3>0, <4>2, <4>3, <5>1, <5>3 DEF IInv, TypeOK
      <4>7. SlotsHoldFrames'
        <5>1. \A i \in 1..Len(ready) : slot'[ready'[i]] \in 1..MaxFrames
          BY <4>2, <4>4 DEF IInv, SlotsHoldFrames
        <5>2. slot'[ready'[Len(ready) + 1]] \in 1..MaxFrames
          BY <3>0, <4>2, <4>3
        <5> QED BY <4>2, <4>4, <5>1, <5>2 DEF SlotsHoldFrames
      <4>8. WholeInHand' /\ DeliveredWhole'
        BY <3>0, <4>4, <4>5 DEF IInv, WholeInHand, DeliveredWhole
      <4> QED BY <4>6, <4>7, <4>8 DEF IInv
    <3> QED BY <2>1, <3>1, <3>2 DEF Encode
  <2>2. CASE SigintHandler
    BY <2>2 DEF SigintHandler, channel, taken, IInv, TypeOK, SlotIds, SlotsHoldFrames, WholeInHand,
                DeliveredWhole
  <2>3. CASE EncStart \/ EncTest \/ EncPoll \/ EncStop
    <3>1. /\ UNCHANGED <<payload, sigint, next, slot, ready, stream, late, device>>
          /\ SlotIds' = SlotIds /\ recv' \in BOOLEAN
          /\ pc' \in {"test", "stop", "poll", "get", "done"}
      BY <2>3 DEF EncStart, EncTest, EncPoll, EncStop, Goto, channel, taken, SlotIds, IInv, TypeOK
    <3> QED BY <3>1 DEF IInv, TypeOK, SlotsHoldFrames, WholeInHand, DeliveredWhole
  <2>4. CASE EncGet
    <3>1. UNCHANGED <<payload, sigint, recv, next, slot, ready, device>> /\ SlotIds' = SlotIds
      BY <2>4 DEF EncGet, channel, SlotIds
    <3>2. CASE pc' = "done" /\ UNCHANGED <<stream, late>>
      BY <3>1, <3>2 DEF IInv, TypeOK, SlotsHoldFrames, WholeInHand, DeliveredWhole
    <3>3. CASE /\ ready # <<>> /\ pc' = "write"
               /\ stream' = [at |-> Head(ready), packCount |-> Packs(payload, slot[Head(ready)])]
               /\ CountLate
      <4>1. 1 \in 1..Len(ready) /\ Head(ready) = ready[1] /\ ready[1] \in SlotIds
        BY <2>0, <3>3
      <4>2. Packs(payload, slot[Head(ready)]) \in Nat
        BY <2>0, <4>1 DEF IInv, SlotsHoldFrames
      <4>4. late' \in 0..2
        BY <3>3 DEF CountLate, IInv, TypeOK
      <4>3. TypeOK'
        BY <3>1, <3>3, <4>1, <4>2, <4>4 DEF IInv, TypeOK
      <4> QED BY <3>1, <3>3, <4>3 DEF IInv, SlotsHoldFrames, WholeInHand, DeliveredWhole
    <3> QED BY <2>4, <3>2, <3>3 DEF EncGet, Goto, taken
  <2>5. CASE EncWrite
    <3>1. /\ UNCHANGED <<payload, sigint, recv, next, slot, ready, stream, late>> /\ SlotIds' = SlotIds
          /\ pc = "write" /\ pc' = "release"
      BY <2>5 DEF EncWrite, channel, taken, SlotIds, Goto
    <3>2. CASE UNCHANGED device
      BY <3>1, <3>2 DEF IInv, TypeOK, SlotsHoldFrames, WholeInHand, DeliveredWhole
    <3>3. ASSUME NEW d, LeftByWrite(d), device' = Append(device, d) PROVE IInv'
      <4>2. d \in Left /\ WholeOrShort(d)
        BY <3>1, <3>3, LeftWhole
      <4>3. /\ device' \in Seq(Left)
            /\ \A i \in 1..Len(device') : \/ i \in 1..Len(device) /\ device'[i] = device[i]
                                          \/ device'[i] = d
        <5>1. device \in Seq(Left)
          BY <2>0 DEF Left
        <5> QED BY <3>3, <4>2, <5>1
      <4>4. TypeOK'
        BY <3>1, <4>3 DEF IInv, TypeOK, Left
      <4>5. DeliveredWhole'
        BY <3>1, <4>2, <4>3 DEF IInv, DeliveredWhole, WholeOrShort
      <4> QED BY <3>1, <4>4, <4>5 DEF IInv, SlotsHoldFrames, WholeInHand
    <3> QED BY <2>5, <3>2, <3>3, WriteLeaves DEF EncWrite
  <2>6. CASE EncRelease
    <3>1. /\ UNCHANGED <<payload, sigint, recv, next, slot, stream, late, device>> /\ SlotIds' = SlotIds
          /\ pc = "release" /\ pc' = "test" /\ ready' = Tail(ready) /\ ready # <<>>
      BY <2>6 DEF EncRelease, taken, SlotIds, Goto, IInv, TypeOK
    <3>2. /\ ready' \in Seq(SlotIds) /\ Len(ready') = Len(ready) - 1 /\ Len(ready) \in Nat \ {0}
          /\ \A i \in 1..Len(ready') : i + 1 \in 1..Len(ready) /\ ready'[i] = ready[i + 1]
          /\ \A i, j \in 1..Len(ready') : ready'[i] = ready'[j] => i = j
      BY <2>0, <3>1, TailSlots
    <3>3. TypeOK'
      BY <2>0, <3>1, <3>2 DEF IInv, TypeOK
    <3>4. SlotsHoldFrames'
      BY <3>1, <3>2 DEF IInv, SlotsHoldFrames
    <3> QED BY <3>1, <3>3, <3>4 DEF IInv, WholeInHand, DeliveredWhole
  <2>7. CASE UNCHANGED vars
    BY <2>7 DEF vars, channel, taken, IInv, TypeOK, SlotIds, SlotsHoldFrames, WholeInHand, DeliveredWhole
  <2> QED BY <2>1, <2>2, <2>3, <2>4, <2>5, <2>6, <2>7 DEF Next, EncoderStep
<1> QED BY <1>1, <1>2, PTL DEF Spec

-----------------------------------------------------------------------------
\* Dropping the oldest frame of the buffer drops the oldest of its frames.
LEMMA BufferedTail ==
  ASSUME NEW S, NEW q \in Seq(S), q # <<>>, NEW f
  PROVE  [i \in 1..Len(Tail(q)) |-> f[Tail(q)[i]]] = Tail([i \in 1..Len(q) |-> f[q[i]]])
<1> DEFINE b == [i \in 1..Len(q) |-> f[q[i]]]
<1>1. /\ Len(q) \in Nat \ {0} /\ Len(Tail(q)) = Len(q) - 1
      /\ \A i \in 1..Len(Tail(q)) : i + 1 \in 1..Len(q) /\ Tail(q)[i] = q[i + 1]
  OBVIOUS
<1>2. b \in Seq({f[q[i]] : i \in 1..Len(q)}) /\ Len(b) = Len(q) /\ b # <<>>
  BY <1>1
<1>3. Tail(b) = [i \in 1..Len(q) - 1 |-> b[i + 1]]
  BY <1>1, <1>2
<1> QED BY <1>1, <1>3

\* Adding a slot with a new frame adds that frame to the buffer's.
LEMMA BufferedAppend ==
  ASSUME NEW S, NEW q \in Seq(S), NEW s, NEW f, NEW g, NEW x,
         \A i \in 1..Len(q) : g[q[i]] = f[q[i]], g[s] = x, s \in S
  PROVE  [i \in 1..Len(Append(q, s)) |-> g[Append(q, s)[i]]]
           = Append([i \in 1..Len(q) |-> f[q[i]]], x)
<1> DEFINE b == [i \in 1..Len(q) |-> f[q[i]]]
<1>1. /\ Len(q) \in Nat /\ Len(Append(q, s)) = Len(q) + 1
      /\ \A i \in 1..Len(q) : Append(q, s)[i] = q[i]
      /\ Append(q, s)[Len(q) + 1] = s
  OBVIOUS
<1>2. b \in Seq({f[q[i]] : i \in 1..Len(q)} \cup {x}) /\ Len(b) = Len(q)
  BY <1>1
<1>3. /\ Append(b, x) = [i \in 1..Len(q) + 1 |-> Append(b, x)[i]]
      /\ \A i \in 1..Len(q) : Append(b, x)[i] = b[i]
      /\ Append(b, x)[Len(q) + 1] = x
  BY <1>1, <1>2
<1>4. \A i \in 1..Len(q) + 1 : g[Append(q, s)[i]] = Append(b, x)[i]
  <2> TAKE i \in 1..Len(q) + 1
  <2>1. CASE i \in 1..Len(q)
    BY <1>1, <1>3, <2>1
  <2>2. CASE i = Len(q) + 1
    BY <1>1, <1>3, <2>2
  <2> QED BY <1>1, <2>1, <2>2
<1> QED BY <1>1, <1>3, <1>4

\* The oldest element is the same before and after an append.
LEMMA TailAppend ==
  ASSUME NEW S, NEW q \in Seq(S), q # <<>>, NEW x \in S
  PROVE  Tail(Append(q, x)) = Append(Tail(q), x)
OBVIOUS

\* The frames of the buffer, one per slot that waits.
LEMMA BufferedType ==
  ASSUME IInv
  PROVE  /\ Buffered \in Seq(1..MaxFrames) /\ Len(Buffered) = Len(ready)
         /\ Len(ready) \in Nat /\ (ready # <<>> => Head(Buffered) = slot[Head(ready)])
<1>1. ready \in Seq(SlotIds)
  BY DEF IInv, TypeOK
<1>2. Len(ready) \in Nat /\ (ready # <<>> => 1 \in 1..Len(ready) /\ Head(ready) = ready[1])
  BY <1>1
<1>3. \A i \in 1..Len(ready) : slot[ready[i]] \in 1..MaxFrames
  BY DEF IInv, SlotsHoldFrames
<1> QED BY <1>2, <1>3 DEF Buffered

\* The channel and its thread implement the lossy FIFO: encoding produces a frame,
\* write delivers or loses the oldest one, and everything else, the release of
\* its slot included, is invisible.
THEOREM ImplementsFifoHolds == Spec => ImplementsFifo
<1>1. Init => Fifo!Init
  BY DEF Init, Fifo!Init, Waiting, Buffered, Arrived
<1>2. IInv /\ [Next]_vars => [Fifo!Next]_(Fifo!vars)
  <2> SUFFICES ASSUME IInv, [Next]_vars PROVE [Fifo!Next]_(Fifo!vars)
    OBVIOUS
  <2>0. /\ Buffered \in Seq(1..MaxFrames) /\ Len(Buffered) = Len(ready)
        /\ ready \in Seq(SlotIds) /\ Len(ready) \in Nat
        /\ pc \in {"write", "release"} =>
             ready # <<>> /\ Buffered # <<>> /\ Head(Buffered) = slot[stream.at]
    BY BufferedType DEF IInv, TypeOK
  <2>1. CASE Encode
    <3>0. pc' = pc /\ device' = device /\ next' = next + 1 /\ Arrived' = Arrived
      BY <2>1 DEF Encode, Arrived
    <3>1. CASE UNCHANGED <<slot, ready>>
      BY <3>0, <3>1 DEF Fifo!Next, Fifo!Produce, Waiting, Buffered
    <3>2. ASSUME Len(ready) < Slots[payload], NEW s \in SlotIds \ Unreleased,
                 slot' = [slot EXCEPT ![s] = next], ready' = Append(ready, s)
          PROVE  Fifo!Produce
      <4>1. slot \in [SlotIds -> 0..MaxFrames] /\ next \in Nat /\ next <= MaxFrames
        BY <2>1, MaxFramesAssumption DEF Encode, IInv, TypeOK
      <4>2. slot'[s] = next /\ \A i \in 1..Len(ready) : slot'[ready[i]] = slot[ready[i]]
        <5>1. \A i \in 1..Len(ready) : ready[i] \in SlotIds /\ ready[i] # s
          BY <2>0 DEF Unreleased
        <5> QED BY <3>2, <4>1, <5>1
      <4>3. Buffered' = Append(Buffered, next)
        BY <2>0, <3>2, <4>2, BufferedAppend DEF Buffered
      <4>4. next \in 1..MaxFrames
        BY <2>1 DEF Encode, IInv, TypeOK
      <4>5. Waiting' = Append(Waiting, next)
        BY <2>0, <3>0, <4>3, <4>4, TailAppend DEF Waiting
      <4>6. Len(Waiting) <= Len(ready)
        BY <2>0 DEF Waiting
      <4>7. Slots[payload] <= MostSlots /\ Slots[payload] \in Nat /\ MostSlots \in Nat
        BY SlotsAssumption DEF MostSlots, Payloads, IInv, TypeOK
      <4>8. Len(Waiting) < MostSlots
        <5>1. Len(Waiting) \in Nat
          BY <2>0 DEF Waiting
        <5> QED BY <2>0, <3>2, <4>6, <4>7, <5>1
      <4> QED BY <3>0, <4>5, <4>8 DEF Fifo!Produce
    <3> QED BY <2>1, <3>1, <3>2 DEF Encode, Fifo!Next
  <2>2. CASE EncWrite
    <3>1. pc = "write" /\ pc' = "release" /\ UNCHANGED <<next, slot, ready, Buffered>>
      BY <2>2 DEF EncWrite, Goto, channel, Buffered
    <3>2. Waiting = Buffered /\ Waiting' = Tail(Buffered) /\ Waiting # <<>>
      BY <2>0, <3>1 DEF Waiting
    <3>3. CASE UNCHANGED device
      BY <3>1, <3>2, <3>3 DEF Fifo!Next, Fifo!Deliver, Arrived
    <3>4. ASSUME NEW d, LeftByWrite(d), device' = Append(device, d)
          PROVE  Fifo!Next
      <4>1. device \in Seq(Left) /\ d \in Left /\ d.frame = Written.frame
        BY <3>1, <3>4, LeftWhole DEF IInv, TypeOK, Left
      <4>2. Len(device) \in Nat /\ device' = [i \in 1..Len(device) + 1 |->
              IF i = Len(device) + 1 THEN d ELSE device[i]]
        BY <3>4, <4>1, AppendIsFunction
      <4>3. Arrived' = [i \in 1..Len(device) + 1 |->
              IF i = Len(device) + 1 THEN d.frame ELSE device[i].frame]
        BY <4>2 DEF Arrived
      <4>4. Arrived' = Append(Arrived, d.frame)
        BY <4>2, <4>3 DEF Arrived
      <4>5. d.frame = Head(Waiting)
        BY <2>0, <3>1, <3>2, <4>1 DEF Written
      <4> QED BY <3>1, <3>2, <4>4, <4>5 DEF Fifo!Next, Fifo!Deliver
    <3> QED BY <2>2, <3>3, <3>4, WriteLeaves
  <2>3. CASE EncRelease
    <3>1. /\ pc = "release" /\ pc' = "test" /\ UNCHANGED <<next, slot, device>>
          /\ ready' = Tail(ready)
      BY <2>3 DEF EncRelease, Goto
    <3>2. Buffered' = Tail(Buffered)
      BY <2>0, <3>1, BufferedTail DEF Buffered
    <3> QED BY <3>1, <3>2 DEF Fifo!vars, Waiting, Arrived
  <2>4. CASE SigintHandler \/ EncStart \/ EncTest \/ EncPoll \/ EncGet \/ EncStop \/ UNCHANGED vars
    <3>1. UNCHANGED <<next, slot, ready, device>> /\ (pc' = "release" <=> pc = "release")
      BY <2>4 DEF SigintHandler, EncStart, EncTest, EncPoll, EncGet, EncStop, Goto, vars, channel
    <3> QED BY <3>1 DEF Fifo!vars, Waiting, Buffered, Arrived
  <2> QED BY <2>1, <2>2, <2>3, <2>4 DEF Next, EncoderStep
<1> QED BY <1>1, <1>2, ChannelInductive, PTL DEF Spec, ImplementsFifo, Fifo!Spec

\* Frames reach the device in the camera's order, none twice (capture.c:1075-1096).
THEOREM DeliveredInOrder == Spec => []Fifo!InOrder
<1>1. MostSlots \in Nat \ {0}
  BY SlotsAssumption DEF MostSlots, Payloads
<1>2. Fifo!Spec => []Fifo!InOrder
  BY <1>1, Fifo!InOrderHolds
<1> QED BY <1>2, ImplementsFifoHolds, PTL DEF ImplementsFifo
-----------------------------------------------------------------------------
\* One encoder of Videocapture has one of everything.
LEMMA OneOfEach ==
  ASSUME NEW x, NEW y
  PROVE  [[e \in 1..1 |-> x] EXCEPT ![1] = y] = [e \in 1..1 |-> y]
OBVIOUS

\* The frames the thread has not fetched.
LEMMA NotFetched ==
  ASSUME IInv
  PROVE  /\ Len(ready) \in Nat /\ Len(ready) <= MostSlots /\ MostSlots \in Nat
         /\ ready # <<>> <=> Len(ready) > 0
         /\ InHand => Len(ready) > 0
         /\ ready # <<>> => Len(Tail(ready)) = Len(ready) - 1
<1>1. ready \in Seq(SlotIds) /\ Len(ready) <= Slots[payload] /\ (InHand => ready # <<>>)
  BY DEF IInv, TypeOK, InHand
<1>2. Slots[payload] <= MostSlots /\ Slots[payload] \in Nat /\ MostSlots \in Nat
  BY SlotsAssumption DEF MostSlots, Payloads, IInv, TypeOK
<1> QED BY <1>1, <1>2

\* With the frames lying in slots the thread still takes only the steps that
\* Videocapture has for an encoder thread, and the hardware fills the buffer only
\* as it does there (capture.c:1076-1119).
THEOREM StepsAsVideocaptureHolds == Spec => StepsAsVideocapture
<1> DEFINE At == IF pc = "release" THEN "write" ELSE pc
           Count == IF InHand THEN Len(ready) - 1 ELSE Len(ready)
           Step == V!SigintHandler \/ V!EncoderStep(1) \/ V!FrameArrives(1)
<1>1. Step => V!Next
  <2>1. 1 \in V!Encoders
    BY DEF V!Encoders
  <2> QED BY <2>1 DEF V!Next
<1>2. IInv /\ [Next]_vars => [V!Next]_(V!vars)
  <2> SUFFICES ASSUME IInv, [Next]_vars PROVE Step \/ UNCHANGED V!vars
    BY <1>1
  <2> DEFINE Of(x) == [e \in 1..1 |-> x]
  <2>11. V!EncGoto(1, At, At')
    <3>1. Of(At)' = [Of(At) EXCEPT ![1] = At'] /\ Of(At)[1] = At
      BY OneOfEach
    <3> QED BY <3>1 DEF V!EncGoto, V!Halted
  <2>12. /\ Of(recv)' = [Of(recv) EXCEPT ![1] = recv']
         /\ Of("ok")[1] = "ok" /\ Of(Count)[1] = Count
    BY OneOfEach
  <2>0. /\ Len(ready) \in Nat /\ Len(ready) <= MostSlots /\ MostSlots \in Nat
        /\ ready # <<>> <=> Len(ready) > 0
        /\ InHand => Len(ready) > 0
        /\ ready # <<>> => Len(Tail(ready)) = Len(ready) - 1
    BY NotFetched
  <2>1. CASE SigintHandler
    <3>1. UNCHANGED <<recv, late, At, Count>> /\ ~sigint /\ sigint' = TRUE
      BY <2>1 DEF SigintHandler, channel, taken, InHand
    <3> QED BY <3>1 DEF V!SigintHandler, V!Halted, V!config, V!threads
  <2>2. CASE Encode
    <3>1. UNCHANGED <<sigint, recv, late, At>> /\ InHand' = InHand /\ recv
      BY <2>2 DEF Encode, taken, InHand
    <3>2. CASE UNCHANGED <<slot, ready>>
      BY <3>1, <3>2 DEF V!vars, V!config
    <3>3. ASSUME Len(ready) < Slots[payload], NEW s \in SlotIds, ready' = Append(ready, s)
          PROVE  Step
      <4>1. Len(ready') = Len(ready) + 1
        BY <3>3 DEF IInv, TypeOK
      <4>2. Count' = Count + 1 /\ Count < MostSlots
        BY <2>0, <3>1, <3>3, <4>1, SlotsAssumption DEF MostSlots, Payloads, IInv, TypeOK
      <4> HIDE DEF Count
      <4>3. [e \in 1..1 |-> Count'] = [[e \in 1..1 |-> Count] EXCEPT ![1] = @ + 1]
        BY <4>2, OneOfEach
      <4> QED BY <3>1, <4>2, <4>3 DEF V!FrameArrives, V!Halted, V!main, V!config, Count
    <3> QED BY <2>2, <3>2, <3>3 DEF Encode
  <2>3. CASE EncStart
    <3>1. UNCHANGED <<sigint, ready, late, Count>> /\ pc = "start"
      BY <2>3 DEF EncStart, Goto, channel, taken, InHand
    <3>2. CASE pc' = "test" /\ recv' = TRUE
      <4>1. V!EncStart(1)
        BY <2>11, <2>12, <3>1, <3>2 DEF V!EncStart, V!main, V!config
      <4> QED BY <4>1 DEF V!EncoderStep
    <3>3. CASE MayFail("start") /\ pc' = "done" /\ recv' = recv
      BY <3>1, <3>3 DEF V!EncoderStep, V!EncStart, V!EncGoto, V!Halted, V!main, V!config,
                        MayFail, V!MayFail
    <3> QED BY <2>3, <3>2, <3>3 DEF EncStart, Goto
  <2>4. CASE EncTest
    <3>1. UNCHANGED <<sigint, recv, late, Count>> /\ pc = "test"
          /\ pc' = IF sigint THEN "stop" ELSE "poll"
      BY <2>4 DEF EncTest, Goto, channel, taken, InHand
    <3> QED BY <3>1 DEF V!EncoderStep, V!EncTest, V!EncGoto, V!Halted, V!main, V!config
  <2>5. CASE EncPoll
    <3>1. UNCHANGED <<sigint, recv, late, Count>> /\ pc = "poll"
          /\ pc' = IF Count > 0 THEN "get" ELSE "test"
      BY <2>0, <2>5 DEF EncPoll, Goto, channel, taken, InHand
    <3> HIDE DEF Count
    <3> QED BY <3>1 DEF V!EncoderStep, V!EncPoll, V!EncGoto, V!Halted, V!main, V!config, Count
  <2>6. CASE EncGet
    <3>1. UNCHANGED <<sigint, recv, ready>> /\ pc = "get"
      BY <2>6 DEF EncGet, Goto, channel
    <3>2. CASE ready # <<>> /\ pc' = "write" /\ CountLate
      <4>1. Count > 0 /\ Count' = Count - 1
        BY <2>0, <3>1, <3>2 DEF InHand
      <4>2. late' = IF sigint /\ late < 2 THEN late + 1 ELSE late
        BY <3>2 DEF CountLate
      <4>3. /\ [e \in 1..1 |-> Count'] = [[e \in 1..1 |-> Count] EXCEPT ![1] = @ - 1]
            /\ [e \in 1..1 |-> late']
                 = [[e \in 1..1 |-> late] EXCEPT ![1] = IF sigint /\ @ < 2 THEN @ + 1 ELSE @]
        <5>1. Of(Count)[1] = Count /\ Of(late)[1] = late
          OBVIOUS
        <5>2. /\ Of(Count') = [Of(Count) EXCEPT ![1] = Count']
              /\ Of(late') = [Of(late) EXCEPT ![1] = late']
          BY OneOfEach
        <5> HIDE DEF Count, Of
        <5>3. /\ Of(Count') = [Of(Count) EXCEPT ![1] = Of(Count)[1] - 1]
              /\ Of(late') = [Of(late) EXCEPT ![1] = IF sigint /\ Of(late)[1] < 2 THEN Of(late)[1] + 1 ELSE Of(late)[1]]
          BY <4>1, <4>2, <5>1, <5>2
        <5> QED BY <5>3 DEF Of
      <4>4. V!EncGet(1)
        <5>1. V!EncGoto(1, "get", "write")
          BY <2>11, <3>1, <3>2
        <5>2. Of(Count)[1] > 0
          BY <2>12, <4>1
        <5> QED BY <3>1, <4>3, <5>1, <5>2 DEF V!EncGet, V!main, V!config
      <4> QED BY <4>4 DEF V!EncoderStep
    <3>3. CASE MayFail("get") /\ pc' = "done" /\ UNCHANGED taken
      <4>1. UNCHANGED <<late, Count>>
        BY <3>1, <3>3 DEF taken, InHand
      <4> QED BY <3>1, <3>3, <4>1 DEF V!EncoderStep, V!EncGet, V!EncGoto, V!Halted, V!main,
                                      V!config, MayFail, V!MayFail
    <3> QED BY <2>6, <3>2, <3>3 DEF EncGet, Goto
  <2>7. CASE EncWrite
    <3>1. UNCHANGED <<sigint, recv, late, Count, At>>
      BY <2>7 DEF EncWrite, Goto, channel, taken, InHand
    <3> QED BY <3>1 DEF V!vars, V!config
  <2>8. CASE EncRelease
    <3>1. UNCHANGED <<sigint, recv, late>> /\ pc = "release" /\ pc' = "test"
          /\ ready' = Tail(ready)
      BY <2>8 DEF EncRelease, Goto, taken
    <3>2. Count' = Count
      BY <2>0, <3>1 DEF InHand
    <3> QED BY <3>1, <3>2 DEF V!EncoderStep, V!EncWrite, V!EncGoto, V!Halted, V!main, V!config
  <2>9. CASE EncStop
    <3>1. UNCHANGED <<sigint, ready, late, Count>> /\ pc = "stop" /\ pc' = "done"
          /\ (recv' = FALSE \/ (MayFail("stop") /\ recv' = recv))
      BY <2>9 DEF EncStop, Goto, channel, taken, InHand
    <3>2. V!EncStop(1)
      BY <2>11, <2>12, <3>1 DEF V!EncStop, V!main, V!config, MayFail, V!MayFail
    <3> QED BY <3>2 DEF V!EncoderStep
  <2>10. CASE UNCHANGED vars
    BY <2>10 DEF vars, channel, taken, InHand, V!vars, V!config
  <2> QED BY <2>1, <2>2, <2>3, <2>4, <2>5, <2>6, <2>7, <2>8, <2>9, <2>10 DEF Next, EncoderStep
<1> QED BY <1>2, ChannelInductive, PTL DEF Spec, StepsAsVideocapture

-----------------------------------------------------------------------------
\* Whatever getimage does, the channel behaves as it does alone.
LEMMA ChannelUndisturbed == SnapshotSpec => Spec
<1>1. SnapshotInit => Init
  BY DEF SnapshotInit
<1>2. [SnapshotNext]_snapshotVars => [Next]_vars
  BY DEF SnapshotNext, ChannelStep, ImageStep, snapshotVars
<1> QED BY <1>1, <1>2, PTL DEF SnapshotSpec, Spec

\* Each write is one of a whole frame: what reaches the V4L2 device is one, and where
\* write fell short its beginning (capture.c:1092-1094).
THEOREM DeliveredWholeHolds == SnapshotSpec => []DeliveredWhole
BY ChannelUndisturbed, ChannelInductive, PTL DEF IInv

\* The frame in a process's buffer reached the device.
OfDevice(f) == \E i \in 1..Len(device) : device[i].frame = f

\* A process alone on the file: what it has written so far is its frame.
BuffersOfDevice ==
  \A p \in Images :
    /\ img[p] \in {"open", "marker", "body", "tail"} =>
         buffer[p] = G!MapFailed \/ OfDevice(buffer[p])
    /\ img[p] \in {"body", "tail"} => buffer[p] # G!MapFailed
WritersCrowd == \A p \in Images : img[p] \in G!Writing => p \in crowd
OneFrame(f) ==
  /\ file.body \in {0, f} /\ file.tail \in {0, file.body}
  /\ ~cut => file.body = f /\ file.tail = f
AloneWrites ==
  \A p \in Images : crowd = {p} =>
    /\ img[p] \in {"marker", "body"} => file.body = 0 /\ file.tail = 0
    /\ img[p] = "tail" => file.body = buffer[p] /\ file.tail = 0
    /\ img[p] = "saved" => \E f : OfDevice(f) /\ OneFrame(f)

ImageInv ==
  /\ img \in [Images -> G!Ended \cup G!Writing \cup {"request", "dequeue", "open"}]
  /\ DOMAIN buffer = Images
  /\ \A p \in Images : buffer[p] \in Nat \cup {G!MapFailed}
  /\ crowd \subseteq Images /\ cut \in BOOLEAN
  /\ DOMAIN file = {"body", "tail"} /\ file = [body |-> file.body, tail |-> file.tail]
  /\ BuffersOfDevice /\ WritersCrowd /\ AloneWrites

\* What has been written to the device stays there.
LEMMA DeviceGrows ==
  ASSUME IInv, [Next]_vars, NEW f, OfDevice(f)
  PROVE  OfDevice(f)'
<1>1. CASE device' = device
  BY <1>1 DEF OfDevice
<1>2. ASSUME pc = "write", NEW d, LeftByWrite(d), device' = Append(device, d)
      PROVE  OfDevice(f)'
  <2>1. device \in Seq(Left) /\ d \in Left
    BY <1>2, LeftWhole DEF IInv, TypeOK, Left
  <2>2. /\ Len(device) \in Nat /\ Len(device') = Len(device) + 1
        /\ \A i \in 1..Len(device) : device'[i] = device[i]
    BY <1>2, <2>1, AppendProperties, LenProperties
  <2> QED BY <2>2 DEF OfDevice
<1>3. device' = device \/ (pc = "write" /\ EncWrite)
  BY DEF Next, SigintHandler, Encode, EncoderStep, EncStart, EncTest, EncPoll, EncGet, EncWrite,
         EncRelease, EncStop, Goto, vars, channel
<1> QED BY <1>1, <1>2, <1>3, WriteLeaves

\* Frames have numbers from 1 on.
LEMMA FramesOfDevice ==
  ASSUME IInv, NEW f, OfDevice(f)
  PROVE  f \in 1..MaxFrames
<1>1. device \in Seq(Left)
  BY DEF IInv, TypeOK, Left
<1>2. PICK i \in 1..Len(device) : device[i].frame = f
  BY DEF OfDevice
<1>3. device[i] \in Left
  BY <1>1, <1>2
<1> QED BY <1>2, <1>3 DEF Left

\* The invariant of the getimage processes, together with the channel's.
LEMMA ImageInductive == SnapshotSpec => [](ImageInv /\ IInv)
<1>1. SnapshotInit => ImageInv
  <2> SUFFICES ASSUME G!ImgInit PROVE ImageInv
    BY DEF SnapshotInit
  <2>1. /\ \A p \in Images : img[p] = "request" /\ buffer[p] = 0
        /\ crowd = {} /\ cut \in BOOLEAN /\ DOMAIN buffer = Images
    BY DEF G!ImgInit
  <2>2. img \in [Images -> G!Ended \cup G!Writing \cup {"request", "dequeue", "open"}]
    BY DEF G!ImgInit
  <2>3. DOMAIN file = {"body", "tail"} /\ file = [body |-> file.body, tail |-> file.tail]
    BY DEF G!ImgInit, G!Empty
  <2>4. BuffersOfDevice /\ WritersCrowd /\ AloneWrites
    BY <2>1 DEF BuffersOfDevice, WritersCrowd, AloneWrites, G!Writing
  <2> QED BY <2>1, <2>2, <2>3, <2>4 DEF ImageInv
<1>2. ImageInv /\ IInv /\ [SnapshotNext]_snapshotVars => ImageInv'
  <2> SUFFICES ASSUME ImageInv, IInv, [SnapshotNext]_snapshotVars PROVE ImageInv'
    OBVIOUS
  <2>1. CASE ChannelStep \/ UNCHANGED snapshotVars
    <3>1. UNCHANGED imageVars /\ [Next]_vars
      BY <2>1 DEF ChannelStep, snapshotVars
    <3>2. \A f : OfDevice(f) => OfDevice(f)'
      BY <3>1, DeviceGrows
    <3>3. \A f : OneFrame(f) => OneFrame(f)'
      BY <3>1 DEF imageVars, OneFrame
    <3> QED BY <3>1, <3>2, <3>3 DEF imageVars, ImageInv, BuffersOfDevice, WritersCrowd, AloneWrites
  <2>2. ASSUME NEW p \in Images, ImageStep(p) PROVE ImageInv'
    <3>1. \A f : OfDevice(f)' <=> OfDevice(f)
      BY <2>2 DEF ImageStep, vars, OfDevice
    <3> USE DEF G!Enter, G!Leave, G!Ended, G!Writing
    <3>2. /\ img' \in [Images -> G!Ended \cup G!Writing \cup {"request", "dequeue", "open"}]
          /\ DOMAIN buffer' = Images
          /\ \A q \in Images \ {p} : img'[q] = img[q] /\ buffer'[q] = buffer[q]
      BY <2>2 DEF ImageStep, ImageInv, G!ImgStep, G!Request, G!Dequeue, G!Open, G!Marker,
                  G!WriteBody, G!Close
    <3>8. crowd' \subseteq Images
      BY <2>2 DEF ImageStep, ImageInv, G!ImgStep, G!Request, G!Dequeue, G!Open, G!Marker,
                  G!WriteBody, G!Close, G!OthersWriting
    <3>9. buffer'[p] \in Nat \cup {G!MapFailed}
      <4>1. \A i \in 1..Len(device) : device[i].frame \in Nat
        <5> SUFFICES ASSUME NEW i \in 1..Len(device) PROVE device[i].frame \in Nat
          OBVIOUS
        <5>1. OfDevice(device[i].frame)
          BY DEF OfDevice
        <5> QED BY <5>1, FramesOfDevice, MaxFramesAssumption
      <4> QED BY <2>2, <4>1 DEF ImageStep, ImageInv, G!ImgStep, G!Request, G!Dequeue, G!Open,
                  G!Marker, G!WriteBody, G!Close
    <3>10. cut' \in BOOLEAN
      BY <2>2 DEF ImageStep, ImageInv, G!ImgStep, G!Request, G!Dequeue, G!Open, G!Marker,
                  G!WriteBody, G!Close
    <3>11. DOMAIN file' = {"body", "tail"} /\ file' = [body |-> file'.body, tail |-> file'.tail]
      <4>1. DOMAIN file = {"body", "tail"} /\ file = [body |-> file.body, tail |-> file.tail]
        BY DEF ImageInv
      <4> QED BY <2>2, <4>1 DEF ImageStep, G!ImgStep, G!Request, G!Dequeue, G!Open, G!Marker,
                  G!WriteBody, G!Close, G!Empty
    <3>12. /\ img \in [Images -> G!Ended \cup G!Writing \cup {"request", "dequeue", "open"}]
           /\ DOMAIN buffer = Images /\ crowd \subseteq Images
           /\ BuffersOfDevice /\ WritersCrowd /\ AloneWrites
      BY DEF ImageInv
    <3>3. CASE G!Request(p) \/ G!Marker(p)
      <4>1. BuffersOfDevice' /\ WritersCrowd'
        BY <3>1, <3>2, <3>12, <3>3 DEF G!Request, G!Marker, BuffersOfDevice, WritersCrowd
      <4>2. UNCHANGED <<file, crowd, cut>> /\ \A f : OneFrame(f)' <=> OneFrame(f)
        BY <3>3 DEF G!Request, G!Marker, OneFrame
      <4>3. AloneWrites'
        BY <3>1, <3>2, <3>12, <3>3, <4>2 DEF G!Request, G!Marker, AloneWrites
      <4> QED BY <3>2, <3>8, <3>9, <3>10, <3>11, <3>12, <4>1, <4>3 DEF ImageInv
    <3>4. CASE G!Dequeue(p)
      <4>1. buffer'[p] = G!MapFailed \/ OfDevice(buffer'[p]) \/ img'[p] = "failed"
        BY <3>4 DEF G!Dequeue, OfDevice, ImageInv
      <4>2. BuffersOfDevice' /\ WritersCrowd'
        BY <3>1, <3>2, <3>12, <3>4, <4>1 DEF G!Dequeue, BuffersOfDevice, WritersCrowd
      <4>3. UNCHANGED <<file, crowd, cut>> /\ \A f : OneFrame(f)' <=> OneFrame(f)
        BY <3>4 DEF G!Dequeue, OneFrame
      <4>4. AloneWrites'
        BY <3>1, <3>2, <3>12, <3>4, <4>3 DEF G!Dequeue, AloneWrites
      <4> QED BY <3>2, <3>8, <3>9, <3>10, <3>11, <3>12, <4>2, <4>4 DEF ImageInv
    <3>5. CASE G!Open(p)
      <4>1. BuffersOfDevice' /\ WritersCrowd'
        BY <3>1, <3>2, <3>12, <3>5 DEF G!Open, G!OthersWriting, BuffersOfDevice, WritersCrowd
      <4>2. CASE UNCHANGED <<file, crowd, cut>> /\ img'[p] = "failed"
        <5>1. \A f : OneFrame(f)' <=> OneFrame(f)
          BY <4>2 DEF OneFrame
        <5> QED BY <3>1, <3>2, <3>8, <3>9, <3>10, <3>11, <3>12, <4>1, <4>2, <5>1
              DEF AloneWrites, ImageInv
      <4>3. CASE file' = G!Empty /\ img'[p] = "marker" /\ p \in crowd'
        <5>1. file'.body = 0 /\ file'.tail = 0
          BY <4>3 DEF G!Empty
        <5>2. AloneWrites'
          BY <3>2, <4>3, <5>1 DEF AloneWrites
        <5> QED BY <3>2, <3>8, <3>9, <3>10, <3>11, <3>12, <4>1, <5>2 DEF ImageInv
      <4>4. CASE G!Enter(p, "open", "marker") /\ file' = G!Empty
                 /\ crowd' = IF G!OthersWriting(p) = {} THEN {p} ELSE crowd \cup {p}
        <5>1. img'[p] = "marker" /\ p \in crowd'
          BY <3>12, <4>4
        <5> QED BY <4>3, <4>4, <5>1
      <4>5. CASE G!Leave(p, "open", "failed") /\ UNCHANGED <<file, crowd, cut>>
        <5>1. img'[p] = "failed"
          BY <3>12, <4>5
        <5> QED BY <4>2, <4>5, <5>1
      <4> QED BY <3>5, <4>4, <4>5 DEF G!Open
    <3>6. CASE G!WriteBody(p)
      <4>1. BuffersOfDevice' /\ WritersCrowd'
        BY <3>1, <3>2, <3>12, <3>6 DEF G!WriteBody, BuffersOfDevice, WritersCrowd
      <4>2. p \in crowd /\ crowd' = crowd /\ OfDevice(buffer[p])
        BY <3>6, <3>12 DEF G!WriteBody, WritersCrowd, BuffersOfDevice
      <4>3. /\ crowd = {p} => file.body = 0 /\ file.tail = 0
            /\ \A q \in Images : crowd' = {q} => q = p
        BY <3>6, <3>12, <4>2 DEF G!WriteBody, AloneWrites
      <4>4. CASE img'[p] = "tail" /\ file' = [file EXCEPT !.body = buffer[p]] /\ buffer' = buffer
        <5>1. file'.body = buffer'[p] /\ file'.tail = file.tail
          BY <4>4 DEF ImageInv
        <5> QED BY <3>2, <3>8, <3>9, <3>10, <3>11, <3>12, <4>1, <4>2, <4>3, <4>4, <5>1
              DEF AloneWrites, ImageInv
      <4>5. CASE img'[p] = "saved" /\ file' = file /\ cut' = TRUE
        <5>1. crowd = {p} => \E f : OfDevice(f)' /\ OneFrame(f)'
          <6>1. ASSUME crowd = {p} PROVE \A f : OneFrame(f)'
            BY <4>3, <4>5, <6>1 DEF OneFrame
          <6> QED BY <3>1, <4>2, <6>1
        <5> QED BY <3>2, <3>8, <3>9, <3>10, <3>11, <3>12, <4>1, <4>2, <4>3, <4>5, <5>1
              DEF AloneWrites, ImageInv
      <4> QED BY <3>6, <3>12, <4>4, <4>5 DEF G!WriteBody
    <3>7. CASE G!Close(p)
      <4>1. BuffersOfDevice' /\ WritersCrowd'
        BY <3>1, <3>2, <3>12, <3>7 DEF G!Close, BuffersOfDevice, WritersCrowd
      <4>2. p \in crowd /\ crowd' = crowd /\ OfDevice(buffer[p]) /\ img'[p] = "saved"
        BY <3>7, <3>12 DEF G!Close, WritersCrowd, BuffersOfDevice
      <4>3. /\ crowd = {p} => file.body = buffer[p] /\ file.tail = 0
            /\ \A q \in Images : crowd' = {q} => q = p
        BY <3>7, <3>12, <4>2 DEF G!Close, AloneWrites
      <4>4. \/ file'.body = file.body /\ file'.tail = buffer[p]
            \/ file' = file /\ cut' = TRUE
        BY <3>7 DEF G!Close, ImageInv
      <4>5. crowd = {p} => \E f : OfDevice(f)' /\ OneFrame(f)'
        <5> SUFFICES ASSUME crowd = {p}, NEW f, f = buffer[p] PROVE OfDevice(f)' /\ OneFrame(f)'
          OBVIOUS
        <5>1. OneFrame(f)'
          BY <4>3, <4>4 DEF OneFrame
        <5> QED BY <3>1, <4>2, <5>1
      <4> QED BY <3>2, <3>8, <3>9, <3>10, <3>11, <3>12, <4>1, <4>2, <4>3, <4>5
            DEF AloneWrites, ImageInv
    <3> QED BY <2>2, <3>3, <3>4, <3>5, <3>6, <3>7 DEF ImageStep, G!ImgStep
  <2> QED BY <2>1, <2>2 DEF SnapshotNext
<1> QED BY <1>1, <1>2, ChannelUndisturbed, ChannelInductive, PTL DEF SnapshotSpec

\* Every variable keeps its type; no slot is in the buffer twice, the thread works on
\* the oldest one, and no getimage writes the file without a frame unless its buffer
\* was never mapped (capture.c:1076, getimage.c:104).
THEOREM TypeCorrect == SnapshotSpec => []SnapshotTypeOK
<1>1. ImageInv /\ IInv => SnapshotTypeOK
  <2> SUFFICES ASSUME ImageInv, IInv PROVE SnapshotTypeOK
    OBVIOUS
  <2>1. \A p \in Images : img[p] \in G!Writing => p \in crowd /\ buffer[p] # 0
    BY FramesOfDevice, MaxFramesAssumption
    DEF ImageInv, WritersCrowd, BuffersOfDevice, G!Writing, G!MapFailed
  <2> QED BY <2>1 DEF IInv, ImageInv, SnapshotTypeOK, G!ImgTypeOK
<1> QED BY <1>1, ImageInductive, PTL

\* A file that was saved with nobody else writing holds nothing but one frame of the
\* device, all of it unless fwrite or fclose fell short (getimage.c:159-178), for any
\* number of getimage processes.
THEOREM SavedOneFrameHolds == SnapshotSpec => []SavedOneFrame
<1>1. ImageInv => SavedOneFrame
  <2> SUFFICES ASSUME ImageInv, NEW p \in Images, img[p] = "saved", crowd = {p}
               PROVE  \E i \in 1..Len(device) :
                        LET f == device[i].frame IN
                          /\ file.body \in {0, f} /\ file.tail \in {0, file.body}
                          /\ ~cut => file = [body |-> f, tail |-> f]
    BY DEF SavedOneFrame
  <2>1. PICK f : OfDevice(f) /\ OneFrame(f)
    BY DEF ImageInv, AloneWrites
  <2>2. ~cut => file = [body |-> f, tail |-> f]
    BY <2>1 DEF OneFrame, ImageInv
  <2> QED BY <2>1, <2>2 DEF OneFrame, OfDevice
<1> QED BY <1>1, ImageInductive, PTL

\* Only a process that has a frame, or a buffer it takes for one, throws the last
\* image away (getimage.c:146-159), for any number of processes.
THEOREM KeepsLastImageHolds == SnapshotSpec => KeepsLastImage
<1> DEFINE Kept == file # G!Empty /\ file' = G!Empty =>
                     \E p \in Images : img[p] = "open" /\ buffer[p] # 0
<1>1. ImageInv /\ IInv /\ [SnapshotNext]_snapshotVars => [Kept]_snapshotVars
  <2> SUFFICES ASSUME ImageInv, IInv, SnapshotNext, file # G!Empty, file' = G!Empty
               PROVE  \E p \in Images : img[p] = "open" /\ buffer[p] # 0
    BY DEF snapshotVars
  <2>1. PICK p \in Images : ImageStep(p)
    BY DEF SnapshotNext, ChannelStep, imageVars
  <2>2. img[p] \in {"open", "body", "tail"}
    BY <2>1 DEF ImageStep, G!ImgStep, G!Request, G!Dequeue, G!Open, G!Marker, G!WriteBody,
                G!Close, G!Enter, G!Leave
  <2>3. buffer[p] # 0
    BY <2>2, FramesOfDevice, MaxFramesAssumption DEF ImageInv, BuffersOfDevice, G!MapFailed
  <2>4. CASE img[p] = "open"
    BY <2>3, <2>4
  <2>5. CASE img[p] = "body"
    <3>1. file'.body = buffer[p]
      BY <2>1, <2>5 DEF ImageStep, G!ImgStep, G!Request, G!Dequeue, G!Open, G!Marker,
                        G!WriteBody, G!Close, G!Enter, G!Leave, ImageInv
    <3> QED BY <2>3, <3>1 DEF G!Empty
  <2>6. CASE img[p] = "tail"
    <3>1. file'.tail = buffer[p]
      BY <2>1, <2>6 DEF ImageStep, G!ImgStep, G!Request, G!Dequeue, G!Open, G!Marker,
                        G!WriteBody, G!Close, G!Enter, G!Leave, ImageInv
    <3> QED BY <2>3, <3>1 DEF G!Empty
  <2> QED BY <2>2, <2>4, <2>5, <2>6
<1> QED BY <1>1, ImageInductive, PTL DEF SnapshotSpec, KeepsLastImage
===============================================================================
