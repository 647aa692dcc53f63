------------------------------ MODULE LossyFifo ------------------------------
(***************************************************************************)
(* What an encoder channel promises to the reader of its V4L2 device: the   *)
(* frames that arrive are frames of the camera, in the camera's order, and  *)
(* none arrives twice.  A frame may be lost when the buffer is full, or on  *)
(* the last step to the device.                                             *)
(***************************************************************************)
EXTENDS Integers, Sequences, TLAPS

CONSTANT Capacity   \* frames that can wait

VARIABLES
  next,       \* the number of the next frame of the camera
  waiting,    \* frames in the buffer, oldest first
  arrived     \* frames that arrived, in the order of their arrival

vars == <<next, waiting, arrived>>

Init ==
  /\ next = 1
  /\ waiting = <<>>
  /\ arrived = <<>>

\* The camera produces a frame, which is buffered or lost.
Produce ==
  /\ next' = next + 1
  /\ \/ Len(waiting) < Capacity /\ waiting' = Append(waiting, next)
     \/ UNCHANGED waiting
  /\ UNCHANGED arrived

\* The oldest frame leaves the buffer, and arrives or is lost.
Deliver ==
  /\ waiting # <<>>
  /\ waiting' = Tail(waiting)
  /\ \/ arrived' = Append(arrived, Head(waiting))
     \/ UNCHANGED arrived
  /\ UNCHANGED next

Next == Produce \/ Deliver

Spec == Init /\ [][Next]_vars
-----------------------------------------------------------------------------
Increasing(s) == \A i, j \in 1..Len(s) : i < j => s[i] < s[j]

\* Frames arrive in the order in which the camera produced them and no frame
\* arrives twice, which is what write on the V4L2 device has to preserve
\* (capture.c:1094).
InOrder == Increasing(arrived)
-----------------------------------------------------------------------------
\* What order needs: the frames that wait are newer than those that arrived, and
\* older than the next one.
OrderInv ==
  /\ next \in Nat
  /\ waiting \in Seq(Nat) /\ arrived \in Seq(Nat)
  /\ Increasing(waiting) /\ Increasing(arrived)
  /\ \A i \in 1..Len(arrived), j \in 1..Len(waiting) : arrived[i] < waiting[j]
  /\ \A i \in 1..Len(arrived) : arrived[i] < next
  /\ \A j \in 1..Len(waiting) : waiting[j] < next

\* A new element at the end of an increasing sequence, larger than all before.
LEMMA AppendIncreasing ==
  ASSUME NEW s \in Seq(Nat), NEW x \in Nat, Increasing(s), \A i \in 1..Len(s) : s[i] < x
  PROVE  Increasing(Append(s, x))
<1> DEFINE t == Append(s, x)
<1>1. /\ Len(s) \in Nat /\ Len(t) = Len(s) + 1 /\ t[Len(s) + 1] = x
      /\ \A i \in 1..Len(s) : t[i] = s[i]
  OBVIOUS
<1> SUFFICES ASSUME NEW i \in 1..Len(t), NEW j \in 1..Len(t), i < j
             PROVE  t[i] < t[j]
  BY DEF Increasing
<1> HIDE DEF t
<1>2. i \in 1..Len(s)
  BY <1>1
<1>3. CASE j = Len(s) + 1
  BY <1>1, <1>2, <1>3
<1>4. CASE j \in 1..Len(s)
  BY <1>1, <1>2, <1>4 DEF Increasing
<1> QED BY <1>1, <1>3, <1>4

\* What follows the first element of an increasing sequence is larger than it.
LEMMA TailIncreasing ==
  ASSUME NEW s \in Seq(Nat), s # <<>>, Increasing(s)
  PROVE  /\ Increasing(Tail(s))
         /\ \A j \in 1..Len(Tail(s)) : j + 1 \in 1..Len(s) /\ Tail(s)[j] = s[j + 1]
         /\ Head(s) \in Nat /\ 1 \in 1..Len(s) /\ Head(s) = s[1]
         /\ \A j \in 1..Len(Tail(s)) : Head(s) < Tail(s)[j]
<1>1. /\ Len(s) \in Nat /\ Len(s) > 0 /\ Len(Tail(s)) = Len(s) - 1
      /\ \A j \in 1..Len(Tail(s)) : j + 1 \in 1..Len(s) /\ Tail(s)[j] = s[j + 1]
      /\ Head(s) \in Nat /\ 1 \in 1..Len(s) /\ Head(s) = s[1]
  OBVIOUS
<1>2. ASSUME NEW i \in 1..Len(Tail(s)), NEW j \in 1..Len(Tail(s)), i < j
      PROVE  Tail(s)[i] < Tail(s)[j]
  <2>1. i + 1 \in 1..Len(s) /\ j + 1 \in 1..Len(s) /\ i + 1 < j + 1
    BY <1>1, <1>2
  <2> QED BY <1>1, <2>1 DEF Increasing
<1>3. ASSUME NEW j \in 1..Len(Tail(s)) PROVE Head(s) < Tail(s)[j]
  <2>1. j + 1 \in 1..Len(s) /\ 1 < j + 1
    BY <1>1
  <2> QED BY <1>1, <2>1 DEF Increasing
<1> QED BY <1>1, <1>2, <1>3 DEF Increasing

\* Whatever is lost, what arrives of the frames written to the V4L2 device
\* (capture.c:1094) arrives in order and once.
THEOREM InOrderHolds == Spec => []InOrder
<1>1. Init => OrderInv
  BY DEF Init, OrderInv, Increasing
<1>2. OrderInv /\ [Next]_vars => OrderInv'
  <2> SUFFICES ASSUME OrderInv, [Next]_vars PROVE OrderInv'
    OBVIOUS
  <2>1. /\ next \in Nat /\ waiting \in Seq(Nat) /\ arrived \in Seq(Nat)
        /\ Increasing(waiting) /\ Increasing(arrived)
    BY DEF OrderInv
  <2>2. \A i \in 1..Len(arrived), j \in 1..Len(waiting) : arrived[i] < waiting[j]
    BY DEF OrderInv
  <2>3. /\ \A i \in 1..Len(arrived) : arrived[i] < next
        /\ \A j \in 1..Len(waiting) : waiting[j] < next
    BY DEF OrderInv
  <2>4. CASE Produce /\ UNCHANGED waiting
    BY <2>1, <2>2, <2>3, <2>4 DEF Produce, OrderInv, Increasing
  <2>5. CASE Produce /\ waiting' = Append(waiting, next)
    <3>1. Increasing(waiting')
      BY <2>1, <2>3, <2>5, AppendIncreasing
    <3>2. /\ waiting' \in Seq(Nat) /\ Len(waiting') = Len(waiting) + 1
          /\ \A j \in 1..Len(waiting') :
               waiting'[j] = next \/ (j \in 1..Len(waiting) /\ waiting'[j] = waiting[j])
      BY <2>1, <2>5
    <3>3. next' = next + 1 /\ arrived' = arrived
      BY <2>5 DEF Produce
    <3>4. \A j \in 1..Len(waiting') : waiting'[j] < next + 1
      <4>1. \A j \in 1..Len(waiting) : waiting[j] \in Nat /\ waiting[j] < next + 1
        BY <2>1, <2>3
      <4>2. next < next + 1
        BY <2>1
      <4> QED BY <3>2, <4>1, <4>2
    <3>5. \A i \in 1..Len(arrived) : arrived[i] < next + 1
      BY <2>1, <2>3
    <3>6. \A i \in 1..Len(arrived), j \in 1..Len(waiting') : arrived[i] < waiting'[j]
      BY <2>2, <2>3, <3>2
    <3> QED BY <2>1, <3>1, <3>2, <3>3, <3>4, <3>5, <3>6 DEF OrderInv
  <2>6. ASSUME Deliver PROVE OrderInv'
    <3>1. waiting # <<>> /\ waiting' = Tail(waiting) /\ next' = next
      BY <2>6 DEF Deliver
    <3>2. /\ waiting' \in Seq(Nat) /\ Increasing(waiting')
          /\ \A j \in 1..Len(waiting') : j + 1 \in 1..Len(waiting) /\ waiting'[j] = waiting[j + 1]
          /\ Head(waiting) \in Nat /\ 1 \in 1..Len(waiting) /\ Head(waiting) = waiting[1]
          /\ \A j \in 1..Len(waiting') : Head(waiting) < waiting'[j]
      BY <2>1, <3>1, TailIncreasing
    <3>3. \A j \in 1..Len(waiting') : waiting'[j] < next
      BY <2>3, <3>2
    <3>4. \A i \in 1..Len(arrived), j \in 1..Len(waiting') : arrived[i] < waiting'[j]
      BY <2>2, <3>2
    <3>5. CASE UNCHANGED arrived
      BY <2>1, <2>3, <3>1, <3>2, <3>3, <3>4, <3>5 DEF OrderInv
    <3>6. CASE arrived' = Append(arrived, Head(waiting))
      <4>1. \A i \in 1..Len(arrived) : arrived[i] < Head(waiting)
        BY <2>2, <3>2
      <4>2. Increasing(arrived')
        BY <2>1, <3>2, <3>6, <4>1, AppendIncreasing
      <4>3. /\ arrived' \in Seq(Nat)
            /\ \A i \in 1..Len(arrived') : arrived'[i] = Head(waiting)
                 \/ (i \in 1..Len(arrived) /\ arrived'[i] = arrived[i])
        BY <2>1, <3>2, <3>6
      <4>4. \A i \in 1..Len(arrived') : arrived'[i] < next
        BY <2>3, <3>2, <4>3
      <4>5. \A i \in 1..Len(arrived'), j \in 1..Len(waiting') : arrived'[i] < waiting'[j]
        BY <3>2, <3>4, <4>3
      <4> QED BY <2>1, <3>1, <3>2, <3>3, <4>2, <4>3, <4>4, <4>5 DEF OrderInv
    <3> QED BY <2>6, <3>5, <3>6 DEF Deliver
  <2>7. CASE UNCHANGED vars
    BY <2>7 DEF vars, OrderInv, Increasing
  <2> QED BY <2>4, <2>5, <2>6, <2>7 DEF Next, Produce
<1>3. OrderInv => InOrder
  BY DEF OrderInv, InOrder
<1> QED BY <1>1, <1>2, <1>3, PTL DEF Spec
=============================================================================
