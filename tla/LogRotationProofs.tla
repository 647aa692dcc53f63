-------------------------- MODULE LogRotationProofs --------------------------
(* Proofs about LogRotation for every set of threads, every size of the      *)
(* callback table and every number of signals.                               *)
EXTENDS LogRotation, TLAPS

USE ThreadsAssumption, BoundsAssumption

\* Without callbacks, and with the one of the current file in the first slot.
Bare == \A i \in Slots : callbacks[i] = Empty
Current == logfile > 0 /\ open = {logfile}
Registered ==
  /\ Current /\ primary = 0
  /\ \A i \in Slots : callbacks[i] = IF i = 0 THEN logfile ELSE Empty

\* Before the set-up is done nothing runs but main.
SettingUp ==
  /\ setup # "crashed"
  /\ setup # "done" =>
       /\ holder = NoThread /\ Bare
       /\ \A t \in Threads : handler[t] = "none" /\ logging[t] = "idle"
  /\ setup \in {"lock", "fopen"} => open = {} /\ logfile = 0
  /\ setup = "add" => Current /\ argument = logfile

\* The owner of log_mutex is in the loop of log_log or past the handler's lock.
Owned ==
  \A t \in Threads :
    /\ handler[t] \in Working \/ logging[t] = "loop" => holder = t
    /\ ~(handler[t] \in Working /\ logging[t] = "loop")

\* How far the rotation has got, where there is one.
Rotating ==
  setup = "done" =>
    /\ \A t \in Threads :
         /\ handler[t] = "close" => Bare /\ Current
         /\ handler[t] = "reopen" => Bare /\ open = {} /\ logfile = 0
         /\ handler[t] = "add" => Bare /\ Current
    /\ (\A t \in Threads : handler[t] \notin {"close", "reopen", "add"}) => Registered

\* A message has been written to the current file or not yet at all.
Writing ==
  \A t \in Threads :
    logging[t] = "loop" => \/ next[t] = 0 /\ wrote[t] = <<>>
                           \/ next[t] = 1 /\ wrote[t] = <<logfile>>

\* The types the other parts rest on.
Typed ==
  /\ setup \in {"lock", "fopen", "add", "done", "crashed"}
  /\ opened \in Nat /\ logfile \in Nat
  /\ callbacks \in [Slots -> {Empty} \cup Nat]
  /\ logging \in [Threads -> {"idle", "loop"}]
  /\ next \in [Threads -> 0..MaxCallbacks]
  /\ wrote \in [Threads -> Seq(Nat)]
  /\ handler \in [Threads -> {"none", "lock"} \cup Working]

\* As long as every fopen works and no signal comes before the set-up is done.
Safe == SettingUp /\ Owned /\ Rotating /\ Writing

IInv == TypeOK /\ (smooth => Safe)

-----------------------------------------------------------------------------
(* Types                                                                    *)

LEMMA InitType == Init => TypeOK
<1> SUFFICES ASSUME Init PROVE TypeOK
  OBVIOUS
<1>1. smooth \in BOOLEAN /\ pending \in BOOLEAN
  BY Zenon DEF Init
<1>2. primary \in Slots
  BY DEF Init, Slots
<1>3. callbacks \in [Slots -> {Empty} \cup Nat]
  BY DEF Init
<1>4. wrote \in [Threads -> Seq(Nat)] /\ next \in [Threads -> 0..MaxCallbacks]
  BY DEF Init
<1> QED
  BY <1>1, <1>2, <1>3, <1>4 DEF Init, TypeOK

LEMMA FopenType ==
  ASSUME TypeOK, Fopen
  PROVE  /\ opened' \in Nat /\ open' \subseteq 1..opened'
         /\ logfile' \in Nat /\ smooth' \in BOOLEAN
<1>1. CASE opened' = opened + 1 /\ open' = open \cup {opened + 1}
           /\ logfile' = opened + 1 /\ UNCHANGED smooth
  <2>1. opened' \in Nat /\ logfile' \in Nat /\ open' \subseteq 1..opened'
    BY <1>1 DEF TypeOK
  <2> QED
    BY <1>1, <2>1, Zenon DEF TypeOK
<1>2. CASE logfile' = 0 /\ smooth' = FALSE /\ UNCHANGED <<opened, open>>
  BY <1>2 DEF TypeOK
<1> QED
  BY <1>1, <1>2 DEF Fopen

LEMMA AddCallbackType ==
  ASSUME TypeOK, NEW fp \in Nat, AddCallback(fp)
  PROVE  /\ primary' \in Slots \cup {-1}
         /\ callbacks' \in [Slots -> {Empty} \cup Nat]
<1>1. CASE \E i \in Slots : primary' = i /\ callbacks' = [callbacks EXCEPT ![i] = fp]
  BY <1>1 DEF TypeOK
<1>2. CASE primary' = -1 /\ UNCHANGED callbacks
  BY <1>2 DEF TypeOK
<1> QED
  BY <1>1, <1>2 DEF AddCallback

LEMMA StepType == TypeOK /\ [Next]_vars => TypeOK'
<1> SUFFICES ASSUME TypeOK, [Next]_vars PROVE TypeOK'
  OBVIOUS
<1> USE DEF files, table, calls, signals
<1>1. CASE LogSetLock
  BY <1>1 DEF LogSetLock, TypeOK
<1>2. CASE OpenLogfile
  <2>1. Fopen /\ argument' = logfile' /\ setup' = "add"
    BY <1>2 DEF OpenLogfile
  <2> QED
    BY <1>2, <2>1, FopenType DEF OpenLogfile, TypeOK
<1>3. CASE AddLogfile
  <2>1. PICK fp \in {argument, logfile} : AddCallback(fp)
    BY <1>3 DEF AddLogfile
  <2>2. fp \in Nat
    BY DEF TypeOK
  <2> QED
    BY <1>3, <2>1, <2>2, AddCallbackType DEF AddLogfile, TypeOK
<1>4. CASE Signal
  BY <1>4 DEF Signal, TypeOK
<1>5. ASSUME NEW t \in Threads, LogLock(t) PROVE TypeOK'
  BY <1>5 DEF LogLock, TypeOK
<1>6. ASSUME NEW t \in Threads, LogWrite(t) PROVE TypeOK'
  <2>1. next[t] \in Slots /\ callbacks[next[t]] \in Nat
    BY <1>6 DEF LogWrite, AtEnd, TypeOK
  <2>2. wrote' \in [Threads -> Seq(Nat)] /\ next' \in [Threads -> 0..MaxCallbacks]
    BY <1>6, <2>1 DEF LogWrite, TypeOK, Slots
  <2> QED
    BY <1>6, <2>2 DEF LogWrite, TypeOK
<1>7. ASSUME NEW t \in Threads, LogUnlock(t) PROVE TypeOK'
  BY <1>7 DEF LogUnlock, TypeOK
<1>8. ASSUME NEW t \in Threads, LogCrash(t) PROVE TypeOK'
  BY <1>8 DEF LogCrash, TypeOK
<1>9. ASSUME NEW t \in Threads, Deliver(t) PROVE TypeOK'
  <2>1. smooth' \in BOOLEAN
    BY <1>9, Zenon DEF Deliver, TypeOK
  <2> QED
    BY <1>9, <2>1 DEF Deliver, TypeOK
<1>10. ASSUME NEW t \in Threads, HandlerLock(t) PROVE TypeOK'
  BY <1>10 DEF HandlerLock, HandlerGoto, TypeOK, Working
<1>11. ASSUME NEW t \in Threads, RemoveCallback(t) PROVE TypeOK'
  BY <1>11 DEF RemoveCallback, HandlerGoto, TypeOK, Working
<1>12. ASSUME NEW t \in Threads, RemoveOutside(t) PROVE TypeOK'
  BY <1>12 DEF RemoveOutside, TypeOK
<1>13. ASSUME NEW t \in Threads, CloseLogfile(t) PROVE TypeOK'
  BY <1>13 DEF CloseLogfile, HandlerGoto, TypeOK, Working
<1>14. ASSUME NEW t \in Threads, ReopenLogfile(t) PROVE TypeOK'
  <2>1. Fopen /\ HandlerGoto(t, "reopen", "add") /\ UNCHANGED <<table, holder>>
    BY <1>14 DEF ReopenLogfile
  <2> QED
    BY <2>1, FopenType DEF HandlerGoto, TypeOK, Working
<1>15. ASSUME NEW t \in Threads, ReaddLogfile(t) PROVE TypeOK'
  <2>1. AddCallback(logfile) /\ logfile \in Nat
    BY <1>15 DEF ReaddLogfile, TypeOK
  <2> QED
    BY <1>15, <2>1, AddCallbackType DEF ReaddLogfile, HandlerGoto, TypeOK, Working
<1>16. ASSUME NEW t \in Threads, HandlerUnlock(t) PROVE TypeOK'
  BY <1>16 DEF HandlerUnlock, HandlerGoto, TypeOK
<1>17. CASE UNCHANGED vars
  BY <1>17 DEF vars, TypeOK
<1> QED
  BY <1>1, <1>2, <1>3, <1>4, <1>5, <1>6, <1>7, <1>8, <1>9, <1>10, <1>11, <1>12,
     <1>13, <1>14, <1>15, <1>16, <1>17
  DEF Next, SetUp, LogLog, Handler

-----------------------------------------------------------------------------
(* Rotation                                                                 *)

LEMMA InitSafe == Init => Safe
BY DEF Init, Safe, SettingUp, Owned, Rotating, Writing, Bare, Working

\* The first callback of an empty table goes to the first slot.
LEMMA AddToBare ==
  ASSUME NEW fp \in Nat, Bare, AddCallback(fp),
         callbacks \in [Slots -> {Empty} \cup Nat]
  PROVE  /\ primary' = 0
         /\ callbacks' \in [Slots -> {Empty} \cup Nat]
         /\ \A i \in Slots : callbacks'[i] = IF i = 0 THEN fp ELSE Empty
<1>1. 0 \in Slots
  BY DEF Slots
<1>2. PICK i \in Slots : /\ \A j \in 0..i - 1 : callbacks[j] # Empty
                         /\ callbacks' = [callbacks EXCEPT ![i] = fp]
                         /\ primary' = i
  BY <1>1 DEF AddCallback, Bare
<1>3. i = 0
  <2> SUFFICES ASSUME i # 0 PROVE FALSE
    OBVIOUS
  <2>1. 0 \in 0..i - 1
    BY DEF Slots
  <2> QED
    BY <1>1, <1>2, <2>1 DEF Bare
<1> QED
  BY <1>2, <1>3 DEF Bare

LEMMA StepSafe ==
  ASSUME Typed, Safe, smooth', [Next]_vars
  PROVE  Safe'
<1> USE DEF Safe, Typed, Working, files, table, calls, signals
<1>1. CASE LogSetLock
  BY <1>1 DEF LogSetLock, SettingUp, Owned, Rotating, Writing, Bare
<1>2. CASE OpenLogfile
  BY <1>2 DEF OpenLogfile, Fopen, SettingUp, Owned, Rotating, Writing, Bare, Current
<1>3. CASE AddLogfile
  <2>1. AddCallback(logfile) /\ Bare /\ Current
    BY <1>3 DEF AddLogfile, SettingUp
  <2>2. /\ primary' = 0 /\ callbacks' \in [Slots -> {Empty} \cup Nat]
        /\ \A i \in Slots : callbacks'[i] = IF i = 0 THEN logfile ELSE Empty
    BY <2>1, AddToBare
  <2>3. Registered'
    BY <1>3, <2>1, <2>2 DEF AddLogfile, Registered, Current
  <2> QED
    BY <1>3, <2>2, <2>3 DEF AddLogfile, SettingUp, Owned, Rotating, Writing
<1>4. CASE Signal
  BY <1>4 DEF Signal, SettingUp, Owned, Rotating, Writing, Bare, Current, Registered
<1>5. ASSUME NEW t \in Threads, LogLock(t) PROVE Safe'
  BY <1>5 DEF LogLock, Runs, SettingUp, Owned, Rotating, Writing, Bare, Current,
     Registered
<1>6. ASSUME NEW t \in Threads, LogWrite(t) PROVE Safe'
  <2>1. setup = "done" /\ logging[t] = "loop" /\ handler[t] = "none" /\ ~AtEnd(t)
    BY <1>6 DEF LogWrite, Runs
  <2>2. Registered
    BY <2>1 DEF Owned, Rotating
  <2>3. next[t] = 0 /\ wrote[t] = <<>>
    BY <2>1, <2>2 DEF AtEnd, Registered, Writing, Slots
  <2>4. callbacks[0] = logfile
    BY <2>2 DEF Registered, Slots
  <2>5. /\ wrote' = [wrote EXCEPT ![t] = <<logfile>>]
        /\ next' = [next EXCEPT ![t] = 1]
    BY <1>6, <2>3, <2>4 DEF LogWrite
  <2>6. UNCHANGED <<setup, argument, logfile, open, primary, callbacks, holder,
                    logging, handler>>
    BY <1>6 DEF LogWrite
  <2>7. Writing'
    BY <2>1, <2>5, <2>6 DEF Writing
  <2> QED
    BY <2>6, <2>7 DEF SettingUp, Owned, Rotating, Bare, Current, Registered
<1>7. ASSUME NEW t \in Threads, LogUnlock(t) PROVE Safe'
  BY <1>7 DEF LogUnlock, Runs, SettingUp, Owned, Rotating, Writing, Bare, Current,
     Registered
<1>8. ASSUME NEW t \in Threads, LogCrash(t) PROVE Safe'
  BY <1>8 DEF LogCrash, Runs, AtEnd, SettingUp, Owned, Rotating, Writing, Bare,
     Current, Registered, Slots
<1>9. ASSUME NEW t \in Threads, Deliver(t) PROVE Safe'
  BY <1>9 DEF Deliver, SettingUp, Owned, Rotating, Writing, Bare, Current, Registered
<1>10. ASSUME NEW t \in Threads, HandlerLock(t) PROVE Safe'
  BY <1>10 DEF HandlerLock, HandlerGoto, SettingUp, Owned, Rotating, Writing, Bare,
     Current, Registered
<1>11. ASSUME NEW t \in Threads, RemoveCallback(t) PROVE Safe'
  BY <1>11 DEF RemoveCallback, HandlerGoto, SettingUp, Owned, Rotating, Writing, Bare,
     Current, Registered
<1>12. ASSUME NEW t \in Threads, RemoveOutside(t) PROVE Safe'
  BY <1>12 DEF RemoveOutside, SettingUp, Owned, Rotating, Writing, Bare, Current,
     Registered, Slots
<1>13. ASSUME NEW t \in Threads, CloseLogfile(t) PROVE Safe'
  BY <1>13 DEF CloseLogfile, HandlerGoto, SettingUp, Owned, Rotating, Writing, Bare,
     Current, Registered
<1>14. ASSUME NEW t \in Threads, ReopenLogfile(t) PROVE Safe'
  BY <1>14 DEF ReopenLogfile, Fopen, HandlerGoto, SettingUp, Owned, Rotating, Writing,
     Bare, Current, Registered
<1>15. ASSUME NEW t \in Threads, ReaddLogfile(t) PROVE Safe'
  <2>1. AddCallback(logfile) /\ Bare /\ Current
    BY <1>15 DEF ReaddLogfile, HandlerGoto, SettingUp, Rotating
  <2>2. /\ primary' = 0 /\ callbacks' \in [Slots -> {Empty} \cup Nat]
        /\ \A i \in Slots : callbacks'[i] = IF i = 0 THEN logfile ELSE Empty
    BY <2>1, AddToBare
  <2>3. Registered'
    BY <1>15, <2>1, <2>2 DEF ReaddLogfile, HandlerGoto, Registered, Current
  <2> QED
    BY <1>15, <2>2, <2>3 DEF ReaddLogfile, HandlerGoto, SettingUp, Owned, Rotating,
       Writing
<1>16. ASSUME NEW t \in Threads, HandlerUnlock(t) PROVE Safe'
  BY <1>16 DEF HandlerUnlock, HandlerGoto, SettingUp, Owned, Rotating, Writing, Bare,
     Current, Registered
<1>17. CASE UNCHANGED vars
  BY <1>17 DEF vars, SettingUp, Owned, Rotating, Writing, Bare, Current, Registered
<1> QED
  BY <1>1, <1>2, <1>3, <1>4, <1>5, <1>6, <1>7, <1>8, <1>9, <1>10, <1>11, <1>12,
     <1>13, <1>14, <1>15, <1>16, <1>17
  DEF Next, SetUp, LogLog, Handler

LEMMA StepIInv == IInv /\ [Next]_vars => IInv'
<1> SUFFICES ASSUME IInv, [Next]_vars PROVE IInv'
  OBVIOUS
<1>1. TypeOK /\ TypeOK'
  BY StepType DEF IInv
<1>2. Typed
  BY <1>1 DEF TypeOK, Typed
<1>3. smooth' => smooth
  BY Zenon DEF Next, SetUp, LogSetLock, OpenLogfile, AddLogfile, Fopen, Signal, LogLog,
     LogLock, LogWrite, LogUnlock, LogCrash, Deliver, Handler, HandlerLock,
     RemoveCallback, RemoveOutside, CloseLogfile, ReopenLogfile, ReaddLogfile,
     HandlerUnlock, files, vars
<1>4. smooth' => Safe'
  BY <1>2, <1>3, StepSafe DEF IInv
<1> QED
  BY <1>1, <1>4 DEF IInv

\* Every variable keeps its type, also when fopen fails or a signal comes early.
THEOREM TypeCorrect == Spec => []TypeOK
<1>1. Init => TypeOK
  BY InitType
<1>2. TypeOK /\ [Next]_vars => TypeOK'
  BY StepType
<1> QED
  BY <1>1, <1>2, PTL DEF Spec

LEMMA Inductive == Spec => []IInv
<1>1. Init => IInv
  BY InitType, InitSafe DEF IInv
<1>2. IInv /\ [Next]_vars => IInv'
  BY StepIInv
<1> QED
  BY <1>1, <1>2, PTL DEF Spec

\* log_mutex: no message goes through a FILE that the handler has closed.
THEOREM NoWriteToClosedHolds == Spec => []NoWriteToClosed
<1>1. IInv => NoWriteToClosed
  <2> SUFFICES ASSUME IInv, smooth, NEW t \in Threads, logging[t] = "loop", ~AtEnd(t)
               PROVE  callbacks[next[t]] \in open
    BY DEF NoWriteToClosed
  <2>1. setup = "done" /\ Registered
    BY DEF IInv, Safe, SettingUp, Owned, Rotating, TypeOK, Working
  <2> QED
    BY <2>1 DEF IInv, TypeOK, AtEnd, Registered, Current, Slots
<1> QED
  BY <1>1, Inductive, PTL

\* log_log under rotation: each message once, and to the current file.
THEOREM WrittenOnceHolds == Spec => []WrittenOnce
<1>1. IInv => WrittenOnce
  <2> SUFFICES ASSUME IInv, smooth, NEW t \in Threads, logging[t] = "loop", AtEnd(t)
               PROVE  wrote[t] = <<logfile>> /\ logfile # 0
    BY DEF WrittenOnce
  <2>1. setup = "done" /\ Registered
    BY DEF IInv, Safe, SettingUp, Owned, Rotating, TypeOK, Working
  <2>2. next[t] # 0
    BY <2>1 DEF IInv, TypeOK, AtEnd, Registered, Current, Slots, Empty
  <2> QED
    BY <2>1, <2>2 DEF IInv, Safe, Writing, Registered, Current
<1> QED
  BY <1>1, Inductive, PTL

\* logging_signal_handler leaves one open FILE and one callback behind.
THEOREM NothingLeftHolds == Spec => []NothingLeft
<1>1. IInv => NothingLeft
  <2> SUFFICES ASSUME IInv, smooth, setup = "done",
                      \A t \in Threads : handler[t] \notin Working
               PROVE  /\ open = {logfile}
                      /\ {i \in Slots : callbacks[i] # Empty} = {primary}
                      /\ callbacks[primary] = logfile
    BY DEF NothingLeft
  <2>1. Registered
    BY DEF IInv, Safe, Rotating, Working
  <2> QED
    BY <2>1 DEF Registered, Current, Slots, Empty
<1> QED
  BY <1>1, Inductive, PTL

-----------------------------------------------------------------------------
(* What survives a failing fopen and a signal before the set-up is done     *)

\* Rotations and messages never overlap, whether or not fopen works and signals
\* come after the set-up: the mutex alone sees to it (main.c:26-45, log.c:185-213).
THEOREM OneAtATimeHolds == Spec => []OneAtATime
<1>1. Init => Owned
  BY DEF Init, Owned, Working
<1>2. TypeOK /\ Owned /\ [Next]_vars => Owned'
  <2> SUFFICES ASSUME TypeOK, Owned, [Next]_vars PROVE Owned'
    OBVIOUS
  <2> USE DEF Owned, Working, calls
  <2>0. logging \in [Threads -> {"idle", "loop"}]
        /\ handler \in [Threads -> {"none", "lock"} \cup Working] /\ NoThread \notin Threads
    BY DEF TypeOK
  <2>1. ASSUME NEW t \in Threads, LogLock(t) PROVE Owned'
    BY <2>0, <2>1 DEF LogLock, Runs
  <2>2. ASSUME NEW t \in Threads, LogUnlock(t) PROVE Owned'
    BY <2>0, <2>2 DEF LogUnlock, Runs
  <2>3. ASSUME NEW t \in Threads, HandlerLock(t) PROVE Owned'
    BY <2>0, <2>3 DEF HandlerLock, HandlerGoto
  <2>4. ASSUME NEW t \in Threads, HandlerUnlock(t) PROVE Owned'
    BY <2>0, <2>4 DEF HandlerUnlock, HandlerGoto
  <2>5. ASSUME NEW t \in Threads,
               RemoveCallback(t) \/ CloseLogfile(t) \/ ReopenLogfile(t) \/ ReaddLogfile(t)
        PROVE  Owned'
    <3>1. /\ handler[t] \in Working /\ UNCHANGED <<holder, logging>>
          /\ \E there \in Working : handler' = [handler EXCEPT ![t] = there]
      BY <2>5 DEF RemoveCallback, CloseLogfile, ReopenLogfile, ReaddLogfile, HandlerGoto, table
    <3> QED BY <2>0, <3>1
  <2>6. ASSUME NEW t \in Threads, Deliver(t) PROVE Owned'
    BY <2>0, <2>6 DEF Deliver
  <2>7. ASSUME NEW t \in Threads, LogWrite(t) \/ LogCrash(t) \/ RemoveOutside(t) PROVE Owned'
    BY <2>7 DEF LogWrite, LogCrash, RemoveOutside
  <2>8. CASE SetUp \/ Signal \/ UNCHANGED vars
    BY <2>8 DEF SetUp, LogSetLock, OpenLogfile, AddLogfile, Signal, vars
  <2> QED
    BY <2>1, <2>2, <2>3, <2>4, <2>5, <2>6, <2>7, <2>8 DEF Next, LogLog, Handler
<1>3. Owned => OneAtATime
  BY DEF Owned, OneAtATime
<1> QED
  BY <1>1, <1>2, <1>3, TypeCorrect, PTL DEF Spec

=============================================================================
