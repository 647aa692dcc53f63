----------------------------- MODULE LogRotation -----------------------------
(***************************************************************************)
(* Logging and log rotation in videocapture (src/src/log.c, src/src/main.c): *)
(* every thread writes its messages through the registered callbacks under   *)
(* log_mutex; SIGUSR1 runs logging_signal_handler on some thread, in the     *)
(* middle of whatever that thread is doing, and the handler replaces the     *)
(* log file under the same mutex.  A FILE is the number of its fopen, 0 is   *)
(* NULL.                                                                     *)
(***************************************************************************)
EXTENDS Integers, Sequences

CONSTANTS
  Threads, Main, NoThread,
  MaxCallbacks,   \* MAX_CALLBACKS
  Signals         \* bound on the rotation signals sent

ASSUME ThreadsAssumption == Main \in Threads /\ NoThread \notin Threads
ASSUME BoundsAssumption == MaxCallbacks \in Nat \ {0} /\ Signals \in Nat

VARIABLES
  setup,      \* main between signal(LOG_ROTATE_SIGNAL) and log_add_fp, or
              \* "crashed": the process is gone, or did something undefined
              \* that the model does not follow any further
  argument,   \* the FILE main is about to register
  logfile,    \* logfile_fp
  primary,    \* primary_log_callback_id
  callbacks,  \* L.callbacks: a FILE, or -1 where fn is NULL
  opened,     \* number of FILEs opened so far
  open,       \* the FILEs that are open
  smooth,     \* history: no fopen has failed and no signal was delivered before
              \* main had set logging up
  holder,     \* owner of log_mutex
  logging,    \* each thread's call of log_log: "idle" or in the "loop"
  next,       \* its loop variable
  wrote,      \* history: where the call has written its message
  handler,    \* the signal handler interrupting each thread
  pending,    \* a signal is pending
  sent        \* signals sent

files == <<logfile, opened, open, smooth>>
table == <<primary, callbacks>>
calls == <<logging, next, wrote>>
signals == <<pending, sent>>
vars == <<setup, argument, files, table, holder, calls, handler, signals>>

Slots == 0..MaxCallbacks - 1
Empty == -1

Init ==
  /\ setup = "lock"
  /\ argument = 0 /\ logfile = 0 /\ primary = 0
  /\ callbacks = [i \in Slots |-> Empty]
  /\ opened = 0 /\ open = {} /\ smooth = TRUE
  /\ holder = NoThread
  /\ logging = [t \in Threads |-> "idle"]
  /\ next = [t \in Threads |-> 0]
  /\ wrote = [t \in Threads |-> <<>>]
  /\ handler = [t \in Threads |-> "none"]
  /\ pending = FALSE /\ sent = 0

-----------------------------------------------------------------------------
(* Files and callbacks                                                      *)

\* fopen: the descriptor of a FILE that was closed may come back, the FILE here
\* is a new one.
Fopen ==
  \/ /\ opened' = opened + 1
     /\ open' = open \cup {opened + 1}
     /\ logfile' = opened + 1
     /\ UNCHANGED smooth
  \/ /\ logfile' = 0
     /\ smooth' = FALSE
     /\ UNCHANGED <<opened, open>>

\* Mutant: with a full table the loop variable is returned.
AddCallbackFull(fp) ==
  \/ \E i \in Slots :
       /\ callbacks[i] = Empty /\ \A j \in 0..i - 1 : callbacks[j] # Empty
       /\ callbacks' = [callbacks EXCEPT ![i] = fp]
       /\ primary' = i
  \/ /\ \A i \in Slots : callbacks[i] # Empty
     /\ primary' = MaxCallbacks
     /\ UNCHANGED callbacks

\* log_add_fp: the first free slot, or -1 when there is none.
AddCallback(fp) ==
  \/ \E i \in Slots :
       /\ callbacks[i] = Empty /\ \A j \in 0..i - 1 : callbacks[j] # Empty
       /\ callbacks' = [callbacks EXCEPT ![i] = fp]
       /\ primary' = i
  \/ /\ \A i \in Slots : callbacks[i] # Empty
     /\ primary' = -1
     /\ UNCHANGED callbacks

-----------------------------------------------------------------------------
(* main: the signal handler is installed before these three calls           *)

LogSetLock ==
  /\ setup = "lock" /\ handler[Main] = "none"
  /\ setup' = "fopen"
  /\ UNCHANGED <<argument, files, table, holder, calls, handler, signals>>

OpenLogfile ==
  /\ setup = "fopen" /\ handler[Main] = "none"
  /\ setup' = "add"
  /\ Fopen
  /\ argument' = logfile'
  /\ UNCHANGED <<table, holder, calls, handler, signals>>

\* The argument is still in a register, or is read from logfile_fp again.
AddLogfile ==
  /\ setup = "add" /\ handler[Main] = "none"
  /\ setup' = "done"
  /\ \E fp \in {argument, logfile} : AddCallback(fp)
  /\ UNCHANGED <<argument, files, holder, calls, handler, signals>>

-----------------------------------------------------------------------------
(* log_log, by any thread                                                   *)

\* A thread runs its own code unless a handler has interrupted it.
Runs(t) == setup = "done" /\ handler[t] = "none"

LogLock(t) ==
  /\ Runs(t) /\ logging[t] = "idle"
  /\ holder = NoThread
  /\ holder' = t
  /\ logging' = [logging EXCEPT ![t] = "loop"]
  /\ next' = [next EXCEPT ![t] = 0]
  /\ wrote' = [wrote EXCEPT ![t] = <<>>]
  /\ UNCHANGED <<setup, argument, files, table, handler, signals>>

\* The loop ends at the first slot without a function.
AtEnd(t) == \A i \in Slots : i = next[t] => callbacks[i] = Empty

\* A FILE that was closed is undefined to write to: it may seem to work.
LogWrite(t) ==
  /\ Runs(t) /\ logging[t] = "loop" /\ ~AtEnd(t)
  /\ callbacks[next[t]] # 0
  /\ wrote' = [wrote EXCEPT ![t] = Append(@, callbacks[next[t]])]
  /\ next' = [next EXCEPT ![t] = @ + 1]
  /\ UNCHANGED <<setup, argument, files, table, holder, logging, handler, signals>>

LogCrash(t) ==
  /\ Runs(t) /\ logging[t] = "loop" /\ ~AtEnd(t)
  /\ callbacks[next[t]] \notin open
  /\ setup' = "crashed"
  /\ UNCHANGED <<argument, files, table, holder, calls, handler, signals>>

LogUnlock(t) ==
  /\ Runs(t) /\ logging[t] = "loop" /\ AtEnd(t)
  /\ holder' = NoThread
  /\ logging' = [logging EXCEPT ![t] = "idle"]
  /\ UNCHANGED <<setup, argument, files, table, next, wrote, handler, signals>>

-----------------------------------------------------------------------------
(* SIGUSR1 and logging_signal_handler                                       *)

\* A second signal before the first is delivered is merged with it.
Signal ==
  /\ sent < Signals /\ setup # "crashed"
  /\ pending' = TRUE /\ sent' = sent + 1
  /\ UNCHANGED <<setup, argument, files, table, holder, calls, handler>>

\* To any thread that is not in the handler already, where it stands; before
\* the set-up is done main is the only thread.
Deliver(t) ==
  /\ pending /\ handler[t] = "none" /\ setup # "crashed"
  /\ setup = "done" \/ t = Main
  /\ pending' = FALSE
  /\ handler' = [handler EXCEPT ![t] = "lock"]
  /\ smooth' = (smooth /\ setup = "done")
  /\ UNCHANGED <<setup, argument, logfile, opened, open, table, holder, calls, sent>>

HandlerGoto(t, here, there) ==
  /\ setup # "crashed"
  /\ handler[t] = here
  /\ handler' = [handler EXCEPT ![t] = there]
  /\ UNCHANGED <<setup, argument, calls, signals>>

\* Mutant: the handler does not take the mutex.
HandlerLockSkipped(t) ==
  /\ HandlerGoto(t, "lock", IF logfile # 0 THEN "remove" ELSE "reopen")
  /\ UNCHANGED <<holder, files, table>>

\* The mutex is not recursive: a thread that was in log_log waits for itself.
HandlerLock(t) ==
  /\ holder = NoThread
  /\ HandlerGoto(t, "lock", IF logfile # 0 THEN "remove" ELSE "reopen")
  /\ holder' = t
  /\ UNCHANGED <<files, table>>

\* Mutant: the callback of the closed file stays registered.
RemoveCallbackSkipped(t) ==
  /\ HandlerGoto(t, "remove", "close")
  /\ UNCHANGED <<files, table, holder>>

RemoveCallback(t) ==
  /\ primary \in Slots
  /\ HandlerGoto(t, "remove", "close")
  /\ callbacks' = [callbacks EXCEPT ![primary] = Empty]
  /\ UNCHANGED <<primary, files, holder>>

\* With no slot left the id is -1, and the bytes in front of the table are
\* overwritten, L.lock among them.
RemoveOutside(t) ==
  /\ setup # "crashed" /\ handler[t] = "remove" /\ primary \notin Slots
  /\ setup' = "crashed"
  /\ UNCHANGED <<argument, files, table, holder, calls, handler, signals>>

\* Mutant: the old file is left open.
CloseLogfileSkipped(t) ==
  /\ HandlerGoto(t, "close", "reopen")
  /\ logfile' = 0
  /\ UNCHANGED <<opened, open, smooth, table, holder>>

CloseLogfile(t) ==
  /\ HandlerGoto(t, "close", "reopen")
  /\ open' = open \ {logfile}
  /\ logfile' = 0
  /\ UNCHANGED <<opened, smooth, table, holder>>

ReopenLogfile(t) ==
  /\ HandlerGoto(t, "reopen", "add")
  /\ Fopen
  /\ UNCHANGED <<table, holder>>

ReaddLogfile(t) ==
  /\ HandlerGoto(t, "add", "unlock")
  /\ AddCallback(logfile)
  /\ UNCHANGED <<files, holder>>

HandlerUnlock(t) ==
  /\ HandlerGoto(t, "unlock", "none")
  /\ holder' = NoThread
  /\ UNCHANGED <<files, table>>

Handler(t) ==
  \/ HandlerLock(t) \/ RemoveCallback(t) \/ RemoveOutside(t) \/ CloseLogfile(t)
  \/ ReopenLogfile(t) \/ ReaddLogfile(t) \/ HandlerUnlock(t)

SetUp == LogSetLock \/ OpenLogfile \/ AddLogfile

LogLog(t) == LogLock(t) \/ LogWrite(t) \/ LogUnlock(t) \/ LogCrash(t)

Next ==
  \/ SetUp
  \/ Signal
  \/ \E t \in Threads : LogLog(t) \/ Deliver(t) \/ Handler(t)

Spec == Init /\ [][Next]_vars

\* Every thread is scheduled, a pending signal is delivered where it can be.
FairSpec ==
  /\ Spec
  /\ WF_vars(SetUp)
  /\ \A t \in Threads :
       WF_vars(LogWrite(t) \/ LogUnlock(t)) /\ WF_vars(Deliver(t)) /\ WF_vars(Handler(t))
-----------------------------------------------------------------------------
Working == {"remove", "close", "reopen", "add", "unlock"}

\* Types; in particular log_mutex belongs to a thread and the callback that the
\* handler removes is one of the table, or the -1 of a full one.
TypeOK ==
  /\ setup \in {"lock", "fopen", "add", "done", "crashed"}
  /\ opened \in Nat /\ open \subseteq 1..opened
  /\ argument \in Nat /\ logfile \in Nat
  /\ smooth \in BOOLEAN
  /\ primary \in Slots \cup {-1}
  /\ callbacks \in [Slots -> {Empty} \cup Nat]
  /\ holder \in Threads \cup {NoThread}
  /\ logging \in [Threads -> {"idle", "loop"}]
  /\ next \in [Threads -> 0..MaxCallbacks]
  /\ wrote \in [Threads -> Seq(Nat)]
  /\ handler \in [Threads -> {"none", "lock"} \cup Working]
  /\ pending \in BOOLEAN /\ sent \in 0..Signals

\* One walk over the callback table at a time: messages of different threads do
\* not mix, and no rotation runs while one is written, also after a failed fopen
\* or a signal that came before logging was set up (main.c:26-45, log.c:185-213).
OneAtATime ==
  \A t, u \in Threads :
    /\ (handler[t] \in Working \/ logging[t] = "loop")
         /\ (handler[u] \in Working \/ logging[u] = "loop") => t = u
    /\ ~(handler[t] \in Working /\ logging[t] = "loop")

\* log_mutex keeps rotation and messages apart: no message goes through a FILE
\* the handler has closed, or through NULL, on whichever thread it runs, unless
\* a log file could not be opened or a signal came before logging was set up
\* (main.c:26-45, log.c:184-213).
NoWriteToClosed ==
  \A t \in Threads :
    smooth /\ logging[t] = "loop" /\ ~AtEnd(t) => callbacks[next[t]] \in open

\* Likewise a message is written exactly once, to the file that is current when
\* log_log returns: rotation neither loses nor doubles it.
WrittenOnce ==
  \A t \in Threads :
    smooth /\ logging[t] = "loop" /\ AtEnd(t) =>
      wrote[t] = <<logfile>> /\ logfile # 0

\* Likewise one FILE is open and one callback is registered outside a rotation,
\* the one the next rotation takes out: rotations leak neither.
NothingLeft ==
  smooth /\ setup = "done" /\ (\A t \in Threads : handler[t] \notin Working) =>
    /\ open = {logfile}
    /\ {i \in Slots : callbacks[i] # Empty} = {primary}
    /\ callbacks[primary] = logfile

\* "Reset handler to catch LOG_ROTATE_SIGNAL next time." (main.c:28): a rotation
\* signal is caught, also after an earlier one, where nothing else went wrong.
CatchesNext == []smooth => (pending ~> ~pending)
=============================================================================
