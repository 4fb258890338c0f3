-------------------------------- MODULE Log --------------------------------
(***************************************************************************)
(* The log (Log.cpp) from LogInitialization to LogTermination: the driver  *)
(* sets it up and tears it down, a flush thread lives in between, and      *)
(* writers log messages from whatever level they run at.                   *)
(*                                                                         *)
(* LogPut puts a message into a buffer only where the log file is not      *)
(* enabled, that is, before LogInitialization has allocated the buffers    *)
(* and after LogTermination has freed them; nothing is logged then.  So    *)
(* the buffers stay empty, flushing them changes nothing, and their        *)
(* contents are not part of this model.                                    *)
(***************************************************************************)
EXTENDS Integers, Sequences, FiniteSets

CONSTANTS
  Writers,      \* Threads that log while the driver is loaded.
  None,         \* No thread.
  MaxMessages   \* Bound: messages per writer.

ASSUME WritersAssumption == None \notin Writers /\ {"driver", "flush"} \intersect Writers = {}
ASSUME MessagesAssumption == MaxMessages \in Nat

Threads == Writers \union {"driver", "flush"}

\* A message from ordinary code at PASSIVE_LEVEL, or one that is marked safe
\* or comes from a raised IRQL.
Kinds == {"plain", "safe"}

VARIABLES
  flag,      \* whether g_LogDebugFlag lets messages pass
  resource,  \* ResourceInitialized
  buffers,   \* how many of LogBufferOne, LogBufferTwo are allocated
  file,      \* LogFileHandle: whether the file is open
  alive,     \* BufferFlushThreadShouldBeAlive
  started,   \* BufferFlushThreadStarted
  handle,    \* BufferFlushThreadHandle: whether it is set
  owner,     \* who has acquired Resource
  pc,        \* per thread: control point
  sent,      \* per thread: messages logged so far
  put        \* per thread: kind of the message being put

setup == <<flag, resource, buffers, file, alive, started, handle>>
vars  == <<setup, owner, pc, sent, put>>

Goto(t, label) == pc' = [pc EXCEPT ![t] = label]

Init ==
  /\ flag = FALSE /\ resource = FALSE /\ buffers = 0
  /\ file = FALSE /\ alive = FALSE /\ started = FALSE /\ handle = FALSE
  /\ owner = None
  /\ pc = [t \in Threads |-> IF t = "driver" THEN "init" ELSE "off"]
  /\ sent = [t \in Threads |-> 0]
  /\ put = [t \in Threads |-> "plain"]

-----------------------------------------------------------------------------
(* LogInitialization                                                       *)

\* ExInitializeResourceLite
InitializeResource ==
  /\ pc["driver"] = "init"
  /\ flag' = TRUE
  /\ \/ resource' = TRUE /\ Goto("driver", "buffers")
     \/ UNCHANGED resource /\ Goto("driver", "refused")
  /\ UNCHANGED <<buffers, file, alive, started, handle, owner, sent, put>>

AllocateBuffer ==
  /\ pc["driver"] = "buffers"
  /\ \/ /\ buffers' = buffers + 1
        /\ Goto("driver", IF buffers + 1 = 2 THEN "file" ELSE "buffers")
     \/ /\ UNCHANGED buffers
        /\ Goto("driver", "finalize")
  /\ UNCHANGED <<flag, resource, file, alive, started, handle, owner, sent, put>>

\* LogInitializeLogFile creates the file.  A path that does not exist yet comes
\* back as an error, and LogInitialization returns it.
CreateLogFile ==
  /\ pc["driver"] = "file"
  /\ \/ file' = TRUE /\ alive' = TRUE /\ Goto("driver", "thread")
     \/ UNCHANGED <<file, alive>> /\ Goto("driver", "finalize")
     \/ UNCHANGED <<file, alive>> /\ Goto("driver", "noPath")
  /\ UNCHANGED <<flag, resource, buffers, started, handle, owner, sent, put>>

CreateFlushThread ==
  /\ pc["driver"] = "thread"
  /\ \/ /\ handle' = TRUE
        /\ pc' = [pc EXCEPT !["driver"] = "wait", !["flush"] = "begin"]
        /\ UNCHANGED <<file, alive>>
     \/ /\ file' = FALSE /\ alive' = FALSE
        /\ Goto("driver", "finalize")
        /\ UNCHANGED handle
  /\ UNCHANGED <<flag, resource, buffers, started, owner, sent, put>>

\* The driver polls BufferFlushThreadStarted, then logs a first message.
FlushThreadStarted ==
  /\ pc["driver"] = "wait"
  /\ started
  /\ Goto("driver", "test")
  /\ UNCHANGED <<setup, owner, sent, put>>

-----------------------------------------------------------------------------
(* LogPrint and LogPut                                                     *)

\* The points at which a thread calls LogPrint.
Calls(t) ==
  \/ t \in Writers /\ pc[t] = "off" /\ pc["driver"] = "loaded"
  \/ t = "driver" /\ pc[t] \in {"test", "farewell"}
  \/ t = "flush" /\ pc[t] = "hello"

\* Where it goes on.  The driver looks at the status of its first message only.
After(t, success) ==
  CASE t \in Writers -> "off"
    [] t = "flush"   -> "loop"
    [] t = "driver"  ->
         IF sent[t] = 1 THEN (IF success THEN "loaded" ELSE "finalize") ELSE "disable"

LogPrint(t, kind) ==
  /\ Calls(t)
  /\ flag
  /\ t \in Writers => sent[t] < MaxMessages
  /\ t \notin Writers => kind = "plain"
  /\ sent' = [sent EXCEPT ![t] = @ + 1]
  /\ put' = [put EXCEPT ![t] = kind]
  /\ Goto(t, "put")
  /\ UNCHANGED <<setup, owner>>

\* The flush thread may find the log disabled already.
LogPrintDisabled ==
  /\ pc["flush"] = "hello"
  /\ ~flag
  /\ Goto("flush", "loop")
  /\ UNCHANGED <<setup, owner, sent, put>>

\* LogIsLogFileActivated
LogIsLogFileActivated == alive

\* LogPut: a plain message goes to the file once that is activated; any other is
\* not recorded, and LogPut returns success.
LogPut(t) ==
  /\ pc[t] = "put"
  /\ \/ /\ put[t] = "plain" /\ LogIsLogFileActivated
        /\ Goto(t, "flushing")
     \/ /\ put[t] = "safe" \/ ~LogIsLogFileActivated
        /\ Goto(t, After(t, TRUE))
  /\ UNCHANGED <<setup, owner, sent, put>>

\* LogFlushLogBuffer acquires and releases Resource.
LogFlushAcquires(t) ==
  /\ pc[t] = "flushing"
  /\ owner = None
  /\ owner' = t
  /\ Goto(t, "flushed")
  /\ UNCHANGED <<setup, sent, put>>

LogFlushReleases(t) ==
  /\ pc[t] = "flushed"
  /\ owner' = None
  /\ Goto(t, "writing")
  /\ UNCHANGED <<setup, sent, put>>

\* LogWriteMessageToFile.  Its status is that of flushing the file, not that of
\* the write.
LogWriteMessageToFile(t) ==
  /\ pc[t] = "writing"
  /\ \E success \in BOOLEAN : Goto(t, After(t, success))
  /\ UNCHANGED <<setup, owner, sent, put>>

-----------------------------------------------------------------------------
(* LogBufferFlushThreadRoutine                                             *)

FlushThreadBegins ==
  /\ pc["flush"] = "begin"
  /\ started' = TRUE
  /\ Goto("flush", "hello")
  /\ UNCHANGED <<flag, resource, buffers, file, alive, handle, owner, sent, put>>

\* The head of the loop; the assertion is a read of its own.
FlushThreadLoops ==
  /\ pc["flush"] = "loop"
  /\ Goto("flush", IF alive THEN "assert" ELSE "ended")
  /\ UNCHANGED <<setup, owner, sent, put>>

\* The buffer is empty: the thread sleeps and starts over.
FlushThreadSleeps ==
  /\ pc["flush"] = "assert"
  /\ Goto("flush", "loop")
  /\ UNCHANGED <<setup, owner, sent, put>>

-----------------------------------------------------------------------------
(* LogTermination and LogFinalizeBufferInfo                                *)

\* DriverUnload comes to LogTermination when the callbacks are deregistered and
\* the VMMs are gone: no writer is left.
LogTermination ==
  /\ pc["driver"] = "loaded"
  /\ \A t \in Writers : pc[t] = "off"
  /\ Goto("driver", "farewell")
  /\ UNCHANGED <<setup, owner, sent, put>>

DisableLog ==
  /\ pc["driver"] = "disable"
  /\ flag' = FALSE
  /\ Goto("driver", "finalize")
  /\ UNCHANGED <<resource, buffers, file, alive, started, handle, owner, sent, put>>

\* Mutant: the thread is waited for before it is told to end.
StopFlushThreadSilently ==
  /\ pc["driver"] = "finalize"
  /\ Goto("driver", IF handle THEN "join" ELSE "close")
  /\ UNCHANGED <<setup, owner, sent, put>>

StopFlushThread ==
  /\ pc["driver"] = "finalize"
  /\ alive' = IF handle THEN FALSE ELSE alive
  /\ Goto("driver", IF handle THEN "join" ELSE "close")
  /\ UNCHANGED <<flag, resource, buffers, file, started, handle, owner, sent, put>>

\* Mutant: the handle is closed without waiting for the thread.
CloseFlushThread ==
  /\ pc["driver"] = "join"
  /\ handle' = FALSE
  /\ Goto("driver", "close")
  /\ UNCHANGED <<flag, resource, buffers, file, alive, started, owner, sent, put>>

JoinFlushThread ==
  /\ pc["driver"] = "join"
  /\ pc["flush"] = "ended"
  /\ handle' = FALSE
  /\ Goto("driver", "close")
  /\ UNCHANGED <<flag, resource, buffers, file, alive, started, owner, sent, put>>

\* Mutant: the second buffer is not freed.
LogFinalizeOneBuffer ==
  /\ pc["driver"] = "close"
  /\ file' = FALSE /\ resource' = FALSE
  /\ buffers' = buffers \div 2
  /\ Goto("driver", IF flag THEN "refused" ELSE "gone")
  /\ UNCHANGED <<flag, alive, started, handle, owner, sent, put>>

LogFinalizeBufferInfo ==
  /\ pc["driver"] = "close"
  /\ file' = FALSE /\ resource' = FALSE
  /\ buffers' = 0
  /\ Goto("driver", IF flag THEN "refused" ELSE "gone")
  /\ UNCHANGED <<flag, alive, started, handle, owner, sent, put>>

-----------------------------------------------------------------------------
Put(t) == LogPut(t) \/ LogFlushAcquires(t) \/ LogFlushReleases(t) \/ LogWriteMessageToFile(t)

DriverStep ==
  \/ InitializeResource \/ AllocateBuffer \/ CreateLogFile \/ CreateFlushThread
  \/ FlushThreadStarted \/ DisableLog \/ StopFlushThread \/ JoinFlushThread
  \/ LogFinalizeBufferInfo
  \/ LogPrint("driver", "plain") \/ Put("driver")

FlushStep ==
  \/ FlushThreadBegins \/ FlushThreadLoops \/ FlushThreadSleeps
  \/ LogPrint("flush", "plain") \/ LogPrintDisabled \/ Put("flush")

WriterStep(t) == Put(t) \/ \E kind \in Kinds : LogPrint(t, kind)

Next == DriverStep \/ FlushStep \/ LogTermination \/ \E t \in Writers : WriterStep(t)

\* Every thread is scheduled again and again, and whoever waits for Resource
\* gets it (a resource is granted in the order of the requests).
Fairness ==
  /\ WF_vars(DriverStep) /\ SF_vars(Put("driver"))
  /\ WF_vars(FlushStep) /\ SF_vars(Put("flush"))
  /\ \A t \in Writers : SF_vars(Put(t))

Spec     == Init /\ [][Next]_vars
FairSpec == Spec /\ Fairness

-----------------------------------------------------------------------------
(* Properties                                                              *)

TypeOK ==
  /\ {flag, resource, file, alive, started, handle} \subseteq BOOLEAN
  /\ buffers \in 0 .. 2
  /\ owner \in Threads \union {None}
  /\ pc \in [Threads -> {"off", "init", "buffers", "file", "thread", "wait", "test", "loaded",
       "refused", "noPath", "farewell", "disable", "finalize", "join", "close", "gone", "put", "flushing",
       "flushed", "writing", "begin", "hello", "loop", "assert", "ended"}]
  /\ sent \in [Threads -> 0 .. MaxMessages + 2]
  /\ put \in [Threads -> Kinds]

\* The file, the resource and both buffers are there for every thread that is in
\* LogPut, and for the flush thread as long as it runs.
SetupOutlivesUsers ==
  \A t \in Threads :
    pc[t] \in {"put", "flushing", "flushed", "writing", "begin", "hello", "loop", "assert"} =>
      resource /\ file /\ buffers = 2

\* After LogTermination, and after a LogInitialization that fails wherever it may,
\* nothing is left: neither memory, nor handles, nor the thread.  One failure is
\* not like that: where the path of the file does not exist yet, LogInitialization
\* refuses the driver and leaves the buffers and the resource.
TerminationReleasesAll ==
  /\ pc["driver"] \in {"gone", "refused"} =>
       ~resource /\ buffers = 0 /\ ~file /\ ~handle /\ pc["flush"] \in {"off", "ended"}
  /\ pc["driver"] = "noPath" =>
       resource /\ buffers = 2 /\ ~file /\ ~handle /\ pc["flush"] = "off"

\* LogInitialization and LogTermination end, although each waits for the flush
\* thread and both compete with writers for Resource.
LogSettles ==
  [](pc["driver"] \notin {"loaded", "refused", "noPath", "gone"} =>
       <>(pc["driver"] \in {"loaded", "refused", "noPath", "gone"}))

=============================================================================
