----------------------------- MODULE LogProofs -----------------------------
(***************************************************************************)
(* What the log needs is there for every thread in LogPut, and is released *)
(* at the end, for any number of writers and messages.                     *)
(***************************************************************************)
EXTENDS Log, TLAPS

\* The control points of LogPut.
PutLabels == {"put", "flushing", "flushed", "writing"}

DriverLabels == PutLabels \union
  {"init", "buffers", "file", "thread", "wait", "test", "loaded", "refused", "noPath", "farewell",
   "disable", "finalize", "join", "close", "gone"}

FlushLabels == PutLabels \union {"off", "begin", "hello", "loop", "assert", "ended"}

WriterLabels == PutLabels \union {"off"}

\* The control points of the driver at which the log is up.
UpLabels == PutLabels \union {"wait", "test", "loaded", "farewell", "disable"}

\* Each thread is at a control point of its own.
Places ==
  /\ pc["driver"] \in DriverLabels
  /\ pc["flush"] \in FlushLabels
  /\ \A t \in Writers : pc[t] \in WriterLabels

\* The driver logs twice, the flush thread once.
Messages ==
  /\ pc["driver"] \in {"init", "buffers", "file", "thread", "wait", "test"} => sent["driver"] = 0
  /\ pc["driver"] \in {"loaded", "farewell"} => sent["driver"] = 1
  /\ sent["driver"] \in 0 .. 2
  /\ pc["flush"] \in {"off", "begin", "hello"} => sent["flush"] = 0
  /\ sent["flush"] \in 0 .. 1
  /\ \A t \in Writers : sent[t] \in 0 .. MaxMessages

\* What is set up at each control point of the driver.
Stages ==
  /\ pc["driver"] \in {"init", "refused", "gone"} => ~resource /\ buffers = 0 /\ ~file /\ ~handle
  /\ pc["driver"] = "buffers" => resource /\ buffers \in 0 .. 1 /\ ~file /\ ~handle
  /\ pc["driver"] \in {"file", "noPath"} => resource /\ buffers = 2 /\ ~file /\ ~handle
  /\ pc["driver"] = "thread" => resource /\ buffers = 2 /\ file /\ ~handle
  /\ pc["driver"] \in UpLabels \union {"join"} => resource /\ buffers = 2 /\ file /\ handle
  /\ pc["driver"] = "finalize" /\ handle => resource /\ buffers = 2 /\ file
  /\ pc["driver"] = "close" => ~handle

\* The other threads run only between their start and their end.
Users ==
  /\ pc["flush"] \notin {"off", "ended"} => handle
  /\ pc["driver"] \in {"init", "buffers", "file", "thread", "noPath"} => pc["flush"] = "off"
  /\ \A t \in Writers : pc[t] # "off" => pc["driver"] = "loaded"

Types ==
  /\ {flag, resource, file, alive, started, handle} \subseteq BOOLEAN
  /\ buffers \in 0 .. 2
  /\ owner \in Threads \union {None}
  /\ pc \in [Threads -> DriverLabels \union FlushLabels]
  /\ sent \in [Threads -> Nat]
  /\ put \in [Threads -> Kinds]

Inv == Types /\ Places /\ Messages /\ Stages /\ Users

-----------------------------------------------------------------------------
LEMMA ThreadsDistinct ==
  /\ "driver" \in Threads /\ "flush" \in Threads /\ Writers \subseteq Threads
  /\ \A t \in Writers : t # "driver" /\ t # "flush"
BY WritersAssumption DEF Threads

LEMMA InvInit == Init => Inv
<1> SUFFICES ASSUME Init PROVE Inv
  OBVIOUS
<1> USE ThreadsDistinct DEF Init, DriverLabels, FlushLabels, WriterLabels, PutLabels
<1>1. Types
  <2>1. {flag, resource, file, alive, started, handle} \subseteq BOOLEAN
    OBVIOUS
  <2>2. pc \in [Threads -> DriverLabels \union FlushLabels]
    OBVIOUS
  <2> QED
    BY <2>1, <2>2 DEF Types, Kinds
<1>2. Places
  BY DEF Places
<1>3. Messages
  BY MessagesAssumption DEF Messages
<1>4. Stages
  BY DEF Stages, UpLabels
<1>5. Users
  BY DEF Users
<1> QED
  BY <1>1, <1>2, <1>3, <1>4, <1>5 DEF Inv

\* A thread in LogPut changes nothing that is set up and goes on in its own code.
LEMMA PutFrame ==
  ASSUME Inv, NEW t \in Threads, Put(t)
  PROVE  /\ UNCHANGED <<setup, sent, put>>
         /\ owner' \in Threads \union {None}
         /\ pc[t] \in PutLabels
         /\ \E label \in PutLabels \union {After(t, TRUE), After(t, FALSE)} :
              pc' = [pc EXCEPT ![t] = label]
<1> USE DEF Inv, Types, PutLabels, Goto
<1>1. CASE LogPut(t)
  BY <1>1 DEF LogPut
<1>2. CASE LogFlushAcquires(t) \/ LogFlushReleases(t)
  BY <1>2 DEF LogFlushAcquires, LogFlushReleases
<1>3. CASE LogWriteMessageToFile(t)
  <2>1. PICK success \in BOOLEAN : pc' = [pc EXCEPT ![t] = After(t, success)]
    BY <1>3 DEF LogWriteMessageToFile
  <2> QED
    BY <1>3, <2>1 DEF LogWriteMessageToFile
<1> QED
  BY <1>1, <1>2, <1>3 DEF Put

\* Every step of a thread in LogPut keeps the invariant.
LEMMA PutInductive ==
  ASSUME Inv, NEW t \in Threads, Put(t)
  PROVE  Inv'
<1>1. UNCHANGED <<setup, sent, put>> /\ owner' \in Threads \union {None} /\ pc[t] \in PutLabels
  BY PutFrame
<1>2. PICK label \in PutLabels \union {After(t, TRUE), After(t, FALSE)} :
             pc' = [pc EXCEPT ![t] = label]
  BY PutFrame
<1> USE ThreadsDistinct
    DEF Inv, Types, Places, Messages, Stages, Users, setup, DriverLabels, FlushLabels, WriterLabels,
        PutLabels, UpLabels
<1>3. CASE t = "driver"
  <2>1. label \in PutLabels \union {"loaded", "finalize", "disable"}
    BY <1>2, <1>3 DEF After
  <2>2. label = "loaded" => sent["driver"] = 1
    BY <1>2, <1>3 DEF After
  <2>3. \A s \in Threads \ {t} : pc'[s] = pc[s]
    BY <1>2
  <2>4. pc'["driver"] = label /\ pc' \in [Threads -> DriverLabels \union FlushLabels]
    BY <1>2, <1>3, <2>1
  <2> QED
    BY <1>1, <1>3, <2>1, <2>2, <2>3, <2>4
<1>4. CASE t = "flush"
  <2>1. label \in PutLabels \union {"loop"}
    BY <1>2, <1>4 DEF After
  <2>2. \A s \in Threads \ {t} : pc'[s] = pc[s]
    BY <1>2
  <2>3. pc'["flush"] = label /\ pc' \in [Threads -> DriverLabels \union FlushLabels]
    BY <1>2, <1>4, <2>1
  <2> QED
    BY <1>1, <1>4, <2>1, <2>2, <2>3
<1>5. CASE t \in Writers
  <2>1. label \in PutLabels \union {"off"}
    BY <1>2, <1>5 DEF After
  <2>2. \A s \in Threads \ {t} : pc'[s] = pc[s]
    BY <1>2
  <2>3. pc'[t] = label /\ pc' \in [Threads -> DriverLabels \union FlushLabels]
    BY <1>2, <1>5, <2>1
  <2> QED
    BY <1>1, <1>5, <2>1, <2>2, <2>3
<1> QED
  BY <1>3, <1>4, <1>5 DEF Threads

\* So does a thread that logs a message.
LEMMA PrintInductive ==
  ASSUME Inv, NEW t \in Threads, NEW kind \in Kinds, LogPrint(t, kind)
  PROVE  Inv'
<1>1. /\ UNCHANGED <<setup, owner>> /\ Calls(t)
      /\ sent' = [sent EXCEPT ![t] = @ + 1] /\ put' = [put EXCEPT ![t] = kind]
      /\ pc' = [pc EXCEPT ![t] = "put"]
      /\ t \in Writers => sent[t] < MaxMessages
  BY DEF LogPrint, Goto
<1> USE ThreadsDistinct, MessagesAssumption
    DEF Inv, Types, Places, Messages, Stages, Users, setup, DriverLabels, FlushLabels, WriterLabels,
        PutLabels, UpLabels
<1>2. /\ pc'[t] = "put" /\ sent'[t] = sent[t] + 1
      /\ \A s \in Threads \ {t} : pc'[s] = pc[s] /\ sent'[s] = sent[s]
      /\ pc' \in [Threads -> DriverLabels \union FlushLabels]
      /\ sent' \in [Threads -> Nat] /\ put' \in [Threads -> Kinds]
  BY <1>1
<1>3. CASE t = "driver"
  <2>1. \/ pc[t] = "test" /\ sent[t] = 0
        \/ pc[t] = "farewell" /\ sent[t] = 1
    BY <1>1, <1>3 DEF Calls
  <2> QED
    BY <1>1, <1>2, <1>3, <2>1
<1>4. CASE t = "flush"
  <2>1. pc[t] = "hello" /\ sent[t] = 0
    BY <1>1, <1>4 DEF Calls
  <2> QED
    BY <1>1, <1>2, <1>4, <2>1
<1>5. CASE t \in Writers
  <2>1. pc[t] = "off" /\ pc["driver"] = "loaded" /\ sent[t] + 1 \in 0 .. MaxMessages
    BY <1>1, <1>5 DEF Calls
  <2> QED
    BY <1>1, <1>2, <1>5, <2>1
<1> QED
  BY <1>3, <1>4, <1>5 DEF Threads

\* So does every other step of the driver.
LEMMA DriverInductive ==
  ASSUME Inv,
         \/ InitializeResource \/ AllocateBuffer \/ CreateLogFile \/ CreateFlushThread
         \/ FlushThreadStarted \/ DisableLog \/ StopFlushThread \/ JoinFlushThread
         \/ LogFinalizeBufferInfo \/ LogTermination
  PROVE  Inv'
<1> USE ThreadsDistinct
    DEF Inv, Types, Places, Messages, Stages, Users, setup, DriverLabels, FlushLabels, WriterLabels,
        PutLabels, UpLabels, Goto
<1>1. CASE InitializeResource
  <2>1. {flag', resource', file', alive', started', handle'} \subseteq BOOLEAN
    BY <1>1 DEF InitializeResource
  <2>2. Types'
    BY <1>1, <2>1 DEF InitializeResource
  <2>3. Places' /\ Messages'
    BY <1>1 DEF InitializeResource
  <2>4. Stages'
    BY <1>1 DEF InitializeResource
  <2>5. Users'
    BY <1>1 DEF InitializeResource
  <2> QED
    BY <2>2, <2>3, <2>4, <2>5
<1>2. CASE AllocateBuffer
  BY <1>2 DEF AllocateBuffer
<1>3. CASE CreateLogFile
  <2>1. {flag', resource', file', alive', started', handle'} \subseteq BOOLEAN
    BY <1>3 DEF CreateLogFile
  <2>2. Types'
    BY <1>3, <2>1 DEF CreateLogFile
  <2>3. Places' /\ Messages'
    BY <1>3 DEF CreateLogFile
  <2>4. Stages'
    BY <1>3 DEF CreateLogFile
  <2>5. Users'
    BY <1>3 DEF CreateLogFile
  <2> QED
    BY <2>2, <2>3, <2>4, <2>5
<1>4. CASE CreateFlushThread
  <2>1. {flag', resource', file', alive', started', handle'} \subseteq BOOLEAN
    BY <1>4 DEF CreateFlushThread
  <2>2. Types'
    BY <1>4, <2>1 DEF CreateFlushThread
  <2>3. Places' /\ Messages'
    BY <1>4 DEF CreateFlushThread
  <2>4. Stages'
    <3>1. CASE pc'["driver"] = "wait" /\ handle' /\ UNCHANGED <<file, alive>>
      BY <1>4, <3>1 DEF CreateFlushThread
    <3>2. CASE pc'["driver"] = "finalize" /\ UNCHANGED handle
      BY <1>4, <3>2 DEF CreateFlushThread
    <3> QED
      BY <1>4, <3>1, <3>2 DEF CreateFlushThread
  <2>5. Users'
    BY <1>4 DEF CreateFlushThread
  <2> QED
    BY <2>2, <2>3, <2>4, <2>5
<1>5. CASE FlushThreadStarted
  BY <1>5 DEF FlushThreadStarted
<1>6. CASE DisableLog
  BY <1>6 DEF DisableLog
<1>7. CASE StopFlushThread
  BY <1>7 DEF StopFlushThread
<1>8. CASE JoinFlushThread
  BY <1>8 DEF JoinFlushThread
<1>9. CASE LogFinalizeBufferInfo
  <2>1. {flag', resource', file', alive', started', handle'} \subseteq BOOLEAN
    BY <1>9 DEF LogFinalizeBufferInfo
  <2>2. Types'
    BY <1>9, <2>1 DEF LogFinalizeBufferInfo
  <2>3. Places' /\ Messages'
    BY <1>9 DEF LogFinalizeBufferInfo
  <2>4. Stages'
    BY <1>9 DEF LogFinalizeBufferInfo
  <2>5. Users'
    BY <1>9 DEF LogFinalizeBufferInfo
  <2> QED
    BY <2>2, <2>3, <2>4, <2>5
<1>10. CASE LogTermination
  BY <1>10 DEF LogTermination
<1> QED
  BY <1>1, <1>2, <1>3, <1>4, <1>5, <1>6, <1>7, <1>8, <1>9, <1>10

\* And of the flush thread.
LEMMA FlushInductive ==
  ASSUME Inv, FlushThreadBegins \/ FlushThreadLoops \/ FlushThreadSleeps \/ LogPrintDisabled
  PROVE  Inv'
<1> USE ThreadsDistinct
    DEF Inv, Types, Places, Messages, Stages, Users, setup, DriverLabels, FlushLabels, WriterLabels,
        PutLabels, UpLabels, Goto
<1>1. CASE FlushThreadBegins
  BY <1>1 DEF FlushThreadBegins
<1>2. CASE FlushThreadLoops
  BY <1>2 DEF FlushThreadLoops
<1>3. CASE FlushThreadSleeps
  BY <1>3 DEF FlushThreadSleeps
<1>4. CASE LogPrintDisabled
  BY <1>4 DEF LogPrintDisabled
<1> QED
  BY <1>1, <1>2, <1>3, <1>4

LEMMA Inductive ==
  ASSUME Inv, [Next]_vars
  PROVE  Inv'
<1>1. CASE DriverStep
  BY <1>1, ThreadsDistinct, PutInductive, PrintInductive, DriverInductive DEF DriverStep, Kinds
<1>2. CASE FlushStep
  BY <1>2, ThreadsDistinct, PutInductive, PrintInductive, FlushInductive DEF FlushStep, Kinds
<1>3. CASE LogTermination
  BY <1>3, DriverInductive
<1>4. CASE \E t \in Writers : WriterStep(t)
  BY <1>4, ThreadsDistinct, PutInductive, PrintInductive DEF WriterStep
<1>5. CASE UNCHANGED vars
  BY <1>5 DEF vars, setup, Inv, Types, Places, Messages, Stages, Users
<1> QED
  BY <1>1, <1>2, <1>3, <1>4, <1>5 DEF Next

\* Every variable has its type: no third buffer, no message more than a thread sends.
THEOREM TypesAlwaysCorrect == Spec => []TypeOK
<1>1. ASSUME Inv
      PROVE  TypeOK
  <2>1. sent \in [Threads -> 0 .. MaxMessages + 2]
    BY <1>1, MessagesAssumption, ThreadsDistinct DEF Inv, Types, Messages, Threads
  <2>2. pc \in [Threads -> {"off", "init", "buffers", "file", "thread", "wait", "test", "loaded",
          "refused", "noPath", "farewell", "disable", "finalize", "join", "close", "gone", "put",
          "flushing", "flushed", "writing", "begin", "hello", "loop", "assert", "ended"}]
    BY <1>1 DEF Inv, Types, DriverLabels, FlushLabels, PutLabels
  <2> QED
    BY <1>1, <2>1, <2>2 DEF Inv, Types, TypeOK
<1> QED
  BY InvInit, Inductive, <1>1, PTL DEF Spec

\* File, resource and buffers are never released under a thread that logs, nor
\* under the flush thread.
THEOREM SetupAlwaysOutlivesUsers == Spec => []SetupOutlivesUsers
<1>1. ASSUME Inv
      PROVE  SetupOutlivesUsers
  <2> SUFFICES ASSUME NEW t \in Threads,
                      pc[t] \in {"put", "flushing", "flushed", "writing", "begin", "hello", "loop",
                                 "assert"}
               PROVE  resource /\ file /\ buffers = 2
    BY DEF SetupOutlivesUsers
  <2> USE <1>1 DEF Inv, Places, Stages, Users, UpLabels, PutLabels, DriverLabels, FlushLabels,
                   WriterLabels
  <2>1. CASE t = "driver"
    BY <2>1
  <2>2. CASE t = "flush"
    <3>1. handle /\ pc["driver"] \notin {"init", "buffers", "file", "thread", "noPath"}
      BY <2>2
    <3> QED
      BY <3>1
  <2>3. CASE t \in Writers
    BY <2>3
  <2> QED
    BY <2>1, <2>2, <2>3 DEF Threads
<1> QED
  BY InvInit, Inductive, <1>1, PTL DEF Spec

\* Nothing is left behind, however the initialisation fails, but on the path with
\* the missing directory.
THEOREM EverythingIsReleased == Spec => []TerminationReleasesAll
<1>1. Inv => TerminationReleasesAll
  BY DEF Inv, Stages, Users, Places, FlushLabels, TerminationReleasesAll
<1> QED
  BY InvInit, Inductive, <1>1, PTL DEF Spec
=============================================================================
