------------------------ MODULE DriverServicesProofs ------------------------
(***************************************************************************)
(* The performance collector stays consistent however many processors add  *)
(* to it at a time, and the services of the driver are there for every     *)
(* VMM, for any number of processors, locations, entries, constructors and *)
(* ranges of memory.  Sums are over functions; that they grow by one with *)
(* a summand is proved in CommonLemmas.                                    *)
(***************************************************************************)
EXTENDS DriverServices, CommonLemmas, FiniteSetTheorems, SequenceTheorems, TLAPS

\* The control points before VMMs are started, while they may be, and after.
EarlyLabels == {"globals", "perf", "pageTables", "query", "build", "callbacks"}
VmmLabels   == {"init", "start", "loaded", "stop"}
LateLabels  == {"undoUtil", "undoPerf", "undoGlobals", "gone"}

\* Those at which each service is up.
CollectorLabels == VmmLabels \union {"pageTables", "query", "build", "callbacks", "undoUtil", "undoPerf"}
MemoryLabels    == VmmLabels \union {"callbacks", "undoUtil"}

\* Measurements are made by VMMs, of locations.
OnlyVmmsMeasure ==
  \A p \in Processors :
    at[p] # "out" => p \in vmm /\ scope[p] \in Locations /\ measured[p] > 0

\* There is no VMM before the first one is started, and at the end none but those that
\* VmTermination does not reach.
VmmsLeft ==
  /\ pc \in EarlyLabels => vmm = {} /\ caller = "driver"
  /\ pc = "init" /\ caller = "driver" => vmm = {}
  /\ pc \in LateLabels => \A p \in vmm : Behind(p)

\* What the loops have done so far.
LoopReached ==
  /\ pc = "start" => \A q \in Processors : q < idx => q \in vmm
  /\ pc = "stop" => \A q \in Processors : q < idx => q \notin vmm
  /\ pc \notin {"start", "stop"} => idx = 0

\* A VMM has one on every processor before its own, unless one of those was skipped or
\* is stopped already.  So has the next processor to be added.
NoGaps ==
  /\ \A p \in vmm : \A q \in Processors :
       q < p => q \in vmm \/ Behind(p) \/ (pc = "stop" /\ q < idx)
  /\ pc \in {"init", "loaded"} /\ vmm # {} => 0 .. active - 1 \subseteq vmm \/ skipped # {}

Reached == VmmsLeft /\ LoopReached /\ NoGaps

\* A service is up at its control points and, but for a descriptor that is freed,
\* nowhere else.
ServicesUp ==
  /\ collector <=> pc \in CollectorLabels
  /\ pc = "build" => ranges \in Memories
  /\ pc # "build" => ranges = Null
  /\ pc \in MemoryLabels <=> descriptor # Null /\ ~freed
  /\ freed => descriptor # Null /\ pc \in {"undoPerf", "undoGlobals", "gone"}

\* Nothing is recorded before the first VMM starts.
NothingRecordedYet ==
  pc \in {"globals", "perf"} => writer = NoKeys /\ added = [l \in Locations |-> 0]

Control == TypeOK /\ OnlyVmmsMeasure /\ ServicesUp /\ NothingRecordedYet /\ Reached

-----------------------------------------------------------------------------
\* The initial state has all of it.
LEMMA ControlInit == Init => Control
<1> SUFFICES ASSUME Init PROVE Control
  OBVIOUS
<1>1. TypeOK
  <2>1. 1 \in Entries
    BY EntriesAssumption DEF Entries
  <2>2. key = [i \in Entries |-> Null] /\ writer = [i \in Entries |-> Null]
    BY DEF Init, PerfInit, NoKeys
  <2>3. time = [i \in Entries |-> 0] /\ count = [i \in Entries |-> 0]
    BY DEF Init, PerfInit, Zeros
  <2>4. dtors \in Seq(1 .. Constructors)
    BY DEF Init
  <2>5. /\ key \in [Entries -> Locations \union {Null}]
        /\ writer \in [Entries -> Processors \union {Null}]
        /\ time \in [Entries -> Nat] /\ count \in [Entries -> Nat]
    BY <2>2, <2>3
  <2>6. /\ at \in [Processors -> AddDataLabels \union {"out", "scope"}]
        /\ scope \in [Processors -> Locations \union {Null}]
        /\ index \in [Processors -> Entries] /\ read \in [Processors -> Nat]
        /\ measured \in [Processors -> Nat]
        /\ added \in [Locations -> Nat]
    BY <2>1 DEF Init, PerfInit
  <2>7. collector \in BOOLEAN /\ alone \in BOOLEAN /\ freed \in BOOLEAN
    BY DEF Init, PerfInit
  <2>8. /\ active \in 1 .. MaxProcessors /\ idx \in 0 .. active
        /\ vmm \subseteq 0 .. active - 1 /\ skipped \subseteq 0 .. active - 1
    BY IndexAssumption DEF Init
  <2> QED
    BY <2>4, <2>5, <2>6, <2>7, <2>8 DEF Init, TypeOK
<1>2. OnlyVmmsMeasure
  BY DEF Init, PerfInit, OnlyVmmsMeasure
<1>3. ServicesUp
  BY DEF Init, PerfInit, ServicesUp, CollectorLabels, MemoryLabels, VmmLabels
<1>4. NothingRecordedYet
  BY DEF Init, PerfInit, NothingRecordedYet
<1>5. Reached
  BY IndexAssumption
  DEF Init, Reached, VmmsLeft, LoopReached, NoGaps, EarlyLabels, LateLabels
<1> QED
  BY <1>1, <1>2, <1>3, <1>4, <1>5 DEF Control

\* A step of the driver changes nothing in a call of AddData, and the table only
\* where the collector is set up.
LEMMA DriverFrame ==
  ASSUME DriverStep
  PROVE  /\ UNCHANGED <<calls, history>>
         /\ UNCHANGED table \/ PerfInitialization
BY DEF DriverStep, CallConstructor, GlobalVariablesInitialized, CallDestructor,
       GlobalVariablesTerminated, PerfInitialization, PerfTermination,
       UtilInitializePageTableVariables, MmGetPhysicalMemoryRanges,
       UtilBuildPhysicalMemoryRanges, UtilTermination, CallbackInitialization,
       DriverUnload, PowerSuspend, PowerResume, VmHotplugCallback, VmInitialization, VmStartVm,
       VmInitializationReturns, VmStopVm, VmTerminationReturns, perf

\* A step of a VMM leaves the driver where it is.
LEMMA VmmFrame ==
  ASSUME NEW p \in Processors, VmmStep(p)
  PROVE  UNCHANGED <<collector, pc, globals, memory, loop, machine>>
BY DEF VmmStep, Measure, EnterAddData, AddDataStep, MatchKey, TestEmpty, ClaimEntry, ReadTime,
       WriteTime, ReadCount, WriteCount

\* The next object has a number of its own.
LEMMA NextConstructor ==
  ASSUME TypeOK
  PROVE  Cardinality(constructed) + 1 \in Nat \ {0}
<1>1. IsFiniteSet(1 .. Constructors) /\ constructed \subseteq 1 .. Constructors
  BY FS_Interval, ConstructorsAssumption DEF TypeOK
<1>2. IsFiniteSet(constructed)
  BY <1>1, FS_Subset
<1> QED
  BY <1>2, FS_CardinalityType

\* A processor that calls AddData runs a VMM, which is stopped only when it is through.
LEMMA MeasuresInductive ==
  ASSUME Control, [Next]_vars
  PROVE  OnlyVmmsMeasure'
<1> USE DEF Control, OnlyVmmsMeasure, perf, table, calls, history, globals, memory, loop, machine
<1>1. CASE DriverStep
  <2>1. UNCHANGED <<calls, history>>
    BY <1>1, DriverFrame
  <2>2. \A p \in vmm \ vmm' : p \in Processors => at[p] = "out"
    BY <1>1
    DEF DriverStep, CallConstructor, GlobalVariablesInitialized, CallDestructor,
        GlobalVariablesTerminated, PerfInitialization, PerfTermination,
        UtilInitializePageTableVariables, MmGetPhysicalMemoryRanges,
        UtilBuildPhysicalMemoryRanges, UtilTermination, CallbackInitialization,
        DriverUnload, PowerSuspend, PowerResume, VmHotplugCallback, VmInitialization, VmStartVm,
        VmInitializationReturns, VmStopVm, VmTerminationReturns
  <2> QED
    BY <2>1, <2>2
<1>2. ASSUME NEW p \in Processors, VmmStep(p)
      PROVE  OnlyVmmsMeasure'
  <2>1. UNCHANGED vmm /\ p \in vmm
    BY <1>2, VmmFrame DEF VmmStep
  <2>2. /\ at \in [Processors -> AddDataLabels \union {"out", "scope"}]
        /\ scope \in [Processors -> Locations \union {Null}]
        /\ measured \in [Processors -> Nat]
    BY DEF TypeOK
  <2>3. CASE \E l \in Locations : Measure(p, l)
    BY <2>1, <2>2, <2>3 DEF Measure, Goto
  <2>4. CASE ~\E l \in Locations : Measure(p, l)
    <3>1. /\ measured' = measured /\ at[p] # "out"
          /\ \A q \in Processors \ {p} : at'[q] = at[q] /\ scope'[q] = scope[q]
          /\ at'[p] # "out" => scope'[p] = scope[p]
      <4> USE DEF Leave, Goto
      <4>1. CASE EnterAddData(p) \/ MatchKey(p) \/ ClaimEntry(p)
        BY <2>2, <4>1 DEF EnterAddData, MatchKey, ClaimEntry
      <4>2. CASE TestEmpty(p)
        BY <2>2, <4>2 DEF TestEmpty
      <4>3. CASE ReadTime(p) \/ WriteTime(p) \/ ReadCount(p)
        BY <2>2, <4>3 DEF ReadTime, WriteTime, ReadCount
      <4>4. CASE WriteCount(p)
        BY <2>2, <4>4 DEF WriteCount
      <4> QED
        BY <1>2, <2>4, <4>1, <4>2, <4>3, <4>4 DEF VmmStep, AddDataStep
    <3> QED
      BY <2>1, <3>1
  <2> QED
    BY <2>3, <2>4
<1>3. CASE UNCHANGED vars
  BY <1>3 DEF vars
<1> QED
  BY <1>1, <1>2, <1>3 DEF Next

\* The services stay where they are when a VMM measures.
LEMMA ServicesInductive ==
  ASSUME Control, [Next]_vars
  PROVE  (ServicesUp /\ NothingRecordedYet)'
<1> USE NullAssumption, DescriptorAssumption
    DEF Control, ServicesUp, NothingRecordedYet,
        CollectorLabels, MemoryLabels, VmmLabels, perf, table, calls, history, globals, memory
<1>1. CASE DriverStep
  <2>1. UNCHANGED <<calls, history>>
    BY <1>1, DriverFrame
  <2> QED
    BY <1>1, <2>1
    DEF TypeOK, DriverStep, CallConstructor, GlobalVariablesInitialized, CallDestructor,
        GlobalVariablesTerminated, PerfInitialization, PerfTermination,
        UtilInitializePageTableVariables, MmGetPhysicalMemoryRanges,
        UtilBuildPhysicalMemoryRanges, UtilTermination, CallbackInitialization,
        DriverUnload, PowerSuspend, PowerResume, VmHotplugCallback, VmInitialization, VmStartVm,
        VmInitializationReturns, VmStopVm, VmTerminationReturns, Unwind
<1>2. ASSUME NEW p \in Processors, VmmStep(p)
      PROVE  (ServicesUp /\ NothingRecordedYet)'
  <2>1. UNCHANGED <<collector, pc, globals, memory>>
    BY <1>2, VmmFrame
  <2>2. pc \notin {"globals", "perf"}
    BY <1>2 DEF VmmStep
  <2> QED
    BY <2>1, <2>2
<1>3. CASE UNCHANGED vars
  BY <1>3 DEF vars
<1> QED
  BY <1>1, <1>2, <1>3 DEF Next

\* The steps outside the loops and their results.
LEMMA ReachedOutside ==
  ASSUME Control, UNCHANGED <<idx, machine>>,
         \/ pc \in EarlyLabels /\ pc' \in EarlyLabels \union LateLabels \union {"init"} /\ UNCHANGED caller
         \/ pc \in LateLabels /\ pc' \in LateLabels /\ UNCHANGED caller
         \/ UNCHANGED <<pc, caller>>
  PROVE  Reached'
BY DEF Control, Reached, VmmsLeft, LoopReached, NoGaps, EarlyLabels, LateLabels, machine, Behind

\* Starting and stopping, added processors, suspends and resumes.
LEMMA ReachedInside ==
  ASSUME Control,
         \/ DriverUnload \/ PowerSuspend \/ PowerResume \/ VmHotplugCallback
         \/ VmInitialization \/ VmStartVm \/ VmInitializationReturns \/ VmStopVm
         \/ VmTerminationReturns
  PROVE  Reached'
<1> USE DEF Control, Reached, VmmsLeft, LoopReached, NoGaps, EarlyLabels, LateLabels, machine, loop
<1>1. /\ idx \in 0 .. active /\ active \in 1 .. MaxProcessors
      /\ vmm \subseteq 0 .. active - 1 /\ skipped \subseteq 0 .. active - 1
      /\ caller \in {"driver", "power"}
      /\ MaxProcessors \in Nat /\ Processors = 0 .. MaxProcessors - 1
  BY IndexAssumption DEF TypeOK
<1>2. CASE DriverUnload \/ PowerSuspend
  <2>1. /\ pc = "loaded" /\ pc' = "stop" /\ idx = 0 /\ UNCHANGED <<idx, vmm, active, skipped>>
    BY <1>2 DEF DriverUnload, PowerSuspend
  <2>2. \A q \in Processors : ~(q < 0)
    BY <1>1
  <2> QED
    BY <2>1, <2>2 DEF Behind
<1>3. CASE PowerResume
  BY <1>1, <1>3 DEF PowerResume, Behind
<1>4. CASE VmHotplugCallback
  <2>1. pc = "loaded" /\ pc' = pc /\ idx' = idx /\ idx = 0 /\ caller' = caller /\ active' = active + 1
    BY <1>4 DEF VmHotplugCallback
  <2>2. CASE vmm # {} /\ vmm' = vmm \union {active} /\ UNCHANGED skipped
    <3>1. \A q \in Processors : q < active => q \in vmm \/ Behind(active)
      <4>1. CASE 0 .. active - 1 \subseteq vmm
        BY <1>1, <4>1
      <4>2. CASE skipped # {}
        <5>1. PICK s \in skipped : TRUE
          BY <4>2
        <5>2. s < active
          BY <1>1, <5>1
        <5> QED
          BY <5>1, <5>2 DEF Behind
      <4> QED
        BY <2>1, <2>2, <4>1, <4>2
    <3>2. (0 .. active' - 1 \subseteq vmm' \/ skipped' # {})
      BY <1>1, <2>1, <2>2
    <3> QED
      BY <1>1, <2>1, <2>2, <3>1, <3>2 DEF Behind
  <2>3. CASE skipped' = skipped \union {active} /\ UNCHANGED vmm
    BY <1>1, <2>1, <2>3 DEF Behind
  <2> QED
    BY <1>4, <2>2, <2>3 DEF VmHotplugCallback
<1>5. CASE VmInitialization
  BY <1>1, <1>5 DEF VmInitialization, Unwind, Behind
<1>6. CASE VmStartVm
  <2>1. CASE idx \notin vmm /\ vmm' = vmm \union {idx} /\ idx' = idx + 1 /\ UNCHANGED pc
    <3>1. \A p \in vmm : Behind(p) \/ \A q \in Processors : q < p => q \in vmm
      BY <1>6 DEF VmStartVm
    <3>2. \A q \in Processors : q < idx + 1 => q < idx \/ q = idx
      BY <1>1
    <3> QED
      BY <1>1, <1>6, <2>1, <3>1, <3>2 DEF VmStartVm, Behind
  <2>2. CASE UNCHANGED vmm /\ idx' = 0 /\ pc' = "stop"
    BY <1>1, <1>6, <2>2 DEF VmStartVm, Behind
  <2> QED
    BY <1>6, <2>1, <2>2 DEF VmStartVm
<1>7. CASE VmInitializationReturns
  <2>1. 0 .. active - 1 \subseteq vmm
    BY <1>1, <1>7 DEF VmInitializationReturns
  <2>2. \A p \in vmm : \A q \in Processors : q < p => q \in vmm
    BY <1>1, <2>1
  <2> QED
    BY <1>1, <1>7, <2>1, <2>2 DEF VmInitializationReturns
<1>8. CASE VmStopVm
  <2>1. \A q \in Processors : q < idx + 1 <=> q < idx \/ q = idx
    BY <1>1
  <2> QED
    BY <1>1, <1>8, <2>1 DEF VmStopVm, Behind
<1>9. CASE VmTerminationReturns
  <2>1. \A p \in vmm : p \in Processors /\ ~(p < idx)
    BY <1>1, <1>9 DEF VmTerminationReturns
  <2>2. \A p \in vmm : Behind(p)
    <3> SUFFICES ASSUME NEW p \in vmm PROVE Behind(p)
      OBVIOUS
    <3>1. idx \notin vmm /\ idx < p /\ idx \in Processors
      BY <1>1, <1>9, <2>1 DEF VmTerminationReturns
    <3> QED
      BY <1>1, <1>9, <3>1 DEF VmTerminationReturns
  <2>3. vmm # {} => skipped # {}
    BY <2>2 DEF Behind
  <2> QED
    BY <1>1, <1>9, <2>2, <2>3 DEF VmTerminationReturns, Unwind, Behind
<1> QED
  BY <1>2, <1>3, <1>4, <1>5, <1>6, <1>7, <1>8, <1>9

\* So the VMMs that are left at the end are those behind a processor that was skipped.
LEMMA ReachedInductive ==
  ASSUME Control, [Next]_vars
  PROVE  Reached'
<1>1. CASE DriverStep
  <2>1. CASE \/ DriverUnload \/ PowerSuspend \/ PowerResume \/ VmHotplugCallback
             \/ VmInitialization \/ VmStartVm \/ VmInitializationReturns \/ VmStopVm
             \/ VmTerminationReturns
    BY <2>1, ReachedInside
  <2>2. CASE \/ CallConstructor \/ GlobalVariablesInitialized \/ CallDestructor
             \/ GlobalVariablesTerminated \/ PerfInitialization \/ PerfTermination
             \/ UtilInitializePageTableVariables \/ MmGetPhysicalMemoryRanges
             \/ UtilBuildPhysicalMemoryRanges \/ UtilTermination \/ CallbackInitialization
    <3>1. UNCHANGED <<loop, machine>>
      BY <2>2
      DEF CallConstructor, GlobalVariablesInitialized, CallDestructor,
          GlobalVariablesTerminated, PerfInitialization, PerfTermination,
          UtilInitializePageTableVariables, MmGetPhysicalMemoryRanges,
          UtilBuildPhysicalMemoryRanges, UtilTermination, CallbackInitialization
    <3>2. \/ pc \in EarlyLabels /\ pc' \in EarlyLabels \union LateLabels \union {"init"}
          \/ pc \in LateLabels /\ pc' \in LateLabels
          \/ UNCHANGED pc
      BY <2>2
      DEF CallConstructor, GlobalVariablesInitialized, CallDestructor,
          GlobalVariablesTerminated, PerfInitialization, PerfTermination,
          UtilInitializePageTableVariables, MmGetPhysicalMemoryRanges,
          UtilBuildPhysicalMemoryRanges, UtilTermination, CallbackInitialization,
          EarlyLabels, LateLabels
    <3> QED
      BY <3>1, <3>2, ReachedOutside DEF loop
  <2> QED
    BY <1>1, <2>1, <2>2 DEF DriverStep
<1>2. CASE \E p \in Processors : VmmStep(p)
  BY <1>2, VmmFrame, ReachedOutside DEF loop
<1>3. CASE UNCHANGED vars
  BY <1>3, ReachedOutside DEF vars, loop
<1> QED
  BY <1>1, <1>2, <1>3 DEF Next

-----------------------------------------------------------------------------
\* Every step of the driver keeps the types.
LEMMA DriverTypes ==
  ASSUME Control, DriverStep
  PROVE  TypeOK'
<1> USE DEF Control, TypeOK, perf, table, calls, history, globals, memory, loop, machine
<1>1. CASE CallConstructor
  <2> DEFINE c == Cardinality(constructed) + 1
  <2>1. c \in 1 .. Constructors
    BY <1>1, NextConstructor, ConstructorsAssumption DEF CallConstructor
  <2>2. <<c>> \o dtors \in Seq(1 .. Constructors)
    BY <2>1
  <2> QED
    BY <1>1, <2>1, <2>2 DEF CallConstructor, atexit
<1>2. CASE CallDestructor
  <2>1. dtors' \in Seq(1 .. Constructors) /\ constructed' \subseteq 1 .. Constructors
    BY <1>2, HeadTailProperties DEF CallDestructor
  <2> QED
    BY <1>2, <2>1 DEF CallDestructor
<1>3. CASE PerfInitialization
  <2>1. /\ key' \in [Entries -> Locations \union {Null}]
        /\ time' \in [Entries -> Nat] /\ count' \in [Entries -> Nat]
    BY <1>3, SMTT(20) DEF PerfInitialization, Initialize, NoKeys, Zeros
  <2>2. collector' \in BOOLEAN /\ pc' \in {"pageTables", "undoGlobals"}
    BY <1>3 DEF PerfInitialization
  <2> QED
    BY <1>3, <2>1, <2>2 DEF PerfInitialization
<1>4. CASE \/ DriverUnload \/ PowerSuspend \/ PowerResume \/ VmHotplugCallback
           \/ VmInitialization \/ VmStartVm \/ VmInitializationReturns \/ VmStopVm
           \/ VmTerminationReturns
  <2>1. UNCHANGED <<perf, globals, memory>>
    BY <1>4
    DEF DriverUnload, PowerSuspend, PowerResume, VmHotplugCallback, VmInitialization, VmStartVm,
        VmInitializationReturns, VmStopVm, VmTerminationReturns
  <2>2. /\ caller' \in {"driver", "power"} /\ asleep' \in BOOLEAN
        /\ pc' \in {"init", "start", "loaded", "stop", "undoUtil"}
    BY <1>4
    DEF DriverUnload, PowerSuspend, PowerResume, VmHotplugCallback, VmInitialization, VmStartVm,
        VmInitializationReturns, VmStopVm, VmTerminationReturns, Unwind
  <2>3. /\ active' \in 1 .. MaxProcessors /\ idx' \in 0 .. active'
        /\ vmm' \subseteq 0 .. active' - 1 /\ skipped' \subseteq 0 .. active' - 1
    <3>1. /\ active \in 1 .. MaxProcessors /\ MaxProcessors \in Nat /\ idx \in 0 .. active
          /\ vmm \subseteq 0 .. active - 1 /\ skipped \subseteq 0 .. active - 1
      BY IndexAssumption
    <3>2. CASE VmHotplugCallback
      <4>1. active' = active + 1 /\ idx' = idx /\ 0 .. active - 1 \subseteq 0 .. active' - 1
            /\ active \in 0 .. active' - 1 /\ active' \in 1 .. MaxProcessors
        BY <3>1, <3>2 DEF VmHotplugCallback
      <4>2. /\ vmm' \subseteq vmm \union {active}
            /\ skipped' \subseteq skipped \union {active}
        BY <3>2 DEF VmHotplugCallback
      <4> QED
        BY <3>1, <4>1, <4>2
    <3>3. CASE VmStartVm
      <4>1. idx < active /\ idx + 1 \in 0 .. active /\ idx \in 0 .. active - 1 /\ 0 \in 0 .. active
        BY <3>1, <3>3 DEF VmStartVm
      <4>2. active' = active /\ skipped' = skipped /\ idx' \in {0, idx + 1} /\ vmm' \subseteq vmm \union {idx}
        BY <3>3 DEF VmStartVm
      <4> QED
        BY <3>1, <4>1, <4>2
    <3>4. CASE VmStopVm
      BY <3>1, <3>4 DEF VmStopVm
    <3>5. CASE \/ DriverUnload \/ PowerSuspend \/ PowerResume \/ VmInitialization
               \/ VmInitializationReturns \/ VmTerminationReturns
      <4>1. /\ active' = active /\ idx' \in {0, idx} /\ vmm' \subseteq vmm
            /\ skipped' \subseteq skipped
        BY <3>5
        DEF DriverUnload, PowerSuspend, PowerResume, VmInitialization, VmInitializationReturns,
            VmTerminationReturns
      <4>2. 0 \in 0 .. active
        BY <3>1
      <4> QED
        BY <3>1, <4>1, <4>2
    <3> QED
      BY <1>4, <3>2, <3>3, <3>4, <3>5
  <2> QED
    BY <2>1, <2>2, <2>3
<1>5. CASE UtilTermination
  BY <1>5 DEF UtilTermination
<1>6. CASE \/ GlobalVariablesInitialized \/ GlobalVariablesTerminated \/ PerfTermination
           \/ UtilInitializePageTableVariables \/ MmGetPhysicalMemoryRanges
           \/ UtilBuildPhysicalMemoryRanges \/ CallbackInitialization
  <2>1. /\ UNCHANGED <<table, calls, history, globals, loop, machine>>
        /\ freed' = freed
    BY <1>6
    DEF GlobalVariablesInitialized, GlobalVariablesTerminated, PerfTermination,
        UtilInitializePageTableVariables, MmGetPhysicalMemoryRanges,
        UtilBuildPhysicalMemoryRanges, CallbackInitialization
  <2>2. /\ collector' \in {collector, FALSE}
        /\ pc' \in {"perf", "gone", "undoGlobals", "query", "undoPerf", "build", "callbacks",
                    "init", "undoUtil"}
    BY <1>6
    DEF GlobalVariablesInitialized, GlobalVariablesTerminated, PerfTermination,
        UtilInitializePageTableVariables, MmGetPhysicalMemoryRanges,
        UtilBuildPhysicalMemoryRanges, CallbackInitialization
  <2>3. collector' \in BOOLEAN /\ freed' \in BOOLEAN
    BY <2>1, <2>2
  <2> QED
    BY <2>1, <2>2, <2>3
<1> QED
  BY <1>1, <1>2, <1>3, <1>4, <1>5, <1>6 DEF DriverStep

\* So does every step of a VMM.
LEMMA VmmTypes ==
  ASSUME Control, NEW p \in Processors, VmmStep(p)
  PROVE  TypeOK'
<1> USE EntriesAssumption
    DEF Control, TypeOK, OnlyVmmsMeasure, perf, table, calls, history, globals, memory, loop,
        machine, AddDataLabels, Entries, Goto, Leave
<1>1. UNCHANGED <<collector, pc, globals, memory, loop, machine>>
  BY VmmFrame
<1>2. CASE \E l \in Locations : Measure(p, l)
  <2>1. PICK l \in Locations : Measure(p, l)
    BY <1>2
  <2>2. measured' \in [Processors -> Nat]
    BY <2>1, SMTT(20) DEF Measure
  <2> QED
    BY <1>1, <2>1, <2>2 DEF Measure
<1>3. CASE EnterAddData(p)
  <2>1. alone' \in BOOLEAN
    BY <1>3 DEF EnterAddData
  <2>2. at' \in [Processors -> AddDataLabels \union {"out", "scope"}]
    BY <1>3 DEF EnterAddData
  <2>3. index' \in [Processors -> Entries]
    BY <1>3 DEF EnterAddData
  <2> QED
    BY <1>1, <1>3, <2>1, <2>2, <2>3 DEF EnterAddData
<1>4. CASE MatchKey(p)
  BY <1>1, <1>4 DEF MatchKey
<1>5. CASE TestEmpty(p)
  <2>1. CASE index[p] < MaxEntries /\ key[index[p]] # Null
    <3>1. index[p] + 1 \in Entries
      BY <2>1, SMTT(20)
    <3>2. /\ index' = [index EXCEPT ![p] = @ + 1] /\ at' = [at EXCEPT ![p] = "match"]
          /\ UNCHANGED <<scope, read, key, time, count, writer, measured, added, alone>>
      BY <1>5, <2>1, SMTT(20) DEF TestEmpty
    <3> QED
      BY <1>1, <3>1, <3>2
  <2>2. CASE index[p] = MaxEntries /\ key[index[p]] # Null
    <3>1. /\ at' = [at EXCEPT ![p] = "out"] /\ scope' = [scope EXCEPT ![p] = Null]
          /\ index' = [index EXCEPT ![p] = 1] /\ read' = [read EXCEPT ![p] = 0]
          /\ UNCHANGED <<key, time, count, writer, measured, added, alone>>
      BY <1>5, <2>2 DEF TestEmpty
    <3>2. 1 \in Entries
      OBVIOUS
    <3> QED
      BY <1>1, <3>1, <3>2
  <2>3. CASE key[index[p]] = Null
    <3>1. /\ at' = [at EXCEPT ![p] = "claim"]
          /\ UNCHANGED <<scope, index, read, key, time, count, writer, measured, added, alone>>
      BY <1>5, <2>3 DEF TestEmpty
    <3> QED
      BY <1>1, <3>1
  <2> QED
    BY <1>5, <2>1, <2>2, <2>3 DEF TestEmpty
<1>6. CASE ClaimEntry(p)
  BY <1>1, <1>6 DEF ClaimEntry
<1>7. CASE ReadTime(p)
  <2>1. /\ read' = [read EXCEPT ![p] = time[index[p]]] /\ at' = [at EXCEPT ![p] = "timeWrite"]
        /\ UNCHANGED <<scope, index, key, time, count, writer, measured, added, alone>>
    BY <1>7 DEF ReadTime
  <2>2. read' \in [Processors -> Nat]
    BY <2>1
  <2> QED
    BY <1>1, <2>1, <2>2
<1>8. CASE WriteTime(p)
  <2>1. time' \in [Entries -> Nat]
    BY <1>8 DEF WriteTime
  <2> QED
    BY <1>1, <1>8, <2>1 DEF WriteTime
<1>9. CASE ReadCount(p)
  BY <1>1, <1>9 DEF ReadCount
<1>10. CASE WriteCount(p)
  <2>1. count' \in [Entries -> Nat]
    BY <1>10 DEF WriteCount
  <2>2. added' \in [Locations -> Nat]
    BY <1>10, SMTT(20) DEF WriteCount
  <2>3. /\ scope' \in [Processors -> Locations \union {Null}] /\ read' \in [Processors -> Nat]
        /\ index' \in [Processors -> Entries]
    BY <1>10 DEF WriteCount
  <2> QED
    BY <1>1, <1>10, <2>1, <2>2, <2>3 DEF WriteCount
<1> QED
  BY <1>2, <1>3, <1>4, <1>5, <1>6, <1>7, <1>8, <1>9, <1>10 DEF VmmStep, AddDataStep

\* Control is inductive.
LEMMA ControlInductive ==
  ASSUME Control, [Next]_vars
  PROVE  Control'
<1>1. TypeOK'
  <2>1. CASE UNCHANGED vars
    BY <2>1 DEF vars, Control, TypeOK, perf, table, calls, history, globals, memory, loop, machine
  <2> QED
    BY <2>1, DriverTypes, VmmTypes DEF Next
<1> QED
  BY <1>1, MeasuresInductive, ServicesInductive, ReachedInductive DEF Control

\* Every variable has its type: no index of GetPerfDataIndex is ever outside the
\* table, no at-exit entry names an object that does not exist.
THEOREM TypesAlwaysCorrect == Spec => []TypeOK
<1>1. Control => TypeOK
  BY DEF Control
<1> QED
  BY ControlInit, ControlInductive, <1>1, PTL DEF Spec

\* The collector and the description of memory are there for every VMM that
\* VmTermination reaches, whatever fails while processors are started, stopped, added,
\* suspended and resumed: no VMM is missed but one behind an added processor that has
\* none.
THEOREM ServicesAlwaysOutliveVmms == Spec => []ServicesOutliveVmms
<1>1. ASSUME Control PROVE ServicesOutliveVmms
  <2>1. pc \in VmmLabels => collector /\ descriptor # Null /\ ~freed
    BY <1>1 DEF Control, ServicesUp, CollectorLabels, MemoryLabels
  <2>2. pc \in EarlyLabels \union VmmLabels \union LateLabels
    BY <1>1 DEF Control, TypeOK, EarlyLabels, VmmLabels, LateLabels
  <2>3. \A p \in vmm : Behind(p) \/ (collector /\ descriptor # Null /\ ~freed)
    BY <1>1, <2>1, <2>2 DEF Control, Reached, VmmsLeft
  <2> QED
    BY <1>1, <2>1, <2>3 DEF Control, OnlyVmmsMeasure, ServicesOutliveVmms, VmmLabels
<1> QED
  BY ControlInit, ControlInductive, <1>1, PTL DEF Spec

-----------------------------------------------------------------------------
(* The table                                                               *)

\* The control points of GetPerfDataIndex, and those behind it.
SearchLabels == {"match", "empty", "claim"}
AddLabels    == {"time", "timeWrite", "count", "countWrite"}

\* The entries in use come first; the others are untouched.
KeysFirst ==
  /\ \A i \in Entries : key[i] # Null =>
       /\ writer[i] \in Processors /\ measured[writer[i]] > 0
       /\ \A j \in Entries : j < i => key[j] # Null
  /\ \A i \in Entries : key[i] = Null => time[i] = 0 /\ count[i] = 0 /\ writer[i] = Null

\* A processor that searches has left behind entries that are in use and not its own
\* ones for the location.  Where it finds an empty one, it has none further on.
SearchKept ==
  \A p \in Processors :
    /\ at[p] \in SearchLabels =>
         \A j \in Entries : j < index[p] => key[j] # Null /\ (writer[j] = p => key[j] # scope[p])
    /\ at[p] = "empty" /\ writer[index[p]] = p => key[index[p]] # scope[p]
    /\ at[p] = "claim" => \A j \in Entries : j >= index[p] => writer[j] # p
    /\ at[p] \in AddLabels => key[index[p]] # Null

\* Two entries of a location are from two processors.
OneEntryEach ==
  \A i, j \in Entries :
    i < j /\ key[i] = key[j] /\ key[i] # Null => writer[i] # writer[j]

Table == KeysFirst /\ SearchKept /\ OneEntryEach

\* There is no processor in AddData before the collector is up.
LEMMA TableInit == Init => Table
BY NullAssumption DEF Init, PerfInit, Table, KeysFirst, SearchKept, OneEntryEach, NoKeys, Zeros, Entries,
       SearchLabels, AddLabels

\* The driver touches the table only before the first VMM runs.
LEMMA DriverTable ==
  ASSUME Control, Table, DriverStep
  PROVE  Table'
<1>1. UNCHANGED <<calls, history>>
  BY DriverFrame
<1>2. CASE UNCHANGED table
  BY <1>1, <1>2 DEF Table, KeysFirst, SearchKept, OneEntryEach, calls, history, table
<1>3. CASE PerfInitialization
  <2>1. CASE UNCHANGED table
    BY <1>2, <2>1
  <2>2. CASE Initialize
    <3>1. pc = "perf"
      BY <1>3 DEF PerfInitialization
    <3>2. \A p \in Processors : at'[p] = "out"
      BY <1>1, <3>1 DEF Control, OnlyVmmsMeasure, Reached, VmmsLeft, EarlyLabels, calls, TypeOK
    <3>3. \A i \in Entries : writer'[i] = Null
      BY <1>1, <3>1 DEF Control, NothingRecordedYet, NoKeys, history
    <3>4. \A i \in Entries : key'[i] = Null /\ time'[i] = 0 /\ count'[i] = 0
      BY <2>2 DEF Initialize, NoKeys, Zeros
    <3> QED
      BY <3>2, <3>3, <3>4 DEF Table, KeysFirst, SearchKept, OneEntryEach, SearchLabels, AddLabels
  <2> QED
    BY <1>3, <2>1, <2>2 DEF PerfInitialization, table
<1> QED
  BY <1>2, <1>3, DriverFrame

\* What a step of a VMM does to the entries and to the calls on other processors.
LEMMA VmmTableFrame ==
  ASSUME Control, NEW p \in Processors, VmmStep(p), ~ClaimEntry(p)
  PROVE  /\ UNCHANGED <<key, writer>>
         /\ \A q \in Processors \ {p} :
              at'[q] = at[q] /\ scope'[q] = scope[q] /\ index'[q] = index[q]
         /\ \A i \in Entries :
              time'[i] # time[i] \/ count'[i] # count[i] => at[p] \in AddLabels /\ i = index[p]
         /\ \A q \in Processors : measured[q] > 0 => measured'[q] > 0
<1> USE DEF Control, TypeOK, AddLabels, table, history, Goto, Leave
<1>1. CASE \E l \in Locations : Measure(p, l)
  BY <1>1 DEF Measure
<1>2. CASE EnterAddData(p)
  BY <1>2 DEF EnterAddData
<1>3. CASE MatchKey(p) \/ TestEmpty(p)
  BY <1>3 DEF MatchKey, TestEmpty
<1>4. CASE ReadTime(p) \/ ReadCount(p)
  BY <1>4 DEF ReadTime, ReadCount
<1>5. CASE WriteTime(p)
  BY <1>5 DEF WriteTime
<1>6. CASE WriteCount(p)
  BY <1>6 DEF WriteCount
<1> QED
  BY <1>1, <1>2, <1>3, <1>4, <1>5, <1>6 DEF VmmStep, AddDataStep

\* A search that goes on keeps what it has found.
LEMMA SearchGoesOn ==
  ASSUME Control, Table, NEW p \in Processors, VmmStep(p), ~ClaimEntry(p)
  PROVE  SearchKept'
<1>a. \A q \in Processors \ {p} :
        at'[q] = at[q] /\ scope'[q] = scope[q] /\ index'[q] = index[q]
  BY VmmTableFrame
<1> USE DEF Control, TypeOK, Table, SearchKept, SearchLabels, AddLabels, Goto, Leave, table, history
<1>1. UNCHANGED <<key, writer>>
  BY VmmTableFrame
<1> SUFFICES ASSUME NEW q \in Processors
             PROVE  /\ at'[q] \in SearchLabels =>
                          \A j \in Entries : j < index'[q] =>
                             key[j] # Null /\ (writer[j] = q => key[j] # scope'[q])
                    /\ at'[q] = "empty" /\ writer[index'[q]] = q => key[index'[q]] # scope'[q]
                    /\ at'[q] = "claim" => \A j \in Entries : j >= index'[q] => writer[j] # q
                    /\ at'[q] \in AddLabels => key[index'[q]] # Null
  BY <1>1
<1>2. CASE q # p
  <2>1. at'[q] = at[q] /\ scope'[q] = scope[q] /\ index'[q] = index[q]
    BY <1>2, <1>a
  <2> QED
    BY <2>1
<1>3. CASE q = p
  <2>1. CASE \E l \in Locations : Measure(p, l)
    BY <1>3, <2>1 DEF Measure
  <2>2. CASE EnterAddData(p)
    BY <1>3, <2>2 DEF EnterAddData, Entries
  <2>3. CASE MatchKey(p)
    BY <1>3, <2>3, NullAssumption DEF MatchKey, OnlyVmmsMeasure
  <2>4. CASE TestEmpty(p)
    <3>1. CASE key[index[p]] = Null
      <4>1. \A j \in Entries : j >= index[p] => key[j] = Null /\ writer[j] = Null
        BY <3>1 DEF KeysFirst, Entries
      <4>2. at'[p] = "claim" /\ index'[p] = index[p] /\ scope'[p] = scope[p]
        BY <2>4, <3>1 DEF TestEmpty
      <4>3. at[p] \in SearchLabels
        BY <2>4 DEF TestEmpty
      <4> QED
        BY <1>3, <4>1, <4>2, <4>3, NullAssumption
    <3>2. CASE key[index[p]] # Null /\ index[p] < MaxEntries
      <4>1. at'[p] = "match" /\ index'[p] = index[p] + 1 /\ scope'[p] = scope[p]
        BY <2>4, <3>2, EntriesAssumption, SMTT(20) DEF TestEmpty, Entries
      <4>2. at[p] = "empty"
        BY <2>4 DEF TestEmpty
      <4>3. \A j \in Entries : j < index[p] + 1 => j < index[p] \/ j = index[p]
        BY DEF Entries
      <4> QED
        BY <1>3, <3>2, <4>1, <4>2, <4>3
    <3>3. CASE key[index[p]] # Null /\ index[p] = MaxEntries
      <4>1. at'[p] = "out"
        BY <2>4, <3>3, EntriesAssumption DEF TestEmpty, Entries
      <4> QED
        BY <1>3, <4>1
    <3> QED
      BY <2>4, <3>1, <3>2, <3>3 DEF TestEmpty
  <2>5. CASE ReadTime(p) \/ ReadCount(p) \/ WriteTime(p)
    BY <1>3, <2>5 DEF ReadTime, ReadCount, WriteTime
  <2>6. CASE WriteCount(p)
    BY <1>3, <2>6 DEF WriteCount
  <2> QED
    BY <2>1, <2>2, <2>3, <2>4, <2>5, <2>6 DEF VmmStep, AddDataStep
<1> QED
  BY <1>2, <1>3

\* An entry that is claimed, possibly one that another processor has just claimed.
LEMMA ClaimKeeps ==
  ASSUME Control, Table, NEW p \in Processors, ClaimEntry(p), p \in vmm
  PROVE  Table'
<1> DEFINE n == index[p]
<1> USE DEF Control, TypeOK, Table, SearchLabels, AddLabels
<1>1. /\ n \in Entries /\ at[p] = "claim" /\ scope[p] \in Locations /\ scope[p] # Null
      /\ key' = [key EXCEPT ![n] = scope[p]] /\ writer' = [writer EXCEPT ![n] = p]
      /\ at' = [at EXCEPT ![p] = "time"]
      /\ UNCHANGED <<time, count, scope, index, measured>>
      /\ measured[p] > 0
  BY NullAssumption DEF ClaimEntry, Goto, OnlyVmmsMeasure
<1>2. \A j \in Entries : j # n => key'[j] = key[j] /\ writer'[j] = writer[j]
  BY <1>1
<1>3. key'[n] = scope[p] /\ writer'[n] = p
  BY <1>1
<1>4. /\ \A j \in Entries : j < n => key[j] # Null /\ (writer[j] = p => key[j] # scope[p])
      /\ \A j \in Entries : j >= n => writer[j] # p
  BY <1>1 DEF SearchKept
<1>5. KeysFirst'
  <2>1. \A i \in Entries :
          key'[i] # Null => writer'[i] \in Processors /\ measured'[writer'[i]] > 0
    BY <1>1, <1>2, <1>3 DEF KeysFirst
  <2>2. \A i, j \in Entries : key'[i] # Null /\ j < i => key'[j] # Null
    BY <1>1, <1>2, <1>3, <1>4 DEF KeysFirst, Entries
  <2>3. \A i \in Entries : key'[i] = Null => time'[i] = 0 /\ count'[i] = 0 /\ writer'[i] = Null
    BY <1>1, <1>2, <1>3 DEF KeysFirst
  <2> QED
    BY <2>1, <2>2, <2>3 DEF KeysFirst
<1>6. SearchKept'
  <2> SUFFICES ASSUME NEW q \in Processors
               PROVE  /\ at'[q] \in SearchLabels =>
                            \A j \in Entries : j < index'[q] =>
                               key'[j] # Null /\ (writer'[j] = q => key'[j] # scope'[q])
                      /\ at'[q] = "empty" /\ writer'[index'[q]] = q =>
                            key'[index'[q]] # scope'[q]
                      /\ at'[q] = "claim" => \A j \in Entries : j >= index'[q] => writer'[j] # q
                      /\ at'[q] \in AddLabels => key'[index'[q]] # Null
    BY DEF SearchKept
  <2>1. CASE q = p
    BY <1>1, <1>3, <2>1
  <2>2. CASE q # p
    <3>1. at'[q] = at[q] /\ index'[q] = index[q] /\ scope'[q] = scope[q] /\ index[q] \in Entries
      BY <1>1, <2>2
    <3> QED
      BY <1>1, <1>2, <1>3, <2>2, <3>1 DEF SearchKept
  <2> QED
    BY <2>1, <2>2
<1>7. OneEntryEach'
  <2> SUFFICES ASSUME NEW i \in Entries, NEW j \in Entries, i < j, key'[i] = key'[j], key'[i] # Null
               PROVE  writer'[i] # writer'[j]
    BY DEF OneEntryEach
  <2>1. CASE i # n /\ j # n
    BY <1>2, <2>1 DEF OneEntryEach
  <2>2. CASE i = n
    <3>1. j # n /\ j >= n
      BY <2>2, EntriesAssumption, SMTT(20) DEF Entries
    <3> QED
      BY <1>2, <1>3, <1>4, <2>2, <3>1
  <2>3. CASE j = n
    <3>1. i # n /\ i < n
      BY <2>3, EntriesAssumption DEF Entries
    <3> QED
      BY <1>2, <1>3, <1>4, <2>3, <3>1
  <2> QED
    BY <2>1, <2>2, <2>3
<1> QED
  BY <1>5, <1>6, <1>7

\* The table is consistent after every step.
LEMMA TableInductive ==
  ASSUME Control, Table, [Next]_vars
  PROVE  Table'
<1>1. CASE UNCHANGED vars
  BY <1>1 DEF vars, perf, table, calls, history, Table, KeysFirst, SearchKept, OneEntryEach
<1>2. ASSUME NEW p \in Processors, VmmStep(p)
      PROVE  Table'
  <2>1. CASE ClaimEntry(p)
    BY <1>2, <2>1, ClaimKeeps DEF VmmStep
  <2>2. CASE ~ClaimEntry(p)
    <3>1. SearchKept'
      BY <1>2, <2>2, SearchGoesOn
    <3>2. UNCHANGED <<key, writer>>
      BY <1>2, <2>2, VmmTableFrame
    <3>3. \A i \in Entries : key[i] = Null => time'[i] = time[i] /\ count'[i] = count[i]
      BY <1>2, <2>2, VmmTableFrame DEF Table, SearchKept
    <3>4. \A q \in Processors : measured[q] > 0 => measured'[q] > 0
      BY <1>2, <2>2, VmmTableFrame
    <3> QED
      BY <3>1, <3>2, <3>3, <3>4 DEF Table, KeysFirst, OneEntryEach
  <2> QED
    BY <2>1, <2>2
<1> QED
  BY <1>1, <1>2, DriverTable DEF Next

\* However many processors add at a time and whatever entries they take from each
\* other, the report is complete.
THEOREM ReportAlwaysComplete == Spec => []ReportOmitsNothing
<1>1. Control /\ Table => ReportOmitsNothing
  <2> SUFFICES ASSUME Control, Table, NEW i \in Entries,
                      key[i] # Null \/ time[i] # 0 \/ count[i] # 0
               PROVE  \A j \in 1 .. i : key[j] # Null
    BY DEF ReportOmitsNothing, Reported
  <2>1. key[i] # Null
    BY DEF Table, KeysFirst
  <2>2. \A j \in Entries : j < i => key[j] # Null
    BY <2>1 DEF Table, KeysFirst
  <2>3. \A j \in 1 .. i : j \in Entries /\ (j < i \/ j = i)
    BY EntriesAssumption DEF Entries
  <2> QED
    BY <2>1, <2>2, <2>3
<1>2. Control /\ Table /\ [Next]_vars => (Control /\ Table)'
  BY ControlInductive, TableInductive
<1> QED
  BY ControlInit, TableInit, <1>1, <1>2, PTL DEF Spec

\* A location never takes more entries than there are processors that measured.
THEOREM DuplicatesAlwaysBounded == Spec => []DuplicatesBounded
<1>1. ASSUME Control, Table
      PROVE  DuplicatesBounded
  <2> DEFINE Measured == {p \in Processors : measured[p] > 0}
  <2> SUFFICES ASSUME NEW l \in Locations
               PROVE  Cardinality({i \in Entries : key[i] = l}) <= Cardinality(Measured)
    BY DEF DuplicatesBounded
  <2> DEFINE Mine == {i \in Entries : key[i] = l}
             f    == [i \in Mine |-> writer[i]]
  <2>1. l # Null
    BY NullAssumption
  <2>2. f \in [Mine -> Measured]
    BY <1>1, <2>1 DEF Table, KeysFirst
  <2>3. \A i, j \in Mine : f[i] = f[j] => i = j
    BY <1>1, <2>1 DEF Table, OneEntryEach, Entries
  <2>4. f \in Injection(Mine, Measured)
    BY <2>2, <2>3 DEF Injection, IsInjective
  <2>5. IsFiniteSet(Measured)
    BY FS_Subset, ProcessorsAssumption
  <2> QED
    BY <2>4, <2>5, FS_Injection
<1>2. Control /\ Table /\ [Next]_vars => (Control /\ Table)'
  BY ControlInductive, TableInductive
<1> QED
  BY ControlInit, TableInit, <1>1, <1>2, PTL DEF Spec

-----------------------------------------------------------------------------
(* Additions that do not meet                                              *)

\* Processor p has added to the time of entry i and not yet to its count.
Halfway(p, i) == at[p] \in {"count", "countWrite"} /\ index[p] = i

\* One processor at a time is in AddData, where it sees the table as it is.
OneAdds ==
  /\ \A p, q \in Processors : InAddData(p) /\ InAddData(q) => p = q
  /\ \A p \in Processors :
       /\ at[p] \in SearchLabels => \A j \in Entries : j < index[p] => key[j] # scope[p]
       /\ at[p] = "empty" => key[index[p]] # scope[p]
       /\ at[p] = "claim" => key[index[p]] = Null
       /\ at[p] \in AddLabels => key[index[p]] = scope[p]
       /\ at[p] = "timeWrite" => read[p] = time[index[p]]
       /\ at[p] = "countWrite" => read[p] = count[index[p]]

\* The table is what was added.
TableIsAdded ==
  /\ \A i, j \in Entries : key[i] = key[j] /\ key[i] # Null => i = j
  /\ \A i \in Entries : key[i] # Null =>
       /\ count[i] = added[key[i]]
       /\ (\A p \in Processors : ~Halfway(p, i)) => time[i] = added[key[i]]
       /\ \A p \in Processors : Halfway(p, i) => time[i] = added[key[i]] + 1
  /\ \A l \in Locations : (\A i \in Entries : key[i] # l) => added[l] = 0

Serial == alone => OneAdds /\ TableIsAdded

LEMMA SerialInit == Init => Serial
BY NullAssumption DEF Init, PerfInit, Serial, OneAdds, TableIsAdded, Halfway, InAddData, AddDataLabels,
       NoKeys, Zeros, SearchLabels, AddLabels

\* Setting the collector up changes nothing: nothing was added.
LEMMA DriverSerial ==
  ASSUME Control, Serial, DriverStep
  PROVE  Serial'
<1>1. UNCHANGED <<calls, history>>
  BY DriverFrame
<1> USE DEF Serial, OneAdds, TableIsAdded, Halfway, InAddData
<1>2. CASE UNCHANGED table
  BY <1>1, <1>2 DEF calls, history, table
<1>3. CASE PerfInitialization
  <2>1. CASE UNCHANGED table
    BY <1>2, <2>1
  <2>2. CASE Initialize
    <3>1. pc = "perf"
      BY <1>3 DEF PerfInitialization
    <3>2. \A p \in Processors : at'[p] = "out"
      BY <1>1, <3>1 DEF Control, OnlyVmmsMeasure, Reached, VmmsLeft, EarlyLabels, calls, TypeOK
    <3>3. \A l \in Locations : added'[l] = 0
      BY <1>1, <3>1 DEF Control, NothingRecordedYet, history
    <3>4. \A i \in Entries : key'[i] = Null /\ time'[i] = 0 /\ count'[i] = 0
      BY <2>2 DEF Initialize, NoKeys, Zeros
    <3> QED
      BY <3>2, <3>3, <3>4 DEF SearchLabels, AddLabels, AddDataLabels
  <2> QED
    BY <1>3, <2>1, <2>2 DEF PerfInitialization, table
<1> QED
  BY <1>2, <1>3, DriverFrame

\* The steps before an entry is found or claimed, and those that only read.
LEMMA SearchSerial ==
  ASSUME Control, Table, Serial, NEW p \in Processors, VmmStep(p),
         ~ClaimEntry(p), ~WriteTime(p), ~WriteCount(p), alone'
  PROVE  OneAdds' /\ TableIsAdded'
<1>a. UNCHANGED <<key, time, count, added>> /\ alone
  BY DEF VmmStep, Measure, EnterAddData, AddDataStep, MatchKey, TestEmpty, ReadTime, ReadCount,
         table, history
<1>b. /\ \A q \in Processors \ {p} :
             at'[q] = at[q] /\ scope'[q] = scope[q] /\ index'[q] = index[q] /\ read'[q] = read[q]
      /\ at \in [Processors -> AddDataLabels \union {"out", "scope"}]
      /\ scope \in [Processors -> Locations \union {Null}]
      /\ index \in [Processors -> Entries]
      /\ read \in [Processors -> Nat]
  BY DEF VmmStep, Measure, EnterAddData, AddDataStep, MatchKey, TestEmpty, ReadTime, ReadCount,
         table, history, Goto, Leave, Control, TypeOK
<1>c. OneAdds /\ TableIsAdded
  BY <1>a DEF Serial
<1>d. at[p] \notin {"out", "scope"} => \A q \in Processors \ {p} : ~InAddData(q)
  BY <1>b, <1>c DEF OneAdds, InAddData
<1>1. CASE \E l \in Locations : Measure(p, l)
  <2>1. at[p] = "out" /\ at'[p] = "scope" /\ UNCHANGED <<index, read>>
    BY <1>1, <1>b DEF Measure, Goto
  <2> QED
    BY <1>a, <1>b, <1>c, <2>1
    DEF OneAdds, TableIsAdded, Halfway, InAddData, SearchLabels, AddLabels, AddDataLabels
<1>2. CASE EnterAddData(p)
  <2>1. /\ at[p] = "scope" /\ at'[p] = "match" /\ index'[p] = 1
        /\ \A q \in Processors : ~InAddData(q)
    BY <1>2, <1>b DEF EnterAddData, Goto
  <2>2. \A j \in Entries : ~(j < 1)
    BY DEF Entries
  <2> QED
    BY <1>a, <1>b, <1>c, <2>1, <2>2
    DEF OneAdds, TableIsAdded, Halfway, InAddData, SearchLabels, AddLabels, AddDataLabels
<1>3. CASE MatchKey(p)
  <2>1. /\ at[p] = "match" /\ at'[p] = (IF key[index[p]] = scope[p] THEN "time" ELSE "empty")
        /\ scope'[p] = scope[p] /\ index'[p] = index[p]
    BY <1>3, <1>b DEF MatchKey, Goto
  <2> QED
    BY <1>a, <1>b, <1>c, <1>d, <2>1
    DEF OneAdds, TableIsAdded, Halfway, InAddData, SearchLabels, AddLabels, AddDataLabels
<1>4. CASE TestEmpty(p)
  <2>1. at[p] = "empty"
    BY <1>4 DEF TestEmpty
  <2>2. CASE at'[p] = "claim" /\ key[index[p]] = Null /\ UNCHANGED <<scope, index, read>>
    BY <1>a, <1>b, <1>c, <1>d, <2>1, <2>2
    DEF OneAdds, TableIsAdded, Halfway, InAddData, SearchLabels, AddLabels, AddDataLabels
  <2>3. CASE at'[p] = "match" /\ index'[p] = index[p] + 1 /\ UNCHANGED <<scope, read>>
    <3>1. \A j \in Entries : j < index[p] + 1 => j < index[p] \/ j = index[p]
      BY <1>b DEF Entries
    <3> QED
      BY <1>a, <1>b, <1>c, <1>d, <2>1, <2>3, <3>1
      DEF OneAdds, TableIsAdded, Halfway, InAddData, SearchLabels, AddLabels, AddDataLabels
  <2>4. CASE at'[p] = "out"
    BY <1>a, <1>b, <1>c, <1>d, <2>1, <2>4
    DEF OneAdds, TableIsAdded, Halfway, InAddData, SearchLabels, AddLabels, AddDataLabels
  <2> QED
    BY <1>4, <1>b, <2>2, <2>3, <2>4 DEF TestEmpty, Goto, Leave
<1>5. CASE ReadTime(p)
  <2>1. /\ at[p] = "time" /\ at'[p] = "timeWrite" /\ read'[p] = time[index[p]]
        /\ scope'[p] = scope[p] /\ index'[p] = index[p]
    BY <1>5, <1>b DEF ReadTime, Goto
  <2> QED
    BY <1>a, <1>b, <1>c, <1>d, <2>1
    DEF OneAdds, TableIsAdded, Halfway, InAddData, SearchLabels, AddLabels, AddDataLabels
<1>6. CASE ReadCount(p)
  <2>1. /\ at[p] = "count" /\ at'[p] = "countWrite" /\ read'[p] = count[index[p]]
        /\ scope'[p] = scope[p] /\ index'[p] = index[p]
    BY <1>6, <1>b DEF ReadCount, Goto
  <2> QED
    BY <1>a, <1>b, <1>c, <1>d, <2>1
    DEF OneAdds, TableIsAdded, Halfway, InAddData, SearchLabels, AddLabels, AddDataLabels
<1> QED
  BY <1>1, <1>2, <1>3, <1>4, <1>5, <1>6 DEF VmmStep, AddDataStep

\* A processor that is alone claims an entry that is still empty.
LEMMA ClaimSerial ==
  ASSUME Control, Table, Serial, NEW p \in Processors, ClaimEntry(p), alone'
  PROVE  OneAdds' /\ TableIsAdded'
<1> DEFINE n == index[p]
<1>1. OneAdds /\ TableIsAdded
  BY DEF ClaimEntry, Serial
<1>2. /\ n \in Entries /\ at[p] = "claim" /\ scope[p] \in Locations /\ scope[p] # Null
      /\ key' = [key EXCEPT ![n] = scope[p]]
      /\ at' = [at EXCEPT ![p] = "time"]
      /\ key \in [Entries -> Locations \union {Null}]
      /\ at \in [Processors -> AddDataLabels \union {"out", "scope"}]
      /\ index \in [Processors -> Entries]
      /\ UNCHANGED <<time, count, scope, index, read, added>>
  BY NullAssumption DEF Control, TypeOK, ClaimEntry, Goto, OnlyVmmsMeasure
<1>3. key[n] = Null /\ \A q \in Processors \ {p} : ~InAddData(q)
  BY <1>1, <1>2 DEF OneAdds, InAddData, AddDataLabels
<1>4. \A j \in Entries : key[j] # scope[p]
  <2> TAKE j \in Entries
  <2>1. CASE j < n
    BY <1>1, <1>2, <2>1 DEF OneAdds, SearchLabels
  <2>2. CASE j = n
    BY <1>2, <1>3, <2>2
  <2>3. CASE n < j
    BY <1>2, <1>3, <2>3 DEF Table, KeysFirst
  <2> QED
    BY <2>1, <2>2, <2>3, <1>2 DEF Entries
<1>5. added[scope[p]] = 0 /\ time[n] = 0 /\ count[n] = 0
  BY <1>1, <1>2, <1>3, <1>4 DEF TableIsAdded, Table, KeysFirst
<1>6. OneAdds'
  BY <1>1, <1>2, <1>3 DEF OneAdds, InAddData, SearchLabels, AddLabels, AddDataLabels
<1>7. \A q \in Processors, i \in Entries : ~Halfway(q, i) /\ ~Halfway(q, i)'
  BY <1>2, <1>3 DEF Halfway, InAddData, AddDataLabels
<1>8. \A j \in Entries : j # n => key'[j] = key[j]
  BY <1>2
<1>9. TableIsAdded'
  <2>1. \A i, j \in Entries : key'[i] = key'[j] /\ key'[i] # Null => i = j
    BY <1>1, <1>2, <1>4, <1>8 DEF TableIsAdded
  <2>2. \A i \in Entries : key'[i] # Null => count'[i] = added'[key'[i]] /\ time'[i] = added'[key'[i]]
    BY <1>1, <1>2, <1>5, <1>7, <1>8 DEF TableIsAdded
  <2>3. \A l \in Locations : (\A i \in Entries : key'[i] # l) => added'[l] = 0
    BY <1>1, <1>2, <1>3, <1>8, NullAssumption DEF TableIsAdded
  <2> QED
    BY <1>7, <2>1, <2>2, <2>3 DEF TableIsAdded
<1> QED
  BY <1>6, <1>9

\* It adds to the time and to the count of the entry of its location.
LEMMA AddSerial ==
  ASSUME Control, Table, Serial, NEW p \in Processors, WriteTime(p) \/ WriteCount(p), alone'
  PROVE  OneAdds' /\ TableIsAdded'
<1> DEFINE n == index[p]
<1>1. OneAdds /\ TableIsAdded
  BY DEF WriteTime, WriteCount, history, Serial
<1>2. /\ n \in Entries /\ at[p] \in {"timeWrite", "countWrite"} /\ scope[p] \in Locations
      /\ key \in [Entries -> Locations \union {Null}]
      /\ time \in [Entries -> Nat] /\ count \in [Entries -> Nat] /\ added \in [Locations -> Nat]
      /\ at \in [Processors -> AddDataLabels \union {"out", "scope"}]
      /\ scope \in [Processors -> Locations \union {Null}]
      /\ index \in [Processors -> Entries] /\ read \in [Processors -> Nat]
  BY DEF Control, TypeOK, OnlyVmmsMeasure, WriteTime, WriteCount
<1>3. key[n] = scope[p] /\ \A q \in Processors \ {p} : ~InAddData(q)
  BY <1>1, <1>2 DEF OneAdds, InAddData, AddDataLabels, AddLabels
<1>4. scope[p] # Null /\ \A i \in Entries : i # n => key[i] # scope[p]
  BY <1>1, <1>2, <1>3, NullAssumption DEF TableIsAdded
<1>5. \A q \in Processors \ {p}, i \in Entries : ~Halfway(q, i)
  BY <1>3 DEF Halfway, InAddData, AddDataLabels
<1>6. CASE WriteTime(p)
  <2>1. /\ at[p] = "timeWrite" /\ at' = [at EXCEPT ![p] = "count"]
        /\ time' = [time EXCEPT ![n] = read[p] + 1]
        /\ UNCHANGED <<key, count, scope, index, read, added>>
    BY <1>6 DEF WriteTime, Goto, history
  <2>2. read[p] = time[n] /\ ~Halfway(p, n)
    BY <1>1, <1>2, <2>1 DEF OneAdds, Halfway
  <2>3. time[n] = added[scope[p]]
    BY <1>1, <1>2, <1>3, <1>4, <1>5, <2>2 DEF TableIsAdded
  <2>4. time'[n] = added[scope[p]] + 1 /\ Halfway(p, n)'
    BY <1>2, <2>1, <2>2, <2>3 DEF Halfway
  <2>5. OneAdds'
    BY <1>1, <1>2, <1>3, <2>1 DEF OneAdds, InAddData, SearchLabels, AddLabels, AddDataLabels
  <2>6. \A i \in Entries : i # n => time'[i] = time[i]
    BY <1>2, <2>1
  <2>7. \A q \in Processors, i \in Entries : i # n => ~Halfway(q, i) /\ ~Halfway(q, i)'
    BY <1>2, <1>5, <2>1 DEF Halfway
  <2>8. \A i \in Entries : key'[i] # Null =>
          /\ count'[i] = added'[key'[i]]
          /\ (\A q \in Processors : ~Halfway(q, i)') => time'[i] = added'[key'[i]]
          /\ \A q \in Processors : Halfway(q, i)' => time'[i] = added'[key'[i]] + 1
    BY <1>1, <1>3, <2>1, <2>4, <2>6, <2>7 DEF TableIsAdded
  <2>9. /\ \A i, j \in Entries : key'[i] = key'[j] /\ key'[i] # Null => i = j
        /\ \A l \in Locations : (\A i \in Entries : key'[i] # l) => added'[l] = 0
    BY <1>1, <2>1 DEF TableIsAdded
  <2> QED
    BY <2>5, <2>8, <2>9 DEF TableIsAdded
<1>7. CASE WriteCount(p)
  <2>1. /\ at[p] = "countWrite" /\ at' = [at EXCEPT ![p] = "out"]
        /\ count' = [count EXCEPT ![n] = read[p] + 1]
        /\ added' = [added EXCEPT ![scope[p]] = @ + 1]
        /\ UNCHANGED <<key, time>>
        /\ \A q \in Processors \ {p} :
             scope'[q] = scope[q] /\ index'[q] = index[q] /\ read'[q] = read[q]
    BY <1>2, <1>7 DEF WriteCount, Goto, Leave
  <2>2. read[p] = count[n] /\ Halfway(p, n)
    BY <1>1, <1>2, <2>1 DEF OneAdds, Halfway
  <2>3. count[n] = added[scope[p]] /\ time[n] = added[scope[p]] + 1
    BY <1>1, <1>2, <1>3, <1>4, <2>2 DEF TableIsAdded
  <2>4. count'[n] = added[scope[p]] + 1 /\ added'[scope[p]] = added[scope[p]] + 1
    BY <1>2, <2>1, <2>2, <2>3
  <2>5. OneAdds'
    BY <1>1, <1>2, <1>3, <2>1 DEF OneAdds, InAddData, SearchLabels, AddLabels, AddDataLabels
  <2>6. /\ \A i \in Entries : i # n => count'[i] = count[i]
        /\ \A l \in Locations : l # scope[p] => added'[l] = added[l]
    BY <1>2, <2>1
  <2>7. /\ \A q \in Processors, i \in Entries : ~Halfway(q, i)'
        /\ \A q \in Processors, i \in Entries : i # n => ~Halfway(q, i)
    BY <1>2, <1>5, <2>1 DEF Halfway, InAddData, AddDataLabels
  <2>8. \A i \in Entries : key'[i] # Null =>
          count'[i] = added'[key'[i]] /\ time'[i] = added'[key'[i]]
    <3> SUFFICES ASSUME NEW i \in Entries, key[i] # Null
                 PROVE  count'[i] = added'[key[i]] /\ time[i] = added'[key[i]]
      BY <2>1
    <3>1. CASE i = n
      BY <1>3, <2>3, <2>4, <3>1
    <3>2. CASE i # n
      <4>1. key[i] \in Locations /\ key[i] # scope[p]
        BY <1>2, <1>4, <3>2
      <4> QED
        BY <1>1, <2>6, <2>7, <3>2, <4>1 DEF TableIsAdded
    <3> QED
      BY <3>1, <3>2
  <2>9. /\ \A i, j \in Entries : key'[i] = key'[j] /\ key'[i] # Null => i = j
        /\ \A l \in Locations : (\A i \in Entries : key'[i] # l) => added'[l] = 0
    BY <1>1, <1>2, <1>3, <2>1, <2>6 DEF TableIsAdded
  <2> QED
    BY <2>5, <2>7, <2>8, <2>9 DEF TableIsAdded
<1> QED
  BY <1>6, <1>7

\* The table stays what was added as long as additions do not meet.
LEMMA SerialInductive ==
  ASSUME Control, Table, Serial, [Next]_vars
  PROVE  Serial'
<1>1. CASE UNCHANGED vars
  BY <1>1 DEF vars, perf, table, calls, history, Serial, OneAdds, TableIsAdded, Halfway, InAddData
<1>2. ASSUME NEW p \in Processors, VmmStep(p)
      PROVE  Serial'
  <2> SUFFICES ASSUME alone' PROVE OneAdds' /\ TableIsAdded'
    BY DEF Serial
  <2> QED
    BY <1>2, SearchSerial, ClaimSerial, AddSerial
<1> QED
  BY <1>1, <1>2, DriverSerial DEF Next

\* Without contention the report is exact, for any number of processors that take
\* turns.
THEOREM SerialAlwaysExact == Spec => []SerialIsExact
<1>1. ASSUME Control, Table, Serial
      PROVE  SerialIsExact
  <2> SUFFICES ASSUME alone, \A p \in Processors : ~InAddData(p), NEW l \in Locations
               PROVE  LET Mine == {i \in Entries : key[i] = l}
                      IN  /\ Cardinality(Mine) <= 1
                          /\ \A i \in Mine : count[i] = added[l] /\ time[i] = added[l]
                          /\ Mine = {} => added[l] = 0
    BY DEF SerialIsExact
  <2> DEFINE Mine == {i \in Entries : key[i] = l}
  <2>1. l # Null /\ TableIsAdded
    BY <1>1, NullAssumption DEF Serial
  <2>2. \A p \in Processors, i \in Entries : ~Halfway(p, i)
    BY DEF Halfway, InAddData, AddDataLabels
  <2>3. \A i \in Mine : count[i] = added[l] /\ time[i] = added[l]
    BY <2>1, <2>2 DEF TableIsAdded
  <2>4. Mine = {} => added[l] = 0
    BY <2>1 DEF TableIsAdded
  <2>5. Cardinality(Mine) <= 1
    <3>1. CASE Mine = {}
      BY <3>1, FS_EmptySet
    <3>2. CASE Mine # {}
      <4>1. PICK i \in Mine : TRUE
        BY <3>2
      <4>2. Mine = {i}
        BY <2>1, <4>1 DEF TableIsAdded
      <4> QED
        BY <4>2, FS_Singleton
    <3> QED
      BY <3>1, <3>2
  <2> QED
    BY <2>3, <2>4, <2>5
<1>2. Control /\ Table /\ Serial /\ [Next]_vars => (Control /\ Table /\ Serial)'
  BY ControlInductive, TableInductive, SerialInductive
<1> QED
  BY ControlInit, TableInit, SerialInit, <1>1, <1>2, PTL DEF Spec

-----------------------------------------------------------------------------
(* What is recorded                                                        *)

\* Each entry can be given a number of writes so that they are together the calls that
\* succeeded, no count is larger than its number, and neither is a count that a
\* processor has read and still has to raise.  The count alone would not do: a write
\* of an old value takes it back, and the next one may raise it by more than one.
CountsBackedBy(w) ==
  /\ SumOf(w, Entries) = SumOf(added, Locations)
  /\ \A i \in Entries : count[i] <= w[i]
  /\ \A p \in Processors : at[p] = "countWrite" => read[p] <= w[index[p]]

CountsBacked == \E w \in [Entries -> Nat] : CountsBackedBy(w)

\* The same for the times: v is how often each processor has written one, less than it
\* has measured while it still has to.
ToBeTimed == {"scope", "match", "empty", "claim", "time", "timeWrite"}

TimesBackedBy(w, v) ==
  /\ SumOf(w, Entries) = SumOf(v, Processors)
  /\ \A p \in Processors :
       v[p] <= measured[p] /\ (at[p] \in ToBeTimed => v[p] < measured[p])
  /\ \A i \in Entries : time[i] <= w[i]
  /\ \A p \in Processors : at[p] = "timeWrite" => read[p] <= w[index[p]]

TimesBacked == \E w \in [Entries -> Nat], v \in [Processors -> Nat] : TimesBackedBy(w, v)

Recorded == CountsBacked /\ TimesBacked

\* The sets that are summed over are finite.
LEMMA FiniteTables == IsFiniteSet(Entries) /\ IsFiniteSet(Locations) /\ IsFiniteSet(Processors)
  BY FS_Interval, EntriesAssumption, LocationsAssumption, ProcessorsAssumption DEF Entries

\* Nothing is recorded and nothing was added.
LEMMA RecordedInit == Init => Recorded
<1> SUFFICES ASSUME Init PROVE Recorded
  OBVIOUS
<1> DEFINE w == [i \in Entries |-> 0]
           v == [p \in Processors |-> 0]
<1>1. w \in [Entries -> Nat] /\ v \in [Processors -> Nat]
  OBVIOUS
<1>2. /\ added \in [Locations -> Nat] /\ \A l \in Locations : added[l] = 0
      /\ \A i \in Entries : count[i] = 0 /\ time[i] = 0
      /\ \A p \in Processors : at[p] = "out" /\ measured[p] = 0
  BY DEF Init, PerfInit, Zeros
<1>3. SumOf(w, Entries) = 0 /\ SumOf(v, Processors) = 0 /\ SumOf(added, Locations) = 0
  <2>1. (\A i \in Entries : w[i] = 0) /\ (\A p \in Processors : v[p] = 0)
    OBVIOUS
  <2> HIDE DEF w, v
  <2>2. QED
    BY <1>1, <1>2, <2>1, FiniteTables, SumOfZeros
<1>4. CountsBackedBy(w)
  BY <1>2, <1>3 DEF CountsBackedBy
<1>5. TimesBackedBy(w, v)
  BY <1>2, <1>3 DEF TimesBackedBy, ToBeTimed
<1> HIDE DEF w, v
<1>6. QED
  BY <1>1, <1>4, <1>5 DEF Recorded, CountsBacked, TimesBacked

\* Setting the collector up takes counts and times back to 0, while no call of AddData
\* is under way.
LEMMA DriverRecorded ==
  ASSUME Control, Recorded, DriverStep
  PROVE  Recorded'
<1>1. UNCHANGED <<calls, history>>
  BY DriverFrame
<1>2. \A i \in Entries : count'[i] <= count[i] /\ time'[i] <= time[i]
  <2>1. count \in [Entries -> Nat] /\ time \in [Entries -> Nat]
    BY DEF Control, TypeOK
  <2>2. CASE UNCHANGED table
    BY <2>1, <2>2 DEF table
  <2>3. CASE Initialize
    BY <2>1, <2>3 DEF Initialize, Zeros
  <2>4. QED
    BY <2>2, <2>3, DriverFrame DEF PerfInitialization, table
<1>3. PICK w \in [Entries -> Nat] : CountsBackedBy(w)
  BY DEF Recorded, CountsBacked
<1>4. PICK u \in [Entries -> Nat], v \in [Processors -> Nat] : TimesBackedBy(u, v)
  BY DEF Recorded, TimesBacked
<1>5. \A i \in Entries : /\ count[i] \in Nat /\ count'[i] \in Nat /\ w[i] \in Nat
                         /\ time[i] \in Nat /\ time'[i] \in Nat /\ u[i] \in Nat
  <2>1. TypeOK /\ TypeOK'
    BY ControlInductive DEF Control, Next
  <2>2. QED
    BY <2>1 DEF TypeOK
<1>6. CountsBackedBy(w)'
  BY <1>1, <1>2, <1>3, <1>5 DEF CountsBackedBy, calls, history
<1>7. TimesBackedBy(u, v)'
  BY <1>1, <1>2, <1>4, <1>5 DEF TimesBackedBy, calls, history
<1>8. QED
  BY <1>6, <1>7 DEF Recorded, CountsBacked, TimesBacked

\* An increment writes at most one more than the entry was written before.
LEMMA VmmCounts ==
  ASSUME Control, CountsBacked, NEW p \in Processors, VmmStep(p)
  PROVE  CountsBacked'
<1> DEFINE n == index[p]
<1>1. PICK w \in [Entries -> Nat] : CountsBackedBy(w)
  BY DEF CountsBacked
<1>2. /\ n \in Entries /\ w[n] \in Nat
      /\ at \in [Processors -> AddDataLabels \union {"out", "scope"}]
      /\ index \in [Processors -> Entries] /\ read \in [Processors -> Nat]
      /\ count \in [Entries -> Nat] /\ added \in [Locations -> Nat]
  BY DEF Control, TypeOK
<1>3. CASE WriteCount(p)
  <2> DEFINE l == scope[p]
  <2>a. PICK x : x = [w EXCEPT ![n] = w[n] + 1]
    OBVIOUS
  <2>1. /\ at[p] = "countWrite" /\ l \in Locations
        /\ at' = [at EXCEPT ![p] = "out"]
        /\ count' = [count EXCEPT ![n] = read[p] + 1]
        /\ added' = [added EXCEPT ![l] = added[l] + 1]
        /\ \A q \in Processors \ {p} : index'[q] = index[q] /\ read'[q] = read[q]
    BY <1>2, <1>3 DEF WriteCount, Goto, Leave, Control, OnlyVmmsMeasure
  <2>2. read[p] <= w[n] /\ read[p] \in Nat /\ added[l] \in Nat
    BY <1>1, <1>2, <2>1 DEF CountsBackedBy
  <2>3. x \in [Entries -> Nat] /\ \A i \in Entries : x[i] = IF i = n THEN w[n] + 1 ELSE w[i]
    BY <1>2, <2>a
  <2>4. SumOf(x, Entries) = SumOf(added', Locations)
    <3>1. SumOf(x, Entries) = SumOf(w, Entries) + 1
      <4>1. Increased(x, w, n, Entries)
        BY <1>2, <2>3 DEF Increased
      <4> HIDE DEF n
      <4>2. QED
        BY <1>2, <4>1, FiniteTables, SumIncrement
    <3>2. SumOf(added', Locations) = SumOf(added, Locations) + 1
      <4>1. Increased(added', added, l, Locations)
        BY <1>2, <2>1, <2>2 DEF Increased
      <4> HIDE DEF l
      <4>2. QED
        BY <1>2, <2>1, <4>1, FiniteTables, SumIncrement
    <3>3. QED
      BY <1>1, <3>1, <3>2 DEF CountsBackedBy
  <2>5. \A i \in Entries : count'[i] <= x[i]
    BY <1>1, <1>2, <2>1, <2>2, <2>3 DEF CountsBackedBy
  <2>6. \A q \in Processors : at'[q] = "countWrite" => read'[q] <= x[index'[q]]
    <3>1. ASSUME NEW q \in Processors, at'[q] = "countWrite" PROVE read'[q] <= x[index'[q]]
      <4>1. q # p /\ at[q] = "countWrite" /\ index'[q] = index[q] /\ read'[q] = read[q]
        BY <1>2, <2>1, <3>1
      <4>2. read[q] <= w[index[q]] /\ read[q] \in Nat /\ index[q] \in Entries
        BY <1>1, <1>2, <4>1 DEF CountsBackedBy
      <4>3. QED
        BY <1>2, <2>3, <4>1, <4>2
    <3>2. QED
      BY <3>1
  <2>7. CountsBackedBy(x)'
    BY <2>4, <2>5, <2>6 DEF CountsBackedBy
  <2>8. QED
    BY <2>3, <2>7 DEF CountsBacked
<1>4. CASE ~WriteCount(p)
  <2>1. UNCHANGED <<count, added>>
    BY <1>4 DEF VmmStep, Measure, EnterAddData, AddDataStep, MatchKey, TestEmpty, ClaimEntry,
                ReadTime, WriteTime, ReadCount, table, history
  <2>2. /\ \A q \in Processors \ {p} :
             at'[q] = at[q] /\ index'[q] = index[q] /\ read'[q] = read[q]
        /\ at'[p] = "countWrite" => index'[p] = n /\ read'[p] = count[n]
    BY <1>2, <1>4 DEF VmmStep, Measure, EnterAddData, AddDataStep, MatchKey, TestEmpty, ClaimEntry,
                ReadTime, WriteTime, ReadCount, Goto, Leave
  <2>3. CountsBackedBy(w)'
    BY <1>1, <1>2, <2>1, <2>2 DEF CountsBackedBy
  <2>4. QED
    BY <2>3 DEF CountsBacked
<1>5. QED
  BY <1>3, <1>4

\* So does the addition to the time, which comes before the call has succeeded: it is
\* the measurement that is counted.
LEMMA VmmTimes ==
  ASSUME Control, TimesBacked, NEW p \in Processors, VmmStep(p)
  PROVE  TimesBacked'
<1> DEFINE n == index[p]
<1>1. PICK w \in [Entries -> Nat], v \in [Processors -> Nat] : TimesBackedBy(w, v)
  BY DEF TimesBacked
<1>2. /\ n \in Entries /\ w[n] \in Nat /\ v[p] \in Nat
      /\ at \in [Processors -> AddDataLabels \union {"out", "scope"}]
      /\ index \in [Processors -> Entries] /\ read \in [Processors -> Nat]
      /\ time \in [Entries -> Nat] /\ measured \in [Processors -> Nat]
  BY DEF Control, TypeOK
<1>3. CASE WriteTime(p)
  <2>1. /\ at[p] = "timeWrite" /\ at' = [at EXCEPT ![p] = "count"]
        /\ time' = [time EXCEPT ![n] = read[p] + 1]
        /\ UNCHANGED <<index, read, measured>>
    BY <1>3 DEF WriteTime, Goto, history
  <2>2. read[p] <= w[n] /\ read[p] \in Nat /\ v[p] < measured[p]
    BY <1>1, <1>2, <2>1 DEF TimesBackedBy, ToBeTimed
  <2>3. PICK x : x = [w EXCEPT ![n] = w[n] + 1]
    OBVIOUS
  <2>4. x \in [Entries -> Nat] /\ \A i \in Entries : x[i] = IF i = n THEN w[n] + 1 ELSE w[i]
    BY <1>2, <2>3
  <2>5. PICK y : y = [v EXCEPT ![p] = v[p] + 1]
    OBVIOUS
  <2>6. y \in [Processors -> Nat]
        /\ \A q \in Processors : y[q] = IF q = p THEN v[p] + 1 ELSE v[q]
    BY <1>2, <2>5
  <2>7. SumOf(x, Entries) = SumOf(y, Processors)
    <3>1. SumOf(x, Entries) = SumOf(w, Entries) + 1
      <4>1. Increased(x, w, n, Entries)
        BY <1>2, <2>4 DEF Increased
      <4> HIDE DEF n
      <4>2. QED
        BY <1>2, <4>1, FiniteTables, SumIncrement
    <3>2. SumOf(y, Processors) = SumOf(v, Processors) + 1
      <4>1. Increased(y, v, p, Processors)
        BY <1>2, <2>6 DEF Increased
      <4>2. QED
        BY <4>1, FiniteTables, SumIncrement
    <3>3. QED
      BY <1>1, <3>1, <3>2 DEF TimesBackedBy
  <2>8. \A i \in Entries : time'[i] <= x[i]
    BY <1>1, <1>2, <2>1, <2>2, <2>4 DEF TimesBackedBy
  <2>9. \A q \in Processors :
          /\ y[q] <= measured'[q] /\ (at'[q] \in ToBeTimed => y[q] < measured'[q])
          /\ at'[q] = "timeWrite" => read'[q] <= x[index'[q]]
    <3>1. ASSUME NEW q \in Processors, q = p
          PROVE  /\ y[q] <= measured'[q] /\ at'[q] \notin ToBeTimed /\ at'[q] # "timeWrite"
      BY <1>2, <2>1, <2>2, <2>6, <3>1 DEF ToBeTimed
    <3>2. ASSUME NEW q \in Processors, q # p
          PROVE  /\ y[q] <= measured'[q] /\ (at'[q] \in ToBeTimed => y[q] < measured'[q])
                 /\ at'[q] = "timeWrite" => read'[q] <= x[index'[q]]
      <4>1. at'[q] = at[q] /\ index'[q] = index[q] /\ read'[q] = read[q] /\ measured'[q] = measured[q]
        BY <1>2, <2>1, <3>2
      <4>2. /\ v[q] <= measured[q] /\ (at[q] \in ToBeTimed => v[q] < measured[q])
            /\ at[q] = "timeWrite" => read[q] <= w[index[q]]
        BY <1>1 DEF TimesBackedBy
      <4>3. read[q] \in Nat /\ index[q] \in Entries /\ w[index[q]] \in Nat
        BY <1>2
      <4>4. y[q] = v[q] /\ w[index[q]] <= x[index[q]]
        BY <1>2, <2>4, <2>6, <3>2, <4>3
      <4>5. x[index[q]] \in Nat
        BY <2>4, <4>3
      <4>6. QED
        BY <4>1, <4>2, <4>3, <4>4, <4>5
    <3>3. QED
      BY <3>1, <3>2
  <2>10. TimesBackedBy(x, y)'
    BY <2>7, <2>8, <2>9 DEF TimesBackedBy
  <2>11. QED
    BY <2>4, <2>6, <2>10 DEF TimesBacked
<1>4. CASE ~WriteTime(p)
  <2>1. UNCHANGED time
    BY <1>4 DEF VmmStep, Measure, EnterAddData, AddDataStep, MatchKey, TestEmpty, ClaimEntry,
                ReadTime, ReadCount, WriteCount, table
  <2>2. /\ \A q \in Processors \ {p} :
             at'[q] = at[q] /\ index'[q] = index[q] /\ read'[q] = read[q]
             /\ measured'[q] = measured[q]
        /\ at'[p] = "timeWrite" => index'[p] = n /\ read'[p] = time[n]
    BY <1>2, <1>4 DEF VmmStep, Measure, EnterAddData, AddDataStep, MatchKey, TestEmpty, ClaimEntry,
                ReadTime, ReadCount, WriteCount, Goto, Leave, history
  <2>3. \/ measured'[p] = measured[p] + 1
        \/ measured'[p] = measured[p] /\ (at'[p] \in ToBeTimed => at[p] \in ToBeTimed)
    BY <1>2, <1>4 DEF VmmStep, Measure, EnterAddData, AddDataStep, MatchKey, TestEmpty, ClaimEntry,
                ReadTime, ReadCount, WriteCount, Goto, Leave, history, ToBeTimed
  <2>4. v[p] <= measured'[p] /\ (at'[p] \in ToBeTimed => v[p] < measured'[p])
    <3>1. v[p] <= measured[p] /\ (at[p] \in ToBeTimed => v[p] < measured[p])
      BY <1>1 DEF TimesBackedBy
    <3>2. measured[p] \in Nat
      BY <1>2
    <3>3. QED
      BY <1>2, <2>3, <3>1, <3>2
  <2>5. TimesBackedBy(w, v)'
    BY <1>1, <1>2, <2>1, <2>2, <2>4 DEF TimesBackedBy
  <2>6. QED
    BY <2>5 DEF TimesBacked
<1>5. QED
  BY <1>3, <1>4

\* Every step of the driver and of a processor keeps counts and times backed.
LEMMA RecordedInductive ==
  ASSUME Control, Recorded, [Next]_vars
  PROVE  Recorded'
<1>1. CASE UNCHANGED vars
  BY <1>1 DEF vars, perf, table, calls, history, Recorded, CountsBacked, CountsBackedBy,
              TimesBacked, TimesBackedBy
<1>2. QED
  BY <1>1, DriverRecorded, VmmCounts, VmmTimes DEF Next, Recorded

\* However additions meet and whichever of them are lost, the report never claims more
\* than there was: neither calls nor time.
THEOREM NeverMadeUp == Spec => []NothingMadeUp
<1>1. ASSUME Control, Recorded
      PROVE  NothingMadeUp
  <2>1. /\ count \in [Entries -> Nat] /\ time \in [Entries -> Nat]
        /\ added \in [Locations -> Nat] /\ measured \in [Processors -> Nat]
    BY <1>1 DEF Control, TypeOK
  <2>2. SumOf(count, Entries) <= SumOf(added, Locations)
    <3>1. PICK w \in [Entries -> Nat] : CountsBackedBy(w)
      BY <1>1 DEF Recorded, CountsBacked
    <3>2. \A i \in Entries : count[i] <= w[i]
      BY <3>1 DEF CountsBackedBy
    <3>3. SumOf(count, Entries) <= SumOf(w, Entries)
      BY <2>1, <3>2, FiniteTables, SumMonotone
    <3>4. QED
      BY <3>1, <3>3 DEF CountsBackedBy
  <2>3. SumOf(time, Entries) <= SumOf(measured, Processors)
    <3>1. PICK w \in [Entries -> Nat], v \in [Processors -> Nat] : TimesBackedBy(w, v)
      BY <1>1 DEF Recorded, TimesBacked
    <3>2. (\A i \in Entries : time[i] <= w[i]) /\ (\A p \in Processors : v[p] <= measured[p])
      BY <3>1 DEF TimesBackedBy
    <3>3. SumOf(time, Entries) <= SumOf(w, Entries)
      BY <2>1, <3>2, FiniteTables, SumMonotone
    <3>4. SumOf(v, Processors) <= SumOf(measured, Processors)
      BY <2>1, <3>2, FiniteTables, SumMonotone
    <3>5. /\ SumOf(time, Entries) \in Nat /\ SumOf(w, Entries) \in Nat
          /\ SumOf(v, Processors) \in Nat /\ SumOf(measured, Processors) \in Nat
      BY <2>1, FiniteTables, SumType
    <3>6. QED
      BY <3>1, <3>3, <3>4, <3>5 DEF TimesBackedBy
  <2>4. QED
    BY <2>2, <2>3 DEF NothingMadeUp, SumOf
<1>2. Control /\ Recorded /\ [Next]_vars => (Control /\ Recorded)'
  BY ControlInductive, RecordedInductive
<1>3. QED
  BY ControlInit, RecordedInit, <1>1, <1>2, PTL DEF Spec

-----------------------------------------------------------------------------
(* The global objects                                                      *)

\* The list has the destructors of the constructed objects whose atexit did not fail,
\* those of later objects first.
DestructorsListed ==
  /\ \A i, j \in 1 .. Len(dtors) : i < j => dtors[i] > dtors[j]
  /\ \A i \in 1 .. Len(dtors) : dtors[i] \in constructed \ orphans
  /\ \A c \in constructed \ orphans : \E i \in 1 .. Len(dtors) : dtors[i] = c
  /\ orphans \subseteq constructed
  /\ pc = "gone" => dtors = <<>>

ConstructedInOrder == pc = "globals" => constructed = 1 .. Cardinality(constructed)

Objects == DestructorsListed /\ ConstructedInOrder

LEMMA ObjectsInit == Init => Objects
<1> SUFFICES ASSUME Init PROVE Objects
  OBVIOUS
<1>1. Cardinality(constructed) = 0 /\ 1 .. 0 = {}
  BY FS_EmptySet DEF Init
<1> QED
  BY <1>1 DEF Init, Objects, DestructorsListed, ConstructedInOrder

\* A constructed object is put in front of all that were constructed before.
LEMMA ConstructorListed ==
  ASSUME Control, Objects, CallConstructor
  PROVE  Objects'
<1> DEFINE n == Cardinality(constructed)
           c == n + 1
<1>1. n \in Nat /\ dtors \in Seq(1 .. Constructors) /\ Constructors \in Nat
  <2>1. /\ IsFiniteSet(1 .. Constructors) /\ constructed \subseteq 1 .. Constructors
        /\ dtors \in Seq(1 .. Constructors) /\ Constructors \in Nat
    BY FS_Interval, ConstructorsAssumption DEF Control, TypeOK
  <2> QED
    BY <2>1, FS_Subset, FS_CardinalityType
<1>2. constructed = 1 .. n /\ pc' = "globals" /\ pc = "globals"
  BY DEF CallConstructor, Objects, ConstructedInOrder
<1>3. constructed' = 1 .. c /\ constructed' = constructed \union {c} /\ c \notin constructed
  BY <1>1, <1>2 DEF CallConstructor
<1>4. ConstructedInOrder'
  BY <1>1, <1>3, FS_Interval DEF ConstructedInOrder
<1>5. CASE UNCHANGED dtors /\ orphans' = orphans \union {c}
  <2>1. /\ constructed' \ orphans' = constructed \ orphans
        /\ orphans' \subseteq constructed' /\ dtors' = dtors /\ pc' # "gone"
    <3>1. orphans \subseteq constructed
      BY DEF Objects, DestructorsListed
    <3> HIDE DEF c
    <3>2. QED
      BY <1>2, <1>3, <1>5, <3>1
  <2>2. DestructorsListed'
    BY <2>1 DEF Objects, DestructorsListed
  <2>3. QED
    BY <1>4, <2>2 DEF Objects
<1>6. CASE dtors' = <<c>> \o dtors /\ UNCHANGED orphans
  <2>1. /\ Len(dtors') = Len(dtors) + 1 /\ dtors'[1] = c
        /\ \A i \in 1 .. Len(dtors) : dtors'[i + 1] = dtors[i]
        /\ Len(dtors) \in Nat
    BY <1>1, <1>6
  <2>2. \A i \in 1 .. Len(dtors') : i = 1 \/ (i - 1 \in 1 .. Len(dtors) /\ dtors'[i] = dtors[i - 1])
    BY <2>1
  <2>3. \A i \in 1 .. Len(dtors) : dtors[i] \in 1 .. n
    BY <1>2 DEF Objects, DestructorsListed
  <2>4. \A i, j \in 1 .. Len(dtors') : i < j => dtors'[i] > dtors'[j]
    <3> SUFFICES ASSUME NEW i \in 1 .. Len(dtors'), NEW j \in 1 .. Len(dtors'), i < j
                 PROVE  dtors'[i] > dtors'[j]
      OBVIOUS
    <3>1. j - 1 \in 1 .. Len(dtors) /\ dtors'[j] = dtors[j - 1]
      BY <2>1, <2>2
    <3>2. CASE i = 1
      <4>1. dtors'[j] \in 1 .. n
        BY <2>3, <3>1
      <4>2. dtors'[i] = n + 1
        BY <2>1, <3>2
      <4> QED
        BY <1>1, <4>1, <4>2
    <3>3. CASE i # 1
      <4>1. i - 1 \in 1 .. Len(dtors) /\ dtors'[i] = dtors[i - 1] /\ i - 1 < j - 1
        BY <2>1, <2>2, <3>3
      <4> QED
        BY <3>1, <4>1 DEF Objects, DestructorsListed
    <3> QED
      BY <3>2, <3>3
  <2>5. \A i \in 1 .. Len(dtors') : dtors'[i] \in constructed' \ orphans'
    BY <1>3, <1>6, <2>1, <2>2 DEF Objects, DestructorsListed
  <2>6. \A d \in constructed' \ orphans' : \E i \in 1 .. Len(dtors') : dtors'[i] = d
    <3> SUFFICES ASSUME NEW d \in constructed' \ orphans'
                 PROVE  \E i \in 1 .. Len(dtors') : dtors'[i] = d
      OBVIOUS
    <3>1. CASE d = c
      BY <2>1, <3>1
    <3>2. CASE d # c
      <4>1. PICK i \in 1 .. Len(dtors) : dtors[i] = d
        BY <1>3, <1>6, <3>2 DEF Objects, DestructorsListed
      <4>2. i + 1 \in 1 .. Len(dtors') /\ dtors'[i + 1] = d
        BY <2>1, <4>1
      <4> QED
        BY <4>2
    <3> QED
      BY <3>1, <3>2
  <2> QED
    BY <1>2, <1>3, <1>4, <1>6, <2>4, <2>5, <2>6 DEF Objects, DestructorsListed
<1> QED
  BY <1>5, <1>6 DEF CallConstructor, atexit

\* The object that was constructed last of those in the list is destroyed.
LEMMA DestructorListed ==
  ASSUME Control, Objects, CallDestructor
  PROVE  /\ Objects'
         /\ constructed \ constructed' = {Head(dtors)}
         /\ \A d \in constructed' : d > Head(dtors) => d \in orphans
<1>1. dtors \in Seq(1 .. Constructors) /\ dtors # <<>> /\ pc = "undoGlobals" /\ pc' = pc
  BY DEF Control, TypeOK, CallDestructor
<1>2. /\ Len(dtors') = Len(dtors) - 1 /\ Len(dtors) \in Nat \ {0}
      /\ \A i \in 1 .. Len(dtors') : dtors'[i] = dtors[i + 1]
      /\ Head(dtors) = dtors[1]
  BY <1>1, HeadTailProperties DEF CallDestructor
<1>3. constructed' = constructed \ {dtors[1]} /\ UNCHANGED orphans
  BY <1>2 DEF CallDestructor
<1>4. \A i \in 1 .. Len(dtors) : dtors[i] \in Nat /\ (i # 1 => dtors[1] > dtors[i])
  <2> TAKE i \in 1 .. Len(dtors)
  <2>1. dtors[i] \in 1 .. Constructors
    BY <1>1, ElementOfSeq
  <2>2. 1 \in 1 .. Len(dtors) /\ (i # 1 => 1 < i)
    BY <1>2
  <2> QED
    BY <2>1, <2>2, ConstructorsAssumption DEF Objects, DestructorsListed
<1>5. \A i \in 1 .. Len(dtors) : i # 1 => i - 1 \in 1 .. Len(dtors') /\ dtors'[i - 1] = dtors[i]
  BY <1>2
<1>6. \A i \in 1 .. Len(dtors') : i + 1 \in 1 .. Len(dtors) /\ i + 1 # 1
  BY <1>2
<1>7. \A i, j \in 1 .. Len(dtors') : i < j => dtors'[i] > dtors'[j]
  <2> SUFFICES ASSUME NEW i \in 1 .. Len(dtors'), NEW j \in 1 .. Len(dtors'), i < j
               PROVE  dtors'[i] > dtors'[j]
    OBVIOUS
  <2>1. i + 1 < j + 1 /\ i + 1 \in 1 .. Len(dtors) /\ j + 1 \in 1 .. Len(dtors)
    BY <1>6
  <2>2. dtors[i + 1] > dtors[j + 1]
    BY <2>1 DEF Objects, DestructorsListed
  <2> QED
    BY <1>2, <2>2
<1>8. \A i \in 1 .. Len(dtors') : dtors'[i] \in constructed' \ orphans'
  <2> TAKE i \in 1 .. Len(dtors')
  <2>1. dtors'[i] = dtors[i + 1] /\ dtors[i + 1] # dtors[1]
    BY <1>2, <1>4, <1>6
  <2> QED
    BY <1>3, <1>6, <2>1 DEF Objects, DestructorsListed
<1>9. \A c \in constructed' \ orphans' : \E i \in 1 .. Len(dtors') : dtors'[i] = c
  <2> SUFFICES ASSUME NEW c \in constructed' \ orphans'
               PROVE  \E i \in 1 .. Len(dtors') : dtors'[i] = c
    OBVIOUS
  <2>1. PICK i \in 1 .. Len(dtors) : dtors[i] = c
    BY <1>3 DEF Objects, DestructorsListed
  <2>2. i # 1
    BY <1>3, <2>1
  <2> QED
    BY <1>5, <2>1, <2>2
<1>10. orphans' \subseteq constructed'
  BY <1>2, <1>3 DEF Objects, DestructorsListed
<1>11. Objects'
  BY <1>1, <1>7, <1>8, <1>9, <1>10 DEF Objects, DestructorsListed, ConstructedInOrder
<1>12. constructed \ constructed' = {Head(dtors)}
  BY <1>2, <1>3 DEF Objects, DestructorsListed
<1>13. \A d \in constructed' : d > Head(dtors) => d \in orphans
  <2> SUFFICES ASSUME NEW d \in constructed', d > dtors[1], d \notin orphans
               PROVE  FALSE
    BY <1>2
  <2>1. PICK i \in 1 .. Len(dtors) : dtors[i] = d
    BY <1>3 DEF Objects, DestructorsListed
  <2> QED
    BY <1>2, <1>4, <2>1
<1> QED
  BY <1>11, <1>12, <1>13

\* No other step has to do with the objects.
LEMMA ObjectsFrame ==
  ASSUME [Next]_vars, ~CallConstructor, ~CallDestructor
  PROVE  /\ UNCHANGED globals
         /\ pc' = "globals" => pc = "globals"
         /\ pc' = "gone" => pc = "gone" \/ dtors = <<>>
<1>1. CASE DriverStep
  BY <1>1
  DEF DriverStep, GlobalVariablesInitialized, GlobalVariablesTerminated, PerfInitialization,
      PerfTermination, UtilInitializePageTableVariables, MmGetPhysicalMemoryRanges,
      UtilBuildPhysicalMemoryRanges, UtilTermination, CallbackInitialization,
      DriverUnload, PowerSuspend, PowerResume, VmHotplugCallback, VmInitialization, VmStartVm,
      VmInitializationReturns, VmStopVm, VmTerminationReturns, Unwind
<1>2. CASE \E p \in Processors : VmmStep(p)
  BY <1>2, VmmFrame
<1>3. CASE UNCHANGED vars
  BY <1>3 DEF vars
<1> QED
  BY <1>1, <1>2, <1>3 DEF Next

LEMMA ObjectsInductive ==
  ASSUME Control, Objects, [Next]_vars
  PROVE  Objects'
<1>1. CASE ~CallConstructor /\ ~CallDestructor
  BY <1>1, ObjectsFrame DEF Objects, DestructorsListed, ConstructedInOrder, globals
<1> QED
  BY <1>1, ConstructorListed, DestructorListed

\* Whatever failed on the way up, DriverUnload or the failing DriverEntry leaves
\* nothing but the objects without a destructor.
THEOREM NothingIsLeft == Spec => []NothingLeft
<1>1. ASSUME Control, Objects, pc = "gone"
      PROVE  /\ ~collector /\ ranges = Null
             /\ descriptor # Null => freed
             /\ constructed = orphans
  <2>1. ~collector /\ ranges = Null /\ ~(descriptor # Null /\ ~freed)
    BY <1>1 DEF Control, ServicesUp, CollectorLabels, MemoryLabels, VmmLabels
  <2>2. constructed \subseteq orphans
    BY <1>1 DEF Objects, DestructorsListed
  <2>3. orphans \subseteq constructed
    BY <1>1 DEF Objects, DestructorsListed
  <2> QED
    BY <2>1, <2>2, <2>3
<1>2. Control /\ Objects /\ [Next]_vars => (Control /\ Objects)'
  BY ControlInductive, ObjectsInductive
<1>3. Control /\ Objects => NothingLeft
  BY <1>1 DEF NothingLeft
<1> QED
  BY ControlInit, ObjectsInit, <1>2, <1>3, PTL DEF Spec

\* Objects are destroyed in the reverse order of their construction, when the collector
\* and every VMM that VmTermination reaches are gone.
THEOREM AlwaysDestroyedInReverse == Spec => DestroyedInReverse
<1> DEFINE Step == \A c \in constructed \ constructed' :
                     /\ ~collector /\ \A p \in vmm : Behind(p)
                     /\ \A d \in constructed' : d > c => d \in orphans
<1>1. ASSUME Control, Objects, [Next]_vars
      PROVE  [Step]_vars
  <2>1. CASE CallDestructor
    <3>1. ~collector /\ \A p \in vmm : Behind(p)
      BY <1>1, <2>1
      DEF CallDestructor, Control, Reached, VmmsLeft, LateLabels, ServicesUp, CollectorLabels,
          VmmLabels
    <3> QED
      BY <1>1, <2>1, <3>1, DestructorListed
  <2>2. CASE CallConstructor
    BY <2>2 DEF CallConstructor
  <2>3. CASE ~CallConstructor /\ ~CallDestructor
    BY <1>1, <2>3, ObjectsFrame DEF globals
  <2> QED
    BY <2>1, <2>2, <2>3
<1>2. Control /\ Objects /\ [Next]_vars => (Control /\ Objects)'
  BY ControlInductive, ObjectsInductive
<1> QED
  BY ControlInit, ObjectsInit, <1>1, <1>2, PTL DEF Spec, DestroyedInReverse

-----------------------------------------------------------------------------
(* The description of memory                                               *)

\* The pages of a run, and those of the runs of the ranges in s.
RunPages(array, i) ==
  UtilPfnFromPa(array[i].base) ..
    UtilPfnFromPa(array[i].base) + BytesToPages(array[i].bytes) - 1

PagesOfRuns(array, s) == UNION {RunPages(array, i) : i \in s}

\* Where a range begins and ends among the pages: BYTES_TO_PAGES is the least number
\* of pages that holds the bytes.
LEMMA RangeInPages ==
  ASSUME NEW base \in Nat, NEW bytes \in Nat \ {0}, base % PageSize = 0
  PROVE  /\ UtilPfnFromPa(base) \in Nat /\ BytesToPages(bytes) \in Nat \ {0}
         /\ base = PageSize * UtilPfnFromPa(base)
         /\ base + bytes <= PageSize * (UtilPfnFromPa(base) + BytesToPages(bytes))
         /\ PageSize * (UtilPfnFromPa(base) + BytesToPages(bytes) - 1) < base + bytes
<1>1. PageSize \in Nat \ {0}
  BY PageAssumption
<1>2. PICK b \in Nat, x \in 0 .. PageSize - 1 :
        b = base \div PageSize /\ x = base % PageSize /\ base = PageSize * b + x
  BY <1>1, DivMod
<1>3. bytes + PageSize - 1 \in Nat
  BY <1>1
<1>4. PICK c \in Nat, y \in 0 .. PageSize - 1 :
        /\ c = (bytes + PageSize - 1) \div PageSize
        /\ bytes + PageSize - 1 = PageSize * c + y
  BY <1>1, <1>3, DivMod
<1>5. UtilPfnFromPa(base) = b /\ BytesToPages(bytes) = c
  BY <1>2, <1>4 DEF UtilPfnFromPa, BytesToPages
<1>6. base = PageSize * b
  BY <1>1, <1>2
<1>7. bytes <= PageSize * c /\ PageSize * c < bytes + PageSize
  <2>1. PageSize * c \in Int
    BY <1>1
  <2>2. QED
    BY <1>1, <1>4, <2>1
<1>8. c # 0
  BY <1>1, <1>7
<1>9. /\ PageSize * (b + c) = PageSize * b + PageSize * c
      /\ PageSize * (b + c - 1) = PageSize * b + PageSize * c - PageSize
  BY <1>1
<1>10. PageSize * b \in Int /\ PageSize * c \in Int
  BY <1>1
<1>11. QED
  BY <1>1, <1>5, <1>6, <1>7, <1>8, <1>9, <1>10

\* A run has the pages that hold an address of its range.
LEMMA RunHasPages ==
  ASSUME NEW base \in Nat, NEW bytes \in Nat \ {0}, base % PageSize = 0
  PROVE  {a \div PageSize : a \in base .. base + bytes - 1}
           = UtilPfnFromPa(base) .. UtilPfnFromPa(base) + BytesToPages(bytes) - 1
<1> DEFINE b == UtilPfnFromPa(base)
           c == BytesToPages(bytes)
<1>1. PageSize \in Nat \ {0}
  BY PageAssumption
<1>2. /\ b \in Nat /\ c \in Nat /\ base = PageSize * b
      /\ base + bytes <= PageSize * (b + c) /\ PageSize * (b + c - 1) < base + bytes
  BY RangeInPages
<1> HIDE DEF b, c
<1>3. ASSUME NEW a \in base .. base + bytes - 1 PROVE a \div PageSize \in b .. b + c - 1
  <2>1. PICK q \in Nat, r \in 0 .. PageSize - 1 :
          q = a \div PageSize /\ a = PageSize * q + r
    BY <1>1, DivMod
  <2>2. PageSize * (q + 1) = PageSize * q + PageSize /\ PageSize * q \in Int
    BY <1>1, <2>1
  <2>3. PageSize * b < PageSize * (q + 1)
    BY <1>1, <1>2, <2>1, <2>2
  <2>4. PageSize * q < PageSize * (b + c)
    BY <1>1, <1>2, <2>1, <2>2
  <2>5. b < q + 1 /\ q < b + c
    BY <1>1, <1>2, <2>1, <2>3, <2>4, TimesKeepsOrder
  <2>6. QED
    BY <1>2, <2>1, <2>5
<1>4. ASSUME NEW q \in b .. b + c - 1
      PROVE  \E a \in base .. base + bytes - 1 : q = a \div PageSize
  <2>1. q \in Nat /\ PageSize * q \in Nat
    BY <1>1, <1>2
  <2>2. PageSize * b <= PageSize * q
    <3>1. ~(q < b)
      BY <1>2
    <3>2. ~(PageSize * q < PageSize * b)
      BY <1>1, <1>2, <2>1, <3>1, TimesKeepsOrder
    <3>3. QED
      BY <1>1, <1>2, <2>1, <3>2
  <2>3. PageSize * q < base + bytes
    <3>1. ~(b + c - 1 < q) /\ b + c - 1 \in Int
      BY <1>2
    <3>2. ~(PageSize * (b + c - 1) < PageSize * q)
      BY <1>1, <2>1, <3>1, TimesKeepsOrder
    <3>3. PageSize * (b + c - 1) \in Int
      BY <1>1, <3>1
    <3>4. QED
      BY <1>1, <1>2, <2>1, <3>2, <3>3
  <2>4. q = (PageSize * q) \div PageSize
    <3>1. PICK z \in Nat, r \in 0 .. PageSize - 1 :
            z = (PageSize * q) \div PageSize /\ PageSize * q = PageSize * z + r
      BY <1>1, <2>1, DivMod
    <3>2. PageSize * q + 0 = PageSize * z + r /\ 0 \in 0 .. PageSize - 1
      BY <1>1, <2>1, <3>1
    <3>3. q = z
      BY <1>1, <2>1, <3>2, DivUnique
    <3>4. QED
      BY <3>1, <3>3
  <2>5. PageSize * q \in base .. base + bytes - 1
    BY <1>2, <2>1, <2>2, <2>3
  <2>6. QED
    BY <2>4, <2>5
<1>5. QED
  BY <1>3, <1>4 DEF b, c

\* What is assumed of the ranges, and the number of pages of each run.
LEMMA RangeFacts ==
  ASSUME NEW array \in Memories
  PROVE  /\ Len(array) \in Nat /\ DOMAIN array = 1 .. Len(array)
         /\ IsFiniteSet(DOMAIN array)
         /\ \A i \in DOMAIN array :
              /\ array[i].base \in Nat /\ array[i].bytes \in Nat \ {0}
              /\ array[i].base % PageSize = 0
         /\ PageCounts(array) \in [DOMAIN array -> Nat]
<1>1. array \in Seq([base : Nat, bytes : Nat \ {0}])
  BY MemoriesAssumption DEF MemoriesAssumption
<1>2. Len(array) \in Nat /\ DOMAIN array = 1 .. Len(array)
  BY <1>1
<1>3. \A i \in DOMAIN array : array[i] \in [base : Nat, bytes : Nat \ {0}]
  <2> DEFINE R == [base : Nat, bytes : Nat \ {0}]
  <2>1. array \in Seq(R)
    BY <1>1
  <2> HIDE DEF R
  <2>2. \A i \in 1 .. Len(array) : array[i] \in R
    BY <2>1
  <2>3. QED
    BY <1>2, <2>2 DEF R
<1>4. \A i \in DOMAIN array : array[i].base % PageSize = 0
  BY MemoriesAssumption DEF MemoriesAssumption
<1>5. IsFiniteSet(DOMAIN array)
  BY <1>2, FS_Interval
<1>6. ASSUME NEW i \in DOMAIN array PROVE BytesToPages(array[i].bytes) \in Nat
  BY <1>3, <1>4, RangeInPages
<1>7. PageCounts(array) \in [DOMAIN array -> Nat]
  BY <1>6 DEF PageCounts
<1>8. QED
  BY <1>2, <1>3, <1>4, <1>5, <1>7

\* No page is in two runs, and every run has as many pages as are counted for it.
LEMMA RunsApart ==
  ASSUME NEW array \in Memories, NEW i \in DOMAIN array
  PROVE  /\ IsFiniteSet(RunPages(array, i)) /\ RunPages(array, i) # {}
         /\ Cardinality(RunPages(array, i)) = PageCounts(array)[i]
         /\ \A j \in DOMAIN array :
              j # i => RunPages(array, i) \intersect RunPages(array, j) = {}
<1> DEFINE b(j) == UtilPfnFromPa(array[j].base)
           c(j) == BytesToPages(array[j].bytes)
<1>1. PageSize \in Nat \ {0}
  BY PageAssumption
<1>2. ASSUME NEW j \in DOMAIN array
      PROVE  /\ b(j) \in Nat /\ c(j) \in Nat \ {0}
             /\ array[j].base = PageSize * b(j)
             /\ PageSize * (b(j) + c(j) - 1) < array[j].base + array[j].bytes
             /\ array[j].base + array[j].bytes \in Nat
  <2>1. array[j].base \in Nat /\ array[j].bytes \in Nat \ {0} /\ array[j].base % PageSize = 0
    BY RangeFacts
  <2>2. QED
    BY <2>1, RangeInPages
<1>3. ASSUME NEW j \in DOMAIN array, NEW k \in DOMAIN array,
             array[j].base + array[j].bytes <= array[k].base
      PROVE  b(j) + c(j) - 1 < b(k)
  <2> DEFINE u == b(j) + c(j) - 1
             v == b(k)
  <2>1. u \in Int /\ v \in Int
    BY <1>2
  <2>2. PageSize * u < PageSize * v
    <3>1. PageSize * u < array[j].base + array[j].bytes /\ array[k].base = PageSize * v
      BY <1>2
    <3>2. PageSize * u \in Int /\ PageSize * v \in Int
      BY <1>1, <2>1
    <3>3. array[j].base + array[j].bytes \in Nat
      BY <1>2
    <3> HIDE DEF u, v
    <3>4. QED
      BY <1>3, <3>1, <3>2, <3>3
  <2> HIDE DEF u, v
  <2>3. u < v
    BY <1>1, <2>1, <2>2, TimesKeepsOrder
  <2>4. QED
    BY <2>3 DEF u, v
<1>4. ASSUME NEW j \in DOMAIN array, j # i
      PROVE  RunPages(array, i) \intersect RunPages(array, j) = {}
  <2>1. \/ array[i].base + array[i].bytes <= array[j].base
        \/ array[j].base + array[j].bytes <= array[i].base
    BY <1>4, MemoriesAssumption DEF MemoriesAssumption
  <2>2. b(i) + c(i) - 1 < b(j) \/ b(j) + c(j) - 1 < b(i)
    BY <1>3, <2>1
  <2>3. b(i) \in Nat /\ c(i) \in Nat /\ b(j) \in Nat /\ c(j) \in Nat
    BY <1>2
  <2> HIDE DEF b, c
  <2>4. (b(i) .. b(i) + c(i) - 1) \intersect (b(j) .. b(j) + c(j) - 1) = {}
    BY <2>2, <2>3
  <2>5. QED
    BY <2>4 DEF RunPages, b, c
<1>5. b(i) \in Nat /\ c(i) \in Nat \ {0}
  BY <1>2
<1>6. /\ IsFiniteSet(b(i) .. b(i) + c(i) - 1)
      /\ Cardinality(b(i) .. b(i) + c(i) - 1) = c(i)
      /\ b(i) .. b(i) + c(i) - 1 # {}
  <2> HIDE DEF b, c
  <2>1. /\ b(i) + c(i) - 1 \in Int /\ ~(b(i) > b(i) + c(i) - 1)
        /\ (b(i) + c(i) - 1) - b(i) + 1 = c(i)
        /\ b(i) \in b(i) .. b(i) + c(i) - 1
    BY <1>5
  <2> DEFINE d == b(i)
             e == b(i) + c(i) - 1
  <2>2. /\ IsFiniteSet(d .. e)
        /\ Cardinality(d .. e) = IF d > e THEN 0 ELSE e - d + 1
    <3>1. d \in Int /\ e \in Int
      BY <1>5, <2>1
    <3> HIDE DEF d, e
    <3>2. QED
      BY <3>1, FS_Interval
  <2>3. QED
    BY <2>1, <2>2
<1>7. PageCounts(array)[i] = c(i)
  BY DEF PageCounts
<1>8. QED
  BY <1>4, <1>6, <1>7 DEF RunPages

\* So the pages of the runs are as many as the counts together.
LEMMA PagesCounted ==
  ASSUME NEW array \in Memories
  PROVE  Cardinality(PagesOfRuns(array, DOMAIN array)) = SumOf(PageCounts(array), DOMAIN array)
<1> DEFINE D == DOMAIN array
           f == PageCounts(array)
           P(s) == PagesOfRuns(array, s)
<1>1. IsFiniteSet(D) /\ f \in [D -> Nat]
  BY RangeFacts
<1>2. PICK h : AreSums(h, f, D) /\ SumOf(f, D) = h[D]
  <2> HIDE DEF D, f
  <2>1. QED
    BY <1>1, SumUnfold
<1> DEFINE T == {s \in SUBSET D : IsFiniteSet(P(s)) /\ Cardinality(P(s)) = h[s]}
<1>3. {} \in T
  <2>1. P({}) = {}
    BY DEF PagesOfRuns
  <2>2. h[{}] = 0
    BY <1>2 DEF AreSums
  <2>3. QED
    BY <2>1, <2>2, FS_EmptySet
<1>4. ASSUME NEW s \in SUBSET D, s # {}, s \ {Pick(s)} \in T PROVE s \in T
  <2> DEFINE y == Pick(s)
             r == s \ {y}
             new == RunPages(array, y)
  <2>1. h[s] = f[y] + h[r] /\ h[r] \in Nat /\ y \in s /\ y \in D
    <3> HIDE DEF T, D, f, P
    <3>1. QED
      BY <1>2, <1>4 DEF AreSums
  <2>2. IsFiniteSet(new) /\ Cardinality(new) = f[y]
    BY <2>1, RunsApart
  <2>3. IsFiniteSet(P(r)) /\ Cardinality(P(r)) = h[r]
    BY <1>4
  <2>4. P(s) = P(r) \union new
    BY <2>1 DEF PagesOfRuns
  <2>5. P(r) \intersect new = {}
    <3>1. ASSUME NEW a \in P(r) PROVE a \notin new
      <4>1. PICK i \in r : a \in RunPages(array, i)
        BY DEF PagesOfRuns
      <4>2. RunPages(array, y) \intersect RunPages(array, i) = {}
        BY <2>1, <4>1, RunsApart
      <4>3. QED
        BY <4>1, <4>2
    <3>2. QED
      BY <3>1
  <2>6. Cardinality(P(r) \intersect new) = 0
    BY <2>5, FS_EmptySet
  <2>7. f[y] \in Nat
    BY <1>1, <2>1
  <2> HIDE DEF P, new, f, D, T, r, y
  <2>8. IsFiniteSet(P(s)) /\ Cardinality(P(s)) = h[r] + f[y] - 0
    BY <2>2, <2>3, <2>4, <2>6, FS_Union
  <2>9. Cardinality(P(s)) = h[s]
    BY <2>1, <2>7, <2>8
  <2>10. QED
    BY <2>8, <2>9 DEF T
<1> HIDE DEF T
<1>5. D \in T
  <2> HIDE DEF D
  <2>1. QED
    BY <1>1, <1>3, <1>4, SubsetInduction
<1>6. QED
  BY <1>2, <1>5 DEF T

\* Each range is a run of its own.
LEMMA RunsCounted ==
  ASSUME NEW array \in Memories
  PROVE  LET Run == Descriptor(array).Run
         IN  Cardinality({Run[i] : i \in DOMAIN Run}) = Len(array)
<1> DEFINE D == DOMAIN array
           Run == Descriptor(array).Run
           R == {Run[i] : i \in D}
           g == [i \in D |-> Run[i]]
<1>1. DOMAIN Run = D
  BY DEF Descriptor
<1>2. IsFiniteSet(D) /\ Cardinality(D) = Len(array)
  <2>1. Len(array) \in Nat /\ D = 1 .. Len(array)
    BY RangeFacts
  <2>2. IsFiniteSet(D) /\ Cardinality(D) = IF 1 > Len(array) THEN 0 ELSE Len(array) - 1 + 1
    <3> HIDE DEF D
    <3>1. QED
      BY <2>1, FS_Interval
  <2>3. QED
    BY <2>1, <2>2
<1>3. ASSUME NEW i \in D, NEW j \in D, Run[i] = Run[j] PROVE i = j
  <2>1. \A k \in D : RunPages(array, k) = Run[k].BasePage .. Run[k].BasePage + Run[k].PageCount - 1
    BY DEF Descriptor, RunPages, PageCounts
  <2> HIDE DEF Run
  <2>2. RunPages(array, i) = RunPages(array, j)
    BY <1>3, <2>1
  <2>3. QED
    BY <2>2, RunsApart
<1> HIDE DEF Run, D
<1>4. g \in Surjection(D, R) /\ g \in Injection(D, R)
  BY <1>3 DEF Surjection, Injection, IsInjective
<1>5. Cardinality(R) = Cardinality(D)
  <2> HIDE DEF g, R
  <2>1. QED
    BY <1>2, <1>4, FS_Surjection
<1>6. QED
  BY <1>1, <1>2, <1>5 DEF Run

\* What DescribesMemory says of one array and the description made of it.
Describes(d, array) ==
  LET pages(r) == r.BasePage .. r.BasePage + r.PageCount - 1
      runs     == {d.Run[i] : i \in DOMAIN d.Run}
  IN  /\ UNION {pages(r) : r \in runs} = PagesOf(array)
      /\ d.NumberOfPages = Cardinality(PagesOf(array))
      /\ d.NumberOfRuns = Cardinality(runs)

\* The descriptor made of an array of ranges has what DescribesMemory asks of it.
LEMMA DescriptorDescribes ==
  ASSUME NEW array \in Memories
  PROVE  Describes(Descriptor(array), array)
<1> DEFINE D == DOMAIN array
           Run == Descriptor(array).Run
<1>1. /\ DOMAIN Run = D
      /\ \A i \in D : RunPages(array, i) = Run[i].BasePage .. Run[i].BasePage + Run[i].PageCount - 1
  BY DEF Descriptor, RunPages, PageCounts
<1>2. PagesOf(array) = PagesOfRuns(array, D)
  <2>1. ASSUME NEW i \in D
        PROVE  {a \div PageSize : a \in array[i].base .. array[i].base + array[i].bytes - 1}
                 = RunPages(array, i)
    <3>1. array[i].base \in Nat /\ array[i].bytes \in Nat \ {0} /\ array[i].base % PageSize = 0
      BY RangeFacts
    <3>2. QED
      BY <3>1, RunHasPages DEF RunPages
  <2>2. QED
    BY <2>1 DEF PagesOf, PagesOfRuns
<1>3. Descriptor(array).NumberOfPages = SumOf(PageCounts(array), D)
  BY DEF Descriptor, SumOf
<1>4. Descriptor(array).NumberOfRuns = Len(array)
  BY DEF Descriptor
<1>5. Cardinality(PagesOf(array)) = SumOf(PageCounts(array), D)
  BY <1>2, PagesCounted
<1>6. Cardinality({Run[i] : i \in DOMAIN Run}) = Len(array)
  BY RunsCounted
<1> HIDE DEF Run, D
<1>7. UNION {r.BasePage .. r.BasePage + r.PageCount - 1 : r \in {Run[i] : i \in DOMAIN Run}}
        = PagesOfRuns(array, D)
  <2> DEFINE P(r) == r.BasePage .. r.BasePage + r.PageCount - 1
  <2>1. \A i \in D : RunPages(array, i) = P(Run[i])
    BY <1>1
  <2> HIDE DEF P
  <2>2. UNION {P(r) : r \in {Run[i] : i \in DOMAIN Run}} = UNION {RunPages(array, i) : i \in D}
    BY <1>1, <2>1
  <2>3. QED
    BY <2>2 DEF PagesOfRuns, P
<1>8. QED
  BY <1>2, <1>3, <1>4, <1>5, <1>6, <1>7 DEF Describes, Run

\* The description made of the ranges has all their pages, each once.
THEOREM AlwaysDescribesMemory == Spec => DescribesMemory
<1>1. ASSUME Control, [Next]_vars
      PROVE  [descriptor' # descriptor => Describes(descriptor', ranges)]_vars
  <2>1. CASE UtilBuildPhysicalMemoryRanges
    <3>1. pc = "build" /\ ranges \in Memories
      BY <1>1, <2>1 DEF UtilBuildPhysicalMemoryRanges, Control, ServicesUp
    <3>2. descriptor' # descriptor => descriptor' = Descriptor(ranges)
      BY <2>1 DEF UtilBuildPhysicalMemoryRanges
    <3>3. Describes(Descriptor(ranges), ranges)
      BY <3>1, DescriptorDescribes
    <3>4. QED
      BY <3>2, <3>3
  <2>2. CASE ~UtilBuildPhysicalMemoryRanges
    <3>1. [descriptor' = descriptor]_vars
      <4>1. CASE DriverStep
        BY <2>2, <4>1
        DEF DriverStep, CallConstructor, GlobalVariablesInitialized, CallDestructor,
            GlobalVariablesTerminated, PerfInitialization, PerfTermination,
            UtilInitializePageTableVariables, MmGetPhysicalMemoryRanges, UtilTermination,
            CallbackInitialization,
            DriverUnload, PowerSuspend, PowerResume, VmHotplugCallback, VmInitialization, VmStartVm,
            VmInitializationReturns, VmStopVm, VmTerminationReturns, memory
      <4>2. CASE \E p \in Processors : VmmStep(p)
        BY <4>2, VmmFrame DEF memory
      <4>3. QED
        BY <1>1, <4>1, <4>2 DEF Next
    <3>2. QED
      BY <3>1
  <2>3. QED
    BY <2>1, <2>2
<1>2. Control /\ [Next]_vars => Control'
  BY ControlInductive
<1>3. QED
  BY ControlInit, <1>1, <1>2, PTL DEF Spec, DescribesMemory, Describes
=============================================================================
