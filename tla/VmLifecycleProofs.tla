------------------------- MODULE VmLifecycleProofs -------------------------
(***************************************************************************)
(* The reference count of the shared data is exact and VMXON excludes two  *)
(* starts of one processor, for any number of processors, shared blocks    *)
(* and power events, however the three threads interleave; the rest needs  *)
(* that they are run one at a time.                                        *)
(***************************************************************************)
EXTENDS VmLifecycle, FiniteSetTheorems, TLAPS

\* Everything has its type, except that a count may be any integer: that it is
\* never negative follows from RefCountExact only.
Types ==
  /\ active \in 1 .. MaxProcessors
  /\ mode \in [Procs -> {"off", "root", "guest"}]
  /\ vmxe \in [Procs -> BOOLEAN]
  /\ vmm \in [Procs -> SharedIds \union {None}]
  /\ heap \in [SharedIds -> {"none", "live", "freed"}]
  /\ refs \in [SharedIds -> Int]
  /\ pc \in [Threads -> Labels]
  /\ job \in [Threads -> {"none", "start", "rollback", "stop", "plug"}]
  /\ idx \in [Threads -> Procs]
  /\ cnt \in [Threads -> 0 .. MaxProcessors]
  /\ sd \in [Threads -> SharedIds \union {None}]
  /\ data \in [Threads -> SharedIds \union {None}]
  /\ ok \in [Threads -> BOOLEAN]
  /\ up \in 0 .. HotplugUp
  /\ asleep \in BOOLEAN
  /\ events \in 0 .. MaxPowerEvents

\* DriverEntry is not done while a component is missing.
EntryUp == pc["driver"] = "entry" => up < HotplugUp

\* A processor has a VMM's PROCESSOR_DATA exactly while it runs as a guest.
OwnedWhenGuest == \A p \in Procs : vmm[p] # None <=> mode[p] = "guest"

\* Points at which the thread holds a PROCESSOR_DATA.
DataLabels == RootLabels \union {"regions", "vmxon", "free", "clear"}

HeldAtDataLabels == \A t \in Threads : data[t] # None <=> pc[t] \in DataLabels

\* A start has a SharedData pointer to start with.
StartHasShared ==
  \A t \in Threads :
    /\ job[t] \in {"start", "plug"} => sd[t] # None
    /\ pc[t] = "alloc" => job[t] \in {"start", "plug"}

\* A block nobody has allocated yet has no count and no holder.
FreshUnused ==
  \A s \in SharedIds : heap[s] = "none" =>
    /\ \A p \in Procs : vmm[p] # s
    /\ \A t \in Threads : data[t] # s /\ sd[t] # s

Control == Types /\ EntryUp /\ OwnedWhenGuest /\ HeldAtDataLabels /\ StartHasShared /\ FreshUnused

IInv == Control /\ VmxMutex /\ RefCountExact

-----------------------------------------------------------------------------
\* Every step keeps the types.
LEMMA TypesInductive ==
  ASSUME Control, [Next]_vars
  PROVE  Types'
<1> USE DEF Control, Types, Labels, machine, memory, frame, system
<1>a. /\ "driver" \in Threads /\ "power" \in Threads /\ "hotplug" \in Threads
      /\ Active \subseteq Procs
      /\ 0 \in Procs
      /\ \A p \in 0 .. MaxProcessors : p < MaxProcessors => p \in Procs
      /\ \A p \in Procs : p \in Nat /\ p + 1 \in 0 .. MaxProcessors
      /\ 0 \in 0 .. MaxProcessors
      /\ active \in 0 .. MaxProcessors
      /\ HotplugUp = 6 /\ PowerUp = 5
  BY ProcessorsAssumption DEF Threads, Procs, Active, HotplugUp, PowerUp
<1>1. CASE DriverEntryInitializes
  BY <1>a, <1>1 DEF DriverEntryInitializes, Goto, HotplugUp, EntryUp
<1>2. CASE DriverEntryFails
  BY <1>a, <1>2 DEF DriverEntryFails, Goto
<1>3. CASE DriverUnload
  BY <1>a, <1>3 DEF DriverUnload, Goto
<1>4. CASE DriverTerminates
  BY <1>a, <1>4 DEF DriverTerminates, Goto, HotplugUp
<1>5. CASE DriverGone
  BY <1>a, <1>5 DEF DriverGone, Goto
<1>6. CASE PowerSuspend
  BY <1>a, <1>6, EnvironmentAssumption DEF PowerSuspend, Goto
<1>7. CASE PowerResume
  <2>1. events' \in 0 .. MaxPowerEvents
    BY <1>a, <1>7, EnvironmentAssumption DEF PowerResume
  <2>2. pc' \in [Threads -> Labels]
    BY <1>a, <1>7 DEF PowerResume, Goto
  <2>3. QED
    BY <1>a, <1>7, <2>1, <2>2 DEF PowerResume
<1>8. CASE AddProcessor
  BY <1>a, <1>8 DEF AddProcessor, Goto, HotplugUp
<1>9. CASE VmHotplugCallback
  <2> PICK q \in Active :
         \/ /\ mode[q] = "guest"
            /\ Goto("hotplug", "alloc")
            /\ job' = [job EXCEPT !["hotplug"] = "plug"]
            /\ sd'  = [sd EXCEPT !["hotplug"] = vmm[q]]
            /\ UNCHANGED <<idx, cnt, data, ok>>
         \/ /\ mode[q] # "guest"
            /\ Return("hotplug", "idle")
    BY <1>a, <1>9 DEF VmHotplugCallback
  <2>1. q \in Procs
    BY <1>a
  <2>2. CASE Return("hotplug", "idle")
    BY <1>a, <1>9, <2>2 DEF VmHotplugCallback, Return, Goto
  <2>3. CASE sd' = [sd EXCEPT !["hotplug"] = vmm[q]]
    <3>1. sd' \in [Threads -> SharedIds \union {None}]
      BY <1>a, <2>1, <2>3
    <3>2. CASE Goto("hotplug", "alloc") /\ UNCHANGED <<idx, cnt, data, ok>>
               /\ job' = [job EXCEPT !["hotplug"] = "plug"]
      BY <1>a, <1>9, <3>1, <3>2 DEF VmHotplugCallback, Goto
    <3>3. CASE Return("hotplug", "idle")
      BY <2>2, <3>3
    <3>4. QED
      BY <3>2, <3>3
  <2>4. QED
    BY <2>2, <2>3
<1>10. CASE VmHotplugCallbackReturns
  BY <1>a, <1>10 DEF VmHotplugCallbackReturns, Goto, Return
<1>11. ASSUME NEW t \in Threads, VmInitialization(t) PROVE Types'
  BY <1>a, <1>11 DEF VmInitialization, Goto
<1>12. ASSUME NEW t \in Threads, VmInitializationRefused(t) PROVE Types'
  BY <1>a, <1>12 DEF VmInitializationRefused, Goto, Return, InitializationReturns
<1>13. ASSUME NEW t \in Threads, VmTerminationReturns(t) PROVE Types'
  BY <1>a, <1>13 DEF VmTerminationReturns, Goto, Return
<1>14. ASSUME NEW t \in Threads, ForEachBegin(t) PROVE Types'
  BY <1>a, <1>14 DEF ForEachBegin, Goto, Callback
<1>15. ASSUME NEW t \in Threads, ForEachNext(t) PROVE Types'
  <2>1. idx[t] + 1 \in Procs
    BY <1>a, <1>15, ProcessorsAssumption DEF ForEachNext, Procs
  <2>2. Callback(t) \in Labels
    BY DEF Callback
  <2>3. pc' \in [Threads -> Labels]
    BY <1>a, <1>15, <2>2 DEF ForEachNext, Goto
  <2>4. idx' \in [Threads -> Procs]
    BY <1>a, <1>15, <2>1 DEF ForEachNext
  <2>5. QED
    BY <1>a, <1>15, <2>3, <2>4 DEF ForEachNext
<1>16. ASSUME NEW t \in Threads, ForEachEnd(t) PROVE Types'
  <2>1. CASE InitializationReturns(t, TRUE)
    BY <1>a, <1>16, <2>1 DEF ForEachEnd, InitializationReturns, Return, Goto
  <2>2. CASE InitializationReturns(t, FALSE)
    BY <1>a, <1>16, <2>2 DEF ForEachEnd, InitializationReturns, Return, Goto
  <2>3. CASE job[t] = "start" /\ ~ok[t]
    BY <1>a, <1>16, <2>3, ZenonT(40) DEF ForEachEnd, Goto
  <2>4. CASE job[t] = "stop"
    BY <1>a, <1>16, <2>4 DEF ForEachEnd, Goto
  <2>5. QED
    BY <1>a, <1>16, <2>1, <2>2, <2>3, <2>4 DEF ForEachEnd
<1>17. ASSUME NEW t \in Threads, AllocateProcessorData(t) PROVE Types'
  <2>1. sd[t] \in SharedIds
    BY <1>a, <1>17 DEF AllocateProcessorData, StartHasShared
  <2>2. CASE data' = [data EXCEPT ![t] = sd[t]] /\ Goto(t, "regions")
             /\ refs' = [refs EXCEPT ![sd[t]] = @ + 1] /\ UNCHANGED ok
    BY <1>a, <1>17, <2>1, <2>2 DEF AllocateProcessorData, Goto
  <2>3. CASE UNCHANGED <<data, refs>> /\ Goto(t, "started")
             /\ ok' = [ok EXCEPT ![t] = FALSE]
    BY <1>a, <1>17, <2>3 DEF AllocateProcessorData, Goto
  <2>4. QED
    BY <1>a, <1>17, <2>2, <2>3 DEF AllocateProcessorData, Goto
<1>18. ASSUME NEW t \in Threads, AllocateRegions(t) PROVE Types'
  BY <1>a, <1>18 DEF AllocateRegions, Goto
<1>19. ASSUME NEW t \in Threads, VmEnterVmxMode(t) PROVE Types'
  BY <1>a, <1>19 DEF VmEnterVmxMode, Goto
<1>20. ASSUME NEW t \in Threads, VmInitializeVmcs(t) PROVE Types'
  BY <1>a, <1>20 DEF VmInitializeVmcs, Goto
<1>21. ASSUME NEW t \in Threads, VmLaunchVm(t) PROVE Types'
  BY <1>a, <1>21 DEF VmLaunchVm, Goto
<1>22. ASSUME NEW t \in Threads, VmxOff(t) PROVE Types'
  BY <1>a, <1>22 DEF VmxOff, Goto
<1>23. ASSUME NEW t \in Threads, VmFreeProcessorData(t) PROVE Types'
  <2>1. data[t] \in SharedIds
    BY <1>a, <1>23 DEF VmFreeProcessorData, HeldAtDataLabels, DataLabels
  <2>2. heap' \in [SharedIds -> {"none", "live", "freed"}]
    BY <1>a, <1>23, <2>1 DEF VmFreeProcessorData
  <2>3. refs' \in [SharedIds -> Int] /\ data' \in [Threads -> SharedIds \union {None}]
    BY <1>a, <1>23, <2>1 DEF VmFreeProcessorData
  <2>4. pc' \in [Threads -> Labels] /\ ok' \in [Threads -> BOOLEAN]
    BY <1>a, <1>23 DEF VmFreeProcessorData, Goto
  <2>5. QED
    BY <1>a, <1>23, <2>2, <2>3, <2>4 DEF VmFreeProcessorData
<1>24. ASSUME NEW t \in Threads, VmStopVm(t) PROVE Types'
  <2>1. vmm[idx[t]] \in SharedIds \union {None}
    BY <1>a
  <2>2. mode' \in [Procs -> {"off", "root", "guest"}] /\ vmm' \in [Procs -> SharedIds \union {None}]
    BY <1>a, <1>24 DEF VmStopVm
  <2>3. data' \in [Threads -> SharedIds \union {None}]
    BY <1>a, <1>24, <2>1 DEF VmStopVm
  <2>4. pc' \in [Threads -> Labels] /\ ok' \in [Threads -> BOOLEAN]
    BY <1>a, <1>24 DEF VmStopVm, Goto
  <2>5. QED
    BY <1>a, <1>24, <2>2, <2>3, <2>4 DEF VmStopVm
<1>25. ASSUME NEW t \in Threads, ClearVmxe(t) PROVE Types'
  BY <1>a, <1>25 DEF ClearVmxe, Goto
<1>26. CASE UNCHANGED vars
  BY <1>a, <1>26 DEF vars
<1>27. QED
  BY <1>1, <1>2, <1>3, <1>4, <1>5, <1>6, <1>7, <1>8, <1>9, <1>10, <1>11, <1>12, <1>13, <1>14, <1>15, <1>16, <1>17, <1>18, <1>19, <1>20, <1>21, <1>22, <1>23, <1>24, <1>25, <1>26
     DEF Next, Environment, DriverStep, HotplugStep, VmStep

-----------------------------------------------------------------------------
\* The steps that touch a processor's mode, a PROCESSOR_DATA or a count.
Touches(t) ==
  \/ VmInitialization(t) \/ AllocateProcessorData(t) \/ VmEnterVmxMode(t) \/ VmLaunchVm(t)
  \/ VmxOff(t) \/ VmFreeProcessorData(t) \/ VmStopVm(t)

\* Every other step leaves all of these alone.
LEMMA OtherSteps ==
  ASSUME [Next]_vars
  PROVE  \/ UNCHANGED <<mode, vmm, heap, refs, data>>
         \/ \E t \in Threads : Touches(t)
<1> USE DEF machine, memory, frame, system
<1>1. CASE Environment
  BY <1>1 DEF Environment, DriverUnload, PowerSuspend, PowerResume, AddProcessor
<1>2. CASE DriverStep
  BY <1>2 DEF DriverStep, DriverEntryInitializes, DriverEntryFails, DriverTerminates, DriverGone
<1>3. CASE HotplugStep
  BY <1>3 DEF HotplugStep, VmHotplugCallback, VmHotplugCallbackReturns, Return
<1>4. ASSUME NEW t \in Threads, VmStep(t), ~Touches(t)
      PROVE  UNCHANGED <<mode, vmm, heap, refs, data>>
  <2>1. CASE VmInitializationRefused(t) \/ VmTerminationReturns(t) \/ ForEachEnd(t)
    BY <2>1 DEF VmInitializationRefused, VmTerminationReturns, ForEachEnd, InitializationReturns, Return
  <2>2. CASE ForEachBegin(t) \/ ForEachNext(t)
    BY <2>2 DEF ForEachBegin, ForEachNext
  <2>3. CASE AllocateRegions(t) \/ VmInitializeVmcs(t) \/ ClearVmxe(t)
    BY <2>3 DEF AllocateRegions, VmInitializeVmcs, ClearVmxe
  <2>4. QED
    BY <1>4, <2>1, <2>2, <2>3 DEF VmStep, Touches
<1>5. CASE UNCHANGED vars
  BY <1>5 DEF vars
<1>6. QED
  BY <1>1, <1>2, <1>3, <1>4, <1>5 DEF Next

\* A processor is a guest exactly while its VMM owns a PROCESSOR_DATA.
LEMMA OwnedInductive ==
  ASSUME Control, VmxMutex, [Next]_vars
  PROVE  OwnedWhenGuest'
<1> USE DEF OwnedWhenGuest
<1>1. OwnedWhenGuest /\ mode \in [Procs -> {"off", "root", "guest"}] /\ idx \in [Threads -> Procs]
      /\ vmm \in [Procs -> SharedIds \union {None}]
  BY DEF Control, Types
<1>2. CASE UNCHANGED <<mode, vmm, heap, refs, data>>
  BY <1>1, <1>2
<1>3. ASSUME NEW t \in Threads, VmEnterVmxMode(t) PROVE OwnedWhenGuest'
  BY <1>1, <1>3 DEF VmEnterVmxMode
<1>4. ASSUME NEW t \in Threads, VmLaunchVm(t) PROVE OwnedWhenGuest'
  <2>1. data[t] # None
    BY <1>4 DEF VmLaunchVm, Control, HeldAtDataLabels, DataLabels, RootLabels
  <2>2. QED
    BY <1>1, <1>4, <2>1 DEF VmLaunchVm
<1>5. ASSUME NEW t \in Threads, VmxOff(t) PROVE OwnedWhenGuest'
  <2>1. mode[idx[t]] = "root"
    BY <1>5 DEF VmxOff, VmxMutex, RootLabels
  <2>2. QED
    BY <1>1, <1>5, <2>1 DEF VmxOff
<1>6. ASSUME NEW t \in Threads, VmStopVm(t) PROVE OwnedWhenGuest'
  BY <1>1, <1>6 DEF VmStopVm
<1>7. ASSUME NEW t \in Threads,
             VmInitialization(t) \/ AllocateProcessorData(t) \/ VmFreeProcessorData(t)
      PROVE  UNCHANGED <<mode, vmm>>
  BY <1>7 DEF VmInitialization, AllocateProcessorData, VmFreeProcessorData, machine
<1>8. QED
  BY <1>1, <1>2, <1>3, <1>4, <1>5, <1>6, <1>7, OtherSteps DEF Touches

\* A thread holds a PROCESSOR_DATA exactly between taking and giving it up.
LEMMA HeldInductive ==
  ASSUME Control, VmxMutex, [Next]_vars
  PROVE  HeldAtDataLabels'
<1> USE DEF HeldAtDataLabels, DataLabels, RootLabels, machine, memory, frame, system
<1>a. /\ "driver" \in Threads /\ "power" \in Threads /\ "hotplug" \in Threads
      /\ pc \in [Threads -> Labels] /\ idx \in [Threads -> Procs]
      /\ data \in [Threads -> SharedIds \union {None}] /\ HeldAtDataLabels /\ OwnedWhenGuest
      /\ \A t \in Threads : pc[t] = "alloc" => sd[t] # None
  BY DEF Control, Types, StartHasShared, Threads
<1>1. CASE DriverEntryInitializes
  BY <1>a, <1>1 DEF DriverEntryInitializes, Goto, HotplugUp
<1>2. CASE DriverEntryFails
  BY <1>a, <1>2 DEF DriverEntryFails, Goto
<1>3. CASE DriverUnload
  BY <1>a, <1>3 DEF DriverUnload, Goto
<1>4. CASE DriverTerminates
  BY <1>a, <1>4 DEF DriverTerminates, Goto, HotplugUp
<1>5. CASE DriverGone
  BY <1>a, <1>5 DEF DriverGone, Goto
<1>6. CASE PowerSuspend
  BY <1>a, <1>6 DEF PowerSuspend, Goto
<1>7. CASE PowerResume
  BY <1>a, <1>7 DEF PowerResume, Goto
<1>8. CASE AddProcessor
  BY <1>a, <1>8 DEF AddProcessor, Goto, HotplugUp
<1>9. CASE VmHotplugCallback
  BY <1>a, <1>9 DEF VmHotplugCallback, Goto, Return, Active
<1>10. CASE VmHotplugCallbackReturns
  BY <1>a, <1>10 DEF VmHotplugCallbackReturns, Goto, Return
<1>11. ASSUME NEW t \in Threads, VmInitialization(t) PROVE HeldAtDataLabels'
  BY <1>a, <1>11 DEF VmInitialization, Goto
<1>12. ASSUME NEW t \in Threads, VmInitializationRefused(t) PROVE HeldAtDataLabels'
  BY <1>a, <1>12 DEF VmInitializationRefused, Goto, Return, InitializationReturns
<1>13. ASSUME NEW t \in Threads, VmTerminationReturns(t) PROVE HeldAtDataLabels'
  BY <1>a, <1>13 DEF VmTerminationReturns, Goto, Return
<1>14. ASSUME NEW t \in Threads, ForEachBegin(t) PROVE HeldAtDataLabels'
  BY <1>a, <1>14 DEF ForEachBegin, Goto, Callback
<1>15. ASSUME NEW t \in Threads, ForEachNext(t) PROVE HeldAtDataLabels'
  BY <1>a, <1>15 DEF ForEachNext, Goto, Callback, CallbackDone
<1>16. ASSUME NEW t \in Threads, ForEachEnd(t) PROVE HeldAtDataLabels'
  BY <1>a, <1>16 DEF ForEachEnd, Goto, Return, InitializationReturns, CallbackDone
<1>17. ASSUME NEW t \in Threads, AllocateProcessorData(t) PROVE HeldAtDataLabels'
  BY <1>a, <1>17 DEF AllocateProcessorData, Goto
<1>18. ASSUME NEW t \in Threads, AllocateRegions(t) PROVE HeldAtDataLabels'
  BY <1>a, <1>18 DEF AllocateRegions, Goto
<1>19. ASSUME NEW t \in Threads, VmEnterVmxMode(t) PROVE HeldAtDataLabels'
  BY <1>a, <1>19 DEF VmEnterVmxMode, Goto
<1>20. ASSUME NEW t \in Threads, VmInitializeVmcs(t) PROVE HeldAtDataLabels'
  BY <1>a, <1>20 DEF VmInitializeVmcs, Goto
<1>21. ASSUME NEW t \in Threads, VmLaunchVm(t) PROVE HeldAtDataLabels'
  BY <1>a, <1>21 DEF VmLaunchVm, Goto
<1>22. ASSUME NEW t \in Threads, VmxOff(t) PROVE HeldAtDataLabels'
  BY <1>a, <1>22 DEF VmxOff, Goto
<1>23. ASSUME NEW t \in Threads, VmFreeProcessorData(t) PROVE HeldAtDataLabels'
  BY <1>a, <1>23 DEF VmFreeProcessorData, Goto
<1>24. ASSUME NEW t \in Threads, VmStopVm(t) PROVE HeldAtDataLabels'
  <2>1. mode[idx[t]] = "guest" => vmm[idx[t]] # None
    BY <1>a, <1>24 DEF OwnedWhenGuest
  <2>2. QED
    BY <1>a, <1>24, <2>1 DEF VmStopVm, Goto
<1>25. ASSUME NEW t \in Threads, ClearVmxe(t) PROVE HeldAtDataLabels'
  BY <1>a, <1>25 DEF ClearVmxe, Goto
<1>26. CASE UNCHANGED vars
  BY <1>a, <1>26 DEF vars
<1>27. QED
  BY <1>1, <1>2, <1>3, <1>4, <1>5, <1>6, <1>7, <1>8, <1>9, <1>10, <1>11, <1>12, <1>13, <1>14, <1>15, <1>16, <1>17, <1>18, <1>19, <1>20, <1>21, <1>22, <1>23, <1>24, <1>25, <1>26
     DEF Next, Environment, DriverStep, HotplugStep, VmStep

\* A thread that starts processors has a block to start them with.
LEMMA StartInductive ==
  ASSUME Control, VmxMutex, [Next]_vars
  PROVE  StartHasShared'
<1> USE DEF StartHasShared, machine, memory, frame, system
<1>a. /\ "driver" \in Threads /\ "power" \in Threads /\ "hotplug" \in Threads
      /\ pc \in [Threads -> Labels] /\ idx \in [Threads -> Procs]
      /\ job \in [Threads -> {"none", "start", "rollback", "stop", "plug"}]
      /\ sd \in [Threads -> SharedIds \union {None}]
      /\ StartHasShared
  BY DEF Control, Types, Threads
<1>b. \A p \in Active : mode[p] = "guest" => vmm[p] # None
  BY ProcessorsAssumption DEF Control, Types, OwnedWhenGuest, Active, Procs
<1>1. CASE DriverEntryInitializes
  BY <1>a, <1>1 DEF DriverEntryInitializes, Goto, HotplugUp
<1>2. CASE DriverEntryFails
  BY <1>a, <1>2 DEF DriverEntryFails, Goto
<1>3. CASE DriverUnload
  BY <1>a, <1>3 DEF DriverUnload, Goto
<1>4. CASE DriverTerminates
  BY <1>a, <1>4 DEF DriverTerminates, Goto, HotplugUp
<1>5. CASE DriverGone
  BY <1>a, <1>5 DEF DriverGone, Goto
<1>6. CASE PowerSuspend
  BY <1>a, <1>6 DEF PowerSuspend, Goto
<1>7. CASE PowerResume
  BY <1>a, <1>7 DEF PowerResume, Goto
<1>8. CASE AddProcessor
  BY <1>a, <1>8 DEF AddProcessor, Goto, HotplugUp
<1>9. CASE VmHotplugCallback
  BY <1>a, <1>b, <1>9 DEF VmHotplugCallback, Goto, Return
<1>10. CASE VmHotplugCallbackReturns
  BY <1>a, <1>10 DEF VmHotplugCallbackReturns, Goto, Return
<1>11. ASSUME NEW t \in Threads, VmInitialization(t) PROVE StartHasShared'
  BY <1>a, <1>11, SharedAssumption DEF VmInitialization, Goto
<1>12. ASSUME NEW t \in Threads, VmInitializationRefused(t) PROVE StartHasShared'
  BY <1>a, <1>12 DEF VmInitializationRefused, Goto, Return, InitializationReturns
<1>13. ASSUME NEW t \in Threads, VmTerminationReturns(t) PROVE StartHasShared'
  BY <1>a, <1>13 DEF VmTerminationReturns, Goto, Return
<1>14. ASSUME NEW t \in Threads, ForEachBegin(t) PROVE StartHasShared'
  BY <1>a, <1>14 DEF ForEachBegin, Goto, Callback
<1>15. ASSUME NEW t \in Threads, ForEachNext(t) PROVE StartHasShared'
  BY <1>a, <1>15 DEF ForEachNext, Goto, Callback, CallbackDone
<1>16. ASSUME NEW t \in Threads, ForEachEnd(t) PROVE StartHasShared'
  BY <1>a, <1>16 DEF ForEachEnd, Goto, Return, InitializationReturns, CallbackDone
<1>17. ASSUME NEW t \in Threads, AllocateProcessorData(t) PROVE StartHasShared'
  BY <1>a, <1>17 DEF AllocateProcessorData, Goto
<1>18. ASSUME NEW t \in Threads, AllocateRegions(t) PROVE StartHasShared'
  BY <1>a, <1>18 DEF AllocateRegions, Goto
<1>19. ASSUME NEW t \in Threads, VmEnterVmxMode(t) PROVE StartHasShared'
  BY <1>a, <1>19 DEF VmEnterVmxMode, Goto
<1>20. ASSUME NEW t \in Threads, VmInitializeVmcs(t) PROVE StartHasShared'
  BY <1>a, <1>20 DEF VmInitializeVmcs, Goto
<1>21. ASSUME NEW t \in Threads, VmLaunchVm(t) PROVE StartHasShared'
  BY <1>a, <1>21 DEF VmLaunchVm, Goto
<1>22. ASSUME NEW t \in Threads, VmxOff(t) PROVE StartHasShared'
  BY <1>a, <1>22 DEF VmxOff, Goto
<1>23. ASSUME NEW t \in Threads, VmFreeProcessorData(t) PROVE StartHasShared'
  BY <1>a, <1>23 DEF VmFreeProcessorData, Goto
<1>24. ASSUME NEW t \in Threads, VmStopVm(t) PROVE StartHasShared'
  BY <1>a, <1>24 DEF VmStopVm, Goto
<1>25. ASSUME NEW t \in Threads, ClearVmxe(t) PROVE StartHasShared'
  BY <1>a, <1>25 DEF ClearVmxe, Goto
<1>26. CASE UNCHANGED vars
  BY <1>a, <1>26 DEF vars
<1>27. QED
  BY <1>1, <1>2, <1>3, <1>4, <1>5, <1>6, <1>7, <1>8, <1>9, <1>10, <1>11, <1>12, <1>13, <1>14, <1>15, <1>16, <1>17, <1>18, <1>19, <1>20, <1>21, <1>22, <1>23, <1>24, <1>25, <1>26
     DEF Next, Environment, DriverStep, HotplugStep, VmStep

\* DriverEntry leaves its initialisation loop with the last component.
LEMMA EntryInductive ==
  ASSUME Control, VmxMutex, [Next]_vars
  PROVE  EntryUp'
<1> USE DEF EntryUp, machine, memory, frame, system
<1>a. /\ "driver" \in Threads /\ pc \in [Threads -> Labels] /\ up \in 0 .. 6 /\ EntryUp
  BY DEF Control, Types, Threads, HotplugUp
<1>1. CASE DriverEntryInitializes
  BY <1>a, <1>1 DEF DriverEntryInitializes, Goto, HotplugUp
<1>2. CASE DriverEntryFails
  BY <1>a, <1>2 DEF DriverEntryFails, Goto
<1>3. CASE DriverUnload
  BY <1>a, <1>3 DEF DriverUnload, Goto
<1>4. CASE DriverTerminates
  BY <1>a, <1>4 DEF DriverTerminates, Goto, HotplugUp
<1>5. CASE DriverGone
  BY <1>a, <1>5 DEF DriverGone, Goto
<1>6. CASE PowerSuspend
  BY <1>a, <1>6 DEF PowerSuspend, Goto
<1>7. CASE PowerResume
  BY <1>a, <1>7 DEF PowerResume, Goto
<1>8. CASE AddProcessor
  BY <1>a, <1>8 DEF AddProcessor, Goto, HotplugUp
<1>9. CASE VmHotplugCallback
  BY <1>a, <1>9 DEF VmHotplugCallback, Goto, Return, Active
<1>10. CASE VmHotplugCallbackReturns
  BY <1>a, <1>10 DEF VmHotplugCallbackReturns, Goto, Return
<1>11. ASSUME NEW t \in Threads, VmInitialization(t) PROVE EntryUp'
  BY <1>a, <1>11 DEF VmInitialization, Goto
<1>12. ASSUME NEW t \in Threads, VmInitializationRefused(t) PROVE EntryUp'
  BY <1>a, <1>12 DEF VmInitializationRefused, Goto, Return, InitializationReturns
<1>13. ASSUME NEW t \in Threads, VmTerminationReturns(t) PROVE EntryUp'
  BY <1>a, <1>13 DEF VmTerminationReturns, Goto, Return
<1>14. ASSUME NEW t \in Threads, ForEachBegin(t) PROVE EntryUp'
  BY <1>a, <1>14 DEF ForEachBegin, Goto, Callback
<1>15. ASSUME NEW t \in Threads, ForEachNext(t) PROVE EntryUp'
  BY <1>a, <1>15 DEF ForEachNext, Goto, Callback, CallbackDone
<1>16. ASSUME NEW t \in Threads, ForEachEnd(t) PROVE EntryUp'
  BY <1>a, <1>16 DEF ForEachEnd, Goto, Return, InitializationReturns, CallbackDone
<1>17. ASSUME NEW t \in Threads, AllocateProcessorData(t) PROVE EntryUp'
  BY <1>a, <1>17 DEF AllocateProcessorData, Goto
<1>18. ASSUME NEW t \in Threads, AllocateRegions(t) PROVE EntryUp'
  BY <1>a, <1>18 DEF AllocateRegions, Goto
<1>19. ASSUME NEW t \in Threads, VmEnterVmxMode(t) PROVE EntryUp'
  BY <1>a, <1>19 DEF VmEnterVmxMode, Goto
<1>20. ASSUME NEW t \in Threads, VmInitializeVmcs(t) PROVE EntryUp'
  BY <1>a, <1>20 DEF VmInitializeVmcs, Goto
<1>21. ASSUME NEW t \in Threads, VmLaunchVm(t) PROVE EntryUp'
  BY <1>a, <1>21 DEF VmLaunchVm, Goto
<1>22. ASSUME NEW t \in Threads, VmxOff(t) PROVE EntryUp'
  BY <1>a, <1>22 DEF VmxOff, Goto
<1>23. ASSUME NEW t \in Threads, VmFreeProcessorData(t) PROVE EntryUp'
  BY <1>a, <1>23 DEF VmFreeProcessorData, Goto
<1>24. ASSUME NEW t \in Threads, VmStopVm(t) PROVE EntryUp'
  BY <1>a, <1>24 DEF VmStopVm, Goto
<1>25. ASSUME NEW t \in Threads, ClearVmxe(t) PROVE EntryUp'
  BY <1>a, <1>25 DEF ClearVmxe, Goto
<1>26. CASE UNCHANGED vars
  BY <1>a, <1>26 DEF vars
<1>27. QED
  BY <1>1, <1>2, <1>3, <1>4, <1>5, <1>6, <1>7, <1>8, <1>9, <1>10, <1>11, <1>12, <1>13, <1>14, <1>15, <1>16, <1>17, <1>18, <1>19, <1>20, <1>21, <1>22, <1>23, <1>24, <1>25, <1>26
     DEF Next, Environment, DriverStep, HotplugStep, VmStep

\* A block becomes known to a thread when it is allocated, never before.
LEMMA FreshInductive ==
  ASSUME Control, VmxMutex, [Next]_vars
  PROVE  FreshUnused'
<1> USE DEF FreshUnused, machine, memory, frame, system
<1>a. /\ "driver" \in Threads /\ "power" \in Threads /\ "hotplug" \in Threads
      /\ sd \in [Threads -> SharedIds \union {None}] /\ data \in [Threads -> SharedIds \union {None}]
      /\ vmm \in [Procs -> SharedIds \union {None}] /\ idx \in [Threads -> Procs]
      /\ heap \in [SharedIds -> {"none", "live", "freed"}]
      /\ FreshUnused /\ None \notin SharedIds
      /\ Active \subseteq Procs
  BY ProcessorsAssumption, SharedAssumption, SMTT(20) DEF Control, Types, Threads, Active, Procs
<1>1. CASE DriverEntryInitializes
  BY <1>a, <1>1 DEF DriverEntryInitializes, Goto, HotplugUp
<1>2. CASE DriverEntryFails
  BY <1>a, <1>2 DEF DriverEntryFails, Goto
<1>3. CASE DriverUnload
  BY <1>a, <1>3 DEF DriverUnload, Goto
<1>4. CASE DriverTerminates
  BY <1>a, <1>4 DEF DriverTerminates, Goto, HotplugUp
<1>5. CASE DriverGone
  BY <1>a, <1>5 DEF DriverGone, Goto
<1>6. CASE PowerSuspend
  BY <1>a, <1>6 DEF PowerSuspend, Goto
<1>7. CASE PowerResume
  BY <1>a, <1>7 DEF PowerResume, Goto
<1>8. CASE AddProcessor
  BY <1>a, <1>8 DEF AddProcessor, Goto, HotplugUp
<1>9. CASE VmHotplugCallback
  BY <1>a, <1>9 DEF VmHotplugCallback, Goto, Return, Active
<1>10. CASE VmHotplugCallbackReturns
  BY <1>a, <1>10 DEF VmHotplugCallbackReturns, Goto, Return
<1>11. ASSUME NEW t \in Threads, VmInitialization(t) PROVE FreshUnused'
  BY <1>a, <1>11 DEF VmInitialization, Goto
<1>12. ASSUME NEW t \in Threads, VmInitializationRefused(t) PROVE FreshUnused'
  BY <1>a, <1>12 DEF VmInitializationRefused, Goto, Return, InitializationReturns
<1>13. ASSUME NEW t \in Threads, VmTerminationReturns(t) PROVE FreshUnused'
  BY <1>a, <1>13 DEF VmTerminationReturns, Goto, Return
<1>14. ASSUME NEW t \in Threads, ForEachBegin(t) PROVE FreshUnused'
  BY <1>a, <1>14 DEF ForEachBegin, Goto, Callback
<1>15. ASSUME NEW t \in Threads, ForEachNext(t) PROVE FreshUnused'
  BY <1>a, <1>15 DEF ForEachNext, Goto, Callback, CallbackDone
<1>16. ASSUME NEW t \in Threads, ForEachEnd(t) PROVE FreshUnused'
  BY <1>a, <1>16 DEF ForEachEnd, Goto, Return, InitializationReturns, CallbackDone
<1>17. ASSUME NEW t \in Threads, AllocateProcessorData(t) PROVE FreshUnused'
  BY <1>a, <1>17 DEF AllocateProcessorData, Goto
<1>18. ASSUME NEW t \in Threads, AllocateRegions(t) PROVE FreshUnused'
  BY <1>a, <1>18 DEF AllocateRegions, Goto
<1>19. ASSUME NEW t \in Threads, VmEnterVmxMode(t) PROVE FreshUnused'
  BY <1>a, <1>19 DEF VmEnterVmxMode, Goto
<1>20. ASSUME NEW t \in Threads, VmInitializeVmcs(t) PROVE FreshUnused'
  BY <1>a, <1>20 DEF VmInitializeVmcs, Goto
<1>21. ASSUME NEW t \in Threads, VmLaunchVm(t) PROVE FreshUnused'
  BY <1>a, <1>21 DEF VmLaunchVm, Goto
<1>22. ASSUME NEW t \in Threads, VmxOff(t) PROVE FreshUnused'
  BY <1>a, <1>22 DEF VmxOff, Goto
<1>23. ASSUME NEW t \in Threads, VmFreeProcessorData(t) PROVE FreshUnused'
  BY <1>a, <1>23 DEF VmFreeProcessorData, Goto
<1>24. ASSUME NEW t \in Threads, VmStopVm(t) PROVE FreshUnused'
  BY <1>a, <1>24 DEF VmStopVm, Goto
<1>25. ASSUME NEW t \in Threads, ClearVmxe(t) PROVE FreshUnused'
  BY <1>a, <1>25 DEF ClearVmxe, Goto
<1>26. CASE UNCHANGED vars
  BY <1>a, <1>26 DEF vars
<1>27. QED
  BY <1>1, <1>2, <1>3, <1>4, <1>5, <1>6, <1>7, <1>8, <1>9, <1>10, <1>11, <1>12, <1>13, <1>14, <1>15, <1>16, <1>17, <1>18, <1>19, <1>20, <1>21, <1>22, <1>23, <1>24, <1>25, <1>26
     DEF Next, Environment, DriverStep, HotplugStep, VmStep

\* VMXON succeeds outside VMX operation only, and whoever is between VMXON and
\* VMLAUNCH has put the processor in VMX root.
LEMMA MutexInductive ==
  ASSUME Control, VmxMutex, [Next]_vars
  PROVE  VmxMutex'
<1> USE DEF VmxMutex, RootLabels, machine, memory, frame, system
<1>a. /\ "driver" \in Threads /\ "power" \in Threads /\ "hotplug" \in Threads
      /\ pc \in [Threads -> Labels] /\ idx \in [Threads -> Procs]
      /\ mode \in [Procs -> {"off", "root", "guest"}]
  BY DEF Control, Types, Threads
<1>1. CASE DriverEntryInitializes
  BY <1>a, <1>1 DEF DriverEntryInitializes, Goto, HotplugUp
<1>2. CASE DriverEntryFails
  BY <1>a, <1>2 DEF DriverEntryFails, Goto
<1>3. CASE DriverUnload
  BY <1>a, <1>3 DEF DriverUnload, Goto
<1>4. CASE DriverTerminates
  BY <1>a, <1>4 DEF DriverTerminates, Goto, HotplugUp
<1>5. CASE DriverGone
  BY <1>a, <1>5 DEF DriverGone, Goto
<1>6. CASE PowerSuspend
  BY <1>a, <1>6 DEF PowerSuspend, Goto
<1>7. CASE PowerResume
  BY <1>a, <1>7 DEF PowerResume, Goto
<1>8. CASE AddProcessor
  BY <1>a, <1>8 DEF AddProcessor, Goto, HotplugUp
<1>9. CASE VmHotplugCallback
  BY <1>a, <1>9 DEF VmHotplugCallback, Goto, Return, Active
<1>10. CASE VmHotplugCallbackReturns
  BY <1>a, <1>10 DEF VmHotplugCallbackReturns, Goto, Return
<1>11. ASSUME NEW t \in Threads, VmInitialization(t) PROVE VmxMutex'
  BY <1>a, <1>11 DEF VmInitialization, Goto
<1>12. ASSUME NEW t \in Threads, VmInitializationRefused(t) PROVE VmxMutex'
  BY <1>a, <1>12 DEF VmInitializationRefused, Goto, Return, InitializationReturns
<1>13. ASSUME NEW t \in Threads, VmTerminationReturns(t) PROVE VmxMutex'
  BY <1>a, <1>13 DEF VmTerminationReturns, Goto, Return
<1>14. ASSUME NEW t \in Threads, ForEachBegin(t) PROVE VmxMutex'
  BY <1>a, <1>14 DEF ForEachBegin, Goto, Callback
<1>15. ASSUME NEW t \in Threads, ForEachNext(t) PROVE VmxMutex'
  BY <1>a, <1>15 DEF ForEachNext, Goto, Callback, CallbackDone
<1>16. ASSUME NEW t \in Threads, ForEachEnd(t) PROVE VmxMutex'
  BY <1>a, <1>16 DEF ForEachEnd, Goto, Return, InitializationReturns, CallbackDone
<1>17. ASSUME NEW t \in Threads, AllocateProcessorData(t) PROVE VmxMutex'
  BY <1>a, <1>17 DEF AllocateProcessorData, Goto
<1>18. ASSUME NEW t \in Threads, AllocateRegions(t) PROVE VmxMutex'
  BY <1>a, <1>18 DEF AllocateRegions, Goto
<1>19. ASSUME NEW t \in Threads, VmEnterVmxMode(t) PROVE VmxMutex'
  BY <1>a, <1>19 DEF VmEnterVmxMode, Goto
<1>20. ASSUME NEW t \in Threads, VmInitializeVmcs(t) PROVE VmxMutex'
  BY <1>a, <1>20 DEF VmInitializeVmcs, Goto
<1>21. ASSUME NEW t \in Threads, VmLaunchVm(t) PROVE VmxMutex'
  BY <1>a, <1>21 DEF VmLaunchVm, Goto
<1>22. ASSUME NEW t \in Threads, VmxOff(t) PROVE VmxMutex'
  BY <1>a, <1>22 DEF VmxOff, Goto
<1>23. ASSUME NEW t \in Threads, VmFreeProcessorData(t) PROVE VmxMutex'
  BY <1>a, <1>23 DEF VmFreeProcessorData, Goto
<1>24. ASSUME NEW t \in Threads, VmStopVm(t) PROVE VmxMutex'
  BY <1>a, <1>24 DEF VmStopVm, Goto
<1>25. ASSUME NEW t \in Threads, ClearVmxe(t) PROVE VmxMutex'
  BY <1>a, <1>25 DEF ClearVmxe, Goto
<1>26. CASE UNCHANGED vars
  BY <1>a, <1>26 DEF vars
<1>27. QED
  BY <1>1, <1>2, <1>3, <1>4, <1>5, <1>6, <1>7, <1>8, <1>9, <1>10, <1>11, <1>12, <1>13, <1>14, <1>15, <1>16, <1>17, <1>18, <1>19, <1>20, <1>21, <1>22, <1>23, <1>24, <1>25, <1>26
     DEF Next, Environment, DriverStep, HotplugStep, VmStep

-----------------------------------------------------------------------------
\* The processors and the threads that hold a block can be counted.
LEMMA HoldersFinite ==
  /\ IsFiniteSet(Procs) /\ IsFiniteSet(Threads)
  /\ \A s : Cardinality(ProcHolders(s)) \in Nat /\ Cardinality(ThreadHolders(s)) \in Nat
<1>1. IsFiniteSet(Procs)
  BY ProcessorsAssumption, FS_Interval DEF Procs
<1>2. IsFiniteSet(Threads)
  <2>1. Threads = ({"driver"} \union {"power"}) \union {"hotplug"}
    BY DEF Threads
  <2>2. QED
    BY <2>1, FS_Singleton, FS_AddElement
<1>3. QED
  BY <1>1, <1>2, FS_Subset, FS_CardinalityType DEF ProcHolders, ThreadHolders

\* Every step that moves a PROCESSOR_DATA moves the count with it.
LEMMA RefCountInductive ==
  ASSUME Control, VmxMutex, RefCountExact, [Next]_vars
  PROVE  RefCountExact'
<1> SUFFICES ASSUME NEW s \in SharedIds
             PROVE  refs'[s] = Cardinality(ProcHolders(s)') + Cardinality(ThreadHolders(s)')
  BY DEF RefCountExact
<1> DEFINE one(x) == IF x = s THEN 1 ELSE 0
           P == Cardinality(ProcHolders(s))
           H == Cardinality(ThreadHolders(s))
<1>a. /\ refs \in [SharedIds -> Int] /\ idx \in [Threads -> Procs]
      /\ DOMAIN vmm = Procs /\ DOMAIN data = Threads
      /\ refs[s] = P + H /\ P \in Nat /\ H \in Nat
      /\ None # s
  BY HoldersFinite, SharedAssumption DEF Control, Types, RefCountExact
<1>n. P \in Nat /\ H \in Nat
  BY <1>a
<1>b. ASSUME NEW p \in Procs, NEW v, vmm' = [vmm EXCEPT ![p] = v]
      PROVE  Cardinality(ProcHolders(s)') = P + one(v) - one(vmm[p])
  <2> DEFINE A == ProcHolders(s)
  <2>1. /\ p \in A <=> vmm[p] = s
        /\ v = s => ProcHolders(s)' = A \union {p}
        /\ v # s => ProcHolders(s)' = A \ {p}
    BY <1>a, <1>b DEF ProcHolders
  <2>2. IsFiniteSet(A)
    BY HoldersFinite, FS_Subset DEF ProcHolders
  <2>3. /\ p \notin A => Cardinality(A \union {p}) = P + 1
        /\ p \in A => Cardinality(A \ {p}) = P - 1
        /\ p \in A => A \union {p} = A
        /\ p \notin A => A \ {p} = A
        /\ Cardinality(A) = P
    BY <2>2, FS_AddElement, FS_RemoveElement
  <2> HIDE DEF A, P
  <2>4. CASE v = s /\ vmm[p] = s
    <3>1. Cardinality(ProcHolders(s)') = P
      BY <2>1, <2>3, <2>4
    <3>2. QED
      BY <1>n, <3>1, <2>4
  <2>5. CASE v = s /\ vmm[p] # s
    <3>1. Cardinality(ProcHolders(s)') = P + 1
      BY <2>1, <2>3, <2>5
    <3>2. QED
      BY <1>n, <3>1, <2>5
  <2>6. CASE v # s /\ vmm[p] = s
    <3>1. Cardinality(ProcHolders(s)') = P - 1
      BY <2>1, <2>3, <2>6
    <3>2. QED
      BY <1>n, <3>1, <2>6
  <2>7. CASE v # s /\ vmm[p] # s
    <3>1. Cardinality(ProcHolders(s)') = P
      BY <2>1, <2>3, <2>7
    <3>2. QED
      BY <1>n, <3>1, <2>7
  <2>8. QED
    BY <2>4, <2>5, <2>6, <2>7
<1>c. ASSUME NEW t \in Threads, NEW v, data' = [data EXCEPT ![t] = v]
      PROVE  Cardinality(ThreadHolders(s)') = H + one(v) - one(data[t])
  <2> DEFINE A == ThreadHolders(s)
  <2>1. /\ t \in A <=> data[t] = s
        /\ v = s => ThreadHolders(s)' = A \union {t}
        /\ v # s => ThreadHolders(s)' = A \ {t}
    BY <1>a, <1>c DEF ThreadHolders
  <2>2. IsFiniteSet(A)
    BY HoldersFinite, FS_Subset DEF ThreadHolders
  <2>3. /\ t \notin A => Cardinality(A \union {t}) = H + 1
        /\ t \in A => Cardinality(A \ {t}) = H - 1
        /\ t \in A => A \union {t} = A
        /\ t \notin A => A \ {t} = A
        /\ Cardinality(A) = H
    BY <2>2, FS_AddElement, FS_RemoveElement
  <2> HIDE DEF A, H
  <2>4. CASE v = s /\ data[t] = s
    <3>1. Cardinality(ThreadHolders(s)') = H
      BY <2>1, <2>3, <2>4
    <3>2. QED
      BY <1>n, <3>1, <2>4
  <2>5. CASE v = s /\ data[t] # s
    <3>1. Cardinality(ThreadHolders(s)') = H + 1
      BY <2>1, <2>3, <2>5
    <3>2. QED
      BY <1>n, <3>1, <2>5
  <2>6. CASE v # s /\ data[t] = s
    <3>1. Cardinality(ThreadHolders(s)') = H - 1
      BY <2>1, <2>3, <2>6
    <3>2. QED
      BY <1>n, <3>1, <2>6
  <2>7. CASE v # s /\ data[t] # s
    <3>1. Cardinality(ThreadHolders(s)') = H
      BY <2>1, <2>3, <2>7
    <3>2. QED
      BY <1>n, <3>1, <2>7
  <2>8. QED
    BY <2>4, <2>5, <2>6, <2>7
<1>d. ASSUME UNCHANGED vmm PROVE Cardinality(ProcHolders(s)') = P
  BY <1>d DEF ProcHolders
<1>e. ASSUME UNCHANGED data PROVE Cardinality(ThreadHolders(s)') = H
  BY <1>e DEF ThreadHolders
<1> HIDE DEF P, H
<1>1. CASE UNCHANGED <<mode, vmm, heap, refs, data>>
  BY <1>a, <1>d, <1>e, <1>1
<1>2. ASSUME NEW t \in Threads, VmInitialization(t)
      PROVE  refs'[s] = Cardinality(ProcHolders(s)') + Cardinality(ThreadHolders(s)')
  <2>1. PICK r \in SharedIds : heap[r] = "none" /\ refs' = [refs EXCEPT ![r] = 0]
    BY <1>2 DEF VmInitialization
  <2>2. ProcHolders(r) = {} /\ ThreadHolders(r) = {}
    BY <2>1 DEF Control, FreshUnused, ProcHolders, ThreadHolders
  <2>3. r = s => P = 0 /\ H = 0
    BY <2>2, FS_EmptySet DEF P, H
  <2>4. UNCHANGED <<vmm, data>>
    BY <1>2 DEF VmInitialization, machine
  <2>5. QED
    BY <1>a, <1>d, <1>e, <2>1, <2>3, <2>4
<1>3. ASSUME NEW t \in Threads, AllocateProcessorData(t)
      PROVE  refs'[s] = Cardinality(ProcHolders(s)') + Cardinality(ThreadHolders(s)')
  <2>1. sd[t] \in SharedIds /\ data[t] = None
    BY <1>3 DEF AllocateProcessorData, Control, Types, StartHasShared, HeldAtDataLabels, DataLabels, RootLabels
  <2>2. UNCHANGED vmm
    BY <1>3 DEF AllocateProcessorData, machine
  <2>3. CASE data' = [data EXCEPT ![t] = sd[t]] /\ refs' = [refs EXCEPT ![sd[t]] = @ + 1]
    <3>1. Cardinality(ThreadHolders(s)') = H + one(sd[t])
      <4>1. Cardinality(ThreadHolders(s)') = H + one(sd[t]) - one(data[t])
        BY <1>c, <2>3, Zenon
      <4>2. QED
        BY <1>a, <2>1, <4>1
    <3>2. refs'[s] = refs[s] + one(sd[t])
      BY <1>a, <2>1, <2>3
    <3>3. QED
      BY <1>a, <1>d, <2>2, <3>1, <3>2
  <2>4. CASE UNCHANGED <<data, refs>>
    BY <1>a, <1>d, <1>e, <2>2, <2>4
  <2>5. QED
    BY <1>3, <2>3, <2>4 DEF AllocateProcessorData
<1>4. ASSUME NEW t \in Threads, VmEnterVmxMode(t) \/ VmxOff(t)
      PROVE  UNCHANGED <<vmm, data, refs>>
  BY <1>4 DEF VmEnterVmxMode, VmxOff, memory, frame
<1>5. ASSUME NEW t \in Threads, VmLaunchVm(t)
      PROVE  refs'[s] = Cardinality(ProcHolders(s)') + Cardinality(ThreadHolders(s)')
  <2>1. vmm[idx[t]] = None
    BY <1>5 DEF VmLaunchVm, VmxMutex, RootLabels, Control, Types, OwnedWhenGuest
  <2>2. UNCHANGED refs
    BY <1>5 DEF VmLaunchVm, memory
  <2>3. CASE vmm' = [vmm EXCEPT ![idx[t]] = data[t]] /\ data' = [data EXCEPT ![t] = None]
    <3>1. Cardinality(ProcHolders(s)') = P + one(data[t]) - one(vmm[idx[t]])
      BY <1>a, <1>b, <2>3, Zenon
    <3>2. Cardinality(ThreadHolders(s)') = H + one(None) - one(data[t])
      BY <1>c, <2>3, Zenon
    <3>3. QED
      BY <1>a, <2>1, <2>2, <3>1, <3>2
  <2>4. CASE UNCHANGED <<vmm, data>>
    BY <1>a, <1>d, <1>e, <2>2, <2>4
  <2>5. QED
    BY <1>5, <2>3, <2>4 DEF VmLaunchVm
<1>6. ASSUME NEW t \in Threads, VmFreeProcessorData(t)
      PROVE  refs'[s] = Cardinality(ProcHolders(s)') + Cardinality(ThreadHolders(s)')
  <2>1. data[t] \in SharedIds
    BY <1>6 DEF VmFreeProcessorData, Control, Types, HeldAtDataLabels, DataLabels
  <2>2. Cardinality(ThreadHolders(s)') = H + one(None) - one(data[t])
    BY <1>c, <1>6, Zenon DEF VmFreeProcessorData
  <2>3. refs'[s] = refs[s] - one(data[t])
    BY <1>a, <1>6, <2>1 DEF VmFreeProcessorData
  <2>4. UNCHANGED vmm
    BY <1>6 DEF VmFreeProcessorData, machine
  <2>5. QED
    BY <1>a, <1>d, <2>2, <2>3, <2>4
<1>7. ASSUME NEW t \in Threads, VmStopVm(t)
      PROVE  refs'[s] = Cardinality(ProcHolders(s)') + Cardinality(ThreadHolders(s)')
  <2>1. data[t] = None
    BY <1>7 DEF VmStopVm, Control, Types, HeldAtDataLabels, DataLabels, RootLabels
  <2>2. UNCHANGED refs
    BY <1>7 DEF VmStopVm, memory
  <2>3. CASE vmm' = [vmm EXCEPT ![idx[t]] = None] /\ data' = [data EXCEPT ![t] = vmm[idx[t]]]
    <3>1. Cardinality(ProcHolders(s)') = P + one(None) - one(vmm[idx[t]])
      BY <1>a, <1>b, <2>3, Zenon
    <3>2. Cardinality(ThreadHolders(s)') = H + one(vmm[idx[t]]) - one(data[t])
      BY <1>c, <2>3, Zenon
    <3>3. QED
      BY <1>a, <2>1, <2>2, <3>1, <3>2
  <2>4. CASE UNCHANGED <<vmm, data>>
    BY <1>a, <1>d, <1>e, <2>2, <2>4
  <2>5. QED
    BY <1>7, <2>3, <2>4 DEF VmStopVm
<1>8. QED
  BY <1>a, <1>d, <1>e, <1>1, <1>2, <1>3, <1>4, <1>5, <1>6, <1>7, OtherSteps DEF Touches

-----------------------------------------------------------------------------
\* The initial state satisfies the inductive invariant.
LEMMA InitEstablishes == Init => IInv
<1> SUFFICES ASSUME Init PROVE IInv
  OBVIOUS
<1>1. Types
  <2>1. 0 \in Procs /\ 0 \in 0 .. MaxProcessors /\ active \in 1 .. MaxProcessors
    BY ProcessorsAssumption DEF Init, Procs
  <2>2. pc \in [Threads -> Labels]
    BY DEF Init, Labels
  <2>3. up \in 0 .. HotplugUp /\ events \in 0 .. MaxPowerEvents
    BY EnvironmentAssumption DEF Init, HotplugUp
  <2>4. /\ mode \in [Procs -> {"off", "root", "guest"}] /\ vmxe \in [Procs -> BOOLEAN]
        /\ vmm \in [Procs -> SharedIds \union {None}]
        /\ heap \in [SharedIds -> {"none", "live", "freed"}] /\ refs \in [SharedIds -> Int]
    BY DEF Init
  <2>5. /\ job \in [Threads -> {"none", "start", "rollback", "stop", "plug"}]
        /\ idx \in [Threads -> Procs] /\ cnt \in [Threads -> 0 .. MaxProcessors]
        /\ sd \in [Threads -> SharedIds \union {None}]
        /\ data \in [Threads -> SharedIds \union {None}] /\ ok \in [Threads -> BOOLEAN]
    BY <2>1 DEF Init
  <2>6. QED
    BY <2>1, <2>2, <2>3, <2>4, <2>5 DEF Init, Types
<1>2. EntryUp /\ OwnedWhenGuest /\ StartHasShared
  BY DEF Init, EntryUp, OwnedWhenGuest, StartHasShared, HotplugUp
<1>3. HeldAtDataLabels /\ VmxMutex
  BY DEF Init, HeldAtDataLabels, DataLabels, RootLabels, VmxMutex
<1>4. FreshUnused /\ \A s \in SharedIds : ProcHolders(s) = {} /\ ThreadHolders(s) = {}
  BY SharedAssumption DEF Init, FreshUnused, ProcHolders, ThreadHolders
<1>5. RefCountExact
  <2>1. ASSUME NEW s \in SharedIds
        PROVE  refs[s] = 0 /\ Cardinality(ProcHolders(s)) = 0 /\ Cardinality(ThreadHolders(s)) = 0
    BY <1>4, FS_EmptySet DEF Init
  <2>2. QED
    BY <2>1 DEF RefCountExact
<1>6. QED
  BY <1>1, <1>2, <1>3, <1>4, <1>5 DEF IInv, Control

\* IInv is inductive.
LEMMA StepPreserves == IInv /\ [Next]_vars => IInv'
BY TypesInductive, EntryInductive, OwnedInductive, HeldInductive, StartInductive, FreshInductive,
   MutexInductive, RefCountInductive
DEF IInv, Control

\* Every reachable state satisfies IInv.
LEMMA IInvAlways == Spec => []IInv
BY InitEstablishes, StepPreserves, PTL DEF Spec

\* ReferenceCount is the number of PROCESSOR_DATA structures that point to the
\* block, however VmInitialization, VmTermination and VmHotplugCallback
\* interleave.
THEOREM RefCountAlwaysExact == Spec => []RefCountExact
<1>1. IInv => RefCountExact
  BY DEF IInv
<1>2. QED
  BY <1>1, IInvAlways, PTL

\* No two threads start one processor at the same time, and none starts one
\* whose VMM runs: VmEnterVmxMode admits a thread only where VMXON succeeds.
THEOREM VmxAlwaysExclusive == Spec => []VmxMutex
<1>1. IInv => VmxMutex
  BY DEF IInv
<1>2. QED
  BY <1>1, IInvAlways, PTL

\* Every variable has its type; that InterlockedDecrement never takes a
\* ReferenceCount below zero follows from RefCountExact.
THEOREM TypesAlwaysCorrect == Spec => []TypeOK
<1>1. IInv => TypeOK
  <2> SUFFICES ASSUME IInv PROVE TypeOK
    OBVIOUS
  <2>1. \A s \in SharedIds : refs[s] \in Nat
    BY HoldersFinite DEF IInv, RefCountExact
  <2>2. QED
    BY <2>1 DEF IInv, Control, Types, TypeOK
<1>2. QED
  BY <1>1, IInvAlways, PTL

\* A running VMM keeps its PROCESSOR_DATA until a VMCALL terminates it.
THEOREM VmmAlwaysKeepsData == Spec => VmmKeepsData
<1>1. ASSUME IInv, [Next]_vars
      PROVE  [\A p \in Procs : vmm[p] # None /\ vmm'[p] # vmm[p]
                => mode[p] = "guest" /\ mode'[p] = "off"]_vars
  <2> SUFFICES ASSUME NEW p \in Procs, vmm[p] # None, vmm'[p] # vmm[p]
               PROVE  mode[p] = "guest" /\ mode'[p] = "off"
    OBVIOUS
  <2>1. mode[p] = "guest" /\ idx \in [Threads -> Procs] /\ DOMAIN mode = Procs /\ DOMAIN vmm = Procs
    BY <1>1 DEF IInv, Control, Types, OwnedWhenGuest
  <2>2. PICK t \in Threads : Touches(t)
    BY <1>1, OtherSteps
  <2>3. CASE VmLaunchVm(t)
    <3>1. mode[idx[t]] = "root"
      BY <1>1, <2>3 DEF VmLaunchVm, IInv, VmxMutex, RootLabels
    <3>2. QED
      BY <2>1, <2>3, <3>1 DEF VmLaunchVm
  <2>4. CASE VmStopVm(t)
    BY <2>1, <2>4 DEF VmStopVm
  <2>5. CASE VmInitialization(t) \/ AllocateProcessorData(t) \/ VmEnterVmxMode(t)
             \/ VmxOff(t) \/ VmFreeProcessorData(t)
    BY <2>5 DEF VmInitialization, AllocateProcessorData, VmEnterVmxMode, VmxOff, VmFreeProcessorData, machine
  <2>6. QED
    BY <2>2, <2>3, <2>4, <2>5 DEF Touches
<1>2. QED
  BY <1>1, IInvAlways, PTL DEF Spec, VmmKeepsData

-----------------------------------------------------------------------------
(***************************************************************************)
(* Where the system runs the three threads one at a time: the shared data  *)
(* outlives its users and is freed with the last one, CR4.VMXE covers VMX  *)
(* operation, and the processors are virtualized all or none.              *)
(***************************************************************************)

Outside == {"idle", "loaded"}

\* All threads but one are outside VM.cpp, and between their requests.
OneAtWork == \A t, u \in Threads : t # u => pc[t] \in Outside \/ pc[u] \in Outside

\* What a thread visits the processors for, at each point.
JobAtLabel ==
  \A t \in Threads :
    /\ pc[t] \in Outside \union {"entry", "unwind", "gone", "getshared", "vminit"} => job[t] = "none"
    /\ pc[t] \in RootLabels \union {"alloc", "regions", "vmxon", "started"} => job[t] \in {"start", "plug"}
    /\ pc[t] \in {"vmcall", "clear", "stopped"} => job[t] \in {"rollback", "stop"}
    /\ pc[t] = "count" => job[t] \in {"start", "rollback", "stop"}
    /\ pc[t] = "terminated" => job[t] = "stop"
    /\ pc[t] = "free" => job[t] # "none"
    /\ job[t] = "plug" <=> t = "hotplug" /\ job[t] # "none"
    /\ t = "hotplug" => pc[t] # "vminit"

\* A callback that failed has just returned.
FailureIsFresh == \A t \in Threads : ~ok[t] => pc[t] \in {"started", "stopped", "terminated"}

\* A start that has not failed yet has its block.
StartHasLive ==
  \A t \in Threads : job[t] \in {"start", "plug"} /\ ok[t] => heap[sd[t]] = "live"

\* CR4.VMXE is cleared outside VMX operation.
ClearedWhenOff == \A t \in Threads : pc[t] = "clear" => mode[idx[t]] = "off"

\* Where a thread is pinned to a processor.
Points ==
  RootLabels \union {"alloc", "regions", "vmxon", "free", "started", "vmcall", "clear", "stopped"}

\* The loop visits active processors, those of the initial ones first; a processor
\* that is added is none of the initial ones.
LoopBounds ==
  /\ InitialProcessors <= active
  /\ \A p \in Procs : mode[p] # "off" => p < active
  /\ \A t \in Threads : t # "hotplug" /\ pc[t] \in Points =>
       idx[t] < cnt[t] /\ InitialProcessors <= cnt[t]
  /\ \A t \in Threads : cnt[t] <= active /\ idx[t] < active
  /\ pc["hotplug"] # "idle" => InitialProcessors <= idx["hotplug"]

\* How far VmInitialization or VmTermination has come among the initial processors.
Initials     == 0 .. InitialProcessors - 1
AllBelow(i)  == \A p \in Initials : p < i => mode[p] = "guest"
NoneBelow(i) == \A p \in Initials : p < i => mode[p] # "guest"
\* From i on, no processor runs a VMM behind one that does not.
Prefix(i)    == \A p, q \in Initials : i <= p /\ p <= q /\ mode[q] = "guest" => mode[p] = "guest"

\* VmInitialization has begun its loop; so has VmTermination, or the roll-back.
Starting(t) == job[t] = "start" /\ pc[t] # "count"
Stopping(t) == job[t] \in {"rollback", "stop"} /\ pc[t] # "count"

Progress ==
  \A t \in Threads :
    /\ Starting(t) => Prefix(0)
    /\ Starting(t) /\ ok[t] => AllBelow(IF pc[t] = "started" THEN idx[t] + 1 ELSE idx[t])
    /\ job[t] = "rollback" /\ pc[t] = "count" => Prefix(0)
    /\ Stopping(t) => LET i == IF pc[t] = "vmcall" THEN idx[t] ELSE idx[t] + 1
                      IN  NoneBelow(i) /\ Prefix(i)
    /\ Stopping(t) /\ (~ok[t] \/ pc[t] = "terminated") => NoneBelow(InitialProcessors)

\* All of the initial processors run a VMM, or none.
Uniform == AllBelow(InitialProcessors) \/ NoneBelow(InitialProcessors)

\* So it is when no loop has begun.
Settled ==
  (\A t \in Threads : ~Starting(t) /\ ~Stopping(t) /\ job[t] # "rollback") => Uniform

\* Without the driver there is no VMM.
DriverFirst ==
  /\ pc["driver"] \in {"entry", "vminit", "unwind", "gone"} => NoneBelow(InitialProcessors)
  /\ pc["driver"] \notin {"entry", "unwind", "gone"} => up = HotplugUp

SerialControl == OneAtWork /\ JobAtLabel /\ FailureIsFresh

Storage == StartHasLive /\ SharedOutlivesUsers

Operation == VmxeCoversVmx /\ ClearedWhenOff

Installation == Progress /\ Settled /\ DriverFirst

\* The inductive invariant of the serialized threads.
SInv == IInv /\ SerialControl /\ Storage /\ Operation /\ LoopBounds /\ Installation

-----------------------------------------------------------------------------
\* A thread begins only while the others are outside, and keeps to its job.
LEMMA SerialControlInductive ==
  ASSUME Serialized, Control, SerialControl, [Next]_vars
  PROVE  SerialControl'
<1> USE DEF SerialControl, OneAtWork, JobAtLabel, FailureIsFresh, Outside, RootLabels, Threads,
            machine, memory, frame, system
<1>a. /\ pc \in [Threads -> Labels] /\ ok \in [Threads -> BOOLEAN]
      /\ job \in [Threads -> {"none", "start", "rollback", "stop", "plug"}]
      /\ SerialControl
  BY DEF Control, Types
<1>1. CASE DriverEntryInitializes
  BY <1>a, <1>1 DEF DriverEntryInitializes, Goto, HotplugUp
<1>2. CASE DriverEntryFails
  BY <1>a, <1>2 DEF DriverEntryFails, Goto
<1>3. CASE DriverUnload
  BY <1>a, <1>3 DEF DriverUnload, Goto, MayEnter, Quiet
<1>4. CASE DriverTerminates
  BY <1>a, <1>4 DEF DriverTerminates, Goto, HotplugUp
<1>5. CASE DriverGone
  BY <1>a, <1>5 DEF DriverGone, Goto
<1>6. CASE PowerSuspend
  BY <1>a, <1>6 DEF PowerSuspend, Goto, MayEnter, Quiet
<1>7. CASE PowerResume
  BY <1>a, <1>7 DEF PowerResume, Goto, MayEnter, Quiet
<1>8. CASE AddProcessor
  BY <1>a, <1>8 DEF AddProcessor, Goto, HotplugUp, MayEnter, Quiet
<1>9. CASE VmHotplugCallback
  BY <1>a, <1>9 DEF VmHotplugCallback, Goto, Return, Active
<1>10. CASE VmHotplugCallbackReturns
  BY <1>a, <1>10 DEF VmHotplugCallbackReturns, Goto, Return
<1>11. ASSUME NEW t \in Threads, VmInitialization(t) PROVE SerialControl'
  BY <1>a, <1>11 DEF VmInitialization, Goto
<1>12. ASSUME NEW t \in Threads, VmInitializationRefused(t) PROVE SerialControl'
  BY <1>a, <1>12 DEF VmInitializationRefused, Goto, Return, InitializationReturns
<1>13. ASSUME NEW t \in Threads, VmTerminationReturns(t) PROVE SerialControl'
  BY <1>a, <1>13 DEF VmTerminationReturns, Goto, Return
<1>14. ASSUME NEW t \in Threads, ForEachBegin(t) PROVE SerialControl'
  BY <1>a, <1>14 DEF ForEachBegin, Goto, Callback
<1>15. ASSUME NEW t \in Threads, ForEachNext(t) PROVE SerialControl'
  BY <1>a, <1>15 DEF ForEachNext, Goto, Callback, CallbackDone
<1>16. ASSUME NEW t \in Threads, ForEachEnd(t) PROVE SerialControl'
  BY <1>a, <1>16 DEF ForEachEnd, Goto, Return, InitializationReturns, CallbackDone
<1>17. ASSUME NEW t \in Threads, AllocateProcessorData(t) PROVE SerialControl'
  BY <1>a, <1>17 DEF AllocateProcessorData, Goto
<1>18. ASSUME NEW t \in Threads, AllocateRegions(t) PROVE SerialControl'
  BY <1>a, <1>18 DEF AllocateRegions, Goto
<1>19. ASSUME NEW t \in Threads, VmEnterVmxMode(t) PROVE SerialControl'
  BY <1>a, <1>19 DEF VmEnterVmxMode, Goto
<1>20. ASSUME NEW t \in Threads, VmInitializeVmcs(t) PROVE SerialControl'
  BY <1>a, <1>20 DEF VmInitializeVmcs, Goto
<1>21. ASSUME NEW t \in Threads, VmLaunchVm(t) PROVE SerialControl'
  BY <1>a, <1>21 DEF VmLaunchVm, Goto
<1>22. ASSUME NEW t \in Threads, VmxOff(t) PROVE SerialControl'
  BY <1>a, <1>22 DEF VmxOff, Goto
<1>23. ASSUME NEW t \in Threads, VmFreeProcessorData(t) PROVE SerialControl'
  BY <1>a, <1>23 DEF VmFreeProcessorData, Goto
<1>24. ASSUME NEW t \in Threads, VmStopVm(t) PROVE SerialControl'
  BY <1>a, <1>24 DEF VmStopVm, Goto
<1>25. ASSUME NEW t \in Threads, ClearVmxe(t) PROVE SerialControl'
  BY <1>a, <1>25 DEF ClearVmxe, Goto
<1>26. CASE UNCHANGED vars
  BY <1>a, <1>26 DEF vars
<1>27. QED
  BY <1>1, <1>2, <1>3, <1>4, <1>5, <1>6, <1>7, <1>8, <1>9, <1>10, <1>11, <1>12, <1>13, <1>14, <1>15, <1>16, <1>17, <1>18, <1>19, <1>20, <1>21, <1>22, <1>23, <1>24, <1>25, <1>26
     DEF Next, Environment, DriverStep, HotplugStep, VmStep

\* Whoever drops the last reference is the only one who holds the block.
LEMMA LastHolder ==
  ASSUME IInv, NEW t \in Threads, VmFreeProcessorData(t), refs[data[t]] = 1
  PROVE  /\ \A p \in Procs : vmm[p] # data[t]
         /\ \A u \in Threads : data[u] = data[t] => u = t
<1> DEFINE s == data[t]
<1>1. s \in SharedIds
  BY DEF IInv, Control, Types, HeldAtDataLabels, DataLabels, VmFreeProcessorData
<1>2. /\ IsFiniteSet(ProcHolders(s)) /\ Cardinality(ProcHolders(s)) \in Nat
      /\ IsFiniteSet(ThreadHolders(s)) /\ Cardinality(ThreadHolders(s)) \in Nat
  BY HoldersFinite, FS_Subset DEF ProcHolders, ThreadHolders
<1>3. t \in ThreadHolders(s)
  BY DEF ThreadHolders
<1>4. Cardinality(ThreadHolders(s)) # 0
  BY <1>2, <1>3, FS_EmptySet
<1>5. Cardinality(ProcHolders(s)) + Cardinality(ThreadHolders(s)) = 1
  BY <1>1 DEF IInv, RefCountExact
<1>6. Cardinality(ThreadHolders(s)) = 1 /\ Cardinality(ProcHolders(s)) = 0
  BY <1>2, <1>4, <1>5
<1>7. ProcHolders(s) = {}
  BY <1>2, <1>6, FS_EmptySet
<1>8. PICK u : ThreadHolders(s) = {u}
  BY <1>2, <1>6, FS_Singleton
<1>9. QED
  BY <1>3, <1>7, <1>8 DEF ProcHolders, ThreadHolders

\* Nobody frees a block that another uses, or is about to use.
LEMMA StorageInductive ==
  ASSUME Serialized, SInv, [Next]_vars
  PROVE  Storage'
<1> USE DEF Storage, StartHasLive, SharedOutlivesUsers, machine, memory, frame, system
<1>a. /\ "driver" \in Threads /\ "power" \in Threads /\ "hotplug" \in Threads
      /\ pc \in [Threads -> Labels] /\ ok \in [Threads -> BOOLEAN]
      /\ job \in [Threads -> {"none", "start", "rollback", "stop", "plug"}]
      /\ idx \in [Threads -> Procs] /\ mode \in [Procs -> {"off", "root", "guest"}]
      /\ sd \in [Threads -> SharedIds \union {None}] /\ data \in [Threads -> SharedIds \union {None}]
      /\ vmm \in [Procs -> SharedIds \union {None}]
      /\ heap \in [SharedIds -> {"none", "live", "freed"}]
      /\ Active \subseteq Procs /\ None \notin SharedIds
      /\ Storage
  BY ProcessorsAssumption, SharedAssumption DEF SInv, IInv, Control, Types, Threads, Active, Procs
<1>b. /\ \A t \in Threads : pc[t] = "alloc" => job[t] \in {"start", "plug"} /\ ok[t]
      /\ \A t \in Threads : pc[t] = "count" => job[t] # "plug" /\ ok[t]
      /\ \A t \in Threads : job[t] \in {"start", "plug"} => sd[t] \in SharedIds
      /\ \A t \in Threads : pc[t] \in {"launch", "free"} => data[t] \in SharedIds
      /\ \A p \in Procs : mode[p] = "guest" => vmm[p] \in SharedIds
  BY <1>a DEF SInv, IInv, Control, StartHasShared, HeldAtDataLabels, DataLabels, RootLabels, OwnedWhenGuest,
            SerialControl, FailureIsFresh, JobAtLabel
<1>1. CASE DriverEntryInitializes
  BY <1>a, <1>b, <1>1 DEF DriverEntryInitializes, Goto, HotplugUp
<1>2. CASE DriverEntryFails
  BY <1>a, <1>b, <1>2 DEF DriverEntryFails, Goto
<1>3. CASE DriverUnload
  BY <1>a, <1>b, <1>3 DEF DriverUnload, Goto, MayEnter, Quiet
<1>4. CASE DriverTerminates
  BY <1>a, <1>b, <1>4 DEF DriverTerminates, Goto, HotplugUp
<1>5. CASE DriverGone
  BY <1>a, <1>b, <1>5 DEF DriverGone, Goto
<1>6. CASE PowerSuspend
  BY <1>a, <1>b, <1>6 DEF PowerSuspend, Goto, MayEnter, Quiet
<1>7. CASE PowerResume
  BY <1>a, <1>b, <1>7 DEF PowerResume, Goto, MayEnter, Quiet
<1>8. CASE AddProcessor
  BY <1>a, <1>b, <1>8 DEF AddProcessor, Goto, HotplugUp, MayEnter, Quiet
<1>9. CASE VmHotplugCallback
  BY <1>a, <1>b, <1>9 DEF VmHotplugCallback, Goto, Return, Active
<1>10. CASE VmHotplugCallbackReturns
  BY <1>a, <1>b, <1>10 DEF VmHotplugCallbackReturns, Goto, Return
<1>11. ASSUME NEW t \in Threads, VmInitialization(t) PROVE Storage'
  BY <1>a, <1>b, <1>11 DEF VmInitialization, Goto
<1>12. ASSUME NEW t \in Threads, VmInitializationRefused(t) PROVE Storage'
  BY <1>a, <1>b, <1>12 DEF VmInitializationRefused, Goto, Return, InitializationReturns
<1>13. ASSUME NEW t \in Threads, VmTerminationReturns(t) PROVE Storage'
  BY <1>a, <1>b, <1>13 DEF VmTerminationReturns, Goto, Return
<1>14. ASSUME NEW t \in Threads, ForEachBegin(t) PROVE Storage'
  BY <1>a, <1>b, <1>14 DEF ForEachBegin, Goto, Callback
<1>15. ASSUME NEW t \in Threads, ForEachNext(t) PROVE Storage'
  BY <1>a, <1>b, <1>15 DEF ForEachNext, Goto, Callback, CallbackDone
<1>16. ASSUME NEW t \in Threads, ForEachEnd(t) PROVE Storage'
  BY <1>a, <1>b, <1>16 DEF ForEachEnd, Goto, Return, InitializationReturns, CallbackDone
<1>17. ASSUME NEW t \in Threads, AllocateProcessorData(t) PROVE Storage'
  BY <1>a, <1>b, <1>17 DEF AllocateProcessorData, Goto
<1>18. ASSUME NEW t \in Threads, AllocateRegions(t) PROVE Storage'
  BY <1>a, <1>b, <1>18 DEF AllocateRegions, Goto
<1>19. ASSUME NEW t \in Threads, VmEnterVmxMode(t) PROVE Storage'
  BY <1>a, <1>b, <1>19 DEF VmEnterVmxMode, Goto
<1>20. ASSUME NEW t \in Threads, VmInitializeVmcs(t) PROVE Storage'
  BY <1>a, <1>b, <1>20 DEF VmInitializeVmcs, Goto
<1>21. ASSUME NEW t \in Threads, VmLaunchVm(t) PROVE Storage'
  BY <1>a, <1>b, <1>21 DEF VmLaunchVm, Goto
<1>22. ASSUME NEW t \in Threads, VmxOff(t) PROVE Storage'
  BY <1>a, <1>b, <1>22 DEF VmxOff, Goto
<1>23. ASSUME NEW t \in Threads, VmFreeProcessorData(t) PROVE Storage'
  <2>1. data[t] \in SharedIds
    BY <1>b, <1>23 DEF VmFreeProcessorData
  <2>2. \A u \in Threads \ {t} : job[u] = "none" /\ pc[u] # "alloc"
    BY <1>a, <1>23 DEF VmFreeProcessorData, SInv, SerialControl, OneAtWork, JobAtLabel, Outside
  <2>3. /\ \A u \in Threads \ {t} : job'[u] = "none" /\ pc'[u] # "alloc"
        /\ pc'[t] # "alloc" /\ data'[t] = None /\ ~(job[t] \in {"start", "plug"} /\ ok'[t])
    BY <1>a, <2>2, <1>23 DEF VmFreeProcessorData, Goto
  <2>4. CASE refs[data[t]] = 1
    <3>1. /\ \A p \in Procs : vmm[p] # data[t]
          /\ \A u \in Threads : data[u] = data[t] => u = t
      BY <2>4, <1>23, LastHolder DEF SInv
    <3>2. heap' = [heap EXCEPT ![data[t]] = "freed"] /\ UNCHANGED <<mode, vmm, job, sd>>
      BY <2>4, <1>23 DEF VmFreeProcessorData
    <3>3. data' = [data EXCEPT ![t] = None]
      BY <1>23 DEF VmFreeProcessorData
    <3>4. \A p \in Procs : mode'[p] = "guest" => heap'[vmm'[p]] = "live"
      BY <1>a, <1>b, <3>1, <3>2
    <3>5. \A u \in Threads : data'[u] # None => heap'[data'[u]] = "live"
      BY <1>a, <3>1, <3>2, <3>3
    <3>6. QED
      BY <2>3, <3>2, <3>4, <3>5
  <2>5. CASE refs[data[t]] # 1
    BY <1>a, <1>b, <2>3, <2>5, <1>23 DEF VmFreeProcessorData
  <2>6. QED
    BY <2>4, <2>5
<1>24. ASSUME NEW t \in Threads, VmStopVm(t) PROVE Storage'
  BY <1>a, <1>b, <1>24 DEF VmStopVm, Goto
<1>25. ASSUME NEW t \in Threads, ClearVmxe(t) PROVE Storage'
  BY <1>a, <1>b, <1>25 DEF ClearVmxe, Goto
<1>26. CASE UNCHANGED vars
  BY <1>a, <1>b, <1>26 DEF vars
<1>27. QED
  BY <1>1, <1>2, <1>3, <1>4, <1>5, <1>6, <1>7, <1>8, <1>9, <1>10, <1>11, <1>12, <1>13, <1>14, <1>15, <1>16, <1>17, <1>18, <1>19, <1>20, <1>21, <1>22, <1>23, <1>24, <1>25, <1>26
     DEF Next, Environment, DriverStep, HotplugStep, VmStep

\* CR4.VMXE is cleared only where the VMCALL has left VMX operation, and no other
\* thread enters it in between.
LEMMA OperationInductive ==
  ASSUME Serialized, SInv, [Next]_vars
  PROVE  Operation'
<1> USE DEF Operation, VmxeCoversVmx, ClearedWhenOff, machine, memory, frame, system
<1>a. /\ "driver" \in Threads /\ "power" \in Threads /\ "hotplug" \in Threads
      /\ pc \in [Threads -> Labels] /\ idx \in [Threads -> Procs]
      /\ mode \in [Procs -> {"off", "root", "guest"}] /\ vmxe \in [Procs -> BOOLEAN]
      /\ Operation
  BY DEF SInv, IInv, Control, Types, Threads
<1>b. /\ \A t, u \in Threads : t # u => pc[t] \in {"idle", "loaded"} \/ pc[u] \in {"idle", "loaded"}
      /\ \A t \in Threads : pc[t] = "launch" => mode[idx[t]] = "root"
      /\ \A t \in Threads : pc[t] \in {"idle", "loaded"} => pc[t] # "clear"
  BY DEF SInv, IInv, VmxMutex, RootLabels, SerialControl, OneAtWork, Outside
<1>1. CASE DriverEntryInitializes
  BY <1>a, <1>b, <1>1 DEF DriverEntryInitializes, Goto, HotplugUp
<1>2. CASE DriverEntryFails
  BY <1>a, <1>b, <1>2 DEF DriverEntryFails, Goto
<1>3. CASE DriverUnload
  BY <1>a, <1>b, <1>3 DEF DriverUnload, Goto, MayEnter, Quiet
<1>4. CASE DriverTerminates
  BY <1>a, <1>b, <1>4 DEF DriverTerminates, Goto, HotplugUp
<1>5. CASE DriverGone
  BY <1>a, <1>b, <1>5 DEF DriverGone, Goto
<1>6. CASE PowerSuspend
  BY <1>a, <1>b, <1>6 DEF PowerSuspend, Goto, MayEnter, Quiet
<1>7. CASE PowerResume
  BY <1>a, <1>b, <1>7 DEF PowerResume, Goto, MayEnter, Quiet
<1>8. CASE AddProcessor
  BY <1>a, <1>b, <1>8 DEF AddProcessor, Goto, HotplugUp, MayEnter, Quiet
<1>9. CASE VmHotplugCallback
  BY <1>a, <1>b, <1>9 DEF VmHotplugCallback, Goto, Return, Active
<1>10. CASE VmHotplugCallbackReturns
  BY <1>a, <1>b, <1>10 DEF VmHotplugCallbackReturns, Goto, Return
<1>11. ASSUME NEW t \in Threads, VmInitialization(t) PROVE Operation'
  BY <1>a, <1>b, <1>11 DEF VmInitialization, Goto
<1>12. ASSUME NEW t \in Threads, VmInitializationRefused(t) PROVE Operation'
  BY <1>a, <1>b, <1>12 DEF VmInitializationRefused, Goto, Return, InitializationReturns
<1>13. ASSUME NEW t \in Threads, VmTerminationReturns(t) PROVE Operation'
  BY <1>a, <1>b, <1>13 DEF VmTerminationReturns, Goto, Return
<1>14. ASSUME NEW t \in Threads, ForEachBegin(t) PROVE Operation'
  BY <1>a, <1>b, <1>14 DEF ForEachBegin, Goto, Callback
<1>15. ASSUME NEW t \in Threads, ForEachNext(t) PROVE Operation'
  BY <1>a, <1>b, <1>15 DEF ForEachNext, Goto, Callback, CallbackDone
<1>16. ASSUME NEW t \in Threads, ForEachEnd(t) PROVE Operation'
  BY <1>a, <1>b, <1>16 DEF ForEachEnd, Goto, Return, InitializationReturns, CallbackDone
<1>17. ASSUME NEW t \in Threads, AllocateProcessorData(t) PROVE Operation'
  BY <1>a, <1>b, <1>17 DEF AllocateProcessorData, Goto
<1>18. ASSUME NEW t \in Threads, AllocateRegions(t) PROVE Operation'
  BY <1>a, <1>b, <1>18 DEF AllocateRegions, Goto
<1>19. ASSUME NEW t \in Threads, VmEnterVmxMode(t) PROVE Operation'
  BY <1>a, <1>b, <1>19 DEF VmEnterVmxMode, Goto
<1>20. ASSUME NEW t \in Threads, VmInitializeVmcs(t) PROVE Operation'
  BY <1>a, <1>b, <1>20 DEF VmInitializeVmcs, Goto
<1>21. ASSUME NEW t \in Threads, VmLaunchVm(t) PROVE Operation'
  BY <1>a, <1>b, <1>21 DEF VmLaunchVm, Goto
<1>22. ASSUME NEW t \in Threads, VmxOff(t) PROVE Operation'
  BY <1>a, <1>b, <1>22 DEF VmxOff, Goto
<1>23. ASSUME NEW t \in Threads, VmFreeProcessorData(t) PROVE Operation'
  BY <1>a, <1>b, <1>23 DEF VmFreeProcessorData, Goto
<1>24. ASSUME NEW t \in Threads, VmStopVm(t) PROVE Operation'
  BY <1>a, <1>b, <1>24 DEF VmStopVm, Goto
<1>25. ASSUME NEW t \in Threads, ClearVmxe(t) PROVE Operation'
  BY <1>a, <1>b, <1>25 DEF ClearVmxe, Goto
<1>26. CASE UNCHANGED vars
  BY <1>a, <1>b, <1>26 DEF vars
<1>27. QED
  BY <1>1, <1>2, <1>3, <1>4, <1>5, <1>6, <1>7, <1>8, <1>9, <1>10, <1>11, <1>12, <1>13, <1>14, <1>15, <1>16, <1>17, <1>18, <1>19, <1>20, <1>21, <1>22, <1>23, <1>24, <1>25, <1>26
     DEF Next, Environment, DriverStep, HotplugStep, VmStep

\* A thread that visits the processors stays among the active ones, and the callback
\* of an added processor away from the initial ones.
LEMMA LoopBoundsInductive ==
  ASSUME Serialized, SInv, [Next]_vars
  PROVE  LoopBounds'
<1> USE DEF LoopBounds, Points, RootLabels, machine, memory, frame, system
<1>a. /\ "driver" \in Threads /\ "power" \in Threads /\ "hotplug" \in Threads
      /\ pc \in [Threads -> Labels] /\ idx \in [Threads -> Procs] /\ cnt \in [Threads -> 0 .. MaxProcessors]
      /\ mode \in [Procs -> {"off", "root", "guest"}] /\ active \in 1 .. MaxProcessors
      /\ \A p \in Procs : p \in Nat
      /\ InitialProcessors \in Nat \ {0} /\ MaxProcessors \in Nat /\ 0 \in Procs
      /\ \A p \in Nat : p < MaxProcessors => p \in Procs
      /\ \A t \in Threads : cnt[t] \in Nat /\ idx[t] \in Nat
      /\ LoopBounds
  BY ProcessorsAssumption, SMTT(20) DEF SInv, IInv, Control, Types, Threads, Procs
<1>b. /\ pc["hotplug"] \notin {"vminit", "count", "stopped", "vmcall", "clear", "terminated"}
      /\ \A t \in Threads : pc[t] = "count" => t # "hotplug"
  BY <1>a DEF SInv, SerialControl, JobAtLabel
<1>1. CASE DriverEntryInitializes
  BY <1>a, <1>b, <1>1 DEF DriverEntryInitializes, Goto, HotplugUp
<1>2. CASE DriverEntryFails
  BY <1>a, <1>b, <1>2 DEF DriverEntryFails, Goto
<1>3. CASE DriverUnload
  BY <1>a, <1>b, <1>3 DEF DriverUnload, Goto, MayEnter, Quiet
<1>4. CASE DriverTerminates
  BY <1>a, <1>b, <1>4 DEF DriverTerminates, Goto, HotplugUp
<1>5. CASE DriverGone
  BY <1>a, <1>b, <1>5 DEF DriverGone, Goto
<1>6. CASE PowerSuspend
  BY <1>a, <1>b, <1>6 DEF PowerSuspend, Goto, MayEnter, Quiet
<1>7. CASE PowerResume
  BY <1>a, <1>b, <1>7 DEF PowerResume, Goto, MayEnter, Quiet
<1>8. CASE AddProcessor
  BY <1>a, <1>b, <1>8 DEF AddProcessor, Goto, HotplugUp, MayEnter, Quiet
<1>9. CASE VmHotplugCallback
  BY <1>a, <1>b, <1>9 DEF VmHotplugCallback, Goto, Return, Active
<1>10. CASE VmHotplugCallbackReturns
  BY <1>a, <1>b, <1>10 DEF VmHotplugCallbackReturns, Goto, Return
<1>11. ASSUME NEW t \in Threads, VmInitialization(t) PROVE LoopBounds'
  BY <1>a, <1>b, <1>11 DEF VmInitialization, Goto
<1>12. ASSUME NEW t \in Threads, VmInitializationRefused(t) PROVE LoopBounds'
  BY <1>a, <1>b, <1>12 DEF VmInitializationRefused, Goto, Return, InitializationReturns
<1>13. ASSUME NEW t \in Threads, VmTerminationReturns(t) PROVE LoopBounds'
  BY <1>a, <1>b, <1>13 DEF VmTerminationReturns, Goto, Return
<1>14. ASSUME NEW t \in Threads, ForEachBegin(t) PROVE LoopBounds'
  BY <1>a, <1>b, <1>14 DEF ForEachBegin, Goto, Callback
<1>15. ASSUME NEW t \in Threads, ForEachNext(t) PROVE LoopBounds'
  BY <1>a, <1>b, <1>15 DEF ForEachNext, Goto, Callback, CallbackDone
<1>16. ASSUME NEW t \in Threads, ForEachEnd(t) PROVE LoopBounds'
  BY <1>a, <1>b, <1>16 DEF ForEachEnd, Goto, Return, InitializationReturns, CallbackDone
<1>17. ASSUME NEW t \in Threads, AllocateProcessorData(t) PROVE LoopBounds'
  BY <1>a, <1>b, <1>17 DEF AllocateProcessorData, Goto
<1>18. ASSUME NEW t \in Threads, AllocateRegions(t) PROVE LoopBounds'
  BY <1>a, <1>b, <1>18 DEF AllocateRegions, Goto
<1>19. ASSUME NEW t \in Threads, VmEnterVmxMode(t) PROVE LoopBounds'
  BY <1>a, <1>b, <1>19 DEF VmEnterVmxMode, Goto
<1>20. ASSUME NEW t \in Threads, VmInitializeVmcs(t) PROVE LoopBounds'
  BY <1>a, <1>b, <1>20 DEF VmInitializeVmcs, Goto
<1>21. ASSUME NEW t \in Threads, VmLaunchVm(t) PROVE LoopBounds'
  BY <1>a, <1>b, <1>21 DEF VmLaunchVm, Goto
<1>22. ASSUME NEW t \in Threads, VmxOff(t) PROVE LoopBounds'
  BY <1>a, <1>b, <1>22 DEF VmxOff, Goto
<1>23. ASSUME NEW t \in Threads, VmFreeProcessorData(t) PROVE LoopBounds'
  BY <1>a, <1>b, <1>23 DEF VmFreeProcessorData, Goto
<1>24. ASSUME NEW t \in Threads, VmStopVm(t) PROVE LoopBounds'
  BY <1>a, <1>b, <1>24 DEF VmStopVm, Goto
<1>25. ASSUME NEW t \in Threads, ClearVmxe(t) PROVE LoopBounds'
  BY <1>a, <1>b, <1>25 DEF ClearVmxe, Goto
<1>26. CASE UNCHANGED vars
  BY <1>a, <1>b, <1>26 DEF vars
<1>27. QED
  BY <1>1, <1>2, <1>3, <1>4, <1>5, <1>6, <1>7, <1>8, <1>9, <1>10, <1>11, <1>12, <1>13, <1>14, <1>15, <1>16, <1>17, <1>18, <1>19, <1>20, <1>21, <1>22, <1>23, <1>24, <1>25, <1>26
     DEF Next, Environment, DriverStep, HotplugStep, VmStep

\* A loop that starts the processors leaves a prefix of them with a VMM, one that
\* stops them takes it away from the front; no step but these two moves that prefix.
LEMMA InstallationInductive ==
  ASSUME Serialized, SInv, [Next]_vars
  PROVE  Installation'
<1> USE DEF Installation, Progress, Settled, DriverFirst, Starting, Stopping, machine, memory, frame, system
<1>a. /\ "driver" \in Threads /\ "power" \in Threads /\ "hotplug" \in Threads
      /\ pc \in [Threads -> Labels] /\ idx \in [Threads -> Procs]
      /\ job \in [Threads -> {"none", "start", "rollback", "stop", "plug"}]
      /\ ok \in [Threads -> BOOLEAN] /\ up \in 0 .. 6 /\ HotplugUp = 6
      /\ mode \in [Procs -> {"off", "root", "guest"}]
      /\ Installation
  BY DEF SInv, IInv, Control, Types, Threads, HotplugUp
<1>b. SerialControl
  BY DEF SInv
<1>c. (\A p \in Initials : mode'[p] = "guest" <=> mode[p] = "guest") =>
        /\ Uniform' = Uniform
        /\ \A i : /\ AllBelow(i)' = AllBelow(i)
                  /\ NoneBelow(i)' = NoneBelow(i)
                  /\ Prefix(i)' = Prefix(i)
  BY DEF Uniform, AllBelow, NoneBelow, Prefix
<1>d. /\ \A p \in Initials : p \in Procs /\ p \in Nat /\ p < InitialProcessors
      /\ \A t \in Threads : idx[t] \in Nat /\ cnt[t] \in Nat
      /\ InitialProcessors \in Nat \ {0}
      /\ \A i \in Nat : i < InitialProcessors => i \in Initials
  BY <1>a, ProcessorsAssumption DEF SInv, IInv, Control, Types, Initials, Procs
<1>e. /\ pc["hotplug"] # "idle" => InitialProcessors <= idx["hotplug"]
      /\ \A t \in Threads : t # "hotplug" /\ pc[t] \in Points => InitialProcessors <= cnt[t]
      /\ \A t \in Threads : pc[t] \in RootLabels => mode[idx[t]] = "root"
  BY DEF SInv, IInv, LoopBounds, VmxMutex
<1> USE <1>b DEF SerialControl, OneAtWork, Outside, JobAtLabel, FailureIsFresh, RootLabels
<1>f. ASSUME NEW t \in Threads, pc[t] \notin Outside
      PROVE  \A u \in Threads \ {t} : pc[u] \in Outside /\ job[u] = "none"
  BY <1>f
<1>1. CASE DriverEntryInitializes
  BY <1>a, <1>c, <1>1 DEF DriverEntryInitializes, Goto, HotplugUp
<1>2. CASE DriverEntryFails
  BY <1>a, <1>c, <1>2 DEF DriverEntryFails, Goto
<1>3. CASE DriverUnload
  BY <1>a, <1>c, <1>3 DEF DriverUnload, Goto, MayEnter, Quiet
<1>4. CASE DriverTerminates
  BY <1>a, <1>c, <1>4 DEF DriverTerminates, Goto, HotplugUp
<1>5. CASE DriverGone
  BY <1>a, <1>c, <1>5 DEF DriverGone, Goto
<1>6. CASE PowerSuspend
  BY <1>a, <1>c, <1>6 DEF PowerSuspend, Goto, MayEnter, Quiet
<1>7. CASE PowerResume
  BY <1>a, <1>c, <1>7 DEF PowerResume, Goto, MayEnter, Quiet
<1>8. CASE AddProcessor
  BY <1>a, <1>c, <1>8 DEF AddProcessor, Goto, HotplugUp, MayEnter, Quiet
<1>9. CASE VmHotplugCallback
  BY <1>a, <1>c, <1>9 DEF VmHotplugCallback, Goto, Return, Active
<1>10. CASE VmHotplugCallbackReturns
  BY <1>a, <1>c, <1>10 DEF VmHotplugCallbackReturns, Goto, Return
<1>11. ASSUME NEW t \in Threads, VmInitialization(t) PROVE Installation'
  BY <1>a, <1>c, <1>11 DEF VmInitialization, Goto
<1>12. ASSUME NEW t \in Threads, VmInitializationRefused(t) PROVE Installation'
  BY <1>a, <1>c, <1>12 DEF VmInitializationRefused, Goto, Return, InitializationReturns
<1>13. ASSUME NEW t \in Threads, VmTerminationReturns(t) PROVE Installation'
  <2>1. NoneBelow(InitialProcessors) /\ job[t] = "stop"
    BY <1>a, <1>13 DEF VmTerminationReturns
  <2>2. Uniform
    BY <2>1 DEF Uniform
  <2>3. QED
    BY <1>a, <1>c, <2>1, <2>2, <1>13 DEF VmTerminationReturns, Goto, Return
<1>14. ASSUME NEW t \in Threads, ForEachBegin(t) PROVE Installation'
  <2>1. job[t] # "rollback" => Uniform
    BY <1>a, <1>f, <1>14 DEF ForEachBegin
  <2>2. job[t] = "rollback" => Prefix(0)
    BY <1>a, <1>14 DEF ForEachBegin
  <2>3. Uniform => Prefix(0)
    BY <1>d DEF Uniform, AllBelow, NoneBelow, Prefix
  <2>4. Prefix(0) /\ AllBelow(0) /\ NoneBelow(0)
    BY <1>d, <2>1, <2>2, <2>3 DEF AllBelow, NoneBelow
  <2>5. QED
    BY <1>a, <1>c, <1>f, <2>4, <1>14 DEF ForEachBegin, Goto, Callback
<1>15. ASSUME NEW t \in Threads, ForEachNext(t) PROVE Installation'
  BY <1>a, <1>c, <1>15 DEF ForEachNext, Goto, Callback, CallbackDone
<1>16. ASSUME NEW t \in Threads, ForEachEnd(t) PROVE Installation'
  <2>1. t # "hotplug" /\ pc[t] \in {"started", "stopped"} /\ InitialProcessors <= cnt[t]
    BY <1>e, <1>16 DEF ForEachEnd, CallbackDone, Points
  <2>2. CASE job[t] = "start" /\ ok[t]
    <3>1. AllBelow(idx[t] + 1) /\ InitialProcessors <= idx[t] + 1
      BY <1>a, <1>d, <2>1, <2>2, <1>16 DEF ForEachEnd
    <3>2. Uniform
      BY <1>d, <3>1 DEF AllBelow, Uniform
    <3>3. QED
      BY <1>a, <1>c, <1>f, <2>1, <2>2, <3>2, <1>16 DEF ForEachEnd, Goto, Return, InitializationReturns
  <2>3. CASE job[t] = "start" /\ ~ok[t]
    <3>1. Prefix(0)
      BY <1>a, <2>1, <2>3
    <3>2. /\ pc' = [pc EXCEPT ![t] = "count"] /\ job' = [job EXCEPT ![t] = "rollback"]
          /\ ok' = [ok EXCEPT ![t] = TRUE] /\ UNCHANGED <<mode, up>>
      BY <2>3, <1>16 DEF ForEachEnd, Goto
    <3>3. Prefix(0)' /\ NoneBelow(InitialProcessors)' = NoneBelow(InitialProcessors)
      BY <1>c, <3>1, <3>2
    <3>4. QED
      BY <1>a, <1>f, <2>1, <3>2, <3>3
  <2>4. CASE job[t] \in {"rollback", "stop"}
    <3>1. NoneBelow(InitialProcessors)
      <4>1. CASE ~ok[t]
        BY <2>1, <2>4, <4>1, <1>a
      <4>2. CASE ok[t]
        <5>1. NoneBelow(idx[t] + 1) /\ InitialProcessors <= idx[t] + 1
          BY <1>a, <1>d, <2>1, <2>4, <4>2, <1>16 DEF ForEachEnd
        <5>2. QED
          BY <1>d, <5>1 DEF NoneBelow
      <4>3. QED
        BY <4>1, <4>2
    <3>2. Uniform
      BY <3>1 DEF Uniform
    <3>3. CASE job[t] = "rollback"
      BY <1>a, <1>c, <1>f, <2>1, <3>1, <3>2, <3>3, <1>16 DEF ForEachEnd, Goto, Return, InitializationReturns
    <3>4. CASE job[t] = "stop"
      BY <1>a, <1>c, <1>f, <2>1, <3>1, <3>2, <3>4, <1>16 DEF ForEachEnd, Goto
    <3>5. QED
      BY <2>4, <3>3, <3>4
  <2>5. QED
    BY <2>1, <2>2, <2>3, <2>4, <1>16 DEF ForEachEnd
<1>17. ASSUME NEW t \in Threads, AllocateProcessorData(t) PROVE Installation'
  BY <1>a, <1>c, <1>17 DEF AllocateProcessorData, Goto
<1>18. ASSUME NEW t \in Threads, AllocateRegions(t) PROVE Installation'
  BY <1>a, <1>c, <1>18 DEF AllocateRegions, Goto
<1>19. ASSUME NEW t \in Threads, VmEnterVmxMode(t) PROVE Installation'
  <2>1. \A p \in Initials : mode'[p] = "guest" <=> mode[p] = "guest"
    BY <1>a, <1>d, <1>19 DEF VmEnterVmxMode
  <2>2. QED
    BY <1>a, <1>c, <1>f, <2>1, <1>19 DEF VmEnterVmxMode, Goto
<1>20. ASSUME NEW t \in Threads, VmInitializeVmcs(t) PROVE Installation'
  BY <1>a, <1>c, <1>20 DEF VmInitializeVmcs, Goto
<1>21. ASSUME NEW t \in Threads, VmLaunchVm(t) PROVE Installation'
  <2>1. CASE Goto(t, "vmxoff") /\ UNCHANGED mode
    BY <1>a, <1>c, <1>f, <2>1, <1>21 DEF VmLaunchVm, Goto
  <2>2. CASE mode' = [mode EXCEPT ![idx[t]] = "guest"] /\ Goto(t, "started") /\ job[t] = "plug"
    <3>1. \A p \in Initials : mode'[p] = "guest" <=> mode[p] = "guest"
      BY <1>a, <1>d, <1>e, <2>2, <1>21 DEF VmLaunchVm
    <3>2. QED
      BY <1>a, <1>c, <1>f, <2>2, <3>1, <1>21 DEF VmLaunchVm, Goto
  <2>3. CASE mode' = [mode EXCEPT ![idx[t]] = "guest"] /\ Goto(t, "started") /\ job[t] = "start"
    <3>1. Prefix(0) /\ AllBelow(idx[t])
      BY <1>a, <2>3, <1>21 DEF VmLaunchVm
    <3>2. Prefix(0)' /\ AllBelow(idx[t] + 1)'
      BY <1>a, <1>d, <2>3, <3>1, <1>21 DEF VmLaunchVm, Prefix, AllBelow
    <3>3. QED
      BY <1>a, <1>f, <2>3, <3>2, <1>21 DEF VmLaunchVm, Goto
  <2>4. QED
    BY <2>1, <2>2, <2>3, <1>21 DEF VmLaunchVm
<1>22. ASSUME NEW t \in Threads, VmxOff(t) PROVE Installation'
  <2>1. \A p \in Initials : mode'[p] = "guest" <=> mode[p] = "guest"
    BY <1>a, <1>d, <1>e, <1>22 DEF VmxOff
  <2>2. QED
    BY <1>a, <1>c, <1>f, <2>1, <1>22 DEF VmxOff, Goto
<1>23. ASSUME NEW t \in Threads, VmFreeProcessorData(t) PROVE Installation'
  BY <1>a, <1>c, <1>23 DEF VmFreeProcessorData, Goto
<1>24. ASSUME NEW t \in Threads, VmStopVm(t) PROVE Installation'
  <2>1. job[t] \in {"rollback", "stop"} /\ NoneBelow(idx[t]) /\ Prefix(idx[t])
    BY <1>a, <1>24 DEF VmStopVm
  <2>2. CASE mode[idx[t]] = "guest"
    <3>1. mode' = [mode EXCEPT ![idx[t]] = "off"] /\ idx' = idx
      BY <2>2, <1>24 DEF VmStopVm
    <3>2. NoneBelow(idx[t] + 1)'
      BY <1>a, <1>d, <2>1, <3>1 DEF NoneBelow
    <3>3. Prefix(idx[t] + 1)'
      BY <1>a, <1>d, <2>1, <3>1 DEF Prefix
    <3>4. QED
      BY <1>a, <1>f, <2>1, <2>2, <3>2, <3>3, <1>24 DEF VmStopVm, Goto
  <2>3. CASE mode[idx[t]] # "guest"
    <3>1. NoneBelow(InitialProcessors) /\ NoneBelow(idx[t] + 1) /\ Prefix(idx[t] + 1)
      BY <1>a, <1>d, <2>1, <2>3 DEF NoneBelow, Prefix
    <3>2. QED
      BY <1>a, <1>c, <1>f, <2>1, <2>3, <3>1, <1>24 DEF VmStopVm, Goto
  <2>4. QED
    BY <2>2, <2>3
<1>25. ASSUME NEW t \in Threads, ClearVmxe(t) PROVE Installation'
  BY <1>a, <1>c, <1>25 DEF ClearVmxe, Goto
<1>26. CASE UNCHANGED vars
  BY <1>a, <1>c, <1>26 DEF vars
<1>27. QED
  BY <1>1, <1>2, <1>3, <1>4, <1>5, <1>6, <1>7, <1>8, <1>9, <1>10, <1>11, <1>12, <1>13, <1>14, <1>15, <1>16, <1>17, <1>18, <1>19, <1>20, <1>21, <1>22, <1>23, <1>24, <1>25, <1>26
     DEF Next, Environment, DriverStep, HotplugStep, VmStep

\* SInv holds initially, is kept by every step, and so always holds.
LEMMA SInvInit == Init => SInv
<1> SUFFICES ASSUME Init PROVE SInv
  OBVIOUS
<1>1. SerialControl
  BY DEF Init, SerialControl, OneAtWork, JobAtLabel, FailureIsFresh, Outside, RootLabels, Threads
<1>2. Storage /\ Operation
  BY DEF Init, Storage, StartHasLive, SharedOutlivesUsers, Operation, VmxeCoversVmx, ClearedWhenOff
<1>3. LoopBounds
  BY ProcessorsAssumption DEF Init, LoopBounds, Points, RootLabels, Threads
<1>4. NoneBelow(InitialProcessors) /\ Uniform
  BY ProcessorsAssumption DEF Init, Uniform, NoneBelow, Initials, Procs
<1>5. Installation
  BY <1>4 DEF Init, Installation, Progress, Settled, DriverFirst, Starting, Stopping, Threads
<1>6. QED
  BY <1>1, <1>2, <1>3, <1>5, InitEstablishes DEF SInv

LEMMA SInvStep ==
  ASSUME Serialized, SInv, [Next]_vars
  PROVE  SInv'
<1>1. IInv'
  BY StepPreserves DEF SInv
<1>2. SerialControl'
  BY SerialControlInductive DEF SInv, IInv
<1>3. QED
  BY <1>1, <1>2, StorageInductive, OperationInductive, LoopBoundsInductive, InstallationInductive DEF SInv

LEMMA SInvAlways == ASSUME Serialized PROVE Spec => []SInv
BY SInvInit, SInvStep, PTL DEF Spec

\* No VMM, no thread that is freeing a PROCESSOR_DATA and no start is ever left
\* with a SHARED_PROCESSOR_DATA that VmFreeSharedData has freed.
THEOREM SharedAlwaysOutlivesUsers == ASSUME Serialized PROVE Spec => []SharedOutlivesUsers
<1>1. SInv => SharedOutlivesUsers
  BY DEF SInv, Storage
<1>2. QED
  BY <1>1, SInvAlways, PTL

\* No processor is in VMX operation without CR4.VMXE.
THEOREM VmxeAlwaysCoversVmx == ASSUME Serialized PROVE Spec => []VmxeCoversVmx
<1>1. SInv => VmxeCoversVmx
  BY DEF SInv, Operation
<1>2. QED
  BY <1>1, SInvAlways, PTL

\* VmInitialization and VmTermination leave all of the initial processors
\* virtualized or none of them.
THEOREM AlwaysAllOrNothing == ASSUME Serialized PROVE Spec => []AllOrNothing
<1>1. SInv => AllOrNothing
  <2> SUFFICES ASSUME SInv, \A t \in Threads : pc[t] \in {"idle", "loaded", "gone"}
               PROVE  \A p, q \in 0 .. InitialProcessors - 1 : mode[p] = "guest" => mode[q] = "guest"
    BY DEF AllOrNothing, VmIsHyperPlatformInstalled
  <2>1. \A t \in Threads : job[t] = "none"
    BY DEF SInv, SerialControl, JobAtLabel, Outside
  <2>2. Uniform
    BY <2>1 DEF SInv, Installation, Settled, Starting, Stopping
  <2>3. QED
    BY <2>2, ProcessorsAssumption DEF Uniform, AllBelow, NoneBelow, Initials
<1>2. QED
  BY <1>1, SInvAlways, PTL

\* No processor the driver was loaded on runs a VMM without the driver.
THEOREM GuestsAlwaysHaveDriver == ASSUME Serialized PROVE Spec => []GuestsNeedDriver
<1>1. SInv => GuestsNeedDriver
  <2> SUFFICES ASSUME SInv, NEW p \in Initials, mode[p] = "guest"
               PROVE  up >= PerfUp
    BY DEF GuestsNeedDriver, Initials
  <2>1. ~NoneBelow(InitialProcessors)
    BY ProcessorsAssumption DEF NoneBelow, Initials
  <2>2. QED
    BY <2>1 DEF SInv, Installation, DriverFirst, HotplugUp, PerfUp
<1>2. QED
  BY <1>1, SInvAlways, PTL

-----------------------------------------------------------------------------
(* The reference count implements SharedLifetime                           *)

\* The users of a block, element by element.
LEMMA UsersOf ==
  ASSUME NEW s \in SharedIds
  PROVE  /\ \A t : <<"thread", t>> \in SharedUsers[s] <=> t \in Threads /\ data[t] = s
         /\ \A p : <<"vmm", p>> \in SharedUsers[s] <=> p \in Procs /\ vmm[p] = s
         /\ \A u \in SharedUsers[s] : \/ \E t \in Threads : u = <<"thread", t>>
                                      \/ \E p \in Procs : u = <<"vmm", p>>
BY DEF SharedUsers, ProcHolders, ThreadHolders

\* A step that changes the users of one block.
LEMMA UsersChange ==
  ASSUME NEW s \in SharedIds, NEW A,
         \A x \in SharedIds : SharedUsers'[x] = IF x = s THEN A ELSE SharedUsers[x]
  PROVE  SharedUsers' = [SharedUsers EXCEPT ![s] = A]
<1> DEFINE U == SharedUsers
           V == SharedUsers'
<1>1. U = [x \in SharedIds |-> U[x]] /\ V = [x \in SharedIds |-> V[x]]
  BY DEF SharedUsers
<1>2. \A x \in SharedIds : V[x] = IF x = s THEN A ELSE U[x]
  OBVIOUS
<1> HIDE DEF U, V
<1>3. V = [U EXCEPT ![s] = A]
  BY <1>1, <1>2
<1>4. QED
  BY <1>3 DEF U, V

\* VmInitializeVm takes a reference.
LEMMA AllocateAcquires ==
  ASSUME SInv, NEW t \in Threads, AllocateProcessorData(t)
  PROVE  [Shared!Next]_<<heap, SharedUsers>>
<1> USE DEF machine, memory, frame, system
<1>1. CASE UNCHANGED <<data, refs>>
  BY <1>1 DEF AllocateProcessorData, SharedUsers, ProcHolders, ThreadHolders
<1>2. CASE data' = [data EXCEPT ![t] = sd[t]]
  <2> DEFINE s == sd[t]
             u == <<"thread", t>>
  <2>1. s \in SharedIds /\ heap[s] = "live" /\ data[t] = None /\ None \notin SharedIds
        /\ DOMAIN data = Threads
    BY SharedAssumption
    DEF AllocateProcessorData, SInv, IInv, Control, Types, StartHasShared, HeldAtDataLabels, DataLabels,
        RootLabels, Storage, SharedOutlivesUsers
  <2>2. u \in Users /\ u \notin SharedUsers[s]
    BY <2>1, UsersOf DEF Users
  <2>3. UNCHANGED <<heap, vmm>>
    BY <1>2 DEF AllocateProcessorData
  <2>4. ASSUME NEW x \in SharedIds
        PROVE  SharedUsers'[x] = IF x = s THEN SharedUsers[s] \union {u} ELSE SharedUsers[x]
    BY <1>2, <2>1, <2>3 DEF SharedUsers, ProcHolders, ThreadHolders
  <2>5. SharedUsers' = [SharedUsers EXCEPT ![s] = @ \union {u}]
    BY <2>1, <2>4, UsersChange
  <2>6. Shared!Acquire(s, u)
    BY <2>1, <2>2, <2>3, <2>5 DEF Shared!Acquire
  <2>7. QED
    BY <2>1, <2>2, <2>6 DEF Shared!Next
<1>3. QED
  BY <1>1, <1>2 DEF AllocateProcessorData

\* VMLAUNCH passes the use of the block from the thread to the VMM.
LEMMA LaunchHandsOver ==
  ASSUME SInv, NEW t \in Threads, VmLaunchVm(t)
  PROVE  [Shared!Next]_<<heap, SharedUsers>>
<1> USE DEF machine, memory, frame, system
<1>1. CASE UNCHANGED <<mode, vmm, data>>
  BY <1>1 DEF VmLaunchVm, SharedUsers, ProcHolders, ThreadHolders
<1>2. CASE vmm' = [vmm EXCEPT ![idx[t]] = data[t]] /\ data' = [data EXCEPT ![t] = None]
  <2> DEFINE s == data[t]
             u == <<"thread", t>>
             v == <<"vmm", idx[t]>>
  <2>1. /\ s \in SharedIds /\ None \notin SharedIds /\ DOMAIN data = Threads
        /\ DOMAIN vmm = Procs /\ idx[t] \in Procs
    BY SharedAssumption
    DEF VmLaunchVm, SInv, IInv, Control, Types, HeldAtDataLabels, DataLabels, RootLabels
  <2>2. mode[idx[t]] = "root"
    BY DEF VmLaunchVm, SInv, IInv, VmxMutex, RootLabels
  <2>3. heap[s] = "live" /\ vmm[idx[t]] = None
    BY <2>1, <2>2 DEF SInv, IInv, Control, OwnedWhenGuest, Storage, SharedOutlivesUsers
  <2>4. u \in Users /\ v \in Users /\ u \in SharedUsers[s] /\ v \notin SharedUsers[s]
    BY <2>1, <2>3, UsersOf DEF Users
  <2>5. ASSUME NEW x \in SharedIds
        PROVE  SharedUsers'[x] = IF x = s THEN (SharedUsers[s] \ {u}) \union {v} ELSE SharedUsers[x]
    BY <1>2, <2>1, <2>3 DEF SharedUsers, ProcHolders, ThreadHolders
  <2>6. SharedUsers' = [SharedUsers EXCEPT ![s] = (@ \ {u}) \union {v}]
    BY <2>1, <2>5, UsersChange
  <2>7. UNCHANGED heap
    BY DEF VmLaunchVm
  <2>8. Shared!HandOver(s, u, v)
    BY <2>3, <2>4, <2>6, <2>7 DEF Shared!HandOver
  <2>9. QED
    BY <2>1, <2>4, <2>8 DEF Shared!Next
<1>3. QED
  BY <1>1, <1>2 DEF VmLaunchVm

\* The VMCALL that terminates a VMM passes it back to the thread.
LEMMA StopHandsOver ==
  ASSUME SInv, NEW t \in Threads, VmStopVm(t)
  PROVE  [Shared!Next]_<<heap, SharedUsers>>
<1> USE DEF machine, memory, frame, system
<1>1. CASE mode[idx[t]] # "guest"
  BY <1>1 DEF VmStopVm, SharedUsers, ProcHolders, ThreadHolders
<1>2. CASE mode[idx[t]] = "guest"
  <2> DEFINE s == vmm[idx[t]]
             u == <<"vmm", idx[t]>>
             v == <<"thread", t>>
  <2>1. /\ None \notin SharedIds /\ DOMAIN data = Threads
        /\ DOMAIN vmm = Procs /\ idx[t] \in Procs /\ s \in SharedIds
    BY <1>2, SharedAssumption DEF SInv, IInv, Control, Types, OwnedWhenGuest
  <2>2. heap[s] = "live" /\ data[t] = None
    BY <1>2, <2>1
    DEF VmStopVm, SInv, IInv, Control, HeldAtDataLabels, DataLabels, RootLabels, Storage,
        SharedOutlivesUsers
  <2>3. u \in Users /\ v \in Users /\ u \in SharedUsers[s] /\ v \notin SharedUsers[s]
    BY <2>1, <2>2, UsersOf DEF Users
  <2>4. /\ data' = [data EXCEPT ![t] = s] /\ vmm' = [vmm EXCEPT ![idx[t]] = None]
        /\ UNCHANGED heap
    BY <1>2 DEF VmStopVm
  <2>5. ASSUME NEW x \in SharedIds
        PROVE  SharedUsers'[x] = IF x = s THEN (SharedUsers[s] \ {u}) \union {v} ELSE SharedUsers[x]
    BY <2>1, <2>2, <2>4 DEF SharedUsers, ProcHolders, ThreadHolders
  <2>6. SharedUsers' = [SharedUsers EXCEPT ![s] = (@ \ {u}) \union {v}]
    BY <2>1, <2>5, UsersChange
  <2>7. Shared!HandOver(s, u, v)
    BY <2>2, <2>3, <2>4, <2>6 DEF Shared!HandOver
  <2>8. QED
    BY <2>1, <2>3, <2>7 DEF Shared!Next
<1>3. QED
  BY <1>1, <1>2

\* VmFreeProcessorData gives the use up, and frees the block exactly when no other
\* use is left.
LEMMA FreeReleases ==
  ASSUME SInv, NEW t \in Threads, VmFreeProcessorData(t)
  PROVE  [Shared!Next]_<<heap, SharedUsers>>
<1> USE DEF machine, memory, frame, system
<1> DEFINE s == data[t]
           u == <<"thread", t>>
<1>1. s \in SharedIds /\ None \notin SharedIds /\ DOMAIN data = Threads
  BY SharedAssumption
  DEF VmFreeProcessorData, SInv, IInv, Control, Types, HeldAtDataLabels, DataLabels, RootLabels
<1>2. heap[s] = "live"
  BY <1>1 DEF SInv, Storage, SharedOutlivesUsers
<1>3. u \in Users /\ u \in SharedUsers[s]
  BY <1>1, UsersOf DEF Users
<1>4. data' = [data EXCEPT ![t] = None] /\ UNCHANGED vmm
  BY DEF VmFreeProcessorData
<1>5. ASSUME NEW x \in SharedIds
      PROVE  SharedUsers'[x] = IF x = s THEN SharedUsers[s] \ {u} ELSE SharedUsers[x]
  BY <1>1, <1>4 DEF SharedUsers, ProcHolders, ThreadHolders
<1>6. SharedUsers' = [SharedUsers EXCEPT ![s] = @ \ {u}]
  BY <1>1, <1>5, UsersChange
<1>7. SharedUsers[s] = {u} <=> refs[s] = 1
  <2>1. ASSUME refs[s] = 1 PROVE SharedUsers[s] = {u}
    <3>1. /\ \A p \in Procs : vmm[p] # s
          /\ \A w \in Threads : data[w] = s => w = t
      BY <2>1, LastHolder DEF SInv
    <3>2. QED
      BY <1>1, <1>3, <3>1, UsersOf
  <2>2. ASSUME SharedUsers[s] = {u} PROVE refs[s] = 1
    <3>1. ProcHolders(s) = {}
      BY <1>1, <2>2, UsersOf DEF ProcHolders
    <3>2. ThreadHolders(s) = {t}
      BY <1>1, <2>2, UsersOf, ZenonT(40) DEF ThreadHolders
    <3>3. Cardinality(ProcHolders(s)) = 0 /\ Cardinality(ThreadHolders(s)) = 1
      BY <3>1, <3>2, FS_EmptySet, FS_Singleton
    <3>4. QED
      BY <1>1, <3>3 DEF SInv, IInv, RefCountExact
  <2>3. QED
    BY <2>1, <2>2
<1>8. heap' = IF SharedUsers[s] = {u} THEN [heap EXCEPT ![s] = "freed"] ELSE heap
  BY <1>7 DEF VmFreeProcessorData
<1>9. Shared!Release(s, u)
  BY <1>2, <1>3, <1>6, <1>8 DEF Shared!Release
<1>10. QED
  BY <1>1, <1>3, <1>9 DEF Shared!Next

\* SHARED_PROCESSOR_DATA with its ReferenceCount is a block that is freed when the
\* last of its users leaves, at no other time, and never used again.
THEOREM SharedDataImplementsLifetime == ASSUME Serialized PROVE Spec => SharedSpec
<1>1. Init => Shared!Init
  <2> SUFFICES ASSUME Init PROVE Shared!Init
    OBVIOUS
  <2>1. \A s \in SharedIds : ProcHolders(s) = {} /\ ThreadHolders(s) = {}
    BY SharedAssumption DEF Init, ProcHolders, ThreadHolders
  <2>2. \A s \in SharedIds : SharedUsers[s] = {}
    BY <2>1 DEF SharedUsers
  <2>3. SharedUsers = [s \in SharedIds |-> {}]
    BY <2>2 DEF SharedUsers
  <2>4. QED
    BY <2>3 DEF Init, Shared!Init
<1>2. ASSUME SInv, [Next]_vars
      PROVE  [Shared!Next]_<<heap, SharedUsers>>
  <2> USE DEF machine, memory, frame, system
  <2>1. CASE UNCHANGED <<mode, vmm, heap, refs, data>>
    BY <2>1 DEF SharedUsers, ProcHolders, ThreadHolders
  <2>2. ASSUME NEW t \in Threads, VmInitialization(t)
        PROVE  [Shared!Next]_<<heap, SharedUsers>>
    <3>1. PICK s \in SharedIds : heap[s] = "none" /\ heap' = [heap EXCEPT ![s] = "live"]
      BY <2>2 DEF VmInitialization
    <3>2. UNCHANGED SharedUsers
      BY <2>2 DEF VmInitialization, SharedUsers, ProcHolders, ThreadHolders
    <3>3. Shared!Allocate(s)
      BY <3>1, <3>2 DEF Shared!Allocate
    <3>4. QED
      BY <3>1, <3>3 DEF Shared!Next
  <2>3. ASSUME NEW t \in Threads, VmEnterVmxMode(t) \/ VmxOff(t)
        PROVE  [Shared!Next]_<<heap, SharedUsers>>
    BY <2>3 DEF VmEnterVmxMode, VmxOff, SharedUsers, ProcHolders, ThreadHolders
  <2>4. QED
    BY <1>2, <2>1, <2>2, <2>3, OtherSteps, AllocateAcquires, LaunchHandsOver, StopHandsOver,
       FreeReleases
    DEF Touches
<1>3. QED
  BY <1>1, <1>2, SInvAlways, PTL DEF Spec, SharedSpec, Shared!Spec

-----------------------------------------------------------------------------
(* Without the failure of VMCLEAR and VMPTRLD, however the threads interleave *)

\* A processor comes into VMX root by VMXON, and the thread that did it goes on until
\* the processor is a guest or has left VMX operation.
LEMMA VmxRootOwnedInductive ==
  ASSUME ~VmcsMayFail, IInv, VmxRootOwned, [Next]_vars
  PROVE  VmxRootOwned'
<1> USE DEF VmxRootOwned, RootLabels, machine, memory, frame, system
<1>a. /\ "driver" \in Threads /\ "power" \in Threads /\ "hotplug" \in Threads
      /\ pc \in [Threads -> Labels] /\ idx \in [Threads -> Procs]
      /\ mode \in [Procs -> {"off", "root", "guest"}]
      /\ VmxRootOwned
  BY DEF IInv, Control, Types, Threads
<1>1. CASE DriverEntryInitializes
  BY <1>a, <1>1 DEF DriverEntryInitializes, Goto, HotplugUp
<1>2. CASE DriverEntryFails
  BY <1>a, <1>2 DEF DriverEntryFails, Goto
<1>3. CASE DriverUnload
  BY <1>a, <1>3 DEF DriverUnload, Goto, MayEnter, Quiet
<1>4. CASE DriverTerminates
  BY <1>a, <1>4 DEF DriverTerminates, Goto, HotplugUp
<1>5. CASE DriverGone
  BY <1>a, <1>5 DEF DriverGone, Goto
<1>6. CASE PowerSuspend
  BY <1>a, <1>6 DEF PowerSuspend, Goto, MayEnter, Quiet
<1>7. CASE PowerResume
  BY <1>a, <1>7 DEF PowerResume, Goto, MayEnter, Quiet
<1>8. CASE AddProcessor
  BY <1>a, <1>8 DEF AddProcessor, Goto, HotplugUp, MayEnter, Quiet
<1>9. CASE VmHotplugCallback
  BY <1>a, <1>9 DEF VmHotplugCallback, Goto, Return, Active
<1>10. CASE VmHotplugCallbackReturns
  BY <1>a, <1>10 DEF VmHotplugCallbackReturns, Goto, Return
<1>11. ASSUME NEW t \in Threads, VmInitialization(t) PROVE VmxRootOwned'
  BY <1>a, <1>11 DEF VmInitialization, Goto
<1>12. ASSUME NEW t \in Threads, VmInitializationRefused(t) PROVE VmxRootOwned'
  BY <1>a, <1>12 DEF VmInitializationRefused, Goto, Return, InitializationReturns
<1>13. ASSUME NEW t \in Threads, VmTerminationReturns(t) PROVE VmxRootOwned'
  BY <1>a, <1>13 DEF VmTerminationReturns, Goto, Return
<1>14. ASSUME NEW t \in Threads, ForEachBegin(t) PROVE VmxRootOwned'
  BY <1>a, <1>14 DEF ForEachBegin, Goto, Callback
<1>15. ASSUME NEW t \in Threads, ForEachNext(t) PROVE VmxRootOwned'
  BY <1>a, <1>15 DEF ForEachNext, Goto, Callback, CallbackDone
<1>16. ASSUME NEW t \in Threads, ForEachEnd(t) PROVE VmxRootOwned'
  BY <1>a, <1>16 DEF ForEachEnd, Goto, Return, InitializationReturns, CallbackDone
<1>17. ASSUME NEW t \in Threads, AllocateProcessorData(t) PROVE VmxRootOwned'
  BY <1>a, <1>17 DEF AllocateProcessorData, Goto
<1>18. ASSUME NEW t \in Threads, AllocateRegions(t) PROVE VmxRootOwned'
  BY <1>a, <1>18 DEF AllocateRegions, Goto
<1>19. ASSUME NEW t \in Threads, VmEnterVmxMode(t) PROVE VmxRootOwned'
  BY <1>a, <1>19 DEF VmEnterVmxMode, Goto
<1>20. ASSUME NEW t \in Threads, VmInitializeVmcs(t) PROVE VmxRootOwned'
  BY <1>a, <1>20 DEF VmInitializeVmcs, Goto
<1>21. ASSUME NEW t \in Threads, VmLaunchVm(t) PROVE VmxRootOwned'
  BY <1>a, <1>21 DEF VmLaunchVm, Goto
<1>22. ASSUME NEW t \in Threads, VmxOff(t) PROVE VmxRootOwned'
  BY <1>a, <1>22 DEF VmxOff, Goto
<1>23. ASSUME NEW t \in Threads, VmFreeProcessorData(t) PROVE VmxRootOwned'
  BY <1>a, <1>23 DEF VmFreeProcessorData, Goto
<1>24. ASSUME NEW t \in Threads, VmStopVm(t) PROVE VmxRootOwned'
  BY <1>a, <1>24 DEF VmStopVm, Goto
<1>25. ASSUME NEW t \in Threads, ClearVmxe(t) PROVE VmxRootOwned'
  BY <1>a, <1>25 DEF ClearVmxe, Goto
<1>26. CASE UNCHANGED vars
  BY <1>a, <1>26 DEF vars
<1>27. QED
  BY <1>1, <1>2, <1>3, <1>4, <1>5, <1>6, <1>7, <1>8, <1>9, <1>10, <1>11, <1>12, <1>13, <1>14, <1>15, <1>16, <1>17, <1>18, <1>19, <1>20, <1>21, <1>22, <1>23, <1>24, <1>25, <1>26
     DEF Next, Environment, DriverStep, HotplugStep, VmStep

\* Where VMCLEAR and VMPTRLD succeed, no processor is forgotten in VMX root.
THEOREM VmxRootAlwaysOwned == ASSUME ~VmcsMayFail PROVE Spec => []VmxRootOwned
<1>1. Init => VmxRootOwned
  BY DEF Init, VmxRootOwned
<1>2. IInv /\ VmxRootOwned /\ [Next]_vars => VmxRootOwned'
  BY VmxRootOwnedInductive
<1>3. QED
  BY <1>1, <1>2, IInvAlways, PTL DEF Spec

=============================================================================
