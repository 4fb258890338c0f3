---------------------------- MODULE VmLifecycle ----------------------------
(***************************************************************************)
(* How MyHyperPlatform virtualizes and de-virtualizes the processors of a  *)
(* machine (VM.cpp, the loop of Util.cpp, DriverEntry.cpp and the two      *)
(* system callbacks that re-enter VM.cpp).                                 *)
(*                                                                         *)
(* Three threads of control run the code: the driver's own (DriverEntry,   *)
(* DriverUnload), the power callback and the processor hot-add callback.   *)
(* Nothing in the source keeps them apart, so every step of one may fall   *)
(* between two steps of another.  A thread runs one function at a time;    *)
(* pc names the point it has reached and the other per-thread variables    *)
(* are the locals of the function it is in.  Locals are reset when the     *)
(* function returns.                                                       *)
(***************************************************************************)
EXTENDS Integers, FiniteSets

CONSTANTS
  MaxProcessors,      \* Bound: processor indexes are 0 .. MaxProcessors-1.
  InitialProcessors,  \* Processors active when the driver is loaded.
  SharedIds,          \* Bound: the SHARED_PROCESSOR_DATA blocks one run may allocate.
  None,               \* The null pointer.
  MaxPowerEvents,     \* Bound: how often the system is suspended or resumed.
  Serialized,         \* Whether the system runs the three threads one at a time.
  VmcsMayFail         \* Whether VMCLEAR or VMPTRLD may fail on this hardware.

ASSUME ProcessorsAssumption ==
  /\ MaxProcessors \in Nat \ {0}
  /\ InitialProcessors \in 1 .. MaxProcessors

ASSUME SharedAssumption == None \notin SharedIds

ASSUME EnvironmentAssumption ==
  /\ MaxPowerEvents \in Nat
  /\ Serialized \in BOOLEAN
  /\ VmcsMayFail \in BOOLEAN

Procs   == 0 .. MaxProcessors - 1
Threads == {"driver", "power", "hotplug"}

(***************************************************************************)
(* The components DriverEntry brings up, in this order: Log, Global, Perf, *)
(* Util, Power, Hotplug.  up counts those initialised and not yet          *)
(* terminated; the last two are the callback registrations.                *)
(***************************************************************************)
PerfUp    == 3
PowerUp   == 5
HotplugUp == 6

VARIABLES
  active,   \* number of active processors
  mode,     \* per processor: outside VMX operation, in VMX root, or running as a guest
  vmxe,     \* per processor: CR4.VMXE
  vmm,      \* per processor: SharedData of the PROCESSOR_DATA its VMM runs on
  heap,     \* per SHARED_PROCESSOR_DATA: not allocated yet, allocated, freed
  refs,     \* per SHARED_PROCESSOR_DATA: its ReferenceCount
  pc,       \* per thread: control point
  job,      \* per thread: what the processors are being visited for
  idx,      \* per thread: the processor the thread is pinned to
  cnt,      \* per thread: NumberOfProcessors read by UtilForEachProcessor
  sd,       \* per thread: the SharedData pointer passed as Context
  data,     \* per thread: SharedData of the PROCESSOR_DATA the thread holds
  ok,       \* per thread: result of the callback just run on a processor
  up,       \* number of initialised components
  asleep,   \* whether the system is suspended
  events    \* suspends and resumes so far

machine == <<active, mode, vmxe, vmm>>
memory  == <<heap, refs>>
frame   == <<job, idx, cnt, sd, data, ok>>
system  == <<up, asleep, events>>
vars    == <<machine, memory, pc, frame, system>>

Active == 0 .. active - 1

VmIsHyperPlatformInstalled(p) == mode[p] = "guest"

-----------------------------------------------------------------------------
(* Control points                                                          *)

Goto(t, label) == pc' = [pc EXCEPT ![t] = label]

\* The function a thread was in returns; its locals are gone.
Return(t, label) ==
  /\ Goto(t, label)
  /\ job' = [job EXCEPT ![t] = "none"]
  /\ idx' = [idx EXCEPT ![t] = 0]
  /\ cnt' = [cnt EXCEPT ![t] = 0]
  /\ sd'  = [sd  EXCEPT ![t] = None]
  /\ ok'  = [ok  EXCEPT ![t] = TRUE]
  /\ UNCHANGED data

\* What the caller of VmInitialization does with its status.
InitializationReturns(t, success) ==
  Return(t, IF t = "power" THEN "idle" ELSE IF success THEN "loaded" ELSE "unwind")

\* Every other thread is outside VM.cpp.
Quiet(t) == \A u \in Threads \ {t} : pc[u] \in {"idle", "loaded"}

MayEnter(t) == Serialized => Quiet(t)

-----------------------------------------------------------------------------
Init ==
  /\ active = InitialProcessors
  /\ mode   = [p \in Procs |-> "off"]
  /\ vmxe   = [p \in Procs |-> FALSE]
  /\ vmm    = [p \in Procs |-> None]
  /\ heap   = [s \in SharedIds |-> "none"]
  /\ refs   = [s \in SharedIds |-> 0]
  /\ pc     = [t \in Threads |-> IF t = "driver" THEN "entry" ELSE "idle"]
  /\ job    = [t \in Threads |-> "none"]
  /\ idx    = [t \in Threads |-> 0]
  /\ cnt    = [t \in Threads |-> 0]
  /\ sd     = [t \in Threads |-> None]
  /\ data   = [t \in Threads |-> None]
  /\ ok     = [t \in Threads |-> TRUE]
  /\ up     = 0
  /\ asleep = FALSE
  /\ events = 0

-----------------------------------------------------------------------------
(* DriverEntry.cpp                                                         *)

\* One more component comes up; after the last one VmInitialization is called.
DriverEntryInitializes ==
  /\ pc["driver"] = "entry"
  /\ up' = up + 1
  /\ Goto("driver", IF up + 1 = HotplugUp THEN "vminit" ELSE "entry")
  /\ UNCHANGED <<machine, memory, frame, asleep, events>>

\* A component fails (or, once the log is up, IsSupportedOS refuses): what is
\* up is terminated in reverse.
DriverEntryFails ==
  /\ pc["driver"] = "entry"
  /\ Goto("driver", "unwind")
  /\ UNCHANGED <<machine, memory, frame, system>>

\* Mutant: the driver unloads without VmTermination.
DriverUnloadKeepsVmm ==
  /\ pc["driver"] = "loaded"
  /\ MayEnter("driver")
  /\ Goto("driver", "unwind")
  /\ UNCHANGED <<machine, memory, frame, system>>

\* DriverUnload calls VmTermination first.
DriverUnload ==
  /\ pc["driver"] = "loaded"
  /\ MayEnter("driver")
  /\ Goto("driver", "count")
  /\ job' = [job EXCEPT !["driver"] = "stop"]
  /\ UNCHANGED <<machine, memory, idx, cnt, sd, data, ok, system>>

\* One component is terminated.  Deregistering a callback waits until the
\* callback is not running.
DriverTerminates ==
  /\ pc["driver"] = "unwind"
  /\ up > 0
  /\ up = HotplugUp => pc["hotplug"] = "idle"
  /\ up = PowerUp   => pc["power"] = "idle"
  /\ up' = up - 1
  /\ UNCHANGED <<machine, memory, pc, frame, asleep, events>>

DriverGone ==
  /\ pc["driver"] = "unwind"
  /\ up = 0
  /\ Goto("driver", "gone")
  /\ UNCHANGED <<machine, memory, frame, system>>

-----------------------------------------------------------------------------
(* PowerCallback.cpp and HotplugCallback.cpp                               *)

\* The system is about to be suspended: PowerCallbackRoutine calls VmTermination.
PowerSuspend ==
  /\ pc["power"] = "idle"
  /\ up >= PowerUp
  /\ ~asleep
  /\ events < MaxPowerEvents
  /\ MayEnter("power")
  /\ Goto("power", "count")
  /\ job' = [job EXCEPT !["power"] = "stop"]
  /\ asleep' = TRUE
  /\ events' = events + 1
  /\ UNCHANGED <<machine, memory, idx, cnt, sd, data, ok, up>>

\* The system is back in S0: PowerCallbackRoutine calls VmInitialization.
PowerResume ==
  /\ pc["power"] = "idle"
  /\ up >= PowerUp
  /\ asleep
  /\ events < MaxPowerEvents
  /\ MayEnter("power")
  /\ Goto("power", "vminit")
  /\ asleep' = FALSE
  /\ events' = events + 1
  /\ UNCHANGED <<machine, memory, frame, up>>

\* A processor is added; HotplugCallbackRoutine is told once the addition is
\* complete, if it is registered, and no other is added before it returns.
AddProcessor ==
  /\ active < MaxProcessors
  /\ pc["hotplug"] = "idle"
  /\ MayEnter("hotplug")
  /\ active' = active + 1
  /\ IF up = HotplugUp
       THEN /\ Goto("hotplug", "getshared")
            /\ idx' = [idx EXCEPT !["hotplug"] = active]
       ELSE UNCHANGED <<pc, idx>>
  /\ UNCHANGED <<mode, vmxe, vmm, memory, job, cnt, sd, data, ok, system>>

\* Mutant: the callback asks until some VMM answers.
VmHotplugCallbackRetries ==
  /\ pc["hotplug"] = "getshared"
  /\ \E q \in Active :
       /\ mode[q] = "guest"
       /\ Goto("hotplug", "alloc")
       /\ job' = [job EXCEPT !["hotplug"] = "plug"]
       /\ sd'  = [sd EXCEPT !["hotplug"] = vmm[q]]
  /\ UNCHANGED <<machine, memory, idx, cnt, data, ok, system>>

\* VmHotplugCallback asks the VMM of processor q for the SharedData pointer.
\* The affinity it sets is empty, so q is whichever processor it runs on.
VmHotplugCallback ==
  /\ pc["hotplug"] = "getshared"
  /\ \E q \in Active :
       \/ /\ mode[q] = "guest"
          /\ Goto("hotplug", "alloc")
          /\ job' = [job EXCEPT !["hotplug"] = "plug"]
          /\ sd'  = [sd EXCEPT !["hotplug"] = vmm[q]]
          /\ UNCHANGED <<idx, cnt, data, ok>>
       \/ /\ mode[q] # "guest"
          /\ Return("hotplug", "idle")
  /\ UNCHANGED <<machine, memory, system>>

VmHotplugCallbackReturns ==
  /\ pc["hotplug"] = "started"
  /\ Return("hotplug", "idle")
  /\ UNCHANGED <<machine, memory, system>>

-----------------------------------------------------------------------------
(* VmInitialization and VmTermination                                      *)

\* The processor the thread runs on, q, is not virtualized by this driver and
\* everything up to UtilForEachProcessor succeeds.
VmInitialization(t) ==
  /\ pc[t] = "vminit"
  /\ \E q \in Active : ~VmIsHyperPlatformInstalled(q)
  /\ \E s \in SharedIds :
       /\ heap[s] = "none"
       /\ heap' = [heap EXCEPT ![s] = "live"]
       /\ refs' = [refs EXCEPT ![s] = 0]
       /\ sd'   = [sd EXCEPT ![t] = s]
  /\ job' = [job EXCEPT ![t] = "start"]
  /\ Goto(t, "count")
  /\ UNCHANGED <<machine, idx, cnt, data, ok, system>>

\* The driver is already installed on q, or VMX is not available, or an
\* allocation of VmInitializeSharedData failed.
VmInitializationRefused(t) ==
  /\ pc[t] = "vminit"
  /\ InitializationReturns(t, FALSE)
  /\ UNCHANGED <<machine, memory, system>>

VmTerminationReturns(t) ==
  /\ pc[t] = "terminated"
  /\ Return(t, IF t = "power" THEN "idle" ELSE "unwind")
  /\ UNCHANGED <<machine, memory, system>>

-----------------------------------------------------------------------------
(* UtilForEachProcessor                                                    *)

Callback(t) == IF job[t] = "start" THEN "alloc" ELSE "vmcall"

\* The number of processors is read once, before the loop.
ForEachBegin(t) ==
  /\ pc[t] = "count"
  /\ cnt' = [cnt EXCEPT ![t] = active]
  /\ idx' = [idx EXCEPT ![t] = 0]
  /\ Goto(t, Callback(t))
  /\ UNCHANGED <<machine, memory, job, sd, data, ok, system>>

CallbackDone(t) == t # "hotplug" /\ pc[t] \in {"started", "stopped"}

ForEachNext(t) ==
  /\ CallbackDone(t)
  /\ ok[t]
  /\ idx[t] + 1 < cnt[t]
  /\ idx' = [idx EXCEPT ![t] = @ + 1]
  /\ Goto(t, Callback(t))
  /\ UNCHANGED <<machine, memory, job, cnt, sd, data, ok, system>>

\* Mutant: VmInitialization returns at the first failure and stops nothing.
ForEachEndNoRollback(t) ==
  /\ CallbackDone(t)
  /\ ok[t] => idx[t] + 1 >= cnt[t]
  /\ \/ /\ job[t] = "start"
        /\ InitializationReturns(t, ok[t])
     \/ /\ job[t] = "stop"
        /\ Goto(t, "terminated")
        /\ UNCHANGED frame
  /\ UNCHANGED <<machine, memory, system>>

\* The loop ends after the last processor or at the first failure.  When
\* VmInitialization could not start a processor it stops them all.
ForEachEnd(t) ==
  /\ CallbackDone(t)
  /\ ok[t] => idx[t] + 1 >= cnt[t]
  /\ \/ /\ job[t] = "start" /\ ok[t]
        /\ InitializationReturns(t, TRUE)
     \/ /\ job[t] = "start" /\ ~ok[t]
        /\ Goto(t, "count")
        /\ job' = [job EXCEPT ![t] = "rollback"]
        /\ ok'  = [ok EXCEPT ![t] = TRUE]
        /\ sd'  = [sd EXCEPT ![t] = None]
        /\ UNCHANGED <<idx, cnt, data>>
     \/ /\ job[t] = "rollback"
        /\ InitializationReturns(t, FALSE)
     \/ /\ job[t] = "stop"
        /\ Goto(t, "terminated")
        /\ UNCHANGED frame
  /\ UNCHANGED <<machine, memory, system>>

-----------------------------------------------------------------------------
(* VmStartVm on the processor the thread is pinned to: VmInitializeVm      *)

\* Mutant: a hot-added processor takes no reference.
AllocateWithoutReference(t) ==
  /\ pc[t] = "alloc"
  /\ \/ /\ data' = [data EXCEPT ![t] = sd[t]]
        /\ refs' = IF job[t] = "plug" THEN refs ELSE [refs EXCEPT ![sd[t]] = @ + 1]
        /\ Goto(t, "regions")
        /\ UNCHANGED ok
     \/ /\ ok' = [ok EXCEPT ![t] = FALSE]
        /\ Goto(t, "started")
        /\ UNCHANGED <<data, refs>>
  /\ UNCHANGED <<machine, heap, job, idx, cnt, sd, system>>

AllocateProcessorData(t) ==
  /\ pc[t] = "alloc"
  /\ \/ /\ data' = [data EXCEPT ![t] = sd[t]]
        /\ refs' = [refs EXCEPT ![sd[t]] = @ + 1]
        /\ Goto(t, "regions")
        /\ UNCHANGED ok
     \/ /\ ok' = [ok EXCEPT ![t] = FALSE]
        /\ Goto(t, "started")
        /\ UNCHANGED <<data, refs>>
  /\ UNCHANGED <<machine, heap, job, idx, cnt, sd, system>>

\* EPT, VMM stack, VMCS region and VMXON region; any of them may fail.
AllocateRegions(t) ==
  /\ pc[t] = "regions"
  /\ \E next \in {"vmxon", "free"} : Goto(t, next)
  /\ UNCHANGED <<machine, memory, frame, system>>

\* Mutant: the result of VMXON is not looked at.
VmEnterVmxModeUnchecked(t) ==
  /\ pc[t] = "vmxon"
  /\ vmxe' = [vmxe EXCEPT ![idx[t]] = TRUE]
  /\ mode' = [mode EXCEPT ![idx[t]] = IF @ = "off" THEN "root" ELSE @]
  /\ Goto(t, "vmcs")
  /\ UNCHANGED <<active, vmm, memory, frame, system>>

\* VMXON fails on a processor that already is in VMX operation, as a guest
\* (VmmHandleVmx) or in VMX root.
VmEnterVmxMode(t) ==
  /\ pc[t] = "vmxon"
  /\ vmxe' = [vmxe EXCEPT ![idx[t]] = TRUE]
  /\ \/ /\ mode[idx[t]] = "off"
        /\ mode' = [mode EXCEPT ![idx[t]] = "root"]
        /\ Goto(t, "vmcs")
     \/ /\ Goto(t, "free")
        /\ UNCHANGED mode
  /\ UNCHANGED <<active, vmm, memory, frame, system>>

\* When VMCLEAR or VMPTRLD fails the code does not leave VMX operation.
VmInitializeVmcs(t) ==
  /\ pc[t] = "vmcs"
  /\ \/ Goto(t, "launch")
     \/ VmcsMayFail /\ Goto(t, "free")
  /\ UNCHANGED <<machine, memory, frame, system>>

\* Mutant: a failed VMLAUNCH goes to RETURN_FALSE.
VmLaunchVmStaysInRoot(t) ==
  /\ pc[t] = "launch"
  /\ \/ /\ mode' = [mode EXCEPT ![idx[t]] = "guest"]
        /\ vmm'  = [vmm EXCEPT ![idx[t]] = data[t]]
        /\ data' = [data EXCEPT ![t] = None]
        /\ Goto(t, "started")
     \/ /\ Goto(t, "free")
        /\ UNCHANGED <<mode, vmm, data>>
  /\ UNCHANGED <<active, vmxe, memory, job, idx, cnt, sd, ok, system>>

\* VmSetupVmcs and VmLaunchVm.  Once launched, the processor's VMM owns the
\* PROCESSOR_DATA and the thread goes on as its guest.
VmLaunchVm(t) ==
  /\ pc[t] = "launch"
  /\ \/ /\ mode' = [mode EXCEPT ![idx[t]] = "guest"]
        /\ vmm'  = [vmm EXCEPT ![idx[t]] = data[t]]
        /\ data' = [data EXCEPT ![t] = None]
        /\ Goto(t, "started")
     \/ /\ Goto(t, "vmxoff")
        /\ UNCHANGED <<mode, vmm, data>>
  /\ UNCHANGED <<active, vmxe, memory, job, idx, cnt, sd, ok, system>>

VmxOff(t) ==
  /\ pc[t] = "vmxoff"
  /\ mode' = [mode EXCEPT ![idx[t]] = "off"]
  /\ Goto(t, "free")
  /\ UNCHANGED <<active, vmxe, vmm, memory, frame, system>>

\* Mutant: the count is compared with 1 after the decrement.
VmFreeProcessorDataEarly(t) ==
  /\ pc[t] = "free"
  /\ refs' = [refs EXCEPT ![data[t]] = @ - 1]
  /\ heap' = IF refs[data[t]] = 2 THEN [heap EXCEPT ![data[t]] = "freed"] ELSE heap
  /\ data' = [data EXCEPT ![t] = None]
  /\ IF job[t] \in {"start", "plug"}
       THEN Goto(t, "started") /\ ok' = [ok EXCEPT ![t] = FALSE]
       ELSE Goto(t, "stopped") /\ UNCHANGED ok
  /\ UNCHANGED <<machine, job, idx, cnt, sd, system>>

\* VmFreeProcessorData and VmFreeSharedData: the reference is dropped and the
\* shared block freed with the last one.
VmFreeProcessorData(t) ==
  /\ pc[t] = "free"
  /\ refs' = [refs EXCEPT ![data[t]] = @ - 1]
  /\ heap' = IF refs[data[t]] = 1 THEN [heap EXCEPT ![data[t]] = "freed"] ELSE heap
  /\ data' = [data EXCEPT ![t] = None]
  /\ IF job[t] \in {"start", "plug"}
       THEN Goto(t, "started") /\ ok' = [ok EXCEPT ![t] = FALSE]
       ELSE Goto(t, "stopped") /\ UNCHANGED ok
  /\ UNCHANGED <<machine, job, idx, cnt, sd, system>>

-----------------------------------------------------------------------------
(* VmStopVm on the processor the thread is pinned to                       *)

\* Mutant: a failed VMCALL is tried again.
VmStopVmRetries(t) ==
  /\ pc[t] = "vmcall"
  /\ mode[idx[t]] = "guest"
  /\ mode' = [mode EXCEPT ![idx[t]] = "off"]
  /\ data' = [data EXCEPT ![t] = vmm[idx[t]]]
  /\ vmm'  = [vmm EXCEPT ![idx[t]] = None]
  /\ Goto(t, "clear")
  /\ UNCHANGED <<active, vmxe, memory, job, idx, cnt, sd, ok, system>>

\* Mutant: CR4.VMXE is cleared before the result of the VMCALL is looked at.
VmStopVmClearsFirst(t) ==
  /\ pc[t] = "vmcall"
  /\ vmxe' = [vmxe EXCEPT ![idx[t]] = FALSE]
  /\ \/ /\ mode[idx[t]] = "guest"
        /\ mode' = [mode EXCEPT ![idx[t]] = "off"]
        /\ data' = [data EXCEPT ![t] = vmm[idx[t]]]
        /\ vmm'  = [vmm EXCEPT ![idx[t]] = None]
        /\ Goto(t, "clear")
        /\ UNCHANGED ok
     \/ /\ mode[idx[t]] # "guest"
        /\ ok' = [ok EXCEPT ![t] = FALSE]
        /\ Goto(t, "stopped")
        /\ UNCHANGED <<mode, data, vmm>>
  /\ UNCHANGED <<active, memory, job, idx, cnt, sd, system>>

\* The VMM leaves VMX operation and hands its PROCESSOR_DATA back.  Without a
\* VMM the VMCALL raises #UD, which UtilVmCall turns into a failure.
VmStopVm(t) ==
  /\ pc[t] = "vmcall"
  /\ \/ /\ mode[idx[t]] = "guest"
        /\ mode' = [mode EXCEPT ![idx[t]] = "off"]
        /\ data' = [data EXCEPT ![t] = vmm[idx[t]]]
        /\ vmm'  = [vmm EXCEPT ![idx[t]] = None]
        /\ Goto(t, "clear")
        /\ UNCHANGED ok
     \/ /\ mode[idx[t]] # "guest"
        /\ ok' = [ok EXCEPT ![t] = FALSE]
        /\ Goto(t, "stopped")
        /\ UNCHANGED <<mode, data, vmm>>
  /\ UNCHANGED <<active, vmxe, memory, job, idx, cnt, sd, system>>

ClearVmxe(t) ==
  /\ pc[t] = "clear"
  /\ vmxe' = [vmxe EXCEPT ![idx[t]] = FALSE]
  /\ Goto(t, "free")
  /\ UNCHANGED <<active, mode, vmm, memory, frame, system>>

-----------------------------------------------------------------------------
VmStep(t) ==
  \/ VmInitialization(t) \/ VmInitializationRefused(t) \/ VmTerminationReturns(t)
  \/ ForEachBegin(t) \/ ForEachNext(t) \/ ForEachEnd(t)
  \/ AllocateProcessorData(t) \/ AllocateRegions(t) \/ VmEnterVmxMode(t)
  \/ VmInitializeVmcs(t) \/ VmLaunchVm(t) \/ VmxOff(t) \/ VmFreeProcessorData(t)
  \/ VmStopVm(t) \/ ClearVmxe(t)

DriverStep ==
  DriverEntryInitializes \/ DriverEntryFails \/ DriverTerminates \/ DriverGone

HotplugStep == VmHotplugCallback \/ VmHotplugCallbackReturns

Environment == DriverUnload \/ PowerSuspend \/ PowerResume \/ AddProcessor

Next ==
  \/ Environment
  \/ DriverStep
  \/ HotplugStep
  \/ \E t \in Threads : VmStep(t)

\* Each thread is scheduled again and again; what the system asks of the
\* driver (an unload, a suspend, a new processor) may never come.
Fairness ==
  /\ WF_vars(DriverStep \/ VmStep("driver"))
  /\ WF_vars(VmStep("power"))
  /\ WF_vars(HotplugStep \/ VmStep("hotplug"))

Spec     == Init /\ [][Next]_vars
FairSpec == Spec /\ Fairness
-----------------------------------------------------------------------------
(* Properties                                                              *)

Labels ==
  {"entry", "loaded", "unwind", "gone", "idle", "getshared", "vminit", "count",
   "alloc", "regions", "vmxon", "vmcs", "launch", "vmxoff", "free", "started",
   "vmcall", "clear", "stopped", "terminated"}

\* A reference count is never negative; everything else has its type.
TypeOK ==
  /\ active \in 1 .. MaxProcessors
  /\ mode \in [Procs -> {"off", "root", "guest"}]
  /\ vmxe \in [Procs -> BOOLEAN]
  /\ vmm \in [Procs -> SharedIds \union {None}]
  /\ heap \in [SharedIds -> {"none", "live", "freed"}]
  /\ refs \in [SharedIds -> Nat]
  /\ pc \in [Threads -> Labels]
  /\ job \in [Threads -> {"none", "start", "rollback", "stop", "plug"}]
  /\ idx \in [Threads -> Procs]
  /\ cnt \in [Threads -> 0 .. MaxProcessors]
  /\ sd \in [Threads -> SharedIds \union {None}]
  /\ data \in [Threads -> SharedIds \union {None}]
  /\ ok \in [Threads -> BOOLEAN]
  /\ up \in 0 .. HotplugUp
  /\ asleep \in BOOLEAN
  /\ events \in 0 .. MaxPowerEvents

\* Who holds a PROCESSOR_DATA that points to block s.
ProcHolders(s)   == {p \in Procs : vmm[p] = s}
ThreadHolders(s) == {t \in Threads : data[t] = s}

\* ReferenceCount is the number of PROCESSOR_DATA structures that point to the
\* block, whatever the three threads do to each other: one for every running
\* VMM and one for every thread between its allocation and its launch, or
\* between the VMCALL that stopped the VMM and VmFreeProcessorData.
RefCountExact ==
  \A s \in SharedIds :
    refs[s] = Cardinality(ProcHolders(s)) + Cardinality(ThreadHolders(s))

\* Points between VMXON and the VMLAUNCH or VMXOFF that ends the attempt.
RootLabels == {"vmcs", "launch", "vmxoff"}

\* Two threads are never both between VMXON and VMLAUNCH on one processor, and
\* no thread is there while the processor's VMM runs: VMXON is the lock.
VmxMutex ==
  /\ \A t, u \in Threads :
       t # u /\ pc[t] \in RootLabels /\ pc[u] \in RootLabels => idx[t] # idx[u]
  /\ \A t \in Threads : pc[t] \in RootLabels => mode[idx[t]] = "root"

\* A running VMM keeps the PROCESSOR_DATA it was launched with until it is
\* terminated by a VMCALL on its own processor; a second start never replaces
\* it.
VmmKeepsData ==
  [][\A p \in Procs :
       vmm[p] # None /\ vmm'[p] # vmm[p] => mode[p] = "guest" /\ mode'[p] = "off"]_vars

\* Shared data is allocated as long as a VMM runs on it, a thread holds a
\* PROCESSOR_DATA that points to it, or VmInitializeVm is about to use the
\* pointer it was given.
SharedOutlivesUsers ==
  /\ \A p \in Procs : mode[p] = "guest" => heap[vmm[p]] = "live"
  /\ \A t \in Threads : data[t] # None => heap[data[t]] = "live"
  /\ \A t \in Threads : pc[t] = "alloc" => heap[sd[t]] = "live"

\* When no thread is at work, the processors the driver was loaded on are
\* either all virtualized or none is: VmInitialization undoes a partial start
\* and VmTermination reaches each of them.
AllOrNothing ==
  (\A t \in Threads : pc[t] \in {"idle", "loaded", "gone"}) =>
    \A p, q \in 0 .. InitialProcessors - 1 :
      VmIsHyperPlatformInstalled(p) => VmIsHyperPlatformInstalled(q)

\* CR4.VMXE is set on every processor in VMX operation (clearing it there is a
\* general-protection fault).
VmxeCoversVmx == \A p \in Procs : mode[p] # "off" => vmxe[p]

\* A processor is in VMX root only while some thread is on its way to launch
\* it or to leave VMX operation.
VmxRootOwned ==
  \A p \in Procs : mode[p] = "root" =>
    \E t \in Threads : pc[t] \in RootLabels /\ idx[t] = p

\* A VMM runs on a processor the driver was loaded on only while the log and the
\* performance collector, which its VM-exit handler uses, are initialised:
\* DriverEntry and DriverUnload leave none behind when they terminate them, however
\* loads, suspends and resumes failed and whatever processors were added.
GuestsNeedDriver ==
  \A p \in 0 .. InitialProcessors - 1 : mode[p] = "guest" => up >= PerfUp

\* Loading ends, in a loaded driver or a refused one, and so does unloading.
DriverSettles ==
  [](pc["driver"] \notin {"loaded", "gone"} => <>(pc["driver"] \in {"loaded", "gone"}))

\* A callback the system is waiting for returns.
CallbacksReturn ==
  \A t \in {"power", "hotplug"} : pc[t] # "idle" ~> pc[t] = "idle"

\* The reference count keeps the promise of SharedLifetime.
Users == ({"vmm"} \X Procs) \union ({"thread"} \X Threads)

SharedUsers ==
  [s \in SharedIds |-> ({"vmm"} \X ProcHolders(s)) \union ({"thread"} \X ThreadHolders(s))]

Shared == INSTANCE SharedLifetime WITH users <- SharedUsers

SharedSpec == Shared!Spec

-----------------------------------------------------------------------------
(* What the source says of itself and the code does not do                 *)

\* VM.cpp:984, NT_ASSERT(!VmIsHyperPlatformInstalled()) at the end of
\* VmTermination, on whichever processor it runs.
TerminationAssert ==
  \A t \in Threads : pc[t] = "terminated" =>
    \A p \in Active : ~VmIsHyperPlatformInstalled(p)
=============================================================================
