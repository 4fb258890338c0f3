--------------------------- MODULE ProcessorSetup ---------------------------
(***************************************************************************)
(* What VmInitialization and VmHotplugCallback set up before a processor   *)
(* runs its VMM (VM.cpp): the feature-control register, the MSR bitmap,    *)
(* the memory of each VMM, the control registers and the VMCS.             *)
(*                                                                         *)
(* One thread runs all of it.  How the driver's threads interleave is      *)
(* VmLifecycle's subject; here it is what each step leaves in memory and   *)
(* in the processor, and whether the processor accepts it.                 *)
(***************************************************************************)
EXTENDS VmxControls, Sequences

CONSTANTS
  Machines,     \* The computers the driver may run on.
  Initial,      \* How many processors they start with.
  Null,         \* No VMCS.
  QuarterSize,  \* Size of a quarter of the MSR bitmap (1024).  A unit of it
                \* stands for the bits of one MSR.
  ProbedMsrs,   \* How many low MSRs VmBuildMsrBitmap reads (0x1000).
  LowSpecials,  \* IA32_MPERF and IA32_APERF
  HighSpecials, \* IA32_GS_BASE and IA32_KERNEL_GS_BASE, relative to C0000000
  MaxAdded,     \* Bound: processors added.
  MaxSuspends   \* Bound: suspends.

ASSUME InitialAssumption == Initial \in Nat \ {0} /\ MaxAdded \in Nat /\ MaxSuspends \in Nat
ASSUME MsrAssumption ==
  /\ QuarterSize \in Nat /\ ProbedMsrs \in 0 .. QuarterSize
  /\ LowSpecials \subseteq 0 .. QuarterSize - 1
  /\ HighSpecials \subseteq 0 .. QuarterSize - 1

\* A machine: whether it has VMX, write-back VMX structures and EPT with the
\* instructions EptIsEptAvailable asks for; its capability registers; the low MSRs
\* that cannot be read; what the firmware leaves in IA32_FEATURE_CONTROL of every
\* processor that starts and of one that is added; whether Lock can be set; the CR0
\* and CR4 bits that are on, and those that must be off in VMX operation.  Every
\* 64-bit processor has the controls named, and those that TRUE registers make optional;
\* EPT is a secondary control.
ASSUME MachinesAssumption ==
  \A m \in Machines :
    /\ {m.vmx, m.writeBack, m.ept, m.lockable, m.vmx_capability_hint} \subseteq BOOLEAN
    /\ m.missing \intersect {"reserved", "HostAddressSpaceSize", "Ia32eModeGuest"} = {}
    /\ \A w \in Words : m.missing \intersect Default1[w] = {}
    /\ m.ept => "ActivateSecondaryControl" \notin m.missing
    /\ m.forbidden \intersect {"NE", "VMXE"} = {}
    /\ m.faulting \subseteq 0 .. QuarterSize - 1
    /\ m.firmware \subseteq {"Lock", "EnableVmxon"}
    /\ m.firmwareAdded \subseteq {"Lock", "EnableVmxon"}

\* What VmHotplugCallback takes for granted: firmware that enables VMXON does so on a
\* processor that is added, and locks the register.
ASSUME FirmwareAssumption ==
  \A m \in Machines : "EnableVmxon" \in m.firmware => m.firmwareAdded = {"Lock", "EnableVmxon"}

Procs == 1 .. Initial + MaxAdded

SharedBlocks == {"SharedData", "MsrBitmap", "IoBitmaps"}

\* What VmInitializeVm allocates, in this order.
OwnBlocks == <<"ProcessorData", "EptData", "VmmStackLimit", "VmcsRegion", "VmxonRegion">>

VARIABLES
  machine,   \* the computer
  fc,        \* per processor: IA32_FEATURE_CONTROL, the set of its bits that are 1
  cr,        \* per processor: the bits of CR0 and CR4 that are 1
  mode,      \* per processor: "off", "root" or "guest"
  vmcs,      \* per processor: the current VMCS, or Null
  stranded,  \* history: processors left in VMX operation by a failed start
  own,       \* per processor: how many of OwnBlocks are allocated for it
  shared,    \* the shared blocks that are allocated
  refs,      \* ReferenceCount
  bitmap,    \* the offsets that are set from the start of the MSR bitmap on
  active,    \* number of processors
  pc, task,  \* control point, and what UtilForEachProcessor is being used for
  idx,       \* the processor it is at
  control,   \* VmxFeatureControlMsr, a local variable of VmIsVmxAvailable
  acquired,  \* history: some PROCESSOR_DATA has pointed to the shared data
  skipped,   \* history: added processors that were not virtualized
  suspends   \* suspends so far

hw   == <<fc, cr, mode, vmcs, stranded>>
mem  == <<own, shared, refs, bitmap, acquired, skipped>>
ctrl == <<pc, task, idx, control, active, suspends>>
vars == <<machine, hw, mem, ctrl>>

Goto(label) == pc' = label /\ UNCHANGED <<task, idx, control, active, suspends>>

Init ==
  /\ machine \in Machines
  /\ fc = [p \in Procs |-> IF p <= Initial THEN machine.firmware ELSE machine.firmwareAdded]
  /\ cr = [p \in Procs |-> machine.cr]
  /\ mode = [p \in Procs |-> "off"]
  /\ vmcs = [p \in Procs |-> Null] /\ stranded = {}
  /\ own = [p \in Procs |-> 0]
  /\ shared = {} /\ refs = 0 /\ bitmap = {} /\ acquired = FALSE /\ skipped = {}
  /\ active = Initial
  /\ pc = "idle" /\ task = "none" /\ idx = 1 /\ control = {} /\ suspends = 0

-----------------------------------------------------------------------------
(* VmIsVmxAvailable and VmSetLockBitCallback                               *)

\* The thread runs on any processor.
VmIsVmxAvailable ==
  /\ pc = "idle"
  /\ \/ /\ ~(machine.vmx /\ machine.writeBack)
        /\ Goto("refused")
     \/ /\ machine.vmx /\ machine.writeBack
        /\ \E p \in 1 .. active : control' = fc[p]
        /\ pc' = IF "Lock" \in control' THEN "enabled" ELSE "lock"
        /\ idx' = 1
        /\ UNCHANGED <<task, active, suspends>>
  /\ UNCHANGED <<machine, hw, mem>>

VmSetLockBitCallback ==
  /\ pc = "lock"
  /\ \/ /\ "Lock" \in fc[idx] \/ machine.lockable
        /\ fc' = [fc EXCEPT ![idx] = @ \union {"Lock"}]
        /\ pc' = IF idx = active THEN "enabled" ELSE "lock"
        /\ idx' = IF idx = active THEN 1 ELSE idx + 1
        /\ UNCHANGED <<task, control, active, suspends>>
     \/ /\ "Lock" \notin fc[idx] /\ ~machine.lockable
        /\ UNCHANGED fc
        /\ Goto("refused")
  /\ UNCHANGED <<machine, cr, mode, vmcs, stranded, mem>>

\* Mutant: what the register says about VMXON is not looked at.
VmxonUnchecked ==
  /\ pc = "enabled"
  /\ Goto(IF machine.ept THEN "shared" ELSE "refused")
  /\ UNCHANGED <<machine, hw, mem>>

\* The value tested is the one read before Lock was set; then EptIsEptAvailable.
VmxonEnabled ==
  /\ pc = "enabled"
  /\ Goto(IF "EnableVmxon" \in control /\ machine.ept THEN "shared" ELSE "refused")
  /\ UNCHANGED <<machine, hw, mem>>

-----------------------------------------------------------------------------
(* VmInitializeSharedData, VmBuildMsrBitmap and VmBuildIoBitmaps           *)

PageSize == 4 * QuarterSize

\* RtlFillMemory with 0xFF, and RtlClearBits
Fill(set, from, size)  == set \union from .. from + size - 1
ClearBits(set, from, positions) == set \ {from + i : i \in positions}

\* Adding n to a pointer to ULONG moves it by four times n.
UlongPointer(from, n) == from + 4 * n

BitmapReadLow == 0

BitmapReadHigh == UlongPointer(BitmapReadLow, QuarterSize)

\* Mutant: the reads are probed, but the bit behind is cleared.
VmBuildMsrBitmapOffByOne ==
  LET filled  == Fill(Fill({}, BitmapReadLow, QuarterSize), BitmapReadHigh, QuarterSize)
      low     == ClearBits(filled, BitmapReadLow, LowSpecials)
      probed  == ClearBits(low, BitmapReadLow,
                           {i + 1 : i \in {m \in machine.faulting : m < ProbedMsrs}})
  IN  ClearBits(probed, BitmapReadHigh, HighSpecials)

\* The page is zeroed first; what BitmapReadHigh points to is behind the page.
VmBuildMsrBitmap ==
  LET filled  == Fill(Fill({}, BitmapReadLow, QuarterSize), BitmapReadHigh, QuarterSize)
      low     == ClearBits(filled, BitmapReadLow, LowSpecials)
      probed  == ClearBits(low, BitmapReadLow, {m \in machine.faulting : m < ProbedMsrs})
  IN  ClearBits(probed, BitmapReadHigh, HighSpecials)

\* The three allocations, the bitmaps being built as they are allocated.  One that
\* fails frees those before it.
VmInitializeSharedData ==
  /\ pc = "shared"
  /\ \/ /\ shared' = SharedBlocks
        /\ bitmap' = VmBuildMsrBitmap
        /\ pc' = "alloc" /\ task' = "start" /\ idx' = 1
        /\ UNCHANGED <<control, active, suspends>>
     \/ /\ UNCHANGED <<shared, bitmap>>
        /\ Goto("refused")
  /\ refs' = 0 /\ acquired' = FALSE
  /\ UNCHANGED <<machine, hw, own, skipped>>

-----------------------------------------------------------------------------
(* VmInitializeVm                                                          *)

\* The first block takes a reference to the shared data with it.
Allocate ==
  /\ pc = "alloc"
  /\ \/ /\ own' = [own EXCEPT ![idx] = @ + 1]
        /\ refs' = IF own[idx] = 0 THEN refs + 1 ELSE refs
        /\ acquired' = TRUE
        /\ Goto(IF own[idx] + 1 = Len(OwnBlocks) THEN "fix" ELSE "alloc")
     \/ /\ UNCHANGED <<own, refs, acquired>>
        /\ Goto(IF own[idx] = 0 THEN "failed" ELSE "free")
  /\ UNCHANGED <<machine, hw, shared, bitmap, skipped>>

\* IA32_VMX_CR0_FIXED0 and CR4_FIXED0, and the complements of the FIXED1 registers.
Fixed0 == {"NE", "VMXE"}
FixedOff == machine.forbidden

FixControlRegisters ==
  /\ pc = "fix"
  /\ cr' = [cr EXCEPT ![idx] = (@ \ FixedOff) \union Fixed0]
  /\ Goto("vmxon")
  /\ UNCHANGED <<machine, fc, mode, vmcs, stranded, mem>>

\* VMXON fails in VMX operation, and on a region it does not accept.
VmEnterVmxMode ==
  /\ pc = "vmxon"
  /\ \/ /\ mode[idx] = "off"
        /\ mode' = [mode EXCEPT ![idx] = "root"]
        /\ Goto("vmcs")
     \/ /\ UNCHANGED mode
        /\ Goto("free")
  /\ UNCHANGED <<machine, fc, cr, vmcs, stranded, mem>>

\* VMCLEAR and VMPTRLD.  When one of them fails VmInitializeVm goes on at RETURN_FALSE,
\* which is behind __vmx_off: the processor stays in VMX operation.
VmInitializeVmcs ==
  /\ pc = "vmcs"
  /\ \/ Goto("setup") /\ UNCHANGED stranded
     \/ Goto("free") /\ stranded' = stranded \union {idx}
  /\ UNCHANGED <<machine, fc, cr, mode, vmcs, mem>>

\* The fields the rest depends on.  The status of every write is or-ed into a copy of
\* Error (the operator takes it by value), so VmSetupVmcs always succeeds.
VmSetupVmcs ==
  /\ pc = "setup"
  /\ vmcs' = [vmcs EXCEPT ![idx] =
                [controls |-> Controls(machine), VirtualProcessorId |-> idx,
                 GuestCr |-> cr[idx], HostCr |-> cr[idx]]]
  /\ Goto("launch")
  /\ UNCHANGED <<machine, fc, cr, mode, stranded, mem>>

\* The control registers VMX operation allows.
CrAllowed(bits) == Fixed0 \subseteq bits /\ bits \intersect FixedOff = {}

EntryAccepted(v) ==
  /\ ControlsAccepted(machine, v.controls, v.VirtualProcessorId)
  /\ CrAllowed(v.GuestCr) /\ CrAllowed(v.HostCr)

\* After the launch UtilForEachProcessor goes on with the next processor.
NextProcessor(after) ==
  /\ IF idx < active /\ task # "plug"
       THEN idx' = idx + 1 /\ pc' = IF task = "start" THEN "alloc" ELSE "stop"
       ELSE idx' = 1 /\ pc' = after
  /\ UNCHANGED <<task, control, active, suspends>>

\* A launch may fail for reasons the fields here do not tell.
VmLaunchVm ==
  /\ pc = "launch"
  /\ \/ /\ EntryAccepted(vmcs[idx])
        /\ mode' = [mode EXCEPT ![idx] = "guest"]
        /\ NextProcessor("up")
     \/ UNCHANGED mode /\ Goto("vmxoff")
  /\ UNCHANGED <<machine, fc, cr, vmcs, stranded, mem>>

VmxOff ==
  /\ pc = "vmxoff"
  /\ mode' = [mode EXCEPT ![idx] = "off"]
  /\ vmcs' = [vmcs EXCEPT ![idx] = Null]
  /\ Goto("free")
  /\ UNCHANGED <<machine, fc, cr, stranded, mem>>

-----------------------------------------------------------------------------
(* VmFreeProcessorData and VmStopVm                                        *)

\* Mutant: a VMM that is not complete is not freed.
VmFreeCompleteData(p) ==
  /\ own' = [own EXCEPT ![p] = IF @ = Len(OwnBlocks) THEN 0 ELSE @]
  /\ refs' = refs - 1
  /\ shared' = IF refs = 1 THEN {} ELSE shared
  /\ UNCHANGED <<bitmap, acquired>>

VmFreeProcessorData(p) ==
  /\ own' = [own EXCEPT ![p] = 0]
  /\ refs' = refs - 1
  /\ shared' = IF refs = 1 THEN {} ELSE shared
  /\ UNCHANGED <<bitmap, acquired>>

\* VmInitializeVm ends without a VMM.
InitializeVmFails ==
  /\ pc = "free"
  /\ VmFreeProcessorData(idx)
  /\ Goto("failed")
  /\ UNCHANGED <<machine, hw, skipped>>

\* VmInitialization stops the processors from the first one on; the hot-add callback
\* leaves the others alone.
VmStartVmFails ==
  /\ pc = "failed"
  /\ IF task = "plug"
       THEN Goto("up") /\ skipped' = skipped \union {idx}
       ELSE /\ pc' = "stop" /\ task' = "rollback" /\ idx' = 1
            /\ UNCHANGED <<control, active, suspends, skipped>>
  /\ UNCHANGED <<machine, hw, own, shared, refs, bitmap, acquired>>

StopsAt == CASE task = "rollback" -> "refused" [] task = "suspend" -> "asleep" [] task = "unload" -> "gone"

\* Mutant: the memory is freed while the VMM still runs.
VmStopVmFreesFirst ==
  /\ pc = "stop"
  /\ mode[idx] = "guest"
  /\ VmFreeProcessorData(idx)
  /\ NextProcessor(StopsAt)
  /\ UNCHANGED <<machine, hw, skipped>>

\* The VMCALL ends the VMM; CR4.VMXE is cleared and the memory freed.
VmStopVm ==
  /\ pc = "stop"
  /\ \/ /\ mode[idx] = "guest"
        /\ mode' = [mode EXCEPT ![idx] = "off"]
        /\ vmcs' = [vmcs EXCEPT ![idx] = Null]
        /\ cr' = [cr EXCEPT ![idx] = @ \ {"VMXE"}]
        /\ VmFreeProcessorData(idx)
        /\ NextProcessor(StopsAt)
     \/ /\ mode[idx] # "guest"         \* UtilForEachProcessor ends here
        /\ UNCHANGED <<mode, vmcs, cr, own, shared, refs, bitmap, acquired>>
        /\ Goto(StopsAt)
  /\ UNCHANGED <<machine, fc, stranded, skipped>>

-----------------------------------------------------------------------------
(* The rest of the driver                                                  *)

VmTermination ==
  /\ pc = "up"
  /\ \/ task' = "unload" /\ UNCHANGED suspends
     \/ suspends < MaxSuspends /\ task' = "suspend" /\ suspends' = suspends + 1
  /\ pc' = "stop" /\ idx' = 1
  /\ UNCHANGED <<machine, hw, mem, control, active>>

\* The processors lose their registers, VMX operation with them, and the firmware sets
\* them up again.  What becomes of a VMM that VmTermination left running is not followed.
PowerResume ==
  /\ pc = "asleep"
  /\ \A p \in Procs : own[p] = 0
  /\ skipped' = {} /\ stranded' = {}
  /\ fc' = [p \in Procs |-> IF p <= active THEN machine.firmware ELSE machine.firmwareAdded]
  /\ cr' = [p \in Procs |-> machine.cr]
  /\ mode' = [p \in Procs |-> "off"]
  /\ vmcs' = [p \in Procs |-> Null]
  /\ Goto("idle")
  /\ UNCHANGED <<machine, own, shared, refs, bitmap, acquired>>

\* A processor is added, and the callback virtualizes it with the shared data of the
\* others, unless it asks for them on a processor that runs no VMM: it may be on any
\* when it does.  VmIsVmxAvailable is not called for it.
VmHotplugCallback ==
  /\ pc = "up"
  /\ active < Initial + MaxAdded
  /\ active' = active + 1
  /\ \/ /\ idx' = active + 1
        /\ task' = "plug" /\ pc' = "alloc"
        /\ UNCHANGED skipped
     \/ /\ skipped' = skipped \union {active + 1}
        /\ UNCHANGED <<idx, task, pc>>
  /\ UNCHANGED <<machine, hw, own, shared, refs, bitmap, acquired, control, suspends>>

VmInitialization ==
  \/ VmIsVmxAvailable \/ VmSetLockBitCallback \/ VmxonEnabled \/ VmInitializeSharedData

VmInitializeVm ==
  \/ Allocate \/ FixControlRegisters \/ VmEnterVmxMode \/ VmInitializeVmcs \/ VmSetupVmcs
  \/ VmLaunchVm \/ VmxOff \/ InitializeVmFails \/ VmStartVmFails

Next ==
  \/ VmInitialization \/ VmInitializeVm \/ VmStopVm \/ VmTermination
  \/ PowerResume \/ VmHotplugCallback

Spec == Init /\ [][Next]_vars
-----------------------------------------------------------------------------
(* Properties                                                              *)

ControlWords == [Words -> SUBSET UNION {PinBits, ProcBits, Proc2Bits, EntryBits, ExitBits}]

Vmcs == [controls : ControlWords, VirtualProcessorId : Procs,
         GuestCr : SUBSET (machine.cr \union Fixed0), HostCr : SUBSET (machine.cr \union Fixed0)]

TypeOK ==
  /\ machine \in Machines
  /\ fc \in [Procs -> SUBSET {"Lock", "EnableVmxon"}]
  /\ cr \in [Procs -> SUBSET (machine.cr \union Fixed0)]
  /\ mode \in [Procs -> {"off", "root", "guest"}]
  /\ vmcs \in [Procs -> Vmcs \union {Null}]
  /\ stranded \subseteq Procs
  /\ own \in [Procs -> 0 .. Len(OwnBlocks)]
  /\ shared \in {{}, SharedBlocks}
  /\ refs \in 0 .. Initial + MaxAdded
  /\ bitmap \subseteq Nat
  /\ active \in Initial .. Initial + MaxAdded
  /\ pc \in {"idle", "lock", "enabled", "shared", "alloc", "fix", "vmxon", "vmcs", "setup",
             "launch", "vmxoff", "free", "failed", "stop", "up", "asleep", "refused", "gone"}
  /\ task \in {"none", "start", "plug", "rollback", "suspend", "unload"}
  /\ idx \in Procs
  /\ control \in SUBSET {"Lock", "EnableVmxon"}
  /\ acquired \in BOOLEAN
  /\ skipped \subseteq Procs
  /\ suspends \in 0 .. MaxSuspends

\* VMXON does not raise #GP, which nothing would handle: on every processor it is
\* executed on, the feature-control register is locked with VMXON enabled and the
\* control registers are as VMX operation wants them, although only one processor's
\* register was looked at before.
VmxonPermitted ==
  pc = "vmxon" => fc[idx] = {"Lock", "EnableVmxon"} /\ CrAllowed(cr[idx])

\* Whatever the capability registers of the processor are, VM entry accepts the VMCS:
\* VmSetupVmcs would not notice what is wrong with it.
LaunchAccepted == pc = "launch" => EntryAccepted(vmcs[idx])

\* No control that the adjustment turned on without VmSetupVmcs asking for it makes
\* the guest exit for a reason that VmmHandleVmExit stops the machine on.
ControlExitsHandled ==
  \A p \in Procs : mode[p] = "guest" => ExitsOf(vmcs[p].controls) \subseteq VmmHandles \ VmmStops

\* While a processor is in VMX operation, the regions, the stack, the EPT and the
\* bitmaps its VMCS points to stay allocated, with one exception: when VMCLEAR or
\* VMPTRLD fails, the VMXON region is freed and the processor left in VMX operation.
VmxMemoryAllocated ==
  \A p \in Procs : mode[p] # "off" =>
    \/ own[p] = Len(OwnBlocks) /\ shared = SharedBlocks
    \/ mode[p] = "root" /\ p \in stranded

\* However a start fails, and after every stop, no memory is left, with two exceptions:
\* shared data that no PROCESSOR_DATA has pointed to, since nothing but their count
\* frees them, and the VMM of a processor that was added after one that was not
\* virtualized, where UtilForEachProcessor ends.
OnlyUnacquiredLeft ==
  pc \in {"refused", "asleep", "gone"} =>
    /\ \A p \in Procs : own[p] # 0 => \E q \in skipped : q < p
    /\ shared # {} => ~acquired \/ \E p \in Procs : own[p] # 0

\* A read of a low MSR that was probed exits only if the VMM can do it for the guest.
ProbedReadsSafe ==
  shared # {} => \A m \in 0 .. ProbedMsrs - 1 : m \in bitmap => m \notin machine.faulting

\* No write of an MSR the bitmap covers exits: its second half stays zero.
WritesPass == bitmap \intersect (2 * QuarterSize .. PageSize - 1) = {}

-----------------------------------------------------------------------------
(* What the source says of itself and the code does not do                 *)

\* VM.cpp:255 and VM.cpp:268, the second quarter of the page is for the reads of the
\* MSRs from C0000000 on, and all reads exit but those of the special ones.
HighReadsExit ==
  shared # {} => \A m \in (0 .. QuarterSize - 1) \ HighSpecials : QuarterSize + m \in bitmap
=============================================================================
