# TLA+ verification of MyHyperPlatform

MyHyperPlatform is a Windows driver that turns the running system into the guest
of a thin VT-x hypervisor: every processor is put into VMX operation and goes on
as a guest; a VM-exit handler emulates what exits; guest-physical memory is
mapped one to one through EPT.  All paths below are relative to
`src/MyHyperPlatform/`.

## 1. Inventory

| Component | State | Operations | Talks to |
|---|---|---|---|
| Driver (`DriverEntry.cpp`) | which components are initialised | `DriverEntry`, `DriverUnload`, `IsSupportedOS` | calls every component in order, `VmInitialization`, `VmTermination` |
| Power callback (`PowerCallback.cpp`) | registration | `PowerCallbackRoutine` | called by the power manager; calls `VmTermination` (suspend), `VmInitialization` (resume) |
| Hot-add callback (`HotplugCallback.cpp`) | registration | `HotplugCallbackRoutine` | called by the kernel; calls `VmHotplugCallback` |
| VMX life cycle (`VM.cpp`) | per processor: feature-control register, control registers, VMX mode, VMCS, `PROCESSOR_DATA`; shared: `SHARED_PROCESSOR_DATA` with `ReferenceCount` and the MSR and I/O bitmaps | `VmInitialization`, `VmStartVm`/`VmInitializeVm`, `VmStopVm`, `VmTermination`, `VmHotplugCallback` | the loop of `Util.cpp`, VMCALL into `VMM.cpp`, `EPT.cpp` |
| Utilities (`Util.cpp`) | physical memory ranges, page-table bases | `UtilForEachProcessor`, `UtilVmCall`, address conversions, segment and MSR access | everybody |
| VM-exit handler (`VMM.cpp`) | per processor: guest context, exit history ring | one handler per exit reason, VMCALL services | VMCS, `EPT.cpp`, log, performance collector |
| EPT (`EPT.cpp`) | per processor: four-level table, 50 pre-allocated entries; global: MTRR entries | `EptInitialization`, `EptHandleEptViolation`, `EptTermination`, `EptInitializeMtrrEntries`, `EptGetMemoryType` | physical memory ranges, MTRRs |
| Log (`Log.cpp`) | two buffers, current buffer and position, file handle, flush thread | `LogPrint`/`LogPut`, flush thread, re-initialisation, termination | everybody, in VMX root too |
| Performance collector (`PerfCounter.h`, `Performance.cpp`) | table of 200 entries | `AddData` from every handler, output at termination | VM-exit handler, log |
| Global variables (`GlobalVariables.cpp`) | at-exit list | constructors, destructors | driver |
| Assembly stubs (`x86.asm`, `x64.asm`) | registers | save and restore around VM entry and exit | `VM.cpp`, `VMM.cpp` |

What is hard in this code:

* three threads of control (driver, power manager, hot-add) enter `VM.cpp` and
  nothing in the driver keeps them apart;
* `ReferenceCount` is taken and dropped on many success and failure paths;
* a loop over the processors may fail half way and must be undone;
* what a processor accepts (feature control, fixed control-register bits, capability
  registers) differs between computers, and most of it is read on one processor;
* VM-exit handlers run on all processors at once, use the log and the
  performance collector at any IRQL, and may not allocate memory;
* emulated instructions must do what the bare machine would have done.

What makes each component correct: for the life cycle, that the shared data
outlives its users, that starts and stops of one processor never overlap, that a
failed start is undone and an unload leaves nothing behind; for EPT, that every
page the guest may reach is mapped once, one to one, with the memory type the
MTRRs give it, and that every table is freed once; for the log, that what writers
and the flush thread use outlives them, that everything is released and that a
message is recorded or refused; for the performance collector, that the table stays
whole although nothing locks it; for the set-up of a processor, that the processor
accepts what is written and the VMM handles what it turns on; for the driver's
services, that they outlive the VMMs and are undone in order; for the VM-exit handler, that the guest cannot tell an emulated
instruction from an executed one.


## 2. Modules

| Module | Models | Kind |
|---|---|---|
| `VmLifecycle` | `DriverEntry.cpp`, `PowerCallback.cpp`, `HotplugCallback.cpp`, the life cycle of `VM.cpp`, `UtilForEachProcessor`, the VMCALL services used there | state machine |
| `MCVmLifecycle` | the same with interchangeable blocks | for TLC |
| `SharedLifetime` | what `ReferenceCount` of `SHARED_PROCESSOR_DATA` promises | abstract specification |
| `VmLifecycleProofs` | - | proofs about `VmLifecycle`, any interleaving and where the threads run one at a time |
| `EptTables`, `MCEptTables` | the four-level table of `EPT.cpp`: construction, violations, termination | state machine |
| `IdentityMap` | what an EPT promises: a growing one-to-one map | abstract specification |
| `EptTablesProofs` | - | proofs about `EptTables` |
| `EptMtrr`, `MCEptMtrr` | `EptInitializeMtrrEntries`, `EptGetMemoryType` | algorithm against the architecture's rules |
| `EptMtrrProofs` | - | proofs about `EptMtrr` |
| `ProcessorSetup`, `MCProcessorSetup` | what `VM.cpp` sets up before a VMM runs: feature control, MSR bitmap, memory, control registers, VMCS | state machine |
| `VmxControls` | the VMX controls: bit fields of `ia32_type.h`, request, adjustment, checks, exits | operators |
| `ProcessorSetupProofs` | - | proofs about `ProcessorSetup` |
| `PerfCollector` | `PerfCounter.h` as `Performance.cpp` sets it up | state and steps |
| `DriverServices`, `MCDriverServices` | `PerfCollector` with `GlobalVariables.cpp`, `Performance.cpp`, the memory description of `Util.cpp`, and who uses them | composition, state machine |
| `DriverServicesProofs` | - | proofs about `DriverServices` |
| `Log` | `Log.cpp`: initialisation, writers, flush thread, termination | state machine |
| `LogProofs` | - | proofs about `Log` |
| `VmmExit`, `MCVmmExit` | the handlers of `VMM.cpp`, `VmSetupVmcs`, `AsmVmmEntryPoint` (64-bit build) | state machine |
| `GuestProcessor` | registers and instructions of the processor | external: architecture |
| `GuestMachine` | the machine the guest is to see | abstract specification |
| `VmmExitProofs` | - | proofs about `VmmExit` |
| `CommonLemmas` | - | lemmas the proofs share: induction, recursion over finite sets, sums, division |

### VmLifecycle

Three threads: `"driver"` (DriverEntry, DriverUnload), `"power"` and
`"hotplug"`.  `pc[t]` names the point a thread has reached; `job`, `idx`, `cnt`,
`sd`, `data`, `ok` are the locals of the functions it is in: why the processors
are visited, the processor it is pinned to, `NumberOfProcessors`, the `Context`
of the callback, the `PROCESSOR_DATA` it holds, the result of the callback.  A
`PROCESSOR_DATA` is represented by the one field that outlives its function, its
`SharedData` pointer.

| Control point | Code |
|---|---|
| `entry`, `loaded`, `unwind`, `gone` | DriverEntry 43-126, loaded, the terminations of DriverEntry/DriverUnload, unloaded |
| `vminit` | VmInitialization 89-103 |
| `count`, then `alloc` or `vmcall` | UtilForEachProcessor 432-450 |
| `alloc`, `regions`, `vmxon`, `vmcs`, `launch`, `vmxoff`, `free`, `started` | VmInitializeVm 361-440, up to the return of VmStartVm |
| `vmcall`, `clear`, `free`, `stopped` | VmStopVm 921-932 |
| `terminated` | the end of VmTermination, 984 |
| `getshared` | VmHotplugCallback 941-954 |

Every action is one atomic effect on state other threads can see, so any two
threads may interleave between any two of them.  In particular reading the
processor count, the VMCALL, clearing `CR4.VMXE` and the decrement that may free
the shared block are separate steps.  Decrement and free are one step because
the thread that reaches zero is the only one left that can name the block.

Abstractions, and why they are sound for the properties here:

* VMX availability, allocations, VMXON, VMCLEAR/VMPTRLD and VMLAUNCH may fail
  whenever the code handles a failure.  `VmcsMayFail` says whether VMCLEAR or
  VMPTRLD may fail; they do so only on hardware or addresses that are broken.
  `VmSetupVmcs` has no failing path of its own (every write is OR-ed into a
  status by value), so its failure is the failure of VMLAUNCH.
* The `CPUID` check of VmInitialization runs on whatever processor the thread is
  on: any active one.  `VmHotplugCallback` sets an empty affinity, which selects
  no processor, so its VMCALL too runs on any active processor.
* VMX state is kept over a suspend (a suspend first terminates every VMM; the
  processors it does not reach are the ones the code forgot).
* Deregistering a callback waits for one that is running, which is what the
  system documents for both registrations.
* Freed memory is not handed out again, and what a use of freed memory does is
  not followed: `SharedOutlivesUsers` says that it does not happen.
* `VmEnterVmxMode` sets CR4.VMXE (VM.cpp:478) and executes VMXON (490) in one step; no
  property tells apart what another thread sees in between.
* A processor index below the count always has a number
  (`KeGetProcessorNumberFromIndex` does not fail).
* Register contents and the VMCS are the subject of `VmmExit`, not of this module.

`Serialized` is the one assumption about the system: whether it starts a
callback, an unload or a hot-add only while the other two threads are outside
`VM.cpp`.  Properties checked with `Serialized = FALSE` hold whatever the
system does.  Properties checked with TRUE are about sequences of complete
operations: they fail under free interleaving, because nothing in the driver
locks (a resume between `VmTermination` and `PowerCallbackTermination` of an
unload leaves a VMM behind, a suspend during `VmHotplugCallback` frees the block
it is about to use).

### EptTables and IdentityMap

One processor's EPT from `EptInitialization` to `EptTermination`.  A table is a
block of the pool: `live` says which blocks are allocated, `mem` what their
entries point to, `array` and `pre` which block holds the pre-allocated entries
and what is in it, `used` how many of them are.  `page`, `table` and `level` are
the arguments of `EptConstructTables` (one action per level, as the code calls
itself once per level).  Every allocation may fail.  The tables have
`Fanout` entries instead of 512 and there are `Preallocated` entries instead of
50; the four levels and the shifts between them are the code's.  `IdentityMap`
is a set of mapped pages that a violation may extend until the reserve is used
up, and `MapSpec` says that the tables implement it.  Access bits, INVEPT and
the memory type of an entry are left out (`EptMtrr` has the last).

`EptConstructTables` is weakly fair: in `EptInitialization` it is one call of
the driver's thread, in a violation it runs in VMX root, which nothing
interrupts.

### EptMtrr

The registers hold any combination of the ranges of the run.  Firmware or
operating system may change them, and `EptInitializeMtrrEntries` copies them
again, over the entries of the copy before, as each `VmInitialization` does.
`EptGetMemoryType` is the code's single pass: fixed ranges and UC end it, WT
replaces WB, the rest is taken from the range seen last.  The property compares
with the architecture's rules for overlaps.  Masks are contiguous and not zero,
and fixed ranges are enabled only where they are supported.  `RegistersType` says what
registers can hold, and that their ranges fit into `g_EptMtrrEntries`: the array has
11 + 255 entries (EPT.cpp:34-38), which counts the 11 registers of the 88 fixed ranges,
so that 178 are left for variable ranges.

### ProcessorSetup and VmxControls

`VmLifecycle` knows that a start may fail; `ProcessorSetup` knows why.  One
thread runs VmInitialization, the hot-add callback, suspend, resume and unload
(how threads interleave is `VmLifecycle`'s subject), on a `machine` chosen from
`Machines`.

| Variable | Code |
|---|---|
| `machine` | what CPUID, the capability registers, the firmware and the low MSRs are like |
| `fc`, `cr`, `mode`, `vmcs` | per processor: IA32_FEATURE_CONTROL, CR0 and CR4, VMX mode, the fields of the VMCS the rest depends on |
| `own`, `shared`, `refs` | how many of the five blocks of a `PROCESSOR_DATA` are allocated; the shared blocks; `ReferenceCount` |
| `bitmap` | the offsets that are set from the start of the MSR bitmap on, those behind the page included |
| `control` | `VmxFeatureControlMsr`, read on one processor before `Lock` is set on all |
| `stranded` | history: the processors VM.cpp:423-424 left in VMX operation |
| `skipped`, `acquired` | history variables |

`VmxControls` has the five control words as sets of named bits (those of
`ia32_type.h`), what `VmSetupVmcs` requests, `VmAdjustControlValue`, the
processor's checks on them and the exits they turn on.  A capability register is
made from the bits that must be 1 and those a machine lacks; with and without
TRUE registers.

Assumptions, all named in the module: the processors of a machine are alike;
every 64-bit processor has the controls for 64-bit operation and those the TRUE
registers make optional (`MachinesAssumption`; EPT
is one of the secondary controls, so a processor with it has them); firmware that enables VMXON does
so on a processor that is added, and locks the register (`FirmwareAssumption`).
The last one is the driver's: VmHotplugCallback never calls VmIsVmxAvailable, and
without the assumption `VmxonPermitted` is violated, VMXON raises #GP and nothing
handles it.

Abstractions: one MSR per unit of the bitmap (QuarterSize is 1024 bytes in the
code, so that a pointer to ULONG moves by 4 * QuarterSize); VMXON, VMCLEAR or VMPTRLD
(`VmInitializeVmcs`) and VMLAUNCH may fail for reasons of their own; `VmSetupVmcs` never fails, because `operator|=`
(Util.h:40) takes its left operand by value and returns the result, which the
callers drop, so that `LaunchAccepted` is the only thing that stands between a
wrong control and a launch that fails; what becomes of a VMM that a suspend left
running is not followed over the resume.

### PerfCollector and DriverServices

`PerfCollector` has the table of the collector and one action per read or write
of it in AddData, so that processors interleave at each of them: the lock routines are
the default ones, which do nothing.  `key`, `time` and `count` are the entries,
`at`, `scope`, `index` and `read` the locals of the call a processor is in; one
measured scope takes one unit of time.  `DriverServices` composes it with the rest
of what DriverEntry sets up before it virtualizes and DriverUnload takes down
after: constructors and destructors of global objects (`dtors` is the at-exit
list), the collector, the page-table base (a search that may fail), the
description of physical memory.  `vmm` are the processors with a VMM, which
measure and read the description.  Any step of the driver's start may fail.

Ranges of memory start at a page, have some bytes and overlap nowhere
(`MemoriesAssumption`), as the system reports them; they may end inside a page.

Starting and stopping a processor is one step here that succeeds or fails, but the loops
of VM.cpp are those of the code: `caller` and `idx` say for whom the loop of
UtilForEachProcessor runs (driver or power callback) and where it is, processors are
added (`active`), the system suspends and resumes (`asleep`), a failed start is rolled
back, and VmStopVm ends the loop at the first processor that has no VMM, wherever that
is (Util.cpp:453).  So VmTermination may return with VMMs running: those *behind* a
processor that was added and not virtualized (`Behind`), the state of the finding
`TerminationAssert`.  DriverUnload then frees the collector and the description of
memory under them (DriverEntry.cpp:135-139): their EPT violations read the freed
description, and a call of AddData one of them is in goes on in the freed table.
`ServicesOutliveVmms` and `DestroyedInReverse` except these VMMs by name and say that
there are no others; TLC reaches both kinds of states.  What the surviving VMMs do after
the collector is gone is not followed.  The callbacks run only while the driver is loaded,
one at a time (`Serialized` of the life cycle), so that a resume between VmTermination and
the deregistration of the callback (DriverEntry.cpp:135-137) is not in this module, either.
A processor leaves its VMM only between exits.  `MaxMeasures` bounds the measurements of
each processor.  The shipped driver links no constructor in (GlobalVariables.cpp:40).

### Log

Threads: the driver, the flush thread, the writers (handlers and callbacks on any
processor).  The state says which of `Resource`, the two buffers, the file and
the thread exist and who holds `Resource`.  LogPut puts a message into a buffer
only where the log file is not enabled (the else at 405), that is, before the
buffers are allocated and after they are freed; so a message that may be written
at once goes to the file, any other is dropped, and the contents of the buffers
are left out.  Re-initialisation (708-732) is never
registered, because 192 returns the status of the file and not
`STATUS_REINITIALIZATION_NEEDED`.  `LogTermination` starts when no writer is
inside: the driver deregisters its callbacks and terminates its VMMs first
(`GuestsNeedDriver` of the life cycle says when that succeeds).  The result of
`ZwWriteFile` is overwritten by that of the flush (565-569) and has no effect.

Fairness: weak for each thread that runs, strong for acquiring `Resource`,
which an executive resource hands out in order.

### VmmExit, GuestProcessor and GuestMachine

`GuestProcessor` is the architecture: registers with values of two halves, what
each instruction does to them, which events follow.  `GuestMachine` fetches and
executes one instruction at a time on it.  `VmmExit` is where the registers
really are.

| Variable | Code |
|---|---|
| `hw` | the processor's registers |
| `guest` | the guest-state area of the VMCS |
| `stack` | the general registers `AsmVmmEntryPoint` pushes |
| `exit` | what the exit reason, qualification and instruction information say |
| `inject`, `entryLen` | VM-entry interruption information and instruction length |

A VM exit saves `Saved` to `guest`, loads `HostArea` and pushes the general
registers; a handler (one action each) works on these three places; `VmResume`
or `ExitVm` puts the registers back.  `GuestSpec` maps each register of
`GuestMachine` to the place it is in at that moment and says that every step of
`VmmExit` is a step of that machine or none.  An instruction whose exit the
code requests exits (`MustExit`); one whose exit a processor may offer, refuse
or force may do either (`MayExit`), so the result holds on all of them.

Known differences from the bare processor, which `Unspecified` and `SameMemory`
of `GuestMachine` name and which the refinement shows to be confined to the
place named:

* reading DR2 gives DR3 (VMM.cpp:634);
* SGDT and SIDT store 16 bits of the base as the limit (VMM.cpp:1003, 1007);
* LLDT and LTR load no descriptor (VMM.cpp:1094, 1097);
* SLDT and STR to a register of more than 16 bits leave its upper part
  (VMM.cpp:1088, 1091);
* a move to the stack pointer is lost (VMM.cpp:805 selects the pushed copy, which
  `POPAQ` skips);
* after termination RAX, RCX and RDX hold what `AsmVmmEntryPoint` needed, and DR7
  and DEBUGCTL what the processor set at the exit.

Not in the model: the 32-bit build, PAE, MOV CR0 and CR4 (not intercepted on
x64), port I/O (no port is intercepted), the caches, VPIDs and INVVPID, DR4 and
DR5, `DR6.BS` after an injected #DB, blocking by MOV SS and STI, the event a VM
exit may have interrupted (the code never looks at it), processors that do not
save DR7 and DEBUGCTL at an exit (the code does not ask for it, VM.cpp:545-548,
so a DEBUGCTL written without an exit is lost there), and termination outside
the process in which the driver was loaded.  The ping falls through into
`kGetSharedProcessorData` (VMM.cpp:1145-1153); the model follows the code.

## 3. Runs

| Run | Bounds | Properties |
|---|---|---|
| `LifecycleInterleaved` | 2 processors + 1 hot-added, 2 shared blocks (interchangeable), 2 power events, free interleaving, VMCLEAR may fail | `RefCountExact`, `VmxMutex`, `VmmKeepsData` |
| `LifecycleSerialized` | 2 + 1 processors, 3 blocks, 4 power events, serialized, VMCLEAR may fail | `SharedOutlivesUsers`, `AllOrNothing`, `VmxeCoversVmx`, `GuestsNeedDriver`, `SharedSpec` |
| `LifecycleLiveness` | 1 + 1 processors, 2 blocks, 1 power event, free interleaving, fair | `VmxRootOwned`, `DriverSettles`, `CallbacksReturn` |
| `EptTables` | tables of 2 entries (16 pages), 2 runs of RAM, device pages beside and far from them, fewer pre-allocated entries than they need | `TypeOK`, `OwnedOnce`, `ExhaustedWhenAllUsed`, `LeafWrittenOnce`, `TerminationFreesOnce`, `MapSpec` |
| `EptMtrr` | 3 overlapping variable ranges of any type, fixed ranges on or off, one change | `TypeOK`, `MemoryTypeCorrect`, `StrongRangesPrevail` |
| `Log` | 2 writers, 1 message each, fair | `SetupOutlivesUsers`, `TerminationReleasesAll`, `LogSettles` |
| `VmmExit` | every kind of instruction on one or two registers, addresses up to 2 | `VmmRunsOnHost`, `GuestSpec` |
| `DriverServices` | 1 to 3 processors at the start, up to 3 with those added, any number of suspends; 3 locations (interchangeable), 3 entries, 2 measurements on the first and 1 on the last processor, 2 constructors, memories of up to 2 ranges | `ReportOmitsNothing`, `DuplicatesBounded`, `NothingMadeUp`, `SerialIsExact`, `ServicesOutliveVmms`, `NothingLeft`, `DestroyedInReverse`, `DescribesMemory` |
| `ProcessorSetup` | 12 machines, 2 processors + 2 added, 1 suspend, quarters of 8 MSRs of which 4 are probed | `VmxonPermitted`, `LaunchAccepted`, `ControlExitsHandled`, `VmxMemoryAllocated`, `OnlyUnacquiredLeft`, `ProbedReadsSafe` |
| `TerminationAssert`, `EptFreesOnlyAllocated`, `HighReadsExit` | small instances | one finding each, see below |

Why the bounds are enough.  Life cycle: two initial processors give a first
failure, a failure after a success and a rollback; the third, hot-added, gives a
processor the loop's count missed.  Two blocks let an old block be released
while a new one is in use, four power events are two full suspend/resume rounds.
A block is never reused, so a run ends when they are used up.  EPT: with two
entries per table every level is both shared and not shared by two pages, and the
reserve runs out at every depth.  MTRR: an overlap of three is the shortest in
which the middle range is decided twice.  VM exits: GuestSpec compares all
registers after every instruction, so an error shows at the instruction that
makes it; the second instruction is there because what the first leaves in the
three places, TF and the other address space must have their effect.

Services: two
processors in AddData are the least that meet, and a table of three entries for
three locations is full when one location takes two; the last of three processors
measures and may be behind the second one when that is added and not virtualized,
with the first left for VmTermination to reach.  Set-up: two initial
processors give a failure after a success, two added ones give a processor behind
one that was skipped; the machines are every content of the feature-control
register, TRUE registers or not, optional controls there or not, and one machine for each
other refusal.  A probed MSR, an unprobed one and a special one fault or not.

No run checks for deadlock: the driver unloads, the log terminates, the machine
stops when the reserve is exhausted, and counters reach their bound.  That
nothing waits for ever is what `DriverSettles`, `CallbacksReturn`, `LogSettles`
and the liveness part of `MapSpec` say.

`GuestsNeedDriver` is about the processors the driver was loaded on.  It says nothing
of a hot-added one, which VmTermination may not reach: a processor that failed to
start makes it stop early (finding `TerminationAssert`).  `VmxRootOwned` is checked and
proved where VMCLEAR and VMPTRLD do not fail, because VM.cpp:423-424 leaves a processor
in VMX root when one of them does; the run `ProcessorSetup` has that path.

Fairness.  Life cycle: weak fairness of each thread; the kernel schedules a
runnable thread again and again, and no step waits for another thread but the
deregistrations.  What comes from outside (an unload, a suspend, a new
processor) is not fair.  The others are with their modules above.

### Findings

* `TerminationAssert`: the assertion at the end of VmTermination (VM.cpp:984)
  fails when a processor added later was never virtualized, because
  UtilForEachProcessor stops at the first callback that fails.
* `EptFreesOnlyAllocated`: a failing EptInitialization frees pointers from an
  array nobody cleared (EPT.cpp:351, 611).
* `HighReadsExit`: BitmapReadHigh is a pointer to ULONG plus 1024 (VM.cpp:271), which
  is the first byte behind the page: reads of the MSRs from C0000000 on never exit,
  although VM.cpp:255 and 268 say that all do, and 1024 bytes behind the allocation are
  overwritten.

Other differences met while modelling:

* the assertion at VM.cpp:341 can fail under free interleaving (a hot-added processor
  is started by the callback and by the power callback's loop);
* the first failing allocation of VmInitializeVm frees no shared data (VM.cpp:362,
  888: the count is still 0), and a processor that was not virtualized hides those behind
  it from VmTermination; `OnlyUnacquiredLeft` shows that nothing else is left;
* when VMCLEAR or VMPTRLD fails, VmInitializeVm goes to the label behind `__vmx_off`
  (VM.cpp:423-424, 439): the VMXON region is freed and the processor stays in VMX
  operation; `VmxMemoryAllocated` names the case and shows that no other processor is in
  VMX operation without its memory;
* VMMs that VmTermination did not reach lose the services they use when the driver is
  unloaded (DriverEntry.cpp:135-139); `ServicesOutliveVmms` names the case;
* IsSupportedOS refuses a 64-bit system whose MmSystemRangeStart is not 0x80000000
  (DriverEntry.cpp:160), which is that of a 32-bit one, so that DriverEntry as it stands
  refuses to load the 64-bit build; the modules take the build as it is past this check,
  and `VmLifecycle` has the refusal as one of the ways in which DriverEntry fails;
* a read of an MSR from 0x1000 to 0x1FFF, which VmBuildMsrBitmap does not probe
  (VM.cpp:282), exits and faults in the VMM where the processor has no such MSR;
* INVPCID raises #UD in the guest although CPUID says that it is there: the control is
  not requested (VM.cpp:564-570), as those for RDTSCP and XSAVES are;
* INVEPT and INVVPID in the guest exit and stop the machine (VMM.cpp:233-253);
* a WT range before a WB one gives WB (EPT.cpp:413), against the comment at EPT.cpp:405;
  `MemoryTypeCorrect` names the case;
* entries of an older MTRR copy survive a shorter one (EPT.cpp:134, 141, 378), and the
  flag that disables all MTRRs is ignored (EPT.cpp:145, ia32_type.h:591);
* `EptMtrrEntriesSize` counts registers where entries are per range (EPT.cpp:36-38): the
  255 variable ranges it is meant for would not fit behind the 88 fixed ones; processors
  have far fewer;
* a message that may not be written at once is in neither buffer nor file, and LogPut
  returns success (Log.cpp:388, 405);
* LogInitialization leaves buffers and resource behind when the path does not exist
  (Log.cpp:192-197, 115-117); `TerminationReleasesAll` names the case;
* the assertion at Log.cpp:681 and the description at 461 do not fit the moment in which
  the flush thread is told to stop (Log.cpp:209);
* an at-exit entry is allocated with the size of the destructor pointer
  (GlobalVariables.cpp:71), which the pool's granularity makes up for; a destructor
  that could not be registered is never called (74);
* the exit history has rows for two processors (VMM.cpp:20); PowerCallback.cpp:63 clears
  the wrong handle; the 32-bit build writes all four PDPTEs to the first field
  (Util.cpp:601-604) and loads them from the old CR3 (VMM.cpp:516).

## 4. Proofs

Every theorem holds for all values of the constants that satisfy the named
assumptions of its module, and its own ASSUME where it has one.  Where a run checks the property too, it shows it on the
instance above.  The type invariants of `VmLifecycle`, `Log`, `DriverServices` and `ProcessorSetup`, and that the
overflow of the MSR bitmap never reaches the bits for writes (`WritesPass`), are
proved and not checked again by a run.

### VmLifecycleProofs

`VmLifecycleProofs` proves, for every number of processors, every set of blocks,
every number of power events, serialized or not:

* `RefCountAlwaysExact`: `Spec => []RefCountExact`
* `VmxAlwaysExclusive`: `Spec => []VmxMutex`
* `VmmAlwaysKeepsData`: `Spec => VmmKeepsData`
* `TypesAlwaysCorrect`: `Spec => []TypeOK`

None of them is inductive as it stands.  The count is exact only if an increment
and a decrement happen exactly when a holder appears or disappears, which needs
to know at which control points a thread holds a `PROCESSOR_DATA`
(`HeldAtDataLabels`), that a start has a block (`StartHasShared`), that a guest
has a VMM's data and nobody else has (`OwnedWhenGuest`) and that a fresh block
has no holders (`FreshUnused`, because VmInitialization resets the count).  The
inductive invariant is

    IInv == Control /\ VmxMutex /\ RefCountExact
    Control == Types /\ EntryUp /\ OwnedWhenGuest /\ HeldAtDataLabels
                     /\ StartHasShared /\ FreshUnused

where `Types` is `TypeOK` with an integer instead of a natural count; that the
count is never negative then follows from `RefCountExact`.  One lemma per
conjunct shows that every step keeps it; `OtherSteps` collects the steps that
touch none of the variables it speaks of.  The proofs use the assumptions named
in `VmLifecycle` on the constants and nothing else.

Where `Serialized` holds, the same module proves:

* `SharedAlwaysOutlivesUsers`: `Spec => []SharedOutlivesUsers`
* `SharedDataImplementsLifetime`: `Spec => SharedSpec`
* `AlwaysAllOrNothing`: `Spec => []AllOrNothing`
* `GuestsAlwaysHaveDriver`: `Spec => []GuestsNeedDriver`
* `VmxeAlwaysCoversVmx`: `Spec => []VmxeCoversVmx`

and, whatever the system does, as long as VMCLEAR and VMPTRLD do not fail,
`VmxRootAlwaysOwned`: `Spec => []VmxRootOwned`.  The inductive invariant

    SInv == IInv /\ SerialControl /\ Storage /\ Operation /\ LoopBounds /\ Installation

adds to `IInv` that one thread is at work and for which job (`SerialControl`); that a start
which has not failed has a live block (`Storage`); that CR4.VMXE is cleared only
where VMX is off (`Operation`); that the loop visits active processors, the initial ones
first (`LoopBounds`); and how far it has come (`Installation`): a start leaves the
processors below its index virtualized, a stop leaves them not virtualized, and at no point is
a processor virtualized behind one that is not, so that a loop that stops at the
first processor without a VMM has missed none.  The last part is what the roll-back of a
failed start rests on.

The block is freed with the last holder because the count is exact and not negative
(`LastHolder`).  The refinement has one lemma per kind of step: `AllocateAcquires`,
`LaunchHandsOver`, `StopHandsOver`, `FreeReleases`; every other step changes no user.

### LogProofs

* `TypesAlwaysCorrect`: `Spec => []TypeOK`
* `SetupAlwaysOutlivesUsers`: `Spec => []SetupOutlivesUsers`
* `EverythingIsReleased`: `Spec => []TerminationReleasesAll`

What exists is decided by the driver's control point alone, except in a message
of the driver's own, where the number of messages sent tells the first from the
last; the flush thread runs only between its creation and the join, and writers are
inside LogPut only while the driver is loaded.  These relations, together, are the
inductive invariant.

### DriverServicesProofs

* `TypesAlwaysCorrect`, `ServicesAlwaysOutliveVmms`, `ReportAlwaysComplete`,
  `DuplicatesAlwaysBounded`, `SerialAlwaysExact`, `NothingIsLeft`:
  `Spec => []P` for the properties of these names
* `NeverMadeUp`: `Spec => []NothingMadeUp`
* `AlwaysDestroyedInReverse`: `Spec => DestroyedInReverse`
* `AlwaysDescribesMemory`: `Spec => DescribesMemory`

`ServicesUp` fixes what is up at which control point of the driver, `Reached` which VMMs
run there: the loops have started or stopped the processors below `idx` (`LoopReached`),
and a VMM has one on every processor before its own unless one of those was skipped
(`NoGaps`), so that a loop that ends early leaves VMMs only behind such a processor
(`VmmsLeft`).  That the entries in use stay a prefix needs to know that a processor at entry i has
seen keys in all entries before it and that no key is ever taken out.  The bound on
duplicates rests on a history variable, the processor that wrote a key last: the
entries of one location were last written by different processors, since a processor
claims an entry only after it has passed all before it without finding its location,
and writes over another's claim only at the same entry (`KeysFirst`, `SearchKept`,
`OneEntryEach`).  `SerialIsExact` is proved
from what the one processor inside sees of the table at each control point (`OneAdds`,
`TableIsAdded`), and the order of destruction from the order of the at-exit list
(`DestructorsListed`).

`NothingMadeUp` is about sums and is not inductive: a processor that writes back a value
it read long ago may raise a count that another has written lower in the meantime, so that
the sum of the counts grows by more than one at a step.  `CountsBacked` and
`TimesBacked` say instead that there is a number of writes for each entry which bounds what the entry
and every processor that has read it hold, and that these numbers together do not exceed
what was added and measured; a write raises one of them by one, whatever it writes.

`AlwaysDescribesMemory` is arithmetic of pages: the run of a range has the pages that hold
one of its addresses (`RangeInPages`), runs of different ranges have no page in common
(`RunsApart`), and so the sum of the page counts is the number of pages of the union
(`PagesCounted`, by induction over the ranges counted so far).

### ProcessorSetupProofs

All properties of the run, for every set of machines, any
number of processors, suspends and MSRs: `TypesAlwaysCorrect`, `VmxonAlwaysPermitted`,
`LaunchAlwaysAccepted`, `ControlExitsAlwaysHandled`, `VmxMemoryAlwaysAllocated`,
`OnlyUnacquiredIsLeft`, `ProbedReadsAlwaysSafe`, and `WritesAlwaysPass`.  The inductive
invariant is

    IInv == Types /\ FeatureControl /\ ControlRegisters /\ BitmapBuilt
                  /\ Modes /\ Order /\ Counted

`FeatureControl` says what one processor's register tells about the others',
`ControlRegisters` that VMX operation is entered only with bits it allows and that a
VMCS holds adjusted controls, `Modes` at which control points a processor is in which
mode with which blocks, those in `stranded` apart, `Order` that the loop leaves processors started or stopped
from the first one on, and `Counted` that the reference count is the number of
processors that own something.  About the controls, `ControlsAlwaysAccepted` and
`ControlsHandled` are lemmas on `VmxControls` alone.

### EptTablesProofs

For tables with any number of entries, any sorted runs of RAM (at least one), any
reserve and any pool:

* `AlwaysOwnedOnce`, `TypesAlwaysCorrect`, `ExhaustedAlwaysAllUsed`,
  `LeafAlwaysWrittenOnce`: `Spec => []P` for `OwnedOnce`, `TypeOK`,
  `ExhaustedWhenAllUsed`, `LeafWrittenOnce`
* `TerminationAlwaysFreesOnce`: `Spec => TerminationFreesOnce`
* `TablesImplementMap`: `Spec => Promise!Safety`, the refinement of `IdentityMap`
  without its fairness

Two invariants carry them.  `IInv` is about blocks.  `Tree` says that the levels under
the root are disjoint and that no two entries of the upper levels lead to the same
table, so that each table has one parent; `Reserve` that pre-allocated entries are
pairwise different, those handed out tables and the others cleared; `Owned` that
headers, spare entries and tables are together what is allocated.  The one lemma all
construction rests on is `TableLinked`: a cleared block from outside, hung at an empty
entry, leaves a tree that is larger by this block.  `Mapped` is about pages: which
ones `EptInitialization` has done when it comes to a page (`Done`: those of RAM before
it, as runs are sorted), that the construction is on the path of its page, and that
each page leads to itself or nowhere.  `PathLinked` and `LeafWritten` say what a new table
and a new mapping do to all pages; the latter needs that pages with the same four
indices are the same page (`PageOfIndices`), which is proved from quotients and
remainders.

### EptMtrrProofs

For fixed ranges of any sizes and numbers, any number of variable ranges that fit, any
registers and any number of changes:

* `EptMtrrTypeCorrect`: `Spec => []TypeOK`
* `EptGivesMemoryType`: `Spec => []MemoryTypeCorrect`
* `EptKeepsStrongRanges`: `Spec => []StrongRangesPrevail`

The inductive invariant is `TypeOK /\ Copied`, where `Copied` says that a fresh copy is a
prefix of the entries.  The rest is about the two loops.  Copying gives entries that match
the registers (`FixedMatch`, `VariableMatch`) in their order (`OrderMatch`), fixed ones first.
What the search knows after i entries is the set of types seen and in which order WT and WB
came: if an entry ended it, it has the type of that entry (`AtEnd`); on the way, it has one of the types seen, and WT
if only WT and WB were seen and no WT came before a WB (`OnTheWay`).  `VisitStep` takes both over one more entry.
`StrongRangesPrevail` needs nothing about the entries behind the copy, as the search ends
before them.

### VmmExitProofs

`VmmAlwaysRunsOnHost`: `Spec => []VmmRunsOnHost`, for all instructions that
`InstructionsAssumption` allows, all values, addresses and registers.  A VM exit loads
all of the host area, which needs the processor to have every register of it
(`Complete`), and a handler writes to the processor itself only CR2, CR8, DR0 to DR6, XCR0
and MSRs that are in no area of the VMCS; that an MSR is one of these is what
`ExitKnown` is for.

`VmmImplementsGuestMachine`: `Spec => GuestSpec`, for the same instructions and where
`SavesDebugControls` holds (what happens on other processors is under *VmmExit* above).
The mapping is that of the run.  `View` puts the registers together from
the three places while a handler runs, and `Completes` says when a handler has
done its instruction: each register has its new value in the place where it is, the
instruction pointer is moved, and under TF the debug exception is injected.  `Raises` is
its counterpart for events.  Then there is one lemma per handler, and one for each step that
must change nothing the guest sees: the exit, VMRESUME, VMXOFF, an EPT violation.  The
invariant, `GInv`, adds to that above that the pushed stack pointer is the guest's, that no
event is left over when the guest runs, and that the driver ends its VMM in the
address space and with the segments it launched it with, which `GuestFetches` assumes.

### CommonLemmas

Induction over natural numbers is stated for a set instead of a predicate
(`SetInduction`, `RangeInduction`), from the well-foundedness of `<`, because the prover
cannot instantiate lemmas that take an operator.  The folds of the library are recursive
functions on the subsets of a finite set; `SubsetRecursion` says that such a function exists
(that the set of them is not empty), so that a fold can be unfolded.  From it follow what a
sum over a set is (`SumUnfold`) and the facts about sums the modules need: type,
monotonicity, and what raising one summand does.  `DivMod` and `DivUnique` are division with remainder.

### Only model-checked

Every invariant and every action property of a run is proved, and so are the three
refinements, that of `IdentityMap` without its fairness.  Model-checked only: `DriverSettles`, `CallbacksReturn`,
`LogSettles` and that a page that is touched is mapped or the machine stops (the fairness
of `IdentityMap`), as the prover does neither fairness nor ENABLED; and the
counterexamples of the findings.

## Plan

Done: the life cycle (`VmLifecycle`, `SharedLifetime`), the set-up of a processor
(`ProcessorSetup`, `VmxControls`), the VM-exit handlers (`VmmExit`, `GuestMachine`),
EPT (`EptTables`, `IdentityMap`, `EptMtrr`), the log (`Log`) and the driver's services
(`DriverServices`, `PerfCollector`), with proofs about each of them.

What could follow: events interrupted by an exit in `VmmExit`; one EPT per
`PROCESSOR_DATA` as a composition of `EptTables` and `VmLifecycle`.

## Not modelled

* Port I/O (VMM.cpp:659-780): both I/O bitmaps are zero (VM.cpp:302-331), so no port is
  ever intercepted.
* Handlers that only stop the machine, the dump of the guest state, the exit history
  (written, never read).
* Segment descriptors and access rights (VM.cpp:762-841) and the segment helpers: data of
  the processor that is copied field by field.
* The search for the page-table base and for exported routines in `Util.cpp` beyond its
  success or failure: a scan of kernel memory.
* The 32-bit build: `x86.asm`, PAE and the PDPTEs, MOV CR0 and CR4.
* Formatting of log messages and of the performance report.
* The remaining declarations of `ia32_type.h`, `ASM.h` and `Common.h`, build and
  installation files.
