------------------------ MODULE ProcessorSetupProofs ------------------------
(***************************************************************************)
(* What VmInitialization sets up is what the processor and the VMM need,   *)
(* on every machine the assumptions allow, for any number of processors,   *)
(* added processors and suspends.                                          *)
(***************************************************************************)
EXTENDS ProcessorSetup, FiniteSetTheorems, TLAPS

-----------------------------------------------------------------------------
(* The controls                                                            *)

\* The capability registers are consistent, and so is what is asked for.
LEMMA CapabilityConsistent ==
  ASSUME NEW m \in Machines, NEW w \in Words
  PROVE  LET c == Capability(UseTrueMsrs(m), m.missing, w)
         IN  /\ c.LowPart \subseteq c.HighPart
             /\ c.LowPart \subseteq {"reserved"} \union Default1[w]
             /\ c.HighPart = Bits[w] \ m.missing
             /\ Requested[w] \subseteq Bits[w]
<1>1. Default1[w] \subseteq Bits[w] /\ Requested[w] \subseteq Bits[w]
  BY DEF Words, Default1, Bits, Requested, PinBits, ProcBits, Proc2Bits, EntryBits, ExitBits
<1>2. "reserved" \notin m.missing /\ Default1[w] \intersect m.missing = {}
  BY MachinesAssumption
<1> QED
  BY <1>1, <1>2 DEF Capability

\* The words that are written have the bits that must be 1, and else only bits that
\* were asked for and are available.
LEMMA ControlsBounded ==
  ASSUME NEW m \in Machines, NEW w \in Words
  PROVE  /\ WordAllowed(Capability(UseTrueMsrs(m), m.missing, w), Controls(m)[w])
         /\ Controls(m)[w] \subseteq Requested[w] \union {"reserved"} \union Default1[w]
         /\ Requested[w] \ m.missing \subseteq Controls(m)[w]
<1> DEFINE c == Capability(UseTrueMsrs(m), m.missing, w)
<1>1. Controls(m)[w] = (Requested[w] \intersect c.HighPart) \union c.LowPart
  BY DEF Controls, VmAdjustControlValue
<1> QED
  BY <1>1, CapabilityConsistent DEF WordAllowed

\* VM entry accepts the controls whatever the processor lacks.
LEMMA ControlsAlwaysAccepted ==
  ASSUME NEW m \in Machines, NEW vpid, vpid # 0
  PROVE  ControlsAccepted(m, Controls(m), vpid)
<1>1. \A w \in Words : WordAllowed(Capability(m.vmx_capability_hint, m.missing, w), Controls(m)[w])
  BY ControlsBounded DEF UseTrueMsrs
<1>2. "VirtualNmis" \notin Controls(m).pin
  BY ControlsBounded DEF Words, Requested, Default1
<1>3. "NmiWindowExiting" \notin Controls(m).proc
  BY ControlsBounded DEF Words, Requested, Default1
<1>4. "UnrestrictedGuest" \notin Controls(m).proc2
  BY ControlsBounded DEF Words, Requested, Default1
<1>5. /\ "EntryToSmm" \notin Controls(m).entry
      /\ "DeactivateDualMonitorTreatment" \notin Controls(m).entry
  BY ControlsBounded DEF Words, Requested, Default1
<1>6. "HostAddressSpaceSize" \in Controls(m).exit /\ "Ia32eModeGuest" \in Controls(m).entry
  BY ControlsBounded, MachinesAssumption DEF Words, Requested
<1> QED
  BY <1>1, <1>2, <1>3, <1>4, <1>5, <1>6 DEF ControlsAccepted

\* The bits of the words, one by one.
LEMMA ControlsListed ==
  ASSUME NEW m \in Machines
  PROVE  /\ Controls(m).pin \subseteq {"reserved"}
         /\ Controls(m).proc \subseteq {"Cr3LoadExiting", "Cr3StoreExiting", "MovDrExiting",
               "UseIoBitmap", "UseMsrBitmaps", "ActivateSecondaryControl", "reserved"}
         /\ Controls(m).proc2 \subseteq {"EnableEpt", "DescriptorTableExiting", "EnableRdtscp",
               "EnableVpid", "EnableXsavesXstors", "reserved"}
<1>1. Controls(m).pin \subseteq {"reserved"}
  BY ControlsBounded DEF Words, Requested, Default1
<1>2. Controls(m).proc \subseteq {"Cr3LoadExiting", "Cr3StoreExiting", "MovDrExiting",
               "UseIoBitmap", "UseMsrBitmaps", "ActivateSecondaryControl", "reserved"}
  BY ControlsBounded DEF Words, Requested, Default1
<1>3. Controls(m).proc2 \subseteq {"EnableEpt", "DescriptorTableExiting", "EnableRdtscp",
               "EnableVpid", "EnableXsavesXstors", "reserved"}
  BY ControlsBounded DEF Words, Requested, Default1
<1> QED
  BY <1>1, <1>2, <1>3

\* Every exit they turn on has a handler.
LEMMA ControlsHandled ==
  ASSUME NEW m \in Machines
  PROVE  ExitsOf(Controls(m)) \subseteq VmmHandles \ VmmStops
<1>1. ExitsOf(Controls(m)) \subseteq
        {"kCrAccess", "kDrAccess", "kIoInstruction", "kMsrRead", "kMsrWrite", "kEptViolation",
         "kGdtrOrIdtrAccess", "kLdtrOrTrAccess"}
  BY ControlsListed DEF ExitsOf
<1> QED
  BY <1>1 DEF VmmHandles, VmmStops

-----------------------------------------------------------------------------
(* Types, and which use of UtilForEachProcessor each control point is for   *)

StartLabels ==
  {"alloc", "fix", "vmxon", "vmcs", "setup", "launch", "vmxoff", "free", "failed"}

Registers ==
  /\ machine \in Machines
  /\ fc \in [Procs -> SUBSET {"Lock", "EnableVmxon"}]
  /\ cr \in [Procs -> SUBSET (machine.cr \union Fixed0)]
  /\ mode \in [Procs -> {"off", "root", "guest"}]
  /\ vmcs \in [Procs -> Vmcs \union {Null}]
  /\ stranded \subseteq Procs

Memory ==
  /\ own \in [Procs -> Nat]
  /\ shared \in {{}, SharedBlocks}
  /\ refs \in Int
  /\ bitmap \subseteq Nat
  /\ acquired \in BOOLEAN
  /\ skipped \subseteq Procs
  /\ \A q \in skipped : q > Initial

Control ==
  /\ active \in Initial .. Initial + MaxAdded
  /\ pc \in {"idle", "lock", "enabled", "shared", "alloc", "fix", "vmxon", "vmcs", "setup",
             "launch", "vmxoff", "free", "failed", "stop", "up", "asleep", "refused", "gone"}
  /\ task \in {"none", "start", "plug", "rollback", "suspend", "unload"}
  /\ idx \in 1 .. active
  /\ control \in SUBSET {"Lock", "EnableVmxon"}
  /\ suspends \in 0 .. MaxSuspends
  /\ pc \in StartLabels => task \in {"start", "plug"}
  /\ pc \in StartLabels /\ task = "plug" => idx = active /\ active > Initial
  /\ pc = "stop" => task \in {"rollback", "suspend", "unload"}

Types == Registers /\ Memory /\ Control

LEMMA ProcsFacts ==
  /\ Procs \subseteq Nat \ {0} /\ 1 \in Procs /\ Initial \in Procs /\ IsFiniteSet(Procs)
  /\ Initial + MaxAdded \in Procs
  /\ Len(OwnBlocks) = 5
  /\ Control => idx \in Procs /\ active \in Procs /\ 1 .. active \subseteq Procs
<1>1. IsFiniteSet(Procs)
  BY InitialAssumption, FS_Interval DEF Procs
<1>2. Len(OwnBlocks) = 5
  BY DEF OwnBlocks
<1> QED
  BY <1>1, <1>2, InitialAssumption DEF Procs, Control

\* The control words are sets of control bits.
LEMMA ControlsType ==
  ASSUME NEW m \in Machines
  PROVE  Controls(m) \in ControlWords
<1> DEFINE all == UNION {PinBits, ProcBits, Proc2Bits, EntryBits, ExitBits}
<1>1. ASSUME NEW w \in Words PROVE Controls(m)[w] \in SUBSET all
  <2>1. Requested[w] \subseteq all /\ "reserved" \in all /\ Default1[w] \subseteq all
    BY DEF Words, Default1, Requested, PinBits, ProcBits, Proc2Bits, EntryBits, ExitBits
  <2> QED
    BY <2>1, ControlsBounded
<1> QED
  BY <1>1 DEF ControlWords, Controls

\* What the MSR bitmap is built to be.
LEMMA BitmapBounded ==
  ASSUME machine \in Machines
  PROVE  /\ VmBuildMsrBitmap \subseteq Nat
         /\ VmBuildMsrBitmap \intersect (2 * QuarterSize .. PageSize - 1) = {}
         /\ \A m \in 0 .. ProbedMsrs - 1 : m \in VmBuildMsrBitmap => m \notin machine.faulting
<1> DEFINE filled == Fill(Fill({}, BitmapReadLow, QuarterSize), BitmapReadHigh, QuarterSize)
           probed == {m \in machine.faulting : m < ProbedMsrs}
<1>1. VmBuildMsrBitmap \subseteq filled \ {BitmapReadLow + i : i \in probed}
  BY DEF VmBuildMsrBitmap, ClearBits
<1>2. filled = 0 .. QuarterSize - 1 \union 4 * QuarterSize .. 5 * QuarterSize - 1
  BY MsrAssumption DEF Fill, BitmapReadLow, BitmapReadHigh, UlongPointer
<1>3. filled \subseteq Nat /\ filled \intersect (2 * QuarterSize .. PageSize - 1) = {}
  BY <1>2, MsrAssumption DEF PageSize
<1>4. ASSUME NEW m \in 0 .. ProbedMsrs - 1, m \in VmBuildMsrBitmap PROVE m \notin machine.faulting
  <2>1. SUFFICES ASSUME m \in machine.faulting PROVE FALSE
    OBVIOUS
  <2>2. m \in probed /\ BitmapReadLow + m = m
    BY <2>1, MsrAssumption DEF BitmapReadLow
  <2> QED
    BY <2>2, <1>1, <1>4
<1> QED
  BY <1>1, <1>3, <1>4

LEMMA InitTypes == Init => Types
<1> SUFFICES ASSUME Init PROVE Types
  OBVIOUS
<1>1. Registers
  BY MachinesAssumption DEF Init, Registers
<1>2. Memory
  <2>1. acquired \in BOOLEAN
    BY Zenon DEF Init
  <2> QED
    BY <2>1, ProcsFacts DEF Init, Memory
<1>3. Control
  BY InitialAssumption DEF Init, Control, StartLabels
<1> QED
  BY <1>1, <1>2, <1>3 DEF Types

\* No step leaves the machine, nor the bitmap but for what is built.
LEMMA MachineStays ==
  ASSUME [Next]_vars
  PROVE  machine' = machine /\ bitmap' \in {bitmap, VmBuildMsrBitmap}
  BY DEF Next, vars, VmInitialization, VmInitializeVm, VmIsVmxAvailable,
     VmSetLockBitCallback, VmxonEnabled, VmInitializeSharedData, Allocate,
     FixControlRegisters, VmEnterVmxMode, VmInitializeVmcs, VmSetupVmcs, VmLaunchVm, VmxOff,
     InitializeVmFails, VmStartVmFails, VmStopVm, VmTermination, PowerResume,
     VmHotplugCallback, mem, VmFreeProcessorData

LEMMA NextRegisters ==
  ASSUME Types, [Next]_vars
  PROVE  Registers'
<1> USE ProcsFacts, MachinesAssumption, InitialAssumption DEF Types
<1>0. machine' = machine /\ Vmcs' = Vmcs
  BY MachineStays DEF Vmcs
<1>1. CASE VmIsVmxAvailable
  BY <1>1, <1>0 DEF VmIsVmxAvailable, Goto, hw, mem, Registers
<1>2. CASE VmSetLockBitCallback
  BY <1>2, <1>0 DEF VmSetLockBitCallback, Goto, hw, mem, Registers
<1>3. CASE VmxonEnabled
  BY <1>3, <1>0 DEF VmxonEnabled, Goto, hw, mem, Registers
<1>4. CASE VmInitializeSharedData
  BY <1>4, <1>0 DEF VmInitializeSharedData, Goto, hw, mem, Registers
<1>5. CASE Allocate
  BY <1>5, <1>0 DEF Allocate, Goto, hw, mem, Registers
<1>6. CASE FixControlRegisters
  BY <1>6, <1>0 DEF FixControlRegisters, Goto, hw, mem, Registers
<1>7. CASE VmEnterVmxMode
  BY <1>7, <1>0 DEF VmEnterVmxMode, Goto, hw, mem, Registers
<1>18. CASE VmInitializeVmcs
  BY <1>18, <1>0 DEF VmInitializeVmcs, Goto, hw, mem, Registers
<1>8. CASE VmSetupVmcs
  <2> DEFINE v == [controls |-> Controls(machine), VirtualProcessorId |-> idx,
                   GuestCr |-> cr[idx], HostCr |-> cr[idx]]
  <2>1. idx \in Procs /\ machine \in Machines /\ cr[idx] \in SUBSET (machine.cr \union Fixed0)
    BY DEF Registers
  <2>2. v \in Vmcs
    BY <2>1, ControlsType DEF Vmcs
  <2>3. vmcs' \in [Procs -> Vmcs \union {Null}]
    BY <1>8, <2>2 DEF VmSetupVmcs, Registers
  <2> QED
    BY <1>8, <1>0, <2>3 DEF VmSetupVmcs, Registers
<1>9. CASE VmLaunchVm
  BY <1>9, <1>0 DEF VmLaunchVm, Goto, NextProcessor, hw, mem, Registers
<1>10. CASE VmxOff
  BY <1>10, <1>0 DEF VmxOff, Goto, hw, mem, Registers
<1>11. CASE InitializeVmFails
  BY <1>11, <1>0 DEF InitializeVmFails, Goto, VmFreeProcessorData, hw, mem, Registers
<1>12. CASE VmStartVmFails
  BY <1>12, <1>0 DEF VmStartVmFails, Goto, hw, mem, Registers
<1>13. CASE VmStopVm
  BY <1>13, <1>0 DEF VmStopVm, Goto, NextProcessor, StopsAt, VmFreeProcessorData, hw, mem,
     Registers
<1>14. CASE VmTermination
  BY <1>14, <1>0 DEF VmTermination, hw, mem, Registers
<1>15. CASE PowerResume
  BY <1>15, <1>0 DEF PowerResume, Goto, hw, mem, Registers
<1>16. CASE VmHotplugCallback
  BY <1>16, <1>0 DEF VmHotplugCallback, hw, mem, Registers
<1>17. CASE UNCHANGED vars
  BY <1>17, <1>0 DEF vars, hw, mem, ctrl, Registers
<1> QED
  BY <1>1, <1>2, <1>3, <1>4, <1>5, <1>6, <1>7, <1>8, <1>9, <1>10, <1>11, <1>12, <1>13,
     <1>14, <1>15, <1>16, <1>17, <1>18 DEF Next, VmInitialization, VmInitializeVm

LEMMA NextMemory ==
  ASSUME Types, [Next]_vars
  PROVE  Memory'
<1> USE ProcsFacts, InitialAssumption DEF Types
<1>1. CASE VmIsVmxAvailable
  BY <1>1 DEF VmIsVmxAvailable, Goto, hw, mem, Memory
<1>2. CASE VmSetLockBitCallback
  BY <1>2 DEF VmSetLockBitCallback, Goto, hw, mem, Memory
<1>3. CASE VmxonEnabled
  BY <1>3 DEF VmxonEnabled, Goto, hw, mem, Memory
<1>4. CASE VmInitializeSharedData
  <2>1. VmBuildMsrBitmap \subseteq Nat
    BY BitmapBounded DEF Registers
  <2>2. acquired' \in BOOLEAN
    BY <1>4, Zenon DEF VmInitializeSharedData
  <2>3. own' \in [Procs -> Nat] /\ UNCHANGED skipped /\ refs' = 0
    BY <1>4 DEF VmInitializeSharedData, Memory
  <2>4. shared' \in {{}, SharedBlocks} /\ bitmap' \subseteq Nat
    BY <1>4, <2>1 DEF VmInitializeSharedData, Memory
  <2> QED
    BY <2>2, <2>3, <2>4 DEF Memory
<1>5. CASE Allocate
  <2>1. idx \in Procs /\ UNCHANGED <<shared, bitmap, skipped>>
    BY <1>5 DEF Allocate
  <2>2. own' \in [Procs -> Nat]
    BY <1>5, <2>1 DEF Allocate, Memory
  <2>3. refs' \in Int
    BY <1>5 DEF Allocate, Memory
  <2>4. acquired' \in BOOLEAN
    BY <1>5, Zenon DEF Allocate, Memory
  <2> QED
    BY <2>1, <2>2, <2>3, <2>4 DEF Memory
<1>6. CASE FixControlRegisters
  BY <1>6 DEF FixControlRegisters, Goto, hw, mem, Memory
<1>7. CASE VmEnterVmxMode
  BY <1>7 DEF VmEnterVmxMode, Goto, hw, mem, Memory
<1>18. CASE VmInitializeVmcs
  BY <1>18 DEF VmInitializeVmcs, Goto, hw, mem, Memory
<1>8. CASE VmSetupVmcs
  BY <1>8 DEF VmSetupVmcs, Goto, hw, mem, Memory
<1>9. CASE VmLaunchVm
  BY <1>9 DEF VmLaunchVm, Goto, NextProcessor, hw, mem, Memory
<1>10. CASE VmxOff
  BY <1>10 DEF VmxOff, Goto, hw, mem, Memory
<1>11. CASE InitializeVmFails
  BY <1>11 DEF InitializeVmFails, Goto, VmFreeProcessorData, hw, mem, Memory
<1>12. CASE VmStartVmFails
  <2>1. UNCHANGED <<own, shared, refs, bitmap, acquired>>
    BY <1>12 DEF VmStartVmFails
  <2>2. CASE task = "plug"
    <3>1. skipped' = skipped \union {idx} /\ idx \in Procs /\ idx > Initial
      BY <1>12, <2>2 DEF VmStartVmFails, Control, StartLabels
    <3> QED
      BY <2>1, <3>1 DEF Memory
  <2>3. CASE task # "plug"
    BY <1>12, <2>1, <2>3 DEF VmStartVmFails, Memory
  <2> QED
    BY <2>2, <2>3
<1>13. CASE VmStopVm
  BY <1>13 DEF VmStopVm, Goto, NextProcessor, StopsAt, VmFreeProcessorData, hw, mem, Memory
<1>14. CASE VmTermination
  BY <1>14 DEF VmTermination, hw, mem, Memory
<1>15. CASE PowerResume
  BY <1>15 DEF PowerResume, Goto, hw, mem, Memory
<1>16. CASE VmHotplugCallback
  <2>1. /\ UNCHANGED <<own, shared, refs, bitmap, acquired>>
        /\ skipped' = skipped \/ skipped' = skipped \union {active + 1}
        /\ active + 1 \in Procs /\ active + 1 > Initial
    BY <1>16 DEF VmHotplugCallback, Control, Procs
  <2> QED
    BY <2>1 DEF Memory
<1>17. CASE UNCHANGED vars
  BY <1>17 DEF vars, hw, mem, ctrl, Memory
<1> QED
  BY <1>1, <1>2, <1>3, <1>4, <1>5, <1>6, <1>7, <1>8, <1>9, <1>10, <1>11, <1>12, <1>13,
     <1>14, <1>15, <1>16, <1>17, <1>18 DEF Next, VmInitialization, VmInitializeVm

LEMMA NextControl ==
  ASSUME Types, [Next]_vars
  PROVE  Control'
<1> USE ProcsFacts, InitialAssumption DEF Types, StartLabels
<1>1. CASE VmIsVmxAvailable
  <2>1. UNCHANGED <<task, active, suspends>> /\ idx' \in {1, idx}
    BY <1>1 DEF VmIsVmxAvailable, Goto
  <2>2. pc' \in {"enabled", "lock", "refused"}
    BY <1>1 DEF VmIsVmxAvailable, Goto
  <2>3. control' = control \/ (\E p \in 1 .. active : control' = fc[p])
    BY <1>1 DEF VmIsVmxAvailable, Goto
  <2>4. control' \in SUBSET {"Lock", "EnableVmxon"}
    <3>1. 1 .. active \subseteq Procs
      OBVIOUS
    <3>2. \A p \in Procs : fc[p] \in SUBSET {"Lock", "EnableVmxon"}
      BY DEF Registers
    <3>3. control \in SUBSET {"Lock", "EnableVmxon"}
      BY DEF Control
    <3> HIDE DEF Types
    <3> QED
      BY <2>3, <3>1, <3>2, <3>3, Zenon
  <2> QED
    BY <2>1, <2>2, <2>4 DEF Control
<1>2. CASE VmSetLockBitCallback
  <2>1. UNCHANGED <<task, control, active, suspends>>
    BY <1>2 DEF VmSetLockBitCallback, Goto
  <2>2. pc' \in {"enabled", "lock", "refused"} /\ idx' \in 1 .. active
    BY <1>2 DEF VmSetLockBitCallback, Goto, Control
  <2> QED
    BY <2>1, <2>2 DEF Control
<1>3. CASE VmxonEnabled
  BY <1>3 DEF VmxonEnabled, Goto, hw, mem, Control, Registers
<1>4. CASE VmInitializeSharedData
  <2>1. UNCHANGED <<control, active, suspends>>
    BY <1>4 DEF VmInitializeSharedData, Goto
  <2>2. \/ pc' = "alloc" /\ task' = "start" /\ idx' = 1
        \/ pc' = "refused" /\ UNCHANGED <<task, idx>>
    BY <1>4 DEF VmInitializeSharedData, Goto
  <2> QED
    BY <2>1, <2>2 DEF Control
<1>5. CASE Allocate
  BY <1>5 DEF Allocate, Goto, hw, mem, Control, Registers
<1>6. CASE FixControlRegisters
  BY <1>6 DEF FixControlRegisters, Goto, hw, mem, Control, Registers
<1>7. CASE VmEnterVmxMode
  BY <1>7 DEF VmEnterVmxMode, Goto, hw, mem, Control, Registers
<1>18. CASE VmInitializeVmcs
  BY <1>18 DEF VmInitializeVmcs, Goto, hw, mem, Control, Registers
<1>8. CASE VmSetupVmcs
  BY <1>8 DEF VmSetupVmcs, Goto, hw, mem, Control, Registers
<1>9. CASE VmLaunchVm
  <2>1. pc = "launch" /\ UNCHANGED <<task, control, active, suspends>>
    BY <1>9 DEF VmLaunchVm, Goto, NextProcessor
  <2>2. \/ pc' = "alloc" /\ task = "start" /\ idx' = idx + 1 /\ idx < active
        \/ pc' = "up" /\ idx' = 1
        \/ pc' = "vmxoff" /\ idx' = idx
    BY <1>9 DEF VmLaunchVm, Goto, NextProcessor, Control
  <2> QED
    BY <2>1, <2>2 DEF Control
<1>10. CASE VmxOff
  BY <1>10 DEF VmxOff, Goto, hw, mem, Control, Registers
<1>11. CASE InitializeVmFails
  BY <1>11 DEF InitializeVmFails, Goto, VmFreeProcessorData, hw, mem, Control, Registers
<1>12. CASE VmStartVmFails
  <2>1. UNCHANGED <<control, active, suspends>>
    BY <1>12 DEF VmStartVmFails, Goto
  <2>2. \/ pc' = "up" /\ UNCHANGED <<task, idx>>
        \/ pc' = "stop" /\ task' = "rollback" /\ idx' = 1
    BY <1>12 DEF VmStartVmFails, Goto
  <2> QED
    BY <2>1, <2>2 DEF Control
<1>13. CASE VmStopVm
  BY <1>13 DEF VmStopVm, Goto, NextProcessor, StopsAt, VmFreeProcessorData, hw, mem,
     Control, Registers
<1>14. CASE VmTermination
  BY <1>14 DEF VmTermination, hw, mem, Control, Registers
<1>15. CASE PowerResume
  BY <1>15 DEF PowerResume, Goto, hw, mem, Control, Registers
<1>16. CASE VmHotplugCallback
  BY <1>16 DEF VmHotplugCallback, hw, mem, Control, Registers
<1>17. CASE UNCHANGED vars
  BY <1>17 DEF vars, hw, mem, ctrl, Control, Registers
<1> QED
  BY <1>1, <1>2, <1>3, <1>4, <1>5, <1>6, <1>7, <1>8, <1>9, <1>10, <1>11, <1>12, <1>13,
     <1>14, <1>15, <1>16, <1>17, <1>18 DEF Next, VmInitialization, VmInitializeVm

LEMMA NextTypes ==
  ASSUME Types, [Next]_vars
  PROVE  Types'
  BY NextRegisters, NextMemory, NextControl DEF Types

-----------------------------------------------------------------------------
(* The feature-control register                                            *)

\* What each processor's register holds while it is looked at, locked and tested, and
\* when the driver goes on.
FeatureControl ==
  /\ \A p \in Procs : p > active => fc[p] = machine.firmwareAdded
  /\ pc = "idle" => \A p \in 1 .. active : fc[p] = machine.firmware
  /\ pc \in {"lock", "enabled"} => control = machine.firmware
  /\ pc = "lock" =>
       \A p \in 1 .. active :
         /\ fc[p] \ {"Lock"} = machine.firmware \ {"Lock"}
         /\ p < idx => "Lock" \in fc[p]
  /\ pc = "enabled" => \A p \in 1 .. active : fc[p] = machine.firmware \union {"Lock"}
  /\ pc \in StartLabels \union {"shared", "stop", "up"} =>
       /\ "EnableVmxon" \in machine.firmware
       /\ \A p \in 1 .. active : fc[p] = {"Lock", "EnableVmxon"}

LEMMA InitFeatureControl == Init => FeatureControl
  BY ProcsFacts, InitialAssumption DEF Init, FeatureControl, StartLabels, Procs

LEMMA NextFeatureControl ==
  ASSUME Types, FeatureControl, [Next]_vars
  PROVE  FeatureControl'
<1> USE ProcsFacts, MachinesAssumption, InitialAssumption DEF Types, Registers, Control, StartLabels
<1>1. CASE VmIsVmxAvailable
  BY <1>1 DEF VmIsVmxAvailable, Goto, hw, mem, FeatureControl
<1>2. CASE VmSetLockBitCallback
  BY <1>2 DEF VmSetLockBitCallback, Goto, hw, mem, FeatureControl
<1>3. CASE VmxonEnabled
  BY <1>3 DEF VmxonEnabled, Goto, hw, mem, FeatureControl
<1>4. CASE VmInitializeSharedData
  BY <1>4 DEF VmInitializeSharedData, Goto, hw, mem, FeatureControl
<1>5. CASE Allocate
  BY <1>5 DEF Allocate, Goto, hw, mem, FeatureControl
<1>6. CASE FixControlRegisters
  BY <1>6 DEF FixControlRegisters, Goto, hw, mem, FeatureControl
<1>7. CASE VmEnterVmxMode
  BY <1>7 DEF VmEnterVmxMode, Goto, hw, mem, FeatureControl
<1>18. CASE VmInitializeVmcs
  BY <1>18 DEF VmInitializeVmcs, Goto, hw, mem, FeatureControl
<1>8. CASE VmSetupVmcs
  BY <1>8 DEF VmSetupVmcs, Goto, hw, mem, FeatureControl
<1>9. CASE VmLaunchVm
  BY <1>9 DEF VmLaunchVm, Goto, NextProcessor, hw, mem, FeatureControl
<1>10. CASE VmxOff
  BY <1>10 DEF VmxOff, Goto, hw, mem, FeatureControl
<1>11. CASE InitializeVmFails
  BY <1>11 DEF InitializeVmFails, Goto, VmFreeProcessorData, hw, mem, FeatureControl
<1>12. CASE VmStartVmFails
  BY <1>12 DEF VmStartVmFails, Goto, hw, mem, FeatureControl
<1>13. CASE VmStopVm
  BY <1>13 DEF VmStopVm, Goto, NextProcessor, StopsAt, VmFreeProcessorData, hw, mem,
     FeatureControl
<1>14. CASE VmTermination
  BY <1>14 DEF VmTermination, hw, mem, FeatureControl
<1>15. CASE PowerResume
  BY <1>15 DEF PowerResume, Goto, hw, mem, FeatureControl
<1>16. CASE VmHotplugCallback
  <2>1. /\ pc = "up" /\ pc' \in {"alloc", "up"} /\ active' = active + 1 /\ active + 1 \in Procs
        /\ UNCHANGED <<machine, fc>>
    BY <1>16 DEF VmHotplugCallback, hw, Procs
  <2>2. fc[active + 1] = {"Lock", "EnableVmxon"}
    BY <2>1, FirmwareAssumption DEF FeatureControl
  <2>3. \A p \in 1 .. active' : fc'[p] = {"Lock", "EnableVmxon"}
    BY <2>1, <2>2 DEF FeatureControl
  <2> QED
    BY <2>1, <2>3 DEF FeatureControl
<1>17. CASE UNCHANGED vars
  BY <1>17 DEF vars, hw, mem, ctrl, FeatureControl
<1> QED
  BY <1>1, <1>2, <1>3, <1>4, <1>5, <1>6, <1>7, <1>8, <1>9, <1>10, <1>11, <1>12, <1>13,
     <1>14, <1>15, <1>16, <1>17, <1>18 DEF Next, VmInitialization, VmInitializeVm

-----------------------------------------------------------------------------
(* The control registers and the VMCS                                      *)

ControlRegisters ==
  /\ pc \in {"vmxon", "vmcs", "setup"} => CrAllowed(cr[idx])
  /\ pc = "launch" =>
       /\ vmcs[idx].controls = Controls(machine) /\ vmcs[idx].VirtualProcessorId = idx
       /\ CrAllowed(vmcs[idx].GuestCr) /\ CrAllowed(vmcs[idx].HostCr)
  /\ \A p \in Procs : mode[p] = "guest" => vmcs[p].controls = Controls(machine)

LEMMA InitControlRegisters == Init => ControlRegisters
  BY DEF Init, ControlRegisters

LEMMA NextControlRegisters ==
  ASSUME Types, FeatureControl, ControlRegisters, [Next]_vars
  PROVE  ControlRegisters'
<1> USE ProcsFacts DEF Types, Registers
<1>0. machine' = machine /\ Controls(machine)' = Controls(machine) /\ idx \in Procs
      /\ (\A bits : CrAllowed(bits)' = CrAllowed(bits))
  BY MachineStays DEF Controls, CrAllowed, FixedOff
<1>1. CASE VmIsVmxAvailable
  BY <1>1, <1>0 DEF VmIsVmxAvailable, Goto, hw, mem, ControlRegisters
<1>2. CASE VmSetLockBitCallback
  BY <1>2, <1>0 DEF VmSetLockBitCallback, Goto, hw, mem, ControlRegisters
<1>3. CASE VmxonEnabled
  BY <1>3, <1>0 DEF VmxonEnabled, Goto, hw, mem, ControlRegisters
<1>4. CASE VmInitializeSharedData
  BY <1>4, <1>0 DEF VmInitializeSharedData, Goto, hw, mem, ControlRegisters
<1>5. CASE Allocate
  BY <1>5, <1>0 DEF Allocate, Goto, hw, mem, ControlRegisters
<1>6. CASE FixControlRegisters
  <2>1. CrAllowed((cr[idx] \ FixedOff) \union Fixed0)
    BY MachinesAssumption DEF CrAllowed, FixedOff, Fixed0
  <2> QED
    BY <1>6, <1>0, <2>1 DEF FixControlRegisters, Goto, ControlRegisters
<1>7. CASE VmEnterVmxMode
  BY <1>7, <1>0 DEF VmEnterVmxMode, Goto, hw, mem, ControlRegisters
<1>18. CASE VmInitializeVmcs
  BY <1>18, <1>0 DEF VmInitializeVmcs, Goto, hw, mem, ControlRegisters
<1>8. CASE VmSetupVmcs
  BY <1>8, <1>0 DEF VmSetupVmcs, Goto, hw, mem, ControlRegisters
<1>9. CASE VmLaunchVm
  BY <1>9, <1>0 DEF VmLaunchVm, Goto, NextProcessor, hw, mem, ControlRegisters
<1>10. CASE VmxOff
  BY <1>10, <1>0 DEF VmxOff, Goto, hw, mem, ControlRegisters
<1>11. CASE InitializeVmFails
  BY <1>11, <1>0 DEF InitializeVmFails, Goto, VmFreeProcessorData, hw, mem, ControlRegisters
<1>12. CASE VmStartVmFails
  BY <1>12, <1>0 DEF VmStartVmFails, Goto, hw, mem, ControlRegisters
<1>13. CASE VmStopVm
  <2>1. pc' \in {"stop", "refused", "asleep", "gone"}
    BY <1>13 DEF VmStopVm, Goto, NextProcessor, StopsAt, Control
  <2>2. \A p \in Procs : mode'[p] = "guest" => mode[p] = "guest" /\ vmcs'[p] = vmcs[p]
    BY <1>13 DEF VmStopVm
  <2> QED
    BY <1>0, <2>1, <2>2 DEF ControlRegisters
<1>14. CASE VmTermination
  BY <1>14, <1>0 DEF VmTermination, hw, mem, ControlRegisters
<1>15. CASE PowerResume
  BY <1>15, <1>0 DEF PowerResume, Goto, hw, mem, ControlRegisters
<1>16. CASE VmHotplugCallback
  BY <1>16, <1>0 DEF VmHotplugCallback, hw, mem, ControlRegisters
<1>17. CASE UNCHANGED vars
  BY <1>17, <1>0 DEF vars, hw, mem, ctrl, ControlRegisters
<1> QED
  BY <1>1, <1>2, <1>3, <1>4, <1>5, <1>6, <1>7, <1>8, <1>9, <1>10, <1>11, <1>12, <1>13,
     <1>14, <1>15, <1>16, <1>17, <1>18 DEF Next, VmInitialization, VmInitializeVm

-----------------------------------------------------------------------------
(* The bitmap                                                              *)

BitmapBuilt == bitmap \in {{}, VmBuildMsrBitmap}

LEMMA NextBitmapBuilt ==
  ASSUME Types, BitmapBuilt, [Next]_vars
  PROVE  BitmapBuilt'
<1>1. VmBuildMsrBitmap' = VmBuildMsrBitmap
  BY MachineStays DEF VmBuildMsrBitmap
<1> QED
  BY <1>1, MachineStays DEF BitmapBuilt

-----------------------------------------------------------------------------
(* Modes and memory                                                        *)

\* A processor in VMX operation has all of its memory unless it is stranded there, and
\* one has memory only while its VMM runs or is being set up.
Modes ==
  /\ \A p \in Procs : own[p] <= 5
  /\ \A p \in Procs : mode[p] = "guest" => own[p] = 5
  /\ \A p \in Procs : mode[p] = "root" =>
       p \in stranded \/ (p = idx /\ pc \in {"vmcs", "setup", "launch", "vmxoff"})
  /\ \A p \in stranded : mode[p] = "root"
  /\ pc \in {"vmcs", "setup", "launch", "vmxoff"} => mode[idx] = "root" /\ idx \notin stranded
  /\ \A p \in Procs : own[p] # 0 => mode[p] = "guest" \/ (p = idx /\ pc \in StartLabels)
  /\ \A p \in Procs : p > active => own[p] = 0
  /\ pc \in {"fix", "vmxon", "vmcs", "setup", "launch", "vmxoff"} => own[idx] = 5
  /\ pc = "alloc" => own[idx] < 5
  /\ pc = "free" => own[idx] # 0
  /\ pc = "failed" => own[idx] = 0
  /\ pc \in StartLabels => mode[idx] # "guest"

\* Processors are virtualized from the first on and stopped in the same order.
Order ==
  /\ pc \in {"idle", "lock", "enabled", "shared"} => \A p \in Procs : own[p] = 0
  /\ pc \in StartLabels =>
       /\ \A q \in Procs : q < idx => own[q] # 0 \/ q \in skipped
       /\ \A p \in Procs : p > idx => own[p] = 0
  /\ pc = "up" => \A q \in 1 .. active : own[q] # 0 \/ q \in skipped
  /\ pc = "stop" =>
       \A p \in Procs : own[p] # 0 =>
         p >= idx /\ \A q \in idx .. p - 1 : own[q] # 0 \/ q \in skipped
  /\ pc \in {"refused", "asleep", "gone"} =>
       \A p \in Procs : own[p] # 0 => \E q \in skipped : q < p

LEMMA InitOwnership == Init => Modes /\ Order
  BY ProcsFacts DEF Init, Modes, Order, StartLabels

LEMMA NextModes ==
  ASSUME Types, Modes, Order, [Next]_vars
  PROVE  Modes'
<1> USE ProcsFacts DEF Types, Registers, Memory, Control, StartLabels
<1>1. CASE VmIsVmxAvailable
  BY <1>1 DEF VmIsVmxAvailable, Goto, hw, mem, Modes, Order
<1>2. CASE VmSetLockBitCallback
  BY <1>2 DEF VmSetLockBitCallback, Goto, hw, mem, Modes, Order
<1>3. CASE VmxonEnabled
  BY <1>3 DEF VmxonEnabled, Goto, hw, mem, Modes, Order
<1>4. CASE VmInitializeSharedData
  BY <1>4 DEF VmInitializeSharedData, Goto, hw, mem, Modes, Order
<1>5. CASE Allocate
  BY <1>5 DEF Allocate, Goto, hw, mem, Modes, Order
<1>6. CASE FixControlRegisters
  BY <1>6 DEF FixControlRegisters, Goto, hw, mem, Modes, Order
<1>7. CASE VmEnterVmxMode
  BY <1>7 DEF VmEnterVmxMode, Goto, hw, mem, Modes, Order
<1>18. CASE VmInitializeVmcs
  <2>1. /\ pc = "vmcs" /\ UNCHANGED <<own, mode, active, idx>> /\ idx \in Procs /\ own[idx] = 5
        /\ mode[idx] = "root" /\ idx \notin stranded
        /\ \A p \in Procs : mode[p] = "root" => p \in stranded \/ p = idx
    BY <1>18 DEF VmInitializeVmcs, Goto, mem, Modes
  <2>2. \/ pc' = "setup" /\ stranded' = stranded
        \/ pc' = "free" /\ stranded' = stranded \union {idx}
    BY <1>18 DEF VmInitializeVmcs, Goto
  <2> HIDE DEF Registers, Memory, Control
  <2> QED
    BY <2>1, <2>2 DEF Modes
<1>8. CASE VmSetupVmcs
  BY <1>8 DEF VmSetupVmcs, Goto, hw, mem, Modes, Order
<1>9. CASE VmLaunchVm
  <2>1. UNCHANGED <<own, active, task>> /\ idx \in Procs /\ own[idx] = 5
    BY <1>9 DEF VmLaunchVm, Goto, NextProcessor, mem, Modes
  <2>2. \/ pc' = "vmxoff" /\ UNCHANGED <<mode, idx>>
        \/ /\ pc' \in {"alloc", "up"} /\ mode' = [mode EXCEPT ![idx] = "guest"]
           /\ pc' = "alloc" => idx' = idx + 1
    BY <1>9 DEF VmLaunchVm, Goto, NextProcessor
  <2>3. CASE pc' = "vmxoff" /\ UNCHANGED <<mode, idx>>
    BY <1>9, <2>1, <2>3 DEF VmLaunchVm, Modes
  <2>4. CASE pc' = "up" /\ mode' = [mode EXCEPT ![idx] = "guest"]
    BY <1>9, <2>1, <2>4 DEF VmLaunchVm, Modes
  <2>5. CASE pc' = "alloc" /\ mode' = [mode EXCEPT ![idx] = "guest"] /\ idx' = idx + 1
    <3>1. own[idx + 1] = 0 /\ mode[idx + 1] # "guest" /\ idx + 1 \in Procs
      BY <1>9, <2>1, <2>5, NextControl, ProcsFacts DEF VmLaunchVm, NextProcessor, Modes, Order
    <3> QED
      BY <1>9, <2>1, <2>5, <3>1 DEF VmLaunchVm, Modes
  <2> QED
    BY <2>2, <2>3, <2>4, <2>5
<1>10. CASE VmxOff
  BY <1>10 DEF VmxOff, Goto, hw, mem, Modes, Order
<1>11. CASE InitializeVmFails
  BY <1>11 DEF InitializeVmFails, Goto, VmFreeProcessorData, hw, mem, Modes, Order
<1>12. CASE VmStartVmFails
  <2>1. /\ pc = "failed" /\ pc' \in {"up", "stop"} /\ own' = own /\ mode' = mode
        /\ active' = active /\ stranded' = stranded /\ idx \in Procs /\ own[idx] = 0
    BY <1>12 DEF VmStartVmFails, Goto, hw, Modes
  <2>2. \A p \in Procs : own[p] # 0 => mode[p] = "guest"
    BY <2>1 DEF Modes
  <2>3. \A p \in Procs : mode[p] = "root" => p \in stranded
    BY <2>1 DEF Modes
  <2> HIDE DEF Registers, Memory, Control
  <2> QED
    BY <2>1, <2>2, <2>3 DEF Modes
<1>13. CASE VmStopVm
  BY <1>13 DEF VmStopVm, Goto, NextProcessor, StopsAt, VmFreeProcessorData, hw, mem, Modes,
     Order
<1>14. CASE VmTermination
  BY <1>14 DEF VmTermination, hw, mem, Modes, Order
<1>15. CASE PowerResume
  BY <1>15 DEF PowerResume, Goto, hw, mem, Modes, Order
<1>16. CASE VmHotplugCallback
  <2>1. /\ pc = "up" /\ active' = active + 1 /\ UNCHANGED <<own, mode, stranded>>
        /\ active \in Nat /\ active + 1 \in Procs
        /\ pc' = "up" \/ (pc' = "alloc" /\ idx' = active + 1)
    BY <1>16 DEF VmHotplugCallback, hw, Procs
  <2>2. own[active + 1] = 0 /\ mode[active + 1] # "guest"
    BY <2>1 DEF Modes
  <2>3. \A p \in Procs : (mode[p] = "root" => p \in stranded) /\ (own[p] # 0 => mode[p] = "guest")
    BY <2>1 DEF Modes
  <2> HIDE DEF Registers, Memory, Control
  <2> QED
    BY <2>1, <2>2, <2>3 DEF Modes
<1>17. CASE UNCHANGED vars
  BY <1>17 DEF vars, hw, mem, ctrl, Modes, Order
<1> QED
  BY <1>1, <1>2, <1>3, <1>4, <1>5, <1>6, <1>7, <1>8, <1>9, <1>10, <1>11, <1>12, <1>13,
     <1>14, <1>15, <1>16, <1>17, <1>18 DEF Next, VmInitialization, VmInitializeVm

LEMMA NextOrder ==
  ASSUME Types, Modes, Order, [Next]_vars
  PROVE  Order'
<1> USE ProcsFacts DEF Types, Registers, Memory, Control, StartLabels
<1>1. CASE VmIsVmxAvailable
  BY <1>1 DEF VmIsVmxAvailable, Goto, hw, mem, Modes, Order
<1>2. CASE VmSetLockBitCallback
  BY <1>2 DEF VmSetLockBitCallback, Goto, hw, mem, Modes, Order
<1>3. CASE VmxonEnabled
  BY <1>3 DEF VmxonEnabled, Goto, hw, mem, Modes, Order
<1>4. CASE VmInitializeSharedData
  <2>1. \/ pc' = "alloc" /\ idx' = 1
        \/ pc' = "refused"
    BY <1>4 DEF VmInitializeSharedData, Goto
  <2>2. \A p \in Procs : own'[p] = 0
    BY <1>4 DEF VmInitializeSharedData, Order
  <2> HIDE DEF Registers, Memory, Control
  <2> QED
    BY <2>1, <2>2 DEF Order
<1>5. CASE Allocate
  BY <1>5 DEF Allocate, Goto, hw, mem, Modes, Order
<1>6. CASE FixControlRegisters
  BY <1>6 DEF FixControlRegisters, Goto, hw, mem, Modes, Order
<1>7. CASE VmEnterVmxMode
  BY <1>7 DEF VmEnterVmxMode, Goto, hw, mem, Modes, Order
<1>18. CASE VmInitializeVmcs
  BY <1>18 DEF VmInitializeVmcs, Goto, hw, mem, Modes, Order
<1>8. CASE VmSetupVmcs
  BY <1>8 DEF VmSetupVmcs, Goto, hw, mem, Modes, Order
<1>9. CASE VmLaunchVm
  BY <1>9 DEF VmLaunchVm, Goto, NextProcessor, hw, mem, Modes, Order
<1>10. CASE VmxOff
  BY <1>10 DEF VmxOff, Goto, hw, mem, Modes, Order
<1>11. CASE InitializeVmFails
  BY <1>11 DEF InitializeVmFails, Goto, VmFreeProcessorData, hw, mem, Modes, Order
<1>12. CASE VmStartVmFails
  <2>1. pc = "failed" /\ UNCHANGED <<own, mode, active>> /\ idx \in Procs /\ own[idx] = 0
    BY <1>12 DEF VmStartVmFails, Goto, hw, Modes
  <2>2. \/ /\ pc' = "up" /\ skipped' = skipped \union {idx} /\ idx = active
        \/ pc' = "stop" /\ idx' = 1 /\ UNCHANGED skipped
    BY <1>12 DEF VmStartVmFails, Goto
  <2>3. CASE pc' = "up" /\ skipped' = skipped \union {idx} /\ idx = active
    BY <2>1, <2>3 DEF Order
  <2>4. CASE pc' = "stop" /\ idx' = 1 /\ UNCHANGED skipped
    <3>1. \A q \in Procs : q < idx => own[q] # 0 \/ q \in skipped
      BY <2>1 DEF Order
    <3>2. \A p \in Procs : own[p] # 0 => p < idx /\ 1 .. p - 1 \subseteq Procs
      BY <2>1 DEF Order, Procs
    <3> QED
      BY <2>1, <2>4, <3>1, <3>2 DEF Order
  <2> QED
    BY <2>2, <2>3, <2>4
<1>13. CASE VmStopVm
  <2>1. pc = "stop" /\ active' = active /\ skipped' = skipped /\ idx \in Procs
    BY <1>13 DEF VmStopVm, Goto, NextProcessor
  <2>2. CASE mode[idx] = "guest"
    <3>1. own' = [own EXCEPT ![idx] = 0]
      BY <1>13, <2>2 DEF VmStopVm, VmFreeProcessorData
    <3>2. CASE pc' = "stop" /\ idx' = idx + 1
      BY <2>1, <3>1, <3>2 DEF Order
    <3>3. CASE idx = active /\ pc' \in {"refused", "asleep", "gone"}
      <4>1. \A p \in Procs : own'[p] = 0
        BY <2>1, <3>1, <3>3 DEF Order, Modes
      <4> QED
        BY <3>3, <4>1 DEF Order
    <3> QED
      BY <1>13, <2>2, <3>2, <3>3 DEF VmStopVm, NextProcessor, StopsAt, Goto
  <2>3. CASE mode[idx] # "guest"
    <3>1. pc' \in {"refused", "asleep", "gone"} /\ own' = own
      BY <1>13, <2>3 DEF VmStopVm, StopsAt, Goto
    <3>2. own[idx] = 0
      BY <2>1, <2>3 DEF Modes
    <3>3. \A p \in Procs : own[p] # 0 => p > idx /\ idx \in skipped
      BY <2>1, <3>2 DEF Order
    <3> QED
      BY <2>1, <3>1, <3>3 DEF Order
  <2> QED
    BY <2>2, <2>3
<1>14. CASE VmTermination
  <2>1. pc = "up" /\ pc' = "stop" /\ idx' = 1 /\ UNCHANGED <<own, skipped>>
    BY <1>14 DEF VmTermination, mem
  <2>2. \A p \in Procs : own[p] # 0 => p >= 1 /\ 1 .. p - 1 \subseteq 1 .. active
    BY DEF Modes, Procs
  <2> QED
    BY <2>1, <2>2 DEF Order
<1>15. CASE PowerResume
  BY <1>15 DEF PowerResume, Goto, hw, mem, Modes, Order
<1>16. CASE VmHotplugCallback
  <2>1. /\ pc = "up" /\ active' = active + 1 /\ own' = own /\ skipped \subseteq skipped'
        /\ \/ pc' = "alloc" /\ idx' = active + 1
           \/ pc' = "up" /\ active + 1 \in skipped'
    BY <1>16 DEF VmHotplugCallback, hw
  <2>2. \A q \in Procs : q < active + 1 => q \in 1 .. active
    BY DEF Procs
  <2>3. \A q \in 1 .. active + 1 : q = active + 1 \/ q \in 1 .. active
    OBVIOUS
  <2> QED
    BY <2>1, <2>2, <2>3 DEF Modes, Order
<1>17. CASE UNCHANGED vars
  BY <1>17 DEF vars, hw, mem, ctrl, Modes, Order
<1> QED
  BY <1>1, <1>2, <1>3, <1>4, <1>5, <1>6, <1>7, <1>8, <1>9, <1>10, <1>11, <1>12, <1>13,
     <1>14, <1>15, <1>16, <1>17, <1>18 DEF Next, VmInitialization, VmInitializeVm

-----------------------------------------------------------------------------
(* The count of the shared data                                            *)

Owners == {p \in Procs : own[p] # 0}

\* ReferenceCount is the number of VMMs that have memory.  The shared data are there
\* as long as it is not 0, and once one had memory no longer.
Counted ==
  /\ refs = Cardinality(Owners)
  /\ Owners # {} => shared = SharedBlocks /\ acquired
  /\ Owners = {} /\ acquired => shared = {}
  /\ pc = "alloc" => shared = SharedBlocks
  /\ pc \in {"idle", "lock", "enabled", "shared"} => shared = {}
  /\ pc = "asleep" => acquired
  /\ pc = "stop" /\ task = "suspend" => acquired

LEMMA InitCounted == Init => Counted
<1> SUFFICES ASSUME Init PROVE Counted
  OBVIOUS
<1>1. Owners = {}
  BY DEF Init, Owners
<1> QED
  BY <1>1, FS_EmptySet DEF Init, Counted

LEMMA OwnersFinite == IsFiniteSet(Owners) /\ Cardinality(Owners) \in Nat
  BY ProcsFacts, FS_Subset, FS_CardinalityType DEF Owners

\* A step that changes no memory.
LEMMA CountedStays ==
  ASSUME Counted, UNCHANGED <<own, shared, refs, acquired>>,
         pc' = "alloc" => shared = SharedBlocks,
         pc' \in {"idle", "lock", "enabled", "shared"} => shared = {},
         pc' = "asleep" => acquired,
         pc' = "stop" /\ task' = "suspend" => acquired
  PROVE  Counted'
<1>1. Owners' = Owners
  BY DEF Owners
<1> QED
  BY <1>1 DEF Counted

\* VmFreeProcessorData releases the data with the last reference.
LEMMA CountedFrees ==
  ASSUME Types, Counted, VmFreeProcessorData(idx), own[idx] # 0,
         pc' \notin {"alloc", "idle", "lock", "enabled", "shared"}
  PROVE  Counted'
<1>1. idx \in Owners /\ Owners' = Owners \ {idx}
  BY ProcsFacts DEF VmFreeProcessorData, Owners, Types, Memory
<1>2. Cardinality(Owners') = Cardinality(Owners) - 1
  BY <1>1, OwnersFinite, FS_RemoveElement
<1>3. acquired /\ acquired' = acquired /\ shared = SharedBlocks
  BY <1>1 DEF Counted, VmFreeProcessorData
<1>4. refs = Cardinality(Owners) /\ refs' = refs - 1
  BY DEF Counted, VmFreeProcessorData
<1>5. CASE refs = 1
  <2>1. Owners' = {}
    BY <1>1, <1>2, <1>4, <1>5, OwnersFinite, FS_EmptySet, FS_Subset
  <2> QED
    BY <1>2, <1>3, <1>4, <1>5, <2>1 DEF Counted, VmFreeProcessorData
<1>6. CASE refs # 1
  <2>1. Owners' # {} /\ shared' = shared
    BY <1>2, <1>4, <1>6, OwnersFinite, FS_EmptySet DEF VmFreeProcessorData
  <2> QED
    BY <1>2, <1>3, <1>4, <2>1 DEF Counted
<1> QED
  BY <1>5, <1>6

LEMMA NextCounted ==
  ASSUME Types, Modes, Order, Counted, [Next]_vars
  PROVE  Counted'
<1>1. CASE VmIsVmxAvailable
  <2>1. /\ UNCHANGED <<own, shared, refs, acquired>>
        /\ pc \notin {"alloc", "idle", "lock", "enabled", "shared"} => pc' # "alloc"
    BY <1>1 DEF VmIsVmxAvailable, Goto, mem
  <2> QED
    BY <1>1, <2>1, CountedStays DEF VmIsVmxAvailable, Goto, Counted
<1>2. CASE VmSetLockBitCallback
  <2>1. /\ UNCHANGED <<own, shared, refs, acquired>>
        /\ pc \notin {"alloc", "idle", "lock", "enabled", "shared"} => pc' # "alloc"
    BY <1>2 DEF VmSetLockBitCallback, Goto, mem
  <2> QED
    BY <1>2, <2>1, CountedStays DEF VmSetLockBitCallback, Goto, Counted
<1>3. CASE VmxonEnabled
  <2>1. /\ UNCHANGED <<own, shared, refs, acquired>>
        /\ pc \notin {"alloc", "idle", "lock", "enabled", "shared"} => pc' # "alloc"
    BY <1>3 DEF VmxonEnabled, Goto, mem
  <2> QED
    BY <1>3, <2>1, CountedStays DEF VmxonEnabled, Goto, Counted
<1>4. CASE VmInitializeSharedData
  <2>1. Owners' = {} /\ Owners = {}
    BY <1>4 DEF VmInitializeSharedData, Owners, Order
  <2>2. refs' = Cardinality(Owners')
    BY <1>4, <2>1, FS_EmptySet DEF VmInitializeSharedData
  <2>3. ~acquired' /\ ((pc' = "alloc" /\ shared' = SharedBlocks) \/ pc' = "refused")
    BY <1>4 DEF VmInitializeSharedData, Goto
  <2> QED
    BY <2>1, <2>2, <2>3 DEF Counted
<1>5. CASE Allocate
  <2>1. /\ pc = "alloc" /\ shared' = shared /\ shared = SharedBlocks /\ idx \in Procs
        /\ own[idx] \in Nat
    BY <1>5, ProcsFacts DEF Allocate, Counted, Types, Memory
  <2>2. CASE UNCHANGED <<own, refs, acquired>> /\ pc' \in {"failed", "free"}
    BY <2>1, <2>2, CountedStays
  <2>3. CASE /\ own' = [own EXCEPT ![idx] = @ + 1] /\ acquired' = TRUE
             /\ refs' = IF own[idx] = 0 THEN refs + 1 ELSE refs
             /\ pc' \in {"fix", "alloc"}
    <3>1. Owners' = Owners \union {idx}
      BY <2>1, <2>3 DEF Owners, Types, Memory
    <3>2. idx \in Owners <=> own[idx] # 0
      BY <2>1 DEF Owners
    <3>3. refs' = Cardinality(Owners')
      BY <2>3, <3>1, <3>2, OwnersFinite, FS_AddElement DEF Counted
    <3> QED
      BY <2>1, <2>3, <3>1, <3>3 DEF Counted
  <2> QED
    BY <1>5, <2>2, <2>3 DEF Allocate, Goto
<1>6. CASE FixControlRegisters
  <2>1. /\ UNCHANGED <<own, shared, refs, acquired>>
        /\ pc \notin {"alloc", "idle", "lock", "enabled", "shared"} => pc' # "alloc"
    BY <1>6 DEF FixControlRegisters, Goto, mem
  <2> QED
    BY <1>6, <2>1, CountedStays DEF FixControlRegisters, Goto, Counted
<1>7. CASE VmEnterVmxMode
  <2>1. /\ UNCHANGED <<own, shared, refs, acquired>>
        /\ pc \notin {"alloc", "idle", "lock", "enabled", "shared"} => pc' # "alloc"
    BY <1>7 DEF VmEnterVmxMode, Goto, mem
  <2> QED
    BY <1>7, <2>1, CountedStays DEF VmEnterVmxMode, Goto, Counted
<1>18. CASE VmInitializeVmcs
  <2>1. /\ UNCHANGED <<own, shared, refs, acquired>>
        /\ pc \notin {"alloc", "idle", "lock", "enabled", "shared"} => pc' # "alloc"
    BY <1>18 DEF VmInitializeVmcs, Goto, mem
  <2> QED
    BY <1>18, <2>1, CountedStays DEF VmInitializeVmcs, Goto, Counted
<1>8. CASE VmSetupVmcs
  <2>1. /\ UNCHANGED <<own, shared, refs, acquired>>
        /\ pc \notin {"alloc", "idle", "lock", "enabled", "shared"} => pc' # "alloc"
    BY <1>8 DEF VmSetupVmcs, Goto, mem
  <2> QED
    BY <1>8, <2>1, CountedStays DEF VmSetupVmcs, Goto, Counted
<1>9. CASE VmLaunchVm
  <2>1. /\ UNCHANGED <<own, shared, refs, acquired>>
        /\ pc' \in {"alloc", "up", "vmxoff"} \/ (pc' = "stop" /\ task # "start")
    BY <1>9 DEF VmLaunchVm, Goto, NextProcessor, mem
  <2>2. pc' # "stop"
    BY <1>9, <2>1 DEF VmLaunchVm, Goto, NextProcessor, Types, Control, StartLabels
  <2>3. idx \in Owners
    BY <1>9, ProcsFacts DEF VmLaunchVm, Types, Modes, Owners
  <2> QED
    BY <2>1, <2>2, <2>3, CountedStays DEF Counted
<1>10. CASE VmxOff
  <2>1. /\ UNCHANGED <<own, shared, refs, acquired>>
        /\ pc \notin {"alloc", "idle", "lock", "enabled", "shared"} => pc' # "alloc"
    BY <1>10 DEF VmxOff, Goto, mem
  <2> QED
    BY <1>10, <2>1, CountedStays DEF VmxOff, Goto, Counted
<1>11. CASE InitializeVmFails
  <2>1. own[idx] # 0 /\ VmFreeProcessorData(idx) /\ pc' = "failed"
    BY <1>11 DEF InitializeVmFails, Goto, Modes
  <2> QED
    BY <2>1, CountedFrees
<1>12. CASE VmStartVmFails
  <2>1. UNCHANGED <<own, shared, refs, acquired>>
    BY <1>12 DEF VmStartVmFails
  <2>2. pc' = "up" \/ (pc' = "stop" /\ task' = "rollback")
    BY <1>12 DEF VmStartVmFails, Goto
  <2> QED
    BY <2>1, <2>2, CountedStays
<1>13. CASE VmStopVm
  <2>1. /\ pc = "stop" /\ idx \in Procs /\ pc' \in {"stop", "refused", "asleep", "gone"}
        /\ pc' = "asleep" => task = "suspend"
    BY <1>13, ProcsFacts DEF VmStopVm, Goto, NextProcessor, StopsAt, Types, Control
  <2>2. CASE mode[idx] = "guest" /\ VmFreeProcessorData(idx)
    BY <2>1, <2>2, CountedFrees DEF Modes
  <2>3. CASE UNCHANGED <<own, shared, refs, acquired>> /\ task' = task
    BY <2>1, <2>3, CountedStays DEF Counted
  <2> QED
    BY <1>13, <2>2, <2>3 DEF VmStopVm, Goto
<1>14. CASE VmTermination
  <2>1. pc = "up" /\ pc' = "stop" /\ UNCHANGED <<own, shared, refs, acquired>>
    BY <1>14 DEF VmTermination, mem
  <2>2. 1 \in Owners
    BY <2>1, ProcsFacts, InitialAssumption DEF Order, Owners, Types, Memory, Control
  <2> QED
    BY <2>1, <2>2, CountedStays DEF Counted
<1>15. CASE PowerResume
  <2>1. pc = "asleep" /\ pc' = "idle" /\ UNCHANGED <<own, shared, refs, acquired>>
    BY <1>15 DEF PowerResume, Goto
  <2>2. Owners = {}
    BY <1>15 DEF PowerResume, Owners
  <2> QED
    BY <2>1, <2>2, CountedStays DEF Counted
<1>16. CASE VmHotplugCallback
  <2>1. pc = "up" /\ pc' \in {"alloc", "up"} /\ UNCHANGED <<own, shared, refs, acquired>>
    BY <1>16 DEF VmHotplugCallback
  <2>2. 1 \in Owners
    BY <2>1, ProcsFacts, InitialAssumption DEF Order, Owners, Types, Memory, Control
  <2> QED
    BY <2>1, <2>2, CountedStays DEF Counted
<1>17. CASE UNCHANGED vars
  BY <1>17, CountedStays DEF vars, hw, mem, ctrl, Counted
<1> QED
  BY <1>1, <1>2, <1>3, <1>4, <1>5, <1>6, <1>7, <1>8, <1>9, <1>10, <1>11, <1>12, <1>13,
     <1>14, <1>15, <1>16, <1>17, <1>18 DEF Next, VmInitialization, VmInitializeVm

-----------------------------------------------------------------------------
(* The invariant and the theorems                                          *)

IInv ==
  /\ Types
  /\ FeatureControl
  /\ ControlRegisters
  /\ BitmapBuilt
  /\ Modes
  /\ Order
  /\ Counted

\* The inductive invariant holds in every reachable state of the set-up.
THEOREM InvariantHolds == Spec => []IInv
<1>1. Init => IInv
  BY InitTypes, InitFeatureControl, InitControlRegisters, InitOwnership, InitCounted
     DEF IInv, BitmapBuilt, Init
<1>2. IInv /\ [Next]_vars => IInv'
  BY NextTypes, NextFeatureControl, NextControlRegisters, NextBitmapBuilt, NextModes, NextOrder,
     NextCounted DEF IInv
<1> QED
  BY <1>1, <1>2, PTL DEF Spec

\* Every variable has its type: no more blocks than VmInitializeVm asks for, no more
\* references than processors.
THEOREM TypesAlwaysCorrect == Spec => []TypeOK
<1>1. IInv => TypeOK
  <2> SUFFICES ASSUME IInv PROVE TypeOK
    OBVIOUS
  <2>1. Cardinality(Owners) <= Cardinality(Procs) /\ Cardinality(Procs) = Initial + MaxAdded
    BY ProcsFacts, InitialAssumption, FS_Subset, FS_Interval DEF Owners, Procs
  <2>2. refs \in 0 .. Initial + MaxAdded
    BY <2>1, OwnersFinite, InitialAssumption DEF IInv, Counted
  <2>3. own \in [Procs -> 0 .. Len(OwnBlocks)]
    <3>1. \A p \in Procs : own[p] \in 0 .. 5
      BY DEF IInv, Types, Memory, Modes
    <3> QED
      BY <3>1, ProcsFacts DEF IInv, Types, Memory
  <2>4. idx \in Procs
    BY ProcsFacts DEF IInv, Types
  <2>5. acquired \in BOOLEAN /\ bitmap \subseteq Nat /\ skipped \subseteq Procs
        /\ shared \in {{}, SharedBlocks}
    BY DEF IInv, Types, Memory
  <2> QED
    BY <2>2, <2>3, <2>4, <2>5 DEF TypeOK, IInv, Types, Registers, Control
<1> QED
  BY <1>1, InvariantHolds, PTL

\* VMXON is executed only where the feature-control register and the control registers
\* permit it, although VmIsVmxAvailable tests one processor's register before the lock.
THEOREM VmxonAlwaysPermitted == Spec => []VmxonPermitted
<1>1. IInv => VmxonPermitted
  BY ProcsFacts DEF IInv, Types, FeatureControl, ControlRegisters, VmxonPermitted,
     StartLabels, Control
<1> QED
  BY <1>1, InvariantHolds, PTL

\* VM entry accepts the fields VmSetupVmcs wrote, whatever controls the processor lacks
\* and whichever capability registers it has.
THEOREM LaunchAlwaysAccepted == Spec => []LaunchAccepted
<1>1. IInv => LaunchAccepted
  <2> SUFFICES ASSUME IInv, pc = "launch" PROVE EntryAccepted(vmcs[idx])
    BY DEF LaunchAccepted
  <2>1. machine \in Machines /\ idx \in Procs /\ idx # 0
    BY ProcsFacts DEF IInv, Types, Registers
  <2>2. ControlsAccepted(machine, Controls(machine), idx)
    BY <2>1, ControlsAlwaysAccepted
  <2> QED
    BY <2>2 DEF IInv, ControlRegisters, EntryAccepted
<1> QED
  BY <1>1, InvariantHolds, PTL

\* No control turns on an exit that VmmHandleVmExit stops the machine on.
THEOREM ControlExitsAlwaysHandled == Spec => []ControlExitsHandled
<1>1. IInv => ControlExitsHandled
  BY ControlsHandled DEF IInv, Types, Registers, ControlRegisters, ControlExitsHandled
<1> QED
  BY <1>1, InvariantHolds, PTL

\* What the VMCS of a processor in VMX operation points to is allocated, but for a
\* processor that a failing VMCLEAR or VMPTRLD left there.
THEOREM VmxMemoryAlwaysAllocated == Spec => []VmxMemoryAllocated
<1>1. IInv => VmxMemoryAllocated
  <2> SUFFICES ASSUME IInv, NEW p \in Procs, mode[p] # "off",
                      ~(mode[p] = "root" /\ p \in stranded)
               PROVE  own[p] = Len(OwnBlocks) /\ shared = SharedBlocks
    BY DEF VmxMemoryAllocated
  <2>1. mode[p] \in {"root", "guest"}
    BY DEF IInv, Types, Registers
  <2>2. own[p] = 5
    BY <2>1 DEF IInv, Modes
  <2> QED
    BY <2>2, ProcsFacts DEF IInv, Counted, Owners
<1> QED
  BY <1>1, InvariantHolds, PTL

\* A failed start and every stop free all memory but shared data nothing pointed to and
\* what UtilForEachProcessor does not reach behind a processor that was skipped.
THEOREM OnlyUnacquiredIsLeft == Spec => []OnlyUnacquiredLeft
<1>1. IInv => OnlyUnacquiredLeft
  BY DEF IInv, Order, Counted, Owners, OnlyUnacquiredLeft
<1> QED
  BY <1>1, InvariantHolds, PTL

\* The bitmap lets no probed MSR exit that the VMM could not read.
THEOREM ProbedReadsAlwaysSafe == Spec => []ProbedReadsSafe
<1>1. IInv => ProbedReadsSafe
  BY BitmapBounded DEF IInv, Types, Registers, BitmapBuilt, ProbedReadsSafe
<1> QED
  BY <1>1, InvariantHolds, PTL

\* The half of the bitmap for writes stays zero, wherever BitmapReadHigh points.
THEOREM WritesAlwaysPass == Spec => []WritesPass
<1>1. IInv => WritesPass
  BY BitmapBounded DEF IInv, Types, Registers, BitmapBuilt, WritesPass
<1> QED
  BY <1>1, InvariantHolds, PTL
=============================================================================
