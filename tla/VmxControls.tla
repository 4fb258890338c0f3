---------------------------- MODULE VmxControls ----------------------------
(***************************************************************************)
(* The VMX controls that VmSetupVmcs asks for (VM.cpp), what               *)
(* VmAdjustControlValue makes of them on a given processor, what the       *)
(* processor checks at VM entry and which exits the controls turn on.  A   *)
(* control word is the set of its bits that are 1.                         *)
(***************************************************************************)
EXTENDS Naturals, FiniteSets

Words == {"pin", "proc", "proc2", "entry", "exit"}

\* The bits by name.  "reserved" stands for the bits that are always 1, which
\* every word but "proc2" has.
PinBits   == {"ExternalInterruptExiting", "NmiExiting", "VirtualNmis",
              "ActivateVmxPreemptionTimer", "ProcessPostedInterrupts", "reserved"}
ProcBits  == {"InterruptWindowExiting", "UseTscOffseting", "HltExiting", "InvlpgExiting",
              "MwaitExiting", "RdpmcExiting", "RdtscExiting", "Cr3LoadExiting",
              "Cr3StoreExiting", "Cr8LoadExiting", "Cr8StoreExiting", "UseTprShadow",
              "NmiWindowExiting", "MovDrExiting", "UnconditionalIoExiting", "UseIoBitmap",
              "MonitorTrapFlag", "UseMsrBitmaps", "MonitorExiting", "PauseExiting",
              "ActivateSecondaryControl", "reserved"}
Proc2Bits == {"VirtualizeApicAccessed", "EnableEpt", "DescriptorTableExiting", "EnableRdtscp",
              "VirtualizeX2apicMode", "EnableVpid", "WbinvdExiting", "UnrestrictedGuest",
              "ApicRegisterVirtualization", "VirtualInterruptDelivery", "PauseLoopExiting",
              "RdrandExiting", "EnableInvpcid", "EnableVmFunctions", "VmcsShadowing",
              "RdseedExiting", "EptViolationVe", "EnableXsavesXstors",
              "ModeBasedExecuteControlForEpt", "UseTscScaling"}
EntryBits == {"LoadDebugControls", "Ia32eModeGuest", "EntryToSmm",
              "DeactivateDualMonitorTreatment", "LoadIa32PerfGlobalCtrl", "LoadIa32Pat",
              "LoadIa32Efer", "LoadIa32Bndcfgs", "ConcealVmentriesFromIntelPt",
              "reserved"}
ExitBits  == {"SaveDebugControls", "HostAddressSpaceSize", "LoadIa32PerfGlobalCtrl",
              "AcknowledgeInterruptOnExit", "SaveIa32Pat", "LoadIa32Pat", "SaveIa32Efer",
              "LoadIa32Efer", "SaveVmxPreemptionTimerValue", "ClearIa32Bndcfgs",
              "ConcealVmexitsFromIntelPt", "reserved"}

Bits == [pin |-> PinBits, proc |-> ProcBits, proc2 |-> Proc2Bits,
         entry |-> EntryBits, exit |-> ExitBits]

-----------------------------------------------------------------------------
(* The capability registers                                                *)

\* The bits that read 1 in the low half of a capability register unless the
\* processor has the TRUE registers, which tell that they may be 0.
Default1 == [pin |-> {}, proc |-> {"Cr3LoadExiting", "Cr3StoreExiting"}, proc2 |-> {},
             entry |-> {"LoadDebugControls"}, exit |-> {"SaveDebugControls"}]

\* The register of word w on a processor with or without TRUE registers that lacks
\* the controls in missing.  The secondary controls have one register.
Capability(trueMsrs, missing, w) ==
  LET reserved == {"reserved"} \intersect Bits[w]
  IN  [LowPart  |-> reserved \union (IF trueMsrs THEN {} ELSE Default1[w]),
       HighPart |-> Bits[w] \ missing]

\* vmx_capability_hint in IA32_VMX_BASIC tells which register to take.
UseTrueMsrs(machine) == machine.vmx_capability_hint

\* Mutant: WBINVD exits are requested too.
RequestedWbinvd ==
  [pin   |-> {},
   proc  |-> {"Cr3LoadExiting", "MovDrExiting", "UseIoBitmap", "UseMsrBitmaps",
              "ActivateSecondaryControl"},
   proc2 |-> {"EnableEpt", "DescriptorTableExiting", "EnableRdtscp", "EnableVpid",
              "WbinvdExiting", "EnableXsavesXstors"},
   entry |-> {"LoadDebugControls", "Ia32eModeGuest"},
   exit  |-> {"HostAddressSpaceSize", "AcknowledgeInterruptOnExit"}]

\* What VmSetupVmcs requests on x64.
Requested ==
  [pin   |-> {},
   proc  |-> {"Cr3LoadExiting", "MovDrExiting", "UseIoBitmap", "UseMsrBitmaps",
              "ActivateSecondaryControl"},
   proc2 |-> {"EnableEpt", "DescriptorTableExiting", "EnableRdtscp", "EnableVpid",
              "EnableXsavesXstors"},
   entry |-> {"LoadDebugControls", "Ia32eModeGuest"},
   exit  |-> {"HostAddressSpaceSize", "AcknowledgeInterruptOnExit"}]

\* Mutant: the bits that must be 1 are not added.
VmAdjustControlValueHigh(register, requested) == requested \intersect register.HighPart

VmAdjustControlValue(register, requested) ==
  (requested \intersect register.HighPart) \union register.LowPart

\* The control words as they are written to the VMCS.
Controls(machine) ==
  [w \in Words |->
     VmAdjustControlValue(Capability(UseTrueMsrs(machine), machine.missing, w), Requested[w])]

-----------------------------------------------------------------------------
(* The processor                                                           *)

\* A word is allowed when the bits that must be 1 are, and no bit that must be 0.
WordAllowed(register, word) ==
  register.LowPart \subseteq word /\ word \subseteq register.HighPart

\* The checks on the control fields at VM entry.  A processor with TRUE registers
\* goes by these.
ControlsAccepted(machine, ctl, vpid) ==
  /\ \A w \in Words : WordAllowed(Capability(machine.vmx_capability_hint, machine.missing, w), ctl[w])
  /\ "EnableVpid" \in ctl.proc2 => vpid # 0
  /\ "VirtualNmis" \in ctl.pin => "NmiExiting" \in ctl.pin
  /\ "NmiWindowExiting" \in ctl.proc => "VirtualNmis" \in ctl.pin
  /\ "UnrestrictedGuest" \in ctl.proc2 => "EnableEpt" \in ctl.proc2
  /\ "EntryToSmm" \notin ctl.entry /\ "DeactivateDualMonitorTreatment" \notin ctl.entry
  /\ "HostAddressSpaceSize" \in ctl.exit         \* the processor is in IA-32e mode
  /\ "Ia32eModeGuest" \in ctl.entry

\* The basic exit reasons the controls turn on, those no control turns off left
\* out.  XSAVES exits by a bitmap that stays 0; with or without the bitmaps some
\* accesses to MSRs exit.
ExitsOf(ctl) ==
  LET proc2 == IF "ActivateSecondaryControl" \in ctl.proc THEN ctl.proc2 ELSE {}
      on(word, bits, reasons) == IF bits \intersect word # {} THEN reasons ELSE {}
  IN  UNION {
        on(ctl.pin, {"ExternalInterruptExiting"}, {"kExternalInterrupt"}),
        on(ctl.pin, {"ActivateVmxPreemptionTimer"}, {"kVmxPreemptionTime"}),
        on(ctl.proc, {"InterruptWindowExiting"}, {"kPendingInterrupt"}),
        on(ctl.proc, {"NmiWindowExiting"}, {"kNmiWindow"}),
        on(ctl.proc, {"HltExiting"}, {"kHlt"}),
        on(ctl.proc, {"InvlpgExiting"}, {"kInvlpg"}),
        on(ctl.proc, {"MwaitExiting"}, {"kMwaitInstruction"}),
        on(ctl.proc, {"RdpmcExiting"}, {"kRdpmc"}),
        on(ctl.proc, {"RdtscExiting"}, {"kRdtsc"}),
        on(ctl.proc, {"Cr3LoadExiting", "Cr3StoreExiting", "Cr8LoadExiting", "Cr8StoreExiting"},
           {"kCrAccess"}),
        on(ctl.proc, {"UseTprShadow"}, {"kTprBelowThreshold"}),
        on(ctl.proc, {"MovDrExiting"}, {"kDrAccess"}),
        on(ctl.proc, {"UnconditionalIoExiting", "UseIoBitmap"}, {"kIoInstruction"}),
        on(ctl.proc, {"MonitorTrapFlag"}, {"kMonitorTrapFlag"}),
        {"kMsrRead", "kMsrWrite"},
        on(ctl.proc, {"MonitorExiting"}, {"kMonitorInstruction"}),
        on(ctl.proc, {"PauseExiting"}, {"kPauseInstruction"}),
        on(proc2, {"VirtualizeApicAccessed"}, {"kApicAccess"}),
        on(proc2, {"EnableEpt"}, {"kEptViolation"}),
        on(proc2, {"DescriptorTableExiting"}, {"kGdtrOrIdtrAccess", "kLdtrOrTrAccess"}),
        on(proc2, {"WbinvdExiting"}, {"kWbinvd"}),
        on(proc2, {"RdrandExiting"}, {"kRdrand"}),
        on(proc2, {"RdseedExiting"}, {"kRdseed"}) }

\* The cases of VmmHandleVmExit; any other reason stops the machine.
VmmHandles ==
  {"kExceptionOrNmi", "kTripleFault", "kCpuid", "kInvd", "kInvlpg", "kRdtsc", "kCrAccess",
   "kDrAccess", "kIoInstruction", "kMsrRead", "kMsrWrite", "kMonitorTrapFlag",
   "kGdtrOrIdtrAccess", "kLdtrOrTrAccess", "kEptViolation", "kEptMisconfig", "kVmcall",
   "kVmclear", "kVmlaunch", "kVmptrld", "kVmptrst", "kVmread", "kVmresume", "kVmwrite",
   "kVmoff", "kVmon", "kRdtscp", "kXsetbv"}

\* Those of them that have no handler that lets the guest go on.
VmmStops == {"kTripleFault", "kMonitorTrapFlag", "kEptMisconfig"}
=============================================================================
