------------------------------ MODULE VmmExit ------------------------------
(***************************************************************************)
(* What MyHyperPlatform does when its guest executes an instruction (the   *)
(* 64-bit build: VmSetupVmcs in VM.cpp, AsmVmmEntryPoint in x64.asm and    *)
(* the handlers of VMM.cpp).                                               *)
(*                                                                         *)
(* At a VM exit each register is somewhere else: general registers on the  *)
(* stack, where AsmVmmEntryPoint pushed them; what the processor saves and *)
(* replaces by the host's in the guest area of the VMCS; the rest still in *)
(* the processor.  A handler must find every register where it is.         *)
(***************************************************************************)
EXTENDS GuestProcessor

CONSTANT SavesDebugControls   \* Whether the processor saves DR7 and DEBUGCTL at an exit.

ASSUME VmmExitAssumption ==
  /\ MaxIp \in Nat
  /\ SavesDebugControls \in BOOLEAN

VARIABLES
  mode,      \* "guest", "fetched", "root" up to the handler's return, "return",
             \* "exitVm", "off"
  hw,        \* the registers of the processor
  guest,     \* the guest area of the VMCS
  stack,     \* general registers pushed by AsmVmmEntryPoint
  exit,      \* the instruction fetched last, which causes the exit
  inject,    \* VM-entry interruption information: the event to deliver
  entryLen,  \* VM-entry instruction length
  mem,       \* per address space: the operand
  context,   \* *Context of the last VMCALL
  event      \* event delivered with the last instruction

vars == <<mode, hw, guest, stack, exit, inject, entryLen, mem, context, event>>

-----------------------------------------------------------------------------
(* VmSetupVmcs                                                             *)

\* The registers with a field in the VMCS for both the guest and the host.
Exchanged ==
  {"sp", "ip", "flags", "cr3", "gdtrBase", "gdtrLimit", "idtrBase", "idtrLimit", "ldtr",
   "ldtrDescriptor", "tr", "trDescriptor", "sysenter", "fsBase", "gsBase"}
DebugControls == {"dr7", "debugctl"}

\* SaveDebugControls is not requested, LoadDebugControls is.
Saved  == Exchanged \union (IF SavesDebugControls THEN DebugControls ELSE {})
Loaded == Exchanged \union DebugControls

\* What the registers hold when VMLAUNCH starts the guest.
Launched == InitialRegisters

\* The host area is written from the same registers; what has no field in it
\* the processor sets itself.
HostArea ==
  [r \in Loaded |->
     CASE r = "sp"    -> Value("VmmStack")
       [] r = "ip"    -> 0
       [] r = "flags" -> [arith |-> "clear", tf |-> FALSE]
       [] r \in {"gdtrLimit", "idtrLimit"} -> Value("ffff")
       [] r = "ldtr"  -> [hi |-> Zero, lo |-> Zero]
       [] r = "ldtrDescriptor" -> Value("unusable")
       [] r = "dr7"      -> Value("400")
       [] r = "debugctl" -> Value("0")
       [] OTHER -> Launched[r]]

Init ==
  /\ mode = "guest"
  /\ hw = Launched
  /\ guest = [r \in Loaded |-> Launched[r]]
  /\ stack = [r \in Gpr |-> Value("none")]
  /\ exit = None
  /\ inject = NoEvent
  /\ entryLen = 0
  /\ mem = InitialMemory
  /\ context = "none"
  /\ event = NoEvent

\* The exits that cannot be configured, and those VmSetupVmcs asks for and every
\* processor with EPT offers.
MustExit(i) ==
  \/ i.op \in {"cpuid", "invd", "xsetbv", "vmcall", "vmx", "int3", "pageFault", "protectionFault"}
  \/ i.op \in {"movTo", "movFrom"} /\ i.sys \in Drs
  \/ i.op = "movTo" /\ i.sys = "cr3"

\* The exits the processor may offer, refuse or force.
MayExit(i) ==
  \/ MustExit(i)
  \/ i.op \in {"rdtsc", "rdtscp", "invlpg", "rdmsr", "wrmsr", "loadTable", "storeTable",
               "loadSelector", "storeSelector", "storeToRegister", "access"}
  \/ i.op \in {"movTo", "movFrom"} /\ i.sys \in {"cr3", "cr8"}

\* The driver terminates its VMM in the context in which it launched it.
Context ==
  {"cr3", "sysenter", "fsBase", "gsBase", "ldtr", "ldtrDescriptor", "tr", "trDescriptor"}

-----------------------------------------------------------------------------
(* The processor                                                           *)

GuestFetches(i) ==
  /\ mode = "guest"
  /\ Legal(hw, i)
  /\ i.op = "vmcall" /\ i.number = "terminate" => \A r \in Context : hw[r] = HostArea[r]
  /\ mode' = "fetched"
  /\ exit' = i
  /\ UNCHANGED <<hw, guest, stack, inject, entryLen, mem, context, event>>

GuestExecutes ==
  /\ mode = "fetched"
  /\ ~MustExit(exit)
  /\ mode' = "guest"
  /\ hw'    = Effect(hw, mem, exit).cpu
  /\ mem'   = Effect(hw, mem, exit).mem
  /\ event' = Effect(hw, mem, exit).event
  /\ UNCHANGED <<guest, stack, exit, inject, entryLen, context>>

\* Mutant: the guest's stack pointer is not copied to the pushed registers.
GuestExitsWithoutSp ==
  /\ mode = "fetched"
  /\ MayExit(exit)
  /\ mode'  = "root"
  /\ guest' = [r \in DOMAIN guest |-> IF r \in Saved THEN hw[r] ELSE guest[r]]
  /\ hw'    = [r \in DOMAIN hw |-> IF r \in Loaded THEN HostArea[r] ELSE hw[r]]
  /\ stack' = [r \in Gpr |-> IF r = "sp" THEN Value("none") ELSE hw[r]]
  /\ UNCHANGED <<exit, inject, entryLen, mem, context, event>>

\* The processor saves and loads state, AsmVmmEntryPoint pushes the general
\* registers, and VmmVmExitHandler fills in the guest's stack pointer.
GuestExits ==
  /\ mode = "fetched"
  /\ MayExit(exit)
  /\ mode'  = "root"
  /\ guest' = [r \in DOMAIN guest |-> IF r \in Saved THEN hw[r] ELSE guest[r]]
  /\ hw'    = [r \in DOMAIN hw |-> IF r \in Loaded THEN HostArea[r] ELSE hw[r]]
  /\ stack' = [r \in Gpr |-> hw[r]]
  /\ UNCHANGED <<exit, inject, entryLen, mem, context, event>>

-----------------------------------------------------------------------------
(* VmmAdjustGuestInstructionPointer and VmmInjectInterruption              *)

\* The handler returns to AsmVmmEntryPoint, having changed the guest area to g,
\* at the next instruction; under TF it injects #DB.
Adjusted(g) ==
  /\ mode' = "return"
  /\ guest' = [g EXCEPT !["ip"] = guest["ip"] + Length(exit)]
  /\ IF guest["flags"].tf
       THEN /\ inject' = [vector |-> "DB", code |-> "none"]
            /\ entryLen' = Length(exit)
       ELSE UNCHANGED <<inject, entryLen>>
  /\ UNCHANGED <<exit, event>>

\* The handler returns without moving the instruction pointer.
Injected(vector, code) ==
  /\ mode' = "return"
  /\ inject' = [vector |-> vector, code |-> code]
  /\ UNCHANGED <<guest, exit, event>>

Handles(ops) == mode = "root" /\ exit.op \in ops

-----------------------------------------------------------------------------
(* The handlers                                                            *)

\* #PF, #GP and #BP go back to the guest.  The faulting address goes into CR2,
\* the length of INT3 into the VMCS.
VmmHandleException ==
  /\ Handles({"int3", "pageFault", "protectionFault"})
  /\ \/ /\ exit.op = "pageFault"
        /\ Injected("PF", "code")
        /\ hw' = [hw EXCEPT !["cr2"] = Value("address")]
        /\ UNCHANGED entryLen
     \/ /\ exit.op = "protectionFault"
        /\ Injected("GP", "code")
        /\ UNCHANGED <<hw, entryLen>>
     \/ /\ exit.op = "int3"
        /\ Injected("BP", "none")
        /\ entryLen' = 1
        /\ UNCHANGED hw
  /\ UNCHANGED <<stack, mem, context>>

VmmHandleCpuid ==
  /\ Handles({"cpuid"})
  /\ stack' = [stack EXCEPT
       !["ax"] = Low(Value("cpuid.a")),
       !["bx"] = Low(Value("cpuid.b")),
       !["cx"] = Low(Value(IF exit.leaf = 1 THEN "cpuid.c.hypervisor" ELSE "cpuid.c")),
       !["dx"] = Low(Value("cpuid.d"))]
  /\ Adjusted(guest)
  /\ UNCHANGED <<hw, mem, context>>

\* VmmHandleInvalidateInternalCaches and VmmHandleInvalidateTlbEntry
VmmHandleInvalidate ==
  /\ Handles({"invd", "invlpg"})
  /\ Adjusted(guest)
  /\ UNCHANGED <<hw, stack, mem, context>>

VmmHandleRdtsc ==
  /\ Handles({"rdtsc"})
  /\ stack' = [stack EXCEPT !["dx"] = High(Value("tsc")), !["ax"] = Low(Value("tsc"))]
  /\ Adjusted(guest)
  /\ UNCHANGED <<hw, mem, context>>

VmmHandleRdtscp ==
  /\ Handles({"rdtscp"})
  /\ stack' = [stack EXCEPT !["dx"] = High(Value("tsc")), !["ax"] = Low(Value("tsc")),
                            !["cx"] = Low(Value("tscAux"))]
  /\ Adjusted(guest)
  /\ UNCHANGED <<hw, mem, context>>

\* CR3 is in the VMCS.  CR8 is in the processor: VmmVmExitHandler reads it before
\* it raises the IRQL and writes it back at the end.
VmmHandleCrAccess ==
  /\ Handles({"movTo", "movFrom"})
  /\ \/ /\ exit.op = "movTo" /\ exit.sys = "cr3"
        /\ Adjusted([guest EXCEPT !["cr3"] = stack[exit.gpr]])
        /\ UNCHANGED <<hw, stack>>
     \/ /\ exit.op = "movTo" /\ exit.sys = "cr8"
        /\ hw' = [hw EXCEPT !["cr8"] = stack[exit.gpr]]
        /\ Adjusted(guest)
        /\ UNCHANGED stack
     \/ /\ exit.op = "movFrom" /\ exit.sys = "cr3"
        /\ stack' = [stack EXCEPT ![exit.gpr] = guest["cr3"]]
        /\ Adjusted(guest)
        /\ UNCHANGED hw
     \/ /\ exit.op = "movFrom" /\ exit.sys = "cr8"
        /\ stack' = [stack EXCEPT ![exit.gpr] = hw["cr8"]]
        /\ Adjusted(guest)
        /\ UNCHANGED hw
  /\ UNCHANGED <<mem, context>>

\* Mutant: DR7 is taken from the processor, like the others.
VmmHandleDrAccessNative ==
  /\ Handles({"movTo", "movFrom"})
  /\ exit.sys \in Drs
  /\ \/ /\ exit.op = "movTo"
        /\ hw' = [hw EXCEPT ![exit.sys] = stack[exit.gpr]]
        /\ UNCHANGED stack
     \/ /\ exit.op = "movFrom"
        /\ stack' = [stack EXCEPT ![exit.gpr] = hw[exit.sys]]
        /\ UNCHANGED hw
  /\ Adjusted(guest)
  /\ UNCHANGED <<mem, context>>

\* DR7 is in the VMCS, the others are in the processor; for DR2 the code reads DR3.
VmmHandleDrAccess ==
  /\ Handles({"movTo", "movFrom"})
  /\ exit.sys \in Drs
  /\ \/ /\ exit.op = "movTo" /\ exit.sys = "dr7"
        /\ Adjusted([guest EXCEPT !["dr7"] = stack[exit.gpr]])
        /\ UNCHANGED <<hw, stack>>
     \/ /\ exit.op = "movTo" /\ exit.sys # "dr7"
        /\ hw' = [hw EXCEPT ![exit.sys] = stack[exit.gpr]]
        /\ Adjusted(guest)
        /\ UNCHANGED stack
     \/ /\ exit.op = "movFrom"
        /\ stack' = [stack EXCEPT ![exit.gpr] =
             CASE exit.sys = "dr7" -> guest["dr7"]
               [] exit.sys = "dr2" -> hw["dr3"]
               [] OTHER            -> hw[exit.sys]]
        /\ Adjusted(guest)
        /\ UNCHANGED hw
  /\ UNCHANGED <<mem, context>>

\* VmmHandleMsrAccess: the MSRs the processor exchanges are in the VMCS.
TransferToVmcs == {"sysenter", "debugctl", "fsBase", "gsBase"}

MsrValue == IF exit.sys \in TransferToVmcs THEN guest[exit.sys] ELSE hw[exit.sys]

VmmHandleMsrReadAccess ==
  /\ Handles({"rdmsr"})
  /\ stack' = [stack EXCEPT !["ax"] = Low(MsrValue), !["dx"] = High(MsrValue)]
  /\ Adjusted(guest)
  /\ UNCHANGED <<hw, mem, context>>

VmmHandleMsrWriteAccess ==
  /\ Handles({"wrmsr"})
  /\ \/ /\ exit.sys \in TransferToVmcs
        /\ Adjusted([guest EXCEPT ![exit.sys] = Join(stack["dx"], stack["ax"])])
        /\ UNCHANGED hw
     \/ /\ exit.sys \notin TransferToVmcs
        /\ hw' = [hw EXCEPT ![exit.sys] = Join(stack["dx"], stack["ax"])]
        /\ Adjusted(guest)
  /\ UNCHANGED <<stack, mem, context>>

\* The handlers of descriptor-table instructions access the guest's memory: they
\* switch to the guest's CR3 and back.
Operand == mem[guest["cr3"]]

\* Mutant: the VMM's CR3 is not restored.
VmmHandleGdtrOrIdtrAccessInGuestSpace ==
  /\ Handles({"loadTable", "storeTable"})
  /\ \/ /\ exit.op = "loadTable"
        /\ Adjusted([guest EXCEPT ![Base(exit.table)] = Operand.base,
                                  ![Limit(exit.table)] = Operand.limit])
        /\ UNCHANGED mem
     \/ /\ exit.op = "storeTable"
        /\ mem' = [mem EXCEPT ![guest["cr3"]].base = guest[Base(exit.table)],
                              ![guest["cr3"]].limit = Low(guest[Base(exit.table)])]
        /\ Adjusted(guest)
  /\ hw' = [hw EXCEPT !["cr3"] = guest["cr3"]]
  /\ UNCHANGED <<stack, context>>

\* SGDT and SIDT store the low part of the base as the limit.
VmmHandleGdtrOrIdtrAccess ==
  /\ Handles({"loadTable", "storeTable"})
  /\ \/ /\ exit.op = "loadTable"
        /\ Adjusted([guest EXCEPT ![Base(exit.table)] = Operand.base,
                                  ![Limit(exit.table)] = Operand.limit])
        /\ UNCHANGED mem
     \/ /\ exit.op = "storeTable"
        /\ mem' = [mem EXCEPT ![guest["cr3"]].base = guest[Base(exit.table)],
                              ![guest["cr3"]].limit = Low(guest[Base(exit.table)])]
        /\ Adjusted(guest)
  /\ UNCHANGED <<hw, stack, context>>

\* LLDT and LTR write the selector and no descriptor; SLDT and STR write 16 bits,
\* whatever the size of the register.
VmmHandleLdtrOrTrAccess ==
  /\ Handles({"loadSelector", "storeSelector", "storeToRegister"})
  /\ \/ /\ exit.op = "loadSelector"
        /\ Adjusted([guest EXCEPT ![exit.table] = Operand.selector])
        /\ UNCHANGED <<stack, mem>>
     \/ /\ exit.op = "storeSelector"
        /\ mem' = [mem EXCEPT ![guest["cr3"]].selector = guest[exit.table]]
        /\ Adjusted(guest)
        /\ UNCHANGED stack
     \/ /\ exit.op = "storeToRegister"
        /\ stack' = [stack EXCEPT ![exit.gpr] = [hi |-> @.hi, lo |-> guest[exit.table].lo]]
        /\ Adjusted(guest)
        /\ UNCHANGED mem
  /\ UNCHANGED <<hw, context>>

\* The page is mapped (EptTables) and the guest tries again.
VmmHandleEptViolation ==
  /\ Handles({"access"})
  /\ mode' = "return"
  /\ UNCHANGED <<hw, guest, stack, exit, inject, entryLen, mem, context, event>>

VmmHandleXsetbv ==
  /\ Handles({"xsetbv"})
  /\ hw' = [hw EXCEPT !["xcr0"] = Join(stack["dx"], stack["ax"])]
  /\ Adjusted(guest)
  /\ UNCHANGED <<stack, mem, context>>

VmmHandleVmx ==
  /\ Handles({"vmx"})
  /\ Adjusted([guest EXCEPT !["flags"].arith = "carry"])
  /\ UNCHANGED <<hw, stack, mem, context>>

-----------------------------------------------------------------------------
(* VMCALL                                                                  *)

IsVmCall(numbers) == Handles({"vmcall"}) /\ exit.number \in numbers

VmmIndicateSuccessfulVmcall == Adjusted([guest EXCEPT !["flags"].arith = "clear"])

VmmIndicateUnsuccessfulVmcall ==
  /\ Injected("UD", "none")
  /\ entryLen' = 3

\* kPingVmm goes on into kGetSharedProcessorData and so adjusts the instruction
\* pointer twice, to the same value.
VmmHandleVmCall ==
  /\ IsVmCall({"ping", "getSharedProcessorData", "unknown", "terminateFromUser"})
  /\ \/ /\ exit.number \in {"ping", "getSharedProcessorData"}
        /\ context' = "SharedData"
        /\ VmmIndicateSuccessfulVmcall
     \/ /\ exit.number \in {"unknown", "terminateFromUser"}
        /\ VmmIndicateUnsuccessfulVmcall
        /\ UNCHANGED context
  /\ UNCHANGED <<hw, stack, mem>>

\* VMXOFF does not restore the descriptor tables, so the handler does; flags,
\* stack and instruction pointer go to AsmVmmEntryPoint in registers.
VmmHandleVmCallTermination ==
  /\ IsVmCall({"terminate"})
  /\ hw' = [hw EXCEPT !["gdtrBase"] = guest["gdtrBase"], !["gdtrLimit"] = guest["gdtrLimit"],
                      !["idtrBase"] = guest["idtrBase"], !["idtrLimit"] = guest["idtrLimit"]]
  /\ context' = "ProcessorData"
  /\ stack' = [stack EXCEPT !["cx"] = guest["ip"] + Length(exit),
                            !["dx"] = stack["sp"],
                            !["ax"] = [guest["flags"] EXCEPT !.arith = "clear"]]
  /\ mode' = "exitVm"
  /\ UNCHANGED <<guest, exit, inject, entryLen, mem, event>>

-----------------------------------------------------------------------------
(* AsmVmmEntryPoint, after VmmVmExitHandler                                *)

\* The address an event is delivered at: a software exception's is behind its
\* instruction.
Delivered ==
  [vector |-> inject.vector, code |-> inject.code,
   ip |-> guest["ip"] + (IF inject.vector = "BP" THEN entryLen ELSE 0)]

\* After an EPT violation the guest is in the middle of its instruction.
Retries == exit.op = "access"

PendingEvent == IF inject = NoEvent THEN NoEvent ELSE Delivered

ResumedIp == IF inject = NoEvent THEN guest["ip"] ELSE Delivered.ip

\* POPAQ leaves the pushed stack pointer alone; VMRESUME loads the guest area and
\* delivers the event.
VmResume ==
  /\ mode = "return"
  /\ mode' = IF Retries THEN "fetched" ELSE "guest"
  /\ hw' = [r \in DOMAIN hw |->
              IF r = "ip" THEN ResumedIp
              ELSE IF r \in Loaded THEN guest[r]
              ELSE IF r \in Gpr THEN stack[r]
              ELSE hw[r]]
  /\ event' = IF Retries THEN event ELSE PendingEvent
  /\ inject' = NoEvent
  /\ UNCHANGED <<guest, stack, exit, entryLen, mem, context>>

\* ExitVm: POPAQ, VMXOFF, and back to the guest's flags, stack and address.
ExitVm ==
  /\ mode = "exitVm"
  /\ mode' = "off"
  /\ hw' = [r \in DOMAIN hw |->
              CASE r = "flags" -> stack["ax"]
                [] r = "sp"    -> stack["dx"]
                [] r = "ip"    -> stack["cx"]
                [] r \in Gpr \ {"sp"} -> stack[r]
                [] OTHER       -> hw[r]]
  /\ event' = NoEvent
  /\ UNCHANGED <<guest, stack, exit, inject, entryLen, mem, context>>

-----------------------------------------------------------------------------
\* VmmHandleVmExit
VmmHandleVmExit ==
  \/ VmmHandleException \/ VmmHandleCpuid \/ VmmHandleInvalidate \/ VmmHandleRdtsc
  \/ VmmHandleRdtscp \/ VmmHandleCrAccess \/ VmmHandleDrAccess
  \/ VmmHandleMsrReadAccess \/ VmmHandleMsrWriteAccess
  \/ VmmHandleGdtrOrIdtrAccess \/ VmmHandleLdtrOrTrAccess \/ VmmHandleEptViolation
  \/ VmmHandleXsetbv \/ VmmHandleVmx \/ VmmHandleVmCall \/ VmmHandleVmCallTermination

Next ==
  \/ \E i \in Instructions : GuestFetches(i)
  \/ GuestExecutes \/ GuestExits
  \/ VmmHandleVmExit
  \/ VmResume \/ ExitVm

Spec == Init /\ [][Next]_vars

-----------------------------------------------------------------------------
(* Properties                                                              *)

\* From an exit to VMRESUME the processor runs on what the host area holds, in
\* particular in the VMM's own address space and on its stack, whatever the guest
\* did and whichever address space a handler had to switch to.
VmmRunsOnHost ==
  mode \in {"root", "return"} => \A r \in Loaded : hw[r] = HostArea[r]

\* Where the guest's registers are.
GuestRegister(r) ==
  CASE mode \in {"guest", "fetched", "off"} -> hw[r]
    [] mode = "exitVm" /\ r = "flags"    -> stack["ax"]
    [] mode = "exitVm" /\ r = "sp"       -> stack["dx"]
    [] mode = "exitVm" /\ r = "ip"       -> stack["cx"]
    [] mode = "exitVm" /\ r \in Gpr \ {"sp"} -> stack[r]
    [] mode = "exitVm" /\ r \notin Gpr \union {"flags", "ip"} -> hw[r]
    [] mode \in {"root", "return"} /\ r = "ip"   -> ResumedIp
    [] mode \in {"root", "return"} /\ r \in Loaded \ {"ip"} -> guest[r]
    [] mode \in {"root", "return"} /\ r \in Gpr \ {"sp"} -> stack[r]
    [] OTHER -> hw[r]

\* Emulated or not, with an event or not, each instruction of the guest changes
\* the guest's registers, its memory and the events it sees as on the machine of
\* GuestMachine, and a terminated VMM leaves the processor in the guest's state.
Guest == INSTANCE GuestMachine WITH
  cpu <- [r \in DOMAIN hw |-> GuestRegister(r)],
  event <- IF mode = "return" /\ ~Retries THEN PendingEvent
           ELSE IF mode = "exitVm" THEN NoEvent ELSE event,
  on <- mode \notin {"exitVm", "off"},
  fetched <- IF mode \in {"fetched", "root"} \/ (mode = "return" /\ Retries) THEN exit ELSE None

GuestSpec == Guest!Spec

=============================================================================
