---------------------------- MODULE GuestMachine ----------------------------
(***************************************************************************)
(* The machine the guest is to see: it fetches and executes one            *)
(* instruction at a time.                                                  *)
(* context is what the argument of a VMCALL points to, in kernel memory.   *)
(***************************************************************************)
EXTENDS GuestProcessor

VARIABLES
  cpu,      \* the registers
  mem,      \* per address space: the operand
  context,  \* *Context of the last VMCALL
  event,    \* event delivered with the last instruction
  on,       \* whether the VMM is there
  fetched   \* the instruction to execute next, or None

vars == <<cpu, mem, context, event, on, fetched>>

Fetch(i) ==
  /\ on
  /\ fetched = None
  /\ Legal(cpu, i)
  /\ fetched' = i
  /\ UNCHANGED <<cpu, mem, context, event, on>>

NewContext(i) ==
  CASE i.op = "vmcall" /\ i.number \in {"ping", "getSharedProcessorData"} -> "SharedData"
    [] i.op = "vmcall" /\ i.number = "terminate" -> "ProcessorData"
    [] OTHER -> context

\* Where the guest may find something else than the bare processor would have put
\* there: DR2 reads as DR3, moves to the stack pointer are lost, LLDT and LTR load
\* no descriptor, SLDT and STR leave the upper part of a wider register.
Unspecified(i) ==
  CASE i.op = "movFrom" /\ (i.sys = "dr2" \/ i.gpr = "sp")   -> {i.gpr}
    [] i.op = "loadSelector"                               -> {Descriptor(i.table)}
    [] i.op = "storeToRegister" /\ (i.size # 16 \/ i.gpr = "sp") -> {i.gpr}
    \* The registers a function may clobber, and the debug state the processor
    \* resets at a VM exit.
    [] i.op = "vmcall" /\ i.number = "terminate" -> {"ax", "cx", "dx", "dr7", "debugctl"}
    [] OTHER -> {}

\* SGDT and SIDT store some limit.
SameMemory(i, m, n) ==
  IF i.op = "storeTable" THEN [m EXCEPT ![cpu["cr3"]].limit = n[cpu["cr3"]].limit] = n
                         ELSE m = n

\* The instruction has its effect on everything else, and VMCALL terminates the
\* VMM if that was its number.
Execute ==
  LET i == fetched
      effect == Effect(cpu, mem, i)
      terminates == i.op = "vmcall" /\ i.number = "terminate"
  IN  /\ i # None
      /\ fetched' = None
      /\ DOMAIN cpu' = DOMAIN cpu
      /\ \A r \in DOMAIN cpu \ Unspecified(i) : cpu'[r] = effect.cpu[r]
      /\ SameMemory(i, mem', effect.mem)
      /\ event' = IF terminates THEN NoEvent ELSE effect.event
      /\ context' = NewContext(i)
      /\ on' = ~terminates

Init ==
  /\ cpu = InitialRegisters
  /\ mem = InitialMemory
  /\ context = "none"
  /\ event = NoEvent
  /\ on = TRUE
  /\ fetched = None

Next == Execute \/ \E i \in Instructions : Fetch(i)

Spec == Init /\ [][Next]_vars
=============================================================================
