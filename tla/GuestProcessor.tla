--------------------------- MODULE GuestProcessor ---------------------------
(***************************************************************************)
(* The 64-bit processor as a guest of MyHyperPlatform is to see it: the    *)
(* bare one, except that VMX instructions fail, VMCALL reaches the VMM and *)
(* CPUID shows a hypervisor.                                               *)
(*                                                                         *)
(* A register holds a value of two halves; a value is a token that names   *)
(* the register it came from, so that whatever is moved to the wrong place *)
(* shows.  Each address space has one descriptor-table operand in memory,  *)
(* whose cells are base, limit and selector.  When an event is delivered   *)
(* its handler returns at once to the address that was pushed.             *)
(***************************************************************************)
EXTENDS Integers

CONSTANTS
  Instructions,  \* What the guest may execute: records with the field op.
  MaxIp          \* Bound: no instruction starts beyond this address.

Gpr == {"ax", "bx", "cx", "dx", "sp"}
Drs == {"dr0", "dr1", "dr2", "dr3", "dr6", "dr7"}
Msrs == {"sysenter", "debugctl", "fsBase", "gsBase", "pat"}
Tables == {"gdtr", "idtr"}
Base(t)  == IF t = "gdtr" THEN "gdtrBase" ELSE "idtrBase"
Limit(t) == IF t = "gdtr" THEN "gdtrLimit" ELSE "idtrLimit"
\* LDTR and TR: the selector, and the descriptor loaded with it.
Segments == {"ldtr", "tr"}
Descriptor(s) == IF s = "ldtr" THEN "ldtrDescriptor" ELSE "trDescriptor"

Registers ==
  Gpr \union Drs \union Msrs \union Segments \union {"cr2", "cr3", "cr8", "xcr0",
    "gdtrBase", "gdtrLimit", "idtrBase", "idtrLimit", "ldtrDescriptor", "trDescriptor"}

\* The registers an instruction names are of its kind: moves are between a general and
\* a debug or control register, RDMSR and WRMSR are of the MSRs above, descriptor-table
\* instructions are of the tables and segments above.  "none" is no instruction.
ASSUME InstructionsAssumption ==
  \A i \in Instructions :
    /\ i.op # "none"
    /\ i.op \in {"movTo", "movFrom"} => i.sys \in Drs \union {"cr3", "cr8"}
    /\ i.op \in {"rdmsr", "wrmsr"} => i.sys \in Msrs
    /\ i.op \in {"movTo", "movFrom", "storeToRegister"} => i.gpr \in Gpr
    /\ i.op \in {"loadTable", "storeTable"} => i.table \in Tables
    /\ i.op \in {"loadSelector", "storeSelector", "storeToRegister"} => i.table \in Segments

-----------------------------------------------------------------------------
(* Values                                                                  *)

Zero == <<"zero", 0>>

Value(name) == [hi |-> <<name, 1>>, lo |-> <<name, 0>>]
Low(v)      == [hi |-> Zero, lo |-> v.lo]
High(v)     == [hi |-> Zero, lo |-> v.hi]
Join(h, l)  == [hi |-> h.lo, lo |-> l.lo]
\* The descriptor a selector selects.
Described(v) == [hi |-> <<v.lo[1], 3>>, lo |-> <<v.lo[1], 2>>]

\* The values CR3 may have: the address space of the system process, in which
\* the driver was loaded, and that of another process.
System  == Value("cr3")
Process == Value("bx")
Spaces  == {System, Process}

None    == [op |-> "none"]
NoEvent == [vector |-> "none"]

\* The address pushed is that of the instruction for a fault, and of the next
\* one for a trap.
Event(vector, code, ip) == [vector |-> vector, code |-> code, ip |-> ip]

Length(i) == IF i.op = "vmcall" THEN 3 ELSE IF i.op = "int3" THEN 1 ELSE 2

-----------------------------------------------------------------------------
(* What an instruction does to the registers and to memory                 *)

NewRegisters(c, m, i) ==
  CASE i.op = "cpuid" ->
         [c EXCEPT !["ax"] = Low(Value("cpuid.a")), !["bx"] = Low(Value("cpuid.b")),
                   !["cx"] = Low(Value(IF i.leaf = 1 THEN "cpuid.c.hypervisor" ELSE "cpuid.c")),
                   !["dx"] = Low(Value("cpuid.d"))]
    [] i.op = "rdtsc" -> [c EXCEPT !["ax"] = Low(Value("tsc")), !["dx"] = High(Value("tsc"))]
    [] i.op = "rdtscp" ->
         [c EXCEPT !["ax"] = Low(Value("tsc")), !["dx"] = High(Value("tsc")),
                   !["cx"] = Low(Value("tscAux"))]
    [] i.op = "movTo"   -> [c EXCEPT ![i.sys] = c[i.gpr]]
    [] i.op = "movFrom" -> [c EXCEPT ![i.gpr] = c[i.sys]]
    [] i.op = "rdmsr"   -> [c EXCEPT !["ax"] = Low(c[i.sys]), !["dx"] = High(c[i.sys])]
    [] i.op = "wrmsr"   -> [c EXCEPT ![i.sys] = Join(c["dx"], c["ax"])]
    [] i.op = "xsetbv"  -> [c EXCEPT !["xcr0"] = Join(c["dx"], c["ax"])]
    [] i.op = "loadTable" ->
         [c EXCEPT ![Base(i.table)] = m[c["cr3"]].base, ![Limit(i.table)] = m[c["cr3"]].limit]
    [] i.op = "loadSelector" ->
         [c EXCEPT ![i.table] = m[c["cr3"]].selector,
                   ![Descriptor(i.table)] = Described(m[c["cr3"]].selector)]
    [] i.op = "storeToRegister" ->
         [c EXCEPT ![i.gpr] =
            [hi |-> IF i.size = 16 THEN c[i.gpr].hi ELSE Zero, lo |-> c[i.table].lo]]
    [] i.op = "vmx"    -> [c EXCEPT !["flags"].arith = "carry"]
    [] i.op = "vmcall" -> [c EXCEPT !["flags"].arith = "clear"]
    [] i.op = "popf"   -> [c EXCEPT !["flags"].tf = TRUE]
    [] OTHER -> c

NewMemory(c, m, i) ==
  CASE i.op = "storeTable" ->
         [m EXCEPT ![c["cr3"]].base = c[Base(i.table)], ![c["cr3"]].limit = c[Limit(i.table)]]
    [] i.op = "storeSelector" -> [m EXCEPT ![c["cr3"]].selector = c[i.table]]
    [] OTHER -> m

\* CR3 gets an address space, and memory holds what was stored there.
Legal(c, i) ==
  /\ c["ip"] <= MaxIp
  /\ i.op = "movTo" /\ i.sys = "cr3" => c[i.gpr] \in Spaces

Faults == {"int3", "pageFault", "protectionFault"}

\* The instructions that are refused: VMCALL with a number the VMM does not
\* know, or to terminate it from user mode.
Refused(i) == i.op = "vmcall" /\ i.number \in {"unknown", "terminateFromUser"}

\* An instruction completes; under TF a debug exception follows.
Completed(c, m, i) ==
  LET next == [NewRegisters(c, m, i) EXCEPT !["ip"] = c["ip"] + Length(i)]
  IN  [cpu |-> next,
       mem |-> NewMemory(c, m, i),
       event |-> IF c["flags"].tf THEN Event("DB", "none", next["ip"]) ELSE NoEvent]

Raised(c, m, i) ==
  CASE i.op = "int3" ->
         [cpu |-> [c EXCEPT !["ip"] = @ + 1], mem |-> m,
          event |-> Event("BP", "none", c["ip"] + 1)]
    [] i.op = "pageFault" ->
         [cpu |-> [c EXCEPT !["cr2"] = Value("address")], mem |-> m,
          event |-> Event("PF", "code", c["ip"])]
    [] i.op = "protectionFault" ->
         [cpu |-> c, mem |-> m, event |-> Event("GP", "code", c["ip"])]
    [] OTHER ->
         [cpu |-> c, mem |-> m, event |-> Event("UD", "none", c["ip"])]

Effect(c, m, i) == IF i.op \in Faults \/ Refused(i) THEN Raised(c, m, i) ELSE Completed(c, m, i)

InitialRegisters ==
  [r \in Registers \union {"ip", "flags"} |->
     CASE r = "ip"    -> 0
       [] r = "flags" -> [arith |-> "other", tf |-> FALSE]
       [] r = "ldtr"  -> [hi |-> Zero, lo |-> Zero]
       [] r = "ldtrDescriptor" -> Value("unusable")
       [] OTHER -> Value(r)]

InitialMemory ==
  [s \in Spaces |->
     IF s = System
       THEN [base |-> Value("base 1"), limit |-> Value("limit 1"), selector |-> Value("selector 1")]
       ELSE [base |-> Value("base 2"), limit |-> Value("limit 2"), selector |-> Value("selector 2")]]
=============================================================================
