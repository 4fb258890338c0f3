----------------------------- MODULE MCVmmExit -----------------------------
(***************************************************************************)
(* VmmExit with every kind of instruction on one or two registers each.    *)
(***************************************************************************)
EXTENDS VmmExit

Simple == {[op |-> o] : o \in {"rdtsc", "rdtscp", "invd", "invlpg", "xsetbv", "vmx", "popf",
             "int3", "pageFault", "protectionFault", "access"}}

Cpuid  == {[op |-> "cpuid", leaf |-> n] : n \in {0, 1}}

VmCalls(numbers) == {[op |-> "vmcall", number |-> n] : n \in numbers}

Moves(ops, registers, gprs) ==
  {[op |-> o, sys |-> r, gpr |-> g] : o \in ops, r \in registers, g \in gprs}

MsrAccess == {[op |-> o, sys |-> r] : o \in {"rdmsr", "wrmsr"}, r \in Msrs}

OnTables(ops) == {[op |-> o, table |-> t] : o \in ops, t \in Tables}

OnSegments(ops) == {[op |-> o, table |-> t] : o \in ops, t \in Segments}

ToRegister ==
  {[op |-> "storeToRegister", table |-> "tr", gpr |-> "cx", size |-> n] : n \in {16, 64}}

MCInstructions ==
  Simple \union Cpuid \union MsrAccess \union ToRegister
    \union VmCalls({"ping", "getSharedProcessorData", "unknown", "terminate", "terminateFromUser"})
    \union Moves({"movTo"}, {"cr3", "cr8", "dr2", "dr6", "dr7"}, {"bx"})
    \union Moves({"movTo"}, {"dr7"}, {"sp"})
    \union Moves({"movFrom"}, {"cr3", "cr8", "dr2", "dr6", "dr7"}, {"ax"})
    \union Moves({"movFrom"}, {"cr8"}, {"sp"})
    \union OnTables({"loadTable", "storeTable"})
    \union OnSegments({"loadSelector", "storeSelector"})
=============================================================================
