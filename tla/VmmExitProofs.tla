--------------------------- MODULE VmmExitProofs ---------------------------
(***************************************************************************)
(* From a VM exit to VMRESUME the processor runs on what the host area of  *)
(* the VMCS holds, whatever the guest executes; and VmmExit implements     *)
(* GuestMachine.                                                           *)
(***************************************************************************)
EXTENDS VmmExit, TLAPS

\* No instruction and no exit loses a register.
Complete == Loaded \subseteq DOMAIN hw

\* What a handler handles is an instruction of the guest.
ExitKnown == mode \in {"fetched", "root", "return"} => exit \in Instructions

IInv == Complete /\ ExitKnown /\ VmmRunsOnHost

-----------------------------------------------------------------------------
\* An instruction leaves the processor every register it had.
LEMMA EffectKeepsRegisters ==
  ASSUME NEW c, NEW m, NEW i
  PROVE  DOMAIN c \subseteq DOMAIN Effect(c, m, i).cpu
<1>1. DOMAIN c \subseteq DOMAIN NewRegisters(c, m, i)
  BY DEF NewRegisters
<1>2. DOMAIN c \subseteq DOMAIN Completed(c, m, i).cpu
  BY <1>1 DEF Completed
<1>3. DOMAIN c \subseteq DOMAIN Raised(c, m, i).cpu
  BY DEF Raised
<1>4. QED
  BY <1>2, <1>3 DEF Effect

\* A handler that leaves the guest area's registers in the processor alone.
LEMMA HandlerKeepsHost ==
  ASSUME IInv, mode = "root", mode' \in {"return", "exitVm"}, exit' = exit,
         DOMAIN hw' = DOMAIN hw,
         mode' = "return" => \A r \in Loaded : hw'[r] = hw[r]
  PROVE  IInv'
BY DEF IInv, Complete, ExitKnown, VmmRunsOnHost

\* The handlers that change a register of the processor change none that the host
\* area has.
LEMMA HandlersKeepHost ==
  ASSUME IInv, VmmHandleVmExit
  PROVE  IInv'
<1> USE HandlerKeepsHost DEF Adjusted, Injected, Handles
<1>a. mode = "root" /\ exit \in Instructions
  BY DEF IInv, ExitKnown, VmmHandleVmExit, VmmHandleException, VmmHandleCpuid, VmmHandleInvalidate,
         VmmHandleRdtsc, VmmHandleRdtscp, VmmHandleCrAccess, VmmHandleDrAccess,
         VmmHandleMsrReadAccess, VmmHandleMsrWriteAccess, VmmHandleGdtrOrIdtrAccess,
         VmmHandleLdtrOrTrAccess, VmmHandleEptViolation, VmmHandleXsetbv, VmmHandleVmx,
         VmmHandleVmCall, VmmHandleVmCallTermination, IsVmCall
<1>b. /\ Loaded \subseteq DOMAIN hw
      /\ \A r \in Loaded : r \notin {"cr2", "cr8", "xcr0", "pat"} \union (Drs \ {"dr7"})
      /\ Msrs \subseteq TransferToVmcs \union {"pat"}
  BY DEF IInv, Complete, Loaded, Exchanged, DebugControls, Drs, Msrs, TransferToVmcs
<1>1. CASE VmmHandleException
  BY <1>a, <1>b, <1>1 DEF VmmHandleException
<1>2. CASE VmmHandleCpuid \/ VmmHandleInvalidate \/ VmmHandleRdtsc \/ VmmHandleRdtscp
  BY <1>a, <1>2 DEF VmmHandleCpuid, VmmHandleInvalidate, VmmHandleRdtsc, VmmHandleRdtscp
<1>3. CASE VmmHandleCrAccess
  BY <1>a, <1>b, <1>3 DEF VmmHandleCrAccess
<1>4. CASE VmmHandleDrAccess
  BY <1>a, <1>b, <1>4 DEF VmmHandleDrAccess
<1>5. CASE VmmHandleMsrReadAccess
  BY <1>a, <1>5 DEF VmmHandleMsrReadAccess
<1>6. CASE VmmHandleMsrWriteAccess
  <2>1. exit.sys \in Msrs
    BY <1>a, <1>6, InstructionsAssumption DEF VmmHandleMsrWriteAccess
  <2>2. QED
    BY <1>a, <1>b, <1>6, <2>1 DEF VmmHandleMsrWriteAccess
<1>7. CASE VmmHandleGdtrOrIdtrAccess \/ VmmHandleLdtrOrTrAccess
  BY <1>a, <1>7 DEF VmmHandleGdtrOrIdtrAccess, VmmHandleLdtrOrTrAccess
<1>8. CASE VmmHandleEptViolation
  BY <1>a, <1>8 DEF VmmHandleEptViolation
<1>9. CASE VmmHandleXsetbv \/ VmmHandleVmx
  BY <1>a, <1>b, <1>9 DEF VmmHandleXsetbv, VmmHandleVmx
<1>10. CASE VmmHandleVmCall
  BY <1>a, <1>10
  DEF VmmHandleVmCall, IsVmCall, VmmIndicateSuccessfulVmcall, VmmIndicateUnsuccessfulVmcall
<1>11. CASE VmmHandleVmCallTermination
  BY <1>a, <1>11 DEF VmmHandleVmCallTermination, IsVmCall
<1>12. QED
  BY <1>1, <1>2, <1>3, <1>4, <1>5, <1>6, <1>7, <1>8, <1>9, <1>10, <1>11 DEF VmmHandleVmExit

\* IInv is inductive.
LEMMA StepPreserves == IInv /\ [Next]_vars => IInv'
<1> SUFFICES ASSUME IInv, [Next]_vars PROVE IInv'
  OBVIOUS
<1> USE DEF IInv, Complete, ExitKnown, VmmRunsOnHost
<1>1. ASSUME NEW i \in Instructions, GuestFetches(i) PROVE IInv'
  BY <1>1 DEF GuestFetches
<1>2. CASE GuestExecutes
  BY <1>2, EffectKeepsRegisters DEF GuestExecutes
<1>3. CASE GuestExits
  BY <1>3 DEF GuestExits
<1>4. CASE VmmHandleVmExit
  BY <1>4, HandlersKeepHost
<1>5. CASE VmResume
  BY <1>5 DEF VmResume
<1>6. CASE ExitVm
  BY <1>6 DEF ExitVm
<1>7. CASE UNCHANGED vars
  BY <1>7 DEF vars
<1>8. QED
  BY <1>1, <1>2, <1>3, <1>4, <1>5, <1>6, <1>7 DEF Next

\* AsmVmmEntryPoint and the handlers run in the VMM's own address space and on its
\* stack, with its descriptor tables and its debug state.
THEOREM VmmAlwaysRunsOnHost == Spec => []VmmRunsOnHost
<1>1. Init => IInv
  BY DEF Init, IInv, Complete, ExitKnown, VmmRunsOnHost, Launched, InitialRegisters,
         Registers, Gpr, Drs, Msrs, Segments, Loaded, Exchanged, DebugControls
<1>2. IInv => VmmRunsOnHost
  BY DEF IInv
<1>3. QED
  BY <1>1, <1>2, StepPreserves, PTL DEF Spec

-----------------------------------------------------------------------------
(***************************************************************************)
(* VmmExit implements GuestMachine: what the guest of MyHyperPlatform sees *)
(* is the machine it is to see.                                            *)
(***************************************************************************)

\* All registers.
R == Registers \union {"ip", "flags"}

\* The registers that stay in the processor while a handler runs.
Remaining == R \ (Loaded \union Gpr)

\* The guest's registers while a handler runs.
View ==
  [r \in R |-> IF r \in Loaded THEN guest[r] ELSE IF r \in Gpr THEN stack[r] ELSE hw[r]]

\* The registers GuestMachine sees.
Cpu == [r \in DOMAIN hw |-> GuestRegister(r)]

\* What else GuestMachine sees: the events, whether the VMM is there, and the
\* instruction to execute.
Seen ==
  IF mode = "return" /\ ~Retries THEN PendingEvent ELSE IF mode = "exitVm" THEN NoEvent ELSE event
On == mode \notin {"exitVm", "off"}
Fetched == IF mode \in {"fetched", "root"} \/ (mode = "return" /\ Retries) THEN exit ELSE None

\* The instruction with which the driver ends its VMM.
Terminates(i) == i.op = "vmcall" /\ i.number = "terminate"

\* Each place holds its registers.
Shape ==
  /\ hw = [r \in R |-> hw[r]] /\ guest = [r \in Loaded |-> guest[r]] /\
       stack = [r \in Gpr |-> stack[r]]
  /\ mode \in {"guest", "fetched", "root", "return", "exitVm", "off"}

\* No event is left over when the guest runs; the pushed stack pointer is the guest's while
\* a handler runs; addresses are numbers; the driver ends its VMM where it started it.
Placed ==
  /\ mode \in {"guest", "fetched", "root"} => inject = NoEvent
  /\ mode = "root" => stack["sp"] = guest["sp"]
  /\ mode \in {"guest", "fetched"} => hw["ip"] \in Int
  /\ mode \in {"root", "return"} => guest["ip"] \in Int
  /\ entryLen \in Int
  /\ mode = "fetched" /\ Terminates(exit) => \A r \in Context : hw[r] = HostArea[r]
  /\ mode = "root" /\ Terminates(exit) => \A r \in Context : guest[r] = HostArea[r]

\* The inductive invariant.
GInv == IInv /\ Shape /\ Placed

-----------------------------------------------------------------------------
\* The instance of GuestMachine has the same instructions.
LEMMA SameEffect == \A c, m, i : Guest!Effect(c, m, i) = Effect(c, m, i)
BY DEF Guest!Effect, Effect, Guest!Faults, Faults, Guest!Refused, Refused, Guest!Completed,
   Completed,
       Guest!Raised, Raised, Guest!NewRegisters, NewRegisters, Guest!NewMemory, NewMemory,
       Guest!Length, Length, Guest!Event, Event, Guest!NoEvent, NoEvent, Guest!Value, Value,
       Guest!Low, Low, Guest!High, High, Guest!Join, Join, Guest!Zero, Zero, Guest!Described,
         Described,
       Guest!Base, Base, Guest!Limit, Limit, Guest!Descriptor, Descriptor

\* Only the stack pointer is both pushed and exchanged.
LEMMA Members ==
  /\ Gpr \subseteq R /\ Loaded \subseteq R /\ Context \subseteq Loaded
  /\ Drs \union {"cr3", "cr8"} \subseteq R /\ Msrs \subseteq R
  /\ "ip" \in Loaded /\ "flags" \in Loaded /\ "sp" \in Loaded /\ "cr3" \in Loaded
  /\ Loaded \intersect Gpr = {"sp"}
  /\ SavesDebugControls => Saved = Loaded
BY DEF R, Registers, Gpr, Drs, Msrs, Segments, Loaded, Saved, Exchanged, DebugControls, Context

\* The processor exchanges neither these at an exit, nor are they on the stack.
LEMMA Places ==
  /\ \A r \in {"cr2", "cr8", "xcr0", "pat"} \union (Drs \ {"dr7"}) : r \in R /\
       r \notin Loaded /\ r \notin Gpr
  /\ "dr7" \in Loaded /\ "dr7" \notin Gpr
  /\ TransferToVmcs \subseteq Loaded /\ Msrs \subseteq TransferToVmcs \union {"pat"}
  /\ \A t \in Tables : Base(t) \in Loaded /\ Limit(t) \in Loaded
  /\ \A t \in Segments : t \in Loaded /\ Descriptor(t) \in Loaded
BY DEF R, Registers, Gpr, Drs, Msrs, Segments, Tables, Base, Limit, Descriptor, Loaded, Saved,
   Exchanged,
       DebugControls, TransferToVmcs

\* While the guest runs, its registers are in the processor.
LEMMA CpuNative ==
  ASSUME Shape, mode \in {"guest", "fetched", "off"}
  PROVE  Cpu = hw
<1>1. \A r \in R : GuestRegister(r) = hw[r]
  BY DEF GuestRegister
<1>2. hw = [r \in R |-> hw[r]]
  BY DEF Shape
<1>3. QED
  BY <1>1, <1>2 DEF Cpu, Shape

\* While a handler runs, they are in the three places.
LEMMA CpuHandled ==
  Shape /\ mode \in {"root", "return"} => Cpu = [View EXCEPT !["ip"] = ResumedIp]
<1> SUFFICES ASSUME Shape, mode \in {"root", "return"}
             PROVE  Cpu = [View EXCEPT !["ip"] = ResumedIp]
  OBVIOUS
<1>1. \A r \in R : GuestRegister(r) = IF r = "ip" THEN ResumedIp ELSE View[r]
  BY Members DEF GuestRegister, View
<1>2. Cpu = [r \in R |-> IF r = "ip" THEN ResumedIp ELSE View[r]]
  BY <1>1 DEF Cpu, Shape
<1>3. QED
  BY <1>2, Members DEF View

\* Before the handler has changed anything, so is the instruction pointer.
LEMMA CpuRoot ==
  ASSUME Shape, Placed, mode = "root"
  PROVE  Cpu = View
<1>1. ResumedIp = guest["ip"]
  BY DEF Placed, ResumedIp
<1>2. View["ip"] = guest["ip"]
  BY Members DEF View
<1>3. QED
  BY <1>1, <1>2, CpuHandled, Members DEF View

\* A step of VmmExit that executes the instruction that was fetched.
LEMMA Executes ==
  ASSUME exit \in Instructions, Fetched = exit, Fetched' = None,
         NEW E, E = Effect(Cpu, mem, exit),
         DOMAIN Cpu' = DOMAIN Cpu,
         \A r \in DOMAIN Cpu \ Guest!Unspecified(exit) : Cpu'[r] = E.cpu[r],
         Guest!SameMemory(exit, mem', E.mem),
         Seen' = IF Terminates(exit) THEN NoEvent ELSE E.event,
         context' = Guest!NewContext(exit),
         On' = ~Terminates(exit)
  PROVE  Guest!Execute
<1>1. exit # Guest!None /\ None = Guest!None /\ NoEvent = Guest!NoEvent
  BY InstructionsAssumption DEF None, Guest!None, NoEvent, Guest!NoEvent
<1>2. E = Guest!Effect(Cpu, mem, exit)
  BY SameEffect
<1>3. QED
  BY <1>1, <1>2 DEF Guest!Execute, Cpu, Seen, On, Fetched, Terminates

\* No instruction adds or loses a register.
LEMMA NewRegistersShape ==
  ASSUME NEW m, NEW i
  PROVE  DOMAIN NewRegisters(View, m, i) = R
BY DEF NewRegisters, View

\* A handler completes its instruction if each register has its new value in the place where
\* it is; the instruction pointer and the debug exception under TF follow.
LEMMA Completes ==
  ASSUME GInv, mode = "root", exit \in Instructions,
         ~(exit.op \in Faults \/ Refused(exit)), exit.op # "access", ~Terminates(exit),
         NEW g, DOMAIN g = Loaded, Adjusted(g),
         Shape',
         \A r \in Loaded \ (Guest!Unspecified(exit) \union {"ip"}) : g[r] = NewRegisters(View,
           mem, exit)[r],
         \A r \in Gpr \ (Guest!Unspecified(exit) \union {"sp"}) : stack'[r] = NewRegisters(View,
           mem, exit)[r],
         \A r \in Remaining \ Guest!Unspecified(exit) : hw'[r] = NewRegisters(View, mem, exit)[r],
         Guest!SameMemory(exit, mem', NewMemory(View, mem, exit)),
         context' = Guest!NewContext(exit)
  PROVE  Guest!Execute
<1> DEFINE E == Effect(View, mem, exit)
           ip == guest["ip"] + Length(exit)
<1>1. /\ Cpu = View /\ inject = NoEvent
      /\ View["ip"] = guest["ip"] /\ View["flags"] = guest["flags"]
  BY CpuRoot, Members DEF GInv, View, Placed
<1>2. E = [cpu |-> [NewRegisters(View, mem, exit) EXCEPT !["ip"] = ip],
           mem |-> NewMemory(View, mem, exit),
           event |-> IF guest["flags"].tf THEN Event("DB", "none", ip) ELSE NoEvent]
  <2>1. [NewRegisters(View, mem, exit) EXCEPT !["ip"] = ip]["ip"] = ip
    BY NewRegistersShape, Members
  <2>2. QED
    BY <1>1, <2>1 DEF Effect, Completed
<1>3. guest' = [g EXCEPT !["ip"] = ip] /\ mode' = "return" /\ UNCHANGED <<exit, event>>
  BY DEF Adjusted
<1>4. guest'["ip"] = ip
  BY <1>3, Members
<1>5. ResumedIp' = ip /\ PendingEvent' = E.event
  <2>a. ip \in Int
    BY DEF Length, GInv, Placed
  <2>1. CASE guest["flags"].tf
    <3>1. inject' = [vector |-> "DB", code |-> "none"]
      BY <2>1 DEF Adjusted
    <3>2. inject' # NoEvent
      BY <3>1 DEF NoEvent
    <3>3. QED
      <4>1. Delivered' = Event("DB", "none", guest'["ip"] + 0)
        BY <3>1 DEF Delivered, Event
      <4>2. Delivered'.ip = guest'["ip"] + 0
        BY <4>1 DEF Event
      <4>3. QED
        BY <1>2, <1>4, <2>a, <2>1, <3>2, <4>1, <4>2 DEF ResumedIp, PendingEvent
  <2>2. CASE ~guest["flags"].tf
    BY <1>1, <1>2, <1>4, <2>2 DEF Adjusted, ResumedIp, PendingEvent
  <2>3. QED
    BY <2>1, <2>2
<1>6. Cpu' = [View' EXCEPT !["ip"] = ip]
  <2>1. (Shape /\ mode \in {"root", "return"} => Cpu = [View EXCEPT !["ip"] = ResumedIp])'
    BY CpuHandled, PTL
  <2>2. QED
    BY <1>3, <1>5, <2>1
<1>7. /\ DOMAIN View' = R /\ DOMAIN Cpu' = R /\ DOMAIN Cpu = R
      /\ \A r \in R \ {"ip"} :
           View'[r] = IF r \in Loaded THEN g[r] ELSE IF r \in Gpr THEN stack'[r] ELSE hw'[r]
  BY <1>1, <1>3, <1>6, Members DEF View
<1>8. \A r \in DOMAIN Cpu \ Guest!Unspecified(exit) : Cpu'[r] = E.cpu[r]
  BY <1>2, <1>6, <1>7, NewRegistersShape, Members DEF Remaining
<1>9. Fetched = exit /\ Fetched' = None /\ On' /\ Seen' = E.event
  BY <1>3, <1>5 DEF Fetched, On, Seen, Retries
<1>10. E.mem = NewMemory(View, mem, exit) /\ E = Effect(Cpu, mem, exit)
  BY <1>1, <1>2
<1> HIDE DEF E
<1>11. QED
  BY <1>7, <1>8, <1>9, <1>10, Executes

\* In which place each register is.
LEMMA ViewOf ==
  ASSUME GInv, mode = "root"
  PROVE  /\ \A r \in Gpr : View[r] = stack[r]
         /\ \A r \in Loaded : View[r] = guest[r]
         /\ \A r \in R \ (Loaded \union Gpr) : View[r] = hw[r]
BY Members DEF GInv, Placed, View

-----------------------------------------------------------------------------
(* The handlers                                                            *)

\* The handlers keep the invariant.
LEMMA HandlersKeep ==
  ASSUME GInv, VmmHandleVmExit
  PROVE  GInv'
<1> USE DEF Adjusted, Injected, Handles, Shape, Placed
<1>a. GInv /\ mode = "root" /\ IInv'
  BY HandlersKeepHost
  DEF GInv, VmmHandleVmExit, VmmHandleException, VmmHandleCpuid, VmmHandleInvalidate,
      VmmHandleRdtsc, VmmHandleRdtscp, VmmHandleCrAccess, VmmHandleDrAccess,
      VmmHandleMsrReadAccess, VmmHandleMsrWriteAccess, VmmHandleGdtrOrIdtrAccess,
      VmmHandleLdtrOrTrAccess, VmmHandleEptViolation, VmmHandleXsetbv, VmmHandleVmx,
      VmmHandleVmCall, VmmHandleVmCallTermination, IsVmCall
<1>b. Length(exit) \in Int /\ guest["ip"] + Length(exit) \in Int /\ "ip" \in Loaded
  BY <1>a, Members DEF Length, GInv
<1> USE <1>a, <1>b DEF GInv
<1>1. CASE VmmHandleException
  BY <1>1 DEF VmmHandleException
<1>2. CASE VmmHandleCpuid \/ VmmHandleInvalidate \/ VmmHandleRdtsc \/ VmmHandleRdtscp
  BY <1>2 DEF VmmHandleCpuid, VmmHandleInvalidate, VmmHandleRdtsc, VmmHandleRdtscp
<1>3. CASE VmmHandleCrAccess
  BY <1>3 DEF VmmHandleCrAccess
<1>4. CASE VmmHandleDrAccess
  BY <1>4 DEF VmmHandleDrAccess
<1>5. CASE VmmHandleMsrReadAccess
  BY <1>5 DEF VmmHandleMsrReadAccess
<1>6. CASE VmmHandleMsrWriteAccess
  BY <1>6 DEF VmmHandleMsrWriteAccess
<1>7. CASE VmmHandleGdtrOrIdtrAccess \/ VmmHandleLdtrOrTrAccess
  BY <1>7 DEF VmmHandleGdtrOrIdtrAccess, VmmHandleLdtrOrTrAccess
<1>8. CASE VmmHandleEptViolation
  BY <1>8 DEF VmmHandleEptViolation
<1>9. CASE VmmHandleXsetbv \/ VmmHandleVmx
  BY <1>9 DEF VmmHandleXsetbv, VmmHandleVmx
<1>10. CASE VmmHandleVmCall
  BY <1>10
  DEF VmmHandleVmCall, IsVmCall, VmmIndicateSuccessfulVmcall, VmmIndicateUnsuccessfulVmcall
<1>11. CASE VmmHandleVmCallTermination
  BY <1>11 DEF VmmHandleVmCallTermination, IsVmCall
<1>12. QED
  BY <1>1, <1>2, <1>3, <1>4, <1>5, <1>6, <1>7, <1>8, <1>9, <1>10, <1>11 DEF VmmHandleVmExit

\* Most instructions neither write to memory nor answer a VMCALL.
LEMMA Untouched ==
  ASSUME exit.op \notin {"storeTable", "storeSelector", "vmcall"}, UNCHANGED <<mem, context>>
  PROVE  /\ Guest!SameMemory(exit, mem', NewMemory(View, mem, exit))
         /\ context' = Guest!NewContext(exit)
BY DEF Guest!SameMemory, NewMemory, Guest!NewContext

\* What every handler starts from.
LEMMA AtExit ==
  ASSUME GInv, GInv', mode = "root"
  PROVE  /\ exit \in Instructions /\ Shape' /\ DOMAIN guest = Loaded /\ DOMAIN View = R
         /\ DOMAIN stack = Gpr /\ DOMAIN hw = R
BY DEF GInv, IInv, ExitKnown, Shape, View

\* Storing a table writes the base, and as the limit whatever x is.
LEMMA StoredTable ==
  ASSUME exit.op = "storeTable", Cpu["cr3"] = View["cr3"], guest["cr3"] = View["cr3"],
         guest[Base(exit.table)] = View[Base(exit.table)],
         NEW x, mem' = [mem EXCEPT ![guest["cr3"]].base = guest[Base(exit.table)],
           ![guest["cr3"]].limit = x]
  PROVE  Guest!SameMemory(exit, mem', NewMemory(View, mem, exit))
<1> DEFINE c == View["cr3"]
           b == View[Base(exit.table)]
           l == View[Limit(exit.table)]
           n == NewMemory(View, mem, exit)
<1>1. n = [mem EXCEPT ![c] = [[mem[c] EXCEPT !["base"] = b] EXCEPT !["limit"] = l]]
  BY DEF NewMemory
<1>2. mem' = [mem EXCEPT ![c] = [[mem[c] EXCEPT !["base"] = b] EXCEPT !["limit"] = x]]
  OBVIOUS
<1> HIDE DEF n
<1>3. [mem' EXCEPT ![c].limit = n[c].limit] = n
  <2> DEFINE p == [mem[c] EXCEPT !["base"] = b]
  <2>1. CASE c \in DOMAIN mem
    <3>1. n[c] = [p EXCEPT !["limit"] = l] /\ mem'[c] = [p EXCEPT !["limit"] = x]
      BY <1>1, <1>2, <2>1
    <3> HIDE DEF p
    <3>2. [mem'[c] EXCEPT !["limit"] = n[c]["limit"]] = n[c]
      <4>1. CASE "limit" \in DOMAIN p
        <5>1. n[c]["limit"] = l
          BY <3>1, <4>1
        <5>2. [[p EXCEPT !["limit"] = x] EXCEPT !["limit"] = l] = [p EXCEPT !["limit"] = l]
          OBVIOUS
        <5>3. QED
          BY <3>1, <5>1, <5>2
      <4>2. CASE "limit" \notin DOMAIN p
        <5>1. ASSUME NEW y
              PROVE  [[p EXCEPT !["limit"] = x] EXCEPT !["limit"] = y] = [p EXCEPT !["limit"] = l]
          BY <4>2
        <5>2. QED
          BY <3>1, <5>1
      <4>3. QED
        BY <4>1, <4>2
    <3>3. [mem' EXCEPT ![c] = n[c]] = n
      BY <1>1, <1>2
    <3>4. QED
      BY <3>2, <3>3
  <2>2. CASE c \notin DOMAIN mem
    BY <1>1, <1>2, <2>2
  <2>3. QED
    BY <2>1, <2>2
<1>4. QED
  BY <1>3 DEF Guest!SameMemory, Cpu, n

\* CPUID shows the hypervisor where it should.
LEMMA CpuidEmulated ==
  ASSUME GInv, GInv', VmmHandleCpuid
  PROVE  Guest!Execute
<1> DEFINE N == NewRegisters(View, mem, exit)
<1>a. /\ mode = "root" /\ exit.op = "cpuid" /\ Adjusted(guest)
      /\ UNCHANGED <<mem, context>>
      /\ stack' = [stack EXCEPT
        !["ax"] = Low(Value("cpuid.a")), !["bx"] = Low(Value("cpuid.b")),
        !["cx"] = Low(Value(IF exit.leaf = 1 THEN "cpuid.c.hypervisor" ELSE "cpuid.c")),
        !["dx"] = Low(Value("cpuid.d"))]
      /\ hw' = hw
  BY DEF VmmHandleCpuid, Handles
<1>b. /\ exit \in Instructions /\ Shape' /\ DOMAIN guest = Loaded /\ DOMAIN View = R
      /\ DOMAIN stack = Gpr /\ DOMAIN hw = R
  BY <1>a, AtExit
<1>1. N = [View EXCEPT
        !["ax"] = Low(Value("cpuid.a")), !["bx"] = Low(Value("cpuid.b")),
        !["cx"] = Low(Value(IF exit.leaf = 1 THEN "cpuid.c.hypervisor" ELSE "cpuid.c")),
        !["dx"] = Low(Value("cpuid.d"))]
  BY <1>a, <1>b DEF NewRegisters
<1> HIDE DEF N
<1>2. \A r \in Loaded \ (Guest!Unspecified(exit) \union {"ip"}) : guest[r] = N[r]
  BY <1>1, <1>a, <1>b, ViewOf, Members, Places DEF Gpr, Guest!Unspecified
<1>3. \A r \in Gpr \ (Guest!Unspecified(exit) \union {"sp"}) : stack'[r] = N[r]
  BY <1>1, <1>a, <1>b, ViewOf, Members, Places DEF Gpr, Guest!Unspecified
<1>4. \A r \in Remaining \ Guest!Unspecified(exit) : hw'[r] = N[r]
  BY <1>1, <1>a, <1>b, ViewOf, Members, Places DEF Remaining, Gpr, Guest!Unspecified
<1>5. Guest!SameMemory(exit, mem', NewMemory(View, mem, exit)) /\
        context' = Guest!NewContext(exit)
  BY <1>a, <1>b, Untouched
<1>6. QED
  BY <1>2, <1>3, <1>4, <1>5, <1>a, <1>b, Completes DEF Faults, Refused, Terminates, N

\* INVD and INVLPG change no register.
LEMMA InvalidateEmulated ==
  ASSUME GInv, GInv', VmmHandleInvalidate
  PROVE  Guest!Execute
<1> DEFINE N == NewRegisters(View, mem, exit)
<1>a. /\ mode = "root" /\ exit.op \in {"invd", "invlpg"} /\ Adjusted(guest)
      /\ UNCHANGED <<mem, context>>
      /\ stack' = stack
      /\ hw' = hw
  BY DEF VmmHandleInvalidate, Handles
<1>b. /\ exit \in Instructions /\ Shape' /\ DOMAIN guest = Loaded /\ DOMAIN View = R
      /\ DOMAIN stack = Gpr /\ DOMAIN hw = R
  BY <1>a, AtExit
<1>1. N = View
  BY <1>a, <1>b DEF NewRegisters
<1> HIDE DEF N
<1>2. \A r \in Loaded \ (Guest!Unspecified(exit) \union {"ip"}) : guest[r] = N[r]
  BY <1>1, <1>a, <1>b, ViewOf, Members, Places DEF Gpr, Guest!Unspecified
<1>3. \A r \in Gpr \ (Guest!Unspecified(exit) \union {"sp"}) : stack'[r] = N[r]
  BY <1>1, <1>a, <1>b, ViewOf, Members, Places DEF Gpr, Guest!Unspecified
<1>4. \A r \in Remaining \ Guest!Unspecified(exit) : hw'[r] = N[r]
  BY <1>1, <1>a, <1>b, ViewOf, Members, Places DEF Remaining, Gpr, Guest!Unspecified
<1>5. Guest!SameMemory(exit, mem', NewMemory(View, mem, exit)) /\
        context' = Guest!NewContext(exit)
  BY <1>a, <1>b, Untouched
<1>6. QED
  BY <1>2, <1>3, <1>4, <1>5, <1>a, <1>b, Completes DEF Faults, Refused, Terminates, N

\* RDTSC gives the processor's counter.
LEMMA RdtscEmulated ==
  ASSUME GInv, GInv', VmmHandleRdtsc
  PROVE  Guest!Execute
<1> DEFINE N == NewRegisters(View, mem, exit)
<1>a. /\ mode = "root" /\ exit.op = "rdtsc" /\ Adjusted(guest)
      /\ UNCHANGED <<mem, context>>
      /\ stack' = [stack EXCEPT !["ax"] = Low(Value("tsc")), !["dx"] = High(Value("tsc"))]
      /\ hw' = hw
  BY DEF VmmHandleRdtsc, Handles
<1>b. /\ exit \in Instructions /\ Shape' /\ DOMAIN guest = Loaded /\ DOMAIN View = R
      /\ DOMAIN stack = Gpr /\ DOMAIN hw = R
  BY <1>a, AtExit
<1>1. N = [View EXCEPT !["ax"] = Low(Value("tsc")), !["dx"] = High(Value("tsc"))]
  BY <1>a, <1>b DEF NewRegisters
<1> HIDE DEF N
<1>2. \A r \in Loaded \ (Guest!Unspecified(exit) \union {"ip"}) : guest[r] = N[r]
  BY <1>1, <1>a, <1>b, ViewOf, Members, Places DEF Gpr, Guest!Unspecified
<1>3. \A r \in Gpr \ (Guest!Unspecified(exit) \union {"sp"}) : stack'[r] = N[r]
  BY <1>1, <1>a, <1>b, ViewOf, Members, Places DEF Gpr, Guest!Unspecified
<1>4. \A r \in Remaining \ Guest!Unspecified(exit) : hw'[r] = N[r]
  BY <1>1, <1>a, <1>b, ViewOf, Members, Places DEF Remaining, Gpr, Guest!Unspecified
<1>5. Guest!SameMemory(exit, mem', NewMemory(View, mem, exit)) /\
        context' = Guest!NewContext(exit)
  BY <1>a, <1>b, Untouched
<1>6. QED
  BY <1>2, <1>3, <1>4, <1>5, <1>a, <1>b, Completes DEF Faults, Refused, Terminates, N

\* So does RDTSCP.
LEMMA RdtscpEmulated ==
  ASSUME GInv, GInv', VmmHandleRdtscp
  PROVE  Guest!Execute
<1> DEFINE N == NewRegisters(View, mem, exit)
<1>a. /\ mode = "root" /\ exit.op = "rdtscp" /\ Adjusted(guest)
      /\ UNCHANGED <<mem, context>>
      /\ stack' = [stack EXCEPT !["ax"] = Low(Value("tsc")), !["dx"] = High(Value("tsc")),
           !["cx"] = Low(Value("tscAux"))]
      /\ hw' = hw
  BY DEF VmmHandleRdtscp, Handles
<1>b. /\ exit \in Instructions /\ Shape' /\ DOMAIN guest = Loaded /\ DOMAIN View = R
      /\ DOMAIN stack = Gpr /\ DOMAIN hw = R
  BY <1>a, AtExit
<1>1. N = [View EXCEPT !["ax"] = Low(Value("tsc")), !["dx"] = High(Value("tsc")),
        !["cx"] = Low(Value("tscAux"))]
  BY <1>a, <1>b DEF NewRegisters
<1> HIDE DEF N
<1>2. \A r \in Loaded \ (Guest!Unspecified(exit) \union {"ip"}) : guest[r] = N[r]
  BY <1>1, <1>a, <1>b, ViewOf, Members, Places DEF Gpr, Guest!Unspecified
<1>3. \A r \in Gpr \ (Guest!Unspecified(exit) \union {"sp"}) : stack'[r] = N[r]
  BY <1>1, <1>a, <1>b, ViewOf, Members, Places DEF Gpr, Guest!Unspecified
<1>4. \A r \in Remaining \ Guest!Unspecified(exit) : hw'[r] = N[r]
  BY <1>1, <1>a, <1>b, ViewOf, Members, Places DEF Remaining, Gpr, Guest!Unspecified
<1>5. Guest!SameMemory(exit, mem', NewMemory(View, mem, exit)) /\
        context' = Guest!NewContext(exit)
  BY <1>a, <1>b, Untouched
<1>6. QED
  BY <1>2, <1>3, <1>4, <1>5, <1>a, <1>b, Completes DEF Faults, Refused, Terminates, N

\* XSETBV loads XCR0 from EDX:EAX.
LEMMA XsetbvEmulated ==
  ASSUME GInv, GInv', VmmHandleXsetbv
  PROVE  Guest!Execute
<1> DEFINE N == NewRegisters(View, mem, exit)
<1>a. /\ mode = "root" /\ exit.op = "xsetbv" /\ Adjusted(guest)
      /\ UNCHANGED <<mem, context>>
      /\ stack' = stack
      /\ hw' = [hw EXCEPT !["xcr0"] = Join(stack["dx"], stack["ax"])]
  BY DEF VmmHandleXsetbv, Handles
<1>b. /\ exit \in Instructions /\ Shape' /\ DOMAIN guest = Loaded /\ DOMAIN View = R
      /\ DOMAIN stack = Gpr /\ DOMAIN hw = R
  BY <1>a, AtExit
<1>1. N = [View EXCEPT !["xcr0"] = Join(View["dx"], View["ax"])]
  BY <1>a, <1>b DEF NewRegisters
<1> HIDE DEF N
<1>2. \A r \in Loaded \ (Guest!Unspecified(exit) \union {"ip"}) : guest[r] = N[r]
  BY <1>1, <1>a, <1>b, ViewOf, Members, Places DEF Gpr, Guest!Unspecified
<1>3. \A r \in Gpr \ (Guest!Unspecified(exit) \union {"sp"}) : stack'[r] = N[r]
  BY <1>1, <1>a, <1>b, ViewOf, Members, Places DEF Gpr, Guest!Unspecified
<1>4. \A r \in Remaining \ Guest!Unspecified(exit) : hw'[r] = N[r]
  BY <1>1, <1>a, <1>b, ViewOf, Members, Places DEF Remaining, Gpr, Guest!Unspecified
<1>5. Guest!SameMemory(exit, mem', NewMemory(View, mem, exit)) /\
        context' = Guest!NewContext(exit)
  BY <1>a, <1>b, Untouched
<1>6. QED
  BY <1>2, <1>3, <1>4, <1>5, <1>a, <1>b, Completes DEF Faults, Refused, Terminates, N

\* VMX instructions fail in the guest.
LEMMA VmxEmulated ==
  ASSUME GInv, GInv', VmmHandleVmx
  PROVE  Guest!Execute
<1> DEFINE N == NewRegisters(View, mem, exit)
<1>a. /\ mode = "root" /\ exit.op = "vmx" /\ Adjusted([guest EXCEPT !["flags"].arith = "carry"])
      /\ UNCHANGED <<mem, context>>
      /\ stack' = stack
      /\ hw' = hw
  BY DEF VmmHandleVmx, Handles
<1>b. /\ exit \in Instructions /\ Shape' /\ DOMAIN guest = Loaded /\ DOMAIN View = R
      /\ DOMAIN stack = Gpr /\ DOMAIN hw = R
  BY <1>a, AtExit
<1>1. N = [View EXCEPT !["flags"].arith = "carry"]
  BY <1>a, <1>b DEF NewRegisters
<1> HIDE DEF N
<1>2. \A r \in Loaded \ (Guest!Unspecified(exit) \union {"ip"}) :
        [guest EXCEPT !["flags"].arith = "carry"][r] = N[r]
  BY <1>1, <1>a, <1>b, ViewOf, Members, Places DEF Gpr, Guest!Unspecified
<1>3. \A r \in Gpr \ (Guest!Unspecified(exit) \union {"sp"}) : stack'[r] = N[r]
  BY <1>1, <1>a, <1>b, ViewOf, Members, Places DEF Gpr, Guest!Unspecified
<1>4. \A r \in Remaining \ Guest!Unspecified(exit) : hw'[r] = N[r]
  BY <1>1, <1>a, <1>b, ViewOf, Members, Places DEF Remaining, Gpr, Guest!Unspecified
<1>5. Guest!SameMemory(exit, mem', NewMemory(View, mem, exit)) /\
        context' = Guest!NewContext(exit)
  BY <1>a, <1>b, Untouched
<1>6. QED
  BY <1>2, <1>3, <1>4, <1>5, <1>a, <1>b, Completes DEF Faults, Refused, Terminates, N

\* CR3 is written and read in the VMCS, CR8 in the processor.
LEMMA CrAccessEmulated ==
  ASSUME GInv, GInv', VmmHandleCrAccess
  PROVE  Guest!Execute
<1> DEFINE N == NewRegisters(View, mem, exit)
<1>a. mode = "root" /\ exit.op \in {"movTo", "movFrom"} /\ UNCHANGED <<mem, context>>
  BY DEF VmmHandleCrAccess, Handles
<1>b. /\ exit \in Instructions /\ Shape' /\ DOMAIN guest = Loaded /\ DOMAIN View = R
      /\ DOMAIN stack = Gpr /\ DOMAIN hw = R
  BY <1>a, AtExit
<1>c. exit.gpr \in Gpr
  BY <1>a, <1>b, InstructionsAssumption
<1>1. CASE exit.op = "movTo" /\ exit.sys = "cr3"
  <2>a. exit.op = "movTo" /\ exit.sys = "cr3" /\
          Adjusted([guest EXCEPT !["cr3"] = stack[exit.gpr]])
        /\ stack' = stack /\ hw' = hw
    BY <1>a, <1>b, <1>c, <1>1 DEF VmmHandleCrAccess
  <2>1. N = [View EXCEPT ![exit.sys] = View[exit.gpr]]
    BY <1>a, <1>b, <1>c, <2>a DEF NewRegisters
  <2> HIDE DEF N
  <2>2. \A r \in Loaded \ (Guest!Unspecified(exit) \union {"ip"}) :
          [guest EXCEPT !["cr3"] = stack[exit.gpr]][r] = N[r]
    BY <2>1, <1>a, <1>b, <1>c, <2>a, ViewOf, Members, Places DEF Gpr, Guest!Unspecified
  <2>3. \A r \in Gpr \ (Guest!Unspecified(exit) \union {"sp"}) : stack'[r] = N[r]
    BY <2>1, <1>a, <1>b, <1>c, <2>a, ViewOf, Members, Places DEF Gpr, Guest!Unspecified
  <2>4. \A r \in Remaining \ Guest!Unspecified(exit) : hw'[r] = N[r]
    BY <2>1, <1>a, <1>b, <1>c, <2>a, ViewOf, Members, Places DEF Remaining, Gpr, Guest!Unspecified
  <2>5. Guest!SameMemory(exit, mem', NewMemory(View, mem, exit)) /\
          context' = Guest!NewContext(exit)
    BY <1>a, <1>b, <1>c, <2>a, Untouched
  <2>6. QED
    BY <2>2, <2>3, <2>4, <2>5, <1>a, <1>b, <1>c, <2>a, Completes DEF Faults, Refused,
       Terminates, N
<1>2. CASE exit.op = "movTo" /\ exit.sys = "cr8"
  <2>a. exit.op = "movTo" /\ exit.sys = "cr8" /\ Adjusted(guest)
        /\ stack' = stack /\ hw' = [hw EXCEPT !["cr8"] = stack[exit.gpr]]
    BY <1>a, <1>b, <1>c, <1>2 DEF VmmHandleCrAccess
  <2>1. N = [View EXCEPT ![exit.sys] = View[exit.gpr]]
    BY <1>a, <1>b, <1>c, <2>a DEF NewRegisters
  <2> HIDE DEF N
  <2>2. \A r \in Loaded \ (Guest!Unspecified(exit) \union {"ip"}) : guest[r] = N[r]
    BY <2>1, <1>a, <1>b, <1>c, <2>a, ViewOf, Members, Places DEF Gpr, Guest!Unspecified
  <2>3. \A r \in Gpr \ (Guest!Unspecified(exit) \union {"sp"}) : stack'[r] = N[r]
    BY <2>1, <1>a, <1>b, <1>c, <2>a, ViewOf, Members, Places DEF Gpr, Guest!Unspecified
  <2>4. \A r \in Remaining \ Guest!Unspecified(exit) : hw'[r] = N[r]
    BY <2>1, <1>a, <1>b, <1>c, <2>a, ViewOf, Members, Places DEF Remaining, Gpr, Guest!Unspecified
  <2>5. Guest!SameMemory(exit, mem', NewMemory(View, mem, exit)) /\
          context' = Guest!NewContext(exit)
    BY <1>a, <1>b, <1>c, <2>a, Untouched
  <2>6. QED
    BY <2>2, <2>3, <2>4, <2>5, <1>a, <1>b, <1>c, <2>a, Completes DEF Faults, Refused,
       Terminates, N
<1>3. CASE exit.op = "movFrom" /\ exit.sys = "cr3"
  <2>a. exit.op = "movFrom" /\ exit.sys = "cr3" /\ Adjusted(guest)
        /\ stack' = [stack EXCEPT ![exit.gpr] = guest["cr3"]] /\ hw' = hw
    BY <1>a, <1>b, <1>c, <1>3 DEF VmmHandleCrAccess
  <2>1. N = [View EXCEPT ![exit.gpr] = View[exit.sys]]
    BY <1>a, <1>b, <1>c, <2>a DEF NewRegisters
  <2> HIDE DEF N
  <2>2. \A r \in Loaded \ (Guest!Unspecified(exit) \union {"ip"}) : guest[r] = N[r]
    BY <2>1, <1>a, <1>b, <1>c, <2>a, ViewOf, Members, Places DEF Gpr, Guest!Unspecified
  <2>3. \A r \in Gpr \ (Guest!Unspecified(exit) \union {"sp"}) : stack'[r] = N[r]
    BY <2>1, <1>a, <1>b, <1>c, <2>a, ViewOf, Members, Places DEF Gpr, Guest!Unspecified
  <2>4. \A r \in Remaining \ Guest!Unspecified(exit) : hw'[r] = N[r]
    BY <2>1, <1>a, <1>b, <1>c, <2>a, ViewOf, Members, Places DEF Remaining, Gpr, Guest!Unspecified
  <2>5. Guest!SameMemory(exit, mem', NewMemory(View, mem, exit)) /\
          context' = Guest!NewContext(exit)
    BY <1>a, <1>b, <1>c, <2>a, Untouched
  <2>6. QED
    BY <2>2, <2>3, <2>4, <2>5, <1>a, <1>b, <1>c, <2>a, Completes DEF Faults, Refused,
       Terminates, N
<1>4. CASE exit.op = "movFrom" /\ exit.sys = "cr8"
  <2>a. exit.op = "movFrom" /\ exit.sys = "cr8" /\ Adjusted(guest)
        /\ stack' = [stack EXCEPT ![exit.gpr] = hw["cr8"]] /\ hw' = hw
    BY <1>a, <1>b, <1>c, <1>4 DEF VmmHandleCrAccess
  <2>1. N = [View EXCEPT ![exit.gpr] = View[exit.sys]]
    BY <1>a, <1>b, <1>c, <2>a DEF NewRegisters
  <2> HIDE DEF N
  <2>2. \A r \in Loaded \ (Guest!Unspecified(exit) \union {"ip"}) : guest[r] = N[r]
    BY <2>1, <1>a, <1>b, <1>c, <2>a, ViewOf, Members, Places DEF Gpr, Guest!Unspecified
  <2>3. \A r \in Gpr \ (Guest!Unspecified(exit) \union {"sp"}) : stack'[r] = N[r]
    BY <2>1, <1>a, <1>b, <1>c, <2>a, ViewOf, Members, Places DEF Gpr, Guest!Unspecified
  <2>4. \A r \in Remaining \ Guest!Unspecified(exit) : hw'[r] = N[r]
    BY <2>1, <1>a, <1>b, <1>c, <2>a, ViewOf, Members, Places DEF Remaining, Gpr, Guest!Unspecified
  <2>5. Guest!SameMemory(exit, mem', NewMemory(View, mem, exit)) /\
          context' = Guest!NewContext(exit)
    BY <1>a, <1>b, <1>c, <2>a, Untouched
  <2>6. QED
    BY <2>2, <2>3, <2>4, <2>5, <1>a, <1>b, <1>c, <2>a, Completes DEF Faults, Refused,
       Terminates, N
<1>5. QED
  BY <1>1, <1>2, <1>3, <1>4 DEF VmmHandleCrAccess

\* DR7 is written and read in the VMCS, the others in the processor; what DR2 reads as
\* is not specified.
LEMMA DrAccessEmulated ==
  ASSUME GInv, GInv', VmmHandleDrAccess
  PROVE  Guest!Execute
<1> DEFINE N == NewRegisters(View, mem, exit)
<1>a. mode = "root" /\ exit.op \in {"movTo", "movFrom"} /\ UNCHANGED <<mem, context>>
  BY DEF VmmHandleDrAccess, Handles
<1>b. /\ exit \in Instructions /\ Shape' /\ DOMAIN guest = Loaded /\ DOMAIN View = R
      /\ DOMAIN stack = Gpr /\ DOMAIN hw = R
  BY <1>a, AtExit
<1>c. exit.gpr \in Gpr /\ exit.sys \in Drs
  BY <1>a, <1>b, InstructionsAssumption DEF VmmHandleDrAccess
<1>1. CASE exit.op = "movTo" /\ exit.sys = "dr7"
  <2>a. exit.op = "movTo" /\ exit.sys = "dr7" /\
          Adjusted([guest EXCEPT !["dr7"] = stack[exit.gpr]])
        /\ stack' = stack /\ hw' = hw
    BY <1>a, <1>b, <1>c, <1>1 DEF VmmHandleDrAccess
  <2>1. N = [View EXCEPT ![exit.sys] = View[exit.gpr]]
    BY <1>a, <1>b, <1>c, <2>a DEF NewRegisters
  <2> HIDE DEF N
  <2>2. \A r \in Loaded \ (Guest!Unspecified(exit) \union {"ip"}) :
          [guest EXCEPT !["dr7"] = stack[exit.gpr]][r] = N[r]
    BY <2>1, <1>a, <1>b, <1>c, <2>a, ViewOf, Members, Places DEF Gpr, Guest!Unspecified
  <2>3. \A r \in Gpr \ (Guest!Unspecified(exit) \union {"sp"}) : stack'[r] = N[r]
    BY <2>1, <1>a, <1>b, <1>c, <2>a, ViewOf, Members, Places DEF Gpr, Guest!Unspecified
  <2>4. \A r \in Remaining \ Guest!Unspecified(exit) : hw'[r] = N[r]
    BY <2>1, <1>a, <1>b, <1>c, <2>a, ViewOf, Members, Places DEF Remaining, Gpr, Guest!Unspecified
  <2>5. Guest!SameMemory(exit, mem', NewMemory(View, mem, exit)) /\
          context' = Guest!NewContext(exit)
    BY <1>a, <1>b, <1>c, <2>a, Untouched
  <2>6. QED
    BY <2>2, <2>3, <2>4, <2>5, <1>a, <1>b, <1>c, <2>a, Completes DEF Faults, Refused,
       Terminates, N
<1>2. CASE exit.op = "movTo" /\ exit.sys # "dr7"
  <2>a. exit.op = "movTo" /\ exit.sys # "dr7" /\ Adjusted(guest)
        /\ stack' = stack /\ hw' = [hw EXCEPT ![exit.sys] = stack[exit.gpr]]
    BY <1>a, <1>b, <1>c, <1>2 DEF VmmHandleDrAccess
  <2>1. N = [View EXCEPT ![exit.sys] = View[exit.gpr]]
    BY <1>a, <1>b, <1>c, <2>a DEF NewRegisters
  <2> HIDE DEF N
  <2>2. \A r \in Loaded \ (Guest!Unspecified(exit) \union {"ip"}) : guest[r] = N[r]
    BY <2>1, <1>a, <1>b, <1>c, <2>a, ViewOf, Members, Places DEF Gpr, Guest!Unspecified
  <2>3. \A r \in Gpr \ (Guest!Unspecified(exit) \union {"sp"}) : stack'[r] = N[r]
    BY <2>1, <1>a, <1>b, <1>c, <2>a, ViewOf, Members, Places DEF Gpr, Guest!Unspecified
  <2>4. \A r \in Remaining \ Guest!Unspecified(exit) : hw'[r] = N[r]
    BY <2>1, <1>a, <1>b, <1>c, <2>a, ViewOf, Members, Places DEF Remaining, Gpr, Guest!Unspecified
  <2>5. Guest!SameMemory(exit, mem', NewMemory(View, mem, exit)) /\
          context' = Guest!NewContext(exit)
    BY <1>a, <1>b, <1>c, <2>a, Untouched
  <2>6. QED
    BY <2>2, <2>3, <2>4, <2>5, <1>a, <1>b, <1>c, <2>a, Completes DEF Faults, Refused,
       Terminates, N
<1>3. CASE exit.op = "movFrom"
  <2>a. exit.op = "movFrom" /\ Adjusted(guest)
        /\ DOMAIN stack' = Gpr
        /\ (\A r \in Gpr \ {exit.gpr} : stack'[r] = stack[r])
        /\ (exit.sys = "dr7" => stack'[exit.gpr] = guest["dr7"])
        /\ (exit.sys \notin {"dr7", "dr2"} => stack'[exit.gpr] = hw[exit.sys])
        /\ hw' = hw
    BY <1>a, <1>b, <1>c, <1>3 DEF VmmHandleDrAccess
  <2>1. N = [View EXCEPT ![exit.gpr] = View[exit.sys]]
    BY <1>a, <1>b, <1>c, <2>a DEF NewRegisters
  <2> HIDE DEF N
  <2>2. \A r \in Loaded \ (Guest!Unspecified(exit) \union {"ip"}) : guest[r] = N[r]
    BY <2>1, <1>a, <1>b, <1>c, <2>a, ViewOf, Members, Places DEF Gpr, Guest!Unspecified
  <2>3. \A r \in Gpr \ (Guest!Unspecified(exit) \union {"sp"}) : stack'[r] = N[r]
    BY <2>1, <1>a, <1>b, <1>c, <2>a, ViewOf, Members, Places DEF Gpr, Guest!Unspecified
  <2>4. \A r \in Remaining \ Guest!Unspecified(exit) : hw'[r] = N[r]
    BY <2>1, <1>a, <1>b, <1>c, <2>a, ViewOf, Members, Places DEF Remaining, Gpr, Guest!Unspecified
  <2>5. Guest!SameMemory(exit, mem', NewMemory(View, mem, exit)) /\
          context' = Guest!NewContext(exit)
    BY <1>a, <1>b, <1>c, <2>a, Untouched
  <2>6. QED
    BY <2>2, <2>3, <2>4, <2>5, <1>a, <1>b, <1>c, <2>a, Completes DEF Faults, Refused,
       Terminates, N
<1>4. QED
  BY <1>1, <1>2, <1>3, <1>a

\* RDMSR reads an MSR where it is: in the VMCS or in the processor.
LEMMA MsrReadEmulated ==
  ASSUME GInv, GInv', VmmHandleMsrReadAccess
  PROVE  Guest!Execute
<1> DEFINE N == NewRegisters(View, mem, exit)
<1>a. /\ mode = "root" /\ exit.op = "rdmsr" /\ Adjusted(guest)
      /\ stack' = [stack EXCEPT !["ax"] = Low(MsrValue), !["dx"] = High(MsrValue)]
      /\ UNCHANGED <<hw, mem, context>>
  BY DEF VmmHandleMsrReadAccess, Handles
<1>b. /\ exit \in Instructions /\ Shape' /\ DOMAIN guest = Loaded /\ DOMAIN View = R
      /\ DOMAIN stack = Gpr /\ DOMAIN hw = R
  BY <1>a, AtExit
<1>c. MsrValue = View[exit.sys]
  BY <1>a, <1>b, ViewOf, Members, Places, InstructionsAssumption DEF MsrValue, GInv
<1>1. N = [View EXCEPT !["ax"] = Low(MsrValue), !["dx"] = High(MsrValue)]
  BY <1>a, <1>b, <1>c DEF NewRegisters
<1> HIDE DEF N
<1>2. \A r \in Loaded \ (Guest!Unspecified(exit) \union {"ip"}) : guest[r] = N[r]
  BY <1>1, <1>a, <1>b, <1>c, ViewOf, Members, Places DEF Gpr, Guest!Unspecified
<1>3. \A r \in Gpr \ (Guest!Unspecified(exit) \union {"sp"}) : stack'[r] = N[r]
  BY <1>1, <1>a, <1>b, <1>c, ViewOf, Members, Places DEF Gpr, Guest!Unspecified
<1>4. \A r \in Remaining \ Guest!Unspecified(exit) : hw'[r] = N[r]
  BY <1>1, <1>a, <1>b, <1>c, ViewOf, Members, Places DEF Remaining, Gpr, Guest!Unspecified
<1>5. Guest!SameMemory(exit, mem', NewMemory(View, mem, exit)) /\
        context' = Guest!NewContext(exit)
  BY <1>a, <1>b, <1>c, Untouched
<1>6. QED
  BY <1>2, <1>3, <1>4, <1>5, <1>a, <1>b, <1>c, Completes DEF Faults, Refused, Terminates, N

\* WRMSR writes it there.
LEMMA MsrWriteEmulated ==
  ASSUME GInv, GInv', VmmHandleMsrWriteAccess
  PROVE  Guest!Execute
<1> DEFINE N == NewRegisters(View, mem, exit)
           v == Join(stack["dx"], stack["ax"])
<1>a. mode = "root" /\ exit.op = "wrmsr" /\ stack' = stack /\ UNCHANGED <<mem, context>>
  BY DEF VmmHandleMsrWriteAccess, Handles
<1>b. /\ exit \in Instructions /\ Shape' /\ DOMAIN guest = Loaded /\ DOMAIN View = R
      /\ DOMAIN stack = Gpr /\ DOMAIN hw = R
  BY <1>a, AtExit
<1>c. v = Join(View["dx"], View["ax"]) /\ exit.sys \in Msrs
  BY <1>a, <1>b, ViewOf, Members, InstructionsAssumption DEF Gpr
<1>1. CASE exit.sys \in TransferToVmcs
  <2>a. exit.sys \in TransferToVmcs /\ Adjusted([guest EXCEPT ![exit.sys] = v]) /\ hw' = hw
    BY <1>a, <1>b, <1>c, <1>1 DEF VmmHandleMsrWriteAccess
  <2>1. N = [View EXCEPT ![exit.sys] = v]
    BY <1>a, <1>b, <1>c, <2>a DEF NewRegisters
  <2> HIDE DEF N
  <2>2. \A r \in Loaded \ (Guest!Unspecified(exit) \union {"ip"}) :
          [guest EXCEPT ![exit.sys] = v][r] = N[r]
    BY <2>1, <1>a, <1>b, <1>c, <2>a, ViewOf, Members, Places DEF Gpr, Guest!Unspecified
  <2>3. \A r \in Gpr \ (Guest!Unspecified(exit) \union {"sp"}) : stack'[r] = N[r]
    BY <2>1, <1>a, <1>b, <1>c, <2>a, ViewOf, Members, Places DEF Gpr, Guest!Unspecified
  <2>4. \A r \in Remaining \ Guest!Unspecified(exit) : hw'[r] = N[r]
    BY <2>1, <1>a, <1>b, <1>c, <2>a, ViewOf, Members, Places DEF Remaining, Gpr, Guest!Unspecified
  <2>5. Guest!SameMemory(exit, mem', NewMemory(View, mem, exit)) /\
          context' = Guest!NewContext(exit)
    BY <1>a, <1>b, <1>c, <2>a, Untouched
  <2>6. QED
    BY <2>2, <2>3, <2>4, <2>5, <1>a, <1>b, <1>c, <2>a, Completes DEF Faults, Refused,
       Terminates, N
<1>2. CASE exit.sys \notin TransferToVmcs
  <2>a. exit.sys \notin TransferToVmcs /\ Adjusted(guest) /\ hw' = [hw EXCEPT ![exit.sys] = v]
    BY <1>a, <1>b, <1>c, <1>2 DEF VmmHandleMsrWriteAccess
  <2>1. N = [View EXCEPT ![exit.sys] = v]
    BY <1>a, <1>b, <1>c, <2>a DEF NewRegisters
  <2> HIDE DEF N
  <2>2. \A r \in Loaded \ (Guest!Unspecified(exit) \union {"ip"}) : guest[r] = N[r]
    BY <2>1, <1>a, <1>b, <1>c, <2>a, ViewOf, Members, Places DEF Gpr, Guest!Unspecified
  <2>3. \A r \in Gpr \ (Guest!Unspecified(exit) \union {"sp"}) : stack'[r] = N[r]
    BY <2>1, <1>a, <1>b, <1>c, <2>a, ViewOf, Members, Places DEF Gpr, Guest!Unspecified
  <2>4. \A r \in Remaining \ Guest!Unspecified(exit) : hw'[r] = N[r]
    BY <2>1, <1>a, <1>b, <1>c, <2>a, ViewOf, Members, Places DEF Remaining, Gpr, Guest!Unspecified
  <2>5. Guest!SameMemory(exit, mem', NewMemory(View, mem, exit)) /\
          context' = Guest!NewContext(exit)
    BY <1>a, <1>b, <1>c, <2>a, Untouched
  <2>6. QED
    BY <2>2, <2>3, <2>4, <2>5, <1>a, <1>b, <1>c, <2>a, Completes DEF Faults, Refused,
       Terminates, N
<1>3. QED
  BY <1>1, <1>2

\* LGDT and LIDT load what memory holds in the address space of the guest; SGDT and SIDT store
\* the base there, and some limit.
LEMMA GdtrOrIdtrEmulated ==
  ASSUME GInv, GInv', VmmHandleGdtrOrIdtrAccess
  PROVE  Guest!Execute
<1> DEFINE N == NewRegisters(View, mem, exit)
<1>a. mode = "root" /\ exit.op \in {"loadTable", "storeTable"} /\ UNCHANGED <<hw, stack, context>>
  BY DEF VmmHandleGdtrOrIdtrAccess, Handles
<1>b. /\ exit \in Instructions /\ Shape' /\ DOMAIN guest = Loaded /\ DOMAIN View = R
      /\ DOMAIN stack = Gpr /\ DOMAIN hw = R
  BY <1>a, AtExit
<1>c. /\ exit.table \in Tables /\ guest["cr3"] = View["cr3"] /\ Cpu["cr3"] = View["cr3"]
      /\ Base(exit.table) # Limit(exit.table) /\ guest[Base(exit.table)] = View[Base(exit.table)]
  BY <1>a, <1>b, ViewOf, Members, Places, CpuRoot, InstructionsAssumption DEF GInv, Tables,
     Base, Limit
<1>1. CASE exit.op = "loadTable"
  <2>a. exit.op = "loadTable" /\ Operand = mem[View["cr3"]] /\ mem' = mem
        /\ Adjusted([guest EXCEPT ![Base(exit.table)] = Operand.base,
                             ![Limit(exit.table)] = Operand.limit])
    BY <1>a, <1>b, <1>c, <1>1 DEF VmmHandleGdtrOrIdtrAccess, Operand
  <2>1. N = [View EXCEPT ![Base(exit.table)] = Operand.base, ![Limit(exit.table)] = Operand.limit]
    BY <1>a, <1>b, <1>c, <2>a DEF NewRegisters
  <2> HIDE DEF N
  <2>2. \A r \in Loaded \ (Guest!Unspecified(exit) \union {"ip"}) :
          [guest EXCEPT ![Base(exit.table)] = Operand.base,
                               ![Limit(exit.table)] = Operand.limit][r] = N[r]
    BY <2>1, <1>a, <1>b, <1>c, <2>a, ViewOf, Members, Places DEF Gpr, Guest!Unspecified
  <2>3. \A r \in Gpr \ (Guest!Unspecified(exit) \union {"sp"}) : stack'[r] = N[r]
    BY <2>1, <1>a, <1>b, <1>c, <2>a, ViewOf, Members, Places DEF Gpr, Guest!Unspecified
  <2>4. \A r \in Remaining \ Guest!Unspecified(exit) : hw'[r] = N[r]
    BY <2>1, <1>a, <1>b, <1>c, <2>a, ViewOf, Members, Places DEF Remaining, Gpr, Guest!Unspecified
  <2>5. Guest!SameMemory(exit, mem', NewMemory(View, mem, exit)) /\
          context' = Guest!NewContext(exit)
    BY <1>a, <1>b, <1>c, <2>a, Untouched
  <2>6. QED
    BY <2>2, <2>3, <2>4, <2>5, <1>a, <1>b, <1>c, <2>a, Completes DEF Faults, Refused,
       Terminates, N
<1>2. CASE exit.op = "storeTable"
  <2>a. exit.op = "storeTable" /\ Adjusted(guest)
        /\ mem' = [mem EXCEPT ![guest["cr3"]].base = guest[Base(exit.table)],
                              ![guest["cr3"]].limit = Low(guest[Base(exit.table)])]
    BY <1>a, <1>b, <1>c, <1>2 DEF VmmHandleGdtrOrIdtrAccess
  <2>1. N = View
    BY <1>a, <1>b, <1>c, <2>a DEF NewRegisters
  <2> HIDE DEF N
  <2>2. \A r \in Loaded \ (Guest!Unspecified(exit) \union {"ip"}) : guest[r] = N[r]
    BY <2>1, <1>a, <1>b, <1>c, <2>a, ViewOf, Members, Places DEF Gpr, Guest!Unspecified
  <2>3. \A r \in Gpr \ (Guest!Unspecified(exit) \union {"sp"}) : stack'[r] = N[r]
    BY <2>1, <1>a, <1>b, <1>c, <2>a, ViewOf, Members, Places DEF Gpr, Guest!Unspecified
  <2>4. \A r \in Remaining \ Guest!Unspecified(exit) : hw'[r] = N[r]
    BY <2>1, <1>a, <1>b, <1>c, <2>a, ViewOf, Members, Places DEF Remaining, Gpr, Guest!Unspecified
  <2>5. Guest!SameMemory(exit, mem', NewMemory(View, mem, exit)) /\
          context' = Guest!NewContext(exit)
    BY <1>a, <1>b, <1>c, <2>a, StoredTable DEF Guest!NewContext
  <2>6. QED
    BY <2>2, <2>3, <2>4, <2>5, <1>a, <1>b, <1>c, <2>a, Completes DEF Faults, Refused,
       Terminates, N
<1>3. QED
  BY <1>1, <1>2, <1>a

\* LLDT and LTR load the selector, SLDT and STR store it.
LEMMA LdtrOrTrEmulated ==
  ASSUME GInv, GInv', VmmHandleLdtrOrTrAccess
  PROVE  Guest!Execute
<1> DEFINE N == NewRegisters(View, mem, exit)
<1>a. mode = "root" /\ exit.op \in {"loadSelector", "storeSelector", "storeToRegister"} /\
        UNCHANGED <<hw, context>>
  BY DEF VmmHandleLdtrOrTrAccess, Handles
<1>b. /\ exit \in Instructions /\ Shape' /\ DOMAIN guest = Loaded /\ DOMAIN View = R
      /\ DOMAIN stack = Gpr /\ DOMAIN hw = R
  BY <1>a, AtExit
<1>c. /\ exit.table \in Segments /\ guest["cr3"] = View["cr3"] /\
           guest[exit.table] = View[exit.table]
      /\ Descriptor(exit.table) # exit.table
  BY <1>a, <1>b, ViewOf, Members, Places, InstructionsAssumption DEF Segments, Descriptor
<1>1. CASE exit.op = "loadSelector"
  <2>a. exit.op = "loadSelector" /\ Operand = mem[View["cr3"]] /\ UNCHANGED <<stack, mem>>
        /\ Adjusted([guest EXCEPT ![exit.table] = Operand.selector])
    BY <1>a, <1>b, <1>c, <1>1 DEF VmmHandleLdtrOrTrAccess, Operand
  <2>1. N = [View EXCEPT ![exit.table] = Operand.selector,
                   ![Descriptor(exit.table)] = Described(Operand.selector)]
    BY <1>a, <1>b, <1>c, <2>a DEF NewRegisters
  <2> HIDE DEF N
  <2>2. \A r \in Loaded \ (Guest!Unspecified(exit) \union {"ip"}) :
          [guest EXCEPT ![exit.table] = Operand.selector][r] = N[r]
    BY <2>1, <1>a, <1>b, <1>c, <2>a, ViewOf, Members, Places DEF Gpr, Guest!Unspecified,
       Guest!Descriptor, Descriptor
  <2>3. \A r \in Gpr \ (Guest!Unspecified(exit) \union {"sp"}) : stack'[r] = N[r]
    BY <2>1, <1>a, <1>b, <1>c, <2>a, ViewOf, Members, Places DEF Gpr, Guest!Unspecified,
       Guest!Descriptor, Descriptor
  <2>4. \A r \in Remaining \ Guest!Unspecified(exit) : hw'[r] = N[r]
    BY <2>1, <1>a, <1>b, <1>c, <2>a, ViewOf, Members, Places DEF Remaining, Gpr, Guest!Unspecified
  <2>5. Guest!SameMemory(exit, mem', NewMemory(View, mem, exit)) /\
          context' = Guest!NewContext(exit)
    BY <1>a, <1>b, <1>c, <2>a, Untouched
  <2>6. QED
    BY <2>2, <2>3, <2>4, <2>5, <1>a, <1>b, <1>c, <2>a, Completes DEF Faults, Refused,
       Terminates, N
<1>2. CASE exit.op = "storeSelector"
  <2>a. exit.op = "storeSelector" /\ Adjusted(guest) /\ stack' = stack
        /\ mem' = [mem EXCEPT ![guest["cr3"]].selector = guest[exit.table]]
    BY <1>a, <1>b, <1>c, <1>2 DEF VmmHandleLdtrOrTrAccess
  <2>1. N = View
    BY <1>a, <1>b, <1>c, <2>a DEF NewRegisters
  <2> HIDE DEF N
  <2>2. \A r \in Loaded \ (Guest!Unspecified(exit) \union {"ip"}) : guest[r] = N[r]
    BY <2>1, <1>a, <1>b, <1>c, <2>a, ViewOf, Members, Places DEF Gpr, Guest!Unspecified
  <2>3. \A r \in Gpr \ (Guest!Unspecified(exit) \union {"sp"}) : stack'[r] = N[r]
    BY <2>1, <1>a, <1>b, <1>c, <2>a, ViewOf, Members, Places DEF Gpr, Guest!Unspecified
  <2>4. \A r \in Remaining \ Guest!Unspecified(exit) : hw'[r] = N[r]
    BY <2>1, <1>a, <1>b, <1>c, <2>a, ViewOf, Members, Places DEF Remaining, Gpr, Guest!Unspecified
  <2>5. Guest!SameMemory(exit, mem', NewMemory(View, mem, exit)) /\
          context' = Guest!NewContext(exit)
    BY <1>a, <1>c, <2>a DEF Guest!NewContext, Guest!SameMemory, NewMemory
  <2>6. QED
    BY <2>2, <2>3, <2>4, <2>5, <1>a, <1>b, <1>c, <2>a, Completes DEF Faults, Refused,
       Terminates, N
<1>3. CASE exit.op = "storeToRegister"
  <2>a. exit.op = "storeToRegister" /\ Adjusted(guest) /\ mem' = mem /\ exit.gpr \in Gpr
        /\ stack' = [stack EXCEPT ![exit.gpr] = [hi |-> stack[exit.gpr].hi,
             lo |-> guest[exit.table].lo]]
    BY <1>a, <1>b, <1>c, <1>3, InstructionsAssumption DEF VmmHandleLdtrOrTrAccess
  <2>1. N = [View EXCEPT ![exit.gpr] = [hi |-> IF exit.size = 16 THEN View[exit.gpr].hi ELSE Zero,
                                    lo |-> View[exit.table].lo]]
    BY <1>a, <1>b, <1>c, <2>a DEF NewRegisters
  <2> HIDE DEF N
  <2>2. \A r \in Loaded \ (Guest!Unspecified(exit) \union {"ip"}) : guest[r] = N[r]
    BY <2>1, <1>a, <1>b, <1>c, <2>a, ViewOf, Members, Places DEF Gpr, Guest!Unspecified
  <2>3. \A r \in Gpr \ (Guest!Unspecified(exit) \union {"sp"}) : stack'[r] = N[r]
    BY <2>1, <1>a, <1>b, <1>c, <2>a, ViewOf, Members, Places DEF Gpr, Guest!Unspecified
  <2>4. \A r \in Remaining \ Guest!Unspecified(exit) : hw'[r] = N[r]
    BY <2>1, <1>a, <1>b, <1>c, <2>a, ViewOf, Members, Places DEF Remaining, Gpr, Guest!Unspecified
  <2>5. Guest!SameMemory(exit, mem', NewMemory(View, mem, exit)) /\
          context' = Guest!NewContext(exit)
    BY <1>a, <1>b, <1>c, <2>a, Untouched
  <2>6. QED
    BY <2>2, <2>3, <2>4, <2>5, <1>a, <1>b, <1>c, <2>a, Completes DEF Faults, Refused,
       Terminates, N
<1>4. QED
  BY <1>1, <1>2, <1>3, <1>a

\* The VMM answers a VMCALL in *Context and clears the flags.
LEMMA VmCallAnswered ==
  ASSUME GInv, GInv', VmmHandleVmCall, exit.number \in {"ping", "getSharedProcessorData"}
  PROVE  Guest!Execute
<1> DEFINE N == NewRegisters(View, mem, exit)
<1>a. /\ mode = "root" /\ exit.op = "vmcall" /\
           Adjusted([guest EXCEPT !["flags"].arith = "clear"])
      /\ UNCHANGED <<hw, stack, mem>> /\ context' = "SharedData"
      /\ exit.number \notin {"unknown", "terminateFromUser", "terminate"}
  BY DEF VmmHandleVmCall, IsVmCall, VmmIndicateSuccessfulVmcall, Handles
<1>b. /\ exit \in Instructions /\ Shape' /\ DOMAIN guest = Loaded /\ DOMAIN View = R
      /\ DOMAIN stack = Gpr /\ DOMAIN hw = R
  BY <1>a, AtExit
<1>1. N = [View EXCEPT !["flags"].arith = "clear"]
  BY <1>a, <1>b DEF NewRegisters
<1> HIDE DEF N
<1>2. \A r \in Loaded \ (Guest!Unspecified(exit) \union {"ip"}) :
        [guest EXCEPT !["flags"].arith = "clear"][r] = N[r]
  BY <1>1, <1>a, <1>b, ViewOf, Members, Places DEF Gpr, Guest!Unspecified
<1>3. \A r \in Gpr \ (Guest!Unspecified(exit) \union {"sp"}) : stack'[r] = N[r]
  BY <1>1, <1>a, <1>b, ViewOf, Members, Places DEF Gpr, Guest!Unspecified
<1>4. \A r \in Remaining \ Guest!Unspecified(exit) : hw'[r] = N[r]
  BY <1>1, <1>a, <1>b, ViewOf, Members, Places DEF Remaining, Gpr, Guest!Unspecified
<1>5. Guest!SameMemory(exit, mem', NewMemory(View, mem, exit)) /\
        context' = Guest!NewContext(exit)
  BY <1>a DEF Guest!NewContext, Guest!SameMemory, NewMemory
<1>6. QED
  BY <1>2, <1>3, <1>4, <1>5, <1>a, <1>b, Completes DEF Faults, Refused, Terminates, N

\* A handler that gives the guest the event its instruction raises.
LEMMA Raises ==
  ASSUME GInv, GInv', mode = "root", exit.op \in Faults \/ Refused(exit),
         NEW v, NEW c, v # "none", Injected(v, c), UNCHANGED <<stack, mem, context>>,
         NEW ip \in Int, ip = guest["ip"] + (IF v = "BP" THEN entryLen' ELSE 0),
         Raised(View, mem, exit).event = Event(v, c, ip),
         Raised(View, mem, exit).mem = mem,
         Raised(View, mem, exit).cpu["ip"] = ip,
         DOMAIN Raised(View, mem, exit).cpu = R,
         \A r \in Loaded \ {"ip"} : guest[r] = Raised(View, mem, exit).cpu[r],
         \A r \in Gpr \ {"sp"} : stack[r] = Raised(View, mem, exit).cpu[r],
         \A r \in Remaining : hw'[r] = Raised(View, mem, exit).cpu[r]
  PROVE  Guest!Execute
<1> DEFINE E == Raised(View, mem, exit)
<1>a. exit \in Instructions /\ Shape' /\ DOMAIN View = R /\ DOMAIN hw = R
  BY AtExit
<1>1. Cpu = View /\ inject = NoEvent
  BY CpuRoot DEF GInv, Placed
<1>2. mode' = "return" /\ guest' = guest /\ UNCHANGED <<exit, event>> /\
        inject' = [vector |-> v, code |-> c]
  BY DEF Injected
<1>3. inject' # NoEvent
  BY <1>2 DEF NoEvent
<1>4. Delivered' = Event(v, c, ip)
  BY <1>2 DEF Delivered, Event
<1>5. ResumedIp' = ip /\ PendingEvent' = Event(v, c, ip)
  BY <1>3, <1>4 DEF ResumedIp, PendingEvent, Event
<1>6. Cpu' = [View' EXCEPT !["ip"] = ip]
  <2>1. (Shape /\ mode \in {"root", "return"} => Cpu = [View EXCEPT !["ip"] = ResumedIp])'
    BY CpuHandled, PTL
  <2>2. QED
    BY <1>a, <1>2, <1>5, <2>1
<1>7. /\ DOMAIN Cpu' = R /\ DOMAIN Cpu = R
      /\ \A r \in R \ {"ip"} :
           View'[r] = IF r \in Loaded THEN guest[r] ELSE IF r \in Gpr THEN stack[r] ELSE hw'[r]
  BY <1>1, <1>2, <1>6, <1>a DEF View
<1> HIDE DEF E
<1>8. \A r \in R : Cpu'[r] = E.cpu[r]
  BY <1>6, <1>7, Members DEF Remaining, View, E
<1>9. exit.op # "storeTable" /\ ~Terminates(exit) /\ exit.op # "access" /\
        context' = Guest!NewContext(exit)
  BY DEF Faults, Refused, Terminates, Guest!NewContext
<1>10. Fetched = exit /\ Fetched' = None /\ On' /\ Seen' = E.event /\ E.mem = mem
  BY <1>2, <1>5, <1>9 DEF Fetched, On, Seen, Retries, E
<1>11. Guest!SameMemory(exit, mem', E.mem)
  BY <1>9, <1>10 DEF Guest!SameMemory
<1>12. E = Effect(Cpu, mem, exit)
  BY <1>1 DEF E, Effect
<1>13. QED
  BY <1>a, <1>7, <1>8, <1>9, <1>10, <1>11, <1>12, Executes

\* #PF, #GP and #BP come to the guest as on the bare processor.
LEMMA ExceptionsReflected ==
  ASSUME GInv, GInv', VmmHandleException
  PROVE  Guest!Execute
<1>a. mode = "root" /\ UNCHANGED <<stack, mem, context>> /\ View["ip"] = guest["ip"] /\
        guest["ip"] \in Int
      /\ exit.op \in Faults
  BY ViewOf, Members DEF VmmHandleException, Handles, GInv, Placed, Faults
<1>b. DOMAIN View = R /\ DOMAIN hw = R /\ "ip" \in R /\ "ip" \notin Remaining
  BY <1>a, AtExit, Members DEF Remaining
<1>1. CASE exit.op = "pageFault"
  <2>a. Injected("PF", "code") /\ hw' = [hw EXCEPT !["cr2"] = Value("address")]
    BY <1>1 DEF VmmHandleException
  <2>1. Raised(View, mem, exit)
          = [cpu |-> [View EXCEPT !["cr2"] = Value("address")], mem |-> mem,
             event |-> Event("PF", "code", guest["ip"])]
    BY <1>1, <1>a DEF Raised
  <2> DEFINE E == Raised(View, mem, exit)
  <2>2. /\ E.event = Event("PF", "code", guest["ip"]) /\ E.mem = mem
        /\ E.cpu = [View EXCEPT !["cr2"] = Value("address")]
    BY <2>1
  <2> HIDE DEF E
  <2>3. DOMAIN E.cpu = R /\ E.cpu["ip"] = guest["ip"]
    BY <2>2, <1>a, <1>b
  <2>4. /\ \A r \in Loaded \ {"ip"} : guest[r] = E.cpu[r]
        /\ \A r \in Gpr \ {"sp"} : stack[r] = E.cpu[r]
        /\ \A r \in Remaining : hw'[r] = E.cpu[r]
    BY <2>2, <2>a, <1>a, <1>b, ViewOf, Members, Places DEF Remaining
  <2>5. QED
    BY <1>a, <2>a, <2>2, <2>3, <2>4, Raises DEF E
<1>2. CASE exit.op = "protectionFault"
  <2>a. Injected("GP", "code") /\ hw' = hw
    BY <1>2 DEF VmmHandleException
  <2>1. Raised(View, mem, exit)
          = [cpu |-> View, mem |-> mem, event |-> Event("GP", "code", guest["ip"])]
    BY <1>2, <1>a DEF Raised
  <2> DEFINE E == Raised(View, mem, exit)
  <2>2. E.event = Event("GP", "code", guest["ip"]) /\ E.mem = mem /\ E.cpu = View
    BY <2>1
  <2> HIDE DEF E
  <2>4. /\ \A r \in Loaded \ {"ip"} : guest[r] = E.cpu[r]
        /\ \A r \in Gpr \ {"sp"} : stack[r] = E.cpu[r]
        /\ \A r \in Remaining : hw'[r] = E.cpu[r]
    BY <2>2, <2>a, <1>a, <1>b, ViewOf, Members DEF Remaining
  <2>5. QED
    BY <1>a, <1>b, <2>a, <2>2, <2>4, Raises DEF E
<1>3. CASE exit.op = "int3"
  <2>a. Injected("BP", "none") /\ hw' = hw /\ entryLen' = 1
    BY <1>3 DEF VmmHandleException
  <2>1. Raised(View, mem, exit)
          = [cpu |-> [View EXCEPT !["ip"] = guest["ip"] + 1], mem |-> mem,
             event |-> Event("BP", "none", guest["ip"] + 1)]
    BY <1>3, <1>a DEF Raised
  <2> DEFINE E == Raised(View, mem, exit)
  <2>2. /\ E.event = Event("BP", "none", guest["ip"] + 1) /\ E.mem = mem
        /\ E.cpu = [View EXCEPT !["ip"] = guest["ip"] + 1]
    BY <2>1
  <2> HIDE DEF E
  <2>3. DOMAIN E.cpu = R /\ E.cpu["ip"] = guest["ip"] + 1
    BY <2>2, <1>a, <1>b
  <2>4. /\ \A r \in Loaded \ {"ip"} : guest[r] = E.cpu[r]
        /\ \A r \in Gpr \ {"sp"} : stack[r] = E.cpu[r]
        /\ \A r \in Remaining : hw'[r] = E.cpu[r]
    BY <2>2, <2>a, <1>a, <1>b, ViewOf, Members DEF Remaining
  <2>5. QED
    BY <1>a, <2>a, <2>2, <2>3, <2>4, Raises DEF E
<1>4. QED
  BY <1>1, <1>2, <1>3, <1>a DEF Faults

\* A VMCALL the VMM refuses is an invalid instruction.
LEMMA VmCallRefused ==
  ASSUME GInv, GInv', VmmHandleVmCall, exit.number \in {"unknown", "terminateFromUser"}
  PROVE  Guest!Execute
<1>a. /\ mode = "root" /\ exit.op = "vmcall" /\ Refused(exit) /\ Injected("UD", "none")
      /\ UNCHANGED <<hw, stack, mem, context>> /\ View["ip"] = guest["ip"] /\ guest["ip"] \in Int
  BY ViewOf, Members
  DEF VmmHandleVmCall, IsVmCall, VmmIndicateUnsuccessfulVmcall, Handles, Refused, GInv, Placed
<1>b. DOMAIN View = R /\ "ip" \notin Remaining
  BY <1>a, AtExit, Members DEF Remaining
<1>1. Raised(View, mem, exit) = [cpu |-> View, mem |-> mem, event |-> Event("UD", "none",
        guest["ip"])]
  BY <1>a DEF Raised
<1> DEFINE E == Raised(View, mem, exit)
<1>2. E.event = Event("UD", "none", guest["ip"]) /\ E.mem = mem /\ E.cpu = View
  BY <1>1
<1> HIDE DEF E
<1>4. /\ \A r \in Loaded \ {"ip"} : guest[r] = E.cpu[r]
      /\ \A r \in Gpr \ {"sp"} : stack[r] = E.cpu[r]
      /\ \A r \in Remaining : hw'[r] = E.cpu[r]
  BY <1>2, <1>a, <1>b, ViewOf, Members DEF Remaining
<1>5. QED
  BY <1>a, <1>b, <1>2, <1>4, Raises DEF E

\* The steps that only move the guest's registers.
LEMMA Stutters ==
  ASSUME UNCHANGED <<Cpu, mem, context, Seen, On, Fetched>>
  PROVE  UNCHANGED Guest!vars
BY DEF Guest!vars, Cpu, Seen, On, Fetched

\* After an EPT violation the guest is where it was.
LEMMA ViolationIsInvisible ==
  ASSUME GInv, GInv', VmmHandleEptViolation
  PROVE  UNCHANGED Guest!vars
<1>a. /\ mode = "root" /\ exit.op = "access" /\ inject = NoEvent /\ mode' = "return"
      /\ UNCHANGED <<hw, guest, stack, exit, inject, entryLen, mem, context, event>>
  BY DEF VmmHandleEptViolation, Handles, GInv, Placed
<1>1. ResumedIp' = ResumedIp /\ View' = View
  BY <1>a DEF ResumedIp, Delivered, View
<1>2. Cpu = [View EXCEPT !["ip"] = ResumedIp]
  BY <1>a, CpuHandled DEF GInv
<1>3. (Shape /\ mode \in {"root", "return"} => Cpu = [View EXCEPT !["ip"] = ResumedIp])'
  BY CpuHandled, PTL
<1>4. Cpu' = Cpu
  BY <1>a, <1>1, <1>2, <1>3 DEF GInv
<1>5. UNCHANGED <<Seen, On, Fetched>>
  BY <1>a DEF Seen, On, Fetched, Retries
<1>6. QED
  BY <1>a, <1>4, <1>5, Stutters

\* The termination hands the processor to the driver with the guest's registers, but for
\* those a VMCALL of this number is expected to change.
LEMMA VmmTerminates ==
  ASSUME GInv, GInv', VmmHandleVmCallTermination
  PROVE  Guest!Execute
<1> DEFINE E == Effect(View, mem, exit)
           ip == guest["ip"] + Length(exit)
<1>a. /\ mode = "root" /\ mode' = "exitVm" /\ Terminates(exit) /\ UNCHANGED <<guest, exit, mem>>
      /\ hw' = [hw EXCEPT !["gdtrBase"] = guest["gdtrBase"], !["gdtrLimit"] = guest["gdtrLimit"],
                          !["idtrBase"] = guest["idtrBase"], !["idtrLimit"] = guest["idtrLimit"]]
      /\ stack' = [stack EXCEPT !["cx"] = ip, !["dx"] = stack["sp"],
                                !["ax"] = [guest["flags"] EXCEPT !.arith = "clear"]]
      /\ context' = "ProcessorData"
  BY DEF VmmHandleVmCallTermination, IsVmCall, Handles, Terminates
<1>b. /\ exit \in Instructions /\ Shape' /\ DOMAIN guest = Loaded /\ DOMAIN View = R
      /\ DOMAIN stack = Gpr /\ DOMAIN hw = R
  BY <1>a, AtExit
<1>c. /\ stack["sp"] = guest["sp"] /\ \A r \in Context : guest[r] = hw[r]
      /\ Cpu = View /\ View["ip"] = guest["ip"]
  BY <1>a, CpuRoot, Members, ViewOf DEF GInv, IInv, VmmRunsOnHost, Placed
<1>1. E.mem = mem /\ E.cpu = [View EXCEPT !["flags"].arith = "clear", !["ip"] = ip]
  <2>1. NewRegisters(View, mem, exit) = [View EXCEPT !["flags"].arith = "clear"] /\
          NewMemory(View, mem, exit) = mem
    BY <1>a DEF NewRegisters, NewMemory, Terminates
  <2>2. E = Completed(View, mem, exit)
    BY <1>a DEF Effect, Faults, Refused, Terminates
  <2>3. QED
    BY <2>1, <2>2, <1>c DEF Completed
<1> HIDE DEF E
<1>2. DOMAIN Cpu' = R /\ \A r \in R : Cpu'[r] = GuestRegister(r)'
  BY <1>a, <1>b DEF Cpu
<1>3. /\ GuestRegister("flags")' = [guest["flags"] EXCEPT !.arith = "clear"]
      /\ GuestRegister("sp")' = guest["sp"] /\ GuestRegister("ip")' = ip /\
           GuestRegister("bx")' = stack["bx"]
      /\ \A r \in R \ (Gpr \union {"flags", "ip"}) : GuestRegister(r)' = hw'[r]
  BY <1>a, <1>b, <1>c DEF GuestRegister, Gpr
<1>4. /\ \A r \in {"gdtrBase", "gdtrLimit", "idtrBase", "idtrLimit"} : hw'[r] = guest[r]
      /\ \A r \in Context : hw'[r] = guest[r]
      /\ \A r \in Remaining : hw'[r] = hw[r]
  <2>1. \A r \in {"gdtrBase", "gdtrLimit", "idtrBase", "idtrLimit"} : r \in R /\ r \in Loaded /\
          r \notin Context
    BY DEF Context, Loaded, Exchanged, R, Registers
  <2>2. \A r \in R \ {"gdtrBase", "gdtrLimit", "idtrBase", "idtrLimit"} : hw'[r] = hw[r]
    BY <1>a, <1>b
  <2>3. hw'["gdtrBase"] = guest["gdtrBase"] /\ hw'["gdtrLimit"] = guest["gdtrLimit"]
    BY <1>a, <1>b, <2>1
  <2>4. hw'["idtrBase"] = guest["idtrBase"] /\ hw'["idtrLimit"] = guest["idtrLimit"]
    BY <1>a, <1>b, <2>1
  <2>5. Context \subseteq R \ {"gdtrBase", "gdtrLimit", "idtrBase", "idtrLimit"}
    BY <2>1, Members
  <2>6. Remaining \subseteq R \ {"gdtrBase", "gdtrLimit", "idtrBase", "idtrLimit"}
    BY <2>1 DEF Remaining
  <2>7. QED
    BY <1>c, <2>2, <2>3, <2>4, <2>5, <2>6
<1>5. Loaded = Context \union {"gdtrBase", "gdtrLimit", "idtrBase", "idtrLimit", "sp", "ip",
        "flags", "dr7", "debugctl"}
  BY DEF Loaded, Exchanged, DebugControls, Context
<1>6. Guest!Unspecified(exit) = {"ax", "cx", "dx", "dr7", "debugctl"}
  BY <1>a DEF Guest!Unspecified, Terminates
<1>7. \A r \in R \ Guest!Unspecified(exit) : Cpu'[r] = E.cpu[r]
  <2> SUFFICES ASSUME NEW r \in R, r \notin {"ax", "cx", "dx", "dr7",
    "debugctl"} PROVE Cpu'[r] = E.cpu[r]
    BY <1>6
  <2>1. CASE r \in Gpr \union {"flags", "ip"}
    BY <2>1, <1>1, <1>2, <1>3, <1>b, ViewOf, Members, <1>a DEF Gpr
  <2>2. CASE r \in Remaining
    BY <2>2, <1>1, <1>2, <1>3, <1>4, <1>b, ViewOf, Members, <1>a DEF Remaining
  <2>3. CASE r \in Loaded \ (Gpr \union {"flags", "ip"})
    BY <2>3, <1>1, <1>2, <1>3, <1>4, <1>5, <1>b, ViewOf, Members, <1>a DEF Gpr
  <2>4. QED
    BY <2>1, <2>2, <2>3 DEF Remaining
<1>8. Guest!SameMemory(exit, mem', E.mem) /\ context' = Guest!NewContext(exit)
  BY <1>a, <1>1 DEF Guest!SameMemory, Guest!NewContext, Terminates
<1>9. /\ Fetched = exit /\ Fetched' = None /\ On' = ~Terminates(exit)
      /\ Seen' = IF Terminates(exit) THEN NoEvent ELSE E.event
  BY <1>a DEF Fetched, On, Seen, Retries
<1>10. E = Effect(Cpu, mem, exit) /\ DOMAIN Cpu = R /\ DOMAIN Cpu' = DOMAIN Cpu
  BY <1>b, <1>c, <1>2 DEF E
<1>11. QED
  BY <1>b, <1>7, <1>8, <1>9, <1>10, Executes

-----------------------------------------------------------------------------
(* The processor                                                           *)

\* GInv is inductive.
LEMMA StepsKeep ==
  ASSUME SavesDebugControls, GInv, [Next]_vars
  PROVE  GInv'
<1>a. GInv /\ IInv'
  BY StepPreserves DEF GInv
<1>1. ASSUME NEW i \in Instructions, GuestFetches(i) PROVE GInv'
  BY <1>a, <1>1 DEF GuestFetches, GInv, Shape, Placed, Terminates
<1>2. CASE GuestExecutes
  <2>a. mode = "fetched" /\ mode' = "guest" /\ hw' = Effect(hw, mem, exit).cpu /\ ~MustExit(exit)
        /\ UNCHANGED <<guest, stack, exit, inject, entryLen, context>>
    BY <1>2 DEF GuestExecutes
  <2>b. DOMAIN hw = R /\ hw["ip"] \in Int /\ "ip" \in R /\ Length(exit) \in Int
    BY <1>a, <2>a, Members DEF GInv, Shape, Placed, Length
  <2> DEFINE n  == NewRegisters(hw, mem, exit)
             ip == hw["ip"] + Length(exit)
  <2>1. hw' = [n EXCEPT !["ip"] = ip]
    BY <2>a DEF Effect, Completed, Faults, Refused, MustExit
  <2>2. DOMAIN n = R /\ ip \in Int
    BY <2>b DEF NewRegisters
  <2> HIDE DEF n, ip
  <2>3. hw' = [r \in R |-> hw'[r]] /\ hw'["ip"] \in Int
    BY <2>1, <2>2, <2>b
  <2>4. QED
    BY <1>a, <2>a, <2>3 DEF GInv, Shape, Placed
<1>3. CASE GuestExits
  BY <1>a, <1>3, Members DEF GuestExits, GInv, Shape, Placed, Terminates
<1>4. CASE VmmHandleVmExit
  BY <1>4, HandlersKeep
<1>5. CASE VmResume
  BY <1>a, <1>5, Members DEF VmResume, GInv, Shape, Placed, ResumedIp, Delivered, Terminates,
     Retries
<1>6. CASE ExitVm
  BY <1>a, <1>6 DEF ExitVm, GInv, Shape, Placed
<1>7. CASE UNCHANGED vars
  BY <1>a, <1>7 DEF vars, GInv, Shape, Placed
<1>8. QED
  BY <1>1, <1>2, <1>3, <1>4, <1>5, <1>6, <1>7 DEF Next

\* An exit changes none of the guest's registers.
LEMMA ExitIsInvisible ==
  ASSUME SavesDebugControls, GInv, GInv', GuestExits
  PROVE  UNCHANGED Guest!vars
<1>a. /\ mode = "fetched" /\ mode' = "root"
      /\ guest' = [r \in DOMAIN guest |-> IF r \in Saved THEN hw[r] ELSE guest[r]]
      /\ hw' = [r \in DOMAIN hw |-> IF r \in Loaded THEN HostArea[r] ELSE hw[r]]
      /\ stack' = [r \in Gpr |-> hw[r]]
      /\ UNCHANGED <<exit, inject, entryLen, mem, context, event>>
  BY DEF GuestExits
<1>1. Cpu = hw /\ DOMAIN guest = Loaded /\ DOMAIN hw = R /\ hw = [r \in R |-> hw[r]]
  BY <1>a, CpuNative DEF GInv, Shape
<1>2. (Shape /\ Placed /\ mode = "root" => Cpu = View)'
  BY CpuRoot, PTL
<1>3. Cpu' = View'
  BY <1>2, <1>a DEF GInv
<1>4. \A r \in R : View'[r] = hw[r]
  BY <1>a, <1>1, Members DEF View
<1>5. Cpu' = Cpu
  BY <1>1, <1>3, <1>4 DEF View
<1>6. UNCHANGED <<Seen, On, Fetched>>
  BY <1>a DEF Seen, On, Fetched
<1>7. QED
  BY <1>a, <1>5, <1>6, Stutters

\* Nor does VMRESUME.
LEMMA ResumeIsInvisible ==
  ASSUME GInv, GInv', VmResume
  PROVE  UNCHANGED Guest!vars
<1>a. /\ mode = "return" /\ mode' \in {"fetched", "guest"} /\ UNCHANGED <<mem, context>>
      /\ mode' = (IF Retries THEN "fetched" ELSE "guest") /\ exit' = exit
      /\ event' = IF Retries THEN event ELSE PendingEvent
      /\ DOMAIN hw = R
  BY DEF VmResume, GInv, Shape
<1>1. (Shape /\ mode \in {"guest", "fetched", "off"} => Cpu = hw)'
  BY CpuNative, PTL
<1>2. Cpu' = hw'
  BY <1>a, <1>1 DEF GInv
<1>3. Cpu = [View EXCEPT !["ip"] = ResumedIp]
  BY <1>a, CpuHandled DEF GInv
<1>4. hw' = [View EXCEPT !["ip"] = ResumedIp]
  BY <1>a, Members DEF View, VmResume
<1>5. UNCHANGED <<Seen, On, Fetched>>
  BY <1>a DEF Seen, On, Fetched, Retries
<1>6. QED
  BY <1>a, <1>2, <1>3, <1>4, <1>5, Stutters

\* Nor does VMXOFF.
LEMMA ExitVmIsInvisible ==
  ASSUME GInv, GInv', ExitVm
  PROVE  UNCHANGED Guest!vars
<1>a. mode = "exitVm" /\ mode' = "off" /\ UNCHANGED <<mem, context>> /\ event' = NoEvent /\
        DOMAIN hw = R
  BY DEF ExitVm, GInv, Shape
<1>1. (Shape /\ mode \in {"guest", "fetched", "off"} => Cpu = hw)'
  BY CpuNative, PTL
<1>2. Cpu' = hw'
  BY <1>a, <1>1 DEF GInv
<1>3. \A r \in R : GuestRegister(r) = hw'[r]
  BY <1>a DEF ExitVm, GuestRegister, Gpr
<1>4. Cpu' = Cpu
  BY <1>a, <1>2, <1>3 DEF Cpu, GInv, Shape
<1>5. UNCHANGED <<Seen, On, Fetched>>
  BY <1>a DEF Seen, On, Fetched
<1>6. QED
  BY <1>a, <1>4, <1>5, Stutters

\* An instruction that does not exit is the machine's own.
LEMMA Executed ==
  ASSUME GInv, GInv', GuestExecutes
  PROVE  Guest!Execute
<1> DEFINE E == Effect(hw, mem, exit)
<1>a. /\ mode = "fetched" /\ mode' = "guest" /\ ~MustExit(exit) /\ hw' = E.cpu /\
           mem' = E.mem /\ event' = E.event
      /\ UNCHANGED <<exit, context>> /\ exit \in Instructions
  BY DEF GuestExecutes, GInv, IInv, ExitKnown
<1>b. exit.op # "vmcall" /\ exit.op \notin Faults
  BY <1>a DEF MustExit, Faults
<1>1. Cpu = hw
  BY <1>a, CpuNative DEF GInv
<1>2. (Shape /\ mode \in {"guest", "fetched", "off"} => Cpu = hw)'
  BY CpuNative, PTL
<1>3. Cpu' = E.cpu /\ DOMAIN Cpu' = DOMAIN Cpu
  BY <1>1, <1>2, <1>a DEF GInv, Shape
<1>4. Guest!SameMemory(exit, mem', E.mem)
  <2>1. CASE exit.op = "storeTable"
    <3> DEFINE c == hw["cr3"]
               p == [mem[c] EXCEPT !["base"] = hw[Base(exit.table)]]
               l == hw[Limit(exit.table)]
    <3>1. E.mem = [mem EXCEPT ![c] = [p EXCEPT !["limit"] = l]]
      BY <1>b, <2>1 DEF Effect, Refused, Completed, NewMemory
    <3> HIDE DEF p, l, E
    <3>2. [[p EXCEPT !["limit"] = l] EXCEPT !["limit"] = [p EXCEPT !["limit"] = l]["limit"]] = [p EXCEPT !["limit"] = l]
      OBVIOUS
    <3>3. [mem' EXCEPT ![c] = [mem'[c] EXCEPT !["limit"] = mem'[c]["limit"]]] = mem'
      BY <1>a, <3>1, <3>2
    <3>4. QED
      BY <1>a, <1>1, <2>1, <3>3 DEF Guest!SameMemory, Cpu
  <2>2. CASE exit.op # "storeTable"
    BY <1>a, <2>2 DEF Guest!SameMemory
  <2>3. QED
    BY <2>1, <2>2
<1>5. /\ Fetched = exit /\ Fetched' = None /\ On' = ~Terminates(exit)
      /\ Seen' = IF Terminates(exit) THEN NoEvent ELSE E.event
  BY <1>a, <1>b DEF Fetched, On, Seen, Terminates
<1>6. context' = Guest!NewContext(exit)
  BY <1>a, <1>b DEF Guest!NewContext
<1>7. E = Effect(Cpu, mem, exit)
  BY <1>1
<1> HIDE DEF E
<1>8. QED
  BY <1>a, <1>3, <1>4, <1>5, <1>6, <1>7, Executes

\* An instruction is fetched by both.
LEMMA Fetches ==
  ASSUME GInv, GInv', NEW i \in Instructions, GuestFetches(i)
  PROVE  Guest!Fetch(i)
<1>a. mode = "guest" /\ mode' = "fetched" /\ Legal(hw, i) /\ exit' = i
      /\ UNCHANGED <<hw, mem, context, event>>
  BY DEF GuestFetches
<1>1. Cpu = hw
  BY <1>a, CpuNative DEF GInv
<1>2. (Shape /\ mode \in {"guest", "fetched", "off"} => Cpu = hw)'
  BY CpuNative, PTL
<1>3. Cpu' = Cpu
  BY <1>1, <1>2, <1>a DEF GInv
<1>4. On = TRUE /\ On' = TRUE /\ Fetched = None /\ Fetched' = i /\ Seen' = Seen
  BY <1>a DEF On, Fetched, Seen
<1>5. Guest!Legal(Cpu, i)
  BY <1>1, <1>a DEF Legal, Guest!Legal, Spaces, Guest!Spaces, System, Guest!System, Process,
     Guest!Process,
     Value, Guest!Value
<1>6. None = Guest!None
  BY DEF None, Guest!None
<1>7. QED
  BY <1>a, <1>3, <1>4, <1>5, <1>6 DEF Guest!Fetch, Cpu, On, Fetched, Seen

-----------------------------------------------------------------------------
\* Every step of the VMM and its guest is a step of the guest's machine, or none.
LEMMA StepsRefine ==
  ASSUME SavesDebugControls, GInv, [Next]_vars
  PROVE  [Guest!Next]_Guest!vars
<1>a. GInv'
  BY StepsKeep
<1>1. ASSUME NEW i \in Instructions, GuestFetches(i) PROVE Guest!Next
  BY <1>a, <1>1, Fetches DEF Guest!Next
<1>2. CASE GuestExecutes
  BY <1>a, <1>2, Executed DEF Guest!Next
<1>3. CASE GuestExits
  BY <1>a, <1>3, ExitIsInvisible
<1>4. CASE VmmHandleVmExit
  <2>1. CASE VmmHandleVmCall
    <3>1. exit.number \in {"ping", "getSharedProcessorData", "unknown", "terminateFromUser"}
      BY <2>1 DEF VmmHandleVmCall, IsVmCall
    <3>2. QED
      BY <1>a, <2>1, <3>1, VmCallAnswered, VmCallRefused DEF Guest!Next
  <2>2. CASE VmmHandleEptViolation
    BY <1>a, <2>2, ViolationIsInvisible
  <2>3. QED
    BY <1>a, <1>4, <2>1, <2>2, CpuidEmulated, InvalidateEmulated, RdtscEmulated, RdtscpEmulated,
       XsetbvEmulated,
       VmxEmulated, CrAccessEmulated, DrAccessEmulated, MsrReadEmulated, MsrWriteEmulated,
       GdtrOrIdtrEmulated, LdtrOrTrEmulated, ExceptionsReflected, VmmTerminates
    DEF VmmHandleVmExit, Guest!Next
<1>5. CASE VmResume
  BY <1>a, <1>5, ResumeIsInvisible
<1>6. CASE ExitVm
  BY <1>a, <1>6, ExitVmIsInvisible
<1>7. CASE UNCHANGED vars
  BY <1>7 DEF vars, Guest!vars, GuestRegister, ResumedIp, Delivered, PendingEvent, Retries
<1>8. QED
  BY <1>1, <1>2, <1>3, <1>4, <1>5, <1>6, <1>7 DEF Next

\* Emulated or not, each instruction changes the guest's registers, memory and events as
\* on the machine of GuestMachine: for all sequences of instructions, registers, values
\* and address spaces.
THEOREM VmmImplementsGuestMachine == ASSUME SavesDebugControls PROVE Spec => GuestSpec
<1>1. Init => GInv
  BY DEF Init, GInv, IInv, Complete, ExitKnown, VmmRunsOnHost, Shape, Placed, R, Launched,
     InitialRegisters,
         Registers, Gpr, Drs, Msrs, Segments, Loaded, Exchanged, DebugControls
<1>2. Init => Guest!Init
  <2> SUFFICES ASSUME Init PROVE Guest!Init
    OBVIOUS
  <2>1. Cpu = InitialRegisters
    BY <1>1, CpuNative DEF Init, GInv, Launched
  <2>2. InitialRegisters = Guest!InitialRegisters
    BY DEF InitialRegisters, Guest!InitialRegisters, Registers, Guest!Registers, Gpr, Guest!Gpr,
       Drs, Guest!Drs,
       Msrs, Guest!Msrs, Segments, Guest!Segments, Value, Guest!Value, Zero, Guest!Zero
  <2>3. InitialMemory = Guest!InitialMemory
    BY DEF InitialMemory, Guest!InitialMemory, Spaces, Guest!Spaces, System, Guest!System,
       Process,
       Guest!Process, Value, Guest!Value
  <2>4. Seen = NoEvent /\ On = TRUE /\ Fetched = None /\ NoEvent = Guest!NoEvent /\
          None = Guest!None
    BY DEF Init, Seen, On, Fetched, NoEvent, Guest!NoEvent, None, Guest!None
  <2>5. QED
    BY <2>1, <2>2, <2>3, <2>4 DEF Init, Guest!Init, Cpu, Seen, On, Fetched
<1>3. GInv /\ [Next]_vars => GInv'
  BY StepsKeep
<1>4. GInv /\ [Next]_vars => [Guest!Next]_Guest!vars
  BY StepsRefine
<1>5. QED
  BY <1>1, <1>2, <1>3, <1>4, PTL DEF Spec, GuestSpec, Guest!Spec
=============================================================================
