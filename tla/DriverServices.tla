--------------------------- MODULE DriverServices ---------------------------
(***************************************************************************)
(* The services DriverEntry sets up before it virtualizes the processors   *)
(* and DriverUnload takes down after them: the constructors and            *)
(* destructors of global objects (GlobalVariables.cpp), the performance    *)
(* collector (Performance.cpp, PerfCounter.h) and the description of       *)
(* physical memory (Util.cpp).  The VMMs that run in between use the last  *)
(* two.                                                                    *)
(*                                                                         *)
(* What starting and stopping a processor takes is VmLifecycle's subject.  *)
(* Here VmStartVm and VmStopVm are single steps that succeed or fail, and  *)
(* the loop that calls them goes through the processors by number and ends *)
(* at the first failure, as in VmLifecycle.  The power and the hot-add     *)
(* callback run only while the driver is loaded, one at a time             *)
(* (VmLifecycle's Serialized).                                             *)
(***************************************************************************)
EXTENDS PerfCollector, Sequences, FiniteSetsExt

CONSTANTS
  MaxProcessors, \* Bound: how many processors the machine may have.
  Constructors,  \* How many constructors of global objects are linked in.
  PageSize,      \* PAGE_SIZE
  Memories       \* What MmGetPhysicalMemoryRanges may return: sequences of
                 \* ranges [base, bytes] before the terminating range of zeros.

\* Processors are known by their index.
ASSUME IndexAssumption ==
  MaxProcessors \in Nat \ {0} /\ Processors = 0 .. MaxProcessors - 1

ASSUME ConstructorsAssumption == Constructors \in Nat
ASSUME PageAssumption == PageSize \in Nat \ {0}

\* Ranges begin at a page, have some bytes and share no page, as Windows reports them.
ASSUME MemoriesAssumption ==
  \A array \in Memories :
    /\ array \in Seq([base : Nat, bytes : Nat \ {0}])
    /\ \A i \in DOMAIN array : array[i].base % PageSize = 0
    /\ \A i, j \in DOMAIN array :
         i # j => \/ array[i].base + array[i].bytes <= array[j].base
                 \/ array[j].base + array[j].bytes <= array[i].base

VARIABLES
  pc,          \* control point of the driver and of the callbacks while it is loaded
  caller,      \* who called VmInitialization or VmTermination: driver or power callback
  idx,         \* ProcessorIndex of UtilForEachProcessor
  dtors,       \* gGopDtorsListHead: the registered destructors, last one first
  constructed, \* the objects that are constructed
  orphans,     \* history: the objects whose atexit failed
  ranges,      \* the array of ranges the system allocated, or Null
  descriptor,  \* what g_UtilPhysicalMemoryRanges points to, or Null
  freed,       \* whether the descriptor is freed; the pointer to it stays
  active,      \* the number of active processors
  asleep,      \* whether the system is suspended
  vmm,         \* the processors on which a VMM runs
  skipped      \* history: the added processors on which VmHotplugCallback started
               \* no VMM since VmInitialization last succeeded

globals == <<dtors, constructed, orphans>>
memory  == <<ranges, descriptor, freed>>
loop    == <<caller, idx>>
machine == <<active, asleep, vmm, skipped>>
vars    == <<perf, pc, globals, memory, loop, machine>>

Init ==
  /\ PerfInit
  /\ pc = "globals"
  /\ dtors = <<>> /\ constructed = {} /\ orphans = {}
  /\ ranges = Null /\ descriptor = Null /\ freed = FALSE
  /\ caller = "driver" /\ idx = 0
  /\ active \in 1 .. MaxProcessors
  /\ asleep = FALSE /\ vmm = {} /\ skipped = {}

-----------------------------------------------------------------------------
(* GlobalVariables.cpp                                                     *)

\* Mutant: the entry is put at the end of the list.
atexitAppends(c) == dtors' = Append(dtors, c) /\ UNCHANGED orphans

\* atexit puts the destructor at the head of the list, unless it gets no memory
\* for the entry.  A constructor does not look at what it returns.
atexit(c) ==
  \/ dtors' = <<c>> \o dtors /\ UNCHANGED orphans
  \/ UNCHANGED dtors /\ orphans' = orphans \union {c}

\* GlobalVariablesInitialization calls the constructors in the order of the table.
CallConstructor ==
  /\ pc = "globals"
  /\ LET c == Cardinality(constructed) + 1
     IN  /\ c <= Constructors
         /\ constructed' = constructed \union {c}
         /\ atexit(c)
  /\ UNCHANGED <<perf, pc, memory, loop, machine>>

GlobalVariablesInitialized ==
  /\ pc = "globals"
  /\ Cardinality(constructed) = Constructors
  /\ pc' = "perf"
  /\ UNCHANGED <<perf, globals, memory, loop, machine>>

\* GlobalVariablesTermination takes the entries off the list one by one.
CallDestructor ==
  /\ pc = "undoGlobals"
  /\ dtors # <<>>
  /\ constructed' = constructed \ {Head(dtors)}
  /\ dtors' = Tail(dtors)
  /\ UNCHANGED <<perf, pc, orphans, memory, loop, machine>>

GlobalVariablesTerminated ==
  /\ pc = "undoGlobals"
  /\ dtors = <<>>
  /\ pc' = "gone"
  /\ UNCHANGED <<perf, globals, memory, loop, machine>>

-----------------------------------------------------------------------------
(* Performance.cpp                                                         *)

PerfInitialization ==
  /\ pc = "perf"
  /\ \/ /\ collector' = TRUE /\ Initialize
        /\ pc' = "pageTables"
     \/ /\ UNCHANGED <<collector, table>>
        /\ pc' = "undoGlobals"
  /\ UNCHANGED <<calls, history, globals, memory, loop, machine>>

\* The report is written and the collector freed.
PerfTermination ==
  /\ pc = "undoPerf"
  /\ collector' = FALSE
  /\ pc' = "undoGlobals"
  /\ UNCHANGED <<table, calls, history, globals, memory, loop, machine>>

-----------------------------------------------------------------------------
(* Util.cpp                                                                *)

\* Mutant: PerfTermination is not called when the search fails.
UtilInitializePageTableVariablesLeaks ==
  /\ pc = "pageTables"
  /\ pc' \in {"query", "undoGlobals"}
  /\ UNCHANGED <<perf, globals, memory, loop, machine>>

\* The base of the page tables is known or found by a search, which may fail.
UtilInitializePageTableVariables ==
  /\ pc = "pageTables"
  /\ pc' \in {"query", "undoPerf"}
  /\ UNCHANGED <<perf, globals, memory, loop, machine>>

MmGetPhysicalMemoryRanges ==
  /\ pc = "query"
  /\ \/ ranges' \in Memories /\ pc' = "build"
     \/ UNCHANGED ranges /\ pc' = "undoPerf"
  /\ UNCHANGED <<perf, globals, descriptor, freed, loop, machine>>

\* Mutant: a page that is not full is not counted.
BytesToWholePages(bytes) == bytes \div PageSize

\* BYTES_TO_PAGES
BytesToPages(bytes) == (bytes + PageSize - 1) \div PageSize

UtilPfnFromPa(address) == address \div PageSize

PageCounts(array) == [i \in DOMAIN array |-> BytesToPages(array[i].bytes)]

Descriptor(array) ==
  [NumberOfRuns  |-> Len(array),
   NumberOfPages |-> MapThenSumSet(LAMBDA i : PageCounts(array)[i], DOMAIN array),
   Run |-> [i \in DOMAIN array |-> [BasePage  |-> UtilPfnFromPa(array[i].base),
                                    PageCount |-> PageCounts(array)[i]]]]

ASSUME DescriptorAssumption == \A array \in Memories : Descriptor(array) # Null

\* The array is freed whether or not a descriptor could be made of it.
UtilBuildPhysicalMemoryRanges ==
  /\ pc = "build"
  /\ \/ /\ ranges # <<>>
        /\ descriptor' = Descriptor(ranges)
        /\ pc' = "callbacks"
     \/ /\ UNCHANGED descriptor    \* no run, or no memory
        /\ pc' = "undoPerf"
  /\ ranges' = Null
  /\ UNCHANGED <<perf, globals, freed, loop, machine>>

UtilTermination ==
  /\ pc = "undoUtil"
  /\ freed' = (descriptor # Null)
  /\ pc' = "undoPerf"
  /\ UNCHANGED <<perf, globals, ranges, descriptor, loop, machine>>

-----------------------------------------------------------------------------
(* DriverEntry, DriverUnload and the callbacks                             *)

\* Registration of the power and the hot-add callback.
CallbackInitialization ==
  /\ pc = "callbacks"
  /\ pc' \in {"init", "undoUtil"}
  /\ UNCHANGED <<perf, globals, memory, loop, machine>>

\* Mutant: the services go before the VMMs do.
DriverUnloadBackwards ==
  /\ pc = "loaded"
  /\ pc' = "undoUtil"
  /\ UNCHANGED <<perf, globals, memory, loop, machine>>

\* DriverUnload calls VmTermination first.
DriverUnload ==
  /\ pc = "loaded"
  /\ pc' = "stop"
  /\ caller' = "driver"
  /\ UNCHANGED <<perf, globals, memory, idx, machine>>

\* The power callback calls VmTermination, too.
PowerSuspend ==
  /\ pc = "loaded"
  /\ ~asleep
  /\ asleep' = TRUE
  /\ pc' = "stop"
  /\ caller' = "power"
  /\ UNCHANGED <<perf, globals, memory, idx, active, vmm, skipped>>

\* It calls VmInitialization when the system is back, from a suspend that took the
\* processors' state with it or from one that did not.
PowerResume ==
  /\ pc = "loaded"
  /\ asleep
  /\ asleep' = FALSE
  /\ \/ (\A p \in Processors : at[p] = "out") /\ vmm' = {} /\ skipped' = {}
     \/ UNCHANGED <<vmm, skipped>>
  /\ pc' = "init"
  /\ caller' = "power"
  /\ UNCHANGED <<perf, globals, memory, idx, active>>

\* A processor is added.  VmHotplugCallback starts a VMM on it with the shared data
\* of another VMM, if it meets one.
VmHotplugCallback ==
  /\ pc = "loaded"
  /\ active < MaxProcessors
  /\ active' = active + 1
  /\ \/ vmm # {} /\ vmm' = vmm \union {active} /\ UNCHANGED skipped
     \/ skipped' = skipped \union {active} /\ UNCHANGED vmm
  /\ UNCHANGED <<perf, pc, globals, memory, loop, asleep>>

-----------------------------------------------------------------------------
(* VmInitialization, VmTermination and UtilForEachProcessor                *)

\* VmInitialization and VmTermination return: the power callback ends whatever the
\* result was, DriverEntry fails, DriverUnload goes on.
Unwind == pc' = IF caller = "power" THEN "loaded" ELSE "undoUtil"

\* VmInitialization refuses when a VMM of this driver answers, when there is no VMX
\* and when there is no memory for shared data.
VmInitialization ==
  /\ pc = "init"
  /\ pc' = "start" \/ Unwind
  /\ UNCHANGED <<perf, globals, memory, loop, machine>>

\* VmInitialization starts one processor after the other; those that are started
\* measure while the next one is.  VMXON fails where a VMM runs already.  When a
\* processor fails, all of them are stopped.
VmStartVm ==
  /\ pc = "start"
  /\ idx < active
  /\ \/ idx \notin vmm /\ vmm' = vmm \union {idx} /\ idx' = idx + 1 /\ UNCHANGED pc
     \/ UNCHANGED vmm /\ idx' = 0 /\ pc' = "stop"
  /\ UNCHANGED <<perf, globals, memory, caller, active, asleep, skipped>>

VmInitializationReturns ==
  /\ pc = "start"
  /\ idx = active
  /\ pc' = "loaded"
  /\ idx' = 0
  /\ skipped' = {}
  /\ UNCHANGED <<perf, globals, memory, caller, active, asleep, vmm>>

\* A processor makes the hypercall that ends its VMM when it runs the guest, that
\* is, when no exit is being handled on it.
VmStopVm ==
  /\ pc = "stop"
  /\ idx \in vmm /\ at[idx] = "out"
  /\ vmm' = vmm \ {idx}
  /\ idx' = idx + 1
  /\ UNCHANGED <<perf, pc, globals, memory, caller, active, asleep, skipped>>

\* The loop that stops the processors ends behind the last one, or where there is no
\* VMM to answer the hypercall, whatever runs on the processors behind that one.
\* VmTermination and the rollback of VmInitialization return.
VmTerminationReturns ==
  /\ pc = "stop"
  /\ idx = active \/ idx \notin vmm
  /\ Unwind
  /\ idx' = 0
  /\ UNCHANGED <<perf, globals, memory, caller, machine>>

\* A VMM measures the handlers of its exits.  Once the collector is freed its pointer
\* is null and a VMM that is left measures nothing; a call of AddData it was in goes
\* on in freed memory, which is not followed.
VmmStep(p) ==
  /\ p \in vmm
  /\ collector
  /\ (\E l \in Locations : Measure(p, l)) \/ EnterAddData(p) \/ AddDataStep(p)
  /\ UNCHANGED <<pc, globals, memory, loop, machine>>

DriverStep ==
  \/ CallConstructor \/ GlobalVariablesInitialized \/ CallDestructor
  \/ GlobalVariablesTerminated \/ PerfInitialization \/ PerfTermination
  \/ UtilInitializePageTableVariables \/ MmGetPhysicalMemoryRanges
  \/ UtilBuildPhysicalMemoryRanges \/ UtilTermination \/ CallbackInitialization
  \/ DriverUnload \/ PowerSuspend \/ PowerResume \/ VmHotplugCallback
  \/ VmInitialization \/ VmStartVm \/ VmInitializationReturns \/ VmStopVm
  \/ VmTerminationReturns

Next == DriverStep \/ \E p \in Processors : VmmStep(p)

Spec == Init /\ [][Next]_vars

-----------------------------------------------------------------------------
(* Properties                                                              *)

TypeOK ==
  /\ collector \in BOOLEAN
  /\ key \in [Entries -> Locations \union {Null}]
  /\ time \in [Entries -> Nat]
  /\ count \in [Entries -> Nat]
  /\ at \in [Processors -> AddDataLabels \union {"out", "scope"}]
  /\ scope \in [Processors -> Locations \union {Null}]
  /\ index \in [Processors -> Entries]
  /\ read \in [Processors -> Nat]
  /\ writer \in [Entries -> Processors \union {Null}]
  /\ measured \in [Processors -> Nat]
  /\ added \in [Locations -> Nat]
  /\ alone \in BOOLEAN
  /\ pc \in {"globals", "perf", "pageTables", "query", "build", "callbacks", "init",
             "start", "loaded", "stop", "undoUtil", "undoPerf", "undoGlobals", "gone"}
  /\ dtors \in Seq(1 .. Constructors)
  /\ constructed \subseteq 1 .. Constructors
  /\ orphans \subseteq 1 .. Constructors
  /\ freed \in BOOLEAN
  /\ caller \in {"driver", "power"}
  /\ idx \in 0 .. active
  /\ active \in 1 .. MaxProcessors
  /\ asleep \in BOOLEAN
  /\ vmm \subseteq 0 .. active - 1
  /\ skipped \subseteq 0 .. active - 1

\* However the processors interleave in AddData, the entries in use stay a prefix
\* of the table, so that Terminate, which stops at the first entry without a key,
\* leaves out nothing that was recorded.
ReportOmitsNothing ==
  \A i \in Entries : key[i] # Null \/ time[i] # 0 \/ count[i] # 0 => i \in Reported

\* Processors that search at a time may give one location several entries, but no
\* more than there are processors that measured.  So the table of 200 entries cannot
\* fill up as long as the locations times the processors are not more than that.
DuplicatesBounded ==
  \A l \in Locations :
    Cardinality({i \in Entries : key[i] = l})
      <= Cardinality({p \in Processors : measured[p] > 0})

\* Additions may be lost when processors meet in AddData, but none is made up: the
\* counts together never exceed the calls of AddData that succeeded, the times the
\* scopes that were measured.
NothingMadeUp ==
  /\ MapThenSumSet(LAMBDA i : count[i], Entries) <= MapThenSumSet(LAMBDA l : added[l], Locations)
  /\ MapThenSumSet(LAMBDA i : time[i], Entries) <= MapThenSumSet(LAMBDA p : measured[p], Processors)

\* As long as no two processors were in AddData at a time, the table is the exact
\* count: one entry per location with all of its calls, or none where AddData
\* refused all of them because the table was full.
SerialIsExact ==
  alone /\ (\A p \in Processors : ~InAddData(p)) =>
    \A l \in Locations :
      LET Mine == {i \in Entries : key[i] = l}
      IN  /\ Cardinality(Mine) <= 1
          /\ \A i \in Mine : count[i] = added[l] /\ time[i] = added[l]
          /\ Mine = {} => added[l] = 0

\* A processor with a smaller number was added and got no VMM: VmTermination ends
\* there and does not reach p.
Behind(p) == \E q \in skipped : q < p

\* The collector and the description of memory (EptInitialization and
\* EptHandleEptViolation read it) are there while processors are started and as long
\* as a VMM runs, through failing starts, rollbacks, suspends and resumes.  The
\* exception is a VMM behind an added processor without one: VmTermination does not
\* reach it, and DriverUnload then frees both under it (DriverEntry.cpp:135-139).
ServicesOutliveVmms ==
  /\ pc = "start" => collector /\ descriptor # Null /\ ~freed
  /\ \A p \in vmm : Behind(p) \/ (collector /\ descriptor # Null /\ ~freed)
  /\ \A p \in Processors : at[p] # "out" => p \in vmm

\* Whatever failed on the way up, nothing is left at the end but the objects that
\* could not register their destructor.
NothingLeft ==
  pc = "gone" =>
    /\ ~collector
    /\ ranges = Null
    /\ descriptor # Null => freed
    /\ constructed = orphans

\* An object is destroyed after every object that was constructed later and has a
\* destructor registered, and after the collector and the VMMs VmTermination reaches
\* are gone.
DestroyedInReverse ==
  [][\A c \in constructed \ constructed' :
       /\ ~collector /\ \A p \in vmm : Behind(p)
       /\ \A d \in constructed' : d > c => d \in orphans]_vars

\* The pages of an array of ranges: those that hold an address of a range.
PagesOf(array) ==
  UNION {{a \div PageSize : a \in array[i].base .. array[i].base + array[i].bytes - 1} :
           i \in DOMAIN array}

\* The descriptor has exactly the pages of the array it was made of, each once.
DescribesMemory ==
  [][descriptor' # descriptor =>
       LET pages(r) == r.BasePage .. r.BasePage + r.PageCount - 1
           runs     == {descriptor'.Run[i] : i \in DOMAIN descriptor'.Run}
       IN  /\ UNION {pages(r) : r \in runs} = PagesOf(ranges)
           /\ descriptor'.NumberOfPages = Cardinality(PagesOf(ranges))
           /\ descriptor'.NumberOfRuns = Cardinality(runs)]_vars
=============================================================================
