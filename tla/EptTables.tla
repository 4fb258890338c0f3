----------------------------- MODULE EptTables -----------------------------
(***************************************************************************)
(* The extended page tables of one processor (EPT.cpp): EptInitialization  *)
(* builds a four-level table that maps all of RAM and the APIC page to     *)
(* itself, EptHandleEptViolation adds device pages with tables that were   *)
(* allocated in advance, EptTermination frees everything.                  *)
(*                                                                         *)
(* Each step of EptConstructTables, which calls itself once per level, is  *)
(* one action.  A block of the pool is a number; a table is a block that   *)
(* holds Fanout entries (512 in the code).  An entry is Empty, or names    *)
(* the next table, or, in the last level, the page it maps.                *)
(***************************************************************************)
EXTENDS Integers, FiniteSets, Sequences

CONSTANTS
  Fanout,         \* Entries of a table (512).
  Runs,           \* The runs of RAM: sequence of [base, count], in pages.
  ApicPage,       \* Page of the local APIC.
  Preallocated,   \* EptNumberOfPreallocatedEntries (50).
  MaxBlocks       \* Bound: blocks of the pool.

Pages  == 0 .. Fanout * Fanout * Fanout * Fanout - 1
Index  == 0 .. Fanout - 1
Blocks == 1 .. MaxBlocks
Null    == 0
Garbage == -2   \* a pointer read from memory nobody wrote
Empty   == -1   \* an entry whose bits are all 0

\* The pages of RAM, run by run.
RamPages(runs) ==
  UNION {runs[r].base .. runs[r].base + runs[r].count - 1 : r \in DOMAIN runs}

ASSUME SizesAssumption ==
  /\ Fanout \in Nat \ {0}
  /\ Preallocated \in Nat \ {0}
  /\ MaxBlocks \in Nat

\* There is RAM, the APIC page is not part of it, and runs do not overlap.
ASSUME RunsAssumption ==
  /\ Runs \in Seq([base : Pages, count : Nat \ {0}])
  /\ Len(Runs) > 0
  /\ RamPages(Runs) \subseteq Pages
  /\ ApicPage \in Pages \ RamPages(Runs)
  /\ \A r, s \in DOMAIN Runs :
       r < s => Runs[r].base + Runs[r].count <= Runs[s].base

VARIABLES
  live,     \* blocks allocated
  mem,      \* contents of the blocks that are used as tables
  data,     \* EptData
  pointer,  \* EptPointer
  root,     \* EptPm14
  array,    \* PreallocatedEntries
  pre,      \* what the array contains
  filled,   \* how much of it EptInitialization has filled
  used,     \* PreallocatedEntriesCount
  pc,       \* what the processor is doing
  run,      \* RunIndex
  page,     \* page EptConstructTables was called for
  table,    \* its argument Table
  level,    \* its argument TableLevel
  corrupt   \* whether something was freed that had not been allocated

ept  == <<data, pointer, root, array, pre, filled, used>>
walk == <<run, page, table, level>>
vars == <<live, mem, ept, pc, walk, corrupt>>

-----------------------------------------------------------------------------
(* The four index functions: EptAddressToPxeIndex, ...PpeIndex, ...PdeIndex,  *)
(* ...PteIndex                                                             *)

PxeIndex(p) == (p \div (Fanout * Fanout * Fanout)) % Fanout
PpeIndex(p) == (p \div (Fanout * Fanout)) % Fanout
\* Mutant: the mask of the third level is applied after the shift of the second.
PdeIndexShifted(p) == PpeIndex(p)
PdeIndex(p) == (p \div Fanout) % Fanout
PteIndex(p) == p % Fanout

EptAddressToIndex(l, p) ==
  CASE l = 4 -> PxeIndex(p)
    [] l = 3 -> PpeIndex(p)
    [] l = 2 -> PdeIndex(p)
    [] l = 1 -> PteIndex(p)

\* The tables one level below those of S.
Below(S) == (UNION {{mem[t][i] : i \in Index} : t \in S}) \ {Empty}

Level3 == Below({root})
Level2 == Below(Level3)
Level1 == Below(Level2)
Upper  == {root} \union Level3 \union Level2

\* EptGetEptPtEntry: the entry of page p, Empty when a table on the way is missing.
EntryAt(t, l, p) == IF t = Empty THEN Empty ELSE mem[t][EptAddressToIndex(l, p)]

EptGetEptPtEntry(p) == EntryAt(EntryAt(EntryAt(EntryAt(root, 4, p), 3, p), 2, p), 1, p)

-----------------------------------------------------------------------------
(* The pool                                                                *)

\* The pool hands out its lowest free block: which one it is does not matter.
ExAllocatePool(b) ==
  /\ b \in Blocks \ live
  /\ \A c \in Blocks \ live : b <= c
  /\ live' = live \union {b}

ZeroedTable == [i \in Index |-> Empty]

\* EptDestructTables(EptPm14, 4).
DestructedTables == IF root = Null THEN {} ELSE Upper \union Level1

\* Mutant: the first unused entry is skipped.
UnusedEntriesSkip(count) ==
  {pre[i] : i \in {j \in count + 2 .. Preallocated : \A k \in count + 2 .. j : pre[k] # Null}}

\* EptFreeUnusedPreAllocatedEntries(PreallocatedEntries, count), up to the first
\* null pointer.
UnusedEntries(count) ==
  {pre[i] : i \in {j \in count + 1 .. Preallocated : \A k \in count + 1 .. j : pre[k] # Null}}

\* All that EptTermination, or a failing EptInitialization, frees.
FreeEpt(count) ==
  LET unused == IF array = Null THEN {} ELSE UnusedEntries(count) \union {array}
      rest   == DestructedTables \union ({data, pointer} \ {Null})
  IN  /\ live' = live \ (unused \union rest)
      /\ corrupt' = (corrupt \/ ~(unused \subseteq live) \/ ~(rest \subseteq live \ unused))

-----------------------------------------------------------------------------
NullSlots == [i \in 1 .. Preallocated |-> Null]

Init ==
  /\ live = {}
  /\ mem  = [b \in Blocks |-> ZeroedTable]
  /\ data = Null /\ pointer = Null /\ root = Null /\ array = Null
  /\ pre = NullSlots /\ filled = 0 /\ used = 0
  /\ pc = "none"
  /\ run = 0 /\ page = 0 /\ table = Null /\ level = 0
  /\ corrupt = FALSE

\* EptConstructTables has returned.
WalkEnds == run' = 0 /\ page' = 0 /\ table' = Null /\ level' = 0

\* The processor has no EPT_DATA any more.  What freed blocks contain is not
\* followed: the code clears a block when it allocates it.
EptGone ==
  /\ mem' = [b \in Blocks |-> ZeroedTable]
  /\ data' = Null /\ pointer' = Null /\ root' = Null /\ array' = Null
  /\ pre' = NullSlots /\ filled' = 0 /\ used' = 0
  /\ pc' = "none"
  /\ WalkEnds

(***************************************************************************)
(* EptInitialization                                                       *)
(***************************************************************************)

\* EPT_DATA and EPT_POINTER.  (When the first cannot be allocated nothing happens.)
AllocateEptData ==
  /\ pc = "none"
  /\ \E b \in Blocks : ExAllocatePool(b) /\ data' = b
  /\ pc' = "pointer"
  /\ UNCHANGED <<mem, pointer, root, array, pre, filled, used, walk, corrupt>>

AllocateEptPointer ==
  /\ pc = "pointer"
  /\ \E b \in Blocks : ExAllocatePool(b) /\ pointer' = b
  /\ pc' = "pml4"
  /\ UNCHANGED <<mem, data, root, array, pre, filled, used, walk, corrupt>>

\* EptConstructTables(pml4, 4, p, ...) is called.
Construct(pml4, p, r) ==
  /\ page' = p
  /\ run' = r
  /\ table' = pml4
  /\ level' = 4

\* The PML4 table; construction begins with the first page of the first run.
AllocateEptPm14 ==
  /\ pc = "pml4"
  /\ \E b \in Blocks :
       /\ ExAllocatePool(b)
       /\ root' = b
       /\ mem' = [mem EXCEPT ![b] = ZeroedTable]
       /\ Construct(b, Runs[1].base, 1)
  /\ pc' = "build"
  /\ UNCHANGED <<data, pointer, array, pre, filled, used, corrupt>>

\* Mutant: the APIC page is not mapped in advance.
NextPageWithoutApic ==
  IF run = Len(Runs) /\ page + 1 = Runs[run].base + Runs[run].count
    THEN pc' = "array" /\ WalkEnds
    ELSE /\ UNCHANGED pc
         /\ \/ /\ page + 1 < Runs[run].base + Runs[run].count
               /\ Construct(root, page + 1, run)
            \/ /\ page + 1 = Runs[run].base + Runs[run].count
               /\ Construct(root, Runs[run + 1].base, run + 1)

\* A page is done: the next of its run, the first of the next run, the APIC
\* page, or the array of pre-allocated entries.
NextPage ==
  IF run > Len(Runs)
    THEN pc' = "array" /\ WalkEnds
    ELSE /\ UNCHANGED pc
         /\ \/ /\ page + 1 < Runs[run].base + Runs[run].count
               /\ Construct(root, page + 1, run)
            \/ /\ page + 1 = Runs[run].base + Runs[run].count
               /\ Construct(root, IF run = Len(Runs) THEN ApicPage ELSE Runs[run + 1].base, run + 1)

\* The array is not cleared: every slot holds what the memory held before.
AllocatePreallocatedEntries ==
  /\ pc = "array"
  /\ \E b \in Blocks : ExAllocatePool(b) /\ array' = b
  /\ \E old \in {Null, Garbage} : pre' = [i \in 1 .. Preallocated |-> old]
  /\ pc' = "fill"
  /\ UNCHANGED <<mem, data, pointer, root, filled, used, walk, corrupt>>

\* Mutant: the last slot is not filled.
FillPreallocatedEntriesShort ==
  /\ pc = "fill"
  /\ \E b \in Blocks :
       /\ ExAllocatePool(b)
       /\ pre' = [pre EXCEPT ![filled + 1] = b]
       /\ mem' = [mem EXCEPT ![b] = ZeroedTable]
  /\ filled' = filled + 1
  /\ pc' = IF filled + 2 = Preallocated THEN "ready" ELSE "fill"
  /\ UNCHANGED <<data, pointer, root, array, used, walk, corrupt>>

FillPreallocatedEntries ==
  /\ pc = "fill"
  /\ \E b \in Blocks :
       /\ ExAllocatePool(b)
       /\ pre' = [pre EXCEPT ![filled + 1] = b]
       /\ mem' = [mem EXCEPT ![b] = ZeroedTable]
  /\ filled' = filled + 1
  /\ pc' = IF filled + 1 = Preallocated THEN "ready" ELSE "fill"
  /\ UNCHANGED <<data, pointer, root, array, used, walk, corrupt>>

\* EptConstructTables needs a table of the next level.
NeedsTable == level > 1 /\ mem[table][EptAddressToIndex(level, page)] = Empty

\* An allocation fails: everything allocated so far is freed.
EptInitializationFails ==
  /\ pc \in {"pointer", "pml4", "build", "array", "fill"}
  /\ pc = "build" => NeedsTable
  /\ FreeEpt(0)
  /\ EptGone

(***************************************************************************)
(* EptConstructTables, for EptInitialization and for EptHandleEptViolation *)
(***************************************************************************)

EptInitTableEntry(content) ==
  mem' = [mem EXCEPT ![table][EptAddressToIndex(level, page)] = content]

\* The next table is there.
ConstructDescends ==
  /\ pc \in {"build", "fault"}
  /\ level > 1
  /\ ~NeedsTable
  /\ table' = mem[table][EptAddressToIndex(level, page)]
  /\ level' = level - 1
  /\ UNCHANGED <<live, mem, ept, pc, run, page, corrupt>>

\* EptAllocateEptEntryFromPool
ConstructFromPool ==
  /\ pc = "build"
  /\ NeedsTable
  /\ \E b \in Blocks :
       /\ ExAllocatePool(b)
       /\ mem' = [mem EXCEPT ![b] = ZeroedTable,
                             ![table][EptAddressToIndex(level, page)] = b]
       /\ table' = b
  /\ level' = level - 1
  /\ UNCHANGED <<ept, pc, run, page, corrupt>>

\* Mutant: the last pre-allocated entry is not handed out.
ConstructFromPreallocatedEarly ==
  /\ pc = "fault"
  /\ NeedsTable
  /\ used' = used + 1
  /\ IF used' >= Preallocated
       THEN /\ pc' = "halted"
            /\ UNCHANGED <<mem, table, level>>
       ELSE /\ EptInitTableEntry(pre[used'])
            /\ table' = pre[used']
            /\ level' = level - 1
            /\ UNCHANGED pc
  /\ UNCHANGED <<live, data, pointer, root, array, pre, filled, run, page, corrupt>>

\* EptAllocateEptEntryFromPreAllocated: the machine is stopped by a bug check
\* when there is none left.
ConstructFromPreallocated ==
  /\ pc = "fault"
  /\ NeedsTable
  /\ used' = used + 1
  /\ IF used' > Preallocated
       THEN /\ pc' = "halted"
            /\ UNCHANGED <<mem, table, level>>
       ELSE /\ EptInitTableEntry(pre[used'])
            /\ table' = pre[used']
            /\ level' = level - 1
            /\ UNCHANGED pc
  /\ UNCHANGED <<live, data, pointer, root, array, pre, filled, run, page, corrupt>>

\* The last level: the page is mapped to itself.
ConstructLeaf ==
  /\ pc \in {"build", "fault"}
  /\ level = 1
  /\ EptInitTableEntry(page)
  /\ \/ pc = "build" /\ NextPage
     \/ pc = "fault" /\ pc' = "ready" /\ WalkEnds
  /\ UNCHANGED <<live, ept, corrupt>>

(***************************************************************************)
(* EptHandleEptViolation and EptTermination                                *)
(***************************************************************************)

\* The guest touches a page that is not mapped.  (Every entry that is mapped
\* grants all access, so there is no other violation and the two early returns
\* are not reached.)
EptHandleEptViolation(p) ==
  /\ pc = "ready"
  /\ EptGetEptPtEntry(p) = Empty
  /\ Construct(root, p, 0)
  /\ pc' = "fault"
  /\ UNCHANGED <<live, mem, ept, corrupt>>

\* Mutant: PreallocatedEntriesCount is not passed on.
EptTerminationFromZero ==
  /\ pc = "ready"
  /\ FreeEpt(0)
  /\ EptGone

EptTermination ==
  /\ pc = "ready"
  /\ FreeEpt(used)
  /\ EptGone

-----------------------------------------------------------------------------
EptInitialization ==
  \/ AllocateEptData \/ AllocateEptPointer \/ AllocateEptPm14
  \/ AllocatePreallocatedEntries \/ FillPreallocatedEntries
  \/ EptInitializationFails

EptConstructTables ==
  \/ ConstructDescends \/ ConstructFromPool \/ ConstructFromPreallocated \/ ConstructLeaf

Next ==
  \/ EptInitialization
  \/ EptConstructTables
  \/ \E p \in Pages : EptHandleEptViolation(p)
  \/ EptTermination

\* The handler runs to its end: nothing interrupts VMX root operation.
Spec == Init /\ [][Next]_vars /\ WF_vars(EptConstructTables)

-----------------------------------------------------------------------------
(* Properties                                                              *)

TypeOK ==
  /\ live \subseteq Blocks
  /\ mem \in [Blocks -> [Index -> Pages \union Blocks \union {Empty}]]
  /\ {data, pointer, root, array, table} \subseteq Blocks \union {Null}
  /\ pre \in [1 .. Preallocated -> Blocks \union {Null, Garbage}]
  /\ filled \in 0 .. Preallocated
  /\ used \in 0 .. Preallocated + 1
  /\ pc \in {"none", "pointer", "pml4", "build", "array", "fill", "ready", "fault", "halted"}
  /\ run \in 0 .. Len(Runs) + 1
  /\ page \in Pages
  /\ level \in 0 .. 4
  /\ corrupt \in BOOLEAN

Spare   == {pre[i] : i \in used + 1 .. filled}
Headers == {data, pointer, array} \ {Null}

\* Every allocated block is accounted for in exactly one way: it is one of the
\* three header blocks, a spare pre-allocated entry, or a table to which exactly
\* one entry of one table leads.  So nothing is lost when an allocation of
\* EptInitialization fails half way, and the walk of EptDestructTables meets
\* each table once.
OwnedOnce ==
  /\ live = Headers \union Spare \union DestructedTables
  /\ Headers \intersect (Spare \union DestructedTables) = {}
  /\ Spare \intersect DestructedTables = {}
  /\ root # Null => \A b \in DestructedTables \ {root} :
       Cardinality({e \in Upper \X Index : mem[e[1]][e[2]] = b}) = 1

\* EptTermination frees no block twice: the entries handed out by
\* EptAllocateEptEntryFromPreAllocated go with the tables, the others with the
\* array.
TerminationFreesOnce == [][pc = "ready" => corrupt' = corrupt]_vars

\* The bug check for exhausted entries comes only when all of them are in use
\* as tables.
ExhaustedWhenAllUsed ==
  pc = "halted" => {pre[i] : i \in 1 .. Preallocated} \subseteq DestructedTables

\* NT_ASSERT(!EptPtEntry->all): a page is never constructed twice.
LeafWrittenOnce ==
  pc \in {"build", "fault"} /\ level = 1 => mem[table][PteIndex(page)] = Empty

\* The tables keep the promise of IdentityMap: after EptInitialization they map
\* RAM and the APIC page, each page to itself; a violation adds the page that
\* was touched and nothing else, or stops the machine; one or the other happens.
TheMap ==
  IF pc \in {"ready", "fault", "halted"}
    THEN {<<p, EptGetEptPtEntry(p)>> : p \in {q \in Pages : EptGetEptPtEntry(q) # Empty}}
    ELSE {}

MapState ==
  CASE pc \in {"ready", "fault"} -> "present"
    [] pc = "halted" -> "stopped"
    [] OTHER -> "absent"

Touched == IF pc \in {"fault", "halted"} THEN {page} ELSE {}

Promise == INSTANCE IdentityMap WITH
  Boot <- RamPages(Runs) \union {ApicPage}, state <- MapState, map <- TheMap, touched <- Touched

MapSpec == Promise!Spec

-----------------------------------------------------------------------------
(* What the source says of itself and the code does not do                 *)

\* EPT.cpp:606, EptFreeUnusedPreAllocatedEntries frees the entries that were
\* allocated in advance and not used: it frees nothing else.
FreesOnlyAllocated == ~corrupt
=============================================================================
