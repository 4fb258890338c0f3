------------------------------ MODULE EptMtrr ------------------------------
(***************************************************************************)
(* How EPT.cpp finds the memory type of a page: EptInitializeMtrrEntries   *)
(* copies the processor's memory type range registers into the global      *)
(* g_EptMtrrEntries, EptGetMemoryType searches it.  VmInitialization makes *)
(* the copy anew each time it runs, at load and at every resume; the       *)
(* operating system may have changed the registers in between.             *)
(*                                                                         *)
(* Addresses are page numbers.  The registers are a record: E and FE are   *)
(* the two flags of IA32_MTRR_DEF_TYPE, default its type, fixed the types  *)
(* of the fixed ranges, variable the variable ranges, each of which covers *)
(* Size = 2^n pages from an aligned base (a contiguous mask).              *)
(***************************************************************************)
EXTENDS Integers, Sequences, FiniteSets, SequencesExt

CONSTANTS
  FixedMsrs,      \* The three kinds of fixed ranges: sequence of [base, size, count].
  Registers,      \* The contents the registers may have at first.
  Rewritten,      \* The contents they may be given later.
  EntriesSize,    \* EptMtrrEntriesSize
  Addresses,      \* The pages whose memory type is asked for.
  MaxChanges      \* Bound: how often the registers change.

MemoryTypes == {"UC", "WC", "WT", "WP", "WB"}

\* The fixed ranges of one kind, and all of them in the order of the three loops.
RangesOf(kind) ==
  [i \in 1 .. kind.count |-> [base |-> kind.base + (i - 1) * kind.size, size |-> kind.size]]

FixedRanges == RangesOf(FixedMsrs[1]) \o RangesOf(FixedMsrs[2]) \o RangesOf(FixedMsrs[3])

VariableRange == [valid : BOOLEAN, base : Nat, size : Nat \ {0}, type : MemoryTypes]

\* What the registers of a processor can hold.  EptMtrrEntriesSize is 11 + 255: it
\* counts the 11 registers of the 88 fixed ranges, so that 178 entries are left for
\* variable ranges.  Processors have far fewer, and no copy is longer than that.
RegistersType ==
  [E : BOOLEAN, FE : BOOLEAN, default : MemoryTypes,
   fixed    : [1 .. Len(FixedRanges) -> MemoryTypes],
   variable : {ranges \in Seq(VariableRange) : Len(FixedRanges) + Len(ranges) <= EntriesSize}]

ASSUME MtrrAssumption ==
  /\ EntriesSize \in Nat
  /\ MaxChanges \in Nat
  /\ FixedMsrs \in [1 .. 3 -> [base : Nat, size : Nat \ {0}, count : Nat]]
  /\ \A regs \in Registers \union Rewritten : regs \in RegistersType

VARIABLES
  msrs,         \* the registers
  entries,      \* g_EptMtrrEntries
  defaultType,  \* g_EptMtrrDefaultType
  fresh,        \* whether the registers are unchanged since the copy was made
  changes       \* changes of the registers so far

vars == <<msrs, entries, defaultType, fresh, changes>>

NoEntry == [enabled |-> FALSE, fixed |-> FALSE, type |-> "UC", base |-> 0, end |-> 0]

Entry(isFixed, type, base, size) ==
  [enabled |-> TRUE, fixed |-> isFixed, type |-> type, base |-> base, end |-> base + size - 1]

-----------------------------------------------------------------------------
(* EptInitializeMtrrEntries                                                *)

FixedEntries(regs) ==
  IF regs.FE
    THEN [i \in DOMAIN FixedRanges |->
            Entry(TRUE, regs.fixed[i], FixedRanges[i].base, FixedRanges[i].size)]
    ELSE <<>>

\* A variable range that is not valid is skipped.
AppendValid(made, v) ==
  IF v.valid THEN Append(made, Entry(FALSE, v.type, v.base, v.size)) ELSE made

VariableEntries(regs) == FoldLeft(LAMBDA made, v : AppendValid(made, v), <<>>, regs.variable)

\* Mutant: the index starts over with the variable ranges.
NewEntriesRestarted(regs) ==
  VariableEntries(regs)
    \o SubSeq(FixedEntries(regs), Len(VariableEntries(regs)) + 1, Len(FixedEntries(regs)))

\* Mutant: the index is incremented before the entry is written.
NewEntriesFromOne(regs) == <<NoEntry>> \o FixedEntries(regs) \o VariableEntries(regs)

NewEntries(regs) == FixedEntries(regs) \o VariableEntries(regs)

\* What is written are the first entries; those behind stay as they were.
EptInitializeMtrrEntries ==
  /\ ~fresh
  /\ defaultType' = msrs.default
  /\ entries' = [i \in 1 .. EntriesSize |->
                   IF i <= Len(NewEntries(msrs)) THEN NewEntries(msrs)[i] ELSE entries[i]]
  /\ fresh' = TRUE
  /\ UNCHANGED <<msrs, changes>>

\* The operating system or the firmware writes the registers.
RegistersChange ==
  /\ changes < MaxChanges
  /\ msrs' \in Rewritten \ {msrs}
  /\ fresh' = FALSE
  /\ changes' = changes + 1
  /\ UNCHANGED <<entries, defaultType>>

Init ==
  /\ msrs \in Registers
  /\ entries = [i \in 1 .. EntriesSize |-> NoEntry]
  /\ defaultType = "UC"
  /\ fresh = FALSE
  /\ changes = 0

Next == EptInitializeMtrrEntries \/ RegistersChange

Spec == Init /\ [][Next]_vars

-----------------------------------------------------------------------------
(* EptGetMemoryType                                                        *)

\* The search: the result so far, and whether the loop was left.  No result
\* yet is "none" (MAXUCHAR).
Found(type) == [type |-> type, left |-> TRUE]
Keep(type)  == [type |-> type, left |-> FALSE]

\* Mutant: a variable range that is UC does not end the search.
VisitContinues(a, result, e) ==
  IF result.left THEN result
  ELSE IF ~e.enabled THEN Found(result.type)
  ELSE IF a \notin e.base .. e.end THEN result
  ELSE IF e.fixed THEN Found(e.type)
  ELSE IF e.type = "WT" /\ result.type = "WB" THEN Keep("WT")
  ELSE Keep(e.type)

Visit(a, result, e) ==
  IF result.left THEN result
  ELSE IF ~e.enabled THEN Found(result.type)
  ELSE IF a \notin e.base .. e.end THEN result
  ELSE IF e.fixed \/ e.type = "UC" THEN Found(e.type)
  ELSE IF e.type = "WT" /\ result.type = "WB" THEN Keep("WT")
  ELSE Keep(e.type)

EptGetMemoryType(a) ==
  LET last == FoldLeft(LAMBDA result, e : Visit(a, result, e), Keep("none"), entries)
  IN  IF last.type = "none" THEN defaultType ELSE last.type

-----------------------------------------------------------------------------
(* The architecture's rules                                                *)

FixedAt(regs, a) ==
  {regs.fixed[i] : i \in {j \in DOMAIN FixedRanges :
     a \in FixedRanges[j].base .. FixedRanges[j].base + FixedRanges[j].size - 1}}

Covers(v, a) == v.valid /\ a \in v.base .. v.base + v.size - 1

VariableAt(regs, a) ==
  {regs.variable[i].type : i \in {j \in DOMAIN regs.variable : Covers(regs.variable[j], a)}}

\* The memory types the processor may use for page a: one, unless ranges
\* overlap in a way the architecture leaves undefined.
Architectural(regs, a) ==
  LET var == VariableAt(regs, a)
  IN  IF ~regs.E THEN {"UC"}
      ELSE IF regs.FE /\ FixedAt(regs, a) # {} THEN FixedAt(regs, a)
      ELSE IF var = {} THEN {regs.default}
      ELSE IF "UC" \in var THEN {"UC"}
      ELSE IF Cardinality(var) = 1 THEN var
      ELSE IF var = {"WT", "WB"} THEN {"WT"}
      ELSE MemoryTypes

-----------------------------------------------------------------------------
(* Properties                                                              *)

EntryType ==
  [enabled : BOOLEAN, fixed : BOOLEAN, type : MemoryTypes, base : Nat, end : Nat]

\* The entries fit into g_EptMtrrEntries and have their types.
TypeOK ==
  /\ msrs \in Registers \union Rewritten
  /\ Len(NewEntries(msrs)) <= EntriesSize
  /\ entries \in [1 .. EntriesSize -> EntryType]
  /\ defaultType \in MemoryTypes
  /\ fresh \in BOOLEAN
  /\ changes \in 0 .. MaxChanges

\* An entry of an earlier copy is still behind those of the last one.
Stale == \E i \in 1 .. EntriesSize : i > Len(NewEntries(msrs)) /\ entries[i].enabled

\* A range that is WT comes before one that is WB.
WtBeforeWb(a) ==
  \E i, j \in DOMAIN msrs.variable :
    /\ i < j
    /\ Covers(msrs.variable[i], a) /\ msrs.variable[i].type = "WT"
    /\ Covers(msrs.variable[j], a) /\ msrs.variable[j].type = "WB"

\* EPT gives every page the type the registers give it on the bare machine,
\* whatever fixed and variable ranges overlap: fixed before variable, UC before
\* all, WT before WB, the default where there is none.  In three cases it does not:
\* entries of an earlier copy, MTRRs that are disabled, and a WT range before a WB one,
\* where EPT.cpp:413 replaces WT by WB although EPT.cpp:405 says that WT is used.
MemoryTypeCorrect ==
  fresh /\ ~Stale /\ msrs.E =>
    \A a \in Addresses :
      ~WtBeforeWb(a) => EptGetMemoryType(a) \in Architectural(msrs, a)

\* What an earlier copy left behind never changes the type of a page that is in
\* a fixed range or in a UC range, because the search ends there: after any
\* re-initialisation device memory that the registers make UC is UC.
StrongRangesPrevail ==
  fresh /\ msrs.E =>
    \A a \in Addresses :
      (msrs.FE /\ FixedAt(msrs, a) # {}) \/ "UC" \in VariableAt(msrs, a)
        => EptGetMemoryType(a) \in Architectural(msrs, a)

=============================================================================
