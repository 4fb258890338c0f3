--------------------------- MODULE PerfCollector ---------------------------
(***************************************************************************)
(* The performance collector (PerfCounter.h as Performance.cpp sets it     *)
(* up): a table of entries, one per measured location, that every          *)
(* processor adds to in VMX root operation.  The lock routines are the     *)
(* default ones, which do nothing, so processors interleave at every read  *)
(* and write of the table.                                                 *)
(*                                                                         *)
(* The module has the state and the steps of the collector; who creates    *)
(* it, who measures and who frees it is in DriverServices.                 *)
(***************************************************************************)
EXTENDS Integers, FiniteSets

CONSTANTS
  Processors,   \* The logical processors.
  Locations,    \* The measured scopes: the addresses of their name strings.
  Null,         \* A null pointer.
  MaxEntries,   \* MaxNumberOfDataEntries
  MaxMeasures   \* Bound: the measurements each processor may make.

ASSUME NullAssumption == Null \notin Locations \union Processors
ASSUME ProcessorsAssumption == IsFiniteSet(Processors)
ASSUME LocationsAssumption == IsFiniteSet(Locations)
ASSUME EntriesAssumption == MaxEntries \in Nat \ {0}
ASSUME MeasuresAssumption == MaxMeasures \in [Processors -> Nat]

Entries == 1 .. MaxEntries

VARIABLES
  collector,  \* whether g_PerformanceCollector points to a collector
  key,        \* per entry: Key
  time,       \* per entry: TotalElapsedTime, a measured scope taking one unit
  count,      \* per entry: TotalExecutionCount
  at,         \* per processor: control point in AddData
  scope,      \* per processor: the location being measured
  index,      \* per processor: i, then DataIndex
  read,       \* per processor: the value read by an increment
  writer,     \* history: per entry, the processor that wrote Key last
  measured,   \* history: per processor, the measurements made so far
  added,      \* history: per location, the times AddData returned true
  alone       \* history: no two processors were ever in AddData at a time

table   == <<key, time, count>>
calls   == <<at, scope, index, read>>
history == <<writer, measured, added, alone>>
perf    == <<collector, table, calls, history>>

Goto(p, label) == at' = [at EXCEPT ![p] = label]

\* AddData returns: its local variables are gone.
Leave(p) ==
  /\ Goto(p, "out")
  /\ scope' = [scope EXCEPT ![p] = Null]
  /\ index' = [index EXCEPT ![p] = 1]
  /\ read' = [read EXCEPT ![p] = 0]

\* The control points between entering AddData and leaving it.
AddDataLabels == {"match", "empty", "claim", "time", "timeWrite", "count", "countWrite"}

InAddData(p) == at[p] \in AddDataLabels

NoKeys == [i \in Entries |-> Null]
Zeros  == [i \in Entries |-> 0]

\* PERF_COLLECTOR::Initialize
Initialize == key' = NoKeys /\ time' = Zeros /\ count' = Zeros

PerfInit ==
  /\ collector = FALSE
  /\ key = NoKeys /\ time = Zeros /\ count = Zeros
  /\ at = [p \in Processors |-> "out"]
  /\ scope = [p \in Processors |-> Null]
  /\ index = [p \in Processors |-> 1]
  /\ read = [p \in Processors |-> 0]
  /\ writer = NoKeys
  /\ measured = [p \in Processors |-> 0]
  /\ added = [l \in Locations |-> 0]
  /\ alone = TRUE

-----------------------------------------------------------------------------
(* PERF_COUNTER                                                            *)

\* The constructor at the head of a measured scope takes the collector pointer.
Measure(p, l) ==
  /\ at[p] = "out"
  /\ measured[p] < MaxMeasures[p]
  /\ measured' = [measured EXCEPT ![p] = @ + 1]
  /\ scope' = [scope EXCEPT ![p] = l]
  /\ Goto(p, "scope")
  /\ UNCHANGED <<collector, table, index, read, writer, added, alone>>

\* The destructor at the end of the scope calls AddData.
EnterAddData(p) ==
  /\ at[p] = "scope"
  /\ alone' = (alone /\ \A q \in Processors : ~InAddData(q))
  /\ index' = [index EXCEPT ![p] = 1]
  /\ Goto(p, "match")
  /\ UNCHANGED <<collector, table, scope, read, writer, measured, added>>

-----------------------------------------------------------------------------
(* GetPerfDataIndex.  An iteration reads Key twice.                        *)

\* Mutant: a key is never recognized.
MatchNothing(p) ==
  /\ at[p] = "match"
  /\ Goto(p, "empty")
  /\ UNCHANGED <<collector, table, scope, index, read, history>>

MatchKey(p) ==
  /\ at[p] = "match"
  /\ Goto(p, IF key[index[p]] = scope[p] THEN "time" ELSE "empty")
  /\ UNCHANGED <<collector, table, scope, index, read, history>>

\* Mutant: the entry behind the empty one is claimed.
TestEmptyOffByOne(p) ==
  /\ at[p] = "empty"
  /\ key[index[p]] = Null => index[p] < MaxEntries
  /\ \/ /\ index[p] < MaxEntries
        /\ index' = [index EXCEPT ![p] = @ + 1]
        /\ Goto(p, IF key[index[p]] = Null THEN "claim" ELSE "match")
        /\ UNCHANGED <<scope, read>>
     \/ /\ index[p] = MaxEntries
        /\ Leave(p)
  /\ UNCHANGED <<collector, table, history>>

TestEmpty(p) ==
  /\ at[p] = "empty"
  /\ \/ /\ key[index[p]] = Null
        /\ Goto(p, "claim")
        /\ UNCHANGED <<scope, index, read>>
     \/ /\ key[index[p]] # Null
        /\ index[p] < MaxEntries
        /\ index' = [index EXCEPT ![p] = @ + 1]
        /\ Goto(p, "match")
        /\ UNCHANGED <<scope, read>>
     \/ /\ key[index[p]] # Null
        /\ index[p] = MaxEntries      \* InvalidDataIndex: AddData returns false
        /\ Leave(p)
  /\ UNCHANGED <<collector, table, history>>

ClaimEntry(p) ==
  /\ at[p] = "claim"
  /\ key' = [key EXCEPT ![index[p]] = scope[p]]
  /\ writer' = [writer EXCEPT ![index[p]] = p]
  /\ Goto(p, "time")
  /\ UNCHANGED <<collector, time, count, scope, index, read, measured, added, alone>>

-----------------------------------------------------------------------------
(* AddData adds to both totals; each addition is a read and a write.       *)

ReadTime(p) ==
  /\ at[p] = "time"
  /\ read' = [read EXCEPT ![p] = time[index[p]]]
  /\ Goto(p, "timeWrite")
  /\ UNCHANGED <<collector, table, scope, index, history>>

WriteTime(p) ==
  /\ at[p] = "timeWrite"
  /\ time' = [time EXCEPT ![index[p]] = read[p] + 1]
  /\ Goto(p, "count")
  /\ UNCHANGED <<collector, key, count, scope, index, read, history>>

ReadCount(p) ==
  /\ at[p] = "count"
  /\ read' = [read EXCEPT ![p] = count[index[p]]]
  /\ Goto(p, "countWrite")
  /\ UNCHANGED <<collector, table, scope, index, history>>

\* Mutant: the count is raised by the value of both reads.
WriteCountStale(p) ==
  /\ at[p] = "countWrite"
  /\ count' = [count EXCEPT ![index[p]] = @ + read[p] + 1]
  /\ added' = [added EXCEPT ![scope[p]] = @ + 1]
  /\ Leave(p)
  /\ UNCHANGED <<collector, key, time, writer, measured, alone>>

WriteCount(p) ==
  /\ at[p] = "countWrite"
  /\ count' = [count EXCEPT ![index[p]] = read[p] + 1]
  /\ added' = [added EXCEPT ![scope[p]] = @ + 1]
  /\ Leave(p)
  /\ UNCHANGED <<collector, key, time, writer, measured, alone>>

AddDataStep(p) ==
  \/ MatchKey(p) \/ TestEmpty(p) \/ ClaimEntry(p)
  \/ ReadTime(p) \/ WriteTime(p) \/ ReadCount(p) \/ WriteCount(p)

-----------------------------------------------------------------------------
(* Terminate goes through the entries up to the first one without a key.   *)

Reported == {i \in Entries : \A j \in 1 .. i : key[j] # Null}
============================================================================
