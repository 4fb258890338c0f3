----------------------------- MODULE MCEptMtrr -----------------------------
(***************************************************************************)
(* EptMtrr on thirty-two pages: the fixed ranges cover the first eight,    *)
(* in pieces of 2, 1 and 1 pages; two or three variable ranges overlap     *)
(* each other and the fixed ones.                                          *)
(***************************************************************************)
EXTENDS EptMtrr

MCFixedMsrs == <<[base |-> 0, size |-> 2, count |-> 2],
                 [base |-> 4, size |-> 1, count |-> 2],
                 [base |-> 6, size |-> 1, count |-> 2]>>

Ranges == {[base |-> 0, size |-> 16], [base |-> 8, size |-> 8], [base |-> 16, size |-> 16]}

Unused == [valid |-> FALSE, base |-> 0, size |-> 1, type |-> "UC"]

VariableRanges(types) ==
  {[valid |-> TRUE, base |-> r.base, size |-> r.size, type |-> t] : r \in Ranges, t \in types}
    \union {Unused}

FixedTypes == {<<"WB", "WB", "UC", "UC", "WP", "UC">>}

AllRegisters(ranges, flags) ==
  [E : flags, FE : BOOLEAN, default : {"UC", "WB"}, fixed : FixedTypes, variable : ranges]

\* Every combination of three ranges of any type, with MTRRs on.
MCRegisters == AllRegisters([1 .. 3 -> VariableRanges(MemoryTypes)], {TRUE})

\* Later at most one range is valid.
MCRewritten ==
  AllRegisters({<<v, Unused, Unused>> : v \in VariableRanges({"UC", "WT", "WB"})}, {TRUE})
=============================================================================
