-------------------------- MODULE MCDriverServices --------------------------
(* DriverServices with memories of at most two ranges.  Two of the three   *)
(* processors measure.                                                     *)
EXTENDS DriverServices, TLC

MCMemories ==
  { <<>>,
    << [base |-> 0, bytes |-> 3] >>,
    << [base |-> 2, bytes |-> 4], [base |-> 8, bytes |-> 1] >> }

MCMaxMeasures == [p \in Processors |-> IF p = 0 THEN 2 ELSE IF p = 2 THEN 1 ELSE 0]

Symmetric == Permutations(Locations)
=============================================================================
