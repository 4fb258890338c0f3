---------------------------- MODULE MCEptTables ----------------------------
(***************************************************************************)
(* EptTables on tables of two entries: sixteen pages, two runs of RAM that *)
(* share some tables, device pages beside them and far from them, and      *)
(* fewer pre-allocated entries than all device pages need.                 *)
(***************************************************************************)
EXTENDS EptTables

MCRuns == <<[base |-> 0, count |-> 3], [base |-> 6, count |-> 2]>>
=============================================================================
