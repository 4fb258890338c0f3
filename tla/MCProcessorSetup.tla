-------------------------- MODULE MCProcessorSetup --------------------------
(* ProcessorSetup on computers that differ in what VmInitialization and    *)
(* VmSetupVmcs look at.  The firmware locks the feature-control register   *)
(* of a processor that is added.                                           *)
EXTENDS ProcessorSetup

Usual ==
  [vmx |-> TRUE, writeBack |-> TRUE, ept |-> TRUE, lockable |-> TRUE,
   vmx_capability_hint |-> TRUE, missing |-> {}, faulting |-> {0, 3, 6},
   firmware |-> {"Lock", "EnableVmxon"}, firmwareAdded |-> {"Lock", "EnableVmxon"},
   cr |-> {"NE", "CET"}, forbidden |-> {"CET"}]

MCMachines ==
  { [Usual EXCEPT !.firmware = f, !.vmx_capability_hint = t, !.missing = x] :
      f \in SUBSET {"Lock", "EnableVmxon"}, t \in BOOLEAN,
      x \in {{}, {"EnableXsavesXstors", "EnableRdtscp", "UseTscScaling"}} }
  \union { [Usual EXCEPT !.vmx = FALSE], [Usual EXCEPT !.writeBack = FALSE],
           [Usual EXCEPT !.ept = FALSE],
           [Usual EXCEPT !.firmware = {"EnableVmxon"}, !.lockable = FALSE] }
=============================================================================
