---------------------------- MODULE IdentityMap ----------------------------
(***************************************************************************)
(* What a processor's EPT promises its guest: either there is no map, or   *)
(* RAM and the APIC page are mapped, and other pages follow, one at a      *)
(* time, as the guest touches them.  A page is only ever mapped to itself  *)
(* and stays mapped until the whole map goes.  Whoever touches a page that *)
(* is not in the map finds it there later, or the machine stopped.         *)
(***************************************************************************)
CONSTANTS
  Pages,  \* guest-physical pages
  Boot    \* RAM and the APIC page

VARIABLES
  state,   \* "absent", "present" or "stopped"
  map,     \* pairs of a guest-physical page and the page it is mapped to
  touched  \* the page whose access is being handled, a set of at most one

Identity(S) == {<<p, p>> : p \in S}

Init ==
  /\ state   = "absent"
  /\ map     = {}
  /\ touched = {}

Build ==
  /\ state = "absent"
  /\ state' = "present"
  /\ map'   = Identity(Boot)
  /\ UNCHANGED touched

Touch(p) ==
  /\ state = "present"
  /\ touched = {}
  /\ <<p, p>> \notin map
  /\ touched' = {p}
  /\ UNCHANGED <<state, map>>

Extend ==
  /\ state = "present"
  /\ touched # {}
  /\ map'     = map \union Identity(touched)
  /\ touched' = {}
  /\ UNCHANGED state

Stop ==
  /\ state = "present"
  /\ touched # {}
  /\ state' = "stopped"
  /\ UNCHANGED <<map, touched>>

Drop ==
  /\ state = "present"
  /\ touched = {}
  /\ state' = "absent"
  /\ map'   = {}
  /\ UNCHANGED touched

Next == Build \/ Extend \/ Stop \/ Drop \/ \E p \in Pages : Touch(p)

Handled == Extend \/ Stop

\* The part of Spec that is about what may happen.
Safety == Init /\ [][Next]_<<state, map, touched>>

Spec == Safety /\ WF_<<state, map, touched>>(Handled)
=============================================================================
