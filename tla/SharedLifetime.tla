--------------------------- MODULE SharedLifetime ---------------------------
(***************************************************************************)
(* What the reference count of SHARED_PROCESSOR_DATA promises, without the *)
(* count: a block is allocated with nobody using it, users come, pass      *)
(* their use on and leave, and the block is freed when the last one leaves *)
(* and at no other time.  A freed block is never used again.               *)
(***************************************************************************)
CONSTANTS
  SharedIds,  \* the blocks
  Users       \* whatever may hold a pointer to a block: processors, threads

VARIABLES
  heap,   \* "none", "live" or "freed", per block
  users   \* the users of each block

Init ==
  /\ heap  = [s \in SharedIds |-> "none"]
  /\ users = [s \in SharedIds |-> {}]

Allocate(s) ==
  /\ heap[s] = "none"
  /\ heap' = [heap EXCEPT ![s] = "live"]
  /\ UNCHANGED users

Acquire(s, u) ==
  /\ heap[s] = "live"
  /\ u \notin users[s]
  /\ users' = [users EXCEPT ![s] = @ \union {u}]
  /\ UNCHANGED heap

\* u hands its use to v: a thread to the VMM it starts, a VMM to the thread
\* that stops it.
HandOver(s, u, v) ==
  /\ heap[s] = "live"
  /\ u \in users[s]
  /\ v \notin users[s]
  /\ users' = [users EXCEPT ![s] = (@ \ {u}) \union {v}]
  /\ UNCHANGED heap

Release(s, u) ==
  /\ heap[s] = "live"
  /\ u \in users[s]
  /\ users' = [users EXCEPT ![s] = @ \ {u}]
  /\ heap' = IF users[s] = {u} THEN [heap EXCEPT ![s] = "freed"] ELSE heap

Next ==
  \E s \in SharedIds :
    \/ Allocate(s)
    \/ \E u \in Users : Acquire(s, u) \/ Release(s, u)
    \/ \E u, v \in Users : HandOver(s, u, v)

Spec == Init /\ [][Next]_<<heap, users>>
=============================================================================
