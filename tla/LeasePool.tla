------------------------------ MODULE LeasePool ------------------------------
(***************************************************************************)
(* What a connection pool of this package promises, whatever the driver    *)
(* and whatever the layer: a handle is lent to one user at a time, it is   *)
(* lent only while the pool is open, and only its user gives it back.      *)
(* ConnectionPoolGate (the Dart facade) and NativePool (the C free list)   *)
(* are shown to implement this module.                                     *)
(***************************************************************************)
CONSTANTS Users,   \* whoever borrows: Dart tasks, or threads calling C
          Conns,   \* the native_conn_t handles of the pool
          Nobody   \* owner of a handle that is in the pool

VARIABLES owner,   \* owner[c]: the user handle c is lent to, or Nobody
          phase    \* "new" before the handles exist, "open", "closed"

vars == <<owner, phase>>

Init == owner = [c \in Conns |-> Nobody] /\ phase = "new"

Open == phase = "new" /\ phase' = "open" /\ UNCHANGED owner

Take(u, c) ==
    /\ phase = "open"
    /\ owner[c] = Nobody
    /\ owner' = [owner EXCEPT ![c] = u]
    /\ UNCHANGED phase

(* A user may still hand back what it held when the pool was closed. *)
Give(u, c) ==
    /\ owner[c] = u
    /\ owner' = [owner EXCEPT ![c] = Nobody]
    /\ UNCHANGED phase

Close == phase \in {"new", "open"} /\ phase' = "closed" /\ UNCHANGED owner

Next == Open \/ Close \/ \E u \in Users, c \in Conns : Take(u, c) \/ Give(u, c)

Spec == Init /\ [][Next]_vars
==============================================================================
