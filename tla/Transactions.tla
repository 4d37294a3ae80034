----------------------------- MODULE Transactions -----------------------------
(***************************************************************************)
(* What withTransaction promises its callers: "Returns the value produced  *)
(* by [body] after a successful commit.  Rolls back and rethrows on        *)
(* exception."  A task's writes become durable all at once or not at all,  *)
(* and a task that returns normally has them durable.                      *)
(***************************************************************************)
CONSTANTS Tasks, WritesOf(_)

VARIABLES wants,    \* per task: writes of the statements not known to have failed
          stored,   \* the durable writes
          outcome   \* per task: "open", "returned", "threw" or "inDoubt"

vars == <<wants, stored, outcome>>

Init ==
    /\ wants = [t \in Tasks |-> {}]
    /\ stored = {}
    /\ outcome = [t \in Tasks |-> "open"]

Undecided(t) == outcome[t] = "open" /\ wants[t] \cap stored = {}

Work(t) ==
    /\ Undecided(t)
    /\ \E W \in SUBSET WritesOf(t) : wants' = [wants EXCEPT ![t] = W]
    /\ UNCHANGED <<stored, outcome>>

Store(t) ==
    /\ Undecided(t)
    /\ stored' = stored \cup wants[t]
    /\ UNCHANGED <<wants, outcome>>

Return(t) ==
    /\ outcome[t] = "open"
    /\ wants[t] \subseteq stored
    /\ outcome' = [outcome EXCEPT ![t] = "returned"]
    /\ UNCHANGED <<wants, stored>>

(* The body threw: rolled back. *)
Throw(t) ==
    /\ Undecided(t)
    /\ outcome' = [outcome EXCEPT ![t] = "threw"]
    /\ UNCHANGED <<wants, stored>>

(* The commit threw: a lost connection may hide that it was done. *)
CommitThrows(t) ==
    /\ outcome[t] = "open"
    /\ outcome' = [outcome EXCEPT ![t] = "inDoubt"]
    /\ UNCHANGED <<wants, stored>>

Next == \E t \in Tasks : Work(t) \/ Store(t) \/ Return(t) \/ Throw(t) \/ CommitThrows(t)

Spec == Init /\ [][Next]_vars
===============================================================================
