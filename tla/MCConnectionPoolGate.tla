------------------------ MODULE MCConnectionPoolGate ------------------------
(***************************************************************************)
(* Instances of ConnectionPoolGate for TLC.  Two connections and four      *)
(* tasks: two hold, two more wait or barge, so that a release can find two *)
(* waiters and a woken waiter can be overtaken by a fourth task.           *)
(***************************************************************************)
EXTENDS ConnectionPoolGate

CONSTANTS t1, t2, t3, t4
=============================================================================
