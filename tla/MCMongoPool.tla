------------------------------ MODULE MCMongoPool ------------------------------
(***************************************************************************)
(* Instances of MongoPool for TLC: two tasks on two connections, one that  *)
(* reads and inserts in bulk, so that a chain can be left between the two, *)
(* in one lease or two, and one with the single operations.                *)
(***************************************************************************)
EXTENDS MongoPool, TLC

CONSTANTS t1, t2

MCMaxJobs == t1 :> 3 @@ t2 :> 1
MCOps == t1 :> {"find", "insert_many", "update_one"} @@ t2 :> {"command", "find"}
================================================================================
