----------------------------- MODULE MCMysqlPool -----------------------------
(***************************************************************************)
(* Instances of MysqlPool for TLC: two connections and two tasks, one that *)
(* executes up to two statements, in one lease or in two, and one that can *)
(* wait for the row it has written, or come after it.                      *)
(***************************************************************************)
EXTENDS MysqlPool, TLC

CONSTANTS t1, t2

MCMaxJobs == t1 :> 2 @@ t2 :> 1
MCInTx == t1 :> {TRUE} @@ t2 :> BOOLEAN
MCSingles == t1 :> {"write", "call"} @@ t2 :> {"call"}
MCBatches == t1 :> {<<"write", "write">>} @@ t2 :> {<<"write">>}
MCReads == t1 :> {<<"read", "read">>} @@ t2 :> {}
=============================================================================
