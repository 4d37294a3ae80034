----------------------------- MODULE MCSqlitePool -----------------------------
(***************************************************************************)
(* Instances of SqlitePool for TLC: two connections and two tasks, one in  *)
(* transactions, one also without, whose statements wait for one another's *)
(* writes, and one executeSync that can meet an answer on its way.         *)
(***************************************************************************)
EXTENDS SqlitePool, TLC

CONSTANTS t1, t2

MCMaxJobs == t1 :> 3 @@ t2 :> 2
MCInTx == t1 :> {TRUE} @@ t2 :> BOOLEAN
MCSingles == t1 :> {"write"} @@ t2 :> {"write"}
MCBatches == t1 :> {<<"write", "write">>} @@ t2 :> {}
MCReads == t1 :> {} @@ t2 :> {<<"read", "read">>}
MCSyncs == t1 :> {"write"} @@ t2 :> {}
MCNoSyncs == t1 :> {} @@ t2 :> {}
===============================================================================
