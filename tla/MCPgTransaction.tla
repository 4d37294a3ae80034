--------------------------- MODULE MCPgTransaction ---------------------------
(***************************************************************************)
(* Instances of PgTransaction for TLC: two tasks that use one connection   *)
(* in turn, in four applications.                                          *)
(***************************************************************************)
EXTENDS PgTransaction, TLC

CONSTANTS t1, t2, u1, u2, c1

OwnUnitOfWork == t1 :> u1 @@ t2 :> u2
SharedUnit == t1 :> u1 @@ t2 :> u1

(* Every kind of statement, lost connections. *)
Documented == [unitOf |-> OwnUnitOfWork,
               kinds |-> {"simple", "extended", "pipeline", "batch"},
               mayFail |-> {"simple", "extended", "end"},
               swallow |-> FALSE, overlap |-> FALSE, losses |-> TRUE]

(* One unit of work for both tasks, statements started without awaiting     *)
(* them, exceptions caught.                                                 *)
Careless == [unitOf |-> SharedUnit, kinds |-> {"simple"},
             mayFail |-> {"simple", "end"},
             swallow |-> TRUE, overlap |-> TRUE, losses |-> FALSE]

(* The same with a unit of work each. *)
Sloppy == [Careless EXCEPT !.unitOf = OwnUnitOfWork]

FailingPipeline == [unitOf |-> OwnUnitOfWork, kinds |-> {"simple", "pipeline"},
                    mayFail |-> {"pipeline"},
                    swallow |-> FALSE, overlap |-> FALSE, losses |-> FALSE]

AllUses == {Documented, Careless, Sloppy}
PipelineUse == {FailingPipeline}
===============================================================================
