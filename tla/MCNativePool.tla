---------------------------- MODULE MCNativePool ----------------------------
(***************************************************************************)
(* Instances of NativePool for TLC: two connections and three callers, so  *)
(* that one can be blocked, woken and overtaken by another.                *)
(***************************************************************************)
EXTENDS NativePool

CONSTANTS t1, t2, t3
=============================================================================
