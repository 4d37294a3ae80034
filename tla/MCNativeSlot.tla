---------------------------- MODULE MCNativeSlot ----------------------------
(***************************************************************************)
(* Instances of NativeSlot for TLC: two tasks that borrow the connection   *)
(* in turn (or share it), up to three statements.                          *)
(***************************************************************************)
EXTENDS NativeSlot

CONSTANTS t1, t2
=============================================================================
