---------------------------- MODULE MCNestedLock ----------------------------
(* Three cores, two local words and the register itself.                    *)
EXTENDS NestedLock
=============================================================================
