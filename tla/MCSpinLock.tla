----------------------------- MODULE MCSpinLock -----------------------------
(* Three cores and two local locks, with the register powered on at 0 as the
   constructor of trabalho3's peripheral does.                              *)
EXTENDS SpinLock

=============================================================================
