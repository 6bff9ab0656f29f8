---------------------------- MODULE BarrierProofs ----------------------------
(* The barrier chain keeps any number of cores in lockstep.                 *)
EXTENDS Barrier, TLAPS

\* Lockstep alone is not inductive: that nobody is two phases ahead needs that
\* a core counts itself into one barrier at a time, which BarrierTypeOK says.
BarrierInv == BarrierTypeOK /\ Lockstep

LEMMA BarrierInvInit == BarrierInit => BarrierInv
  BY DEF BarrierInit, BarrierInv, BarrierTypeOK, Lockstep

LEMMA ArriveKeeps ==
  ASSUME BarrierInv, NEW p \in Procs, Arrive(p)
  PROVE  BarrierInv'
  BY DEF BarrierInv, BarrierTypeOK, Lockstep, Arrive

LEMMA PassKeeps ==
  ASSUME BarrierInv, NEW p \in Procs, Pass(p)
  PROVE  BarrierInv'
<1>1. BarrierTypeOK'
  BY DEF BarrierInv, BarrierTypeOK, Pass
<1>2. ASSUME NEW q \in Procs PROVE passed'[p] <= arrived'[q]
  BY <1>2 DEF BarrierInv, BarrierTypeOK, Pass
<1>3. Lockstep'
  BY <1>1, <1>2 DEF BarrierInv, BarrierTypeOK, Lockstep, Pass
<1> QED
  BY <1>1, <1>3 DEF BarrierInv

\* A core that has passed a barrier has been preceded into it by every other,
\* and no core runs two phases ahead of another.
THEOREM BarrierLockstep == BarrierSpec => [](BarrierTypeOK /\ Lockstep)
<1>1. BarrierInit => BarrierInv
  BY BarrierInvInit
<1>2. BarrierInv /\ [BarrierNext]_barrierVars => BarrierInv'
  <2> SUFFICES ASSUME BarrierInv, [BarrierNext]_barrierVars PROVE BarrierInv'
    OBVIOUS
  <2>1. CASE BarrierNext
    BY <2>1, ArriveKeeps, PassKeeps DEF BarrierNext
  <2>2. CASE UNCHANGED barrierVars
    BY <2>2 DEF barrierVars, BarrierInv, BarrierTypeOK, Lockstep
  <2> QED
    BY <2>1, <2>2
<1>3. BarrierInv => BarrierTypeOK /\ Lockstep
  BY DEF BarrierInv
<1> QED
  BY <1>1, <1>2, <1>3, PTL DEF BarrierSpec
=============================================================================
