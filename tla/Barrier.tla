------------------------------- MODULE Barrier -------------------------------
(***************************************************************************)
(* What a chain of counting barriers promises the guests: nobody passes    *)
(* the k-th barrier before everybody has arrived at it.                    *)
(***************************************************************************)
EXTENDS Naturals

CONSTANTS
  Procs,      \* the cores
  Barriers    \* how many barriers the program has, one after the other

VARIABLES
  arrived,    \* barriers a core has counted itself into
  passed      \* barriers a core has gone through

barrierVars == <<arrived, passed>>

BarrierInit ==
  /\ arrived = [p \in Procs |-> 0]
  /\ passed = [p \in Procs |-> 0]

\* AcquireLock; barrierN++; ReleaseLock.
Arrive(p) ==
  /\ arrived[p] = passed[p]
  /\ arrived[p] < Barriers
  /\ arrived' = [arrived EXCEPT ![p] = @ + 1]
  /\ UNCHANGED passed

\* while (barrierN != numberOfProc);
Pass(p) ==
  /\ arrived[p] = passed[p] + 1
  /\ \A q \in Procs : arrived[q] >= arrived[p]
  /\ passed' = [passed EXCEPT ![p] = @ + 1]
  /\ UNCHANGED arrived

BarrierNext == \E p \in Procs : Arrive(p) \/ Pass(p)

BarrierSpec == BarrierInit /\ [][BarrierNext]_barrierVars

\* Types: a core is between two barriers or waiting in one.
BarrierTypeOK ==
  /\ arrived \in [Procs -> Nat]
  /\ passed \in [Procs -> Nat]
  /\ \A p \in Procs : passed[p] <= arrived[p] /\ arrived[p] <= passed[p] + 1

\* Two cores are never more than one phase apart, so data written in one
\* phase and read in the next is never read early or overwritten late.
Lockstep == \A p, q \in Procs : passed[p] <= arrived[q] /\ passed[p] <= passed[q] + 1
=============================================================================
