-------------------------------- MODULE Mutex --------------------------------
(***************************************************************************)
(* What AcquireLock and ReleaseLock promise their callers: a set of locks, *)
(* each held by at most one core, taken and given back in one step.        *)
(***************************************************************************)
CONSTANTS Procs, Locks, NoLock

VARIABLES
  phase,    \* out, waiting or in, per core
  lockOf    \* the lock a core waits for or holds

mutexVars == <<phase, lockOf>>

MutexInit ==
  /\ phase = [p \in Procs |-> "out"]
  /\ lockOf = [p \in Procs |-> NoLock]

Holds(p, l) == phase[p] = "in" /\ lockOf[p] = l

Request(p, l) ==
  /\ phase[p] = "out"
  /\ phase' = [phase EXCEPT ![p] = "waiting"]
  /\ lockOf' = [lockOf EXCEPT ![p] = l]

Acquire(p) ==
  /\ phase[p] = "waiting"
  /\ \A q \in Procs : ~Holds(q, lockOf[p])
  /\ phase' = [phase EXCEPT ![p] = "in"]
  /\ UNCHANGED lockOf

Release(p) ==
  /\ phase[p] = "in"
  /\ phase' = [phase EXCEPT ![p] = "out"]
  /\ lockOf' = [lockOf EXCEPT ![p] = NoLock]

MutexNext ==
  \E p \in Procs :
    \/ \E l \in Locks : Request(p, l)
    \/ Acquire(p)
    \/ Release(p)

MutexSpec == MutexInit /\ [][MutexNext]_mutexVars
=============================================================================
