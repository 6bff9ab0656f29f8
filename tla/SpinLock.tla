------------------------------ MODULE SpinLock ------------------------------
(***************************************************************************)
(* The two-level lock of the multicore guests (AcquireGlobalLock,          *)
(* AcquireLock, ReleaseLock, ReleaseGlobalLock) over the lock peripheral,  *)
(* a memory-mapped register whose read returns the last value written and  *)
(* leaves 1 behind.  One action is one memory access of one core: the      *)
(* SystemC kernel switches cores between bus transactions, never inside    *)
(* one.                                                                    *)
(***************************************************************************)
EXTENDS Naturals

CONSTANTS
  Procs,    \* the cores, one guest thread each
  Locks,    \* the addresses passed to AcquireLock
  NoLock,   \* what a core that is in no acquire wants
  PowerOn   \* values ultimo_valor_escrito may hold before the first access

ASSUME NoLockAssumption == NoLock \notin Locks
ASSUME PowerOnAssumption == PowerOn \subseteq {0, 1}

VARIABLES
  reg,      \* ultimo_valor_escrito: 0, or 1 for every other value
  word,     \* the local lock words
  at,       \* which line of the lock code a core is about to execute
  want      \* the local_lock argument of a core inside the lock code

lockVars == <<reg, word, at, want>>

(* Program points of a core:
     out    not in the lock code
     spin   looping on the register
     test   owns the register, about to read *local_lock
     retry  read 1: about to release the register and start over
     set    read 0: about to write *local_lock = 1
     give   wrote 1: about to release the register and return
     in     AcquireLock has returned, ReleaseLock not yet executed          *)
Points == {"out", "spin", "test", "retry", "set", "give", "in"}

LockInit ==
  /\ reg \in PowerOn
  /\ word = [l \in Locks |-> 0]
  /\ at = [p \in Procs |-> "out"]
  /\ want = [p \in Procs |-> NoLock]

Goto(p, from, to) ==
  /\ at[p] = from
  /\ at' = [at EXCEPT ![p] = to]

\* AcquireLock(l) is called.
Call(p, l) ==
  /\ Goto(p, "out", "spin")
  /\ want' = [want EXCEPT ![p] = l]
  /\ UNCHANGED <<reg, word>>

\* Mutant: a peripheral that answers reads without leaving 1 behind.
ReadRegisterOnly(p) ==
  /\ at[p] = "spin"
  /\ at' = IF reg = 0 THEN [at EXCEPT ![p] = "test"] ELSE at
  /\ UNCHANGED <<reg, word, want>>

\* One read of the register: it returns the value and sets it to 1.  A read
\* that returns nonzero leaves the core in the loop.
ReadRegister(p) ==
  /\ at[p] = "spin"
  /\ reg' = 1
  /\ at' = IF reg = 0 THEN [at EXCEPT ![p] = "test"] ELSE at
  /\ UNCHANGED <<word, want>>

\* Mutant: the word is set without having been tested.
SkipTest(p) ==
  /\ Goto(p, "test", "set")
  /\ UNCHANGED <<reg, word, want>>

\* if (*local_lock) ... else ...: which branch the core takes.
TestLocal(p) ==
  /\ Goto(p, "test", IF word[want[p]] = 0 THEN "set" ELSE "retry")
  /\ UNCHANGED <<reg, word, want>>

\* Mutant: the register is forgotten before starting over.
StartOver(p) ==
  /\ Goto(p, "retry", "spin")
  /\ UNCHANGED <<reg, word, want>>

\* ReleaseGlobalLock() of the branch that found the word taken.
GiveBack(p) ==
  /\ Goto(p, "retry", "spin")
  /\ reg' = 0
  /\ UNCHANGED <<word, want>>

SetLocal(p) ==
  /\ Goto(p, "set", "give")
  /\ word' = [word EXCEPT ![want[p]] = 1]
  /\ UNCHANGED <<reg, want>>

\* ReleaseGlobalLock(); break: AcquireLock returns.
Return(p) ==
  /\ Goto(p, "give", "in")
  /\ reg' = 0
  /\ UNCHANGED <<word, want>>

\* ReleaseLock(l): a plain store, without the global lock.
ReleaseLock(p) ==
  /\ Goto(p, "in", "out")
  /\ word' = [word EXCEPT ![want[p]] = 0]
  /\ want' = [want EXCEPT ![p] = NoLock]
  /\ UNCHANGED reg

\* The accesses inside AcquireLock, between its call and its return.
AcquireStep(p) ==
  \/ ReadRegister(p)
  \/ TestLocal(p)
  \/ GiveBack(p)
  \/ SetLocal(p)
  \/ Return(p)

LockNext ==
  \E p \in Procs :
    \/ \E l \in Locks : Call(p, l)
    \/ AcquireStep(p)
    \/ ReleaseLock(p)

LockSpec == LockInit /\ [][LockNext]_lockVars

\* A core never stops in the middle of the lock code or of a critical
\* section; it is free never to call AcquireLock.
FairLockSpec ==
  /\ LockSpec
  /\ \A p \in Procs : WF_lockVars(AcquireStep(p) \/ ReleaseLock(p))

-----------------------------------------------------------------------------
OwnsRegister(p) == at[p] \in {"test", "retry", "set", "give"}
Owns(p, l) == at[p] \in {"give", "in"} /\ want[p] = l

\* Types: the register and the words are 0/1, and a core wants a lock exactly
\* while it is in the lock code or in a critical section.
LockTypeOK ==
  /\ reg \in {0, 1}
  /\ word \in [Locks -> {0, 1}]
  /\ at \in [Procs -> Points]
  /\ want \in [Procs -> Locks \cup {NoLock}]
  /\ \A p \in Procs : at[p] = "out" <=> want[p] = NoLock

\* Two cores never both hold the hardware lock (the test-and-set read of
\* readm lets one through per ReleaseGlobalLock).
RegisterMutex ==
  \A p, q \in Procs : OwnsRegister(p) /\ OwnsRegister(q) => p = q

\* Two cores never both hold the same local lock, although ReleaseLock clears
\* the word without holding the hardware lock.
MutualExclusion ==
  \A p, q \in Procs : \A l \in Locks : Owns(p, l) /\ Owns(q, l) => p = q

\* The local word never says free while a core is in the critical section,
\* and a core about to set it never overwrites another core's ownership.
WordTellsOwner ==
  \A p \in Procs :
    /\ at[p] \in {"give", "in"} => word[want[p]] = 1
    /\ at[p] = "set" => word[want[p]] = 0

\* The hardware lock reads 0 only while nobody holds it.
RegisterTellsOwner == reg = 0 => \A p \in Procs : ~OwnsRegister(p)

\* Inductive invariant.
LockInv ==
  /\ LockTypeOK
  /\ RegisterTellsOwner
  /\ RegisterMutex
  /\ WordTellsOwner
  /\ MutualExclusion

\* As long as some core is trying to acquire a lock, some core is or gets
\* into a critical section (no global standstill; one core may be overtaken
\* for ever by others that keep acquiring, which the code does not prevent).
SomebodyEnters ==
  (\E p \in Procs : at[p] \notin {"out", "in"}) ~> (\E p \in Procs : at[p] = "in")

-----------------------------------------------------------------------------
\* The promise to the callers: AcquireLock and ReleaseLock behave as atomic
\* operations on locks with an owner.
AbstractPoint(b) ==
  IF b = "out" THEN "out" ELSE IF b \in {"give", "in"} THEN "in" ELSE "waiting"

Abstract == INSTANCE Mutex WITH
  phase <- [p \in Procs |-> AbstractPoint(at[p])],
  lockOf <- want

ImplementsMutex == Abstract!MutexSpec
=============================================================================
