--------------------------- MODULE SpinLockProofs ---------------------------
(***************************************************************************)
(* Mutual exclusion of the two-level lock, and the refinement of the       *)
(* abstract lock, for every number of cores and locks.                     *)
(***************************************************************************)
EXTENDS SpinLock, TLAPS

\* Every clause of the inductive invariant holds initially, whatever the
\* register holds when the platform powers on.
LEMMA LockInvInit == LockInit => LockInv
<1> SUFFICES ASSUME LockInit PROVE LockInv
  OBVIOUS
<1>1. LockTypeOK
  BY PowerOnAssumption DEF LockInit, LockTypeOK, Points
<1>2. RegisterTellsOwner /\ RegisterMutex /\ WordTellsOwner /\ MutualExclusion
  BY DEF LockInit, RegisterTellsOwner, RegisterMutex, WordTellsOwner,
         MutualExclusion, OwnsRegister, Owns
<1> QED
  BY <1>1, <1>2 DEF LockInv

\* Calling AcquireLock starts an acquire and takes nothing.
LEMMA CallKeeps ==
  ASSUME LockInv, NEW p \in Procs, NEW l \in Locks, Call(p, l)
  PROVE  LockInv'
<1> USE NoLockAssumption DEF LockInv, LockTypeOK, Points, Call, Goto
<1>1. LockTypeOK'
  OBVIOUS
<1>2. RegisterTellsOwner'
  BY DEF RegisterTellsOwner, OwnsRegister
<1>3. RegisterMutex'
  BY DEF RegisterMutex, OwnsRegister
<1>4. WordTellsOwner'
  BY DEF WordTellsOwner
<1>5. MutualExclusion'
  BY DEF MutualExclusion, Owns
<1> QED
  BY <1>1, <1>2, <1>3, <1>4, <1>5

\* A read of the register lets a core through only when it read 0, when
\* nobody owns the register.
LEMMA ReadRegisterKeeps ==
  ASSUME LockInv, NEW p \in Procs, ReadRegister(p)
  PROVE  LockInv'
<1> USE DEF LockInv, LockTypeOK, Points, ReadRegister
<1>1. LockTypeOK'
  OBVIOUS
<1>2. RegisterTellsOwner'
  BY DEF RegisterTellsOwner
<1>3. RegisterMutex'
  BY DEF RegisterMutex, RegisterTellsOwner, OwnsRegister
<1>4. WordTellsOwner'
  BY DEF WordTellsOwner
<1>5. MutualExclusion'
  BY DEF MutualExclusion, Owns
<1> QED
  BY <1>1, <1>2, <1>3, <1>4, <1>5

\* Reading the local word decides between setting it and starting over.
LEMMA TestLocalKeeps ==
  ASSUME LockInv, NEW p \in Procs, TestLocal(p)
  PROVE  LockInv'
<1> USE DEF LockInv, LockTypeOK, Points, TestLocal, Goto
<1>1. LockTypeOK'
  OBVIOUS
<1>2. RegisterTellsOwner'
  BY DEF RegisterTellsOwner, OwnsRegister
<1>3. RegisterMutex'
  BY DEF RegisterMutex, OwnsRegister
<1>4. WordTellsOwner'
  BY DEF WordTellsOwner
<1>5. MutualExclusion'
  BY DEF MutualExclusion, Owns
<1> QED
  BY <1>1, <1>2, <1>3, <1>4, <1>5

\* A core that found the word taken frees the register it owns.
LEMMA GiveBackKeeps ==
  ASSUME LockInv, NEW p \in Procs, GiveBack(p)
  PROVE  LockInv'
<1> USE DEF LockInv, LockTypeOK, Points, GiveBack, Goto
<1>1. LockTypeOK'
  OBVIOUS
<1>2. RegisterTellsOwner'
  BY DEF RegisterTellsOwner, RegisterMutex, OwnsRegister
<1>3. RegisterMutex'
  BY DEF RegisterMutex, OwnsRegister
<1>4. WordTellsOwner'
  BY DEF WordTellsOwner
<1>5. MutualExclusion'
  BY DEF MutualExclusion, Owns
<1> QED
  BY <1>1, <1>2, <1>3, <1>4, <1>5

\* The core that sets the word found it 0 and still owns the register, so
\* nobody owns the lock.
LEMMA SetLocalKeeps ==
  ASSUME LockInv, NEW p \in Procs, SetLocal(p)
  PROVE  LockInv'
<1> USE DEF LockInv, LockTypeOK, Points, SetLocal, Goto
<1>1. LockTypeOK'
  OBVIOUS
<1>2. RegisterTellsOwner'
  BY DEF RegisterTellsOwner, OwnsRegister
<1>3. RegisterMutex'
  BY DEF RegisterMutex, OwnsRegister
<1>4. WordTellsOwner'
  <2> SUFFICES ASSUME NEW q \in Procs
               PROVE  /\ at'[q] \in {"give", "in"} => word'[want'[q]] = 1
                      /\ at'[q] = "set" => word'[want'[q]] = 0
    BY DEF WordTellsOwner
  <2>1. want[p] \in Locks
    BY NoLockAssumption
  <2>2. CASE q = p
    BY <2>1, <2>2
  <2>3. CASE q # p
    BY <2>1, <2>3 DEF WordTellsOwner, RegisterMutex, OwnsRegister
  <2> QED
    BY <2>2, <2>3
<1>5. MutualExclusion'
  BY DEF MutualExclusion, Owns, WordTellsOwner
<1> QED
  BY <1>1, <1>2, <1>3, <1>4, <1>5

\* AcquireLock returns: the register is freed, the local lock is kept.
LEMMA ReturnKeeps ==
  ASSUME LockInv, NEW p \in Procs, Return(p)
  PROVE  LockInv'
<1> USE DEF LockInv, LockTypeOK, Points, Return, Goto
<1>1. LockTypeOK'
  OBVIOUS
<1>2. RegisterTellsOwner'
  BY DEF RegisterTellsOwner, RegisterMutex, OwnsRegister
<1>3. RegisterMutex'
  BY DEF RegisterMutex, OwnsRegister
<1>4. WordTellsOwner'
  BY DEF WordTellsOwner
<1>5. MutualExclusion'
  BY DEF MutualExclusion, Owns
<1> QED
  BY <1>1, <1>2, <1>3, <1>4, <1>5

\* Clearing the word without the register is safe: nobody else owns that
\* word, and a core about to set a word still finds it 0.
LEMMA ReleaseLockKeeps ==
  ASSUME LockInv, NEW p \in Procs, ReleaseLock(p)
  PROVE  LockInv'
<1> USE NoLockAssumption DEF LockInv, LockTypeOK, Points, ReleaseLock, Goto
<1>1. LockTypeOK'
  OBVIOUS
<1>2. RegisterTellsOwner'
  BY DEF RegisterTellsOwner, OwnsRegister
<1>3. RegisterMutex'
  BY DEF RegisterMutex, OwnsRegister
<1>4. WordTellsOwner'
  BY DEF WordTellsOwner, MutualExclusion, Owns
<1>5. MutualExclusion'
  BY DEF MutualExclusion, Owns
<1> QED
  BY <1>1, <1>2, <1>3, <1>4, <1>5

\* The invariant is inductive.
LEMMA LockInvStep == LockInv /\ [LockNext]_lockVars => LockInv'
<1> SUFFICES ASSUME LockInv, [LockNext]_lockVars PROVE LockInv'
  OBVIOUS
<1>1. ASSUME NEW p \in Procs, NEW l \in Locks, Call(p, l) PROVE LockInv'
  BY <1>1, CallKeeps
<1>2. ASSUME NEW p \in Procs, AcquireStep(p) PROVE LockInv'
  BY <1>2, ReadRegisterKeeps, TestLocalKeeps, GiveBackKeeps, SetLocalKeeps,
     ReturnKeeps DEF AcquireStep
<1>3. ASSUME NEW p \in Procs, ReleaseLock(p) PROVE LockInv'
  BY <1>3, ReleaseLockKeeps
<1>4. CASE UNCHANGED lockVars
  BY <1>4 DEF lockVars, LockInv, LockTypeOK, RegisterTellsOwner,
     RegisterMutex, WordTellsOwner, MutualExclusion, OwnsRegister, Owns
<1> QED
  BY <1>1, <1>2, <1>3, <1>4 DEF LockNext

\* For any number of cores and locks and any power-on value: the types, the
\* mutual exclusion of the register and of every local lock, and what the
\* register and the words say about their owners.
THEOREM LockSafety == LockSpec => []LockInv
<1>1. LockInit => LockInv
  BY LockInvInit
<1>2. LockInv /\ [LockNext]_lockVars => LockInv'
  BY LockInvStep
<1> QED
  BY <1>1, <1>2, PTL DEF LockSpec
-----------------------------------------------------------------------------
\* The abstract phase of core p after a step that moves p to point b and no
\* other core.
LEMMA PhaseOfStep ==
  ASSUME LockTypeOK, NEW p \in Procs, NEW b \in Points,
         at' = [at EXCEPT ![p] = b]
  PROVE  \A q \in Procs :
           AbstractPoint(at'[q]) =
             IF q = p THEN AbstractPoint(b) ELSE AbstractPoint(at[q])
BY DEF LockTypeOK, AbstractPoint

\* A step that stays on one side of the abstract phases of p, and changes no
\* argument, is a stutter of the abstract lock.
LEMMA InnerStepStutters ==
  ASSUME LockTypeOK, NEW p \in Procs, NEW b \in Points,
         at' = [at EXCEPT ![p] = b], want' = want,
         \/ at[p] \in {"spin", "test", "retry", "set"} /\ b \in {"spin", "test", "retry", "set"}
         \/ at[p] = "give" /\ b = "in"
  PROVE  UNCHANGED Abstract!mutexVars
<1>1. \A q \in Procs : AbstractPoint(at'[q]) = AbstractPoint(at[q])
  BY PhaseOfStep DEF LockTypeOK, AbstractPoint
<1> QED
  BY <1>1 DEF Abstract!mutexVars

\* Calling AcquireLock is the abstract request.
LEMMA CallRequests ==
  ASSUME LockTypeOK, NEW p \in Procs, NEW l \in Locks, Call(p, l)
  PROVE  Abstract!Request(p, l)
<1>1. at[p] = "out" /\ at' = [at EXCEPT ![p] = "spin"]
  BY DEF Call, Goto
<1>2. AbstractPoint(at[p]) = "out"
  BY <1>1 DEF AbstractPoint
<1>3. \A q \in Procs :
         AbstractPoint(at'[q]) = IF q = p THEN "waiting" ELSE AbstractPoint(at[q])
  BY <1>1, PhaseOfStep DEF AbstractPoint, Points
<1>4. want' = [want EXCEPT ![p] = l]
  BY DEF Call
<1> QED
  BY <1>2, <1>3, <1>4 DEF Abstract!Request

\* Writing the word is the abstract acquire: the word was still 0, so nobody
\* holds the lock.
LEMMA SetLocalAcquires ==
  ASSUME LockInv, NEW p \in Procs, SetLocal(p)
  PROVE  Abstract!Acquire(p)
<1>1. at[p] = "set" /\ at' = [at EXCEPT ![p] = "give"] /\ want' = want
  BY DEF SetLocal, Goto
<1>2. AbstractPoint(at[p]) = "waiting"
  BY <1>1 DEF AbstractPoint
<1>3. \A q \in Procs :
         AbstractPoint(at'[q]) = IF q = p THEN "in" ELSE AbstractPoint(at[q])
  BY <1>1, PhaseOfStep DEF AbstractPoint, Points, LockInv
<1>4. ASSUME NEW q \in Procs, AbstractPoint(at[q]) = "in", want[q] = want[p]
      PROVE  FALSE
  <2>1. at[q] \in {"give", "in"}
    BY <1>4 DEF AbstractPoint
  <2>2. word[want[q]] = 1 /\ word[want[p]] = 0
    BY <1>1, <2>1 DEF LockInv, WordTellsOwner
  <2> QED
    BY <1>4, <2>2
<1> QED
  BY <1>1, <1>2, <1>3, <1>4 DEF Abstract!Acquire, Abstract!Holds

\* ReleaseLock is the abstract release.
LEMMA ReleaseLockReleases ==
  ASSUME LockTypeOK, NEW p \in Procs, ReleaseLock(p)
  PROVE  Abstract!Release(p)
<1>1. at[p] = "in" /\ at' = [at EXCEPT ![p] = "out"]
  BY DEF ReleaseLock, Goto
<1>2. AbstractPoint(at[p]) = "in"
  BY <1>1 DEF AbstractPoint
<1>3. \A q \in Procs :
         AbstractPoint(at'[q]) = IF q = p THEN "out" ELSE AbstractPoint(at[q])
  BY <1>1, PhaseOfStep DEF AbstractPoint, Points
<1>4. want' = [want EXCEPT ![p] = NoLock]
  BY DEF ReleaseLock
<1> QED
  BY <1>2, <1>3, <1>4 DEF Abstract!Release

\* The other accesses of AcquireLock are invisible to the callers.
LEMMA AcquireStepSimulates ==
  ASSUME LockInv, NEW p \in Procs, AcquireStep(p)
  PROVE  Abstract!Acquire(p) \/ UNCHANGED Abstract!mutexVars
<1> USE DEF LockInv
<1>1. CASE ReadRegister(p)
  <2>1. CASE reg = 0
    BY <1>1, <2>1, InnerStepStutters DEF ReadRegister, Points
  <2>2. CASE reg # 0
    BY <1>1, <2>2 DEF ReadRegister, Abstract!mutexVars, AbstractPoint
  <2> QED
    BY <2>1, <2>2
<1>2. CASE TestLocal(p)
  BY <1>2, InnerStepStutters DEF TestLocal, Goto, Points
<1>3. CASE GiveBack(p)
  BY <1>3, InnerStepStutters DEF GiveBack, Goto, Points
<1>4. CASE SetLocal(p)
  BY <1>4, SetLocalAcquires
<1>5. CASE Return(p)
  BY <1>5, InnerStepStutters DEF Return, Goto, Points
<1> QED
  BY <1>1, <1>2, <1>3, <1>4, <1>5 DEF AcquireStep

\* For any number of cores and locks, the lock code over the test-and-set
\* register implements the abstract lock its callers rely on.
THEOREM LockRefinesMutex == LockSpec => ImplementsMutex
<1>1. LockInit => Abstract!MutexInit
  BY DEF LockInit, Abstract!MutexInit, AbstractPoint
<1>2. LockInv /\ [LockNext]_lockVars => [Abstract!MutexNext]_(Abstract!mutexVars)
  <2> SUFFICES ASSUME LockInv, [LockNext]_lockVars
               PROVE  [Abstract!MutexNext]_(Abstract!mutexVars)
    OBVIOUS
  <2>1. ASSUME NEW p \in Procs, NEW l \in Locks, Call(p, l)
        PROVE  Abstract!MutexNext
    BY <2>1, CallRequests DEF LockInv, Abstract!MutexNext
  <2>2. ASSUME NEW p \in Procs, AcquireStep(p)
        PROVE  [Abstract!MutexNext]_(Abstract!mutexVars)
    BY <2>2, AcquireStepSimulates DEF Abstract!MutexNext
  <2>3. ASSUME NEW p \in Procs, ReleaseLock(p)
        PROVE  Abstract!MutexNext
    BY <2>3, ReleaseLockReleases DEF LockInv, Abstract!MutexNext
  <2>4. CASE UNCHANGED lockVars
    BY <2>4 DEF lockVars, Abstract!mutexVars, AbstractPoint
  <2> QED
    BY <2>1, <2>2, <2>3, <2>4 DEF LockNext
<1> QED
  BY <1>1, <1>2, LockSafety, PTL DEF LockSpec, ImplementsMutex, Abstract!MutexSpec
=============================================================================
