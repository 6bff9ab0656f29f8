-------------------------- MODULE NestedLockProofs --------------------------
(***************************************************************************)
(* Mutual exclusion of SEQUENTIAL and ATOMIC sections, for every number of *)
(* cores and words, and that they implement the atomic lock of Mutex.      *)
(***************************************************************************)
EXTENDS NestedLock, TLAPS

\* Nobody owns anything when the platform powers on.
LEMMA NestedInvInit == LockInit => NestedLockInv
<1> SUFFICES ASSUME LockInit PROVE NestedLockInv
  OBVIOUS
<1>1. LockTypeOK
  BY NestedLockAssumption DEF LockInit, LockTypeOK, Points
<1>2. RegisterTellsOwner /\ RegisterMutex /\ WordTellsOwner /\ AtomicMutex
  BY DEF LockInit, RegisterTellsOwner, RegisterMutex, WordTellsOwner, AtomicMutex, OwnsRegister
<1> QED
  BY <1>1, <1>2 DEF NestedLockInv

\* A core that reaches a section takes nothing yet.
LEMMA CallKeeps ==
  ASSUME NestedLockInv, NEW p \in Procs, NEW l \in Locks \cup {Global}, Call(p, l)
  PROVE  NestedLockInv'
<1> USE NestedLockAssumption DEF NestedLockInv, LockTypeOK, Points, Call, Goto
<1>1. LockTypeOK'
  OBVIOUS
<1>2. RegisterTellsOwner'
  BY DEF RegisterTellsOwner, RegisterMutex, OwnsRegister
<1>3. RegisterMutex'
  BY DEF RegisterMutex, RegisterTellsOwner, OwnsRegister
<1>4. WordTellsOwner'
  BY DEF WordTellsOwner, AtomicMutex
<1>5. AtomicMutex'
  BY DEF AtomicMutex
<1> QED
  BY <1>1, <1>2, <1>3, <1>4, <1>5

\* A read lets a core through only when nobody owns the register.
LEMMA ReadRegisterKeeps ==
  ASSUME NestedLockInv, NEW p \in Procs, ReadRegister(p)
  PROVE  NestedLockInv'
<1> USE NestedLockAssumption DEF NestedLockInv, LockTypeOK, Points, ReadRegister
<1>1. LockTypeOK'
  OBVIOUS
<1>2. RegisterTellsOwner'
  BY DEF RegisterTellsOwner, RegisterMutex, OwnsRegister
<1>3. RegisterMutex'
  BY DEF RegisterMutex, RegisterTellsOwner, OwnsRegister
<1>4. WordTellsOwner'
  BY DEF WordTellsOwner, AtomicMutex
<1>5. AtomicMutex'
  BY DEF AtomicMutex
<1> QED
  BY <1>1, <1>2, <1>3, <1>4, <1>5

\* A core that finds its word 0 keeps the register.
LEMMA PollLocalKeeps ==
  ASSUME NestedLockInv, NEW p \in Procs, PollLocal(p)
  PROVE  NestedLockInv'
<1> USE NestedLockAssumption DEF NestedLockInv, LockTypeOK, Points, PollLocal, Goto
<1>1. LockTypeOK'
  OBVIOUS
<1>2. RegisterTellsOwner'
  BY DEF RegisterTellsOwner, RegisterMutex, OwnsRegister
<1>3. RegisterMutex'
  BY DEF RegisterMutex, RegisterTellsOwner, OwnsRegister
<1>4. WordTellsOwner'
  BY DEF WordTellsOwner, AtomicMutex
<1>5. AtomicMutex'
  BY DEF AtomicMutex
<1> QED
  BY <1>1, <1>2, <1>3, <1>4, <1>5

\* Freeing the register keeps the word.
LEMMA GiveRegisterKeeps ==
  ASSUME NestedLockInv, NEW p \in Procs, GiveRegister(p)
  PROVE  NestedLockInv'
<1> USE NestedLockAssumption DEF NestedLockInv, LockTypeOK, Points, GiveRegister, Goto
<1>1. LockTypeOK'
  OBVIOUS
<1>2. RegisterTellsOwner'
  BY DEF RegisterTellsOwner, RegisterMutex, OwnsRegister
<1>3. RegisterMutex'
  BY DEF RegisterMutex, RegisterTellsOwner, OwnsRegister
<1>4. WordTellsOwner'
  BY DEF WordTellsOwner, AtomicMutex
<1>5. AtomicMutex'
  BY DEF AtomicMutex
<1> QED
  BY <1>1, <1>2, <1>3, <1>4, <1>5

\* A SEQUENTIAL section ends by freeing the register it owns; an ATOMIC one
\* clears a word nobody else owns.
LEMMA LeaveKeeps ==
  ASSUME NestedLockInv, NEW p \in Procs, Leave(p)
  PROVE  NestedLockInv'
<1> USE NestedLockAssumption DEF NestedLockInv, LockTypeOK, Points, Leave, Goto
<1>1. LockTypeOK'
  OBVIOUS
<1>2. RegisterTellsOwner'
  BY DEF RegisterTellsOwner, RegisterMutex, OwnsRegister
<1>3. RegisterMutex'
  BY DEF RegisterMutex, RegisterTellsOwner, OwnsRegister
<1>4. WordTellsOwner'
  BY DEF WordTellsOwner, AtomicMutex
<1>5. AtomicMutex'
  BY DEF AtomicMutex
<1> QED
  BY <1>1, <1>2, <1>3, <1>4, <1>5

\* The core that sets a word found it 0 and has owned the register since, so no
\* other core is in a section of that word.
LEMMA SetLocalKeeps ==
  ASSUME NestedLockInv, NEW p \in Procs, SetLocal(p)
  PROVE  NestedLockInv'
<1> USE NestedLockAssumption DEF NestedLockInv, LockTypeOK, Points, SetLocal, Goto
<1>1. LockTypeOK'
  OBVIOUS
<1>2. RegisterTellsOwner'
  BY DEF RegisterTellsOwner, OwnsRegister
<1>3. RegisterMutex'
  BY DEF RegisterMutex, OwnsRegister
<1>4. WordTellsOwner'
  <2> SUFFICES ASSUME NEW q \in Procs
               PROVE  /\ at'[q] \in {"give", "in"} /\ want'[q] \in Locks => word'[want'[q]] = 1
                      /\ at'[q] = "set" => word'[want'[q]] = 0
    BY DEF WordTellsOwner
  <2>1. CASE q = p
    BY <2>1
  <2>2. CASE q # p
    BY <2>2 DEF WordTellsOwner, RegisterMutex, OwnsRegister
  <2> QED
    BY <2>1, <2>2
<1>5. AtomicMutex'
  BY DEF AtomicMutex, WordTellsOwner
<1> QED
  BY <1>1, <1>2, <1>3, <1>4, <1>5

\* The invariant is inductive.
LEMMA NestedInvStep == NestedLockInv /\ [LockNext]_lockVars => NestedLockInv'
<1> SUFFICES ASSUME NestedLockInv, [LockNext]_lockVars PROVE NestedLockInv'
  OBVIOUS
<1>1. ASSUME NEW p \in Procs, NEW l \in Locks \cup {Global}, Call(p, l) PROVE NestedLockInv'
  BY <1>1, CallKeeps
<1>2. ASSUME NEW p \in Procs, EnterStep(p) PROVE NestedLockInv'
  BY <1>2, ReadRegisterKeeps, PollLocalKeeps, SetLocalKeeps, GiveRegisterKeeps DEF EnterStep
<1>3. ASSUME NEW p \in Procs, Leave(p) PROVE NestedLockInv'
  BY <1>3, LeaveKeeps
<1>4. CASE UNCHANGED lockVars
  BY <1>4 DEF lockVars, NestedLockInv, LockTypeOK, RegisterTellsOwner, RegisterMutex,
     WordTellsOwner, AtomicMutex, OwnsRegister
<1> QED
  BY <1>1, <1>2, <1>3, <1>4 DEF LockNext

\* For any number of cores and words and any power-on value: SEQUENTIAL sections
\* exclude each other and the lock code, ATOMIC sections on one word exclude
\* each other.
THEOREM NestedLockSafety == LockSpec => []NestedLockInv
<1>1. LockInit => NestedLockInv
  BY NestedInvInit
<1>2. NestedLockInv /\ [LockNext]_lockVars => NestedLockInv'
  BY NestedInvStep
<1> QED
  BY <1>1, <1>2, PTL DEF LockSpec
-----------------------------------------------------------------------------
\* The abstract phase of core p after a step that moves p to point b and no
\* other core.
LEMMA NestedPhaseOfStep ==
  ASSUME LockTypeOK, NEW p \in Procs, NEW b \in Points,
         at' = [at EXCEPT ![p] = b]
  PROVE  \A q \in Procs :
           AbstractPoint(at'[q]) =
             IF q = p THEN AbstractPoint(b) ELSE AbstractPoint(at[q])
BY DEF LockTypeOK, AbstractPoint

\* A step between two points of one abstract phase is a stutter.
LEMMA NestedInnerStutters ==
  ASSUME LockTypeOK, NEW p \in Procs, NEW b \in Points,
         at' = [at EXCEPT ![p] = b], want' = want,
         AbstractPoint(at[p]) = AbstractPoint(b)
  PROVE  UNCHANGED Abstract!mutexVars
<1>1. \A q \in Procs : AbstractPoint(at'[q]) = AbstractPoint(at[q])
  BY NestedPhaseOfStep
<1> QED
  BY <1>1 DEF Abstract!mutexVars

\* Reaching a section is the abstract request.
LEMMA NestedCallRequests ==
  ASSUME LockTypeOK, NEW p \in Procs, NEW l \in Locks \cup {Global}, Call(p, l)
  PROVE  Abstract!Request(p, l)
<1>1. at[p] = "out" /\ at' = [at EXCEPT ![p] = "spin"]
  BY DEF Call, Goto
<1>2. AbstractPoint(at[p]) = "out"
  BY <1>1 DEF AbstractPoint
<1>3. \A q \in Procs :
         AbstractPoint(at'[q]) = IF q = p THEN "waiting" ELSE AbstractPoint(at[q])
  BY <1>1, NestedPhaseOfStep DEF AbstractPoint, Points
<1>4. want' = [want EXCEPT ![p] = l]
  BY DEF Call
<1> QED
  BY <1>2, <1>3, <1>4 DEF Abstract!Request

\* A core that goes from a waiting point to "give" or "in" acquires what it
\* wants, if no other core holds it.
LEMMA EntryAcquires ==
  ASSUME LockTypeOK, NEW p \in Procs, NEW b \in {"give", "in"},
         at[p] \in {"spin", "set"}, at' = [at EXCEPT ![p] = b], want' = want,
         \A q \in Procs : at[q] \in {"give", "in"} => want[q] # want[p]
  PROVE  Abstract!Acquire(p)
<1>1. AbstractPoint(at[p]) = "waiting"
  BY DEF AbstractPoint
<1>2. \A q \in Procs :
         AbstractPoint(at'[q]) = IF q = p THEN "in" ELSE AbstractPoint(at[q])
  BY NestedPhaseOfStep DEF AbstractPoint, Points
<1>3. \A q \in Procs : AbstractPoint(at[q]) = "in" => at[q] \in {"give", "in"}
  BY DEF AbstractPoint
<1> QED
  BY <1>1, <1>2, <1>3 DEF Abstract!Acquire, Abstract!Holds

\* A SEQUENTIAL section is entered by the read that finds the register 0: no
\* core is in one then.
LEMMA GlobalEntryAcquires ==
  ASSUME NestedLockInv, NEW p \in Procs, ReadRegister(p), reg = 0, want[p] = Global
  PROVE  Abstract!Acquire(p)
<1>1. at[p] = "spin" /\ at' = [at EXCEPT ![p] = "in"] /\ want' = want
  BY DEF ReadRegister
<1>2. ASSUME NEW q \in Procs, at[q] \in {"give", "in"}, want[q] = want[p]
      PROVE  FALSE
  BY <1>2 DEF NestedLockInv, RegisterTellsOwner, OwnsRegister
<1> QED
  BY <1>1, <1>2, EntryAcquires DEF NestedLockInv

\* An ATOMIC section is entered when its word is set: it was still 0, so no
\* core is in a section of that word.
LEMMA AtomicEntryAcquires ==
  ASSUME NestedLockInv, NEW p \in Procs, SetLocal(p)
  PROVE  Abstract!Acquire(p)
<1>1. at[p] = "set" /\ at' = [at EXCEPT ![p] = "give"] /\ want' = want
  BY DEF SetLocal, Goto
<1>2. want[p] \in Locks /\ word[want[p]] = 0
  BY <1>1 DEF NestedLockInv, LockTypeOK, WordTellsOwner
<1>3. ASSUME NEW q \in Procs, at[q] \in {"give", "in"}, want[q] = want[p]
      PROVE  FALSE
  BY <1>2, <1>3 DEF NestedLockInv, WordTellsOwner
<1> QED
  BY <1>1, <1>3, EntryAcquires DEF NestedLockInv

\* The other accesses of a core on its way in are invisible.
LEMMA EnterStepSimulates ==
  ASSUME NestedLockInv, NEW p \in Procs, EnterStep(p)
  PROVE  Abstract!Acquire(p) \/ UNCHANGED Abstract!mutexVars
<1> USE DEF NestedLockInv
<1>1. CASE ReadRegister(p)
  <2>1. CASE reg # 0
    BY <1>1, <2>1 DEF ReadRegister, Abstract!mutexVars
  <2>2. CASE reg = 0 /\ want[p] # Global
    <3>1. at[p] = "spin" /\ at' = [at EXCEPT ![p] = "poll"] /\ want' = want
      BY <1>1, <2>2 DEF ReadRegister
    <3> QED
      BY <3>1, NestedInnerStutters DEF Points, AbstractPoint
  <2>3. CASE reg = 0 /\ want[p] = Global
    BY <1>1, <2>3, GlobalEntryAcquires
  <2> QED
    BY <2>1, <2>2, <2>3
<1>2. CASE PollLocal(p)
  BY <1>2, NestedInnerStutters DEF PollLocal, Goto, Points, AbstractPoint
<1>3. CASE SetLocal(p)
  BY <1>3, AtomicEntryAcquires
<1>4. CASE GiveRegister(p)
  BY <1>4, NestedInnerStutters DEF GiveRegister, Goto, Points, AbstractPoint
<1> QED
  BY <1>1, <1>2, <1>3, <1>4 DEF EnterStep

\* The end of either kind of section is the abstract release.
LEMMA LeaveReleases ==
  ASSUME LockTypeOK, NEW p \in Procs, Leave(p)
  PROVE  Abstract!Release(p)
<1>1. at[p] = "in" /\ at' = [at EXCEPT ![p] = "out"]
  BY DEF Leave, Goto
<1>2. AbstractPoint(at[p]) = "in"
  BY <1>1 DEF AbstractPoint
<1>3. \A q \in Procs :
         AbstractPoint(at'[q]) = IF q = p THEN "out" ELSE AbstractPoint(at[q])
  BY <1>1, NestedPhaseOfStep DEF AbstractPoint, Points
<1>4. want' = [want EXCEPT ![p] = NoLock]
  BY DEF Leave
<1> QED
  BY <1>2, <1>3, <1>4 DEF Abstract!Release

\* For any number of cores and words, the macros of hist.c implement one atomic
\* lock per word and one for all SEQUENTIAL sections.
THEOREM NestedLockRefinesMutex == LockSpec => ImplementsMutex
<1>1. LockInit => Abstract!MutexInit
  BY DEF LockInit, Abstract!MutexInit, AbstractPoint
<1>2. NestedLockInv /\ [LockNext]_lockVars => [Abstract!MutexNext]_(Abstract!mutexVars)
  <2> SUFFICES ASSUME NestedLockInv, [LockNext]_lockVars
               PROVE  [Abstract!MutexNext]_(Abstract!mutexVars)
    OBVIOUS
  <2>1. ASSUME NEW p \in Procs, NEW l \in Locks \cup {Global}, Call(p, l)
        PROVE  Abstract!MutexNext
    BY <2>1, NestedCallRequests DEF NestedLockInv, Abstract!MutexNext
  <2>2. ASSUME NEW p \in Procs, EnterStep(p)
        PROVE  [Abstract!MutexNext]_(Abstract!mutexVars)
    BY <2>2, EnterStepSimulates DEF Abstract!MutexNext
  <2>3. ASSUME NEW p \in Procs, Leave(p)
        PROVE  Abstract!MutexNext
    BY <2>3, LeaveReleases DEF NestedLockInv, Abstract!MutexNext
  <2>4. CASE UNCHANGED lockVars
    BY <2>4 DEF lockVars, Abstract!mutexVars, AbstractPoint
  <2> QED
    BY <2>1, <2>2, <2>3, <2>4 DEF LockNext
<1> QED
  BY <1>1, <1>2, NestedLockSafety, PTL DEF LockSpec, ImplementsMutex, Abstract!MutexSpec
=============================================================================
