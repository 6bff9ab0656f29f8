--------------------------- MODULE ImageDFTProofs ---------------------------
(***************************************************************************)
(* Three layers of proofs about the image guest, for every number of cores *)
(* and rows.  Barriers: it implements the chain of barriers, the counters  *)
(* incremented under a lock of words and polled without it counting the    *)
(* cores exactly.  Rows: they are handed out fairly and completely.        *)
(* Output: the file is the one a single core would write.                  *)
(***************************************************************************)
EXTENDS ImageDFT, FiniteSetTheorems, SequenceTheorems, TLAPS

\* What is known of the lock code, for any callers.
LkP == INSTANCE SpinLockProofs WITH NoLock <- "none", PowerOn <- {0}

\* The invariant of the lock is the one proved of it, and so are its steps.
LEMMA LockStays ==
  ASSUME Lk!LockInv, [Lk!LockNext]_lockState
  PROVE  Lk!LockInv'
<1> USE DEF Lk!LockInv, LkP!LockInv, Lk!LockTypeOK, LkP!LockTypeOK, Lk!Points, LkP!Points,
     Lk!RegisterTellsOwner, LkP!RegisterTellsOwner, Lk!RegisterMutex, LkP!RegisterMutex,
     Lk!WordTellsOwner, LkP!WordTellsOwner, Lk!MutualExclusion, LkP!MutualExclusion,
     Lk!OwnsRegister, LkP!OwnsRegister, Lk!Owns, LkP!Owns
<1>1. LkP!LockInv
  OBVIOUS
<1>2. [LkP!LockNext]_(LkP!lockVars)
  BY Zenon DEF lockState, LkP!lockVars, Lk!LockNext, LkP!LockNext, Lk!Call, LkP!Call,
     Lk!AcquireStep, LkP!AcquireStep, Lk!ReadRegister, LkP!ReadRegister, Lk!TestLocal,
     LkP!TestLocal, Lk!GiveBack, LkP!GiveBack, Lk!SetLocal, LkP!SetLocal, Lk!Return,
     LkP!Return, Lk!ReleaseLock, LkP!ReleaseLock, Lk!Goto, LkP!Goto
<1>3. LkP!NoLockAssumption /\ LkP!PowerOnAssumption
  BY DEF LkP!NoLockAssumption, LkP!PowerOnAssumption, Locks
<1>4. LkP!LockInv'
  BY ONLY <1>1, <1>2, <1>3, LkP!LockInvStep
<1> QED
  BY <1>4
-----------------------------------------------------------------------------
Lines == {"call", "load", "store", "release", "wait", "open", "divide", "loop", "stopped"}
Locked == {"load", "store", "release"}

\* The place of a barrier in BarrierOrder.
Place(b) == Phase(b) + 1

\* The cores that have counted themselves into a barrier.
Counted(b) == {p \in Procs : ArrivedBarriers(p) >= Place(b)}

GuestTypes ==
  /\ stage \in [Procs -> Stages]
  /\ line \in [Procs -> Lines]
  /\ tmp = [p \in Procs |-> tmp[p]]
  /\ barrier \in [BarrierNames -> Nat]

\* Where a core is in main tells where it is in the lock code, and a core
\* about to store a count has loaded the one that is still there.
LineFits(p) ==
  /\ line[p] = "load" => at[p] # "out"
  /\ line[p] \in {"store", "release"} => at[p] = "in"
  /\ line[p] \in Locked => stage[p] \in Critical /\ want[p] = LockOf(stage[p])
  /\ line[p] \notin Locked => at[p] = "out"
  /\ line[p] = "wait" => stage[p] \in BarrierNames
  /\ line[p] = "store" /\ stage[p] \in BarrierNames => tmp[p] = barrier[stage[p]]

BarrierCounts == \A b \in BarrierNames : barrier[b] = Cardinality(Counted(b))

GuestInv ==
  /\ Lk!LockInv
  /\ GuestTypes
  /\ \A p \in Procs : LineFits(p)
  /\ BarrierCounts

-----------------------------------------------------------------------------
\* The counters of main, barrier0 to barrier6.
LEMMA NamesOfBarriers ==
  BarrierNames = {"barrier6", "barrier0", "barrier5", "barrier1", "barrier2", "barrier3", "barrier4"}
BY DEF BarrierNames, BarrierOrder

\* The seven barriers have the places 1 to 7.
LEMMA Places ==
  /\ \A b \in BarrierNames : Place(b) \in 1 .. 7
  /\ \A b, c \in BarrierNames : Place(b) = Place(c) => b = c
BY NamesOfBarriers DEF Place, Phase

\* Main has eight phases, numbered by the barriers before them.
LEMMA PhaseType == \A s : Phase(s) \in 0 .. 7
BY DEF Phase

\* A core has arrived at the barriers it has passed and at most one more.
LEMMA ArrivedType ==
  \A p : /\ ArrivedBarriers(p) \in PassedBarriers(p) .. PassedBarriers(p) + 1
         /\ PassedBarriers(p) \in 0 .. 7
BY PhaseType DEF ArrivedBarriers, PassedBarriers

\* As long as nobody arrives, the counts stay right.
LEMMA CountsStay ==
  ASSUME BarrierCounts, barrier' = barrier,
         \A q \in Procs : ArrivedBarriers(q)' = ArrivedBarriers(q)
  PROVE  BarrierCounts'
<1>1. ASSUME NEW b \in BarrierNames PROVE Counted(b)' = Counted(b)
  BY DEF Counted
<1> QED
  BY <1>1 DEF BarrierCounts

-----------------------------------------------------------------------------
(* Three kinds of steps: work on a row, a step in main, a step at a lock.   *)

\* A step that works on a row.
Works == UNCHANGED <<lockState, control, tmp, barrier>>

\* Working on a row of the image touches no lock, no count and no program
\* counter.
LEMMA WorkSteps ==
  ASSUME NEW p \in Procs,
         \/ Shift(p) \/ RowDFT(p) \/ ReadColumn(p) \/ ColDFT(p) \/ Log(p)
         \/ LocalMaxMin(p) \/ Scale(p) \/ WriteRow(p)
  PROVE  Works
BY DEF Works, Shift, RowDFT, ReadColumn, ColDFT, Log, LocalMaxMin, Scale, WriteRow, control,
       counters, locals

\* A step from one part of main to another of the same phase.
MovesOn(p) ==
  \E s \in Stages, l \in Lines \ (Locked \cup {"wait"}) :
    /\ line[p] \notin Locked \cup {"wait"}
    /\ Phase(s) = Phase(stage[p])
    /\ GoTo(p, s, l)
    /\ UNCHANGED <<lockState, tmp, barrier>>

\* A core that leaves a loop or a file operation goes on inside its phase, and
\* not into a critical section.
LEMMA MainSteps ==
  ASSUME GuestTypes, NEW p \in Procs,
         \/ ReadPGM(p) \/ OpenFails(p) \/ OpenOutput(p) \/ CloseOutput(p) \/ Divide(p) \/ EndLoop(p)
  PROVE  MovesOn(p)
<1> USE NamesOfBarriers DEF MovesOn, At, GoTo, Stages, Critical, WorkStages, Lines, Locked, Phase, locals, counters
<1>1. CASE ReadPGM(p)
  BY <1>1 DEF ReadPGM
<1>2. CASE OpenFails(p)
  <2>1. stage' = [stage EXCEPT ![p] = stage[p]]
    BY <1>2 DEF OpenFails, GuestTypes
  <2> QED
    BY <1>2, <2>1 DEF OpenFails
<1>3. CASE OpenOutput(p)
  BY <1>3 DEF OpenOutput
<1>4. CASE CloseOutput(p)
  BY <1>4 DEF CloseOutput
<1>5. CASE Divide(p)
  <2>1. stage' = [stage EXCEPT ![p] = stage[p]]
    BY <1>5 DEF Divide, GuestTypes
  <2> QED
    BY <1>5, <2>1 DEF Divide
<1>6. CASE EndLoop(p)
  BY <1>6 DEF EndLoop
<1> QED
  BY <1>1, <1>2, <1>3, <1>4, <1>5, <1>6
-----------------------------------------------------------------------------
(* What each kind of step keeps.                                            *)

\* Nobody arrives at a barrier or passes one.
Quiet == \A q \in Procs : /\ PassedBarriers(q)' = PassedBarriers(q)
                          /\ ArrivedBarriers(q)' = ArrivedBarriers(q)

Untouched(q) ==
  /\ stage'[q] = stage[q] /\ line'[q] = line[q] /\ tmp'[q] = tmp[q]
  /\ at'[q] = at[q] /\ want'[q] = want[q]

\* What is true of a core stays true while the others move and no count changes.
LEMMA UntouchedFits ==
  ASSUME NEW q \in Procs, LineFits(q), Untouched(q), barrier' = barrier
  PROVE  LineFits(q)'
BY DEF LineFits, Untouched, LockOf

\* A core that does not move neither arrives at a barrier nor passes one.
LEMMA UntouchedQuiet ==
  ASSUME NEW q \in Procs, Untouched(q)
  PROVE  /\ PassedBarriers(q)' = PassedBarriers(q)
         /\ ArrivedBarriers(q)' = ArrivedBarriers(q)
BY DEF Untouched, PassedBarriers, ArrivedBarriers, CountedIn

\* Working on a row leaves the invariant true and is invisible to the barriers.
LEMMA WorkKeeps ==
  ASSUME GuestInv, Works
  PROVE  GuestInv' /\ Quiet
<1>1. \A q \in Procs : Untouched(q)
  BY DEF Works, control, lockState, Untouched
<1>2. Quiet
  BY <1>1, UntouchedQuiet DEF Quiet
<1>3. Lk!LockInv'
  BY LockStays DEF GuestInv, Works
<1>4. GuestTypes'
  BY DEF GuestInv, GuestTypes, Works, control
<1>5. \A q \in Procs : LineFits(q)'
  BY <1>1, UntouchedFits DEF GuestInv, Works
<1>6. BarrierCounts'
  BY <1>2, CountsStay DEF GuestInv, Works, Quiet
<1> QED
  BY <1>2, <1>3, <1>4, <1>5, <1>6 DEF GuestInv

\* A move inside a phase leaves the invariant true and is invisible to the
\* barriers.
LEMMA MoveKeeps ==
  ASSUME GuestInv, NEW p \in Procs, MovesOn(p)
  PROVE  GuestInv' /\ Quiet
<1>1. PICK s \in Stages, l \in Lines \ (Locked \cup {"wait"}) :
        /\ line[p] \notin Locked \cup {"wait"}
        /\ Phase(s) = Phase(stage[p])
        /\ GoTo(p, s, l)
        /\ UNCHANGED <<lockState, tmp, barrier>>
  BY DEF MovesOn
<1>2. GuestTypes'
  BY <1>1 DEF GuestInv, GuestTypes, GoTo
<1>3. stage'[p] = s /\ line'[p] = l /\ at' = at /\ want' = want /\ tmp' = tmp /\ barrier' = barrier
  BY <1>1 DEF GuestInv, GuestTypes, GoTo, lockState
<1>4. \A q \in Procs \ {p} : Untouched(q)
  BY <1>1 DEF GuestInv, GuestTypes, GoTo, lockState, Untouched
<1>5. /\ PassedBarriers(p)' = PassedBarriers(p)
      /\ ArrivedBarriers(p)' = ArrivedBarriers(p)
  BY <1>1, <1>3 DEF PassedBarriers, ArrivedBarriers, CountedIn, Locked
<1>6. Quiet
  BY <1>4, <1>5, UntouchedQuiet DEF Quiet
<1>7. Lk!LockInv'
  BY <1>1, LockStays DEF GuestInv
<1>8. LineFits(p)'
  BY <1>1, <1>3 DEF GuestInv, LineFits, Locked
<1>9. \A q \in Procs : LineFits(q)'
  BY <1>3, <1>4, <1>8, UntouchedFits DEF GuestInv
<1>10. BarrierCounts'
  BY <1>3, <1>6, CountsStay DEF GuestInv, Quiet
<1> QED
  BY <1>2, <1>6, <1>7, <1>9, <1>10 DEF GuestInv

-----------------------------------------------------------------------------
(* The steps of a critical section.                                         *)

\* Every critical section of main is guarded by one of the five locks.
LEMMA LocksOfCritical ==
  ASSUME NEW s \in Critical
  PROVE  LockOf(s) \in Locks
BY NamesOfBarriers DEF LockOf, Critical, Locks

\* Calling AcquireLock leaves the invariant true.
LEMMA EnterKeeps ==
  ASSUME GuestInv, NEW p \in Procs, EnterLock(p)
  PROVE  GuestInv' /\ Quiet
<1> USE DEF EnterLock, locals, counters
<1>1. GuestTypes'
  BY DEF GuestInv, GuestTypes, Lines
<1>2. /\ Lk!Call(p, LockOf(stage[p])) /\ stage[p] \in Critical /\ line[p] = "call"
      /\ stage' = stage /\ line' = [line EXCEPT ![p] = "load"] /\ tmp' = tmp /\ barrier' = barrier
  OBVIOUS
<1>3. /\ at'[p] = "spin" /\ want'[p] = LockOf(stage[p]) /\ line'[p] = "load"
      /\ \A q \in Procs \ {p} : Untouched(q)
  BY <1>2 DEF GuestInv, GuestTypes, Lk!LockInv, Lk!LockTypeOK, Lk!Call, Lk!Goto, Untouched
<1>4. Lk!LockInv'
  <2>1. Lk!LockNext
    BY <1>2, LocksOfCritical DEF Lk!LockNext
  <2> QED
    BY <2>1, LockStays DEF GuestInv
<1>5. LineFits(p)'
  BY <1>2, <1>3 DEF LineFits, Locked, LockOf
<1>6. \A q \in Procs : LineFits(q)'
  BY <1>2, <1>3, <1>5, UntouchedFits DEF GuestInv
<1>7. Quiet
  BY <1>2, <1>3, UntouchedQuiet DEF Quiet, PassedBarriers, ArrivedBarriers, CountedIn
<1>8. BarrierCounts'
  BY <1>2, <1>7, CountsStay DEF GuestInv, Quiet
<1> QED
  BY <1>1, <1>4, <1>6, <1>7, <1>8 DEF GuestInv

\* An access inside AcquireLock leaves the invariant true: the core stays on
\* the line that waits for it to return.
LEMMA AcquireKeeps ==
  ASSUME GuestInv, NEW p \in Procs, InsideAcquire(p)
  PROVE  GuestInv' /\ Quiet
<1>1. /\ Lk!AcquireStep(p)
      /\ stage' = stage /\ line' = line /\ tmp' = tmp /\ barrier' = barrier
  BY DEF InsideAcquire, control, locals, counters
<1>2. /\ at[p] \notin {"out", "in"} /\ at'[p] # "out" /\ want' = want
      /\ \A q \in Procs \ {p} : at'[q] = at[q]
  BY <1>1 DEF GuestInv, Lk!LockInv, Lk!LockTypeOK, Lk!AcquireStep, Lk!ReadRegister, Lk!TestLocal,
     Lk!GiveBack, Lk!SetLocal, Lk!Return, Lk!Goto
<1>3. Lk!LockInv'
  <2>1. Lk!LockNext
    BY <1>1 DEF Lk!LockNext
  <2> QED
    BY <2>1, LockStays DEF GuestInv
<1>4. GuestTypes'
  BY <1>1 DEF GuestInv, GuestTypes
<1>5. LineFits(p)'
  BY <1>1, <1>2 DEF GuestInv, LineFits, Locked, LockOf
<1>6. \A q \in Procs : LineFits(q)'
  BY <1>1, <1>2, <1>5, UntouchedFits DEF GuestInv, Untouched
<1>7. Quiet
  BY <1>1 DEF Quiet, PassedBarriers, ArrivedBarriers, CountedIn
<1>8. BarrierCounts'
  BY <1>1, <1>7, CountsStay DEF GuestInv, Quiet
<1> QED
  BY <1>3, <1>4, <1>6, <1>7, <1>8 DEF GuestInv

\* The load of a critical section leaves the invariant true: the value loaded
\* is the one in memory.
LEMMA LoadKeeps ==
  ASSUME GuestInv, NEW p \in Procs, Load(p)
  PROVE  GuestInv' /\ Quiet
<1>1. /\ line[p] = "load" /\ at[p] = "in"
      /\ tmp' = [tmp EXCEPT ![p] = Shared(stage[p])]
      /\ line' = [line EXCEPT ![p] = "store"]
      /\ stage' = stage /\ barrier' = barrier /\ UNCHANGED lockState
  BY DEF Load, counters
<1>2. GuestTypes'
  BY <1>1 DEF GuestInv, GuestTypes, Lines
<1>3. tmp'[p] = Shared(stage[p]) /\ line'[p] = "store" /\ at' = at /\ want' = want
  BY <1>1 DEF GuestInv, GuestTypes, lockState
<1>4. \A q \in Procs \ {p} : Untouched(q)
  BY <1>1 DEF GuestInv, GuestTypes, lockState, Untouched
<1>5. Lk!LockInv'
  BY <1>1, LockStays DEF GuestInv
<1>6. LineFits(p)'
  BY <1>1, <1>3 DEF GuestInv, LineFits, Locked, LockOf, Shared
<1>7. \A q \in Procs : LineFits(q)'
  BY <1>1, <1>4, <1>6, UntouchedFits DEF GuestInv
<1>8. Quiet
  BY <1>1, <1>3, <1>4, UntouchedQuiet DEF Quiet, PassedBarriers, ArrivedBarriers, CountedIn
<1>9. BarrierCounts'
  BY <1>1, <1>8, CountsStay DEF GuestInv, Quiet
<1> QED
  BY <1>2, <1>5, <1>7, <1>8, <1>9 DEF GuestInv

\* The stores that are not of a barrier leave the invariant true.
LEMMA StoreKeeps ==
  ASSUME GuestInv, NEW p \in Procs, Store(p), ~CountIn(p)
  PROVE  GuestInv' /\ Quiet
<1>1. /\ line[p] = "store" /\ stage[p] \in Critical \ BarrierNames /\ barrier' = barrier
  BY NamesOfBarriers DEF Store, StoreProcID, StoreProcRow, StoreStartPoint, StoreMax, StoreMin, At, counters,
     Critical
<1>2. /\ line' = [line EXCEPT ![p] = "release"] /\ tmp' = [tmp EXCEPT ![p] = 0]
      /\ stage' = stage /\ UNCHANGED lockState
  BY DEF Store
<1>3. GuestTypes'
  BY <1>1, <1>2 DEF GuestInv, GuestTypes, Lines
<1>4. line'[p] = "release" /\ at' = at /\ want' = want
  BY <1>2 DEF GuestInv, GuestTypes, lockState
<1>5. \A q \in Procs \ {p} : Untouched(q)
  BY <1>2 DEF GuestInv, GuestTypes, lockState, Untouched
<1>6. Lk!LockInv'
  BY <1>2, LockStays DEF GuestInv
<1>7. LineFits(p)'
  BY <1>1, <1>2, <1>4 DEF GuestInv, LineFits, Locked, LockOf
<1>8. \A q \in Procs : LineFits(q)'
  BY <1>1, <1>5, <1>7, UntouchedFits DEF GuestInv
<1>9. Quiet
  BY <1>1, <1>2, <1>5, UntouchedQuiet DEF Quiet, PassedBarriers, ArrivedBarriers, CountedIn
<1>10. BarrierCounts'
  BY <1>1, <1>9, CountsStay DEF GuestInv, Quiet
<1> QED
  BY <1>3, <1>6, <1>8, <1>9, <1>10 DEF GuestInv

\* What a core that counts itself in does to the counts: the count it stores
\* is the one it loaded plus one, nobody else is between a load and a store of
\* a count, and it was not among the cores counted.
LEMMA CountInCounts ==
  ASSUME GuestInv, NEW p \in Procs, Store(p), CountIn(p)
  PROVE  /\ GuestInv'
         /\ PassedBarriers(p)' = PassedBarriers(p)
         /\ ArrivedBarriers(p) = PassedBarriers(p)
         /\ ArrivedBarriers(p)' = PassedBarriers(p) + 1
         /\ PassedBarriers(p) < 7
         /\ \A q \in Procs \ {p} : Untouched(q)
<1>0. PICK s \in BarrierNames : stage[p] = s
  BY DEF CountIn
<1>1. /\ line[p] = "store" /\ stage[p] = s
      /\ barrier' = [barrier EXCEPT ![s] = tmp[p] + 1]
      /\ line' = [line EXCEPT ![p] = "release"] /\ tmp' = [tmp EXCEPT ![p] = 0]
      /\ stage' = stage /\ UNCHANGED lockState
  BY <1>0 DEF Store, CountIn
<1>2. tmp[p] = barrier[s] /\ barrier[s] \in Nat /\ at[p] = "in" /\ want[p] = "procIDCounterLock"
  BY <1>1 DEF GuestInv, GuestTypes, LineFits, Locked, LockOf
<1>3. GuestTypes'
  BY <1>1, <1>2 DEF GuestInv, GuestTypes, Lines
<1>4. line'[p] = "release" /\ at' = at /\ want' = want
  BY <1>1 DEF GuestInv, GuestTypes, lockState
<1>5. \A q \in Procs \ {p} : Untouched(q)
  BY <1>1 DEF GuestInv, GuestTypes, lockState, Untouched
<1>6. Lk!LockInv'
  BY <1>1, LockStays DEF GuestInv
<1>7. LineFits(p)'
  BY <1>1, <1>2, <1>4 DEF GuestInv, LineFits, Locked, LockOf, Critical
<1>8. ASSUME NEW q \in Procs \ {p} PROVE LineFits(q)'
  <2>1. ~(line[q] = "store" /\ stage[q] \in BarrierNames)
    <3> SUFFICES ASSUME line[q] = "store", stage[q] \in BarrierNames PROVE FALSE
      OBVIOUS
    <3>1. at[q] = "in" /\ want[q] = "procIDCounterLock"
      BY DEF GuestInv, LineFits, Locked, LockOf
    <3> QED
      BY <1>2, <3>1 DEF GuestInv, Lk!LockInv, Lk!MutualExclusion, Lk!Owns, Locks
  <2> QED
    BY <2>1, <1>5 DEF GuestInv, LineFits, Untouched, LockOf
<1>9. /\ PassedBarriers(p)' = PassedBarriers(p)
      /\ ArrivedBarriers(p) = PassedBarriers(p)
      /\ ArrivedBarriers(p)' = PassedBarriers(p) + 1
      /\ PassedBarriers(p) + 1 = Place(s)
  BY <1>1, <1>4, PhaseType DEF PassedBarriers, ArrivedBarriers, CountedIn, Place
<1>10. PassedBarriers(p) < 7
  BY <1>1, <1>9, Places, PhaseType DEF PassedBarriers
<1>11. Counted(s)' = Counted(s) \cup {p} /\ p \notin Counted(s)
  <2>1. \A q \in Procs \ {p} : ArrivedBarriers(q)' = ArrivedBarriers(q)
    BY <1>5, UntouchedQuiet
  <2>2. ArrivedBarriers(p)' >= Place(s) /\ ~(ArrivedBarriers(p) >= Place(s))
    BY <1>9, PhaseType DEF PassedBarriers
  <2> QED
    BY <2>1, <2>2 DEF Counted
<1>12. ASSUME NEW b \in BarrierNames \ {s} PROVE Counted(b)' = Counted(b)
  <2>1. Place(b) # Place(s) /\ Place(b) \in 1 .. 7 /\ Place(s) \in 1 .. 7
    BY <1>1, Places
  <2>2. ArrivedBarriers(p)' >= Place(b) <=> ArrivedBarriers(p) >= Place(b)
    BY <1>9, <2>1, ArrivedType
  <2> QED
    BY <1>5, <2>2, UntouchedQuiet DEF Counted
<1>13. BarrierCounts'
  <2>1. IsFiniteSet(Counted(s))
    BY CoresAssumption, FS_Subset DEF Counted
  <2>2. Cardinality(Counted(s) \cup {p}) = Cardinality(Counted(s)) + 1
    BY <1>11, <2>1, FS_AddElement
  <2>3. barrier'[s] = Cardinality(Counted(s)')
    BY <1>1, <1>2, <1>11, <2>2 DEF GuestInv, GuestTypes, BarrierCounts
  <2>4. ASSUME NEW b \in BarrierNames \ {s} PROVE barrier'[b] = Cardinality(Counted(b)')
    BY <1>1, <1>12 DEF GuestInv, GuestTypes, BarrierCounts
  <2> QED
    BY <2>3, <2>4 DEF BarrierCounts
<1> QED
  BY <1>3, <1>5, <1>6, <1>7, <1>8, <1>9, <1>10, <1>13 DEF GuestInv

\* ReleaseLock leaves the invariant true: a core that has counted itself in
\* is still counted when it polls.
LEMMA LeaveKeeps ==
  ASSUME GuestInv, NEW p \in Procs, LeaveLock(p)
  PROVE  GuestInv' /\ Quiet
<1> USE NamesOfBarriers
<1>1. /\ stage[p] \in Critical /\ line[p] = "release" /\ Lk!ReleaseLock(p)
      /\ tmp' = tmp /\ barrier' = barrier
  BY DEF LeaveLock, counters
<1>2. PICK s \in Stages, l \in {"wait", "open", "call", "loop"} :
        /\ GoTo(p, s, l)
        /\ Phase(s) = Phase(stage[p])
        /\ stage[p] \in BarrierNames <=> l = "wait"
        /\ l = "wait" => s = stage[p]
  BY DEF LeaveLock, Phase, Stages, Critical, WorkStages
<1>3. GuestTypes'
  BY <1>1, <1>2 DEF GuestInv, GuestTypes, GoTo, Lines
<1>4. stage'[p] = s /\ line'[p] = l /\ at'[p] = "out"
  BY <1>1, <1>2 DEF GuestInv, GuestTypes, GoTo, Lk!LockInv, Lk!LockTypeOK, Lk!ReleaseLock, Lk!Goto
<1>5. \A q \in Procs \ {p} : Untouched(q)
  BY <1>1, <1>2 DEF GuestInv, GuestTypes, GoTo, Lk!LockInv, Lk!LockTypeOK, Lk!ReleaseLock, Lk!Goto, Untouched
<1>6. Lk!LockInv'
  <2>1. Lk!LockNext
    BY <1>1 DEF Lk!LockNext
  <2> QED
    BY <2>1, LockStays DEF GuestInv
<1>7. LineFits(p)'
  BY <1>2, <1>4 DEF LineFits, Locked
<1>8. \A q \in Procs : LineFits(q)'
  BY <1>1, <1>5, <1>7, UntouchedFits DEF GuestInv
<1>9. /\ PassedBarriers(p)' = PassedBarriers(p)
      /\ ArrivedBarriers(p)' = ArrivedBarriers(p)
  BY <1>1, <1>2, <1>4 DEF PassedBarriers, ArrivedBarriers, CountedIn
<1>10. Quiet
  BY <1>5, <1>9, UntouchedQuiet DEF Quiet
<1>11. BarrierCounts'
  BY <1>1, <1>10, CountsStay DEF GuestInv, Quiet
<1> QED
  BY <1>3, <1>6, <1>8, <1>10, <1>11 DEF GuestInv

\* A core that leaves the waiting loop has read the number of cores, so the
\* cores counted in are all of them.
LEMMA PassPasses ==
  ASSUME GuestInv, NEW p \in Procs, PassBarrier(p)
  PROVE  /\ GuestInv'
         /\ ArrivedBarriers(p) = PassedBarriers(p) + 1
         /\ \A q \in Procs : ArrivedBarriers(q) >= ArrivedBarriers(p)
         /\ PassedBarriers(p)' = PassedBarriers(p) + 1
         /\ ArrivedBarriers(p)' = ArrivedBarriers(p)
         /\ \A q \in Procs \ {p} : Untouched(q)
<1> DEFINE b == stage[p]
<1> USE NamesOfBarriers
<1>1. /\ b \in BarrierNames /\ line[p] = "wait" /\ barrier[b] = NumberOfProc
      /\ GoTo(p, Behind(b, p), Entry(b, p))
      /\ UNCHANGED lockState /\ tmp' = tmp /\ barrier' = barrier
  BY DEF PassBarrier, counters
<1>2. /\ Behind(b, p) \in Stages /\ Entry(b, p) \in {"divide", "open", "call", "stopped", "loop"}
      /\ Phase(Behind(b, p)) = Phase(b) + 1
  BY <1>1 DEF Behind, Entry, Phase, Stages, Critical, WorkStages
<1>3. GuestTypes'
  BY <1>1, <1>2 DEF GuestInv, GuestTypes, GoTo, Lines
<1>4. /\ stage'[p] = Behind(b, p) /\ line'[p] = Entry(b, p)
      /\ at' = at /\ want' = want
  BY <1>1 DEF GuestInv, GuestTypes, GoTo, lockState
<1>5. \A q \in Procs \ {p} : Untouched(q)
  BY <1>1 DEF GuestInv, GuestTypes, GoTo, lockState, Untouched
<1>6. Lk!LockInv'
  BY <1>1, LockStays DEF GuestInv
<1>7. LineFits(p)'
  BY <1>1, <1>2, <1>4 DEF GuestInv, LineFits, Locked
<1>8. \A q \in Procs : LineFits(q)'
  BY <1>1, <1>5, <1>7, UntouchedFits DEF GuestInv
<1>9. /\ ArrivedBarriers(p) = PassedBarriers(p) + 1
      /\ ArrivedBarriers(p) = Place(b)
      /\ PassedBarriers(p)' = PassedBarriers(p) + 1
      /\ ArrivedBarriers(p)' = ArrivedBarriers(p)
  BY <1>1, <1>2, <1>4, PhaseType DEF PassedBarriers, ArrivedBarriers, CountedIn, Place
<1>10. Counted(b) = Procs
  <2>1. Counted(b) \in SUBSET Procs /\ Cardinality(Procs) = Cardinality(Counted(b))
    BY <1>1, CoresAssumption DEF Counted, GuestInv, BarrierCounts
  <2> QED
    BY <2>1, CoresAssumption, FS_Subset
<1>11. \A q \in Procs : ArrivedBarriers(q) >= ArrivedBarriers(p)
  BY <1>9, <1>10 DEF Counted
<1>12. BarrierCounts'
  BY <1>1, <1>5, <1>9, UntouchedQuiet, CountsStay DEF GuestInv
<1> QED
  BY <1>3, <1>5, <1>6, <1>8, <1>9, <1>11, <1>12 DEF GuestInv
-----------------------------------------------------------------------------
\* The first states: the lock is free, nobody has counted itself in.
LEMMA GuestInvInit == Init => GuestInv
<1> SUFFICES ASSUME Init PROVE GuestInv
  OBVIOUS
<1>1. Lk!LockInv
  <2>1. Lk!LockTypeOK
    BY DEF Init, Lk!LockInit, Lk!LockTypeOK, Lk!Points, Locks
  <2>2. Lk!RegisterTellsOwner /\ Lk!RegisterMutex /\ Lk!WordTellsOwner /\ Lk!MutualExclusion
    BY DEF Init, Lk!LockInit, Lk!RegisterTellsOwner, Lk!RegisterMutex, Lk!WordTellsOwner,
       Lk!MutualExclusion, Lk!OwnsRegister, Lk!Owns
  <2> QED
    BY <2>1, <2>2 DEF Lk!LockInv
<1>2. GuestTypes
  BY DEF Init, GuestTypes, Stages, Critical, Lines
<1>3. \A p \in Procs : LineFits(p)
  BY DEF Init, Lk!LockInit, LineFits, Locked
<1>4. BarrierCounts
  <2>1. \A p \in Procs : ArrivedBarriers(p) = 0
    BY NamesOfBarriers DEF Init, ArrivedBarriers, PassedBarriers, CountedIn, Phase
  <2>2. ASSUME NEW b \in BarrierNames PROVE Counted(b) = {}
    BY <2>1, <2>2, Places DEF Counted
  <2>3. Cardinality({}) = 0
    BY FS_EmptySet
  <2> QED
    BY <2>2, <2>3 DEF Init, BarrierCounts
<1> QED
  BY <1>1, <1>2, <1>3, <1>4 DEF GuestInv

\* Every step of a core leaves the invariant true, and is seen from the
\* barriers as nothing, as an arrival or as a passage.
LEMMA StepKeeps ==
  ASSUME GuestInv, NEW p \in Procs, Step(p)
  PROVE  GuestInv' /\ (Quiet \/ (Store(p) /\ CountIn(p)) \/ PassBarrier(p))
<1>1. CASE EnterLock(p)
  BY <1>1, EnterKeeps
<1>2. CASE InsideAcquire(p)
  BY <1>2, AcquireKeeps
<1>3. CASE Load(p)
  BY <1>3, LoadKeeps
<1>4. CASE Store(p)
  BY <1>4, StoreKeeps, CountInCounts
<1>5. CASE LeaveLock(p)
  BY <1>5, LeaveKeeps
<1>6. CASE PassBarrier(p)
  BY <1>6, PassPasses
<1>7. CASE \/ ReadPGM(p) \/ OpenFails(p) \/ OpenOutput(p) \/ CloseOutput(p) \/ Divide(p) \/ EndLoop(p)
  BY <1>7, MainSteps, MoveKeeps DEF GuestInv
<1>8. CASE \/ Shift(p) \/ RowDFT(p) \/ ReadColumn(p) \/ ColDFT(p) \/ Log(p)
           \/ LocalMaxMin(p) \/ Scale(p) \/ WriteRow(p)
  BY <1>8, WorkSteps, WorkKeeps
<1> QED
  BY <1>1, <1>2, <1>3, <1>4, <1>5, <1>6, <1>7, <1>8 DEF Step

\* A step of nobody leaves the invariant true.
LEMMA StutterKeeps ==
  ASSUME GuestInv, UNCHANGED vars
  PROVE  GuestInv' /\ Quiet
<1>1. Works
  BY DEF vars, Works, locals, counters
<1> QED
  BY <1>1, WorkKeeps

\* The invariant is inductive.
LEMMA GuestInvStep == GuestInv /\ [Next]_vars => GuestInv'
  BY StepKeeps, StutterKeeps DEF Next

\* For any number of cores and rows: the lock protects every critical section
\* of the guest, and every barrier word is the number of cores that have
\* counted themselves in.
THEOREM GuestSafety == Spec => []GuestInv
<1>1. Init => GuestInv
  BY GuestInvInit
<1>2. GuestInv /\ [Next]_vars => GuestInv'
  BY GuestInvStep
<1> QED
  BY <1>1, <1>2, PTL DEF Spec

-----------------------------------------------------------------------------
\* A store of a count is the arrival of its core at the next barrier.
LEMMA CountInArrives ==
  ASSUME GuestInv, NEW p \in Procs, Store(p), CountIn(p)
  PROVE  Phases!Arrive(p)
<1>1. /\ PassedBarriers(p)' = PassedBarriers(p)
      /\ ArrivedBarriers(p) = PassedBarriers(p)
      /\ ArrivedBarriers(p)' = PassedBarriers(p) + 1
      /\ PassedBarriers(p) < 7
      /\ \A q \in Procs \ {p} : Untouched(q)
  BY CountInCounts
<1>2. \A q \in Procs : PassedBarriers(q)' = PassedBarriers(q)
  BY <1>1, UntouchedQuiet
<1>3. \A q \in Procs : ArrivedBarriers(q)' = IF q = p THEN ArrivedBarriers(p) + 1 ELSE ArrivedBarriers(q)
  BY <1>1, UntouchedQuiet
<1>4. Len(BarrierOrder) = 7
  BY DEF BarrierOrder
<1> QED
  BY <1>1, <1>2, <1>3, <1>4 DEF Phases!Arrive

\* A core that leaves the waiting loop passes the barrier all cores arrived at.
LEMMA PassBarrierPasses ==
  ASSUME GuestInv, NEW p \in Procs, PassBarrier(p)
  PROVE  Phases!Pass(p)
<1>1. /\ ArrivedBarriers(p) = PassedBarriers(p) + 1
      /\ \A q \in Procs : ArrivedBarriers(q) >= ArrivedBarriers(p)
      /\ PassedBarriers(p)' = PassedBarriers(p) + 1
      /\ ArrivedBarriers(p)' = ArrivedBarriers(p)
      /\ \A q \in Procs \ {p} : Untouched(q)
  BY PassPasses
<1>2. \A q \in Procs : ArrivedBarriers(q)' = ArrivedBarriers(q)
  BY <1>1, UntouchedQuiet
<1>3. \A q \in Procs : PassedBarriers(q)' = IF q = p THEN PassedBarriers(p) + 1 ELSE PassedBarriers(q)
  BY <1>1, UntouchedQuiet
<1> QED
  BY <1>1, <1>2, <1>3, ArrivedType DEF Phases!Pass

\* Any other step is one the barriers do not see.
LEMMA QuietStutters ==
  ASSUME Quiet
  PROVE  UNCHANGED Phases!barrierVars
BY DEF Quiet, Phases!barrierVars

\* For any number of cores and rows, the seven counters of the image guest
\* implement the chain of barriers its phases rely on.
THEOREM ImageRefinesBarriers == Spec => ImplementsBarriers
<1>1. Init => Phases!BarrierInit
  BY NamesOfBarriers DEF Init, Phases!BarrierInit, PassedBarriers, ArrivedBarriers, CountedIn, Phase
<1>2. GuestInv /\ [Next]_vars => [Phases!BarrierNext]_(Phases!barrierVars)
  BY StepKeeps, StutterKeeps, CountInArrives, PassBarrierPasses, QuietStutters
     DEF Next, Phases!BarrierNext
<1> QED
  BY <1>1, <1>2, GuestSafety, PTL DEF Spec, ImplementsBarriers, Phases!BarrierSpec

\* What is known of any chain of barriers.
BP == INSTANCE BarrierProofs WITH
  Barriers <- Len(BarrierOrder),
  passed <- [p \in Procs |-> PassedBarriers(p)],
  arrived <- [p \in Procs |-> ArrivedBarriers(p)]

\* For any number of cores and rows, no core is ever more than one phase of
\* main ahead of another, so no row or extreme is overwritten while it is read.
THEOREM ImageLockstep == Spec => []PhasesInLockstep
<1>1. ImplementsBarriers => BP!BarrierSpec
  BY Zenon DEF ImplementsBarriers, Phases!BarrierSpec, BP!BarrierSpec, Phases!BarrierInit, BP!BarrierInit,
     Phases!BarrierNext, BP!BarrierNext, Phases!Arrive, BP!Arrive, Phases!Pass, BP!Pass,
     Phases!barrierVars, BP!barrierVars
<1>2. BP!BarrierSpec => [](BP!BarrierTypeOK /\ BP!Lockstep)
  BY BP!BarrierLockstep
<1>3. BP!Lockstep => PhasesInLockstep
  BY DEF BP!Lockstep, PhasesInLockstep, Phases!Lockstep
<1> QED
  BY <1>1, <1>2, <1>3, ImageRefinesBarriers, PTL
-----------------------------------------------------------------------------
(***************************************************************************)
(* The image guest hands out the rows fairly and completely, for every     *)
(* number of cores and rows: every row belongs to one core, and no core    *)
(* has two rows more than another.                                         *)
(***************************************************************************)

Quotient == Rows \div NumberOfProc
Remainder == Rows % NumberOfProc

\* The cores that have an id, those that have a number of rows, those of them
\* that took one of the rows left over, and those that have a first row too.
Identified == {p \in Procs : stage[p] # "getProcID" \/ line[p] = "release"}
Sized ==
  {p \in Procs : /\ stage[p] \notin {"getProcID", "readPGM", "barrier6"}
                 /\ stage[p] = "getProcRow" => line[p] = "release"}
Extra == {p \in Sized : procRow[p] = Quotient + 1}
Placed ==
  {p \in Sized : /\ stage[p] # "getProcRow"
                 /\ stage[p] = "getStartPoint" => line[p] = "release"}

RowTypes ==
  /\ procID \in [Procs -> Int]
  /\ procRow \in [Procs -> Nat]
  /\ procStartPoint \in [Procs -> Nat]
  /\ procIDCounter \in Nat
  /\ rowsRemaining \in Int
  /\ startPoint \in Nat
  /\ row \in {0, Rows}

\* What a core about to store has loaded is still there; what it has taken
\* fits the place it is at.
CoreFits(p) ==
  /\ At(p, "getProcID", "store") => tmp[p] = procIDCounter
  /\ At(p, "getProcRow", "store") => tmp[p] = rowsRemaining
  /\ At(p, "getStartPoint", "store") => tmp[p] = startPoint
  /\ stage[p] = "getProcRow" /\ line[p] \in {"call", "load", "store"} => procRow[p] = Quotient
  /\ p \in Sized => procRow[p] \in {Quotient, Quotient + 1}
  /\ procID[p] = 0 /\ p \in Identified /\ stage[p] \notin {"getProcID", "readPGM"} => row = Rows

\* The ids are counted, and the first one given out is 0.
IdsCounted ==
  /\ procIDCounter = Cardinality(Identified)
  /\ Identified # {} => \E p \in Identified : procID[p] = 0

\* The rows left over are those nobody has taken yet; the first core in takes
\* none, and each later one takes one while there are any.
RestCounted ==
  \/ rowsRemaining = -1 /\ Sized = {}
  \/ /\ rowsRemaining \in Nat
     /\ Sized # {}
     /\ Cardinality(Extra) + rowsRemaining = Remainder
     /\ rowsRemaining # 0 => Cardinality(Sized) = Cardinality(Extra) + 1

\* The shares placed so far fill the rows before startPoint, without overlap.
SharesPlaced ==
  /\ startPoint = Quotient * Cardinality(Placed) + Cardinality(Placed \cap Extra)
  /\ UNION {Share(p) : p \in Placed} = 0 .. startPoint - 1
  /\ \A p, q \in Placed : p # q => Share(p) \cap Share(q) = {}

RowsInv ==
  /\ RowTypes
  /\ \A p \in Procs : CoreFits(p)
  /\ IdsCounted
  /\ RestCounted
  /\ SharesPlaced

-----------------------------------------------------------------------------
\* There is a core, the division of the rows by the cores is exact up to the
\* remainder, and there is less of it than cores.
LEMMA Division ==
  /\ NumberOfProc \in Nat \ {0}
  /\ Quotient \in Nat
  /\ Remainder \in 0 .. NumberOfProc - 1
  /\ Rows = Quotient * NumberOfProc + Remainder
<1>1. NumberOfProc \in Nat \ {0} /\ Rows \in Nat
  BY CoresAssumption, RowsAssumption, FS_CardinalityType
<1>2. ASSUME NEW n \in Nat \ {0}, NEW r \in Nat
      PROVE  /\ r \div n \in Nat
             /\ r % n \in 0 .. n - 1
             /\ r = (r \div n) * n + (r % n)
  BY SMTT(60)
<1> QED
  BY <1>1, <1>2 DEF Quotient, Remainder

\* All these sets of cores are finite.
LEMMA FiniteCores ==
  /\ IsFiniteSet(Identified) /\ IsFiniteSet(Sized) /\ IsFiniteSet(Extra)
  /\ IsFiniteSet(Placed) /\ IsFiniteSet(Placed \cap Extra)
  /\ Cardinality(Identified) \in Nat /\ Cardinality(Sized) \in Nat /\ Cardinality(Extra) \in Nat
  /\ Cardinality(Placed) \in Nat /\ Cardinality(Placed \cap Extra) \in Nat
<1>1. \A S \in SUBSET Procs : IsFiniteSet(S) /\ Cardinality(S) \in Nat
  BY CoresAssumption, FS_Subset, FS_CardinalityType
<1>2. /\ Identified \in SUBSET Procs /\ Sized \in SUBSET Procs /\ Extra \in SUBSET Procs
      /\ Placed \in SUBSET Procs /\ Placed \cap Extra \in SUBSET Procs
  BY DEF Identified, Sized, Extra, Placed
<1> QED
  BY <1>1, <1>2

\* The cores that ImageDFT calls Sharing are those that have their share.
LEMMA SharingPlaced == GuestTypes => Sharing = Placed
BY NamesOfBarriers DEF GuestTypes, Sharing, Placed, Sized, Stages, Critical, WorkStages

\* A core past the first barrier divides by the number of cores, and the image
\* has been read: everybody has arrived, the core with id 0 after reading it.
LEMMA AllIdentified ==
  ASSUME GuestInv, PhasesInLockstep, RowsInv, NEW p \in Procs, PassedBarriers(p) >= 1
  PROVE  procIDCounter = NumberOfProc /\ row = Rows
<1>1. ASSUME NEW q \in Procs PROVE ArrivedBarriers(q) >= 1
  BY ArrivedType DEF PhasesInLockstep, Phases!Lockstep
<1>2. ASSUME NEW q \in Procs PROVE stage[q] \notin {"getProcID", "readPGM"}
  BY <1>1, NamesOfBarriers DEF ArrivedBarriers, PassedBarriers, CountedIn, Phase
<1>3. Identified = Procs
  BY <1>2 DEF Identified
<1>4. PICK q \in Procs : procID[q] = 0
  BY <1>3 DEF RowsInv, IdsCounted
<1> QED
  BY <1>2, <1>3, <1>4, CoresAssumption DEF RowsInv, CoreFits, IdsCounted
-----------------------------------------------------------------------------
(* What the steps that hand out nothing keep.                               *)

\* A step that hands out nothing: ids, sizes and first rows are as they were,
\* and no core comes to have any of them.
HandedOut == <<procID, procRow, procStartPoint, procIDCounter, rowsRemaining, startPoint>>

HandsOutNothing ==
  /\ UNCHANGED HandedOut
  /\ row' \in {row, Rows}
  /\ Identified' = Identified /\ Sized' = Sized /\ Placed' = Placed

\* A core that does not move still fits when nothing is handed out.
LEMMA OthersFit ==
  ASSUME NEW q \in Procs, CoreFits(q), Untouched(q), HandsOutNothing, row \in {0, Rows}
  PROVE  CoreFits(q)'
BY DEF CoreFits, Untouched, HandsOutNothing, HandedOut, At

\* Such a step leaves the invariant true.
LEMMA NothingKeeps ==
  ASSUME RowsInv, HandsOutNothing, \A p \in Procs : CoreFits(p)'
  PROVE  RowsInv'
<1>1. RowTypes'
  BY DEF RowsInv, RowTypes, HandsOutNothing, HandedOut
<1>2. IdsCounted'
  BY DEF RowsInv, IdsCounted, HandsOutNothing, HandedOut
<1>3. Extra' = Extra
  BY DEF Extra, HandsOutNothing, HandedOut
<1>4. RestCounted'
  BY <1>3 DEF RowsInv, RestCounted, HandsOutNothing, HandedOut
<1>5. \A p \in Procs : Share(p)' = Share(p)
  BY DEF Share, HandsOutNothing, HandedOut
<1>6. SharesPlaced'
  <2>1. Placed \subseteq Procs
    BY DEF Placed, Sized
  <2>2. {Share(p)' : p \in Placed'} = {Share(p) : p \in Placed}
    BY <1>5, <2>1 DEF HandsOutNothing, HandedOut
  <2>3. startPoint' = startPoint /\ Placed' = Placed
    BY DEF HandsOutNothing, HandedOut
  <2> QED
    BY <1>3, <1>5, <2>1, <2>2, <2>3 DEF RowsInv, SharesPlaced
<1> QED
  BY <1>1, <1>2, <1>4, <1>6 DEF RowsInv

\* A step of one core that changes none of its standing hands out nothing.
LEMMA QuietStepKeeps ==
  ASSUME RowsInv, NEW p \in Procs,
         \A q \in Procs \ {p} : Untouched(q),
         UNCHANGED HandedOut, row' \in {row, Rows},
         p \in Identified' <=> p \in Identified,
         p \in Sized' <=> p \in Sized,
         p \in Placed' <=> p \in Placed,
         CoreFits(p)'
  PROVE  RowsInv'
<1>1. HandsOutNothing
  <2>1. Identified' = Identified
    BY DEF Identified, Untouched
  <2>2. Sized' = Sized
    BY DEF Sized, Untouched
  <2>3. Placed' = Placed
    BY <2>2 DEF Placed, Sized, Untouched
  <2> QED
    BY <2>1, <2>2, <2>3 DEF HandsOutNothing
<1>2. \A q \in Procs : CoreFits(q)'
  BY <1>1, OthersFit DEF RowsInv, RowTypes
<1> QED
  BY <1>1, <1>2, NothingKeeps

\* Work on rows changes neither what is handed out nor where cores are.
LEMMA WorkHandsOut ==
  ASSUME RowsInv, NEW p \in Procs,
         \/ Shift(p) \/ RowDFT(p) \/ ReadColumn(p) \/ ColDFT(p) \/ Log(p)
         \/ LocalMaxMin(p) \/ Scale(p) \/ WriteRow(p)
  PROVE  RowsInv'
<1>1. UNCHANGED HandedOut /\ row' = row
  BY DEF HandedOut, Shift, RowDFT, ReadColumn, ColDFT, Log, LocalMaxMin, Scale, WriteRow, locals, counters, image
<1>2. \A q \in Procs : Untouched(q)
  BY WorkSteps DEF Works, control, lockState, Untouched
<1>3. UNCHANGED control
  BY WorkSteps DEF Works
<1>4. p \in Procs /\ CoreFits(p)'
  BY <1>1, <1>2, <1>3 DEF RowsInv, CoreFits, Untouched, HandedOut, At, control, Identified, Sized
<1> QED
  BY <1>1, <1>2, <1>3, <1>4, QuietStepKeeps DEF control, Identified, Sized, Placed

\* Nor does a move inside a phase that is not a division.
LEMMA MoveHandsOut ==
  ASSUME GuestInv, RowsInv, NEW p \in Procs,
         ReadPGM(p) \/ OpenFails(p) \/ OpenOutput(p) \/ CloseOutput(p) \/ EndLoop(p)
  PROVE  RowsInv'
<1>1. UNCHANGED HandedOut /\ row' \in {row, Rows} /\ tmp' = tmp
  BY DEF HandedOut, ReadPGM, OpenFails, OpenOutput, CloseOutput, EndLoop, locals, counters, image
<1>2. \A q \in Procs \ {p} : Untouched(q)
  BY DEF ReadPGM, OpenFails, OpenOutput, CloseOutput, EndLoop, GoTo, GuestInv, GuestTypes, lockState, locals, Untouched
<1>3. PICK s \in Stages, l \in Lines : GoTo(p, s, l)
  BY MainSteps DEF GuestInv, MovesOn
<1>4. stage'[p] = s /\ line'[p] = l
  BY <1>3 DEF GuestInv, GuestTypes, GoTo
<1>5. /\ p \in Identified' <=> p \in Identified
      /\ p \in Sized' <=> p \in Sized
      /\ p \in Placed' <=> p \in Placed
      /\ CoreFits(p)'
  <2>1. CASE ReadPGM(p)
    <3>1. stage[p] = "readPGM" /\ stage'[p] = "barrier6" /\ line'[p] = "call" /\ row' = Rows
      BY <2>1 DEF ReadPGM, At, GoTo, GuestInv, GuestTypes
    <3> QED
      BY <3>1 DEF Identified, Sized, Placed, CoreFits, At
  <2>2. CASE OpenFails(p)
    <3>1. stage[p] \in {"readPGM", "writePGM"} /\ stage' = stage /\ line'[p] = "stopped" /\ row' = row
      BY <2>2 DEF OpenFails, At, GuestInv, GuestTypes, image
    <3> QED
      BY <1>1, <3>1 DEF RowsInv, Identified, Sized, Placed, CoreFits, At, HandedOut
  <2>3. CASE OpenOutput(p) \/ CloseOutput(p) \/ EndLoop(p)
    <3>1. /\ stage[p] \in {"writePGM"} \cup WorkStages
          /\ stage'[p] \in {"writePGM", "barrier0", "barrier5", "log", "barrier1", "maxLock", "barrier3", "barrier4"}
          /\ row' = row
      BY <2>3 DEF OpenOutput, CloseOutput, EndLoop, At, GoTo, GuestInv, GuestTypes, image, WorkStages
    <3> QED
      BY <1>1, <3>1 DEF RowsInv, Identified, Sized, Placed, CoreFits, At, HandedOut, WorkStages
  <2> QED
    BY <2>1, <2>2, <2>3
<1> QED
  BY <1>1, <1>2, <1>5, QuietStepKeeps

\* Nor do calling a lock, waiting in it, loading, leaving it and passing a
\* barrier.
LEMMA LockStepHandsOut ==
  ASSUME GuestInv, RowsInv, NEW p \in Procs,
         EnterLock(p) \/ InsideAcquire(p) \/ Load(p) \/ LeaveLock(p) \/ PassBarrier(p)
  PROVE  RowsInv'
<1>1. UNCHANGED HandedOut /\ row' = row
  BY DEF HandedOut, EnterLock, InsideAcquire, Load, LeaveLock, PassBarrier, locals, counters, image
<1>2. CASE EnterLock(p)
  <2>1. /\ stage' = stage /\ line[p] = "call" /\ line'[p] = "load" /\ stage[p] \in Critical
        /\ \A q \in Procs \ {p} : Untouched(q)
    BY <1>2 DEF EnterLock, locals, Lk!Call, Lk!Goto, Untouched, GuestInv, GuestTypes,
       Lk!LockInv, Lk!LockTypeOK
  <2>2. CoreFits(p)'
    BY <1>1, <2>1 DEF RowsInv, CoreFits, At, HandedOut, Identified, Sized
  <2> QED
    BY <1>1, <2>1, <2>2, QuietStepKeeps DEF Identified, Sized, Placed
<1>3. CASE InsideAcquire(p)
  <2>1. /\ stage' = stage /\ line' = line /\ tmp' = tmp
        /\ \A q \in Procs \ {p} : Untouched(q)
    BY <1>3 DEF InsideAcquire, control, locals, Lk!AcquireStep, Lk!ReadRegister, Lk!TestLocal,
       Lk!GiveBack, Lk!SetLocal, Lk!Return, Lk!Goto, Untouched, GuestInv, GuestTypes,
       Lk!LockInv, Lk!LockTypeOK
  <2>2. CoreFits(p)'
    BY <1>1, <2>1 DEF RowsInv, CoreFits, At, HandedOut, Identified, Sized
  <2> QED
    BY <1>1, <2>1, <2>2, QuietStepKeeps DEF Identified, Sized, Placed
<1>4. CASE Load(p)
  <2>1. /\ stage' = stage /\ line[p] = "load" /\ line'[p] = "store" /\ tmp'[p] = Shared(stage[p])
        /\ \A q \in Procs \ {p} : Untouched(q)
    BY <1>4 DEF Load, lockState, Untouched, GuestInv, GuestTypes
  <2>2. CoreFits(p)'
    BY <1>1, <2>1, NamesOfBarriers DEF RowsInv, CoreFits, At, HandedOut, Identified, Sized, Shared
  <2> QED
    BY <1>1, <2>1, <2>2, QuietStepKeeps DEF Identified, Sized, Placed
<1>5. CASE LeaveLock(p)
  <2>1. /\ line[p] = "release" /\ line'[p] \in {"wait", "open", "call", "loop"}
        /\ \/ stage[p] \in BarrierNames /\ stage'[p] = stage[p]
           \/ stage[p] = "getProcID" /\ procID[p] = 0 /\ stage'[p] = "readPGM"
           \/ stage[p] = "getProcID" /\ procID[p] # 0 /\ stage'[p] = "barrier6"
           \/ stage[p] = "getProcRow" /\ stage'[p] = "getStartPoint"
           \/ stage[p] = "getStartPoint" /\ stage'[p] = "desloca_origem"
           \/ stage[p] = "maxLock" /\ stage'[p] = "minLock"
           \/ stage[p] = "minLock" /\ stage'[p] = "barrier2"
    BY <1>5 DEF LeaveLock, GoTo, GuestInv, GuestTypes
  <2>2. \A q \in Procs \ {p} : Untouched(q)
    BY <1>5 DEF LeaveLock, GoTo, Lk!ReleaseLock, Lk!Goto, Untouched, GuestInv, GuestTypes,
       Lk!LockInv, Lk!LockTypeOK
  <2>3. CoreFits(p)'
    BY <1>1, <2>1, NamesOfBarriers DEF RowsInv, CoreFits, At, HandedOut, Identified, Sized
  <2> QED
    BY <1>1, <2>1, <2>2, <2>3, NamesOfBarriers, QuietStepKeeps DEF Identified, Sized, Placed
<1>6. CASE PassBarrier(p)
  <2>1. /\ stage[p] \in BarrierNames /\ stage'[p] = Behind(stage[p], p) /\ line'[p] = Entry(stage[p], p)
        /\ \A q \in Procs \ {p} : Untouched(q)
    BY <1>6 DEF PassBarrier, GoTo, lockState, Untouched, GuestInv, GuestTypes
  <2>2. CoreFits(p)'
    BY <1>1, <2>1, NamesOfBarriers DEF RowsInv, CoreFits, At, HandedOut, Identified, Sized, Behind, Entry
  <2> QED
    BY <1>1, <2>1, <2>2, NamesOfBarriers, QuietStepKeeps DEF Identified, Sized, Placed, Behind, Entry
<1> QED
  BY <1>2, <1>3, <1>4, <1>5, <1>6

-----------------------------------------------------------------------------
(* The steps that hand out.                                                 *)

\* Two cores are never about to store the same word.
LEMMA OneStores ==
  ASSUME GuestInv, NEW p \in Procs, NEW q \in Procs, line[p] = "store", line[q] = "store",
         stage[p] = stage[q]
  PROVE  p = q
<1>1. at[p] = "in" /\ at[q] = "in" /\ want[p] = LockOf(stage[p]) /\ want[q] = LockOf(stage[q])
      /\ stage[p] \in Critical
  BY DEF GuestInv, LineFits, Locked
<1>2. LockOf(stage[p]) \in Locks
  BY <1>1, LocksOfCritical
<1> QED
  BY <1>1, <1>2 DEF GuestInv, Lk!LockInv, Lk!MutualExclusion, Lk!Owns

\* What all stores have in common.
LEMMA StoreMoves ==
  ASSUME GuestInv, NEW p \in Procs, Store(p)
  PROVE  /\ line[p] = "store" /\ stage' = stage /\ line'[p] = "release" /\ row' = row
         /\ \A q \in Procs \ {p} : Untouched(q)
BY DEF Store, StoreProcID, StoreProcRow, StoreStartPoint, StoreMax, StoreMin, CountIn, At,
   lockState, image, Untouched, GuestInv, GuestTypes

\* The stores of the extremes and of the counts hand out nothing.
LEMMA OtherStoreHandsOut ==
  ASSUME GuestInv, RowsInv, NEW p \in Procs, Store(p), StoreMax(p) \/ StoreMin(p) \/ CountIn(p)
  PROVE  RowsInv'
<1>1. /\ UNCHANGED HandedOut
      /\ stage[p] \in {"maxLock", "minLock"} \cup BarrierNames
  BY DEF StoreMax, StoreMin, CountIn, At, HandedOut, counters
<1>2. CoreFits(p)'
  BY <1>1, StoreMoves, NamesOfBarriers DEF RowsInv, CoreFits, At, HandedOut, Identified, Sized
<1> QED
  BY <1>1, <1>2, StoreMoves, NamesOfBarriers, QuietStepKeeps DEF Identified, Sized, Placed

\* The next id is given out, once.
LEMMA StoreProcIDKeeps ==
  ASSUME GuestInv, RowsInv, NEW p \in Procs, Store(p), StoreProcID(p)
  PROVE  RowsInv'
<1>1. /\ stage[p] = "getProcID" /\ line[p] = "store" /\ tmp[p] = procIDCounter
      /\ procID' = [procID EXCEPT ![p] = tmp[p]] /\ procIDCounter' = tmp[p] + 1
      /\ UNCHANGED <<procRow, procStartPoint, rowsRemaining, startPoint>>
  BY DEF StoreProcID, At, RowsInv, CoreFits
<1>2. /\ stage' = stage /\ line'[p] = "release" /\ row' = row
      /\ \A q \in Procs \ {p} : Untouched(q)
  BY StoreMoves
<1>3. RowTypes'
  BY <1>1, <1>2 DEF RowsInv, RowTypes
<1>4. p \notin Identified /\ Identified' = Identified \cup {p}
  BY <1>1, <1>2 DEF Identified, Untouched
<1>5. Sized' = Sized
  BY <1>1, <1>2 DEF Sized, Untouched
<1>6. Placed' = Placed
  BY <1>1, <1>2, <1>5 DEF Placed, Sized, Untouched
<1>7. Extra' = Extra
  BY <1>1, <1>5 DEF Extra
<1>8. CoreFits(p)'
  BY <1>1, <1>2 DEF CoreFits, At, Sized
<1>9. ASSUME NEW q \in Procs \ {p} PROVE CoreFits(q)'
  <2>1. ~At(q, "getProcID", "store")
    BY <1>1, OneStores DEF At
  <2>2. procID'[q] = procID[q]
    BY <1>1 DEF RowsInv, RowTypes
  <2> QED
    BY <1>1, <1>2, <1>4, <1>5, <2>1, <2>2 DEF RowsInv, CoreFits, At, Untouched
<1>10. IdsCounted'
  <2>1. Cardinality(Identified') = Cardinality(Identified) + 1
    BY <1>4, FiniteCores, FS_AddElement
  <2>2. CASE Identified = {}
    <3>1. procIDCounter = 0
      BY <2>2, FS_EmptySet DEF RowsInv, IdsCounted
    <3>2. procID'[p] = 0
      BY <1>1, <3>1 DEF RowsInv, RowTypes
    <3> QED
      BY <1>1, <1>4, <2>1, <3>2 DEF RowsInv, IdsCounted
  <2>3. CASE Identified # {}
    <3>1. PICK q \in Identified : procID[q] = 0
      BY <2>3 DEF RowsInv, IdsCounted
    <3>2. procID'[q] = 0
      BY <1>1, <1>4, <3>1 DEF RowsInv, RowTypes, Identified
    <3> QED
      BY <1>1, <1>4, <2>1, <3>2 DEF RowsInv, IdsCounted
  <2> QED
    BY <2>2, <2>3
<1>11. RestCounted'
  BY <1>1, <1>5, <1>7 DEF RowsInv, RestCounted
<1>12. SharesPlaced'
  <2>1. \A q \in Procs : Share(q)' = Share(q)
    BY <1>1 DEF Share
  <2>2. Placed \subseteq Procs
    BY DEF Placed, Sized
  <2>3. {Share(q)' : q \in Placed'} = {Share(q) : q \in Placed}
    BY <1>6, <2>1, <2>2
  <2> QED
    BY <1>1, <1>6, <1>7, <2>1, <2>2, <2>3 DEF RowsInv, SharesPlaced
<1> QED
  BY <1>3, <1>8, <1>9, <1>10, <1>11, <1>12 DEF RowsInv

\* The division that starts a share is of all rows by all cores.
LEMMA DivideKeeps ==
  ASSUME GuestInv, PhasesInLockstep, RowsInv, NEW p \in Procs, Divide(p)
  PROVE  RowsInv'
<1>1. /\ stage[p] = "getProcRow" /\ line[p] = "divide" /\ line'[p] = "call"
      /\ procRow' = [procRow EXCEPT ![p] = row \div procIDCounter]
      /\ stage' = stage /\ row' = row
      /\ UNCHANGED <<procID, procStartPoint, procIDCounter, rowsRemaining, startPoint>>
      /\ \A q \in Procs \ {p} : Untouched(q)
  BY DEF Divide, At, counters, image, lockState, Untouched, GuestInv, GuestTypes
<1>2. procRow' = [procRow EXCEPT ![p] = Quotient]
  <2>1. PassedBarriers(p) >= 1
    BY <1>1 DEF PassedBarriers, Phase
  <2>2. procIDCounter = NumberOfProc /\ row = Rows
    BY <2>1, AllIdentified
  <2> QED
    BY <1>1, <2>2 DEF Quotient
<1>3. RowTypes'
  BY <1>1, <1>2, Division DEF RowsInv, RowTypes
<1>4. Identified' = Identified /\ Sized' = Sized /\ p \notin Sized
  BY <1>1 DEF Identified, Sized, Untouched
<1>5. Placed' = Placed
  BY <1>1, <1>4 DEF Placed, Sized, Untouched
<1>6. \A q \in Procs \ {p} : procRow'[q] = procRow[q]
  BY <1>2 DEF RowsInv, RowTypes
<1>7. Extra' = Extra
  BY <1>4, <1>6 DEF Extra, Sized
<1>8. CoreFits(p)'
  <2>1. procRow'[p] = Quotient
    BY <1>2 DEF RowsInv, RowTypes
  <2> QED
    BY <1>1, <1>4, <2>1 DEF RowsInv, CoreFits, At, Identified
<1>9. ASSUME NEW q \in Procs \ {p} PROVE CoreFits(q)'
  BY <1>1, <1>4, <1>6 DEF RowsInv, CoreFits, At, Untouched
<1>10. IdsCounted' /\ RestCounted'
  BY <1>1, <1>4, <1>7 DEF RowsInv, IdsCounted, RestCounted
<1>11. SharesPlaced'
  <2>1. Placed \subseteq Procs \ {p}
    BY <1>4 DEF Placed, Sized
  <2>2. \A q \in Placed : Share(q)' = Share(q)
    BY <1>1, <1>6, <2>1 DEF Share
  <2>3. {Share(q)' : q \in Placed'} = {Share(q) : q \in Placed}
    BY <1>5, <2>2
  <2> QED
    BY <1>1, <1>5, <1>7, <2>2, <2>3 DEF RowsInv, SharesPlaced
<1> QED
  BY <1>3, <1>8, <1>9, <1>10, <1>11 DEF RowsInv

\* The rows left over are counted: the first core in takes none of them and
\* knows how many there are, the others take one each as long as they last.
LEMMA StoreProcRowKeeps ==
  ASSUME GuestInv, PhasesInLockstep, RowsInv, NEW p \in Procs, Store(p), StoreProcRow(p)
  PROVE  RowsInv'
<1>1. /\ stage[p] = "getProcRow" /\ line[p] = "store" /\ tmp[p] = rowsRemaining
      /\ procRow[p] = Quotient
      /\ UNCHANGED <<procID, procStartPoint, procIDCounter, startPoint>>
  BY DEF StoreProcRow, At, RowsInv, CoreFits
<1>2. /\ stage' = stage /\ line'[p] = "release" /\ row' = row
      /\ \A q \in Procs \ {p} : Untouched(q)
  BY StoreMoves
<1>3. \/ /\ rowsRemaining = -1 /\ rowsRemaining' = Remainder /\ procRow' = procRow
      \/ /\ rowsRemaining \notin {-1, 0} /\ rowsRemaining' = rowsRemaining - 1
         /\ procRow' = [procRow EXCEPT ![p] = Quotient + 1]
      \/ /\ rowsRemaining = 0 /\ rowsRemaining' = 0 /\ procRow' = procRow
  <2>1. PassedBarriers(p) >= 1
    BY <1>1 DEF PassedBarriers, Phase
  <2>2. procIDCounter = NumberOfProc /\ row = Rows
    BY <2>1, AllIdentified
  <2> QED
    BY <1>1, <2>2 DEF StoreProcRow, Remainder, RowsInv, RowTypes
<1>4. Identified' = Identified /\ Sized' = Sized \cup {p} /\ p \notin Sized
  BY <1>1, <1>2 DEF Identified, Sized, Untouched
<1>5. Placed' = Placed /\ p \notin Placed
  BY <1>1, <1>2, <1>4 DEF Placed, Sized, Untouched
<1>6. \A q \in Procs \ {p} : procRow'[q] = procRow[q]
  BY <1>3 DEF RowsInv, RowTypes
<1>7. procRow'[p] \in {Quotient, Quotient + 1}
  BY <1>1, <1>3, Division DEF RowsInv, RowTypes
<1>8. RowTypes'
  BY <1>1, <1>2, <1>3, Division DEF RowsInv, RowTypes
<1>9. CoreFits(p)'
  BY <1>1, <1>2, <1>4, <1>7 DEF RowsInv, CoreFits, At, Identified
<1>10. ASSUME NEW q \in Procs \ {p} PROVE CoreFits(q)'
  <2>1. ~At(q, "getProcRow", "store")
    BY <1>1, OneStores DEF At
  <2> QED
    BY <1>1, <1>2, <1>4, <1>6, <2>1 DEF RowsInv, CoreFits, At, Untouched
<1>11. IdsCounted'
  BY <1>1, <1>4 DEF RowsInv, IdsCounted
<1>12. Cardinality(Sized') = Cardinality(Sized) + 1
  BY <1>4, FiniteCores, FS_AddElement
<1>13. p \notin Extra /\ Extra' = IF procRow'[p] = Quotient + 1 THEN Extra \cup {p} ELSE Extra
  BY <1>4, <1>6 DEF Extra, Sized
<1>14. RestCounted'
  <2>1. CASE rowsRemaining = -1
    <3>1. Sized = {} /\ rowsRemaining' = Remainder
      BY <1>3, <2>1 DEF RowsInv, RestCounted
    <3>2. Extra' = {}
      BY <1>1, <1>3, <1>13, <2>1, <3>1, Division DEF Extra
    <3>3. Cardinality(Extra') = 0 /\ Cardinality(Sized') = 1
      BY <1>12, <3>1, <3>2, FS_EmptySet
    <3> QED
      BY <1>4, <3>1, <3>3, Division DEF RestCounted
  <2>2. CASE rowsRemaining \notin {-1, 0}
    <3>1. /\ rowsRemaining \in Nat /\ Cardinality(Extra) + rowsRemaining = Remainder
          /\ Cardinality(Sized) = Cardinality(Extra) + 1
      BY <2>2 DEF RowsInv, RestCounted
    <3>2. rowsRemaining' = rowsRemaining - 1 /\ procRow'[p] = Quotient + 1
      BY <1>3, <2>2 DEF RowsInv, RowTypes
    <3>3. Cardinality(Extra') = Cardinality(Extra) + 1
      BY <1>13, <3>2, FiniteCores, FS_AddElement
    <3> QED
      BY <1>4, <1>12, <2>2, <3>1, <3>2, <3>3, FiniteCores, Division DEF RestCounted
  <2>3. CASE rowsRemaining = 0
    <3>1. Cardinality(Extra) + rowsRemaining = Remainder
      BY <2>3 DEF RowsInv, RestCounted
    <3>2. Extra' = Extra /\ rowsRemaining' = 0
      BY <1>1, <1>3, <1>13, <2>3, Division
    <3> QED
      BY <1>4, <2>3, <3>1, <3>2 DEF RestCounted
  <2> QED
    BY <2>1, <2>2, <2>3
<1>15. SharesPlaced'
  <2>1. \A q \in Placed : Share(q)' = Share(q)
    BY <1>1, <1>5, <1>6 DEF Share, Placed, Sized
  <2>2. {Share(q)' : q \in Placed'} = {Share(q) : q \in Placed}
    BY <1>5, <2>1
  <2>3. Placed' \cap Extra' = Placed \cap Extra
    BY <1>5, <1>13
  <2> QED
    BY <1>1, <1>5, <2>1, <2>2, <2>3 DEF RowsInv, SharesPlaced
<1> QED
  BY <1>8, <1>9, <1>10, <1>11, <1>14, <1>15 DEF RowsInv

\* A share starts where the ones before it end.
LEMMA StoreStartPointKeeps ==
  ASSUME GuestInv, RowsInv, NEW p \in Procs, Store(p), StoreStartPoint(p)
  PROVE  RowsInv'
<1>1. /\ stage[p] = "getStartPoint" /\ line[p] = "store" /\ tmp[p] = startPoint
      /\ startPoint' = startPoint + procRow[p]
      /\ procStartPoint' = [procStartPoint EXCEPT ![p] = startPoint]
      /\ UNCHANGED <<procID, procRow, procIDCounter, rowsRemaining>>
  BY DEF StoreStartPoint, At, RowsInv, CoreFits
<1>2. /\ stage' = stage /\ line'[p] = "release" /\ row' = row
      /\ \A q \in Procs \ {p} : Untouched(q)
  BY StoreMoves
<1>3. Identified' = Identified /\ Sized' = Sized /\ p \in Sized
  BY <1>1, <1>2 DEF Identified, Sized, Untouched
<1>4. Placed' = Placed \cup {p} /\ p \notin Placed /\ Placed \subseteq Procs
  BY <1>1, <1>2, <1>3 DEF Placed, Sized, Untouched
<1>5. Extra' = Extra /\ procRow[p] = IF p \in Extra THEN Quotient + 1 ELSE Quotient
  BY <1>1, <1>3 DEF Extra, RowsInv, CoreFits
<1>6. procStartPoint'[p] = startPoint /\ \A q \in Procs \ {p} : procStartPoint'[q] = procStartPoint[q]
  BY <1>1 DEF RowsInv, RowTypes
<1>7. procRow[p] \in Nat /\ startPoint \in Nat
  BY DEF RowsInv, RowTypes
<1>8. RowTypes'
  BY <1>1, <1>2, <1>7 DEF RowsInv, RowTypes
<1>9. CoreFits(p)'
  BY <1>1, <1>2, <1>3 DEF RowsInv, CoreFits, At, Identified
<1>10. ASSUME NEW q \in Procs \ {p} PROVE CoreFits(q)'
  <2>1. ~At(q, "getStartPoint", "store")
    BY <1>1, OneStores DEF At
  <2> QED
    BY <1>1, <1>2, <1>3, <2>1 DEF RowsInv, CoreFits, At, Untouched
<1>11. IdsCounted' /\ RestCounted'
  BY <1>1, <1>3, <1>5 DEF RowsInv, IdsCounted, RestCounted
<1>12. Share(p)' = startPoint .. startPoint' - 1 /\ \A q \in Placed : Share(q)' = Share(q)
  <2>1. \A q \in Placed : procStartPoint'[q] = procStartPoint[q] /\ procRow'[q] = procRow[q]
    BY <1>1, <1>4, <1>6
  <2>2. Share(p)' = startPoint .. startPoint + procRow[p] - 1
    BY <1>1, <1>6 DEF Share
  <2>3. \A q \in Placed : Share(q)' = Share(q)
    BY <2>1 DEF Share
  <2>4. startPoint + procRow[p] - 1 = startPoint' - 1
    BY <1>1, <1>7
  <2> QED
    BY <2>2, <2>3, <2>4, Zenon
<1>13. startPoint' = Quotient * Cardinality(Placed') + Cardinality(Placed' \cap Extra')
  <2>1. Cardinality(Placed') = Cardinality(Placed) + 1
    BY <1>4, FiniteCores, FS_AddElement
  <2>2. startPoint = Quotient * Cardinality(Placed) + Cardinality(Placed \cap Extra)
    BY DEF RowsInv, SharesPlaced
  <2>3. Quotient * (Cardinality(Placed) + 1) = Quotient * Cardinality(Placed) + Quotient
    BY Division, FiniteCores
  <2>4. Quotient * Cardinality(Placed) \in Nat /\ Quotient \in Nat /\ Cardinality(Placed \cap Extra) \in Nat
    BY Division, FiniteCores
  <2>5. CASE p \in Extra
    <3>1. Placed' \cap Extra' = (Placed \cap Extra) \cup {p} /\ p \notin Placed \cap Extra
      BY <1>4, <1>5, <2>5
    <3>2. Cardinality(Placed' \cap Extra') = Cardinality(Placed \cap Extra) + 1
      BY <3>1, FiniteCores, FS_AddElement
    <3>3. startPoint' = startPoint + Quotient + 1
      BY <1>1, <1>5, <1>7, <2>5, Division
    <3> QED
      BY <2>1, <2>2, <2>3, <2>4, <3>2, <3>3
  <2>6. CASE p \notin Extra
    <3>1. Cardinality(Placed' \cap Extra') = Cardinality(Placed \cap Extra)
      <4>1. Placed' \cap Extra' = Placed \cap Extra
        BY <1>4, <1>5, <2>6
      <4> QED
        BY <4>1, Zenon
    <3>2. startPoint' = startPoint + Quotient
      BY <1>1, <1>5, <2>6
    <3> QED
      BY <2>1, <2>2, <2>3, <2>4, <3>1, <3>2
  <2> QED
    BY <2>5, <2>6
<1>14. UNION {Share(q)' : q \in Placed'} = 0 .. startPoint' - 1
  <2>1. UNION {Share(q) : q \in Placed} = 0 .. startPoint - 1
    BY DEF RowsInv, SharesPlaced
  <2>2. UNION {Share(q)' : q \in Placed'} = (UNION {Share(q) : q \in Placed}) \cup Share(p)'
    BY <1>4, <1>12
  <2> QED
    BY <1>1, <1>7, <1>12, <2>1, <2>2, SMTT(30)
<1>15. ASSUME NEW a \in Placed', NEW b \in Placed', a # b PROVE Share(a)' \cap Share(b)' = {}
  <2>1. \A q \in Placed : Share(q) \subseteq 0 .. startPoint - 1
    BY DEF RowsInv, SharesPlaced
  <2>2. \A q \in Placed : Share(q)' \cap Share(p)' = {}
    BY <1>1, <1>7, <1>12, <2>1
  <2>3. CASE a \in Placed /\ b \in Placed
    BY <1>12, <1>15, <2>3 DEF RowsInv, SharesPlaced
  <2> QED
    BY <1>4, <1>15, <2>2, <2>3
<1>16. SharesPlaced'
  BY <1>13, <1>14, <1>15 DEF SharesPlaced
<1> QED
  BY <1>8, <1>9, <1>10, <1>11, <1>16 DEF RowsInv

-----------------------------------------------------------------------------
\* The first states: nothing is handed out.
LEMMA RowsInvInit == Init => RowsInv
<1> SUFFICES ASSUME Init PROVE RowsInv
  OBVIOUS
<1>1. Identified = {} /\ Sized = {}
  BY DEF Init, Identified, Sized
<1>2. Placed = {} /\ Extra = {}
  BY <1>1 DEF Placed, Extra
<1>3. Cardinality({}) = 0
  BY FS_EmptySet
<1>4. RowTypes
  BY RowsAssumption DEF Init, RowTypes
<1>5. \A p \in Procs : CoreFits(p)
  BY <1>1 DEF Init, CoreFits, At
<1>6. IdsCounted /\ RestCounted
  BY <1>1, <1>3 DEF Init, IdsCounted, RestCounted
<1>7. SharesPlaced
  <2>1. Placed \cap Extra = {} /\ startPoint = 0 /\ Quotient * 0 = 0
    BY <1>2, Division DEF Init
  <2>2. UNION {Share(p) : p \in Placed} = 0 .. startPoint - 1
    BY <1>2, <2>1
  <2> QED
    BY <1>2, <1>3, <2>1, <2>2 DEF SharesPlaced
<1> QED
  BY <1>4, <1>5, <1>6, <1>7 DEF RowsInv

\* The invariant is inductive, given the lock, the counts and the lockstep.
LEMMA RowsInvStep ==
  ASSUME GuestInv, PhasesInLockstep, RowsInv, [Next]_vars
  PROVE  RowsInv'
<1>1. ASSUME NEW p \in Procs, Step(p) PROVE RowsInv'
  <2>1. CASE EnterLock(p) \/ InsideAcquire(p) \/ Load(p) \/ LeaveLock(p) \/ PassBarrier(p)
    BY <2>1, LockStepHandsOut
  <2>2. CASE Store(p)
    BY <2>2, StoreProcIDKeeps, StoreProcRowKeeps, StoreStartPointKeeps, OtherStoreHandsOut DEF Store
  <2>3. CASE ReadPGM(p) \/ OpenFails(p) \/ OpenOutput(p) \/ CloseOutput(p) \/ EndLoop(p)
    BY <2>3, MoveHandsOut
  <2>4. CASE Divide(p)
    BY <2>4, DivideKeeps
  <2>5. CASE \/ Shift(p) \/ RowDFT(p) \/ ReadColumn(p) \/ ColDFT(p) \/ Log(p)
             \/ LocalMaxMin(p) \/ Scale(p) \/ WriteRow(p)
    BY <2>5, WorkHandsOut
  <2> QED
    BY <1>1, <2>1, <2>2, <2>3, <2>4, <2>5 DEF Step
<1>2. CASE UNCHANGED vars
  <2>1. UNCHANGED HandedOut /\ row' = row /\ stage' = stage /\ line' = line /\ tmp' = tmp
    BY <1>2 DEF vars, HandedOut, locals, counters, image, control
  <2>2. HandsOutNothing
    BY <2>1 DEF HandsOutNothing, Identified, Sized, Placed
  <2>3. \A p \in Procs : CoreFits(p)'
    BY <2>1, <2>2 DEF RowsInv, CoreFits, At, HandsOutNothing, HandedOut
  <2> QED
    BY <2>2, <2>3, NothingKeeps
<1> QED
  BY <1>1, <1>2 DEF Next

\* For any number of cores and rows: ids, sizes and first rows are handed out
\* exactly once, whatever the orders in which the cores get the locks.
THEOREM RowsHandedOut == Spec => []RowsInv
<1>1. Init => RowsInv
  BY RowsInvInit
<1>2. GuestInv /\ PhasesInLockstep /\ RowsInv /\ [Next]_vars => RowsInv'
  BY RowsInvStep
<1> QED
  BY <1>1, <1>2, GuestSafety, ImageLockstep, PTL DEF Spec

\* When every core has its share, the rest of the division is used up, so the
\* shares end where the image ends.
LEMMA AllRowsPlaced ==
  ASSUME RowsInv, Placed = Procs
  PROVE  startPoint = Rows
<1>1. Sized = Procs /\ NumberOfProc = Cardinality(Procs)
  BY CoresAssumption DEF Placed, Sized
<1>2. Procs # {}
  BY <1>1, Division, FS_EmptySet
<1>3. Cardinality(Extra) = Remainder
  <2>1. /\ rowsRemaining \in Nat
        /\ Cardinality(Extra) + rowsRemaining = Remainder
        /\ rowsRemaining # 0 => NumberOfProc = Cardinality(Extra) + 1
    BY <1>1, <1>2 DEF RowsInv, RestCounted
  <2> QED
    BY <2>1, Division, FiniteCores
<1>4. Placed \cap Extra = Extra
  BY <1>1 DEF Extra
<1> QED
  BY <1>1, <1>3, <1>4, Division DEF RowsInv, SharesPlaced

\* For any number of cores and rows, no two cores ever share a row, and when
\* every core has its share no row is left over.
THEOREM ImageRowsPartitioned == Spec => []RowsPartitioned
<1>1. GuestInv /\ RowsInv => RowsPartitioned
  <2> SUFFICES ASSUME GuestInv, RowsInv PROVE RowsPartitioned
    OBVIOUS
  <2>1. Sharing = Placed
    BY SharingPlaced DEF GuestInv
  <2>2. Placed = Procs => UNION {Share(p) : p \in Procs} = Row
    BY AllRowsPlaced DEF RowsInv, SharesPlaced, Row
  <2> QED
    BY <2>1, <2>2 DEF RowsInv, SharesPlaced, RowsPartitioned
<1> QED
  BY <1>1, GuestSafety, RowsHandedOut, PTL

\* For any number of cores and rows, no core has two rows more than another.
THEOREM ImageSharesBalanced == Spec => []SharesBalanced
<1>1. GuestInv /\ RowsInv => SharesBalanced
  <2> SUFFICES ASSUME GuestInv, RowsInv PROVE SharesBalanced
    OBVIOUS
  <2>1. \A p \in Sharing : p \in Procs /\ procRow[p] \in {Quotient, Quotient + 1}
    BY SharingPlaced DEF GuestInv, RowsInv, CoreFits, Placed, Sized
  <2> QED
    BY <2>1, Division DEF SharesBalanced
<1> QED
  BY <1>1, GuestSafety, RowsHandedOut, PTL
-----------------------------------------------------------------------------
(***************************************************************************)
(* The file the image guest writes is the one a single core would write,   *)
(* for every number of cores and rows and every spectrum.                  *)
(***************************************************************************)

\* How far the rows of a core are when it enters a part of main: shifted,
\* transformed by rows, by columns, scaled logarithmically, in the extremes,
\* scaled to pixels.
Reached(s) ==
  IF s \in {"barrier0", "rowDFT"} THEN 1
  ELSE IF s \in {"barrier5", "colDFT"} THEN 2
  ELSE IF s = "log" THEN 3
  ELSE IF s \in {"barrier1", "max_min"} THEN 4
  ELSE IF s \in {"maxLock", "minLock", "barrier2", "scale"} THEN 5
  ELSE IF s \in {"barrier3", "writePGM", "barrier4", "exit"} THEN 6
  ELSE 0

\* How far row r of the share of p is.
Progress(p, r) == Reached(stage[p]) + IF stage[p] \in WorkStages /\ r < v[p] THEN 1 ELSE 0

MaxMerged(p) == Phase(stage[p]) >= 5 \/ stage[p] \in {"minLock", "barrier2"} \/ At(p, "maxLock", "release")
MinMerged(p) == Phase(stage[p]) >= 5 \/ stage[p] = "barrier2" \/ At(p, "minLock", "release")

\* The data of a row are what its progress says.
RowFits(p, r) ==
  /\ Progress(p, r) = 0 => matrix[r] = <<"input">>
  /\ Progress(p, r) \in 1 .. 5 => matrix[r] = <<"shifted">>
  /\ Progress(p, r) = 6 => matrix[r] = <<"pixel", min, max>>
  /\ Progress(p, r) >= 2 => P[r] = "spectrum"
  /\ Progress(p, r) = 3 => F[r] = "dft"
  /\ Progress(p, r) >= 4 => F[r] = "log"
  /\ Progress(p, r) >= 5 => local_min[p] <= Level[r] /\ Level[r] <= local_max[p]
  /\ MaxMerged(p) => Level[r] <= max
  /\ MinMerged(p) => min <= Level[r]

\* A core works inside its share, has met no row that was not ready, merges
\* the extreme it has loaded, and has written the file when it closes it.
CoreData(p) ==
  /\ stage[p] \in WorkStages => v[p] >= procStartPoint[p]
  /\ At(p, "maxLock", "store") => tmp[p] = max
  /\ At(p, "minLock", "store") => tmp[p] = min
  /\ stage[p] \in {"barrier4", "exit"} /\ procID[p] = 0 => Len(out) = Rows

Levels == {Level[r] : r \in Row}

DataTypes ==
  /\ v \in [Procs -> Nat] /\ y \in [Procs -> Nat] /\ sofar \in [Procs -> {TRUE}]
  /\ local_max \in [Procs -> {Lowest} \cup Levels] /\ max \in {Lowest} \cup Levels
  /\ local_min \in [Procs -> {Highest} \cup Levels] /\ min \in {Highest} \cup Levels
  /\ matrix = [r \in Row |-> matrix[r]]
  /\ P = [r \in Row |-> P[r]]
  /\ F = [r \in Row |-> F[r]]
  /\ out \in Seq({SerialPixels})

DataInv ==
  /\ DataTypes
  /\ \A p \in Procs : CoreData(p)
  /\ \A p \in Placed : \A r \in Share(p) : RowFits(p, r)
  /\ row = Rows => \A r \in Row : r < startPoint \/ matrix[r] = <<"input">>

-----------------------------------------------------------------------------
\* However many cores have their share, and however many of the rows left over
\* are among them, the shares fit into the image.
LEMMA PlacedBound ==
  ASSUME NEW S \in SUBSET Procs, NEW E, NEW T \in SUBSET E, IsFiniteSet(E), Cardinality(E) <= Remainder
  PROVE  Quotient * Cardinality(S) + Cardinality(T) \in 0 .. Rows
<1>1. Cardinality(S) \in Nat /\ Cardinality(S) <= NumberOfProc
  BY CoresAssumption, FS_Subset, FS_CardinalityType
<1>2. Cardinality(T) \in Nat /\ Cardinality(T) <= Remainder
  BY FS_Subset, FS_CardinalityType, Division
<1>3. ASSUME NEW a \in Nat, NEW b \in Nat, NEW c \in Nat, b <= c PROVE a * b <= a * c
  BY <1>3, SMTT(30)
<1>4. Quotient * Cardinality(S) <= Quotient * NumberOfProc
  BY <1>1, <1>3, Division
<1>5. Quotient * Cardinality(S) \in Nat /\ Quotient * NumberOfProc \in Nat
  BY <1>1, Division
<1> QED
  BY <1>2, <1>4, <1>5, Division

\* No more cores take an extra row than there are rows left over.
LEMMA ExtraBound ==
  /\ RowsInv => Cardinality(Extra) <= Remainder
  /\ RowsInv' => Cardinality(Extra') <= Remainder
<1>1. ASSUME RowsInv PROVE Cardinality(Extra) <= Remainder
  <2>1. CASE Sized = {}
    BY <2>1, FS_EmptySet, Division DEF Extra
  <2>2. CASE Sized # {}
    BY <1>1, <2>2, FiniteCores, Division DEF RowsInv, RestCounted
  <2> QED
    BY <2>1, <2>2
<1>2. ASSUME RowsInv' PROVE Cardinality(Extra') <= Remainder
  <2>1. CASE Sized' = {}
    BY <2>1, FS_EmptySet, Division DEF Extra
  <2>2. CASE Sized' # {}
    <3>1. Extra' \in SUBSET Procs
      BY DEF Extra, Sized
    <3>2. Cardinality(Extra') \in Nat
      BY <3>1, CoresAssumption, FS_Subset, FS_CardinalityType
    <3> QED
      BY <1>2, <2>2, <3>2, Division DEF RowsInv, RestCounted
  <2> QED
    BY <2>1, <2>2
<1> QED
  BY <1>1, <1>2

\* The shares placed lie inside the image.
LEMMA SharesInImage ==
  ASSUME RowsInv
  PROVE  /\ startPoint \in 0 .. Rows
         /\ \A p \in Placed : Share(p) \subseteq 0 .. startPoint - 1 /\ Share(p) \subseteq Row
<1>1. Placed \in SUBSET Procs /\ Placed \cap Extra \in SUBSET Extra /\ IsFiniteSet(Extra)
  BY FiniteCores DEF Placed, Sized
<1>2. Quotient * Cardinality(Placed) + Cardinality(Placed \cap Extra) \in 0 .. Rows
  BY <1>1, ExtraBound, PlacedBound
<1>3. startPoint \in 0 .. Rows
  BY <1>2 DEF RowsInv, SharesPlaced
<1>4. \A p \in Placed : Share(p) \subseteq 0 .. startPoint - 1
  BY DEF RowsInv, SharesPlaced
<1> QED
  BY <1>3, <1>4, RowsAssumption DEF Row

\* The same of the state after a step.
LEMMA SharesInImageNext == RowsInv' => startPoint' \in 0 .. Rows
<1> SUFFICES ASSUME RowsInv' PROVE startPoint' \in 0 .. Rows
  OBVIOUS
<1>1. /\ Placed' \in SUBSET Procs /\ Placed' \cap Extra' \in SUBSET (Extra') /\ Extra' \in SUBSET Procs
  BY DEF Placed, Sized, Extra
<1>2. IsFiniteSet(Extra')
  BY <1>1, CoresAssumption, FS_Subset
<1>3. Quotient * Cardinality(Placed') + Cardinality(Placed' \cap Extra') \in 0 .. Rows
  BY <1>1, <1>2, ExtraBound, PlacedBound
<1> QED
  BY <1>3 DEF RowsInv, SharesPlaced

\* A core past the second barrier knows that all rows are in somebody's share.
LEMMA EverybodyPlaced ==
  ASSUME GuestInv, PhasesInLockstep, RowsInv, NEW p \in Procs, PassedBarriers(p) >= 2
  PROVE  /\ Placed = Procs /\ startPoint = Rows
         /\ \A r \in Row : \E q \in Procs : r \in Share(q)
<1>1. ASSUME NEW q \in Procs PROVE ArrivedBarriers(q) >= 2
  BY ArrivedType DEF PhasesInLockstep, Phases!Lockstep
<1>2. Placed = Procs
  BY <1>1, NamesOfBarriers DEF Placed, Sized, ArrivedBarriers, PassedBarriers, CountedIn, Phase
<1>3. startPoint = Rows
  BY <1>2, AllRowsPlaced
<1>4. UNION {Share(q) : q \in Procs} = Row
  BY <1>2, <1>3 DEF RowsInv, SharesPlaced, Row
<1>5. \A r \in Row : \E q \in Procs : r \in Share(q)
  BY <1>4
<1> QED
  BY <1>2, <1>3, <1>5

\* How far the rows of a core are, by the barriers it has arrived at.
LEMMA ProgressOfPhase ==
  ASSUME GuestTypes, NEW p \in Procs, NEW r
  PROVE  /\ Progress(p, r) \in 0 .. 6
         /\ ArrivedBarriers(p) >= 3 => Progress(p, r) >= 2
         /\ ArrivedBarriers(p) >= 5 => Progress(p, r) >= 5 /\ MaxMerged(p) /\ MinMerged(p)
         /\ ArrivedBarriers(p) >= 6 => Progress(p, r) = 6
         /\ PassedBarriers(p) <= 4 => Progress(p, r) <= 5
BY NamesOfBarriers DEF GuestTypes, Stages, Critical, WorkStages, Progress, Reached, MaxMerged,
   MinMerged, ArrivedBarriers, PassedBarriers, CountedIn, Phase

\* A core past barrier k was preceded into it by all the others.
LEMMA AllArrived ==
  ASSUME PhasesInLockstep, NEW p \in Procs, NEW q \in Procs
  PROVE  ArrivedBarriers(q) >= PassedBarriers(p)
BY ArrivedType DEF PhasesInLockstep, Phases!Lockstep

\* The column phase finds every row of the row spectrum finished.
LEMMA RowSpectrumFinished ==
  ASSUME GuestInv, PhasesInLockstep, RowsInv, DataInv, NEW p \in Procs, PassedBarriers(p) >= 3
  PROVE  \A r \in Row : P[r] = "spectrum"
<1> SUFFICES ASSUME NEW r \in Row PROVE P[r] = "spectrum"
  OBVIOUS
<1>1. PICK q \in Procs : r \in Share(q) /\ q \in Placed
  BY EverybodyPlaced, ArrivedType
<1>2. Progress(q, r) >= 2
  BY AllArrived, ArrivedType, ProgressOfPhase DEF GuestInv
<1> QED
  BY <1>1, <1>2 DEF DataInv, RowFits

\* The scaling phase finds the extremes of the whole spectrum.
LEMMA ExtremesFinished ==
  ASSUME GuestInv, PhasesInLockstep, RowsInv, DataInv, NEW p \in Procs, PassedBarriers(p) >= 5
  PROVE  \A r \in Row : min <= Level[r] /\ Level[r] <= max
<1> SUFFICES ASSUME NEW r \in Row PROVE min <= Level[r] /\ Level[r] <= max
  OBVIOUS
<1>1. PICK q \in Procs : r \in Share(q) /\ q \in Placed
  BY EverybodyPlaced, ArrivedType
<1>2. MaxMerged(q) /\ MinMerged(q)
  BY AllArrived, ArrivedType, ProgressOfPhase DEF GuestInv
<1> QED
  BY <1>1, <1>2 DEF DataInv, RowFits

\* Scaled with them, every row is the one of a single core.
LEMMA PixelsSerial ==
  ASSUME GuestInv, PhasesInLockstep, RowsInv, DataInv, NEW p \in Procs, PassedBarriers(p) >= 5,
         NEW r \in Row
  PROVE  <<"pixel", min, max>> = SerialPixels
<1>1. \A n \in Levels : min <= n /\ n <= max
  BY ExtremesFinished DEF Levels
<1>2. Level[r] \in Levels /\ \A n \in Levels : n \in Nat /\ Lowest < n /\ n < Highest
  BY LevelAssumption DEF Levels, Lowest
<1>3. min \in Levels /\ max \in Levels
  BY <1>1, <1>2, LevelAssumption DEF DataInv, DataTypes, Lowest
<1>4. ASSUME NEW m \in Levels, \A n \in Levels : m <= n PROVE m = min
  BY <1>1, <1>2, <1>3, <1>4
<1>5. ASSUME NEW m \in Levels, \A n \in Levels : m >= n PROVE m = max
  BY <1>1, <1>2, <1>3, <1>5
<1>6. min = CHOOSE m \in Levels : \A n \in Levels : m <= n
  BY <1>1, <1>3, <1>4
<1>7. max = CHOOSE m \in Levels : \A n \in Levels : m >= n
  <2>1. \A n \in Levels : max >= n
    BY <1>1, <1>2, <1>3
  <2> QED
    BY <1>3, <1>5, <2>1
<1> QED
  BY <1>6, <1>7 DEF SerialPixels, Levels

-----------------------------------------------------------------------------
(* Steps that move a core and leave the data alone.                         *)

Data == <<y, sofar, local_max, local_min, extremes, image, files>>

\* Core q stays where it is, with the rows it has.
StaysPut(q) ==
  /\ Untouched(q)
  /\ v'[q] = v[q] /\ procID'[q] = procID[q]
  /\ procRow'[q] = procRow[q] /\ procStartPoint'[q] = procStartPoint[q]

\* The progress of a core that stays put does not change, nor do its rows.
LEMMA StaysPutKeeps ==
  ASSUME NEW q \in Procs, StaysPut(q)
  PROVE  /\ \A r : Progress(q, r)' = Progress(q, r)
         /\ MaxMerged(q)' <=> MaxMerged(q)
         /\ MinMerged(q)' <=> MinMerged(q)
         /\ Share(q)' = Share(q)
         /\ q \in Placed' <=> q \in Placed
BY DEF StaysPut, Untouched, Progress, MaxMerged, MinMerged, At, Share, Placed, Sized

\* A row whose data and progress do not change goes on fitting.
LEMMA RowStays ==
  ASSUME NEW q \in Procs, NEW r, RowFits(q, r), Progress(q, r)' = Progress(q, r),
         MaxMerged(q)' => MaxMerged(q), MinMerged(q)' => MinMerged(q),
         matrix'[r] = matrix[r], P'[r] = P[r], F'[r] = F[r], max' = max, min' = min,
         local_max'[q] = local_max[q], local_min'[q] = local_min[q]
  PROVE  RowFits(q, r)'
BY DEF RowFits

\* What is known of a core that stays put stays true while no extreme is
\* merged and no row written.
LEMMA CoreStays ==
  ASSUME NEW q \in Procs, CoreData(q), StaysPut(q), max' = max, min' = min, out' = out
  PROVE  CoreData(q)'
BY DEF CoreData, StaysPut, Untouched, At

\* A step that moves core p, to a place where its rows are as far as before,
\* leaves the invariant true.
LEMMA MoveFits ==
  ASSUME DataInv, NEW p \in Procs, \A q \in Procs \ {p} : StaysPut(q), UNCHANGED Data,
         startPoint' = startPoint, v' \in [Procs -> Nat],
         p \in Placed' <=> p \in Placed,
         p \in Placed =>
           /\ Share(p)' = Share(p)
           /\ \A r \in Share(p) : Progress(p, r)' = Progress(p, r)
           /\ MaxMerged(p)' => MaxMerged(p)
           /\ MinMerged(p)' => MinMerged(p),
         CoreData(p)'
  PROVE  DataInv'
<1>1. /\ y' = y /\ sofar' = sofar /\ local_max' = local_max /\ local_min' = local_min
      /\ max' = max /\ min' = min /\ row' = row /\ matrix' = matrix /\ P' = P /\ F' = F /\ out' = out
  BY DEF Data, extremes, image, files
<1>2. DataTypes'
  BY <1>1 DEF DataInv, DataTypes, SerialPixels
<1>3. \A q \in Procs : CoreData(q)'
  BY <1>1, CoreStays DEF DataInv
<1>4. Placed' = Placed
  <2>1. \A q \in Procs \ {p} : q \in Placed' <=> q \in Placed
    BY StaysPutKeeps
  <2>2. Placed \subseteq Procs /\ Placed' \subseteq Procs
    BY DEF Placed, Sized
  <2> QED
    BY <2>1, <2>2
<1>5. ASSUME NEW q \in Placed, NEW r \in Share(q)' PROVE RowFits(q, r)'
  <2>1. q \in Procs
    BY DEF Placed, Sized
  <2>2. /\ Share(q)' = Share(q) /\ Progress(q, r)' = Progress(q, r)
        /\ MaxMerged(q)' => MaxMerged(q)
        /\ MinMerged(q)' => MinMerged(q)
    <3>1. CASE q = p
      BY <1>5, <3>1
    <3>2. CASE q # p
      BY <2>1, <3>2, StaysPutKeeps
    <3> QED
      BY <3>1, <3>2
  <2>3. RowFits(q, r)
    BY <1>5, <2>2 DEF DataInv
  <2> QED
    BY <1>1, <2>1, <2>2, <2>3, RowStays
<1>6. row' = Rows => \A r \in Row : r < startPoint' \/ matrix'[r] = <<"input">>
  BY <1>1 DEF DataInv
<1> QED
  BY <1>2, <1>3, <1>4, <1>5, <1>6 DEF DataInv

\* Of the steps that move a core: what they leave alone.
LEMMA MovesLeave ==
  ASSUME GuestInv, RowsInv, DataInv, NEW p \in Procs,
         \/ EnterLock(p) \/ InsideAcquire(p) \/ Load(p) \/ LeaveLock(p) \/ PassBarrier(p)
         \/ OpenFails(p) \/ OpenOutput(p) \/ CloseOutput(p) \/ Divide(p) \/ EndLoop(p)
         \/ Store(p) /\ (StoreProcID(p) \/ StoreProcRow(p) \/ CountIn(p))
  PROVE  /\ UNCHANGED Data /\ startPoint' = startPoint /\ procStartPoint' = procStartPoint
         /\ v' \in [Procs -> Nat]
         /\ \A q \in Procs \ {p} : StaysPut(q)
<1> USE DEF Data, counters, locals, extremes, image, files, control, lockState
<1>1. UNCHANGED Data /\ startPoint' = startPoint /\ procStartPoint' = procStartPoint
  BY DEF EnterLock, InsideAcquire, Load, LeaveLock, PassBarrier, OpenFails, OpenOutput, CloseOutput,
     Divide, EndLoop, Store, StoreProcID, StoreProcRow, CountIn
<1>2. v' = v \/ v' = [v EXCEPT ![p] = procStartPoint[p]]
  <2>1. CASE LeaveLock(p)
    <3>1. v' = [v EXCEPT ![p] = IF stage[p] = "getStartPoint" THEN procStartPoint[p] ELSE v[p]]
      BY <2>1 DEF LeaveLock
    <3>2. v = [v EXCEPT ![p] = v[p]]
      BY DEF DataInv, DataTypes
    <3> QED
      BY <3>1, <3>2
  <2>2. CASE ~LeaveLock(p)
    BY <2>2 DEF EnterLock, InsideAcquire, Load, PassBarrier, OpenFails, OpenOutput, CloseOutput,
       Divide, EndLoop, Store
  <2> QED
    BY <2>1, <2>2
<1>3. v' \in [Procs -> Nat] /\ \A q \in Procs \ {p} : v'[q] = v[q]
  BY <1>2 DEF DataInv, DataTypes, RowsInv, RowTypes
<1>4. \A q \in Procs \ {p} : procID'[q] = procID[q] /\ procRow'[q] = procRow[q]
  BY DEF RowsInv, RowTypes, EnterLock, InsideAcquire, Load, LeaveLock, PassBarrier, OpenFails, OpenOutput,
     CloseOutput, Divide, EndLoop, Store, StoreProcID, StoreProcRow, CountIn
<1>5. \A q \in Procs \ {p} : Untouched(q)
  <2>1. CASE EnterLock(p) \/ InsideAcquire(p) \/ LeaveLock(p)
    BY <2>1 DEF EnterLock, InsideAcquire, LeaveLock, GoTo, Untouched, GuestInv, GuestTypes,
       Lk!LockInv, Lk!LockTypeOK, Lk!Call, Lk!AcquireStep, Lk!ReadRegister, Lk!TestLocal, Lk!GiveBack,
       Lk!SetLocal, Lk!Return, Lk!ReleaseLock, Lk!Goto
  <2>2. CASE Load(p) \/ PassBarrier(p) \/ OpenFails(p) \/ OpenOutput(p) \/ CloseOutput(p) \/ Divide(p) \/ EndLoop(p)
    BY <2>2 DEF Load, PassBarrier, OpenFails, OpenOutput, CloseOutput, Divide, EndLoop, GoTo, Untouched,
       GuestInv, GuestTypes
  <2>3. CASE Store(p)
    BY <2>3, StoreMoves
  <2> QED
    BY <2>1, <2>2, <2>3
<1> QED
  BY <1>1, <1>3, <1>4, <1>5 DEF StaysPut

\* A step at a lock that leaves stage and rows alone.
LEMMA LockStepFits ==
  ASSUME GuestInv, RowsInv, DataInv, NEW p \in Procs, EnterLock(p) \/ InsideAcquire(p) \/ Load(p)
  PROVE  DataInv'
<1>1. /\ stage' = stage /\ v' = v /\ procRow' = procRow /\ procStartPoint' = procStartPoint /\ procID' = procID
      /\ max' = max /\ min' = min /\ out' = out
  BY DEF EnterLock, InsideAcquire, Load, locals, control, extremes, files
<1>2. line'[p] # "release" \/ line'[p] = line[p]
  BY DEF EnterLock, InsideAcquire, Load, control, GuestInv, GuestTypes
<1>3. line[p] # "release" \/ line'[p] = line[p]
  BY DEF EnterLock, InsideAcquire, Load, control
<1>4. CoreData(p)'
  <2>1. At(p, "maxLock", "store")' => tmp'[p] = max
    BY DEF EnterLock, InsideAcquire, Load, control, locals, At, Shared, BarrierNames, BarrierOrder,
       GuestInv, GuestTypes, DataInv, CoreData
  <2>2. At(p, "minLock", "store")' => tmp'[p] = min
    BY DEF EnterLock, InsideAcquire, Load, control, locals, At, Shared, BarrierNames, BarrierOrder,
       GuestInv, GuestTypes, DataInv, CoreData
  <2> QED
    BY <1>1, <2>1, <2>2 DEF DataInv, CoreData, At
<1>5. Share(p)' = Share(p) /\ \A r \in Share(p) : Progress(p, r)' = Progress(p, r)
  BY <1>1 DEF Share, Progress
<1>6. /\ p \in Placed' <=> p \in Placed
      /\ MaxMerged(p)' => MaxMerged(p)
      /\ MinMerged(p)' => MinMerged(p)
  BY <1>1, <1>2, <1>3 DEF Placed, Sized, MaxMerged, MinMerged, At
<1> QED
  BY <1>4, <1>5, <1>6, MovesLeave, MoveFits

\* A step that hands out an id or a size, or counts a core in: the core is
\* without a share, or keeps the one it has.
LEMMA StoreFits ==
  ASSUME GuestInv, RowsInv, DataInv, NEW p \in Procs, Store(p),
         StoreProcID(p) \/ StoreProcRow(p) \/ CountIn(p)
  PROVE  DataInv'
<1>1. /\ stage' = stage /\ v' = v /\ procStartPoint' = procStartPoint
      /\ max' = max /\ min' = min /\ out' = out
      /\ line[p] = "store" /\ line'[p] = "release"
  BY StoreMoves DEF Store, StoreProcID, StoreProcRow, CountIn, extremes, files
<1>2. \/ stage[p] \in {"getProcID", "getProcRow"}
      \/ stage[p] \in BarrierNames /\ procRow' = procRow /\ procID' = procID
  BY DEF StoreProcID, StoreProcRow, CountIn, At
<1>3. p \in Placed => stage[p] \in BarrierNames /\ procRow' = procRow
  BY <1>1, <1>2 DEF Placed, Sized
<1>4. p \in Placed' <=> p \in Placed
  BY <1>1, <1>2, NamesOfBarriers DEF Placed, Sized
<1>5. p \in Placed =>
        /\ Share(p)' = Share(p)
        /\ \A r \in Share(p) : Progress(p, r)' = Progress(p, r)
        /\ MaxMerged(p)' => MaxMerged(p)
        /\ MinMerged(p)' => MinMerged(p)
  BY <1>1, <1>3, NamesOfBarriers DEF Share, Progress, MaxMerged, MinMerged, At
<1>6. CoreData(p)'
  BY <1>1, <1>2, NamesOfBarriers DEF DataInv, CoreData, At, WorkStages
<1> QED
  BY <1>4, <1>5, <1>6, MovesLeave, MoveFits

\* Leaving a lock: the core that has got its first row starts with it.
LEMMA LeaveFits ==
  ASSUME GuestInv, RowsInv, DataInv, NEW p \in Procs, LeaveLock(p)
  PROVE  DataInv'
<1>1. /\ procRow' = procRow /\ procStartPoint' = procStartPoint /\ procID' = procID
      /\ max' = max /\ min' = min /\ out' = out
      /\ line[p] = "release" /\ line'[p] \in {"wait", "open", "call", "loop"}
  BY DEF LeaveLock, GoTo, extremes, files, GuestInv, GuestTypes
<1>2. \/ stage[p] \in BarrierNames /\ stage'[p] = stage[p]
      \/ stage[p] = "getProcID" /\ stage'[p] \in {"readPGM", "barrier6"}
      \/ stage[p] = "getProcRow" /\ stage'[p] = "getStartPoint"
      \/ stage[p] = "getStartPoint" /\ stage'[p] = "desloca_origem" /\ v'[p] = procStartPoint[p]
      \/ stage[p] = "maxLock" /\ stage'[p] = "minLock"
      \/ stage[p] = "minLock" /\ stage'[p] = "barrier2"
  BY DEF LeaveLock, GoTo, GuestInv, GuestTypes, DataInv, DataTypes
<1>3. procStartPoint[p] \in Nat
  BY DEF RowsInv, RowTypes
<1>4. p \in Placed' <=> p \in Placed
  BY <1>1, <1>2, NamesOfBarriers DEF Placed, Sized
<1>5. Share(p)' = Share(p)
  BY <1>1 DEF Share
<1>6. ASSUME NEW r \in Share(p) PROVE Progress(p, r)' = Progress(p, r)
  <2>1. r >= procStartPoint[p] /\ r \in Int
    BY <1>3 DEF Share, RowsInv, RowTypes
  <2> QED
    BY <1>2, <1>3, <2>1, NamesOfBarriers DEF Progress, Reached, WorkStages
<1>7. MaxMerged(p)' => MaxMerged(p)
  BY <1>1, <1>2, NamesOfBarriers DEF MaxMerged, At, Phase
<1>8. MinMerged(p)' => MinMerged(p)
  BY <1>1, <1>2, NamesOfBarriers DEF MinMerged, At, Phase
<1>9. CoreData(p)'
  BY <1>1, <1>2, <1>3, NamesOfBarriers DEF DataInv, CoreData, At, WorkStages
<1> QED
  BY <1>4, <1>5, <1>6, <1>7, <1>8, <1>9, MovesLeave, MoveFits

\* Passing a barrier: the next part starts at the first row of the share.
LEMMA PassFits ==
  ASSUME GuestInv, RowsInv, DataInv, NEW p \in Procs, PassBarrier(p)
  PROVE  DataInv'
<1>1. /\ procRow' = procRow /\ procStartPoint' = procStartPoint /\ procID' = procID
      /\ max' = max /\ min' = min /\ out' = out
      /\ stage[p] \in BarrierNames /\ line[p] = "wait"
      /\ stage'[p] = Behind(stage[p], p) /\ line'[p] = Entry(stage[p], p)
      /\ v'[p] = procStartPoint[p]
  BY DEF PassBarrier, GoTo, extremes, files, GuestInv, GuestTypes, DataInv, DataTypes
<1>2. procStartPoint[p] \in Nat
  BY DEF RowsInv, RowTypes
<1>3. p \in Placed' <=> p \in Placed
  BY <1>1, NamesOfBarriers DEF Placed, Sized, Behind, Entry
<1>4. Share(p)' = Share(p)
  BY <1>1 DEF Share
<1>5. ASSUME NEW r \in Share(p), p \in Placed PROVE Progress(p, r)' = Progress(p, r)
  <2>1. r >= procStartPoint[p] /\ r \in Int
    BY <1>2 DEF Share, RowsInv, RowTypes
  <2> QED
    BY <1>1, <1>2, <1>5, <2>1, NamesOfBarriers DEF Progress, Reached, WorkStages, Behind, Placed, Sized
<1>6. (MaxMerged(p)' => MaxMerged(p)) /\ (MinMerged(p)' => MinMerged(p))
  BY <1>1, NamesOfBarriers DEF MaxMerged, MinMerged, At, Phase, Behind, Entry
<1>7. CoreData(p)'
  BY <1>1, <1>2, NamesOfBarriers DEF DataInv, CoreData, At, WorkStages, Behind, Entry
<1> QED
  BY <1>3, <1>4, <1>5, <1>6, <1>7, MovesLeave, MoveFits

\* Opening and closing the files; the file is closed when it is complete.
LEMMA FileFits ==
  ASSUME GuestInv, PhasesInLockstep, RowsInv, DataInv, NEW p \in Procs,
         OpenFails(p) \/ OpenOutput(p) \/ CloseOutput(p)
  PROVE  DataInv'
<1>1. /\ procRow' = procRow /\ procStartPoint' = procStartPoint /\ procID' = procID /\ v' = v
      /\ max' = max /\ min' = min /\ out' = out
      /\ line[p] \in {"open", "loop"} /\ line'[p] \in {"stopped", "loop", "call"}
  BY DEF OpenFails, OpenOutput, CloseOutput, GoTo, At, locals, extremes, files, GuestInv, GuestTypes
<1>2. \/ stage[p] \in {"readPGM", "writePGM"} /\ stage'[p] = stage[p]
      \/ stage[p] = "writePGM" /\ stage'[p] = "barrier4" /\ Len(out) = row
  BY DEF OpenFails, OpenOutput, CloseOutput, GoTo, At, GuestInv, GuestTypes
<1>3. p \in Placed' <=> p \in Placed
  BY <1>1, <1>2 DEF Placed, Sized
<1>4. Share(p)' = Share(p) /\ \A r \in Share(p) : Progress(p, r)' = Progress(p, r)
  BY <1>1, <1>2 DEF Share, Progress, Reached, WorkStages
<1>5. (MaxMerged(p)' => MaxMerged(p)) /\ (MinMerged(p)' => MinMerged(p))
  BY <1>1, <1>2 DEF MaxMerged, MinMerged, At, Phase
<1>6. CoreData(p)'
  <2>1. stage[p] = "writePGM" => row = Rows
    BY AllIdentified DEF PassedBarriers, Phase
  <2> QED
    BY <1>1, <1>2, <2>1 DEF DataInv, CoreData, At, WorkStages
<1> QED
  BY <1>3, <1>4, <1>5, <1>6, MovesLeave, MoveFits

\* The size of a share is computed before the core has one.
LEMMA DivideFits ==
  ASSUME GuestInv, RowsInv, DataInv, NEW p \in Procs, Divide(p)
  PROVE  DataInv'
<1>1. /\ stage[p] = "getProcRow" /\ stage' = stage /\ line'[p] = "call" /\ v' = v
      /\ max' = max /\ min' = min /\ out' = out
  BY DEF Divide, At, extremes, files, GuestInv, GuestTypes
<1>2. p \notin Placed /\ p \notin Placed'
  BY <1>1 DEF Placed, Sized
<1>3. CoreData(p)'
  BY <1>1 DEF CoreData, At, WorkStages
<1> QED
  BY <1>2, <1>3, MovesLeave, MoveFits

\* A loop ends when all rows of the share are done.
LEMMA EndLoopFits ==
  ASSUME GuestInv, RowsInv, DataInv, NEW p \in Procs, EndLoop(p)
  PROVE  DataInv'
<1>1. /\ procRow' = procRow /\ procStartPoint' = procStartPoint /\ procID' = procID
      /\ max' = max /\ min' = min /\ out' = out
      /\ line'[p] \in {"loop", "call"} /\ v'[p] = procStartPoint[p]
      /\ v[p] >= procStartPoint[p] + procRow[p]
  BY DEF EndLoop, GoTo, extremes, files, GuestInv, GuestTypes, DataInv, DataTypes
<1>2. \/ stage[p] = "desloca_origem" /\ stage'[p] = "barrier0"
      \/ stage[p] = "rowDFT" /\ stage'[p] = "barrier5"
      \/ stage[p] = "colDFT" /\ stage'[p] = "log"
      \/ stage[p] = "log" /\ stage'[p] = "barrier1"
      \/ stage[p] = "max_min" /\ stage'[p] = "maxLock"
      \/ stage[p] = "scale" /\ stage'[p] = "barrier3"
  BY DEF EndLoop, GoTo, GuestInv, GuestTypes
<1>3. procStartPoint[p] \in Nat /\ procRow[p] \in Nat /\ v[p] \in Nat
  BY DEF RowsInv, RowTypes, DataInv, DataTypes
<1>4. p \in Placed' <=> p \in Placed
  BY <1>2 DEF Placed, Sized
<1>5. Share(p)' = Share(p)
  BY <1>1 DEF Share
<1>6. ASSUME NEW r \in Share(p) PROVE Progress(p, r)' = Progress(p, r)
  <2>1. r >= procStartPoint[p] /\ r < v[p] /\ r \in Int
    BY <1>1, <1>3 DEF Share
  <2> QED
    BY <1>1, <1>2, <1>3, <2>1 DEF Progress, Reached, WorkStages
<1>7. (MaxMerged(p)' => MaxMerged(p)) /\ (MinMerged(p)' => MinMerged(p))
  BY <1>1, <1>2 DEF MaxMerged, MinMerged, At, Phase
<1>8. CoreData(p)'
  BY <1>1, <1>2, <1>3 DEF CoreData, At, WorkStages
<1> QED
  BY <1>4, <1>5, <1>6, <1>7, <1>8, MovesLeave, MoveFits

-----------------------------------------------------------------------------
(* Steps that work on a row.                                                *)

\* Levels and what lies below and above them are numbers.
LEMMA LevelsNat ==
  /\ {Lowest} \cup Levels \subseteq Nat
  /\ {Highest} \cup Levels \subseteq Nat
BY LevelAssumption DEF Lowest, Levels

\* The row a core is about to work on is its own, and as far as the part of
\* main it is in.
LEMMA RowAtHand ==
  ASSUME GuestInv, RowsInv, DataInv, NEW p \in Procs, NEW s \in WorkStages, InLoop(p, s)
  PROVE  /\ p \in Placed /\ stage[p] = s /\ v[p] \in Share(p) /\ v[p] \in Row
         /\ Progress(p, v[p]) = Reached(s) /\ Reached(s) \in 0 .. 5
         /\ RowFits(p, v[p])
<1>1. /\ stage[p] = s /\ line[p] = "loop" /\ v[p] < procStartPoint[p] + procRow[p]
      /\ v[p] >= procStartPoint[p]
      /\ v[p] \in Nat /\ procStartPoint[p] \in Nat /\ procRow[p] \in Nat
  BY DEF InLoop, At, DataInv, DataTypes, CoreData, RowsInv, RowTypes
<1>2. p \in Placed
  BY <1>1 DEF Placed, Sized, WorkStages
<1>3. v[p] \in Share(p)
  BY <1>1 DEF Share
<1>4. v[p] \in Row
  BY <1>2, <1>3, SharesInImage
<1>5. Progress(p, v[p]) = Reached(s) /\ Reached(s) \in 0 .. 5
  BY <1>1 DEF Progress, Reached, WorkStages
<1>6. RowFits(p, v[p])
  BY <1>2, <1>3 DEF DataInv
<1> QED
  BY <1>1, <1>2, <1>3, <1>4, <1>5, <1>6

\* A step that works on the row at hand and on nothing else leaves the
\* invariant true when that row fits again.
LEMMA WorkFits ==
  ASSUME GuestInv, RowsInv, DataInv, NEW p \in Procs, NEW s \in WorkStages, InLoop(p, s),
         NEW x \in Row, x = v[p],
         UNCHANGED <<control, tmp, HandedOut, row, max, min, out>>,
         v' = [v EXCEPT ![p] = v[p] + 1],
         DataTypes',
         \A r \in Row \ {x} : matrix'[r] = matrix[r] /\ P'[r] = P[r] /\ F'[r] = F[r],
         \A q \in Procs \ {p} : local_max'[q] = local_max[q] /\ local_min'[q] = local_min[q],
         local_max'[p] >= local_max[p], local_min'[p] <= local_min[p],
         RowFits(p, x)'
  PROVE  DataInv'
<1>1. /\ stage' = stage /\ line' = line /\ tmp' = tmp /\ procRow' = procRow /\ procID' = procID
      /\ procStartPoint' = procStartPoint /\ startPoint' = startPoint
      /\ v'[p] = x + 1 /\ \A q \in Procs \ {p} : v'[q] = v[q]
  BY DEF control, HandedOut, DataInv, DataTypes
<1>2. Placed' = Placed /\ \A q \in Procs : Share(q)' = Share(q)
  BY <1>1 DEF Placed, Sized, Share
<1>3. \A q \in Procs : (MaxMerged(q)' <=> MaxMerged(q)) /\ (MinMerged(q)' <=> MinMerged(q))
  BY <1>1 DEF MaxMerged, MinMerged, At
<1>4. ASSUME NEW q \in Procs PROVE CoreData(q)'
  <2>1. v[q] \in Nat /\ v'[q] \in Nat /\ v'[q] >= v[q] /\ procStartPoint[q] \in Nat
    BY <1>1, SMTT(30) DEF DataInv, DataTypes, RowsInv, RowTypes
  <2>2. max' = max /\ min' = min /\ out' = out /\ CoreData(q)
    BY DEF DataInv
  <2> QED
    BY <1>1, <2>1, <2>2 DEF CoreData, At
<1>5. p \in Placed /\ x \in Share(p) /\ x \in Nat
  BY RowAtHand, RowsAssumption DEF Row
<1>6. ASSUME NEW q \in Placed', NEW r \in Share(q)' PROVE RowFits(q, r)'
  <2>1. q \in Procs /\ q \in Placed /\ r \in Share(q) /\ r \in Row /\ r \in Int /\ RowFits(q, r)
    BY <1>2, SharesInImage DEF Placed, Sized, DataInv, Row
  <2>2. CASE q = p /\ r = x
    BY <2>2
  <2>3. CASE q = p /\ r # x
    <3>1. Progress(q, r)' = Progress(q, r)
      BY <1>1, <1>5, <2>1, <2>3 DEF Progress
    <3>2. Level[r] \in Nat
      BY <2>1, LevelAssumption
    <3>3. /\ local_max[p] \in Nat /\ local_max'[p] \in Nat /\ local_min[p] \in Nat /\ local_min'[p] \in Nat
      BY LevelsNat DEF DataInv, DataTypes
    <3> QED
      BY <1>3, <2>1, <2>3, <3>1, <3>2, <3>3 DEF RowFits
  <2>4. CASE q # p
    <3>1. r # x
      BY <1>5, <2>1, <2>4 DEF RowsInv, SharesPlaced
    <3>2. Progress(q, r)' = Progress(q, r)
      BY <1>1, <2>1, <2>4 DEF Progress
    <3> QED
      BY <1>3, <2>1, <2>4, <3>1, <3>2, RowStays
  <2> QED
    BY <2>2, <2>3, <2>4
<1>7. row' = Rows => \A r \in Row : r < startPoint' \/ matrix'[r] = <<"input">>
  <2>1. x < startPoint
    BY <1>5, SharesInImage
  <2> QED
    BY <1>1, <2>1 DEF DataInv
<1> QED
  BY <1>4, <1>6, <1>7 DEF DataInv

\* Of the rows of an image, an assignment changes one.
LEMMA RowAssigned ==
  ASSUME NEW f, NEW g, NEW x \in Row, NEW e, f = [r \in Row |-> f[r]], g = [f EXCEPT ![x] = e]
  PROVE  g = [r \in Row |-> g[r]] /\ g[x] = e /\ \A r \in Row \ {x} : g[r] = f[r]
<1>1. DOMAIN g = Row /\ g = [r \in DOMAIN g |-> g[r]]
  BY Zenon
<1> QED
  BY <1>1

\* Steps that leave the extremes of every core alone.
LEMMA ExtremesStay ==
  ASSUME DataInv, NEW p \in Procs, local_max' = local_max, local_min' = local_min
  PROVE  /\ \A q \in Procs \ {p} : local_max'[q] = local_max[q] /\ local_min'[q] = local_min[q]
         /\ local_max'[p] >= local_max[p] /\ local_min'[p] <= local_min[p]
<1>1. local_max[p] \in Nat /\ local_min[p] \in Nat
  BY LevelsNat DEF DataInv, DataTypes
<1> QED
  BY <1>1

\* Those among them that assign to one row keep the types.
LEMMA TypesStay ==
  ASSUME DataInv, NEW p \in Procs, v' = [v EXCEPT ![p] = v[p] + 1],
         local_max' = local_max, local_min' = local_min, max' = max, min' = min, out' = out,
         y' \in [Procs -> Nat], sofar' \in [Procs -> {TRUE}],
         matrix' = [r \in Row |-> matrix'[r]], P' = [r \in Row |-> P'[r]], F' = [r \in Row |-> F'[r]]
  PROVE  DataTypes'
<1>1. v' \in [Procs -> Nat]
  BY DEF DataInv, DataTypes
<1> QED
  BY <1>1 DEF DataInv, DataTypes, SerialPixels

\* desloca_origem flips the rows of the input, each once.
LEMMA ShiftFits ==
  ASSUME GuestInv, RowsInv, DataInv, NEW p \in Procs, Shift(p)
  PROVE  DataInv'
<1>1. PICK x \in Row : x = v[p]
  BY RowAtHand DEF Shift, WorkStages
<1>2. /\ InLoop(p, "desloca_origem") /\ "desloca_origem" \in WorkStages
      /\ matrix' = [matrix EXCEPT ![x] =
           IF matrix[x] = <<"input">> THEN <<"shifted">>
           ELSE IF matrix[x] = <<"shifted">> THEN <<"input">> ELSE matrix[x]]
      /\ P' = P /\ F' = F /\ local_max' = local_max /\ local_min' = local_min /\ y' = y /\ sofar' = sofar
      /\ UNCHANGED <<control, tmp, HandedOut, row, max, min, out>>
      /\ v' = [v EXCEPT ![p] = v[p] + 1]
  BY <1>1 DEF Shift, Advance, HandedOut, counters, extremes, files, WorkStages
<1>3. /\ Progress(p, x) = 0 /\ RowFits(p, x) /\ stage[p] = "desloca_origem"
      /\ max' = max /\ min' = min /\ out' = out /\ stage' = stage /\ line' = line
  BY <1>1, <1>2, RowAtHand DEF Reached, control
<1>4. x \in Nat /\ v'[p] = x + 1
  BY <1>1, <1>2, RowsAssumption DEF Row, DataInv, DataTypes
<1>5. Progress(p, x)' = 1
  BY <1>3, <1>4 DEF Progress, Reached, WorkStages
<1>6. matrix'[x] = <<"shifted">>
  BY <1>2, <1>3 DEF RowFits, DataInv, DataTypes
<1>7. RowFits(p, x)'
  BY <1>3, <1>5, <1>6 DEF RowFits, MaxMerged, MinMerged, At, Phase
<1>8. /\ matrix' = [r \in Row |-> matrix'[r]] /\ \A r \in Row \ {x} : matrix'[r] = matrix[r]
      /\ P = [r \in Row |-> P[r]] /\ F = [r \in Row |-> F[r]]
  BY <1>2, RowAssigned DEF DataInv, DataTypes
<1>9. DataTypes'
  <2>1. y' \in [Procs -> Nat] /\ sofar' \in [Procs -> {TRUE}]
    BY <1>2 DEF DataInv, DataTypes
  <2> QED
    BY <1>2, <1>3, <1>8, <2>1, TypesStay
<1> QED
  BY <1>1, <1>2, <1>7, <1>8, <1>9, ExtremesStay, WorkFits

\* The row phase of DFT transforms rows that have been shifted.
LEMMA RowDFTFits ==
  ASSUME GuestInv, RowsInv, DataInv, NEW p \in Procs, RowDFT(p)
  PROVE  DataInv'
<1>1. PICK x \in Row : x = v[p]
  BY RowAtHand DEF RowDFT, WorkStages
<1>2. /\ InLoop(p, "rowDFT") /\ "rowDFT" \in WorkStages
      /\ P' = [P EXCEPT ![x] = IF matrix[x] = <<"shifted">> THEN "spectrum" ELSE "wrong"]
      /\ matrix' = matrix /\ F' = F /\ local_max' = local_max /\ local_min' = local_min /\ y' = y /\ sofar' = sofar
      /\ UNCHANGED <<control, tmp, HandedOut, row, max, min, out>>
      /\ v' = [v EXCEPT ![p] = v[p] + 1]
  BY <1>1 DEF RowDFT, Advance, HandedOut, counters, extremes, files, WorkStages
<1>3. /\ Progress(p, x) = 1 /\ RowFits(p, x) /\ stage[p] = "rowDFT"
      /\ max' = max /\ min' = min /\ out' = out /\ stage' = stage /\ line' = line
  BY <1>1, <1>2, RowAtHand DEF Reached, control
<1>4. x \in Nat /\ v'[p] = x + 1
  BY <1>1, <1>2, RowsAssumption DEF Row, DataInv, DataTypes
<1>5. Progress(p, x)' = 2
  BY <1>3, <1>4 DEF Progress, Reached, WorkStages
<1>6. P'[x] = "spectrum" /\ matrix'[x] = <<"shifted">>
  BY <1>2, <1>3 DEF RowFits, DataInv, DataTypes
<1>7. RowFits(p, x)'
  BY <1>3, <1>5, <1>6 DEF RowFits, MaxMerged, MinMerged, At, Phase
<1>8. /\ P' = [r \in Row |-> P'[r]] /\ \A r \in Row \ {x} : P'[r] = P[r]
      /\ matrix = [r \in Row |-> matrix[r]] /\ F = [r \in Row |-> F[r]]
  BY <1>2, RowAssigned DEF DataInv, DataTypes
<1>9. DataTypes'
  <2>1. y' \in [Procs -> Nat] /\ sofar' \in [Procs -> {TRUE}]
    BY <1>2 DEF DataInv, DataTypes
  <2> QED
    BY <1>2, <1>3, <1>8, <2>1, TypesStay
<1> QED
  BY <1>1, <1>2, <1>7, <1>8, <1>9, ExtremesStay, WorkFits

\* The column phase of DFT has met no row of P that was not ready.
LEMMA ColDFTFits ==
  ASSUME GuestInv, RowsInv, DataInv, NEW p \in Procs, ColDFT(p)
  PROVE  DataInv'
<1>1. PICK x \in Row : x = v[p]
  BY RowAtHand DEF ColDFT, WorkStages
<1>2. /\ InLoop(p, "colDFT") /\ "colDFT" \in WorkStages
      /\ F' = [F EXCEPT ![x] = "dft"]
      /\ matrix' = matrix /\ P' = P /\ local_max' = local_max /\ local_min' = local_min
      /\ y' = [y EXCEPT ![p] = 0] /\ sofar' = [sofar EXCEPT ![p] = TRUE]
      /\ UNCHANGED <<control, tmp, HandedOut, row, max, min, out>>
      /\ v' = [v EXCEPT ![p] = v[p] + 1]
  <2>1. sofar[p]
    BY DEF DataInv, DataTypes
  <2> QED
    BY <1>1, <2>1 DEF ColDFT, Advance, HandedOut, counters, extremes, files, WorkStages
<1>3. /\ Progress(p, x) = 2 /\ RowFits(p, x) /\ stage[p] = "colDFT"
      /\ max' = max /\ min' = min /\ out' = out /\ stage' = stage /\ line' = line
  BY <1>1, <1>2, RowAtHand DEF Reached, control
<1>4. x \in Nat /\ v'[p] = x + 1
  BY <1>1, <1>2, RowsAssumption DEF Row, DataInv, DataTypes
<1>5. Progress(p, x)' = 3
  BY <1>3, <1>4 DEF Progress, Reached, WorkStages
<1>6. F'[x] = "dft" /\ matrix'[x] = <<"shifted">> /\ P'[x] = "spectrum"
  BY <1>2, <1>3 DEF RowFits, DataInv, DataTypes
<1>7. RowFits(p, x)'
  BY <1>3, <1>5, <1>6 DEF RowFits, MaxMerged, MinMerged, At, Phase
<1>8. /\ F' = [r \in Row |-> F'[r]] /\ \A r \in Row \ {x} : F'[r] = F[r]
      /\ matrix = [r \in Row |-> matrix[r]] /\ P = [r \in Row |-> P[r]]
  BY <1>2, RowAssigned DEF DataInv, DataTypes
<1>9. DataTypes'
  <2>1. y' \in [Procs -> Nat] /\ sofar' \in [Procs -> {TRUE}]
    BY <1>2 DEF DataInv, DataTypes
  <2> QED
    BY <1>2, <1>3, <1>8, <2>1, TypesStay
<1> QED
  BY <1>1, <1>2, <1>7, <1>8, <1>9, ExtremesStay, WorkFits

\* log takes the transform of the row.
LEMMA LogFits ==
  ASSUME GuestInv, RowsInv, DataInv, NEW p \in Procs, Log(p)
  PROVE  DataInv'
<1>1. PICK x \in Row : x = v[p]
  BY RowAtHand DEF Log, WorkStages
<1>2. /\ InLoop(p, "log") /\ "log" \in WorkStages
      /\ F' = [F EXCEPT ![x] = IF F[x] = "dft" THEN "log" ELSE "wrong"]
      /\ matrix' = matrix /\ P' = P /\ local_max' = local_max /\ local_min' = local_min /\ y' = y /\ sofar' = sofar
      /\ UNCHANGED <<control, tmp, HandedOut, row, max, min, out>>
      /\ v' = [v EXCEPT ![p] = v[p] + 1]
  BY <1>1 DEF Log, Advance, HandedOut, counters, extremes, files, WorkStages
<1>3. /\ Progress(p, x) = 3 /\ RowFits(p, x) /\ stage[p] = "log"
      /\ max' = max /\ min' = min /\ out' = out /\ stage' = stage /\ line' = line
  BY <1>1, <1>2, RowAtHand DEF Reached, control
<1>4. x \in Nat /\ v'[p] = x + 1
  BY <1>1, <1>2, RowsAssumption DEF Row, DataInv, DataTypes
<1>5. Progress(p, x)' = 4
  BY <1>3, <1>4 DEF Progress, Reached, WorkStages
<1>6. F'[x] = "log" /\ matrix'[x] = <<"shifted">> /\ P'[x] = "spectrum"
  BY <1>2, <1>3 DEF RowFits, DataInv, DataTypes
<1>7. RowFits(p, x)'
  BY <1>3, <1>5, <1>6 DEF RowFits, MaxMerged, MinMerged, At, Phase
<1>8. /\ F' = [r \in Row |-> F'[r]] /\ \A r \in Row \ {x} : F'[r] = F[r]
      /\ matrix = [r \in Row |-> matrix[r]] /\ P = [r \in Row |-> P[r]]
  BY <1>2, RowAssigned DEF DataInv, DataTypes
<1>9. DataTypes'
  <2>1. y' \in [Procs -> Nat] /\ sofar' \in [Procs -> {TRUE}]
    BY <1>2 DEF DataInv, DataTypes
  <2> QED
    BY <1>2, <1>3, <1>8, <2>1, TypesStay
<1> QED
  BY <1>1, <1>2, <1>7, <1>8, <1>9, ExtremesStay, WorkFits


\* max_min takes in the level of a row of the finished spectrum.
LEMMA LocalMaxMinFits ==
  ASSUME GuestInv, RowsInv, DataInv, NEW p \in Procs, LocalMaxMin(p)
  PROVE  DataInv'
<1>1. PICK x \in Row : x = v[p]
  BY RowAtHand DEF LocalMaxMin, WorkStages
<1>2. InLoop(p, "max_min") /\ "max_min" \in WorkStages
  BY DEF LocalMaxMin, WorkStages
<1>3. /\ Progress(p, x) = 4 /\ RowFits(p, x) /\ stage[p] = "max_min"
  BY <1>1, <1>2, RowAtHand DEF Reached
<1>4. LevelOf(v[p]) = Level[x]
  BY <1>1, <1>3 DEF LevelOf, RowFits
<1>5. /\ local_max' = [local_max EXCEPT ![p] = IF Level[x] > local_max[p] THEN Level[x] ELSE local_max[p]]
      /\ local_min' = [local_min EXCEPT ![p] = IF Level[x] < local_min[p] THEN Level[x] ELSE local_min[p]]
      /\ matrix' = matrix /\ P' = P /\ F' = F /\ y' = y /\ sofar' = sofar
      /\ UNCHANGED <<control, tmp, HandedOut, row, max, min, out>>
      /\ v' = [v EXCEPT ![p] = v[p] + 1]
  BY <1>4 DEF LocalMaxMin, Advance, HandedOut, counters, extremes, files, image
<1>6. max' = max /\ min' = min /\ out' = out /\ stage' = stage /\ line' = line
  BY <1>5 DEF control
<1>7. x \in Nat /\ v'[p] = x + 1
  BY <1>1, <1>5, RowsAssumption DEF Row, DataInv, DataTypes
<1>8. Progress(p, x)' = 5
  BY <1>3, <1>6, <1>7 DEF Progress, Reached, WorkStages
<1>9. Level[x] \in Nat /\ Level[x] \in Levels /\ local_max[p] \in Nat /\ local_min[p] \in Nat
  BY LevelAssumption, LevelsNat DEF DataInv, DataTypes, Levels
<1>10. /\ local_max'[p] >= local_max[p] /\ local_min'[p] <= local_min[p]
       /\ local_min'[p] <= Level[x] /\ Level[x] <= local_max'[p]
  <2>1. /\ local_max'[p] = IF Level[x] > local_max[p] THEN Level[x] ELSE local_max[p]
        /\ local_min'[p] = IF Level[x] < local_min[p] THEN Level[x] ELSE local_min[p]
    BY <1>5 DEF DataInv, DataTypes
  <2> QED
    BY <1>9, <2>1
<1>11. RowFits(p, x)'
  BY <1>3, <1>5, <1>6, <1>8, <1>10 DEF RowFits, MaxMerged, MinMerged, At, Phase
<1>12. DataTypes'
  <2>1. local_max' \in [Procs -> {Lowest} \cup Levels] /\ local_min' \in [Procs -> {Highest} \cup Levels]
    BY <1>5, <1>9 DEF DataInv, DataTypes
  <2>2. v' \in [Procs -> Nat]
    BY <1>5 DEF DataInv, DataTypes
  <2> QED
    BY <1>5, <1>6, <2>1, <2>2 DEF DataInv, DataTypes, SerialPixels, Levels
<1>13. \A q \in Procs \ {p} : local_max'[q] = local_max[q] /\ local_min'[q] = local_min[q]
  BY <1>5 DEF DataInv, DataTypes
<1> QED
  BY <1>1, <1>2, <1>5, <1>10, <1>11, <1>12, <1>13, WorkFits

\* The last loop turns a row of the spectrum into pixels with the extremes.
LEMMA ScaleFits ==
  ASSUME GuestInv, RowsInv, DataInv, NEW p \in Procs, Scale(p)
  PROVE  DataInv'
<1>1. PICK x \in Row : x = v[p]
  BY RowAtHand DEF Scale, WorkStages
<1>2. /\ InLoop(p, "scale") /\ "scale" \in WorkStages
      /\ matrix' = [matrix EXCEPT ![x] = IF F[x] = "log" THEN <<"pixel", min, max>> ELSE <<"wrong">>]
      /\ P' = P /\ F' = F /\ local_max' = local_max /\ local_min' = local_min /\ y' = y /\ sofar' = sofar
      /\ UNCHANGED <<control, tmp, HandedOut, row, max, min, out>>
      /\ v' = [v EXCEPT ![p] = v[p] + 1]
  BY <1>1 DEF Scale, Advance, HandedOut, counters, extremes, files, WorkStages
<1>3. /\ Progress(p, x) = 5 /\ RowFits(p, x) /\ stage[p] = "scale"
      /\ max' = max /\ min' = min /\ out' = out /\ stage' = stage /\ line' = line
  BY <1>1, <1>2, RowAtHand DEF Reached, control
<1>4. x \in Nat /\ v'[p] = x + 1
  BY <1>1, <1>2, RowsAssumption DEF Row, DataInv, DataTypes
<1>5. Progress(p, x)' = 6
  BY <1>3, <1>4 DEF Progress, Reached, WorkStages
<1>6. /\ matrix'[x] = <<"pixel", min, max>> /\ F[x] = "log" /\ P[x] = "spectrum"
      /\ local_min[p] <= Level[x] /\ Level[x] <= local_max[p] /\ Level[x] <= max /\ min <= Level[x]
  BY <1>2, <1>3 DEF RowFits, DataInv, DataTypes, MaxMerged, MinMerged, Phase
<1>7. RowFits(p, x)'
  BY <1>2, <1>3, <1>5, <1>6 DEF RowFits
<1>8. /\ matrix' = [r \in Row |-> matrix'[r]] /\ \A r \in Row \ {x} : matrix'[r] = matrix[r]
      /\ P = [r \in Row |-> P[r]] /\ F = [r \in Row |-> F[r]]
  BY <1>2, RowAssigned DEF DataInv, DataTypes
<1>9. DataTypes'
  <2>1. y' \in [Procs -> Nat] /\ sofar' \in [Procs -> {TRUE}]
    BY <1>2 DEF DataInv, DataTypes
  <2> QED
    BY <1>2, <1>3, <1>8, <2>1, TypesStay
<1> QED
  BY <1>1, <1>2, <1>7, <1>8, <1>9, ExtremesStay, WorkFits

\* Reading P column by column finds every row of it transformed.
LEMMA ReadColumnFits ==
  ASSUME GuestInv, PhasesInLockstep, RowsInv, DataInv, NEW p \in Procs, ReadColumn(p)
  PROVE  DataInv'
<1>1. /\ stage[p] = "colDFT" /\ y[p] < row
      /\ y' = [y EXCEPT ![p] = y[p] + 1]
      /\ sofar' = [sofar EXCEPT ![p] = sofar[p] /\ P[y[p]] = "spectrum"]
      /\ UNCHANGED <<lockState, control, tmp, HandedOut, v, local_max, local_min, counters, extremes, image, files>>
  BY DEF ReadColumn, InLoop, At, HandedOut, counters
<1>2. PassedBarriers(p) >= 3
  BY <1>1 DEF PassedBarriers, Phase
<1>3. row = Rows /\ y[p] \in Row
  <2>1. row = Rows
    BY <1>2, AllIdentified, ArrivedType
  <2> QED
    BY <1>1, <2>1, RowsAssumption DEF Row, DataInv, DataTypes
<1>4. P[y[p]] = "spectrum"
  BY <1>2, <1>3, RowSpectrumFinished
<1>5. sofar' \in [Procs -> {TRUE}]
  <2>1. sofar \in [Procs -> {TRUE}]
    BY DEF DataInv, DataTypes
  <2>2. sofar[p] = TRUE
    BY <2>1
  <2>3. sofar' = [sofar EXCEPT ![p] = TRUE]
    BY <1>1, <1>4, <2>2, Zenon
  <2> QED
    BY <2>1, <2>3
<1>6. y' \in [Procs -> Nat]
  BY <1>1 DEF DataInv, DataTypes
<1>7. /\ max' = max /\ min' = min /\ row' = row /\ matrix' = matrix /\ P' = P /\ F' = F /\ out' = out
      /\ v' = v /\ local_max' = local_max /\ local_min' = local_min /\ startPoint' = startPoint
  BY <1>1 DEF HandedOut, extremes, image, files
<1>8. DataTypes'
  BY <1>5, <1>6, <1>7 DEF DataInv, DataTypes, SerialPixels
<1>9. \A q \in Procs : StaysPut(q)
  BY <1>1 DEF StaysPut, Untouched, lockState, control, HandedOut
<1>10. \A q \in Procs : CoreData(q)'
  BY <1>7, <1>9, CoreStays DEF DataInv
<1>11. Placed' = Placed /\ \A q \in Procs : Share(q)' = Share(q)
  BY <1>1 DEF Placed, Sized, Share, control, HandedOut
<1>12. ASSUME NEW q \in Placed', NEW r \in Share(q)' PROVE RowFits(q, r)'
  <2>1. q \in Procs /\ q \in Placed /\ r \in Share(q) /\ RowFits(q, r)
    BY <1>11 DEF Placed, Sized, DataInv
  <2> QED
    BY <1>7, <1>9, <2>1, StaysPutKeeps, RowStays
<1>13. row' = Rows => \A r \in Row : r < startPoint' \/ matrix'[r] = <<"input">>
  BY <1>7 DEF DataInv
<1> QED
  BY <1>8, <1>10, <1>12, <1>13 DEF DataInv

-----------------------------------------------------------------------------
(* Steps that read the image, take a share, merge an extreme, write a row.  *)

\* The image is read before anybody has a share of it.
LEMMA ReadFits ==
  ASSUME GuestInv, PhasesInLockstep, RowsInv, DataInv, NEW p \in Procs, ReadPGM(p)
  PROVE  DataInv'
<1>1. /\ stage[p] = "readPGM" /\ stage' = [stage EXCEPT ![p] = "barrier6"]
      /\ v' = v /\ y' = y /\ sofar' = sofar /\ local_max' = local_max /\ local_min' = local_min
      /\ max' = max /\ min' = min /\ out' = out /\ P' = P /\ F' = F
      /\ matrix' = [r \in Row |-> <<"input">>]
  BY DEF ReadPGM, At, GoTo, locals, extremes, files
<1>2. ArrivedBarriers(p) = 0
  BY <1>1, NamesOfBarriers DEF ArrivedBarriers, PassedBarriers, CountedIn, Phase
<1>3. \A q \in Procs : stage[q] \in {"getProcID", "readPGM", "barrier6"}
  BY <1>2, AllArrived, ArrivedType DEF PassedBarriers, Phase
<1>4. \A q \in Procs : stage'[q] \in {"getProcID", "readPGM", "barrier6"}
  BY <1>1, <1>3 DEF GuestInv, GuestTypes
<1>5. Placed' = {}
  BY <1>4 DEF Placed, Sized
<1>6. \A q \in Procs : CoreData(q)'
  BY <1>4 DEF CoreData, At, WorkStages
<1>7. DataTypes'
  BY <1>1 DEF DataInv, DataTypes, SerialPixels
<1> QED
  BY <1>1, <1>5, <1>6, <1>7 DEF DataInv

\* The rows a core is given are still those of the input.
LEMMA StartFits ==
  ASSUME GuestInv, PhasesInLockstep, RowsInv, DataInv, NEW p \in Procs, Store(p), StoreStartPoint(p)
  PROVE  DataInv'
<1>1. /\ stage[p] = "getStartPoint" /\ line[p] = "store" /\ stage' = stage /\ line'[p] = "release"
      /\ procStartPoint' = [procStartPoint EXCEPT ![p] = startPoint]
      /\ startPoint' = startPoint + procRow[p]
      /\ procRow' = procRow /\ procID' = procID /\ v' = v
      /\ local_max' = local_max /\ local_min' = local_min /\ y' = y /\ sofar' = sofar
      /\ max' = max /\ min' = min /\ row' = row /\ matrix' = matrix /\ P' = P /\ F' = F /\ out' = out
  BY StoreMoves DEF StoreStartPoint, At, RowsInv, CoreFits, Store, extremes, image, files
<1>2. row = Rows
  BY <1>1, AllIdentified DEF PassedBarriers, Phase
<1>3. startPoint' \in 0 .. Rows
  BY StoreStartPointKeeps, SharesInImageNext
<1>4. DataTypes'
  BY <1>1 DEF DataInv, DataTypes, SerialPixels
<1>5. \A q \in Procs \ {p} : StaysPut(q)
  BY <1>1, StoreMoves DEF StaysPut, RowsInv, RowTypes
<1>6. CoreData(p)'
  BY <1>1 DEF CoreData, At, WorkStages
<1>7. \A q \in Procs : CoreData(q)'
  BY <1>1, <1>5, <1>6, CoreStays DEF DataInv
<1>8. p \notin Placed
  BY <1>1 DEF Placed
<1>9. startPoint \in Nat /\ procRow[p] \in Nat /\ startPoint' >= startPoint
  BY <1>1 DEF RowsInv, RowTypes
<1>10. ASSUME NEW r \in Share(p)' PROVE RowFits(p, r)'
  <2>1. procStartPoint'[p] = startPoint /\ procRow'[p] = procRow[p]
    BY <1>1 DEF RowsInv, RowTypes
  <2>2. r \in Int /\ startPoint <= r /\ r < startPoint'
    BY <1>1, <1>9, <1>10, <2>1 DEF Share
  <2>3. r \in Row /\ ~(r < startPoint)
    BY <1>3, <1>9, <2>2, RowsAssumption DEF Row
  <2>4. matrix[r] = <<"input">>
    BY <1>2, <2>3 DEF DataInv
  <2>5. Progress(p, r)' = 0 /\ ~MaxMerged(p)' /\ ~MinMerged(p)'
    BY <1>1 DEF Progress, Reached, WorkStages, MaxMerged, MinMerged, At, Phase
  <2> QED
    BY <1>1, <2>4, <2>5 DEF RowFits
<1>11. ASSUME NEW q \in Placed', NEW r \in Share(q)', q # p PROVE RowFits(q, r)'
  <2>1. q \in Procs
    BY DEF Placed, Sized
  <2>2. q \in Placed /\ r \in Share(q) /\ StaysPut(q)
    BY <1>5, <1>11, <2>1, StaysPutKeeps
  <2>3. RowFits(q, r)
    BY <2>2 DEF DataInv
  <2> QED
    BY <1>1, <2>1, <2>2, <2>3, StaysPutKeeps, RowStays
<1>12. ASSUME NEW r \in Row PROVE r < startPoint' \/ matrix'[r] = <<"input">>
  BY <1>1, <1>2, <1>9, RowsAssumption DEF DataInv, Row
<1> QED
  BY <1>4, <1>7, <1>10, <1>11, <1>12 DEF DataInv

\* A merge moves the extremes apart, far enough for the rows of the core that
\* merges, and no row has been scaled with them yet.
LEMMA MergeFits ==
  ASSUME GuestInv, PhasesInLockstep, RowsInv, DataInv, NEW p \in Procs, Store(p), StoreMax(p) \/ StoreMin(p)
  PROVE  DataInv'
<1>1. /\ stage[p] \in {"maxLock", "minLock"} /\ line[p] = "store" /\ stage' = stage /\ line'[p] = "release"
      /\ procStartPoint' = procStartPoint /\ startPoint' = startPoint
      /\ procRow' = procRow /\ procID' = procID /\ v' = v
      /\ local_max' = local_max /\ local_min' = local_min /\ y' = y /\ sofar' = sofar
      /\ row' = row /\ matrix' = matrix /\ P' = P /\ F' = F /\ out' = out
  BY StoreMoves DEF StoreMax, StoreMin, At, Store, counters, image, files
<1>2. \/ /\ stage[p] = "maxLock" /\ min' = min
         /\ max' = IF local_max[p] > max THEN local_max[p] ELSE max
      \/ /\ stage[p] = "minLock" /\ max' = max
         /\ min' = IF local_min[p] < min THEN local_min[p] ELSE min
  BY DEF StoreMax, StoreMin, At, DataInv, CoreData
<1>3. /\ max \in Nat /\ min \in Nat /\ local_max[p] \in Nat /\ local_min[p] \in Nat
  BY LevelsNat DEF DataInv, DataTypes
<1>4. /\ max' \in Nat /\ min' \in Nat /\ max' >= max /\ min' <= min
      /\ stage[p] = "maxLock" => max' >= local_max[p]
      /\ stage[p] = "minLock" => min' <= local_min[p]
  BY <1>2, <1>3
<1>5. DataTypes'
  <2>1. local_max[p] > max => local_max[p] \in Levels
    BY <1>3 DEF DataInv, DataTypes, Lowest
  <2>2. local_min[p] < min => local_min[p] \in Levels
    <3>1. \A n \in Levels : n \in Nat /\ n < Highest
      BY LevelAssumption DEF Levels
    <3>2. Highest \in Nat /\ min \in {Highest} \cup Levels /\ local_min[p] \in {Highest} \cup Levels
      BY LevelAssumption DEF DataInv, DataTypes
    <3>3. min <= Highest
      BY <3>1, <3>2
    <3> QED
      BY <3>2, <3>3
  <2>3. max' \in {Lowest} \cup Levels /\ min' \in {Highest} \cup Levels
    BY <1>2, <2>1, <2>2 DEF DataInv, DataTypes
  <2> QED
    BY <1>1, <2>3 DEF DataInv, DataTypes, SerialPixels, Levels
<1>6. \A q \in Procs \ {p} : StaysPut(q)
  BY <1>1, StoreMoves DEF StaysPut
<1>7. ASSUME NEW q \in Procs PROVE CoreData(q)'
  <2>1. CASE q = p
    BY <1>1, <2>1 DEF CoreData, At, WorkStages
  <2>2. CASE q # p
    <3>1. StaysPut(q) /\ CoreData(q)
      BY <1>6, <2>2 DEF DataInv
    <3>2. ~(stage[q] = stage[p] /\ line[q] = "store")
      BY <1>1, <2>2, OneStores
    <3> QED
      BY <1>1, <1>2, <3>1, <3>2 DEF CoreData, StaysPut, Untouched, At
  <2> QED
    BY <2>1, <2>2
<1>8. Placed' = Placed /\ \A q \in Procs : Share(q)' = Share(q)
  <2>1. \A q \in Procs : q \in Placed' <=> q \in Placed
    <3>1. p \in Placed' /\ p \in Placed
      BY <1>1 DEF Placed, Sized
    <3> QED
      BY <1>6, <3>1, StaysPutKeeps
  <2>2. Placed \subseteq Procs /\ Placed' \subseteq Procs
    BY DEF Placed, Sized
  <2>3. \A q \in Procs : Share(q)' = Share(q)
    BY <1>1 DEF Share
  <2> QED
    BY <2>1, <2>2, <2>3
<1>9. ArrivedBarriers(p) = 4
  BY <1>1, NamesOfBarriers DEF ArrivedBarriers, PassedBarriers, CountedIn, Phase
<1>10. ASSUME NEW q \in Placed', NEW r \in Share(q)' PROVE RowFits(q, r)'
  <2>1. q \in Procs /\ q \in Placed /\ r \in Share(q) /\ r \in Row /\ RowFits(q, r)
    BY <1>8, SharesInImage DEF Placed, Sized, DataInv
  <2>2. Progress(q, r) \in 0 .. 5
    BY <1>9, <2>1, AllArrived, ArrivedType, ProgressOfPhase DEF GuestInv
  <2>3. Progress(q, r)' = Progress(q, r)
    BY <1>1 DEF Progress
  <2>4. Level[r] \in Nat
    BY <2>1, LevelAssumption
  <2>5. q = p => local_min[p] <= Level[r] /\ Level[r] <= local_max[p]
    BY <1>1, <2>1 DEF RowFits, Progress, Reached, WorkStages
  <2>6. MaxMerged(q)' => Level[r] <= max'
    <3>1. CASE MaxMerged(q)
      BY <1>3, <1>4, <2>1, <2>4, <3>1 DEF RowFits
    <3>2. CASE q = p /\ stage[p] = "maxLock"
      BY <1>3, <1>4, <2>4, <2>5, <3>2
    <3>3. CASE ~MaxMerged(q) /\ ~(q = p /\ stage[p] = "maxLock")
      <4>1. q # p => (MaxMerged(q)' <=> MaxMerged(q))
        BY <1>6, <2>1, StaysPutKeeps
      <4>2. q = p => MaxMerged(q)
        BY <1>1, <3>3 DEF MaxMerged
      <4> QED
        BY <3>3, <4>1, <4>2
    <3> QED
      BY <3>1, <3>2, <3>3
  <2>7. MinMerged(q)' => min' <= Level[r]
    <3>1. CASE MinMerged(q)
      BY <1>3, <1>4, <2>1, <2>4, <3>1 DEF RowFits
    <3>2. CASE q = p /\ stage[p] = "minLock"
      BY <1>3, <1>4, <2>4, <2>5, <3>2
    <3>3. CASE ~MinMerged(q) /\ ~(q = p /\ stage[p] = "minLock")
      <4>1. q # p => (MinMerged(q)' <=> MinMerged(q))
        BY <1>6, <2>1, StaysPutKeeps
      <4>2. q = p => ~MinMerged(q)'
        BY <1>1, <3>3 DEF MinMerged, At, Phase
      <4> QED
        BY <3>3, <4>1, <4>2
    <3> QED
      BY <3>1, <3>2, <3>3
  <2> QED
    BY <1>1, <2>1, <2>2, <2>3, <2>6, <2>7 DEF RowFits
<1>11. row' = Rows => \A r \in Row : r < startPoint' \/ matrix'[r] = <<"input">>
  BY <1>1 DEF DataInv
<1> QED
  BY <1>5, <1>7, <1>10, <1>11 DEF DataInv

\* Every row written is finished, and is the one a single core would write.
LEMMA WriteFits ==
  ASSUME GuestInv, PhasesInLockstep, RowsInv, DataInv, NEW p \in Procs, WriteRow(p)
  PROVE  DataInv'
<1>1. /\ stage[p] = "writePGM" /\ Len(out) < row
      /\ out' = Append(out, matrix[Len(out)])
      /\ UNCHANGED <<lockState, control, locals, counters, extremes, image>>
  BY DEF WriteRow, At
<1>2. PassedBarriers(p) = 6
  BY <1>1 DEF PassedBarriers, Phase
<1>3. out \in Seq({SerialPixels}) /\ Len(out) \in Nat
  BY DEF DataInv, DataTypes
<1>4. row = Rows /\ Len(out) \in Row
  <2>1. row = Rows
    BY <1>2, AllIdentified
  <2> QED
    BY <1>1, <1>3, <2>1, RowsAssumption DEF Row
<1>5. matrix[Len(out)] = SerialPixels
  <2>1. PICK q \in Procs : Len(out) \in Share(q) /\ q \in Placed
    BY <1>2, <1>4, EverybodyPlaced
  <2>2. Progress(q, Len(out)) = 6
    BY <1>2, AllArrived, ArrivedType, ProgressOfPhase DEF GuestInv
  <2>3. matrix[Len(out)] = <<"pixel", min, max>>
    BY <2>1, <2>2 DEF DataInv, RowFits
  <2> QED
    BY <1>2, <1>4, <2>3, PixelsSerial
<1>6. out' \in Seq({SerialPixels})
  BY <1>1, <1>3, <1>5
<1>7. /\ max' = max /\ min' = min /\ row' = row /\ matrix' = matrix /\ P' = P /\ F' = F
      /\ v' = v /\ y' = y /\ sofar' = sofar /\ local_max' = local_max /\ local_min' = local_min
      /\ startPoint' = startPoint
  BY <1>1 DEF locals, counters, extremes, image
<1>8. DataTypes'
  BY <1>6, <1>7 DEF DataInv, DataTypes, SerialPixels
<1>9. \A q \in Procs : StaysPut(q)
  BY <1>1 DEF StaysPut, Untouched, lockState, control, locals
<1>10. ASSUME NEW q \in Procs PROVE CoreData(q)'
  <2>1. ~(stage[q] \in {"barrier4", "exit"} /\ procID[q] = 0)
    BY <1>1, <1>3, <1>4, RowsAssumption DEF DataInv, CoreData
  <2> QED
    BY <1>7, <1>9, <2>1 DEF DataInv, CoreData, StaysPut, Untouched, At
<1>11. Placed' = Placed /\ \A q \in Procs : Share(q)' = Share(q)
  BY <1>1 DEF Placed, Sized, Share, control, locals
<1>12. ASSUME NEW q \in Placed', NEW r \in Share(q)' PROVE RowFits(q, r)'
  <2>1. q \in Procs /\ q \in Placed /\ r \in Share(q) /\ RowFits(q, r)
    BY <1>11 DEF Placed, Sized, DataInv
  <2> QED
    BY <1>7, <1>9, <2>1, StaysPutKeeps, RowStays
<1>13. row' = Rows => \A r \in Row : r < startPoint' \/ matrix'[r] = <<"input">>
  BY <1>7 DEF DataInv
<1> QED
  BY <1>8, <1>10, <1>12, <1>13 DEF DataInv

-----------------------------------------------------------------------------
\* The invariant holds before the first step: nobody has rows, nothing is read.
LEMMA DataInvInit == Init => DataInv
<1> SUFFICES ASSUME Init PROVE DataInv
  OBVIOUS
<1>1. \A p \in Procs : stage[p] = "getProcID" /\ line[p] = "call"
  BY DEF Init
<1>2. Placed = {}
  BY <1>1 DEF Placed, Sized
<1>3. \A p \in Procs : CoreData(p)
  BY <1>1 DEF CoreData, At, WorkStages
<1>4. DataTypes
  <2>1. out \in Seq({SerialPixels})
    BY DEF Init
  <2>2. sofar \in [Procs -> {TRUE}]
    BY DEF Init
  <2> QED
    BY <2>1, <2>2 DEF Init, DataTypes
<1>5. row = Rows => \A r \in Row : r < startPoint \/ matrix[r] = <<"input">>
  BY RowsAssumption DEF Init, Row
<1> QED
  BY <1>2, <1>3, <1>4, <1>5 DEF DataInv

\* Every step of every core keeps it.
LEMMA DataInvStep ==
  ASSUME GuestInv, PhasesInLockstep, RowsInv, DataInv, [Next]_vars
  PROVE  DataInv'
<1>1. ASSUME NEW p \in Procs, Step(p) PROVE DataInv'
  <2>1. CASE EnterLock(p) \/ InsideAcquire(p) \/ Load(p)
    BY <2>1, LockStepFits
  <2>2. CASE Store(p)
    <3>1. CASE StoreProcID(p) \/ StoreProcRow(p) \/ CountIn(p)
      BY <2>2, <3>1, StoreFits
    <3>2. CASE StoreStartPoint(p)
      BY <2>2, <3>2, StartFits
    <3>3. CASE StoreMax(p) \/ StoreMin(p)
      BY <2>2, <3>3, MergeFits
    <3> QED
      BY <2>2, <3>1, <3>2, <3>3 DEF Store
  <2>3. CASE LeaveLock(p)
    BY <2>3, LeaveFits
  <2>4. CASE PassBarrier(p)
    BY <2>4, PassFits
  <2>5. CASE ReadPGM(p)
    BY <2>5, ReadFits
  <2>6. CASE OpenFails(p) \/ OpenOutput(p) \/ CloseOutput(p)
    BY <2>6, FileFits
  <2>7. CASE WriteRow(p)
    BY <2>7, WriteFits
  <2>8. CASE Divide(p)
    BY <2>8, DivideFits
  <2>9. CASE Shift(p)
    BY <2>9, ShiftFits
  <2>10. CASE RowDFT(p)
    BY <2>10, RowDFTFits
  <2>11. CASE ReadColumn(p)
    BY <2>11, ReadColumnFits
  <2>12. CASE ColDFT(p)
    BY <2>12, ColDFTFits
  <2>13. CASE Log(p)
    BY <2>13, LogFits
  <2>14. CASE LocalMaxMin(p)
    BY <2>14, LocalMaxMinFits
  <2>15. CASE Scale(p)
    BY <2>15, ScaleFits
  <2>16. CASE EndLoop(p)
    BY <2>16, EndLoopFits
  <2> QED
    BY <1>1, <2>1, <2>2, <2>3, <2>4, <2>5, <2>6, <2>7, <2>8, <2>9, <2>10, <2>11, <2>12, <2>13, <2>14,
       <2>15, <2>16 DEF Step
<1>2. CASE UNCHANGED vars
  <2>1. /\ stage' = stage /\ line' = line /\ tmp' = tmp /\ procID' = procID /\ procRow' = procRow
        /\ procStartPoint' = procStartPoint /\ startPoint' = startPoint /\ v' = v /\ UNCHANGED Data
        /\ UNCHANGED lockState
    BY <1>2 DEF vars, control, locals, counters, Data
  <2>2. \A q \in Procs : StaysPut(q)
    BY <2>1 DEF StaysPut, Untouched, lockState
  <2>3. /\ y' = y /\ sofar' = sofar /\ local_max' = local_max /\ local_min' = local_min
        /\ max' = max /\ min' = min /\ row' = row /\ matrix' = matrix /\ P' = P /\ F' = F /\ out' = out
    BY <2>1 DEF Data, extremes, image, files
  <2>4. DataTypes'
    BY <2>1, <2>3 DEF DataInv, DataTypes, SerialPixels
  <2>5. \A q \in Procs : CoreData(q)'
    BY <2>2, <2>3, CoreStays DEF DataInv
  <2>6. ASSUME NEW q \in Placed', NEW r \in Share(q)' PROVE RowFits(q, r)'
    <3>1. q \in Procs
      BY DEF Placed, Sized
    <3>2. q \in Placed /\ r \in Share(q)
      BY <2>2, <2>6, <3>1, StaysPutKeeps
    <3>3. RowFits(q, r)
      BY <3>2 DEF DataInv
    <3> QED
      BY <2>2, <2>3, <3>1, <3>3, StaysPutKeeps, RowStays
  <2>7. row' = Rows => \A r \in Row : r < startPoint' \/ matrix'[r] = <<"input">>
    BY <2>1, <2>3 DEF DataInv
  <2> QED
    BY <2>4, <2>5, <2>6, <2>7 DEF DataInv
<1> QED
  BY <1>1, <1>2 DEF Next

\* For any number of cores and rows and any spectrum, every row of every core
\* is exactly as far as the part of main the core executes says.
THEOREM DataSafety == Spec => []DataInv
<1>1. Init => DataInv
  BY DataInvInit
<1>2. GuestInv /\ PhasesInLockstep /\ RowsInv /\ DataInv /\ [Next]_vars => DataInv'
  BY DataInvStep
<1> QED
  BY <1>1, <1>2, GuestSafety, ImageLockstep, RowsHandedOut, PTL DEF Spec

\* For any number of cores and rows and any spectrum, every row of the file is
\* the one a single core would have written.
THEOREM ImageOutputSerial == Spec => []OutputIsSerial
<1>1. DataInv => OutputIsSerial
  <2> SUFFICES ASSUME DataInv, NEW k \in DOMAIN out PROVE out[k] = SerialPixels
    BY DEF OutputIsSerial
  <2>1. out \in Seq({SerialPixels})
    BY DEF DataInv, DataTypes
  <2> QED
    BY <2>1
<1> QED
  BY <1>1, DataSafety, PTL

\* For any number of cores and rows, no core reaches exit before the core that
\* took id 0 has written the last row.
THEOREM ImageExitAfterOutput == Spec => []ExitAfterOutput
<1>1. GuestInv /\ PhasesInLockstep /\ RowsInv /\ DataInv => ExitAfterOutput
  <2> SUFFICES ASSUME GuestInv, PhasesInLockstep, RowsInv, DataInv, NEW p \in Procs, stage[p] = "exit"
               PROVE  Len(out) = Rows
    BY DEF ExitAfterOutput
  <2>1. PassedBarriers(p) = 7
    BY DEF PassedBarriers, Phase
  <2>2. \A q \in Procs : ArrivedBarriers(q) >= 7
    BY <2>1, AllArrived
  <2>3. \A q \in Procs : stage[q] \in {"barrier4", "exit"}
    BY <2>2, ArrivedType, NamesOfBarriers
       DEF ArrivedBarriers, PassedBarriers, CountedIn, Phase, GuestInv, GuestTypes, Stages, Critical, WorkStages
  <2>4. Identified = Procs
    BY <2>3 DEF Identified
  <2>5. PICK q \in Procs : procID[q] = 0
    BY <2>4 DEF RowsInv, IdsCounted
  <2> QED
    BY <2>3, <2>5 DEF DataInv, CoreData
<1> QED
  BY <1>1, GuestSafety, ImageLockstep, RowsHandedOut, DataSafety, PTL

-----------------------------------------------------------------------------
\* The locals of a core stay within the cores and the rows there are.
LocalBounds ==
  /\ procID \in [Procs -> -1 .. NumberOfProc - 1]
  /\ procRow \in [Procs -> 0 .. Rows]
  /\ procStartPoint \in [Procs -> 0 .. Rows]
  /\ v \in [Procs -> 0 .. Rows]
  /\ y \in [Procs -> 0 .. Rows]

\* A share has no more rows than the image, also with a row left over.
LEMMA QuotientFits ==
  Quotient \in 0 .. Rows /\ (Remainder > 0 => Quotient + 1 \in 0 .. Rows)
<1>1. ASSUME NEW q \in Nat, NEW n \in Nat \ {0} PROVE q * n >= q
  BY SMTT(30)
<1>2. Quotient * NumberOfProc >= Quotient
  BY <1>1, Division
<1>3. Quotient * NumberOfProc \in Nat
  BY Division
<1> QED
  BY <1>2, <1>3, Division, RowsAssumption

\* What a core stores in its critical sections is within these bounds.
LEMMA StoreBounds ==
  ASSUME GuestInv, PhasesInLockstep, RowsInv, LocalBounds, NEW p \in Procs, Store(p)
  PROVE  LocalBounds'
<1>1. v' = v /\ y' = y /\ line[p] = "store"
  BY StoreMoves DEF Store
<1>2. CASE StoreProcID(p)
  <2>1. stage[p] = "getProcID" /\ procID' = [procID EXCEPT ![p] = procIDCounter]
        /\ UNCHANGED <<procRow, procStartPoint>>
    BY <1>2 DEF StoreProcID, At, RowsInv, CoreFits
  <2>2. Identified \in SUBSET Procs /\ p \notin Identified
    BY <1>1, <2>1 DEF Identified
  <2>3. Cardinality(Identified) < Cardinality(Procs)
    BY <2>2, CoresAssumption, FS_Subset, FS_CardinalityType
  <2>4. procIDCounter \in 0 .. NumberOfProc - 1
    BY <2>3, FiniteCores, CoresAssumption, Division DEF RowsInv, IdsCounted
  <2>5. procID' \in [Procs -> -1 .. NumberOfProc - 1]
    BY <2>1, <2>4, Division DEF LocalBounds
  <2> QED
    BY <1>1, <2>1, <2>5 DEF LocalBounds
<1>3. CASE StoreProcRow(p)
  <2>1. At(p, "getProcRow", "store") /\ stage[p] = "getProcRow"
    BY <1>3 DEF StoreProcRow, At
  <2>2. /\ procRow[p] = Quotient /\ tmp[p] = rowsRemaining
        /\ UNCHANGED <<procID, procStartPoint>>
        /\ \/ procRow' = procRow
           \/ rowsRemaining \notin {-1, 0} /\ procRow' = [procRow EXCEPT ![p] = procRow[p] + 1]
    <3>1. procRow[p] = Quotient /\ tmp[p] = rowsRemaining
      BY <1>1, <2>1 DEF RowsInv, CoreFits
    <3>2. /\ UNCHANGED <<procID, procStartPoint>>
          /\ \/ procRow' = procRow
             \/ tmp[p] \notin {-1, 0} /\ procRow' = [procRow EXCEPT ![p] = procRow[p] + 1]
      BY <1>3 DEF StoreProcRow
    <3> QED
      BY <3>1, <3>2
  <2>3. rowsRemaining \notin {-1, 0} => Remainder > 0
    BY FiniteCores, Division DEF RowsInv, RestCounted
  <2>4. procRow' \in [Procs -> 0 .. Rows]
    BY <2>2, <2>3, QuotientFits DEF LocalBounds
  <2> QED
    BY <1>1, <2>2, <2>4 DEF LocalBounds
<1>4. CASE StoreStartPoint(p)
  <2>1. procStartPoint' = [procStartPoint EXCEPT ![p] = startPoint] /\ UNCHANGED <<procID, procRow>>
    BY <1>4 DEF StoreStartPoint, At, RowsInv, CoreFits
  <2> QED
    BY <1>1, <2>1, SharesInImage DEF LocalBounds
<1>5. CASE StoreMax(p) \/ StoreMin(p) \/ CountIn(p)
  BY <1>1, <1>5 DEF LocalBounds, StoreMax, StoreMin, CountIn
<1> QED
  BY <1>2, <1>3, <1>4, <1>5 DEF Store

\* Working on a row takes a core to the next one, at most behind the last.
LEMMA WorkBounds ==
  ASSUME GuestInv, PhasesInLockstep, RowsInv, DataInv, LocalBounds, NEW p \in Procs,
         \/ Shift(p) \/ RowDFT(p) \/ ReadColumn(p) \/ ColDFT(p) \/ Log(p) \/ LocalMaxMin(p) \/ Scale(p)
  PROVE  LocalBounds'
<1>1. /\ UNCHANGED <<procID, procRow, procStartPoint>>
      /\ \E s \in WorkStages : InLoop(p, s)
  BY DEF Shift, RowDFT, ReadColumn, ColDFT, Log, LocalMaxMin, Scale, WorkStages
<1>2. v[p] \in Row /\ stage[p] \in WorkStages
  BY <1>1, RowAtHand
<1>3. v' \in [Procs -> 0 .. Rows]
  <2>1. v' = v \/ v' = [v EXCEPT ![p] = v[p] + 1]
    BY DEF Shift, RowDFT, ReadColumn, ColDFT, Log, LocalMaxMin, Scale, Advance
  <2> QED
    BY <1>2, <2>1, RowsAssumption DEF LocalBounds, Row
<1>4. row = Rows
  <2>1. PassedBarriers(p) >= 1
    BY <1>2 DEF PassedBarriers, Phase, WorkStages
  <2> QED
    BY <2>1, AllIdentified
<1>5. y' \in [Procs -> 0 .. Rows]
  <2>1. \/ y' = y
        \/ y' = [y EXCEPT ![p] = 0]
        \/ y[p] < row /\ y' = [y EXCEPT ![p] = y[p] + 1]
    BY DEF Shift, RowDFT, ReadColumn, ColDFT, Log, LocalMaxMin, Scale
  <2> QED
    BY <1>4, <2>1, RowsAssumption DEF LocalBounds
<1> QED
  BY <1>1, <1>3, <1>5 DEF LocalBounds

\* Every step of every core stays within these bounds.
LEMMA BoundsStep ==
  ASSUME GuestInv, PhasesInLockstep, RowsInv, DataInv, LocalBounds, [Next]_vars
  PROVE  LocalBounds'
<1>1. ASSUME NEW p \in Procs, Step(p) PROVE LocalBounds'
  <2>1. CASE Store(p)
    BY <2>1, StoreBounds
  <2>2. CASE \/ Shift(p) \/ RowDFT(p) \/ ReadColumn(p) \/ ColDFT(p) \/ Log(p) \/ LocalMaxMin(p) \/ Scale(p)
    BY <2>2, WorkBounds
  <2>3. CASE Divide(p)
    <3>1. procRow' = [procRow EXCEPT ![p] = row \div procIDCounter] /\ stage[p] = "getProcRow"
          /\ UNCHANGED <<procID, procStartPoint, v, y>>
      BY <2>3 DEF Divide, At
    <3>2. procIDCounter = NumberOfProc /\ row = Rows
      BY <3>1, AllIdentified DEF PassedBarriers, Phase
    <3>3. procRow' = [procRow EXCEPT ![p] = Quotient]
      BY <3>1, <3>2 DEF Quotient
    <3> QED
      BY <3>1, <3>3, QuotientFits DEF LocalBounds
  <2>4. CASE EnterLock(p) \/ InsideAcquire(p) \/ Load(p) \/ ReadPGM(p) \/ OpenFails(p) \/ OpenOutput(p)
             \/ WriteRow(p) \/ CloseOutput(p)
    BY <2>4 DEF EnterLock, InsideAcquire, Load, ReadPGM, OpenFails, OpenOutput, WriteRow, CloseOutput,
       locals, LocalBounds
  <2>5. CASE LeaveLock(p) \/ PassBarrier(p) \/ EndLoop(p)
    <3>1. UNCHANGED <<procID, procRow, procStartPoint, y>>
      BY <2>5 DEF LeaveLock, PassBarrier, EndLoop
    <3>2. \E x \in {v[p], procStartPoint[p]} : v' = [v EXCEPT ![p] = x]
      BY <2>5 DEF LeaveLock, PassBarrier, EndLoop
    <3>3. v' \in [Procs -> 0 .. Rows]
      BY <3>2 DEF LocalBounds
    <3> QED
      BY <3>1, <3>3 DEF LocalBounds
  <2> QED
    BY <1>1, <2>1, <2>2, <2>3, <2>4, <2>5 DEF Step
<1>2. CASE UNCHANGED vars
  BY <1>2 DEF vars, locals, LocalBounds
<1> QED
  BY <1>1, <1>2 DEF Next

\* For any number of cores and rows, no index, count or id of the image guest
\* leaves the range of the rows and cores there are.
THEOREM ImageTypes == Spec => []TypeOK
<1>1. Init => LocalBounds
  BY Division, RowsAssumption DEF Init, LocalBounds
<1>2. GuestInv /\ PhasesInLockstep /\ RowsInv /\ DataInv /\ LocalBounds /\ [Next]_vars => LocalBounds'
  BY BoundsStep
<1>3. GuestInv /\ RowsInv /\ LocalBounds => TypeOK
  <2> SUFFICES ASSUME GuestInv, RowsInv, LocalBounds PROVE TypeOK
    OBVIOUS
  <2>1. Lk!LockTypeOK /\ stage \in [Procs -> Stages] /\ line \in [Procs -> Lines]
    BY DEF GuestInv, GuestTypes, Lk!LockInv
  <2>2. procIDCounter \in 0 .. NumberOfProc
    <3>1. Identified \in SUBSET Procs
      BY DEF Identified
    <3> QED
      BY <3>1, CoresAssumption, FS_Subset, FS_CardinalityType DEF RowsInv, IdsCounted
  <2>3. rowsRemaining \in -1 .. NumberOfProc - 1
    BY FiniteCores, Division DEF RowsInv, RestCounted
  <2>4. barrier \in [BarrierNames -> 0 .. NumberOfProc]
    <3>1. ASSUME NEW b \in BarrierNames PROVE barrier[b] \in 0 .. NumberOfProc
      <4>1. Counted(b) \in SUBSET Procs
        BY DEF Counted
      <4> QED
        BY <4>1, CoresAssumption, FS_Subset, FS_CardinalityType DEF GuestInv, BarrierCounts
    <3> QED
      BY <3>1 DEF GuestInv, GuestTypes
  <2> QED
    BY <2>1, <2>2, <2>3, <2>4, SharesInImage DEF TypeOK, LocalBounds, Lines, RowsInv, RowTypes
<1> QED
  BY <1>1, <1>2, <1>3, GuestSafety, ImageLockstep, RowsHandedOut, DataSafety, PTL DEF Spec
=============================================================================
