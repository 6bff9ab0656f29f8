--------------------------- MODULE HistogramProofs ---------------------------
(***************************************************************************)
(* The parallel histogram, for every number of cores, every image and any  *)
(* limits: its counters implement the chain of barriers, the rows are read *)
(* in order, and what core 1 prints is the histogram of the image.         *)
(***************************************************************************)
EXTENDS Histogram, FiniteSetTheorems, FunctionTheorems, TLAPS

\* What is known of the lock macros, for any callers.
LkP == INSTANCE NestedLockProofs WITH Global <- "global", NoLock <- "none"

\* The invariant of the macros is the one proved of them, and so are its steps.
LEMMA LockStays ==
  ASSUME Lk!NestedLockInv, [Lk!LockNext]_lockState
  PROVE  Lk!NestedLockInv'
<1> USE DEF Lk!NestedLockInv, LkP!NestedLockInv, Lk!LockTypeOK, LkP!LockTypeOK, Lk!Points,
     LkP!Points, Lk!RegisterTellsOwner, LkP!RegisterTellsOwner, Lk!RegisterMutex,
     LkP!RegisterMutex, Lk!WordTellsOwner, LkP!WordTellsOwner, Lk!AtomicMutex, LkP!AtomicMutex,
     Lk!OwnsRegister, LkP!OwnsRegister
<1>1. LkP!NestedLockInv
  OBVIOUS
<1>2. [LkP!LockNext]_(LkP!lockVars)
  BY Zenon DEF lockState, LkP!lockVars, Lk!LockNext, LkP!LockNext, Lk!Call, LkP!Call,
     Lk!EnterStep, LkP!EnterStep, Lk!ReadRegister, LkP!ReadRegister, Lk!PollLocal,
     LkP!PollLocal, Lk!SetLocal, LkP!SetLocal, Lk!GiveRegister, LkP!GiveRegister, Lk!Leave,
     LkP!Leave, Lk!Goto, LkP!Goto
<1>3. LkP!NestedLockAssumption
  BY PowerOnAssumption DEF LkP!NestedLockAssumption, Locks
<1>4. LkP!NestedLockInv'
  BY ONLY <1>1, <1>2, <1>3, LkP!NestedInvStep
<1> QED
  BY <1>4
-----------------------------------------------------------------------------
Stages ==
  {"read", "partial", "sum", "print", "exit", "exit_bad_header"} \cup Barriers
Lines ==
  {"call", "begin", "count", "header", "check", "share", "rows", "store", "leave", "wait",
   "zero", "loop", "bin", "add", "stopped"}

\* The lines of main inside a critical section, and those outside.
Inside(s, l) ==
  \/ s = "read" /\ l \in {"begin", "count", "header", "check", "share", "rows", "leave"}
  \/ s = "exit_bad_header" /\ l = "stopped"
  \/ s = "print" /\ l \in {"begin", "leave"}
  \/ s \in Barriers /\ l \in {"begin", "store", "leave"}
Outside(s, l) ==
  \/ s \in {"read", "print"} \cup Barriers /\ l = "call"
  \/ s \in Barriers /\ l = "wait"
  \/ s = "partial" /\ l \in {"zero", "loop"}
  \/ s = "sum" /\ l \in {"bin", "add"}
  \/ s = "exit" /\ l = "stopped"

\* A core that has stopped on a bad header has not left ATOMIC(l1).
LockAt(s) == IF s = "exit_bad_header" THEN "l1" ELSE LockOf(s)

\* The cores that have counted themselves into a barrier.
Counted(b) == {c \in Procs : ArrivedBarriers(c) > BarrierOf(b)}

GuestTypes ==
  /\ stage \in [Procs -> Stages]
  /\ line \in [Procs -> Lines]
  /\ tmp = [c \in Procs |-> tmp[c]]
  /\ barreira \in [0 .. 2 -> Nat]

\* Where a core is in main tells where it is in the lock macros, and a core
\* about to store a count has loaded the one that is still there.
LineFits(c) ==
  /\ \/ Outside(stage[c], line[c]) /\ at[c] = "out"
     \/ /\ Inside(stage[c], line[c])
        /\ at[c] # "out" /\ want[c] = LockAt(stage[c])
        /\ line[c] # "begin" => at[c] = "in"
  /\ line[c] = "store" => tmp[c] = barreira[BarrierOf(stage[c])]

BarrierCounts == \A b \in Barriers : barreira[BarrierOf(b)] = Cardinality(Counted(b))

GuestInv ==
  /\ Lk!NestedLockInv
  /\ GuestTypes
  /\ \A c \in Procs : LineFits(c)
  /\ BarrierCounts

-----------------------------------------------------------------------------
\* The three counters are barreira[0], barreira[1] and barreira[2].
LEMMA Places ==
  /\ \A b \in Barriers : BarrierOf(b) \in 0 .. 2 /\ Phase(b) = BarrierOf(b)
  /\ \A a, b \in Barriers : BarrierOf(a) = BarrierOf(b) => a = b
BY DEF Barriers, BarrierOf, Phase

\* Main has four phases, numbered by the barriers before them.
LEMMA PhaseType == \A s : Phase(s) \in 0 .. 3
BY DEF Phase

\* A core has arrived at the barriers it has passed and at most one more.
LEMMA ArrivedType ==
  \A c : /\ ArrivedBarriers(c) \in PassedBarriers(c) .. PassedBarriers(c) + 1
         /\ PassedBarriers(c) \in 0 .. 3
BY PhaseType DEF ArrivedBarriers, PassedBarriers

\* The number of cores is a number greater than 1.
LEMMA CoresType == NumProcs \in Nat /\ NumProcs > 1 /\ IsFiniteSet(Procs)
BY ProcsAssumption, FS_CardinalityType

\* A core is at one place only, inside a section or outside.
LEMMA InsideOrOutside ==
  ASSUME NEW s, NEW l, Inside(s, l)
  PROVE  ~Outside(s, l)
BY DEF Inside, Outside, Barriers

\* As long as nobody arrives, the counts stay right.
LEMMA CountsStay ==
  ASSUME BarrierCounts, barreira' = barreira,
         \A c \in Procs : ArrivedBarriers(c)' = ArrivedBarriers(c)
  PROVE  BarrierCounts'
<1>1. ASSUME NEW b \in Barriers PROVE Counted(b)' = Counted(b)
  BY DEF Counted
<1> QED
  BY <1>1 DEF BarrierCounts

\* Two cores are never inside sections of one lock.
LEMMA OneInside ==
  ASSUME GuestInv, NEW c \in Procs, NEW e \in Procs,
         Inside(stage[c], line[c]), line[c] # "begin" \/ at[c] = "in",
         Inside(stage[e], line[e]), line[e] # "begin" \/ at[e] = "in",
         LockAt(stage[c]) = LockAt(stage[e])
  PROVE  c = e
<1>1. at[c] = "in" /\ at[e] = "in" /\ want[c] = LockAt(stage[c]) /\ want[e] = LockAt(stage[e])
  BY InsideOrOutside DEF GuestInv, LineFits
<1>2. LockAt(stage[c]) \in Locks \cup {"global"}
  BY DEF LockAt, LockOf, Locks
<1> QED
  BY <1>1, <1>2 DEF GuestInv, Lk!NestedLockInv, Lk!AtomicMutex, Lk!RegisterMutex, Lk!OwnsRegister

-----------------------------------------------------------------------------
(* Three kinds of steps: work on data, a step in main, a step at a lock.    *)

\* A step that works on a row, a bin or the output.
Works == UNCHANGED <<lockState, control, tmp, barreira>>

\* Reading and counting rows, adding up and printing bins touch no lock, no
\* count and no program counter.
LEMMA WorkSteps ==
  ASSUME NEW c \in Procs, ReadRow(c) \/ CountRow(c) \/ AddPartial(c) \/ PrintBin(c)
  PROVE  Works
BY DEF Works, ReadRow, CountRow, AddPartial, PrintBin, control, shared, locals

\* A step from one part of main to another, in the same phase and on the same
\* side of a lock.
MovesOn(c) ==
  \E s \in Stages, l \in Lines :
    /\ stage[c] \notin Barriers /\ Phase(s) = Phase(stage[c])
    /\ s \in Barriers => l = "call"
    /\ l \notin {"begin", "store"}
    /\ \/ Outside(stage[c], line[c]) /\ Outside(s, l)
       \/ /\ Inside(stage[c], line[c]) /\ (line[c] = "begin" => at[c] = "in")
          /\ Inside(s, l) /\ LockAt(s) = LockAt(stage[c])
    /\ GoTo(c, s, l)
    /\ UNCHANGED <<lockState, tmp, barreira>>

\* A step from one line to another leaves the stage as it was.
LEMMA LineStep ==
  ASSUME GuestTypes, NEW c \in Procs, NEW l0, NEW l, Line(c, l0, l)
  PROVE  line[c] = l0 /\ GoTo(c, stage[c], l)
BY DEF Line, GoTo, GuestTypes

\* The other steps of main, but for those at a section or a barrier.
LEMMA MainSteps ==
  ASSUME GuestInv, NEW c \in Procs,
         \/ Identify(c) \/ CountSelf(c) \/ ReadHeader(c) \/ HeaderOK(c) \/ HeaderTooBig(c)
         \/ TakeShare(c) \/ RowsRead(c) \/ ZeroPartial(c) \/ RowsCounted(c)
         \/ ZeroBin(c) \/ NextBin(c) \/ BinsDone(c) \/ PrintDone(c)
  PROVE  MovesOn(c)
<1> USE DEF MovesOn, Stages, Lines, Barriers, Phase, Inside, Outside, LockAt, LockOf, locals, shared, At
<1>0. GuestTypes /\ stage[c] \in Stages
  BY DEF GuestInv, GuestTypes
<1>1. CASE Identify(c)
  <2>1. line[c] = "begin" /\ GoTo(c, "read", "count")
    BY <1>0, <1>1, LineStep DEF Identify
  <2> QED
    BY <1>1, <2>1 DEF Identify
<1>2. CASE CountSelf(c)
  <2>1. line[c] = "count" /\ GoTo(c, "read", IF my_id[c] = 0 THEN "header" ELSE "share")
    BY <1>0, <1>2, LineStep DEF CountSelf
  <2> QED
    BY <1>2, <2>1 DEF CountSelf
<1>3. CASE ReadHeader(c)
  <2>1. line[c] = "header" /\ GoTo(c, "read", "check")
    BY <1>0, <1>3, LineStep DEF ReadHeader
  <2> QED
    BY <1>3, <2>1 DEF ReadHeader
<1>4. CASE HeaderOK(c)
  <2>1. line[c] = "check" /\ GoTo(c, "read", "share")
    BY <1>0, <1>4, LineStep DEF HeaderOK
  <2> QED
    BY <1>4, <2>1 DEF HeaderOK
<1>5. CASE HeaderTooBig(c)
  BY <1>5 DEF HeaderTooBig
<1>6. CASE TakeShare(c)
  <2>1. line[c] = "share" /\ GoTo(c, "read", "rows")
    BY <1>0, <1>6, LineStep DEF TakeShare
  <2> QED
    BY <1>6, <2>1 DEF TakeShare
<1>7. CASE RowsRead(c)
  <2>1. line[c] = "rows" /\ GoTo(c, "read", "leave")
    BY <1>0, <1>7, LineStep DEF RowsRead
  <2> QED
    BY <1>7, <2>1 DEF RowsRead
<1>8. CASE ZeroPartial(c)
  <2>1. line[c] = "zero" /\ GoTo(c, "partial", "loop")
    BY <1>0, <1>8, LineStep DEF ZeroPartial
  <2> QED
    BY <1>8, <2>1 DEF ZeroPartial
<1>9. CASE RowsCounted(c)
  BY <1>9 DEF RowsCounted
<1>10. CASE ZeroBin(c)
  <2>1. line[c] = "bin" /\ GoTo(c, "sum", "add")
    BY <1>0, <1>10, LineStep DEF ZeroBin
  <2> QED
    BY <1>10, <2>1 DEF ZeroBin
<1>11. CASE NextBin(c)
  <2>1. line[c] = "add" /\ GoTo(c, "sum", "bin")
    BY <1>0, <1>11, LineStep DEF NextBin
  <2> QED
    BY <1>11, <2>1 DEF NextBin
<1>12. CASE BinsDone(c)
  BY <1>12 DEF BinsDone
<1>13. CASE PrintDone(c)
  <2>1. line[c] = "begin" /\ GoTo(c, "print", "leave")
    BY <1>0, <1>13, LineStep DEF PrintDone
  <2> QED
    BY <1>13, <2>1 DEF PrintDone
<1> QED
  BY <1>1, <1>2, <1>3, <1>4, <1>5, <1>6, <1>7, <1>8, <1>9, <1>10, <1>11, <1>12, <1>13

-----------------------------------------------------------------------------
(* What each kind of step keeps.                                            *)

\* Nobody arrives at a barrier or passes one.
Quiet == \A e \in Procs : /\ PassedBarriers(e)' = PassedBarriers(e)
                          /\ ArrivedBarriers(e)' = ArrivedBarriers(e)

Untouched(e) ==
  /\ stage'[e] = stage[e] /\ line'[e] = line[e] /\ tmp'[e] = tmp[e]
  /\ at'[e] = at[e] /\ want'[e] = want[e]

\* What is true of a core stays true while the others move and no count changes.
LEMMA UntouchedFits ==
  ASSUME NEW e \in Procs, LineFits(e), Untouched(e), barreira' = barreira
  PROVE  LineFits(e)'
BY DEF LineFits, Untouched

\* A core that does not move neither arrives at a barrier nor passes one.
LEMMA UntouchedQuiet ==
  ASSUME NEW e \in Procs, Untouched(e)
  PROVE  /\ PassedBarriers(e)' = PassedBarriers(e)
         /\ ArrivedBarriers(e)' = ArrivedBarriers(e)
BY DEF Untouched, PassedBarriers, ArrivedBarriers, CountedIn

\* Working on data leaves the invariant true and is invisible to the barriers.
LEMMA WorkKeeps ==
  ASSUME GuestInv, Works
  PROVE  GuestInv' /\ Quiet /\ \A e \in Procs : Untouched(e)
<1>1. \A e \in Procs : Untouched(e)
  BY DEF Works, control, lockState, Untouched
<1>2. Quiet
  BY <1>1, UntouchedQuiet DEF Quiet
<1>3. Lk!NestedLockInv'
  BY LockStays DEF GuestInv, Works
<1>4. GuestTypes'
  BY DEF GuestInv, GuestTypes, Works, control
<1>5. \A e \in Procs : LineFits(e)'
  BY <1>1, UntouchedFits DEF GuestInv, Works
<1>6. BarrierCounts'
  BY <1>2, CountsStay DEF GuestInv, Works, Quiet
<1> QED
  BY <1>1, <1>2, <1>3, <1>4, <1>5, <1>6 DEF GuestInv

\* A move inside a phase leaves the invariant true and is invisible to the
\* barriers.
LEMMA MoveKeeps ==
  ASSUME GuestInv, NEW c \in Procs, MovesOn(c)
  PROVE  GuestInv' /\ Quiet /\ \A e \in Procs \ {c} : Untouched(e)
<1>1. PICK s \in Stages, l \in Lines :
        /\ stage[c] \notin Barriers /\ Phase(s) = Phase(stage[c])
        /\ s \in Barriers => l = "call"
        /\ l \notin {"begin", "store"}
        /\ \/ Outside(stage[c], line[c]) /\ Outside(s, l)
           \/ /\ Inside(stage[c], line[c]) /\ (line[c] = "begin" => at[c] = "in")
              /\ Inside(s, l) /\ LockAt(s) = LockAt(stage[c])
        /\ GoTo(c, s, l)
        /\ UNCHANGED <<lockState, tmp, barreira>>
  BY DEF MovesOn
<1>2. GuestTypes'
  BY <1>1 DEF GuestInv, GuestTypes, GoTo
<1>3. stage'[c] = s /\ line'[c] = l /\ at' = at /\ want' = want /\ tmp' = tmp /\ barreira' = barreira
  BY <1>1 DEF GuestInv, GuestTypes, GoTo, lockState
<1>4. \A e \in Procs \ {c} : Untouched(e)
  BY <1>1 DEF GuestInv, GuestTypes, GoTo, lockState, Untouched
<1>5. /\ PassedBarriers(c)' = PassedBarriers(c)
      /\ ArrivedBarriers(c)' = ArrivedBarriers(c)
  BY <1>1, <1>3 DEF PassedBarriers, ArrivedBarriers, CountedIn
<1>6. Quiet
  BY <1>4, <1>5, UntouchedQuiet DEF Quiet
<1>7. Lk!NestedLockInv'
  BY <1>1, LockStays DEF GuestInv
<1>8. LineFits(c)'
  BY <1>1, <1>3, InsideOrOutside DEF GuestInv, LineFits
<1>9. \A e \in Procs : LineFits(e)'
  BY <1>3, <1>4, <1>8, UntouchedFits DEF GuestInv
<1>10. BarrierCounts'
  BY <1>3, <1>6, CountsStay DEF GuestInv, Quiet
<1> QED
  BY <1>2, <1>4, <1>6, <1>7, <1>9, <1>10 DEF GuestInv

-----------------------------------------------------------------------------
(* The steps at a section or a barrier.                                     *)

\* Reaching a section leaves the invariant true.
LEMMA EnterKeeps ==
  ASSUME GuestInv, NEW c \in Procs, EnterSection(c)
  PROVE  GuestInv' /\ Quiet /\ \A e \in Procs \ {c} : Untouched(e)
<1> DEFINE s == stage[c]
<1>1. /\ Lk!Call(c, LockOf(s)) /\ s \in Barriers \cup {"read", "print"} /\ line[c] = "call"
      /\ stage' = stage /\ line' = [line EXCEPT ![c] = "begin"] /\ tmp' = tmp /\ barreira' = barreira
  BY DEF EnterSection, Line, locals, shared
<1>2. GuestTypes'
  BY <1>1 DEF GuestInv, GuestTypes, Lines
<1>3. /\ at'[c] = "spin" /\ want'[c] = LockOf(s) /\ line'[c] = "begin"
      /\ \A e \in Procs \ {c} : Untouched(e)
  BY <1>1 DEF GuestInv, GuestTypes, Lk!NestedLockInv, Lk!LockTypeOK, Lk!Call, Lk!Goto, Untouched
<1>4. Lk!NestedLockInv'
  <2>1. LockOf(s) \in Locks \cup {"global"}
    BY DEF LockOf, Locks
  <2>2. Lk!LockNext
    BY <1>1, <2>1 DEF Lk!LockNext
  <2> QED
    BY <2>2, LockStays DEF GuestInv
<1>5. LineFits(c)'
  BY <1>1, <1>3 DEF LineFits, Inside, LockAt, Barriers
<1>6. \A e \in Procs : LineFits(e)'
  BY <1>1, <1>3, <1>5, UntouchedFits DEF GuestInv
<1>7. Quiet
  BY <1>1, <1>3, UntouchedQuiet DEF Quiet, PassedBarriers, ArrivedBarriers, CountedIn
<1>8. BarrierCounts'
  BY <1>1, <1>7, CountsStay DEF GuestInv, Quiet
<1> QED
  BY <1>2, <1>3, <1>4, <1>6, <1>7, <1>8 DEF GuestInv

\* An access inside a macro leaves the invariant true: the core stays on the
\* first line of the section.
LEMMA MacroKeeps ==
  ASSUME GuestInv, NEW c \in Procs, InsideMacro(c)
  PROVE  /\ GuestInv' /\ Quiet
         /\ at[c] \notin {"out", "in"} /\ line[c] = "begin"
         /\ stage' = stage /\ line' = line
<1>1. /\ Lk!EnterStep(c)
      /\ stage' = stage /\ line' = line /\ tmp' = tmp /\ barreira' = barreira
  BY DEF InsideMacro, control, locals, shared
<1>2. /\ at[c] \notin {"out", "in"} /\ at'[c] # "out" /\ want' = want
      /\ \A e \in Procs \ {c} : at'[e] = at[e]
  BY <1>1 DEF GuestInv, Lk!NestedLockInv, Lk!LockTypeOK, Lk!EnterStep, Lk!ReadRegister,
     Lk!PollLocal, Lk!SetLocal, Lk!GiveRegister, Lk!Goto
<1>3. Lk!NestedLockInv'
  <2>1. Lk!LockNext
    BY <1>1 DEF Lk!LockNext
  <2> QED
    BY <2>1, LockStays DEF GuestInv
<1>4. GuestTypes'
  BY <1>1 DEF GuestInv, GuestTypes
<1>5. LineFits(c)' /\ line[c] = "begin"
  BY <1>1, <1>2 DEF GuestInv, LineFits
<1>6. \A e \in Procs : LineFits(e)'
  BY <1>1, <1>2, <1>5, UntouchedFits DEF GuestInv, Untouched
<1>7. Quiet
  BY <1>1 DEF Quiet, PassedBarriers, ArrivedBarriers, CountedIn
<1>8. BarrierCounts'
  BY <1>1, <1>7, CountsStay DEF GuestInv, Quiet
<1> QED
  BY <1>1, <1>2, <1>3, <1>4, <1>5, <1>6, <1>7, <1>8 DEF GuestInv

\* The load of a count leaves the invariant true: the value loaded is the one
\* in memory.
LEMMA LoadKeeps ==
  ASSUME GuestInv, NEW c \in Procs, LoadBarrier(c)
  PROVE  GuestInv' /\ Quiet /\ \A e \in Procs \ {c} : Untouched(e)
<1>1. /\ stage[c] \in Barriers /\ line[c] = "begin" /\ at[c] = "in"
      /\ tmp' = [tmp EXCEPT ![c] = barreira[BarrierOf(stage[c])]]
      /\ line' = [line EXCEPT ![c] = "store"]
      /\ stage' = stage /\ barreira' = barreira /\ UNCHANGED lockState
  BY DEF LoadBarrier, Line, shared
<1>2. GuestTypes'
  BY <1>1 DEF GuestInv, GuestTypes, Lines
<1>3. tmp'[c] = barreira[BarrierOf(stage[c])] /\ line'[c] = "store" /\ at' = at /\ want' = want
  BY <1>1 DEF GuestInv, GuestTypes, lockState
<1>4. \A e \in Procs \ {c} : Untouched(e)
  BY <1>1 DEF GuestInv, GuestTypes, lockState, Untouched
<1>5. Lk!NestedLockInv'
  BY <1>1, LockStays DEF GuestInv
<1>6. LineFits(c)'
  BY <1>1, <1>3, InsideOrOutside DEF GuestInv, LineFits, Inside
<1>7. \A e \in Procs : LineFits(e)'
  BY <1>1, <1>4, <1>6, UntouchedFits DEF GuestInv
<1>8. Quiet
  BY <1>1, <1>3, <1>4, UntouchedQuiet DEF Quiet, PassedBarriers, ArrivedBarriers, CountedIn
<1>9. BarrierCounts'
  BY <1>1, <1>8, CountsStay DEF GuestInv, Quiet
<1> QED
  BY <1>2, <1>4, <1>5, <1>7, <1>8, <1>9 DEF GuestInv

\* What a core that counts itself in does to the counts: the count it stores is
\* the one it loaded plus one, nobody else is between a load and a store of a
\* count, and it was not among the cores counted.
LEMMA CountInCounts ==
  ASSUME GuestInv, NEW c \in Procs, CountIn(c)
  PROVE  /\ GuestInv'
         /\ PassedBarriers(c)' = PassedBarriers(c)
         /\ ArrivedBarriers(c) = PassedBarriers(c)
         /\ ArrivedBarriers(c)' = PassedBarriers(c) + 1
         /\ PassedBarriers(c) < 3
         /\ stage' = stage /\ line[c] = "store" /\ line'[c] = "leave"
         /\ \A e \in Procs \ {c} : Untouched(e)
<1>0. PICK s \in Barriers : stage[c] = s
  BY DEF CountIn
<1>1. /\ line[c] = "store"
      /\ barreira' = [barreira EXCEPT ![BarrierOf(s)] = tmp[c] + 1]
      /\ line' = [line EXCEPT ![c] = "leave"] /\ tmp' = [tmp EXCEPT ![c] = 0]
      /\ stage' = stage /\ UNCHANGED lockState
  BY <1>0 DEF CountIn, Line
<1>2. /\ BarrierOf(s) \in 0 .. 2 /\ tmp[c] = barreira[BarrierOf(s)] /\ barreira[BarrierOf(s)] \in Nat
      /\ Inside(s, "store") /\ at[c] = "in" /\ want[c] = LockAt(s)
  BY <1>0, <1>1, Places DEF GuestInv, GuestTypes, LineFits, Inside, Outside
<1>3. GuestTypes'
  BY <1>1, <1>2 DEF GuestInv, GuestTypes, Lines
<1>4. line'[c] = "leave" /\ at' = at /\ want' = want
  BY <1>1 DEF GuestInv, GuestTypes, lockState
<1>5. \A e \in Procs \ {c} : Untouched(e)
  BY <1>1 DEF GuestInv, GuestTypes, lockState, Untouched
<1>6. Lk!NestedLockInv'
  BY <1>1, LockStays DEF GuestInv
<1>7. LineFits(c)'
  BY <1>0, <1>1, <1>2, <1>4 DEF LineFits, Inside
<1>8. ASSUME NEW e \in Procs \ {c} PROVE LineFits(e)'
  <2>1. line[e] # "store"
    <3> SUFFICES ASSUME line[e] = "store" PROVE FALSE
      OBVIOUS
    <3>1. Inside(stage[e], line[e]) /\ stage[e] \in Barriers
      BY DEF GuestInv, LineFits, Inside, Outside
    <3>2. LockAt(stage[e]) = LockAt(s)
      BY <3>1 DEF LockAt, LockOf, Barriers
    <3> QED
      BY <1>0, <1>1, <1>2, <3>1, <3>2, OneInside
  <2> QED
    BY <2>1, <1>5 DEF GuestInv, LineFits, Untouched
<1>9. /\ PassedBarriers(c)' = PassedBarriers(c)
      /\ ArrivedBarriers(c) = PassedBarriers(c)
      /\ ArrivedBarriers(c)' = PassedBarriers(c) + 1
      /\ PassedBarriers(c) = BarrierOf(s)
  BY <1>0, <1>1, <1>4, PhaseType, Places DEF PassedBarriers, ArrivedBarriers, CountedIn
<1>10. PassedBarriers(c) < 3
  BY <1>9, <1>2
<1>11. Counted(s)' = Counted(s) \cup {c} /\ c \notin Counted(s)
  <2>1. \A e \in Procs \ {c} : ArrivedBarriers(e)' = ArrivedBarriers(e)
    BY <1>5, UntouchedQuiet
  <2>2. ArrivedBarriers(c)' > BarrierOf(s) /\ ~(ArrivedBarriers(c) > BarrierOf(s))
    BY <1>2, <1>9
  <2> QED
    BY <2>1, <2>2 DEF Counted
<1>12. ASSUME NEW b \in Barriers \ {s} PROVE Counted(b)' = Counted(b)
  <2>1. BarrierOf(b) # BarrierOf(s) /\ BarrierOf(b) \in 0 .. 2
    BY Places
  <2>2. ArrivedBarriers(c)' > BarrierOf(b) <=> ArrivedBarriers(c) > BarrierOf(b)
    BY <1>2, <1>9, <2>1
  <2> QED
    BY <1>5, <2>2, UntouchedQuiet DEF Counted
<1>13. BarrierCounts'
  <2>1. IsFiniteSet(Counted(s))
    BY CoresType, FS_Subset DEF Counted
  <2>2. Cardinality(Counted(s) \cup {c}) = Cardinality(Counted(s)) + 1
    BY <1>11, <2>1, FS_AddElement
  <2>3. barreira'[BarrierOf(s)] = Cardinality(Counted(s)')
    BY <1>1, <1>2, <1>11, <2>2 DEF GuestInv, GuestTypes, BarrierCounts
  <2>4. ASSUME NEW b \in Barriers \ {s} PROVE barreira'[BarrierOf(b)] = Cardinality(Counted(b)')
    <3>1. BarrierOf(b) # BarrierOf(s) /\ BarrierOf(b) \in 0 .. 2
      BY Places
    <3> QED
      BY <1>1, <1>12, <3>1 DEF GuestInv, GuestTypes, BarrierCounts
  <2> QED
    BY <2>3, <2>4 DEF BarrierCounts
<1> QED
  BY <1>1, <1>3, <1>4, <1>5, <1>6, <1>7, <1>8, <1>9, <1>10, <1>13 DEF GuestInv

\* Leaving a section leaves the invariant true: a core that has counted itself
\* in is still counted when it waits.
LEMMA LeaveKeeps ==
  ASSUME GuestInv, NEW c \in Procs, LeaveSection(c)
  PROVE  GuestInv' /\ Quiet /\ \A e \in Procs \ {c} : Untouched(e)
<1>1. line[c] = "leave" /\ Lk!Leave(c) /\ tmp' = tmp /\ barreira' = barreira
  BY DEF LeaveSection, locals, shared
<1>2. PICK s \in Stages, l \in {"wait", "call", "zero"} :
        /\ GoTo(c, s, l)
        /\ Phase(s) = Phase(stage[c])
        /\ stage[c] \in Barriers <=> l = "wait"
        /\ l = "wait" => s = stage[c]
        /\ Outside(s, l)
  BY DEF LeaveSection, Phase, Stages, Outside, Barriers
<1>3. GuestTypes'
  BY <1>1, <1>2 DEF GuestInv, GuestTypes, GoTo, Lines
<1>4. stage'[c] = s /\ line'[c] = l /\ at'[c] = "out"
  BY <1>1, <1>2 DEF GuestInv, GuestTypes, GoTo, Lk!NestedLockInv, Lk!LockTypeOK, Lk!Leave, Lk!Goto
<1>5. \A e \in Procs \ {c} : Untouched(e)
  BY <1>1, <1>2 DEF GuestInv, GuestTypes, GoTo, Lk!NestedLockInv, Lk!LockTypeOK, Lk!Leave, Lk!Goto, Untouched
<1>6. Lk!NestedLockInv'
  <2>1. Lk!LockNext
    BY <1>1 DEF Lk!LockNext
  <2> QED
    BY <2>1, LockStays DEF GuestInv
<1>7. LineFits(c)'
  BY <1>2, <1>4 DEF LineFits
<1>8. \A e \in Procs : LineFits(e)'
  BY <1>1, <1>5, <1>7, UntouchedFits DEF GuestInv
<1>9. /\ PassedBarriers(c)' = PassedBarriers(c)
      /\ ArrivedBarriers(c)' = ArrivedBarriers(c)
  BY <1>1, <1>2, <1>4 DEF PassedBarriers, ArrivedBarriers, CountedIn
<1>10. Quiet
  BY <1>5, <1>9, UntouchedQuiet DEF Quiet
<1>11. BarrierCounts'
  BY <1>1, <1>10, CountsStay DEF GuestInv, Quiet
<1> QED
  BY <1>3, <1>5, <1>6, <1>8, <1>10, <1>11 DEF GuestInv

\* A core that leaves the waiting loop has read at least the number of cores,
\* so the cores counted in are all of them.
LEMMA PassPasses ==
  ASSUME GuestInv, NEW c \in Procs, PassBarrier(c)
  PROVE  /\ GuestInv'
         /\ ArrivedBarriers(c) = PassedBarriers(c) + 1
         /\ \A e \in Procs : ArrivedBarriers(e) >= ArrivedBarriers(c)
         /\ PassedBarriers(c)' = PassedBarriers(c) + 1
         /\ ArrivedBarriers(c)' = ArrivedBarriers(c)
         /\ stage[c] \in Barriers /\ stage'[c] = Behind(stage[c]) /\ line'[c] = Entry(stage[c])
         /\ \A e \in Procs \ {c} : Untouched(e)
<1>0. PICK b \in Barriers : stage[c] = b
  BY DEF PassBarrier
<1>1. /\ line[c] = "wait" /\ barreira[BarrierOf(b)] >= NumProcs
      /\ GoTo(c, Behind(b), Entry(b))
      /\ UNCHANGED lockState /\ tmp' = tmp /\ barreira' = barreira
  BY <1>0 DEF PassBarrier, shared
<1>2. /\ Behind(b) \in Stages /\ Entry(b) \in {"bin", "call", "stopped"}
      /\ Phase(Behind(b)) = Phase(b) + 1 /\ Behind(b) \notin Barriers
      /\ Outside(Behind(b), Entry(b))
  BY DEF Behind, Entry, Phase, Stages, Barriers, Outside
<1>3. GuestTypes'
  BY <1>1, <1>2 DEF GuestInv, GuestTypes, GoTo, Lines
<1>4. /\ stage'[c] = Behind(b) /\ line'[c] = Entry(b)
      /\ at' = at /\ want' = want
  BY <1>1 DEF GuestInv, GuestTypes, GoTo, lockState
<1>5. \A e \in Procs \ {c} : Untouched(e)
  BY <1>1 DEF GuestInv, GuestTypes, GoTo, lockState, Untouched
<1>6. Lk!NestedLockInv'
  BY <1>1, LockStays DEF GuestInv
<1>7. LineFits(c)'
  BY <1>0, <1>1, <1>2, <1>4 DEF GuestInv, LineFits, Inside, Barriers
<1>8. \A e \in Procs : LineFits(e)'
  BY <1>1, <1>5, <1>7, UntouchedFits DEF GuestInv
<1>9. /\ ArrivedBarriers(c) = PassedBarriers(c) + 1
      /\ ArrivedBarriers(c) = BarrierOf(b) + 1 /\ BarrierOf(b) \in 0 .. 2
      /\ PassedBarriers(c)' = PassedBarriers(c) + 1
      /\ ArrivedBarriers(c)' = ArrivedBarriers(c)
  BY <1>0, <1>1, <1>2, <1>4, PhaseType, Places DEF PassedBarriers, ArrivedBarriers, CountedIn
<1>10. Counted(b) = Procs
  <2>1. Counted(b) \in SUBSET Procs /\ Cardinality(Counted(b)) >= Cardinality(Procs)
    BY <1>1, ProcsAssumption DEF Counted, GuestInv, BarrierCounts
  <2>2. /\ Cardinality(Counted(b)) \in Nat /\ Cardinality(Procs) \in Nat
        /\ Cardinality(Counted(b)) <= Cardinality(Procs)
    BY <2>1, CoresType, FS_Subset, FS_CardinalityType
  <2>3. Cardinality(Procs) = Cardinality(Counted(b))
    BY <2>1, <2>2
  <2> QED
    BY <2>1, <2>3, CoresType, FS_Subset
<1>11. \A e \in Procs : ArrivedBarriers(e) >= ArrivedBarriers(c)
  <2> SUFFICES ASSUME NEW e \in Procs PROVE ArrivedBarriers(e) >= ArrivedBarriers(c)
    OBVIOUS
  <2>1. ArrivedBarriers(e) > BarrierOf(b)
    BY <1>10 DEF Counted
  <2> QED
    BY <1>9, <2>1, ArrivedType
<1>12. BarrierCounts'
  BY <1>1, <1>5, <1>9, UntouchedQuiet, CountsStay DEF GuestInv
<1> QED
  BY <1>0, <1>3, <1>4, <1>5, <1>6, <1>8, <1>9, <1>11, <1>12 DEF GuestInv

-----------------------------------------------------------------------------
\* The first states: nobody owns a lock, nobody has counted itself in.
LEMMA GuestInvInit == Init => GuestInv
<1> SUFFICES ASSUME Init PROVE GuestInv
  OBVIOUS
<1>1. Lk!NestedLockInv
  <2>1. Lk!LockTypeOK
    BY PowerOnAssumption DEF Init, Lk!LockInit, Lk!LockTypeOK, Lk!Points, Locks
  <2>2. Lk!RegisterTellsOwner /\ Lk!RegisterMutex /\ Lk!WordTellsOwner /\ Lk!AtomicMutex
    BY DEF Init, Lk!LockInit, Lk!RegisterTellsOwner, Lk!RegisterMutex, Lk!WordTellsOwner,
       Lk!AtomicMutex, Lk!OwnsRegister
  <2> QED
    BY <2>1, <2>2 DEF Lk!NestedLockInv
<1>2. GuestTypes
  BY DEF Init, GuestTypes, Stages, Lines
<1>3. \A c \in Procs : LineFits(c)
  BY DEF Init, Lk!LockInit, LineFits, Outside
<1>4. BarrierCounts
  <2>1. \A c \in Procs : ArrivedBarriers(c) = 0
    BY DEF Init, ArrivedBarriers, PassedBarriers, CountedIn, Phase, Barriers
  <2>2. ASSUME NEW b \in Barriers PROVE Counted(b) = {}
    BY <2>1, <2>2, Places DEF Counted
  <2>3. Cardinality({}) = 0
    BY FS_EmptySet
  <2> QED
    BY <2>2, <2>3, Places DEF Init, BarrierCounts
<1> QED
  BY <1>1, <1>2, <1>3, <1>4 DEF GuestInv

\* The steps that are neither work on data nor at a section or a barrier.
Moves(c) ==
  \/ Identify(c) \/ CountSelf(c) \/ ReadHeader(c) \/ HeaderOK(c) \/ HeaderTooBig(c)
  \/ TakeShare(c) \/ RowsRead(c) \/ ZeroPartial(c) \/ RowsCounted(c)
  \/ ZeroBin(c) \/ NextBin(c) \/ BinsDone(c) \/ PrintDone(c)

\* Every step of a core leaves the invariant true, and is seen from the
\* barriers as nothing, as an arrival or as a passage.
LEMMA StepKeeps ==
  ASSUME GuestInv, NEW c \in Procs, Step(c)
  PROVE  GuestInv' /\ (Quiet \/ CountIn(c) \/ PassBarrier(c))
<1>1. CASE EnterSection(c)
  BY <1>1, EnterKeeps
<1>2. CASE InsideMacro(c)
  BY <1>2, MacroKeeps
<1>3. CASE LeaveSection(c)
  BY <1>3, LeaveKeeps
<1>4. CASE LoadBarrier(c)
  BY <1>4, LoadKeeps
<1>5. CASE CountIn(c)
  BY <1>5, CountInCounts
<1>6. CASE PassBarrier(c)
  BY <1>6, PassPasses
<1>7. CASE Moves(c)
  BY <1>7, MainSteps, MoveKeeps DEF Moves
<1>8. CASE ReadRow(c) \/ CountRow(c) \/ AddPartial(c) \/ PrintBin(c)
  BY <1>8, WorkSteps, WorkKeeps
<1> QED
  BY <1>1, <1>2, <1>3, <1>4, <1>5, <1>6, <1>7, <1>8 DEF Step, Moves

\* A step of nobody leaves the invariant true.
LEMMA StutterKeeps ==
  ASSUME GuestInv, UNCHANGED vars
  PROVE  GuestInv' /\ Quiet
<1>1. Works
  BY DEF vars, Works, locals, shared
<1> QED
  BY <1>1, WorkKeeps

\* For any number of cores, any image and limits, and the register powered on
\* at 0 or 1: the macros protect every section of the guest, and every counter is
\* the number of cores that have counted themselves in.
THEOREM HistogramSafety == Spec => []GuestInv
<1>1. Init => GuestInv
  BY GuestInvInit
<1>2. GuestInv /\ [Next]_vars => GuestInv'
  BY StepKeeps, StutterKeeps DEF Next
<1> QED
  BY <1>1, <1>2, PTL DEF Spec

-----------------------------------------------------------------------------
\* A store of a count is the arrival of its core at the next barrier.
LEMMA CountInArrives ==
  ASSUME GuestInv, NEW c \in Procs, CountIn(c)
  PROVE  Phases!Arrive(c)
<1>1. /\ PassedBarriers(c)' = PassedBarriers(c)
      /\ ArrivedBarriers(c) = PassedBarriers(c)
      /\ ArrivedBarriers(c)' = PassedBarriers(c) + 1
      /\ PassedBarriers(c) < 3
      /\ \A e \in Procs \ {c} : Untouched(e)
  BY CountInCounts
<1>2. \A e \in Procs : PassedBarriers(e)' = PassedBarriers(e)
  BY <1>1, UntouchedQuiet
<1>3. \A e \in Procs : ArrivedBarriers(e)' = IF e = c THEN ArrivedBarriers(c) + 1 ELSE ArrivedBarriers(e)
  BY <1>1, UntouchedQuiet
<1> QED
  BY <1>1, <1>2, <1>3 DEF Phases!Arrive

\* A core that leaves the waiting loop passes the barrier all cores arrived at.
LEMMA PassBarrierPasses ==
  ASSUME GuestInv, NEW c \in Procs, PassBarrier(c)
  PROVE  Phases!Pass(c)
<1>1. /\ ArrivedBarriers(c) = PassedBarriers(c) + 1
      /\ \A e \in Procs : ArrivedBarriers(e) >= ArrivedBarriers(c)
      /\ PassedBarriers(c)' = PassedBarriers(c) + 1
      /\ ArrivedBarriers(c)' = ArrivedBarriers(c)
      /\ \A e \in Procs \ {c} : Untouched(e)
  BY PassPasses
<1>2. \A e \in Procs : ArrivedBarriers(e)' = ArrivedBarriers(e)
  BY <1>1, UntouchedQuiet
<1>3. \A e \in Procs : PassedBarriers(e)' = IF e = c THEN PassedBarriers(c) + 1 ELSE PassedBarriers(e)
  BY <1>1, UntouchedQuiet
<1> QED
  BY <1>1, <1>2, <1>3, ArrivedType DEF Phases!Pass

\* Any other step is one the barriers do not see.
LEMMA QuietStutters ==
  ASSUME Quiet
  PROVE  UNCHANGED Phases!barrierVars
BY DEF Quiet, Phases!barrierVars

\* For any number of cores, the three counters of hist.c, incremented in
\* SEQUENTIAL sections and polled outside, implement the chain of barriers.
THEOREM HistogramRefinesBarriers == Spec => ImplementsBarriers
<1>1. Init => Phases!BarrierInit
  BY DEF Init, Phases!BarrierInit, PassedBarriers, ArrivedBarriers, CountedIn, Phase, Barriers
<1>2. GuestInv /\ [Next]_vars => [Phases!BarrierNext]_(Phases!barrierVars)
  BY StepKeeps, StutterKeeps, CountInArrives, PassBarrierPasses, QuietStutters
     DEF Next, Phases!BarrierNext
<1> QED
  BY <1>1, <1>2, HistogramSafety, PTL DEF Spec, ImplementsBarriers, Phases!BarrierSpec

\* What is known of any chain of barriers.
BP == INSTANCE BarrierProofs WITH
  Barriers <- 3,
  passed <- [c \in Procs |-> PassedBarriers(c)],
  arrived <- [c \in Procs |-> ArrivedBarriers(c)]

\* A core that has passed a barrier was preceded into it by every other.
PhasesInLockstep ==
  \A c, e \in Procs : PassedBarriers(c) <= ArrivedBarriers(e)

\* For any number of cores, nobody adds up bins while a row is still to be
\* counted, or prints while bins are still to be added.
THEOREM HistogramLockstep == Spec => []PhasesInLockstep
<1>1. ImplementsBarriers => BP!BarrierSpec
  BY Zenon DEF ImplementsBarriers, Phases!BarrierSpec, BP!BarrierSpec, Phases!BarrierInit, BP!BarrierInit,
     Phases!BarrierNext, BP!BarrierNext, Phases!Arrive, BP!Arrive, Phases!Pass, BP!Pass,
     Phases!barrierVars, BP!barrierVars
<1>2. BP!BarrierSpec => [](BP!BarrierTypeOK /\ BP!Lockstep)
  BY BP!BarrierLockstep
<1>3. BP!Lockstep => PhasesInLockstep
  BY DEF BP!Lockstep, PhasesInLockstep
<1> QED
  BY <1>1, <1>2, <1>3, HistogramRefinesBarriers, PTL

-----------------------------------------------------------------------------
(* Rows: every core takes the next id and the next rows of the image.       *)

\* The rows that the first k cores read.
First(k) == (k * header.h) \div NumProcs

\* A core before its turn at l1, one whose turn it is, one that has its rows.
Waiting(c) == stage[c] = "read" /\ line[c] \in {"call", "begin"}
Reading(c) ==
  \/ stage[c] = "read" /\ line[c] \in {"header", "check", "share", "rows"}
  \/ stage[c] = "exit_bad_header"
Served(c) ==
  \/ stage[c] \in Barriers \cup {"partial", "sum", "print", "exit"}
  \/ At(c, "read", "leave")

Identified(c) == Reading(c) \/ Served(c)

ReaderTypes ==
  /\ header \in Headers
  /\ my_id \in [Procs -> Int] /\ my_start \in [Procs -> Int] /\ my_end \in [Procs -> Int]
  /\ i \in [Procs -> Int]
  /\ next_id \in Nat /\ stdin \in Nat

\* The header in shared memory is the one of the input, and it has been accepted.
HeaderKnown == w = header.w /\ h = header.h /\ d = header.max + 1
Accepted == HeaderKnown /\ ~Rejected

ReaderFits(c) ==
  /\ At(c, "read", "count") => my_id[c] = next_id
  /\ Identified(c) => my_id[c] \in 0 .. next_id - 1
  /\ Reading(c) => my_id[c] = next_id - 1
  /\ At(c, "read", "header") => my_id[c] = 0
  /\ At(c, "read", "check") => HeaderKnown
  /\ At(c, "read", "share") \/ At(c, "read", "rows") \/ Served(c) => Accepted
  /\ At(c, "read", "rows") \/ Served(c) =>
       my_start[c] = First(my_id[c]) /\ my_end[c] = First(my_id[c] + 1)
  /\ Reading(c) =>
       IF At(c, "read", "rows")
       THEN stdin = i[c] /\ stdin \in my_start[c] .. my_end[c]
       ELSE stdin = First(my_id[c])

\* The ids are given out in order, each to one core.
IdsGiven ==
  /\ next_id = Cardinality({c \in Procs : Identified(c)})
  /\ \A c, e \in Procs : Identified(c) /\ Identified(e) /\ my_id[c] = my_id[e] => c = e
  /\ \A k \in 0 .. next_id - 1 : \E c \in Procs : Identified(c) /\ my_id[c] = k

\* Between two turns the next row on the standard input is that of the next id,
\* and the rows consumed are the first ones of img.
RowsTaken ==
  /\ (\A c \in Procs : ~Reading(c)) => stdin = First(next_id)
  /\ img = [r \in 0 .. MaxH - 1 |-> IF r < stdin THEN r ELSE Unread]

ReaderInv == ReaderTypes /\ (\A c \in Procs : ReaderFits(c)) /\ IdsGiven /\ RowsTaken

-----------------------------------------------------------------------------
\* Rounding down: a quotient is the largest number that fits.
LEMMA Rounding ==
  ASSUME NEW a \in Nat, NEW n \in Nat, n > 0
  PROVE  /\ a \div n \in Nat
         /\ n * (a \div n) <= a
         /\ a < n * (a \div n) + n
BY SMTT(30)

\* A quotient is the only number that fits.
LEMMA RoundingUnique ==
  ASSUME NEW n \in Nat, n > 0, NEW x \in Int, NEW y \in Int,
         n * x < n * y + n
  PROVE  x <= y
<1> SUFFICES ASSUME x > y PROVE FALSE
  OBVIOUS
<1>1. n * x >= n * (y + 1)
  BY SMTT(30)
<1>2. n * (y + 1) = n * y + n
  BY SMTT(30)
<1> QED
  BY <1>1, <1>2, SMTT(30)

\* The rows of the cores follow each other from the first to the last, and the
\* shares differ by at most one row.
LEMMA Shares ==
  ASSUME ReaderTypes
  PROVE  /\ header.h \in Nat /\ First(0) = 0 /\ First(NumProcs) = header.h
         /\ \A k \in Nat : First(k) \in Nat /\ First(k) <= First(k + 1)
         /\ \A k, m \in Nat : k <= m => First(k) <= First(m)
         /\ \A k \in 0 .. NumProcs : First(k) <= header.h
         /\ \A k \in Nat :
              /\ First(k + 1) - First(k) >= header.h \div NumProcs
              /\ First(k + 1) - First(k) <= (header.h \div NumProcs)
                                              + (IF header.h % NumProcs = 0 THEN 0 ELSE 1)
         /\ First(1) = header.h \div NumProcs
         /\ header.h - First(NumProcs - 1) =
              (header.h \div NumProcs) + (IF header.h % NumProcs = 0 THEN 0 ELSE 1)
<1> DEFINE hh == header.h
           n == NumProcs
           q == hh \div n
           r == hh % n
<1>1. hh \in Nat /\ n \in Nat /\ n > 0
  BY CoresType, HeadersAssumption DEF ReaderTypes
<1>2. q \in Nat /\ r \in 0 .. n - 1 /\ hh = n * q + r
  <2>1. ASSUME NEW m \in Nat \ {0}, NEW a \in Nat
        PROVE  /\ a \div m \in Nat
               /\ a % m \in 0 .. m - 1
               /\ a = (a \div m) * m + (a % m)
    BY SMTT(60)
  <2>2. ASSUME NEW x \in Int, NEW y \in Int PROVE x * y = y * x
    BY SMTT(30)
  <2>3. q \in Nat /\ r \in 0 .. n - 1 /\ hh = q * n + r
    <3>1. n \in Nat \ {0}
      BY <1>1
    <3> QED
      BY <1>1, <2>1, <3>1, Zenon
  <2>4. q * n = n * q
    BY <1>1, <2>2, <2>3
  <2> HIDE DEF q, r, hh, n
  <2> QED
    BY <2>3, <2>4
<1>3. ASSUME NEW k \in Nat
      PROVE  /\ k * hh \in Nat /\ First(k) \in Nat
             /\ n * First(k) <= k * hh
             /\ k * hh < n * First(k) + n
  <2>1. k * hh \in Nat
    <3>1. ASSUME NEW a \in Nat, NEW b \in Nat PROVE a * b \in Nat
      BY SMTT(30)
    <3> QED
      BY <1>1, <3>1
  <2> HIDE DEF hh, n
  <2>2. First(k) = (k * hh) \div n
    BY DEF First, hh, n
  <2> QED
    BY <1>1, <2>1, <2>2, Rounding
<1> HIDE DEF hh, n, q, r
<1>4. ASSUME NEW k \in Nat
      PROVE  First(k) + q <= First(k + 1)
  <2>1. (k + 1) * hh = k * hh + n * q + r
    <3>1. ASSUME NEW x \in Int, NEW y \in Int PROVE (x + 1) * y = x * y + y
      BY SMTT(30)
    <3>2. (k + 1) * hh = k * hh + hh
      BY <1>1, <3>1
    <3> QED
      BY <1>1, <1>2, <1>3, <3>2
  <2>2. n * (First(k) + q) = n * First(k) + n * q
    <3>1. ASSUME NEW x \in Int, NEW y \in Int, NEW z \in Int PROVE x * (y + z) = x * y + x * z
      BY SMTT(30)
    <3> QED
      BY <1>1, <1>2, <1>3, <3>1
  <2>3. (k + 1) * hh < n * First(k + 1) + n /\ First(k + 1) \in Nat
    BY <1>3
  <2>4. n * (First(k) + q) < n * First(k + 1) + n
    <3>1. n * q \in Int /\ n * First(k) \in Int /\ n * First(k + 1) \in Int
      BY <1>1, <1>2, <1>3
    <3> QED
      BY <1>1, <1>2, <1>3, <2>1, <2>2, <2>3, <3>1
  <2> QED
    BY <1>1, <1>2, <1>3, <2>3, <2>4, RoundingUnique
<1>5. ASSUME NEW k \in Nat
      PROVE  First(k + 1) <= First(k) + q + IF r = 0 THEN 0 ELSE 1
  <2> DEFINE e == IF r = 0 THEN 0 ELSE 1
  <2>1. (k + 1) * hh = k * hh + n * q + r
    <3>1. ASSUME NEW x \in Int, NEW y \in Int PROVE (x + 1) * y = x * y + y
      BY SMTT(30)
    <3>2. (k + 1) * hh = k * hh + hh
      BY <1>1, <3>1
    <3> QED
      BY <1>1, <1>2, <1>3, <3>2
  <2>2. n * (First(k) + q + e) = n * First(k) + n * q + n * e
    <3>1. ASSUME NEW x \in Int, NEW y \in Int, NEW z \in Int, NEW t \in Int
          PROVE x * (y + z + t) = x * y + x * z + x * t
      BY SMTT(30)
    <3>2. e \in Int
      OBVIOUS
    <3> QED
      BY <1>1, <1>2, <1>3, <3>1, <3>2
  <2>3. r <= n * e
    <3>1. CASE r = 0
      BY <1>1, <3>1
    <3>2. CASE r # 0
      <4>1. n * 1 = n
        BY <1>1
      <4> QED
        BY <1>1, <1>2, <3>2, <4>1
    <3> QED
      BY <3>1, <3>2
  <2>4. n * First(k + 1) <= (k + 1) * hh /\ First(k + 1) \in Nat
    BY <1>3
  <2>5. n * First(k + 1) < n * (First(k) + q + e) + n
    <3>1. n * q \in Int /\ n * First(k) \in Int /\ n * First(k + 1) \in Int /\ n * e \in Int /\ k * hh \in Int
      BY <1>1, <1>2, <1>3
    <3> HIDE DEF e
    <3> QED
      BY <1>1, <1>2, <1>3, <2>1, <2>2, <2>3, <2>4, <3>1
  <2>6. First(k) + q + e \in Int
    BY <1>2, <1>3
  <2> QED
    BY <1>1, <2>4, <2>5, <2>6, RoundingUnique
<1>6. First(0) = 0
  <2>1. 0 * hh = 0
    BY <1>1
  <2>2. n * First(0) < n * 0 + n
    BY <1>1, <1>3, <2>1
  <2> QED
    BY <1>1, <1>3, <2>2, RoundingUnique
<1>7. First(n) = hh
  <2>1. n * First(n) <= n * hh /\ n * hh < n * First(n) + n /\ First(n) \in Nat
    BY <1>1, <1>3
  <2>2. n * First(n) < n * hh + n
    BY <1>1, <2>1
  <2>3. First(n) <= hh /\ hh <= First(n)
    BY <1>1, <2>1, <2>2, RoundingUnique
  <2> QED
    BY <1>1, <2>1, <2>3
<1>8. ASSUME NEW k \in Nat, NEW m \in Nat, k <= m PROVE First(k) <= First(m)
  <2>1. k * hh <= m * hh
    <3>1. ASSUME NEW a \in Nat, NEW e \in Nat, NEW x \in Nat
          PROVE  (a + e) * x = a * x + e * x /\ a * x \in Nat /\ e * x \in Nat
      BY SMTT(30)
    <3>2. /\ (k + (m - k)) * hh = k * hh + (m - k) * hh
          /\ k * hh \in Nat /\ (m - k) * hh \in Nat
      BY <1>1, <1>8, <3>1
    <3>3. k + (m - k) = m
      OBVIOUS
    <3> QED
      BY <3>2, <3>3
  <2>2. n * First(k) < n * First(m) + n
    <3>1. /\ n * First(m) \in Int /\ n * First(k) \in Int /\ k * hh \in Int /\ m * hh \in Int
          /\ n * First(k) <= k * hh /\ m * hh < n * First(m) + n
      BY <1>1, <1>3
    <3> QED
      BY <1>1, <2>1, <3>1
  <2>3. First(k) \in Int /\ First(m) \in Int
    BY <1>3
  <2> QED
    BY <1>1, <2>2, <2>3, RoundingUnique
<1>9. First(1) = q
  <2>1. 1 * hh = hh /\ n * First(1) <= hh /\ First(1) \in Nat
    BY <1>1, <1>3
  <2>2. n * First(1) < n * q + n
    BY <1>1, <1>2, <2>1
  <2>3. First(1) <= q
    BY <1>1, <1>2, <2>1, <2>2, RoundingUnique
  <2>4. First(0 + 1) >= First(0) + q
    BY <1>4
  <2> QED
    BY <1>2, <1>6, <2>1, <2>3, <2>4
<1>10. hh - First(n - 1) = q + IF r = 0 THEN 0 ELSE 1
  <2>1. n - 1 \in Nat /\ (n - 1) + 1 = n
    BY <1>1
  <2>2. First(n - 1) + q <= hh /\ hh <= First(n - 1) + q + IF r = 0 THEN 0 ELSE 1
    BY <1>4, <1>5, <1>7, <2>1
  <2>3. CASE r = 0
    BY <1>1, <1>2, <1>3, <2>1, <2>2, <2>3
  <2>4. CASE r # 0
    <3> SUFFICES First(n - 1) + q # hh
      <4>1. First(n - 1) \in Nat
        BY <1>3, <2>1
      <4> QED
        BY <1>1, <1>2, <2>2, <2>4, <4>1
    <3>1. SUFFICES ASSUME hh = First(n - 1) + q PROVE FALSE
      OBVIOUS
    <3>2. n * First(n - 1) <= (n - 1) * hh
      BY <1>3, <2>1
    <3>3. (n - 1) * hh = n * hh - hh
      <4>1. ASSUME NEW x \in Int, NEW y \in Int PROVE (x - 1) * y = x * y - y
        BY SMTT(30)
      <4> QED
        BY <1>1, <4>1
    <3>4. n * hh = n * First(n - 1) + n * q
      <4>1. ASSUME NEW x \in Int, NEW y \in Int, NEW z \in Int PROVE x * (y + z) = x * y + x * z
        BY SMTT(30)
      <4> QED
        <5>1. First(n - 1) \in Int
          BY <1>3, <2>1
        <5>2. n * (First(n - 1) + q) = n * First(n - 1) + n * q
          BY <1>1, <1>2, <4>1, <5>1
        <5> QED
          BY <3>1, <5>2
    <3>5. n * First(n - 1) \in Int /\ n * q \in Int /\ n * hh \in Int /\ (n - 1) * hh \in Int
      BY <1>1, <1>2, <1>3, <2>1
    <3> QED
      BY <1>1, <1>2, <2>4, <3>2, <3>3, <3>4, <3>5
  <2> QED
    BY <2>3, <2>4
<1>11. /\ hh \in Nat /\ First(0) = 0 /\ First(n) = hh
       /\ \A k \in Nat : First(k) \in Nat /\ First(k) <= First(k + 1)
       /\ \A k, m \in Nat : k <= m => First(k) <= First(m)
       /\ \A k \in 0 .. n : First(k) <= hh
       /\ \A k \in Nat : /\ First(k + 1) - First(k) >= q
                        /\ First(k + 1) - First(k) <= q + (IF r = 0 THEN 0 ELSE 1)
       /\ First(1) = q
       /\ hh - First(n - 1) = q + (IF r = 0 THEN 0 ELSE 1)
  <2>1. ASSUME NEW k \in Nat
        PROVE  /\ First(k) \in Nat /\ First(k) <= First(k + 1)
               /\ First(k + 1) - First(k) >= q
               /\ First(k + 1) - First(k) <= q + (IF r = 0 THEN 0 ELSE 1)
    <3>1. First(k) \in Nat /\ First(k + 1) \in Nat
      BY <1>3
    <3> QED
      BY <1>2, <1>4, <1>5, <3>1
  <2>2. \A k \in 0 .. n : First(k) <= hh
    BY <1>1, <1>7, <1>8
  <2> QED
    BY <1>1, <1>6, <1>7, <1>8, <1>9, <1>10, <2>1, <2>2
<1> QED
  BY <1>11 DEF hh, n, q, r

-----------------------------------------------------------------------------
\* The six lines of main inside ATOMIC(l1), with the lock in hand.
AtTurn(c) ==
  \/ At(c, "read", "begin") /\ at[c] = "in"
  \/ stage[c] = "read" /\ line[c] \in {"count", "header", "check", "share", "rows"}

\* While a core has its turn at l1, no other one has.
LEMMA OneReader ==
  ASSUME GuestInv, NEW c \in Procs, AtTurn(c), NEW e \in Procs \ {c}
  PROVE  ~Reading(e) /\ ~At(e, "read", "count")
<1>1. Inside(stage[c], line[c]) /\ LockAt(stage[c]) = "l1" /\ (line[c] = "begin" => at[c] = "in")
  BY DEF AtTurn, At, Inside, LockAt, LockOf
<1>2. SUFFICES ASSUME Reading(e) \/ At(e, "read", "count") PROVE FALSE
  OBVIOUS
<1>3. Inside(stage[e], line[e]) /\ LockAt(stage[e]) = "l1" /\ line[e] # "begin"
  <2>1. CASE stage[e] = "exit_bad_header"
    <3>1. line[e] = "stopped"
      BY <2>1 DEF GuestInv, LineFits, Inside, Outside, Barriers
    <3> QED
      BY <2>1, <3>1 DEF Inside, LockAt
  <2>2. CASE stage[e] # "exit_bad_header"
    BY <1>2, <2>2 DEF Reading, At, Inside, LockAt, LockOf
  <2> QED
    BY <2>1, <2>2
<1> QED
  BY <1>1, <1>3, OneInside

\* A core waits, reads or has been served, one of the three, unless it is about
\* to count itself.
LEMMA OneOfThree ==
  ASSUME NEW e
  PROVE  /\ Waiting(e) => ~Identified(e) /\ ~At(e, "read", "count")
         /\ Served(e) => ~Reading(e) /\ ~Waiting(e) /\ ~At(e, "read", "count")
         /\ At(e, "read", "count") => ~Identified(e)
         /\ At(e, "read", "rows") => Reading(e)
BY DEF Waiting, Served, Reading, Identified, At, Barriers

\* There are no more ids than cores.
LEMMA IdsBounded ==
  ASSUME IdsGiven
  PROVE  next_id <= NumProcs
<1>1. {c \in Procs : Identified(c)} \in SUBSET Procs
  OBVIOUS
<1> QED
  BY <1>1, ProcsAssumption, FS_Subset DEF IdsGiven

\* The accepted header fits the arrays.
LEMMA HeaderFits ==
  ASSUME ReaderTypes, Accepted
  PROVE  /\ header.h \in 0 .. MaxH /\ header.w \in 0 .. MaxW
         /\ header.max \in Nat /\ header.max + 1 <= MaxBin
BY HeadersAssumption, LimitsAssumption DEF ReaderTypes, Accepted, Rejected

-----------------------------------------------------------------------------
(* Steps that are none of the turn's.                                       *)

\* A core that stays where it is, or stays in front of the turn or behind it.
SameReader(e) ==
  \/ stage'[e] = stage[e] /\ line'[e] = line[e] /\ i'[e] = i[e]
  \/ Waiting(e) /\ stage'[e] = "read" /\ line'[e] \in {"call", "begin"}
  \/ /\ Served(e)
     /\ \/ stage'[e] \in Barriers \cup {"partial", "sum", "print", "exit"}
        \/ stage'[e] = "read" /\ line'[e] = "leave"

RowsQuiet ==
  /\ UNCHANGED <<header, next_id, stdin, img, my_id, my_start, my_end, w, h, d>>
  /\ i' \in [Procs -> Int]
  /\ \A e \in Procs : SameReader(e)

\* Such a step changes none of the three kinds.
LEMMA SameKind ==
  ASSUME NEW e, SameReader(e)
  PROVE  /\ Reading(e)' = Reading(e) /\ Served(e)' = Served(e) /\ Identified(e)' = Identified(e)
         /\ Reading(e) \/ At(e, "read", "count")' \/ At(e, "read", "count") =>
              stage'[e] = stage[e] /\ line'[e] = line[e] /\ i'[e] = i[e]
BY DEF SameReader, Reading, Served, Identified, Waiting, At, Barriers

\* The invariant holds after it.
LEMMA RowsQuietKeeps ==
  ASSUME ReaderInv, RowsQuiet
  PROVE  ReaderInv'
<1>1. ReaderTypes'
  BY DEF ReaderInv, ReaderTypes, RowsQuiet
<1>2. ASSUME NEW k PROVE First(k)' = First(k)
  BY DEF First, RowsQuiet
<1>3. Accepted' = Accepted /\ HeaderKnown' = HeaderKnown
  BY DEF Accepted, HeaderKnown, Rejected, RowsQuiet
<1>4. ASSUME NEW e \in Procs PROVE ReaderFits(e)'
  <2>1. SameReader(e) /\ ReaderFits(e)
    BY DEF RowsQuiet, ReaderInv
  <2>2. /\ Reading(e)' = Reading(e) /\ Served(e)' = Served(e) /\ Identified(e)' = Identified(e)
        /\ Reading(e) \/ At(e, "read", "count")' \/ At(e, "read", "count") =>
             stage'[e] = stage[e] /\ line'[e] = line[e] /\ i'[e] = i[e]
    BY <2>1, SameKind
  <2>3. At(e, "read", "count")' => At(e, "read", "count")
    BY <2>2 DEF At
  <2>4. ASSUME NEW l \in {"header", "check", "share", "rows"}
        PROVE  At(e, "read", l)' = At(e, "read", l)
    <3>1. (At(e, "read", l) => Reading(e)) /\ (At(e, "read", l)' => Reading(e)')
      BY DEF At, Reading
    <3> QED
      BY <2>2, <3>1 DEF At
  <2>5. /\ my_id'[e] = my_id[e] /\ my_start'[e] = my_start[e] /\ my_end'[e] = my_end[e]
        /\ next_id' = next_id /\ stdin' = stdin
    BY DEF RowsQuiet
  <2>6. First(my_id[e])' = First(my_id[e]) /\ First(my_id[e] + 1)' = First(my_id[e] + 1)
    BY <2>5 DEF First, RowsQuiet
  <2> QED
    BY <1>3, <2>1, <2>2, <2>3, <2>4, <2>5, <2>6 DEF ReaderFits
<1>5. \A e \in Procs : Identified(e)' = Identified(e) /\ Reading(e)' = Reading(e)
  BY SameKind DEF RowsQuiet
<1>6. IdsGiven'
  <2>1. {e \in Procs : Identified(e)}' = {e \in Procs : Identified(e)}
    BY <1>5
  <2> QED
    BY <1>5, <2>1 DEF ReaderInv, IdsGiven, RowsQuiet
<1>7. RowsTaken'
  <2>1. First(next_id)' = First(next_id)
    BY DEF First, RowsQuiet
  <2> QED
    BY <1>5, <2>1 DEF ReaderInv, RowsTaken, RowsQuiet
<1> QED
  BY <1>1, <1>4, <1>6, <1>7 DEF ReaderInv

\* The steps at a section or a barrier are such steps.
LEMMA SectionsQuiet ==
  ASSUME GuestInv, ReaderInv, NEW c \in Procs,
         \/ EnterSection(c) \/ InsideMacro(c) \/ LeaveSection(c)
         \/ LoadBarrier(c) \/ CountIn(c) \/ PassBarrier(c)
  PROVE  RowsQuiet
<1> USE DEF RowsQuiet, SameReader, locals, shared, data, Barriers, ReaderInv, ReaderTypes
<1>0. GuestTypes
  BY DEF GuestInv
<1>1. CASE EnterSection(c)
  <2>1. /\ \A e \in Procs \ {c} : Untouched(e)
        /\ stage[c] \in Barriers \cup {"read", "print"}
        /\ line[c] = "call" /\ GoTo(c, stage[c], "begin")
    BY <1>0, <1>1, EnterKeeps, LineStep DEF EnterSection
  <2>2. SameReader(c)
    BY <1>0, <2>1 DEF GoTo, GuestTypes, Waiting, Served
  <2> QED
    BY <1>1, <2>1, <2>2 DEF EnterSection, Untouched
<1>2. CASE InsideMacro(c)
  BY <1>2 DEF InsideMacro, control
<1>3. CASE LeaveSection(c)
  <2>1. \A e \in Procs \ {c} : Untouched(e)
    BY <1>3, LeaveKeeps
  <2>2. SameReader(c)
    BY <1>0, <1>3 DEF LeaveSection, GoTo, GuestTypes, Served, At
  <2> QED
    BY <1>3, <2>1, <2>2 DEF LeaveSection, Untouched
<1>4. CASE LoadBarrier(c)
  <2>1. /\ \A e \in Procs \ {c} : Untouched(e)
        /\ stage[c] \in Barriers /\ GoTo(c, stage[c], "store")
    BY <1>0, <1>4, LoadKeeps, LineStep DEF LoadBarrier
  <2>2. SameReader(c)
    BY <1>0, <2>1 DEF GoTo, GuestTypes, Served
  <2> QED
    BY <1>4, <2>1, <2>2 DEF LoadBarrier, Untouched
<1>5. CASE CountIn(c)
  <2>1. \A e \in Procs \ {c} : Untouched(e)
    BY <1>5, CountInCounts
  <2>2. SameReader(c)
    BY <1>5, CountInCounts DEF CountIn, Served
  <2> QED
    BY <1>5, <2>1, <2>2 DEF CountIn, Untouched
<1>6. CASE PassBarrier(c)
  <2>1. /\ \A e \in Procs \ {c} : Untouched(e)
        /\ stage[c] \in Barriers /\ stage'[c] = Behind(stage[c])
    BY <1>6, PassPasses
  <2>2. SameReader(c)
    BY <2>1 DEF Behind, Served
  <2>3. /\ UNCHANGED <<header, next_id, stdin, img, my_id, my_start, my_end, w, h, d>>
        /\ i' = [i EXCEPT ![c] = my_id[c]]
    BY <1>6 DEF PassBarrier
  <2>4. i' \in [Procs -> Int] /\ \A e \in Procs \ {c} : i'[e] = i[e]
    BY <2>3
  <2> QED
    BY <2>1, <2>2, <2>3, <2>4 DEF Untouched
<1> QED
  BY <1>1, <1>2, <1>3, <1>4, <1>5, <1>6

\* So are the steps that count rows, add up bins and print.
LEMMA WorkQuiet ==
  ASSUME GuestInv, ReaderInv, NEW c \in Procs,
         \/ ZeroPartial(c) \/ CountRow(c) \/ RowsCounted(c) \/ ZeroBin(c) \/ AddPartial(c)
         \/ NextBin(c) \/ BinsDone(c) \/ PrintBin(c) \/ PrintDone(c)
  PROVE  RowsQuiet
<1> USE DEF RowsQuiet, SameReader, locals, shared, data, Barriers, ReaderInv, ReaderTypes
<1>0. GuestTypes
  BY DEF GuestInv
<1>1. CASE CountRow(c) \/ AddPartial(c) \/ PrintBin(c)
  BY <1>1 DEF CountRow, AddPartial, PrintBin, control, At, Served
<1>2. CASE RowsCounted(c) \/ BinsDone(c)
  BY <1>0, <1>2 DEF RowsCounted, BinsDone, At, Served, GoTo, GuestTypes
<1>3. CASE ZeroPartial(c) \/ ZeroBin(c) \/ PrintDone(c)
  BY <1>0, <1>3 DEF ZeroPartial, ZeroBin, PrintDone, Line, Served, GuestTypes
<1>4. CASE NextBin(c)
  <2>1. i' = [i EXCEPT ![c] = @ + NumProcs] /\ stage[c] = "sum" /\ stage' = stage
        /\ line' = [line EXCEPT ![c] = "bin"]
        /\ UNCHANGED <<header, next_id, stdin, img, my_id, my_start, my_end, w, h, d>>
    BY <1>4 DEF NextBin, Line
  <2>2. i' \in [Procs -> Int] /\ \A e \in Procs \ {c} : i'[e] = i[e] /\ line'[e] = line[e]
    BY <1>0, <2>1, CoresType DEF GuestTypes
  <2> QED
    BY <2>1, <2>2 DEF Served
<1> QED
  BY <1>1, <1>2, <1>3, <1>4

-----------------------------------------------------------------------------
(* The steps of a turn.                                                     *)

Turns(c) ==
  \/ Identify(c) \/ CountSelf(c) \/ ReadHeader(c) \/ HeaderOK(c) \/ HeaderTooBig(c)
  \/ TakeShare(c) \/ ReadRow(c) \/ RowsRead(c)

\* They are taken by a core with the lock in hand, and the others stay where
\* they are: served, or in front of the turn.
LEMMA TurnAlone ==
  ASSUME GuestInv, NEW c \in Procs, Turns(c)
  PROVE  /\ AtTurn(c) /\ stage[c] = "read"
         /\ \A e \in Procs \ {c} : Untouched(e) /\ ~Reading(e) /\ ~At(e, "read", "count")
<1>1. AtTurn(c) /\ stage[c] = "read"
  BY DEF Turns, AtTurn, At, Identify, CountSelf, ReadHeader, HeaderOK, HeaderTooBig, TakeShare,
     ReadRow, RowsRead, Line
<1>2. \A e \in Procs \ {c} : Untouched(e)
  <2>1. CASE ReadRow(c)
    BY <2>1, WorkSteps, WorkKeeps
  <2>2. CASE ~ReadRow(c)
    BY <2>2, MainSteps, MoveKeeps DEF Turns
  <2> QED
    BY <2>1, <2>2
<1> QED
  BY <1>1, <1>2, OneReader

\* What is true of a core that is not in its turn stays true.
LEMMA OtherFits ==
  ASSUME NEW e \in Procs, ReaderFits(e), Untouched(e), ~Reading(e), ~At(e, "read", "count"),
         my_id'[e] = my_id[e], my_start'[e] = my_start[e], my_end'[e] = my_end[e],
         header' = header, Served(e) => w' = w /\ h' = h /\ d' = d,
         next_id \in Nat, next_id' \in {next_id, next_id + 1}
  PROVE  ReaderFits(e)'
<1>1. ~Reading(e)' /\ ~At(e, "read", "count")' /\ Served(e)' = Served(e) /\ Identified(e)' = Identified(e)
  BY DEF Untouched, Reading, Served, Identified, At
<1>2. ~At(e, "read", "header")' /\ ~At(e, "read", "check")' /\ ~At(e, "read", "share")' /\ ~At(e, "read", "rows")'
  BY <1>1 DEF Reading, At
<1>3. First(my_id[e])' = First(my_id[e]) /\ First(my_id[e] + 1)' = First(my_id[e] + 1)
  BY DEF First
<1>4. Served(e) => Accepted'
  BY DEF ReaderFits, Accepted, HeaderKnown, Rejected
<1>5. Identified(e) => my_id[e] \in 0 .. next_id' - 1
  BY DEF ReaderFits
<1> QED
  BY <1>1, <1>2, <1>3, <1>4, <1>5 DEF ReaderFits

\* Nobody is identified in a step that changes no kind.
LEMMA IdsStay ==
  ASSUME IdsGiven, next_id' = next_id,
         \A e \in Procs : (Identified(e)' <=> Identified(e)) /\ (Identified(e) => my_id'[e] = my_id[e])
  PROVE  IdsGiven'
<1>1. {e \in Procs : Identified(e)}' = {e \in Procs : Identified(e)}
  OBVIOUS
<1> QED
  BY <1>1 DEF IdsGiven

\* my_id = p: the core takes the id that is next, and nobody else is at it.
LEMMA IdentifyKeepsRows ==
  ASSUME GuestInv, ReaderInv, NEW c \in Procs, Identify(c)
  PROVE  ReaderInv'
<1>0. GuestTypes /\ ReaderTypes
  BY DEF GuestInv, ReaderInv
<1>1. /\ \A e \in Procs \ {c} : Untouched(e) /\ ~Reading(e) /\ ~At(e, "read", "count")
      /\ stage[c] = "read" /\ line[c] = "begin" /\ GoTo(c, "read", "count")
      /\ my_id' = [my_id EXCEPT ![c] = next_id]
      /\ UNCHANGED <<header, my_start, my_end, i, next_id, stdin, img, w, h, d>>
  BY <1>0, TurnAlone, LineStep DEF Turns, Identify, shared, data
<1>2. stage'[c] = "read" /\ line'[c] = "count" /\ my_id'[c] = next_id
  BY <1>0, <1>1 DEF GoTo, GuestTypes, ReaderTypes
<1>3. ReaderTypes'
  BY <1>0, <1>1 DEF ReaderTypes
<1>4. ReaderFits(c)' /\ ~Identified(c) /\ ~Identified(c)'
  BY <1>1, <1>2, OneOfThree DEF ReaderFits, Identified, Reading, Served, Waiting, At, Barriers
<1>5. \A e \in Procs \ {c} : my_id'[e] = my_id[e]
  BY <1>0, <1>1 DEF ReaderTypes
<1>6. \A e \in Procs \ {c} : ReaderFits(e)' /\ Identified(e)' = Identified(e)
  BY <1>0, <1>1, <1>5, OtherFits DEF ReaderInv, ReaderTypes, Untouched, Identified, Reading, Served, At
<1>7. IdsGiven'
  <2>1. \A e \in Procs : (Identified(e)' <=> Identified(e)) /\ (Identified(e) => my_id'[e] = my_id[e])
    BY <1>4, <1>5, <1>6
  <2> QED
    BY <1>1, <2>1, IdsStay DEF ReaderInv
<1>8. RowsTaken'
  <2>1. \A e \in Procs : ~Reading(e)
    BY <1>1, <1>4 DEF Identified
  <2> QED
    BY <1>1, <2>1 DEF ReaderInv, RowsTaken, First
<1> QED
  BY <1>3, <1>4, <1>6, <1>7, <1>8 DEF ReaderInv

\* p++: the id is given to this core, and the rows of that id are the next ones;
\* the first core goes for the header, the others have it from the first one.
LEMMA CountSelfKeepsRows ==
  ASSUME GuestInv, ReaderInv, NEW c \in Procs, CountSelf(c)
  PROVE  ReaderInv'
<1>0. GuestTypes /\ ReaderTypes /\ ReaderFits(c)
  BY DEF GuestInv, ReaderInv
<1>1. /\ \A e \in Procs \ {c} : Untouched(e) /\ ~Reading(e) /\ ~At(e, "read", "count")
      /\ stage[c] = "read" /\ line[c] = "count"
      /\ GoTo(c, "read", IF my_id[c] = 0 THEN "header" ELSE "share")
      /\ next_id' = next_id + 1
      /\ UNCHANGED <<header, my_id, my_start, my_end, i, stdin, img, w, h, d>>
  BY <1>0, TurnAlone, LineStep DEF Turns, CountSelf, locals, data
<1>2. stage'[c] = "read" /\ line'[c] = (IF my_id[c] = 0 THEN "header" ELSE "share") /\ my_id[c] = next_id
  BY <1>0, <1>1 DEF GoTo, GuestTypes, ReaderFits, At
<1>3. ReaderTypes'
  BY <1>0, <1>1 DEF ReaderTypes
<1>4. ~Identified(c) /\ Identified(c)' /\ Reading(c)' /\ ~Served(c)' /\ ~At(c, "read", "rows")'
      /\ ~At(c, "read", "count")' /\ ~At(c, "read", "check")'
  BY <1>1, <1>2, OneOfThree DEF Identified, Reading, Served, At, Barriers
<1>5. \A e \in Procs \ {c} : ReaderFits(e)' /\ Identified(e)' = Identified(e)
  BY <1>0, <1>1, OtherFits DEF ReaderInv, ReaderTypes, Untouched, Identified, Reading, Served, At
<1>6. stdin = First(next_id)
  <2>1. \A e \in Procs : ~Reading(e)
    BY <1>1, <1>4 DEF Identified
  <2> QED
    BY <2>1 DEF ReaderInv, RowsTaken
<1>7. my_id[c] # 0 => Accepted'
  <2> SUFFICES ASSUME my_id[c] # 0 PROVE Accepted'
    OBVIOUS
  <2>1. next_id - 1 \in 0 .. next_id - 1
    BY <1>0, <1>2 DEF ReaderTypes
  <2>2. PICK e \in Procs : Identified(e) /\ my_id[e] = next_id - 1
    BY <2>1 DEF ReaderInv, IdsGiven
  <2>3. Served(e)
    BY <1>1, <1>4, <2>2 DEF Identified
  <2> QED
    BY <1>1, <2>3 DEF ReaderInv, ReaderFits, Accepted, HeaderKnown, Rejected
<1>8. ReaderFits(c)'
  <2>1. First(my_id[c])' = First(my_id[c])
    BY <1>1 DEF First
  <2>2. my_id'[c] \in 0 .. next_id' - 1 /\ my_id'[c] = next_id' - 1
    BY <1>0, <1>1, <1>2 DEF ReaderTypes
  <2>3. /\ At(c, "read", "header")' => my_id'[c] = 0
        /\ At(c, "read", "share")' => Accepted'
    BY <1>1, <1>2, <1>7 DEF At
  <2> QED
    BY <1>1, <1>2, <1>4, <1>6, <2>1, <2>2, <2>3 DEF ReaderFits
<1>9. IdsGiven'
  <2> DEFINE Ids == {e \in Procs : Identified(e)}
  <2>1. {e \in Procs : Identified(e)}' = Ids \cup {c} /\ c \notin Ids
    BY <1>4, <1>5
  <2>2. IsFiniteSet(Ids)
    BY CoresType, FS_Subset
  <2>3. next_id' = Cardinality({e \in Procs : Identified(e)}')
    <3>1. next_id = Cardinality(Ids)
      BY DEF ReaderInv, IdsGiven
    <3> HIDE DEF Ids
    <3> QED
      BY <1>1, <2>1, <2>2, <3>1, FS_AddElement
  <2>4. ASSUME NEW e \in Procs, NEW f \in Procs, Identified(e)', Identified(f)', my_id'[e] = my_id'[f]
        PROVE  e = f
    <3>1. \A g \in Procs \ {c} : Identified(g) => my_id[g] # my_id[c]
      BY <1>0, <1>2 DEF ReaderInv, ReaderFits, ReaderTypes
    <3> QED
      BY <1>1, <1>4, <1>5, <2>4, <3>1 DEF ReaderInv, IdsGiven
  <2>5. ASSUME NEW k \in 0 .. next_id' - 1
        PROVE  \E e \in Procs : Identified(e)' /\ my_id'[e] = k
    <3>1. CASE k = next_id
      BY <1>1, <1>2, <1>4, <3>1
    <3>2. CASE k # next_id
      <4>1. k \in 0 .. next_id - 1
        BY <1>0, <1>1, <3>2 DEF ReaderTypes
      <4>2. PICK e \in Procs : Identified(e) /\ my_id[e] = k
        BY <4>1 DEF ReaderInv, IdsGiven
      <4> QED
        BY <1>1, <1>4, <1>5, <4>2
    <3> QED
      BY <3>1, <3>2
  <2> QED
    BY <2>3, <2>4, <2>5 DEF IdsGiven
<1>10. RowsTaken'
  BY <1>1, <1>4 DEF ReaderInv, RowsTaken
<1> QED
  BY <1>3, <1>5, <1>8, <1>9, <1>10 DEF ReaderInv

\* A core that stays in its turn keeps the order of the rows if it is true of
\* itself.
LEMMA TurnGoesOn ==
  ASSUME GuestInv, ReaderInv, NEW c \in Procs, Turns(c), ReaderTypes', ReaderFits(c)',
         Reading(c), Reading(c)',
         \A e \in Procs \ {c} : /\ my_id'[e] = my_id[e]
                                /\ my_start'[e] = my_start[e] /\ my_end'[e] = my_end[e]
                                /\ Served(e) => w' = w /\ h' = h /\ d' = d,
         my_id'[c] = my_id[c], header' = header, next_id' = next_id,
         img' = [r \in 0 .. MaxH - 1 |-> IF r < stdin' THEN r ELSE Unread]
  PROVE  ReaderInv'
<1>1. \A e \in Procs \ {c} : Untouched(e) /\ ~Reading(e) /\ ~At(e, "read", "count")
  BY TurnAlone
<1>2. \A e \in Procs \ {c} : ReaderFits(e)' /\ Identified(e)' = Identified(e)
  BY <1>1, OtherFits DEF ReaderInv, ReaderTypes, Untouched, Identified, Reading, Served, At
<1>3. IdsGiven'
  <2>1. Identified(c) /\ Identified(c)'
    BY DEF Identified
  <2>2. \A e \in Procs : (Identified(e)' <=> Identified(e)) /\ (Identified(e) => my_id'[e] = my_id[e])
    BY <1>2, <2>1
  <2> QED
    BY <2>2, IdsStay DEF ReaderInv
<1>4. RowsTaken'
  BY DEF RowsTaken
<1> QED
  BY <1>2, <1>3, <1>4 DEF ReaderInv

\* The first core puts the header in shared memory, and checks it.
LEMMA HeaderKeepsRows ==
  ASSUME GuestInv, ReaderInv, NEW c \in Procs, ReadHeader(c) \/ HeaderOK(c) \/ HeaderTooBig(c)
  PROVE  ReaderInv'
<1>0. GuestTypes /\ ReaderTypes /\ ReaderFits(c)
  BY DEF GuestInv, ReaderInv
<1>1. /\ Turns(c) /\ stage[c] = "read" /\ line[c] \in {"header", "check"}
      /\ UNCHANGED <<header, my_id, my_start, my_end, i, next_id, stdin, img>>
  BY DEF Turns, ReadHeader, HeaderOK, HeaderTooBig, Line, At, locals, shared, data
<1>2. Reading(c) /\ ~At(c, "read", "rows") /\ ReaderTypes' /\ First(my_id[c])' = First(my_id[c])
  BY <1>0, <1>1 DEF Reading, At, ReaderTypes, First
<1>3. CASE ReadHeader(c)
  <2>1. /\ line[c] = "header" /\ GoTo(c, "read", "check")
        /\ w' = header.w /\ h' = header.h /\ d' = header.max + 1
    BY <1>0, <1>1, <1>3, LineStep DEF ReadHeader
  <2>2. stage'[c] = "read" /\ line'[c] = "check"
    BY <1>0, <2>1 DEF GoTo, GuestTypes
  <2>3. ReaderFits(c)' /\ Reading(c)'
    BY <1>0, <1>1, <1>2, <2>1, <2>2 DEF ReaderFits, HeaderKnown, Identified, Reading, Served, At, Barriers
  <2>4. ASSUME NEW e \in Procs \ {c} PROVE ~Served(e)
    <3> SUFFICES ASSUME Served(e) PROVE FALSE
      OBVIOUS
    <3>1. my_id[c] = 0 /\ my_id[c] = next_id - 1
      BY <1>0, <1>1, <1>2, <2>1 DEF ReaderFits, At
    <3>2. Identified(e) /\ my_id[e] \in 0 .. next_id - 1
      BY DEF Identified, ReaderInv, ReaderFits
    <3>3. my_id[e] = my_id[c] /\ Identified(c)
      BY <1>2, <3>1, <3>2 DEF Identified
    <3> QED
      BY <3>2, <3>3 DEF ReaderInv, IdsGiven
  <2> QED
    BY <1>1, <1>2, <2>3, <2>4, TurnGoesOn DEF ReaderInv, RowsTaken
<1>4. CASE HeaderOK(c)
  <2>1. line[c] = "check" /\ GoTo(c, "read", "share") /\ ~TooBig /\ UNCHANGED <<w, h, d>>
    BY <1>0, <1>1, <1>4, LineStep DEF HeaderOK, shared
  <2>2. stage'[c] = "read" /\ line'[c] = "share"
    BY <1>0, <2>1 DEF GoTo, GuestTypes
  <2>3. Accepted'
    BY <1>0, <1>1, <2>1 DEF ReaderFits, At, Accepted, HeaderKnown, Rejected, TooBig
  <2>4. ReaderFits(c)' /\ Reading(c)'
    BY <1>0, <1>1, <1>2, <2>1, <2>2, <2>3 DEF ReaderFits, Identified, Reading, Served, At, Barriers
  <2> QED
    BY <1>1, <1>2, <2>1, <2>4, TurnGoesOn DEF ReaderInv, RowsTaken
<1>5. CASE HeaderTooBig(c)
  <2>1. GoTo(c, "exit_bad_header", "stopped") /\ UNCHANGED <<w, h, d>>
    BY <1>5 DEF HeaderTooBig, shared
  <2>2. stage'[c] = "exit_bad_header" /\ line'[c] = "stopped"
    BY <1>0, <2>1 DEF GoTo, GuestTypes
  <2>3. ReaderFits(c)' /\ Reading(c)'
    BY <1>0, <1>1, <1>2, <2>1, <2>2 DEF ReaderFits, Identified, Reading, Served, At, Barriers
  <2> QED
    BY <1>1, <1>2, <2>1, <2>3, TurnGoesOn DEF ReaderInv, RowsTaken
<1> QED
  BY <1>3, <1>4, <1>5

\* The share of a core starts at the row that is next on the standard input.
LEMMA TakeShareKeepsRows ==
  ASSUME GuestInv, ReaderInv, NEW c \in Procs, TakeShare(c)
  PROVE  ReaderInv'
<1>0. GuestTypes /\ ReaderTypes /\ ReaderFits(c)
  BY DEF GuestInv, ReaderInv
<1>1. /\ Turns(c) /\ stage[c] = "read" /\ line[c] = "share" /\ GoTo(c, "read", "rows")
      /\ my_start' = [my_start EXCEPT ![c] = StartOf(my_id[c])]
      /\ my_end' = [my_end EXCEPT ![c] = StartOf(my_id[c] + 1)]
      /\ i' = [i EXCEPT ![c] = StartOf(my_id[c])]
      /\ UNCHANGED <<header, my_id, next_id, stdin, img, w, h, d>>
  BY <1>0, LineStep DEF Turns, TakeShare, shared, data
<1>2. Accepted /\ Reading(c) /\ ~At(c, "read", "rows")
  BY <1>0, <1>1 DEF ReaderFits, At, Reading
<1>3. my_id[c] \in Nat /\ my_id[c] \in 0 .. next_id - 1 /\ stdin = First(my_id[c])
  BY <1>0, <1>2 DEF ReaderFits, Identified
<1>4. StartOf(my_id[c]) = First(my_id[c]) /\ StartOf(my_id[c] + 1) = First(my_id[c] + 1)
  BY <1>2 DEF StartOf, First, Accepted, HeaderKnown
<1>5. /\ First(my_id[c]) \in Nat /\ First(my_id[c] + 1) \in Nat
      /\ First(my_id[c]) <= First(my_id[c] + 1)
  BY <1>0, <1>3, Shares, SMTT(30)
<1>6. /\ stage'[c] = "read" /\ line'[c] = "rows" /\ i'[c] = First(my_id[c])
      /\ my_start'[c] = First(my_id[c]) /\ my_end'[c] = First(my_id[c] + 1)
  BY <1>0, <1>1, <1>4 DEF GoTo, GuestTypes, ReaderTypes
<1>7. ReaderTypes'
  BY <1>0, <1>1, <1>4, <1>5 DEF ReaderTypes
<1>8. First(my_id[c])' = First(my_id[c]) /\ First(my_id[c] + 1)' = First(my_id[c] + 1)
  BY <1>1 DEF First
<1>9. Accepted'
  BY <1>1, <1>2 DEF Accepted, HeaderKnown, Rejected
<1>10. ReaderFits(c)' /\ Reading(c)'
  BY <1>0, <1>1, <1>2, <1>3, <1>5, <1>6, <1>8, <1>9 DEF ReaderFits, Identified, Reading, Served, At, Barriers
<1>11. \A e \in Procs \ {c} : my_start'[e] = my_start[e] /\ my_end'[e] = my_end[e]
  BY <1>0, <1>1 DEF ReaderTypes
<1> QED
  BY <1>1, <1>2, <1>7, <1>10, <1>11, TurnGoesOn DEF ReaderInv, RowsTaken

\* A row is read into the place in img that is its place on the input.
LEMMA ReadRowKeepsRows ==
  ASSUME GuestInv, ReaderInv, NEW c \in Procs, ReadRow(c)
  PROVE  ReaderInv'
<1>0. GuestTypes /\ ReaderTypes /\ ReaderFits(c)
  BY DEF GuestInv, ReaderInv
<1>1. /\ Turns(c) /\ stage[c] = "read" /\ line[c] = "rows" /\ i[c] < my_end[c]
      /\ img' = [img EXCEPT ![i[c]] = stdin]
      /\ stdin' = stdin + 1
      /\ i' = [i EXCEPT ![c] = @ + 1]
      /\ UNCHANGED <<header, my_id, my_start, my_end, next_id, stage, line, w, h, d>>
  BY DEF Turns, ReadRow, At, shared, control
<1>2. Accepted /\ Reading(c) /\ At(c, "read", "rows")
  BY <1>0, <1>1 DEF ReaderFits, At, Reading
<1>3. /\ my_id[c] \in 0 .. next_id - 1 /\ stdin = i[c] /\ stdin \in my_start[c] .. my_end[c]
      /\ my_start[c] = First(my_id[c]) /\ my_end[c] = First(my_id[c] + 1)
  BY <1>0, <1>2 DEF ReaderFits, Identified
<1>4. my_end[c] <= header.h /\ header.h \in 0 .. MaxH /\ my_end[c] \in Nat
  <2>1. my_id[c] + 1 \in 0 .. NumProcs
    BY <1>0, <1>3, IdsBounded, CoresType DEF ReaderInv, ReaderTypes
  <2> QED
    BY <1>0, <1>2, <1>3, <2>1, Shares, HeaderFits
<1>5. i'[c] = stdin' /\ stdin' \in my_start[c] .. my_end[c] /\ stdin' \in Nat
  BY <1>0, <1>1, <1>3, <1>4 DEF ReaderTypes
<1>6. ReaderTypes'
  BY <1>0, <1>1, <1>5 DEF ReaderTypes
<1>7. img' = [r \in 0 .. MaxH - 1 |-> IF r < stdin' THEN r ELSE Unread]
  <2>1. stdin \in 0 .. MaxH - 1
    BY <1>0, <1>1, <1>3, <1>4, LimitsAssumption DEF ReaderTypes
  <2>2. img = [r \in 0 .. MaxH - 1 |-> IF r < stdin THEN r ELSE Unread]
    BY DEF ReaderInv, RowsTaken
  <2>3. ASSUME NEW r \in 0 .. MaxH - 1
        PROVE  (IF r = stdin THEN stdin ELSE IF r < stdin THEN r ELSE Unread)
                 = (IF r < stdin + 1 THEN r ELSE Unread)
    <3>1. ASSUME NEW x \in Int, NEW y \in Int, NEW u \in Int
          PROVE  (IF x = y THEN y ELSE IF x < y THEN x ELSE u) = (IF x < y + 1 THEN x ELSE u)
      OBVIOUS
    <3>2. r \in Int /\ stdin \in Int /\ Unread \in Int
      BY <2>1, LimitsAssumption DEF Unread
    <3> QED
      BY <3>1, <3>2, Zenon
  <2>4. img' = [r \in 0 .. MaxH - 1 |-> IF r = stdin THEN stdin ELSE IF r < stdin THEN r ELSE Unread]
    BY <1>1, <1>3, <2>1, <2>2
  <2> QED
    BY <1>1, <2>3, <2>4
<1>8. First(my_id[c])' = First(my_id[c]) /\ First(my_id[c] + 1)' = First(my_id[c] + 1)
  BY <1>1 DEF First
<1>9. Accepted' /\ Reading(c)'
  BY <1>1, <1>2 DEF Accepted, HeaderKnown, Rejected, Reading
<1>10. ReaderFits(c)'
  BY <1>0, <1>1, <1>3, <1>5, <1>8, <1>9 DEF ReaderFits, Identified, Reading, Served, At
<1> QED
  BY <1>1, <1>2, <1>6, <1>7, <1>9, <1>10, TurnGoesOn

\* A core that has its rows has left the standard input where the next share
\* starts.
LEMMA RowsReadKeepsRows ==
  ASSUME GuestInv, ReaderInv, NEW c \in Procs, RowsRead(c)
  PROVE  ReaderInv'
<1>0. GuestTypes /\ ReaderTypes /\ ReaderFits(c)
  BY DEF GuestInv, ReaderInv
<1>1. /\ \A e \in Procs \ {c} : Untouched(e) /\ ~Reading(e) /\ ~At(e, "read", "count")
      /\ stage[c] = "read" /\ line[c] = "rows" /\ GoTo(c, "read", "leave") /\ i[c] >= my_end[c]
      /\ i' = [i EXCEPT ![c] = my_start[c]]
      /\ UNCHANGED <<header, my_id, my_start, my_end, next_id, stdin, img, w, h, d>>
  BY <1>0, TurnAlone, LineStep DEF Turns, RowsRead, shared, data
<1>2. Accepted /\ Reading(c) /\ At(c, "read", "rows")
  BY <1>0, <1>1 DEF ReaderFits, At, Reading
<1>3. /\ my_id[c] = next_id - 1 /\ my_id[c] \in 0 .. next_id - 1 /\ stdin = i[c]
      /\ stdin \in my_start[c] .. my_end[c]
      /\ my_start[c] = First(my_id[c]) /\ my_end[c] = First(my_id[c] + 1)
  BY <1>0, <1>2 DEF ReaderFits, Identified
<1>4. stdin = First(next_id)
  <2>1. First(my_id[c] + 1) = stdin
    BY <1>0, <1>1, <1>3 DEF ReaderTypes
  <2>2. my_id[c] + 1 = next_id
    BY <1>0, <1>3 DEF ReaderTypes
  <2> QED
    BY <2>1, <2>2
<1>5. stage'[c] = "read" /\ line'[c] = "leave"
  BY <1>0, <1>1 DEF GoTo, GuestTypes
<1>6. Served(c)' /\ ~Reading(c)' /\ Identified(c) /\ Identified(c)'
  BY <1>2, <1>5 DEF Served, Identified, At, Reading
<1>7. ReaderTypes'
  BY <1>0, <1>1 DEF ReaderTypes
<1>8. ReaderFits(c)'
  <2>1. First(my_id[c])' = First(my_id[c]) /\ First(my_id[c] + 1)' = First(my_id[c] + 1)
    BY <1>1 DEF First
  <2>2. Accepted'
    BY <1>1, <1>2 DEF Accepted, HeaderKnown, Rejected
  <2> QED
    BY <1>1, <1>3, <1>5, <1>6, <2>1, <2>2 DEF ReaderFits, At
<1>9. \A e \in Procs \ {c} : ReaderFits(e)' /\ Identified(e)' = Identified(e)
  BY <1>0, <1>1, OtherFits DEF ReaderInv, ReaderTypes, Untouched, Identified, Reading, Served, At
<1>10. IdsGiven'
  <2>1. \A e \in Procs : (Identified(e)' <=> Identified(e)) /\ (Identified(e) => my_id'[e] = my_id[e])
    BY <1>1, <1>6, <1>9
  <2> QED
    BY <1>1, <2>1, IdsStay DEF ReaderInv
<1>11. RowsTaken'
  <2>1. First(next_id)' = First(next_id)
    BY <1>1 DEF First
  <2> QED
    BY <1>1, <1>4, <2>1 DEF ReaderInv, RowsTaken
<1> QED
  BY <1>7, <1>8, <1>9, <1>10, <1>11 DEF ReaderInv

-----------------------------------------------------------------------------
\* In the first states nobody has an id and nothing has been read.
LEMMA ReaderInvInit == Init => ReaderInv
<1> SUFFICES ASSUME Init PROVE ReaderInv
  OBVIOUS
<1>1. ReaderTypes
  BY DEF Init, ReaderTypes
<1>2. \A c \in Procs : ~Identified(c) /\ ~Reading(c) /\ ~Served(c) /\ ~At(c, "read", "count")
  BY DEF Init, Identified, Reading, Served, At, Barriers
<1>3. \A c \in Procs : ReaderFits(c)
  BY <1>2 DEF Init, ReaderFits, At
<1>4. IdsGiven
  <2>1. {c \in Procs : Identified(c)} = {} /\ next_id = 0
    BY <1>2 DEF Init
  <2>2. 0 .. next_id - 1 = {}
    BY <2>1
  <2> QED
    BY <2>1, <2>2, <1>2, FS_EmptySet DEF IdsGiven
<1>5. RowsTaken
  <2>1. First(next_id) = 0
    BY <1>1, Shares DEF Init
  <2>2. ASSUME NEW r \in 0 .. MaxH - 1 PROVE ~(r < 0)
    BY LimitsAssumption
  <2> QED
    BY <2>1, <2>2 DEF Init, RowsTaken
<1> QED
  BY <1>1, <1>3, <1>4, <1>5 DEF ReaderInv

\* A step of nobody leaves everything as it is.
LEMMA StutterQuiet ==
  ASSUME ReaderInv, UNCHANGED vars
  PROVE  RowsQuiet
BY DEF vars, RowsQuiet, SameReader, ReaderInv, ReaderTypes, control, locals, shared, data

\* Every step leaves the order of the rows true.
LEMMA ReaderStep ==
  ASSUME GuestInv, ReaderInv, [Next]_vars
  PROVE  ReaderInv'
<1>1. CASE UNCHANGED vars
  BY <1>1, StutterQuiet, RowsQuietKeeps
<1>2. ASSUME NEW c \in Procs, Step(c) PROVE ReaderInv'
  BY <1>2, SectionsQuiet, WorkQuiet, RowsQuietKeeps, IdentifyKeepsRows, CountSelfKeepsRows,
     HeaderKeepsRows, TakeShareKeepsRows, ReadRowKeepsRows, RowsReadKeepsRows DEF Step
<1> QED
  BY <1>1, <1>2 DEF Next

\* The invariant tells what the rows of img are and who has how many.
LEMMA ReaderInvRows ==
  ASSUME ReaderInv
  PROVE  RowsInOrder
<1>1. \A c \in Readers : c \in Procs /\ Served(c)
  BY DEF Readers, Served
<1>2. FirstReadsLeast
  <2> SUFFICES ASSUME NEW c \in Readers
               PROVE  LET share == my_end[c] - my_start[c]
                          least == header.h \div NumProcs
                          most == least + IF header.h % NumProcs = 0 THEN 0 ELSE 1
                      IN  /\ share \in least .. most
                          /\ my_id[c] = 0 => share = least
                          /\ my_id[c] = NumProcs - 1 => share = most
    BY DEF FirstReadsLeast
  <2>1. /\ my_start[c] = First(my_id[c]) /\ my_end[c] = First(my_id[c] + 1)
        /\ my_id[c] \in Nat
    BY <1>1 DEF ReaderInv, ReaderFits, Identified
  <2> DEFINE least == header.h \div NumProcs
             more == IF header.h % NumProcs = 0 THEN 0 ELSE 1
  <2>2. /\ First(my_id[c]) \in Nat /\ First(my_id[c] + 1) \in Nat
        /\ First(my_id[c] + 1) - First(my_id[c]) >= least
        /\ First(my_id[c] + 1) - First(my_id[c]) <= least + more
    BY <2>1, Shares DEF ReaderInv
  <2>3. least \in Nat /\ more \in {0, 1}
    BY Shares, Rounding, CoresType DEF ReaderInv
  <2>4. my_id[c] = 0 => First(my_id[c] + 1) - First(my_id[c]) = least
    <3>1. First(0) = 0 /\ First(1) = least /\ 0 + 1 = 1
      BY Shares DEF ReaderInv
    <3> HIDE DEF least
    <3> QED
      BY <2>3, <3>1
  <2>5. my_id[c] = NumProcs - 1 => First(my_id[c] + 1) - First(my_id[c]) = least + more
    <3>1. /\ header.h - First(NumProcs - 1) = least + more /\ First(NumProcs) = header.h
          /\ NumProcs - 1 + 1 = NumProcs
      BY Shares, CoresType DEF ReaderInv
    <3> HIDE DEF least, more
    <3> QED
      BY <3>1
  <2> HIDE DEF least, more
  <2>6. /\ my_end[c] - my_start[c] \in least .. (least + more)
        /\ my_id[c] = 0 => my_end[c] - my_start[c] = least
        /\ my_id[c] = NumProcs - 1 => my_end[c] - my_start[c] = least + more
    BY <2>1, <2>2, <2>3, <2>4, <2>5
  <2> QED
    BY <2>6 DEF least, more
<1>3. \A r \in DOMAIN img : img[r] \in {Unread, r}
  BY DEF ReaderInv, RowsTaken
<1>4. ASSUME Readers = Procs
      PROVE  stdin = header.h /\ \A r \in 0 .. header.h - 1 : img[r] = r
  <2>1. \A c \in Procs : Served(c) /\ ~Reading(c) /\ Identified(c)
    BY <1>1, <1>4, OneOfThree DEF Identified
  <2>2. next_id = NumProcs
    <3>1. {c \in Procs : Identified(c)} = Procs
      BY <2>1
    <3> QED
      BY <3>1, ProcsAssumption DEF ReaderInv, IdsGiven
  <2>3. stdin = header.h
    BY <2>1, <2>2, Shares DEF ReaderInv, RowsTaken
  <2>4. PICK c \in Procs : TRUE
    BY CoresType, ProcsAssumption, FS_EmptySet
  <2>5. header.h \in Nat /\ header.h <= MaxH
    BY <2>1, <2>4, HeaderFits DEF ReaderInv, ReaderFits
  <2>6. ASSUME NEW r \in 0 .. header.h - 1 PROVE img[r] = r
    <3>1. r \in 0 .. MaxH - 1 /\ r < stdin
      BY <2>3, <2>5, LimitsAssumption
    <3> QED
      BY <3>1 DEF ReaderInv, RowsTaken
  <2> QED
    BY <2>3, <2>6
<1> QED
  BY <1>2, <1>3, <1>4 DEF RowsInOrder

\* For any number of cores and any image: the ids given out under l1 put the
\* rows of the input in their places in img, each core reads the share the README
\* promises, and together they read the whole image and nothing more.
THEOREM HistogramRows == Spec => [](ReaderInv /\ RowsInOrder)
<1>1. Init => ReaderInv
  BY ReaderInvInit
<1>2. GuestInv /\ ReaderInv /\ [Next]_vars => ReaderInv'
  BY ReaderStep
<1>3. ReaderInv => RowsInOrder
  BY ReaderInvRows
<1> QED
  BY <1>1, <1>2, <1>3, HistogramSafety, PTL DEF Spec

-----------------------------------------------------------------------------
(* Bins: the pixels of any rows of the image, counted by the bin they fall in. *)

PixelsIn(lo, hi, b) ==
  {rc \in (lo .. hi - 1) \X (0 .. header.w - 1) :
     Saturate(Image[rc[1]][rc[2]], header.max) = b}
Tally(lo, hi, b) == Cardinality(PixelsIn(lo, hi, b))

Bins == 0 .. header.max

\* The partial histogram of a core counts its rows up to row n, and the final
\* one is right in the bins of that core below n.
OwnRows(c, n) == \A b \in Bins : hist[my_id[c]][b] = Tally(my_start[c], n, b)
OwnBins(c, n) ==
  \A b \in Bins : b % NumProcs = my_id[c] /\ b < n => hist[NumProcs][b] = CountOf(b)

HistTypes ==
  /\ hist \in [0 .. NumProcs -> [BinIndex -> Nat]]
  /\ j \in [Procs -> Int]
  /\ printed \in Seq(Nat)

CoreHist(c) ==
  /\ At(c, "read", "leave") \/ At(c, "partial", "zero") => i[c] = my_start[c]
  /\ At(c, "partial", "loop") => i[c] \in my_start[c] .. my_end[c] /\ OwnRows(c, i[c])
  /\ stage[c] \in Barriers \cup {"sum", "print", "exit"} => OwnRows(c, my_end[c])
  /\ stage[c] = "sum" => i[c] \in Nat /\ i[c] % NumProcs = my_id[c] /\ OwnBins(c, i[c])
  /\ At(c, "sum", "add") =>
       /\ i[c] \in Bins /\ j[c] \in 0 .. NumProcs
       /\ hist[NumProcs][i[c]] = Tally(0, First(j[c]), i[c])
  /\ stage[c] \in {"barrier1", "print", "barrier2", "exit"} => OwnBins(c, header.max + 1)
  /\ my_id[c] = 1 /\ (At(c, "print", "leave") \/ stage[c] \in {"barrier2", "exit"}) =>
       Len(printed) = header.max + 1

PrintedFits ==
  /\ Len(printed) <= header.max + 1
  /\ \A k \in DOMAIN printed : printed[k] = CountOf(k - 1)

HistInv == HistTypes /\ (\A c \in Procs : CoreHist(c)) /\ PrintedFits

-----------------------------------------------------------------------------
\* There are finitely many pixels.
LEMMA TallyType ==
  ASSUME ReaderTypes, NEW lo \in Int, NEW hi \in Int, NEW b
  PROVE  IsFiniteSet(PixelsIn(lo, hi, b)) /\ Tally(lo, hi, b) \in Nat
<1>1. header.w \in Nat
  BY HeadersAssumption DEF ReaderTypes
<1>2. IsFiniteSet(lo .. hi - 1) /\ IsFiniteSet(0 .. header.w - 1)
  BY <1>1, FS_Interval
<1>3. IsFiniteSet((lo .. hi - 1) \X (0 .. header.w - 1))
  BY <1>2, FS_Product
<1>4. PixelsIn(lo, hi, b) \in SUBSET ((lo .. hi - 1) \X (0 .. header.w - 1))
  BY DEF PixelsIn
<1> QED
  BY <1>3, <1>4, FS_Subset, FS_CardinalityType DEF Tally

\* No rows, no pixels.
LEMMA TallyEmpty ==
  ASSUME NEW lo \in Int, NEW b
  PROVE  Tally(lo, lo, b) = 0
<1>1. PixelsIn(lo, lo, b) = {}
  BY DEF PixelsIn
<1> QED
  BY <1>1, FS_EmptySet DEF Tally

\* The pixels of rows that follow each other add up.
LEMMA TallySplit ==
  ASSUME ReaderTypes, NEW lo \in Int, NEW mid \in Int, NEW hi \in Int, lo <= mid, mid <= hi, NEW b
  PROVE  Tally(lo, hi, b) = Tally(lo, mid, b) + Tally(mid, hi, b)
<1> DEFINE S == PixelsIn(lo, mid, b)
           T == PixelsIn(mid, hi, b)
<1>1. S \cup T = PixelsIn(lo, hi, b)
  <2>1. (lo .. mid - 1) \cup (mid .. hi - 1) = lo .. hi - 1
    OBVIOUS
  <2>2. ((lo .. mid - 1) \X (0 .. header.w - 1)) \cup ((mid .. hi - 1) \X (0 .. header.w - 1))
          = (lo .. hi - 1) \X (0 .. header.w - 1)
    BY <2>1
  <2> QED
    BY <2>2, Zenon DEF PixelsIn
<1>2. S \cap T = {}
  <2>1. (lo .. mid - 1) \cap (mid .. hi - 1) = {}
    OBVIOUS
  <2> QED
    BY <2>1 DEF PixelsIn
<1>3. IsFiniteSet(S) /\ IsFiniteSet(T) /\ Cardinality(S) \in Nat /\ Cardinality(T) \in Nat
  BY TallyType, FS_CardinalityType
<1> HIDE DEF S, T
<1>4. Cardinality(S \cup T) = Cardinality(S) + Cardinality(T)
  BY <1>2, <1>3, FS_Union, FS_EmptySet
<1> QED
  BY <1>1, <1>4 DEF Tally, S, T

\* The pixels of one row are its columns.
LEMMA TallyRow ==
  ASSUME ReaderTypes, NEW r \in Int, NEW b
  PROVE  Tally(r, r + 1, b)
           = Cardinality({col \in 0 .. header.w - 1 : Saturate(Image[r][col], header.max) = b})
<1> DEFINE Cols == {col \in 0 .. header.w - 1 : Saturate(Image[r][col], header.max) = b}
           Pix == PixelsIn(r, r + 1, b)
           f == [col \in Cols |-> <<r, col>>]
<1>1. Pix = {rc \in {r} \X (0 .. header.w - 1) : Saturate(Image[rc[1]][rc[2]], header.max) = b}
  <2>1. r .. (r + 1) - 1 = {r}
    OBVIOUS
  <2> QED
    BY <2>1, Zenon DEF PixelsIn
<1>2. \A col \in 0 .. header.w - 1 : <<r, col>> \in Pix <=> col \in Cols
  BY <1>1
<1>3. \A rc \in Pix : \E col \in Cols : rc = <<r, col>>
  BY <1>1
<1>4. IsFiniteSet(Cols)
  <2>1. header.w \in Nat
    BY HeadersAssumption DEF ReaderTypes
  <2>2. IsFiniteSet(0 .. header.w - 1)
    BY <2>1, FS_Interval
  <2> QED
    BY <2>2, FS_Subset
<1>5. \A col \in Cols : col \in 0 .. header.w - 1
  OBVIOUS
<1> HIDE DEF Cols, Pix
<1>6. f \in [Cols -> Pix]
  BY <1>2, <1>5
<1>7. \A a, e \in Cols : f[a] = f[e] => a = e
  OBVIOUS
<1>8. \A t \in Pix : \E s \in Cols : f[s] = t
  BY <1>3
<1>9. ExistsBijection(Cols, Pix)
  BY <1>6, <1>7, <1>8, Fun_IsBij, Fun_ExistsBij
<1>10. Cardinality(Pix) = Cardinality(Cols)
  BY <1>4, <1>9, FS_Bijection
<1> QED
  BY <1>10 DEF Tally, Cols, Pix

\* Counting all rows is counting the image.
LEMMA TallyAll == \A b : CountOf(b) = Tally(0, header.h, b)
BY DEF CountOf, Tally, PixelsIn

\* The input does not change, and neither does what is to be counted.
LEMMA TallyStays ==
  ASSUME header' = header
  PROVE  /\ \A lo, hi, b : Tally(lo, hi, b)' = Tally(lo, hi, b)
         /\ \A b : CountOf(b)' = CountOf(b)
         /\ Bins' = Bins
         /\ \A k : First(k)' = First(k)
BY DEF Tally, PixelsIn, CountOf, Bins, First

-----------------------------------------------------------------------------
\* A number has one remainder.
LEMMA OneRemainder ==
  ASSUME NEW n \in Nat \ {0}, NEW a \in Nat, NEW q \in Int, NEW r \in 0 .. n - 1,
         a = n * q + r
  PROVE  a % n = r
<1> DEFINE q0 == a \div n
           r0 == a % n
<1>1. q0 \in Nat /\ r0 \in 0 .. n - 1 /\ a = q0 * n + r0
  <2>1. ASSUME NEW m \in Nat \ {0}, NEW x \in Nat
        PROVE  /\ x \div m \in Nat
               /\ x % m \in 0 .. m - 1
               /\ x = (x \div m) * m + (x % m)
    BY SMTT(60)
  <2> QED
    BY <2>1, Zenon
<1> HIDE DEF q0, r0
<1>2. q0 * n = n * q0
  <2>1. ASSUME NEW x \in Int, NEW y \in Int PROVE x * y = y * x
    BY SMTT(30)
  <2> QED
    BY <1>1, <2>1
<1>3. n * q < n * q0 + n /\ n * q0 < n * q + n
  <2>1. n * q \in Int /\ n * q0 \in Int
    BY <1>1
  <2> QED
    BY <1>1, <1>2, <2>1
<1>4. q <= q0 /\ q0 <= q
  BY <1>1, <1>3, RoundingUnique
<1>5. q = q0
  BY <1>1, <1>4
<1>6. r = r0
  <2>1. n * q \in Int /\ n * q0 = n * q
    BY <1>5
  <2> QED
    BY <1>1, <1>2, <2>1
<1> QED
  BY <1>6 DEF r0

\* The bins of a core: they start at its id, and follow each other at a
\* distance of the number of cores.
LEMMA BinsOfCore ==
  ASSUME NEW n \in Nat \ {0}, NEW a \in Nat
  PROVE  /\ a % n \in 0 .. n - 1
         /\ a < n => a % n = a
         /\ (a + n) % n = a % n
         /\ \A e \in Nat : e % n = a % n /\ a <= e /\ e < a + n => e = a
<1>1. ASSUME NEW m \in Nat \ {0}, NEW x \in Nat
      PROVE  /\ x \div m \in Nat
             /\ x % m \in 0 .. m - 1
             /\ x = m * (x \div m) + (x % m)
  <2>1. /\ x \div m \in Nat
        /\ x % m \in 0 .. m - 1
        /\ x = (x \div m) * m + (x % m)
    BY SMTT(60)
  <2>2. ASSUME NEW y \in Int, NEW z \in Int PROVE y * z = z * y
    BY SMTT(30)
  <2>3. (x \div m) * m = m * (x \div m)
    BY <2>1, <2>2
  <2> QED
    BY <2>1, <2>3
<1>2. a % n \in 0 .. n - 1
  BY <1>1
<1>3. a < n => a % n = a
  <2> SUFFICES ASSUME a < n PROVE a % n = a
    OBVIOUS
  <2>1. a \in 0 .. n - 1 /\ a = n * 0 + a
    OBVIOUS
  <2> QED
    BY <2>1, OneRemainder
<1>4. (a + n) % n = a % n
  <2> DEFINE q == a \div n
             r == a % n
  <2>1. q \in Nat /\ r \in 0 .. n - 1 /\ a = n * q + r
    BY <1>1, Zenon
  <2> HIDE DEF q, r
  <2>2. n * (q + 1) = n * q + n
    <3>1. ASSUME NEW x \in Int, NEW y \in Int PROVE x * (y + 1) = x * y + x
      BY SMTT(30)
    <3> QED
      BY <2>1, <3>1
  <2>3. n * q \in Int
    BY <2>1
  <2>4. a + n = n * (q + 1) + r /\ a + n \in Nat /\ q + 1 \in Int
    BY <2>1, <2>2, <2>3
  <2>5. (a + n) % n = r
    BY <2>1, <2>4, OneRemainder
  <2> QED
    BY <2>5 DEF r
<1>5. ASSUME NEW e \in Nat, e % n = a % n, a <= e, e < a + n PROVE e = a
  <2> DEFINE qa == a \div n
             qe == e \div n
             r == a % n
  <2>1. qa \in Nat /\ qe \in Nat /\ r \in 0 .. n - 1 /\ a = n * qa + r
    BY <1>1, Zenon
  <2>2. e = n * qe + r
    BY <1>1, <1>5, Zenon
  <2> HIDE DEF qa, qe, r
  <2>3. n * qa \in Int /\ n * qe \in Int
    BY <2>1
  <2>4. n * qe < n * qa + n /\ n * qa < n * qe + n
    BY <1>5, <2>1, <2>2, <2>3
  <2>5. qa = qe
    <3>1. qa <= qe /\ qe <= qa
      BY <2>1, <2>4, RoundingUnique
    <3> QED
      BY <2>1, <3>1
  <2> QED
    BY <2>1, <2>2, <2>5
<1> QED
  BY <1>2, <1>3, <1>4, <1>5

-----------------------------------------------------------------------------
\* What a core that has its rows knows.
LEMMA ServedKnows ==
  ASSUME ReaderInv, NEW c \in Procs, Served(c)
  PROVE  /\ my_id[c] \in 0 .. NumProcs - 1
         /\ Accepted /\ w = header.w /\ h = header.h /\ d = header.max + 1
         /\ header.max \in Nat /\ Bins \subseteq BinIndex /\ header.h \in 0 .. MaxH
         /\ my_start[c] = First(my_id[c]) /\ my_end[c] = First(my_id[c] + 1)
         /\ my_start[c] \in Nat /\ my_end[c] \in Nat
         /\ my_start[c] <= my_end[c] /\ my_end[c] <= header.h /\ my_end[c] <= stdin
<1>0. ReaderTypes /\ ReaderFits(c)
  BY DEF ReaderInv
<1>1. my_id[c] \in 0 .. next_id - 1 /\ next_id \in Nat /\ next_id <= NumProcs
  BY <1>0, IdsBounded DEF ReaderInv, ReaderTypes, ReaderFits, Identified
<1>2. my_id[c] \in 0 .. NumProcs - 1
  BY <1>1, CoresType
<1>3. /\ Accepted /\ my_start[c] = First(my_id[c]) /\ my_end[c] = First(my_id[c] + 1)
  BY <1>0 DEF ReaderFits
<1>4. header.max \in Nat /\ Bins \subseteq BinIndex /\ header.h \in 0 .. MaxH
  BY <1>0, <1>3, HeaderFits, LimitsAssumption DEF Bins, BinIndex
<1>5. my_id[c] \in Nat /\ my_id[c] + 1 \in 0 .. NumProcs
  BY <1>2, CoresType
<1>6. /\ First(my_id[c]) \in Nat /\ First(my_id[c] + 1) \in Nat
      /\ First(my_id[c]) <= First(my_id[c] + 1) /\ First(my_id[c] + 1) <= header.h
  BY <1>0, <1>5, Shares
<1>7. First(my_id[c] + 1) <= stdin
  <2>1. CASE \A e \in Procs : ~Reading(e)
    <3>1. my_id[c] + 1 <= next_id /\ stdin = First(next_id)
      BY <1>1, <2>1 DEF ReaderInv, RowsTaken
    <3> QED
      BY <1>0, <1>1, <1>5, <3>1, Shares, SMTT(30)
  <2>2. ASSUME NEW e \in Procs, Reading(e) PROVE First(my_id[c] + 1) <= stdin
    <3>1. my_id[e] = next_id - 1 /\ ReaderFits(e) /\ my_id[e] \in 0 .. next_id - 1
      BY <2>2 DEF ReaderInv, ReaderFits, Identified
    <3>2. my_id[c] # my_id[e]
      <4>1. c # e
        BY <2>2, OneOfThree
      <4> QED
        BY <2>2, <4>1 DEF ReaderInv, IdsGiven, Identified
    <3>3. my_id[c] + 1 <= my_id[e] /\ my_id[e] \in Nat
      BY <1>1, <3>1, <3>2
    <3>4. First(my_id[c] + 1) <= First(my_id[e]) /\ First(my_id[e]) \in Nat
      BY <1>0, <1>5, <3>3, Shares
    <3>5. stdin >= First(my_id[e])
      <4>1. CASE At(e, "read", "rows")
        BY <1>0, <2>2, <3>1, <3>4, <4>1 DEF ReaderFits, ReaderTypes
      <4>2. CASE ~At(e, "read", "rows")
        BY <2>2, <3>1, <3>4, <4>2 DEF ReaderFits
      <4> QED
        BY <4>1, <4>2
    <3> QED
      BY <1>0, <1>6, <3>4, <3>5 DEF ReaderTypes
  <2> QED
    BY <2>1, <2>2
<1> QED
  BY <1>2, <1>3, <1>4, <1>6, <1>7 DEF Accepted, HeaderKnown

\* The rows of a core are in their places in img.
LEMMA RowsThere ==
  ASSUME ReaderInv, NEW c \in Procs, Served(c), NEW r \in Int, my_start[c] <= r, r < my_end[c]
  PROVE  r \in 0 .. header.h - 1 /\ img[r] = r /\ r # Unread
<1>1. /\ my_start[c] \in Nat /\ my_end[c] \in Nat /\ my_end[c] <= header.h /\ my_end[c] <= stdin
      /\ header.h \in 0 .. MaxH /\ stdin \in Nat
  BY ServedKnows DEF ReaderInv, ReaderTypes
<1>2. r \in 0 .. header.h - 1 /\ r \in 0 .. MaxH - 1 /\ r < stdin
  BY <1>1, LimitsAssumption
<1> QED
  BY <1>2 DEF ReaderInv, RowsTaken, Unread

\* A core that adds up bins comes after the last one that counts rows, and one
\* that prints after the last one that adds up.
LEMMA OthersThere ==
  ASSUME GuestInv, PhasesInLockstep, NEW c \in Procs, NEW e \in Procs
  PROVE  /\ stage[c] \in {"sum", "barrier1", "print", "barrier2", "exit"} =>
              stage[e] \in Barriers \cup {"sum", "print", "exit"}
         /\ stage[c] \in {"print", "barrier2", "exit"} =>
              stage[e] \in {"barrier1", "print", "barrier2", "exit"}
         /\ stage[c] = "exit" => stage[e] \in {"barrier2", "exit"}
<1>1. PassedBarriers(c) <= ArrivedBarriers(e) /\ stage[e] \in Stages
  BY DEF PhasesInLockstep, GuestInv, GuestTypes
<1>2. ArrivedBarriers(e) <= PassedBarriers(e) + (IF stage[e] \in Barriers THEN 1 ELSE 0)
  BY PhaseType DEF ArrivedBarriers, PassedBarriers, CountedIn
<1>3. PassedBarriers(e) \in 0 .. 3 /\ ArrivedBarriers(e) \in Int /\ PassedBarriers(c) \in 0 .. 3
  BY ArrivedType
<1>4. stage[c] \in {"sum", "barrier1"} => PassedBarriers(c) = 1
  BY DEF PassedBarriers, Phase
<1>5. stage[c] \in {"print", "barrier2"} => PassedBarriers(c) = 2
  BY DEF PassedBarriers, Phase
<1>6. stage[c] = "exit" => PassedBarriers(c) = 3
  BY DEF PassedBarriers, Phase
<1>7. PassedBarriers(e) + (IF stage[e] \in Barriers THEN 1 ELSE 0) >= 1 =>
        stage[e] \in Barriers \cup {"sum", "print", "exit"}
  BY <1>1 DEF PassedBarriers, Phase, Stages, Barriers
<1>8. PassedBarriers(e) + (IF stage[e] \in Barriers THEN 1 ELSE 0) >= 2 =>
        stage[e] \in {"barrier1", "print", "barrier2", "exit"}
  BY <1>1 DEF PassedBarriers, Phase, Stages, Barriers
<1>9. PassedBarriers(e) + (IF stage[e] \in Barriers THEN 1 ELSE 0) >= 3 =>
        stage[e] \in {"barrier2", "exit"}
  BY <1>1 DEF PassedBarriers, Phase, Stages, Barriers
<1>10. PassedBarriers(c) <= PassedBarriers(e) + (IF stage[e] \in Barriers THEN 1 ELSE 0)
  BY <1>1, <1>2, <1>3
<1> QED
  BY <1>3, <1>4, <1>5, <1>6, <1>7, <1>8, <1>9, <1>10

\* When bins are added up, every id is that of a core that has counted its rows.
LEMMA AllCounted ==
  ASSUME GuestInv, PhasesInLockstep, ReaderInv, HistInv, NEW c \in Procs,
         stage[c] \in {"sum", "barrier1", "print", "barrier2", "exit"}
  PROVE  /\ \A k \in 0 .. NumProcs - 1 :
              /\ \E e \in Procs : Served(e) /\ my_id[e] = k
              /\ \A b \in Bins : hist[k][b] = Tally(First(k), First(k + 1), b)
<1>1. \A e \in Procs : Served(e) /\ OwnRows(e, my_end[e])
  BY OthersThere DEF Served, HistInv, CoreHist
<1>2. next_id = NumProcs
  <2>1. {e \in Procs : Identified(e)} = Procs
    BY <1>1 DEF Identified
  <2> QED
    BY <2>1, ProcsAssumption DEF ReaderInv, IdsGiven
<1>3. ASSUME NEW k \in 0 .. NumProcs - 1
      PROVE  /\ \E e \in Procs : Served(e) /\ my_id[e] = k
             /\ \A b \in Bins : hist[k][b] = Tally(First(k), First(k + 1), b)
  <2>1. PICK e \in Procs : my_id[e] = k
    BY <1>2 DEF ReaderInv, IdsGiven
  <2>2. my_start[e] = First(k) /\ my_end[e] = First(k + 1)
    BY <1>1, <2>1, ServedKnows
  <2> QED
    BY <1>1, <2>1, <2>2 DEF OwnRows
<1> QED
  BY <1>3

-----------------------------------------------------------------------------
(* What a step of one core does to the histograms of the others: nothing.   *)

Unmoved(e) ==
  /\ stage'[e] = stage[e] /\ line'[e] = line[e] /\ i'[e] = i[e] /\ j'[e] = j[e]
  /\ my_id'[e] = my_id[e] /\ my_start'[e] = my_start[e] /\ my_end'[e] = my_end[e]

\* A core's histogram stays right if its rows, its bins and its line of the
\* output are left alone.
LEMMA HistStays ==
  ASSUME NEW e \in Procs, CoreHist(e), Unmoved(e), header' = header,
         Served(e) => \A b \in Bins :
                        /\ hist'[my_id[e]][b] = hist[my_id[e]][b]
                        /\ b % NumProcs = my_id[e] => hist'[NumProcs][b] = hist[NumProcs][b],
         Served(e) /\ my_id[e] = 1 => Len(printed') = Len(printed)
  PROVE  CoreHist(e)'
<1> USE DEF Unmoved
<1>1. /\ \A lo, hi, b : Tally(lo, hi, b)' = Tally(lo, hi, b)
      /\ \A b : CountOf(b)' = CountOf(b)
      /\ Bins' = Bins
      /\ \A k : First(k)' = First(k)
  BY TallyStays
<1>2. Tally(0, First(j[e]), i[e])' = Tally(0, First(j[e]), i[e])
  <2>1. First(j[e])' = First(j[e])
    BY DEF First
  <2> QED
    BY <2>1 DEF Tally, PixelsIn
<1>3. CASE ~Served(e)
  BY <1>3 DEF CoreHist, Served, At, Barriers
<1>4. CASE Served(e)
  <2>1. /\ OwnRows(e, i[e]) => OwnRows(e, i[e])'
        /\ OwnRows(e, my_end[e]) => OwnRows(e, my_end[e])'
    <3>1. ASSUME NEW b \in Bins
          PROVE  /\ Tally(my_start[e], i[e], b)' = Tally(my_start[e], i[e], b)
                 /\ Tally(my_start[e], my_end[e], b)' = Tally(my_start[e], my_end[e], b)
      BY DEF Tally, PixelsIn
    <3> QED
      BY <1>1, <1>4, <3>1 DEF OwnRows
  <2>2. /\ OwnBins(e, i[e]) => OwnBins(e, i[e])'
        /\ OwnBins(e, header.max + 1) => OwnBins(e, header.max + 1)'
    BY <1>1, <1>4 DEF OwnBins
  <2>3. At(e, "sum", "add") => hist'[NumProcs][i[e]] = hist[NumProcs][i[e]]
    BY <1>4 DEF CoreHist, At
  <2>4. /\ stage[e] \in {"barrier2", "exit"} => Len(printed') = Len(printed) \/ my_id[e] # 1
        /\ At(e, "print", "leave") => Len(printed') = Len(printed) \/ my_id[e] # 1
    BY <1>4
  <2>5. stage[e] = "sum" => i[e] % NumProcs = my_id[e] /\ i'[e] \in Nat
    BY DEF CoreHist
  <2> QED
    BY <1>1, <1>2, <2>1, <2>2, <2>3, <2>4, <2>5 DEF CoreHist, At
<1> QED
  BY <1>3, <1>4

\* A step that counts and prints nothing only has to be right for its core.
LEMMA HistQuietKeeps ==
  ASSUME HistInv, NEW c \in Procs, CoreHist(c)', \A e \in Procs \ {c} : Unmoved(e),
         hist' = hist, printed' = printed, header' = header, j' \in [Procs -> Int]
  PROVE  HistInv'
<1>1. HistTypes'
  BY DEF HistInv, HistTypes
<1>2. \A e \in Procs \ {c} : CoreHist(e)'
  BY HistStays DEF HistInv
<1>3. PrintedFits'
  BY TallyStays DEF HistInv, PrintedFits
<1> QED
  BY <1>1, <1>2, <1>3 DEF HistInv

\* As long as a core's rows and bins are as they were, so is what is right of them.
LEMMA OwnStays ==
  ASSUME NEW c \in Procs, hist' = hist, header' = header, my_id'[c] = my_id[c],
         my_start'[c] = my_start[c], my_end'[c] = my_end[c]
  PROVE  /\ OwnRows(c, my_end[c]) => OwnRows(c, my_end[c])'
         /\ \A n : OwnBins(c, n)' <=> OwnBins(c, n)
         /\ \A n : OwnRows(c, n)' <=> OwnRows(c, n)
<1>1. ASSUME NEW n, NEW b
      PROVE  Tally(my_start[c], n, b)' = Tally(my_start[c], n, b)
  BY DEF Tally, PixelsIn
<1>2. ASSUME NEW b
      PROVE  Tally(my_start[c], my_end[c], b)' = Tally(my_start[c], my_end[c], b)
  BY DEF Tally, PixelsIn
<1> QED
  BY <1>1, <1>2, TallyStays DEF OwnRows, OwnBins

\* Entering or leaving a section, and counting oneself in, leave the histograms
\* right: a core that has read its rows starts with the first of them, and one
\* that has printed has printed everything.
LEMMA SectionsKeepHist ==
  ASSUME GuestInv, ReaderInv, HistInv, NEW c \in Procs,
         EnterSection(c) \/ InsideMacro(c) \/ LeaveSection(c) \/ LoadBarrier(c) \/ CountIn(c)
  PROVE  HistInv'
<1>0. GuestTypes /\ CoreHist(c) /\ HistTypes
  BY DEF GuestInv, HistInv
<1>1. UNCHANGED <<header, my_id, my_start, my_end, i, j, hist, printed>>
  BY DEF EnterSection, InsideMacro, LeaveSection, LoadBarrier, CountIn, locals, data
<1>2. \A e \in Procs \ {c} : Unmoved(e)
  <2>1. CASE InsideMacro(c)
    BY <1>1, <2>1 DEF InsideMacro, control, Unmoved
  <2>2. CASE ~InsideMacro(c)
    BY <1>1, <2>2, EnterKeeps, LeaveKeeps, LoadKeeps, CountInCounts DEF Untouched, Unmoved
  <2> QED
    BY <2>1, <2>2
<1>3. CoreHist(c)'
  <2>0. /\ OwnRows(c, my_end[c]) => OwnRows(c, my_end[c])'
        /\ OwnBins(c, header.max + 1) => OwnBins(c, header.max + 1)'
    <3>1. PICK n : n = header.max + 1
      OBVIOUS
    <3> QED
      BY <1>1, <3>1, OwnStays DEF OwnBins
  <2>1. CASE InsideMacro(c)
    <3>1. stage' = stage /\ line' = line /\ line[c] = "begin"
      BY <2>1, MacroKeeps
    <3>2. stage[c] # "sum"
      BY <3>1 DEF GuestInv, LineFits, Inside, Outside, Barriers
    <3> QED
      BY <1>0, <1>1, <2>0, <3>1, <3>2 DEF CoreHist, At
  <2>2. CASE EnterSection(c)
    <3>1. stage[c] \in Barriers \cup {"read", "print"} /\ GoTo(c, stage[c], "begin")
      BY <1>0, <2>2, LineStep DEF EnterSection
    <3>2. stage'[c] = stage[c] /\ line'[c] = "begin"
      BY <1>0, <3>1 DEF GoTo, GuestTypes
    <3> QED
      BY <1>0, <1>1, <2>0, <3>1, <3>2 DEF CoreHist, At, Barriers
  <2>3. CASE LoadBarrier(c) \/ CountIn(c)
    <3>1. stage[c] \in Barriers /\ stage'[c] = stage[c]
      BY <2>3 DEF LoadBarrier, CountIn, Line
    <3> QED
      BY <1>0, <1>1, <2>0, <3>1 DEF CoreHist, At, Barriers
  <2>4. CASE LeaveSection(c)
    <3>1. line[c] = "leave"
      BY <2>4 DEF LeaveSection
    <3>2. CASE stage[c] = "read" /\ GoTo(c, "partial", "zero")
      <4>1. stage'[c] = "partial" /\ line'[c] = "zero"
        BY <1>0, <3>2 DEF GoTo, GuestTypes
      <4> QED
        BY <1>0, <1>1, <3>1, <3>2, <4>1 DEF CoreHist, At, Barriers
    <3>3. CASE stage[c] = "print" /\ GoTo(c, "barrier2", "call")
      <4>1. stage'[c] = "barrier2" /\ line'[c] = "call"
        BY <1>0, <3>3 DEF GoTo, GuestTypes
      <4> QED
        BY <1>0, <1>1, <2>0, <3>1, <3>3, <4>1 DEF CoreHist, At, Barriers
    <3>4. CASE stage[c] \in Barriers /\ GoTo(c, stage[c], "wait")
      <4>1. stage'[c] = stage[c] /\ line'[c] = "wait"
        BY <1>0, <3>4 DEF GoTo, GuestTypes
      <4> QED
        BY <1>0, <1>1, <2>0, <3>4, <4>1 DEF CoreHist, At, Barriers
    <3> QED
      BY <2>4, <3>2, <3>3, <3>4 DEF LeaveSection
  <2> QED
    BY <2>1, <2>2, <2>3, <2>4
<1> QED
  BY <1>0, <1>1, <1>2, <1>3, HistQuietKeeps DEF HistTypes

\* A core that passes the first barrier starts with the bin that is its id.
LEMMA PassKeepsHist ==
  ASSUME GuestInv, ReaderInv, HistInv, NEW c \in Procs, PassBarrier(c)
  PROVE  HistInv'
<1>0. GuestTypes /\ CoreHist(c) /\ HistTypes /\ ReaderTypes
  BY DEF GuestInv, HistInv, ReaderInv
<1>1. /\ stage[c] \in Barriers /\ stage'[c] = Behind(stage[c]) /\ line'[c] = Entry(stage[c])
      /\ \A e \in Procs \ {c} : Untouched(e)
  BY PassPasses
<1>2. /\ UNCHANGED <<header, my_id, my_start, my_end, hist, printed>>
      /\ i' = [i EXCEPT ![c] = my_id[c]] /\ j' = [j EXCEPT ![c] = 0]
  BY DEF PassBarrier, data
<1>3. j' \in [Procs -> Int] /\ i'[c] = my_id[c] /\ \A e \in Procs \ {c} : i'[e] = i[e] /\ j'[e] = j[e]
  BY <1>0, <1>2 DEF HistTypes, ReaderTypes
<1>4. \A e \in Procs \ {c} : Unmoved(e)
  BY <1>1, <1>2, <1>3 DEF Untouched, Unmoved
<1>5. my_id[c] \in 0 .. NumProcs - 1 /\ NumProcs \in Nat \ {0}
  BY <1>1, CoresType, ServedKnows DEF Served
<1>6. /\ OwnRows(c, my_end[c])'
      /\ OwnBins(c, header.max + 1) => OwnBins(c, header.max + 1)'
  <2>1. PICK n : n = header.max + 1
    OBVIOUS
  <2> QED
    BY <1>0, <1>1, <1>2, <2>1, OwnStays DEF OwnBins, CoreHist
<1>7. my_id[c] \in Nat /\ my_id[c] % NumProcs = my_id[c] /\ OwnBins(c, my_id[c])
  <2>1. my_id[c] \in Nat /\ my_id[c] < NumProcs
    BY <1>5
  <2>2. ASSUME NEW b \in Bins, b % NumProcs = my_id[c], b < my_id[c] PROVE FALSE
    <3>1. b \in Nat /\ b < NumProcs
      BY <1>5, <2>2, ServedKnows DEF Bins
    <3>2. b % NumProcs = b
      BY <1>5, <3>1, BinsOfCore
    <3> QED
      BY <2>1, <2>2, <3>1, <3>2
  <2> QED
    BY <1>5, <2>1, <2>2, BinsOfCore DEF OwnBins
<1>8. OwnBins(c, i[c])' /\ i'[c] % NumProcs = my_id'[c]
  <2>1. PICK n : n = my_id[c]
    OBVIOUS
  <2>2. OwnBins(c, n)'
    BY <1>2, <1>7, <2>1, OwnStays
  <2> QED
    BY <1>2, <1>3, <1>7, <2>1, <2>2 DEF OwnBins
<1>9. CoreHist(c)'
  <2>1. CASE stage[c] = "barrier0"
    BY <1>1, <1>2, <1>3, <1>6, <1>7, <1>8, <2>1 DEF CoreHist, At, Barriers, Behind, Entry
  <2>2. CASE stage[c] = "barrier1"
    BY <1>0, <1>1, <1>2, <1>6, <2>2 DEF CoreHist, At, Barriers, Behind, Entry
  <2>3. CASE stage[c] = "barrier2"
    BY <1>0, <1>1, <1>2, <1>6, <2>3 DEF CoreHist, At, Barriers, Behind, Entry
  <2> QED
    BY <1>1, <2>1, <2>2, <2>3 DEF Barriers
<1> QED
  BY <1>2, <1>3, <1>4, <1>9, HistQuietKeeps

\* A turn at l1 counts nothing: it ends with the first row of the core.
LEMMA TurnKeepsHist ==
  ASSUME GuestInv, ReaderInv, HistInv, NEW c \in Procs, Turns(c)
  PROVE  HistInv'
<1>0. GuestTypes /\ HistTypes /\ ReaderTypes
  BY DEF GuestInv, HistInv, ReaderInv
<1>1. stage[c] = "read" /\ \A e \in Procs \ {c} : Untouched(e)
  BY TurnAlone
<1>2. UNCHANGED <<header, j, hist, printed>>
  BY DEF Turns, Identify, CountSelf, ReadHeader, HeaderOK, HeaderTooBig, TakeShare, ReadRow,
     RowsRead, locals, data
<1>3. \A e \in Procs \ {c} : /\ i'[e] = i[e] /\ my_id'[e] = my_id[e]
                             /\ my_start'[e] = my_start[e] /\ my_end'[e] = my_end[e]
  BY <1>0 DEF Turns, Identify, CountSelf, ReadHeader, HeaderOK, HeaderTooBig, TakeShare, ReadRow,
     RowsRead, locals, ReaderTypes
<1>4. \A e \in Procs \ {c} : Unmoved(e)
  BY <1>1, <1>2, <1>3 DEF Untouched, Unmoved
<1>5. /\ stage'[c] \in {"read", "exit_bad_header"}
      /\ stage'[c] = "read" /\ line'[c] = "leave" => i'[c] = my_start'[c]
  <2>1. CASE RowsRead(c)
    <3>1. GoTo(c, "read", "leave") /\ i' = [i EXCEPT ![c] = my_start[c]] /\ my_start' = my_start
      BY <1>0, <1>1, <2>1, LineStep DEF RowsRead
    <3> QED
      BY <1>0, <3>1 DEF GoTo, GuestTypes, ReaderTypes
  <2>2. CASE HeaderTooBig(c)
    BY <1>0, <2>2 DEF HeaderTooBig, GoTo, GuestTypes
  <2>3. CASE ReadRow(c)
    BY <1>1, <2>3 DEF ReadRow, control, At
  <2>4. CASE Identify(c) \/ CountSelf(c) \/ ReadHeader(c) \/ HeaderOK(c) \/ TakeShare(c)
    <3>1. \E l \in {"count", "header", "share", "check", "rows"} : GoTo(c, "read", l)
      BY <1>0, <1>1, <2>4, LineStep DEF Identify, CountSelf, ReadHeader, HeaderOK, TakeShare
    <3> QED
      BY <1>0, <3>1 DEF GoTo, GuestTypes
  <2> QED
    BY <2>1, <2>2, <2>3, <2>4 DEF Turns
<1>6. CoreHist(c)'
  BY <1>5 DEF CoreHist, At, Barriers
<1> QED
  BY <1>0, <1>2, <1>4, <1>6, HistQuietKeeps DEF HistTypes

-----------------------------------------------------------------------------
(* The steps that count, add up and print.                                  *)

\* Writing one partial histogram leaves the others as they are.
LEMMA WriteRow ==
  ASSUME HistTypes, NEW k \in 0 .. NumProcs, NEW new \in [BinIndex -> Nat],
         hist' = [hist EXCEPT ![k] = new]
  PROVE  /\ hist' \in [0 .. NumProcs -> [BinIndex -> Nat]]
         /\ hist'[k] = new
         /\ \A m \in 0 .. NumProcs : m # k => hist'[m] = hist[m]
BY DEF HistTypes

\* Served cores have ids of their own.
LEMMA OwnId ==
  ASSUME ReaderInv, NEW c \in Procs, NEW e \in Procs, Served(c), Served(e), my_id[c] = my_id[e]
  PROVE  c = e
BY DEF ReaderInv, IdsGiven, Identified

\* A step that writes to the partial histogram of its core only has to be right
\* for that core.
LEMMA PartialKeeps ==
  ASSUME GuestInv, ReaderInv, HistInv, NEW c \in Procs, Served(c),
         NEW new \in [BinIndex -> Nat], hist' = [hist EXCEPT ![my_id[c]] = new],
         CoreHist(c)', \A e \in Procs \ {c} : Unmoved(e),
         printed' = printed, header' = header, j' = j
  PROVE  HistInv'
<1>1. my_id[c] \in 0 .. NumProcs /\ my_id[c] # NumProcs /\ Bins \subseteq BinIndex
  BY ServedKnows, CoresType
<1>2. /\ hist' \in [0 .. NumProcs -> [BinIndex -> Nat]]
      /\ \A m \in 0 .. NumProcs : m # my_id[c] => hist'[m] = hist[m]
  BY <1>1, WriteRow DEF HistInv
<1>3. HistTypes'
  BY <1>2 DEF HistInv, HistTypes
<1>4. ASSUME NEW e \in Procs \ {c} PROVE CoreHist(e)'
  <2>1. Served(e) => my_id[e] \in 0 .. NumProcs /\ my_id[e] # my_id[c]
    BY OwnId, ServedKnows, CoresType
  <2>2. NumProcs \in 0 .. NumProcs
    BY CoresType
  <2> QED
    BY <1>1, <1>2, <2>1, <2>2, HistStays DEF HistInv
<1>5. PrintedFits'
  BY TallyStays DEF HistInv, PrintedFits
<1> QED
  BY <1>3, <1>4, <1>5 DEF HistInv

\* Before the first row there is nothing in a core's bins.
LEMMA ZeroPartialKeepsHist ==
  ASSUME GuestInv, ReaderInv, HistInv, NEW c \in Procs, ZeroPartial(c)
  PROVE  HistInv'
<1> DEFINE new == [b \in BinIndex |-> IF b < d THEN 0 ELSE hist[my_id[c]][b]]
<1>0. GuestTypes /\ CoreHist(c) /\ HistTypes /\ ReaderTypes
  BY DEF GuestInv, HistInv, ReaderInv
<1>1. /\ stage[c] = "partial" /\ line[c] = "zero" /\ GoTo(c, "partial", "loop")
      /\ hist' = [hist EXCEPT ![my_id[c]] = [b \in BinIndex |-> IF b < d THEN 0 ELSE @[b]]]
      /\ UNCHANGED <<header, my_id, my_start, my_end, i, j, printed>>
      /\ \A e \in Procs \ {c} : Untouched(e)
  BY <1>0, LineStep, MainSteps, MoveKeeps DEF ZeroPartial, locals
<1>2. hist' = [hist EXCEPT ![my_id[c]] = new]
  BY <1>1
<1>3. Served(c)
  BY <1>1 DEF Served
<1>4. /\ my_id[c] \in 0 .. NumProcs /\ Bins \subseteq BinIndex /\ d = header.max + 1
      /\ header.max \in Nat /\ my_start[c] \in Nat /\ my_end[c] \in Nat /\ my_start[c] <= my_end[c]
  BY <1>3, ServedKnows, CoresType
<1>5. new \in [BinIndex -> Nat]
  BY <1>0, <1>4 DEF HistTypes
<1>6. hist'[my_id[c]] = new
  <2> HIDE DEF new
  <2> QED
    BY <1>0, <1>2, <1>4, <1>5, WriteRow
<1>7. stage'[c] = "partial" /\ line'[c] = "loop" /\ i[c] = my_start[c]
  BY <1>0, <1>1 DEF GoTo, GuestTypes, CoreHist, At
<1>8. ASSUME NEW b \in Bins PROVE hist'[my_id[c]][b] = Tally(my_start[c], my_start[c], b)
  <2>1. b < d /\ b \in BinIndex
    BY <1>4 DEF Bins
  <2>2. Tally(my_start[c], my_start[c], b) = 0
    BY <1>4, TallyEmpty
  <2> QED
    BY <1>6, <2>1, <2>2
<1>9. OwnRows(c, i[c])'
  <2>1. Bins' = Bins
    BY <1>1, TallyStays
  <2>2. ASSUME NEW b PROVE Tally(my_start[c], i[c], b)' = Tally(my_start[c], my_start[c], b)
    BY <1>1, <1>7 DEF Tally, PixelsIn
  <2> QED
    BY <1>1, <1>8, <2>1, <2>2 DEF OwnRows
<1>10. CoreHist(c)'
  BY <1>1, <1>4, <1>7, <1>9 DEF CoreHist, At, Barriers
<1>11. \A e \in Procs \ {c} : Unmoved(e)
  BY <1>1 DEF Untouched, Unmoved
<1> HIDE DEF new
<1> QED
  BY <1>1, <1>2, <1>3, <1>5, <1>10, <1>11, PartialKeeps

\* A row adds its pixels to the bins they fall in.
LEMMA CountRowKeepsHist ==
  ASSUME GuestInv, ReaderInv, HistInv, NEW c \in Procs, CountRow(c)
  PROVE  HistInv'
<1> DEFINE r == i[c]
           Cols(b) == {col \in 0 .. w - 1 : Saturate(PixelOf(r, col), d - 1) = b}
           new == [b \in BinIndex |-> hist[my_id[c]][b] + Cardinality(Cols(b))]
<1>0. GuestTypes /\ CoreHist(c) /\ HistTypes /\ ReaderTypes
  BY DEF GuestInv, HistInv, ReaderInv
<1>1. /\ stage[c] = "partial" /\ line[c] = "loop" /\ i[c] < my_end[c]
      /\ hist' = [hist EXCEPT ![my_id[c]] =
           [b \in BinIndex |->
              @[b] + Cardinality({col \in 0 .. w - 1 : Saturate(PixelOf(i[c], col), d - 1) = b})]]
      /\ i' = [i EXCEPT ![c] = @ + 1]
      /\ UNCHANGED <<header, stage, line, my_id, my_start, my_end, j, printed>>
  BY DEF CountRow, At, control
<1>2. hist' = [hist EXCEPT ![my_id[c]] = new]
  BY <1>1
<1>3. Served(c)
  BY <1>1 DEF Served
<1>4. /\ my_id[c] \in 0 .. NumProcs /\ Bins \subseteq BinIndex /\ d = header.max + 1 /\ w = header.w
      /\ header.max \in Nat /\ my_start[c] \in Nat /\ my_end[c] \in Nat
  BY <1>3, ServedKnows, CoresType
<1>5. r \in Int /\ my_start[c] <= r /\ r < my_end[c] /\ OwnRows(c, r)
  BY <1>0, <1>1, <1>4 DEF CoreHist, At
<1>6. ASSUME NEW b PROVE Cardinality(Cols(b)) = Tally(r, r + 1, b) /\ Tally(r, r + 1, b) \in Nat
  <2>1. img[r] = r /\ r # Unread
    BY <1>3, <1>5, RowsThere
  <2>2. ASSUME NEW col PROVE PixelOf(r, col) = Image[r][col]
    BY <2>1 DEF PixelOf
  <2>3. d - 1 = header.max
    BY <1>4
  <2>4. Cols(b) = {col \in 0 .. header.w - 1 : Saturate(Image[r][col], header.max) = b}
    BY <1>4, <2>2, <2>3, Zenon
  <2>5. r + 1 \in Int
    BY <1>5
  <2> HIDE DEF Cols, r
  <2> QED
    BY <1>0, <1>5, <2>4, <2>5, TallyRow, TallyType
<1>7. new \in [BinIndex -> Nat]
  <2> HIDE DEF Cols, r
  <2>1. \A b : Cardinality(Cols(b)) \in Nat
    BY <1>6
  <2>2. \A b \in BinIndex : hist[my_id[c]][b] \in Nat
    BY <1>0, <1>4 DEF HistTypes
  <2> QED
    BY <2>1, <2>2
<1>8. hist'[my_id[c]] = new
  <2> HIDE DEF new
  <2> QED
    BY <1>0, <1>2, <1>4, <1>7, WriteRow
<1>9. i'[c] = r + 1 /\ \A e \in Procs \ {c} : i'[e] = i[e]
  BY <1>0, <1>1 DEF ReaderTypes
<1>10. ASSUME NEW b \in Bins PROVE hist'[my_id[c]][b] = Tally(my_start[c], r + 1, b)
  <2> HIDE DEF Cols, r
  <2>1. hist'[my_id[c]][b] = hist[my_id[c]][b] + Tally(r, r + 1, b)
    BY <1>4, <1>6, <1>8
  <2>2. hist[my_id[c]][b] = Tally(my_start[c], r, b)
    BY <1>5 DEF OwnRows
  <2>3. r + 1 \in Int /\ r <= r + 1 /\ my_start[c] \in Int
    BY <1>4, <1>5
  <2>4. Tally(my_start[c], r + 1, b) = Tally(my_start[c], r, b) + Tally(r, r + 1, b)
    BY <1>0, <1>5, <2>3, TallySplit
  <2> QED
    BY <2>1, <2>2, <2>4
<1> HIDE DEF new, Cols, r
<1>11. OwnRows(c, i[c])'
  <2>1. Bins' = Bins
    BY <1>1, TallyStays
  <2>2. ASSUME NEW b PROVE Tally(my_start[c], i[c], b)' = Tally(my_start[c], r + 1, b)
    BY <1>1, <1>9 DEF Tally, PixelsIn
  <2> QED
    BY <1>1, <1>10, <2>1, <2>2 DEF OwnRows
<1>12. CoreHist(c)'
  <2>1. i'[c] \in my_start[c] .. my_end[c]
    BY <1>4, <1>5, <1>9
  <2> QED
    BY <1>1, <1>11, <2>1 DEF CoreHist, At, Barriers
<1>13. \A e \in Procs \ {c} : Unmoved(e)
  BY <1>1, <1>9 DEF Unmoved
<1> QED
  BY <1>1, <1>2, <1>3, <1>7, <1>12, <1>13, PartialKeeps

\* A core has counted its rows, or added up its bins, or printed.
LEMMA DoneKeepsHist ==
  ASSUME GuestInv, ReaderInv, HistInv, NEW c \in Procs,
         RowsCounted(c) \/ BinsDone(c) \/ PrintDone(c)
  PROVE  HistInv'
<1>0. GuestTypes /\ CoreHist(c) /\ HistTypes /\ ReaderTypes
  BY DEF GuestInv, HistInv, ReaderInv
<1>1. /\ UNCHANGED <<header, my_id, my_start, my_end, i, j, hist, printed>>
      /\ \A e \in Procs \ {c} : Untouched(e)
  BY MainSteps, MoveKeeps DEF RowsCounted, BinsDone, PrintDone, locals, data
<1>2. \A e \in Procs \ {c} : Unmoved(e)
  BY <1>1 DEF Untouched, Unmoved
<1>3. Served(c)
  BY DEF RowsCounted, BinsDone, PrintDone, At, Served
<1>4. /\ d = header.max + 1 /\ header.max \in Nat /\ my_start[c] \in Nat /\ my_end[c] \in Nat
  BY <1>3, ServedKnows
<1>5. /\ OwnRows(c, my_end[c]) => OwnRows(c, my_end[c])'
      /\ OwnBins(c, header.max + 1) => OwnBins(c, header.max + 1)'
  <2>1. PICK n : n = header.max + 1
    OBVIOUS
  <2> QED
    BY <1>1, <2>1, OwnStays DEF OwnBins
<1>6. CoreHist(c)'
  <2>1. CASE RowsCounted(c)
    <3>1. stage[c] = "partial" /\ line[c] = "loop" /\ i[c] >= my_end[c] /\ GoTo(c, "barrier0", "call")
      BY <2>1 DEF RowsCounted, At
    <3>2. i[c] = my_end[c] /\ OwnRows(c, i[c])
      BY <1>0, <1>4, <3>1 DEF CoreHist, At
    <3>3. stage'[c] = "barrier0" /\ line'[c] = "call"
      BY <1>0, <3>1 DEF GoTo, GuestTypes
    <3> QED
      BY <1>1, <1>5, <3>2, <3>3 DEF CoreHist, At, Barriers
  <2>2. CASE BinsDone(c)
    <3>1. stage[c] = "sum" /\ i[c] >= d /\ GoTo(c, "barrier1", "call")
      BY <2>2 DEF BinsDone, At
    <3>2. OwnBins(c, header.max + 1)
      <4>1. i[c] \in Nat /\ OwnBins(c, i[c])
        BY <1>0, <3>1 DEF CoreHist
      <4>2. ASSUME NEW b \in Bins PROVE b < i[c]
        BY <1>4, <3>1, <4>1 DEF Bins
      <4> QED
        BY <4>1, <4>2 DEF OwnBins
    <3>3. OwnRows(c, my_end[c])
      BY <1>0, <3>1 DEF CoreHist
    <3>4. stage'[c] = "barrier1" /\ line'[c] = "call"
      BY <1>0, <3>1 DEF GoTo, GuestTypes
    <3> QED
      BY <1>1, <1>5, <3>2, <3>3, <3>4 DEF CoreHist, At, Barriers
  <2>3. CASE PrintDone(c)
    <3>1. stage[c] = "print" /\ (my_id[c] # 1 \/ Len(printed) >= d) /\ GoTo(c, "print", "leave")
      BY <1>0, <2>3, LineStep DEF PrintDone
    <3>2. my_id[c] = 1 => Len(printed) = header.max + 1
      <4>1. Len(printed) \in Nat /\ Len(printed) <= header.max + 1
        BY <1>0 DEF HistTypes, HistInv, PrintedFits
      <4> QED
        BY <1>4, <3>1, <4>1
    <3>3. OwnRows(c, my_end[c]) /\ OwnBins(c, header.max + 1)
      BY <1>0, <3>1 DEF CoreHist
    <3>4. stage'[c] = "print" /\ line'[c] = "leave"
      BY <1>0, <3>1 DEF GoTo, GuestTypes
    <3> QED
      BY <1>1, <1>5, <3>2, <3>3, <3>4 DEF CoreHist, At, Barriers
  <2> QED
    BY <2>1, <2>2, <2>3
<1> QED
  BY <1>0, <1>1, <1>2, <1>6, HistQuietKeeps DEF HistTypes

\* A core that adds up writes to a bin of its own: only that bin has to be right.
LEMMA BinKeeps ==
  ASSUME GuestInv, ReaderInv, HistInv, NEW c \in Procs, stage[c] = "sum", i[c] \in Bins,
         NEW x \in Nat, hist' = [hist EXCEPT ![NumProcs][i[c]] = x],
         NEW n \in 0 .. NumProcs, j' = [j EXCEPT ![c] = n], x = Tally(0, First(n), i[c]),
         stage' = stage, line'[c] = "add",
         \A e \in Procs \ {c} : line'[e] = line[e],
         UNCHANGED <<header, my_id, my_start, my_end, i, printed>>
  PROVE  HistInv'
<1>0. CoreHist(c) /\ HistTypes
  BY DEF HistInv
<1>1. Served(c)
  BY DEF Served
<1>2. /\ my_id[c] \in 0 .. NumProcs - 1 /\ Bins \subseteq BinIndex /\ NumProcs \in Nat
      /\ header.max \in Nat
  BY <1>1, ServedKnows, CoresType
<1>3. NumProcs \in 0 .. NumProcs /\ i[c] \in BinIndex
  BY <1>2
<1>4. /\ hist' \in [0 .. NumProcs -> [BinIndex -> Nat]]
      /\ hist'[NumProcs][i[c]] = x
      /\ \A m \in 0 .. NumProcs, a \in BinIndex : m # NumProcs \/ a # i[c] => hist'[m][a] = hist[m][a]
  BY <1>0, <1>3 DEF HistTypes
<1>5. j' \in [Procs -> Int] /\ j'[c] = n /\ \A e \in Procs \ {c} : j'[e] = j[e]
  BY <1>0 DEF HistTypes
<1>6. HistTypes'
  BY <1>0, <1>4, <1>5 DEF HistTypes
<1>7. i[c] \in Nat /\ i[c] % NumProcs = my_id[c] /\ OwnBins(c, i[c]) /\ OwnRows(c, my_end[c])
  BY <1>0 DEF CoreHist
<1>8. ASSUME NEW e \in Procs \ {c} PROVE CoreHist(e)'
  <2>1. Unmoved(e)
    BY <1>5 DEF Unmoved
  <2>2. Served(e) => my_id[e] \in 0 .. NumProcs /\ my_id[e] # NumProcs /\ my_id[e] # my_id[c]
    BY <1>1, OwnId, ServedKnows, CoresType
  <2>3. Served(e) => \A b \in Bins :
          /\ hist'[my_id[e]][b] = hist[my_id[e]][b]
          /\ b % NumProcs = my_id[e] => hist'[NumProcs][b] = hist[NumProcs][b]
    BY <1>2, <1>3, <1>4, <1>7, <2>2
  <2> QED
    BY <2>1, <2>3, HistStays DEF HistInv
<1>9. CoreHist(c)'
  <2>1. /\ \A lo, hi, b : Tally(lo, hi, b)' = Tally(lo, hi, b)
        /\ \A b : CountOf(b)' = CountOf(b)
        /\ Bins' = Bins
        /\ \A k : First(k)' = First(k)
    BY TallyStays
  <2>2. OwnRows(c, my_end[c])'
    <3>1. ASSUME NEW b \in Bins PROVE hist'[my_id[c]][b] = hist[my_id[c]][b]
      BY <1>2, <1>4
    <3>2. ASSUME NEW b PROVE Tally(my_start[c], my_end[c], b)' = Tally(my_start[c], my_end[c], b)
      BY DEF Tally, PixelsIn
    <3> QED
      BY <1>7, <2>1, <3>1, <3>2 DEF OwnRows
  <2>3. OwnBins(c, i[c])'
    <3>1. ASSUME NEW b \in Bins, b < i[c] PROVE hist'[NumProcs][b] = hist[NumProcs][b]
      <4>1. b # i[c] /\ b \in BinIndex
        BY <1>2, <1>7, <3>1
      <4> QED
        BY <1>3, <1>4, <4>1
    <3> QED
      BY <1>7, <2>1, <3>1 DEF OwnBins
  <2>4. Tally(0, First(j[c]), i[c])' = Tally(0, First(n), i[c])
    <3>1. First(j[c])' = First(n)
      BY <1>5 DEF First
    <3> QED
      BY <3>1 DEF Tally, PixelsIn
  <2>5. stage'[c] = "sum" /\ line'[c] = "add" /\ i'[c] = i[c] /\ my_id'[c] = my_id[c]
    OBVIOUS
  <2> QED
    BY <1>4, <1>5, <1>7, <2>1, <2>2, <2>3, <2>4, <2>5 DEF CoreHist, At, Barriers
<1>10. PrintedFits'
  BY TallyStays DEF HistInv, PrintedFits
<1> QED
  BY <1>6, <1>8, <1>9, <1>10 DEF HistInv

\* A bin starts from 0.
LEMMA ZeroBinKeepsHist ==
  ASSUME GuestInv, ReaderInv, HistInv, NEW c \in Procs, ZeroBin(c)
  PROVE  HistInv'
<1>0. GuestTypes /\ CoreHist(c) /\ ReaderTypes
  BY DEF GuestInv, HistInv, ReaderInv
<1>1. /\ stage[c] = "sum" /\ i[c] < d /\ line' = [line EXCEPT ![c] = "add"] /\ stage' = stage
      /\ hist' = [hist EXCEPT ![NumProcs][i[c]] = 0]
      /\ j' = [j EXCEPT ![c] = 0]
      /\ UNCHANGED <<header, my_id, my_start, my_end, i, printed>>
  BY DEF ZeroBin, Line
<1>2. d = header.max + 1 /\ header.max \in Nat
  BY <1>1, ServedKnows DEF Served
<1>3. i[c] \in Bins
  BY <1>0, <1>1, <1>2 DEF CoreHist, Bins
<1>4. 0 = Tally(0, First(0), i[c]) /\ 0 \in 0 .. NumProcs
  <2>1. First(0) = 0
    BY <1>0, Shares
  <2> QED
    BY <2>1, TallyEmpty, CoresType
<1>5. line'[c] = "add" /\ \A e \in Procs \ {c} : line'[e] = line[e]
  BY <1>0, <1>1 DEF GuestTypes
<1> QED
  BY <1>1, <1>3, <1>4, <1>5, BinKeeps

\* The partial histograms add up in the order of the rows they count.
LEMMA AddPartialKeepsHist ==
  ASSUME GuestInv, PhasesInLockstep, ReaderInv, HistInv, NEW c \in Procs, AddPartial(c)
  PROVE  HistInv'
<1>0. GuestTypes /\ CoreHist(c) /\ HistTypes /\ ReaderTypes
  BY DEF GuestInv, HistInv, ReaderInv
<1>1. /\ stage[c] = "sum" /\ line[c] = "add" /\ j[c] < NumProcs
      /\ hist' = [hist EXCEPT ![NumProcs][i[c]] = @ + hist[j[c]][i[c]]]
      /\ j' = [j EXCEPT ![c] = @ + 1]
      /\ UNCHANGED <<header, stage, line, my_id, my_start, my_end, i, printed>>
  BY DEF AddPartial, At, control
<1>2. /\ i[c] \in Bins /\ j[c] \in 0 .. NumProcs
      /\ hist[NumProcs][i[c]] = Tally(0, First(j[c]), i[c])
  BY <1>0, <1>1 DEF CoreHist, At
<1>3. j[c] \in 0 .. NumProcs - 1 /\ j[c] \in Nat /\ j[c] + 1 \in 0 .. NumProcs
  BY <1>1, <1>2, CoresType
<1>4. hist[j[c]][i[c]] = Tally(First(j[c]), First(j[c] + 1), i[c])
  BY <1>1, <1>2, <1>3, AllCounted
<1>5. First(0) = 0 /\ First(j[c]) \in Nat /\ First(j[c] + 1) \in Nat /\ First(j[c]) <= First(j[c] + 1)
  BY <1>0, <1>3, Shares, SMTT(30)
<1>6. /\ Tally(0, First(j[c] + 1), i[c])
           = Tally(0, First(j[c]), i[c]) + Tally(First(j[c]), First(j[c] + 1), i[c])
      /\ Tally(0, First(j[c] + 1), i[c]) \in Nat
  BY <1>0, <1>5, TallySplit, TallyType
<1>7. hist' = [hist EXCEPT ![NumProcs][i[c]] = Tally(0, First(j[c] + 1), i[c])]
  <2>1. hist[NumProcs][i[c]] + hist[j[c]][i[c]] = Tally(0, First(j[c] + 1), i[c])
    BY <1>2, <1>4, <1>6
  <2>2. hist' = [hist EXCEPT ![NumProcs][i[c]] = hist[NumProcs][i[c]] + hist[j[c]][i[c]]]
    <3>1. NumProcs \in 0 .. NumProcs /\ i[c] \in BinIndex
      BY <1>1, <1>2, CoresType, ServedKnows DEF Served
    <3> QED
      BY <1>0, <1>1, <3>1 DEF HistTypes
  <2> QED
    BY <2>1, <2>2
<1>8. j' = [j EXCEPT ![c] = j[c] + 1]
  BY <1>1
<1>9. line'[c] = "add" /\ \A e \in Procs \ {c} : line'[e] = line[e]
  BY <1>1
<1> QED
  BY <1>1, <1>2, <1>3, <1>6, <1>7, <1>8, <1>9, BinKeeps

\* A bin to which all partial histograms were added is right, and the next one
\* of this core comes after all bins that belong to others.
LEMMA NextBinKeepsHist ==
  ASSUME GuestInv, ReaderInv, HistInv, NEW c \in Procs, NextBin(c)
  PROVE  HistInv'
<1>0. GuestTypes /\ CoreHist(c) /\ HistTypes /\ ReaderTypes
  BY DEF GuestInv, HistInv, ReaderInv
<1>1. /\ stage[c] = "sum" /\ line[c] = "add" /\ GoTo(c, "sum", "bin") /\ j[c] >= NumProcs
      /\ i' = [i EXCEPT ![c] = @ + NumProcs]
      /\ UNCHANGED <<header, my_id, my_start, my_end, j, hist, printed>>
      /\ \A e \in Procs \ {c} : Untouched(e)
  BY <1>0, LineStep, MainSteps, MoveKeeps DEF NextBin, data
<1>2. /\ i[c] \in Bins /\ j[c] \in 0 .. NumProcs
      /\ hist[NumProcs][i[c]] = Tally(0, First(j[c]), i[c])
      /\ i[c] \in Nat /\ i[c] % NumProcs = my_id[c] /\ OwnBins(c, i[c]) /\ OwnRows(c, my_end[c])
  BY <1>0, <1>1 DEF CoreHist, At
<1>3. NumProcs \in Nat \ {0}
  BY CoresType
<1>4. hist[NumProcs][i[c]] = CountOf(i[c])
  <2>1. j[c] = NumProcs
    <3>1. j[c] \in 0 .. NumProcs /\ j[c] >= NumProcs
      BY <1>1, <1>2
    <3> QED
      BY <1>3, <3>1
  <2>2. First(NumProcs) = header.h
    BY <1>0, Shares
  <2> QED
    BY <1>2, <2>1, <2>2, TallyAll
<1>5. OwnBins(c, i[c] + NumProcs)
  <2> SUFFICES ASSUME NEW b \in Bins, b % NumProcs = my_id[c], b < i[c] + NumProcs
               PROVE  hist[NumProcs][b] = CountOf(b)
    BY DEF OwnBins
  <2>1. CASE b < i[c]
    BY <1>2, <2>1 DEF OwnBins
  <2>2. CASE ~(b < i[c])
    <3>1. b \in Nat
      BY <1>1, ServedKnows DEF Served, Bins
    <3>2. b = i[c]
      <4>1. i[c] <= b /\ b % NumProcs = i[c] % NumProcs /\ i[c] \in Nat
        BY <1>2, <2>2, <3>1
      <4> QED
        BY <1>3, <3>1, <4>1, BinsOfCore
    <3> QED
      BY <1>4, <3>2
  <2> QED
    BY <2>1, <2>2
<1>6. /\ i'[c] = i[c] + NumProcs /\ i'[c] \in Nat /\ i'[c] % NumProcs = my_id[c]
      /\ \A e \in Procs \ {c} : i'[e] = i[e]
  <2>1. i'[c] = i[c] + NumProcs /\ \A e \in Procs \ {c} : i'[e] = i[e]
    BY <1>0, <1>1 DEF ReaderTypes
  <2>2. i[c] \in Nat /\ i[c] % NumProcs = my_id[c]
    BY <1>2
  <2>3. i[c] + NumProcs \in Nat /\ (i[c] + NumProcs) % NumProcs = my_id[c]
    <3>1. (i[c] + NumProcs) % NumProcs = i[c] % NumProcs
      BY <1>3, <2>2, BinsOfCore, Zenon
    <3> QED
      BY <1>3, <2>2, <3>1
  <2> QED
    BY <2>1, <2>3
<1>7. OwnBins(c, i[c])' /\ OwnRows(c, my_end[c])'
  <2>1. PICK n : n = i[c] + NumProcs
    OBVIOUS
  <2>2. OwnBins(c, n)'
    BY <1>1, <1>5, <2>1, OwnStays
  <2> QED
    BY <1>1, <1>2, <1>6, <2>1, <2>2, OwnStays DEF OwnBins
<1>8. stage'[c] = "sum" /\ line'[c] = "bin"
  BY <1>0, <1>1 DEF GoTo, GuestTypes
<1>9. CoreHist(c)'
  BY <1>1, <1>6, <1>7, <1>8 DEF CoreHist, At, Barriers
<1>10. \A e \in Procs \ {c} : Unmoved(e)
  BY <1>1, <1>6 DEF Untouched, Unmoved
<1> QED
  BY <1>0, <1>1, <1>9, <1>10, HistQuietKeeps DEF HistTypes

\* Every bin is right when core 1 comes to print: some core has added it up.
LEMMA PrintBinKeepsHist ==
  ASSUME GuestInv, PhasesInLockstep, ReaderInv, HistInv, NEW c \in Procs, PrintBin(c)
  PROVE  HistInv'
<1> DEFINE k == Len(printed)
<1>0. GuestTypes /\ CoreHist(c) /\ HistTypes /\ ReaderTypes /\ PrintedFits
  BY DEF GuestInv, HistInv, ReaderInv
<1>1. /\ stage[c] = "print" /\ line[c] = "begin" /\ my_id[c] = 1 /\ k < d
      /\ printed' = Append(printed, hist[NumProcs][k])
      /\ UNCHANGED <<header, stage, line, my_id, my_start, my_end, i, j, hist>>
  BY DEF PrintBin, At, control, locals
<1>2. Served(c)
  BY <1>1 DEF Served
<1>3. d = header.max + 1 /\ header.max \in Nat /\ Bins \subseteq BinIndex
  BY <1>2, ServedKnows
<1>4. k \in Nat /\ k \in Bins /\ k < header.max + 1
  BY <1>0, <1>1, <1>3 DEF HistTypes, Bins
<1>5. hist[NumProcs][k] = CountOf(k) /\ hist[NumProcs][k] \in Nat
  <2>1. k % NumProcs \in 0 .. NumProcs - 1
    BY <1>4, CoresType, BinsOfCore
  <2>2. PICK e \in Procs : my_id[e] = k % NumProcs
    BY <1>1, <2>1, AllCounted
  <2>3. OwnBins(e, header.max + 1)
    BY <1>1, OthersThere DEF HistInv, CoreHist
  <2>4. NumProcs \in 0 .. NumProcs
    BY CoresType
  <2> QED
    BY <1>0, <1>3, <1>4, <2>2, <2>3, <2>4 DEF OwnBins, HistTypes
<1> HIDE DEF k
<1>6. /\ printed' \in Seq(Nat) /\ Len(printed') = k + 1
      /\ \A m \in 1 .. k : printed'[m] = printed[m]
      /\ printed'[k + 1] = hist[NumProcs][k]
  BY <1>0, <1>1, <1>5 DEF HistTypes, k
<1>7. HistTypes'
  BY <1>0, <1>1, <1>6 DEF HistTypes
<1>8. ASSUME NEW e \in Procs PROVE CoreHist(e)'
  <2>1. Unmoved(e) /\ CoreHist(e)
    BY <1>1 DEF Unmoved, HistInv
  <2>2. CASE e = c
    <3>1. CoreHist(c)'
      <4>1. /\ OwnRows(c, my_end[c])'
            /\ OwnBins(c, header.max + 1)'
        <5>1. PICK n : n = header.max + 1
          OBVIOUS
        <5>2. OwnRows(c, my_end[c]) /\ OwnBins(c, header.max + 1)
          BY <1>0, <1>1 DEF CoreHist
        <5> QED
          BY <1>1, <5>1, <5>2, OwnStays DEF OwnBins
      <4>2. stage'[c] = "print" /\ line'[c] = "begin"
        BY <1>1
      <4> QED
        BY <4>1, <4>2 DEF CoreHist, At, Barriers
    <3> QED
      BY <2>2, <3>1
  <2>3. CASE e # c
    <3>1. Served(e) => my_id[e] # 1
      BY <1>1, <1>2, <2>3, OwnId
    <3> QED
      BY <1>1, <2>1, <3>1, HistStays
  <2> QED
    BY <2>2, <2>3
<1>9. PrintedFits'
  <2>1. \A b : CountOf(b)' = CountOf(b)
    BY <1>1, TallyStays
  <2>2. DOMAIN printed = 1 .. k /\ DOMAIN printed' = 1 .. k + 1
    BY <1>0, <1>4, <1>6, <1>7 DEF HistTypes, k
  <2>3. ASSUME NEW m \in 1 .. k + 1 PROVE printed'[m] = CountOf(m - 1)
    <3>1. CASE m = k + 1
      <4>1. m - 1 = k
        BY <1>4, <3>1
      <4> QED
        BY <1>5, <1>6, <3>1, <4>1
    <3>2. CASE m # k + 1
      <4>1. m \in 1 .. k
        BY <1>4, <3>2
      <4> QED
        BY <1>0, <1>6, <2>2, <4>1 DEF PrintedFits
    <3> QED
      BY <3>1, <3>2
  <2>4. Len(printed') <= header.max + 1
    BY <1>3, <1>4, <1>6
  <2>5. \A m \in DOMAIN printed' : printed'[m] = CountOf(m - 1)'
    BY <2>1, <2>2, <2>3
  <2> QED
    BY <1>1, <2>4, <2>5 DEF PrintedFits
<1> QED
  BY <1>7, <1>8, <1>9 DEF HistInv

-----------------------------------------------------------------------------
\* In the first states nothing has been counted or printed.
LEMMA HistInvInit == Init => HistInv
<1> SUFFICES ASSUME Init PROVE HistInv
  OBVIOUS
<1>1. HistTypes
  BY DEF Init, HistTypes
<1>2. \A c \in Procs : CoreHist(c)
  BY DEF Init, CoreHist, At, Barriers
<1>3. PrintedFits
  <2>1. header.max \in Nat
    BY HeadersAssumption DEF Init
  <2> QED
    BY <2>1 DEF Init, PrintedFits
<1> QED
  BY <1>1, <1>2, <1>3 DEF HistInv

\* Every step leaves the histograms right.
LEMMA HistStep ==
  ASSUME GuestInv, PhasesInLockstep, ReaderInv, HistInv, [Next]_vars
  PROVE  HistInv'
<1>1. CASE UNCHANGED vars
  <2>1. UNCHANGED <<header, stage, line, my_id, my_start, my_end, i, j, hist, printed>>
    BY <1>1 DEF vars, control, locals, data
  <2>2. PICK c \in Procs : TRUE
    BY CoresType, ProcsAssumption, FS_EmptySet
  <2>3. \A e \in Procs : Unmoved(e)
    BY <2>1 DEF Unmoved
  <2>4. CoreHist(c)'
    BY <2>1, <2>3, HistStays DEF HistInv
  <2> QED
    BY <2>1, <2>3, <2>4, HistQuietKeeps DEF HistInv, HistTypes
<1>2. ASSUME NEW c \in Procs, Step(c) PROVE HistInv'
  <2>1. CASE EnterSection(c) \/ InsideMacro(c) \/ LeaveSection(c) \/ LoadBarrier(c) \/ CountIn(c)
    BY <2>1, SectionsKeepHist
  <2>2. CASE PassBarrier(c)
    BY <2>2, PassKeepsHist
  <2>3. CASE Turns(c)
    BY <2>3, TurnKeepsHist
  <2>4. CASE ZeroPartial(c) \/ CountRow(c)
    BY <2>4, ZeroPartialKeepsHist, CountRowKeepsHist
  <2>5. CASE RowsCounted(c) \/ BinsDone(c) \/ PrintDone(c)
    BY <2>5, DoneKeepsHist
  <2>6. CASE ZeroBin(c) \/ AddPartial(c) \/ NextBin(c)
    BY <2>6, ZeroBinKeepsHist, AddPartialKeepsHist, NextBinKeepsHist
  <2>7. CASE PrintBin(c)
    BY <2>7, PrintBinKeepsHist
  <2> QED
    BY <1>2, <2>1, <2>2, <2>3, <2>4, <2>5, <2>6, <2>7 DEF Step, Turns
<1> QED
  BY <1>1, <1>2 DEF Next

\* When a core has stopped after the last barrier, the core with id 1 has
\* printed every bin.
LEMMA AllPrinted ==
  ASSUME GuestInv, PhasesInLockstep, ReaderInv, HistInv
  PROVE  PrintedIsHistogram
<1>1. ASSUME NEW c \in Procs, stage[c] = "exit" PROVE Len(printed) = header.max + 1
  <2>1. 1 \in 0 .. NumProcs - 1
    BY CoresType
  <2>2. PICK e \in Procs : my_id[e] = 1
    BY <1>1, <2>1, AllCounted
  <2>3. stage[e] \in {"barrier2", "exit"}
    BY <1>1, OthersThere
  <2> QED
    BY <2>2, <2>3 DEF HistInv, CoreHist
<1> QED
  BY <1>1 DEF PrintedIsHistogram, HistInv, PrintedFits

\* For any number of cores above one, any image and any limits: what core 1
\* prints is, bin by bin, the histogram of the input, and all of it before any core
\* stops.
THEOREM HistogramPrinted == Spec => [](HistInv /\ PrintedIsHistogram)
<1>1. Init => HistInv
  BY HistInvInit
<1>2. GuestInv /\ PhasesInLockstep /\ ReaderInv /\ HistInv /\ [Next]_vars => HistInv'
  BY HistStep
<1>3. GuestInv /\ PhasesInLockstep /\ ReaderInv /\ HistInv => PrintedIsHistogram
  BY AllPrinted
<1>4. Spec => []GuestInv /\ []PhasesInLockstep /\ []ReaderInv
  BY HistogramSafety, HistogramLockstep, HistogramRows, PTL
<1> QED
  BY <1>1, <1>2, <1>3, <1>4, PTL DEF Spec

-----------------------------------------------------------------------------
(* The register that is not initialised.                                    *)

\* Nobody is past the first access to the lock register, which is taken.
NobodyIn ==
  /\ reg = 1
  /\ stage \in [Procs -> {"read"}]
  /\ line \in [Procs -> {"call", "begin"}]
  /\ at \in [Procs -> {"out", "spin"}]
  /\ \A c \in Procs : at[c] = "out" <=> line[c] = "call"

\* A core arrives at l1 or reads the register again.
LEMMA NobodyInStays ==
  ASSUME NobodyIn, [Next]_vars
  PROVE  NobodyIn'
<1>1. CASE UNCHANGED vars
  BY <1>1 DEF vars, lockState, control, NobodyIn
<1>2. ASSUME NEW c \in Procs, Step(c) PROVE NobodyIn'
  <2>0. stage[c] = "read" /\ line[c] \in {"call", "begin"} /\ at[c] \in {"out", "spin"}
    BY DEF NobodyIn
  <2>1. EnterSection(c) \/ InsideMacro(c)
    BY <1>2, <2>0 DEF Step, LeaveSection, LoadBarrier, CountIn, PassBarrier, Identify, CountSelf,
       ReadHeader, HeaderOK, HeaderTooBig, TakeShare, ReadRow, RowsRead, ZeroPartial, CountRow,
       RowsCounted, ZeroBin, AddPartial, NextBin, BinsDone, PrintBin, PrintDone, Line, At, Barriers
  <2>2. CASE EnterSection(c)
    <3>1. /\ line' = [line EXCEPT ![c] = "begin"] /\ stage' = stage
          /\ at[c] = "out" /\ at' = [at EXCEPT ![c] = "spin"] /\ reg' = reg
      BY <2>2 DEF EnterSection, Line, Lk!Call, Lk!Goto
    <3> QED
      BY <3>1 DEF NobodyIn
  <2>3. CASE InsideMacro(c)
    <3>1. line' = line /\ stage' = stage /\ Lk!EnterStep(c)
      BY <2>3 DEF InsideMacro, control
    <3>2. reg' = 1 /\ at' = at
      BY <2>0, <3>1 DEF NobodyIn, Lk!EnterStep, Lk!ReadRegister, Lk!PollLocal, Lk!SetLocal,
         Lk!GiveRegister, Lk!Goto
    <3> QED
      BY <3>1, <3>2 DEF NobodyIn
  <2> QED
    BY <2>1, <2>2, <2>3
<1> QED
  BY <1>1, <1>2 DEF Next

\* For any number of cores: a register that happens to hold 1 when the simulator
\* starts keeps every core in front of its first critical section for ever.
THEOREM HistogramPowerOn == Spec => PowerOnTakenBlocksAll
<1>1. Init /\ reg = 1 => NobodyIn
  BY DEF Init, Lk!LockInit, NobodyIn
<1>2. NobodyIn /\ [Next]_vars => NobodyIn'
  BY NobodyInStays
<1>3. NobodyIn => \A c \in Procs : stage[c] = "read" /\ at[c] \in {"out", "spin"}
  BY DEF NobodyIn
<1> QED
  BY <1>1, <1>2, <1>3, PTL DEF Spec, PowerOnTakenBlocksAll
=============================================================================
