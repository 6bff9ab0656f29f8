------------------------------- MODULE ImageDFT -------------------------------
(***************************************************************************)
(* The parallel image DFT that runs on the eight-core platform             *)
(* (aplicacao.c): every core executes main, takes an id, takes a share of  *)
(* the rows, and works through phases separated by counting barriers.      *)
(*                                                                         *)
(* One action is one access to a shared word, or the work a core does on   *)
(* one row that no other core writes during that phase.  Pixels are        *)
(* abstracted to the stage of the computation their row has reached, the   *)
(* level of a row's spectrum to a number Level[r].                         *)
(***************************************************************************)
EXTENDS Integers, Sequences, FiniteSets

CONSTANTS
  Procs,          \* the cores
  NumberOfProc,   \* NUM_PROCS as compiled into the guest
  Rows,           \* rows of the input image
  Level,          \* log-magnitude level of each row of the spectrum
  Highest         \* FLT_MAX: above every level

Row == 0 .. Rows - 1

ASSUME CoresAssumption == IsFiniteSet(Procs) /\ NumberOfProc = Cardinality(Procs)
ASSUME RowsAssumption == Rows \in Nat /\ NumberOfProc # 0
ASSUME LevelAssumption == Highest \in Nat /\ Level \in [Row -> 1 .. Highest - 1]

Locks == {"procIDCounterLock", "rowsRemainingLock", "startPointLock", "maxLock", "minLock"}

VARIABLES
  reg, word, at, want,    \* the lock hardware and the lock code
  stage,                  \* what part of main a core executes
  line,                   \* where in that part
  tmp,                    \* the value a core loaded last in a critical section
  procID, procRow, procStartPoint,                  \* locals of main
  v, y, sofar,            \* row indices; are the rows of P read so far right?
  local_max, local_min,   \* locals of max_min
  procIDCounter, rowsRemaining, startPoint, barrier,  \* shared words
  max, min,
  row,                    \* dados.row: 0 until the image is read
  matrix, P, F,           \* dados.matrix, the row spectrum, the spectrum
  opens, out              \* is the input there and P5, can the output be opened; the output

lockState == <<reg, word, at, want>>
control == <<stage, line>>
locals == <<tmp, procID, procRow, procStartPoint, v, y, sofar, local_max, local_min>>
counters == <<procIDCounter, rowsRemaining, startPoint, barrier>>
extremes == <<max, min>>
image == <<row, matrix, P, F>>
files == <<opens, out>>
vars == <<lockState, control, locals, counters, extremes, image, files>>

Lk == INSTANCE SpinLock WITH NoLock <- "none", PowerOn <- {0}

\* The barriers in program order, and the part of main behind each.
BarrierOrder == <<"barrier6", "barrier0", "barrier5", "barrier1", "barrier2", "barrier3", "barrier4">>
BarrierNames == {BarrierOrder[k] : k \in DOMAIN BarrierOrder}

\* Mutant: the cores with nothing to write do not wait for the writer.
BehindWithoutBarrier4(b, p) ==
  IF b = "barrier6" THEN "getProcRow"
  ELSE IF b = "barrier0" THEN "rowDFT"
  ELSE IF b = "barrier5" THEN "colDFT"
  ELSE IF b = "barrier1" THEN "max_min"
  ELSE IF b = "barrier2" THEN "scale"
  ELSE IF b = "barrier3" THEN (IF procID[p] = 0 THEN "writePGM" ELSE "exit")
  ELSE "exit"

Behind(b, p) ==
  IF b = "barrier6" THEN "getProcRow"
  ELSE IF b = "barrier0" THEN "rowDFT"
  ELSE IF b = "barrier5" THEN "colDFT"
  ELSE IF b = "barrier1" THEN "max_min"
  ELSE IF b = "barrier2" THEN "scale"
  ELSE IF b = "barrier3" THEN (IF procID[p] = 0 THEN "writePGM" ELSE "barrier4")
  ELSE "exit"

\* Where that part begins.
Entry(b, p) ==
  IF b = "barrier6" THEN "divide"
  ELSE IF b = "barrier3" THEN (IF procID[p] = 0 THEN "open" ELSE "call")
  ELSE IF b = "barrier4" THEN "stopped" ELSE "loop"

\* The lock that guards the critical section of a part of main.
LockOf(s) ==
  IF s \in BarrierNames \cup {"getProcID"} THEN "procIDCounterLock"
  ELSE IF s = "getProcRow" THEN "rowsRemainingLock"
  ELSE IF s = "getStartPoint" THEN "startPointLock"
  ELSE s

Critical == BarrierNames \cup {"getProcID", "getProcRow", "getStartPoint", "maxLock", "minLock"}

\* -FLT_MAX: below every level.
Lowest == 0

Init ==
  /\ Lk!LockInit
  /\ stage = [p \in Procs |-> "getProcID"]
  /\ line = [p \in Procs |-> "call"]
  /\ tmp = [p \in Procs |-> 0]
  /\ procID = [p \in Procs |-> -1]
  /\ procRow = [p \in Procs |-> 0]
  /\ procStartPoint = [p \in Procs |-> 0]
  /\ v = [p \in Procs |-> 0]
  /\ y = [p \in Procs |-> 0]
  /\ sofar = [p \in Procs |-> TRUE]
  /\ local_max = [p \in Procs |-> Lowest]
  /\ local_min = [p \in Procs |-> Highest]
  /\ procIDCounter = 0
  /\ rowsRemaining = -1
  /\ startPoint = 0
  /\ barrier = [b \in BarrierNames |-> 0]
  /\ max = Lowest
  /\ min = Highest
  /\ row = 0
  /\ matrix = [r \in Row |-> <<"zero">>]
  /\ P = [r \in Row |-> "zero"]
  /\ F = [r \in Row |-> "zero"]
  /\ opens \in [{"input", "output"} -> BOOLEAN]
  /\ out = <<>>

At(p, s, l) == stage[p] = s /\ line[p] = l
GoTo(p, s, l) ==
  /\ stage' = [stage EXCEPT ![p] = s]
  /\ line' = [line EXCEPT ![p] = l]

-----------------------------------------------------------------------------
(* The critical sections: AcquireLock, a load, a store, ReleaseLock.        *)

EnterLock(p) ==
  /\ stage[p] \in Critical
  /\ line[p] = "call"
  /\ Lk!Call(p, LockOf(stage[p]))
  /\ line' = [line EXCEPT ![p] = "load"]
  /\ UNCHANGED <<stage, locals, counters, extremes, image, files>>

InsideAcquire(p) ==
  /\ Lk!AcquireStep(p)
  /\ UNCHANGED <<control, locals, counters, extremes, image, files>>

\* The shared word a critical section reads first.
Shared(s) ==
  IF s \in BarrierNames THEN barrier[s]
  ELSE IF s = "getProcID" THEN procIDCounter
  ELSE IF s = "getProcRow" THEN rowsRemaining
  ELSE IF s = "getStartPoint" THEN startPoint
  ELSE IF s = "maxLock" THEN max ELSE min

\* Mutant: the word is loaded before AcquireLock has returned.
LoadEarly(p) ==
  /\ line[p] = "load"
  /\ tmp' = [tmp EXCEPT ![p] = Shared(stage[p])]
  /\ line' = [line EXCEPT ![p] = "store"]
  /\ UNCHANGED <<lockState, stage, procID, procRow, procStartPoint, v, y, sofar,
                 local_max, local_min, counters, extremes, image, files>>

Load(p) ==
  /\ line[p] = "load"
  /\ at[p] = "in"
  /\ tmp' = [tmp EXCEPT ![p] = Shared(stage[p])]
  /\ line' = [line EXCEPT ![p] = "store"]
  /\ UNCHANGED <<lockState, stage, procID, procRow, procStartPoint, v, y, sofar,
                 local_max, local_min, counters, extremes, image, files>>

\* i = procIDCounter; procIDCounter++
StoreProcID(p) ==
  /\ At(p, "getProcID", "store")
  /\ procID' = [procID EXCEPT ![p] = tmp[p]]
  /\ procIDCounter' = tmp[p] + 1
  /\ UNCHANGED <<procRow, procStartPoint, rowsRemaining, startPoint, barrier, extremes>>

\* Mutant: the rows left over are counted down but nobody takes them.
StoreProcRowUntaken(p) ==
  /\ At(p, "getProcRow", "store")
  /\ rowsRemaining' = IF tmp[p] = -1 THEN row % procIDCounter
                      ELSE IF tmp[p] = 0 THEN 0 ELSE tmp[p] - 1
  /\ UNCHANGED <<procRow, procID, procStartPoint, procIDCounter, startPoint, barrier, extremes>>

\* The first core in sets rowsRemaining and keeps the quotient; each later
\* one takes an extra row while there are any.
StoreProcRow(p) ==
  /\ At(p, "getProcRow", "store")
  /\ \/ /\ tmp[p] = -1
        /\ rowsRemaining' = row % procIDCounter
        /\ UNCHANGED procRow
     \/ /\ tmp[p] \notin {-1, 0}
        /\ rowsRemaining' = tmp[p] - 1
        /\ procRow' = [procRow EXCEPT ![p] = @ + 1]
     \/ /\ tmp[p] = 0
        /\ UNCHANGED <<rowsRemaining, procRow>>
  /\ UNCHANGED <<procID, procStartPoint, procIDCounter, startPoint, barrier, extremes>>

\* Mutant: one row is left between two shares.
StoreStartPointPlusOne(p) ==
  /\ At(p, "getStartPoint", "store")
  /\ procStartPoint' = [procStartPoint EXCEPT ![p] = tmp[p]]
  /\ startPoint' = tmp[p] + procRow[p] + 1
  /\ UNCHANGED <<procID, procRow, procIDCounter, rowsRemaining, barrier, extremes>>

\* sp = startPoint; startPoint += procRow
StoreStartPoint(p) ==
  /\ At(p, "getStartPoint", "store")
  /\ procStartPoint' = [procStartPoint EXCEPT ![p] = tmp[p]]
  /\ startPoint' = tmp[p] + procRow[p]
  /\ UNCHANGED <<procID, procRow, procIDCounter, rowsRemaining, barrier, extremes>>

StoreMax(p) ==
  /\ At(p, "maxLock", "store")
  /\ max' = IF local_max[p] > tmp[p] THEN local_max[p] ELSE max
  /\ UNCHANGED <<procID, procRow, procStartPoint, counters, min>>

StoreMin(p) ==
  /\ At(p, "minLock", "store")
  /\ min' = IF local_min[p] < tmp[p] THEN local_min[p] ELSE min
  /\ UNCHANGED <<procID, procRow, procStartPoint, counters, max>>

\* barrierN++
CountIn(p) ==
  /\ stage[p] \in BarrierNames
  /\ line[p] = "store"
  /\ barrier' = [barrier EXCEPT ![stage[p]] = tmp[p] + 1]
  /\ UNCHANGED <<procID, procRow, procStartPoint, procIDCounter, rowsRemaining, startPoint, extremes>>

Store(p) ==
  /\ \/ StoreProcID(p)
     \/ StoreProcRow(p)
     \/ StoreStartPoint(p)
     \/ StoreMax(p)
     \/ StoreMin(p)
     \/ CountIn(p)
  /\ line' = [line EXCEPT ![p] = "release"]
  /\ tmp' = [tmp EXCEPT ![p] = 0]
  /\ UNCHANGED <<lockState, stage, v, y, sofar, local_max, local_min, image, files>>

\* Mutant: barrier2 is missing, max and min are used as soon as merged.
LeaveLockWithoutBarrier2(p) ==
  LET s == stage[p]
  IN
  /\ s \in Critical
  /\ line[p] = "release"
  /\ Lk!ReleaseLock(p)
  /\ \/ s \in BarrierNames /\ GoTo(p, s, "wait")
     \/ s = "getProcID" /\ procID[p] = 0 /\ GoTo(p, "readPGM", "open")
     \/ s = "getProcID" /\ procID[p] # 0 /\ GoTo(p, "barrier6", "call")
     \/ s = "getProcRow" /\ GoTo(p, "getStartPoint", "call")
     \/ s = "getStartPoint" /\ GoTo(p, "desloca_origem", "loop")
     \/ s = "maxLock" /\ GoTo(p, "minLock", "call")
     \/ s = "minLock" /\ GoTo(p, "scale", "loop")
  /\ v' = [v EXCEPT ![p] = procStartPoint[p]]
  /\ UNCHANGED <<tmp, procID, procRow, procStartPoint, y, sofar, local_max, local_min,
                 counters, extremes, image, files>>

\* ReleaseLock, and on to the next part of main; a core that has counted
\* itself into a barrier goes to the loop that waits for the others.
LeaveLock(p) ==
  LET s == stage[p]
  IN
  /\ s \in Critical
  /\ line[p] = "release"
  /\ Lk!ReleaseLock(p)
  /\ \/ s \in BarrierNames /\ GoTo(p, s, "wait")
     \/ s = "getProcID" /\ procID[p] = 0 /\ GoTo(p, "readPGM", "open")
     \/ s = "getProcID" /\ procID[p] # 0 /\ GoTo(p, "barrier6", "call")
     \/ s = "getProcRow" /\ GoTo(p, "getStartPoint", "call")
     \/ s = "getStartPoint" /\ GoTo(p, "desloca_origem", "loop")
     \/ s = "maxLock" /\ GoTo(p, "minLock", "call")
     \/ s = "minLock" /\ GoTo(p, "barrier2", "call")
  /\ v' = [v EXCEPT ![p] = IF s = "getStartPoint" THEN procStartPoint[p] ELSE @]
  /\ UNCHANGED <<tmp, procID, procRow, procStartPoint, y, sofar, local_max, local_min,
                 counters, extremes, image, files>>

\* Mutant: the last core is not waited for.
PassBarrierEarly(p) ==
  LET s == stage[p]
  IN
  /\ s \in BarrierNames
  /\ line[p] = "wait"
  /\ barrier[s] >= NumberOfProc - 1
  /\ GoTo(p, Behind(s, p), Entry(s, p))
  /\ v' = [v EXCEPT ![p] = procStartPoint[p]]
  /\ UNCHANGED <<lockState, tmp, procID, procRow, procStartPoint, y, sofar,
                 local_max, local_min, counters, extremes, image, files>>

\* while (barrierN != numberOfProc);
PassBarrier(p) ==
  LET s == stage[p]
  IN
  /\ s \in BarrierNames
  /\ line[p] = "wait"
  /\ barrier[s] = NumberOfProc
  /\ GoTo(p, Behind(s, p), Entry(s, p))
  /\ v' = [v EXCEPT ![p] = procStartPoint[p]]
  /\ UNCHANGED <<lockState, tmp, procID, procRow, procStartPoint, y, sofar,
                 local_max, local_min, counters, extremes, image, files>>

-----------------------------------------------------------------------------
(* Reading and writing the image: only the core with id 0.  The program has *)
(* its two arguments, and the image fits the matrices of 100 rows.          *)

ReadPGM(p) ==
  /\ At(p, "readPGM", "open")
  /\ opens["input"]
  /\ row' = Rows
  /\ matrix' = [r \in Row |-> <<"input">>]
  /\ GoTo(p, "barrier6", "call")
  /\ UNCHANGED <<lockState, locals, counters, extremes, P, F, files>>

\* Mutant: the error is reported and the core goes on to its next barrier.
OpenFailsGoesOn(p) ==
  /\ \/ At(p, "readPGM", "open") /\ ~opens["input"] /\ GoTo(p, "barrier6", "call")
     \/ At(p, "writePGM", "open") /\ ~opens["output"] /\ GoTo(p, "barrier4", "call")
  /\ UNCHANGED <<lockState, locals, counters, extremes, image, files>>

\* fopen fails, or the input is not P5: exit(EXIT_FAILURE), which stops this
\* core only.
OpenFails(p) ==
  /\ \/ At(p, "readPGM", "open") /\ ~opens["input"]
     \/ At(p, "writePGM", "open") /\ ~opens["output"]
  /\ line' = [line EXCEPT ![p] = "stopped"]
  /\ UNCHANGED <<lockState, stage, locals, counters, extremes, image, files>>

OpenOutput(p) ==
  /\ At(p, "writePGM", "open")
  /\ opens["output"]
  /\ GoTo(p, "writePGM", "loop")
  /\ UNCHANGED <<lockState, locals, counters, extremes, image, files>>

WriteRow(p) ==
  /\ At(p, "writePGM", "loop")
  /\ Len(out) < row
  /\ out' = Append(out, matrix[Len(out)])
  /\ UNCHANGED <<lockState, control, locals, counters, extremes, image, opens>>

CloseOutput(p) ==
  /\ At(p, "writePGM", "loop")
  /\ Len(out) = row
  /\ GoTo(p, "barrier4", "call")
  /\ UNCHANGED <<lockState, locals, counters, extremes, image, files>>

-----------------------------------------------------------------------------
(* The work on the rows procStartPoint .. procStartPoint + procRow - 1.     *)

\* Mutant: divides by the ids given out when this core took its own.
DivideByIdsSoFar(p) ==
  /\ At(p, "getProcRow", "divide")
  /\ procRow' = [procRow EXCEPT ![p] = row \div (procID[p] + 1)]
  /\ line' = [line EXCEPT ![p] = "call"]
  /\ UNCHANGED <<lockState, stage, tmp, procID, procStartPoint, v, y, sofar, local_max,
                 local_min, counters, extremes, image, files>>

\* int row = dados.row/procIDCounter, before the lock is taken
Divide(p) ==
  /\ At(p, "getProcRow", "divide")
  /\ procRow' = [procRow EXCEPT ![p] = row \div procIDCounter]
  /\ line' = [line EXCEPT ![p] = "call"]
  /\ UNCHANGED <<lockState, stage, tmp, procID, procStartPoint, v, y, sofar, local_max,
                 local_min, counters, extremes, image, files>>

InLoop(p, s) == At(p, s, "loop") /\ v[p] < procStartPoint[p] + procRow[p]
Advance(p) == v' = [v EXCEPT ![p] = @ + 1]

\* Every pixel with i + j odd changes sign: doing it twice undoes it.
Shift(p) ==
  /\ InLoop(p, "desloca_origem")
  /\ matrix' = [matrix EXCEPT ![v[p]] =
       IF @ = <<"input">> THEN <<"shifted">> ELSE IF @ = <<"shifted">> THEN <<"input">> ELSE @]
  /\ Advance(p)
  /\ UNCHANGED <<lockState, control, tmp, procID, procRow, procStartPoint, y, sofar,
                 local_max, local_min, counters, extremes, row, P, F, files>>

RowDFT(p) ==
  /\ InLoop(p, "rowDFT")
  /\ P' = [P EXCEPT ![v[p]] = IF matrix[v[p]] = <<"shifted">> THEN "spectrum" ELSE "wrong"]
  /\ Advance(p)
  /\ UNCHANGED <<lockState, control, tmp, procID, procRow, procStartPoint, y, sofar,
                 local_max, local_min, counters, extremes, row, matrix, F, files>>

\* Row v of F needs row y of P for every y, whoever computes that row.
ReadColumn(p) ==
  /\ InLoop(p, "colDFT")
  /\ y[p] < row
  /\ sofar' = [sofar EXCEPT ![p] = @ /\ P[y[p]] = "spectrum"]
  /\ y' = [y EXCEPT ![p] = @ + 1]
  /\ UNCHANGED <<lockState, control, tmp, procID, procRow, procStartPoint, v,
                 local_max, local_min, counters, extremes, image, files>>

ColDFT(p) ==
  /\ InLoop(p, "colDFT")
  /\ y[p] = row
  /\ F' = [F EXCEPT ![v[p]] = IF sofar[p] THEN "dft" ELSE "wrong"]
  /\ y' = [y EXCEPT ![p] = 0]
  /\ sofar' = [sofar EXCEPT ![p] = TRUE]
  /\ Advance(p)
  /\ UNCHANGED <<lockState, control, tmp, procID, procRow, procStartPoint,
                 local_max, local_min, counters, extremes, row, matrix, P, files>>

Log(p) ==
  /\ InLoop(p, "log")
  /\ F' = [F EXCEPT ![v[p]] = IF @ = "dft" THEN "log" ELSE "wrong"]
  /\ Advance(p)
  /\ UNCHANGED <<lockState, control, tmp, procID, procRow, procStartPoint, y, sofar,
                 local_max, local_min, counters, extremes, row, matrix, P, files>>

LevelOf(r) == IF F[r] = "log" THEN Level[r] ELSE Lowest

LocalMaxMin(p) ==
  /\ InLoop(p, "max_min")
  /\ LET f == LevelOf(v[p])
     IN /\ local_max' = [local_max EXCEPT ![p] = IF f > @ THEN f ELSE @]
        /\ local_min' = [local_min EXCEPT ![p] = IF f < @ THEN f ELSE @]
  /\ Advance(p)
  /\ UNCHANGED <<lockState, control, tmp, procID, procRow, procStartPoint, y, sofar,
                 counters, extremes, image, files>>

Scale(p) ==
  /\ InLoop(p, "scale")
  /\ matrix' = [matrix EXCEPT ![v[p]] =
       IF F[v[p]] = "log" THEN <<"pixel", min, max>> ELSE <<"wrong">>]
  /\ Advance(p)
  /\ UNCHANGED <<lockState, control, tmp, procID, procRow, procStartPoint, y, sofar,
                 local_max, local_min, counters, extremes, row, P, F, files>>

\* The loop is over; DFT and max_min run two loops over the same rows.
EndLoop(p) ==
  LET s == stage[p]
  IN
  /\ line[p] = "loop"
  /\ v[p] >= procStartPoint[p] + procRow[p]
  /\ \/ s = "desloca_origem" /\ GoTo(p, "barrier0", "call")
     \/ s = "rowDFT" /\ GoTo(p, "barrier5", "call")
     \/ s = "colDFT" /\ GoTo(p, "log", "loop")
     \/ s = "log" /\ GoTo(p, "barrier1", "call")
     \/ s = "max_min" /\ GoTo(p, "maxLock", "call")
     \/ s = "scale" /\ GoTo(p, "barrier3", "call")
  /\ v' = [v EXCEPT ![p] = procStartPoint[p]]
  /\ UNCHANGED <<lockState, tmp, procID, procRow, procStartPoint, y, sofar,
                 local_max, local_min, counters, extremes, image, files>>

-----------------------------------------------------------------------------
Step(p) ==
  \/ EnterLock(p) \/ InsideAcquire(p) \/ Load(p) \/ Store(p) \/ LeaveLock(p)
  \/ PassBarrier(p)
  \/ ReadPGM(p) \/ OpenFails(p) \/ OpenOutput(p) \/ WriteRow(p) \/ CloseOutput(p)
  \/ Divide(p)
  \/ Shift(p) \/ RowDFT(p) \/ ReadColumn(p) \/ ColDFT(p) \/ Log(p)
  \/ LocalMaxMin(p) \/ Scale(p) \/ EndLoop(p)

Next == \E p \in Procs : Step(p)

Spec == Init /\ [][Next]_vars

\* The SystemC kernel gives every core that has not stopped its quantum again
\* and again.
FairSpec == Spec /\ \A p \in Procs : WF_vars(Step(p))

-----------------------------------------------------------------------------
WorkStages ==
  {"desloca_origem", "rowDFT", "colDFT", "log", "max_min", "scale"}
Stages ==
  Critical \cup WorkStages \cup {"readPGM", "writePGM", "exit"}

TypeOK ==
  /\ Lk!LockTypeOK
  /\ stage \in [Procs -> Stages]
  /\ line \in [Procs -> {"call", "load", "store", "release", "wait", "open",
                         "divide", "loop", "stopped"}]
  /\ procID \in [Procs -> -1 .. NumberOfProc - 1]
  /\ procRow \in [Procs -> 0 .. Rows]
  /\ procStartPoint \in [Procs -> 0 .. Rows]
  /\ row \in {0, Rows}
  /\ v \in [Procs -> 0 .. Rows]
  /\ y \in [Procs -> 0 .. Rows]
  /\ procIDCounter \in 0 .. NumberOfProc
  /\ rowsRemaining \in -1 .. NumberOfProc - 1
  /\ startPoint \in 0 .. Rows
  /\ barrier \in [BarrierNames -> 0 .. NumberOfProc]

\* The cores that have their share of the rows.
Sharing ==
  {p \in Procs : \/ stage[p] \in WorkStages \cup {"maxLock", "minLock", "writePGM", "exit"}
                 \/ stage[p] \in BarrierNames \ {"barrier6"}
                 \/ stage[p] = "getStartPoint" /\ line[p] = "release"}
Share(p) == procStartPoint[p] .. procStartPoint[p] + procRow[p] - 1

\* getProcRow and getStartPoint hand out the rows under two different locks,
\* in two different orders: still no two cores share a row, and when every
\* core has its share no row is left over.
RowsPartitioned ==
  /\ \A p, q \in Sharing : p # q => Share(p) \cap Share(q) = {}
  /\ Sharing = Procs => UNION {Share(p) : p \in Procs} = Row

\* relatorio.md: the difference between the rows of two cores is at most 1.
SharesBalanced ==
  \A p, q \in Sharing : procRow[p] <= procRow[q] + 1

\* What one core running the phases one after the other writes for each row.
SerialPixels ==
  LET levels == {Level[r] : r \in Row}
  IN <<"pixel", CHOOSE m \in levels : \A n \in levels : m <= n,
                CHOOSE m \in levels : \A n \in levels : m >= n>>

\* The file holds, row by row, what the serial program would write: no core
\* read a row of P or F, or max or min, before the cores that compute them had
\* finished, and no row was shifted or scaled twice or by nobody.
OutputIsSerial == \A k \in DOMAIN out : out[k] = SerialPixels

\* A core gets past the last barrier only when the whole file is written.
ExitAfterOutput == \A p \in Procs : stage[p] = "exit" => Len(out) = Rows

\* The barriers a core has passed, and those it has counted itself into.
Phase(s) ==
  IF s \in {"getProcID", "readPGM", "barrier6"} THEN 0
  ELSE IF s \in {"getProcRow", "getStartPoint", "desloca_origem", "barrier0"} THEN 1
  ELSE IF s \in {"rowDFT", "barrier5"} THEN 2
  ELSE IF s \in {"colDFT", "log", "barrier1"} THEN 3
  ELSE IF s \in {"max_min", "maxLock", "minLock", "barrier2"} THEN 4
  ELSE IF s \in {"scale", "barrier3"} THEN 5
  ELSE IF s \in {"writePGM", "barrier4"} THEN 6 ELSE 7

PassedBarriers(p) == Phase(stage[p])
CountedIn(p) == stage[p] \in BarrierNames /\ line[p] \in {"release", "wait"}

ArrivedBarriers(p) == PassedBarriers(p) + IF CountedIn(p) THEN 1 ELSE 0

Phases == INSTANCE Barrier WITH
  Barriers <- Len(BarrierOrder),
  passed <- [p \in Procs |-> PassedBarriers(p)],
  arrived <- [p \in Procs |-> ArrivedBarriers(p)]

\* Seven counters incremented under a lock and polled without it implement a
\* chain of barriers.
ImplementsBarriers == Phases!BarrierSpec

\* At every moment all cores are in the same phase or one apart, so nobody
\* overwrites what another still reads.
PhasesInLockstep == Phases!Lockstep

\* Every core reaches exit(0) when both files can be opened: no barrier is
\* missed, no lock is left held, although the waiting loops of AcquireLock
\* keep taking the register from the core that would make progress.
Termination ==
  opens["input"] /\ opens["output"] => <>(\A p \in Procs : stage[p] = "exit")

\* The core with id 0 alone notices that a file cannot be opened and stops;
\* all the others then wait for ever at the barrier it never counts into.
FailureStrandsTheOthers ==
  ~(opens["input"] /\ opens["output"]) =>
    <>[](\E p \in Procs :
           /\ At(p, IF opens["input"] THEN "writePGM" ELSE "readPGM", "stopped")
           /\ \A q \in Procs \ {p} :
                At(q, IF opens["input"] THEN "barrier4" ELSE "barrier6", "wait"))
=============================================================================
