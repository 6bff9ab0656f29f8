--------------------------- MODULE BranchPredictor ---------------------------
(***************************************************************************)
(* The three branch predictors of the pipeline simulator.  The build picks *)
(* one with a macro; here the three builds run the same program side by    *)
(* side, so that they see the same sequence of outcomes and their counters *)
(* ciclos_misspredict can be compared.                                     *)
(***************************************************************************)
EXTENDS Naturals

CONSTANTS
  MissPenalty,   \* MISSPREDICT_PENALTY: 1, 2 or 13 cycles
  MaxCycles      \* bound on the branches executed, in penalty cycles

ASSUME PenaltyAssumption == MissPenalty \in Nat /\ MaxCycles \in Nat

BP2bits == {"SNT", "WNT", "WT", "ST"}

VARIABLES
  preditor,        \* the one two-bit state all branches share
  always_taken,    \* ciclos_misspredict with PREDITOR_ALWAYS_TAKEN
  always_not_taken,\* ... with PREDITOR_ALWAYS_NOT_TAKEN
  two_bits         \* ... with PREDITOR_2_BITS

predictorVars == <<preditor, always_taken, always_not_taken, two_bits>>

PredictorInit ==
  /\ preditor = "SNT"
  /\ always_taken = 0 /\ always_not_taken = 0 /\ two_bits = 0

\* Mutant: a misprediction from a strong state jumps to the other strong one.
JumpyTaken == [SNT |-> "ST", WNT |-> "WT", WT |-> "ST", ST |-> "ST"]

\* The two transitions of the state machine, and when it is wrong.
AfterTaken == [SNT |-> "WNT", WNT |-> "WT", WT |-> "ST", ST |-> "ST"]
AfterNotTaken == [SNT |-> "SNT", WNT |-> "SNT", WT |-> "WNT", ST |-> "WT"]
PredictsTaken == preditor \in {"WT", "ST"}

\* A branch with tomado == true.
Taken ==
  /\ preditor' = AfterTaken[preditor]
  /\ two_bits' = IF PredictsTaken THEN two_bits ELSE two_bits + MissPenalty
  /\ always_not_taken' = always_not_taken + MissPenalty
  /\ UNCHANGED always_taken

\* A branch with tomado == false.
NotTaken ==
  /\ preditor' = AfterNotTaken[preditor]
  /\ two_bits' = IF PredictsTaken THEN two_bits + MissPenalty ELSE two_bits
  /\ always_taken' = always_taken + MissPenalty
  /\ UNCHANGED always_not_taken

PredictorNext ==
  /\ always_taken + always_not_taken < MaxCycles
  /\ Taken \/ NotTaken

PredictorSpec == PredictorInit /\ [][PredictorNext]_predictorVars

-----------------------------------------------------------------------------
\* Whatever the program, the two-bit build pays at most twice what the better
\* static build pays, and two mispredictions more to warm up -- although one
\* two-bit state is shared by every branch of the program.
TwoBitsCompetitive ==
  /\ two_bits <= 2 * always_not_taken
  /\ two_bits <= 2 * always_taken + 2 * MissPenalty

\* What the state of the machine says about the outcomes so far, in cycles.
LeastTaken ==
  IF preditor = "SNT" THEN 0
  ELSE IF preditor = "WNT" THEN MissPenalty
  ELSE IF preditor = "WT" THEN 2 * MissPenalty
  ELSE 3 * MissPenalty

WarmUp ==
  IF preditor = "SNT" THEN 0
  ELSE IF preditor = "WNT" THEN MissPenalty
  ELSE 2 * MissPenalty

\* Types.
PredictorTypeOK ==
  /\ preditor \in BP2bits
  /\ always_taken \in Nat /\ always_not_taken \in Nat /\ two_bits \in Nat

\* Inductive.
PredictorInv ==
  /\ PredictorTypeOK
  /\ two_bits + LeastTaken <= 2 * always_not_taken
  /\ two_bits <= 2 * always_taken + WarmUp
=============================================================================
