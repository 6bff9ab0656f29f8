-------------------------- MODULE AcceleratorsProofs --------------------------
(* For any number of cores: the address arithmetic of the guest and of the  *)
(* peripherals agree, so a core's accelerator calls never see another's.    *)
EXTENDS Accelerators, TLAPS

\* FLOATING_SIZE/NUM_PROCS and TRIGONOMETRIC_SIZE/NUM_PROCS are the sizes of
\* one bank.
LEMMA BankSizes ==
  FloatingSize(NumProcs) \div NumProcs = 32 /\ TrigonometricSize(NumProcs) \div NumProcs = 8
<1>1. NumProcs \in Nat /\ NumProcs > 0
  BY SizeAssumption
<1>2. FloatingSize(NumProcs) = 32 * NumProcs /\ TrigonometricSize(NumProcs) = 8 * NumProcs
  BY <1>1 DEF FloatingSize, TrigonometricSize
<1>3. ASSUME NEW n \in Nat, n > 0, NEW k \in Nat PROVE (k * n) \div n = k
  BY <1>3
<1> QED
  BY <1>1, <1>2, <1>3

\* A field of arit[procID] is routed to the floating peripheral, to the bank
\* of procID and to the register of that field.
LEMMA FloatingDecode ==
  ASSUME NEW c \in Bank, NEW offset \in 0 .. 31
  PROVE  /\ Route(AritAddress(c, offset)) = "floating"
         /\ FloatingBank(AritAddress(c, offset)) = c
         /\ FloatingRegister(AritAddress(c, offset)) = offset
<1> DEFINE a == AritAddress(c, offset)
<1>1. NumProcs \in Nat /\ MemSize \in Nat /\ c \in Nat /\ c < NumProcs
  BY SizeAssumption DEF Bank
<1>2. a - FloatingBase = 32 * c + offset /\ a \in Nat
  BY <1>1 DEF AritAddress, FloatingBase, LockBase, LockSize
<1>3. FloatingBase <= a /\ a < FloatingBase + 32 * NumProcs
  BY <1>1 DEF AritAddress, FloatingBase, LockBase, LockSize
<1>4. FloatingSize(NumProcs) = 32 * NumProcs
  BY <1>1 DEF FloatingSize
<1>5. Route(a) = "floating"
  BY <1>1, <1>2, <1>3, <1>4 DEF Route, FloatingBase, LockBase, LockSize
<1>6. (32 * c + offset) \div 32 = c /\ (32 * c + offset) % 32 = offset
  BY <1>1
<1> QED
  BY <1>2, <1>5, <1>6, BankSizes DEF FloatingBank, FloatingRegister

\* The same for trig[procID].
LEMMA TrigonometricDecode ==
  ASSUME NEW c \in Bank, NEW offset \in 0 .. 7
  PROVE  /\ Route(TrigAddress(c, offset)) = "trigonometric"
         /\ TrigonometricBank(TrigAddress(c, offset)) = c
         /\ TrigonometricRegister(TrigAddress(c, offset)) = offset
<1> DEFINE a == TrigAddress(c, offset)
<1>1. NumProcs \in Nat /\ MemSize \in Nat /\ c \in Nat /\ c < NumProcs /\ GuestProcs = NumProcs
  BY SizeAssumption, SameConfiguration DEF Bank
<1>2. FloatingSize(NumProcs) = 32 * NumProcs /\ TrigonometricSize(NumProcs) = 8 * NumProcs
  BY <1>1 DEF FloatingSize, TrigonometricSize
<1>3. /\ a - TrigonometricBase(NumProcs) = 8 * c + offset
      /\ a = FloatingBase + 32 * NumProcs + 8 * c + offset
      /\ TrigonometricBase(NumProcs) = FloatingBase + 32 * NumProcs
  BY <1>1, <1>2 DEF TrigAddress, TrigonometricBase, FloatingBase, LockBase, LockSize
<1>4. Route(a) = "trigonometric"
  BY <1>1, <1>2, <1>3 DEF Route, FloatingBase, LockBase, LockSize
<1>5. (8 * c + offset) \div 8 = c /\ (8 * c + offset) % 8 = offset
  BY <1>1
<1> QED
  BY <1>3, <1>4, <1>5, BankSizes DEF TrigonometricBank, TrigonometricRegister

-----------------------------------------------------------------------------
\* What the two stores of a call do to the peripherals.
LEMMA FirstStore ==
  ASSUME NEW c \in Bank, NEW k \in Calls, BusWrite(FirstAddress(c, k.op), k.x)
  PROVE  IF k.op \in Trigonometric
         THEN arg' = [arg EXCEPT ![c] = k.x] /\ UNCHANGED <<arg1, arg2>>
         ELSE arg1' = [arg1 EXCEPT ![c] = k.x] /\ UNCHANGED <<arg2, arg>>
<1>1. k.op \in Operations
  BY CallsAssumption
<1>2. CASE k.op \in Trigonometric
  <2>1. FirstAddress(c, k.op) = TrigAddress(c, TrigonometricResult[k.op])
    BY <1>2 DEF FirstAddress
  <2>2. TrigonometricResult[k.op] \in 0 .. 7
    BY <1>2 DEF Trigonometric, TrigonometricResult
  <2> QED
    BY <1>2, <2>1, <2>2, TrigonometricDecode DEF BusWrite, TrigonometricWrite
<1>3. CASE k.op \notin Trigonometric
  <2>1. FirstAddress(c, k.op) = AritAddress(c, ARG1)
    BY <1>3 DEF FirstAddress
  <2>2. ARG1 \in 0 .. 31 /\ ARG1 # ARG2
    BY DEF ARG1, ARG2
  <2> QED
    BY <1>3, <2>1, <2>2, FloatingDecode DEF BusWrite, FloatingWrite
<1> QED
  BY <1>2, <1>3

LEMMA SecondStore ==
  ASSUME NEW c \in Bank, NEW val, BusWrite(AritAddress(c, ARG2), val)
  PROVE  arg2' = [arg2 EXCEPT ![c] = val] /\ UNCHANGED <<arg1, arg>>
<1>1. ARG2 \in 0 .. 31 /\ ARG1 # ARG2
  BY DEF ARG1, ARG2
<1> QED
  BY <1>1, FloatingDecode DEF BusWrite, FloatingWrite

\* A load from the result register of an operation applies that operation to
\* the registers of the core's own bank.
LEMMA ResultLoad ==
  ASSUME NEW c \in Bank, NEW o \in Operations
  PROVE  BusRead(ResultAddress(c, o)) =
           IF o \in Trigonometric THEN <<o, arg[c], Garbage>>
           ELSE <<o, arg1[c], IF o \in Binary THEN arg2[c] ELSE Garbage>>
<1>1. CASE o \in Trigonometric
  <2>1. ResultAddress(c, o) = TrigAddress(c, TrigonometricResult[o])
    BY <1>1 DEF ResultAddress
  <2>2. TrigonometricResult[o] \in 0 .. 7
    BY <1>1 DEF Trigonometric, TrigonometricResult
  <2>3. {q \in Trigonometric : TrigonometricResult[q] = TrigonometricResult[o]} = {o}
    BY <1>1 DEF Trigonometric, TrigonometricResult
  <2>4. BusRead(ResultAddress(c, o)) = TrigonometricRead(TrigAddress(c, TrigonometricResult[o]))
    BY <2>1, <2>2, TrigonometricDecode DEF BusRead
  <2>5. (CHOOSE q \in {o} : TRUE) = o
    OBVIOUS
  <2> QED
    BY <1>1, <2>2, <2>3, <2>4, <2>5, TrigonometricDecode DEF TrigonometricRead
<1>2. CASE o \notin Trigonometric
  <2>1. ResultAddress(c, o) = AritAddress(c, FloatingResult[o])
    BY <1>2 DEF ResultAddress
  <2>2. FloatingResult[o] \in 0 .. 31
    BY <1>2 DEF Operations, Binary, Unary, Trigonometric, FloatingResult
  <2>3. {q \in Binary \cup Unary : FloatingResult[q] = FloatingResult[o]} = {o}
    BY <1>2 DEF Operations, Binary, Unary, Trigonometric, FloatingResult
  <2>4. BusRead(ResultAddress(c, o)) = FloatingRead(AritAddress(c, FloatingResult[o]))
    BY <2>1, <2>2, FloatingDecode DEF BusRead
  <2>5. (CHOOSE q \in {o} : TRUE) = o
    OBVIOUS
  <2> QED
    BY <1>2, <2>2, <2>3, <2>4, <2>5, FloatingDecode DEF FloatingRead
<1> QED
  BY <1>1, <1>2

-----------------------------------------------------------------------------
LEMMA AcceleratorInvInit == Init => AcceleratorInv
  BY DEF Init, AcceleratorInv, TypeOK, BankHoldsOperands, AnswersAreRight, NoAnswer, Float

\* One step of each kind keeps the invariant.
LEMMA CallKeeps ==
  ASSUME AcceleratorInv, NEW c \in Bank, CallAccelerator(c)
  PROVE  AcceleratorInv'
<1>1. PICK k \in Calls : call' = [call EXCEPT ![c] = k]
  BY DEF CallAccelerator
<1> QED
  BY <1>1 DEF CallAccelerator, AcceleratorInv, TypeOK, BankHoldsOperands, AnswersAreRight,
              NoAnswer, Float, peripherals

LEMMA CallTypes ==
  ASSUME NEW k \in Calls
  PROVE  /\ k.op \in Operations /\ k.x \in Float /\ k.y \in Float
         /\ k.op \notin Binary => k.y = Garbage
  BY CallsAssumption DEF Float

LEMMA OperationKinds ==
  \A o \in Operations :
    /\ o \in Binary => o \notin Trigonometric
    /\ o # "none"
  BY DEF Operations, Binary, Unary, Trigonometric

LEMMA StoreFirstKeeps ==
  ASSUME AcceleratorInv, NEW c \in Bank, StoreFirst(c)
  PROVE  AcceleratorInv'
<1> DEFINE k == call[c]
<1>1. k \in Calls /\ call' = call /\ answer' = answer
  BY DEF AcceleratorInv, TypeOK, StoreFirst
<1>2. k.op \in Operations /\ k.x \in Float
  BY <1>1, CallTypes
<1>3. IF k.op \in Trigonometric
      THEN arg' = [arg EXCEPT ![c] = k.x] /\ UNCHANGED <<arg1, arg2>>
      ELSE arg1' = [arg1 EXCEPT ![c] = k.x] /\ UNCHANGED <<arg2, arg>>
  BY <1>1, FirstStore DEF StoreFirst
<1>4. pc[c] = "first" /\ pc' = [pc EXCEPT ![c] = IF k.op \in Binary THEN "second" ELSE "result"]
  BY DEF StoreFirst
<1>5. TypeOK'
  BY <1>1, <1>2, <1>3, <1>4 DEF AcceleratorInv, TypeOK
<1>6. BankHoldsOperands'
  BY <1>1, <1>2, <1>3, <1>4, OperationKinds DEF AcceleratorInv, TypeOK, BankHoldsOperands
<1>7. AnswersAreRight'
  BY <1>1, <1>4 DEF AcceleratorInv, TypeOK, AnswersAreRight
<1> QED
  BY <1>5, <1>6, <1>7 DEF AcceleratorInv

LEMMA StoreSecondKeeps ==
  ASSUME AcceleratorInv, NEW c \in Bank, StoreSecond(c)
  PROVE  AcceleratorInv'
<1> DEFINE k == call[c]
<1>1. k \in Calls /\ call' = call /\ answer' = answer
  BY DEF AcceleratorInv, TypeOK, StoreSecond
<1>2. k.op \in Operations /\ k.y \in Float
  BY <1>1, CallTypes
<1>3. arg2' = [arg2 EXCEPT ![c] = k.y] /\ UNCHANGED <<arg1, arg>>
  BY SecondStore DEF StoreSecond
<1>4. pc[c] = "second" /\ pc' = [pc EXCEPT ![c] = "result"]
  BY DEF StoreSecond
<1>5. TypeOK'
  BY <1>1, <1>2, <1>3, <1>4 DEF AcceleratorInv, TypeOK
<1>6. BankHoldsOperands'
  BY <1>1, <1>2, <1>3, <1>4, OperationKinds DEF AcceleratorInv, TypeOK, BankHoldsOperands
<1>7. AnswersAreRight'
  BY <1>1, <1>4 DEF AcceleratorInv, TypeOK, AnswersAreRight
<1> QED
  BY <1>5, <1>6, <1>7 DEF AcceleratorInv

LEMMA LoadResultKeeps ==
  ASSUME AcceleratorInv, NEW c \in Bank, LoadResult(c)
  PROVE  AcceleratorInv'
<1> DEFINE k == call[c]
<1>1. k \in Calls /\ UNCHANGED <<arg1, arg2, arg, call>>
  BY DEF AcceleratorInv, TypeOK, LoadResult, peripherals
<1>2. k.op \in Operations /\ k.x \in Float /\ k.y \in Float /\ (k.op \notin Binary => k.y = Garbage)
  BY <1>1, CallTypes
<1>3. pc[c] = "result" /\ pc' = [pc EXCEPT ![c] = "done"]
  BY DEF LoadResult
<1>4. BusRead(ResultAddress(c, k.op)) = <<k.op, k.x, k.y>>
  BY <1>2, <1>3, ResultLoad, OperationKinds DEF AcceleratorInv, BankHoldsOperands
<1>5. answer' = [answer EXCEPT ![c] = <<k.op, k.x, k.y>>]
  BY <1>4 DEF LoadResult
<1>6. TypeOK'
  BY <1>1, <1>2, <1>3, <1>5 DEF AcceleratorInv, TypeOK
<1>7. BankHoldsOperands'
  BY <1>1, <1>3 DEF AcceleratorInv, TypeOK, BankHoldsOperands
<1>8. AnswersAreRight'
  BY <1>1, <1>3, <1>5 DEF AcceleratorInv, TypeOK, AnswersAreRight
<1> QED
  BY <1>6, <1>7, <1>8 DEF AcceleratorInv

LEMMA AcceleratorInvStep == AcceleratorInv /\ [Next]_vars => AcceleratorInv'
<1> SUFFICES ASSUME AcceleratorInv, [Next]_vars PROVE AcceleratorInv'
  OBVIOUS
<1>1. CASE Next
  BY <1>1, CallKeeps, StoreFirstKeeps, StoreSecondKeeps, LoadResultKeeps DEF Next
<1>2. CASE UNCHANGED vars
  BY <1>2 DEF vars, peripherals, guests, AcceleratorInv, TypeOK, BankHoldsOperands, AnswersAreRight
<1> QED
  BY <1>1, <1>2

\* For every number of cores, every memory size and every set of operands: an
\* accelerator call returns the result of its own operation on its own operands,
\* however the stores and loads of the cores interleave.
THEOREM AcceleratorSafety == Spec => []AcceleratorInv
<1>1. Init => AcceleratorInv
  BY AcceleratorInvInit
<1>2. AcceleratorInv /\ [Next]_vars => AcceleratorInv'
  BY AcceleratorInvStep
<1> QED
  BY <1>1, <1>2, PTL DEF Spec
=============================================================================
