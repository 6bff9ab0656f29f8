---------------------------- MODULE Accelerators ----------------------------
(***************************************************************************)
(* The bus of the eight-core platform and the two arithmetic peripherals   *)
(* behind it.  A guest computes x op y by storing x and y into argument    *)
(* registers and loading a result register; each core has a bank of        *)
(* registers of its own, so the stores and loads of different cores may    *)
(* interleave freely.  Addresses are the real byte addresses; a float is a *)
(* member of Values, a result is the operation with its operands.          *)
(***************************************************************************)
EXTENDS Integers

CONSTANTS
  NumProcs,     \* NUM_PROCS in bus.h: banks in the peripherals
  GuestProcs,   \* NUM_PROCS in the guest: what its addresses are built from
  MemSize,      \* MEMSIZE
  Values,       \* the floats the guests compute with
  Garbage,      \* any other float: uninitialised fdata and registers
  Calls         \* the calls the guests make: [op, x, y], y = Garbage if unary

ASSUME SizeAssumption == NumProcs \in Nat \ {0} /\ MemSize \in Nat
\* relatorio.md: both constants are changed together.
ASSUME SameConfiguration == GuestProcs = NumProcs

Bank == 0 .. NumProcs - 1

-----------------------------------------------------------------------------
(* The address map, seen from the bus (procs = NUM_PROCS of bus.h) and from *)
(* the guest (procs = NUM_PROCS of the application).                        *)

LockBase == MemSize
LockSize == 4
FloatingBase == LockBase + LockSize
FloatingSize(procs) == procs * (2 + 6) * 4
TrigonometricBase(procs) == FloatingBase + FloatingSize(procs)
TrigonometricSize(procs) == procs * 8

\* Byte offsets of the registers in a bank of each peripheral.
ARG1 == 0
ARG2 == 4
FloatingResult == [add |-> 8, sub |-> 12, mul |-> 16, div |-> 20, log2 |-> 24, sqrt |-> 28]
TrigonometricResult == [cos |-> 0, sin |-> 4]

Binary == {"add", "sub", "mul", "div"}
Unary == {"log2", "sqrt"}
Trigonometric == {"cos", "sin"}
Operations == Binary \cup Unary \cup Trigonometric

\* &arit[procID].field and &trig[procID].field
AritAddress(procID, offset) == FloatingBase + 32 * procID + offset
TrigAddress(procID, offset) == TrigonometricBase(GuestProcs) + 8 * procID + offset

ResultAddress(procID, op) ==
  IF op \in Trigonometric THEN TrigAddress(procID, TrigonometricResult[op])
                          ELSE AritAddress(procID, FloatingResult[op])

\* cos_ac and sin_ac store their argument where they load the result.
FirstAddress(procID, op) ==
  IF op \in Trigonometric THEN TrigAddress(procID, TrigonometricResult[op])
                          ELSE AritAddress(procID, ARG1)

\* ac_tlm_bus::transport
Route(addr) ==
  IF addr < MemSize THEN "memory"
  ELSE IF addr = MemSize THEN "lock"
  ELSE IF FloatingBase <= addr /\ addr < FloatingBase + FloatingSize(NumProcs) THEN "floating"
  ELSE IF TrigonometricBase(NumProcs) <= addr
          /\ addr < TrigonometricBase(NumProcs) + TrigonometricSize(NumProcs)
    THEN "trigonometric"
  ELSE "nowhere"

\* Mutant: the cores share one bank, as in the single-core version.
OneBank(addr) == 0

\* Which bank and which register of it an address selects.
FloatingBank(addr) == (addr - FloatingBase) \div (FloatingSize(NumProcs) \div NumProcs)
FloatingRegister(addr) == (addr - FloatingBase) % (FloatingSize(NumProcs) \div NumProcs)
TrigonometricBank(addr) ==
  (addr - TrigonometricBase(NumProcs)) \div (TrigonometricSize(NumProcs) \div NumProcs)
TrigonometricRegister(addr) ==
  (addr - TrigonometricBase(NumProcs)) % (TrigonometricSize(NumProcs) \div NumProcs)

-----------------------------------------------------------------------------
ASSUME CallsAssumption ==
  /\ Garbage \notin Values
  /\ Calls \subseteq [op : Operations, x : Values, y : Values \cup {Garbage}]
  /\ \A k \in Calls : k.op \in Binary <=> k.y \in Values

VARIABLES
  arg1, arg2,   \* the argument registers of the floating peripheral
  arg,          \* the one argument register per core of the trigonometric one
  pc,           \* idle, first, second, result, done: per core
  call,         \* the call a core executes or executed last
  answer        \* what the call returned

peripherals == <<arg1, arg2, arg>>
guests == <<pc, call, answer>>
vars == <<peripherals, guests>>

NoAnswer == <<"none", Garbage, Garbage>>
Float == Values \cup {Garbage}

Init ==
  /\ arg1 = [c \in Bank |-> Garbage]
  /\ arg2 = [c \in Bank |-> Garbage]
  /\ arg = [c \in Bank |-> Garbage]
  /\ pc = [c \in Bank |-> "idle"]
  /\ call \in [Bank -> Calls]
  /\ answer = [c \in Bank |-> NoAnswer]

\* ac_tlm_floating::writem.  The status of the response is left out (for ARG1
\* and ARG2 the function ends without one).
FloatingWrite(addr, val) ==
  LET bank == FloatingBank(addr)
      register == FloatingRegister(addr)
  IN
  /\ UNCHANGED arg
  /\ \/ /\ register = ARG1
        /\ arg1' = [arg1 EXCEPT ![bank] = val]
        /\ UNCHANGED arg2
     \/ /\ register = ARG2
        /\ arg2' = [arg2 EXCEPT ![bank] = val]
        /\ UNCHANGED arg1
     \/ /\ register \notin {ARG1, ARG2}
        /\ UNCHANGED <<arg1, arg2>>

\* ac_tlm_trigonometric::writem: one argument, whichever register is written.
TrigonometricWrite(addr, val) ==
  /\ arg' = [arg EXCEPT ![TrigonometricBank(addr)] = val]
  /\ UNCHANGED <<arg1, arg2>>

\* A store of the guest, through the bus.  The accelerator calls of a guest
\* never write memory or the lock; an address with no device changes nothing.
BusWrite(addr, val) ==
  \/ Route(addr) = "floating" /\ FloatingWrite(addr, val)
  \/ Route(addr) = "trigonometric" /\ TrigonometricWrite(addr, val)
  \/ /\ Route(addr) \notin {"floating", "trigonometric"}
     /\ UNCHANGED <<arg1, arg2, arg>>

\* ac_tlm_floating::readm and ac_tlm_trigonometric::readm: the result register
\* read selects the operation, the bank its operands.
FloatingRead(addr) ==
  LET bank == FloatingBank(addr)
      selected == {o \in Binary \cup Unary : FloatingResult[o] = FloatingRegister(addr)}
  IN IF selected = {} THEN NoAnswer
     ELSE LET o == CHOOSE o \in selected : TRUE
          IN <<o, arg1[bank], IF o \in Binary THEN arg2[bank] ELSE Garbage>>

TrigonometricRead(addr) ==
  LET selected == {o \in Trigonometric : TrigonometricResult[o] = TrigonometricRegister(addr)}
  IN IF selected = {} THEN NoAnswer
     ELSE <<CHOOSE o \in selected : TRUE, arg[TrigonometricBank(addr)], Garbage>>

BusRead(addr) ==
  IF Route(addr) = "floating" THEN FloatingRead(addr)
  ELSE IF Route(addr) = "trigonometric" THEN TrigonometricRead(addr)
  ELSE NoAnswer

-----------------------------------------------------------------------------
\* A guest calls one of the *_ac functions.
CallAccelerator(c) ==
  /\ pc[c] \in {"idle", "done"}
  /\ \E k \in Calls : call' = [call EXCEPT ![c] = k]
  /\ pc' = [pc EXCEPT ![c] = "first"]
  /\ answer' = [answer EXCEPT ![c] = NoAnswer]
  /\ UNCHANGED peripherals

\* arit[procID].x = x, or trig[procID].cos = x
StoreFirst(c) ==
  /\ pc[c] = "first"
  /\ BusWrite(FirstAddress(c, call[c].op), call[c].x)
  /\ pc' = [pc EXCEPT ![c] = IF call[c].op \in Binary THEN "second" ELSE "result"]
  /\ UNCHANGED <<call, answer>>

\* arit[procID].y = y
StoreSecond(c) ==
  /\ pc[c] = "second"
  /\ BusWrite(AritAddress(c, ARG2), call[c].y)
  /\ pc' = [pc EXCEPT ![c] = "result"]
  /\ UNCHANGED <<call, answer>>

\* return arit[procID].add
LoadResult(c) ==
  /\ pc[c] = "result"
  /\ answer' = [answer EXCEPT ![c] = BusRead(ResultAddress(c, call[c].op))]
  /\ pc' = [pc EXCEPT ![c] = "done"]
  /\ UNCHANGED <<peripherals, call>>

Next == \E c \in Bank : CallAccelerator(c) \/ StoreFirst(c) \/ StoreSecond(c) \/ LoadResult(c)

Spec == Init /\ [][Next]_vars

-----------------------------------------------------------------------------
TypeOK ==
  /\ arg1 \in [Bank -> Float] /\ arg2 \in [Bank -> Float] /\ arg \in [Bank -> Float]
  /\ pc \in [Bank -> {"idle", "first", "second", "result", "done"}]
  /\ call \in [Bank -> Calls]
  /\ answer \in [Bank -> (Operations \cup {"none"}) \X Float \X Float]

\* A call returns its own operation applied to its own operands, whatever the
\* other cores stored into the same peripheral between its stores and its load.
AnswersAreRight ==
  \A c \in Bank : pc[c] = "done" => answer[c] = <<call[c].op, call[c].x, call[c].y>>

\* Between the stores and the load, the bank of the core holds its operands.
BankHoldsOperands ==
  \A c \in Bank :
    LET k == call[c]
    IN
    /\ pc[c] = "second" => k.op \in Binary /\ arg1[c] = k.x
    /\ pc[c] = "result" /\ k.op \in Trigonometric => arg[c] = k.x
    /\ pc[c] = "result" /\ k.op \notin Trigonometric => arg1[c] = k.x
    /\ pc[c] = "result" /\ k.op \in Binary => arg2[c] = k.y

\* Inductive.
AcceleratorInv == TypeOK /\ BankHoldsOperands /\ AnswersAreRight
=============================================================================
