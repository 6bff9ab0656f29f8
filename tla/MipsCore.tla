------------------------------- MODULE MipsCore -------------------------------
(***************************************************************************)
(* The MIPS core of the platforms of exercicio4 and trabalho3: one action  *)
(* for each group of instructions of mips_isa.cpp, over words of four      *)
(* bytes.  A byte may be narrower than eight bits; every constant of the   *)
(* code that depends on the width (shift amounts, sign bits, the halves of *)
(* a word) is derived from it.                                             *)
(*                                                                         *)
(* A program is a sequence of decoded instructions, at the word addresses  *)
(* from 0; data are elsewhere.  It starts from any of its register files   *)
(* and memories, which started keeps, and runs until it leaves its code or *)
(* the simulator exits.                                                    *)
(***************************************************************************)
EXTENDS Integers, Sequences, SequencesExt, TLC, Bitwise

CONSTANTS
  ByteBits,      \* bits of a byte: 8
  Programs,      \* what is run: [code, RB, RBF, mem], the last three sets
  MaxSteps,      \* bound on the instructions of a run
  Host(_, _)     \* the arithmetic of the host: an operation and its operands

WordBits == 4 * ByteBits
Ones == 2 ^ WordBits - 1
Word == 0 .. Ones
Ra == 31

ASSUME MipsAssumption ==
  /\ ByteBits \in Nat \ {0}
  /\ MaxSteps \in Nat
  /\ \A p \in Programs : \A f \in p.RB : \A r \in DOMAIN f : f[r] \in Word

VARIABLES
  prog, started,   \* the program, and the state it started in
  ac_pc, npc,      \* between two instructions: the next one, and the one after
  RB, RBF,         \* the register banks
  hi, lo, cc,
  mem,             \* byte address -> byte
  exit,            \* why the simulator has exited, or ""
  steps

ghosts == <<prog, started>>
vars == <<ghosts, ac_pc, npc, RB, RBF, hi, lo, cc, mem, exit, steps>>

\* ac_behavior(begin) clears the registers; the program has loaded its own
\* before the first instruction considered here.
Init ==
  \E p \in Programs :
    /\ prog = p.code
    /\ RB \in p.RB /\ RBF \in p.RBF /\ mem \in p.mem
    /\ started = [RB |-> RB, RBF |-> RBF, mem |-> mem]
    /\ ac_pc = 0 /\ npc = 4
    /\ hi = 0 /\ lo = 0 /\ cc = 0
    /\ exit = "" /\ steps = 0

-----------------------------------------------------------------------------
\* Words.
Wrap(n) == n % 2 ^ WordBits
SignExtend(n, bits) == ((n + 2 ^ (bits - 1)) % 2 ^ bits) - 2 ^ (bits - 1)
Signed(w) == SignExtend(w, WordBits)
Negative(w) == w >= 2 ^ (WordBits - 1)
Flag(b) == IF b THEN 1 ELSE 0
Half == 2 ^ (WordBits \div 2)

\* A shift by the width of a word or more is undefined: the processor of the
\* host takes the amount modulo the width, a compiler may fold it to 0.
ShiftLeft(w, n) == IF n \in 0 .. WordBits - 1 THEN {Wrap(w * 2 ^ n)} ELSE {Wrap(w * 2 ^ (n % WordBits)), 0}
ShiftRight(w, n) == IF n \in 0 .. WordBits - 1 THEN {w \div 2 ^ n} ELSE {w \div 2 ^ (n % WordBits), 0}

\* DATA_PORT: the memory is big-endian.
Read(a, bytes) == FoldLeftDomain(LAMBDA v, k : v * 2 ^ ByteBits + mem[a + k - 1], 0, [k \in 1 .. bytes |-> k])
Written(m, a, bytes, v) ==
  [b \in DOMAIN m |-> IF b \in a .. a + bytes - 1
                        THEN (v \div 2 ^ (ByteBits * (a + bytes - 1 - b))) % 2 ^ ByteBits ELSE m[b]]

\* The field imm is signed.
Address(i) == Wrap(RB[i.rs] + i.imm)
Indexed(i) == Wrap(RB[i.rt] + RB[i.rs])

-----------------------------------------------------------------------------
\* What an instruction leaves alone.  The generic behaviour has moved ac_pc to
\* npc and npc behind it before the one of the instruction runs.
Falls == npc' = npc + 4

SetRB(r, v) ==
  /\ RB' = [RB EXCEPT ![r] = v]
  /\ Falls /\ UNCHANGED <<RBF, hi, lo, cc, mem, exit>>

SetRBF(r, values) ==
  /\ RBF' = [f \in DOMAIN RBF |-> IF f - r + 1 \in DOMAIN values THEN values[f - r + 1] ELSE RBF[f]]
  /\ Falls /\ UNCHANGED <<RB, hi, lo, cc, mem, exit>>

SetHiLo(h, l) == hi' = h /\ lo' = l /\ Falls /\ UNCHANGED <<RB, RBF, cc, mem, exit>>
SetCC(b) == cc' = Flag(b) /\ Falls /\ UNCHANGED <<RB, RBF, hi, lo, mem, exit>>
SetMem(m) == mem' = m /\ Falls /\ UNCHANGED <<RB, RBF, hi, lo, cc, exit>>
Exit(why) == exit' = why /\ Falls /\ UNCHANGED <<RBF, hi, lo, cc, mem>>

-----------------------------------------------------------------------------
\* ll is a load.
Loads(i) ==
  LET Is(op, v) == i.op = op /\ SetRB(i.rt, v) IN
  \/ Is("lb", Wrap(SignExtend(Read(Address(i), 1), ByteBits)))
  \/ Is("lbu", Read(Address(i), 1))
  \/ Is("lh", Wrap(SignExtend(Read(Address(i), 2), 2 * ByteBits)))
  \/ Is("lhu", Read(Address(i), 2))
  \/ Is("lw", Read(Address(i), 4))
  \/ Is("ll", Read(Address(i), 4))

\* The bytes of lwl and lwr: offset, and the aligned word.
Offset(a) == (a % 4) * ByteBits
AlignedWord(a) == Read(a - (a % 4), 4)

\* 0xFFFFFFFF << (32-offset)
Upper(offset) == ShiftLeft(Ones, WordBits - offset)

lwl(i) ==
  LET offset == Offset(Address(i)) IN
  i.op = "lwl" /\ SetRB(i.rt, Wrap(AlignedWord(Address(i)) * 2 ^ offset) | (RB[i.rt] & (2 ^ offset - 1)))

\* Mutant: counted from the other end.
lwrFromLeft(i) ==
  LET offset == Offset(Address(i)) IN
  i.op = "lwr" /\ \E m \in Upper(offset) : SetRB(i.rt, (AlignedWord(Address(i)) \div 2 ^ offset) | (RB[i.rt] & m))

lwr(i) ==
  LET offset == Offset(3 - (Address(i) % 4)) IN
  i.op = "lwr" /\ \E m \in Upper(offset) : SetRB(i.rt, (AlignedWord(Address(i)) \div 2 ^ offset) | (RB[i.rt] & m))

\* Stores.  sc always succeeds.
Stores(i) ==
  LET Is(op, bytes) == i.op = op /\ SetMem(Written(mem, Address(i), bytes, RB[i.rt])) IN
  Is("sb", 1) \/ Is("sh", 2) \/ Is("sw", 4)

sc(i) ==
  /\ i.op = "sc"
  /\ mem' = Written(mem, Address(i), 4, RB[i.rt])
  /\ RB' = [RB EXCEPT ![i.rt] = 1]
  /\ Falls /\ UNCHANGED <<RBF, hi, lo, cc, exit>>

swl(i) ==
  LET a == Address(i) IN
  i.op = "swl" /\ \E m \in Upper(Offset(a)) :
    SetMem(Written(mem, a - (a % 4), 4, (RB[i.rt] \div 2 ^ Offset(a)) | (AlignedWord(a) & m)))

swr(i) ==
  LET a == Address(i)
      offset == Offset(3 - (a % 4))
  IN i.op = "swr" /\ SetMem(Written(mem, a - (a % 4), 4, Wrap(RB[i.rt] * 2 ^ offset) | (AlignedWord(a) & (2 ^ offset - 1))))

-----------------------------------------------------------------------------
\* A double has its lower word in the register named and its upper word in the
\* next one.
Double(r) == RBF[r] + RBF[r + 1] * 2 ^ WordBits
Halves(d) == <<d % 2 ^ WordBits, d \div 2 ^ WordBits>>

\* Mutant: the words of a double in the order of their addresses.
LoadInOrder(i) ==
  \/ i.op = "ldc1" /\ SetRBF(i.rt, <<Read(Address(i), 4), Read(Address(i) + 4, 4)>>)
  \/ i.op = "lwc1" /\ SetRBF(i.rt, <<Read(Address(i), 4)>>)
  \/ i.op = "ldxc1" /\ SetRBF(i.shamt, <<Read(Indexed(i), 4), Read(Indexed(i) + 4, 4)>>)
  \/ i.op = "lwxc1" /\ SetRBF(i.shamt, <<Read(Indexed(i), 4)>>)

FloatLoads(i) ==
  \/ i.op = "ldc1" /\ SetRBF(i.rt, <<Read(Address(i) + 4, 4), Read(Address(i), 4)>>)
  \/ i.op = "lwc1" /\ SetRBF(i.rt, <<Read(Address(i), 4)>>)
  \/ i.op = "ldxc1" /\ SetRBF(i.shamt, <<Read(Indexed(i) + 4, 4), Read(Indexed(i), 4)>>)
  \/ i.op = "lwxc1" /\ SetRBF(i.shamt, <<Read(Indexed(i), 4)>>)

FloatStores(i) ==
  LET TwoWords(a, r) == Written(Written(mem, a + 4, 4, RBF[r]), a, 4, RBF[r + 1]) IN
  \/ i.op = "sdc1" /\ SetMem(TwoWords(Address(i), i.rt))
  \/ i.op = "swc1" /\ SetMem(Written(mem, Address(i), 4, RBF[i.rt]))
  \/ i.op = "sdxc1" /\ SetMem(TwoWords(Indexed(i), i.rd))
  \/ i.op = "swxc1" /\ SetMem(Written(mem, Indexed(i), 4, RBF[i.rd]))

\* Arithmetic is that of the host, on doubles and on floats.
OfDoubles(i, op, rs) ==
  i.op = op /\ SetRBF(i.shamt, Halves(Host(op, [k \in DOMAIN rs |-> Double(rs[k])])))
OfFloats(i, op, rs) ==
  i.op = op /\ SetRBF(i.shamt, <<Host(op, [k \in DOMAIN rs |-> RBF[rs[k]]])>>)

FloatSums(i) ==
  \/ OfDoubles(i, "absd", <<i.rd>>) \/ OfDoubles(i, "addd", <<i.rd, i.rt>>)
  \/ OfFloats(i, "abss", <<i.rd>>) \/ OfFloats(i, "adds", <<i.rd, i.rt>>)

\* neg takes rt, which its encoding sets to 0.
FloatArithmetic(i) ==
  \/ OfDoubles(i, "sqrtd", <<i.rd>>) \/ OfFloats(i, "sqrts", <<i.rd>>)
  \/ OfDoubles(i, "negd", <<i.rt>>) \/ OfFloats(i, "negs", <<i.rt>>)
  \/ \E op \in {"subd", "muld"} : OfDoubles(i, op, <<i.rd, i.rt>>)
  \/ \E op \in {"subs", "muls"} : OfFloats(i, op, <<i.rd, i.rt>>)
  \/ i.op = "truncwd" /\ SetRBF(i.shamt, <<Wrap(Host(i.op, <<Double(i.rd)>>))>>)
  \/ OfFloats(i, "truncws", <<i.rd>>)

FloatConversions(i) ==
  \/ i.op = "cvtsd" /\ SetRBF(i.shamt, <<Wrap(Host(i.op, <<Double(i.rd)>>))>>)
  \/ i.op \in {"cvtds", "cvtdw"} /\ SetRBF(i.shamt, Halves(Host(i.op, <<RBF[i.rd]>>)))
  \/ OfFloats(i, "cvtsw", <<i.rd>>)
  \/ OfDoubles(i, "divd", <<i.rd, i.rt>>) \/ OfFloats(i, "divs", <<i.rd, i.rt>>)

FloatFused(i) ==
  \/ \E op \in {"maddd", "msubd"} : OfDoubles(i, op, <<i.rd, i.rt, i.rs>>)
  \/ \E op \in {"madds", "msubs"} : OfFloats(i, op, <<i.rd, i.rt, i.rs>>)

\* Comparisons: c.ueq, c.ule and c.ult are those of c.eq, c.ole and c.olt, which
\* are false of an operand that is no number.
FloatCompare(i) ==
  LET operands == IF i.double THEN <<Double(i.rd), Double(i.rt)>> ELSE <<RBF[i.rd], RBF[i.rt]>>
      Is(ops, test) == i.op \in ops /\ SetCC(Host(test, operands) = 1)
  IN Is({"ceq", "cueq"}, "==") \/ Is({"cole", "cule"}, "<=") \/ Is({"colt", "cult"}, "<") \/ Is({"cun"}, "isnan")

\* Moves between the two banks; the high ones go through a double.
FloatMoves(i) ==
  \/ i.op = "mfc1" /\ SetRB(i.rt, RBF[i.rd])
  \/ i.op = "mtc1" /\ SetRBF(i.rd, <<RB[i.rt]>>)
  \/ i.op = "movd" /\ SetRBF(i.shamt, Halves(Double(i.rd)))
  \/ i.op = "movs" /\ SetRBF(i.shamt, <<RBF[i.rd]>>)

HighMoves(i) ==
  \/ i.op = "mfhc1" /\ SetRB(i.rt, Double(i.rd) \div 2 ^ WordBits)
  \/ i.op = "mthc1" /\ SetRBF(i.rd, Halves((Double(i.rd) % 2 ^ WordBits) + RB[i.rt] * 2 ^ WordBits))

-----------------------------------------------------------------------------
\* The logical immediates take the field without its sign.
Immediates(i) ==
  LET a == RB[i.rs]
      low == i.imm % Half
      Is(op, v) == i.op = op /\ SetRB(i.rt, v)
  IN
  \/ Is("addiu", Wrap(a + i.imm))
  \/ Is("slti", Flag(Signed(a) < i.imm))
  \/ Is("sltiu", Flag(a < Wrap(i.imm)))
  \/ Is("andi", a & low)
  \/ Is("ori", a | low)
  \/ Is("xori", a ^^ low)
  \/ Is("lui", Wrap(i.imm * Half))

\* The sum is written, then the operands are read again for the test: the
\* simulator never exits where rt is rs.
addi(i) ==
  LET sum == Wrap(RB[i.rs] + i.imm)
      now == [RB EXCEPT ![i.rt] = sum]
      overflow == Negative(now[i.rs]) = (i.imm < 0) /\ (i.imm < 0) # Negative(sum)
  IN
  /\ i.op = "addi"
  /\ RB' = now
  /\ exit' = IF overflow THEN "overflow" ELSE ""
  /\ Falls /\ UNCHANGED <<RBF, hi, lo, cc, mem>>

\* add compares the signs of rs and of the sum, and exits when they agree and
\* that of rt differs.
add(i) ==
  LET sum == Wrap(RB[i.rs] + RB[i.rt])
      now == [RB EXCEPT ![i.rd] = sum]
      overflow == Negative(now[i.rs]) = Negative(sum) /\ Negative(sum) # Negative(now[i.rt])
  IN
  /\ i.op = "add"
  /\ RB' = now
  /\ exit' = IF overflow THEN "overflow" ELSE ""
  /\ Falls /\ UNCHANGED <<RBF, hi, lo, cc, mem>>

ThreeRegisters(i) ==
  LET a == RB[i.rs]
      b == RB[i.rt]
      Is(op, v) == i.op = op /\ SetRB(i.rd, v)
  IN
  \/ Is("addu", Wrap(a + b))
  \/ Is("sub", Wrap(a - b)) \/ Is("subu", Wrap(a - b))
  \/ Is("slt", Flag(Signed(a) < Signed(b)))
  \/ Is("sltu", Flag(a < b))
  \/ Is("and", a & b) \/ Is("or", a | b) \/ Is("xor", a ^^ b)
  \/ Is("nor", Ones - (a | b))
  \/ Is("mul", Wrap(a * b))

\* nop is a shift; the amount in a register is taken modulo the width.
Shifts(i) ==
  LET b == RB[i.rt]
      v == RB[i.rs] % WordBits
      Is(op, w) == i.op = op /\ SetRB(i.rd, w)
  IN
  \/ i.op = "nop" /\ SetRB(0, RB[0])
  \/ Is("sll", Wrap(b * 2 ^ i.shamt)) \/ Is("sllv", Wrap(b * 2 ^ v))
  \/ Is("srl", b \div 2 ^ i.shamt) \/ Is("srlv", b \div 2 ^ v)
  \/ Is("sra", Wrap(Signed(b) \div 2 ^ i.shamt)) \/ Is("srav", Wrap(Signed(b) \div 2 ^ v))

\* Mutant: the upper half of an unsigned product.
UnsignedProduct(i) ==
  \E p \in {RB[i.rs] * RB[i.rt]} : i.op \in {"mult", "multu"} /\ SetHiLo(Wrap(p \div 2 ^ WordBits), Wrap(p))

Products(i) ==
  \E p \in {IF i.op = "mult" THEN Signed(RB[i.rs]) * Signed(RB[i.rt]) ELSE RB[i.rs] * RB[i.rt]} :
    i.op \in {"mult", "multu"} /\ SetHiLo(Wrap(p \div 2 ^ WordBits), Wrap(p))

\* Division is that of C, towards 0; a quotient that does not exist or does not
\* fit stops the simulator with a signal.
Magnitude(n) == IF n < 0 THEN -n ELSE n
Quotient(a, b) == IF (a < 0) = (b < 0) THEN Magnitude(a) \div Magnitude(b) ELSE -(Magnitude(a) \div Magnitude(b))

Divisions(i) ==
  LET Read2(r) == IF i.op = "div" THEN Signed(RB[r]) ELSE RB[r]
      a == Read2(i.rs)
      b == Read2(i.rt)
      traps == b = 0 \/ (i.op = "div" /\ b = -1 /\ -a = 2 ^ (WordBits - 1))
  IN
  /\ i.op \in {"div", "divu"}
  /\ IF traps THEN Exit("signal") /\ UNCHANGED RB
     ELSE SetHiLo(Wrap(a - Quotient(a, b) * b), Wrap(Quotient(a, b)))

HiLoMoves(i) ==
  \/ i.op = "mfhi" /\ SetRB(i.rd, hi)
  \/ i.op = "mflo" /\ SetRB(i.rd, lo)
  \/ i.op = "mthi" /\ SetHiLo(RB[i.rs], lo)
  \/ i.op = "mtlo" /\ SetHiLo(hi, RB[i.rs])

-----------------------------------------------------------------------------
\* mips32r2: bit fields, rotations, leading zeros.
rotate_right(w, n) == {r | l : r \in ShiftRight(w, n), l \in ShiftLeft(w, WordBits - n)}

\* Every bit below the highest one that is set.
Smeared(w) == FoldLeft(LAMBDA x, k : x | (x \div 2 ^ k), w, <<1, 2, 4, 8, 16>>)

\* The place of the lowest bit that is set, from 1, or 0.
ffs(w) == IF w = 0 THEN 0 ELSE 1 + CHOOSE k \in 0 .. WordBits - 1 : w % 2 ^ (k + 1) = 2 ^ k

clz(w) == LET x == ffs(Wrap(Smeared(w) + 1)) IN IF x = 0 THEN 0 ELSE WordBits - x + 1

BitFields(i) ==
  \/ i.op = "seb" /\ SetRB(i.rd, Wrap(SignExtend(RB[i.rt], ByteBits)))
  \/ i.op = "seh" /\ SetRB(i.rd, Wrap(SignExtend(RB[i.rt], 2 * ByteBits)))
  \/ /\ i.op = "ext"
     /\ LET size == i.rd + 1 IN
        SetRB(i.rt, Wrap(RB[i.rs] * 2 ^ (WordBits - size - i.shamt)) \div 2 ^ (WordBits - size))
  \/ i.op = "rotr" /\ \E w \in rotate_right(RB[i.rt], i.shamt) : SetRB(i.rd, w)
  \/ i.op = "rotrv" /\ \E w \in rotate_right(RB[i.rt], RB[i.rs]) : SetRB(i.rd, w)
  \/ i.op = "clz" /\ SetRB(i.rd, clz(RB[i.rs]))

\* Conditional moves.  Of doubles and floats, movz tests what movn does.
MoveHolds(i) ==
  \/ i.op = "movz" /\ RB[i.rt] = 0
  \/ i.op \in {"movn", "movzd", "movnd", "movzs", "movns"} /\ RB[i.rt] # 0
  \/ i.op \in {"movf", "movfd", "movfs"} /\ cc = 0
  \/ i.op \in {"movt", "movtd", "movts"} /\ cc # 0

Moves(i) ==
  \/ /\ i.op \in {"movz", "movn", "movf", "movt"}
     /\ SetRB(i.rd, IF MoveHolds(i) THEN RB[i.rs] ELSE RB[i.rd])
  \/ /\ i.op \in {"movzd", "movnd", "movfd", "movtd"}
     /\ SetRBF(i.shamt, IF MoveHolds(i) THEN <<RBF[i.rd], RBF[i.rd + 1]>> ELSE <<>>)
  \/ /\ i.op \in {"movzs", "movns", "movfs", "movts"}
     /\ SetRBF(i.shamt, IF MoveHolds(i) THEN <<RBF[i.rd]>> ELSE <<>>)

-----------------------------------------------------------------------------
\* Mutant: the address of the delay slot is linked.
ControlIntoSlot(links, taken, target) ==
  /\ RB' = [r \in DOMAIN RB |-> IF r \in links THEN npc ELSE RB[r]]
  /\ npc' = IF taken THEN target ELSE npc + 4
  /\ UNCHANGED <<RBF, hi, lo, cc, mem, exit>>

\* Jumps and branches.  npc is here what the code calls ac_pc: the address of
\* the delay slot, and the call returns behind that.
Control(links, taken, target) ==
  /\ RB' = [r \in DOMAIN RB |-> IF r \in links THEN Wrap(npc + 4) ELSE RB[r]]
  /\ npc' = IF taken THEN target ELSE npc + 4
  /\ UNCHANGED <<RBF, hi, lo, cc, mem, exit>>

\* The first bits of an address, which j and jal keep: 4 of 32.
Region(a) == a - (a % 2 ^ (WordBits - WordBits \div 8))

Jumps(i) ==
  \/ i.op = "j" /\ Control({}, TRUE, Region(npc) + 4 * i.addr)
  \/ i.op = "jal" /\ Control({Ra}, TRUE, Region(npc) + 4 * i.addr)
  \/ i.op = "jr" /\ Control({}, TRUE, RB[i.rs])
  \/ i.op = "jalr" /\ Control({IF i.rd = 0 THEN Ra ELSE i.rd}, TRUE, RB[i.rs])

\* bltzal and bgezal link whether or not they branch, and bc1fl and bc1tl
\* execute their delay slot like the others.
Branches(i) ==
  LET a == RB[i.rs]
      Is(op, links, taken) == i.op = op /\ Control(links, taken, Wrap(npc + 4 * i.imm))
  IN
  \/ Is("beq", {}, a = RB[i.rt]) \/ Is("bne", {}, a # RB[i.rt])
  \/ Is("blez", {}, a = 0 \/ Negative(a)) \/ Is("bgtz", {}, ~Negative(a) /\ a # 0)
  \/ Is("bltz", {}, Negative(a)) \/ Is("bgez", {}, ~Negative(a))
  \/ Is("bltzal", {Ra}, Negative([RB EXCEPT ![Ra] = npc + 4][i.rs]))
  \/ Is("bgezal", {Ra}, ~Negative([RB EXCEPT ![Ra] = npc + 4][i.rs]))
  \/ Is("bc1f", {}, cc = 0) \/ Is("bc1fl", {}, cc = 0)
  \/ Is("bc1t", {}, cc = 1) \/ Is("bc1tl", {}, cc = 1)

\* The system calls of ArchC leave a result, or -1 when there is no such call.
\* What they write into the memory of the program, and the one that ends it
\* (mips_syscall.cpp), are left out: no property is about a program with one.
sys_call(i) ==
  /\ i.op = "sys_call"
  /\ \E result \in {0, 1, Ones} :
       RB' = [RB EXCEPT ![2] = result, ![7] = Flag(Negative(result))]
  /\ Falls /\ UNCHANGED <<RBF, hi, lo, cc, mem, exit>>

\* break and teq; sync does nothing.
Traps(i) ==
  \/ i.op = "break" /\ Exit("break") /\ UNCHANGED RB
  \/ i.op = "teq" /\ RB[i.rs] = RB[i.rt] /\ Exit("trap") /\ UNCHANGED RB
  \/ (i.op = "sync" \/ (i.op = "teq" /\ RB[i.rs] # RB[i.rt])) /\ SetRB(0, RB[0])

-----------------------------------------------------------------------------
Execute(i) ==
  \/ Loads(i) \/ lwl(i) \/ lwr(i)
  \/ Stores(i) \/ sc(i) \/ swl(i) \/ swr(i)
  \/ FloatLoads(i) \/ FloatStores(i) \/ FloatSums(i) \/ FloatArithmetic(i)
  \/ FloatConversions(i) \/ FloatFused(i) \/ FloatCompare(i) \/ FloatMoves(i) \/ HighMoves(i)
  \/ Immediates(i) \/ addi(i) \/ add(i)
  \/ ThreeRegisters(i) \/ Shifts(i) \/ Products(i) \/ Divisions(i) \/ HiLoMoves(i)
  \/ BitFields(i) \/ Moves(i)
  \/ Jumps(i) \/ Branches(i)
  \/ sys_call(i) \/ Traps(i)

\* ac_behavior(instruction), then the behaviour of the instruction.
Instruction ==
  /\ exit = "" /\ steps < MaxSteps
  /\ ac_pc \div 4 < Len(prog)
  /\ ac_pc' = npc
  /\ Execute(prog[ac_pc \div 4 + 1])
  /\ steps' = steps + 1
  /\ UNCHANGED ghosts

Next == Instruction

Spec == Init /\ [][Next]_vars

-----------------------------------------------------------------------------
Finished == ac_pc \div 4 >= Len(prog) /\ exit = ""
Bit(w, k) == (w \div 2 ^ k) % 2

\* The instructions that compute by tricks of bits and of wider types return
\* what they are for: products and quotients with their signs, sign extensions
\* and arithmetic shifts as signed numbers, rotations and bit fields bit by bit
\* whatever the compiler makes of a shift by the width, leading zeros, and in
\* addi into another register the overflow of a signed sum.
ResultsExact ==
  steps = 1 /\ Len(prog) = 1 =>
    LET i == prog[1]
        a == started.RB[i.rs]
        b == started.RB[i.rt]
        x == Signed(a)
        y == Signed(b)
        r == RB[i.rd]
        amount == IF i.op \in {"srav", "rotrv"} THEN a % WordBits ELSE i.shamt
        fits(n) == n \in -(2 ^ (WordBits - 1)) .. 2 ^ (WordBits - 1) - 1
        of(bits) == /\ (Signed(r) - b) % 2 ^ bits = 0
                    /\ Signed(r) \in -(2 ^ (bits - 1)) .. 2 ^ (bits - 1) - 1
    IN
    /\ i.op = "mult" => Signed(hi) * 2 ^ WordBits + lo = x * y
    /\ i.op = "multu" => hi * 2 ^ WordBits + lo = a * b
    /\ i.op = "div" /\ exit = "" =>
         /\ Signed(lo) * y + Signed(hi) = x
         /\ Magnitude(Signed(hi)) < Magnitude(y) /\ Signed(hi) * x >= 0
    /\ i.op = "divu" /\ exit = "" => lo * b + hi = a /\ hi < b
    /\ i.op = "seb" => of(ByteBits)
    /\ i.op = "seh" => of(2 * ByteBits)
    /\ i.op \in {"sra", "srav"} =>
         Signed(r) * 2 ^ amount <= y /\ y < (Signed(r) + 1) * 2 ^ amount
    /\ i.op = "rotr" \/ (i.op = "rotrv" /\ a < WordBits) =>
         \A k \in 0 .. WordBits - 1 : Bit(r, k) = Bit(b, (k + amount) % WordBits)
    /\ i.op = "ext" =>
         \A k \in 0 .. WordBits - 1 :
           Bit(RB[i.rt], k) = IF k <= i.rd THEN Bit(a, k + i.shamt) ELSE 0
    /\ i.op = "clz" => \A k \in 0 .. WordBits - 1 : k < r <=> \A m \in 0 .. k : Bit(a, WordBits - 1 - m) = 0
    /\ i.op = "addi" /\ i.rt # i.rs => (exit = "overflow" <=> ~fits(x + i.imm))

\* A program that copies the word at $4 to $5 with lwl, lwr, swl and swr.
CopiesWord == {prog[k].op : k \in DOMAIN prog} = {"lwl", "lwr", "swl", "swr"}
CopiesDouble == prog # <<>> /\ Last(prog).op \in {"sdc1", "sdxc1"}

Copied(bytes) ==
  LET from == started.RB[4]
      to == started.RB[5]
  IN mem = [a \in DOMAIN mem |-> IF a \in to .. to + bytes - 1 THEN started.mem[from + a - to] ELSE started.mem[a]]

\* The two halves of an unaligned load or store make one of a whole word at any
\* address, in either order, whatever was in the register and whatever the
\* compiler makes of the shift by 32; no other byte changes.
UnalignedCopies == Finished /\ CopiesWord => Copied(4)

\* A double that goes through registers of both banks, in words, halves or
\* whole, is the same in the memory again.
DoublesCopied == Finished /\ CopiesDouble => Copied(8)

\* A program that begins with a jump, a branch or a call over
\*   slot: $1 + 1;  next: $2 + 1;  j end;  nop;  target: $3 + 1;  jr $31;  nop
Markers == [r \in {1, 2, 3} |-> RB[r] - started.RB[r]]
Calls == {"jal", "jalr", "bltzal", "bgezal"}
Tested(i) ==
  LET x == Signed(started.RB[i.rs]) IN
  CASE i.op \in {"j", "jal", "jr", "jalr"} -> TRUE
    [] i.op = "beq" -> x = Signed(started.RB[i.rt])
    [] i.op = "bne" -> x # Signed(started.RB[i.rt])
    [] i.op = "blez" -> x <= 0
    [] i.op = "bgtz" -> x > 0
    [] i.op \in {"bltz", "bltzal"} -> x < 0
    [] i.op \in {"bgez", "bgezal"} -> x >= 0
    [] i.op = "bc1f" -> TRUE
    [] i.op = "bc1t" -> FALSE

\* The delay slot is executed once, whether or not the branch is taken; what
\* lies behind it is executed unless the branch is taken, and also after a call
\* has returned; the target is executed if the test holds of signed numbers.
SlotsAndReturns ==
  Finished /\ Len(prog) = 8 =>
    LET went == Tested(prog[1]) IN
    Markers = (1 :> 1) @@ (2 :> Flag(~went \/ prog[1].op \in Calls)) @@ (3 :> Flag(went))
=============================================================================
