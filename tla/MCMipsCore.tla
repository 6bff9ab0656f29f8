------------------------------ MODULE MCMipsCore ------------------------------
(***************************************************************************)
(* Programs for the MIPS core, over words of eight bits: each instruction  *)
(* with bit tricks over pairs of values at the edges of the word, unaligned *)
(* copies, copies of doubles through both banks, a jump, branch or call    *)
(* over marked code, and one program of every other instruction.           *)
(***************************************************************************)
EXTENDS MipsCore

MCHost(op, values) == (values[1] + Len(values)) % 2 ^ WordBits

Values == {0, 1, 2, 3, 5, 7, 63, 64, 85, 121, 126, 127, 128, 129, 135, 170, 191, 192, 250, 252, 254, 255}
Registers == {0, 1, 2, 3, 4, 5, 7, 31}
Bank(a, b, ra) == [r \in Registers |-> CASE r = 4 -> a [] r = 5 -> b [] r = 31 -> ra [] r = 2 -> 90 [] OTHER -> 0]
Floats == [f \in 0 .. 5 |-> 17 * f]
Data(first, last, salt) == [a \in first .. last |-> (a + a \div 4 + salt) % 2 ^ ByteBits]

Default == [op |-> "nop", rs |-> 4, rt |-> 5, rd |-> 2, shamt |-> 0, imm |-> 0, addr |-> 0, double |-> FALSE]
Op(op) == [Default EXCEPT !.op = op]
Program(code, banks, mems) == [code |-> code, RB |-> banks, RBF |-> {Floats}, mem |-> mems]

Nothing == {[a \in {} |-> 0]}
Pairs == {Bank(a, b, 32) : a, b \in Values}

\* One instruction, with the fields its result depends on.
ResultOps ==
  {Op(op) : op \in {"mult", "multu", "div", "divu", "seb", "seh", "srav", "rotrv", "clz"}}
    \cup {[Op(op) EXCEPT !.shamt = n] : op \in {"sra", "rotr"}, n \in 0 .. 7}
    \cup {[Op("ext") EXCEPT !.rd = e[1], !.shamt = e[2]] : e \in {x \in (0 .. 5) \X (0 .. 7) : x[1] + x[2] < 8}}
    \cup {[Op("addi") EXCEPT !.imm = n] : n \in {-8, -7, -1, 0, 1, 4, 7}}
Results == {Program(<<i>>, Pairs, Nothing) : i \in ResultOps}

\* From $4 to $5 through $2.
At(op, r, n) == [Op(op) EXCEPT !.rs = r, !.rt = 2, !.imm = n]
Both(left, right, r) == {<<At(left, r, 0), At(right, r, 3)>>, <<At(right, r, 3), At(left, r, 0)>>}
Unaligned ==
  {Program(load \o store,
           {[Bank(from, to, 32) EXCEPT ![2] = garbage] : from \in 64 .. 67, to \in 72 .. 75, garbage \in {0, 90, 255}},
           {Data(64, 79, salt) : salt \in 0 .. 1})
     : load \in Both("lwl", "lwr", 4), store \in Both("swl", "swr", 5)}

\* From $4 to $5 through $f0 and $f2, and the words through $2 and $3.
Load == {[Op("ldc1") EXCEPT !.rs = 4, !.rt = 0], [Op("ldxc1") EXCEPT !.rs = 4, !.rt = 0, !.shamt = 0]}
Store == {[Op("sdc1") EXCEPT !.rs = 5, !.rt = 2], [Op("sdxc1") EXCEPT !.rs = 5, !.rt = 0, !.rd = 2]}
Low(op, f) == [Op(op) EXCEPT !.rt = 2, !.rd = f]
High(op, f) == [Op(op) EXCEPT !.rt = 3, !.rd = f]
Whole == {<<[Op(op) EXCEPT !.shamt = 2, !.rd = 0]>> : op \in {"movd", "movnd"}}
InWords ==
  {out \o in : out \in {<<Low("mfc1", 0), High("mfhc1", 0)>>, <<High("mfhc1", 0), Low("mfc1", 0)>>},
               in \in {<<Low("mtc1", 2), High("mthc1", 2)>>, <<High("mthc1", 2), Low("mtc1", 2)>>}}
Doubles ==
  {Program(<<load>> \o middle \o <<store>>, {Bank(64, 72, 32)}, {Data(64, 79, salt) : salt \in 0 .. 3})
     : load \in Load, middle \in Whole \cup InWords, store \in Store}

\* The marked code: instruction 5 is the target, 8 the end.
Mark(r) == [Op("addiu") EXCEPT !.rs = r, !.rt = r, !.imm = 1]
Marked(i, back) ==
  <<i, Mark(1), Mark(2), [Op("j") EXCEPT !.addr = 8], Op("nop"), Mark(3), [Op("jr") EXCEPT !.rs = back], Op("nop")>>
Links == {[Op("jalr") EXCEPT !.rd = r] : r \in {0, 7, 31}}
Controls ==
  {Program(Marked(i, 31), Pairs, Nothing)
     : i \in {[Op(op) EXCEPT !.imm = 4] : op \in {"beq", "bne", "blez", "bgtz", "bltz", "bgez", "bltzal", "bgezal", "bc1f", "bc1t"}}}
    \cup {Program(Marked([Op(op) EXCEPT !.addr = 5], 31), Pairs, Nothing) : op \in {"j", "jal"}}
    \cup {Program(Marked(i, IF i.rd = 7 THEN 7 ELSE 31), {Bank(20, b, 32) : b \in Values}, Nothing) : i \in Links}
    \cup {Program(Marked(Op("jr"), 31), {Bank(20, b, 32) : b \in Values}, Nothing)}

\* One program of each of the others; with a branch on the flag of a comparison.
Others ==
  {"lb", "lbu", "lh", "lhu", "lw", "ll", "sb", "sh", "sw", "sc", "lwc1", "lwxc1", "swc1", "swxc1",
   "absd", "sqrtd", "abss", "sqrts", "negd", "negs", "addd", "subd", "muld", "divd", "adds", "subs", "muls",
   "divs", "maddd", "msubd", "madds", "msubs", "cvtsd", "truncwd", "cvtds", "cvtdw", "cvtsw", "truncws", "movs",
   "addiu", "slti", "sltiu", "andi", "ori", "xori", "lui", "add", "addu", "sub", "subu", "slt", "sltu", "and", "or",
   "xor", "nor", "mul", "nop", "sll", "sllv", "srl", "srlv", "mfhi", "mflo", "mthi", "mtlo",
   "movz", "movn", "movf", "movt", "movzd", "movzs", "movns", "movtd", "movts", "movfd", "movfs",
   "sys_call", "break", "teq", "sync"}
Compares == {[Op(op) EXCEPT !.double = d] : op \in {"ceq", "cueq", "cole", "cule", "colt", "cult", "cun"}, d \in BOOLEAN}
Small(i) == [i EXCEPT !.rs = IF i.op \in {"maddd", "msubd"} THEN 0 ELSE 4, !.rt = IF i.op = "lwxc1" THEN 0 ELSE 4, !.imm = -2]
Covered ==
  {Program(<<Small(Op(op))>>, {Bank(66, b, 32) : b \in {0, 66}}, {Data(64, 79, 0)}) : op \in Others \ {"swxc1"}}
    \cup {Program(<<[Op("swxc1") EXCEPT !.rt = 0]>>, {Bank(64, 0, 32)}, {Data(64, 79, 0)})}
    \cup {Program(<<[i EXCEPT !.rt = 3], Op(op)>>, {Bank(1, 1, 32)}, Nothing)
            : i \in Compares, op \in {"bc1fl", "bc1tl"}}

MCPrograms == Results \cup Unaligned \cup Doubles \cup Controls \cup Covered
===============================================================================
