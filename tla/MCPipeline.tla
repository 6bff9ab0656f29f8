----------------------------- MODULE MCPipeline -----------------------------
EXTENDS Superscalar, TLC

CONSTANTS r1, r2, r3, hi   \* hi stands for hi and lo

Instr(t, rs, rt, dest, uses) ==
  [t |-> t, rs |-> rs, rt |-> rt, dest |-> dest, uses |-> uses, writes |-> {dest} \ {None}]

\* One that writes a register without telling.
Silent(t, rs, rt, reg) ==
  [t |-> t, rs |-> rs, rt |-> rt, dest |-> None, uses |-> {rs, rt} \ {None}, writes |-> {reg}]

mult == Silent("OUTRAS", r1, r2, hi)
mflo(reg) == Instr("OUTRAS", None, None, reg, {hi})
bltzal == Silent("BRANCH", r1, None, r2)
jal == Silent("JUMP", None, None, r2)

\* lw from an array and through its own result.
Loads ==
  {Instr("LOAD", r3, r1, r1, {r3}), Instr("LOAD", r3, r2, r2, {r3}), Instr("LOAD", r1, r1, r1, {r1})}

Arithmetic ==
  {Instr("OUTRAS", r1, r2, r1, {r1, r2}), Instr("OUTRAS", r2, r2, r1, {r2}),
   Instr("OUTRAS", r1, r1, r2, {r1}), mult, mflo(r1), mflo(r2)}

\* beq, bgtz, bltzal; j, jal, jr, jalr.
Branches ==
  {Instr("BRANCH", r1, r2, None, {r1, r2}), Instr("BRANCH", r1, r3, None, {r1, r3}),
   Instr("BRANCH", r1, None, None, {r1}), Instr("BRANCH", r2, None, None, {r2}), bltzal}
Jumps ==
  {Instr("JUMP", None, None, None, {}), jal, Instr("JUMP", r1, None, None, {r1}),
   Instr("JUMP", r1, None, r2, {r1})}

Kinds ==
  Loads \cup Arithmetic \cup Branches \cup Jumps
    \cup {Instr("STORE", r1, r2, None, {r1, r2}), Bubble}

\* addi rt, rs, imm writes rt and reads rs, but Instrucao gets both as sources;
\* lwl rt, offset(rs) reads both, but Instrucao gets rt as the destination only.
addi == Instr("OUTRAS", r2, r1, r1, {r2})
lwl == Instr("LOAD", r2, r1, r1, {r1, r2})

\* The history of 13 stages is longer: fewer instructions, the same shapes.
KindsOfTwo ==
  {Instr("LOAD", r1, r1, r1, {r1}), lwl, Instr("OUTRAS", r1, r2, r1, {r1, r2}), addi, mult, mflo(r2),
   Instr("BRANCH", r1, r2, None, {r1, r2}), bltzal,
   Instr("JUMP", None, None, None, {}), Instr("JUMP", r2, None, None, {r2}), Bubble}

\* Both instructions of a pair are any of these.
DualKinds ==
  {Instr("LOAD", r2, r2, r2, {r2}), Instr("STORE", r2, r1, None, {r1, r2}),
   Instr("OUTRAS", r1, r2, r1, {r1, r2}), mult, mflo(r2),
   Instr("BRANCH", r1, r2, None, {r1, r2}), jal, Instr("JUMP", r2, None, None, {r2})}

\* A load and an instruction that uses it, over and over.
LoadAndUse == {Instr("LOAD", r3, r1, r1, {r3}), Instr("OUTRAS", r1, r1, r2, {r1})}

MCProgram ==
  "PIPE5" :> Kinds @@ "PIPE7" :> LoadAndUse @@ "PIPE13" :> KindsOfTwo @@ "SUPERESCALAR" :> DualKinds
=============================================================================
