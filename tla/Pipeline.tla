------------------------------- MODULE Pipeline -------------------------------
(***************************************************************************)
(* The hazard detection of the pipeline simulator, in the builds with one  *)
(* pipeline of 5, 7 or 13 stages (Superscalar adds the one with two).      *)
(* Pipeline::p is the history of the last instructions and bubbles, newest *)
(* first; insere_instr pushes one and update compares it with the older    *)
(* ones, puts bubbles between them and charges cycles.                     *)
(*                                                                         *)
(* Beside the code runs a reference, the schedule relatorio.md describes:  *)
(* how many cycles ago each register was written, and how many cycles an   *)
(* instruction that reads it must stay behind.  It goes by the registers   *)
(* the instructions really read and write.  The code goes by what they     *)
(* tell Instrucao, and some do not tell all: debt is what the reference    *)
(* has charged for the data hazards that are told and the code has not,    *)
(* and unseen says whether it has charged for others.                      *)
(***************************************************************************)
EXTENDS Integers, FiniteSetsExt

CONSTANTS
  Builds,      \* of {"PIPE5", "PIPE7", "PIPE13", "SUPERESCALAR"}
  Registers,   \* those the program writes, hi and lo among them
  HiLo,        \* hi and lo
  None,        \* -1
  Program,     \* for each build, instructions [t, rs, rt, dest, uses, writes]; uses
               \* and writes are what one really reads and writes, the rest what
               \* Instrucao is told
  MaxDebt      \* bound on the difference between code and reference

Bubble == [t |-> "BUBBLE", rs |-> None, rt |-> None, dest |-> None, uses |-> {}, writes |-> {}]

Data == {"OUTRAS", "STORE", "LOAD"}
Control == {"BRANCH", "JUMP"}

ASSUME PipelineAssumption ==
  /\ Builds \subseteq {"PIPE5", "PIPE7", "PIPE13", "SUPERESCALAR"}
  /\ None \notin Registers /\ HiLo \subseteq Registers /\ MaxDebt \in Nat
  /\ \A b \in Builds : \A i \in Program[b] :
       /\ i.t \in Data \cup Control \cup {"BUBBLE"}
       /\ i.uses \subseteq Registers /\ i.writes \subseteq Registers
       /\ i.dest \in Registers \cup {None}

VARIABLES
  build,     \* the macro that is defined
  p,         \* the part of the history that update reads
  since,     \* cycles since each register was written
  writer,    \* what kind of instruction wrote it
  hidden,    \* the registers whose last writer has not told so
  debt,
  unseen,
  slot       \* the next instruction is in a delay slot

vars == <<build, p, since, writer, hidden, debt, unseen, slot>>

\* Entries past the last one that update compares are never read: only shifts
\* reach them, and these move entries towards the end.
Seen == IF build = "PIPE13" THEN 5 ELSE IF build = "PIPE7" THEN 4 ELSE 3

MISSPREDICT_PENALTY == IF build = "PIPE13" THEN 13 ELSE IF build = "PIPE7" THEN 2 ELSE 1
Far == 5

Init ==
  /\ build \in Builds
  /\ p = [k \in 0 .. Seen - 1 |-> Bubble]
  /\ since = [r \in Registers |-> Far]
  /\ writer = [r \in Registers |-> "BUBBLE"]
  /\ hidden = {}
  /\ debt = 0 /\ unseen = FALSE
  /\ slot = FALSE

-----------------------------------------------------------------------------
\* Pipeline::stall: cicles bubbles behind position pos.
Stall(q, pos, cicles) ==
  [k \in DOMAIN q |-> IF k <= pos THEN q[k] ELSE IF k <= pos + cicles THEN Bubble ELSE q[k - cicles]]

\* The shifts of insere_instr: a new head, n bubbles in front.
Push(q, i) == [k \in DOMAIN q |-> IF k = 0 THEN i ELSE q[k - 1]]
Flush(q, n) == [k \in DOMAIN q |-> IF k < n THEN Bubble ELSE q[k - n]]

\* The registers update takes an instruction to read: rs only for a LOAD, a
\* JUMP and a BRANCH without rt.
Sources(i) ==
  IF i.t \in {"OUTRAS", "STORE", "BRANCH"} THEN {i.rs, i.rt} \ {None}
  ELSE IF i.t \in {"LOAD", "JUMP"} THEN {i.rs} \ {None}
  ELSE {}

DependsOn(i, j) == j.dest \in Sources(i)

\* What the instructions tell of themselves, and what not: mult, multu, div, divu,
\* mthi and mtlo write hi and lo, mfhi and mflo read them, and none says so; lwl and
\* lwr keep a part of the register they load; jal, bltzal and bgezal write $31;
\* addi and its siblings name the register they write as one they read.
ASSUME ToldAssumption ==
  \A b \in Builds : \A i \in Program[b] :
    /\ i.dest # None => i.dest \in i.writes \ HiLo
    /\ Sources(i) \cap HiLo = {}
    /\ Sources(i) \cap Registers \subseteq i.uses \cup {i.dest}
    /\ i.uses \ Sources(i) \subseteq CASE i.t = "OUTRAS" -> HiLo
                                      [] i.t = "LOAD" -> {i.dest}
                                      [] OTHER -> {}
    /\ i.writes \ {i.dest} \subseteq CASE i.t = "OUTRAS" -> HiLo
                                      [] i.t \in Control -> Registers \ HiLo
                                      [] OTHER -> {}
    /\ i.uses \cap HiLo # {} => i.rs = None /\ i.rt = None
    /\ i.writes \cap HiLo # {} => i.dest = None
    /\ i.t \in {"STORE", "BRANCH", "BUBBLE"} => i.dest = None
    /\ i.t = "LOAD" => i.dest # None

\* One comparison: p[of] against p[from] when that is of a given kind; if they
\* depend, cicles bubbles go behind pos.
Rule(of, from, kinds, pos, cicles) ==
  [of |-> of, from |-> from, kinds |-> kinds, pos |-> pos, cicles |-> cicles]

\* LOAD followed by an instruction that is not a branch.  With 5 stages the
\* pair is compared one insertion after the second has come in.
LoadRules ==
  IF build = "PIPE5" THEN <<Rule(1, 2, {"LOAD"}, 1, 1)>>
  ELSE IF build = "PIPE7" THEN <<Rule(0, 2, {"LOAD"}, 0, 1), Rule(1, 2, {"LOAD"}, 1, 2)>>
  ELSE <<>>

\* Mutant: a load two instructions before a branch is forgotten.
NearControlRules(i) ==
  IF build = "PIPE5" THEN <<Rule(0, 1, {"LOAD"}, 0, 2), Rule(0, 1, {"OUTRAS"}, 0, 1)>>
  ELSE IF build = "PIPE7" THEN <<Rule(0, 1, {"LOAD"}, 0, 3), Rule(0, 1, {"OUTRAS"}, 0, 1)>>
  ELSE <<>>

\* Branches, and jumps through a register.
ControlRules(i) ==
  IF build = "PIPE5" THEN
    <<Rule(0, 1, {"LOAD"}, 0, 2),
      Rule(0, 1, {"OUTRAS"}, 0, 1),
      Rule(0, 2, {"LOAD"}, IF i.t = "BRANCH" /\ i.rt # None THEN 1 ELSE 0, 1)>>
  ELSE IF build = "PIPE7" THEN
    <<Rule(0, 1, {"LOAD"}, 0, 3),
      Rule(0, 1, {"OUTRAS"}, 0, 1),
      Rule(0, 2, {"LOAD"}, 0, 2),
      Rule(0, 3, {"LOAD"}, 0, 1)>>
  ELSE <<>>

\* Mutant: the comparison with p[4] is missing.
ThreeRules ==
  IF build = "PIPE13" THEN [k \in 1 .. 3 |-> Rule(0, k, Data \cup Control, k - 1, 5 - k)] ELSE <<>>

\* With 13 stages every instruction is compared with the four before it.
\* After one comparison holds, the later ones meet the bubbles it inserted.
AnyRules ==
  IF build = "PIPE13" THEN [k \in 1 .. 4 |-> Rule(0, k, Data \cup Control, k - 1, 5 - k)] ELSE <<>>

Applies(rule, consumers, q) ==
  /\ q[rule.of].t \in consumers
  /\ q[rule.from].t \in rule.kinds
  /\ DependsOn(q[rule.of], q[rule.from])

\* if ... else if ...: the first rule that applies, if any.
Charge(rules, consumers, q) ==
  LET hits == {n \in DOMAIN rules : Applies(rules[n], consumers, q)}
  IN IF hits = {} THEN [p |-> q, cicles |-> 0]
     ELSE LET rule == rules[Min(hits)]
          IN [p |-> Stall(q, rule.pos, rule.cicles), cicles |-> rule.cicles]

\* Pipeline::update, with ciclos_arit, ciclos_load and ciclos_branch in one:
\* the end of the simulation only adds them up.
Update(q) ==
  LET load == Charge(LoadRules, Data, q)
      branch == Charge(ControlRules(q[0]), Control, load.p)
      any == Charge(AnyRules, Data \cup Control, branch.p)
  IN [p |-> any.p, cicles |-> load.cicles + branch.cicles + any.cicles]

\* Bubbles in front: after a jump always, after a branch if it was predicted
\* wrong.  Jumps and branches have the same penalty in all three pipelines.
Penalty(i, missed) == IF i.t = "JUMP" \/ missed THEN MISSPREDICT_PENALTY ELSE 0

-----------------------------------------------------------------------------
\* The reference: the least distance in cycles between an instruction of kind
\* t and the one of kind w that wrote a register it reads.  Results forward
\* between arithmetic instructions; with 7 stages every case takes one cycle
\* more; with 13 nothing is forwarded.
Needed(w, t) ==
  IF w = "BUBBLE" THEN 0
  ELSE IF build = "PIPE13" THEN 5
  ELSE LET five == IF t \in Data
                     THEN IF w = "LOAD" THEN 2
                          ELSE IF w = "OUTRAS" /\ build = "SUPERESCALAR" THEN 1 ELSE 0
                   ELSE IF w = "LOAD" THEN 3 ELSE IF w = "OUTRAS" THEN 2 ELSE 0
       IN IF five = 0 THEN 0 ELSE IF build = "PIPE7" THEN five + 1 ELSE five

StallsFor(i, regs) == Max({0} \cup {Needed(writer[r], i.t) - since[r] : r \in regs})
ReferenceStalls(i) == StallsFor(i, i.uses)

\* Of these, the ones between instructions that tell of the register, both.
Told(i) == i.uses \cap Sources(i)
ToldStalls(i) == StallsFor(i, Told(i) \ hidden)

-----------------------------------------------------------------------------
\* Pipeline::insere_instr.  The default predictors are static, so a branch may
\* be predicted right or wrong.  A branch or jump is followed by its delay slot,
\* where compilers put neither.
Insert(i, missed) ==
  LET now == Update(Push(p, i))
      stalls == ReferenceStalls(i)
      lost == Penalty(i, missed)
      later(cycles) == IF cycles > Far THEN Far ELSE cycles
  IN
  /\ missed => i.t = "BRANCH"
  /\ slot => i.t \notin Control
  /\ -MaxDebt < debt /\ debt < MaxDebt
  /\ p' = Flush(now.p, lost)
  /\ since' = [r \in Registers |-> IF r \in i.writes THEN later(1 + lost)
                                   ELSE later(since[r] + stalls + 1 + lost)]
  /\ writer' = [r \in Registers |-> IF r \in i.writes THEN i.t ELSE writer[r]]
  /\ hidden' = (hidden \cup i.writes) \ {i.dest}
  /\ debt' = debt + ToldStalls(i) - now.cicles
  /\ unseen' = (unseen \/ stalls > ToldStalls(i))
  /\ slot' = (i.t \in Control)
  /\ UNCHANGED build

Next == \E i \in Program[build], missed \in BOOLEAN : Insert(i, missed)

Spec == Init /\ [][Next]_vars

-----------------------------------------------------------------------------
\* The stalls of the newest instruction that the code charges only when the
\* next one comes in.
Pending ==
  IF build # "PIPE13" /\ p[0].t \in Data /\ p[1].t = "LOAD" /\ p[1].dest \in Told(p[0])
    THEN IF build = "PIPE5" THEN 1 ELSE 2
    ELSE 0

\* relatorio.md, "Hazards estudados": the code charges every data hazard of the
\* program, with the number of cycles given there, and no other.  None is between
\* instructions that do not tell of it.
ReportedStalls == debt = Pending /\ ~unseen

\* With 5 stages it does, although the load rule comes one insertion late and
\* its bubble goes behind the second instruction, and although nobody tells of hi
\* and lo and no call of $31: with 5 stages these are never waited for.  This is
\* about programs without addi and its siblings, lwl and lwr.
FiveStagesExact == build = "PIPE5" => ReportedStalls

\* With 5 and 13 stages no data hazard of which both instructions tell is charged
\* too little, wherever the bubbles go, whatever addi tells besides, and although
\* the schedule also stalls for hi, lo and $31, which nobody tells of.
ToldHazardsCharged == build \in {"PIPE5", "PIPE13"} => debt <= Pending
=============================================================================
